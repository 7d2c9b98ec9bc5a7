---------------------------- MODULE InjectionProofs ----------------------------
(***************************************************************************)
(* What sendtoErr() does to the datagrams of a process, for every          *)
(* environment, command line, number of processes and length of datagram:  *)
(* the settings stay what the environment makes them, a drop list decides  *)
(* alone, and what leaves a process leaves it as LossyLink says.           *)
(***************************************************************************)
EXTENDS ErrorInjection, SequenceTheorems, TLAPS

--------------------------------------------------------------------------------
(* The elements of a list of events.                                       *)

Elements(s) == {s[i] : i \in DOMAIN s}

(* Appending adds one element ...                                          *)
LEMMA ElementsOfAppend ==
    ASSUME NEW S, NEW s \in Seq(S), NEW x \in S
    PROVE  Elements(Append(s, x)) = Elements(s) \cup {x}
  <1>1. /\ Append(s, x) \in Seq(S) /\ Len(s) \in Nat
        /\ DOMAIN s = 1 .. Len(s) /\ DOMAIN Append(s, x) = 1 .. Len(s) + 1
        /\ \A i \in 1 .. Len(s) : Append(s, x)[i] = s[i]
        /\ Append(s, x)[Len(s) + 1] = x
    BY AppendProperties
  <1>2. ASSUME NEW y \in Elements(Append(s, x))
        PROVE  y \in Elements(s) \cup {x}
    <2>1. PICK i \in 1 .. Len(s) + 1 : y = Append(s, x)[i]
      BY <1>1, <1>2 DEF Elements
    <2>2. i \in 1 .. Len(s) \/ i = Len(s) + 1
      BY <1>1
    <2> QED BY <1>1, <2>1, <2>2 DEF Elements
  <1>3. ASSUME NEW y \in Elements(s) \cup {x}
        PROVE  y \in Elements(Append(s, x))
    <2>1. CASE y = x
      <3>1. Len(s) + 1 \in 1 .. Len(s) + 1
        BY <1>1
      <3> QED BY <1>1, <2>1, <3>1 DEF Elements
    <2>2. ASSUME NEW i \in 1 .. Len(s), y = s[i]
          PROVE  y \in Elements(Append(s, x))
      <3>1. i \in 1 .. Len(s) + 1 /\ y = Append(s, x)[i]
        BY <1>1, <2>2
      <3> QED BY <1>1, <3>1 DEF Elements
    <2> QED BY <1>1, <1>3, <2>1, <2>2 DEF Elements
  <1> QED BY <1>2, <1>3

(* ... and a concatenation has those of both.                              *)
LEMMA ElementsOfConcat ==
    ASSUME NEW S, NEW s \in Seq(S), NEW t \in Seq(S)
    PROVE  s \o t \in Seq(S) /\ Elements(s \o t) = Elements(s) \cup Elements(t)
  <1>1. /\ s \o t \in Seq(S) /\ Len(s) \in Nat /\ Len(t) \in Nat
        /\ DOMAIN s = 1 .. Len(s) /\ DOMAIN t = 1 .. Len(t)
        /\ DOMAIN (s \o t) = 1 .. Len(s) + Len(t)
        /\ \A i \in 1 .. Len(s) + Len(t) :
               (s \o t)[i] = IF i <= Len(s) THEN s[i] ELSE t[i - Len(s)]
    BY ConcatProperties
  <1>2. ASSUME NEW y \in Elements(s \o t)
        PROVE  y \in Elements(s) \cup Elements(t)
    <2>1. PICK i \in 1 .. Len(s) + Len(t) : y = (s \o t)[i]
      BY <1>1, <1>2 DEF Elements
    <2>2. CASE i \in 1 .. Len(s)
      BY <1>1, <2>1, <2>2 DEF Elements
    <2>3. CASE i - Len(s) \in 1 .. Len(t)
      BY <1>1, <2>1, <2>3 DEF Elements
    <2> QED BY <1>1, <2>1, <2>2, <2>3
  <1>3. ASSUME NEW y \in Elements(s) \cup Elements(t)
        PROVE  y \in Elements(s \o t)
    <2>1. ASSUME NEW i \in 1 .. Len(s), y = s[i]
          PROVE  y \in Elements(s \o t)
      <3>1. i \in 1 .. Len(s) + Len(t) /\ y = (s \o t)[i]
        BY <1>1, <2>1
      <3> QED BY <1>1, <3>1 DEF Elements
    <2>2. ASSUME NEW i \in 1 .. Len(t), y = t[i]
          PROVE  y \in Elements(s \o t)
      <3>1. Len(s) + i \in 1 .. Len(s) + Len(t) /\ ~(Len(s) + i <= Len(s))
            /\ Len(s) + i - Len(s) = i
        BY <1>1
      <3>2. y = (s \o t)[Len(s) + i]
        BY <1>1, <2>2, <3>1
      <3> QED BY <1>1, <3>1, <3>2 DEF Elements
    <2> QED BY <1>1, <1>3, <2>1, <2>2 DEF Elements
  <1> QED BY <1>1, <1>2, <1>3

(* The two shortest lists.                                                 *)
LEMMA ShortLists ==
    ASSUME NEW S
    PROVE  /\ << >> \in Seq(S) /\ Elements(<< >>) = {}
           /\ \A x \in S : <<x>> \in Seq(S) /\ Elements(<<x>>) = {x}
  <1>1. << >> \in Seq(S) /\ \A x \in S : <<x>> \in Seq(S)
    OBVIOUS
  <1>2. Elements(<< >>) = {} /\ \A x \in S : Elements(<<x>>) = {x}
    BY DEF Elements
  <1> QED BY <1>1, <1>2

--------------------------------------------------------------------------------
(* The events of the settings.                                             *)

(* What each constructor makes is an event of its own kind.                *)
LEMMA EventTypes ==
    /\ InfoEvent \in Event /\ InfoEvent.kind = "info"
    /\ FlipEvent \in Event /\ FlipEvent.kind = "flip"
    /\ DropAllEvent \in Event /\ DropAllEvent.kind = "drop"
    /\ \A list \in SUBSET Nat :
           DropListed(list) \in Event /\ DropListed(list).kind = "drop"
                /\ DropListed(list).all = FALSE /\ DropListed(list).list = list
  BY DEF InfoEvent, FlipEvent, DropAllEvent, DropListed, Event

(* What is taken from a list variable are naturals.                        *)
LEMMA ListedType == \A tokens : Listed(tokens) \in SUBSET Nat
  BY DEF Listed

(* The constructor's lists of events, and what is in them.                 *)
LEMMA EnvEvents ==
    /\ EnvStandard(env) \in Seq(Event) /\ EnvChance(env) \in Seq(Event)
    /\ Elements(EnvStandard(env)) =
           IF NamesMessages(env.drop)
           THEN {DropListed(Listed(env.drop))} ELSE {}
    /\ Elements(EnvChance(env)) =
           (IF ListSet(env.drop) /\ Listed(env.drop) = {} THEN {DropAllEvent} ELSE {})
           \cup (IF ListSet(env.flip) /\ Listed(env.flip) = {} THEN {FlipEvent} ELSE {})
  <1> DEFINE a == IF ListSet(env.drop) /\ Listed(env.drop) = {} THEN <<DropAllEvent>> ELSE << >>
             b == IF ListSet(env.flip) /\ Listed(env.flip) = {} THEN <<FlipEvent>> ELSE << >>
  <1>1. DropListed(Listed(env.drop)) \in Event /\ DropAllEvent \in Event /\ FlipEvent \in Event
    BY EventTypes, ListedType
  <1>2. /\ EnvStandard(env) \in Seq(Event)
        /\ Elements(EnvStandard(env)) =
               IF NamesMessages(env.drop)
               THEN {DropListed(Listed(env.drop))} ELSE {}
    BY <1>1, ShortLists, Zenon DEF EnvStandard
  <1>3. a \in Seq(Event) /\ b \in Seq(Event)
        /\ Elements(a) = (IF ListSet(env.drop) /\ Listed(env.drop) = {} THEN {DropAllEvent} ELSE {})
        /\ Elements(b) = (IF ListSet(env.flip) /\ Listed(env.flip) = {} THEN {FlipEvent} ELSE {})
    BY <1>1, ShortLists, Zenon
  <1>4. EnvChance(env) = a \o b
    BY DEF EnvChance
  <1> HIDE DEF a, b
  <1>5. a \o b \in Seq(Event) /\ Elements(a \o b) = Elements(a) \cup Elements(b)
    BY <1>3, ElementsOfConcat
  <1> QED BY <1>2, <1>3, <1>4, <1>5

(* So for what sendErr_init() adds.                                        *)
LEMMA UserEvents ==
    /\ UserChance \in Seq(Event)
    /\ Elements(UserChance) =
           (IF ListSet(env.drop) THEN {} ELSE {DropAllEvent})
           \cup (IF ListSet(env.flip) THEN {} ELSE {FlipEvent})
  <1> DEFINE a == IF ListSet(env.drop) THEN << >> ELSE <<DropAllEvent>>
             b == IF ListSet(env.flip) THEN << >> ELSE <<FlipEvent>>
  <1>1. DropAllEvent \in Event /\ FlipEvent \in Event
    BY EventTypes
  <1>2. a \in Seq(Event) /\ b \in Seq(Event)
        /\ Elements(a) = (IF ListSet(env.drop) THEN {} ELSE {DropAllEvent})
        /\ Elements(b) = (IF ListSet(env.flip) THEN {} ELSE {FlipEvent})
    BY <1>1, ShortLists, Zenon
  <1>3. UserChance = a \o b
    BY DEF UserChance
  <1> HIDE DEF a, b
  <1>4. a \o b \in Seq(Event) /\ Elements(a \o b) = Elements(a) \cup Elements(b)
    BY <1>2, ElementsOfConcat
  <1> QED BY <1>2, <1>3, <1>4

--------------------------------------------------------------------------------
(* The invariant: every process has the settings that its environment and, *)
(* once it has made it, its own call of sendErr_init() give it.            *)

StandardOf(p) ==
    IF p \in initialised THEN Append(EnvStandard(env), InfoEvent) ELSE EnvStandard(env)

ChanceOf(p) == IF p \in initialised THEN EnvChance(env) \o UserChance ELSE EnvChance(env)

(* The main server never sends; a child starts with all still to do.       *)
StartInv ==
    /\ Main \in running
    /\ program = "server" => Main \notin initialised
    /\ \A p \in Process \ initialised : manager[p].msgNo = 0 /\ wire[p] = << >>

SettingsInv ==
    \A p \in Process :
        /\ manager[p].standard = StandardOf(p)
        /\ manager[p].chance = ChanceOf(p)
        /\ p \in initialised => manager[p].errorRate = RateInForce
        /\ IsNumber(env.rate) => manager[p].errorRate = env.rate
        /\ IsNumber(env.seed) => manager[p].seed = env.seed

InjectionInv == TypeOK /\ StartInv /\ SettingsInv /\ ListDecides

Settings == [errorRate : Int, seed : Int, standard : Seq(Event),
             chance : Seq(Event), msgNo : 0 .. MaxSends, nextSeed : Int]

(* The types, unfolded.                                                    *)
LEMMA SettingsTypes ==
    ASSUME TypeOK
    PROVE  /\ manager \in [Process -> Settings]
           /\ \A p \in Process :
                  /\ manager[p] \in Settings
                  /\ manager[p].errorRate \in Int /\ manager[p].seed \in Int
                  /\ manager[p].standard \in Seq(Event) /\ manager[p].chance \in Seq(Event)
                  /\ manager[p].msgNo \in 0 .. MaxSends /\ manager[p].nextSeed \in Int
           /\ rate \in Int /\ clock \in Int
           /\ IsNumber(env.rate) => env.rate \in Int
           /\ IsNumber(env.seed) => env.seed \in Int
  <1>1. manager \in [Process -> Settings]
    BY DEF TypeOK, Settings
  <1>2. rate \in Int /\ clock \in Int
    BY InjectionAssumption DEF TypeOK
  <1>3. {env.rate, env.seed} \subseteq Int \cup {Unset, Junk}
    BY InjectionAssumption DEF TypeOK
  <1> QED BY <1>1, <1>2, <1>3 DEF Settings, IsNumber

(* A manager is the record of its fields.                                  *)
LEMMA SettingsRecord ==
    ASSUME NEW m \in Settings
    PROVE  m = [errorRate |-> m.errorRate, seed |-> m.seed, standard |-> m.standard,
                chance |-> m.chance, msgNo |-> m.msgNo, nextSeed |-> m.nextSeed]
  BY DEF Settings

(* The events a process has.                                               *)
LEMMA EventsOfProcess ==
    ASSUME SettingsInv, NEW p \in Process
    PROVE  /\ Elements(manager[p].standard) =
                  (IF NamesMessages(env.drop)
                   THEN {DropListed(Listed(env.drop))} ELSE {})
                  \cup (IF p \in initialised THEN {InfoEvent} ELSE {})
           /\ Elements(manager[p].chance) =
                  (IF ListSet(env.drop) /\ Listed(env.drop) = {} THEN {DropAllEvent} ELSE {})
                  \cup (IF ListSet(env.flip) /\ Listed(env.flip) = {} THEN {FlipEvent} ELSE {})
                  \cup (IF p \in initialised /\ ~ListSet(env.drop) THEN {DropAllEvent} ELSE {})
                  \cup (IF p \in initialised /\ ~ListSet(env.flip) THEN {FlipEvent} ELSE {})
  <1>1. manager[p].standard = StandardOf(p) /\ manager[p].chance = ChanceOf(p)
    BY DEF SettingsInv
  <1>2. Elements(Append(EnvStandard(env), InfoEvent)) = Elements(EnvStandard(env)) \cup {InfoEvent}
    BY EnvEvents, EventTypes, ElementsOfAppend
  <1>3. Elements(EnvChance(env) \o UserChance) = Elements(EnvChance(env)) \cup Elements(UserChance)
    BY EnvEvents, UserEvents, ElementsOfConcat
  <1>4. Elements(manager[p].standard) =
            Elements(EnvStandard(env)) \cup (IF p \in initialised THEN {InfoEvent} ELSE {})
    BY <1>1, <1>2 DEF StandardOf
  <1>5. Elements(manager[p].chance) =
            Elements(EnvChance(env)) \cup (IF p \in initialised THEN Elements(UserChance) ELSE {})
    BY <1>1, <1>3 DEF ChanceOf
  <1> QED BY <1>4, <1>5, EnvEvents, UserEvents

(* The settings keep their type once sendErr_init() has been called.       *)
LEMMA StandardType ==
    /\ Append(EnvStandard(env), InfoEvent) \in Seq(Event)
    /\ EnvChance(env) \o UserChance \in Seq(Event)
  BY EnvEvents, UserEvents, EventTypes, AppendProperties, ElementsOfConcat

--------------------------------------------------------------------------------
(* The steps.                                                              *)

(* All processes start with the environment's settings and nothing sent.   *)
LEMMA InjectionInit == Init => InjectionInv
  <1> SUFFICES ASSUME Init PROVE InjectionInv
    OBVIOUS
  <1>1. /\ manager = [p \in Process |-> Loaded(env, 0)] /\ initialised = {}
        /\ wire = [p \in Process |-> << >>] /\ env \in Environments /\ clock = 0
        /\ running = {Main} /\ program \in {"rcopy", "server"} /\ rate \in Rates
    BY DEF Init
  <1>2. {env.rate, env.seed} \subseteq Int \cup {Unset, Junk}
    BY <1>1, InjectionAssumption
  <1>3. Loaded(env, 0) \in Settings
    <2>1. /\ (IF IsNumber(env.rate) THEN env.rate ELSE 0) \in Int
          /\ (IF IsNumber(env.seed) THEN env.seed ELSE 0) \in Int
          /\ 0 \in 0 .. MaxSends /\ RANDOM_SEED \in Int
      BY <1>2, InjectionAssumption DEF IsNumber, RANDOM_SEED
    <2> QED BY <2>1, EnvEvents DEF Loaded, Settings
  <1>4. TypeOK
    <2>1. manager \in [Process -> Settings]
      BY <1>1, <1>3
    <2>2. wire \in [Process -> Seq([number : 1 .. MaxSends, flipped : SUBSET Byte])]
      BY <1>1
    <2>3. 0 \in 0 .. MaxTime /\ Main \in Process
      BY InjectionAssumption
    <2> QED BY <1>1, <2>1, <2>2, <2>3 DEF TypeOK, Settings
  <1>5. StartInv
    BY <1>1 DEF StartInv, Loaded
  <1>6. SettingsInv
    BY <1>1 DEF SettingsInv, Loaded, StandardOf, ChanceOf
  <1>7. ListDecides
    <2>1. ASSUME NEW p \in Process
          PROVE  {wire[p][i].number : i \in DOMAIN wire[p]}
                     = (1 .. manager[p].msgNo) \ Listed(env.drop)
      <3>1. manager[p].msgNo = 0 /\ wire[p] = << >>
        BY <1>1 DEF Loaded
      <3>2. 1 .. 0 = {} /\ DOMAIN wire[p] = {}
        BY <3>1
      <3> QED BY <3>1, <3>2
    <2> QED BY <2>1 DEF ListDecides
  <1> QED BY <1>4, <1>5, <1>6, <1>7 DEF InjectionInv

(* sendErr_init() adds to the lists, and sets what is not overridden.      *)
LEMMA SendErrInitStep ==
    ASSUME InjectionInv, NEW p \in Process, SendErrInit(p)
    PROVE  InjectionInv'
  <1>1. TypeOK /\ StartInv /\ SettingsInv /\ ListDecides
    BY DEF InjectionInv
  <1>2. /\ p \in running /\ p \notin initialised /\ initialised' = initialised \cup {p}
        /\ program = "server" => p # Main
        /\ UNCHANGED <<program, rate, env, clock, running, wire>>
    BY DEF SendErrInit, startVars
  <1> DEFINE m == manager[p]
             new == [errorRate |-> UserRate(m), seed |-> UserSeed(m, clock),
                     standard |-> Append(m.standard, InfoEvent),
                     chance |-> m.chance \o UserChance,
                     msgNo |-> m.msgNo, nextSeed |-> clock]
  <1>3. /\ manager \in [Process -> Settings] /\ m \in Settings
        /\ m.standard = EnvStandard(env) /\ m.chance = EnvChance(env)
        /\ IsNumber(env.rate) => m.errorRate = env.rate
        /\ IsNumber(env.seed) => m.seed = env.seed
    BY <1>1, <1>2, SettingsTypes DEF SettingsInv, StandardOf, ChanceOf
  <1>4. manager' = [manager EXCEPT ![p] = new]
    <2>1. manager' = [manager EXCEPT
             ![p] = [m EXCEPT !.standard  = Append(m.standard, InfoEvent),
                              !.errorRate = UserRate(m),
                              !.chance    = m.chance \o UserChance,
                              !.seed      = UserSeed(m, clock),
                              !.nextSeed  = clock]]
      BY <1>3 DEF SendErrInit
    <2>2. m \in Settings
      BY <1>3
    <2> DEFINE standard == Append(m.standard, InfoEvent)
               rateNow  == UserRate(m)
               chance   == m.chance \o UserChance
               seed     == UserSeed(m, clock)
    <2> HIDE DEF m, standard, rateNow, chance, seed
    <2> DEFINE a == [m EXCEPT !.standard = standard]
               b == [a EXCEPT !.errorRate = rateNow]
               c == [b EXCEPT !.chance = chance]
               d == [c EXCEPT !.seed = seed]
               e == [d EXCEPT !.nextSeed = clock]
    <2>3. manager' = [manager EXCEPT ![p] = e]
      BY <2>1 DEF standard, rateNow, chance, seed
    <2>4. a = [errorRate |-> m.errorRate, seed |-> m.seed, standard |-> standard,
               chance |-> m.chance, msgNo |-> m.msgNo, nextSeed |-> m.nextSeed]
      BY <2>2, SettingsRecord
    <2> HIDE DEF a
    <2>5. b = [errorRate |-> rateNow, seed |-> m.seed, standard |-> standard,
               chance |-> m.chance, msgNo |-> m.msgNo, nextSeed |-> m.nextSeed]
      BY <2>4
    <2> HIDE DEF b
    <2>6. c = [errorRate |-> rateNow, seed |-> m.seed, standard |-> standard,
               chance |-> chance, msgNo |-> m.msgNo, nextSeed |-> m.nextSeed]
      BY <2>5
    <2> HIDE DEF c
    <2>7. d = [errorRate |-> rateNow, seed |-> seed, standard |-> standard,
               chance |-> chance, msgNo |-> m.msgNo, nextSeed |-> m.nextSeed]
      BY <2>6
    <2> HIDE DEF d
    <2>8. e = [errorRate |-> rateNow, seed |-> seed, standard |-> standard,
               chance |-> chance, msgNo |-> m.msgNo, nextSeed |-> clock]
      BY <2>7
    <2> HIDE DEF e
    <2> QED BY <2>3, <2>8, Zenon DEF m, standard, rateNow, chance, seed
  <1>5. /\ new.errorRate = RateInForce /\ new.errorRate \in Int
        /\ IsNumber(env.rate) => new.errorRate = env.rate
        /\ IsNumber(env.seed) => new.seed = env.seed
        /\ new.seed \in Int
    BY <1>1, <1>3, SettingsTypes DEF UserRate, UserSeed, RateInForce
  <1>6. /\ new.standard = Append(EnvStandard(env), InfoEvent) /\ new.standard \in Seq(Event)
        /\ new.chance = EnvChance(env) \o UserChance /\ new.chance \in Seq(Event)
        /\ new.msgNo = m.msgNo /\ new.nextSeed = clock
    BY <1>3, StandardType
  <1>7. new \in Settings
    BY <1>1, <1>3, <1>5, <1>6, SettingsTypes DEF Settings
  <1> HIDE DEF new
  <1>8. \A q \in Process : manager'[q] = IF q = p THEN new ELSE manager[q]
    BY <1>3, <1>4
  <1>9. TypeOK'
    <2>1. manager' \in [Process -> Settings]
      BY <1>3, <1>4, <1>7
    <2> QED BY <1>1, <1>2, <2>1 DEF TypeOK, Settings
  <1>10. StartInv'
    BY <1>1, <1>2, <1>8 DEF StartInv
  <1>11. SettingsInv'
    <2>1. RateInForce' = RateInForce /\ UserChance' = UserChance
          /\ EnvStandard(env)' = EnvStandard(env) /\ EnvChance(env)' = EnvChance(env)
      BY <1>2 DEF RateInForce, UserChance
    <2> SUFFICES ASSUME NEW q \in Process
                 PROVE  /\ manager'[q].standard = StandardOf(q)'
                        /\ manager'[q].chance = ChanceOf(q)'
                        /\ q \in initialised' => manager'[q].errorRate = RateInForce'
                        /\ IsNumber(env.rate) => manager'[q].errorRate = env.rate
                        /\ IsNumber(env.seed) => manager'[q].seed = env.seed
      BY <1>2 DEF SettingsInv
    <2>2. CASE q = p
      BY <1>2, <1>5, <1>6, <1>8, <2>1, <2>2 DEF StandardOf, ChanceOf
    <2>3. CASE q # p
      BY <1>1, <1>2, <1>8, <2>1, <2>3 DEF SettingsInv, StandardOf, ChanceOf
    <2> QED BY <2>2, <2>3
  <1>12. ListDecides'
    <2>1. \A q \in Process : manager'[q].msgNo = manager[q].msgNo
      BY <1>6, <1>8
    <2> QED BY <1>1, <1>2, <2>1 DEF ListDecides
  <1> QED BY <1>9, <1>10, <1>11, <1>12 DEF InjectionInv

(* forkMod() copies the settings of the main server, which has never       *)
(* called sendErr_init(): the child's are those of the environment.        *)
LEMMA ForkStep ==
    ASSUME InjectionInv, NEW child \in Process, Fork(child)
    PROVE  /\ InjectionInv'
           /\ \A p \in Process : manager'[p].msgNo = manager[p].msgNo
  <1>1. TypeOK /\ StartInv /\ SettingsInv /\ ListDecides
    BY DEF InjectionInv
  <1>2. /\ program = "server" /\ child \notin running /\ running' = running \cup {child}
        /\ UNCHANGED <<program, rate, env, clock, initialised, wire>>
    BY DEF Fork, startVars
  <1>3. /\ Main \in Process /\ Main # child /\ child \notin initialised
        /\ Main \notin initialised /\ initialised \subseteq running
    BY <1>1, <1>2, InjectionAssumption DEF TypeOK, StartInv
  <1> DEFINE m    == manager[Main]
             up   == [m EXCEPT !.nextSeed = m.nextSeed + 1]
             copy == [up EXCEPT !.seed = UserSeed(up, m.nextSeed)]
  <1>4. /\ manager \in [Process -> Settings] /\ m \in Settings
        /\ m.standard = EnvStandard(env) /\ m.chance = EnvChance(env) /\ m.msgNo = 0
        /\ IsNumber(env.rate) => m.errorRate = env.rate
        /\ IsNumber(env.seed) => m.seed = env.seed
    BY <1>1, <1>3, SettingsTypes DEF SettingsInv, StartInv, StandardOf, ChanceOf
  <1>5. manager' = [[manager EXCEPT ![Main] = up] EXCEPT ![child] = copy]
    BY DEF Fork
  <1>6. m.nextSeed \in Int
    BY <1>4 DEF Settings
  <1> HIDE DEF m
  <1>7. /\ up \in Settings /\ up.standard = m.standard /\ up.chance = m.chance
        /\ up.errorRate = m.errorRate /\ up.seed = m.seed /\ up.msgNo = m.msgNo
    <2>1. up = [errorRate |-> m.errorRate, seed |-> m.seed, standard |-> m.standard,
                chance |-> m.chance, msgNo |-> m.msgNo, nextSeed |-> m.nextSeed + 1]
      BY <1>4, SettingsRecord
    <2> HIDE DEF up
    <2> QED BY <1>4, <1>6, <2>1 DEF Settings
  <1> HIDE DEF up
  <1>8. /\ copy \in Settings /\ copy.standard = m.standard /\ copy.chance = m.chance
        /\ copy.errorRate = m.errorRate /\ copy.msgNo = m.msgNo
        /\ IsNumber(env.seed) => copy.seed = env.seed
    <2>1. UserSeed(up, m.nextSeed) \in Int
          /\ (IsNumber(env.seed) => UserSeed(up, m.nextSeed) = env.seed)
      BY <1>4, <1>7, <1>6 DEF UserSeed, Settings
    <2> QED BY <1>7, <2>1 DEF Settings
  <1> HIDE DEF copy
  <1>9. \A p \in Process : manager'[p] = IF p = child THEN copy
                                         ELSE IF p = Main THEN up ELSE manager[p]
    BY <1>3, <1>4, <1>5 DEF m
  <1>10. \A p \in Process : manager'[p].msgNo = manager[p].msgNo
    BY <1>1, <1>3, <1>4, <1>7, <1>8, <1>9 DEF StartInv, m
  <1>11. TypeOK'
    <2>1. manager' \in [Process -> Settings]
      BY <1>4, <1>5, <1>7, <1>8
    <2> QED BY <1>1, <1>2, <2>1 DEF TypeOK, Settings
  <1>12. StartInv'
    BY <1>1, <1>2, <1>3, <1>10 DEF StartInv
  <1>13. SettingsInv'
    <2>1. RateInForce' = RateInForce /\ UserChance' = UserChance
          /\ EnvStandard(env)' = EnvStandard(env) /\ EnvChance(env)' = EnvChance(env)
      BY <1>2 DEF RateInForce, UserChance
    <2> SUFFICES ASSUME NEW q \in Process
                 PROVE  /\ manager'[q].standard = StandardOf(q)'
                        /\ manager'[q].chance = ChanceOf(q)'
                        /\ q \in initialised => manager'[q].errorRate = RateInForce
                        /\ IsNumber(env.rate) => manager'[q].errorRate = env.rate
                        /\ IsNumber(env.seed) => manager'[q].seed = env.seed
      BY <1>2, <2>1 DEF SettingsInv
    <2>2. CASE q \in {child, Main}
      BY <1>2, <1>3, <1>4, <1>7, <1>8, <1>9, <2>1, <2>2 DEF StandardOf, ChanceOf
    <2>3. CASE q \notin {child, Main}
      BY <1>1, <1>2, <1>9, <2>1, <2>3 DEF SettingsInv, StandardOf, ChanceOf
    <2> QED BY <2>2, <2>3
  <1>14. ListDecides'
    BY <1>1, <1>2, <1>10 DEF ListDecides
  <1> QED BY <1>10, <1>11, <1>12, <1>13, <1>14 DEF InjectionInv

(* What one call of sendto_Err() does, as a step of one process.           *)
LEMMA SendtoEffect ==
    ASSUME InjectionInv, NEW p \in Process, Sendto(p)
    PROVE  LET m == manager[p]
               n == m.msgNo + 1
           IN  /\ p \in initialised /\ n \in 1 .. MaxSends
               /\ manager' = [manager EXCEPT ![p] = [m EXCEPT !.msgNo = n]]
               /\ \A q \in Process :
                      /\ manager'[q].msgNo = IF q = p THEN n ELSE manager[q].msgNo
                      /\ \A f \in {"errorRate", "seed", "standard", "chance"} :
                             manager'[q][f] = manager[q][f]
               /\ manager' \in [Process -> Settings]
               /\ UNCHANGED <<program, rate, env, clock, running, initialised>>
               /\ \E draw \in Draws : \E chosen \in Chosen(m, draw) :
                      \/ Dropped(m, n, chosen) /\ UNCHANGED wire
                      \/ /\ ~Dropped(m, n, chosen)
                         /\ \E flipped \in FlippedBytes(chosen) :
                                wire' = [wire EXCEPT
                                    ![p] = Append(@, [number |-> n, flipped |-> flipped])]
  <1> DEFINE m == manager[p]
             n == m.msgNo + 1
             new == [m EXCEPT !.msgNo = n]
  <1>1. manager \in [Process -> Settings] /\ m \in Settings /\ m.msgNo \in 0 .. MaxSends
    BY SettingsTypes DEF InjectionInv
  <1>2. n \in 1 .. MaxSends /\ n \in 0 .. MaxSends
    BY <1>1, InjectionAssumption DEF Sendto
  <1>3. manager' = [manager EXCEPT ![p] = new]
    BY <1>1 DEF Sendto
  <1>4. /\ new \in Settings /\ new.msgNo = n
        /\ \A f \in {"errorRate", "seed", "standard", "chance"} : new[f] = m[f]
    BY <1>1, <1>2 DEF Settings
  <1>5. \A q \in Process : manager'[q] = IF q = p THEN new ELSE manager[q]
    BY <1>1, <1>3
  <1>6. manager' \in [Process -> Settings]
    BY <1>1, <1>3, <1>4
  <1>7. /\ p \in initialised /\ UNCHANGED <<program, rate, env, clock, running, initialised>>
        /\ \E draw \in Draws : \E chosen \in Chosen(m, draw) :
               \/ Dropped(m, n, chosen) /\ UNCHANGED wire
               \/ /\ ~Dropped(m, n, chosen)
                  /\ \E flipped \in FlippedBytes(chosen) :
                         wire' = [wire EXCEPT
                             ![p] = Append(@, [number |-> n, flipped |-> flipped])]
    BY DEF Sendto, startVars
  <1> HIDE DEF new
  <1>8. \A q \in Process :
            /\ manager'[q].msgNo = IF q = p THEN n ELSE manager[q].msgNo
            /\ \A f \in {"errorRate", "seed", "standard", "chance"} :
                   manager'[q][f] = manager[q][f]
    BY <1>4, <1>5
  <1> QED BY <1>2, <1>3, <1>6, <1>7, <1>8 DEF new

(* The chance events that run are events of the process, and run only      *)
(* where the draw is within its error rate.                                *)
LEMMA ChosenEvents ==
    ASSUME NEW m, NEW draw, NEW chosen \in Chosen(m, draw)
    PROVE  /\ chosen \subseteq Elements(m.chance)
           /\ chosen # {} => draw <= m.errorRate
  BY DEF Chosen, Elements

(* What each event does to a datagram.                                     *)
LEMMA DropsOfEvents ==
    ASSUME NEW n
    PROVE  /\ ~Drops(InfoEvent, n) /\ ~Drops(FlipEvent, n) /\ Drops(DropAllEvent, n)
           /\ \A list \in SUBSET Nat : Drops(DropListed(list), n) <=> n \in list
  BY EventTypes DEF Drops, DropAllEvent

(* A datagram is dropped by one of the events it meets.                    *)
LEMMA DroppedByEvent ==
    ASSUME NEW m, NEW n, NEW chosen
    PROVE  Dropped(m, n, chosen) <=> \E event \in Elements(m.standard) \cup chosen : Drops(event, n)
  BY DEF Dropped, Elements

(* With a drop list, it alone says whether a datagram is dropped.          *)
LEMMA ListDrops ==
    ASSUME SettingsInv, NEW p \in initialised, p \in Process, NEW n, NEW draw,
           NEW chosen \in Chosen(manager[p], draw),
           NamesMessages(env.drop)
    PROVE  Dropped(manager[p], n, chosen) <=> n \in Listed(env.drop)
  <1>1. /\ Elements(manager[p].standard) = {DropListed(Listed(env.drop)), InfoEvent}
        /\ Elements(manager[p].chance) \subseteq {FlipEvent}
    BY EventsOfProcess DEF NamesMessages
  <1>2. chosen \subseteq {FlipEvent}
    BY <1>1, ChosenEvents
  <1>3. /\ ~Drops(InfoEvent, n) /\ ~Drops(FlipEvent, n)
        /\ Drops(DropListed(Listed(env.drop)), n) <=> n \in Listed(env.drop)
    BY DropsOfEvents, ListedType
  <1> QED BY <1>1, <1>2, <1>3, DroppedByEvent

(* No draw of 0 meets a rate of 0: with those the code's `<=' and the      *)
(* headers' "0 means no errors" say the same.                              *)
ZeroIsNotDrawn ==
    0 \notin Draws \/ (0 \notin Rates /\ \A e \in Environments : e.rate # 0)

(* Then a datagram is dropped, and one is flipped, only where it was asked *)
(* for by the environment or the command line.                             *)
LEMMA OnlyWhereAsked ==
    ASSUME ZeroIsNotDrawn, TypeOK, SettingsInv, NEW p \in initialised, p \in Process,
           NEW n, NEW draw \in Draws, NEW chosen \in Chosen(manager[p], draw)
    PROVE  /\ Dropped(manager[p], n, chosen) => DropsAsked
           /\ FlipEvent \in chosen => FlipsAsked
  <1>1. manager[p].errorRate = RateInForce
    BY DEF SettingsInv
  <1>2. ASSUME chosen # {} PROVE RateInForce > 0
    <2>1. draw <= RateInForce
      BY <1>1, <1>2, ChosenEvents
    <2>2. draw \in Nat /\ RateInForce \in Int
      BY SettingsTypes, InjectionAssumption DEF RateInForce
    <2>3. 0 \in Draws => RateInForce # 0
      BY DEF ZeroIsNotDrawn, TypeOK, RateInForce
    <2>4. draw = 0 => 0 \in Draws
      OBVIOUS
    <2> QED BY <2>1, <2>2, <2>3, <2>4
  <1>3. Dropped(manager[p], n, chosen) => DropsAsked
    <2>1. CASE chosen # {}
      BY <1>2, <2>1 DEF DropsAsked
    <2>2. CASE chosen = {} /\ ~NamesMessages(env.drop)
      <3>1. Elements(manager[p].standard) \subseteq {InfoEvent}
        BY <2>2, EventsOfProcess
      <3> QED BY <2>2, <3>1, DroppedByEvent, DropsOfEvents
    <2> QED BY <2>1, <2>2 DEF DropsAsked
  <1> QED BY <1>2, <1>3 DEF FlipsAsked

(* What is appended to the wire is a datagram, whole or with one byte      *)
(* changed.                                                                *)
LEMMA FlippedType ==
    ASSUME NEW chosen, NEW flipped \in FlippedBytes(chosen)
    PROVE  /\ flipped \in SUBSET Byte
           /\ flipped = {} \/ (FlipEvent \in chosen /\ \E byte \in Byte : flipped = {byte})
  BY DEF FlippedBytes

(* The numbers of the datagrams on a wire.                                 *)
Numbers(s) == {s[i].number : i \in DOMAIN s}

(* One more datagram on the wire adds its number.                          *)
LEMMA NumbersOfAppend ==
    ASSUME NEW S, NEW s \in Seq(S), NEW x \in S
    PROVE  Numbers(Append(s, x)) = Numbers(s) \cup {x.number}
  <1>1. \A t : Numbers(t) = {y.number : y \in Elements(t)}
    <2> SUFFICES ASSUME NEW t
                 PROVE  Numbers(t) = {y.number : y \in Elements(t)}
      OBVIOUS
    <2>1. ASSUME NEW k \in Numbers(t) PROVE k \in {y.number : y \in Elements(t)}
      BY <2>1, Zenon DEF Numbers, Elements
    <2>2. ASSUME NEW k \in {y.number : y \in Elements(t)} PROVE k \in Numbers(t)
      BY <2>2, Zenon DEF Numbers, Elements
    <2> QED BY <2>1, <2>2
  <1>2. Elements(Append(s, x)) = Elements(s) \cup {x}
    BY ElementsOfAppend
  <1>3. {y.number : y \in Elements(s) \cup {x}} = {y.number : y \in Elements(s)} \cup {x.number}
    OBVIOUS
  <1> QED BY <1>1, <1>2, <1>3

(* The numbers up to the next one.                                         *)
LEMMA OneMore == \A k \in Nat : 1 .. k + 1 = (1 .. k) \cup {k + 1}
  OBVIOUS

(* A call of sendto_Err() leaves the settings alone, and puts a datagram   *)
(* on the wire unless it is dropped.                                       *)
LEMMA SendtoStep ==
    ASSUME InjectionInv, NEW p \in Process, Sendto(p)
    PROVE  InjectionInv'
  <1> DEFINE m == manager[p]
             n == m.msgNo + 1
             Datagram == [number : 1 .. MaxSends, flipped : SUBSET Byte]
  <1>1. TypeOK /\ StartInv /\ SettingsInv /\ ListDecides
    BY DEF InjectionInv
  <1>2. /\ p \in initialised /\ n \in 1 .. MaxSends
        /\ \A q \in Process :
               /\ manager'[q].msgNo = IF q = p THEN n ELSE manager[q].msgNo
               /\ \A f \in {"errorRate", "seed", "standard", "chance"} :
                      manager'[q][f] = manager[q][f]
        /\ manager' \in [Process -> Settings]
        /\ UNCHANGED <<program, rate, env, clock, running, initialised>>
    BY SendtoEffect
  <1>3. PICK draw \in Draws : \E chosen \in Chosen(m, draw) :
            \/ Dropped(m, n, chosen) /\ UNCHANGED wire
            \/ /\ ~Dropped(m, n, chosen)
               /\ \E flipped \in FlippedBytes(chosen) :
                      wire' = [wire EXCEPT
                          ![p] = Append(@, [number |-> n, flipped |-> flipped])]
    BY SendtoEffect
  <1>4. PICK chosen \in Chosen(m, draw) :
            \/ Dropped(m, n, chosen) /\ UNCHANGED wire
            \/ /\ ~Dropped(m, n, chosen)
               /\ \E flipped \in FlippedBytes(chosen) :
                      wire' = [wire EXCEPT
                          ![p] = Append(@, [number |-> n, flipped |-> flipped])]
    BY <1>3
  <1>5. m.msgNo \in Nat /\ wire \in [Process -> Seq(Datagram)]
    <2>1. m.msgNo \in 0 .. MaxSends
      BY <1>1, SettingsTypes
    <2>2. m.msgNo \in Nat
      BY <2>1, InjectionAssumption
    <2>3. wire \in [Process -> Seq(Datagram)]
      BY <1>1 DEF TypeOK
    <2> QED BY <2>2, <2>3
  <1>6. SettingsInv'
    <2>1. RateInForce' = RateInForce /\ UserChance' = UserChance
          /\ EnvStandard(env)' = EnvStandard(env) /\ EnvChance(env)' = EnvChance(env)
      BY <1>2 DEF RateInForce, UserChance
    <2>2. ASSUME NEW q \in Process
          PROVE  /\ manager'[q].standard = manager[q].standard
                 /\ manager'[q].chance = manager[q].chance
                 /\ manager'[q].errorRate = manager[q].errorRate
                 /\ manager'[q].seed = manager[q].seed
                 /\ StandardOf(q)' = StandardOf(q) /\ ChanceOf(q)' = ChanceOf(q)
      BY <1>2, <2>1 DEF StandardOf, ChanceOf
    <2> QED BY <1>1, <1>2, <2>1, <2>2 DEF SettingsInv
  <1>7. CASE Dropped(m, n, chosen) /\ UNCHANGED wire
    <2>1. ASSUME NEW q \in Process, NamesMessages(env.drop)
          PROVE  {wire[q][i].number : i \in DOMAIN wire[q]}
                     = (1 .. manager'[q].msgNo) \ Listed(env.drop)
      <3>1. {wire[q][i].number : i \in DOMAIN wire[q]}
                = (1 .. manager[q].msgNo) \ Listed(env.drop)
        BY <1>1, <2>1 DEF ListDecides
      <3>2. n \in Listed(env.drop)
        BY <1>1, <1>2, <1>4, <1>7, <2>1, ListDrops
      <3>3. 1 .. n = (1 .. m.msgNo) \cup {n}
        BY <1>5, OneMore
      <3> QED BY <1>2, <3>1, <3>2, <3>3
    <2>2. ListDecides'
      BY <1>2, <1>7, <2>1 DEF ListDecides
    <2>3. TypeOK' /\ StartInv'
      BY <1>1, <1>2, <1>7 DEF TypeOK, StartInv, Settings
    <2> QED BY <1>6, <2>2, <2>3 DEF InjectionInv
  <1>8. ASSUME ~Dropped(m, n, chosen), NEW flipped \in FlippedBytes(chosen),
               wire' = [wire EXCEPT
                   ![p] = Append(@, [number |-> n, flipped |-> flipped])]
        PROVE  InjectionInv'
    <2> DEFINE r == [number |-> n, flipped |-> flipped]
    <2>1. r \in Datagram /\ r.number = n
      BY <1>2, FlippedType
    <2> HIDE DEF r
    <2>2. wire' = [wire EXCEPT ![p] = Append(wire[p], r)]
      BY <1>8 DEF r
    <2>3. \A q \in Process : wire'[q] = IF q = p THEN Append(wire[p], r) ELSE wire[q]
      BY <1>5, <2>2
    <2>4. wire' \in [Process -> Seq(Datagram)]
      <3>1. Append(wire[p], r) \in Seq(Datagram)
        BY <1>5, <2>1, AppendProperties
      <3> QED BY <1>5, <2>2, <3>1
    <2>5. TypeOK'
      BY <1>1, <1>2, <2>4 DEF TypeOK, Settings
    <2>6. StartInv'
      BY <1>1, <1>2, <2>3 DEF StartInv
    <2>7. ASSUME NEW q \in Process, NamesMessages(env.drop)
          PROVE  Numbers(wire'[q]) = (1 .. manager'[q].msgNo) \ Listed(env.drop)
      <3>1. Numbers(wire[q]) = (1 .. manager[q].msgNo) \ Listed(env.drop)
        BY <1>1, <2>7 DEF ListDecides, Numbers
      <3>2. CASE q = p
        <4>1. n \notin Listed(env.drop)
          BY <1>1, <1>2, <1>4, <1>8, <2>7, ListDrops
        <4>2. Numbers(wire'[p]) = Numbers(wire[p]) \cup {n}
          <5>1. wire'[p] = Append(wire[p], r) /\ wire[p] \in Seq(Datagram)
            BY <1>5, <2>3
          <5> HIDE DEF Datagram
          <5>2. Numbers(Append(wire[p], r)) = Numbers(wire[p]) \cup {r.number}
            BY <2>1, <5>1, NumbersOfAppend, Zenon
          <5> QED BY <2>1, <5>1, <5>2
        <4>3. 1 .. n = (1 .. m.msgNo) \cup {n}
          BY <1>5, OneMore
        <4> QED BY <1>2, <3>1, <3>2, <4>1, <4>2, <4>3
      <3>3. CASE q # p
        BY <1>2, <2>3, <3>1, <3>3
      <3> QED BY <3>2, <3>3
    <2>8. ListDecides'
      BY <1>2, <2>7 DEF ListDecides, Numbers
    <2> QED BY <1>6, <2>5, <2>6, <2>8 DEF InjectionInv
  <1> QED BY <1>4, <1>7, <1>8

(* Every step keeps the invariant.                                         *)
LEMMA InjectionStep == InjectionInv /\ [Next]_vars => InjectionInv'
  <1> SUFFICES ASSUME InjectionInv, [Next]_vars PROVE InjectionInv'
    OBVIOUS
  <1>1. ASSUME NEW p \in Process, SendErrInit(p) PROVE InjectionInv'
    BY <1>1, SendErrInitStep
  <1>2. ASSUME NEW p \in Process, Fork(p) PROVE InjectionInv'
    BY <1>2, ForkStep
  <1>3. ASSUME NEW p \in Process, Sendto(p) PROVE InjectionInv'
    BY <1>3, SendtoStep
  <1>4. ASSUME UNCHANGED <<program, rate, env, running, manager, initialised, wire>>,
               clock' \in 0 .. MaxTime
        PROVE  InjectionInv'
    BY <1>4 DEF InjectionInv, TypeOK, StartInv, SettingsInv, ListDecides, RateInForce,
                StandardOf, ChanceOf, EnvStandard, EnvChance, UserChance, Event
  <1>5. CASE Tick
    <2>1. clock' \in 0 .. MaxTime
      BY <1>5, InjectionAssumption DEF Tick, InjectionInv, TypeOK
    <2> QED BY <1>4, <1>5, <2>1 DEF Tick, startVars
  <1>6. CASE UNCHANGED vars
    BY <1>4, <1>6 DEF vars, InjectionInv, TypeOK
  <1> QED BY <1>1, <1>2, <1>3, <1>5, <1>6 DEF Next

(* Types, for every environment and command line.                          *)
THEOREM TypeSafety == Spec => []TypeOK
  <1>1. InjectionInv => TypeOK
    BY DEF InjectionInv
  <1> QED BY <1>1, InjectionInit, InjectionStep, PTL DEF Spec

(* With a drop list, exactly the datagrams on it are missing from the      *)
(* wire: processEvents() and the events sendErr_init() adds take nothing   *)
(* else away, whatever the rate, the flips and the processes forked.       *)
THEOREM ListAloneDecides == Spec => []ListDecides
  <1>1. InjectionInv => ListDecides
    BY DEF InjectionInv
  <1> QED BY <1>1, InjectionInit, InjectionStep, PTL DEF Spec

(* The chance events of a process are those not replaced by a list.        *)
LEMMA ChanceLength ==
    ASSUME SettingsInv, NEW p \in initialised, p \in Process
    PROVE  Len(manager[p].chance) = OnChance(env.drop) + OnChance(env.flip)
  <1> DEFINE a == IF ListSet(env.drop) /\ Listed(env.drop) = {} THEN <<DropAllEvent>> ELSE << >>
             b == IF ListSet(env.flip) /\ Listed(env.flip) = {} THEN <<FlipEvent>> ELSE << >>
             c == IF ListSet(env.drop) THEN << >> ELSE <<DropAllEvent>>
             d == IF ListSet(env.flip) THEN << >> ELSE <<FlipEvent>>
  <1>1. DropAllEvent \in Event /\ FlipEvent \in Event
    BY EventTypes
  <1>2. a \in Seq(Event) /\ b \in Seq(Event) /\ c \in Seq(Event) /\ d \in Seq(Event)
    BY <1>1
  <1>3. manager[p].chance = (a \o b) \o (c \o d)
    BY DEF SettingsInv, ChanceOf, EnvChance, UserChance
  <1>4. /\ Len(a) + Len(c) = OnChance(env.drop) /\ Len(b) + Len(d) = OnChance(env.flip)
        /\ Len(a) \in Nat /\ Len(b) \in Nat /\ Len(c) \in Nat /\ Len(d) \in Nat
    BY DEF OnChance, NamesMessages
  <1> HIDE DEF a, b, c, d
  <1>5. /\ a \o b \in Seq(Event) /\ c \o d \in Seq(Event)
        /\ Len(a \o b) = Len(a) + Len(b) /\ Len(c \o d) = Len(c) + Len(d)
    BY <1>2, ConcatProperties
  <1>6. Len((a \o b) \o (c \o d)) = Len(a \o b) + Len(c \o d)
    BY <1>5, ConcatProperties
  <1> QED BY <1>3, <1>4, <1>5, <1>6

(* The environment has precedence in every process, after any number of    *)
(* forkMod()s and its own sendErr_init(): its rate, its seed, its drops    *)
(* and, where it does not name the datagrams, its flips.                   *)
THEOREM EnvironmentDecides == Spec => []EnvironmentWins
  <1>1. ASSUME InjectionInv PROVE EnvironmentWins
    <2>1. SettingsInv /\ running \subseteq Process /\ initialised \subseteq Process
      BY <1>1 DEF InjectionInv, TypeOK
    <2>2. ASSUME NEW p \in running
          PROVE  /\ IsNumber(env.rate) => manager[p].errorRate = env.rate
                 /\ IsNumber(env.seed) => manager[p].seed = env.seed
      BY <2>1 DEF SettingsInv
    <2>3. ASSUME NEW p \in initialised
          PROVE  /\ OfKind("drop", p) = {IF NamesMessages(env.drop)
                                         THEN DropListed(Listed(env.drop)) ELSE DropAllEvent}
                 /\ ~NamesMessages(env.flip) => OfKind("flip", p) = {FlipEvent}
                 /\ Len(manager[p].chance) = OnChance(env.drop) + OnChance(env.flip)
      <3>1. p \in Process
        BY <2>1
      <3>2. Events(p) = Elements(manager[p].standard) \cup Elements(manager[p].chance)
        BY DEF Events, Elements
      <3>3. /\ InfoEvent.kind = "info" /\ FlipEvent.kind = "flip" /\ DropAllEvent.kind = "drop"
            /\ DropListed(Listed(env.drop)).kind = "drop"
        BY EventTypes, ListedType
      <3>4. OfKind("drop", p) = {IF NamesMessages(env.drop)
                                 THEN DropListed(Listed(env.drop)) ELSE DropAllEvent}
        BY <2>1, <3>1, <3>2, <3>3, EventsOfProcess DEF OfKind, NamesMessages
      <3>5. ~NamesMessages(env.flip) => OfKind("flip", p) = {FlipEvent}
        BY <2>1, <3>1, <3>2, <3>3, EventsOfProcess DEF OfKind, NamesMessages
      <3> QED BY <2>1, <3>1, <3>4, <3>5, ChanceLength
    <2> QED BY <2>2, <2>3 DEF EnvironmentWins
  <1> QED BY <1>1, InjectionInit, InjectionStep, PTL DEF Spec

--------------------------------------------------------------------------------
(* The abstract link, at any rate and where errors were asked for.         *)

(* One call of sendto_Err(): the datagram leaves as it is, or with a byte  *)
(* changed by a flip that ran, or it is dropped.                           *)
LEMMA SendtoOutcome ==
    ASSUME InjectionInv, NEW p \in Process, Sendto(p)
    PROVE  LET m == manager[p]
               n == m.msgNo + 1
               handed == [q \in Process |-> manager[q].msgNo]
               Leaving(flipped) ==
                   [wire EXCEPT ![p] = Append(@, [number |-> n, flipped |-> flipped])]
           IN  /\ handed' = [handed EXCEPT ![p] = n]
               /\ p \in initialised /\ UNCHANGED <<rate, env>>
               /\ \E draw \in Draws : \E chosen \in Chosen(m, draw) :
                      \/ wire' = Leaving({})
                      \/ FlipEvent \in chosen /\ \E byte \in Byte : wire' = Leaving({byte})
                      \/ Dropped(m, n, chosen) /\ UNCHANGED wire
  <1> DEFINE m == manager[p]
             n == m.msgNo + 1
             handed == [q \in Process |-> manager[q].msgNo]
             Leaving(flipped) ==
                 [wire EXCEPT ![p] = Append(@, [number |-> n, flipped |-> flipped])]
  <1>1. /\ p \in initialised /\ UNCHANGED <<rate, env>>
        /\ \A q \in Process : manager'[q].msgNo = IF q = p THEN n ELSE manager[q].msgNo
    BY SendtoEffect
  <1>2. handed' = [handed EXCEPT ![p] = n]
    BY <1>1
  <1>3. PICK draw \in Draws : \E chosen \in Chosen(m, draw) :
            \/ Dropped(m, n, chosen) /\ UNCHANGED wire
            \/ ~Dropped(m, n, chosen) /\ \E flipped \in FlippedBytes(chosen) :
                                             wire' = Leaving(flipped)
    BY SendtoEffect
  <1>4. PICK chosen \in Chosen(m, draw) :
            \/ Dropped(m, n, chosen) /\ UNCHANGED wire
            \/ ~Dropped(m, n, chosen) /\ \E flipped \in FlippedBytes(chosen) :
                                             wire' = Leaving(flipped)
    BY <1>3
  <1> HIDE DEF Leaving
  <1>5. \/ wire' = Leaving({})
        \/ FlipEvent \in chosen /\ \E byte \in Byte : wire' = Leaving({byte})
        \/ Dropped(m, n, chosen) /\ UNCHANGED wire
    BY <1>4, FlippedType
  <1> QED BY <1>1, <1>2, <1>5 DEF Leaving

(* Nothing else hands a datagram over or puts one on the wire.             *)
LEMMA OthersSendNothing ==
    ASSUME InjectionInv, [Next]_vars, \A p \in Process : ~Sendto(p)
    PROVE  /\ UNCHANGED <<rate, env, wire>>
           /\ [p \in Process |-> manager[p].msgNo]' = [p \in Process |-> manager[p].msgNo]
  <1>1. ASSUME NEW p \in Process, SendErrInit(p)
        PROVE  wire' = wire /\ \A q \in Process : manager'[q].msgNo = manager[q].msgNo
    <2>1. manager \in [Process -> Settings]
      BY SettingsTypes DEF InjectionInv
    <2> QED BY <1>1, <2>1 DEF SendErrInit, Settings
  <1>2. ASSUME NEW p \in Process, Fork(p)
        PROVE  wire' = wire /\ \A q \in Process : manager'[q].msgNo = manager[q].msgNo
    BY <1>2, ForkStep DEF Fork
  <1>3. CASE Tick \/ UNCHANGED vars
    BY <1>3 DEF Tick, vars, startVars
  <1>4. wire' = wire /\ \A q \in Process : manager'[q].msgNo = manager[q].msgNo
    BY <1>1, <1>2, <1>3 DEF Next, Tick, vars
  <1>5. UNCHANGED <<rate, env>>
    BY DEF Next, vars, SendErrInit, Fork, Sendto, Tick, startVars
  <1> QED BY <1>4, <1>5

(* Nothing has been handed over to begin with.                             *)
LEMMA LinkInit == Init => AnyLink!Init /\ AskedLink!Init
  <1> SUFFICES ASSUME Init PROVE AnyLink!Init /\ AskedLink!Init
    OBVIOUS
  <1>1. [p \in Process |-> manager[p].msgNo] = [p \in Process |-> 0]
    BY DEF Init, Loaded
  <1>2. wire = [p \in Process |-> << >>]
    BY DEF Init
  <1>3. DropsAsked \in BOOLEAN /\ FlipsAsked \in BOOLEAN
    BY DEF DropsAsked, FlipsAsked
  <1> QED BY <1>1, <1>2, <1>3 DEF AnyLink!Init, AskedLink!Init

(* sendto_Err() hands a datagram to the link, of which nothing is asked.   *)
LEMMA AnyLinkStep == InjectionInv /\ [Next]_vars => [AnyLink!Next]_AnyLink!vars
  <1> SUFFICES ASSUME InjectionInv, [Next]_vars PROVE [AnyLink!Next]_AnyLink!vars
    OBVIOUS
  <1>1. ASSUME NEW p \in Process, Sendto(p) PROVE AnyLink!HandOver(p)
    <2> DEFINE n == manager[p].msgNo + 1
               handed == [q \in Process |-> manager[q].msgNo]
    <2>1. handed' = [handed EXCEPT ![p] = n] /\ handed[p] + 1 = n
      BY <1>1, SendtoOutcome
    <2>2. \/ AnyLink!Leaves(p, {})
          \/ \E byte \in Byte : AnyLink!Leaves(p, {byte})
          \/ UNCHANGED wire
      BY <1>1, SendtoOutcome DEF AnyLink!Leaves
    <2> QED BY <2>1, <2>2 DEF AnyLink!HandOver
  <1>2. CASE \A p \in Process : ~Sendto(p)
    BY <1>2, OthersSendNothing DEF AnyLink!vars
  <1> QED BY <1>1, <1>2 DEF AnyLink!Next

(* The same, where errors are what was asked for.                          *)
LEMMA AskedLinkStep ==
    ASSUME ZeroIsNotDrawn
    PROVE  InjectionInv /\ [Next]_vars => [AskedLink!Next]_AskedLink!vars
  <1> SUFFICES ASSUME InjectionInv, [Next]_vars PROVE [AskedLink!Next]_AskedLink!vars
    OBVIOUS
  <1>1. UNCHANGED <<rate, env>> => UNCHANGED <<DropsAsked, FlipsAsked>>
    BY DEF DropsAsked, FlipsAsked, RateInForce
  <1>2. ASSUME NEW p \in Process, Sendto(p) PROVE AskedLink!HandOver(p)
    <2> DEFINE m == manager[p]
               n == m.msgNo + 1
               handed == [q \in Process |-> manager[q].msgNo]
    <2>1. /\ handed' = [handed EXCEPT ![p] = n] /\ handed[p] + 1 = n
          /\ p \in initialised /\ UNCHANGED <<rate, env>>
      BY <1>2, SendtoOutcome
    <2>2. PICK draw \in Draws : \E chosen \in Chosen(m, draw) :
              \/ AskedLink!Leaves(p, {})
              \/ FlipEvent \in chosen /\ \E byte \in Byte : AskedLink!Leaves(p, {byte})
              \/ Dropped(m, n, chosen) /\ UNCHANGED wire
      BY <1>2, SendtoOutcome DEF AskedLink!Leaves
    <2>3. PICK chosen \in Chosen(m, draw) :
              \/ AskedLink!Leaves(p, {})
              \/ FlipEvent \in chosen /\ \E byte \in Byte : AskedLink!Leaves(p, {byte})
              \/ Dropped(m, n, chosen) /\ UNCHANGED wire
      BY <2>2
    <2>4. (Dropped(m, n, chosen) => DropsAsked) /\ (FlipEvent \in chosen => FlipsAsked)
      BY <2>1, OnlyWhereAsked DEF InjectionInv
    <2> QED BY <1>1, <2>1, <2>3, <2>4 DEF AskedLink!HandOver
  <1>3. CASE \A p \in Process : ~Sendto(p)
    BY <1>1, <1>3, OthersSendNothing DEF AskedLink!vars
  <1> QED BY <1>2, <1>3 DEF AskedLink!Next

(* What the programs send through sendtoErr() leaves in order, at most     *)
(* once and changed in one byte at most, whatever the settings are.        *)
THEOREM SendingKeepsOrder == Spec => SendsInOrder
  BY LinkInit, AnyLinkStep, InjectionInit, InjectionStep, PTL
     DEF Spec, SendsInOrder, AnyLink!Spec

(* It is missing only where drops were asked for and changed only where    *)
(* flips were, provided no draw of 0 meets a rate of 0.                    *)
THEOREM SendingIsALossyLink ==
    ASSUME ZeroIsNotDrawn
    PROVE  Spec => ImplementsLossyLink
  BY LinkInit, AskedLinkStep, InjectionInit, InjectionStep, PTL
     DEF Spec, ImplementsLossyLink, AskedLink!Spec
================================================================================
