------------------------------ MODULE ErrorInjection ---------------------------
(***************************************************************************)
(* sendtoErr() of libcpe464 and the settings behind it, as the two         *)
(* programs use them: rcopy calls sendErr_init() and sends; the main       *)
(* server only forks, and each of its children calls sendErr_init() and    *)
(* sends.  PacketManager.cpp holds the events that can befall a datagram,  *)
(* SettingsManager.cpp the environment variables that override what the    *)
(* program asks for, network-hooks.c the functions the programs call.      *)
(*                                                                         *)
(* Datagrams are named by the order in which a process sends them, which   *)
(* is the number (m_MsgNo) the drop list goes by; how a datagram on the    *)
(* wire differs from the one handed over is the set of flipped bytes.      *)
(* Probabilities are numbers on the scale of what drand48() returns.       *)
(***************************************************************************)
EXTENDS Integers, Sequences

CONSTANTS
    Process,      \* the processes there can be
    Main,         \* the one that is started: rcopy or the main server
    Byte,         \* the positions of the bytes of a datagram
    Draws,        \* what drand48() can return, on the scale of the rates
    Rates,        \* the error rates a command line can hold
    Environments, \* the environments a program can be started in
    Unset,        \* an environment variable that is not there
    Junk,         \* a value, or an element of a list, that is not a number
    MaxSends,     \* bound: datagrams a process sends
    MaxTime       \* bound: seconds that pass

ASSUME InjectionAssumption ==
    /\ Main \in Process
    /\ Draws \subseteq Nat /\ MaxSends \in Nat /\ MaxTime \in Nat
    /\ Rates \subseteq Int
    /\ Unset \notin Int /\ Junk \notin Int /\ Unset # Junk
    /\ \A e \in Environments : {e.rate, e.seed} \subseteq Int \cup {Unset, Junk}
    /\ Byte # {}

RANDOM_SEED == 10

VARIABLES
    program,      \* "rcopy" or "server"
    rate,         \* the error rate of its command line
    env,          \* the CPE464_OVERRIDE_ variables: rate, seed, drop, flip
    clock,        \* time(NULL), in seconds
    running,      \* the processes forked so far, Main included
    manager,      \* g_PktMgr, with nextSeed of network-hooks.c
    initialised,  \* the processes that have called sendErr_init()
    wire          \* the datagrams each process has put on the network

vars == <<program, rate, env, clock, running, manager, initialised, wire>>
startVars == <<program, rate, env>>   \* these never change

--------------------------------------------------------------------------------
(***************************************************************************)
(* The environment.  A value is Unset, Junk or a number; a list is Unset   *)
(* or the sequence of what stands between its commas.                      *)
(***************************************************************************)
IsNumber(value) == value \notin {Unset, Junk}

(* Mutant: negative numbers are kept.                                      *)
ListedWithNegatives(tokens) ==
    {tokens[i] : i \in {j \in DOMAIN tokens : \A h \in 1 .. j : tokens[h] # Junk}}

(* The elements before the first that is not a number, without the         *)
(* negative ones.                                                          *)
Listed(tokens) ==
    {tokens[i] : i \in {j \in DOMAIN tokens : \A h \in 1 .. j : tokens[h] # Junk}} \cap Nat

(* A list variable counts as set whatever is in it ...                     *)
ListSet(list) == list # Unset

(* ... and says which datagrams it is about if a number is left in it.     *)
NamesMessages(list) == ListSet(list) /\ Listed(list) # {}

--------------------------------------------------------------------------------
(* The events, and what they do to datagram number n.                      *)

InfoEvent         == [kind |-> "info"]
FlipEvent         == [kind |-> "flip"]
DropAllEvent      == [kind |-> "drop", all |-> TRUE, list |-> {}]
DropListed(list)  == [kind |-> "drop", all |-> FALSE, list |-> list]

Drops(event, n) == event.kind = "drop" /\ (event.all \/ n \in event.list)

(* The environment's part of the settings: SettingsManager's constructor.  *)
EnvStandard(e) ==
    IF NamesMessages(e.drop) THEN <<DropListed(Listed(e.drop))>> ELSE << >>

EnvChance(e) ==
    (IF ListSet(e.drop) /\ Listed(e.drop) = {} THEN <<DropAllEvent>> ELSE << >>)
    \o (IF ListSet(e.flip) /\ Listed(e.flip) = {} THEN <<FlipEvent>> ELSE << >>)

Loaded(e, now) ==
    [errorRate |-> IF IsNumber(e.rate) THEN e.rate ELSE 0,
     seed      |-> IF IsNumber(e.seed) THEN e.seed ELSE now,
     standard  |-> EnvStandard(e),
     chance    |-> EnvChance(e),
     msgNo     |-> 0,
     nextSeed  |-> RANDOM_SEED]

(* Mutant: setUserMode_ErrDrop() does not ask for the override.            *)
UserChanceAlways == <<DropAllEvent, FlipEvent>>

(* The setUserMode_ functions: what the program asks for counts only where *)
(* the environment says nothing.  sendErr_init() gets DROP_ON and FLIP_ON. *)
UserRate(m)       == IF IsNumber(env.rate) THEN m.errorRate ELSE rate
UserSeed(m, seed) == IF IsNumber(env.seed) THEN m.seed ELSE seed
UserChance ==
    (IF ListSet(env.drop) THEN << >> ELSE <<DropAllEvent>>)
    \o (IF ListSet(env.flip) THEN << >> ELSE <<FlipEvent>>)

Init ==
    /\ program \in {"rcopy", "server"}
    /\ rate \in Rates
    /\ env \in Environments
    /\ clock = 0
    /\ running = {Main}
    /\ manager = [p \in Process |-> Loaded(env, clock)]
    /\ initialised = {}
    /\ wire = [p \in Process |-> << >>]

--------------------------------------------------------------------------------
(* sendErr_init(rate, DROP_ON, FLIP_ON, DEBUG_ON, RSEED_ON), called once   *)
(* by rcopy and once by each child of the server.                          *)
SendErrInit(p) ==
    /\ p \in running \ initialised
    /\ program = "server" => p # Main
    /\ manager' = [manager EXCEPT
           ![p].standard  = Append(@, InfoEvent),
           ![p].errorRate = UserRate(manager[p]),
           ![p].chance    = @ \o UserChance,
           ![p].seed      = UserSeed(manager[p], clock),
           ![p].nextSeed  = clock]
    /\ initialised' = initialised \cup {p}
    /\ UNCHANGED <<startVars, clock, running, wire>>

(* forkMod(): the child starts from a copy of all of it.                   *)
Fork(child) ==
    /\ program = "server" /\ child \notin running
    /\ running' = running \cup {child}
    /\ LET m == [manager[Main] EXCEPT !.nextSeed = @ + 1]
       IN  manager' = [manager EXCEPT ![Main] = m,
                 ![child] = [m EXCEPT !.seed = UserSeed(m, manager[Main].nextSeed)]]
    /\ UNCHANGED <<startVars, clock, initialised, wire>>

(* Mutant: the result of the chance event replaces that of the others.     *)
DroppedByLast(m, n, chosen) == \E event \in chosen : Drops(event, n)

(* processEvents(): a drop by any event stays a drop, whatever comes after.*)
Dropped(m, n, chosen) ==
    \/ \E i \in DOMAIN m.standard : Drops(m.standard[i], n)
    \/ \E event \in chosen : Drops(event, n)

(* Mutant: the rate is what the draw has to exceed.                        *)
ChosenAbove(m, draw) ==
    IF m.chance # << >> /\ draw >= m.errorRate
    THEN {{m.chance[i]} : i \in DOMAIN m.chance}
    ELSE {{}}

(* The chance event that runs, if one does.                                *)
Chosen(m, draw) ==
    IF m.chance # << >> /\ draw <= m.errorRate
    THEN {{m.chance[i]} : i \in DOMAIN m.chance}
    ELSE {{}}

FlippedBytes(chosen) == IF FlipEvent \in chosen THEN {{byte} : byte \in Byte} ELSE {{}}

(* sendto_Err(): events happen to a copy; the caller is told that all of   *)
(* the datagram was sent in either case.                                   *)
Sendto(p) ==
    /\ p \in initialised
    /\ manager[p].msgNo < MaxSends
    /\ LET m == manager[p]
           n == m.msgNo + 1
       IN  /\ manager' = [manager EXCEPT ![p].msgNo = n]
           /\ \E draw \in Draws : \E chosen \in Chosen(m, draw) :
                  \/ Dropped(m, n, chosen) /\ UNCHANGED wire
                  \/ /\ ~Dropped(m, n, chosen)
                     /\ \E flipped \in FlippedBytes(chosen) :
                            wire' = [wire EXCEPT
                                ![p] = Append(@, [number |-> n, flipped |-> flipped])]
    /\ UNCHANGED <<startVars, clock, running, initialised>>

Tick ==
    /\ clock < MaxTime
    /\ clock' = clock + 1
    /\ UNCHANGED <<startVars, running, manager, initialised, wire>>

Next ==
    \/ \E p \in Process : SendErrInit(p) \/ Fork(p) \/ Sendto(p)
    \/ Tick

Spec == Init /\ [][Next]_vars

--------------------------------------------------------------------------------
Event == [kind : {"info", "flip"}] \cup [kind : {"drop"}, all : BOOLEAN, list : SUBSET Nat]

TypeOK ==
    /\ program \in {"rcopy", "server"} /\ rate \in Rates /\ env \in Environments
    /\ clock \in 0 .. MaxTime
    /\ running \subseteq Process /\ initialised \subseteq running
    /\ manager \in [Process -> [errorRate : Int, seed : Int, standard : Seq(Event),
                                chance : Seq(Event), msgNo : 0 .. MaxSends, nextSeed : Int]]
    /\ wire \in [Process -> Seq([number : 1 .. MaxSends, flipped : SUBSET Byte])]

Events(p) == {manager[p].standard[i] : i \in DOMAIN manager[p].standard}
             \cup {manager[p].chance[i] : i \in DOMAIN manager[p].chance}

OfKind(kind, p) == {event \in Events(p) : event.kind = kind}

(* The random events of a kind: one, unless the variable names messages.   *)
OnChance(list) == IF NamesMessages(list) THEN 0 ELSE 1

(***************************************************************************)
(* SettingsManager.h:4: the environment has precedence over what the       *)
(* program asks for.  However a process came to be, it sends with the rate *)
(* and seed of the environment; it drops the listed datagrams and no       *)
(* other, or drops at random where none is listed; without a list it flips *)
(* at random.  Asked for twice, by the environment ("-1") and by the       *)
(* program, a random event is there once.  (FlipsAsListed has the rest.)   *)
(***************************************************************************)
EnvironmentWins ==
    /\ \A p \in running :
           /\ IsNumber(env.rate) => manager[p].errorRate = env.rate
           /\ IsNumber(env.seed) => manager[p].seed = env.seed
    /\ \A p \in initialised :
           /\ OfKind("drop", p) = {IF NamesMessages(env.drop) THEN DropListed(Listed(env.drop))
                                   ELSE DropAllEvent}
           /\ ~NamesMessages(env.flip) => OfKind("flip", p) = {FlipEvent}
           /\ Len(manager[p].chance) = OnChance(env.drop) + OnChance(env.flip)

(***************************************************************************)
(* SettingsManager.h:17: the events of a list are the messages to perform  *)
(* the event on.  A listed datagram that leaves is flipped.                *)
(***************************************************************************)
FlipsAsListed ==
    NamesMessages(env.flip) =>
        \A p \in Process : \A i \in DOMAIN wire[p] :
            wire[p][i].number \in Listed(env.flip) => wire[p][i].flipped # {}

(***************************************************************************)
(* With a drop list, exactly the datagrams on it are missing from the      *)
(* wire, numbered as the process sends them: chance drops nothing, and a   *)
(* listed datagram that chance flips as well stays dropped                 *)
(* (processEvents() runs a chance event after a drop, too).                *)
(***************************************************************************)
ListDecides ==
    NamesMessages(env.drop) =>
        \A p \in Process :
            {wire[p][i].number : i \in DOMAIN wire[p]}
                = (1 .. manager[p].msgNo) \ Listed(env.drop)

(***************************************************************************)
(* The errors that were asked for, as the headers describe the settings:   *)
(* at random with a rate, of which 0 is none, or by a list.                *)
(***************************************************************************)
RateInForce == IF IsNumber(env.rate) THEN env.rate ELSE rate
DropsAsked  == RateInForce > 0 \/ NamesMessages(env.drop)
FlipsAsked  == RateInForce > 0 \/ NamesMessages(env.flip)

(***************************************************************************)
(* networks/network-hooks.h:61: error_rate 0 means no errors.  With that   *)
(* rate, and no list that asks for any, all that is sent leaves unchanged. *)
(***************************************************************************)
ZeroRateIsFaultless ==
    RateInForce = 0 /\ ~DropsAsked /\ ~FlipsAsked =>
        \A p \in Process :
            /\ Len(wire[p]) = manager[p].msgNo
            /\ \A i \in DOMAIN wire[p] : wire[p][i].flipped = {}

(***************************************************************************)
(* Whatever the settings are, what the processes send through sendtoErr()  *)
(* leaves in order, at most once and changed in one byte at most: what     *)
(* Pdu, Session and UdpTransfer take for granted of the sending side.      *)
(***************************************************************************)
AnyLink == INSTANCE LossyLink WITH
    Sender <- Process, handed <- [p \in Process |-> manager[p].msgNo],
    mayDrop <- TRUE, mayFlip <- TRUE

SendsInOrder == AnyLink!Spec

(***************************************************************************)
(* It is missing only where drops were asked for, and changed only where   *)
(* flips were, unless a draw of 0 meets a rate of 0 (ZeroRateIsFaultless). *)
(***************************************************************************)
AskedLink == INSTANCE LossyLink WITH
    Sender <- Process, handed <- [p \in Process |-> manager[p].msgNo],
    mayDrop <- DropsAsked, mayFlip <- FlipsAsked

ImplementsLossyLink == AskedLink!Spec
================================================================================
