--------------------------- MODULE WindowWordsProofs ---------------------------
(***************************************************************************)
(* slidingWindow.c over machine words is what SlidingWindow says it is,    *)
(* for every width of a word, window size and number of packets: the edges *)
(* are the numbers they stand for modulo 2^32, and below 2^31 packets the  *)
(* slots are those of the numbers themselves.                              *)
(***************************************************************************)
EXTENDS WindowWords, TLAPS

--------------------------------------------------------------------------------
(* Arithmetic of `%`.                                                      *)

(* Quotient and remainder.                                                 *)
LEMMA Division ==
    ASSUME NEW a \in Int, NEW w \in Nat \ {0}
    PROVE  /\ a \div w \in Int /\ a % w \in 0 .. w - 1
           /\ a = w * (a \div w) + (a % w)
  OBVIOUS

(* A remainder is an index of an array of w entries.                       *)
LEMMA RemainderRange ==
    ASSUME NEW a \in Int, NEW w \in Nat \ {0}
    PROVE  a % w \in 0 .. w - 1
  OBVIOUS

(* Multiples of w lie at least w apart.                                    *)
LEMMA Gap ==
    ASSUME NEW q \in Int, NEW r \in Int, NEW w \in Nat \ {0}, q < r
    PROVE  w * q + w <= w * r
  <1>1. PICK d \in Nat : r = q + 1 + d
    BY r - q - 1 \in Nat
  <1>2. w * r = w * q + w + w * d
    BY <1>1
  <1>3. w * d >= 0
    OBVIOUS
  <1> QED BY <1>2, <1>3

(* There is one remainder.                                                 *)
LEMMA RemainderUnique ==
    ASSUME NEW w \in Nat \ {0}, NEW q \in Int, NEW p \in Int,
           NEW r \in 0 .. w - 1, NEW s \in 0 .. w - 1, w * q + r = w * p + s
    PROVE  q = p /\ r = s
  <1>1. w * q \in Int /\ w * p \in Int
    OBVIOUS
  <1>2. ~ (q < p)
    BY <1>1, Gap
  <1>3. ~ (p < q)
    BY <1>1, Gap
  <1>4. q = p
    BY <1>2, <1>3
  <1> QED BY <1>1, <1>4

(* What differs by a multiple of w has the same remainder.                 *)
LEMMA SameRemainder ==
    ASSUME NEW w \in Nat \ {0}, NEW a \in Int, NEW b \in Int, NEW k \in Int,
           a = b + w * k
    PROVE  a % w = b % w
  <1> DEFINE q == a \div w
             p == b \div w
             r == a % w
             s == b % w
  <1>1. q \in Int /\ r \in 0 .. w - 1 /\ a = w * q + r
    BY Division
  <1>2. p \in Int /\ s \in 0 .. w - 1 /\ b = w * p + s
    BY Division
  <1> HIDE DEF q, p, r, s
  <1> DEFINE t == p + k
  <1>3. w * t = w * p + w * k /\ t \in Int /\ w * p \in Int /\ w * k \in Int
    BY <1>2
  <1> HIDE DEF t
  <1>4. w * q + r = w * t + s
    BY <1>1, <1>2, <1>3
  <1>5. q \in Int /\ t \in Int /\ r \in 0 .. w - 1 /\ s \in 0 .. w - 1
    BY <1>1, <1>2, <1>3
  <1>6. r = s
    BY <1>4, <1>5, RemainderUnique
  <1> QED BY <1>6 DEF r, s

(* A number below w is its own remainder.                                  *)
LEMMA SmallRemainder ==
    ASSUME NEW w \in Nat \ {0}, NEW a \in 0 .. w - 1
    PROVE  a % w = a
  <1>1. a \div w \in Int /\ a % w \in 0 .. w - 1 /\ a = w * (a \div w) + (a % w)
    BY Division
  <1>2. w * 0 + a = a
    OBVIOUS
  <1> QED BY <1>1, <1>2, RemainderUnique

(* Of w consecutive numbers no two have the same remainder.                *)
LEMMA RemaindersDiffer ==
    ASSUME NEW w \in Nat \ {0}, NEW a \in Int, NEW b \in Int,
           a % w = b % w, a <= b, b < a + w
    PROVE  a = b
  <1> DEFINE q == a \div w
             p == b \div w
  <1>1. q \in Int /\ a % w \in 0 .. w - 1 /\ a = w * q + (a % w)
    BY Division
  <1>2. p \in Int /\ b % w \in 0 .. w - 1 /\ b = w * p + (b % w)
    BY Division
  <1> HIDE DEF q, p
  <1>3. w * q \in Int /\ w * p \in Int /\ w * q <= w * p /\ w * p < w * q + w
    BY <1>1, <1>2
  <1>4. ~ (q < p)
    BY <1>1, <1>2, <1>3, Gap
  <1>5. ~ (p < q)
    BY <1>1, <1>2, <1>3, Gap
  <1>6. q = p
    BY <1>1, <1>2, <1>4, <1>5
  <1> QED BY <1>1, <1>2, <1>6

--------------------------------------------------------------------------------
(* int and uint32_t.                                                       *)

Word == 2 * Half

(* The constants, and the two casts in terms of Word.                      *)
LEMMA WordFacts ==
    /\ Half \in Nat \ {0} /\ Word \in Nat \ {0} /\ Word = Half + Half
    /\ MaxPackets \in Nat /\ MAX_TRIES \in Nat \ {0}
    /\ \A n : Int32(n) = ((n + Half) % Word) - Half
    /\ \A n : Uint32(n) = n % Word
  BY WordAssumption DEF Word, Int32, Uint32

(* An int has the range of one, and is the number up to a multiple of 2^32.*)
LEMMA Int32Properties ==
    ASSUME NEW n \in Int
    PROVE  Int32(n) \in IntRange /\ \E k \in Int : Int32(n) = n + Word * k
  <1> DEFINE q == (n + Half) \div Word
  <1>1. n + Half \in Int
    BY WordFacts
  <1>2. /\ q \in Int /\ (n + Half) % Word \in 0 .. Word - 1
        /\ n + Half = Word * q + ((n + Half) % Word)
    BY <1>1, WordFacts, Division
  <1> HIDE DEF q
  <1>3. Word * (0 - q) = 0 - (Word * q) /\ 0 - q \in Int /\ Word * q \in Int
    BY <1>2, WordFacts
  <1>4. Int32(n) = n + Word * (0 - q)
    BY <1>2, <1>3, WordFacts
  <1>5. Int32(n) \in IntRange
    BY <1>2, WordFacts DEF IntRange
  <1> QED BY <1>3, <1>4, <1>5

(* So is a uint32_t.                                                       *)
LEMMA Uint32Properties ==
    ASSUME NEW n \in Int
    PROVE  /\ Uint32(n) \in 0 .. 2 * Half - 1
           /\ \E k \in Int : Uint32(n) = n + Word * k
  <1> DEFINE q == n \div Word
  <1>1. q \in Int /\ n % Word \in 0 .. Word - 1 /\ n = Word * q + (n % Word)
    BY WordFacts, Division
  <1> HIDE DEF q
  <1>2. Word * (0 - q) = 0 - (Word * q) /\ 0 - q \in Int /\ Word * q \in Int
    BY <1>1, WordFacts
  <1>3. Uint32(n) = n + Word * (0 - q)
    BY <1>1, <1>2, WordFacts
  <1>4. Uint32(n) \in 0 .. 2 * Half - 1
    BY <1>1, WordFacts
  <1> QED BY <1>2, <1>3, <1>4

(* Numbers that differ by a multiple of 2^32 are the same int ...          *)
LEMMA SameInt32 ==
    ASSUME NEW n \in Int, NEW m \in Int, NEW k \in Int, n = m + Word * k
    PROVE  Int32(n) = Int32(m)
  <1> DEFINE a == n + Half
             b == m + Half
  <1>1. a \in Int /\ b \in Int /\ Word * k \in Int
    BY WordFacts
  <1>2. a = b + Word * k
    BY <1>1, WordFacts
  <1>3. Int32(n) = (a % Word) - Half /\ Int32(m) = (b % Word) - Half
    BY WordFacts
  <1> HIDE DEF a, b
  <1>4. a % Word = b % Word
    BY <1>1, <1>2, WordFacts, SameRemainder
  <1> QED BY <1>3, <1>4

(* ... and the same uint32_t.                                              *)
LEMMA SameUint32 ==
    ASSUME NEW n \in Int, NEW m \in Int, NEW k \in Int, n = m + Word * k
    PROVE  Uint32(n) = Uint32(m)
  BY WordFacts, SameRemainder

(* An addition to an int may come before or after the cast.                *)
LEMMA Int32OfSum ==
    ASSUME NEW n \in Int, NEW d \in Int
    PROVE  Int32(Int32(n) + d) = Int32(n + d)
  <1>1. PICK k \in Int : Int32(n) = n + Word * k
    BY Int32Properties
  <1>2. Word * k \in Int
    BY WordFacts
  <1>3. Int32(n) + d = (n + d) + Word * k /\ Int32(n) + d \in Int /\ n + d \in Int
    BY <1>1, <1>2
  <1> QED BY <1>3, SameInt32

(* So may the cast to uint32_t of a number that becomes an int.            *)
LEMMA Int32OfUint32 ==
    ASSUME NEW n \in Int
    PROVE  Int32(Uint32(n)) = Int32(n)
  <1>1. PICK k \in Int : Uint32(n) = n + Word * k
    BY Uint32Properties
  <1>2. Uint32(n) \in Int
    BY Uint32Properties, WordFacts
  <1> QED BY <1>1, <1>2, SameInt32

(* serverSeqNum++ is the next number's word.                               *)
LEMMA Uint32OfSum ==
    ASSUME NEW n \in Int
    PROVE  Uint32(Uint32(n) + 1) = Uint32(n + 1)
  <1>1. PICK k \in Int : Uint32(n) = n + Word * k
    BY Uint32Properties
  <1>2. Word * k \in Int
    BY WordFacts
  <1>3. Uint32(n) + 1 = (n + 1) + Word * k /\ Uint32(n) + 1 \in Int
    BY <1>1, <1>2
  <1> QED BY <1>3, SameUint32

(* Below 2^31 the words are the numbers.                                   *)
LEMMA SmallWords ==
    ASSUME NEW n \in 0 .. Half - 1
    PROVE  Int32(n) = n /\ Uint32(n) = n
  <1>1. n \in 0 .. Word - 1 /\ n + Half \in 0 .. Word - 1
    BY WordFacts
  <1>2. n % Word = n /\ (n + Half) % Word = n + Half
    BY <1>1, WordFacts, SmallRemainder
  <1> QED BY <1>2, WordFacts

(* Numbers less than 2^32 apart are the same int only if they are equal.   *)
LEMMA Int32Differ ==
    ASSUME NEW n \in Int, NEW m \in Int, n <= m, m < n + Word, Int32(n) = Int32(m)
    PROVE  n = m
  <1>1. n + Half \in Int /\ m + Half \in Int
    BY WordFacts
  <1>2. (n + Half) % Word \in Int /\ (m + Half) % Word \in Int
    BY <1>1, WordFacts, Division
  <1>3. (n + Half) % Word = (m + Half) % Word
    BY <1>2, WordFacts
  <1>4. n + Half <= m + Half /\ m + Half < (n + Half) + Word
    BY WordFacts
  <1>5. n + Half = m + Half
    BY <1>1, <1>3, <1>4, WordFacts, RemaindersDiffer
  <1> QED BY <1>5, WordFacts

--------------------------------------------------------------------------------
(* The invariant: what each word stands for, and what the slots hold.      *)

EdgesInv ==
    /\ lower = Int32(acked) /\ upper = Int32(acked + myWindowSize)
    /\ current = Int32(sent) /\ serverSeqNum = Uint32(sent)
    /\ sent <= acked + myWindowSize

(* The last round of packets is in its slots, acknowledged or not.         *)
SlotsInv ==
    myWindowSize > 0 /\ sent < Half =>
        /\ fault = "none"
        /\ answer.got = IF answer.asked < sent THEN answer.asked ELSE OneRoundBack
        /\ \A s \in 0 .. sent - 1 : sent <= s + myWindowSize => window[s % myWindowSize] = s
        /\ \A i \in sent .. myWindowSize - 1 : window[i] = 0

(* Nothing is resent with all acknowledged before the end of the file.     *)
EndInv ==
    /\ waitingForLastRR => atEOF
    /\ answer.asked \in 0 .. sent
    /\ myWindowSize > 0 /\ answer.asked = sent => sent = 0 \/ atEOF

WordInv == TypeOK /\ EdgesInv /\ SlotsInv /\ EndInv

(* The types, unfolded.                                                    *)
LEMMA WordTypes ==
    ASSUME TypeOK
    PROVE  /\ myWindowSize \in Nat /\ myWindowSize < Half
           /\ sent \in Nat /\ acked \in Nat /\ acked <= sent /\ sent <= MaxPackets
           /\ DOMAIN window = 0 .. myWindowSize - 1
           /\ \A i \in 0 .. myWindowSize - 1 : window[i] \in 0 .. MaxPackets
           /\ MaxPackets \in Nat /\ Half \in Nat \ {0}
  <1>1. myWindowSize \in 0 .. Half - 1
    BY WordAssumption DEF TypeOK
  <1> QED BY <1>1, WordFacts DEF TypeOK

(* isWindowOpen() compares words, but decides as the numbers do.           *)
LEMMA OpenMeansRoom ==
    ASSUME WordInv
    PROVE  IsWindowOpen <=> sent # acked + myWindowSize
  <1>1. /\ sent \in Int /\ acked + myWindowSize \in Int
        /\ sent <= acked + myWindowSize /\ acked + myWindowSize < sent + Word
    BY WordTypes, WordFacts DEF WordInv, EdgesInv
  <1>2. current = Int32(sent) /\ upper = Int32(acked + myWindowSize)
    BY DEF WordInv, EdgesInv
  <1> QED BY <1>1, <1>2, Int32Differ DEF IsWindowOpen

(* The outcome of an access, and when there is a slot.                     *)
LEMMA AccessProperties ==
    ASSUME TypeOK, NEW s
    PROVE  /\ Access(s) \in {"none", "SIGFPE", "outside"}
           /\ Access(s) = "none" <=> myWindowSize # 0 /\ GetIndex(s) \in 0 .. myWindowSize - 1
  BY WordTypes DEF Access

(* Below 2^31 every number has its slot.                                   *)
LEMMA SlotOfNumber ==
    ASSUME TypeOK, myWindowSize > 0, NEW s \in 0 .. Half - 1
    PROVE  /\ GetIndex(s) = s % myWindowSize
           /\ GetIndex(s) \in 0 .. myWindowSize - 1
           /\ Access(s) = "none"
  <1>1. GetIndex(s) = s % myWindowSize
    BY SmallWords, WordFacts DEF GetIndex, Remainder
  <1>2. s % myWindowSize \in 0 .. myWindowSize - 1
    <2>1. s \in Int /\ myWindowSize \in Nat \ {0}
      BY WordTypes
    <2> QED BY <2>1, RemainderRange
  <1> QED BY <1>1, <1>2, AccessProperties, WordTypes

--------------------------------------------------------------------------------
(* The steps.                                                              *)

(* What sendData() stores is in the slot of its packet, and in no slot of  *)
(* one that is not acknowledged.                                           *)
LEMMA SendPacketStep ==
    ASSUME WordInv, SendPacket
    PROVE  WordInv'
  <1>1. TypeOK /\ EdgesInv /\ SlotsInv /\ EndInv
    BY DEF WordInv
  <1>2. /\ myWindowSize \in Nat /\ myWindowSize < Half /\ sent \in Nat /\ acked \in Nat
        /\ acked <= sent /\ sent < MaxPackets /\ MaxPackets \in Nat /\ ~atEOF
    BY <1>1, WordTypes DEF SendPacket
  <1>3. /\ sent' = sent + 1 /\ acked' = acked /\ answer' = answer
        /\ myWindowSize' = myWindowSize /\ lower' = lower /\ upper' = upper
        /\ current' = Int32(current + 1) /\ serverSeqNum' = Uint32(serverSeqNum + 1)
        /\ fault' = Access(serverSeqNum)
        /\ window' = IF fault' = "none"
                     THEN [window EXCEPT ![GetIndex(serverSeqNum)] = sent] ELSE window
        /\ UNCHANGED <<tryCount, atEOF, waitingForLastRR>>
    BY DEF SendPacket, Incremented, eofVars
  <1>4. sent < acked + myWindowSize
    <2>1. sent # acked + myWindowSize
      BY OpenMeansRoom DEF SendPacket
    <2> QED BY <1>1, <1>2, <2>1 DEF EdgesInv
  <1>5. current' = Int32(sent + 1) /\ serverSeqNum' = Uint32(sent + 1)
    BY <1>1, <1>2, <1>3, Int32OfSum, Uint32OfSum DEF EdgesInv
  <1>6. EdgesInv'
    BY <1>1, <1>2, <1>3, <1>4, <1>5 DEF EdgesInv
  <1>7. TypeOK'
    <2>1. current' \in IntRange /\ serverSeqNum' \in 0 .. 2 * Half - 1
      <3>1. sent + 1 \in Int
        BY <1>2
      <3> QED BY <1>5, <3>1, Int32Properties, Uint32Properties
    <2>2. fault' \in {"none", "SIGFPE", "outside"}
      BY <1>1, <1>3, AccessProperties
    <2>3. sent \in 0 .. MaxPackets /\ sent' \in 0 .. MaxPackets /\ acked' \in 0 .. sent'
      BY <1>2, <1>3
    <2>4. window' \in [0 .. myWindowSize - 1 -> 0 .. MaxPackets]
      BY <1>1, <1>3, <2>3 DEF TypeOK
    <2> QED BY <1>1, <1>3, <2>1, <2>2, <2>3, <2>4 DEF TypeOK
  <1>8. SlotsInv'
    <2> SUFFICES ASSUME myWindowSize > 0, sent + 1 < Half
                 PROVE  /\ fault' = "none" /\ answer.got = answer.asked /\ answer.asked < sent + 1
                        /\ \A s \in 0 .. sent : sent + 1 <= s + myWindowSize =>
                                                 window'[s % myWindowSize] = s
                        /\ \A i \in sent + 1 .. myWindowSize - 1 : window'[i] = 0
      BY <1>2, <1>3 DEF SlotsInv
    <2>1. sent \in 0 .. Half - 1 /\ sent < Half /\ myWindowSize \in Nat \ {0}
      BY <1>2, WordFacts
    <2>2. serverSeqNum = sent
      BY <1>1, <2>1, SmallWords DEF EdgesInv
    <2>3. /\ GetIndex(sent) = sent % myWindowSize /\ Access(sent) = "none"
          /\ sent % myWindowSize \in 0 .. myWindowSize - 1
      BY <1>1, <2>1, SlotOfNumber
    <2>4. window' = [window EXCEPT ![sent % myWindowSize] = sent] /\ fault' = "none"
      BY <1>3, <2>2, <2>3
    <2>5. \A i \in 0 .. myWindowSize - 1 :
              window'[i] = IF i = sent % myWindowSize THEN sent ELSE window[i]
      BY <1>1, <2>3, <2>4, WordTypes
    <2>6. ASSUME NEW s \in 0 .. sent, sent + 1 <= s + myWindowSize
          PROVE  window'[s % myWindowSize] = s
      <3>1. s \in Int /\ sent \in Int /\ s <= sent /\ sent < s + myWindowSize
        BY <1>2, <2>6
      <3>2. s % myWindowSize \in 0 .. myWindowSize - 1
        BY <2>1, <3>1, RemainderRange
      <3>3. CASE s = sent
        BY <2>5, <3>2, <3>3
      <3>4. CASE s # sent
        <4>1. s % myWindowSize # sent % myWindowSize
          BY <2>1, <3>1, <3>4, RemaindersDiffer
        <4>2. s \in 0 .. sent - 1 /\ sent <= s + myWindowSize
          BY <1>2, <3>1, <3>4
        <4>3. window[s % myWindowSize] = s
          BY <1>1, <2>1, <4>2 DEF SlotsInv
        <4> QED BY <2>5, <3>2, <4>1, <4>3
      <3> QED BY <3>3, <3>4
    <2>7. ASSUME NEW i \in sent + 1 .. myWindowSize - 1
          PROVE  window'[i] = 0
      <3>1. i \in sent .. myWindowSize - 1 /\ i \in 0 .. myWindowSize - 1 /\ i # sent
        BY <1>2, <2>7
      <3>2. sent \in 0 .. myWindowSize - 1
        BY <1>2, <2>7
      <3>3. sent % myWindowSize = sent
        BY <2>1, <3>2, SmallRemainder
      <3> QED BY <1>1, <2>1, <2>5, <3>1, <3>3 DEF SlotsInv
    <2>8. answer.got = answer.asked /\ answer.asked < sent + 1
      <3>1. answer.asked \in 0 .. sent /\ (answer.asked = sent => sent = 0)
        BY <1>1, <1>2 DEF EndInv
      <3>2. answer.got = IF answer.asked < sent THEN answer.asked ELSE OneRoundBack
        BY <1>1, <2>1 DEF SlotsInv
      <3> QED BY <1>2, <3>1, <3>2 DEF OneRoundBack
    <2> QED BY <2>4, <2>6, <2>7, <2>8
  <1>9. EndInv'
    BY <1>1, <1>2, <1>3 DEF EndInv
  <1> QED BY <1>6, <1>7, <1>8, <1>9 DEF WordInv

(* An access that changes no more than fault keeps the rest.               *)
LEMMA AccessStep ==
    ASSUME WordInv, UNCHANGED <<windowVars, serverSeqNum, sent, acked>>,
           NEW s, fault' = Access(s),
           myWindowSize > 0 /\ sent < Half => s \in 0 .. Half - 1,
           answer' \in [asked : 0 .. MaxPackets, got : -1 .. MaxPackets],
           myWindowSize > 0 /\ sent < Half =>
               answer'.got = IF answer'.asked < sent THEN answer'.asked ELSE OneRoundBack,
           answer'.asked \in 0 .. sent,
           myWindowSize > 0 /\ answer'.asked = sent => sent = 0 \/ atEOF',
           waitingForLastRR' => atEOF',
           tryCount' \in 0 .. MAX_TRIES - 1,
           atEOF' \in BOOLEAN, waitingForLastRR' \in BOOLEAN
    PROVE  WordInv'
  <1>1. TypeOK /\ EdgesInv /\ SlotsInv /\ EndInv
    BY DEF WordInv
  <1>2. fault' \in {"none", "SIGFPE", "outside"}
    BY <1>1, AccessProperties
  <1>3. myWindowSize > 0 /\ sent < Half => fault' = "none"
    BY <1>1, SlotOfNumber
  <1>4. TypeOK'
    BY <1>1, <1>2 DEF TypeOK, windowVars
  <1>5. EdgesInv'
    BY <1>1 DEF EdgesInv, windowVars
  <1>6. SlotsInv'
    BY <1>1, <1>3 DEF SlotsInv, OneRoundBack, windowVars
  <1>7. EndInv'
    BY DEF EndInv, windowVars
  <1> QED BY <1>4, <1>5, <1>6, <1>7 DEF WordInv

(* lower, below 2^31 packets, is the packet the last RR asked for.         *)
LEMMA LowerIsAcked ==
    ASSUME WordInv, sent < Half
    PROVE  lower = acked /\ lower \in 0 .. Half - 1
  <1>1. acked \in 0 .. Half - 1
    BY WordTypes DEF WordInv
  <1> QED BY <1>1, SmallWords DEF WordInv, EdgesInv

(* The slot of the next packet, below 2^31, is that of one round before.   *)
LEMMA SlotOfNext ==
    ASSUME TypeOK, SlotsInv, myWindowSize > 0, sent < Half
    PROVE  window[sent % myWindowSize] = OneRoundBack
  <1>1. sent \in Nat /\ myWindowSize \in Nat \ {0}
    BY WordTypes
  <1>2. CASE sent >= myWindowSize
    <2> DEFINE s == sent - myWindowSize
    <2>1. s \in 0 .. sent - 1 /\ s \in Int /\ sent <= s + myWindowSize
          /\ sent = s + myWindowSize * 1 /\ sent \in Int /\ 1 \in Int
      BY <1>1, <1>2
    <2> HIDE DEF s
    <2>2. sent % myWindowSize = s % myWindowSize
      BY <1>1, <2>1, SameRemainder
    <2> USE DEF s
    <2>3. window[s % myWindowSize] = s
      BY <2>1 DEF SlotsInv
    <2> QED BY <1>2, <2>2, <2>3 DEF OneRoundBack
  <1>3. CASE sent < myWindowSize
    <2>1. sent \in 0 .. myWindowSize - 1 /\ sent \in sent .. myWindowSize - 1
      BY <1>1, <1>3
    <2>2. sent % myWindowSize = sent
      BY <1>1, <2>1, SmallRemainder
    <2> QED BY <1>1, <1>3, <2>1, <2>2 DEF SlotsInv, OneRoundBack
  <1> QED BY <1>1, <1>2, <1>3

(* Packet n, if it is one of those not acknowledged, is in its slot.       *)
LEMMA ResendFindsPacket ==
    ASSUME WordInv, NEW n \in acked .. sent, NEW s, Resend(n, s),
           sent < Half => s = n
    PROVE  /\ answer' \in [asked : 0 .. MaxPackets, got : -1 .. MaxPackets]
           /\ answer'.asked = n /\ n \in 0 .. sent
           /\ myWindowSize > 0 /\ sent < Half =>
                  /\ answer'.got = IF answer'.asked < sent THEN answer'.asked ELSE OneRoundBack
                  /\ s \in 0 .. Half - 1
  <1> DEFINE got == IF fault' = "none" THEN window[GetIndex(s)] ELSE -1
  <1>1. fault' = Access(s) /\ answer' = [asked |-> n, got |-> got]
    BY DEF Resend
  <1>2. TypeOK /\ SlotsInv /\ EdgesInv
    BY DEF WordInv
  <1>3. got \in -1 .. MaxPackets
    <2>1. CASE fault' = "none"
      <3>1. GetIndex(s) \in 0 .. myWindowSize - 1
        BY <1>1, <1>2, <2>1, AccessProperties
      <3>2. window[GetIndex(s)] \in 0 .. MaxPackets
        BY <1>2, <3>1, WordTypes
      <3> QED BY <2>1, <3>2, <1>2, WordTypes
    <2>2. CASE fault' # "none"
      BY <1>2, <2>2, WordTypes
    <2> QED BY <2>1, <2>2
  <1>4. n \in 0 .. MaxPackets /\ n \in 0 .. sent /\ n \in Int
    BY <1>2, WordTypes
  <1>5. ASSUME myWindowSize > 0, sent < Half
        PROVE  got = (IF n < sent THEN n ELSE OneRoundBack) /\ s \in 0 .. Half - 1
    <2>1. s = n /\ s \in 0 .. Half - 1
      BY <1>2, <1>4, <1>5, WordTypes
    <2>2. got = window[n % myWindowSize]
      BY <1>1, <1>2, <1>5, <2>1, SlotOfNumber
    <2>3. CASE n < sent
      <3>1. n \in 0 .. sent - 1 /\ sent <= n + myWindowSize
        BY <1>2, <1>4, <2>3, WordTypes DEF EdgesInv
      <3>2. window[n % myWindowSize] = n
        BY <1>2, <1>5, <3>1 DEF SlotsInv
      <3> QED BY <2>1, <2>2, <2>3, <3>2
    <2>4. CASE n = sent
      BY <1>2, <1>4, <1>5, <2>1, <2>2, <2>4, SlotOfNext, WordTypes
    <2>5. n < sent \/ n = sent
      BY <1>2, <1>4, WordTypes
    <2> QED BY <2>3, <2>4, <2>5
  <1> HIDE DEF got
  <1> QED BY <1>1, <1>3, <1>4, <1>5

(* The first packet is sent to an empty window, with nothing acknowledged. *)
LEMMA WordInit == Init => WordInv
  <1> SUFFICES ASSUME Init PROVE WordInv
    OBVIOUS
  <1>1. myWindowSize \in WindowSizes /\ myWindowSize \in 0 .. Half - 1
    BY WordAssumption DEF Init
  <1>2. Int32(0) = 0 /\ Uint32(0) = 0 /\ Int32(myWindowSize) = myWindowSize
    <2>1. 0 \in 0 .. Half - 1
      BY WordFacts
    <2> QED BY <1>1, <2>1, SmallWords
  <1>3. 0 \in IntRange /\ myWindowSize \in IntRange /\ 0 \in 0 .. 2 * Half - 1
    BY <1>1, WordFacts DEF IntRange
  <1>4. TypeOK
    <2>1. window \in [0 .. myWindowSize - 1 -> 0 .. MaxPackets]
      BY <1>1, WordFacts DEF Init
    <2>2. answer \in [asked : 0 .. MaxPackets, got : -1 .. MaxPackets]
      BY WordFacts DEF Init
    <2>3. 0 \in 0 .. MAX_TRIES - 1 /\ 0 \in 0 .. MaxPackets /\ 0 \in 0 .. 0
      BY WordFacts
    <2>4. sent = 0 /\ acked = 0 /\ tryCount = 0 /\ lower = 0 /\ current = 0
          /\ upper = myWindowSize /\ serverSeqNum = 0 /\ fault = "none"
          /\ atEOF \in BOOLEAN /\ waitingForLastRR \in BOOLEAN
      BY DEF Init
    <2> QED BY <1>1, <1>3, <2>1, <2>2, <2>3, <2>4 DEF TypeOK
  <1>5. EdgesInv
    BY <1>1, <1>2 DEF Init, EdgesInv
  <1>6. SlotsInv
    BY <1>1 DEF Init, SlotsInv, OneRoundBack
  <1>7. EndInv
    BY DEF Init, EndInv
  <1> QED BY <1>4, <1>5, <1>6, <1>7 DEF WordInv

(* Every step.                                                             *)
LEMMA WordStep == WordInv /\ [Next]_vars => WordInv'
  <1> SUFFICES ASSUME WordInv, [Next]_vars PROVE WordInv'
    OBVIOUS
  <1>1. TypeOK /\ EdgesInv /\ SlotsInv /\ EndInv
    BY DEF WordInv
  <1>2. /\ myWindowSize \in Nat /\ myWindowSize < Half /\ sent \in Nat /\ acked \in Nat
        /\ acked <= sent /\ sent <= MaxPackets /\ MaxPackets \in Nat
        /\ MAX_TRIES \in Nat \ {0} /\ tryCount \in 0 .. MAX_TRIES - 1
        /\ atEOF \in BOOLEAN /\ waitingForLastRR \in BOOLEAN
    BY <1>1, WordTypes, WordFacts DEF TypeOK
  <1>3. CASE SendPacket
    BY <1>3, SendPacketStep
  <1>4. CASE ReachEndOfFile
    <2>1. waitingForLastRR' \in BOOLEAN
      BY <1>4, Zenon DEF ReachEndOfFile
    <2>2. answer' = answer /\ fault' = Access(lower) /\ tryCount' = tryCount /\ atEOF' = TRUE
          /\ UNCHANGED <<windowVars, serverSeqNum, sent, acked>>
      BY <1>4 DEF ReachEndOfFile
    <2>3. answer \in [asked : 0 .. MaxPackets, got : -1 .. MaxPackets]
      BY <1>1 DEF TypeOK
    <2>4. /\ myWindowSize > 0 /\ sent < Half =>
                 answer.got = IF answer.asked < sent THEN answer.asked ELSE OneRoundBack
          /\ answer.asked \in 0 .. sent
      BY <1>1 DEF SlotsInv, EndInv
    <2> QED BY <1>2, <2>1, <2>2, <2>3, <2>4, LowerIsAcked, AccessStep
  <1>5. CASE ReceiveRR
    <2>1. PICK n \in acked .. sent :
              /\ lower' = Int32(Uint32(n)) /\ upper' = Int32(lower' + myWindowSize)
              /\ acked' = n
              /\ waitingForLastRR' = (waitingForLastRR /\ n # sent)
      BY <1>5 DEF ReceiveRR
    <2>2. n \in Nat /\ acked <= n /\ n <= sent
      BY <1>2, <2>1
    <2>3. lower' = Int32(n) /\ upper' = Int32(n + myWindowSize)
      BY <1>2, <2>1, <2>2, Int32OfUint32, Int32OfSum
    <2>4. lower' \in IntRange /\ upper' \in IntRange
      <3>1. n + myWindowSize \in Int
        BY <1>2, <2>2
      <3> QED BY <2>2, <2>3, <3>1, Int32Properties
    <2>5. /\ tryCount' = 0
          /\ UNCHANGED <<myWindowSize, current, window, serverSeqNum, atEOF, sent, answer, fault>>
      BY <1>5 DEF ReceiveRR
    <2>6. waitingForLastRR' \in BOOLEAN
      BY <2>1, Zenon
    <2>7. TypeOK'
      <3>1. acked' \in 0 .. sent' /\ tryCount' \in 0 .. MAX_TRIES - 1
        BY <1>2, <2>1, <2>2, <2>5
      <3> QED BY <1>1, <2>4, <2>5, <2>6, <3>1 DEF TypeOK
    <2>8. EdgesInv'
      BY <1>1, <1>2, <2>1, <2>2, <2>3, <2>5 DEF EdgesInv
    <2>9. SlotsInv'
      BY <1>1, <2>5 DEF SlotsInv, OneRoundBack
    <2>10. EndInv'
      <3>1. waitingForLastRR' => waitingForLastRR
        BY <2>1, Zenon
      <3> QED BY <1>1, <2>5, <3>1 DEF EndInv
    <2> QED BY <2>7, <2>8, <2>9, <2>10 DEF WordInv
  <1>6. CASE ReceiveSREJ
    <2>1. PICK n \in acked .. sent - 1 : Resend(n, Uint32(n))
      BY <1>6 DEF ReceiveSREJ
    <2>2. n \in acked .. sent /\ n < sent /\ n \in Nat
      BY <1>2, <2>1
    <2>3. sent < Half => Uint32(n) = n
      <3>1. sent < Half => n \in 0 .. Half - 1
        BY <1>2, <2>2, WordFacts
      <3> QED BY <3>1, SmallWords
    <2>4. /\ tryCount' = 0 /\ UNCHANGED <<windowVars, serverSeqNum, eofVars, sent, acked>>
          /\ fault' = Access(Uint32(n))
      BY <1>6, <2>1 DEF ReceiveSREJ, Resend
    <2>5. tryCount' \in 0 .. MAX_TRIES - 1
      BY <1>2, <2>4
    <2>6. /\ answer' \in [asked : 0 .. MaxPackets, got : -1 .. MaxPackets]
          /\ answer'.asked \in 0 .. sent /\ answer'.asked # sent
          /\ myWindowSize > 0 /\ sent < Half =>
                 /\ answer'.got = IF answer'.asked < sent THEN answer'.asked ELSE OneRoundBack
                 /\ Uint32(n) \in 0 .. Half - 1
      BY <2>1, <2>2, <2>3, ResendFindsPacket
    <2>7. (waitingForLastRR' => atEOF') /\ atEOF' \in BOOLEAN /\ waitingForLastRR' \in BOOLEAN
      BY <1>1, <1>2, <2>4 DEF EndInv, eofVars
    <2> QED BY <2>4, <2>5, <2>6, <2>7, AccessStep
  <1>7. CASE ResendLowest
    <2>1. /\ tryCount' = tryCount + 1 /\ tryCount + 1 < MAX_TRIES
          /\ UNCHANGED <<windowVars, serverSeqNum, eofVars, sent, acked>>
          /\ fault' = Access(lower) /\ Resend(acked, lower)
          /\ ~IsWindowOpen \/ waitingForLastRR
      BY <1>7 DEF ResendLowest, Resend
    <2>2. tryCount' \in 0 .. MAX_TRIES - 1
      BY <1>2, <2>1
    <2>3. acked \in acked .. sent /\ (sent < Half => lower = acked)
      BY <1>2, LowerIsAcked
    <2>4. /\ answer' \in [asked : 0 .. MaxPackets, got : -1 .. MaxPackets]
          /\ answer'.asked \in 0 .. sent /\ answer'.asked = acked
          /\ myWindowSize > 0 /\ sent < Half =>
                 /\ answer'.got = IF answer'.asked < sent THEN answer'.asked ELSE OneRoundBack
                 /\ lower \in 0 .. Half - 1
      BY <2>1, <2>3, ResendFindsPacket
    <2>5. myWindowSize > 0 /\ acked = sent => atEOF
      <3>1. ~IsWindowOpen => sent = acked + myWindowSize
        BY OpenMeansRoom
      <3> QED BY <1>1, <1>2, <2>1, <3>1 DEF EndInv
    <2>6. (waitingForLastRR' => atEOF') /\ atEOF' = atEOF
          /\ atEOF' \in BOOLEAN /\ waitingForLastRR' \in BOOLEAN
      BY <1>1, <1>2, <2>1 DEF EndInv, eofVars
    <2> QED BY <2>1, <2>2, <2>4, <2>5, <2>6, AccessStep
  <1>8. CASE UNCHANGED vars
    BY <1>1, <1>8 DEF vars, windowVars, eofVars, WordInv, TypeOK, EdgesInv, SlotsInv,
                      EndInv, OneRoundBack
  <1> QED BY <1>3, <1>4, <1>5, <1>6, <1>7, <1>8 DEF Next

--------------------------------------------------------------------------------
(* The words keep their ranges, for every width and every window size the  *)
(* FNAME may carry, 0 included.                                            *)
THEOREM TypeSafety == Spec => []TypeOK
  <1>1. WordInv => TypeOK
    BY DEF WordInv
  <1> QED BY <1>1, WordInit, WordStep, PTL DEF Spec

(* isWindowOpen() is right however often the sequence numbers have wrapped *)
(* round: an equality of words less than 2^32 apart is one of numbers.     *)
THEOREM OpenAtEveryNumber == Spec => []OpenAsNumbers
  <1>1. WordInv => OpenAsNumbers
    BY OpenMeansRoom DEF WordInv, EdgesInv, OpenAsNumbers
  <1> QED BY <1>1, WordInit, WordStep, PTL DEF Spec

(* Below 2^31 packets getIndex() never leaves the array; a resend is of    *)
(* the packet asked for or the lowest not acknowledged and, when all are,  *)
(* of the one a round of the window before.                                *)
THEOREM SafeBelowLimit == Spec => []SafeBelowHalf
  <1>1. WordInv => SafeBelowHalf
    BY DEF WordInv, SlotsInv, SafeBelowHalf
  <1> QED BY <1>1, WordInit, WordStep, PTL DEF Spec
================================================================================
