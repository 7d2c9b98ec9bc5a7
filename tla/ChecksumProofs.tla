----------------------------- MODULE ChecksumProofs ----------------------------
(***************************************************************************)
(* For every header and every payload: one flipped byte is detected, and   *)
(* what is not flipped is accepted and retrieved as it was sent.           *)
(*                                                                         *)
(* in_cksum() adds up any number of words, so what its sum is has to be    *)
(* shown word by word: there would be a first word after which it is not   *)
(* so (LeastNat), and there is not.                                        *)
(***************************************************************************)
EXTENDS Checksum, SequenceTheorems, WellFoundedInduction, TLAPS

(* A set of naturals that is not empty has a least member.                 *)
LEMMA LeastNat ==
    ASSUME NEW T, T \subseteq Nat, T # {}
    PROVE  \E n \in T : \A m \in T : n <= m
  <1>1. PICK n \in T : \A m \in T : ~(<<m, n>> \in OpToRel(<, Nat))
    BY NatLessThanWellFounded, WFMin
  <1>2. \A m \in Nat : m < n => <<m, n>> \in OpToRel(<, Nat)
    <2> TAKE m \in Nat
    <2> HAVE m < n
    <2> DEFINE p == <<m, n>>
    <2>1. OpToRel(<, Nat) = {ss \in Nat \X Nat : ss[1] < ss[2]}
      BY Zenon DEF OpToRel
    <2>2. p \in Nat \X Nat /\ p[1] < p[2]
      OBVIOUS
    <2> HIDE DEF p
    <2>3. p \in {ss \in Nat \X Nat : ss[1] < ss[2]}
      BY <2>2
    <2>4. p \in OpToRel(<, Nat)
      BY <2>1, <2>3, Zenon
    <2> QED BY <2>4 DEF p
  <1>3. \A m \in T : n <= m
    <2> TAKE m \in T
    <2>1. ~(m < n)
      BY <1>1, <1>2, Zenon
    <2> QED BY <2>1
  <1> QED BY <1>3

--------------------------------------------------------------------------------
(* What the lemmas say of numbers, kept from the provers until it matters. *)
IsWord(w) == w \in Nat /\ w < 65536

IsFit(sum) == sum \in Nat /\ sum < 2147483648

Complement(w) == 65535 - w

IsMultiple(sum) == \E q \in Nat : sum = 65535 * q

IsPDU(bytes) == bytes \in Seq(Byte) /\ Len(bytes) <= 1407

IsPayload(payload) == payload \in Seq(Byte) /\ Len(payload) <= 1400

--------------------------------------------------------------------------------
(* The sums after each word.                                               *)
IsSums(f, n, bytes) ==
    f = [i \in 0 .. n |-> IF i = 0 THEN 0 ELSE f[i - 1] + Word(bytes, i)]

(* So the running sums of in_cksum() exist for every length.               *)
LEMMA SumsExist ==
    ASSUME NEW bytes, NEW N \in Nat
    PROVE  \E f : IsSums(f, N, bytes)
  <1> DEFINE T == {n \in Nat : ~ \E f : IsSums(f, n, bytes)}
  <1> SUFFICES ASSUME T # {} PROVE FALSE
    OBVIOUS
  <1>1. PICK n \in T : \A m \in T : n <= m
    BY LeastNat, Zenon
  <1>2. CASE n = 0
    <2> DEFINE f == [i \in 0 .. 0 |-> 0]
    <2>1. IsSums(f, 0, bytes)
      BY DEF IsSums
    <2> QED BY <1>2, <2>1
  <1>3. CASE n > 0
    <2>1. n - 1 \in Nat /\ ~(n <= n - 1)
      BY <1>3
    <2>2. PICK g : IsSums(g, n - 1, bytes)
      BY <1>1, <2>1
    <2> DEFINE f == [i \in 0 .. n |-> IF i = n THEN g[n - 1] + Word(bytes, n) ELSE g[i]]
    <2>3. \A i \in 0 .. n : f[i] = IF i = 0 THEN 0 ELSE f[i - 1] + Word(bytes, i)
      <3> TAKE i \in 0 .. n
      <3>1. CASE i = n
        BY <1>3, <2>1, <3>1
      <3>2. CASE i < n
        <4>1. i \in 0 .. n - 1 /\ (i # 0 => i - 1 \in 0 .. n - 1)
          BY <3>2
        <4>2. g[i] = IF i = 0 THEN 0 ELSE g[i - 1] + Word(bytes, i)
          BY <2>2, <4>1 DEF IsSums
        <4> QED BY <3>2, <4>1, <4>2
      <3> QED BY <3>1, <3>2
    <2>4. f = [i \in 0 .. n |-> f[i]]
      OBVIOUS
    <2> HIDE DEF f
    <2>5. IsSums(f, n, bytes)
      BY <2>3, <2>4 DEF IsSums
    <2> QED BY <2>5
  <1> QED BY <1>1, <1>2, <1>3

(* The recursion of WordSum is what it looks like.                         *)
LEMMA WordSumRecursion ==
    ASSUME NEW bytes \in Seq(Byte)
    PROVE  /\ NumWords(bytes) \in Nat
           /\ \E f : /\ f[0] = 0
                     /\ \A i \in 1 .. NumWords(bytes) : f[i] = f[i - 1] + Word(bytes, i)
                     /\ WordSum(bytes) = f[NumWords(bytes)]
  <1> DEFINE sum[i \in 0 .. NumWords(bytes)] ==
                 IF i = 0 THEN 0 ELSE sum[i - 1] + Word(bytes, i)
  <1>1. NumWords(bytes) \in Nat
    <2>1. Len(bytes) \in Nat
      OBVIOUS
    <2> QED BY <2>1 DEF NumWords
  <1>2. WordSum(bytes) = sum[NumWords(bytes)]
    BY Zenon DEF WordSum
  <1>3. \E f : f = [i \in 0 .. NumWords(bytes) |->
                        IF i = 0 THEN 0 ELSE f[i - 1] + Word(bytes, i)]
    BY <1>1, SumsExist, Zenon DEF IsSums
  <1>4. sum = [i \in 0 .. NumWords(bytes) |->
                   IF i = 0 THEN 0 ELSE sum[i - 1] + Word(bytes, i)]
    BY <1>3, Zenon
  <1> HIDE DEF sum
  <1>5. sum[0] = 0 /\ \A i \in 1 .. NumWords(bytes) : sum[i] = sum[i - 1] + Word(bytes, i)
    BY <1>1, <1>4
  <1> QED BY <1>1, <1>2, <1>5

(* A byte is less than 256.                                                *)
LEMMA ByteRange == \A b : b \in Byte <=> b \in Nat /\ b < 256
  <1>1. ASSUME NEW n \in Nat, NEW b
        PROVE  b \in 0 .. n <=> b \in Nat /\ b < n + 1
    OBVIOUS
  <1>2. \A b : b \in 0 .. 255 <=> b \in Nat /\ b < 255 + 1
    <2>1. 255 \in Nat
      OBVIOUS
    <2> QED BY <1>1, <2>1, Zenon
  <1>3. 255 + 1 = 256
    OBVIOUS
  <1> QED BY <1>2, <1>3, Zenon DEF Byte

(* What is below 256 is a byte.                                            *)
LEMMA SmallIsByte ==
    ASSUME NEW b \in Nat, b < 256
    PROVE  b \in Byte
  BY ByteRange, Zenon

(* A word is sixteen bits.                                                 *)
LEMMA WordType ==
    ASSUME NEW bytes \in Seq(Byte), NEW i \in 1 .. NumWords(bytes)
    PROVE  Word(bytes, i) \in Nat /\ Word(bytes, i) < 65536
  <1> DEFINE n == Len(bytes)
             j == 2 * i - 1
             k == 2 * i
  <1>1. n \in Nat /\ \A h \in 1 .. n : bytes[h] \in Nat /\ bytes[h] < 256
    BY ByteRange
  <1>2. j \in 1 .. n /\ k \in Nat \ {0}
    <2>1. n \in Nat /\ i \in 1 .. (n + 1) \div 2
      BY <1>1 DEF NumWords
    <2> HIDE DEF n
    <2> QED BY <2>1
  <1>3. Word(bytes, i) = bytes[j] + 256 * (IF k <= n THEN bytes[k] ELSE 0)
    BY DEF Word
  <1> HIDE DEF n, j, k
  <1>4. /\ bytes[j] \in Nat /\ bytes[j] < 256
        /\ k <= n => bytes[k] \in Nat /\ bytes[k] < 256
    BY <1>1, <1>2
  <1> QED BY <1>3, <1>4

(* The sum is a natural, and with the words of one PDU fits in an int.     *)
LEMMA WordSumType ==
    ASSUME NEW bytes \in Seq(Byte)
    PROVE  WordSum(bytes) \in Nat /\ WordSum(bytes) <= 65535 * NumWords(bytes)
  <1>1. NumWords(bytes) \in Nat
    BY WordSumRecursion
  <1>2. PICK f : /\ f[0] = 0
                 /\ \A i \in 1 .. NumWords(bytes) : f[i] = f[i - 1] + Word(bytes, i)
                 /\ WordSum(bytes) = f[NumWords(bytes)]
    BY WordSumRecursion
  <1> DEFINE Bounded(n) == f[n] \in Nat /\ f[n] <= 65535 * n
             T == {n \in 0 .. NumWords(bytes) : ~Bounded(n)}
  <1>3. T = {}
    <2> SUFFICES ASSUME T # {} PROVE FALSE
      OBVIOUS
    <2>1. T \subseteq Nat
      BY <1>1
    <2>2. PICK n \in T : \A m \in T : n <= m
      <3> HIDE DEF T
      <3> QED BY <2>1, LeastNat, Zenon
    <2>3. n # 0
      BY <1>2, <2>2
    <2>4. n - 1 \in 0 .. NumWords(bytes) /\ n \in 1 .. NumWords(bytes) /\ ~(n <= n - 1)
      BY <1>1, <2>1, <2>3
    <2>5. Bounded(n - 1)
      BY <2>2, <2>4
    <2>6. /\ Word(bytes, n) \in Nat /\ Word(bytes, n) < 65536
          /\ f[n] = f[n - 1] + Word(bytes, n)
      <3>1. Word(bytes, n) \in Nat /\ Word(bytes, n) < 65536
        <4> HIDE DEF T
        <4> QED BY <2>4, WordType
      <3> QED BY <1>2, <2>4, <3>1
    <2>7. Bounded(n)
      BY <2>4, <2>5, <2>6
    <2> QED BY <2>2, <2>7
  <1>4. NumWords(bytes) \in 0 .. NumWords(bytes)
    BY <1>1
  <1> QED BY <1>2, <1>3, <1>4

(* Sums of words that differ in one place differ by what those do.         *)
LEMMA WordSumChange ==
    ASSUME NEW a \in Seq(Byte), NEW b \in Seq(Byte), Len(a) = Len(b),
           NEW k \in 1 .. NumWords(a),
           \A i \in 1 .. NumWords(a) : i # k => Word(a, i) = Word(b, i)
    PROVE  WordSum(b) = WordSum(a) + (Word(b, k) - Word(a, k))
  <1> DEFINE N == NumWords(a)
             d == Word(b, k) - Word(a, k)
  <1>1. N \in Nat /\ NumWords(b) = N
    BY WordSumRecursion DEF NumWords
  <1>2. PICK f : /\ f[0] = 0
                 /\ \A i \in 1 .. N : f[i] = f[i - 1] + Word(a, i)
                 /\ WordSum(a) = f[N]
    BY WordSumRecursion
  <1>3. PICK g : /\ g[0] = 0
                 /\ \A i \in 1 .. N : g[i] = g[i - 1] + Word(b, i)
                 /\ WordSum(b) = g[N]
    BY <1>1, WordSumRecursion
  <1>4. \A i \in 1 .. N : Word(a, i) \in Nat /\ Word(b, i) \in Nat
    BY <1>1, WordType
  <1> DEFINE Related(n) == f[n] \in Int /\ g[n] = f[n] + (IF n < k THEN 0 ELSE d)
             T == {n \in 0 .. N : ~Related(n)}
  <1>5. k \in Nat \ {0} /\ k <= N /\ d \in Int
    BY <1>1, <1>4
  <1> HIDE DEF N, d
  <1>6. T = {}
    <2> SUFFICES ASSUME T # {} PROVE FALSE
      OBVIOUS
    <2>1. T \subseteq Nat
      BY <1>1
    <2>2. PICK n \in T : \A m \in T : n <= m
      BY <2>1, LeastNat, Zenon
    <2>3. n # 0
      BY <1>2, <1>3, <1>5, <2>2
    <2>4. n - 1 \in 0 .. N /\ n \in 1 .. N /\ ~(n <= n - 1)
      BY <1>1, <2>1, <2>3
    <2>5. Related(n - 1)
      BY <2>2, <2>4
    <2>6. /\ f[n] = f[n - 1] + Word(a, n) /\ g[n] = g[n - 1] + Word(b, n)
          /\ Word(a, n) \in Int /\ Word(b, n) \in Int
      BY <1>2, <1>3, <1>4, <2>4
    <2>7. CASE n = k
      BY <1>5, <2>4, <2>5, <2>6, <2>7, <2>2 DEF d
    <2>8. CASE n # k
      <3>1. Word(a, n) = Word(b, n)
        BY <2>4, <2>8 DEF N
      <3> QED BY <1>5, <2>4, <2>5, <2>6, <2>8, <2>2, <3>1
    <2> QED BY <2>7, <2>8
  <1>7. Related(N)
    BY <1>1, <1>6
  <1>8. WordSum(b) = WordSum(a) + d
    BY <1>1, <1>2, <1>3, <1>5, <1>7
  <1> QED BY <1>8 DEF d

--------------------------------------------------------------------------------
(* The two halves of a 32-bit sum, and what folding makes of them.         *)
LEMMA FoldedHalves ==
    ASSUME NEW s \in Nat, s < 2147483648
    PROVE  \E h, l \in Nat :
               /\ h < 32768 /\ l < 65536 /\ s = 65536 * h + l
               /\ Folded(s) = IF h + l < 65536 THEN h + l ELSE h + l - 65535
  <1> DEFINE h == s \div 65536
             l == s % 65536
             once == h + l
  <1>1. h \in Nat /\ h < 32768 /\ l \in Nat /\ l < 65536 /\ s = 65536 * h + l
    OBVIOUS
  <1>2. Folded(s) = (once + (once \div 65536)) % 65536
    BY DEF Folded
  <1> HIDE DEF h, l
  <1>3. CASE once < 65536
    <2>1. once \div 65536 = 0
      BY <1>1, <1>3
    <2>2. (once + 0) % 65536 = once
      BY <1>1, <1>3
    <2>3. Folded(s) = once
      BY <1>2, <2>1, <2>2
    <2> QED BY <1>1, <1>3, <2>3
  <1>4. CASE once >= 65536
    <2>1. once \div 65536 = 1
      BY <1>1, <1>4
    <2>2. (once + 1) % 65536 = once - 65535
      BY <1>1, <1>4
    <2>3. Folded(s) = once - 65535
      BY <1>2, <2>1, <2>2
    <2> QED BY <1>1, <1>4, <2>3
  <1> QED BY <1>1, <1>3, <1>4

(* Sixteen bits; all ones only for a multiple of 65535 other than zero,    *)
(* and what is missing to all ones is missing to such a multiple.          *)
LEMMA FoldedProperties ==
    ASSUME NEW s, IsFit(s)
    PROVE  /\ IsWord(Folded(s)) /\ IsWord(Complement(Folded(s)))
           /\ Complement(Folded(s)) = 0 => IsMultiple(s)
           /\ IsMultiple(s + Complement(Folded(s))) /\ s + Complement(Folded(s)) # 0
           /\ Folded(s) = IF s = 0 THEN 0 ELSE ((s - 1) % 65535) + 1
  <1>1. PICK h \in Nat, l \in Nat :
            /\ h < 32768 /\ l < 65536 /\ s = 65536 * h + l
            /\ Folded(s) = IF h + l < 65536 THEN h + l ELSE h + l - 65535
    BY FoldedHalves DEF IsFit
  <1>2. CASE h + l < 65536
    <2>1. Folded(s) = 65535 => s = 65535 * (h + 1)
      BY <1>1, <1>2
    <2>2. s + (65535 - Folded(s)) = 65535 * (h + 1)
      BY <1>1, <1>2
    <2>3. s # 0 => (s - 1) % 65535 = h + l - 1
      <3>1. ASSUME s # 0 PROVE (s - 1) % 65535 = h + l - 1
        <4>1. s - 1 = 65535 * h + (h + l - 1) /\ h + l - 1 \in Nat /\ h + l - 1 < 65535
          BY <1>1, <1>2, <3>1
        <4> QED BY <4>1
      <3> QED BY <3>1
    <2>4. Complement(Folded(s)) = 0 => IsMultiple(s)
      <3> DEFINE k == h + 1
      <3>1. k \in Nat /\ (Complement(Folded(s)) = 0 => s = 65535 * k)
        BY <1>1, <1>2, <2>1 DEF Complement
      <3> HIDE DEF k
      <3> QED BY <3>1 DEF IsMultiple
    <2>5. IsMultiple(s + Complement(Folded(s)))
      <3> DEFINE k == h + 1
      <3>1. k \in Nat /\ s + Complement(Folded(s)) = 65535 * k
        BY <2>2 DEF Complement
      <3> HIDE DEF k
      <3> QED BY <3>1 DEF IsMultiple
    <2>6. Folded(s) = IF s = 0 THEN 0 ELSE ((s - 1) % 65535) + 1
      BY <1>1, <1>2, <2>3
    <2>7. IsWord(Folded(s)) /\ IsWord(Complement(Folded(s)))
      BY <1>1, <1>2 DEF IsWord, Complement
    <2>8. s + Complement(Folded(s)) # 0
      BY <1>1, <2>2 DEF Complement
    <2> QED BY <2>4, <2>5, <2>6, <2>7, <2>8
  <1>3. CASE h + l >= 65536
    <2>1. Folded(s) # 65535
      BY <1>1, <1>3
    <2>2. s + (65535 - Folded(s)) = 65535 * (h + 2)
      BY <1>1, <1>3
    <2>3. (s - 1) % 65535 = h + l - 65536
      <3>1. /\ s - 1 = 65535 * (h + 1) + (h + l - 65536)
            /\ h + l - 65536 \in Nat /\ h + l - 65536 < 65535
        BY <1>1, <1>3
      <3> QED BY <3>1
    <2>4. IsMultiple(s + Complement(Folded(s)))
      <3> DEFINE k == h + 2
      <3>1. k \in Nat /\ s + Complement(Folded(s)) = 65535 * k
        BY <2>2 DEF Complement
      <3> HIDE DEF k
      <3> QED BY <3>1 DEF IsMultiple
    <2>5. Folded(s) = IF s = 0 THEN 0 ELSE ((s - 1) % 65535) + 1
      BY <1>1, <1>3, <2>3
    <2>6. IsWord(Folded(s)) /\ IsWord(Complement(Folded(s)))
      BY <1>1, <1>3 DEF IsWord, Complement
    <2>7. s + Complement(Folded(s)) # 0
      BY <1>1, <2>2 DEF Complement
    <2>8. Complement(Folded(s)) # 0
      BY <1>1, <1>3, <2>1 DEF Complement
    <2> QED BY <2>4, <2>5, <2>6, <2>7, <2>8
  <1> QED BY <1>1, <1>2, <1>3

(* A multiple of 65535 that fits is folded to all ones.                    *)
LEMMA FoldedMultiple ==
    ASSUME NEW s, IsFit(s), IsMultiple(s), s # 0
    PROVE  Complement(Folded(s)) = 0
  <1>1. s \in Nat /\ s < 2147483648
    BY DEF IsFit
  <1>2. PICK q \in Nat : s = 65535 * q
    BY DEF IsMultiple
  <1>3. PICK h \in Nat, l \in Nat :
            /\ h < 32768 /\ l < 65536 /\ s = 65536 * h + l
            /\ Folded(s) = IF h + l < 65536 THEN h + l ELSE h + l - 65535
    BY <1>1, FoldedHalves
  <1>4. q - h = 1
    BY <1>1, <1>2, <1>3
  <1>5. Folded(s) = 65535
    BY <1>2, <1>3, <1>4
  <1> QED BY <1>5 DEF Complement

--------------------------------------------------------------------------------
(* Where the bytes of two sequences are in their concatenation.            *)
LEMMA ConcatParts ==
    ASSUME NEW s \in Seq(Byte), NEW t \in Seq(Byte)
    PROVE  /\ s \o t \in Seq(Byte) /\ Len(s \o t) = Len(s) + Len(t)
           /\ \A i \in 1 .. Len(s) : (s \o t)[i] = s[i]
           /\ \A i \in 1 .. Len(t) : (s \o t)[Len(s) + i] = t[i]
  <1>1. Len(s) \in Nat /\ Len(t) \in Nat
    OBVIOUS
  <1>2. /\ s \o t \in Seq(Byte) /\ Len(s \o t) = Len(s) + Len(t)
        /\ \A i \in 1 .. Len(s) + Len(t) :
               (s \o t)[i] = IF i <= Len(s) THEN s[i] ELSE t[i - Len(s)]
    BY ConcatProperties, Zenon
  <1> DEFINE st == s \o t
  <1> HIDE DEF st
  <1>3. \A i \in 1 .. Len(s) : st[i] = s[i]
    BY <1>1, <1>2 DEF st
  <1>4. \A i \in 1 .. Len(t) : st[Len(s) + i] = t[i]
    <2> TAKE i \in 1 .. Len(t)
    <2> DEFINE j == Len(s) + i
    <2>1. j \in 1 .. Len(s) + Len(t) /\ ~(j <= Len(s)) /\ j - Len(s) = i
      BY <1>1
    <2> HIDE DEF j
    <2>2. st[j] = t[i]
      BY <1>2, <2>1 DEF st
    <2> QED BY <2>2 DEF j
  <1> QED BY <1>2, <1>3, <1>4 DEF st

(* The bytes of a PDU with u in the place of the checksum, place by place. *)
IsHeader(bytes, n, u, flag, payload) ==
    /\ bytes \in Seq(Byte) /\ Len(bytes) = 7 + Len(payload)
    /\ bytes[1] = n[4] /\ bytes[2] = n[3] /\ bytes[3] = n[2] /\ bytes[4] = n[1]
    /\ bytes[5] = u[1] /\ bytes[6] = u[2] /\ bytes[7] = flag
    /\ \A i \in 1 .. Len(payload) : bytes[7 + i] = payload[i]

(* Where the fields of a PDU stand once they are concatenated.             *)
LEMMA HeaderProperties ==
    ASSUME NEW n \in [1 .. 4 -> Byte], NEW u \in Seq(Byte), Len(u) = 2,
           NEW flag \in Byte, NEW payload \in Seq(Byte)
    PROVE  IsHeader(Htonl(n) \o u \o <<flag>> \o payload, n, u, flag, payload)
  <1> DEFINE h == Htonl(n)
             f == <<flag>>
             hu == h \o u
             huf == hu \o f
             bytes == huf \o payload
  <1>1. /\ h \in Seq(Byte) /\ Len(h) = 4
        /\ h[1] = n[4] /\ h[2] = n[3] /\ h[3] = n[2] /\ h[4] = n[1]
    BY DEF Htonl
  <1>2. f \in Seq(Byte) /\ Len(f) = 1 /\ f[1] = flag
    OBVIOUS
  <1> HIDE DEF h, f
  <1>3. /\ hu \in Seq(Byte) /\ Len(hu) = Len(h) + Len(u)
        /\ \A i \in 1 .. Len(h) : hu[i] = h[i]
        /\ \A i \in 1 .. Len(u) : hu[Len(h) + i] = u[i]
    BY <1>1, ConcatParts, Zenon
  <1> HIDE DEF hu
  <1>4. /\ Len(hu) = 6 /\ hu[1] = n[4] /\ hu[2] = n[3] /\ hu[3] = n[2] /\ hu[4] = n[1]
        /\ hu[5] = u[1] /\ hu[6] = u[2]
    <2>1. hu[4 + 1] = u[1] /\ hu[4 + 2] = u[2]
      BY <1>1, <1>3
    <2> QED BY <1>1, <1>3, <2>1
  <1>5. /\ huf \in Seq(Byte) /\ Len(huf) = Len(hu) + Len(f)
        /\ \A i \in 1 .. Len(hu) : huf[i] = hu[i]
        /\ \A i \in 1 .. Len(f) : huf[Len(hu) + i] = f[i]
    BY <1>2, <1>3, ConcatParts, Zenon
  <1> HIDE DEF huf
  <1>6. /\ Len(huf) = 7 /\ huf[1] = n[4] /\ huf[2] = n[3] /\ huf[3] = n[2] /\ huf[4] = n[1]
        /\ huf[5] = u[1] /\ huf[6] = u[2] /\ huf[7] = flag
    <2>1. huf[6 + 1] = f[1]
      BY <1>2, <1>4, <1>5
    <2> QED BY <1>2, <1>4, <1>5, <2>1
  <1>7. /\ bytes \in Seq(Byte) /\ Len(bytes) = Len(huf) + Len(payload)
        /\ \A i \in 1 .. Len(huf) : bytes[i] = huf[i]
        /\ \A i \in 1 .. Len(payload) : bytes[Len(huf) + i] = payload[i]
    BY <1>5, ConcatParts, Zenon
  <1>8. Htonl(n) \o u \o <<flag>> \o payload = bytes
    BY DEF h, f, hu, huf
  <1> HIDE DEF bytes
  <1>9. /\ bytes[1] = n[4] /\ bytes[2] = n[3] /\ bytes[3] = n[2] /\ bytes[4] = n[1]
        /\ bytes[5] = u[1] /\ bytes[6] = u[2] /\ bytes[7] = flag
    BY <1>6, <1>7
  <1>10. Len(bytes) = 7 + Len(payload)
         /\ \A i \in 1 .. Len(payload) : bytes[7 + i] = payload[i]
    BY <1>6, <1>7
  <1> QED BY <1>7, <1>8, <1>9, <1>10 DEF IsHeader

(* The same for Layout.                                                    *)
IsLayout(bytes, n, c, flag, payload) ==
    /\ bytes \in Seq(Byte) /\ Len(bytes) = 7 + Len(payload)
    /\ bytes[1] = n[4] /\ bytes[2] = n[3] /\ bytes[3] = n[2] /\ bytes[4] = n[1]
    /\ bytes[5] = c % 256 /\ bytes[6] = c \div 256 /\ bytes[7] = flag
    /\ \A i \in 1 .. Len(payload) : bytes[7 + i] = payload[i]

(* The same with the checksum written as its two bytes.                    *)
LEMMA LayoutProperties ==
    ASSUME NEW n \in [1 .. 4 -> Byte], NEW c, IsWord(c),
           NEW flag \in Byte, NEW payload \in Seq(Byte)
    PROVE  IsLayout(Layout(n, c, flag, payload), n, c, flag, payload)
  <1> DEFINE low == c % 256
             high == c \div 256
             u == Uint16Bytes(c)
  <1>1. low \in Nat /\ low < 256 /\ high \in Nat /\ high < 256
    BY DEF IsWord
  <1>2. u = <<low, high>>
    BY DEF Uint16Bytes
  <1>3. Layout(n, c, flag, payload) = Htonl(n) \o u \o <<flag>> \o payload
    BY DEF Layout
  <1> HIDE DEF low, high
  <1>4. low \in Byte /\ high \in Byte
    BY <1>1, SmallIsByte
  <1> HIDE DEF u
  <1>5. u \in Seq(Byte) /\ Len(u) = 2 /\ u[1] = low /\ u[2] = high
    BY <1>2, <1>4
  <1> DEFINE bytes == Htonl(n) \o u \o <<flag>> \o payload
  <1>6. IsHeader(bytes, n, u, flag, payload)
    BY <1>5, HeaderProperties, Zenon
  <1> HIDE DEF bytes
  <1>7. Layout(n, c, flag, payload) = bytes
    BY <1>3 DEF bytes
  <1> QED BY <1>5, <1>6, <1>7 DEF low, high, IsHeader, IsLayout

(* Only the third word is the checksum's, and it is the checksum.          *)
LEMMA CksumIsThirdWord ==
    ASSUME NEW n \in [1 .. 4 -> Byte], NEW c, IsWord(c),
           NEW flag \in Byte, NEW payload \in Seq(Byte)
    PROVE  WordSum(Layout(n, c, flag, payload)) = WordSum(Layout(n, 0, flag, payload)) + c
  <1> DEFINE a == Layout(n, 0, flag, payload)
             b == Layout(n, c, flag, payload)
             m == Len(payload)
  <1>1. IsWord(0) /\ m \in Nat
    BY DEF IsWord
  <1>2. IsLayout(a, n, 0, flag, payload) /\ IsLayout(b, n, c, flag, payload)
    BY <1>1, LayoutProperties, Zenon
  <1> HIDE DEF a, b
  <1>3. /\ a \in Seq(Byte) /\ Len(a) = 7 + m /\ a[5] = 0 /\ a[6] = 0
        /\ b \in Seq(Byte) /\ Len(b) = 7 + m /\ b[5] = c % 256 /\ b[6] = c \div 256
        /\ a[1] = b[1] /\ a[2] = b[2] /\ a[3] = b[3] /\ a[4] = b[4] /\ a[7] = b[7]
        /\ \A i \in 1 .. m : a[7 + i] = b[7 + i]
    BY <1>2 DEF IsLayout
  <1> HIDE DEF m
  <1>4. \A j \in 1 .. 7 + m : j \notin {5, 6} => a[j] = b[j]
    <2> TAKE j \in 1 .. 7 + m
    <2> HAVE j \notin {5, 6}
    <2>1. CASE j <= 7
      BY <1>1, <1>3, <2>1
    <2>2. CASE j > 7
      <3> DEFINE i == j - 7
      <3>1. i \in 1 .. m /\ j = 7 + i
        BY <1>1, <2>2
      <3> HIDE DEF i
      <3> QED BY <1>3, <3>1
    <2> QED BY <1>1, <2>1, <2>2
  <1>5. NumWords(a) \in Nat /\ 3 \in 1 .. NumWords(a)
    BY <1>1, <1>3 DEF NumWords
  <1>6. \A i \in 1 .. NumWords(a) : i # 3 => Word(a, i) = Word(b, i)
    <2> TAKE i \in 1 .. NumWords(a)
    <2> HAVE i # 3
    <2> DEFINE j == 2 * i - 1
               k == 2 * i
    <2>1. j \in 1 .. 7 + m /\ j \notin {5, 6} /\ k \in Nat \ {0} /\ k \notin {5, 6}
      BY <1>1, <1>3 DEF NumWords
    <2>2. Word(a, i) = a[j] + 256 * (IF k <= Len(a) THEN a[k] ELSE 0)
      BY DEF Word
    <2>3. Word(b, i) = b[j] + 256 * (IF k <= Len(b) THEN b[k] ELSE 0)
      BY DEF Word
    <2> HIDE DEF j, k
    <2>4. a[j] = b[j] /\ (k <= 7 + m => a[k] = b[k])
      BY <1>1, <1>4, <2>1
    <2> QED BY <1>3, <2>2, <2>3, <2>4
  <1>7. Word(a, 3) = 0 /\ Word(b, 3) = c
    <2>1. 6 <= 7 + m
      BY <1>1
    <2>2. Word(a, 3) = a[5] + 256 * a[6] /\ Word(b, 3) = b[5] + 256 * b[6]
      BY <1>3, <2>1 DEF Word
    <2>3. (c % 256) + 256 * (c \div 256) = c
      <3>1. c \in Nat
        BY DEF IsWord
      <3> QED BY <3>1
    <2>4. Word(b, 3) = (c % 256) + 256 * (c \div 256)
      BY <1>3, <2>2
    <2> QED BY <1>3, <2>2, <2>3, <2>4
  <1>9. WordSum(b) = WordSum(a) + (Word(b, 3) - Word(a, 3))
    BY <1>3, <1>5, <1>6, WordSumChange
  <1>10. WordSum(a) \in Nat /\ c \in Nat
    BY <1>3, WordSumType DEF IsWord
  <1> QED BY <1>7, <1>9, <1>10 DEF a, b

--------------------------------------------------------------------------------
(* What fits in an int: a PDU of at most 1407 bytes.                       *)
LEMMA WordSumFits ==
    ASSUME NEW bytes, IsPDU(bytes)
    PROVE  IsFit(WordSum(bytes))
  <1>1. WordSum(bytes) \in Nat /\ WordSum(bytes) <= 65535 * NumWords(bytes)
    BY WordSumType DEF IsPDU
  <1>2. NumWords(bytes) \in Nat /\ NumWords(bytes) <= 704
    BY DEF IsPDU, NumWords
  <1> QED BY <1>1, <1>2 DEF IsFit

(* A PDU that was created adds up to all ones.                             *)
LEMMA CreatedPDU ==
    ASSUME NEW n \in [1 .. 4 -> Byte], NEW flag \in Byte,
           NEW payload, IsPayload(payload)
    PROVE  /\ \E c : IsLayout(CreatePDU(n, flag, payload), n, c, flag, payload)
           /\ IsMultiple(WordSum(CreatePDU(n, flag, payload)))
           /\ WordSum(CreatePDU(n, flag, payload)) # 0
  <1> DEFINE a == Layout(n, 0, flag, payload)
             s == WordSum(a)
             c == Complement(Folded(s))
             bytes == Layout(n, c, flag, payload)
  <1>1. payload \in Seq(Byte)
    BY DEF IsPayload
  <1>2. IsLayout(a, n, 0, flag, payload)
    <2>1. IsWord(0)
      BY DEF IsWord
    <2> QED BY <1>1, <2>1, LayoutProperties, Zenon
  <1>3. IsFit(s)
    <2> HIDE DEF a
    <2>1. IsPDU(a)
      BY <1>2 DEF IsLayout, IsPDU, IsPayload
    <2> QED BY <2>1, WordSumFits, Zenon
  <1>4. CreatePDU(n, flag, payload) = bytes
    BY DEF CreatePDU, InCksum, Complement
  <1> HIDE DEF s
  <1>5. IsWord(c) /\ IsMultiple(s + c) /\ s + c # 0
    BY <1>3, FoldedProperties
  <1> HIDE DEF c
  <1>6. IsLayout(bytes, n, c, flag, payload)
    BY <1>1, <1>5, LayoutProperties, Zenon
  <1>7. WordSum(bytes) = WordSum(a) + c
    BY <1>1, <1>5, CksumIsThirdWord, Zenon
  <1> QED BY <1>4, <1>5, <1>6, <1>7, Zenon DEF s

(* checkChecksum() accepts just the multiples of 65535.                    *)
LEMMA AcceptedSums ==
    ASSUME NEW bytes, IsPDU(bytes)
    PROVE  /\ InCksum(bytes) = Complement(Folded(WordSum(bytes)))
           /\ IsMultiple(WordSum(bytes)) /\ WordSum(bytes) # 0
                  => CheckChecksum(bytes) = "CRC_GOOD"
           /\ ~IsMultiple(WordSum(bytes)) => CheckChecksum(bytes) = "CRC_ERROR"
  <1> DEFINE s == WordSum(bytes)
  <1>1. IsFit(s)
    BY WordSumFits
  <1>2. InCksum(bytes) = Complement(Folded(s))
    BY DEF InCksum, Complement
  <1> HIDE DEF s
  <1>3. IsMultiple(s) /\ s # 0 => Complement(Folded(s)) = 0
    BY <1>1, FoldedMultiple
  <1>4. Complement(Folded(s)) = 0 => IsMultiple(s)
    BY <1>1, FoldedProperties
  <1> QED BY <1>2, <1>3, <1>4, Zenon DEF CheckChecksum, s

(* One flipped byte changes one word by less than 65535, and changes it.   *)
LEMMA FlipChangesSum ==
    ASSUME NEW a \in Seq(Byte), NEW j \in 1 .. Len(a),
           IsMultiple(WordSum(a))
    PROVE  /\ [a EXCEPT ![j] = 255 - @] \in Seq(Byte)
           /\ Len([a EXCEPT ![j] = 255 - @]) = Len(a)
           /\ ~IsMultiple(WordSum([a EXCEPT ![j] = 255 - @]))
  <1> DEFINE b == [a EXCEPT ![j] = 255 - @]
             x == a[j]
             y == 255 - x
             m == Len(a)
             k == (j + 1) \div 2
  <1>1. m \in Nat /\ x \in Nat /\ x < 256 /\ j \in 1 .. m
    BY ByteRange
  <1>2. y \in Byte
    <2>1. y \in Nat /\ y < 256
      BY <1>1
    <2> HIDE DEF y
    <2> QED BY <2>1, SmallIsByte
  <1>3. b = [a EXCEPT ![j] = y]
    OBVIOUS
  <1> HIDE DEF b
  <1>4. /\ b \in Seq(Byte) /\ Len(b) = m /\ b[j] = y
        /\ \A i \in 1 .. m : i # j => b[i] = a[i]
    <2> HIDE DEF y
    <2> QED BY <1>2, <1>3
  <1>5. k \in 1 .. NumWords(a)
    <2>1. NumWords(a) = (m + 1) \div 2
      BY DEF NumWords
    <2> HIDE DEF m
    <2> QED BY <1>1, <2>1
  <1>6. \A i \in 1 .. NumWords(a) : i # k => Word(a, i) = Word(b, i)
    <2> TAKE i \in 1 .. NumWords(a)
    <2> HAVE i # k
    <2> DEFINE l == 2 * i - 1
               h == 2 * i
    <2>1. l \in 1 .. m /\ l # j /\ h \in Nat \ {0} /\ h # j
      BY <1>1 DEF NumWords
    <2>2. Word(a, i) = a[l] + 256 * (IF h <= m THEN a[h] ELSE 0)
      BY DEF Word
    <2>3. Word(b, i) = b[l] + 256 * (IF h <= m THEN b[h] ELSE 0)
      BY <1>4 DEF Word
    <2> HIDE DEF l, h, m
    <2>4. a[l] = b[l] /\ (h <= m => a[h] = b[h])
      BY <1>1, <1>4, <2>1
    <2> QED BY <2>2, <2>3, <2>4
  <1> DEFINE d == Word(b, k) - Word(a, k)
  <1>7. d = 255 - 2 * x \/ d = 256 * (255 - 2 * x)
    <2> DEFINE l == 2 * k - 1
               h == 2 * k
    <2>1. /\ l \in 1 .. m /\ h \in Nat \ {0}
          /\ j = l \/ (j = h /\ h <= m)
      BY <1>1
    <2>2. Word(a, k) = a[l] + 256 * (IF h <= m THEN a[h] ELSE 0)
      BY DEF Word
    <2>3. Word(b, k) = b[l] + 256 * (IF h <= m THEN b[h] ELSE 0)
      BY <1>4 DEF Word
    <2>4. \A i \in 1 .. m : a[i] \in Nat
      BY ByteRange
    <2>5. h = l + 1
      BY <1>1
    <2> HIDE DEF l, h, m, k
    <2>6. CASE j = l
      <3>1. b[l] = 255 - x /\ a[l] = x /\ (h <= m => a[h] = b[h] /\ a[h] \in Nat)
        BY <1>1, <1>4, <2>1, <2>4, <2>5, <2>6
      <3>2. d = 255 - 2 * x
        BY <1>1, <2>2, <2>3, <3>1
      <3> QED BY <3>2
    <2>7. CASE j = h /\ h <= m
      <3>1. b[h] = 255 - x /\ a[h] = x /\ a[l] = b[l] /\ a[l] \in Nat
        BY <1>1, <1>4, <2>1, <2>4, <2>5, <2>7
      <3>2. d = 256 * (255 - 2 * x)
        BY <1>1, <2>2, <2>3, <2>7, <3>1
      <3> QED BY <3>2
    <2> QED BY <2>1, <2>6, <2>7
  <1> PICK q \in Nat : WordSum(a) = 65535 * q
    BY DEF IsMultiple
  <1>8. WordSum(b) = 65535 * q + d
    <2>1. WordSum(b) = WordSum(a) + d
      <3> HIDE DEF k
      <3> QED BY <1>4, <1>5, <1>6, WordSumChange
    <2> QED BY <2>1
  <1> HIDE DEF d, x, m, k
  <1>9. ASSUME NEW r \in Nat, WordSum(b) = 65535 * r PROVE FALSE
    <2> DEFINE e == r - q
    <2>0. d \in Int
      BY <1>1, <1>7
    <2>1. e \in Int /\ d = 65535 * e
      BY <2>0, <1>8, <1>9
    <2> HIDE DEF e
    <2>2. CASE d = 255 - 2 * x
      BY <1>1, <2>1, <2>2
    <2>3. CASE d = 256 * (255 - 2 * x)
      BY <1>1, <2>1, <2>3
    <2> QED BY <1>7, <2>2, <2>3
  <1>10. ~IsMultiple(WordSum(b))
    BY <1>9 DEF IsMultiple
  <1> QED BY <1>4, <1>10 DEF b, m

--------------------------------------------------------------------------------
(* retrieveHeader() returns a header whatever the bytes are.               *)
LEMMA RetrieveHeaderType ==
    ASSUME NEW bytes \in Seq(Byte), 7 <= Len(bytes)
    PROVE  /\ RetrieveHeader(bytes) \in Header
           /\ RetrieveHeader(bytes).payload = SubSeq(bytes, 8, Len(bytes))
  <1> DEFINE m == Len(bytes)
             payload == SubSeq(bytes, 8, m)
  <1>1. m \in Nat /\ 7 <= m /\ \A i \in 1 .. m : bytes[i] \in Byte
    OBVIOUS
  <1>2. payload \in Seq(Byte)
    <2> HIDE DEF m
    <2>1. \A i \in 8 .. m : bytes[i] \in Byte
      BY <1>1
    <2>2. 8 \in Int /\ m \in Int
      BY <1>1
    <2> QED BY <2>1, <2>2, SubSeqProperties, Zenon
  <1>3. Ntohl(<<bytes[1], bytes[2], bytes[3], bytes[4]>>) \in [1 .. 4 -> Byte]
    BY <1>1 DEF Ntohl
  <1>4. RetrieveHeader(bytes) =
            [checksumStatus |-> CheckChecksum(bytes),
             seqNum         |-> Ntohl(<<bytes[1], bytes[2], bytes[3], bytes[4]>>),
             flag           |-> bytes[7],
             payload        |-> payload]
    BY DEF RetrieveHeader, CHECKSUM_SIZE, PDU_HEADER_SIZE
  <1>5. CheckChecksum(bytes) \in {"CRC_GOOD", "CRC_ERROR"} /\ bytes[7] \in Byte
    BY <1>1 DEF CheckChecksum
  <1> HIDE DEF payload
  <1>6. RetrieveHeader(bytes) \in Header /\ RetrieveHeader(bytes).payload = payload
    BY <1>2, <1>3, <1>4, <1>5 DEF Header
  <1> QED BY <1>6 DEF payload

(* retrieveHeader() undoes createPDU().                                    *)
LEMMA CreatedIsRetrieved ==
    ASSUME NEW n \in [1 .. 4 -> Byte], NEW flag \in Byte,
           NEW payload, IsPayload(payload)
    PROVE  /\ IsPDU(CreatePDU(n, flag, payload))
           /\ Len(CreatePDU(n, flag, payload)) = 7 + Len(payload)
           /\ RetrieveHeader(CreatePDU(n, flag, payload)) =
                  [checksumStatus |-> "CRC_GOOD", seqNum |-> n, flag |-> flag,
                   payload |-> payload]
  <1> DEFINE bytes == CreatePDU(n, flag, payload)
             m == Len(payload)
             read == SubSeq(bytes, 8, 7 + m)
  <1>1. payload \in Seq(Byte) /\ m \in Nat
    BY DEF IsPayload
  <1>2. PICK c : IsLayout(bytes, n, c, flag, payload)
    BY CreatedPDU
  <1>3. IsMultiple(WordSum(bytes)) /\ WordSum(bytes) # 0
    BY CreatedPDU, Zenon
  <1> HIDE DEF bytes
  <1>4. IsPDU(bytes)
    BY <1>2 DEF IsLayout, IsPDU, IsPayload
  <1>5. CheckChecksum(bytes) = "CRC_GOOD"
    BY <1>3, <1>4, AcceptedSums, Zenon
  <1>6. /\ bytes \in Seq(Byte) /\ Len(bytes) = 7 + m
        /\ bytes[1] = n[4] /\ bytes[2] = n[3] /\ bytes[3] = n[2] /\ bytes[4] = n[1]
        /\ bytes[7] = flag
        /\ \A i \in 1 .. m : bytes[7 + i] = payload[i]
    BY <1>2 DEF IsLayout
  <1> HIDE DEF m
  <1>7. /\ read \in Seq(Byte) /\ Len(read) = m
        /\ \A i \in 1 .. m : read[i] = payload[i]
    <2> DEFINE k == 7 + m
    <2>1. 8 \in Int /\ k \in Int /\ k = 7 + m
      BY <1>1
    <2> HIDE DEF k
    <2>2. \A i \in 8 .. k : bytes[i] \in Byte
      BY <1>1, <1>6, <2>1
    <2>3. /\ SubSeq(bytes, 8, k) \in Seq(Byte)
          /\ Len(SubSeq(bytes, 8, k)) = IF 8 <= k THEN k - 8 + 1 ELSE 0
          /\ \A i \in 1 .. k - 8 + 1 : SubSeq(bytes, 8, k)[i] = bytes[8 + i - 1]
      BY <2>1, <2>2, SubSeqProperties
    <2>4. read = SubSeq(bytes, 8, k)
      BY <2>1
    <2> HIDE DEF read
    <2>5. \A i \in 1 .. m : read[i] = payload[i]
      <3> TAKE i \in 1 .. m
      <3>1. i \in 1 .. k - 8 + 1 /\ 8 + i - 1 = 7 + i
        BY <1>1, <2>1
      <3>2. read[i] = bytes[7 + i]
        BY <2>3, <2>4, <3>1
      <3> QED BY <1>6, <3>2
    <2>6. Len(read) = m
      BY <1>1, <2>1, <2>3, <2>4
    <2> QED BY <2>3, <2>4, <2>5, <2>6
  <1> HIDE DEF read
  <1>8. read = payload
    <2>1. Len(read) = Len(payload)
      BY <1>7 DEF m
    <2>2. \A i \in 1 .. Len(read) : read[i] = payload[i]
      BY <1>7
    <2> QED BY <1>1, <1>7, <2>1, <2>2, SeqEqual, Zenon
  <1>9. Ntohl(<<bytes[1], bytes[2], bytes[3], bytes[4]>>) = n
    <2>1. Ntohl(<<bytes[1], bytes[2], bytes[3], bytes[4]>>) = <<n[1], n[2], n[3], n[4]>>
      BY <1>6 DEF Ntohl
    <2>2. n = <<n[1], n[2], n[3], n[4]>>
      OBVIOUS
    <2> QED BY <2>1, <2>2
  <1>10. SubSeq(bytes, 8, Len(bytes)) = read
    BY <1>6 DEF read
  <1>11. RetrieveHeader(bytes) =
             [checksumStatus |-> CheckChecksum(bytes),
              seqNum         |-> Ntohl(<<bytes[1], bytes[2], bytes[3], bytes[4]>>),
              flag           |-> bytes[7],
              payload        |-> SubSeq(bytes, 8, Len(bytes))]
    BY DEF RetrieveHeader, CHECKSUM_SIZE, PDU_HEADER_SIZE
  <1> QED BY <1>4, <1>5, <1>6, <1>8, <1>9, <1>10, <1>11 DEF bytes, m

--------------------------------------------------------------------------------
(* The PDU on its way is one that createPDU() made, flipped or not.        *)
Carries(n, flag, payload) ==
    /\ sent = [Nothing EXCEPT !.seqNum = n, !.flag = flag, !.payload = payload]
    /\ flipped = 0 => pdu = CreatePDU(n, flag, payload)
    /\ flipped # 0 =>
           /\ flipped \in 1 .. Len(CreatePDU(n, flag, payload))
           /\ pdu = [CreatePDU(n, flag, payload) EXCEPT ![flipped] = 255 - @]

CarriesPDU ==
    \E n \in Uint32, flag \in Flags, payload \in Payloads : Carries(n, flag, payload)

ChecksumInv ==
    /\ phase \in {"idle", "created", "arrived", "retrieved"}
    /\ phase \in {"idle", "created"} => flipped = 0
    /\ phase = "idle" => sent = Nothing /\ pdu = << >>
    /\ phase # "idle" => CarriesPDU
    /\ retrieved = IF phase = "retrieved" THEN RetrieveHeader(pdu) ELSE Nothing

(* The PDU on its way stays right while nobody touches it.                 *)
LEMMA CarriesUnchanged ==
    ASSUME CarriesPDU, UNCHANGED <<sent, pdu, flipped>>
    PROVE  CarriesPDU'
  <1>1. PICK n \in Uint32, flag \in Flags, payload \in Payloads : Carries(n, flag, payload)
    BY DEF CarriesPDU
  <1>2. sent' = sent /\ pdu' = pdu /\ flipped' = flipped
    OBVIOUS
  <1>3. Carries(n, flag, payload)'
    BY <1>1, <1>2 DEF Carries
  <1> QED BY <1>3 DEF CarriesPDU

(* Building a PDU, flipping a byte of it and reading it keep the invariant. *)
LEMMA NextPreservesChecksumInv ==
    ASSUME ChecksumInv, [Next]_vars
    PROVE  ChecksumInv'
  <1>1. CASE SendPDU
    <2> PICK n \in Uint32, flag \in Flags, payload \in Payloads :
             /\ sent' = [Nothing EXCEPT !.seqNum = n, !.flag = flag, !.payload = payload]
             /\ pdu' = CreatePDU(n, flag, payload)
      BY <1>1, Zenon DEF SendPDU
    <2>1. phase' = "created" /\ flipped' = 0 /\ retrieved' = Nothing
      BY <1>1 DEF SendPDU, ChecksumInv
    <2>2. Carries(n, flag, payload)'
      BY <2>1 DEF Carries
    <2> QED BY <2>1, <2>2 DEF ChecksumInv, CarriesPDU
  <1>2. CASE Deliver
    <2>1. CarriesPDU'
      BY <1>2, CarriesUnchanged DEF Deliver, ChecksumInv
    <2> QED BY <1>2, <2>1 DEF Deliver, ChecksumInv
  <1>3. CASE FlipBits
    <2>1. /\ phase = "created" /\ phase' = "arrived" /\ flipped = 0
          /\ sent' = sent /\ retrieved' = Nothing
      BY <1>3 DEF FlipBits, ChecksumInv
    <2>2. PICK n \in Uint32, flag \in Flags, payload \in Payloads : Carries(n, flag, payload)
      BY <2>1 DEF ChecksumInv, CarriesPDU
    <2>3. pdu = CreatePDU(n, flag, payload)
      BY <2>1, <2>2 DEF Carries
    <2>4. pdu \in Seq(Byte)
      <3>1. n \in [1 .. 4 -> Byte] /\ flag \in Byte
        BY ChecksumAssumption
      <3>2. IsPayload(payload)
        BY ChecksumAssumption DEF IsPayload
      <3>3. IsPDU(CreatePDU(n, flag, payload))
        BY <3>1, <3>2, CreatedIsRetrieved
      <3> QED BY <2>3, <3>3 DEF IsPDU
    <2>5. PICK b \in DOMAIN pdu : flipped' = b /\ pdu' = [pdu EXCEPT ![b] = 255 - @]
      BY <1>3 DEF FlipBits
    <2>6. b \in 1 .. Len(pdu) /\ b # 0
      BY <2>4
    <2>7. Carries(n, flag, payload)'
      BY <2>1, <2>2, <2>3, <2>5, <2>6 DEF Carries
    <2> QED BY <2>1, <2>7 DEF ChecksumInv, CarriesPDU
  <1>4. CASE RetrievePDU
    <2>1. CarriesPDU'
      BY <1>4, CarriesUnchanged DEF RetrievePDU, ChecksumInv
    <2> QED BY <1>4, <2>1 DEF RetrievePDU, ChecksumInv
  <1>5. CASE UNCHANGED vars
    <2>1. phase # "idle" => CarriesPDU'
      BY <1>5, CarriesUnchanged DEF vars, ChecksumInv
    <2> QED BY <1>5, <2>1 DEF vars, ChecksumInv
  <1> QED BY <1>1, <1>2, <1>3, <1>4, <1>5 DEF Next

(* So it holds in every state.                                             *)
LEMMA ChecksumSafety == Spec => []ChecksumInv
  <1>1. Init => ChecksumInv
    BY DEF Init, ChecksumInv
  <1>2. ChecksumInv /\ [Next]_vars => ChecksumInv'
    BY NextPreservesChecksumInv
  <1> QED BY <1>1, <1>2, PTL DEF Spec

(* What the invariant says of a PDU that was sent.                         *)
LEMMA PDUProperties ==
    ASSUME ChecksumInv, phase # "idle"
    PROVE  /\ IsPDU(pdu) /\ 7 <= Len(pdu) /\ Len(pdu) <= PDU_HEADER_SIZE + MAX_PAYLOAD_SIZE
           /\ flipped \in 0 .. Len(pdu)
           /\ sent \in Header
           /\ flipped = 0 => RetrieveHeader(pdu) = sent
           /\ flipped # 0 => CheckChecksum(pdu) = "CRC_ERROR"
  <1>1. PICK n \in Uint32, flag \in Flags, payload \in Payloads : Carries(n, flag, payload)
    BY DEF ChecksumInv, CarriesPDU
  <1>2. n \in [1 .. 4 -> Byte] /\ flag \in Byte /\ payload \in Seq(Byte)
    BY ChecksumAssumption
  <1>3. IsPayload(payload)
    BY ChecksumAssumption DEF IsPayload
  <1> DEFINE a == CreatePDU(n, flag, payload)
  <1>4. /\ IsPDU(a) /\ Len(a) = 7 + Len(payload)
        /\ RetrieveHeader(a) = [checksumStatus |-> "CRC_GOOD", seqNum |-> n, flag |-> flag,
                                payload |-> payload]
    BY <1>2, <1>3, CreatedIsRetrieved
  <1>5. IsMultiple(WordSum(a))
    BY <1>2, <1>3, CreatedPDU
  <1>6. sent = [checksumStatus |-> "CRC_GOOD", seqNum |-> n, flag |-> flag,
                payload |-> payload]
    BY <1>1 DEF Carries, Nothing
  <1>7. 7 <= Len(a) /\ Len(a) <= PDU_HEADER_SIZE + MAX_PAYLOAD_SIZE
    BY <1>2, <1>4, ChecksumAssumption DEF PDU_HEADER_SIZE
  <1>8. sent \in Header
    BY <1>2, <1>6 DEF Header
  <1> HIDE DEF a
  <1>9. CASE flipped = 0
    <2>1. pdu = a
      BY <1>1, <1>9 DEF Carries, a
    <2> QED BY <1>4, <1>6, <1>7, <1>8, <1>9, <2>1 DEF IsPDU
  <1>10. CASE flipped # 0
    <2>1. flipped \in 1 .. Len(a) /\ pdu = [a EXCEPT ![flipped] = 255 - @]
      BY <1>1, <1>10 DEF Carries, a
    <2>2. pdu \in Seq(Byte) /\ Len(pdu) = Len(a) /\ ~IsMultiple(WordSum(pdu))
      <3>1. a \in Seq(Byte)
        BY <1>4 DEF IsPDU
      <3> QED BY <1>5, <2>1, <3>1, FlipChangesSum, Zenon
    <2>3. IsPDU(pdu)
      BY <1>4, <2>2 DEF IsPDU
    <2>4. CheckChecksum(pdu) = "CRC_ERROR"
      BY <2>2, <2>3, AcceptedSums, Zenon
    <2> QED BY <1>7, <1>8, <1>10, <2>1, <2>2, <2>3, <2>4
  <1> QED BY <1>9, <1>10

(* The properties that the run checksum checks follow from it.             *)
LEMMA ChecksumInvImplies ==
    ChecksumInv => TypeOK /\ FlipDetected /\ IntactRetrieved /\ CksumIsOnesComplement
  <1> SUFFICES ASSUME ChecksumInv
               PROVE  TypeOK /\ FlipDetected /\ IntactRetrieved /\ CksumIsOnesComplement
    OBVIOUS
  <1>1. Nothing \in Header
    <2>1. 0 \in Byte
      BY ByteRange
    <2> QED BY <2>1 DEF Nothing, Header
  <1>2. phase \in {"idle", "created", "arrived", "retrieved"}
    BY DEF ChecksumInv
  <1>3. CASE phase = "idle"
    <2>1. sent = Nothing /\ retrieved = Nothing /\ pdu = << >> /\ flipped = 0
      BY <1>3 DEF ChecksumInv
    <2>2. << >> \in Seq(Byte) /\ Len(<< >>) = 0
      OBVIOUS
    <2>3. 0 <= PDU_HEADER_SIZE + MAX_PAYLOAD_SIZE
      BY ChecksumAssumption DEF PDU_HEADER_SIZE
    <2>4. TypeOK
      BY <1>1, <1>2, <2>1, <2>2, <2>3 DEF TypeOK
    <2> QED BY <1>3, <2>4 DEF FlipDetected, IntactRetrieved, CksumIsOnesComplement
  <1>4. CASE phase # "idle"
    <2>1. /\ IsPDU(pdu) /\ 7 <= Len(pdu) /\ Len(pdu) <= PDU_HEADER_SIZE + MAX_PAYLOAD_SIZE
          /\ flipped \in 0 .. Len(pdu)
          /\ sent \in Header
          /\ flipped = 0 => RetrieveHeader(pdu) = sent
          /\ flipped # 0 => CheckChecksum(pdu) = "CRC_ERROR"
      BY <1>4, PDUProperties
    <2>2. retrieved = IF phase = "retrieved" THEN RetrieveHeader(pdu) ELSE Nothing
      BY DEF ChecksumInv
    <2>3. RetrieveHeader(pdu) \in Header
      BY <2>1, RetrieveHeaderType DEF IsPDU
    <2>4. pdu \in Seq(Byte)
      BY <2>1 DEF IsPDU
    <2>5. TypeOK
      BY <1>1, <1>2, <2>1, <2>2, <2>3, <2>4 DEF TypeOK
    <2>6. FlipDetected
      <3>1. RetrieveHeader(pdu).checksumStatus = CheckChecksum(pdu)
        BY DEF RetrieveHeader
      <3> QED BY <2>1, <2>2, <3>1 DEF FlipDetected
    <2>7. IntactRetrieved
      BY <2>1, <2>2 DEF IntactRetrieved
    <2>8. CksumIsOnesComplement
      <3> DEFINE s == WordSum(pdu)
      <3>1. IsFit(s)
        BY <2>1, WordSumFits
      <3> HIDE DEF s
      <3>2. Folded(s) = IF s = 0 THEN 0 ELSE ((s - 1) % 65535) + 1
        BY <3>1, FoldedProperties
      <3>3. InCksum(pdu) = 65535 - OnesComplementSum(pdu)
        BY <3>2 DEF s, InCksum, OnesComplementSum
      <3> QED BY <3>3 DEF CksumIsOnesComplement
    <2> QED BY <2>5, <2>6, <2>7, <2>8
  <1> QED BY <1>3, <1>4

(* For every header and payload, one flipped byte makes checkChecksum()    *)
(* return CRC_ERROR.                                                       *)
THEOREM FlipsAreDetected == Spec => []FlipDetected
  BY ChecksumSafety, ChecksumInvImplies, PTL

(* Types, for every header and payload.                                    *)
THEOREM TypeSafety == Spec => []TypeOK
  BY ChecksumSafety, ChecksumInvImplies, PTL

(* For every header and payload, retrieveHeader() undoes createPDU().      *)
THEOREM IntactIsRetrieved == Spec => []IntactRetrieved
  BY ChecksumSafety, ChecksumInvImplies, PTL

(* Two foldings of in_cksum() are enough for any PDU of this program.      *)
THEOREM CksumIsComplement == Spec => []CksumIsOnesComplement
  BY ChecksumSafety, ChecksumInvImplies, PTL

================================================================================
