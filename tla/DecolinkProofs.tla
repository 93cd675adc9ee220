---------------------------- MODULE DecolinkProofs ----------------------------
(***************************************************************************)
(* What the remote radio links guarantee (DecolinkRx, DecolinkPtt).        *)
(*                                                                         *)
(* Of the audio received, for any number of blocks, any sequence to begin  *)
(* with and any loss, repetition and overtaking: the buffer implements     *)
(* DecolinkPlayout, and plays silence only for what it does not hold.  Of  *)
(* the transmission, for any number of transmissions, pieces of audio,     *)
(* turns of the other operator and mishaps: the audio queue never holds    *)
(* more than the transmissions begun so far have to say, and nothing is    *)
(* asked of the radio, or kept to be sent, in another operator's turn.     *)
(*                                                                         *)
(* The two are systems of their own, with constants and variables of their *)
(* own: the first is Spec, the second PttSpec.                             *)
(***************************************************************************)
EXTENDS DecolinkRx, DecolinkPtt, TLAPS, SequenceTheorems, FiniteSetTheorems, WellFoundedInduction

-----------------------------------------------------------------------------
(* The inductive invariant.                                                *)

Sounds == (0 .. Blocks - 1) \cup {Silence}

\* The block with the lowest key of those held lies ahead of the one due.
FirstAhead(H, d) ==
    \A f \in H : (\A b \in H : SeqOf(f) <= SeqOf(b)) => f > d

Streaming ==
    have => /\ Due \in 0 .. sent /\ expected = SeqOf(Due)
            /\ FirstAhead(hold, Due)
            /\ \A b \in hold : b <= Due + Jump

RxInv == /\ TypeOK /\ Streaming
         /\ ~have => hold = {} /\ played = <<>>

-----------------------------------------------------------------------------
(* Sequences                                                               *)

LEMMA ModLow ==
    ASSUME NEW M \in Nat \ {0}, NEW x, x \in 0 .. M - 1
    PROVE  x % M = x
  OBVIOUS

LEMMA ModHigh ==
    ASSUME NEW M \in Nat \ {0}, NEW x, x \in Nat, M <= x, x < M + M
    PROVE  x % M = x - M
  OBVIOUS

\* A block's sequence, without the modulus
LEMMA SeqOfIs ==
    ASSUME NEW b \in 0 .. Mod - 1
    PROVE  SeqOf(b) = IF Start + b < Mod THEN Start + b ELSE Start + b - Mod
<1>1. Start \in Nat /\ Mod \in Nat \ {0} /\ Start < Mod
  BY RxAssumption
<1>2. CASE Start + b < Mod
  BY <1>1, <1>2, ModLow DEF SeqOf
<1>3. CASE Start + b >= Mod
  BY <1>1, <1>3, ModHigh DEF SeqOf
<1> QED BY <1>1, <1>2, <1>3

LEMMA SeqOfBounds ==
    ASSUME NEW b \in 0 .. Mod - 1
    PROVE  SeqOf(b) \in 0 .. Mod - 1
<1>1. Start \in Nat /\ Mod \in Nat \ {0} /\ Start < Mod
  BY RxAssumption
<1>2. SeqOf(b) = IF Start + b < Mod THEN Start + b ELSE Start + b - Mod
  BY SeqOfIs
<1>3. QED
  BY <1>1, <1>2

LEMMA BlockOfSeq ==
    ASSUME NEW b \in 0 .. Mod - 1
    PROVE  BlockOf(SeqOf(b)) = b
<1>1. Start \in Nat /\ Mod \in Nat \ {0} /\ Start < Mod
  BY RxAssumption
<1>2. SeqOf(b) = IF Start + b < Mod THEN Start + b ELSE Start + b - Mod
  BY SeqOfIs
<1>3. CASE Start + b < Mod
  <2> DEFINE x == SeqOf(b) + Mod - Start
  <2>1. x \in Nat /\ Mod <= x /\ x < Mod + Mod
    BY <1>1, <1>2, <1>3
  <2>2. BlockOf(SeqOf(b)) = x % Mod /\ x - Mod = b
    BY <1>1, <1>2, <1>3 DEF BlockOf
  <2> HIDE DEF x
  <2>3. x % Mod = x - Mod
    BY <1>1, <2>1, ModHigh
  <2> QED BY <2>2, <2>3
<1>4. CASE Start + b >= Mod
  <2>1. SeqOf(b) + Mod - Start \in 0 .. Mod - 1
    BY <1>1, <1>2, <1>4
  <2>2. (SeqOf(b) + Mod - Start) % Mod = SeqOf(b) + Mod - Start
    BY <1>1, <2>1, ModLow, Zenon
  <2> QED BY <1>1, <1>2, <1>4, <2>2 DEF BlockOf
<1> QED BY <1>1, <1>3, <1>4

LEMMA SeqOfInjective ==
    ASSUME NEW b \in 0 .. Mod - 1, NEW c \in 0 .. Mod - 1, SeqOf(b) = SeqOf(c)
    PROVE  b = c
<1>1. BlockOf(SeqOf(b)) = b /\ BlockOf(SeqOf(c)) = c
  BY BlockOfSeq
<1> QED BY <1>1

\* Sequences are counted on from any block.
LEMMA SeqOfShift ==
    ASSUME NEW c \in 0 .. Mod - 1, NEW k \in Nat, c + k < Mod
    PROVE  (SeqOf(c) + k) % Mod = SeqOf(c + k)
<1>1. Start \in Nat /\ Mod \in Nat \ {0} /\ Start < Mod
  BY RxAssumption
<1>2. SeqOf(c) = IF Start + c < Mod THEN Start + c ELSE Start + c - Mod
  BY SeqOfIs
<1>3. c \in Nat /\ c <= Mod - 1 /\ c + k \in 0 .. Mod - 1
  BY <1>1
<1>4. SeqOf(c + k) = IF Start + c + k < Mod THEN Start + c + k ELSE Start + c + k - Mod
  BY <1>1, <1>3, SeqOfIs
<1>5. CASE SeqOf(c) + k < Mod
  <2>1. SeqOf(c) + k \in 0 .. Mod - 1
    BY <1>1, <1>2, <1>3, <1>5
  <2>2. (SeqOf(c) + k) % Mod = SeqOf(c) + k
    BY <1>1, <2>1, ModLow, Zenon
  <2> QED BY <1>1, <1>2, <1>3, <1>4, <1>5, <2>2
<1>6. CASE SeqOf(c) + k >= Mod
  <2> DEFINE x == SeqOf(c) + k
  <2>1. x \in Nat /\ Mod <= x /\ x < Mod + Mod
    BY <1>1, <1>2, <1>3, <1>6
  <2>2. x - Mod = SeqOf(c + k)
    BY <1>1, <1>2, <1>3, <1>4, <1>6
  <2> HIDE DEF x
  <2>3. x % Mod = x - Mod
    BY <1>1, <2>1, ModHigh
  <2> QED BY <2>2, <2>3 DEF x
<1>7. SeqOf(c) + k \in Int
  BY <1>1, <1>2, <1>3
<1> QED BY <1>1, <1>5, <1>6, <1>7

\* qint16(seq - m_v3Expected) is the distance of the blocks, as no two of
\* them are half the range apart.
LEMMA AheadIs ==
    ASSUME NEW b \in 0 .. Blocks - 1, NEW c \in 0 .. Blocks
    PROVE  Ahead(SeqOf(b), SeqOf(c)) = b - c
<1>1. /\ Start \in Nat /\ Mod \in Nat \ {0} /\ Start < Mod
      /\ Blocks \in Nat /\ 2 * Blocks <= Mod
  BY RxAssumption
<1>2. b \in 0 .. Mod - 1 /\ c \in 0 .. Mod - 1
  BY <1>1
<1>3. /\ SeqOf(b) = IF Start + b < Mod THEN Start + b ELSE Start + b - Mod
      /\ SeqOf(c) = IF Start + c < Mod THEN Start + c ELSE Start + c - Mod
  BY <1>2, SeqOfIs
<1> DEFINE d == (SeqOf(b) + Mod - SeqOf(c)) % Mod
           half == Mod \div 2
<1>4. half \in Nat /\ 2 * half <= Mod /\ Mod <= 2 * half + 1
  BY <1>1
<1>5. d = IF b >= c THEN b - c ELSE b - c + Mod
  <2> DEFINE x == SeqOf(b) + Mod - SeqOf(c)
  <2>1. x \in {b - c, b - c + Mod, b - c + 2 * Mod} /\ x \in 1 .. 2 * Mod - 1
    BY <1>1, <1>2, <1>3
  <2> HIDE DEF x
  <2>2. CASE x < Mod
    <3>1. x \in 0 .. Mod - 1
      BY <1>1, <2>1, <2>2
    <3>2. x % Mod = x
      BY <1>1, <3>1, ModLow
    <3> QED BY <1>1, <1>2, <2>1, <2>2, <3>2 DEF x
  <2>3. CASE x >= Mod
    <3>1. x \in Nat /\ Mod <= x /\ x < Mod + Mod
      BY <1>1, <2>1, <2>3
    <3>2. x % Mod = x - Mod
      BY <1>1, <3>1, ModHigh
    <3> QED BY <1>1, <1>2, <2>1, <2>3, <3>2 DEF x
  <2> QED BY <1>1, <2>1, <2>2, <2>3
<1>6. Ahead(SeqOf(b), SeqOf(c)) = IF d < half THEN d ELSE d - Mod
  BY DEF Ahead
<1> HIDE DEF d, half
<1>7. b <= Blocks - 1 /\ c <= Blocks /\ b >= 0 /\ c >= 0 /\ Blocks <= half
  BY <1>1, <1>4
<1> QED BY <1>1, <1>4, <1>5, <1>6, <1>7


-----------------------------------------------------------------------------
(* One pass of the loop                                                    *)

\* The blocks from c up to, and without, d.
Row(c, d) == [k \in 1 .. d - c |-> c + k - 1]

\* A non-empty set of numbers has a least one.
LEMMA LeastExists ==
    ASSUME NEW T, T \subseteq Nat, T # {}
    PROVE  \E x \in T : \A y \in T : x <= y
<1> DEFINE Less == {p \in Nat \X Nat : p[1] < p[2]}
<1>1. IsWellFoundedOn(Less, Nat)
  BY NatLessThanWellFounded DEF OpToRel
<1>2. PICK x \in T : \A y \in T : <<y, x>> \notin Less
  BY <1>1, WFMin
<1>3. ASSUME NEW y \in T PROVE x <= y
  <2>1. x \in Nat /\ y \in Nat
    OBVIOUS
  <2>2. ~(y < x)
    BY <1>2, <2>1
  <2> QED BY <2>1, <2>2
<1> QED BY <1>3

\* From any block on, some number of blocks in a row is held, up to one
\* that is not.
LEMMA RowExists ==
    ASSUME NEW c \in 0 .. Blocks, NEW H \in SUBSET (0 .. Blocks - 1)
    PROVE  \E n \in 0 .. Blocks - c :
              c + n \notin H /\ (\A k \in 0 .. n - 1 : c + k \in H)
<1>1. Blocks \in Nat /\ c \in Nat /\ c <= Blocks
  BY RxAssumption
<1> DEFINE S == {n \in 0 .. Blocks - c : c + n \notin H}
<1>2. Blocks - c \in S
  <2>1. c + (Blocks - c) = Blocks
    BY <1>1
  <2>2. Blocks \notin H
    BY <1>1
  <2>3. Blocks - c \in 0 .. Blocks - c
    BY <1>1
  <2> QED BY <2>1, <2>2, <2>3
<1>3. S \in SUBSET Nat /\ S # {}
  BY <1>1, <1>2
<1>4. PICK n \in S : \A m \in S : n <= m
  <2> HIDE DEF S
  <2> QED BY <1>3, LeastExists
<1>5. n \in 0 .. Blocks - c /\ c + n \notin H
  OBVIOUS
<1>6. ASSUME NEW k \in 0 .. n - 1
      PROVE  c + k \in H
  <2>1. k \in 0 .. Blocks - c /\ ~(n <= k)
    BY <1>1, <1>5
  <2> QED BY <1>4, <2>1
<1> QED BY <1>5, <1>6

LEMMA InARowIs ==
    ASSUME NEW c \in 0 .. Blocks, NEW H \in SUBSET (0 .. Blocks - 1),
           NEW n \in 0 .. Blocks - c, c + n \notin H,
           \A k \in 0 .. n - 1 : c + k \in H
    PROVE  InARow(SeqOf(c), H) = n
<1>1. Blocks \in Nat /\ Mod \in Nat /\ 2 * Blocks <= Mod /\ Start < Mod /\ Start \in Nat
  BY RxAssumption
<1>2. c \in 0 .. Mod - 1 /\ c \in Nat /\ c <= Blocks
  BY <1>1
<1>3. ASSUME NEW k \in 0 .. n
      PROVE  (SeqOf(c) + k) % Mod = SeqOf(c + k) /\ c + k \in 0 .. Mod - 1
  <2>1. k \in Nat /\ c + k < Mod /\ c + k \in 0 .. Mod - 1
    BY <1>1, <1>2
  <2> QED BY <1>2, <2>1, SeqOfShift
<1>4. \A b \in H : b \in 0 .. Mod - 1
  BY <1>1
<1>5. ASSUME NEW k \in 0 .. n
      PROVE  (\E b \in H : SeqOf(b) = (SeqOf(c) + k) % Mod) <=> c + k \in H
  BY <1>3, <1>4, SeqOfInjective
<1>6. n \in 0 .. Cardinality(H)
  <2>1. IsFiniteSet(H) /\ Cardinality(H) \in Nat
    <3>1. IsFiniteSet(0 .. Blocks - 1)
      BY <1>1, FS_Interval
    <3>2. IsFiniteSet(H)
      BY <3>1, FS_Subset
    <3> QED BY <3>2, FS_CardinalityType
  <2>2. c .. c + n - 1 \in SUBSET H
    <3> SUFFICES ASSUME NEW x \in c .. c + n - 1
                 PROVE  x \in H
      OBVIOUS
    <3>1. x - c \in 0 .. n - 1 /\ c + (x - c) = x
      BY <1>1, <1>2
    <3> QED BY <3>1
  <2>3. Cardinality(c .. c + n - 1) = n
    <3>1. c \in Int /\ c + n - 1 \in Int
      BY <1>1, <1>2
    <3>2. Cardinality(c .. c + n - 1) = IF c > c + n - 1 THEN 0 ELSE c + n - 1 - c + 1
      BY <3>1, FS_Interval
    <3> QED BY <1>1, <1>2, <3>2
  <2>4. Cardinality(c .. c + n - 1) <= Cardinality(H)
    BY <2>1, <2>2, FS_Subset
  <2> QED BY <1>1, <2>1, <2>3, <2>4
<1> DEFINE Fits(m) == /\ \A k \in 0 .. m - 1 : \E b \in H : SeqOf(b) = (SeqOf(c) + k) % Mod
                      /\ \A b \in H : SeqOf(b) # (SeqOf(c) + m) % Mod
<1>7. Fits(n)
  <2>1. n \in 0 .. n /\ \A k \in 0 .. n - 1 : k \in 0 .. n
    BY <1>1, <1>2
  <2> QED BY <1>5, <2>1
<1>8. ASSUME NEW m \in 0 .. Cardinality(H), Fits(m)
      PROVE  m = n
  <2>0. m \in Nat /\ n \in Nat
    BY <1>1, <1>2, FS_Interval, FS_Subset, FS_CardinalityType
  <2>1. CASE m < n
    <3>1. m \in 0 .. n /\ m \in 0 .. n - 1
      BY <2>0, <2>1
    <3> QED BY <1>5, <1>8, <3>1
  <2>2. CASE n < m
    <3>1. n \in 0 .. m - 1 /\ n \in 0 .. n
      BY <2>0, <2>2
    <3> QED BY <1>5, <1>8, <3>1
  <2> QED BY <2>0, <2>1, <2>2
<1>9. InARow(SeqOf(c), H) = CHOOSE m \in 0 .. Cardinality(H) : Fits(m)
  BY Zenon DEF InARow
<1> HIDE DEF Fits
<1>10. InARow(SeqOf(c), H) \in 0 .. Cardinality(H) /\ Fits(InARow(SeqOf(c), H))
  BY <1>6, <1>7, <1>9, Zenon
<1> QED BY <1>8, <1>10, Zenon

\* What is delivered are the blocks from the one due up to the first one
\* that is not held.
LEMMA DeliverIs ==
    ASSUME NEW c \in 0 .. Blocks, NEW H \in SUBSET (0 .. Blocks - 1),
           NEW d \in c .. Blocks, d \notin H,
           \A x \in c .. d - 1 : x \in H
    PROVE  Deliver(SeqOf(c), H) =
              [e |-> SeqOf(d), hold |-> H \ (c .. d - 1), out |-> Row(c, d)]
<1>1. Blocks \in Nat /\ Mod \in Nat /\ 2 * Blocks <= Mod /\ Start < Mod /\ Start \in Nat
  BY RxAssumption
<1>2. c \in 0 .. Mod - 1 /\ c \in Nat /\ c <= d /\ d \in Nat /\ d <= Blocks
  BY <1>1
<1> DEFINE n == d - c
<1>3. n \in 0 .. Blocks - c /\ n \in Nat /\ c + n = d
  BY <1>1, <1>2
<1>4. \A k \in 0 .. n - 1 : c + k \in H
  <2> SUFFICES ASSUME NEW k \in 0 .. n - 1
               PROVE  c + k \in H
    OBVIOUS
  <2>1. c + k \in c .. d - 1
    BY <1>2, <1>3
  <2> QED BY <2>1
<1>5. InARow(SeqOf(c), H) = n
  BY <1>3, <1>4, InARowIs
<1>6. ASSUME NEW k \in 0 .. n
      PROVE  (SeqOf(c) + k) % Mod = SeqOf(c + k) /\ c + k \in 0 .. Mod - 1
  <2>1. k \in Nat /\ c + k < Mod /\ c + k \in 0 .. Mod - 1
    BY <1>1, <1>2
  <2> QED BY <1>2, <2>1, SeqOfShift
<1> DEFINE row == [k \in 1 .. n |-> BlockOf((SeqOf(c) + k - 1) % Mod)]
<1>7. row = Row(c, d)
  <2>1. ASSUME NEW k \in 1 .. n
        PROVE  BlockOf((SeqOf(c) + k - 1) % Mod) = c + k - 1
    <3>1. k - 1 \in 0 .. n
      BY <1>2
    <3>2. SeqOf(c) \in Int
      BY <1>2, SeqOfBounds
    <3>3. SeqOf(c) + k - 1 = SeqOf(c) + (k - 1) /\ c + k - 1 = c + (k - 1)
      BY <1>2, <3>2
    <3> QED BY <1>6, <3>1, <3>3, BlockOfSeq
  <2> QED BY <2>1 DEF Row
<1>8. {row[k] : k \in 1 .. n} = c .. d - 1
  <2>1. ASSUME NEW k \in 1 .. n
        PROVE  row[k] \in c .. d - 1
    <3>1. row[k] = c + k - 1
      BY <1>7 DEF Row
    <3> QED BY <1>2, <3>1
  <2>2. ASSUME NEW x \in c .. d - 1
        PROVE  \E k \in 1 .. n : row[k] = x
    <3>1. x - c + 1 \in 1 .. n /\ c + (x - c + 1) - 1 = x
      BY <1>2
    <3>2. row[x - c + 1] = x
      BY <1>7, <3>1 DEF Row
    <3> QED BY <3>1, <3>2
  <2> HIDE DEF row
  <2> QED BY <2>1, <2>2
<1>9. (SeqOf(c) + n) % Mod = SeqOf(d)
  <2>1. n \in 0 .. n
    BY <1>3
  <2> QED BY <1>3, <1>6, <2>1
<1>10. Deliver(SeqOf(c), H) = [e |-> (SeqOf(c) + n) % Mod,
                               hold |-> H \ {row[k] : k \in 1 .. n}, out |-> row]
  BY <1>5 DEF Deliver
<1> HIDE DEF row, n
<1> QED BY <1>7, <1>8, <1>9, <1>10

\* Of the blocks held, those ahead of d are kept, and of the others only such
\* as come behind one ahead in the order of the map.
LEMMA PurgeIs ==
    ASSUME NEW d \in 0 .. Blocks, NEW H \in SUBSET (0 .. Blocks - 1)
    PROVE  /\ Purge(SeqOf(d), H) \in SUBSET H
           /\ FirstAhead(Purge(SeqOf(d), H), d)
           /\ \A x \in H : x > d => x \in Purge(SeqOf(d), H)
<1> DEFINE K == Purge(SeqOf(d), H)
<1>0. d \in Nat /\ H \subseteq Nat /\ \A x \in H : x \in 0 .. Blocks - 1
  BY RxAssumption
<1>1. \A x \in H : Ahead(SeqOf(x), SeqOf(d)) = x - d
  BY <1>0, AheadIs
<1>2. \A x \in H : Ahead(SeqOf(x), SeqOf(d)) > 0 <=> x > d
  BY <1>0, <1>1
<1>3. K = {x \in H : \/ x > d
                     \/ \E y \in H : SeqOf(y) < SeqOf(x) /\ y > d}
  BY <1>2 DEF Purge
<1>4. \A x \in H : SeqOf(x) \in Int
  BY <1>0, RxAssumption DEF SeqOf
<1> HIDE DEF K
<1>5. FirstAhead(K, d)
  <2> SUFFICES ASSUME NEW f \in K, \A b \in K : SeqOf(f) <= SeqOf(b), ~(f > d)
               PROVE  FALSE
    BY DEF FirstAhead
  <2>1. PICK y \in H : SeqOf(y) < SeqOf(f) /\ y > d
    BY <1>3
  <2>2. y \in K /\ f \in H
    BY <1>3, <2>1
  <2>3. SeqOf(f) <= SeqOf(y)
    BY <2>2
  <2> QED BY <1>4, <2>1, <2>2, <2>3
<1>6. K \in SUBSET H /\ \A x \in H : x > d => x \in K
  BY <1>3
<1> QED BY <1>5, <1>6 DEF K

\* A pass that begins with block c ends with block d: those between have
\* been held, d has not.
Passed(c, H, d, K) ==
    /\ d \in c .. Blocks /\ K \in SUBSET H
    /\ d \notin H /\ \A x \in c .. d - 1 : x \in H
    /\ FirstAhead(K, d)
    /\ \A x \in H : x > d => x \in K

LEMMA PassIs ==
    ASSUME NEW c \in 0 .. Blocks, NEW H \in SUBSET (0 .. Blocks - 1), NEW before
    PROVE  \E d, K : /\ Passed(c, H, d, K)
                     /\ Pass(SeqOf(c), H, before) =
                           [e |-> SeqOf(d), hold |-> K, out |-> before \o Row(c, d)]
<1>0. Blocks \in Nat /\ c \in Nat /\ c <= Blocks
  BY RxAssumption
<1>1. PICK n \in 0 .. Blocks - c :
             c + n \notin H /\ (\A k \in 0 .. n - 1 : c + k \in H)
  BY RowExists
<1> DEFINE d == c + n
           D == H \ (c .. d - 1)
           K == Purge(SeqOf(d), D)
<1>2. d \in c .. Blocks /\ d \in 0 .. Blocks /\ d \notin H
  BY <1>0, <1>1
<1>3. \A x \in c .. d - 1 : x \in H
  <2> SUFFICES ASSUME NEW x \in c .. d - 1
               PROVE  x \in H
    OBVIOUS
  <2>1. x - c \in 0 .. n - 1 /\ c + (x - c) = x
    BY <1>0
  <2> QED BY <1>1, <2>1
<1>5. D \in SUBSET (0 .. Blocks - 1) /\ D \in SUBSET H /\ \A x \in H : x > d => x \in D
  BY <1>0
<1> HIDE DEF d
<1>4. Deliver(SeqOf(c), H) = [e |-> SeqOf(d), hold |-> D, out |-> Row(c, d)]
  BY <1>2, <1>3, DeliverIs
<1> HIDE DEF D
<1>6. /\ K \in SUBSET D /\ FirstAhead(K, d)
      /\ \A x \in D : x > d => x \in K
  BY <1>2, <1>5, PurgeIs
<1>7. Pass(SeqOf(c), H, before) =
         [e |-> SeqOf(d), hold |-> K, out |-> before \o Row(c, d)]
  BY <1>4 DEF Pass
<1> HIDE DEF K
<1>8. Passed(c, H, d, K)
  BY <1>2, <1>3, <1>5, <1>6 DEF Passed
<1> QED BY <1>7, <1>8

\* The first key of the map is that of a block held, and none is lower.
LEMMA FirstKeyIs ==
    ASSUME NEW H \in SUBSET (0 .. Blocks - 1), H # {}
    PROVE  \E f \in H : FirstKey(H) = SeqOf(f) /\ \A b \in H : SeqOf(f) <= SeqOf(b)
<1>1. \A b \in H : SeqOf(b) \in Nat
  BY RxAssumption DEF SeqOf
<1> DEFINE S == {SeqOf(b) : b \in H}
           Low(s) == \A b \in H : s <= SeqOf(b)
<1>2. S \in SUBSET Nat /\ S # {}
  BY <1>1
<1>3. PICK s \in S : \A y \in S : s <= y
  <2> HIDE DEF S
  <2> QED BY <1>2, LeastExists
<1>4. \E t \in S : Low(t)
  BY <1>3
<1>5. FirstKey(H) = CHOOSE t \in S : Low(t)
  BY DEF FirstKey
<1>6. FirstKey(H) \in S /\ Low(FirstKey(H))
  <2> HIDE DEF S, Low
  <2> QED BY <1>4, <1>5
<1> QED BY <1>6

\* A hole that is given up: f is the block with the first key, and silence is
\* played for the blocks from c up to it.
LEMMA GiveUpIs ==
    ASSUME NEW c \in 0 .. Blocks, NEW H \in SUBSET (0 .. Blocks - 1), H # {},
           FirstAhead(H, c)
    PROVE  \E f \in H : \E d, K :
              /\ f > c /\ \A b \in H : SeqOf(f) <= SeqOf(b)
              /\ Passed(f, H, d, K) /\ d > f
              /\ GiveUp([e |-> SeqOf(c), hold |-> H, out |-> <<>>]) =
                    [e |-> SeqOf(d), hold |-> K, out |-> (<<>> \o Fill(f - c)) \o Row(f, d)]
<1>0. Blocks \in Nat /\ c \in Nat /\ c <= Blocks
  BY RxAssumption
<1>1. PICK f \in H : FirstKey(H) = SeqOf(f) /\ \A b \in H : SeqOf(f) <= SeqOf(b)
  BY FirstKeyIs
<1>2. f > c
  BY <1>1 DEF FirstAhead
<1>3. f \in 0 .. Blocks - 1 /\ f \in 0 .. Blocks
  BY <1>0
<1>4. Ahead(SeqOf(f), SeqOf(c)) = f - c
  BY <1>3, AheadIs
<1>5. PICK d, K : /\ Passed(f, H, d, K)
                  /\ Pass(SeqOf(f), H, <<>> \o Fill(f - c)) =
                        [e |-> SeqOf(d), hold |-> K, out |-> (<<>> \o Fill(f - c)) \o Row(f, d)]
  BY <1>3, PassIs
<1>6. d > f
  <2>1. d \in f .. Blocks /\ d # f
    BY <1>5 DEF Passed
  <2> QED BY <1>0, <1>3, <2>1
<1>7. GiveUp([e |-> SeqOf(c), hold |-> H, out |-> <<>>]) = Pass(SeqOf(f), H, <<>> \o Fill(f - c))
  BY <1>1, <1>4 DEF GiveUp
<1> QED BY <1>1, <1>2, <1>5, <1>6, <1>7

\* The two outcomes of a call of flushV3 that begins with block c and has
\* played `before': a pass, or silence in the place of a hole and the blocks
\* behind it.
Plain(c, H, before, d, K) ==
    /\ Passed(c, H, d, K)
    /\ expected' = SeqOf(d) /\ hold' = K /\ played' = before \o Row(c, d)

Filled(c, H, before, f, d, K) ==
    /\ f \in H /\ f > c /\ c \notin H /\ \A b \in H : b > c => SeqOf(f) <= SeqOf(b)
    /\ Passed(f, H, d, K) /\ d > f
    /\ expected' = SeqOf(d) /\ hold' = K
    /\ played' = before \o (Fill(f - c) \o Row(f, d))

LEMMA RowIsSeq ==
    ASSUME NEW c \in 0 .. Blocks, NEW d \in c .. Blocks
    PROVE  /\ Row(c, d) \in Seq(Sounds) /\ Len(Row(c, d)) = d - c
           /\ \A i \in 1 .. d - c : Row(c, d)[i] = c + i - 1
           /\ d = c => Row(c, d) = <<>>
           /\ d > c => Row(c, d) # <<>>
<1>1. c \in Nat /\ d \in Nat /\ c <= d /\ d <= Blocks /\ d - c \in Nat /\ Blocks \in Nat
  BY RxAssumption
<1>2. \A i \in 1 .. d - c : c + i - 1 \in Sounds
  BY <1>1 DEF Sounds
<1>3. Row(c, d) \in Seq(Sounds)
  <2>1. Row(c, d) \in [1 .. d - c -> Sounds]
    BY <1>2 DEF Row
  <2> QED BY <1>1, <2>1
<1>4. Len(Row(c, d)) = d - c
  BY <1>1 DEF Row
<1>5. \A i \in 1 .. d - c : Row(c, d)[i] = c + i - 1
  BY <1>1 DEF Row
<1>6. d = c => Row(c, d) = <<>>
  BY <1>1, <1>3, <1>4
<1>7. d > c => Row(c, d) # <<>>
  BY <1>1, <1>4
<1> QED BY <1>3, <1>4, <1>5, <1>6, <1>7

LEMMA FillIs ==
    ASSUME NEW gap \in Nat
    PROVE  /\ Fill(gap) \in Seq(Sounds)
           /\ Len(Fill(gap)) = IF gap > MaxFill THEN MaxFill ELSE gap
           /\ \A i \in 1 .. Len(Fill(gap)) : Fill(gap)[i] = Silence
           /\ gap > MaxFill => Fill(gap) = [i \in 1 .. MaxFill |-> Silence]
<1>1. MaxFill \in Nat
  BY RxAssumption
<1> DEFINE n == IF gap > MaxFill THEN MaxFill ELSE gap
<1>2. n \in Nat
  BY <1>1
<1>3. Fill(gap) = [i \in 1 .. n |-> Silence]
  BY DEF Fill
<1>4. gap > MaxFill => n = MaxFill
  OBVIOUS
<1> HIDE DEF n
<1>5. Silence \in Sounds
  BY DEF Sounds
<1>6. Fill(gap) \in Seq(Sounds)
  BY <1>2, <1>3, <1>5
<1>7. Len(Fill(gap)) = n
  BY <1>2, <1>3
<1>8. \A i \in 1 .. n : Fill(gap)[i] = Silence
  BY <1>3
<1> QED BY <1>3, <1>4, <1>6, <1>7, <1>8 DEF n

LEMMA FlushIs ==
    ASSUME NEW c \in 0 .. Blocks, NEW H \in SUBSET (0 .. Blocks - 1), NEW waited, NEW before,
           Flush(SeqOf(c), H, waited, before)
    PROVE  /\ waiting' = (hold' # {}) /\ tries' \in {0, tries}
           /\ \/ \E d, K : Plain(c, H, before, d, K)
              \/ \E f, d, K : Filled(c, H, before, f, d, K)
<1>0. Blocks \in Nat /\ c \in Nat /\ c <= Blocks
  BY RxAssumption
<1> DEFINE p == Pass(SeqOf(c), H, <<>>)
<1>1. PICK d, K : /\ Passed(c, H, d, K)
                  /\ p = [e |-> SeqOf(d), hold |-> K, out |-> <<>> \o Row(c, d)]
  BY PassIs
<1>2. d \in c .. Blocks /\ d \in 0 .. Blocks /\ K \in SUBSET (0 .. Blocks - 1) /\ FirstAhead(K, d)
  BY <1>0, <1>1 DEF Passed
<1>3. p.e = SeqOf(d) /\ p.hold = K /\ p.out = Row(c, d)
  <2>1. <<>> \o Row(c, d) = Row(c, d)
    BY <1>2, RowIsSeq, ConcatEmptySeq
  <2> QED BY <1>1, <2>1
<1>4. PICK r \in Outcomes(p, waited) :
        /\ expected' = r.e /\ hold' = r.hold /\ waiting' = (r.hold # {})
        /\ played' = before \o r.out
        /\ tries' = IF r.out # <<>> THEN 0 ELSE tries
  BY DEF Flush
<1>5. waiting' = (hold' # {}) /\ tries' \in {0, tries}
  BY <1>4
<1>6. CASE r = p
  <2>1. Plain(c, H, before, d, K)
    BY <1>1, <1>3, <1>4, <1>6 DEF Plain
  <2> QED BY <1>5, <2>1
<1>7. CASE r # p
  <2>1. p.out = <<>> /\ p.hold # {} /\ r = GiveUp(p)
    BY <1>4, <1>7 DEF Outcomes
  <2>2. d = c /\ K # {}
    <3>1. Row(c, d) = <<>>
      BY <1>3, <2>1
    <3>2. ~(d > c)
      BY <1>2, <3>1, RowIsSeq
    <3> QED BY <1>0, <1>2, <1>3, <2>1, <3>2
  <2>3. p = [e |-> SeqOf(c), hold |-> K, out |-> <<>>]
    <3>1. p = [e |-> SeqOf(d), hold |-> K, out |-> Row(c, d)]
      BY <1>1, <1>3
    <3> QED BY <1>3, <2>1, <2>2, <3>1
  <2> HIDE DEF p
  <2> DEFINE Filling(f, g, L) ==
           /\ f > c /\ \A b \in K : SeqOf(f) <= SeqOf(b)
           /\ Passed(f, K, g, L) /\ g > f
           /\ GiveUp([e |-> SeqOf(c), hold |-> K, out |-> <<>>]) =
                 [e |-> SeqOf(g), hold |-> L, out |-> (<<>> \o Fill(f - c)) \o Row(f, g)]
  <2>12. PICK f \in K : \E g, L : Filling(f, g, L)
    BY <1>2, <2>2, GiveUpIs
  <2>4. PICK g, L : Filling(f, g, L)
    BY <2>12
  <2>5. f \in 0 .. Blocks - 1 /\ f - c \in Nat /\ g \in f .. Blocks /\ f \in 0 .. Blocks
    BY <1>0, <1>2, <2>4 DEF Passed
  <2>6. <<>> \o Fill(f - c) = Fill(f - c)
    BY <2>5, FillIs, ConcatEmptySeq
  <2>7. r = [e |-> SeqOf(g), hold |-> L, out |-> Fill(f - c) \o Row(f, g)]
    BY <2>1, <2>3, <2>4, <2>6
  <2>8. \A b \in H : b > c => b \in K
    BY <1>1, <2>2 DEF Passed
  <2>9. c \notin H /\ K \in SUBSET H
    BY <1>1, <2>2 DEF Passed
  <2>10. Passed(f, H, g, L)
    <3>1. g > c /\ g \in Nat /\ \A x \in H : x > g => x > c
      BY <1>0, <2>4, <2>5
    <3>2. g \notin H
      BY <2>4, <2>8, <3>1 DEF Passed
    <3>3. \A x \in H : x > g => x \in L
      BY <2>4, <2>8, <3>1 DEF Passed
    <3>4. /\ g \in f .. Blocks /\ L \in SUBSET H /\ FirstAhead(L, g)
          /\ \A x \in f .. g - 1 : x \in H
      BY <2>4, <2>9 DEF Passed
    <3> QED BY <3>2, <3>3, <3>4 DEF Passed
  <2>11. Filled(c, H, before, f, g, L)
    <3>1. f \in H /\ \A b \in H : b > c => SeqOf(f) <= SeqOf(b)
      BY <2>4, <2>8, <2>9
    <3>2. expected' = SeqOf(g) /\ hold' = L /\ played' = before \o (Fill(f - c) \o Row(f, g))
      BY <1>4, <2>7
    <3> QED BY <2>4, <2>9, <2>10, <3>1, <3>2 DEF Filled
  <2> QED BY <1>5, <2>11
<1> QED BY <1>6, <1>7

-----------------------------------------------------------------------------
(* The invariant                                                           *)

LEMMA DueIs ==
    ASSUME NEW d \in 0 .. Blocks
    PROVE  BlockOf(SeqOf(d)) = d /\ SeqOf(d) \in 0 .. Mod - 1
<1>1. d \in 0 .. Mod - 1
  BY RxAssumption
<1> QED BY <1>1, BlockOfSeq, SeqOfBounds

\* Whatever its outcome, a call of flushV3 for blocks that are not too far
\* ahead leaves a receiver in order.
LEMMA FlushKeeps ==
    ASSUME TypeOK, NEW c \in 0 .. sent, NEW H \in SUBSET (0 .. sent - 1),
           \A b \in H : b <= c + Jump,
           NEW before \in Seq(Sounds), NEW waited,
           Flush(SeqOf(c), H, waited, before),
           have' = TRUE, sent' = sent, air' \subseteq 0 .. sent - 1, on' \in BOOLEAN
    PROVE  RxInv'
<1>0. /\ Blocks \in Nat /\ sent \in 0 .. Blocks /\ c \in Nat /\ c <= sent
      /\ Jump \in Nat /\ MaxTries \in Nat /\ tries \in 0 .. MaxTries /\ sent \in Nat
  BY RxAssumption DEF TypeOK
<1>1. c \in 0 .. Blocks /\ H \in SUBSET (0 .. Blocks - 1)
  BY <1>0
<1>2. /\ waiting' = (hold' # {}) /\ tries' \in {0, tries}
      /\ \/ \E d, K : Plain(c, H, before, d, K)
         \/ \E f, d, K : Filled(c, H, before, f, d, K)
  BY <1>1, FlushIs
<1> DEFINE EndsAt(d) == /\ expected' = SeqOf(d) /\ hold' \in SUBSET H
                        /\ FirstAhead(hold', d) /\ played' \in Seq(Sounds)
<1>3. \E d \in c .. sent : EndsAt(d)
  <2>1. ASSUME NEW d, NEW K, Plain(c, H, before, d, K)
        PROVE  \E z \in c .. sent : EndsAt(z)
    <3>1. /\ d \in c .. Blocks /\ K \in SUBSET H /\ FirstAhead(K, d)
          /\ \A x \in c .. d - 1 : x \in H
      BY <2>1 DEF Plain, Passed
    <3>2. d \in c .. sent
      <4>1. CASE d = c
        BY <1>0, <4>1
      <4>2. CASE d > c
        <5>1. d - 1 \in c .. d - 1
          BY <1>0, <3>1, <4>2
        <5>2. d - 1 \in 0 .. sent - 1
          BY <3>1, <5>1
        <5> QED BY <1>0, <3>1, <5>2
      <4> QED BY <1>0, <3>1, <4>1, <4>2
    <3>3. played' \in Seq(Sounds)
      <4>1. Row(c, d) \in Seq(Sounds)
        BY <1>1, <3>1, RowIsSeq
      <4>2. before \o Row(c, d) \in Seq(Sounds)
        BY <4>1, ConcatProperties
      <4> QED BY <2>1, <4>2 DEF Plain
    <3>4. expected' = SeqOf(d) /\ hold' = K
      BY <2>1 DEF Plain
    <3> QED BY <3>1, <3>2, <3>3, <3>4
  <2>2. ASSUME NEW f, NEW d, NEW K, Filled(c, H, before, f, d, K)
        PROVE  \E z \in c .. sent : EndsAt(z)
    <3>0. f \in H /\ f > c /\ Passed(f, H, d, K) /\ d > f
      BY <2>2 DEF Filled
    <3>1. /\ d \in f .. Blocks /\ K \in SUBSET H /\ FirstAhead(K, d)
          /\ \A x \in f .. d - 1 : x \in H
      BY <3>0 DEF Passed
    <3>2. d \in c .. sent
      <4>1. f \in Nat /\ d - 1 \in f .. d - 1
        BY <1>0, <3>0, <3>1
      <4>2. d - 1 \in 0 .. sent - 1
        BY <3>1, <4>1
      <4> QED BY <1>0, <3>0, <3>1, <4>1, <4>2
    <3>3. played' \in Seq(Sounds)
      <4>1. f \in 0 .. Blocks /\ f - c \in Nat
        BY <1>0, <1>1, <3>0
      <4>2. Row(f, d) \in Seq(Sounds) /\ Fill(f - c) \in Seq(Sounds)
        BY <3>1, <4>1, RowIsSeq, FillIs
      <4>3. before \o (Fill(f - c) \o Row(f, d)) \in Seq(Sounds)
        BY <4>2, ConcatProperties
      <4> QED BY <2>2, <4>3 DEF Filled
    <3>4. expected' = SeqOf(d) /\ hold' = K
      BY <2>2 DEF Filled
    <3> QED BY <3>1, <3>2, <3>3, <3>4
  <2> QED BY <1>2, <2>1, <2>2
<1>4. PICK d \in c .. sent : /\ expected' = SeqOf(d) /\ hold' \in SUBSET H
                             /\ FirstAhead(hold', d) /\ played' \in Seq(Sounds)
  BY <1>3
<1>5. d \in 0 .. Blocks /\ d \in 0 .. sent /\ d \in Nat /\ c <= d
  BY <1>0
<1>6. Due' = d /\ expected' \in 0 .. Mod - 1
  BY <1>4, <1>5, DueIs DEF Due
<1>7. TypeOK'
  <2>1. /\ sent' \in 0 .. Blocks /\ air' \subseteq 0 .. sent' - 1 /\ on' \in BOOLEAN
        /\ have' \in BOOLEAN /\ hold' \subseteq 0 .. sent' - 1
    BY <1>0, <1>4
  <2>2. waiting' \in BOOLEAN /\ (waiting' => hold' # {})
    BY <1>2, Zenon
  <2>3. tries' \in 0 .. MaxTries
    <3>1. tries' \in {0, tries}
      BY <1>2
    <3> QED BY <1>0, <3>1
  <2>4. played' \in Seq((0 .. Blocks - 1) \cup {Silence})
    BY <1>4 DEF Sounds
  <2> QED BY <1>6, <2>1, <2>2, <2>3, <2>4 DEF TypeOK
<1>8. Streaming'
  <2>1. \A b \in hold' : b <= Due' + Jump
    <3> SUFFICES ASSUME NEW b \in hold'
                 PROVE  b <= d + Jump
      BY <1>6
    <3>1. b \in H /\ b \in 0 .. sent - 1
      BY <1>4
    <3> QED BY <1>0, <1>5, <3>1
  <2>2. Due' \in 0 .. sent' /\ expected' = SeqOf(Due')
    BY <1>4, <1>5, <1>6
  <2>3. FirstAhead(hold, Due)'
    BY <1>4, <1>6 DEF FirstAhead
  <2> QED BY <2>1, <2>2, <2>3 DEF Streaming
<1> QED BY <1>7, <1>8 DEF RxInv

\* What a datagram does: nothing, the beginning of a stream, or a call for
\* the blocks held and the one that came.
Ignores == have /\ UNCHANGED receiver
Begins(b) == (have => b > Due + Jump) /\ Flush(SeqOf(b), {b}, waiting, <<>>)
Continues(b) == /\ have /\ b <= Due + Jump
                /\ Flush(SeqOf(Due), hold \cup {b}, waiting, played)

LEMMA ReceiveIs ==
    ASSUME RxInv, NEW b \in 0 .. sent - 1, Receive(b)
    PROVE  have' = TRUE /\ (Ignores \/ Begins(b) \/ Continues(b))
<1>0. /\ Blocks \in Nat /\ sent \in 0 .. Blocks /\ Jump \in Nat /\ have \in BOOLEAN
      /\ b \in 0 .. Blocks - 1
  BY RxAssumption DEF RxInv, TypeOK
<1>1. CASE ~have
  <2>1. hold = {} /\ played = <<>>
    BY <1>1 DEF RxInv
  <2>2. Ahead(SeqOf(b), SeqOf(b)) = 0
    <3>1. Ahead(SeqOf(b), SeqOf(b)) = b - b
      BY <1>0, AheadIs
    <3> QED BY <1>0, <3>1
  <2>3. have' = TRUE /\ Flush(SeqOf(b), {b}, waiting, <<>>)
    <3>1. ~(0 < 0) /\ ~(0 > Jump) /\ b \notin hold /\ hold \cup {b} = {b}
      BY <1>0, <2>1
    <3> QED BY <1>1, <2>1, <2>2, <3>1 DEF Receive
  <2> QED BY <1>1, <2>3 DEF Begins
<1>2. CASE have
  <2>1. Due \in 0 .. sent /\ expected = SeqOf(Due) /\ Due \in 0 .. Blocks
    BY <1>0, <1>2 DEF RxInv, Streaming
  <2>2. Ahead(SeqOf(b), expected) = b - Due
    BY <1>0, <2>1, AheadIs
  <2>3. CASE b - Due > Jump
    <3>1. ~(b - Due < 0) /\ b > Due + Jump
      BY <1>0, <2>1, <2>3
    <3>2. have' = TRUE /\ Flush(SeqOf(b), {} \cup {b}, waiting, <<>>)
      BY <1>2, <2>2, <2>3, <3>1 DEF Receive
    <3>3. {} \cup {b} = {b}
      OBVIOUS
    <3> QED BY <3>1, <3>2, <3>3 DEF Begins
  <2>4. CASE ~(b - Due > Jump)
    <3>1. b <= Due + Jump
      BY <1>0, <2>1, <2>4
    <3>2. CASE b - Due < 0 \/ b \in hold
      <4>1. have' = TRUE /\ UNCHANGED <<expected, hold, waiting, tries, played>>
        BY <1>2, <2>2, <2>4, <3>2 DEF Receive
      <4> QED BY <1>0, <1>2, <4>1 DEF Ignores, receiver
    <3>3. CASE ~(b - Due < 0 \/ b \in hold)
      <4>1. have' = TRUE /\ Flush(SeqOf(Due), hold \cup {b}, waiting, played)
        BY <1>2, <2>1, <2>2, <2>4, <3>3 DEF Receive
      <4> QED BY <1>2, <3>1, <4>1 DEF Continues
    <3> QED BY <3>2, <3>3
  <2> QED BY <2>3, <2>4
<1> QED BY <1>0, <1>1, <1>2

LEMMA ArriveKeeps ==
    ASSUME RxInv, NEW b \in 0 .. Blocks - 1, Arrive(b)
    PROVE  RxInv'
<1>0. /\ Blocks \in Nat /\ sent \in 0 .. Blocks /\ Jump \in Nat
      /\ air \subseteq 0 .. sent - 1 /\ on \in BOOLEAN /\ hold \subseteq 0 .. sent - 1
      /\ played \in Seq(Sounds) /\ TypeOK
  BY RxAssumption DEF RxInv, TypeOK, Sounds
<1>1. b \in 0 .. sent - 1 /\ sent' = sent /\ on' = on /\ on' \in BOOLEAN /\ Receive(b)
  BY <1>0 DEF Arrive
<1>2. air' \subseteq 0 .. sent - 1
  BY <1>0, <1>1 DEF Arrive
<1>3. have' = TRUE /\ (Ignores \/ Begins(b) \/ Continues(b))
  BY <1>1, ReceiveIs
<1>4. CASE Ignores
  <2>1. have /\ UNCHANGED <<have, expected, hold, waiting, tries, played>> /\ sent' = sent
    BY <1>1, <1>4 DEF Ignores, receiver
  <2>2. TypeOK'
    BY <1>0, <1>1, <1>2, <2>1 DEF TypeOK
  <2>3. Streaming'
    <3>1. Streaming /\ Due' = Due
      BY <2>1 DEF RxInv, Due
    <3> QED BY <2>1, <3>1 DEF Streaming, FirstAhead
  <2> QED BY <1>3, <2>2, <2>3 DEF RxInv
<1>5. CASE Begins(b)
  <2>1. b \in 0 .. sent /\ {b} \in SUBSET (0 .. sent - 1) /\ <<>> \in Seq(Sounds)
    BY <1>0, <1>1
  <2>2. \A x \in {b} : x <= b + Jump
    BY <1>0, <1>1
  <2>3. Flush(SeqOf(b), {b}, waiting, <<>>)
    BY <1>5 DEF Begins
  <2> QED BY <1>0, <1>1, <1>2, <1>3, <2>1, <2>2, <2>3, FlushKeeps
<1>6. CASE Continues(b)
  <2>1. have /\ b <= Due + Jump /\ Flush(SeqOf(Due), hold \cup {b}, waiting, played)
    BY <1>6 DEF Continues
  <2>2. Due \in 0 .. sent /\ \A x \in hold : x <= Due + Jump
    BY <2>1 DEF RxInv, Streaming
  <2>3. hold \cup {b} \in SUBSET (0 .. sent - 1) /\ \A x \in hold \cup {b} : x <= Due + Jump
    BY <1>0, <1>1, <2>1, <2>2
  <2> QED BY <1>0, <1>1, <1>2, <1>3, <2>1, <2>2, <2>3, FlushKeeps
<1> QED BY <1>3, <1>4, <1>5, <1>6

LEMMA TickKeeps ==
    ASSUME RxInv, Tick
    PROVE  RxInv'
<1>0. /\ sent \in 0 .. Blocks /\ air \subseteq 0 .. sent - 1 /\ on \in BOOLEAN
      /\ hold \in SUBSET (0 .. sent - 1) /\ played \in Seq(Sounds) /\ TypeOK /\ have \in BOOLEAN
  BY DEF RxInv, TypeOK, Sounds
<1>1. have /\ have' = TRUE /\ sent' = sent /\ air' \subseteq 0 .. sent - 1 /\ on' \in BOOLEAN
  BY <1>0 DEF RxInv, Tick, network
<1>2. Due \in 0 .. sent /\ expected = SeqOf(Due) /\ \A x \in hold : x <= Due + Jump
  BY <1>1 DEF RxInv, Streaming
<1>3. Flush(SeqOf(Due), hold, waiting, played)
  BY <1>2 DEF Tick
<1> QED BY <1>0, <1>1, <1>2, <1>3, FlushKeeps

LEMMA WiderHolds ==
    ASSUME NEW n \in Nat, NEW m \in Nat, n <= m, NEW S, S \subseteq 0 .. n - 1
    PROVE  S \subseteq 0 .. m - 1
  OBVIOUS

\* Steps that leave the buffer alone
LEMMA OthersKeep ==
    ASSUME RxInv, UNCHANGED <<have, expected, hold, waiting, played>>,
           tries' \in 0 .. MaxTries, sent' \in sent .. Blocks,
           air' \subseteq 0 .. sent' - 1, on' \in BOOLEAN
    PROVE  RxInv'
<1>0. /\ Blocks \in Nat /\ sent \in 0 .. Blocks /\ hold \subseteq 0 .. sent - 1 /\ TypeOK
  BY RxAssumption DEF RxInv, TypeOK
<1>1. sent' \in 0 .. Blocks /\ hold' \subseteq 0 .. sent' - 1
  <2>1. sent \in Nat /\ sent' \in Nat /\ sent <= sent' /\ sent' <= Blocks
    BY <1>0
  <2>2. hold \subseteq 0 .. sent' - 1
    BY <1>0, <2>1, WiderHolds
  <2>3. sent' \in 0 .. Blocks
    BY <1>0, <2>1
  <2> QED BY <2>2, <2>3
<1>2. TypeOK'
  BY <1>0, <1>1 DEF TypeOK
<1>3. Due' = Due
  BY DEF Due
<1>4. Streaming'
  <2> SUFFICES ASSUME have
               PROVE  /\ Due \in 0 .. sent' /\ expected = SeqOf(Due)
                      /\ FirstAhead(hold, Due)
                      /\ \A b \in hold : b <= Due + Jump
    BY <1>3 DEF Streaming, FirstAhead
  <2>1. /\ Due \in 0 .. sent /\ expected = SeqOf(Due) /\ FirstAhead(hold, Due)
        /\ \A b \in hold : b <= Due + Jump
    BY DEF RxInv, Streaming
  <2> QED BY <1>0, <2>1
<1> QED BY <1>2, <1>4 DEF RxInv

LEMMA StepKeeps ==
    ASSUME RxInv, [Next]_vars
    PROVE  RxInv'
<1>0. /\ Blocks \in Nat /\ sent \in 0 .. Blocks /\ MaxTries \in Nat /\ tries \in 0 .. MaxTries
      /\ air \subseteq 0 .. sent - 1 /\ on \in BOOLEAN /\ sent \in sent .. Blocks
  BY RxAssumption DEF RxInv, TypeOK
<1>1. ASSUME NEW b \in 0 .. Blocks - 1, Arrive(b)
      PROVE  RxInv'
  BY <1>1, ArriveKeeps
<1>2. ASSUME NEW b \in 0 .. Blocks - 1, Lose(b)
      PROVE  RxInv'
  <2>1. /\ UNCHANGED <<have, expected, hold, waiting, played, tries, sent, on>>
        /\ air' \subseteq 0 .. sent - 1
    BY <1>0, <1>2 DEF Lose, receiver
  <2> QED BY <1>0, <2>1, OthersKeep
<1>3. CASE Tick
  BY <1>3, TickKeeps
<1>4. CASE Nack
  <2>1. /\ UNCHANGED <<have, expected, hold, waiting, played, sent, on>>
        /\ air' \subseteq 0 .. sent - 1
    BY <1>0, <1>4 DEF Nack, Missing
  <2>2. tries' \in 0 .. MaxTries
    BY <1>0, <1>4 DEF Nack
  <2> QED BY <1>0, <2>1, <2>2, OthersKeep
<1>5. CASE Send
  <2>1. /\ UNCHANGED <<have, expected, hold, waiting, played, tries, on>>
        /\ sent' = sent + 1 /\ sent < Blocks
    BY <1>5 DEF Send, receiver
  <2>2. sent' \in sent .. Blocks
    BY <1>0, <2>1
  <2>3. air' \subseteq 0 .. sent' - 1
    <3>1. air' \subseteq air \cup {sent}
      BY <1>5 DEF Send
    <3> QED BY <1>0, <2>1, <3>1
  <2> QED BY <1>0, <2>1, <2>2, <2>3, OthersKeep
<1>6. CASE OtherProfile
  <2>1. /\ have' = FALSE /\ hold' = {} /\ waiting' = FALSE /\ tries' = 0 /\ played' = <<>>
        /\ expected' = expected /\ on' = FALSE /\ UNCHANGED <<sent, air>>
    BY <1>6 DEF OtherProfile, Reset
  <2>2. <<>> \in Seq((0 .. Blocks - 1) \cup {Silence})
    OBVIOUS
  <2>3. expected \in 0 .. Mod - 1
    BY DEF RxInv, TypeOK
  <2>4. 0 \in 0 .. MaxTries
    BY <1>0
  <2>5. TypeOK'
    BY <1>0, <2>1, <2>2, <2>3, <2>4 DEF TypeOK
  <2> QED BY <2>1, <2>5 DEF RxInv, Streaming
<1>7. CASE ThisProfile
  <2>1. /\ UNCHANGED <<have, expected, hold, waiting, played, tries, sent, air>>
        /\ on' = TRUE
    BY <1>7 DEF ThisProfile, receiver
  <2> QED BY <1>0, <2>1, OthersKeep
<1>8. CASE UNCHANGED vars
  <2>1. UNCHANGED <<have, expected, hold, waiting, played, tries, sent, air, on>>
    BY <1>8 DEF vars, network, receiver
  <2> QED BY <1>0, <2>1, OthersKeep
<1> QED BY <1>1, <1>2, <1>3, <1>4, <1>5, <1>6, <1>7, <1>8 DEF Next

LEMMA InitHolds ==
    ASSUME Init
    PROVE  RxInv
<1>1. /\ Blocks \in Nat /\ Mod \in Nat /\ 0 <= Start /\ Start < Mod /\ Start \in Nat /\ MaxTries \in Nat
  BY RxAssumption
<1>2. TypeOK
  <2>1. <<>> \in Seq((0 .. Blocks - 1) \cup {Silence})
    OBVIOUS
  <2>2. 0 \in 0 .. Blocks /\ 0 \in 0 .. Mod - 1 /\ 0 \in 0 .. MaxTries
    BY <1>1
  <2> QED BY <2>1, <2>2 DEF Init, TypeOK
<1> QED BY <1>2 DEF Init, RxInv, Streaming

-----------------------------------------------------------------------------
(* The promise of DecolinkPlayout                                          *)

LEMMA Joined ==
    ASSUME NEW s \in Seq(Sounds), NEW t \in Seq(Sounds)
    PROVE  /\ s \o t \in Seq(Sounds) /\ Len(s) \in Nat /\ Len(t) \in Nat
           /\ Len(s \o t) = Len(s) + Len(t)
           /\ \A i \in 1 .. Len(s) + Len(t) :
                 (s \o t)[i] = IF i <= Len(s) THEN s[i] ELSE t[i - Len(s)]
<1> HIDE DEF Sounds
<1>1. Len(s) \in Nat /\ Len(t) \in Nat
  OBVIOUS
<1> QED BY <1>1, ConcatProperties, Zenon

LEMMA JoinedInAnyOrder ==
    ASSUME NEW s \in Seq(Sounds), NEW t \in Seq(Sounds), NEW u \in Seq(Sounds)
    PROVE  (s \o t) \o u = s \o (t \o u)
  BY ConcatAssociative

LEMMA PlayIs ==
    ASSUME have, have', played \in Seq(Sounds), NEW s \in Seq(Sounds), NEW d \in Nat,
           Due \in Nat, d > Due, Len(s) = d - Due,
           Due' = d, played' = played \o s, Playout!InTurn(s, d), have \in BOOLEAN, have' \in BOOLEAN
    PROVE  Playout!Play
<1>1. Len(played') = Len(played) + Len(s) /\ Len(played) \in Nat /\ Len(s) \in Nat \ {0}
  <2>1. Len(played \o s) = Len(played) + Len(s) /\ Len(played) \in Nat
    BY Joined
  <2> QED BY <2>1
<1> DEFINE n == Len(s)
<1>2. n \in 1 .. Len(played') - Len(played)
  BY <1>1
<1>3. SubSeq(played', Len(played) + 1, Len(played) + n) = s
  <2>1. SubSeq(played \o s, Len(played) + 1, Len(played) + n) =
           SubSeq(s, Len(played) + 1 - Len(played), Len(played) + n - Len(played))
    <3>1. Len(played) + 1 \in Len(played) + 1 .. Len(played) + Len(s)
          /\ Len(played) + n \in Len(played) + 1 .. Len(played) + Len(s)
      BY <1>1
    <3> QED BY <3>1, SubSeqOfConcat2
  <2>2. Len(played) + 1 - Len(played) = 1 /\ Len(played) + n - Len(played) = Len(s)
    BY <1>1
  <2>3. SubSeq(s, 1, Len(s)) = s
    BY SubSeqFull
  <2> QED BY <2>1, <2>2, <2>3
<1>4. have' = have
  OBVIOUS
<1>5. Playout!InTurn(s, Due')
  OBVIOUS
<1>6. \E x \in {SubSeq(played', Len(played) + 1, Len(played) + n)} :
         played' = played \o x /\ Playout!InTurn(x, Due')
  BY <1>3, <1>5
<1> QED BY <1>2, <1>4, <1>6 DEF Playout!Play

\* Blocks played on from the one due are a turn each.
LEMMA PlainPlays ==
    ASSUME RxInv, RxInv', have, have', NEW H \in SUBSET (0 .. Blocks - 1), NEW d, NEW K,
           Plain(Due, H, played, d, K)
    PROVE  [Playout!Next]_<<have, Due, played>>
<1>0. Blocks \in Nat /\ Due \in 0 .. Blocks /\ played \in Seq(Sounds) /\ sent \in 0 .. Blocks
  <2>1. Due \in 0 .. sent /\ sent \in 0 .. Blocks
    BY DEF RxInv, Streaming, TypeOK
  <2> QED BY <2>1, RxAssumption DEF RxInv, TypeOK, Sounds
<1>1. d \in Due .. Blocks /\ d \in 0 .. Blocks
  BY <1>0 DEF Plain, Passed
<1>2. expected' = SeqOf(d) /\ played' = played \o Row(Due, d)
  BY DEF Plain
<1>3. Due' = d
  BY <1>1, <1>2, DueIs DEF Due
<1> DEFINE s == Row(Due, d)
<1>4. /\ s \in Seq(Sounds) /\ Len(s) = d - Due
      /\ \A i \in 1 .. d - Due : s[i] = Due + i - 1
      /\ (d = Due => s = <<>>)
  BY <1>0, <1>1, RowIsSeq
<1>5. CASE d = Due
  <2>1. played' = played
    BY <1>0, <1>2, <1>4, <1>5, ConcatEmptySeq
  <2> QED BY <1>3, <1>5, <2>1
<1>6. CASE d # Due
  <2>1. d > Due /\ d - Due \in Nat \ {0}
    BY <1>0, <1>1, <1>6
  <2>2. Playout!InTurn(s, d)
    <3>1. DOMAIN s = 1 .. d - Due
      BY <1>4, <2>1
    <3> QED BY <1>4, <3>1 DEF Playout!InTurn
  <2>3. have \in BOOLEAN /\ have' \in BOOLEAN
    BY DEF RxInv, TypeOK
  <2>4. d \in Nat /\ Due \in Nat
    BY <1>0, <1>1
  <2> HIDE DEF s
  <2>5. played' = played \o s
    BY <1>2 DEF s
  <2>6. Playout!Play
    BY <1>0, <1>3, <1>4, <2>1, <2>2, <2>3, <2>4, <2>5, PlayIs
  <2> QED BY <2>6 DEF Playout!Next
<1> QED BY <1>5, <1>6

LEMMA FilledPlays ==
    ASSUME RxInv, RxInv', have, have', NEW H \in SUBSET (0 .. Blocks - 1),
           \A b \in H : b <= Due + Jump, NEW f, NEW d, NEW K,
           Filled(Due, H, played, f, d, K)
    PROVE  Playout!Next
<1>0. Blocks \in Nat /\ Due \in 0 .. Blocks /\ played \in Seq(Sounds) /\ Due \in Nat
      /\ Jump \in Nat /\ MaxFill \in Nat
  <2>1. Due \in 0 .. sent /\ sent \in 0 .. Blocks
    BY DEF RxInv, Streaming, TypeOK
  <2> QED BY <2>1, RxAssumption DEF RxInv, TypeOK, Sounds
<1>1. /\ f \in H /\ f > Due /\ Passed(f, H, d, K) /\ d > f
      /\ expected' = SeqOf(d) /\ played' = played \o (Fill(f - Due) \o Row(f, d))
  BY DEF Filled
<1>2. /\ f \in 0 .. Blocks /\ f \in Nat /\ f <= Due + Jump
      /\ d \in f .. Blocks /\ d \in 0 .. Blocks /\ d \in Nat
  BY <1>0, <1>1 DEF Passed
<1>3. Due' = d
  BY <1>1, <1>2, DueIs DEF Due
<1> DEFINE gap == f - Due
           s == Fill(gap) \o Row(f, d)
<1>4. gap \in Nat /\ gap > 0 /\ gap <= Jump /\ d > Due + gap /\ d - Due - gap = d - f
  BY <1>0, <1>1, <1>2
<1>5. /\ Row(f, d) \in Seq(Sounds) /\ Len(Row(f, d)) = d - f
      /\ \A i \in 1 .. d - f : Row(f, d)[i] = f + i - 1
  BY <1>2, RowIsSeq
<1> HIDE DEF gap
<1>6. /\ Fill(gap) \in Seq(Sounds)
      /\ Len(Fill(gap)) = IF gap > MaxFill THEN MaxFill ELSE gap
      /\ \A i \in 1 .. Len(Fill(gap)) : Fill(gap)[i] = Silence
      /\ gap > MaxFill => Fill(gap) = [i \in 1 .. MaxFill |-> Silence]
  BY <1>4, FillIs
<1>7. played' = played \o s
  BY <1>1 DEF gap
<1>8. CASE gap <= MaxFill
  <2>1. Len(Fill(gap)) = gap
    BY <1>0, <1>4, <1>6, <1>8
  <2>2. /\ s \in Seq(Sounds) /\ Len(s) = gap + (d - f)
        /\ \A i \in 1 .. gap + (d - f) :
              s[i] = IF i <= gap THEN Fill(gap)[i] ELSE Row(f, d)[i - gap]
    <3>1. /\ Fill(gap) \o Row(f, d) \in Seq(Sounds)
          /\ Len(Fill(gap) \o Row(f, d)) = Len(Fill(gap)) + Len(Row(f, d))
          /\ \A i \in 1 .. Len(Fill(gap)) + Len(Row(f, d)) :
                (Fill(gap) \o Row(f, d))[i] =
                   IF i <= Len(Fill(gap)) THEN Fill(gap)[i] ELSE Row(f, d)[i - Len(Fill(gap))]
      BY <1>5, <1>6, Joined
    <3> QED BY <1>5, <2>1, <3>1
  <2>3. gap + (d - f) = d - Due
    BY <1>0, <1>2 DEF gap
  <2>4. ASSUME NEW i \in 1 .. d - Due
        PROVE  s[i] \in {Due + i - 1, Silence}
    <3>1. CASE i <= gap
      <4>1. s[i] = Fill(gap)[i] /\ i \in 1 .. Len(Fill(gap))
        BY <1>4, <2>1, <2>2, <2>3, <3>1
      <4> QED BY <1>6, <4>1
    <3>2. CASE ~(i <= gap)
      <4>1. s[i] = Row(f, d)[i - gap]
        BY <2>2, <2>3, <3>2
      <4>2. i - gap \in 1 .. d - f /\ f + (i - gap) - 1 = Due + i - 1
        BY <1>0, <1>2, <1>4, <3>2 DEF gap
      <4> QED BY <1>5, <4>1, <4>2
    <3> QED BY <3>1, <3>2
  <2> HIDE DEF s
  <2>5. Playout!InTurn(s, d)
    <3>1. DOMAIN s = 1 .. d - Due
      BY <2>2, <2>3
    <3> QED BY <2>2, <2>3, <2>4, <3>1 DEF Playout!InTurn
  <2>6. d > Due /\ Len(s) = d - Due
    BY <1>0, <1>1, <1>2, <2>2, <2>3
  <2>7. have \in BOOLEAN /\ have' \in BOOLEAN
    BY DEF RxInv, TypeOK
  <2>8. Playout!Play
    BY <2>7, <1>0, <1>2, <1>3, <1>7, <2>2, <2>5, <2>6, PlayIs
  <2> QED BY <2>8 DEF Playout!Next
<1>9. CASE gap > MaxFill
  <2>1. gap \in MaxFill + 1 .. Jump
    BY <1>0, <1>4, <1>9
  <2>2. Row(f, d) = [i \in 1 .. d - Due - gap |-> Due + gap + i - 1]
    BY <1>0, <1>2, <1>4 DEF Row, gap
  <2>3. played' = (played \o Fill(gap)) \o Row(f, d)
    BY <1>0, <1>5, <1>6, <1>7, JoinedInAnyOrder
  <2>4. played' = played \o [i \in 1 .. MaxFill |-> Silence]
                         \o [i \in 1 .. Due' - Due - gap |-> Due + gap + i - 1]
    BY <1>3, <1>6, <1>9, <2>2, <2>3
  <2>5. Playout!Shorten
    BY <1>3, <1>4, <2>1, <2>4 DEF Playout!Shorten
  <2> QED BY <2>5 DEF Playout!Next
<1> QED BY <1>0, <1>4, <1>8, <1>9

\* A stream begins with the block that came, and with no other.
LEMMA BeginIs ==
    ASSUME NEW b \in 0 .. Blocks - 1, Begins(b)
    PROVE  expected' = SeqOf(b + 1) /\ played' = <<b>>
<1>0. Blocks \in Nat /\ b \in Nat /\ b \in 0 .. Blocks /\ {b} \in SUBSET (0 .. Blocks - 1)
  BY RxAssumption
<1>1. \/ \E d, K : Plain(b, {b}, <<>>, d, K)
      \/ \E f, d, K : Filled(b, {b}, <<>>, f, d, K)
  BY <1>0, FlushIs DEF Begins
<1>2. ~\E f, d, K : Filled(b, {b}, <<>>, f, d, K)
  BY DEF Filled
<1>3. PICK d, K : Plain(b, {b}, <<>>, d, K)
  BY <1>1, <1>2
<1>4. d \in b .. Blocks /\ d # b /\ \A x \in b .. d - 1 : x = b
  BY <1>3 DEF Plain, Passed
<1>5. d = b + 1
  <2>1. CASE d > b + 1
    <3>1. b + 1 \in b .. d - 1 /\ b + 1 # b
      BY <1>0, <1>4, <2>1
    <3> QED BY <1>4, <3>1
  <2> QED BY <1>0, <1>4, <2>1
<1>6. d \in 0 .. Blocks /\ d - b = 1
  BY <1>0, <1>4, <1>5
<1>7. /\ Row(b, d) \in Seq(Sounds) /\ Len(Row(b, d)) = 1
      /\ Row(b, d)[1] = b
  <2>1. /\ Row(b, d) \in Seq(Sounds) /\ Len(Row(b, d)) = d - b
        /\ \A i \in 1 .. d - b : Row(b, d)[i] = b + i - 1
    BY <1>0, <1>4, RowIsSeq
  <2> QED BY <1>0, <1>6, <2>1
<1>8. Row(b, d) = <<b>>
  BY <1>7
<1>9. <<>> \o Row(b, d) = Row(b, d)
  BY <1>7, ConcatEmptySeq
<1> QED BY <1>3, <1>5, <1>8, <1>9 DEF Plain

LEMMA StepPlays ==
    ASSUME RxInv, RxInv', [Next]_vars
    PROVE  [Playout!Next]_<<have, Due, played>>
<1>0. /\ Blocks \in Nat /\ sent \in 0 .. Blocks /\ air \subseteq 0 .. sent - 1
      /\ hold \subseteq 0 .. sent - 1 /\ Jump \in Nat /\ have \in BOOLEAN
  BY RxAssumption DEF RxInv, TypeOK
<1>1. have => Due \in 0 .. sent /\ expected = SeqOf(Due) /\ \A x \in hold : x <= Due + Jump
  BY DEF RxInv, Streaming
<1>2. ASSUME NEW H \in SUBSET (0 .. Blocks - 1), \A x \in H : x <= Due + Jump, have, have',
             Flush(SeqOf(Due), H, waiting, played)
      PROVE  [Playout!Next]_<<have, Due, played>>
  <2>1. Due \in 0 .. Blocks
    BY <1>0, <1>1, <1>2
  <2>2. \/ \E d, K : Plain(Due, H, played, d, K)
        \/ \E f, d, K : Filled(Due, H, played, f, d, K)
    BY <1>2, <2>1, FlushIs
  <2>3. ASSUME NEW d, NEW K, Plain(Due, H, played, d, K)
        PROVE  [Playout!Next]_<<have, Due, played>>
    BY <1>2, <2>3, PlainPlays
  <2>4. ASSUME NEW f, NEW d, NEW K, Filled(Due, H, played, f, d, K)
        PROVE  [Playout!Next]_<<have, Due, played>>
    BY <1>2, <2>4, FilledPlays
  <2> QED BY <2>2, <2>3, <2>4
<1>3. ASSUME NEW b \in 0 .. Blocks - 1, Arrive(b)
      PROVE  [Playout!Next]_<<have, Due, played>>
  <2>1. b \in 0 .. sent - 1 /\ Receive(b)
    BY <1>0, <1>3 DEF Arrive
  <2>2. have' = TRUE /\ (Ignores \/ Begins(b) \/ Continues(b))
    BY <2>1, ReceiveIs
  <2>3. CASE Ignores
    BY <2>3 DEF Ignores, receiver, Due
  <2>4. CASE Begins(b)
    <3>1. expected' = SeqOf(b + 1) /\ played' = <<b>> /\ b + 1 \in 0 .. Blocks
      BY <1>0, <2>4, BeginIs
    <3>2. Due' = b + 1
      BY <2>2, <3>1, DueIs DEF Due
    <3>3. have => Due' > Due + Jump
      <4>1. have => b > Due + Jump
        BY <2>4 DEF Begins
      <4> QED BY <1>0, <1>1, <3>2, <4>1
    <3>4. \A i \in DOMAIN played' : played'[i] = Due' - Len(played') + i - 1
      <4>1. DOMAIN played' = {1} /\ Len(played') = 1 /\ played'[1] = b
        BY <3>1
      <4>2. b = (b + 1) - 1 + 1 - 1
        OBVIOUS
      <4> QED BY <3>2, <4>1, <4>2
    <3>5. played' # <<>>
      BY <3>1
    <3>6. Playout!Begin
      BY <2>2, <3>3, <3>4, <3>5 DEF Playout!Begin
    <3> QED BY <3>6 DEF Playout!Next
  <2>5. CASE Continues(b)
    <3>1. have /\ b <= Due + Jump /\ Flush(SeqOf(Due), hold \cup {b}, waiting, played)
      BY <2>5 DEF Continues
    <3>2. hold \cup {b} \in SUBSET (0 .. Blocks - 1)
      BY <1>0
    <3>3. \A x \in hold \cup {b} : x <= Due + Jump
      BY <1>1, <3>1
    <3> QED BY <1>2, <2>2, <3>1, <3>2, <3>3
  <2> QED BY <2>2, <2>3, <2>4, <2>5
<1>4. CASE Tick
  <2>1. have
    BY <1>4 DEF Tick, RxInv
  <2>2. have' /\ Flush(SeqOf(Due), hold, waiting, played)
    BY <1>1, <1>4, <2>1 DEF Tick
  <2>3. hold \in SUBSET (0 .. Blocks - 1)
    BY <1>0
  <2> QED BY <1>1, <1>2, <2>1, <2>2, <2>3
<1>5. CASE OtherProfile
  <2>1. have' = FALSE /\ played' = <<>>
    BY <1>5 DEF OtherProfile, Reset
  <2>2. Playout!Stop
    BY <2>1 DEF Playout!Stop, Due
  <2> QED BY <2>2 DEF Playout!Next
<1>6. CASE UNCHANGED <<have, expected, played>>
  BY <1>6 DEF Due
<1>7. Nack \/ Send \/ ThisProfile \/ UNCHANGED vars \/ (\E b \in 0 .. Blocks - 1 : Lose(b))
      => UNCHANGED <<have, expected, played>>
  BY DEF Nack, Send, ThisProfile, Lose, vars, network, receiver
<1> QED BY <1>3, <1>4, <1>5, <1>6, <1>7 DEF Next

-----------------------------------------------------------------------------
(* No silence for what is held                                             *)

\* Between two wraps sequences rise with the blocks.
LEMMA SeqRises ==
    ASSUME NEW c \in 0 .. Blocks - 1, NEW x \in 0 .. Blocks - 1, NEW f \in 0 .. Blocks - 1,
           c <= x, x < f, SeqOf(c) <= SeqOf(x), SeqOf(c) <= SeqOf(f)
    PROVE  SeqOf(x) < SeqOf(f)
<1>1. /\ Start \in Nat /\ Mod \in Nat /\ Start < Mod /\ Blocks \in Nat /\ 2 * Blocks <= Mod
  BY RxAssumption
<1>2. c \in 0 .. Mod - 1 /\ x \in 0 .. Mod - 1 /\ f \in 0 .. Mod - 1
  BY <1>1
<1>3. /\ SeqOf(c) = IF Start + c < Mod THEN Start + c ELSE Start + c - Mod
      /\ SeqOf(x) = IF Start + x < Mod THEN Start + x ELSE Start + x - Mod
      /\ SeqOf(f) = IF Start + f < Mod THEN Start + f ELSE Start + f - Mod
  BY <1>2, SeqOfIs
<1> QED BY <1>1, <1>2, <1>3

LEMMA FlushPlaysHeld ==
    ASSUME RxInv, have, Unwrapped, NEW H \in SUBSET (0 .. sent - 1), hold \subseteq H,
           NEW w, Flush(SeqOf(Due), H, w, played),
           NEW i \in Added, played'[i] = Silence
    PROVE  Due + i - Len(played) - 1 \notin hold
<1>0. /\ Blocks \in Nat /\ sent \in 0 .. Blocks /\ Due \in 0 .. sent /\ Due \in 0 .. Blocks
      /\ Due \in Nat /\ sent \in Nat /\ sent <= Blocks
      /\ played \in Seq(Sounds) /\ H \in SUBSET (0 .. Blocks - 1) /\ Silence \notin 0 .. Blocks - 1
      /\ Len(played) \in Nat
  <2>1. Due \in 0 .. sent /\ sent \in 0 .. Blocks /\ played \in Seq(Sounds)
    BY DEF RxInv, Streaming, TypeOK, Sounds
  <2>2. Len(played) \in Nat
    BY <2>1
  <2> QED BY <2>1, <2>2, RxAssumption
<1> DEFINE j == i - Len(played)
<1>1. i \in Len(played) + 1 .. Len(played')
  BY DEF Added
<1>2. ASSUME NEW d, NEW K, Plain(Due, H, played, d, K)
      PROVE  FALSE
  <2>1. d \in Due .. Blocks /\ d \in 0 .. Blocks /\ played' = played \o Row(Due, d)
    BY <1>0, <1>2 DEF Plain, Passed
  <2>2. /\ Row(Due, d) \in Seq(Sounds) /\ Len(Row(Due, d)) = d - Due
        /\ \A k \in 1 .. d - Due : Row(Due, d)[k] = Due + k - 1
    BY <1>0, <2>1, RowIsSeq
  <2>3. /\ Len(played') = Len(played) + (d - Due)
        /\ \A k \in 1 .. Len(played) + (d - Due) :
              played'[k] = IF k <= Len(played) THEN played[k] ELSE Row(Due, d)[k - Len(played)]
    BY <1>0, <2>1, <2>2, Joined
  <2>4. i \in 1 .. Len(played) + (d - Due) /\ ~(i <= Len(played)) /\ j \in 1 .. d - Due
    BY <1>0, <1>1, <2>1, <2>3
  <2>5. played'[i] = Due + j - 1
    BY <2>2, <2>3, <2>4
  <2>6. Due + j - 1 \in 0 .. Blocks - 1
    BY <1>0, <2>1, <2>4
  <2> QED BY <1>0, <2>5, <2>6
<1>3. ASSUME NEW f, NEW d, NEW K, Filled(Due, H, played, f, d, K),
             Due + j - 1 \in hold
      PROVE  FALSE
  <2>1. /\ f \in H /\ f > Due /\ Due \notin H /\ Passed(f, H, d, K) /\ d > f
        /\ \A b \in H : b > Due => SeqOf(f) <= SeqOf(b)
        /\ played' = played \o (Fill(f - Due) \o Row(f, d))
    BY <1>3 DEF Filled
  <2>2. /\ f \in 0 .. Blocks - 1 /\ f \in 0 .. Blocks /\ f \in Nat /\ f - Due \in Nat
        /\ d \in f .. Blocks /\ d \in Nat /\ f \in Due .. sent - 1 /\ d - f \in Nat
    BY <1>0, <2>1 DEF Passed
  <2> DEFINE F == Fill(f - Due)
             R == Row(f, d)
             s == F \o R
  <2>3. /\ F \in Seq(Sounds) /\ Len(F) \in Nat /\ Len(F) <= f - Due
    <3>1. F \in Seq(Sounds) /\ Len(F) = IF f - Due > MaxFill THEN MaxFill ELSE f - Due
      BY <2>2, FillIs
    <3>2. MaxFill \in Nat
      BY RxAssumption
    <3> QED BY <2>2, <3>1, <3>2
  <2>4. /\ R \in Seq(Sounds) /\ Len(R) = d - f
        /\ \A k \in 1 .. d - f : R[k] = f + k - 1
    BY <2>2, RowIsSeq
  <2> HIDE DEF F, R
  <2>5. /\ s \in Seq(Sounds) /\ Len(s) = Len(F) + (d - f)
        /\ \A k \in 1 .. Len(F) + (d - f) : s[k] = IF k <= Len(F) THEN F[k] ELSE R[k - Len(F)]
    BY <2>3, <2>4, Joined
  <2>6. played' = played \o s
    BY <2>1 DEF F, R
  <2> HIDE DEF s
  <2>7. /\ Len(played') = Len(played) + Len(s)
        /\ \A k \in 1 .. Len(played) + Len(s) :
              played'[k] = IF k <= Len(played) THEN played[k] ELSE s[k - Len(played)]
    BY <1>0, <2>5, <2>6, Joined
  <2>8. /\ i \in 1 .. Len(played) + Len(s) /\ ~(i <= Len(played))
        /\ j \in 1 .. Len(F) + (d - f) /\ j \in Nat
    BY <1>0, <1>1, <2>2, <2>3, <2>5, <2>7
  <2>9. played'[i] = s[j]
    BY <2>7, <2>8
  <2>10. CASE j <= Len(F)
    <3> DEFINE x == Due + j - 1
    <3>1. x \in H /\ x >= Due /\ x < f /\ x \in Nat /\ x # Due
      <4>1. x \in H /\ x # Due
        BY <1>3, <2>1
      <4> QED BY <1>0, <2>2, <2>3, <2>8, <2>10, <4>1
    <3>2. x > Due /\ x \in Due .. sent - 1 /\ x \in 0 .. Blocks - 1 /\ Due \in 0 .. Blocks - 1
      BY <1>0, <2>2, <3>1
    <3> HIDE DEF x
    <3>3. SeqOf(f) <= SeqOf(x)
      BY <2>1, <3>1, <3>2
    <3>4. SeqOf(x) >= SeqOf(Due) /\ SeqOf(f) >= SeqOf(Due)
      BY <2>2, <3>2 DEF Unwrapped
    <3>5. \A b \in 0 .. Blocks - 1 : SeqOf(b) \in Int
      BY RxAssumption DEF SeqOf
    <3>6. SeqOf(Due) <= SeqOf(x) /\ SeqOf(Due) <= SeqOf(f)
      BY <2>2, <3>2, <3>4, <3>5
    <3>7. SeqOf(x) < SeqOf(f)
      BY <2>2, <3>1, <3>2, <3>6, SeqRises
    <3> QED BY <2>2, <3>2, <3>3, <3>5, <3>7
  <2>11. CASE ~(j <= Len(F))
    <3>0. j \in 1 .. Len(F) + (d - f) /\ j \in Nat /\ ~(j <= Len(F))
      BY <2>8, <2>11
    <3> HIDE DEF j
    <3>1. s[j] = R[j - Len(F)] /\ j - Len(F) \in 1 .. d - f
      <4>1. s[j] = R[j - Len(F)]
        BY <2>5, <3>0
      <4>2. j - Len(F) \in 1 .. d - f
        BY <2>2, <2>3, <3>0
      <4> QED BY <4>1, <4>2
    <3>2. s[j] = f + (j - Len(F)) - 1
      BY <2>4, <3>1
    <3>3. f + (j - Len(F)) - 1 \in 0 .. Blocks - 1
      BY <1>0, <2>2, <3>1
    <3> QED BY <1>0, <2>9, <3>2, <3>3
  <2> QED BY <2>10, <2>11
<1>4. Due + i - Len(played) - 1 = Due + j - 1
  BY <1>0, <1>1
<1>5. \/ \E d, K : Plain(Due, H, played, d, K)
      \/ \E f, d, K : Filled(Due, H, played, f, d, K)
  BY <1>0, FlushIs
<1> QED BY <1>2, <1>3, <1>4, <1>5

LEMMA StepPlaysHeld ==
    ASSUME RxInv, [Next]_vars
    PROVE  Len(played') > Len(played) /\ have /\ Unwrapped
           => \A i \in Added : played'[i] = Silence => Due + i - Len(played) - 1 \notin hold
<1> SUFFICES ASSUME Len(played') > Len(played), have, Unwrapped,
                    NEW i \in Added, played'[i] = Silence
             PROVE  Due + i - Len(played) - 1 \notin hold
  OBVIOUS
<1>0. /\ Blocks \in Nat /\ sent \in 0 .. Blocks /\ air \subseteq 0 .. sent - 1
      /\ hold \in SUBSET (0 .. sent - 1) /\ Len(played) \in Nat /\ Silence \notin 0 .. Blocks - 1
      /\ Due \in 0 .. sent /\ expected = SeqOf(Due)
  <2>1. Len(played) \in Nat
    BY DEF RxInv, TypeOK
  <2> QED BY <2>1, RxAssumption DEF RxInv, TypeOK, Streaming
<1>1. ASSUME NEW b \in 0 .. Blocks - 1, Arrive(b)
      PROVE  Due + i - Len(played) - 1 \notin hold
  <2>1. b \in 0 .. sent - 1 /\ Receive(b)
    BY <1>0, <1>1 DEF Arrive
  <2>2. Ignores \/ Begins(b) \/ Continues(b)
    BY <2>1, ReceiveIs
  <2>3. CASE Ignores
    <3>1. played' = played
      BY <2>3 DEF Ignores, receiver
    <3> QED BY <1>0, <3>1
  <2>4. CASE Begins(b)
    <3>1. played' = <<b>>
      BY <2>4, BeginIs
    <3>2. i \in 1 .. 1
      BY <1>0, <3>1 DEF Added
    <3>3. played'[i] = b
      BY <3>1, <3>2
    <3> QED BY <1>0, <1>1, <3>3
  <2>5. CASE Continues(b)
    <3>1. Flush(SeqOf(Due), hold \cup {b}, waiting, played)
      BY <2>5 DEF Continues
    <3>2. hold \cup {b} \in SUBSET (0 .. sent - 1) /\ hold \subseteq hold \cup {b}
      BY <1>0, <2>1
    <3> QED BY <3>1, <3>2, FlushPlaysHeld
  <2> QED BY <2>2, <2>3, <2>4, <2>5
<1>2. CASE Tick
  <2>1. Flush(SeqOf(Due), hold, waiting, played)
    BY <1>0, <1>2 DEF Tick
  <2>2. hold \subseteq hold
    OBVIOUS
  <2> QED BY <1>0, <2>1, <2>2, FlushPlaysHeld
<1>3. ~OtherProfile
  <2>1. OtherProfile => Len(played') = 0
    BY DEF OtherProfile, Reset
  <2> QED BY <1>0, <2>1
<1>4. played' # played
  BY <1>0
<1>5. Nack \/ Send \/ ThisProfile \/ UNCHANGED vars \/ (\E b \in 0 .. Blocks - 1 : Lose(b))
      => played' = played
  BY DEF Nack, Send, ThisProfile, Lose, vars, network, receiver
<1> QED BY <1>1, <1>2, <1>3, <1>4, <1>5 DEF Next

-----------------------------------------------------------------------------
(* Theorems                                                                *)

LEMMA Invariance == Spec => []RxInv
<1>1. QED
  BY InitHolds, StepKeeps, PTL DEF Spec

(* Every variable of the receiver has its type: what is held has been sent, *)
(* a hole is waited for only while something is held, and it is asked for   *)
(* MaxTries times at most (handleV3Audio, flushV3, sendV3Nack).             *)
THEOREM ReceiverIsSound == Spec => []TypeOK
<1>1. RxInv => TypeOK
  BY DEF RxInv
<1>2. QED
  BY <1>1, Invariance, PTL

(* Whatever is lost, repeated or overtaken, the decoder is given each block *)
(* in its turn or silence in its place, a long hole shortened: the buffer   *)
(* of flushV3 implements DecolinkPlayout.                                   *)
THEOREM PlayoutIsKept == Spec => PlayoutKept
<1>1. Init => Playout!Init
  BY DEF Init, Playout!Init, Due
<1>2. QED
  BY <1>1, StepPlays, Invariance, PTL DEF Spec, PlayoutKept, Playout!Spec

(* Within a wrap of the sequence no block that is held is replaced by       *)
(* silence (the hole given up in flushV3).                                  *)
THEOREM WhatIsHeldIsPlayed == Spec => HeldIsPlayed
<1>1. QED
  BY StepPlaysHeld, Invariance, PTL DEF Spec, HeldIsPlayed

-----------------------------------------------------------------------------
(* The transmission                                                        *)

Commands == [on : BOOLEAN, seq : Nat]

Notices == [kind : {"state"}, busy : BOOLEAN]

Replies == [kind : {"reply"}, seq : Nat, refused : BOOLEAN]

LinkShape ==
    /\ open \in BOOLEAN /\ linked \in BOOLEAN /\ requested \in BOOLEAN /\ holder \in BOOLEAN
    /\ queue \in Seq(1 .. Sessions)
    /\ seq \in Nat /\ pending \in SUBSET (1 .. seq)
    /\ linked \/ requested => open

NetworkShape ==
    /\ up \in Seq(Commands) /\ down \in Seq(Notices \cup Replies)
    /\ radio \in {"us", "other", "none"}
    /\ turns \in 0 .. Turns
    /\ lost \in Nat /\ silent \in Nat /\ closed \in Nat
    /\ lost + silent + closed <= Mishaps

(* What waits in the queue and what the bridge has still to hand over is    *)
(* part of the transmissions begun.                                         *)
BridgeShape ==
    /\ tx \in BOOLEAN
    /\ session \in 0 .. Sessions /\ left \in 0 .. Pieces
    /\ left > 0 => tx /\ session > 0
    /\ Len(queue) + left <= session * Pieces

PttInv == LinkShape /\ NetworkShape /\ BridgeShape /\ TurnRespected

-----------------------------------------------------------------------------
(* A command sent once more, or three times: the answers it may have are    *)
(* for numbers given out.                                                   *)
LEMMA SendCatShape ==
    ASSUME NEW key \in BOOLEAN, NEW n \in Nat,
           seq \in Nat, pending \in SUBSET (1 .. seq), up \in Seq(Commands),
           linked \in BOOLEAN, SendCat(key, n)
    PROVE  seq' \in Nat /\ pending' \in SUBSET (1 .. seq') /\ up' \in Seq(Commands)
<1> DEFINE k == IF linked THEN n ELSE 0
           burst == [i \in 1 .. k |-> [on |-> key, seq |-> seq + i]]
<1>1. k \in Nat
  OBVIOUS
<1>2. /\ seq' = seq + k /\ up' = up \o burst
      /\ pending' = pending \cup (seq + 1 .. seq + k)
  BY DEF SendCat
<1> HIDE DEF k
<1>3. burst \in Seq(Commands)
  <2>1. \A i \in 1 .. k : [on |-> key, seq |-> seq + i] \in Commands
    BY <1>1 DEF Commands
  <2>2. burst \in [1 .. k -> Commands]
    BY <2>1
  <2> HIDE DEF burst
  <2>3. QED
    BY <1>1, <2>2
<1>4. up' \in Seq(Commands)
  BY <1>2, <1>3, ConcatProperties
<1>5. seq' \in Nat /\ pending' \in SUBSET (1 .. seq')
  <2>1. seq \in Nat /\ seq' = seq + k
    BY <1>2
  <2>2. \A s \in 1 .. seq : s \in 1 .. seq + k
    BY <1>1, <2>1
  <2>3. \A s \in seq + 1 .. seq + k : s \in 1 .. seq + k
    BY <1>1, <2>1
  <2>4. QED
    BY <1>1, <1>2, <2>1, <2>2, <2>3
<1>6. QED
  BY <1>4, <1>5

LEMMA PttInitHolds == PttInit => PttInv
<1> SUFFICES ASSUME PttInit PROVE PttInv
  OBVIOUS
<1>1. /\ 0 \in 0 .. Sessions /\ 0 \in 0 .. Pieces /\ 0 \in 0 .. Turns
      /\ 0 <= Mishaps /\ 0 * Pieces = 0
  BY PttAssumption
<1>2. LinkShape /\ TurnRespected
  BY EmptySeq DEF PttInit, LinkShape, TurnRespected
<1>3. NetworkShape
  BY <1>1, EmptySeq DEF PttInit, NetworkShape
<1>4. BridgeShape
  <2>1. tx = FALSE /\ left = 0 /\ session = 0 /\ Len(queue) = 0
    BY EmptySeq DEF PttInit
  <2>2. /\ Len(queue) + left <= session * Pieces /\ ~ (left > 0)
        /\ session \in 0 .. Sessions /\ left \in 0 .. Pieces
    BY <1>1, <2>1
  <2>3. tx \in BOOLEAN
    BY <2>1
  <2>4. QED
    BY <2>2, <2>3 DEF BridgeShape
<1>5. QED
  BY <1>2, <1>3, <1>4 DEF PttInv

(* The bridge begins a transmission with nothing of the last one left.      *)
LEMMA StartKeeps ==
    ASSUME PttInv, SendTxWave
    PROVE  PttInv'
<1>1. SendCat(TRUE, 1) /\ requested' = TRUE
  BY DEF SendTxWave, SetPtt
<1>2. seq' \in Nat /\ pending' \in SUBSET (1 .. seq') /\ up' \in Seq(Commands)
  BY <1>1, SendCatShape DEF PttInv, LinkShape, NetworkShape
<1>3. LinkShape'
  BY <1>1, <1>2 DEF PttInv, LinkShape, SendTxWave
<1>4. NetworkShape'
  BY <1>2 DEF PttInv, NetworkShape, SendTxWave
<1>5. BridgeShape'
  <2>1. /\ Sessions \in Nat /\ Pieces \in Nat /\ session \in Nat
        /\ Len(queue) \in Nat /\ Len(queue) <= session * Pieces
        /\ session < Sessions
    BY PttAssumption, LenProperties DEF PttInv, LinkShape, BridgeShape, SendTxWave
  <2>2. (session + 1) * Pieces = session * Pieces + Pieces
    BY <2>1
  <2>3. tx' = TRUE /\ left' = Pieces /\ session' = session + 1 /\ queue' = queue
    BY DEF SendTxWave
  <2>4. session * Pieces \in Nat
    BY <2>1
  <2>5. QED
    BY <2>1, <2>2, <2>3, <2>4 DEF BridgeShape
<1>6. TurnRespected'
  BY DEF SendTxWave, TurnRespected
<1>7. QED
  BY <1>3, <1>4, <1>5, <1>6 DEF PttInv

(* A release, by the bridge or by the watch, leaves what is queued alone.   *)
LEMMA ReleaseKeeps ==
    ASSUME PttInv, StopTx \/ Watch
    PROVE  PttInv'
<1>1. /\ UNCHANGED <<open, linked, holder, queue, session, down, radio, turns, lost, silent, closed>>
      /\ requested' = requested \/ requested' = FALSE
      /\ left' \in {left, 0} /\ tx' \in BOOLEAN /\ (tx' = tx \/ left' = 0)
      /\ SendCat(FALSE, 1) \/ UNCHANGED <<seq, pending, up>>
  BY DEF StopTx, Watch, SetPtt, PttInv, BridgeShape, bridge
<1>2. seq' \in Nat /\ pending' \in SUBSET (1 .. seq') /\ up' \in Seq(Commands)
  BY <1>1, SendCatShape DEF PttInv, LinkShape, NetworkShape
<1>3. LinkShape'
  <2>1. requested' \in BOOLEAN /\ (linked' \/ requested' => open')
    <3>1. requested \in BOOLEAN /\ (linked \/ requested => open)
      BY DEF PttInv, LinkShape
    <3>2. CASE requested' = requested
      BY <1>1, <3>1, <3>2
    <3>3. CASE requested' = FALSE
      BY <1>1, <3>1, <3>3
    <3>4. QED
      BY <1>1, <3>2, <3>3
  <2>2. QED
    BY <1>1, <1>2, <2>1 DEF PttInv, LinkShape
<1>4. NetworkShape'
  BY <1>1, <1>2 DEF PttInv, NetworkShape
<1>5. BridgeShape'
  <2>1. /\ Pieces \in Nat /\ session \in Nat /\ session * Pieces \in Nat
        /\ Len(queue) \in Nat
    BY PttAssumption, LenProperties DEF PttInv, LinkShape, BridgeShape
  <2>2. QED
    BY <1>1, <2>1 DEF PttInv, BridgeShape
<1>6. TurnRespected'
  BY <1>1 DEF PttInv, TurnRespected
<1>7. QED
  BY <1>3, <1>4, <1>5, <1>6 DEF PttInv

(* A piece handed over is queued, unless another operator has the turn, and *)
(* no longer left.                                                          *)
LEMMA PumpKeeps ==
    ASSUME PttInv, Pump
    PROVE  PttInv'
<1>1. /\ left > 0 /\ left' = IF linked THEN left - 1 ELSE 0
      /\ queue' = IF linked /\ ~holder THEN Append(queue, session) ELSE queue
      /\ UNCHANGED <<tx, session, open, linked, requested, holder, pending, seq,
                     up, down, radio, turns, lost, silent, closed>>
  BY DEF Pump, outside
<1>2. session \in 1 .. Sessions /\ queue \in Seq(1 .. Sessions)
  BY <1>1, PttAssumption DEF PttInv, BridgeShape, LinkShape
<1>3. /\ queue' \in Seq(1 .. Sessions)
      /\ Len(queue) \in Nat
      /\ Len(queue') = IF linked /\ ~holder THEN Len(queue) + 1 ELSE Len(queue)
  BY <1>1, <1>2, AppendProperties, LenProperties
<1>4. LinkShape'
  BY <1>1, <1>3 DEF PttInv, LinkShape
<1>5. NetworkShape'
  BY <1>1 DEF PttInv, NetworkShape
<1>6. BridgeShape'
  <2>1. /\ Pieces \in Nat /\ session \in Nat /\ session * Pieces \in Nat
        /\ left \in 0 .. Pieces /\ tx /\ session > 0
        /\ Len(queue) + left <= session * Pieces
    BY <1>1, PttAssumption DEF PttInv, BridgeShape
  <2>2. left' \in 0 .. Pieces /\ Len(queue') + left' <= session * Pieces
    <3>1. \/ left' = 0 /\ Len(queue') = Len(queue)
          \/ left' = left - 1 /\ (Len(queue') = Len(queue) \/ Len(queue') = Len(queue) + 1)
      BY <1>1, <1>3
    <3>2. \A l, q, limit \in Nat : l > 0 /\ q + l <= limit =>
             /\ q <= limit /\ q + 0 <= limit
             /\ q + (l - 1) <= limit /\ (q + 1) + (l - 1) <= limit
      OBVIOUS
    <3>3. left \in Nat /\ left > 0
      BY <1>1, <2>1
    <3>4. Len(queue') + left' <= session * Pieces
      BY <1>3, <2>1, <3>1, <3>2, <3>3
    <3>5. left' \in 0 .. Pieces
      BY <2>1, <3>1, <3>3
    <3>6. QED
      BY <3>4, <3>5
  <2>3. QED
    BY <1>1, <2>1, <2>2 DEF PttInv, BridgeShape
<1>7. TurnRespected'
  BY <1>1 DEF PttInv, TurnRespected
<1>8. QED
  BY <1>4, <1>5, <1>6, <1>7 DEF PttInv

(* Whatever takes from the queue, or empties it, without a command.         *)
LEMMA QueueShrinks ==
    ASSUME PttInv,
           queue' \in Seq(1 .. Sessions), Len(queue') <= Len(queue),
           requested' \in BOOLEAN, requested' => requested,
           open' \in BOOLEAN, linked' \in BOOLEAN, holder' \in BOOLEAN,
           linked' \/ requested' => open',
           holder' => ~requested' /\ queue' = <<>>,
           seq' \in Nat, pending' \in SUBSET (1 .. seq'),
           UNCHANGED bridge, NetworkShape'
    PROVE  PttInv'
<1>1. LinkShape' /\ TurnRespected'
  BY DEF LinkShape, TurnRespected
<1>2. BridgeShape'
  <2>1. Len(queue) \in Nat /\ Len(queue') \in Nat
    BY LenProperties DEF PttInv, LinkShape
  <2>2. Pieces \in Nat /\ session \in Nat /\ session * Pieces \in Nat
    BY PttAssumption DEF PttInv, BridgeShape
  <2>3. QED
    BY <2>1, <2>2 DEF PttInv, BridgeShape, bridge
<1>3. QED
  BY <1>1, <1>2 DEF PttInv

LEMMA TimersKeep ==
    ASSUME PttInv, TxTick \/ Forget
    PROVE  PttInv'
<1>1. UNCHANGED <<open, linked, requested, holder, seq, bridge, outside>>
  BY DEF TxTick, Forget
<1>2. NetworkShape'
  BY <1>1 DEF PttInv, NetworkShape, outside
<1>3. pending' \in SUBSET (1 .. seq)
  BY DEF TxTick, Forget, PttInv, LinkShape
<1>4. queue' \in Seq(1 .. Sessions) /\ Len(queue') <= Len(queue) /\ (queue = <<>> => queue' = <<>>)
  <2>1. queue \in Seq(1 .. Sessions) /\ Len(queue) \in Nat
    BY LenProperties DEF PttInv, LinkShape
  <2>2. CASE queue' = queue
    BY <2>1, <2>2
  <2>3. CASE queue # <<>> /\ queue' = Tail(queue)
    BY <2>1, <2>3, HeadTailProperties
  <2>4. QED
    BY <2>2, <2>3 DEF TxTick, Forget
<1>5. QED
  BY <1>1, <1>2, <1>3, <1>4, QueueShrinks DEF PttInv, LinkShape, TurnRespected

(* A notice that another operator has the turn, or a refusal, lets go of    *)
(* what was asked for and of what was queued.                               *)
LEMMA ReceiveKeeps ==
    ASSUME PttInv, OnDatagrams
    PROVE  PttInv'
<1>1. /\ down # <<>> /\ down' = Tail(down)
      /\ UNCHANGED <<open, linked, seq, bridge, up, radio, turns, lost, silent, closed>>
  BY DEF OnDatagrams
<1>2. Head(down) \in Notices \cup Replies /\ down' \in Seq(Notices \cup Replies)
  BY <1>1, HeadTailProperties DEF PttInv, NetworkShape
<1>3. NetworkShape'
  BY <1>1, <1>2 DEF PttInv, NetworkShape
<1>4. /\ queue \in Seq(1 .. Sessions) /\ Len(queue) \in Nat
      /\ <<>> \in Seq(1 .. Sessions) /\ Len(<<>>) = 0
  BY LenProperties, EmptySeq DEF PttInv, LinkShape
<1>5. /\ \/ LoseTurn
         \/ UNCHANGED <<requested, queue>> /\ (holder' => holder \/ (~requested /\ queue = <<>>))
      /\ holder' \in BOOLEAN /\ pending' \in SUBSET (1 .. seq)
  <2>1. pending \in SUBSET (1 .. seq) /\ holder \in BOOLEAN /\ requested \in BOOLEAN
    BY DEF PttInv, LinkShape
  <2>2. CASE ~open
    BY <2>1, <2>2 DEF OnDatagrams
  <2>3. CASE open /\ Head(down).kind = "state"
    <3>1. Head(down).busy \in BOOLEAN
      BY <1>2, <2>3 DEF Notices, Replies
    <3>2. HandleTxState(Head(down).busy) /\ UNCHANGED pending
      BY <2>3 DEF OnDatagrams
    <3>3. QED
      BY <2>1, <3>1, <3>2 DEF HandleTxState
  <2>4. CASE open /\ Head(down).kind # "state"
    <3>1. HandleCatResponse(Head(down))
      BY <2>4 DEF OnDatagrams
    <3>2. QED
      BY <2>1, <3>1 DEF HandleCatResponse
  <2>5. QED
    BY <2>1, <2>2, <2>3, <2>4 DEF PttInv, LinkShape
<1>6. /\ queue' \in Seq(1 .. Sessions) /\ Len(queue') <= Len(queue)
      /\ requested' \in BOOLEAN /\ (requested' => requested)
      /\ holder' => ~requested' /\ queue' = <<>>
  <2>1. CASE LoseTurn
    <3>1. requested' = FALSE /\ queue' = <<>> /\ 0 <= Len(queue)
      BY <1>4, <2>1 DEF LoseTurn
    <3>2. Len(queue') <= Len(queue) /\ queue' \in Seq(1 .. Sessions)
      BY <1>4, <3>1
    <3>3. QED
      BY <3>1, <3>2
  <2>2. CASE UNCHANGED <<requested, queue>> /\ (holder' => holder \/ (~requested /\ queue = <<>>))
    BY <1>4, <2>2 DEF PttInv, LinkShape, TurnRespected
  <2>3. QED
    BY <1>5, <2>1, <2>2
<1>7. /\ open' \in BOOLEAN /\ linked' \in BOOLEAN /\ seq' \in Nat
      /\ linked' \/ requested' => open'
      /\ pending' \in SUBSET (1 .. seq')
  BY <1>1, <1>5, <1>6 DEF PttInv, LinkShape
<1>8. QED
  BY <1>1, <1>3, <1>5, <1>6, <1>7, QueueShrinks

(* The relay goes silent or answers again, is left and is joined again.     *)
LEMMA ConnectionKeeps ==
    ASSUME PttInv, Silent \/ Back \/ Close \/ Reopen
    PROVE  PttInv'
<1>1. /\ queue \in Seq(1 .. Sessions) /\ Len(queue) \in Nat
      /\ <<>> \in Seq(1 .. Sessions) /\ Len(<<>>) = 0
      /\ seq \in Nat /\ pending \in SUBSET (1 .. seq)
      /\ up \in Seq(Commands)
  BY LenProperties, EmptySeq DEF PttInv, LinkShape, NetworkShape
<1>2. /\ lost \in Nat /\ silent \in Nat /\ closed \in Nat /\ Mishaps \in Nat
      /\ lost + silent + closed <= Mishaps
  BY PttAssumption DEF PttInv, NetworkShape
<1>3. /\ open \in BOOLEAN /\ linked \in BOOLEAN
      /\ requested \in BOOLEAN /\ holder \in BOOLEAN
      /\ linked \/ requested => open
      /\ holder => ~requested /\ queue = <<>>
      /\ Len(queue) <= Len(queue) /\ 0 <= Len(queue)
  BY <1>1 DEF PttInv, LinkShape, TurnRespected
<1>4. CASE Silent
  <2>1. NetworkShape'
    BY <1>2, <1>4 DEF Silent, Another, PttInv, NetworkShape
  <2>2. /\ UNCHANGED <<open, requested, holder, queue, pending, seq, bridge>>
        /\ linked' = FALSE
    BY <1>4 DEF Silent
  <2>3. QED
    BY <1>1, <1>3, <2>1, <2>2, QueueShrinks
<1>5. CASE Back \/ Reopen
  <2>1. NetworkShape'
    BY <1>5 DEF Back, Reopen, outside, PttInv, NetworkShape
  <2>2. /\ UNCHANGED <<requested, holder, queue, pending, seq, bridge>>
        /\ linked' \in BOOLEAN /\ open' = TRUE
    BY <1>5, <1>3 DEF Back, Reopen
  <2>3. QED
    BY <1>1, <1>3, <2>1, <2>2, QueueShrinks
<1>6. CASE Close
  <2> DEFINE k == IF requested /\ linked THEN 3 ELSE 0
             burst == [i \in 1 .. k |-> [on |-> FALSE, seq |-> seq + i]]
  <2>1. k \in Nat
    OBVIOUS
  <2>2. seq' = seq + k /\ up' = up \o burst /\ pending' = {}
    BY <1>6 DEF Close
  <2> HIDE DEF k
  <2>3. up' \in Seq(Commands)
    <3>1. \A i \in 1 .. k : [on |-> FALSE, seq |-> seq + i] \in Commands
      BY <1>1, <2>1 DEF Commands
    <3>2. burst \in [1 .. k -> Commands]
      BY <3>1
    <3>3. burst \in Seq(Commands)
      BY <2>1, <3>2
    <3>4. QED
      BY <1>1, <2>2, <3>3, ConcatProperties
  <2>4. NetworkShape'
    BY <1>2, <1>6, <2>3 DEF Close, Another, PttInv, NetworkShape
  <2>5. seq' \in Nat
    BY <1>1, <2>1, <2>2
  <2>6. /\ open' = FALSE /\ linked' = FALSE /\ requested' = FALSE /\ holder' = FALSE
        /\ queue' = <<>> /\ UNCHANGED bridge
    BY <1>6 DEF Close
  <2>7. QED
    BY <1>1, <1>3, <2>2, <2>4, <2>5, <2>6, QueueShrinks
<1>7. QED
  BY <1>4, <1>5, <1>6

(* The station, the other operator and the channel.                         *)
LEMMA NetworkKeeps ==
    ASSUME PttInv, Obey \/ TakeTurn \/ EndTurn \/ LoseDatagram
    PROVE  PttInv'
<1>1. UNCHANGED <<link, bridge>>
  BY DEF Obey, TakeTurn, EndTurn, LoseDatagram
<1>2. /\ up \in Seq(Commands) /\ down \in Seq(Notices \cup Replies)
      /\ radio \in {"us", "other", "none"} /\ turns \in 0 .. Turns
      /\ lost \in Nat /\ silent \in Nat /\ closed \in Nat
      /\ lost + silent + closed <= Mishaps
      /\ Mishaps \in Nat /\ Turns \in Nat
  BY PttAssumption DEF PttInv, NetworkShape
<1>3. NetworkShape'
  <2>1. CASE Obey
    <3>1. Head(up) \in Commands /\ up' \in Seq(Commands)
      BY <1>2, <2>1, HeadTailProperties DEF Obey
    <3>2. [kind |-> "reply", seq |-> Head(up).seq, refused |-> radio = "other"] \in Notices \cup Replies
      BY <3>1 DEF Commands, Replies
    <3>3. down' \in Seq(Notices \cup Replies)
      BY <1>2, <2>1, <3>2, AppendProperties DEF Obey
    <3>4. QED
      BY <1>2, <2>1, <3>1, <3>3 DEF Obey, NetworkShape
  <2>2. \A b \in BOOLEAN : [kind |-> "state", busy |-> b] \in Notices \cup Replies
    BY DEF Notices
  <2>3. CASE TakeTurn
    <3>1. down' \in Seq(Notices \cup Replies)
      BY <1>2, <2>2, <2>3, AppendProperties DEF TakeTurn
    <3>2. turns' \in 0 .. Turns
      BY <1>2, <2>3 DEF TakeTurn
    <3>3. QED
      BY <1>2, <2>3, <3>1, <3>2 DEF TakeTurn, NetworkShape
  <2>4. CASE EndTurn
    <3>1. down' \in Seq(Notices \cup Replies)
      BY <1>2, <2>2, <2>4, AppendProperties DEF EndTurn
    <3>2. QED
      BY <1>2, <2>4, <3>1 DEF EndTurn, NetworkShape
  <2>5. CASE LoseDatagram
    <3>1. up' \in Seq(Commands) /\ down' \in Seq(Notices \cup Replies)
      BY <1>2, <2>5, HeadTailProperties DEF LoseDatagram
    <3>2. QED
      BY <1>2, <2>5, <3>1 DEF LoseDatagram, Another, NetworkShape
  <2>6. QED
    BY <2>1, <2>3, <2>4, <2>5
<1>4. QED
  BY <1>1, <1>3 DEF PttInv, LinkShape, BridgeShape, TurnRespected, link, bridge

LEMMA PttInvariance == PttSpec => []PttInv
<1>1. PttInv /\ [PttNext]_pttVars => PttInv'
  <2> SUFFICES ASSUME PttInv, [PttNext]_pttVars PROVE PttInv'
    OBVIOUS
  <2>1. CASE UNCHANGED pttVars
    BY <2>1 DEF pttVars, link, bridge, outside, PttInv, LinkShape, NetworkShape, BridgeShape, TurnRespected
  <2>2. QED
    BY <2>1, StartKeeps, ReleaseKeeps, PumpKeeps, TimersKeep, ReceiveKeeps,
       ConnectionKeeps, NetworkKeeps DEF PttNext
<1>2. QED
  BY <1>1, PttInitHolds, PTL DEF PttSpec

(* In another operator's turn nothing is asked of the radio and no audio    *)
(* waits to be sent when it ends, whatever the timers, the operators, the   *)
(* relay and the channel do.                                                *)
THEOREM TurnAlwaysRespected == PttSpec => []TurnInv
<1>1. PttInv => TurnInv
  <2> SUFFICES ASSUME PttInv PROVE TurnInv
    OBVIOUS
  <2>1. Len(queue) <= Sessions * Pieces
    <3>1. /\ Sessions \in Nat /\ Pieces \in Nat /\ session \in Nat /\ session <= Sessions
          /\ Len(queue) \in Nat /\ left \in Nat
          /\ Len(queue) + left <= session * Pieces
      BY PttAssumption, LenProperties DEF PttInv, LinkShape, BridgeShape
    <3>2. \A a, b, c \in Nat : a <= b => a * c <= b * c
      OBVIOUS
    <3>3. session * Pieces <= Sessions * Pieces
      BY <3>1, <3>2
    <3>4. session * Pieces \in Nat /\ Sessions * Pieces \in Nat
      BY <3>1
    <3>5. QED
      BY <3>1, <3>3, <3>4
  <2>2. lost \in 0 .. Mishaps /\ silent \in 0 .. Mishaps /\ closed \in 0 .. Mishaps
    BY PttAssumption DEF PttInv, NetworkShape
  <2>3. QED
    BY <2>1, <2>2 DEF PttInv, LinkShape, NetworkShape, BridgeShape, TurnInv, PttTypeOK
<1>2. QED
  BY <1>1, PttInvariance, PTL
=============================================================================
