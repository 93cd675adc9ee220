-------------------------- MODULE SstvRxRuntimeProofs --------------------------
(***************************************************************************)
(* Proofs about SstvRxRuntime: its invariants, the promise to the          *)
(* observers of VIS codes, and that it keeps the stream of SstvRxStream,   *)
(* for every number of calls, blocks and codes, every size of block and    *)
(* every capacity of the queue.                                            *)
(***************************************************************************)
EXTENDS SstvRxRuntime, NaturalsInduction, WellFoundedInduction, SequenceTheorems, TLAPS

Sources == {"switch", "reset", "restart"}
Afterwards == {"release", "publish", "notify"}
Waits == {"lock", "holding", "dozing"}

(* Where the owner is, in the call it is in.                               *)
Placed ==
    /\ op = "none" <=> at = "-"
    /\ requested <=> at \in {"cut", "release"}
    /\ at = "join" => op \in Ending
    /\ at = "publish" => op \in {"switch", "restart", "cancel"}

(* Each call adds one generation and at most two wake-ups.                 *)
Counted ==
    /\ gen <= calls /\ epoch <= 2 * calls
    /\ at \in {"request", "cut"} => gen < calls /\ epoch < 2 * calls

(* The state of the runtime during a call, and when it has a worker        *)
InState ==
    /\ op \in Ending => state \in {"Stopping", "Error"}
    /\ op \notin Ending \cup {"none"} => state \in {"Running", "Cancelled", "Error"}
    /\ op = "reset" => state \in {"Running", "Error"}
    /\ at = "notify" /\ op \in Sources => state \in {"Running", "Error"}
    /\ at = "notify" /\ op = "cancel" => state \in {"Cancelled", "Error"}
    /\ op = "none" => state # "Stopping"
    /\ state \in {"Inactive", "Shutdown"} => w.at = "none"

(* What a call has cut stays so until it returns.                          *)
CutOff ==
    /\ at \in Afterwards /\ op \in Sources => ingress = "Active" /\ route = gen /\ ~cancelled
    /\ at \in Afterwards /\ op = "cancel" => ingress = "Cancelled" /\ queue = <<>>
    /\ at \in Afterwards \cup {"join"} /\ op \in Ending => queue = <<>> /\ route = 0

(* What is queued is of the current stream.                                *)
Current ==
    /\ queue # <<>> => ingress = "Active"
    /\ \A i \in 1 .. Len(queue) : queue[i].gen = gen

(* Where the worker is, and what it holds there                            *)
AtWork ==
    /\ w.at = "gate" => w.to \in {"pop", "chosen"}
    /\ w.at \in Waits => w.to \in {"pop", "chosen", "again"}
    /\ w.at \in {"reset", "terminating", "clearing"} => seen \in Generations
    /\ hand # None => hand.gen <= gen
    /\ w.at \in {"none", "begin", "pop", "asleep", "reset", "failing", "dead"} => hand = None
    /\ w.at \in {"gate"} \cup Waits /\ w.to # "chosen" => hand = None
    /\ w.at = "decoding" => Live(hand)

(* A block begun since the owner asked for the boundary is the last one:   *)
(* the worker does not come back to the queue before the call is over.     *)
Behind == requested /\ ahead > 0 =>
    /\ ahead = 1
    /\ w.at \in {"decoding", "terminating", "clearing", "gate", "ending", "failing", "dead"} \cup Waits

Heard == vis # 0 => emitted < codes

(* TypeOK, variable by variable                                            *)
OwnerTypes ==
    /\ state \in {"Inactive", "Running", "Cancelled", "Stopping", "Shutdown", "Error"}
    /\ stop \in BOOLEAN /\ requested \in BOOLEAN /\ route \in Generations
    /\ op \in {"none", "switch", "reset", "cancel", "restart", "stop", "shutdown"}
    /\ at \in {"-", "request", "cut", "release", "publish", "notify", "join"}
    /\ calls \in 0 .. Calls

IntakeTypes ==
    /\ ingress \in {"Inactive", "Active", "Cancelled", "Shutdown"}
    /\ gen \in Generations /\ next \in 0 .. Blocks
    /\ cancelled \in BOOLEAN /\ epoch \in 0 .. 2 * Calls

QueueTypes ==
    queue \in Seq(Block) /\ Len(queue) <= MaximumChunks /\ Samples(queue) <= MaximumSamples

WorkerTypes ==
    /\ w \in [at : {"none", "begin", "gate", "lock", "holding", "dozing", "pop", "asleep",
                    "chosen", "reset", "terminating", "clearing", "decoding", "ending",
                    "failing", "dead"},
              to : {"-", "pop", "chosen", "again"}]
    /\ awake \in BOOLEAN /\ hand \in Block \cup {None} /\ seen \in 0 .. 2 * Calls
    /\ pipe \in [gen : Generations, open : BOOLEAN]

ResultTypes ==
    /\ decoded \in Block \cup {None} /\ image \in Generations /\ vis \in Generations
    /\ codes \in 0 .. Codes /\ emitted \in 0 .. codes
    /\ fault \in BOOLEAN /\ ahead \in Nat

IInv == /\ OwnerTypes /\ IntakeTypes /\ QueueTypes /\ WorkerTypes /\ ResultTypes
        /\ Agree /\ Placed /\ Counted /\ InState /\ CutOff /\ Current /\ AtWork /\ Behind /\ Heard

-----------------------------------------------------------------------------
(* The number of samples queued (Samples, m_queuedSamples)                 *)

(* A non-empty set of numbers has a least one.                             *)
LEMMA LeastExists ==
    ASSUME NEW T, T \subseteq Nat, T # {}
    PROVE  \E x \in T : \A y \in T : x <= y
<1>1. OpToRel(<, Nat) = {p \in Nat \X Nat : p[1] < p[2]}
  BY DEF OpToRel
<1>2. IsWellFoundedOn({p \in Nat \X Nat : p[1] < p[2]}, Nat)
  BY <1>1, NatLessThanWellFounded
<1>3. PICK x \in T : \A y \in T : <<y, x>> \notin {p \in Nat \X Nat : p[1] < p[2]}
  BY <1>2, WFMin
<1>4. ASSUME NEW y \in T, ~(x <= y) PROVE FALSE
  <2>1. y \in Nat /\ x \in Nat /\ y < x
    BY <1>4
  <2>2. <<y, x>> \in {p \in Nat \X Nat : p[1] < p[2]}
    BY <2>1
  <2>3. QED
    BY <1>3, <2>2
<1>5. QED
  BY <1>4

(* Sums(f, s): f is the table of the samples in the first i blocks of s.   *)
Sums(f, s) == f = [i \in 0 .. Len(s) |-> IF i = 0 THEN 0 ELSE f[i - 1] + s[i].size]

Partial(s) == CHOOSE f : Sums(f, s)

LEMMA SamplesIsASum == \A s : Samples(s) = Partial(s)[Len(s)]
BY DEF Samples, Sums, Partial

(* Two tables that grow alike keep their distance.                         *)
GrowAlike(f, g, n) ==
    \A i \in 1 .. n : \E d \in Int : f[i] = f[i - 1] + d /\ g[i] = g[i - 1] + d

Apart(f, g, c, n) == \A i \in 0 .. n : g[i] \in Int /\ f[i] = g[i] + c

LEMMA SameGrowth ==
    ASSUME NEW n \in Nat, NEW f, NEW g, NEW c \in Int, Apart(f, g, c, 0), GrowAlike(f, g, n)
    PROVE  Apart(f, g, c, n)
<1> DEFINE Off == {i \in 0 .. n : ~(g[i] \in Int /\ f[i] = g[i] + c)}
<1>1. ASSUME Off # {} PROVE FALSE
  <2>1. Off \subseteq Nat
    OBVIOUS
  <2>2. PICK i \in Off : \A j \in Off : i <= j
    BY <1>1, <2>1, LeastExists
  <2>3. i \in 1 .. n
    <3>1. i # 0
      BY DEF Apart
    <3>2. QED
      BY <3>1
  <2>4. i - 1 \in 0 .. n /\ i - 1 \notin Off
    BY <2>2, <2>3
  <2>5. g[i - 1] \in Int /\ f[i - 1] = g[i - 1] + c
    BY <2>4
  <2>6. PICK d \in Int : f[i] = f[i - 1] + d /\ g[i] = g[i - 1] + d
    BY <2>3 DEF GrowAlike
  <2>7. QED
    BY <2>5, <2>6
<1>2. QED
  BY <1>1 DEF Apart

(* There is such a table for every sequence of blocks, since a shortest     *)
(* prefix without one would be one block longer than a prefix with one.     *)
LEMMA SizesArePositive == \A size \in Sizes : size \in Nat /\ 1 <= size /\ size <= MaximumSamples
<1> SUFFICES ASSUME NEW size \in Sizes
             PROVE  size \in Nat /\ 1 <= size /\ size <= MaximumSamples
  OBVIOUS
<1>1. size \in 1 .. MaximumSamples
  BY RxAssumption
<1>2. MaximumSamples \in Nat
  BY RxAssumption
<1>3. QED
  BY <1>1, <1>2

LEMMA SizesAreNumbers == \A s \in Seq(Block) : \A i \in 1 .. Len(s) : s[i].size \in Nat
<1> SUFFICES ASSUME NEW s \in Seq(Block), NEW i \in 1 .. Len(s) PROVE s[i].size \in Nat
  OBVIOUS
<1>1. s[i] \in Block
  OBVIOUS
<1>2. s[i].size \in Sizes
  BY <1>1 DEF Block
<1>3. QED
  BY <1>2, SizesArePositive

LEMMA TableExists ==
    ASSUME NEW s \in Seq(Block)
    PROVE  \E f : Sums(f, s)
<1> DEFINE IsTable(f, n) == /\ f = [i \in 0 .. n |-> f[i]]
                            /\ f[0] = 0 /\ \A i \in 1 .. n : f[i] = f[i - 1] + s[i].size
           Without == {n \in 0 .. Len(s) : ~ \E f : IsTable(f, n)}
<1>1. Len(s) \in Nat
  OBVIOUS
<1>2. ASSUME Without # {} PROVE FALSE
  <2>1. Without \subseteq Nat
    BY <1>1
  <2>2. PICK n \in Without : \A m \in Without : n <= m
    BY <1>2, <2>1, LeastExists
  <2>3. n # 0
    <3>1. IsTable([i \in 0 .. 0 |-> 0], 0)
      OBVIOUS
    <3>2. QED
      BY <3>1
  <2>4. n - 1 \in 0 .. Len(s) /\ n - 1 \notin Without
    BY <1>1, <2>2, <2>3
  <2>5. PICK f : IsTable(f, n - 1)
    BY <2>4
  <2> DEFINE g == [i \in 0 .. n |-> IF i = n THEN f[n - 1] + s[n].size ELSE f[i]]
  <2>6. n \in Nat
    BY <1>1
  <2>7. \A i \in 0 .. n : g[i] = IF i = n THEN f[n - 1] + s[n].size ELSE f[i]
    OBVIOUS
  <2>8. g = [i \in 0 .. n |-> g[i]]
    OBVIOUS
  <2>9. g[0] = 0
    BY <2>3, <2>5, <2>6
  <2>10. \A i \in 1 .. n : g[i] = g[i - 1] + s[i].size
    <3> HIDE DEF g
    <3> SUFFICES ASSUME NEW i \in 1 .. n PROVE g[i] = g[i - 1] + s[i].size
      OBVIOUS
    <3>1. g[i - 1] = f[i - 1]
      BY <2>6, <2>7
    <3>2. CASE i = n
      BY <2>6, <2>7, <3>1, <3>2
    <3>3. CASE i # n
      <4>1. g[i] = f[i] /\ i \in 1 .. n - 1
        BY <2>6, <2>7, <3>3
      <4>2. QED
        BY <2>5, <3>1, <4>1
    <3>4. QED
      BY <3>2, <3>3
  <2>11. IsTable(g, n)
    BY <2>8, <2>9, <2>10
  <2>12. QED
    BY <2>11
<1>3. PICK f : IsTable(f, Len(s))
  BY <1>1, <1>2
<1>4. \A i \in 0 .. Len(s) : f[i] = IF i = 0 THEN 0 ELSE f[i - 1] + s[i].size
  <2> SUFFICES ASSUME NEW i \in 0 .. Len(s)
               PROVE  f[i] = IF i = 0 THEN 0 ELSE f[i - 1] + s[i].size
    OBVIOUS
  <2>1. i = 0 \/ i \in 1 .. Len(s)
    BY <1>1
  <2>2. QED
    BY <1>3, <2>1
<1>5. f = [i \in 0 .. Len(s) |-> IF i = 0 THEN 0 ELSE f[i - 1] + s[i].size]
  BY <1>3, <1>4
<1>6. QED
  BY <1>5 DEF Sums

LEMMA PartialSums ==
    ASSUME NEW s \in Seq(Block)
    PROVE  /\ Partial(s)[0] = 0
           /\ \A i \in 1 .. Len(s) : Partial(s)[i] = Partial(s)[i - 1] + s[i].size
<1>1. Sums(Partial(s), s)
  BY TableExists DEF Partial
<1>2. QED
  BY <1>1 DEF Sums

LEMMA PartialSumsAreNumbers ==
    ASSUME NEW s \in Seq(Block)
    PROVE  \A i \in 0 .. Len(s) : Partial(s)[i] \in Int
<1> DEFINE f == Partial(s)
<1>1. Len(s) \in Nat
  OBVIOUS
<1>2. f[0] = 0 /\ \A i \in 1 .. Len(s) : f[i] = f[i - 1] + s[i].size
  BY PartialSums
<1> HIDE DEF f
<1>3. GrowAlike(f, f, Len(s))
  <2> SUFFICES ASSUME NEW i \in 1 .. Len(s)
               PROVE  \E d \in Int : f[i] = f[i - 1] + d
    BY DEF GrowAlike
  <2>1. s[i].size \in Int
    BY SizesAreNumbers
  <2> QED BY <1>2, <2>1
<1>4. Apart(f, f, 0, 0) /\ 0 \in Int
  BY <1>2 DEF Apart
<1>5. Apart(f, f, 0, Len(s))
  BY <1>1, <1>3, <1>4, SameGrowth
<1>6. QED
  BY <1>5 DEF f, Apart

LEMMA SamplesOfNone == Samples(<<>>) = 0
<1>1. <<>> \in Seq(Block) /\ Len(<<>>) = 0
  OBVIOUS
<1>2. QED
  BY <1>1, PartialSums, SamplesIsASum

LEMMA SamplesAreNumbers ==
    ASSUME NEW s \in Seq(Block)
    PROVE  Samples(s) \in Int
<1>1. Len(s) \in 0 .. Len(s)
  OBVIOUS
<1>2. QED
  BY <1>1, PartialSumsAreNumbers, SamplesIsASum

(* What push adds to m_queuedSamples, ...                                   *)
LEMMA SamplesAppended ==
    ASSUME NEW s \in Seq(Block), NEW b \in Block
    PROVE  Samples(Append(s, b)) = Samples(s) + b.size
<1> DEFINE t == Append(s, b)
           f == Partial(t)
           g == Partial(s)
<1>1. Len(s) \in Nat /\ t \in Seq(Block) /\ Len(t) = Len(s) + 1
  OBVIOUS
<1>2. \A i \in 1 .. Len(s) : t[i] = s[i]
  OBVIOUS
<1>3. t[Len(s) + 1] = b
  OBVIOUS
<1> HIDE DEF t
<1>4. f[0] = 0 /\ \A i \in 1 .. Len(t) : f[i] = f[i - 1] + t[i].size
  BY <1>1, PartialSums
<1>5. g[0] = 0 /\ \A i \in 1 .. Len(s) : g[i] = g[i - 1] + s[i].size
  BY PartialSums
<1> HIDE DEF f, g
<1>6. GrowAlike(f, g, Len(s))
  <2> SUFFICES ASSUME NEW i \in 1 .. Len(s)
               PROVE  \E d \in Int : f[i] = f[i - 1] + d /\ g[i] = g[i - 1] + d
    BY DEF GrowAlike
  <2>1. s[i].size \in Int
    BY SizesAreNumbers
  <2>2. f[i] = f[i - 1] + s[i].size
    BY <1>1, <1>2, <1>4
  <2>3. g[i] = g[i - 1] + s[i].size
    BY <1>5
  <2>4. QED
    BY <2>1, <2>2, <2>3
<1>7. Apart(f, g, 0, 0) /\ 0 \in Int
  BY <1>4, <1>5 DEF Apart
<1>8. Apart(f, g, 0, Len(s))
  BY <1>1, <1>6, <1>7, SameGrowth
<1>9. g[Len(s)] \in Int /\ f[Len(s)] = g[Len(s)]
  <2>1. Len(s) \in 0 .. Len(s)
    BY <1>1
  <2>2. g[Len(s)] \in Int /\ f[Len(s)] = g[Len(s)] + 0
    BY <1>8, <2>1 DEF Apart
  <2>3. QED
    BY <2>2
<1>10. f[Len(s) + 1] = f[Len(s)] + b.size
  <2>1. Len(s) + 1 \in 1 .. Len(t) /\ (Len(s) + 1) - 1 = Len(s)
    BY <1>1
  <2>2. QED
    BY <1>3, <1>4, <2>1
<1>11. Samples(t) = f[Len(s) + 1] /\ Samples(s) = g[Len(s)]
  BY <1>1, SamplesIsASum DEF f, g
<1>12. QED
  BY <1>9, <1>10, <1>11 DEF t

(* ... and what popLocked takes from it.                                    *)
LEMMA SamplesOfTail ==
    ASSUME NEW s \in Seq(Block), s # <<>>
    PROVE  Samples(s) = Samples(Tail(s)) + Head(s).size
<1> DEFINE t == Tail(s)
           f == Partial(s)
           g == Partial(t)
           h == [i \in 0 .. Len(t) |-> f[i + 1]]
           c == Head(s).size
<1>1. Len(s) \in Nat /\ t \in Seq(Block) /\ Len(s) = Len(t) + 1 /\ Len(t) \in Nat
  OBVIOUS
<1>2. \A i \in 1 .. Len(t) : t[i] = s[i + 1]
  OBVIOUS
<1>3. Head(s) = s[1] /\ c \in Int
  BY <1>1, SizesAreNumbers
<1> HIDE DEF t
<1>4. f[0] = 0 /\ \A i \in 1 .. Len(s) : f[i] = f[i - 1] + s[i].size
  BY PartialSums
<1>5. g[0] = 0 /\ \A i \in 1 .. Len(t) : g[i] = g[i - 1] + t[i].size
  BY <1>1, PartialSums
<1> HIDE DEF f, g
<1>6. \A i \in 0 .. Len(t) : h[i] = f[i + 1]
  OBVIOUS
<1> HIDE DEF h
<1>7. h[0] = g[0] + c
  <2>1. f[1] = f[0] + s[1].size
    BY <1>1, <1>4
  <2>2. h[0] = f[1]
    BY <1>1, <1>6
  <2>3. QED
    BY <1>3, <1>4, <1>5, <2>1, <2>2
<1>8. GrowAlike(h, g, Len(t))
  <2> SUFFICES ASSUME NEW i \in 1 .. Len(t)
               PROVE  \E d \in Int : h[i] = h[i - 1] + d /\ g[i] = g[i - 1] + d
    BY DEF GrowAlike
  <2>1. t[i].size \in Int
    BY <1>1, SizesAreNumbers
  <2>2. h[i] = f[i + 1] /\ h[i - 1] = f[i]
    BY <1>1, <1>6
  <2>3. f[i + 1] = f[i] + s[i + 1].size
    <3>1. i + 1 \in 1 .. Len(s) /\ (i + 1) - 1 = i
      BY <1>1
    <3>2. QED
      BY <1>4, <3>1
  <2>4. g[i] = g[i - 1] + t[i].size
    BY <1>5
  <2>5. QED
    BY <1>2, <2>1, <2>2, <2>3, <2>4
<1>9. Apart(h, g, c, 0)
  BY <1>3, <1>5, <1>7 DEF Apart
<1> HIDE DEF c
<1>10. Apart(h, g, c, Len(t))
  BY <1>1, <1>3, <1>8, <1>9, SameGrowth
<1>11. f[Len(t) + 1] = g[Len(t)] + c
  <2>1. Len(t) \in 0 .. Len(t)
    BY <1>1
  <2>2. QED
    BY <1>6, <1>10, <2>1 DEF Apart
<1>12. Samples(s) = f[Len(t) + 1] /\ Samples(t) = g[Len(t)]
  BY <1>1, SamplesIsASum DEF f, g
<1>13. QED
  BY <1>11, <1>12 DEF t, c

(* dropOldestLocked ends with room for the new block: nothing is in the way *)
(* of a block that is alone.                                               *)
LEMMA RoomIsMade ==
    ASSUME NEW s \in Seq(Block), NEW size \in Sizes
    PROVE  \E k \in 0 .. Len(s) :
             /\ MakeRoom(s, size) = SubSeq(s, k + 1, Len(s))
             /\ Len(s) - k < MaximumChunks
             /\ Samples(MakeRoom(s, size)) + size <= MaximumSamples
<1> DEFINE Fits(i) == /\ Len(s) - i < MaximumChunks
                      /\ Samples(SubSeq(s, i + 1, Len(s))) + size <= MaximumSamples
           First(i) == Fits(i) /\ \A j \in 0 .. i - 1 : ~Fits(j)
           k == CHOOSE i \in 0 .. Len(s) : First(i)
           Fitting == {i \in 0 .. Len(s) : Fits(i)}
<1>1. Len(s) \in Nat /\ Len(s) \in 0 .. Len(s)
  OBVIOUS
<1>2. Fits(Len(s))
  <2>1. SubSeq(s, Len(s) + 1, Len(s)) = <<>>
    BY <1>1, SubSeqEmpty
  <2>2. size <= MaximumSamples /\ size \in Nat /\ MaximumChunks \in Nat \ {0}
    BY RxAssumption, SizesArePositive
  <2>3. Samples(SubSeq(s, Len(s) + 1, Len(s))) + size = size
    <3>1. Samples(SubSeq(s, Len(s) + 1, Len(s))) = 0
      BY <2>1, SamplesOfNone, Zenon
    <3>2. QED
      BY <2>2, <3>1
  <2>4. Len(s) - Len(s) < MaximumChunks
    BY <1>1, <2>2
  <2>5. QED
    BY <2>2, <2>3, <2>4
<1> HIDE DEF Fits
<1>3. Fitting # {} /\ Fitting \subseteq Nat
  BY <1>1, <1>2
<1>4. PICK i \in Fitting : \A j \in Fitting : i <= j
  BY <1>3, LeastExists
<1>5. First(i) /\ i \in 0 .. Len(s)
  <2>1. ASSUME NEW j \in 0 .. i - 1, Fits(j) PROVE FALSE
    <3>1. j \in Fitting
      BY <1>1, <2>1
    <3>2. QED
      BY <1>4, <3>1
  <2>2. QED
    BY <2>1
<1> HIDE DEF First
<1>6. k \in 0 .. Len(s) /\ First(k)
  BY <1>5
<1>7. MakeRoom(s, size) = SubSeq(s, k + 1, Len(s))
  BY DEF MakeRoom, First, Fits
<1> HIDE DEF k
<1>8. QED
  BY <1>6, <1>7 DEF First, Fits

-----------------------------------------------------------------------------
(* What the invariant says of single values                                *)

LEMMA Numbers ==
    ASSUME IInv
    PROVE  /\ calls \in Nat /\ gen \in Nat /\ epoch \in Nat /\ Calls \in Nat /\ Blocks \in Nat
           /\ calls <= Calls /\ gen <= calls /\ epoch <= 2 * calls
<1>1. calls \in 0 .. Calls /\ gen \in 0 .. Calls /\ epoch \in 0 .. 2 * Calls
  BY DEF IInv, OwnerTypes, IntakeTypes, Generations
<1>2. Calls \in Nat /\ Blocks \in Nat
  BY RxAssumption
<1>3. gen <= calls /\ epoch <= 2 * calls
  BY DEF IInv, Counted
<1>4. QED
  BY <1>1, <1>2, <1>3

LEMMA HandIsABlock ==
    ASSUME IInv, hand # None
    PROVE  hand \in Block /\ hand.gen \in Nat /\ 1 <= hand.gen
<1>1. hand \in Block
  BY DEF IInv, WorkerTypes
<1>2. hand.gen \in (0 .. Calls) \ {0} /\ Calls \in Nat
  BY <1>1, RxAssumption DEF Block, Generations
<1>3. QED
  BY <1>1, <1>2

LEMMA EmptyQueue ==
    /\ <<>> \in Seq(Block) /\ Len(<<>>) <= MaximumChunks /\ Samples(<<>>) <= MaximumSamples
BY RxAssumption, SamplesOfNone

LEMMA NewBlockIsOne ==
    ASSUME IInv, NEW token \in 1 .. gen, NEW size \in Sizes, next < Blocks
    PROVE  [gen |-> token, seq |-> next, size |-> size] \in Block
<1>1. token \in (0 .. Calls) \ {0}
  BY Numbers
<1>2. next \in 0 .. Blocks - 1
  <2>1. next \in 0 .. Blocks
    BY DEF IInv, IntakeTypes
  <2>2. QED
    BY <2>1, Numbers
<1>3. QED
  BY <1>1, <1>2 DEF Block, Generations

(* What is left of a queue whose first k blocks were dropped.               *)
LEMMA Remainder ==
    ASSUME NEW s \in Seq(Block), NEW k \in 0 .. Len(s)
    PROVE  LET r == SubSeq(s, k + 1, Len(s))
           IN /\ r \in Seq(Block) /\ Len(r) = Len(s) - k
              /\ \A i \in 1 .. Len(r) : r[i] = s[k + i]
<1>1. Len(s) \in Nat
  OBVIOUS
<1>2. \A i \in k + 1 .. Len(s) : s[i] \in Block
  <2>1. \A i \in k + 1 .. Len(s) : i \in 1 .. Len(s)
    BY <1>1
  <2>2. \A i \in 1 .. Len(s) : s[i] \in Block
    OBVIOUS
  <2>3. QED
    BY <2>1, <2>2
<1> DEFINE r == SubSeq(s, k + 1, Len(s))
<1>3. /\ r \in Seq(Block)
      /\ Len(r) = IF k + 1 <= Len(s) THEN Len(s) - (k + 1) + 1 ELSE 0
      /\ \A i \in 1 .. Len(s) - (k + 1) + 1 : r[i] = s[(k + 1) + i - 1]
  BY <1>1, <1>2, SubSeqProperties
<1> HIDE DEF r
<1>4. Len(r) = Len(s) - k
  BY <1>1, <1>3
<1>5. \A i \in 1 .. Len(r) : r[i] = s[k + i]
  <2> SUFFICES ASSUME NEW i \in 1 .. Len(r) PROVE r[i] = s[k + i]
    OBVIOUS
  <2>1. i \in 1 .. Len(s) - (k + 1) + 1 /\ (k + 1) + i - 1 = k + i
    BY <1>1, <1>4
  <2>2. QED
    BY <1>3, <2>1
<1>6. QED
  BY <1>3, <1>4, <1>5 DEF r

LEMMA TailIsQueued ==
    ASSUME QueueTypes, queue # <<>>
    PROVE  /\ Tail(queue) \in Seq(Block) /\ Len(Tail(queue)) <= MaximumChunks
           /\ Samples(Tail(queue)) <= MaximumSamples
<1>1. queue \in Seq(Block) /\ Len(queue) <= MaximumChunks /\ Samples(queue) <= MaximumSamples
  BY DEF QueueTypes
<1>2. Tail(queue) \in Seq(Block) /\ Len(Tail(queue)) = Len(queue) - 1 /\ Len(queue) \in Nat
  BY <1>1
<1>3. Head(queue).size \in Nat
  <2>1. Head(queue) = queue[1] /\ 1 \in 1 .. Len(queue)
    BY <1>1
  <2>2. QED
    BY <1>1, <2>1, SizesAreNumbers
<1>4. Samples(queue) = Samples(Tail(queue)) + Head(queue).size
  BY <1>1, SamplesOfTail
<1>5. Samples(Tail(queue)) \in Int
  BY <1>2, SamplesAreNumbers
<1>6. MaximumChunks \in Nat /\ MaximumSamples \in Nat
  BY RxAssumption
<1>7. Len(Tail(queue)) <= MaximumChunks
  BY <1>1, <1>2, <1>6
<1>8. Samples(Tail(queue)) <= MaximumSamples
  BY <1>1, <1>3, <1>4, <1>5, <1>6
<1>9. QED
  BY <1>2, <1>7, <1>8

-----------------------------------------------------------------------------
(* Every action keeps the invariant.                                       *)

LEMMA StartKeeps ==
    ASSUME IInv, Start
    PROVE  IInv'
<1>1. OwnerTypes'
  <2>1. calls' = calls + 1 /\ calls < Calls /\ route' = gen + 1 /\ stop' = FALSE /\ state' = "Running"
    BY DEF Start, NewGeneration
  <2>2. calls' \in 0 .. Calls /\ route' \in 0 .. Calls
    BY <2>1, Numbers
  <2>3. QED
    BY <2>1, <2>2 DEF IInv, OwnerTypes, Generations, Start
<1>2. IntakeTypes'
  <2>1. calls < Calls /\ ingress' = "Active" /\ gen' = gen + 1 /\ next' = 0 /\ cancelled' = FALSE
           /\ epoch' = epoch + 1
    BY DEF Start, NewGeneration
  <2>2. gen' \in 0 .. Calls /\ next' \in 0 .. Blocks /\ epoch' \in 0 .. 2 * Calls
    BY <2>1, Numbers
  <2>3. QED
    BY <2>1, <2>2 DEF IntakeTypes, Generations
<1>3. QueueTypes'
  BY EmptyQueue DEF QueueTypes, Start, NewGeneration
<1>4. WorkerTypes'
  BY RxAssumption DEF IInv, WorkerTypes, IntakeTypes, AtWork, OwnerTypes, Counted,
         Start, NewGeneration, At, Generations
<1>5. ResultTypes'
  BY RxAssumption DEF IInv, ResultTypes, WorkerTypes, AtWork, IntakeTypes, Heard,
         Start, NewGeneration, At, Generations, Live, None, Block
<1>6. Agree'
  BY RxAssumption DEF IInv, Agree, InState, CutOff, Placed, OwnerTypes, AtWork, Start,
         NewGeneration, At, Ending, Afterwards, Sources
<1>7. Counted'
  <2>1. calls' = calls + 1 /\ gen' = gen + 1 /\ epoch' = epoch + 1 /\ op = "none" /\ at' = at
    BY DEF Start, NewGeneration
  <2>2. at = "-"
    BY <2>1 DEF IInv, Placed
  <2>3. gen' <= calls' /\ epoch' <= 2 * calls'
    BY <2>1, Numbers
  <2>4. QED
    BY <2>1, <2>2, <2>3 DEF Counted
<1>8. InState'
  BY RxAssumption DEF IInv, InState, Placed, OwnerTypes, Agree, WorkerTypes, Start,
         NewGeneration, At, Ending, Sources
<1>9. CutOff'
  BY RxAssumption DEF IInv, CutOff, Placed, OwnerTypes, InState, Agree, Current,
         IntakeTypes, Start, NewGeneration, At, Afterwards, Sources, Ending
<1>10. Current'
  BY RxAssumption DEF IInv, Current, Start, NewGeneration, At
<1>11. AtWork'
  BY RxAssumption DEF IInv, AtWork, WorkerTypes, IntakeTypes, OwnerTypes, Counted,
         Start, NewGeneration, At, Waits, Live, None, Generations
<1>12. Behind'
  BY RxAssumption DEF IInv, Behind, WorkerTypes, OwnerTypes, Placed, InState, AtWork,
         ResultTypes, Start, NewGeneration, At, Waits
<1>13./\ Placed' /\ Heard'
  BY DEF IInv, Placed, Heard, Start
<1>14. QED
  BY <1>1, <1>2, <1>3, <1>4, <1>5, <1>6, <1>7, <1>8, <1>9, <1>10, <1>11, <1>12, <1>13 DEF IInv

LEMMA StartFailsKeeps ==
    ASSUME IInv, StartFails
    PROVE  IInv'
<1>1. OwnerTypes'
  BY RxAssumption DEF IInv, OwnerTypes, IntakeTypes, Counted, StartFails, worker,
         Generations
<1>2. IntakeTypes'
  BY RxAssumption DEF IInv, IntakeTypes, OwnerTypes, Counted, StartFails, worker,
         Generations
<1>3. QueueTypes'
  BY EmptyQueue DEF QueueTypes, StartFails
<1>4. ResultTypes'
  BY RxAssumption DEF IInv, ResultTypes, WorkerTypes, AtWork, IntakeTypes, Heard,
         StartFails, worker, Generations, Live, None, Block
<1>5. Agree'
  BY RxAssumption DEF IInv, Agree, InState, CutOff, Placed, OwnerTypes, AtWork,
         StartFails, worker, Ending, Afterwards, Sources
<1>6. Counted'
  <2>1. calls' = calls + 1 /\ gen' = gen + 1 /\ epoch' = epoch + 2 /\ op = "none" /\ at' = at
    BY DEF StartFails
  <2>2. at = "-"
    BY <2>1 DEF IInv, Placed
  <2>3. gen' <= calls' /\ epoch' <= 2 * calls'
    BY <2>1, Numbers
  <2>4. QED
    BY <2>1, <2>2, <2>3 DEF Counted
<1>7. InState'
  BY RxAssumption DEF IInv, InState, Placed, OwnerTypes, Agree, WorkerTypes,
         StartFails, worker, Ending, Sources
<1>8. CutOff'
  BY RxAssumption DEF IInv, CutOff, Placed, OwnerTypes, InState, Agree, Current,
         IntakeTypes, StartFails, worker, Afterwards, Sources, Ending
<1>9. Current'
  BY RxAssumption DEF IInv, Current, StartFails, worker
<1>10. AtWork'
  BY RxAssumption DEF IInv, AtWork, WorkerTypes, IntakeTypes, OwnerTypes, Counted,
         StartFails, worker, Waits, Live, None, Generations
<1>11./\ WorkerTypes' /\ Placed' /\ Behind' /\ Heard'
  BY DEF IInv, WorkerTypes, Placed, Behind, Heard, StartFails, worker
<1>12. QED
  BY <1>1, <1>2, <1>3, <1>4, <1>5, <1>6, <1>7, <1>8, <1>9, <1>10, <1>11 DEF IInv

LEMMA CallKeeps ==
    ASSUME NEW o \in {"switch", "reset", "cancel", "restart", "stop", "shutdown"}, IInv, Call(o)
    PROVE  IInv'
<1>1. OwnerTypes'
  <2>1. calls' = calls + 1 /\ calls < Calls
    BY DEF Call
  <2>2. calls' \in 0 .. Calls
    BY <2>1, Numbers
  <2>3. QED
    BY <2>2 DEF IInv, OwnerTypes, Call
<1>2. Agree'
  BY RxAssumption DEF IInv, Agree, InState, CutOff, Placed, OwnerTypes, AtWork, Call,
         MayCall, Ending, intake, worker, results, Afterwards, Sources
<1>3. Placed'
  BY RxAssumption DEF IInv, Placed, OwnerTypes, Call, MayCall, Ending, intake, worker,
         results
<1>4. Counted'
  <2>1. calls' = calls + 1 /\ gen' = gen /\ epoch' = epoch
    BY DEF Call, intake
  <2>2. gen' < calls' /\ epoch' < 2 * calls'
    BY <2>1, Numbers
  <2>3. gen' <= calls' /\ epoch' <= 2 * calls'
    BY <2>1, Numbers
  <2>4. QED
    BY <2>2, <2>3 DEF Counted
<1>5. InState'
  BY RxAssumption DEF IInv, InState, Placed, OwnerTypes, Agree, WorkerTypes, Call,
         MayCall, Ending, intake, worker, results, Sources
<1>6. CutOff'
  BY RxAssumption DEF IInv, CutOff, Placed, OwnerTypes, InState, Agree, Current,
         IntakeTypes, Call, MayCall, Ending, intake, worker, results, Afterwards,
         Sources
<1>7./\ IntakeTypes' /\ QueueTypes' /\ WorkerTypes' /\ ResultTypes' /\ Current' /\ AtWork' /\ Behind' /\ Heard'
  BY DEF IInv, IntakeTypes, QueueTypes, WorkerTypes, ResultTypes, Current, AtWork,
         Behind, Heard, Call, intake, worker, results, Live
<1>8. QED
  BY <1>1, <1>2, <1>3, <1>4, <1>5, <1>6, <1>7 DEF IInv

LEMMA RequestKeeps ==
    ASSUME IInv, Request
    PROVE  IInv'
<1>1. OwnerTypes'
  BY RxAssumption DEF IInv, OwnerTypes, IntakeTypes, Counted, Request,
         NotifyControlWaiters, Notify, intake, results, Generations
<1>2. WorkerTypes'
  BY RxAssumption DEF IInv, WorkerTypes, IntakeTypes, AtWork, OwnerTypes, Counted,
         Request, NotifyControlWaiters, Notify, intake, results, Generations
<1>3. ResultTypes'
  BY RxAssumption DEF IInv, ResultTypes, WorkerTypes, AtWork, IntakeTypes, Heard,
         Request, NotifyControlWaiters, Notify, intake, results, Generations, Live,
         None, Block
<1>4. Placed'
  BY RxAssumption DEF IInv, Placed, OwnerTypes, Request, NotifyControlWaiters, Notify,
         intake, results, Ending
<1>5. Counted'
  BY RxAssumption DEF IInv, Counted, Placed, OwnerTypes, IntakeTypes, Request,
         NotifyControlWaiters, Notify, intake, results
<1>6. InState'
  BY RxAssumption DEF IInv, InState, Placed, OwnerTypes, Agree, WorkerTypes, Request,
         NotifyControlWaiters, Notify, intake, results, Ending, Sources
<1>7. CutOff'
  BY RxAssumption DEF IInv, CutOff, Placed, OwnerTypes, InState, Agree, Current,
         IntakeTypes, Request, NotifyControlWaiters, Notify, intake, results,
         Afterwards, Sources, Ending
<1>8. Behind'
  BY RxAssumption DEF IInv, Behind, WorkerTypes, OwnerTypes, Placed, InState, AtWork,
         ResultTypes, Request, NotifyControlWaiters, Notify, intake, results, Waits
<1>9./\ IntakeTypes' /\ QueueTypes' /\ Agree' /\ Current' /\ AtWork' /\ Heard'
  BY DEF IInv, IntakeTypes, QueueTypes, Agree, Current, AtWork, Heard, Request, intake,
         results, Live
<1>10. QED
  BY <1>1, <1>2, <1>3, <1>4, <1>5, <1>6, <1>7, <1>8, <1>9 DEF IInv

LEMMA CutKeeps ==
    ASSUME IInv, Cut
    PROVE  IInv'
<1>1. OwnerTypes'
  BY RxAssumption DEF IInv, OwnerTypes, IntakeTypes, Counted, Cut, NewGeneration,
         Close, Notify, BoundaryHeld, intake, Generations
<1>2. IntakeTypes'
  <2>1. gen < calls /\ epoch < 2 * calls
    BY DEF IInv, Counted, Cut
  <2>2. CASE NewGeneration
    <3>1. gen + 1 \in 0 .. Calls /\ 0 \in 0 .. Blocks /\ epoch + 1 \in 0 .. 2 * Calls
      BY <2>1, Numbers
    <3>2. QED
      BY <2>2, <3>1 DEF NewGeneration, IntakeTypes, Generations
  <2>3. ASSUME NEW closed \in {"Cancelled", "Inactive", "Shutdown"}, Close(closed)
        PROVE  IntakeTypes'
    <3>1. 0 \in 0 .. Blocks /\ epoch + 1 \in 0 .. 2 * Calls
      BY <2>1, Numbers
    <3>2. QED
      BY <2>3, <3>1 DEF Close, IInv, IntakeTypes
  <2>4. CASE UNCHANGED intake
    BY <2>4 DEF IInv, IntakeTypes, intake
  <2>5. QED
    BY <2>2, <2>3, <2>4 DEF Cut
<1>3. QueueTypes'
  <2>1. queue' = <<>> \/ queue' = queue
    BY DEF Cut, NewGeneration, Close, intake
  <2>2. QED
    BY <2>1, EmptyQueue DEF IInv, QueueTypes
<1>4. WorkerTypes'
  BY RxAssumption DEF IInv, WorkerTypes, IntakeTypes, AtWork, OwnerTypes, Counted, Cut,
         NewGeneration, Close, Notify, BoundaryHeld, intake, Generations
<1>5. ResultTypes'
  BY RxAssumption DEF IInv, ResultTypes, WorkerTypes, AtWork, IntakeTypes, Heard, Cut,
         NewGeneration, Close, Notify, BoundaryHeld, intake, Generations, Live, None,
         Block
<1>6. Agree'
  BY RxAssumption DEF IInv, Agree, InState, CutOff, Placed, OwnerTypes, AtWork, Cut,
         NewGeneration, Close, Notify, BoundaryHeld, intake, Ending, Afterwards,
         Sources
<1>7. Placed'
  BY RxAssumption DEF IInv, Placed, OwnerTypes, Cut, NewGeneration, Close, Notify,
         BoundaryHeld, intake, Ending
<1>8. Counted'
  <2>1. gen < calls /\ epoch < 2 * calls
    BY DEF IInv, Counted, Cut
  <2>2. gen' \in {gen, gen + 1} /\ epoch' \in {epoch, epoch + 1} /\ calls' = calls /\ at' = "release"
    BY DEF Cut, NewGeneration, Close, intake
  <2>3. gen' <= calls' /\ epoch' <= 2 * calls'
    BY <2>1, <2>2, Numbers
  <2>4. QED
    BY <2>2, <2>3 DEF Counted
<1>9. InState'
  BY RxAssumption DEF IInv, InState, Placed, OwnerTypes, Agree, WorkerTypes, Cut,
         NewGeneration, Close, Notify, BoundaryHeld, intake, Ending, Sources
<1>10. CutOff'
  BY RxAssumption DEF IInv, CutOff, Placed, OwnerTypes, InState, Agree, Current,
         IntakeTypes, Cut, NewGeneration, Close, Notify, BoundaryHeld, intake,
         Afterwards, Sources, Ending
<1>11. Current'
  BY RxAssumption DEF IInv, Current, Cut, NewGeneration, Close, Notify, BoundaryHeld,
         intake
<1>12. AtWork'
  <2>1. w.at \notin {"terminating", "clearing", "decoding"} /\ w' = w /\ hand' = hand /\ seen' = seen
    BY DEF Cut, BoundaryHeld
  <2>2. gen' \in {gen, gen + 1}
    BY DEF Cut, NewGeneration, Close, intake
  <2>3. hand # None => hand.gen <= gen'
    <3>1. hand # None => hand.gen \in Nat /\ hand.gen <= gen /\ gen \in Nat
      BY Numbers, HandIsABlock DEF IInv, AtWork
    <3>2. QED
      BY <2>2, <3>1
  <2>4. QED
    BY <2>1, <2>3 DEF IInv, AtWork, Waits
<1>13./\ Behind' /\ Heard'
  BY DEF IInv, Behind, Heard, Cut, intake
<1>14. QED
  BY <1>1, <1>2, <1>3, <1>4, <1>5, <1>6, <1>7, <1>8, <1>9, <1>10, <1>11, <1>12, <1>13 DEF IInv

LEMMA ReleaseKeeps ==
    ASSUME IInv, Release
    PROVE  IInv'
<1>1. OwnerTypes'
  BY RxAssumption DEF IInv, OwnerTypes, IntakeTypes, Counted, Release,
         NotifyControlWaiters, Notify, Ending, intake, results, Generations
<1>2. WorkerTypes'
  BY RxAssumption DEF IInv, WorkerTypes, IntakeTypes, AtWork, OwnerTypes, Counted,
         Release, NotifyControlWaiters, Notify, Ending, intake, results, Generations
<1>3. Placed'
  BY RxAssumption DEF IInv, Placed, OwnerTypes, Release, NotifyControlWaiters, Notify,
         Ending, intake, results
<1>4. Counted'
  BY RxAssumption DEF IInv, Counted, Placed, OwnerTypes, IntakeTypes, Release,
         NotifyControlWaiters, Notify, Ending, intake, results
<1>5. InState'
  <2>1. op \in Sources => op \notin Ending \cup {"none", "cancel"}
    BY DEF Sources, Ending
  <2>2. op' = op /\ state' = state /\ w' = w
    BY DEF Release
  <2>3. at' = "notify" => op \in Ending \cup {"reset"}
    BY DEF Release
  <2>4. at' = "notify" /\ op \in Sources => state \in {"Running", "Error"}
    BY <2>3, <2>1 DEF IInv, InState
  <2>5. at' = "notify" /\ op = "cancel" => state \in {"Cancelled", "Error"}
    BY <2>3 DEF Ending
  <2>6. QED
    BY <2>2, <2>4, <2>5 DEF IInv, InState
<1>6. CutOff'
  BY RxAssumption DEF IInv, CutOff, Placed, OwnerTypes, InState, Agree, Current,
         IntakeTypes, Release, NotifyControlWaiters, Notify, Ending, intake, results,
         Afterwards, Sources
<1>7. Behind'
  BY RxAssumption DEF IInv, Behind, WorkerTypes, OwnerTypes, Placed, InState, AtWork,
         ResultTypes, Release, NotifyControlWaiters, Notify, Ending, intake, results,
         Waits
<1>8./\ IntakeTypes' /\ QueueTypes' /\ ResultTypes' /\ Agree' /\ Current' /\ AtWork' /\ Heard'
  BY DEF IInv, IntakeTypes, QueueTypes, ResultTypes, Agree, Current, AtWork, Heard,
         Release, intake, results, Live
<1>9. QED
  BY <1>1, <1>2, <1>3, <1>4, <1>5, <1>6, <1>7, <1>8 DEF IInv

LEMMA SetStateOnOwnerKeeps ==
    ASSUME IInv, SetStateOnOwner
    PROVE  IInv'
<1>1. OwnerTypes'
  BY RxAssumption DEF IInv, OwnerTypes, IntakeTypes, Counted, SetStateOnOwner, intake,
         worker, results, Generations
<1>2. Agree'
  BY RxAssumption DEF IInv, Agree, InState, CutOff, Placed, OwnerTypes, AtWork,
         SetStateOnOwner, intake, worker, results, Ending, Afterwards, Sources
<1>3. Placed'
  BY RxAssumption DEF IInv, Placed, OwnerTypes, SetStateOnOwner, intake, worker,
         results, Ending
<1>4. Counted'
  BY RxAssumption DEF IInv, Counted, Placed, OwnerTypes, IntakeTypes, SetStateOnOwner,
         intake, worker, results
<1>5. InState'
  BY RxAssumption DEF IInv, InState, Placed, OwnerTypes, Agree, WorkerTypes,
         SetStateOnOwner, intake, worker, results, Ending, Sources
<1>6. CutOff'
  BY RxAssumption DEF IInv, CutOff, Placed, OwnerTypes, InState, Agree, Current,
         IntakeTypes, SetStateOnOwner, intake, worker, results, Afterwards, Sources,
         Ending
<1>7./\ IntakeTypes' /\ QueueTypes' /\ WorkerTypes' /\ ResultTypes' /\ Current' /\ AtWork' /\ Behind' /\ Heard'
  BY DEF IInv, IntakeTypes, QueueTypes, WorkerTypes, ResultTypes, Current, AtWork,
         Behind, Heard, SetStateOnOwner, intake, worker, results, Live
<1>8. QED
  BY <1>1, <1>2, <1>3, <1>4, <1>5, <1>6, <1>7 DEF IInv

LEMMA NotifyAtTheEndKeeps ==
    ASSUME IInv, NotifyAtTheEnd
    PROVE  IInv'
<1>1. OwnerTypes'
  BY RxAssumption DEF IInv, OwnerTypes, IntakeTypes, Counted, NotifyAtTheEnd,
         NotifyControlWaiters, Notify, Ending, Return, intake, results, Generations
<1>2. WorkerTypes'
  BY RxAssumption DEF IInv, WorkerTypes, IntakeTypes, AtWork, OwnerTypes, Counted,
         NotifyAtTheEnd, NotifyControlWaiters, Notify, Ending, Return, intake, results,
         Generations
<1>3. Agree'
  BY RxAssumption DEF IInv, Agree, InState, CutOff, Placed, OwnerTypes, AtWork,
         NotifyAtTheEnd, NotifyControlWaiters, Notify, Ending, Return, intake, results,
         Afterwards, Sources
<1>4. Placed'
  BY RxAssumption DEF IInv, Placed, OwnerTypes, NotifyAtTheEnd, NotifyControlWaiters,
         Notify, Ending, Return, intake, results
<1>5. Counted'
  BY RxAssumption DEF IInv, Counted, Placed, OwnerTypes, IntakeTypes, NotifyAtTheEnd,
         NotifyControlWaiters, Notify, Ending, Return, intake, results
<1>6. InState'
  BY RxAssumption DEF IInv, InState, Placed, OwnerTypes, Agree, WorkerTypes,
         NotifyAtTheEnd, NotifyControlWaiters, Notify, Ending, Return, intake, results,
         Sources
<1>7. CutOff'
  BY RxAssumption DEF IInv, CutOff, Placed, OwnerTypes, InState, Agree, Current,
         IntakeTypes, NotifyAtTheEnd, NotifyControlWaiters, Notify, Ending, Return,
         intake, results, Afterwards, Sources
<1>8./\ IntakeTypes' /\ QueueTypes' /\ ResultTypes' /\ Current' /\ AtWork' /\ Behind' /\ Heard'
  BY DEF IInv, IntakeTypes, QueueTypes, ResultTypes, Current, AtWork, Behind, Heard,
         NotifyAtTheEnd, intake, results, Live
<1>9. QED
  BY <1>1, <1>2, <1>3, <1>4, <1>5, <1>6, <1>7, <1>8 DEF IInv

LEMMA JoinWorkerKeeps ==
    ASSUME IInv, JoinWorker
    PROVE  IInv'
<1>1. OwnerTypes'
  BY RxAssumption DEF IInv, OwnerTypes, IntakeTypes, Counted, JoinWorker, Return, At,
         Ending, intake, results, Generations
<1>2. WorkerTypes'
  BY RxAssumption DEF IInv, WorkerTypes, IntakeTypes, AtWork, OwnerTypes, Counted,
         JoinWorker, Return, At, Ending, intake, results, Generations
<1>3. Agree'
  BY RxAssumption DEF IInv, Agree, InState, CutOff, Placed, OwnerTypes, AtWork,
         JoinWorker, Return, At, Ending, intake, results, Afterwards, Sources
<1>4. Placed'
  BY RxAssumption DEF IInv, Placed, OwnerTypes, JoinWorker, Return, At, Ending, intake,
         results
<1>5. Counted'
  BY RxAssumption DEF IInv, Counted, Placed, OwnerTypes, IntakeTypes, JoinWorker,
         Return, At, Ending, intake, results
<1>6. InState'
  BY RxAssumption DEF IInv, InState, Placed, OwnerTypes, Agree, WorkerTypes,
         JoinWorker, Return, At, Ending, intake, results, Sources
<1>7. CutOff'
  BY RxAssumption DEF IInv, CutOff, Placed, OwnerTypes, InState, Agree, Current,
         IntakeTypes, JoinWorker, Return, At, Ending, intake, results, Afterwards,
         Sources
<1>8. AtWork'
  BY RxAssumption DEF IInv, AtWork, WorkerTypes, IntakeTypes, OwnerTypes, Counted,
         JoinWorker, Return, At, Ending, intake, results, Waits, Live, None,
         Generations
<1>9. Behind'
  BY RxAssumption DEF IInv, Behind, WorkerTypes, OwnerTypes, Placed, InState, AtWork,
         ResultTypes, JoinWorker, Return, At, Ending, intake, results, Waits
<1>10./\ IntakeTypes' /\ QueueTypes' /\ ResultTypes' /\ Current' /\ Heard'
  BY DEF IInv, IntakeTypes, QueueTypes, ResultTypes, Current, Heard, JoinWorker,
         intake, results
<1>11. QED
  BY <1>1, <1>2, <1>3, <1>4, <1>5, <1>6, <1>7, <1>8, <1>9, <1>10 DEF IInv

LEMMA DeliverVisKeeps ==
    ASSUME IInv, DeliverVis
    PROVE  IInv'
<1>1. ResultTypes'
  BY RxAssumption DEF IInv, ResultTypes, WorkerTypes, AtWork, IntakeTypes, Heard,
         DeliverVis, owner, intake, worker, DeliversVis, Generations, Live, None, Block
<1>2. Heard'
  BY RxAssumption DEF IInv, Heard, ResultTypes, DeliverVis, owner, intake, worker,
         DeliversVis
<1>3./\ OwnerTypes' /\ IntakeTypes' /\ QueueTypes' /\ WorkerTypes' /\ Agree' /\ Placed' /\ Counted' /\ InState' /\ CutOff' /\ Current' /\ AtWork' /\ Behind'
  BY DEF IInv, OwnerTypes, IntakeTypes, QueueTypes, WorkerTypes, Agree, Placed,
         Counted, InState, CutOff, Current, AtWork, Behind, DeliverVis, owner, intake,
         worker, Live
<1>4. QED
  BY <1>1, <1>2, <1>3 DEF IInv

LEMMA DeliverWorkerErrorKeeps ==
    ASSUME IInv, DeliverWorkerError
    PROVE  IInv'
<1>1. ResultTypes'
  BY RxAssumption DEF IInv, ResultTypes, WorkerTypes, AtWork, IntakeTypes, Heard,
         DeliverWorkerError, owner, intake, worker, Generations, Live, None, Block
<1>2./\ OwnerTypes' /\ IntakeTypes' /\ QueueTypes' /\ WorkerTypes' /\ Agree' /\ Placed' /\ Counted' /\ InState' /\ CutOff' /\ Current' /\ AtWork' /\ Behind' /\ Heard'
  BY DEF IInv, OwnerTypes, IntakeTypes, QueueTypes, WorkerTypes, Agree, Placed,
         Counted, InState, CutOff, Current, AtWork, Behind, Heard, DeliverWorkerError,
         owner, intake, worker, Live
<1>3. QED
  BY <1>1, <1>2 DEF IInv

LEMMA EnqueuePcm16Keeps ==
    ASSUME NEW token \in 1 .. gen, NEW size \in Sizes, IInv, EnqueuePcm16(token, size)
    PROVE  IInv'
<1>1. IntakeTypes'
  BY RxAssumption DEF IInv, IntakeTypes, OwnerTypes, Counted, EnqueuePcm16, Accepts,
         Notify, owner, results, Generations
<1>2. QueueTypes'
  <2> DEFINE b == [gen |-> token, seq |-> next, size |-> size]
  <2>1. queue \in Seq(Block) /\ queue' = Append(MakeRoom(queue, size), b)
    BY DEF IInv, QueueTypes, EnqueuePcm16
  <2>2. b \in Block
    BY NewBlockIsOne DEF EnqueuePcm16
  <2>3. PICK k \in 0 .. Len(queue) : /\ MakeRoom(queue, size) = SubSeq(queue, k + 1, Len(queue))
                                     /\ Len(queue) - k < MaximumChunks
                                     /\ Samples(MakeRoom(queue, size)) + size <= MaximumSamples
    BY <2>1, RoomIsMade
  <2> DEFINE room == MakeRoom(queue, size)
  <2>4. room \in Seq(Block) /\ Len(room) = Len(queue) - k
    BY <2>1, <2>3, Remainder
  <2> HIDE DEF room, b
  <2>5. queue' \in Seq(Block) /\ Len(queue') = Len(room) + 1
    BY <2>1, <2>2, <2>4 DEF room
  <2>6. Samples(queue') = Samples(room) + b.size
    BY <2>1, <2>2, <2>4, SamplesAppended DEF room
  <2>7. b.size = size
    BY DEF b
  <2>8. Len(queue') <= MaximumChunks
    <3>1. MaximumChunks \in Nat /\ Len(queue) \in Nat
      BY <2>1, RxAssumption
    <3>2. QED
      BY <2>3, <2>4, <2>5, <3>1
  <2>9. Samples(queue') <= MaximumSamples
    BY <2>3, <2>6, <2>7 DEF room
  <2>10. QED
    BY <2>5, <2>8, <2>9 DEF QueueTypes
<1>3. WorkerTypes'
  BY RxAssumption DEF IInv, WorkerTypes, IntakeTypes, AtWork, OwnerTypes, Counted,
         EnqueuePcm16, Accepts, Notify, owner, results, Generations
<1>4. Agree'
  BY RxAssumption DEF IInv, Agree, InState, CutOff, Placed, OwnerTypes, AtWork,
         EnqueuePcm16, Accepts, Notify, owner, results, Ending, Afterwards, Sources
<1>5. CutOff'
  BY RxAssumption DEF IInv, CutOff, Placed, OwnerTypes, InState, Agree, Current,
         IntakeTypes, EnqueuePcm16, Accepts, Notify, owner, results, Afterwards,
         Sources, Ending
<1>6. Current'
  <2> DEFINE b == [gen |-> token, seq |-> next, size |-> size]
             room == MakeRoom(queue, size)
  <2>1. queue \in Seq(Block) /\ queue' = Append(room, b)
    BY DEF IInv, QueueTypes, EnqueuePcm16
  <2>2. b \in Block
    BY NewBlockIsOne DEF EnqueuePcm16
  <2>3. PICK k \in 0 .. Len(queue) : room = SubSeq(queue, k + 1, Len(queue))
    BY <2>1, RoomIsMade
  <2>4. room \in Seq(Block) /\ Len(room) = Len(queue) - k
           /\ \A i \in 1 .. Len(room) : room[i] = queue[k + i]
    BY <2>1, <2>3, Remainder
  <2>5. ingress' = "Active" /\ gen' = gen /\ b.gen = gen
    BY DEF EnqueuePcm16, Accepts
  <2> HIDE DEF room, b
  <2>6. \A i \in 1 .. Len(room) : room[i].gen = gen
    <3>1. \A i \in 1 .. Len(room) : k + i \in 1 .. Len(queue)
      BY <2>1, <2>4
    <3>2. \A i \in 1 .. Len(queue) : queue[i].gen = gen
      BY DEF IInv, Current
    <3>3. QED
      BY <2>4, <3>1, <3>2
  <2>7. Len(queue') = Len(room) + 1 /\ queue'[Len(room) + 1] = b
           /\ \A i \in 1 .. Len(room) : queue'[i] = room[i]
    BY <2>1, <2>2, <2>4
  <2>8. ASSUME NEW i \in 1 .. Len(queue') PROVE queue'[i].gen = gen'
    <3>1. Len(room) \in Nat
      BY <2>4
    <3>2. i \in 1 .. Len(room) \/ i = Len(room) + 1
      BY <2>7, <3>1
    <3>3. QED
      BY <2>5, <2>6, <2>7, <3>2
  <2>9. QED
    BY <2>5, <2>8 DEF Current
<1>7./\ OwnerTypes' /\ ResultTypes' /\ Placed' /\ Counted' /\ InState' /\ AtWork' /\ Behind' /\ Heard'
  BY DEF IInv, OwnerTypes, ResultTypes, Placed, Counted, InState, AtWork, Behind,
         Heard, EnqueuePcm16, owner, results, Live
<1>8. QED
  BY <1>1, <1>2, <1>3, <1>4, <1>5, <1>6, <1>7 DEF IInv

LEMMA AwaitLifecycleBoundaryKeeps ==
    ASSUME IInv, AwaitLifecycleBoundary
    PROVE  IInv'
<1>1. WorkerTypes'
  BY RxAssumption DEF IInv, WorkerTypes, IntakeTypes, AtWork, OwnerTypes, Counted,
         AwaitLifecycleBoundary, StopOr, Go, At, owner, intake, results, Generations
<1>2. Agree'
  BY RxAssumption DEF IInv, Agree, InState, CutOff, Placed, OwnerTypes, AtWork,
         AwaitLifecycleBoundary, StopOr, Go, At, owner, intake, results, Ending,
         Afterwards, Sources
<1>3. InState'
  BY RxAssumption DEF IInv, InState, Placed, OwnerTypes, Agree, WorkerTypes,
         AwaitLifecycleBoundary, StopOr, Go, At, owner, intake, results, Ending,
         Sources
<1>4. AtWork'
  BY RxAssumption DEF IInv, AtWork, WorkerTypes, IntakeTypes, OwnerTypes, Counted,
         AwaitLifecycleBoundary, StopOr, Go, At, owner, intake, results, Waits, Live,
         None, Generations
<1>5. Behind'
  BY RxAssumption DEF IInv, Behind, WorkerTypes, OwnerTypes, Placed, InState, AtWork,
         ResultTypes, AwaitLifecycleBoundary, StopOr, Go, At, owner, intake, results,
         Waits
<1>6./\ OwnerTypes' /\ IntakeTypes' /\ QueueTypes' /\ ResultTypes' /\ Placed' /\ Counted' /\ CutOff' /\ Current' /\ Heard'
  BY DEF IInv, OwnerTypes, IntakeTypes, QueueTypes, ResultTypes, Placed, Counted,
         CutOff, Current, Heard, AwaitLifecycleBoundary, owner, intake, results
<1>7. QED
  BY <1>1, <1>2, <1>3, <1>4, <1>5, <1>6 DEF IInv

LEMMA EvaluateConditionKeeps ==
    ASSUME IInv, EvaluateCondition
    PROVE  IInv'
<1>1. WorkerTypes'
  <2>1. w.to \in {"pop", "chosen", "again"}
    BY DEF IInv, AtWork, Waits, EvaluateCondition
  <2>2. \/ w' \in {[w EXCEPT !.at = "holding"], [at |-> "gate", to |-> "pop"], At("ending")}
        \/ w' = At(w.to) /\ w.to # "again"
    BY DEF EvaluateCondition, Gate, StopOr, Go
  <2>3. UNCHANGED <<awake, hand, seen, pipe>>
    BY DEF EvaluateCondition
  <2>4. QED
    BY <2>1, <2>2, <2>3 DEF IInv, WorkerTypes, At
<1>2. Agree'
  BY RxAssumption DEF IInv, Agree, InState, CutOff, Placed, OwnerTypes, AtWork,
         EvaluateCondition, Ready, Gate, StopOr, Go, At, owner, intake, results,
         Ending, Afterwards, Sources
<1>3. InState'
  BY RxAssumption DEF IInv, InState, Placed, OwnerTypes, Agree, WorkerTypes,
         EvaluateCondition, Ready, Gate, StopOr, Go, At, owner, intake, results,
         Ending, Sources
<1>4. AtWork'
  BY RxAssumption DEF IInv, AtWork, WorkerTypes, IntakeTypes, OwnerTypes, Counted,
         EvaluateCondition, Ready, Gate, StopOr, Go, At, owner, intake, results, Waits,
         Live, None, Generations
<1>5. Behind'
  BY RxAssumption DEF IInv, Behind, WorkerTypes, OwnerTypes, Placed, InState, AtWork,
         ResultTypes, EvaluateCondition, Ready, Gate, StopOr, Go, At, owner, intake,
         results, Waits
<1>6./\ OwnerTypes' /\ IntakeTypes' /\ QueueTypes' /\ ResultTypes' /\ Placed' /\ Counted' /\ CutOff' /\ Current' /\ Heard'
  BY DEF IInv, OwnerTypes, IntakeTypes, QueueTypes, ResultTypes, Placed, Counted,
         CutOff, Current, Heard, EvaluateCondition, owner, intake, results
<1>7. QED
  BY <1>1, <1>2, <1>3, <1>4, <1>5, <1>6 DEF IInv

LEMMA SleepKeeps ==
    ASSUME IInv, Sleep
    PROVE  IInv'
<1>1. WorkerTypes'
  BY RxAssumption DEF IInv, WorkerTypes, IntakeTypes, AtWork, OwnerTypes, Counted,
         Sleep, owner, intake, results, Generations
<1>2. Agree'
  BY RxAssumption DEF IInv, Agree, InState, CutOff, Placed, OwnerTypes, AtWork, Sleep,
         owner, intake, results, Ending, Afterwards, Sources
<1>3. InState'
  BY RxAssumption DEF IInv, InState, Placed, OwnerTypes, Agree, WorkerTypes, Sleep,
         owner, intake, results, Ending, Sources
<1>4. AtWork'
  BY RxAssumption DEF IInv, AtWork, WorkerTypes, IntakeTypes, OwnerTypes, Counted,
         Sleep, owner, intake, results, Waits, Live, None, Generations
<1>5. Behind'
  BY RxAssumption DEF IInv, Behind, WorkerTypes, OwnerTypes, Placed, InState, AtWork,
         ResultTypes, Sleep, owner, intake, results, Waits
<1>6./\ OwnerTypes' /\ IntakeTypes' /\ QueueTypes' /\ ResultTypes' /\ Placed' /\ Counted' /\ CutOff' /\ Current' /\ Heard'
  BY DEF IInv, OwnerTypes, IntakeTypes, QueueTypes, ResultTypes, Placed, Counted,
         CutOff, Current, Heard, Sleep, owner, intake, results
<1>7. QED
  BY <1>1, <1>2, <1>3, <1>4, <1>5, <1>6 DEF IInv

LEMMA WakeUpKeeps ==
    ASSUME IInv, WakeUp
    PROVE  IInv'
<1>1. WorkerTypes'
  BY RxAssumption DEF IInv, WorkerTypes, IntakeTypes, AtWork, OwnerTypes, Counted,
         WakeUp, owner, intake, results, Generations
<1>2. Agree'
  BY RxAssumption DEF IInv, Agree, InState, CutOff, Placed, OwnerTypes, AtWork, WakeUp,
         owner, intake, results, Ending, Afterwards, Sources
<1>3. InState'
  BY RxAssumption DEF IInv, InState, Placed, OwnerTypes, Agree, WorkerTypes, WakeUp,
         owner, intake, results, Ending, Sources
<1>4. AtWork'
  BY RxAssumption DEF IInv, AtWork, WorkerTypes, IntakeTypes, OwnerTypes, Counted,
         WakeUp, owner, intake, results, Waits, Live, None, Generations
<1>5. Behind'
  BY RxAssumption DEF IInv, Behind, WorkerTypes, OwnerTypes, Placed, InState, AtWork,
         ResultTypes, WakeUp, owner, intake, results, Waits
<1>6./\ OwnerTypes' /\ IntakeTypes' /\ QueueTypes' /\ ResultTypes' /\ Placed' /\ Counted' /\ CutOff' /\ Current' /\ Heard'
  BY DEF IInv, OwnerTypes, IntakeTypes, QueueTypes, ResultTypes, Placed, Counted,
         CutOff, Current, Heard, WakeUp, owner, intake, results
<1>7. QED
  BY <1>1, <1>2, <1>3, <1>4, <1>5, <1>6 DEF IInv

LEMMA WaitPopKeeps ==
    ASSUME IInv, WaitPop
    PROVE  IInv'
<1>1. QueueTypes'
  <2>1. queue' = queue \/ (queue # <<>> /\ queue' = Tail(queue))
    BY DEF WaitPop, Take
  <2>2. QED
    BY <2>1, TailIsQueued DEF IInv, QueueTypes
<1>2. WorkerTypes'
  <2>1. hand' \in {hand, None} \/ (queue # <<>> /\ hand' = Head(queue))
    BY DEF WaitPop, Take
  <2>2. hand' \in Block \cup {None}
    <3>1. queue # <<>> => Head(queue) \in Block
      BY DEF IInv, QueueTypes
    <3>2. QED
      BY <2>1, <3>1 DEF IInv, WorkerTypes
  <2>3. seen' \in {0, epoch, seen}
    BY DEF WaitPop, Take
  <2>4. seen' \in 0 .. 2 * Calls
    BY <2>3, Numbers DEF IInv, IntakeTypes, WorkerTypes
  <2>5. w' \in {[at |-> "gate", to |-> "chosen"], [at |-> "asleep", to |-> "-"]}
    BY DEF WaitPop, Take, Gate, Go, At
  <2>6. awake' \in BOOLEAN /\ pipe' \in [gen : Generations, open : BOOLEAN]
    BY DEF WaitPop, Take, IInv, WorkerTypes
  <2>7. QED
    BY <2>2, <2>4, <2>5, <2>6 DEF WorkerTypes
<1>3. Agree'
  BY RxAssumption DEF IInv, Agree, InState, CutOff, Placed, OwnerTypes, AtWork,
         WaitPop, Take, Gate, Go, At, owner, results, None, Ending, Afterwards, Sources
<1>4. InState'
  BY RxAssumption DEF IInv, InState, Placed, OwnerTypes, Agree, WorkerTypes, WaitPop,
         Take, Gate, Go, At, owner, results, None, Ending, Sources
<1>5. CutOff'
  BY RxAssumption DEF IInv, CutOff, Placed, OwnerTypes, InState, Agree, Current,
         IntakeTypes, WaitPop, Take, Gate, Go, At, owner, results, None, Afterwards,
         Sources, Ending
<1>6. Current'
  BY RxAssumption DEF IInv, Current, WaitPop, Take, Gate, Go, At, owner, results, None
<1>7. AtWork'
  <2>1. \/ w' = [at |-> "gate", to |-> "chosen"] /\ hand' = None
        \/ w' = [at |-> "gate", to |-> "chosen"] /\ queue # <<>> /\ hand' = Head(queue)
        \/ w' = [at |-> "asleep", to |-> "-"] /\ hand' = hand
    BY DEF WaitPop, Take, Gate, Go, At
  <2>2. hand = None
    BY DEF IInv, AtWork, WaitPop
  <2>3. queue # <<>> => Head(queue).gen = gen
    <3>1. queue # <<>> => Head(queue) = queue[1] /\ 1 \in 1 .. Len(queue)
      BY DEF IInv, QueueTypes
    <3>2. QED
      BY <3>1 DEF IInv, Current
  <2>4. gen' = gen /\ gen <= gen
    BY Numbers DEF WaitPop
  <2>5. hand' # None => hand'.gen <= gen'
    BY <2>1, <2>2, <2>3, <2>4
  <2>6. w'.at \in {"gate", "asleep"} /\ (w'.at = "gate" => w'.to = "chosen")
           /\ (w'.at = "asleep" => hand' = None)
    BY <2>1, <2>2
  <2>7. QED
    BY <2>5, <2>6 DEF AtWork, Waits
<1>8. Behind'
  BY RxAssumption DEF IInv, Behind, WorkerTypes, OwnerTypes, Placed, InState, AtWork,
         ResultTypes, WaitPop, Take, Gate, Go, At, owner, results, None, Waits
<1>9./\ OwnerTypes' /\ IntakeTypes' /\ ResultTypes' /\ Placed' /\ Counted' /\ Heard'
  BY DEF IInv, OwnerTypes, IntakeTypes, ResultTypes, Placed, Counted, Heard, WaitPop,
         owner, results
<1>10. QED
  BY <1>1, <1>2, <1>3, <1>4, <1>5, <1>6, <1>7, <1>8, <1>9 DEF IInv

LEMMA CancelledKeeps ==
    ASSUME IInv, Cancelled
    PROVE  IInv'
<1>1. WorkerTypes'
  BY RxAssumption DEF IInv, WorkerTypes, IntakeTypes, AtWork, OwnerTypes, Counted,
         Cancelled, Go, At, owner, intake, results, Generations
<1>2. Agree'
  BY RxAssumption DEF IInv, Agree, InState, CutOff, Placed, OwnerTypes, AtWork,
         Cancelled, Go, At, owner, intake, results, Ending, Afterwards, Sources
<1>3. InState'
  BY RxAssumption DEF IInv, InState, Placed, OwnerTypes, Agree, WorkerTypes, Cancelled,
         Go, At, owner, intake, results, Ending, Sources
<1>4. AtWork'
  BY RxAssumption DEF IInv, AtWork, WorkerTypes, IntakeTypes, OwnerTypes, Counted,
         Cancelled, Go, At, owner, intake, results, Waits, Live, None, Generations
<1>5. Behind'
  BY RxAssumption DEF IInv, Behind, WorkerTypes, OwnerTypes, Placed, InState, AtWork,
         ResultTypes, Cancelled, Go, At, owner, intake, results, Waits
<1>6./\ OwnerTypes' /\ IntakeTypes' /\ QueueTypes' /\ ResultTypes' /\ Placed' /\ Counted' /\ CutOff' /\ Current' /\ Heard'
  BY DEF IInv, OwnerTypes, IntakeTypes, QueueTypes, ResultTypes, Placed, Counted,
         CutOff, Current, Heard, Cancelled, owner, intake, results
<1>7. QED
  BY <1>1, <1>2, <1>3, <1>4, <1>5, <1>6 DEF IInv

LEMMA ResetKeeps ==
    ASSUME IInv, Reset
    PROVE  IInv'
<1>1. WorkerTypes'
  BY RxAssumption DEF IInv, WorkerTypes, IntakeTypes, AtWork, OwnerTypes, Counted,
         Reset, Go, At, owner, intake, results, Generations
<1>2. Agree'
  BY RxAssumption DEF IInv, Agree, InState, CutOff, Placed, OwnerTypes, AtWork, Reset,
         Go, At, owner, intake, results, Ending, Afterwards, Sources
<1>3. InState'
  BY RxAssumption DEF IInv, InState, Placed, OwnerTypes, Agree, WorkerTypes, Reset, Go,
         At, owner, intake, results, Ending, Sources
<1>4. AtWork'
  BY RxAssumption DEF IInv, AtWork, WorkerTypes, IntakeTypes, OwnerTypes, Counted,
         Reset, Go, At, owner, intake, results, Waits, Live, None, Generations
<1>5. Behind'
  BY RxAssumption DEF IInv, Behind, WorkerTypes, OwnerTypes, Placed, InState, AtWork,
         ResultTypes, Reset, Go, At, owner, intake, results, Waits
<1>6./\ OwnerTypes' /\ IntakeTypes' /\ QueueTypes' /\ ResultTypes' /\ Placed' /\ Counted' /\ CutOff' /\ Current' /\ Heard'
  BY DEF IInv, OwnerTypes, IntakeTypes, QueueTypes, ResultTypes, Placed, Counted,
         CutOff, Current, Heard, Reset, owner, intake, results
<1>7. QED
  BY <1>1, <1>2, <1>3, <1>4, <1>5, <1>6 DEF IInv

LEMMA ChosenKeeps ==
    ASSUME IInv, Chosen
    PROVE  IInv'
<1>1. WorkerTypes'
  BY RxAssumption DEF IInv, WorkerTypes, IntakeTypes, AtWork, OwnerTypes, Counted,
         Chosen, Go, At, Gate, owner, intake, results, Live, Generations
<1>2. ResultTypes'
  BY RxAssumption DEF IInv, ResultTypes, WorkerTypes, AtWork, IntakeTypes, Heard,
         Chosen, Go, At, Gate, owner, intake, results, Live, Generations, None, Block
<1>3. Agree'
  BY RxAssumption DEF IInv, Agree, InState, CutOff, Placed, OwnerTypes, AtWork, Chosen,
         Go, At, Gate, owner, intake, results, Live, Ending, Afterwards, Sources
<1>4. InState'
  BY RxAssumption DEF IInv, InState, Placed, OwnerTypes, Agree, WorkerTypes, Chosen,
         Go, At, Gate, owner, intake, results, Live, Ending, Sources
<1>5. AtWork'
  BY RxAssumption DEF IInv, AtWork, WorkerTypes, IntakeTypes, OwnerTypes, Counted,
         Chosen, Go, At, Gate, owner, intake, results, Live, Waits, None, Generations
<1>6. Behind'
  BY RxAssumption DEF IInv, Behind, WorkerTypes, OwnerTypes, Placed, InState, AtWork,
         ResultTypes, Chosen, Go, At, Gate, owner, intake, results, Live, Waits
<1>7./\ OwnerTypes' /\ IntakeTypes' /\ QueueTypes' /\ Placed' /\ Counted' /\ CutOff' /\ Current' /\ Heard'
  BY DEF IInv, OwnerTypes, IntakeTypes, QueueTypes, Placed, Counted, CutOff, Current,
         Heard, Chosen, owner, intake, results
<1>8. QED
  BY <1>1, <1>2, <1>3, <1>4, <1>5, <1>6, <1>7 DEF IInv

LEMMA TerminateKeeps ==
    ASSUME IInv, Terminate
    PROVE  IInv'
<1>1. WorkerTypes'
  BY RxAssumption DEF IInv, WorkerTypes, IntakeTypes, AtWork, OwnerTypes, Counted,
         Terminate, ClosedImage, Go, At, owner, intake, Generations
<1>2. ResultTypes'
  BY RxAssumption DEF IInv, ResultTypes, WorkerTypes, AtWork, IntakeTypes, Heard,
         Terminate, ClosedImage, Go, At, owner, intake, Generations, Live, None, Block
<1>3. Agree'
  BY RxAssumption DEF IInv, Agree, InState, CutOff, Placed, OwnerTypes, AtWork,
         Terminate, ClosedImage, Go, At, owner, intake, Ending, Afterwards, Sources
<1>4. InState'
  BY RxAssumption DEF IInv, InState, Placed, OwnerTypes, Agree, WorkerTypes, Terminate,
         ClosedImage, Go, At, owner, intake, Ending, Sources
<1>5. AtWork'
  BY RxAssumption DEF IInv, AtWork, WorkerTypes, IntakeTypes, OwnerTypes, Counted,
         Terminate, ClosedImage, Go, At, owner, intake, Waits, Live, None, Generations
<1>6. Behind'
  BY RxAssumption DEF IInv, Behind, WorkerTypes, OwnerTypes, Placed, InState, AtWork,
         ResultTypes, Terminate, ClosedImage, Go, At, owner, intake, Waits
<1>7./\ OwnerTypes' /\ IntakeTypes' /\ QueueTypes' /\ Placed' /\ Counted' /\ CutOff' /\ Current' /\ Heard'
  BY DEF IInv, OwnerTypes, IntakeTypes, QueueTypes, Placed, Counted, CutOff, Current,
         Heard, Terminate, owner, intake
<1>8. QED
  BY <1>1, <1>2, <1>3, <1>4, <1>5, <1>6, <1>7 DEF IInv

LEMMA ClearKeeps ==
    ASSUME IInv, Clear
    PROVE  IInv'
<1>1. WorkerTypes'
  BY RxAssumption DEF IInv, WorkerTypes, IntakeTypes, AtWork, OwnerTypes, Counted,
         Clear, Gate, Go, At, owner, intake, Live, Generations
<1>2. ResultTypes'
  BY RxAssumption DEF IInv, ResultTypes, WorkerTypes, AtWork, IntakeTypes, Heard,
         Clear, Gate, Go, At, owner, intake, Live, Generations, None, Block
<1>3. Agree'
  BY RxAssumption DEF IInv, Agree, InState, CutOff, Placed, OwnerTypes, AtWork, Clear,
         Gate, Go, At, owner, intake, Live, Ending, Afterwards, Sources
<1>4. InState'
  BY RxAssumption DEF IInv, InState, Placed, OwnerTypes, Agree, WorkerTypes, Clear,
         Gate, Go, At, owner, intake, Live, Ending, Sources
<1>5. AtWork'
  BY RxAssumption DEF IInv, AtWork, WorkerTypes, IntakeTypes, OwnerTypes, Counted,
         Clear, Gate, Go, At, owner, intake, Live, Waits, None, Generations
<1>6. Behind'
  BY RxAssumption DEF IInv, Behind, WorkerTypes, OwnerTypes, Placed, InState, AtWork,
         ResultTypes, Clear, Gate, Go, At, owner, intake, Live, Waits
<1>7./\ OwnerTypes' /\ IntakeTypes' /\ QueueTypes' /\ Placed' /\ Counted' /\ CutOff' /\ Current' /\ Heard'
  BY DEF IInv, OwnerTypes, IntakeTypes, QueueTypes, Placed, Counted, CutOff, Current,
         Heard, Clear, owner, intake
<1>8. QED
  BY <1>1, <1>2, <1>3, <1>4, <1>5, <1>6, <1>7 DEF IInv

LEMMA BeginKeeps ==
    ASSUME IInv, Begin
    PROVE  IInv'
<1>1. WorkerTypes'
  BY RxAssumption DEF IInv, WorkerTypes, IntakeTypes, AtWork, OwnerTypes, Counted,
         Begin, Gate, Go, At, owner, intake, Generations
<1>2. ResultTypes'
  BY RxAssumption DEF IInv, ResultTypes, WorkerTypes, AtWork, IntakeTypes, Heard,
         Begin, Gate, Go, At, owner, intake, Generations, Live, None, Block
<1>3. Agree'
  BY RxAssumption DEF IInv, Agree, InState, CutOff, Placed, OwnerTypes, AtWork, Begin,
         Gate, Go, At, owner, intake, Ending, Afterwards, Sources
<1>4. InState'
  BY RxAssumption DEF IInv, InState, Placed, OwnerTypes, Agree, WorkerTypes, Begin,
         Gate, Go, At, owner, intake, Ending, Sources
<1>5. AtWork'
  BY RxAssumption DEF IInv, AtWork, WorkerTypes, IntakeTypes, OwnerTypes, Counted,
         Begin, Gate, Go, At, owner, intake, Waits, Live, None, Generations
<1>6. Behind'
  BY RxAssumption DEF IInv, Behind, WorkerTypes, OwnerTypes, Placed, InState, AtWork,
         ResultTypes, Begin, Gate, Go, At, owner, intake, Waits
<1>7./\ OwnerTypes' /\ IntakeTypes' /\ QueueTypes' /\ Placed' /\ Counted' /\ CutOff' /\ Current' /\ Heard'
  BY DEF IInv, OwnerTypes, IntakeTypes, QueueTypes, Placed, Counted, CutOff, Current,
         Heard, Begin, owner, intake
<1>8. QED
  BY <1>1, <1>2, <1>3, <1>4, <1>5, <1>6, <1>7 DEF IInv

LEMMA ProcessChunkKeeps ==
    ASSUME IInv, ProcessChunk
    PROVE  IInv'
<1>1. WorkerTypes'
  BY RxAssumption DEF IInv, WorkerTypes, IntakeTypes, AtWork, OwnerTypes, Counted,
         ProcessChunk, Gate, Go, At, owner, intake, Live, Generations
<1>2. ResultTypes'
  BY RxAssumption DEF IInv, ResultTypes, WorkerTypes, AtWork, IntakeTypes, Heard,
         ProcessChunk, Gate, Go, At, owner, intake, Live, Generations, None, Block
<1>3. Agree'
  BY RxAssumption DEF IInv, Agree, InState, CutOff, Placed, OwnerTypes, AtWork,
         ProcessChunk, Gate, Go, At, owner, intake, Live, Ending, Afterwards, Sources
<1>4. InState'
  BY RxAssumption DEF IInv, InState, Placed, OwnerTypes, Agree, WorkerTypes,
         ProcessChunk, Gate, Go, At, owner, intake, Live, Ending, Sources
<1>5. AtWork'
  BY RxAssumption DEF IInv, AtWork, WorkerTypes, IntakeTypes, OwnerTypes, Counted,
         ProcessChunk, Gate, Go, At, owner, intake, Live, Waits, None, Generations
<1>6. Behind'
  BY RxAssumption DEF IInv, Behind, WorkerTypes, OwnerTypes, Placed, InState, AtWork,
         ResultTypes, ProcessChunk, Gate, Go, At, owner, intake, Live, Waits
<1>7. Heard'
  BY RxAssumption DEF IInv, Heard, ResultTypes, ProcessChunk, Gate, Go, At, owner,
         intake, Live
<1>8./\ OwnerTypes' /\ IntakeTypes' /\ QueueTypes' /\ Placed' /\ Counted' /\ CutOff' /\ Current'
  BY DEF IInv, OwnerTypes, IntakeTypes, QueueTypes, Placed, Counted, CutOff, Current,
         ProcessChunk, owner, intake
<1>9. QED
  BY <1>1, <1>2, <1>3, <1>4, <1>5, <1>6, <1>7, <1>8 DEF IInv

LEMMA EndKeeps ==
    ASSUME IInv, End
    PROVE  IInv'
<1>1. WorkerTypes'
  <2>1. 0 \in 0 .. 2 * Calls
    BY Numbers
  <2>2. hand' = None /\ seen' = 0 /\ awake' = awake /\ pipe' = [pipe EXCEPT !.open = FALSE]
           /\ w' = [at |-> "dead", to |-> "-"]
    BY DEF End, Go, At
  <2>3. QED
    BY <2>1, <2>2 DEF IInv, WorkerTypes
<1>2. ResultTypes'
  BY RxAssumption DEF IInv, ResultTypes, WorkerTypes, AtWork, IntakeTypes, Heard, End,
         ClosedImage, Go, At, owner, intake, Generations, Live, None, Block
<1>3. Agree'
  BY RxAssumption DEF IInv, Agree, InState, CutOff, Placed, OwnerTypes, AtWork, End,
         ClosedImage, Go, At, owner, intake, Ending, Afterwards, Sources
<1>4. InState'
  BY RxAssumption DEF IInv, InState, Placed, OwnerTypes, Agree, WorkerTypes, End,
         ClosedImage, Go, At, owner, intake, Ending, Sources
<1>5. AtWork'
  BY RxAssumption DEF IInv, AtWork, WorkerTypes, IntakeTypes, OwnerTypes, Counted, End,
         ClosedImage, Go, At, owner, intake, Waits, Live, None, Generations
<1>6. Behind'
  BY RxAssumption DEF IInv, Behind, WorkerTypes, OwnerTypes, Placed, InState, AtWork,
         ResultTypes, End, ClosedImage, Go, At, owner, intake, Waits
<1>7./\ OwnerTypes' /\ IntakeTypes' /\ QueueTypes' /\ Placed' /\ Counted' /\ CutOff' /\ Current' /\ Heard'
  BY DEF IInv, OwnerTypes, IntakeTypes, QueueTypes, Placed, Counted, CutOff, Current,
         Heard, End, owner, intake
<1>8. QED
  BY <1>1, <1>2, <1>3, <1>4, <1>5, <1>6, <1>7 DEF IInv

LEMMA ThrowKeeps ==
    ASSUME IInv, Throw
    PROVE  IInv'
<1>1. WorkerTypes'
  <2>1. 0 \in 0 .. 2 * Calls
    BY Numbers
  <2>2. hand' = None /\ seen' = 0 /\ awake' = awake /\ pipe' = [pipe EXCEPT !.open = FALSE]
           /\ w' = [at |-> "failing", to |-> "-"]
    BY DEF Throw, Go, At
  <2>3. QED
    BY <2>1, <2>2 DEF IInv, WorkerTypes
<1>2. Agree'
  BY RxAssumption DEF IInv, Agree, InState, CutOff, Placed, OwnerTypes, AtWork, Throw,
         Go, At, owner, intake, results, Ending, Afterwards, Sources
<1>3. InState'
  BY RxAssumption DEF IInv, InState, Placed, OwnerTypes, Agree, WorkerTypes, Throw, Go,
         At, owner, intake, results, Ending, Sources
<1>4. AtWork'
  BY RxAssumption DEF IInv, AtWork, WorkerTypes, IntakeTypes, OwnerTypes, Counted,
         Throw, Go, At, owner, intake, results, Waits, Live, None, Generations
<1>5. Behind'
  BY RxAssumption DEF IInv, Behind, WorkerTypes, OwnerTypes, Placed, InState, AtWork,
         ResultTypes, Throw, Go, At, owner, intake, results, Waits
<1>6./\ OwnerTypes' /\ IntakeTypes' /\ QueueTypes' /\ ResultTypes' /\ Placed' /\ Counted' /\ CutOff' /\ Current' /\ Heard'
  BY DEF IInv, OwnerTypes, IntakeTypes, QueueTypes, ResultTypes, Placed, Counted,
         CutOff, Current, Heard, Throw, owner, intake, results
<1>7. QED
  BY <1>1, <1>2, <1>3, <1>4, <1>5, <1>6 DEF IInv

LEMMA RecordWorkerFailureKeeps ==
    ASSUME IInv, RecordWorkerFailure
    PROVE  IInv'
<1>1. OwnerTypes'
  BY RxAssumption DEF IInv, OwnerTypes, IntakeTypes, Counted, RecordWorkerFailure, Go,
         At, intake, Generations
<1>2. WorkerTypes'
  BY RxAssumption DEF IInv, WorkerTypes, IntakeTypes, AtWork, OwnerTypes, Counted,
         RecordWorkerFailure, Go, At, intake, Generations
<1>3. ResultTypes'
  BY RxAssumption DEF IInv, ResultTypes, WorkerTypes, AtWork, IntakeTypes, Heard,
         RecordWorkerFailure, Go, At, intake, Generations, Live, None, Block
<1>4. Agree'
  BY RxAssumption DEF IInv, Agree, InState, CutOff, Placed, OwnerTypes, AtWork,
         RecordWorkerFailure, Go, At, intake, Ending, Afterwards, Sources
<1>5. InState'
  BY RxAssumption DEF IInv, InState, Placed, OwnerTypes, Agree, WorkerTypes,
         RecordWorkerFailure, Go, At, intake, Ending, Sources
<1>6. AtWork'
  BY RxAssumption DEF IInv, AtWork, WorkerTypes, IntakeTypes, OwnerTypes, Counted,
         RecordWorkerFailure, Go, At, intake, Waits, Live, None, Generations
<1>7. Behind'
  BY RxAssumption DEF IInv, Behind, WorkerTypes, OwnerTypes, Placed, InState, AtWork,
         ResultTypes, RecordWorkerFailure, Go, At, intake, Waits
<1>8./\ IntakeTypes' /\ QueueTypes' /\ Placed' /\ Counted' /\ CutOff' /\ Current' /\ Heard'
  BY DEF IInv, IntakeTypes, QueueTypes, Placed, Counted, CutOff, Current, Heard,
         RecordWorkerFailure, intake
<1>9. QED
  BY <1>1, <1>2, <1>3, <1>4, <1>5, <1>6, <1>7, <1>8 DEF IInv

LEMMA InitHolds == Init => IInv
<1> SUFFICES ASSUME Init PROVE IInv
  OBVIOUS
<1>1. Calls \in Nat /\ Blocks \in Nat /\ Codes \in Nat
  BY RxAssumption
<1>2. 0 \in 0 .. Calls /\ 0 \in 0 .. Blocks /\ 0 \in 0 .. 2 * Calls /\ 0 \in 0 .. Codes
           /\ 0 \in 0 .. 0
  BY <1>1
<1>3. OwnerTypes /\ IntakeTypes
  BY <1>2 DEF Init, OwnerTypes, IntakeTypes, Generations
<1>4. QueueTypes
  BY EmptyQueue DEF Init, QueueTypes
<1>5. WorkerTypes
  BY <1>2 DEF Init, WorkerTypes, Generations, At
<1>6. ResultTypes
  BY <1>2 DEF Init, ResultTypes, Generations
<1>7. Agree /\ Placed /\ InState /\ CutOff /\ Current /\ Behind /\ Heard
  BY DEF Init, Agree, Placed, InState, CutOff, Current, Behind, Heard, Afterwards, Ending, Sources, At
<1>8. Counted
  BY DEF Init, Counted
<1>9. AtWork
  BY DEF Init, AtWork, Waits, At
<1>10. QED
  BY <1>3, <1>4, <1>5, <1>6, <1>7, <1>8, <1>9 DEF IInv

LEMMA StutterKeeps == IInv /\ UNCHANGED vars => IInv'
BY DEF IInv, OwnerTypes, IntakeTypes, QueueTypes, WorkerTypes, ResultTypes, Agree, Placed, Counted,
       InState, CutOff, Current, AtWork, Behind, Heard, Live, vars, owner, intake, worker, results

LEMMA NextKeeps == IInv /\ [Next]_vars => IInv'
<1> SUFFICES ASSUME IInv, [Next]_vars PROVE IInv'
  OBVIOUS
<1>1. CASE OwnerStep
  BY <1>1, RequestKeeps, CutKeeps, ReleaseKeeps, SetStateOnOwnerKeeps, NotifyAtTheEndKeeps,
     JoinWorkerKeeps DEF OwnerStep
<1>2. CASE WorkerStep
  BY <1>2, AwaitLifecycleBoundaryKeeps, EvaluateConditionKeeps, SleepKeeps, WakeUpKeeps, WaitPopKeeps,
     CancelledKeeps, ResetKeeps, ChosenKeeps, TerminateKeeps, ClearKeeps, BeginKeeps,
     ProcessChunkKeeps, EndKeeps, ThrowKeeps, RecordWorkerFailureKeeps DEF WorkerStep
<1>3. ASSUME NEW o \in {"switch", "reset", "cancel", "restart", "stop", "shutdown"}, Call(o)
      PROVE  IInv'
  BY <1>3, CallKeeps
<1>4. ASSUME NEW token \in 1 .. gen, NEW size \in Sizes, EnqueuePcm16(token, size)
      PROVE  IInv'
  BY <1>4, EnqueuePcm16Keeps
<1>5. CASE Start \/ StartFails \/ DeliverVis \/ DeliverWorkerError
  BY <1>5, StartKeeps, StartFailsKeeps, DeliverVisKeeps, DeliverWorkerErrorKeeps
<1>6. CASE UNCHANGED vars
  BY <1>6, StutterKeeps
<1>7. QED
  BY <1>1, <1>2, <1>3, <1>4, <1>5, <1>6 DEF Next

LEMMA Invariance == Spec => []IInv
BY InitHolds, NextKeeps, PTL DEF Spec

LEMMA Implied == IInv => RuntimeInv
<1> SUFFICES ASSUME IInv PROVE RuntimeInv
  OBVIOUS
<1>1. TypeOK
  BY DEF IInv, TypeOK, OwnerTypes, IntakeTypes, QueueTypes, WorkerTypes, ResultTypes
<1>2. OneBlockAhead
  BY DEF IInv, Behind, ResultTypes, OneBlockAhead
<1>3. QED
  BY <1>1, <1>2 DEF IInv, RuntimeInv

(* Whatever the owner calls, the callback brings and the worker does, in    *)
(* whatever order their steps come: runtime, ingress, queue and worker      *)
(* agree when no call is under way, a call waits for one block at most, and *)
(* the queue keeps to both its bounds.                                      *)
THEOREM RuntimeIsSound == Spec => []RuntimeInv
BY Invariance, Implied, PTL

-----------------------------------------------------------------------------
(* The observers of VIS codes are told by deliverVisNotification only.      *)
LEMMA OnlyDeliverVisTells ==
    ASSUME Next, emitted' # emitted
    PROVE  DeliverVis
<1>1. ~OwnerStep
  BY DEF OwnerStep, Request, Cut, Release, SetStateOnOwner, NotifyAtTheEnd, JoinWorker, results
<1>2. ~WorkerStep
  BY DEF WorkerStep, AwaitLifecycleBoundary, EvaluateCondition, Sleep, WakeUp, WaitPop, Cancelled,
         Reset, Chosen, Terminate, Clear, Begin, ProcessChunk, End, Throw, RecordWorkerFailure, results
<1>3. \A o : ~Call(o)
  BY DEF Call, results
<1>4. \A token, size : ~EnqueuePcm16(token, size)
  BY DEF EnqueuePcm16, results
<1>5. ~Start /\ ~StartFails /\ ~DeliverWorkerError
  BY DEF Start, StartFails, DeliverWorkerError
<1>6. QED
  BY <1>1, <1>2, <1>3, <1>4, <1>5 DEF Next

(* A VIS code the observers are told of was heard in the stream that is     *)
(* current and not cancelled, however late its notification is delivered.   *)
THEOREM VisIsOfTheCurrent == Spec => VisOfTheCurrent
<1>1. ASSUME IInv, [Next]_vars
      PROVE  [emitted' # emitted => vis = gen /\ ingress = "Active"]_vars
  <2> SUFFICES ASSUME Next, emitted' # emitted
               PROVE  vis = gen /\ ingress = "Active"
    BY <1>1 DEF vars
  <2>1. DeliverVis
    BY OnlyDeliverVisTells
  <2>2. op = "none" /\ state = "Running" /\ route = vis
    BY <2>1 DEF DeliverVis, DeliversVis
  <2>3. QED
    BY <1>1, <2>2 DEF IInv, Agree
<1>2. QED
  BY <1>1, Invariance, PTL DEF Spec, VisOfTheCurrent


-----------------------------------------------------------------------------
(* The stream of SstvRxStream.  What waits in it is the block the worker    *)
(* has in hand, while it is live, and then the queue.                       *)

Waiting == IF Live(hand) THEN <<hand>> \o queue ELSE queue

(* What is left of s after its first k blocks, as SstvRxStream puts it      *)
LEMMA WithoutTheFirst ==
    ASSUME NEW s \in Seq(Block), NEW k \in 0 .. Len(s)
    PROVE  Stream!Without(s, 0, k + 1) = SubSeq(s, k + 1, Len(s))
<1>1. SubSeq(s, 1, 0) = <<>>
  BY SubSeqEmpty
<1>2. SubSeq(s, k + 1, Len(s)) \in Seq(Block)
  BY Remainder
<1>3. <<>> \o SubSeq(s, k + 1, Len(s)) = SubSeq(s, k + 1, Len(s))
  BY <1>2, ConcatEmptySeq
<1>4. QED
  BY <1>1, <1>3 DEF Stream!Without

(* ... and after its second to k + 1st, with the first in hand.             *)
LEMMA WithoutTheNext ==
    ASSUME NEW h \in Block, NEW s \in Seq(Block), NEW k \in 0 .. Len(s)
    PROVE  /\ <<h>> \o s \in Seq(Block) /\ Len(<<h>> \o s) = Len(s) + 1
           /\ Stream!Without(<<h>> \o s, 1, k + 2) = <<h>> \o SubSeq(s, k + 1, Len(s))
<1> DEFINE t == <<h>> \o s
           r == SubSeq(s, k + 1, Len(s))
           u == SubSeq(t, k + 2, Len(t))
<1>1. Len(s) \in Nat /\ <<h>> \in Seq(Block) /\ Len(<<h>>) = 1 /\ <<h>>[1] = h
  OBVIOUS
<1>2. /\ t \in Seq(Block) /\ Len(t) = Len(s) + 1
      /\ \A i \in 1 .. Len(s) + 1 : t[i] = IF i <= 1 THEN h ELSE s[i - 1]
  BY <1>1, ConcatProperties
<1> HIDE DEF t
<1>3. r \in Seq(Block) /\ Len(r) = Len(s) - k /\ \A i \in 1 .. Len(r) : r[i] = s[k + i]
  BY Remainder
<1>4. u \in Seq(Block) /\ Len(u) = Len(s) - k /\ \A i \in 1 .. Len(u) : u[i] = t[(k + 1) + i]
  <2>1. k + 1 \in 0 .. Len(t) /\ (k + 1) + 1 = k + 2
    BY <1>1, <1>2
  <2>2. LET q == SubSeq(t, (k + 1) + 1, Len(t))
        IN q \in Seq(Block) /\ Len(q) = Len(t) - (k + 1) /\ \A i \in 1 .. Len(q) : q[i] = t[(k + 1) + i]
    BY <1>2, <2>1, Remainder
  <2>3. Len(t) - (k + 1) = Len(s) - k
    BY <1>1, <1>2
  <2>4. QED
    BY <2>1, <2>2, <2>3
<1> HIDE DEF r, u
<1>5. u = r
  <2>1. \A i \in 1 .. Len(u) : u[i] = r[i]
    <3> SUFFICES ASSUME NEW i \in 1 .. Len(u) PROVE u[i] = r[i]
      OBVIOUS
    <3>1. (k + 1) + i \in 1 .. Len(s) + 1 /\ ~((k + 1) + i <= 1) /\ ((k + 1) + i) - 1 = k + i
      BY <1>1, <1>4
    <3>2. t[(k + 1) + i] = s[k + i]
      BY <1>2, <3>1
    <3>3. QED
      BY <1>3, <1>4, <3>2
  <2>2. QED
    BY <1>3, <1>4, <2>1, SeqEqual
<1>6. SubSeq(t, 1, 1) = <<h>>
  <2>1. 1 \in 1 .. Len(t) /\ t[1] = h
    BY <1>1, <1>2
  <2> DEFINE v == SubSeq(t, 1, 1)
  <2>2. v \in Seq(Block) /\ Len(v) = 1 /\ v[1] = h
    <3>1. \A i \in 1 .. 1 : t[i] \in Block
      BY <2>1
    <3>2. /\ v \in Seq(Block) /\ Len(v) = IF 1 <= 1 THEN 1 - 1 + 1 ELSE 0
          /\ \A i \in 1 .. 1 - 1 + 1 : v[i] = t[1 + i - 1]
      BY <3>1, SubSeqProperties
    <3>3. 1 \in 1 .. 1 - 1 + 1 /\ 1 + 1 - 1 = 1
      OBVIOUS
    <3>4. QED
      BY <2>1, <3>2, <3>3
  <2> HIDE DEF v
  <2>3. \A i \in 1 .. Len(v) : v[i] = <<h>>[i]
    BY <1>1, <2>2
  <2>4. v = <<h>>
    BY <1>1, <2>2, <2>3, SeqEqual
  <2>5. QED
    BY <2>4 DEF v
<1>7. Stream!Without(t, 1, k + 2) = <<h>> \o r
  BY <1>5, <1>6 DEF Stream!Without, u
<1>8. QED
  BY <1>2, <1>7 DEF t, r

LEMMA TailOfHand ==
    ASSUME NEW h \in Block, NEW s \in Seq(Block)
    PROVE  /\ <<h>> \o s # <<>> /\ Head(<<h>> \o s) = h /\ Tail(<<h>> \o s) = s
<1> DEFINE t == <<h>> \o s
<1>1. Len(s) \in Nat /\ <<h>> \in Seq(Block) /\ Len(<<h>>) = 1 /\ <<h>>[1] = h
  OBVIOUS
<1>2. /\ t \in Seq(Block) /\ Len(t) = Len(s) + 1
      /\ \A i \in 1 .. Len(s) + 1 : t[i] = IF i <= 1 THEN h ELSE s[i - 1]
  BY <1>1, ConcatProperties
<1> HIDE DEF t
<1>3. t # <<>> /\ Head(t) = t[1]
  BY <1>1, <1>2
<1>4. t[1] = h
  BY <1>1, <1>2
<1>5. Tail(t) \in Seq(Block) /\ Len(Tail(t)) = Len(s)
         /\ \A i \in 1 .. Len(s) : Tail(t)[i] = t[i + 1]
  BY <1>1, <1>2, <1>3, HeadTailProperties
<1>6. \A i \in 1 .. Len(s) : t[i + 1] = s[i]
  <2> SUFFICES ASSUME NEW i \in 1 .. Len(s) PROVE t[i + 1] = s[i]
    OBVIOUS
  <2>1. i + 1 \in 1 .. Len(s) + 1 /\ ~(i + 1 <= 1) /\ (i + 1) - 1 = i
    BY <1>1
  <2>2. QED
    BY <1>2, <2>1
<1>7. Tail(t) = s
  BY <1>5, <1>6, SeqEqual
<1>8. QED
  BY <1>3, <1>4, <1>7 DEF t

LEMMA HeadThenTail ==
    ASSUME NEW s \in Seq(Block), s # <<>>
    PROVE  s = <<Head(s)>> \o Tail(s)
<1> DEFINE h == Head(s)
           r == Tail(s)
           t == <<h>> \o r
<1>1. Len(s) \in Nat /\ 1 \in 1 .. Len(s) /\ h = s[1] /\ h \in Block
  OBVIOUS
<1>2. r \in Seq(Block) /\ Len(r) = Len(s) - 1 /\ \A i \in 1 .. Len(r) : r[i] = s[i + 1]
  BY HeadTailProperties
<1>3. <<h>> \in Seq(Block) /\ Len(<<h>>) = 1 /\ <<h>>[1] = h
  BY <1>1
<1> HIDE DEF h, r
<1>4. /\ t \in Seq(Block) /\ Len(t) = 1 + Len(r)
      /\ \A i \in 1 .. 1 + Len(r) : t[i] = IF i <= 1 THEN <<h>>[i] ELSE r[i - 1]
  BY <1>2, <1>3, ConcatProperties
<1> HIDE DEF t
<1>5. \A i \in 1 .. Len(s) : s[i] = t[i]
  <2> SUFFICES ASSUME NEW i \in 1 .. Len(s) PROVE s[i] = t[i]
    OBVIOUS
  <2>1. CASE i = 1
    BY <1>1, <1>2, <1>3, <1>4, <2>1
  <2>2. CASE i # 1
    <3>1. i - 1 \in 1 .. Len(r) /\ i \in 1 .. 1 + Len(r) /\ ~(i <= 1) /\ (i - 1) + 1 = i
      BY <1>1, <1>2, <2>2
    <3>2. QED
      BY <1>2, <1>4, <3>1
  <2>3. QED
    BY <2>1, <2>2
<1>6. s = t
  BY <1>1, <1>2, <1>4, <1>5, SeqEqual
<1>7. QED
  BY <1>6 DEF t, h, r

LEMMA AppendToHand ==
    ASSUME NEW h \in Block, NEW s \in Seq(Block), NEW b \in Block
    PROVE  <<h>> \o Append(s, b) = Append(<<h>> \o s, b)
<1>1. <<h>> \in Seq(Block) /\ <<b>> \in Seq(Block) /\ <<h>> \o s \in Seq(Block)
  OBVIOUS
<1>2. Append(s, b) = s \o <<b>> /\ Append(<<h>> \o s, b) = (<<h>> \o s) \o <<b>>
  BY <1>1, AppendIsConcat
<1>3. QED
  BY <1>1, <1>2, ConcatAssociative

(* Steps that touch neither the intake nor what the worker holds            *)
LEMMA StreamUnmoved ==
    ASSUME UNCHANGED <<ingress, gen, next, queue, decoded, hand>>
    PROVE  UNCHANGED Stream!vars
BY DEF Stream!vars, Live

LEMMA LiveIsABlock ==
    ASSUME IInv, Live(hand)
    PROVE  hand \in Block /\ queue \in Seq(Block)
BY DEF IInv, WorkerTypes, QueueTypes, Live

(* A stream that was cut                                                    *)
LEMMA StreamCut ==
    ASSUME IInv, gen' \in {gen, gen + 1}, gen' = gen + 1 \/ ingress' # "Active",
           next' = 0, queue' = <<>>, UNCHANGED <<decoded, hand>>
    PROVE  Stream!Next
<1>1. ~Live(hand)'
  <2>1. hand # None => hand.gen \in Nat /\ hand.gen <= gen /\ gen \in Nat
    BY HandIsABlock, Numbers DEF IInv, AtWork
  <2>2. hand # None /\ gen' = gen + 1 => hand.gen # gen'
    BY <2>1
  <2>3. QED
    BY <2>2 DEF Live
<1>2. Waiting' = <<>>
  BY <1>1 DEF Waiting
<1>3. QED
  BY <1>2 DEF Stream!Next, Stream!Cut, Waiting

(* The block in hand is lost, if it is live.                                *)
LEMMA StreamLoses ==
    ASSUME IInv, hand' = None, UNCHANGED <<ingress, gen, next, queue, decoded>>
    PROVE  [Stream!Next]_(Stream!vars)
<1>1. ~Live(hand)' /\ Waiting' = queue
  BY DEF Live, Waiting
<1>2. CASE Live(hand)
  <2>1. hand \in Block /\ queue \in Seq(Block) /\ Waiting = <<hand>> \o queue
    BY <1>2, LiveIsABlock DEF Waiting
  <2>2. Waiting \in Seq(Block) /\ Len(Waiting) = Len(queue) + 1 /\ Len(queue) \in Nat
    BY <2>1, WithoutTheNext
  <2>3. Stream!Without(Waiting, 0, 2) = SubSeq(Waiting, 2, Len(Waiting))
    <3>1. 1 \in 0 .. Len(Waiting) /\ 1 + 1 = 2
      BY <2>2
    <3>2. Stream!Without(Waiting, 0, 1 + 1) = SubSeq(Waiting, 1 + 1, Len(Waiting))
      BY <2>2, <3>1, WithoutTheFirst
    <3>3. QED
      BY <3>1, <3>2
  <2>4. SubSeq(Waiting, 2, Len(Waiting)) = queue
    <3>1. Waiting # <<>> /\ Tail(Waiting) = SubSeq(Waiting, 2, Len(Waiting))
      BY <2>2, TailIsSubSeq
    <3>2. Tail(Waiting) = queue
      BY <2>1, TailOfHand
    <3>3. QED
      BY <3>1, <3>2
  <2>5. Waiting' = Stream!Without(Waiting, 0, 2)
    BY <1>1, <2>3, <2>4
  <2>6. 0 \in 0 .. Len(Waiting) /\ 2 \in 0 + 1 .. Len(Waiting) + 1
    BY <2>2
  <2>7. Stream!Lose
    BY <2>5, <2>6 DEF Stream!Lose, Waiting
  <2>8. QED
    BY <2>7 DEF Stream!Next
<1>3. CASE ~Live(hand)
  <2>1. Waiting' = Waiting
    BY <1>1, <1>3 DEF Waiting
  <2>2. QED
    BY <2>1 DEF Stream!vars, Waiting
<1>4. QED
  BY <1>2, <1>3

(* A block is accepted; the first k of the queue drop out.                  *)
LEMMA StreamAccepts ==
    ASSUME IInv, NEW token \in 1 .. gen, NEW size \in Sizes, EnqueuePcm16(token, size)
    PROVE  Stream!Next
<1> DEFINE b == [gen |-> gen, seq |-> next, size |-> size]
           room == MakeRoom(queue, size)
<1>1. token = gen /\ next' = next + 1 /\ UNCHANGED <<ingress, gen, hand, decoded>>
         /\ queue' = Append(room, b)
  BY DEF EnqueuePcm16, Accepts, results
<1>2. queue \in Seq(Block) /\ Len(queue) \in Nat
  BY DEF IInv, QueueTypes
<1>3. b \in Block
  BY <1>1, NewBlockIsOne DEF EnqueuePcm16
<1>4. PICK k \in 0 .. Len(queue) : room = SubSeq(queue, k + 1, Len(queue))
  BY <1>2, RoomIsMade
<1>5. room \in Seq(Block)
  BY <1>2, <1>4, Remainder
<1>6. Live(hand)' = Live(hand)
  BY <1>1 DEF Live
<1> HIDE DEF b, room
<1>7. \E i \in 0 .. Len(Waiting) : \E j \in i + 1 .. Len(Waiting) + 1 :
         Waiting' = Append(Stream!Without(Waiting, i, j), b)
  <2>1. CASE Live(hand)
    <3>1. hand \in Block /\ Waiting = <<hand>> \o queue /\ Waiting' = <<hand>> \o Append(room, b)
      BY <1>1, <1>6, <2>1, LiveIsABlock DEF Waiting
    <3>2. Len(Waiting) = Len(queue) + 1
             /\ Stream!Without(Waiting, 1, k + 2) = <<hand>> \o room
      BY <1>2, <1>4, <3>1, WithoutTheNext
    <3>3. Waiting' = Append(<<hand>> \o room, b)
      BY <1>3, <1>5, <3>1, AppendToHand
    <3>4. 1 \in 0 .. Len(Waiting) /\ k + 2 \in 1 + 1 .. Len(Waiting) + 1
      BY <1>2, <3>2
    <3>5. QED
      BY <3>2, <3>3, <3>4
  <2>2. CASE ~Live(hand)
    <3>1. Waiting = queue /\ Waiting' = Append(room, b)
      BY <1>1, <1>6, <2>2 DEF Waiting
    <3>2. Stream!Without(Waiting, 0, k + 1) = room
      BY <1>2, <1>4, <3>1, WithoutTheFirst
    <3>3. 0 \in 0 .. Len(Waiting) /\ k + 1 \in 0 + 1 .. Len(Waiting) + 1
      BY <1>2, <3>1
    <3>4. QED
      BY <3>1, <3>2, <3>3
  <2>3. QED
    BY <2>1, <2>2
<1>8. Stream!Accept
  BY <1>1, <1>7 DEF Stream!Accept, Waiting, b
<1>9. QED
  BY <1>8 DEF Stream!Next

LEMMA StreamStep == IInv /\ [Next]_vars => [Stream!Next]_(Stream!vars)
<1> SUFFICES ASSUME IInv, [Next]_vars PROVE [Stream!Next]_(Stream!vars)
  OBVIOUS
<1>1. CASE Start
  <2>1. gen' = gen + 1 /\ next' = 0 /\ queue' = <<>> /\ UNCHANGED <<decoded, hand>>
    BY <1>1 DEF Start, NewGeneration
  <2>2. QED
    BY <2>1, StreamCut
<1>2. CASE StartFails
  <2>1. gen' = gen + 1 /\ next' = 0 /\ queue' = <<>> /\ UNCHANGED <<decoded, hand>>
    BY <1>2 DEF StartFails, worker
  <2>2. QED
    BY <2>1, StreamCut
<1>3. CASE Cut
  <2>1. UNCHANGED <<decoded, hand>>
    BY <1>3 DEF Cut
  <2>2. CASE NewGeneration
    BY <2>1, <2>2, StreamCut DEF NewGeneration
  <2>3. ASSUME NEW closed \in {"Cancelled", "Inactive", "Shutdown"}, Close(closed)
        PROVE  Stream!Next
    BY <2>1, <2>3, StreamCut DEF Close
  <2>4. CASE UNCHANGED intake
    BY <2>1, <2>4, StreamUnmoved DEF intake
  <2>5. QED
    BY <1>3, <2>2, <2>3, <2>4 DEF Cut
<1>4. ASSUME NEW token \in 1 .. gen, NEW size \in Sizes, EnqueuePcm16(token, size)
      PROVE  Stream!Next
  BY <1>4, StreamAccepts
<1>5. CASE WaitPop
  <2>1. UNCHANGED <<ingress, gen, next, decoded>> /\ hand = None
    BY <1>5 DEF WaitPop, results, IInv, AtWork
  <2>2. \/ hand' = None /\ queue' = queue
        \/ queue # <<>> /\ hand' = Head(queue) /\ queue' = Tail(queue)
    BY <1>5, <2>1 DEF WaitPop, Take
  <2>3. CASE hand' = None /\ queue' = queue
    BY <2>1, <2>3, StreamUnmoved
  <2>4. CASE queue # <<>> /\ hand' = Head(queue) /\ queue' = Tail(queue)
    <3>1. queue \in Seq(Block)
      BY DEF IInv, QueueTypes
    <3>2. Head(queue) \in Block /\ Head(queue).gen = gen /\ ingress = "Active"
      <4>1. Head(queue) = queue[1] /\ 1 \in 1 .. Len(queue)
        BY <2>4, <3>1
      <4>2. QED
        BY <2>4, <3>1, <4>1 DEF IInv, Current
    <3>3. Head(queue) # None
      <4>1. Head(queue).gen # 0
        BY <3>2 DEF Block
      <4>2. QED
        BY <4>1 DEF None
    <3>4. Live(hand)' /\ ~Live(hand)
      BY <2>1, <2>4, <3>2, <3>3 DEF Live
    <3>5. queue = <<Head(queue)>> \o Tail(queue)
      BY <2>4, <3>1, HeadThenTail
    <3>6. Waiting' = Waiting
      BY <2>4, <3>4, <3>5 DEF Waiting
    <3>7. QED
      BY <2>1, <3>6 DEF Stream!vars, Waiting
  <2>5. QED
    BY <2>2, <2>3, <2>4
<1>6. CASE Chosen \/ Clear
  <2>1. UNCHANGED <<ingress, gen, next, queue, decoded>>
    BY <1>6 DEF Chosen, Clear, intake, results
  <2>2. hand' = hand \/ (~Live(hand) /\ hand' = None)
    BY <1>6 DEF Chosen, Clear
  <2>3. Waiting' = Waiting
    BY <2>1, <2>2 DEF Waiting, Live
  <2>4. QED
    BY <2>1, <2>3 DEF Stream!vars, Waiting
<1>7. CASE ProcessChunk
  <2>1. UNCHANGED <<ingress, gen, next, queue>> /\ decoded' = hand /\ hand' = None
    BY <1>7 DEF ProcessChunk, intake
  <2>2. Live(hand) /\ ~Live(hand)'
    BY <1>7, <2>1 DEF ProcessChunk, IInv, AtWork, Live
  <2>3. hand \in Block /\ queue \in Seq(Block)
    BY <2>2, LiveIsABlock
  <2>4. Waiting = <<hand>> \o queue /\ Waiting' = queue
    BY <2>1, <2>2 DEF Waiting
  <2>5. Waiting # <<>> /\ Head(Waiting) = hand /\ Tail(Waiting) = queue
    BY <2>3, <2>4, TailOfHand
  <2>6. Stream!Decode
    BY <2>1, <2>4, <2>5 DEF Stream!Decode, Waiting
  <2>7. QED
    BY <2>6 DEF Stream!Next
<1>8. CASE End \/ Throw
  BY <1>8, StreamLoses DEF End, Throw, intake, results
<1>9. CASE Request \/ Release \/ SetStateOnOwner \/ NotifyAtTheEnd \/ JoinWorker
  BY <1>9, StreamUnmoved DEF Request, Release, SetStateOnOwner, NotifyAtTheEnd, JoinWorker,
     intake, worker, results
<1>10. CASE AwaitLifecycleBoundary \/ EvaluateCondition \/ Sleep \/ WakeUp \/ Cancelled \/ Reset
  BY <1>10, StreamUnmoved DEF AwaitLifecycleBoundary, EvaluateCondition, Sleep, WakeUp, Cancelled,
     Reset, intake, results
<1>11. CASE Terminate \/ Begin \/ RecordWorkerFailure
  BY <1>11, StreamUnmoved DEF Terminate, Begin, RecordWorkerFailure, intake
<1>12. ASSUME NEW o, Call(o) PROVE UNCHANGED Stream!vars
  BY <1>12, StreamUnmoved DEF Call, intake, worker, results
<1>13. CASE DeliverVis \/ DeliverWorkerError \/ UNCHANGED vars
  BY <1>13, StreamUnmoved DEF DeliverVis, DeliverWorkerError, vars, intake, worker, results
<1>14. QED
  BY <1>1, <1>2, <1>3, <1>4, <1>5, <1>6, <1>7, <1>8, <1>9, <1>10, <1>11, <1>12, <1>13
     DEF Next, OwnerStep, WorkerStep

(* Blocks are decoded in the order in which they came, each at most once,   *)
(* only in their own generation and never after it was cut.                 *)
THEOREM StreamIsKept == Spec => StreamKept
<1>1. Init => Stream!Init
  BY DEF Init, Stream!Init, Stream!None, None, Live
<1>2. QED
  BY <1>1, StreamStep, Invariance, PTL DEF Spec, StreamKept, Stream!Spec
=============================================================================
