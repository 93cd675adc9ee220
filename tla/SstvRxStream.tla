------------------------------ MODULE SstvRxStream ------------------------------
(***************************************************************************)
(* What the receiver of pictures promises of the audio it is given: blocks *)
(* are decoded in the order in which they came, each at most once, and     *)
(* only while the stream they came in is the current one.  Blocks may be   *)
(* lost: the queue is bounded and drops the oldest.                        *)
(***************************************************************************)
EXTENDS Integers, Sequences

CONSTANT Sizes      \* of a block, in samples

VARIABLES gen,      \* generations of the stream so far
          next,     \* blocks accepted in this one
          waiting,  \* accepted, neither decoded nor lost
          decoded   \* the block decoded last

vars == <<gen, next, waiting, decoded>>

None == [gen |-> 0, seq |-> 0, size |-> 0]

Init == gen = 0 /\ next = 0 /\ waiting = <<>> /\ decoded = None

(* s without its elements i + 1 .. j - 1 *)
Without(s, i, j) == SubSeq(s, 1, i) \o SubSeq(s, j, Len(s))

Accept == /\ \E size \in Sizes, i \in 0 .. Len(waiting) : \E j \in i + 1 .. Len(waiting) + 1 :
                waiting' = Append(Without(waiting, i, j), [gen |-> gen, seq |-> next, size |-> size])
          /\ next' = next + 1
          /\ UNCHANGED <<gen, decoded>>

Decode == /\ waiting # <<>>
          /\ decoded' = Head(waiting) /\ waiting' = Tail(waiting)
          /\ UNCHANGED <<gen, next>>

Lose == /\ \E i \in 0 .. Len(waiting) : \E j \in i + 1 .. Len(waiting) + 1 :
              waiting' = Without(waiting, i, j)
        /\ UNCHANGED <<gen, next, decoded>>

(* The source is switched, reset, cancelled or stopped. *)
Cut == /\ gen' \in {gen, gen + 1} /\ next' = 0 /\ waiting' = <<>>
       /\ UNCHANGED decoded

Next == Accept \/ Decode \/ Lose \/ Cut

Spec == Init /\ [][Next]_vars
=============================================================================
