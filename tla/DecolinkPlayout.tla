---------------------------- MODULE DecolinkPlayout ----------------------------
(***************************************************************************)
(* What the receiver of lossless audio promises its decoder, which works   *)
(* on time: each block of 40 ms is played in its turn or replaced by as    *)
(* much silence.  A hole longer than MaxFill blocks is shortened, and a    *)
(* hole longer than Jump, or another profile, begins a new stream.         *)
(***************************************************************************)
EXTENDS Naturals, Sequences

CONSTANTS Blocks, Silence, MaxFill, Jump

VARIABLES
    on,      \* a stream is being played
    due,     \* the block whose turn it is
    played   \* what the decoder has been given of this stream

Init == on = FALSE /\ due = 0 /\ played = <<>>

(* The turns from `due' up to, and without, `until'. *)
InTurn(s, until) == /\ Len(s) = until - due
                    /\ \A i \in DOMAIN s : s[i] \in {due + i - 1, Silence}

Play == /\ on /\ on' = on
        /\ due' > due
        /\ \E n \in 1 .. Len(played') - Len(played) :
              \E s \in {SubSeq(played', Len(played) + 1, Len(played) + n)} :
                 played' = played \o s /\ InTurn(s, due')

(* A hole of more than MaxFill blocks, and the blocks found behind it. *)
Shorten ==
    /\ on /\ on' = on
    /\ \E gap \in MaxFill + 1 .. Jump :
          /\ due' > due + gap
          /\ played' = played \o [i \in 1 .. MaxFill |-> Silence]
                              \o [i \in 1 .. due' - due - gap |-> due + gap + i - 1]

Begin == /\ on' = TRUE
         /\ on => due' > due + Jump
         /\ played' # <<>>
         /\ \A i \in DOMAIN played' : played'[i] = due' - Len(played') + i - 1

Stop == on' = FALSE /\ due' = 0 /\ played' = <<>>

Next == Play \/ Shorten \/ Begin \/ Stop

Spec == Init /\ [][Next]_<<on, due, played>>
=============================================================================
