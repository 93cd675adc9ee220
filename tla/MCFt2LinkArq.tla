----------------------------- MODULE MCFt2LinkArq -----------------------------
(* One message of four frames; windows and bitmaps scaled down with it.    *)
EXTENDS Ft2LinkArq

CONSTANT m1

OneLong == {m1}
LengthOfOne == [m \in {m1} |-> 4]
=============================================================================
