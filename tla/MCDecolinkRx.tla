----------------------------- MODULE MCDecolinkRx -----------------------------
(* The instances of DecolinkRx need no definitions of their own. *)
EXTENDS DecolinkRx
=============================================================================
