--------------------------- MODULE MCDecoPortCatMux ---------------------------
(* A small instance of DecoPortCatMux: a program on TCP, one on a serial   *)
(* port, the first of them trusted.                                        *)
EXTENDS DecoPortCatMux

CONSTANTS a, s

OneTcp == {a}
OneSerial == {s}
=============================================================================
