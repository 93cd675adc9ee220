--------------------------- MODULE MCSstvTxBridge ---------------------------
EXTENDS SstvTxBridge

\* As in MCSstvTxSession
MCTimeout == [state \in TimedStates |-> 2]
=============================================================================
