-------------------------- MODULE MCSstvTxSession --------------------------
EXTENDS SstvTxSession

\* As in MCSstvTxLifecycle: a step can fall short of, meet or pass a budget,
\* a lead and a tail last one unit, and an OFF is due again before the
\* release times out.
MCTimeout == [state \in TimedStates |-> 2]
=============================================================================
