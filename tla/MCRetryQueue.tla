---------------------------- MODULE MCRetryQueue ----------------------------
\* Instance of RetryQueue: two sinks, one of which refuses a revision, and
\* two pool workers beside the retry goroutine.
EXTENDS RetryQueue

CONSTANTS s1, s2, h1, h2, k1

MCSinks == {s1, s2}
MCHandlers == {h1, h2}
MCKeys == {k1}

RefuseNone == [s \in MCSinks |-> {}]
RefuseFirst == [s \in MCSinks |-> IF s = s1 THEN {1} ELSE {}]
=============================================================================
