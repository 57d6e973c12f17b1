------------------------- MODULE MCCoalescingQueue -------------------------
\* Instance of CoalescingQueue: more pods than the queue holds, and enough
\* events for a pod to be dropped twice before it is queued again.
EXTENDS CoalescingQueue, TLC

CONSTANTS a, b, c

MCPods == {a, b, c}
=============================================================================
