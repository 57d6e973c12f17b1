-------------------------- MODULE MCOverflowQueue --------------------------
\* Instance of OverflowQueue: more identities than it retains, and several
\* tasks for each, so that tasks are replaced while they are submitted.
EXTENDS OverflowQueue

CONSTANTS a, b, c

MCKeys == {a, b, c}
=============================================================================
