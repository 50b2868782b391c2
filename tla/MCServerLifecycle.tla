------------------------- MODULE MCServerLifecycle -------------------------
EXTENDS ServerLifecycle

CONSTANTS r1, r2

TwoRequests == {r1, r2}
TwoTasksEach == TwoRequests \X TaskKinds
=============================================================================
