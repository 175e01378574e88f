------------------------- MODULE MCLockstepBroker -------------------------
(* LockstepBroker with its one UE.                                         *)
EXTENDS LockstepBroker

Both == {0, 1}
=============================================================================
