---------------------------- MODULE MCOwnerLock ----------------------------
EXTENDS OwnerLock, TLC
=============================================================================
