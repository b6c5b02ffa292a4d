---------------------------- MODULE MCHostedRooms ----------------------------
\* Instances of HostedRooms for TLC.
EXTENDS HostedRooms, TLC

\* Guests are interchangeable.
Symmetric == Permutations(Guest)
=============================================================================
