---------------------------- MODULE MCWebClient ----------------------------
EXTENDS WebClient, TLC

Revisions == (Room :> 3) @@ (Solo :> 1)
=============================================================================
