---------------------------- MODULE MCRemoteClient ----------------------------
(* Two client objects, so that one connection can replace another; two runs,  *)
(* an operation of the app and one of the timer, or a timer's that overlaps.  *)
EXTENDS RemoteClient
CONSTANTS k1, k2, r1, r2
MCClients == {k1, k2}
MCRuns == {r1, r2}
=============================================================================
