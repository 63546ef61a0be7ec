---------------------------- MODULE MCSyncFeed ----------------------------
(* Small instances of SyncFeed for TLC: axel runs throughout, luna comes and *)
(* goes; bad names a file that does not parse.                             *)
EXTENDS SyncFeed

CONSTANTS axel, luna, n1, n2, bad
=============================================================================
