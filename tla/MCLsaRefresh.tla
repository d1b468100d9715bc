---------------------------- MODULE MCLsaRefresh ----------------------------
(* Small instances of LsaRefresh: an LSA is refreshed after two intervals  *)
(* and expires after five.                                                 *)
EXTENDS LsaRefresh

MCMinSeq == -1
MCBodies == {"lsa"}
MCChecksum(seq, body) == (seq + 1) % 3
=============================================================================
