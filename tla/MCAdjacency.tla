---------------------------- MODULE MCAdjacency ----------------------------
(* Small instances of Adjacency for TLC.                                   *)
EXTENDS Adjacency

CONSTANT alien  \* the key of an LSA of another router

MCRouterIds == {1, 2}
MCBodies == {"stub", "link"}
\* A checksum that tells the two contents apart and depends on the number.
MCChecksum(seq, body) == IF body = "link" THEN 1 ELSE (seq % 2) * 2
One == {alien}
Two == {alien, 3}  \* and the one of a router 3
None == {}
CapOne == [hello |-> 1, dd |-> 1, lsr |-> 1, backlog |-> 2]
CapTwo == [hello |-> 1, dd |-> 2, lsr |-> 1, backlog |-> 2]
NoFaults == [e \in EventKind |-> 0]
With(kinds) == [e \in EventKind |-> IF e \in kinds THEN 1 ELSE 0]
Quiet    == {NoFaults}
OneNews  == {With({"learn"})}
Faults   == {With({"lose", "restart"}), With({"lose", "expire"}), With({"duplicate"})}
ExpireAndDuplicate == {With({"expire", "duplicate"})}
OneLoss  == {With({"lose"})}
MCSeqMin == -6
=============================================================================
