--------------------------- MODULE MCAdjacencyV3 ---------------------------
(* Small instances of AdjacencyV3 for TLC.                                 *)
EXTENDS AdjacencyV3

CONSTANT alien  \* the key of the LSA of another router

MCRouterIds == {1, 2}
With(kinds) == [e \in EventKind |-> IF e \in kinds THEN 1 ELSE 0]
EachFault == {With({"lose", "learn"}), With({"restart"}), With({"expire"}), With({"flap"})}
ExpireAndLearn == {With({"expire", "learn"})}
LossyTypes == {"hello", "lsr", "lsu"}
=============================================================================
