--------------------------- MODULE MCSpfThrottle ---------------------------
(* SpfThrottle with hold times that double three times before they reach   *)
(* the maximum.                                                            *)
EXTENDS SpfThrottle
=============================================================================
