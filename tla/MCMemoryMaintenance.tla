------------------------- MODULE MCMemoryMaintenance -------------------------
(* MemoryMaintenance with a fact of the owner's, one of the daemon's own,    *)
(* and an external one.                                                      *)
EXTENDS MemoryMaintenance

CONSTANTS owned, own, foreign

MCFacts == {owned, own, foreign}
MCSources == [f \in MCFacts |->
                 CASE f = owned -> "user" [] f = own -> "self" [] OTHER -> "external"]
=============================================================================
