--------------------------- MODULE MCInventorySync ---------------------------
(* Instances of InventorySync for TLC.                                      *)
EXTENDS InventorySync, TLC

(* Bound: the walks that meet changes are those of servers; the other kind  *)
(* is refreshed too and stays empty.                                        *)
OnlyServers == \A k \in Kinds \ {Server} : world[k] = {}
=============================================================================
