------------------------------- MODULE Roles -------------------------------
(* What a role of a workspace allows (backend/internal/workspace).          *)
EXTENDS Naturals

Roles == {"viewer", "operator", "admin", "owner"}
Rank == [none |-> 0, viewer |-> 1, operator |-> 2, admin |-> 3, owner |-> 4]

Allows(role, minimum) == Rank[role] >= Rank[minimum]

CanAssign(actor, role) ==
    role # "none" /\ (actor = "owner" \/ (actor = "admin" /\ role \in {"viewer", "operator"}))

(* The grant classes of a connection, and the role each of them needs.      *)
Classes == {"read", "refresh", "operate", "high_impact"}

WithinCeiling(role, class) == Allows(role, IF class = "read" THEN "viewer" ELSE "operator")
=============================================================================
