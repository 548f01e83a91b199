------------------------- MODULE MCGroupAssignment -------------------------
(***************************************************************************)
(* The profiles of the instance of GroupAssignment.                        *)
(***************************************************************************)
EXTENDS GroupAssignment, TLC

\* Two roles, and two kinds of people: the buckets and the provider.
ProfileOf(role, kind) ==
    [a \in Attributes |-> CASE a = "role" -> role [] a = "stance" -> "None" [] OTHER -> kind]
TwoByTwo == {ProfileOf(r, k) : r \in {"r1", "r2"}, k \in {"k1", "k2"}}
=============================================================================
