--------------------------- MODULE MCSocietyStore ---------------------------
(* Three runs of one market: any two of them share sources, and two or all   *)
(* three can come to wait for each other in a circle.                        *)
EXTENDS SocietyStore, TLC

MCNeeds == "x" :> {"a", "b"} @@ "y" :> {"a", "b", "c"} @@ "z" :> {"a", "c"}
=============================================================================
