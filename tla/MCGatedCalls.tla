----------------------------- MODULE MCGatedCalls -----------------------------
(***************************************************************************)
(* The calls of a small session: it may read, edit a file or a protected   *)
(* one the same approval covers, and start a process nothing scopes.       *)
(***************************************************************************)
EXTENDS GatedCalls

MCKeys    == {"read", "edit", "format", "start"}
MCScopeOf == [k \in MCKeys |-> IF k = "format" THEN "edit" ELSE k]
=============================================================================
