------------------------------ MODULE MCClient ------------------------------
(* Small workspaces for the model checker. *)
EXTENDS Client

(* A single path. *)
OnePaths == {"a"}
OneAnc == [p \in OnePaths |-> {}]

(* Two side by side. *)
FlatPaths == {"a", "b"}
FlatAnc == [p \in FlatPaths |-> {}]
=============================================================================
