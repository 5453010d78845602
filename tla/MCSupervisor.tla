---------------------------- MODULE MCSupervisor ----------------------------
(* Small workspaces for the model checker. *)
EXTENDS Supervisor

(* A single path. *)
OnePaths == {"a"}
OneAnc == [p \in OnePaths |-> {}]

(* A directory-or-file a and a path a/b inside it. *)
TwoPaths == {"a", "a/b"}
TwoAnc == [p \in TwoPaths |-> IF p = "a/b" THEN {"a"} ELSE {}]

(* A chain of three. *)
ThreePaths == {"a", "a/b", "a/b/c"}
ThreeAnc == [p \in ThreePaths |->
               CASE p = "a/b" -> {"a"} [] p = "a/b/c" -> {"a", "a/b"} [] OTHER -> {}]
=============================================================================
