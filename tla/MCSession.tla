----------------------------- MODULE MCSession ------------------------------
(* Machines for the model checker. *)
EXTENDS Session

Good == [userns |-> TRUE, idmap |-> "ok", private |-> TRUE, overlay |-> "ok",
         fuse |-> FALSE, apparmor |-> FALSE]

(* Ubuntu 24.04 as it comes, and machines that refuse one step each. *)
Restricted == [Good EXCEPT !.idmap = "apparmor", !.apparmor = TRUE]
Others == {[Good EXCEPT !.userns = FALSE], [Good EXCEPT !.idmap = "denied"],
           [Good EXCEPT !.private = FALSE], [Good EXCEPT !.overlay = "other"],
           [Good EXCEPT !.overlay = "perm"]}

OneMachine == {Good}
AllMachines == {Good, Restricted} \cup Others
=============================================================================
