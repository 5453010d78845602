------------------------------- MODULE Client -------------------------------
(***************************************************************************)
(* Programs over one sandbox: a Python program that uses Sandbox freely    *)
(* and nests transaction() blocks (src/agentbox/sandbox.py), or one        *)
(* "agentbox run" (cmd_run of src/agentbox/cli.py).                        *)
(*                                                                         *)
(* The sandbox is that of Supervisor; every step here is one of its steps, *)
(* or none, together with what the program makes of the answer.            *)
(***************************************************************************)
EXTENDS Supervisor

CONSTANTS
  Users,    \* which programs: "api", "cli"
  MaxDepth  \* bound: how deep transactions nest

ASSUME ClientAssumption == Users \subseteq {"api", "cli"} /\ MaxDepth \in Nat

VARIABLES
  user,    \* which program this is
  txs,     \* api: the open transaction() blocks, outermost first
  pos,     \* cli: where cmd_run is
  code,    \* cli: its exit status
  origin,  \* cli, history: the workspace before it began
  left     \* cli, history: what the sandbox showed when its command ended

cvars == <<user, txs, pos, code, origin, left>>
allvars == <<vars, cvars>>

(* tree and kept are history: what the sandbox showed at entry, and that   *)
(* nothing the program itself did since discarded the block's checkpoint.  *)
Blocks == [id : Nat, tree : Tree, kept : BOOLEAN]
Positions == {"init", "checkpoint", "run", "commit", "undo", "close", "raised", "dead", "done"}

Nothing == [p \in Path |-> "absent"]

CInit ==
  /\ Init
  /\ user \in Users
  /\ txs = <<>>
  /\ pos = IF user = "cli" THEN "init" ELSE "done"
  /\ code = "none"
  /\ origin = IF user = "cli" THEN ws ELSE Nothing
  /\ left = Nothing

----------------------------------------------------------------------------
(* A program with transactions. *)

Api == user = "api"
Inner == txs[Len(txs)]
Drop == txs' = SubSeq(txs, 1, Len(txs) - 1)

Forfeit(dead(_)) ==
  txs' = [i \in DOMAIN txs |->
            IF dead(txs[i]) THEN [txs[i] EXCEPT !.kept = FALSE, !.tree = Nothing] ELSE txs[i]]

(* Requests that leave every checkpoint where it is. *)
Request ==
  /\ Api
  /\ \/ Start \/ CheckpointRefused \/ Seal \/ RollbackLatest \/ RollbackRefused
     \/ CommitRefused \/ CommitBegin \/ RunRefused \/ RunBegin \/ RunEnd \/ Diff
     \/ \E p \in Path : MergeFail(p)
     \/ MergeNoLayer
  /\ UNCHANGED cvars

(* Inside a block, too, the program may roll back past it or commit. *)
RollbackPast ==
  /\ Api
  /\ \E i \in DOMAIN ckpts :
       /\ RollbackTo(ckpts[i].id)
       /\ Forfeit(LAMBDA tx : tx.id > ckpts[i].id)
  /\ UNCHANGED <<user, pos, code, origin, left>>

CommitAll ==
  /\ Api
  /\ CommitFinish
  /\ Forfeit(LAMBDA tx : TRUE)
  /\ UNCHANGED <<user, pos, code, origin, left>>

(* close() is not called inside a block. *)
CloseBox ==
  /\ Api
  /\ txs = <<>>
  /\ Shutdown \/ ClientGone
  /\ UNCHANGED cvars

(* The block is entered if its checkpoint is answered OK; if it is not,    *)
(* that is Request's Seal.                                                 *)
Enter ==
  /\ Api
  /\ Len(txs) < MaxDepth
  /\ Seal
  /\ reply'.rc = "OK"
  /\ txs' = Append(txs, [id |-> nextNum, tree |-> Shown(Live), kept |-> TRUE])
  /\ UNCHANGED <<user, pos, code, origin, left>>

Leave ==
  /\ Api
  /\ phase = "idle"
  /\ txs # <<>>
  /\ Drop
  /\ UNCHANGED <<vars, user, pos, code, origin, left>>

(* Mutant: rolls back to the newest checkpoint, whichever that is. *)
UndoNewest(id) == RollbackLatest

(* rollback(ckpt_id) *)
Undo(id) ==
  \/ RollbackTo(id)
  \/ /\ phase = "idle"
     /\ \A i \in DOMAIN ckpts : ckpts[i].id # id
     /\ Refuse("ROLLBACK", "CHECKPOINT_NOT_FOUND")
  \/ phase = "idle" /\ UnmountFails /\ Refuse("ROLLBACK", "MOUNT_FAILED")

(* The block raises: its checkpoint is rolled back to, and whatever that   *)
(* answers the block is over.  What it raised may be caught outside.       *)
Raise ==
  /\ Api
  /\ txs # <<>>
  /\ Undo(Inner.id)
  /\ Drop
  /\ UNCHANGED <<user, pos, code, origin, left>>

----------------------------------------------------------------------------
(* agentbox run. *)

Cli(p) == user = "cli" /\ pos = p
To(p) == pos' = p

(* On to p if the answer is OK, and an uncaught exception otherwise. *)
Answered(p) ==
  IF reply'.rc = "OK" THEN To(p) /\ UNCHANGED code ELSE To("raised") /\ code' = "1"

CliStart ==
  /\ Cli("init")
  /\ Start
  /\ Answered("checkpoint")
  /\ UNCHANGED <<user, txs, origin, left>>

CliCheckpoint ==
  /\ Cli("checkpoint")
  /\ Seal \/ CheckpointRefused
  /\ Answered("run")
  /\ UNCHANGED <<user, txs, origin, left>>

CliRun ==
  /\ Cli("run")
  /\ RunBegin
  /\ UNCHANGED cvars

(* Mutant: on a timeout the change is kept. *)
VerdictKeepsTimeout(status) ==
  IF status = "timeout" THEN <<"commit", "124">>
  ELSE IF status = "0" THEN <<"commit", "0">> ELSE <<"undo", status>>

(* Mutant: a timeout is not given its own exit status. *)
VerdictRawStatus(status) ==
  IF status = "0" THEN <<"commit", "0">> ELSE <<"undo", status>>

(* What cmd_run makes of a result: where to go, and its exit status. *)
Verdict(status) ==
  IF status = "timeout" THEN <<"undo", "124">>
  ELSE IF status = "0" THEN <<"commit", "0">> ELSE <<"undo", status>>

CliRunEnds ==
  /\ Cli("run")
  /\ RunEnd
  /\ \E status \in {"timeout", "0", "n"} :
       LET v == Verdict(status) IN pos' = v[1] /\ code' = v[2]
  /\ left' = Shown(Live)
  /\ UNCHANGED <<user, txs, origin>>

(* AgentboxError from run(). *)
CliRunFails ==
  /\ Cli("run")
  /\ RunRefused
  /\ To("undo")
  /\ code' = "1"
  /\ UNCHANGED <<user, txs, origin, left>>

CliUndo ==
  /\ Cli("undo")
  /\ Undo(0)   \* its only checkpoint
  /\ Answered("close")
  /\ UNCHANGED <<user, txs, origin, left>>

CliCommit ==
  /\ Cli("commit")
  /\ \/ CommitBegin /\ UNCHANGED cvars
     \/ /\ \/ CommitRefused
           \/ \E p \in Path : MergeFail(p)
           \/ MergeNoLayer
           \/ CommitFinish
        /\ Answered("close")
        /\ UNCHANGED <<user, txs, origin, left>>

(* After an exception __del__ may or may not close the sandbox. *)
CliClose ==
  /\ \/ Cli("close") /\ Shutdown
     \/ Cli("raised") /\ (Shutdown \/ ClientGone \/ (phase = "closed" /\ UNCHANGED vars))
  /\ To("done")
  /\ UNCHANGED <<user, txs, code, origin, left>>

(* Killed at any time: the supervisor finishes the request it is at. *)
CliKilled ==
  /\ user = "cli"
  /\ pos \notin {"init", "done", "dead"}
  /\ To("dead")
  /\ code' = "killed"
  /\ UNCHANGED <<vars, user, txs, origin, left>>

Unattended ==
  /\ Cli("dead")
  /\ \/ RunEnd \/ MergeNoLayer \/ CommitFinish \/ ClientGone
     \/ \E p \in Path : MergeFail(p)
  /\ left' = IF phase = "running" THEN Shown(Live) ELSE left
  /\ UNCHANGED <<user, txs, pos, code, origin>>

(* What the supervisor and its processes do by themselves. *)
Internal ==
  /\ CommandOp \/ StrayOp \/ MergeNextLayer \/ \E p \in Path : MergeVisit(p)
  /\ UNCHANGED cvars

CNext ==
  \/ Request \/ RollbackPast \/ CommitAll \/ CloseBox
  \/ Enter \/ Leave \/ Raise
  \/ CliStart \/ CliCheckpoint \/ CliRun \/ CliRunEnds \/ CliRunFails
  \/ CliUndo \/ CliCommit \/ CliClose \/ CliKilled \/ Unattended
  \/ Internal

CSpec == CInit /\ [][CNext]_allvars

(* The fairness is the supervisor's own. *)
CFairSpec == CSpec /\ WF_vars(MergeStep)

----------------------------------------------------------------------------
(* Properties. *)

(* The program's own variables stay in their types. *)
ClientTypeOK ==
  /\ user \in Users
  /\ txs \in Seq(Blocks)
  /\ pos \in Positions
  /\ code \in {"none", "0", "n", "1", "124", "killed"}
  /\ origin \in Tree
  /\ left \in Tree

(* A block that raises is undone: the sandbox shows again what it showed   *)
(* at entry, however many checkpoints, rollbacks and nested blocks were in *)
(* it - unless the program itself discarded the checkpoint by committing   *)
(* or rolling back past it, which the rollback then reports while it       *)
(* leaves everything as it is, or a commit was given up half way.          *)
TransactionUndone ==
  [][Raise =>
       IF Inner.kept
       THEN reply'.rc = "OK" => aborted \/ Shown(Live)' = Inner.tree
       ELSE reply'.rc # "OK" /\ Shown(Live)' = Shown(Live)]_allvars

(* agentbox run is all or nothing: with status 0 the workspace is what the *)
(* command left; when the command failed or timed out it is what it was    *)
(* before; and when the tool itself fails or is killed it is one of the    *)
(* two, unless a merge was given up half way.                              *)
RunIsTransaction ==
  LET published == \A p \in Path : ws[p] = left[p] \/ Unpublished(left, p)
  IN  user = "cli" /\ phase = "closed" =>
        /\ code = "0" => published /\ ~aborted
        /\ code \in {"n", "124"} => ws = origin
        /\ code \in {"1", "killed"} => aborted \/ published \/ ws = origin

(* A failed agentbox run leaves the workspace exactly as it was.           *)
FailedRunLeavesFiles ==
  user = "cli" /\ pos = "done" /\ code # "0" => ws = origin
=============================================================================
