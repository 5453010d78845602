---------------------------- MODULE ClientProofs ----------------------------
(* Theorems about programs over a sandbox: a transaction() block that      *)
(* raises is undone, and "agentbox run" is all or nothing, for every       *)
(* depth of nesting and every command.                                     *)
EXTENDS Client, SnapshotProofs

(* Abbreviations of Supervisor that the provers always see through. *)
USE DEF DeadWork, NewCheckpoint, TableFull

----------------------------------------------------------------------------
(* Programs take the supervisor's steps and no others. *)

(* Every checkpoint opens a generation, so ids stay below them: there is   *)
(* always an id in reach that the table does not have.                     *)
NumInv == nextNum <= generation

(* It is preserved.                                                        *)
LEMMA NumStep == TableInv /\ NumInv /\ [Next]_vars => NumInv'
<1> SUFFICES ASSUME TableInv, NumInv, [Next]_vars PROVE NumInv'
  OBVIOUS
<1>0. TypeOK /\ nextNum \in Nat /\ generation \in Int /\ nextNum <= generation
  BY BoundsAssumption DEF TableInv, TypeOK, NumInv, Gen
<1>1. ASSUME nextNum' = nextNum, generation' = generation \/ generation' = generation + 1
      PROVE  NumInv'
  BY <1>0, <1>1 DEF NumInv
<1>2. CASE Seal
  BY <1>0, <1>2, DiscardShape DEF Seal, NumInv
<1>3. CASE Start \/ CommitFinish \/ \E keep \in 0 .. Len(ckpts) : TruncateTo(keep)
  BY <1>1, <1>3, DiscardShape DEF Start, CommitFinish, TruncateTo, NewGeneration
<1>4. ASSUME NEW verb, NEW rc, Refuse(verb, rc) PROVE NumInv'
  BY <1>1, <1>4 DEF Refuse
<1>5. CASE CommitBegin \/ MergeNextLayer \/ AbortCommit \/ \E p \in Path : MergeVisit(p)
  BY <1>1, <1>5 DEF CommitBegin, MergeNextLayer, AbortCommit, MergeVisit
<1>6. CASE RunBegin \/ RunEnd \/ Diff \/ Shutdown \/ ClientGone
  BY <1>1, <1>6 DEF RunBegin, RunEnd, Diff, Shutdown, ClientGone
<1>7. CASE CommandOp \/ StrayOp
  BY <1>1, <1>7 DEF CommandOp, StrayOp, WriteThrough
<1>8. CASE UNCHANGED vars
  BY <1>1, <1>8 DEF vars
<1> QED
  BY <1>0, <1>2, <1>3, <1>4, <1>5, <1>6, <1>7, <1>8, NextCases DEF MergeFail, MergeNoLayer

(* Rolling back to an id is a step of the supervisor, whichever id it is.  *)
LEMMA UndoIsStep ==
  ASSUME TableInv, NumInv, NEW id, Undo(id)
  PROVE  Next
<1>1. CASE RollbackTo(id)
  <2>1. PICK i \in DOMAIN ckpts : ckpts[i].id = id
    BY <1>1 DEF RollbackTo
  <2>2. RollbackTo(ckpts[i].id)
    BY <1>1, <2>1
  <2> QED
    BY <2>2 DEF Next
<1>2. CASE phase = "idle" /\ Refuse("ROLLBACK", "CHECKPOINT_NOT_FOUND")
  <2>1. \A i \in DOMAIN ckpts : ckpts[i].id # MaxGen
    <3> SUFFICES ASSUME NEW i \in DOMAIN ckpts PROVE ckpts[i].id # MaxGen
      OBVIOUS
    <3>1. ckpts \in Seq(Checkpoints) /\ nextNum \in Nat /\ generation \in Gen
      BY DEF TableInv, TypeOK
    <3>2. ckpts[i] \in Checkpoints
      BY <3>1
    <3>3. ckpts[i].id \in Nat /\ ckpts[i].id < nextNum
      BY <3>2 DEF TableInv, TableOrdered, Checkpoints
    <3> QED
      BY <3>1, <3>3, BoundsAssumption DEF NumInv, Gen
  <2>2. MaxGen \in 0 .. MaxGen
    BY BoundsAssumption
  <2> QED
    BY <1>2, <2>1, <2>2 DEF Next, RollbackRefused
<1>3. CASE phase = "idle" /\ UnmountFails /\ Refuse("ROLLBACK", "MOUNT_FAILED")
  BY <1>3 DEF Next, RollbackRefused
<1> QED
  BY <1>1, <1>2, <1>3 DEF Undo

(* Every step of a program is one of the supervisor or none.               *)
LEMMA ProgramSteps ==
  TableInv /\ NumInv /\ [CNext]_allvars => [Next]_vars
<1> SUFFICES ASSUME TableInv, NumInv, [CNext]_allvars PROVE [Next]_vars
  OBVIOUS
<1>1. CASE Request \/ RollbackPast \/ CommitAll \/ CloseBox \/ Enter
  BY <1>1 DEF Request, RollbackPast, CommitAll, CloseBox, Enter, Next
<1>2. CASE Leave \/ CliKilled
  BY <1>2 DEF Leave, CliKilled
<1>3. CASE Raise \/ CliUndo
  BY <1>3, UndoIsStep DEF Raise, CliUndo
<1>4. CASE CliStart \/ CliCheckpoint \/ CliRun \/ CliRunEnds \/ CliRunFails \/ CliCommit
  BY <1>4 DEF CliStart, CliCheckpoint, CliRun, CliRunEnds, CliRunFails, CliCommit, Next
<1>5. CASE CliClose \/ Unattended \/ Internal
  BY <1>5 DEF CliClose, Unattended, Internal, Next
<1>6. CASE UNCHANGED allvars
  BY <1>6 DEF allvars
<1> QED
  BY <1>1, <1>2, <1>3, <1>4, <1>5, <1>6 DEF CNext

(* What holds of the sandbox, whatever the program.                        *)
LEMMA SandboxInv == CSpec => [](TableInv /\ NumInv) /\ Spec
<1>1. CInit => Init /\ TableInv /\ NumInv
  <2> SUFFICES ASSUME CInit PROVE Init /\ TableInv /\ NumInv
    OBVIOUS
  <2>1. Init
    BY DEF CInit
  <2>2. TableInv
    BY <2>1, TableInit
  <2> QED
    BY <2>1, <2>2 DEF Init, NumInv
<1> QED
  BY <1>1, ProgramSteps, TableStep, NumStep, PTL DEF CSpec, Spec

(* The sandbox is a store of snapshots for any program that uses it.       *)
THEOREM ProgramsSeeSnapshots ==
  ASSUME Leftovers = {}, "mkdir_p" \notin Faults, "getxattr" \notin Faults
  PROVE  CSpec => ImplementsSnapshots
<1>1. Spec => ImplementsSnapshots
  BY SupervisorImplementsSnapshots
<1> QED
  BY <1>1, SandboxInv, PTL

----------------------------------------------------------------------------
(* Types. *)

(* The empty workspace is one.                                             *)
LEMMA NothingType == Nothing \in Tree
  BY DEF Nothing, Tree, Node

(* A block without its checkpoint, and those in S all so. *)
Lost(b) == [b EXCEPT !.kept = FALSE, !.tree = Nothing]

Marked(S) == txs' = [i \in DOMAIN txs |-> IF i \in S THEN Lost(txs[i]) ELSE txs[i]]

(* It is still the same block.                                             *)
LEMMA LostFacts ==
  ASSUME NEW b \in Blocks
  PROVE  Lost(b) \in Blocks /\ Lost(b).id = b.id /\ Lost(b).kept = FALSE
<1>1. Lost(b) \in Blocks
  BY NothingType, Zenon DEF Lost, Blocks
<1>2. Lost(b).id = b.id
  BY Zenon DEF Lost, Blocks
<1>3. Lost(b).kept = FALSE
  BY Zenon DEF Lost, Blocks
<1> QED
  BY <1>1, <1>2, <1>3

(* Rolling back past blocks marks the newer ones, and a commit all.        *)
LEMMA Forfeits ==
  /\ RollbackPast =>
       /\ Api /\ UNCHANGED <<user, pos, code, origin, left>>
       /\ \E k \in DOMAIN ckpts : /\ RollbackTo(ckpts[k].id)
                                  /\ Marked({i \in DOMAIN txs : txs[i].id > ckpts[k].id})
  /\ CommitAll =>
       /\ Api /\ UNCHANGED <<user, pos, code, origin, left>>
       /\ CommitFinish /\ Marked(DOMAIN txs)
<1>1. ASSUME RollbackPast
      PROVE  \E k \in DOMAIN ckpts : /\ RollbackTo(ckpts[k].id)
                                     /\ Marked({i \in DOMAIN txs : txs[i].id > ckpts[k].id})
  <2>1. PICK k \in DOMAIN ckpts :
          /\ RollbackTo(ckpts[k].id)
          /\ txs' = [i \in DOMAIN txs |->
                       IF txs[i].id > ckpts[k].id THEN Lost(txs[i]) ELSE txs[i]]
    BY <1>1 DEF RollbackPast, Forfeit, Lost
  <2>2. Marked({i \in DOMAIN txs : txs[i].id > ckpts[k].id})
    BY <2>1, Zenon DEF Marked
  <2> QED
    BY <2>1, <2>2
<1>2. ASSUME CommitAll PROVE Marked(DOMAIN txs)
  BY <1>2 DEF CommitAll, Forfeit, Marked, Lost
<1> QED
  BY <1>1, <1>2 DEF RollbackPast, CommitAll

(* Marking blocks and leaving one keep the type.                           *)
LEMMA BlocksType ==
  ASSUME txs \in Seq(Blocks), (Drop /\ txs # <<>>) \/ \E S : Marked(S)
  PROVE  txs' \in Seq(Blocks)
<1>1. Len(txs) \in Nat /\ \A i \in 1 .. Len(txs) : txs[i] \in Blocks
  OBVIOUS
<1>2. CASE Drop /\ txs # <<>>
  BY <1>1, <1>2 DEF Drop
<1>3. ASSUME NEW S, Marked(S) PROVE txs' \in Seq(Blocks)
  <2>1. txs' \in [1 .. Len(txs) -> Blocks]
    <3>1. \A i \in 1 .. Len(txs) : (IF i \in S THEN Lost(txs[i]) ELSE txs[i]) \in Blocks
      BY <1>1, LostFacts
    <3>2. DOMAIN txs = 1 .. Len(txs)
      OBVIOUS
    <3> QED
      BY <1>3, <3>1, <3>2 DEF Marked
  <2> QED
    BY <1>1, <2>1
<1> QED
  BY <1>2, <1>3

(* Every step preserves the type.                                          *)
LEMMA ClientTypeStep ==
  TypeOK /\ ClientTypeOK /\ [CNext]_allvars => ClientTypeOK'
<1> SUFFICES ASSUME TypeOK, ClientTypeOK, [CNext]_allvars PROVE ClientTypeOK'
  OBVIOUS
<1> USE DEF ClientTypeOK
<1>0. Shown(Live) \in Tree
  BY CurType DEF Cur
<1>1. CASE Request \/ CloseBox \/ CliRun \/ Internal \/ UNCHANGED allvars
  BY <1>1 DEF Request, CloseBox, CliRun, Internal, allvars, cvars
<1>2. CASE RollbackPast \/ CommitAll
  BY <1>2, Forfeits, BlocksType
<1>3. CASE Enter
  <2>1. [id |-> nextNum, tree |-> Shown(Live), kept |-> TRUE] \in Blocks
    BY <1>0 DEF TypeOK, Blocks
  <2>2. txs' \in Seq(Blocks)
    BY <1>3, <2>1 DEF Enter
  <2> QED
    BY <1>3, <2>2 DEF Enter
<1>4. CASE Leave \/ Raise
  BY <1>4, BlocksType DEF Leave, Raise
<1>5. CASE CliStart \/ CliCheckpoint \/ CliUndo
  BY <1>5 DEF CliStart, CliCheckpoint, CliUndo, Answered, To, Positions
<1>6. CASE CliRunEnds
  <2>1. PICK status \in {"timeout", "0", "n"} :
          pos' = Verdict(status)[1] /\ code' = Verdict(status)[2]
    BY <1>6 DEF CliRunEnds
  <2> QED
    BY <1>0, <1>6, <2>1 DEF CliRunEnds, Verdict, Positions
<1>7. CASE CliRunFails \/ CliClose \/ CliKilled
  BY <1>7 DEF CliRunFails, CliClose, CliKilled, To, Positions
<1>8. CASE CliCommit
  BY <1>8 DEF CliCommit, Answered, To, Positions, cvars
<1>9. CASE Unattended
  BY <1>0, <1>9 DEF Unattended
<1> QED
  BY <1>1, <1>2, <1>3, <1>4, <1>5, <1>6, <1>7, <1>8, <1>9 DEF CNext

(* The program's own variables keep their types: where it is, its exit     *)
(* status, and the open blocks.                                            *)
THEOREM ClientTypeCorrect == CSpec => []ClientTypeOK
<1>1. CInit => ClientTypeOK
  <2> SUFFICES ASSUME CInit PROVE ClientTypeOK
    OBVIOUS
  <2>1. ws \in Tree /\ Nothing \in Tree
    BY NothingType DEF CInit, Init
  <2> QED
    BY <2>1 DEF CInit, ClientTypeOK, Positions
<1>2. TableInv => TypeOK
  BY DEF TableInv
<1> QED
  BY <1>1, <1>2, SandboxInv, ClientTypeStep, PTL DEF CSpec

----------------------------------------------------------------------------
(* Transactions. *)

(* In a table cks whose next id is num, the block b has its checkpoint, or *)
(* has lost it.                                                            *)
BlockOK(b, cks, num) ==
  /\ b.id < num
  /\ b.kept => \E k \in DOMAIN cks : cks[k].id = b.id /\ cks[k].tree = b.tree
  /\ ~b.kept => \A k \in DOMAIN cks : cks[k].id # b.id

(* Inner blocks have newer checkpoints. *)
BlockInv ==
  /\ user = "cli" => txs = <<>>
  /\ \A i \in DOMAIN txs : BlockOK(txs[i], ckpts, nextNum)
  /\ \A i, j \in DOMAIN txs : i < j => txs[i].id < txs[j].id

(* A table's entries.                                                      *)
LEMMA CheckpointIds ==
  ASSUME NEW cks \in Seq(Checkpoints)
  PROVE  /\ Len(cks) \in Nat /\ DOMAIN cks = 1 .. Len(cks)
         /\ \A k \in 1 .. Len(cks) : cks[k].id \in Nat
<1>1. Len(cks) \in Nat /\ \A k \in 1 .. Len(cks) : cks[k] \in Checkpoints
  OBVIOUS
<1> QED
  BY <1>1 DEF Checkpoints

(* A new checkpoint is not an old block's.                                 *)
LEMMA BlockAppend ==
  ASSUME NEW cks \in Seq(Checkpoints), NEW c \in Checkpoints, NEW num \in Nat, c.id = num,
         NEW b \in Blocks, BlockOK(b, cks, num)
  PROVE  BlockOK(b, Append(cks, c), num + 1)
<1>1. Len(cks) \in Nat /\ DOMAIN cks = 1 .. Len(cks) /\ b.id \in Nat /\ b.id < num
  BY CheckpointIds DEF BlockOK, Blocks
<1>2. /\ Append(cks, c) \in Seq(Checkpoints) /\ Len(Append(cks, c)) = Len(cks) + 1
      /\ Append(cks, c)[Len(cks) + 1] = c
      /\ \A k \in 1 .. Len(cks) : Append(cks, c)[k] = cks[k]
  BY <1>1
<1>3. DOMAIN Append(cks, c) = 1 .. Len(cks) + 1
  BY <1>2
<1>4. \A k \in DOMAIN Append(cks, c) : k \in DOMAIN cks \/ Append(cks, c)[k].id = num
  BY <1>1, <1>2, <1>3
<1>5. DOMAIN cks \subseteq DOMAIN Append(cks, c)
  BY <1>1, <1>3
<1>6. b.id < num + 1 /\ num # b.id
  BY <1>1
<1>7. \A k \in DOMAIN cks : Append(cks, c)[k] = cks[k]
  BY <1>1, <1>2
<1> HIDE DEF Blocks
<1> QED
  BY <1>4, <1>5, <1>6, <1>7 DEF BlockOK

(* A rollback keeps the checkpoints of blocks that are not newer than its  *)
(* target, and takes those of the others.                                  *)
LEMMA BlockTruncate ==
  ASSUME NEW cks \in Seq(Checkpoints), NEW num, NEW keep \in DOMAIN cks,
         \A i, j \in DOMAIN cks : i < j => cks[i].id < cks[j].id,
         NEW b \in Blocks, BlockOK(b, cks, num)
  PROVE  /\ b.id <= cks[keep].id => BlockOK(b, SubSeq(cks, 1, keep), num)
         /\ b.id > cks[keep].id => BlockOK(Lost(b), SubSeq(cks, 1, keep), num)
<1> DEFINE new == SubSeq(cks, 1, keep)
<1>1. /\ Len(cks) \in Nat /\ DOMAIN cks = 1 .. Len(cks) /\ keep \in Nat /\ b.id \in Nat
      /\ \A k \in DOMAIN cks : cks[k].id \in Nat
  BY CheckpointIds DEF Blocks
<1>2. Len(new) = keep /\ DOMAIN new = 1 .. keep /\ \A k \in 1 .. keep : new[k] = cks[k]
  BY <1>1
<1>3. \A k \in DOMAIN new : k \in DOMAIN cks /\ new[k] = cks[k]
  BY <1>1, <1>2
<1>4. \A k \in DOMAIN cks : cks[k].id <= cks[keep].id <=> k \in DOMAIN new
  <2> SUFFICES ASSUME NEW k \in DOMAIN cks
               PROVE  cks[k].id <= cks[keep].id <=> k <= keep
    BY <1>1, <1>2
  <2>1. k < keep => cks[k].id < cks[keep].id
    OBVIOUS
  <2>2. keep < k => cks[keep].id < cks[k].id
    OBVIOUS
  <2> QED
    BY <1>1, <2>1, <2>2
<1> HIDE DEF new
<1>5. ASSUME b.id <= cks[keep].id PROVE BlockOK(b, new, num)
  <2>1. b.kept => \E k \in DOMAIN new : new[k].id = b.id /\ new[k].tree = b.tree
    <3> SUFFICES ASSUME b.kept PROVE \E k \in DOMAIN new : new[k].id = b.id /\ new[k].tree = b.tree
      OBVIOUS
    <3>1. PICK k \in DOMAIN cks : cks[k].id = b.id /\ cks[k].tree = b.tree
      BY DEF BlockOK
    <3> QED
      BY <1>3, <1>4, <1>5, <3>1
  <2> QED
    BY <1>3, <2>1 DEF BlockOK
<1>6. ASSUME b.id > cks[keep].id PROVE BlockOK(Lost(b), new, num)
  <2>1. \A k \in DOMAIN new : new[k].id # b.id
    BY <1>1, <1>3, <1>4, <1>6
  <2> QED
    BY <2>1, LostFacts DEF BlockOK
<1> QED
  BY <1>5, <1>6 DEF new

(* What the requests do to the table.                                      *)
LEMMA TableMoves ==
  ASSUME TypeOK
  PROVE  /\ Seal => /\ ckpts' = Append(ckpts, NewCheckpoint) /\ nextNum' = nextNum + 1
                    /\ NewCheckpoint \in Checkpoints /\ NewCheckpoint.id = nextNum
                    /\ NewCheckpoint.tree = Shown(Live)
         /\ \A id : RollbackTo(id) =>
              /\ nextNum' = nextNum
              /\ \E k \in DOMAIN ckpts : ckpts[k].id = id /\ ckpts' = SubSeq(ckpts, 1, k)
         /\ CommitFinish => ckpts' = <<>> /\ nextNum' = nextNum
         /\ RollbackLatest \/ CheckpointRefused \/ RollbackRefused \/ CommitRefused \/ RunRefused
            \/ Start \/ CommitBegin \/ MergeNoLayer \/ RunBegin \/ RunEnd \/ Diff
            \/ (\E p \in Path : MergeFail(p)) => UNCHANGED <<ckpts, nextNum>>
         /\ CommandOp \/ StrayOp \/ MergeNextLayer \/ Shutdown \/ ClientGone
            \/ (\E p \in Path : MergeVisit(p)) => UNCHANGED <<ckpts, nextNum>>
<1>0. ckpts \in Seq(Checkpoints)
  BY DEF TypeOK
<1>1. ASSUME Seal
      PROVE  /\ ckpts' = Append(ckpts, NewCheckpoint) /\ nextNum' = nextNum + 1
             /\ NewCheckpoint \in Checkpoints /\ NewCheckpoint.id = nextNum
             /\ NewCheckpoint.tree = Shown(Live)
  <2>1. Shown(Live) \in Tree
    BY CurType DEF Cur
  <2> QED
    BY <1>1, <2>1 DEF Seal, Checkpoints, TypeOK
<1>2. ASSUME NEW id, RollbackTo(id)
      PROVE  /\ nextNum' = nextNum
             /\ \E k \in DOMAIN ckpts : ckpts[k].id = id /\ ckpts' = SubSeq(ckpts, 1, k)
  BY <1>2 DEF RollbackTo, TruncateTo
<1>3. CommitFinish => ckpts' = <<>> /\ nextNum' = nextNum
  BY DEF CommitFinish
<1>4. RollbackLatest => UNCHANGED <<ckpts, nextNum>>
  <2>1. SubSeq(ckpts, 1, Len(ckpts)) = ckpts
    BY <1>0
  <2> QED
    BY <2>1 DEF RollbackLatest, TruncateTo
<1>5. CheckpointRefused \/ RollbackRefused \/ CommitRefused \/ RunRefused
        => UNCHANGED <<ckpts, nextNum>>
  BY DEF CheckpointRefused, RollbackRefused, CommitRefused, RunRefused, Refuse
<1>6. Start => UNCHANGED <<ckpts, nextNum>>
  BY DEF Start
<1>7. CommitBegin \/ MergeNoLayer \/ (\E p \in Path : MergeFail(p)) => UNCHANGED <<ckpts, nextNum>>
  BY DEF CommitBegin, MergeNoLayer, MergeFail, AbortCommit
<1>8. RunBegin \/ RunEnd \/ Diff \/ Shutdown \/ ClientGone => UNCHANGED <<ckpts, nextNum>>
  BY DEF RunBegin, RunEnd, Diff, Shutdown, ClientGone
<1>9. CommandOp \/ StrayOp => UNCHANGED <<ckpts, nextNum>>
  BY DEF CommandOp, StrayOp, WriteThrough
<1>10. MergeNextLayer \/ (\E p \in Path : MergeVisit(p)) => UNCHANGED <<ckpts, nextNum>>
  BY DEF MergeNextLayer, MergeVisit
<1> QED
  BY <1>1, <1>2, <1>3, <1>4, <1>5, <1>6, <1>7, <1>8, <1>9, <1>10

(* Every step keeps the blocks and the table in step.                      *)
LEMMA BlockStep ==
  TableInv /\ ClientTypeOK /\ BlockInv /\ [CNext]_allvars => BlockInv'
<1> SUFFICES ASSUME TableInv, ClientTypeOK, BlockInv, [CNext]_allvars PROVE BlockInv'
  OBVIOUS
<1>0. /\ TypeOK /\ TableOrdered /\ ckpts \in Seq(Checkpoints) /\ nextNum \in Nat
      /\ txs \in Seq(Blocks) /\ Len(txs) \in Nat /\ DOMAIN txs = 1 .. Len(txs)
      /\ \A i \in DOMAIN txs : txs[i] \in Blocks /\ BlockOK(txs[i], ckpts, nextNum)
      /\ \A i, j \in DOMAIN ckpts : i < j => ckpts[i].id < ckpts[j].id
      /\ \A i, j \in DOMAIN txs : i < j => txs[i].id < txs[j].id
  BY DEF TableInv, TypeOK, ClientTypeOK, BlockInv, TableOrdered
<1>1. ASSUME UNCHANGED <<user, txs, ckpts, nextNum>> PROVE BlockInv'
  BY <1>1 DEF BlockInv
<1>2. ASSUME UNCHANGED <<user, txs>>, Seal PROVE BlockInv'
  <2>1. \A i \in DOMAIN txs : BlockOK(txs[i], ckpts', nextNum')
    BY <1>0, <1>2, TableMoves, BlockAppend
  <2> QED
    BY <1>2, <2>1 DEF BlockInv
<1>3. ASSUME user = "cli", UNCHANGED <<user, txs>> PROVE BlockInv'
  <2>1. txs' = <<>>
    BY <1>3 DEF BlockInv
  <2> QED
    BY <2>1 DEF BlockInv
<1>4. ASSUME NEW S \in SUBSET DOMAIN txs, Api, Marked(S), UNCHANGED user,
             \A i \in DOMAIN txs : IF i \in S THEN BlockOK(Lost(txs[i]), ckpts', nextNum')
                                              ELSE BlockOK(txs[i], ckpts', nextNum')
      PROVE  BlockInv'
  <2>1. DOMAIN txs' = DOMAIN txs /\ \A i \in DOMAIN txs : txs'[i].id = txs[i].id
    BY <1>0, <1>4, LostFacts DEF Marked
  <2>2. \A i \in DOMAIN txs : BlockOK(txs'[i], ckpts', nextNum')
    BY <1>4 DEF Marked
  <2>3. user' # "cli"
    BY <1>4 DEF Api
  <2> QED
    BY <1>0, <2>1, <2>2, <2>3 DEF BlockInv
<1>5. CASE Request
  <2>1. user' = user /\ txs' = txs
    BY <1>5 DEF Request, cvars
  <2> QED
    BY <1>0, <1>1, <1>2, <1>5, <2>1, TableMoves DEF Request
<1>6. CASE RollbackPast
  <2>1. PICK k \in DOMAIN ckpts : /\ RollbackTo(ckpts[k].id)
                                  /\ Marked({i \in DOMAIN txs : txs[i].id > ckpts[k].id})
    BY <1>6, Forfeits
  <2>2. PICK l \in DOMAIN ckpts : ckpts[l].id = ckpts[k].id /\ ckpts' = SubSeq(ckpts, 1, l)
    BY <1>0, <2>1, TableMoves
  <2>3. nextNum' = nextNum /\ Api /\ user' = user
    BY <1>0, <1>6, <2>1, TableMoves, Forfeits
  <2>4. \A i \in DOMAIN txs : IF txs[i].id > ckpts[k].id
                              THEN BlockOK(Lost(txs[i]), ckpts', nextNum')
                              ELSE BlockOK(txs[i], ckpts', nextNum')
    <3> SUFFICES ASSUME NEW i \in DOMAIN txs
                 PROVE  IF txs[i].id > ckpts[k].id
                        THEN BlockOK(Lost(txs[i]), ckpts', nextNum')
                        ELSE BlockOK(txs[i], ckpts', nextNum')
      OBVIOUS
    <3>1. txs[i].id \in Nat /\ ckpts[k].id \in Nat
      BY <1>0, CheckpointIds DEF Blocks
    <3>2. txs[i].id > ckpts[k].id \/ txs[i].id <= ckpts[k].id
      BY <3>1
    <3> QED
      BY <1>0, <2>2, <2>3, <3>2, BlockTruncate
  <2> QED
    BY <1>4, <2>1, <2>3, <2>4
<1>7. CASE CommitAll
  <2>1. CommitFinish /\ Marked(DOMAIN txs) /\ Api /\ user' = user
    BY <1>7, Forfeits
  <2>2. \A i \in DOMAIN txs : BlockOK(Lost(txs[i]), ckpts', nextNum')
    <3>1. nextNum' = nextNum /\ DOMAIN ckpts' = {}
      BY <1>0, <2>1, TableMoves
    <3>2. \A i \in DOMAIN txs : /\ Lost(txs[i]).id = txs[i].id /\ Lost(txs[i]).kept = FALSE
                               /\ txs[i].id < nextNum
      BY <1>0, LostFacts DEF BlockOK
    <3> QED
      BY <3>1, <3>2 DEF BlockOK
  <2> QED
    BY <1>4, <2>1, <2>2
<1>8. CASE CloseBox
  BY <1>0, <1>1, <1>8, TableMoves DEF CloseBox, cvars
<1>9. CASE Enter
  <2> DEFINE b == [id |-> nextNum, tree |-> Shown(Live), kept |-> TRUE]
  <2>1. /\ txs' = Append(txs, b) /\ user' = user /\ Api
        /\ ckpts' = Append(ckpts, NewCheckpoint) /\ nextNum' = nextNum + 1
        /\ NewCheckpoint \in Checkpoints /\ NewCheckpoint.id = nextNum
        /\ NewCheckpoint.tree = Shown(Live)
    BY <1>0, <1>9, TableMoves DEF Enter
  <2>2. b.id = nextNum /\ b.tree = Shown(Live) /\ b.kept = TRUE
    OBVIOUS
  <2>3. BlockOK(b, ckpts', nextNum')
    <3>1. Len(ckpts) + 1 \in DOMAIN ckpts' /\ ckpts'[Len(ckpts) + 1] = NewCheckpoint
      BY <1>0, <2>1
    <3>2. nextNum < nextNum'
      BY <1>0, <2>1
    <3> HIDE DEF b
    <3> QED
      BY <2>1, <2>2, <3>1, <3>2 DEF BlockOK
  <2>4. \A i \in DOMAIN txs : BlockOK(txs[i], ckpts', nextNum')
    BY <1>0, <2>1, BlockAppend
  <2>5. \A i \in DOMAIN txs : txs[i].id < b.id
    BY <1>0 DEF BlockOK
  <2> HIDE DEF b
  <2>6. /\ DOMAIN txs' = 1 .. Len(txs) + 1 /\ txs'[Len(txs) + 1] = b
        /\ \A i \in DOMAIN txs : txs'[i] = txs[i]
    BY <1>0, <2>1
  <2>7. \A i \in DOMAIN txs' : i \in DOMAIN txs \/ i = Len(txs) + 1
    BY <1>0, <2>6
  <2>8. \A i, j \in DOMAIN txs' : i < j => txs'[i].id < txs'[j].id
    <3> SUFFICES ASSUME NEW i \in DOMAIN txs', NEW j \in DOMAIN txs', i < j
                 PROVE  txs'[i].id < txs'[j].id
      OBVIOUS
    <3>1. i \in DOMAIN txs
      BY <1>0, <2>6
    <3> QED
      BY <1>0, <2>5, <2>6, <2>7, <3>1
  <2>9. user' # "cli"
    BY <2>1 DEF Api
  <2> QED
    BY <2>3, <2>4, <2>6, <2>7, <2>8, <2>9 DEF BlockInv
<1>10. ASSUME Drop, txs # <<>>, Api, user' = user,
              \A i \in DOMAIN txs : i < Len(txs) => BlockOK(txs[i], ckpts', nextNum')
       PROVE  BlockInv'
  <2>1. /\ DOMAIN txs' = 1 .. Len(txs) - 1
        /\ \A i \in DOMAIN txs' : i \in DOMAIN txs /\ i < Len(txs) /\ txs'[i] = txs[i]
    BY <1>0, <1>10 DEF Drop
  <2>2. user' # "cli"
    BY <1>10 DEF Api
  <2> QED
    BY <1>0, <1>10, <2>1, <2>2 DEF BlockInv
<1>11. CASE Leave
  BY <1>0, <1>10, <1>11 DEF Leave, vars
<1>12. CASE Raise
  <2>1. Undo(Inner.id) /\ Drop /\ txs # <<>> /\ Api /\ user' = user
    BY <1>12 DEF Raise
  <2>2. CASE UNCHANGED <<ckpts, nextNum>>
    BY <1>0, <1>10, <2>1, <2>2
  <2>3. CASE RollbackTo(Inner.id)
    <3>1. PICK l \in DOMAIN ckpts : ckpts[l].id = Inner.id /\ ckpts' = SubSeq(ckpts, 1, l)
      BY <1>0, <2>3, TableMoves
    <3>2. nextNum' = nextNum
      BY <1>0, <2>3, TableMoves
    <3>3. ASSUME NEW i \in DOMAIN txs, i < Len(txs) PROVE txs[i].id <= ckpts[l].id
      <4>1. Len(txs) \in DOMAIN txs
        BY <1>0, <2>1
      <4>2. txs[i].id < Inner.id
        BY <1>0, <3>3, <4>1 DEF Inner
      <4>3. txs[i].id \in Nat /\ Inner.id \in Nat
        BY <1>0, <4>1 DEF Blocks, Inner
      <4> QED
        BY <3>1, <4>2, <4>3
    <3>4. \A i \in DOMAIN txs : i < Len(txs) => BlockOK(txs[i], ckpts', nextNum')
      BY <1>0, <3>1, <3>2, <3>3, BlockTruncate
    <3> QED
      BY <1>10, <2>1, <3>4
  <2> QED
    BY <2>1, <2>2, <2>3 DEF Undo, Refuse
<1>13. CASE CliStart \/ CliCheckpoint \/ CliRun \/ CliRunEnds \/ CliRunFails \/ CliUndo
  BY <1>3, <1>13
  DEF CliStart, CliCheckpoint, CliRun, CliRunEnds, CliRunFails, CliUndo, Cli, cvars
<1>14. CASE CliCommit \/ CliClose \/ CliKilled \/ Unattended
  BY <1>3, <1>14 DEF CliCommit, CliClose, CliKilled, Unattended, Cli, cvars
<1>15. CASE Internal
  BY <1>0, <1>1, <1>15, TableMoves DEF Internal, cvars
<1>16. CASE UNCHANGED allvars
  BY <1>1, <1>16 DEF allvars, vars, cvars
<1> QED
  BY <1>5, <1>6, <1>7, <1>8, <1>9, <1>11, <1>12, <1>13, <1>14, <1>15, <1>16 DEF CNext

(* A rollback to the k-th checkpoint shows the tree it stands for.         *)
LEMMA RollbackShows ==
  ASSUME BaseInv, CheckpointsIntact, ~aborted, NEW id, RollbackTo(id), TypeOK'
  PROVE  \E k \in DOMAIN ckpts : ckpts[k].id = id /\ Shown(Live)' = ckpts[k].tree
<1>0. TypeOK /\ TableInv /\ TableOrdered
  BY DEF BaseInv, TableInv
<1>1. PICK k \in DOMAIN ckpts : ckpts[k].id = id /\ TruncateTo(k)
  BY DEF RollbackTo
<1>2. /\ ckpts \in Seq(Checkpoints) /\ Len(ckpts) \in Nat /\ k \in 1 .. Len(ckpts) /\ k \in Nat
      /\ phase = "idle" /\ Len(Live) = Len(ckpts) + 1
      /\ \A i \in 1 .. Len(ckpts) : Live[i] = ckpts[i].gen
      /\ \A i \in 1 .. Len(Live) : Live[i] \in Gen
  <2>1. ckpts \in Seq(Checkpoints)
    BY <1>0 DEF TypeOK
  <2>2. Len(ckpts) \in Nat /\ k \in 1 .. Len(ckpts) /\ k \in Nat
    BY <2>1
  <2>3. phase = "idle"
    BY DEF RollbackTo
  <2>4. Len(Live) = Len(ckpts) + 1 /\ \A i \in 1 .. Len(Live) : Live[i] \in Gen
    BY <1>0, UnderFacts
  <2>5. \A i \in 1 .. Len(ckpts) : Live[i] = ckpts[i].gen
    BY <1>0, LiveAfter
  <2> QED
    BY <2>1, <2>2, <2>3, <2>4, <2>5
<1> DEFINE dead == DeadLayers(k)
<1>3. /\ generation' = generation + 1 /\ ckpts' = SubSeq(ckpts, 1, k) /\ Forget(dead) /\ ws' = ws
  BY <1>1, DiscardShape DEF TruncateTo
<1>4. /\ Len(ckpts') = k /\ DOMAIN ckpts' = 1 .. k
      /\ \A i \in 1 .. k : ckpts'[i] = ckpts[i] /\ i \in 1 .. Len(ckpts)
  BY <1>2, <1>3
<1>5. TableGens(ckpts') = (TableGens(ckpts) \cup {generation}) \ dead
  <2>1. k \in 0 .. Len(ckpts)
    BY <1>2
  <2> QED
    BY <1>0, <1>3, <2>1, GensAfterTruncate
<1> HIDE DEF dead
<1>6. \A i \in 1 .. k : Live[i] \in Gen \ dead
  <2>1. \A i \in 1 .. k : ckpts[i].gen \in TableGens(ckpts')
    BY <1>4 DEF TableGens
  <2> QED
    BY <1>2, <1>4, <1>5, <2>1
<1>7. \A i \in 1 .. k : ckpts'[i].gen = Live[i] /\ layers'[Live[i]] = layers[Live[i]]
  <2>1. \A i \in 1 .. k : ckpts'[i].gen = Live[i]
    BY <1>2, <1>4
  <2>2. \A i \in 1 .. k : layers'[Live[i]] = layers[Live[i]]
    BY <1>3, <1>6 DEF Forget
  <2> QED
    BY <2>1, <2>2
<1>8. \A g \in Gen : layers'[g] \in {layers[g], EmptyLayer}
  BY <1>3 DEF Forget
<1>9. k \in 0 .. Len(Live)
  BY <1>2
<1>10. Cur' = Under(k)
  BY <1>3, <1>4, <1>7, <1>8, <1>9, NewGenerationShows
<1>11. Under(k) = CheckpointTree(k)
  <2>1. k \in 0 .. Len(ckpts)
    BY <1>2
  <2> QED
    BY <1>0, <2>1, TreeIsUnder
<1>12. CheckpointTree(k) = ckpts[k].tree
  BY <1>2 DEF CheckpointsIntact
<1> QED
  BY <1>1, <1>10, <1>11, <1>12 DEF Cur

(* What the sandbox shows, and so what a rollback restores, is kept by     *)
(* requests that are refused.                                              *)
LEMMA RefusalShows ==
  ASSUME NEW verb, NEW rc, Refuse(verb, rc)
  PROVE  Shown(Live)' = Shown(Live) /\ reply'.rc = rc
  BY TreesSame DEF Refuse, Answer, Cur

(* A transaction() block that raises is undone, however deep it is nested  *)
(* and whatever the program did in it, unless the program itself discarded *)
(* its checkpoint: then the rollback says so and changes nothing.  Holds   *)
(* when no process of a command outlives its answer.                       *)
THEOREM TransactionsAreUndone ==
  ASSUME Leftovers = {}
  PROVE  CSpec => TransactionUndone
<1> DEFINE Undone == Raise => IF Inner.kept
                              THEN reply'.rc = "OK" => aborted \/ Shown(Live)' = Inner.tree
                              ELSE reply'.rc # "OK" /\ Shown(Live)' = Shown(Live)
<1>1. CInit => BlockInv
  BY DEF CInit, BlockInv
<1>2. Init => BaseInv /\ IntactInv
  <2> SUFFICES ASSUME Init PROVE BaseInv /\ IntactInv
    OBVIOUS
  <2>1. BaseInv
    BY BaseInit
  <2> QED
    BY <2>1 DEF Init, BaseInv, IntactInv, CheckpointsIntact
<1>3. /\ BaseInv /\ [Next]_vars => BaseInv'
      /\ IntactInv /\ [Next]_vars => IntactInv'
  BY BaseStep, IntactStep
<1>4. ASSUME BaseInv, IntactInv, ClientTypeOK, BlockInv, BaseInv', Raise
      PROVE  Undone
  <2> DEFINE n == Len(txs)
  <2>1. /\ TypeOK /\ TableOrdered /\ TypeOK' /\ CheckpointsIntact /\ ckpts \in Seq(Checkpoints)
    BY <1>4 DEF BaseInv, TableInv, TypeOK, IntactInv
  <2>2. txs \in Seq(Blocks) /\ txs # <<>> /\ Undo(Inner.id)
    BY <1>4 DEF ClientTypeOK, Raise
  <2>3. n \in DOMAIN txs /\ Inner = txs[n] /\ Inner \in Blocks
    BY <2>2 DEF Inner
  <2>4. BlockOK(Inner, ckpts, nextNum) /\ Inner.kept \in BOOLEAN
    BY <1>4, <2>3 DEF BlockInv, Blocks
  <2>5. ASSUME NEW verb, NEW rc, Refuse(verb, rc), rc # "OK" PROVE Undone
    BY <2>5, RefusalShows
  <2>6. CASE RollbackTo(Inner.id)
    <3>1. \E k \in DOMAIN ckpts : ckpts[k].id = Inner.id
      BY <2>6 DEF RollbackTo
    <3>2. Inner.kept
      BY <2>4, <3>1 DEF BlockOK
    <3>3. ASSUME ~aborted PROVE Shown(Live)' = Inner.tree
      <4>1. PICK k \in DOMAIN ckpts : ckpts[k].id = Inner.id /\ Shown(Live)' = ckpts[k].tree
        BY <1>4, <2>1, <2>6, <3>3, RollbackShows
      <4>2. PICK l \in DOMAIN ckpts : ckpts[l].id = Inner.id /\ ckpts[l].tree = Inner.tree
        BY <2>4, <3>2 DEF BlockOK
      <4>3. k = l
        <5>1. k \in Int /\ l \in Int /\ Inner.id \in Int
          BY <2>1, <2>3 DEF Blocks
        <5>2. k < l => ckpts[k].id < ckpts[l].id
          BY <2>1 DEF TableOrdered
        <5>3. l < k => ckpts[l].id < ckpts[k].id
          BY <2>1 DEF TableOrdered
        <5> QED
          BY <4>1, <4>2, <5>1, <5>2, <5>3
      <4> QED
        BY <4>1, <4>2, <4>3
    <3> QED
      BY <3>2, <3>3
  <2> QED
    BY <2>2, <2>5, <2>6 DEF Undo
<1>5. BaseInv /\ IntactInv /\ ClientTypeOK /\ BlockInv /\ BaseInv' /\ [CNext]_allvars
        => [Undone]_allvars
  BY <1>4
<1>6. TransactionUndone <=> [][Undone]_allvars
  BY PTL DEF TransactionUndone
<1> HIDE DEF Undone
<1> QED
  BY <1>1, <1>2, <1>3, <1>5, <1>6, SandboxInv, ClientTypeCorrect, BlockStep, PTL DEF CSpec, Spec

----------------------------------------------------------------------------
(* agentbox run. *)

(* Where cmd_run is, what the supervisor does meanwhile and which exit     *)
(* status is due.                                                          *)
Where ==
  /\ phase = "starting" <=> pos = "init"
  /\ pos \in {"checkpoint", "undo", "close"} => phase = "idle"
  /\ phase = "running" => pos \in {"run", "dead"}
  /\ phase = "merging" => pos \in {"commit", "dead"}
  /\ phase = "closed" => pos \in {"raised", "dead", "done"}
  /\ pos = "done" => phase = "closed"
  /\ code = "none" <=> pos \in {"init", "checkpoint", "run"}
  /\ code = "killed" <=> pos = "dead"
  /\ code = "0" => pos \in {"commit", "close", "done"}
  /\ code \in {"n", "124"} => pos \in {"undo", "close", "done"}
  /\ pos = "commit" => code = "0"
  /\ pos = "raised" => code = "1"

Untouched == ws = origin /\ ~aborted

(* What the workspace is then: until the commit begins nobody has touched  *)
(* it, while it is merged into the sandbox shows what the command left,    *)
(* and after that it is published or given up.                             *)
What ==
  /\ code = "none" \/ phase = "running" \/ pos = "undo" => Untouched
  /\ pos = "commit" /\ phase = "idle" => Untouched
  /\ pos = "commit" \/ phase = "merging" => ~aborted /\ left = Shown(Live)
  /\ code \in {"n", "124"} => ws = origin
  /\ code = "0" /\ pos # "commit" => Agrees(ws, left) /\ ~aborted
  /\ code \in {"1", "killed"} /\ phase # "merging" => aborted \/ Agrees(ws, left) \/ ws = origin

CliInv == user = "cli" => Where /\ What

(* Steps that leave the workspace and what is shown alone.                 *)
LEMMA QuietSteps ==
  ASSUME UNCHANGED <<ws, origin, aborted>>
  PROVE  /\ Untouched => Untouched'
         /\ UNCHANGED left => Agrees(ws, left)' = Agrees(ws, left)
<1>1. UNCHANGED left => Agrees(ws, left)' = Agrees(ws, left)
  BY DEF Agrees, Unpublished
<1> QED
  BY <1>1 DEF Untouched

(* Every step of the tool, of the sandbox it left behind and of the merge  *)
(* preserves it.                                                           *)
LEMMA CliStep ==
  ASSUME Leftovers = {}, "mkdir_p" \notin Faults, "getxattr" \notin Faults
  PROVE  BaseInv /\ PublishInv /\ ClientTypeOK /\ CliInv /\ [CNext]_allvars => CliInv'
<1> SUFFICES ASSUME BaseInv, PublishInv, ClientTypeOK, CliInv, [CNext]_allvars, user' = "cli"
             PROVE  (Where /\ What)'
  BY DEF CliInv
<1>0. TableInv /\ TypeOK /\ strays = {} /\ mi \in Nat /\ Position
  BY DEF BaseInv, TableInv, TypeOK
<1>1. user = "cli" /\ Where /\ What
  <2>1. user' = user
    BY DEF CNext, Request, RollbackPast, CommitAll, CloseBox, Enter, Leave, Raise, CliStart,
       CliCheckpoint, CliRun, CliRunEnds, CliRunFails, CliUndo, CliCommit, CliClose, CliKilled,
       Unattended, Internal, allvars, cvars
  <2> QED
    BY <2>1 DEF CliInv
<1>2. ASSUME UNCHANGED <<ws, layers, ckpts, generation>> PROVE Shown(Live)' = Shown(Live)
  BY <1>2, TreesSame DEF Cur
<1>3. CASE CliStart
  <2>1. /\ UNCHANGED <<ws, aborted, origin, left>> /\ pos = "init"
        /\ \/ phase' = "idle" /\ pos' = "checkpoint" /\ code' = code
           \/ phase' = "closed" /\ pos' = "raised" /\ code' = "1"
    BY <1>3 DEF CliStart, Start, Answered, To, Cli
  <2> QED
    BY <1>1, <2>1 DEF Where, What, Untouched
<1>4. CASE CliCheckpoint
  <2>1. /\ UNCHANGED <<ws, aborted, origin, left, phase>> /\ pos = "checkpoint" /\ phase = "idle"
        /\ \/ pos' = "run" /\ code' = code
           \/ pos' = "raised" /\ code' = "1"
    BY <1>4 DEF CliCheckpoint, Seal, CheckpointRefused, Refuse, Answered, To, Cli
  <2> QED
    BY <1>1, <2>1 DEF Where, What, Untouched
<1>5. CASE CliRun
  <2>1. /\ UNCHANGED <<ws, aborted, origin, left, pos, code>> /\ pos = "run" /\ phase' = "running"
    BY <1>5 DEF CliRun, RunBegin, Cli, cvars
  <2> QED
    BY <1>1, <2>1 DEF Where, What, Untouched
<1>6. CASE CliRunEnds
  <2>1. PICK status \in {"timeout", "0", "n"} :
          pos' = Verdict(status)[1] /\ code' = Verdict(status)[2]
    BY <1>6 DEF CliRunEnds
  <2>2. \/ pos' = "commit" /\ code' = "0"
        \/ pos' = "undo" /\ code' \in {"124", "n"}
    BY <2>1 DEF Verdict
  <2>3. /\ UNCHANGED <<ws, aborted, origin, layers, ckpts, generation>> /\ phase = "running"
        /\ phase' = "idle" /\ left' = Shown(Live)
    BY <1>6 DEF CliRunEnds, RunEnd
  <2>4. left' = Shown(Live)'
    BY <1>2, <2>3
  <2> QED
    BY <1>1, <2>2, <2>3, <2>4 DEF Where, What, Untouched
<1>7. CASE CliRunFails
  <2>1. /\ UNCHANGED <<ws, aborted, origin, left, phase>> /\ pos = "run" /\ phase = "idle"
        /\ pos' = "undo" /\ code' = "1"
    BY <1>7 DEF CliRunFails, RunRefused, Refuse, Cli, To
  <2> QED
    BY <1>1, <2>1 DEF Where, What, Untouched
<1>8. CASE CliUndo
  <2>1. /\ UNCHANGED <<ws, aborted, origin, left, phase>> /\ pos = "undo"
        /\ \/ pos' = "close" /\ code' = code
           \/ pos' = "raised" /\ code' = "1"
    BY <1>8 DEF CliUndo, Undo, RollbackTo, TruncateTo, Refuse, Cli, Answered, To
  <2>2. phase = "idle" /\ Untouched /\ code \notin {"none", "killed", "0"}
    BY <1>1, <2>1 DEF Where, What
  <2>3. Where'
    BY <1>1, <2>1, <2>2 DEF Where
  <2>4. What'
    BY <2>1, <2>2 DEF What, Untouched
  <2> QED
    BY <2>3, <2>4
<1>9. ASSUME phase = "merging", CommitFinish, UNCHANGED <<origin, left>>
      PROVE  phase' = "idle" /\ ~aborted' /\ Agrees(ws, left)'
  <2>1. left = Shown(Live) /\ ~aborted
    BY <1>1, <1>9 DEF What
  <2>2. WorkspaceIsShown
    BY <1>9, <2>1 DEF PublishInv, Serving, CommitPublishes, MergeDone, CommitFinish
  <2>3. Agrees(ws, left)
    BY <2>1, <2>2 DEF WorkspaceIsShown, Agrees
  <2> QED
    BY <1>9, <2>3 DEF CommitFinish, Agrees, Unpublished
<1>10. ASSUME MergeNoLayer \/ \E p \in Path : MergeFail(p)
       PROVE  phase = "merging" /\ phase' = "idle" /\ aborted' = TRUE /\ reply'.rc # "OK"
  BY <1>10 DEF MergeNoLayer, MergeFail, AbortCommit, Walking, Answer
<1>11. CASE CliCommit
  <2>1. pos = "commit" /\ code = "0" /\ UNCHANGED <<origin, left>>
    BY <1>1, <1>11 DEF CliCommit, Cli, Where, cvars
  <2>2. CASE CommitBegin /\ UNCHANGED cvars
    <3>1. /\ UNCHANGED <<ws, aborted, origin, left, pos, code, layers, ckpts, generation>>
          /\ phase' = "merging"
      BY <2>2 DEF CommitBegin, cvars
    <3>2. Shown(Live)' = Shown(Live)
      BY <1>2, <3>1
    <3>3. ~aborted /\ left = Shown(Live)
      BY <1>1, <2>1 DEF What
    <3> QED
      BY <2>1, <3>1, <3>2, <3>3 DEF Where, What
  <2>3. CASE CommitRefused /\ Answered("close")
    <3>1. /\ UNCHANGED <<ws, aborted, phase>> /\ phase = "idle" /\ pos' = "raised" /\ code' = "1"
      BY <2>3 DEF CommitRefused, Refuse, Answer, Answered, To
    <3>2. ws = origin
      BY <1>1, <2>1, <3>1 DEF What, Untouched
    <3> QED
      BY <2>1, <3>1, <3>2 DEF Where, What
  <2>4. CASE (MergeNoLayer \/ \E p \in Path : MergeFail(p)) /\ Answered("close")
    <3>1. phase' = "idle" /\ aborted' = TRUE /\ pos' = "raised" /\ code' = "1"
      BY <1>10, <2>4 DEF Answered, To
    <3> QED
      BY <3>1 DEF Where, What
  <2>5. CASE CommitFinish /\ Answered("close")
    <3>1. phase' = "idle" /\ ~aborted' /\ Agrees(ws, left)'
      BY <1>9, <2>1, <2>5 DEF CommitFinish
    <3>2. \/ pos' = "close" /\ code' = "0"
          \/ pos' = "raised" /\ code' = "1"
      BY <2>1, <2>5 DEF Answered, To
    <3> QED
      BY <3>1, <3>2 DEF Where, What
  <2> QED
    BY <1>11, <2>2, <2>3, <2>4, <2>5 DEF CliCommit
<1>12. CASE CliClose
  <2>1. /\ UNCHANGED <<ws, aborted, origin, left, code>> /\ pos \in {"close", "raised"}
        /\ phase' = "closed" /\ pos' = "done" /\ phase \in {"idle", "closed"}
    BY <1>12 DEF CliClose, Shutdown, ClientGone, Cli, To, vars
  <2>2. Agrees(ws, left)' = Agrees(ws, left)
    BY <2>1, QuietSteps
  <2>3. Where'
    BY <1>1, <2>1 DEF Where
  <2>4. What'
    BY <1>1, <2>1, <2>2 DEF Where, What
  <2> QED
    BY <2>3, <2>4
<1>13. CASE CliKilled
  <2>1. /\ UNCHANGED <<ws, aborted, origin, left, phase, layers, ckpts, generation>>
        /\ pos \notin {"init", "done", "dead"} /\ pos' = "dead" /\ code' = "killed"
    BY <1>13 DEF CliKilled, To, vars
  <2>2. Agrees(ws, left)' = Agrees(ws, left) /\ Shown(Live)' = Shown(Live)
    BY <1>2, <2>1, QuietSteps
  <2>3. Where'
    BY <1>1, <2>1 DEF Where
  <2>4. phase # "merging" => aborted \/ Agrees(ws, left) \/ ws = origin
    <3>1. code \in {"none", "0", "n", "1", "124", "killed"} /\ phase \in Phases
      BY <1>0 DEF ClientTypeOK, TypeOK
    <3> QED
      BY <1>1, <2>1, <3>1 DEF Where, What, Untouched, Phases
  <2>5. phase = "running" => Untouched'
    BY <1>1, <2>1 DEF What, Untouched
  <2>6. phase = "merging" => ~aborted /\ left = Shown(Live)
    BY <1>1 DEF What
  <2> QED
    BY <2>1, <2>2, <2>3, <2>4, <2>5, <2>6 DEF What
<1>14. CASE Unattended
  <2>1. pos = "dead" /\ code = "killed" /\ UNCHANGED <<pos, code, origin>>
    BY <1>1, <1>14 DEF Unattended, Cli, Where
  <2>2. ASSUME phase' \in {"idle", "closed"}, aborted' \/ Agrees(ws, left)' \/ ws' = origin'
        PROVE  (Where /\ What)'
    BY <2>1, <2>2 DEF Where, What
  <2>3. CASE RunEnd
    <3>1. UNCHANGED <<ws, aborted>> /\ phase = "running" /\ phase' = "idle"
      BY <2>3 DEF RunEnd
    <3> QED
      BY <1>1, <2>1, <2>2, <3>1 DEF What, Untouched
  <2>4. CASE CommitFinish
    <3>1. phase = "merging" /\ left' = left
      BY <1>14, <2>4 DEF CommitFinish, Unattended
    <3> QED
      BY <1>9, <2>1, <2>2, <2>4, <3>1
  <2>5. CASE MergeNoLayer \/ \E p \in Path : MergeFail(p)
    BY <1>10, <2>2, <2>5
  <2>6. CASE ClientGone
    <3>1. UNCHANGED <<ws, aborted, left>> /\ phase = "idle" /\ phase' = "closed"
      BY <1>14, <2>6 DEF ClientGone, Unattended
    <3>2. Agrees(ws, left)' = Agrees(ws, left)
      BY <2>1, <3>1, QuietSteps
    <3> QED
      BY <1>1, <2>1, <2>2, <3>1, <3>2 DEF What
  <2> QED
    BY <1>14, <2>3, <2>4, <2>5, <2>6 DEF Unattended
<1>15. CASE Internal
  <2>0. UNCHANGED <<pos, code, origin, left>>
    BY <1>15 DEF Internal, cvars
  <2>1. CASE CommandOp
    <3>1. UNCHANGED <<ws, phase, aborted>> /\ phase = "running"
      BY <2>1 DEF CommandOp, WriteThrough
    <3>2. Agrees(ws, left)' = Agrees(ws, left)
      BY <2>0, <3>1, QuietSteps
    <3>3. pos # "commit" /\ pos' # "commit"
      BY <1>1, <2>0, <3>1 DEF Where
    <3>4. Where'
      BY <1>1, <2>0, <3>1 DEF Where
    <3>5. What'
      BY <1>1, <2>0, <3>1, <3>2, <3>3 DEF What, Untouched
    <3> QED
      BY <3>4, <3>5
  <2>2. CASE StrayOp
    BY <1>0, <2>2 DEF StrayOp
  <2>3. ASSUME phase = "merging", phase' = phase, aborted' = aborted, Shown(Live)' = Shown(Live)
        PROVE  (Where /\ What)'
    <3>1. pos \in {"commit", "dead"} /\ code \in {"0", "killed"} /\ (code = "0" => pos = "commit")
      BY <1>1, <2>3 DEF Where
    <3>2. ~aborted /\ left = Shown(Live)
      BY <1>1, <2>3 DEF What
    <3>3. Where'
      BY <1>1, <2>0, <2>3 DEF Where
    <3> QED
      BY <2>0, <2>3, <3>1, <3>2, <3>3 DEF What
  <2>4. CASE MergeNextLayer
    BY <1>2, <2>3, <2>4 DEF MergeNextLayer, Walking
  <2>5. ASSUME NEW p \in Path, MergeVisit(p) PROVE (Where /\ What)'
    <3>1. /\ Walking /\ Walked[p] # "none" /\ \E e \in TakenFor(p) : ws' \in VisitResults(p, e)
          /\ UNCHANGED <<layers, ckpts, generation, phase, aborted>>
      BY <2>5 DEF MergeVisit, VisitNext
    <3>2. mi \in 1 .. Len(Live) /\ phase = "merging"
      BY <1>0, <3>1, UnderFacts DEF Walking, Position
    <3>3. Shown(Live)' = Shown(Live)
      BY <1>0, <3>1, <3>2, VisitKeepsShown
    <3> QED
      BY <2>3, <3>1, <3>2, <3>3
  <2> QED
    BY <1>15, <2>1, <2>2, <2>4, <2>5 DEF Internal
<1>16. CASE UNCHANGED allvars
  <2>1. UNCHANGED <<ws, aborted, origin, left, phase, pos, code, layers, ckpts, generation>>
    BY <1>16 DEF allvars, vars, cvars
  <2>2. Agrees(ws, left)' = Agrees(ws, left) /\ Shown(Live)' = Shown(Live)
    BY <1>2, <2>1, QuietSteps
  <2>3. Where'
    BY <1>1, <2>1 DEF Where
  <2>4. What'
    BY <1>1, <2>1, <2>2 DEF What, Untouched
  <2> QED
    BY <2>3, <2>4
<1>17. CASE Request \/ RollbackPast \/ CommitAll \/ CloseBox \/ Enter \/ Leave \/ Raise
  BY <1>1, <1>17 DEF Request, RollbackPast, CommitAll, CloseBox, Enter, Leave, Raise, Api
<1> QED
  BY <1>3, <1>4, <1>5, <1>6, <1>7, <1>8, <1>11, <1>12, <1>13, <1>14, <1>15, <1>16, <1>17 DEF CNext

(* agentbox run is all or nothing, whatever the command did and whichever  *)
(* system calls fail, also when it is killed at any point: provided no     *)
(* process of the command outlives its answer and no mkdir of the merge    *)
(* fails unnoticed.                                                        *)
THEOREM RunsAreTransactions ==
  ASSUME Leftovers = {}, "mkdir_p" \notin Faults, "getxattr" \notin Faults
  PROVE  CSpec => []RunIsTransaction
<1>1. CInit => BaseInv /\ PublishInv /\ CliInv
  <2> SUFFICES ASSUME CInit PROVE BaseInv /\ PublishInv /\ CliInv
    OBVIOUS
  <2>1. BaseInv /\ PublishInv
    <3>1. Init
      BY DEF CInit
    <3>2. BaseInv
      BY <3>1, BaseInit
    <3> QED
      BY <3>1, <3>2 DEF Init, PublishInv, Serving
  <2> QED
    BY <2>1 DEF CInit, Init, CliInv, Where, What, Untouched
<1>2. BaseInv /\ [Next]_vars => BaseInv'
  BY BaseStep
<1>3. BaseInv /\ PublishInv /\ [Next]_vars => PublishInv'
  BY PublishStep
<1>4. BaseInv /\ PublishInv /\ ClientTypeOK /\ CliInv /\ [CNext]_allvars => CliInv'
  BY CliStep
<1>5. CliInv => RunIsTransaction
  BY DEF CliInv, Where, What, Untouched, RunIsTransaction, Agrees
<1> QED
  BY <1>1, <1>2, <1>3, <1>4, <1>5, SandboxInv, ClientTypeCorrect, PTL DEF CSpec, Spec
=============================================================================
