----------------------------- MODULE Supervisor -----------------------------
(***************************************************************************)
(* The supervisor process of one sandbox: the checkpoint table, the        *)
(* generations of scratch directories, the overlay mount, and the requests *)
(* of agentbox_supervisor_main (src/c/agentbox_core.c).                    *)
(*                                                                         *)
(* The supervisor serves one request at a time and answers each before it  *)
(* reads the next.  CHECKPOINT, ROLLBACK, DIFF and SHUTDOWN are one step   *)
(* each; RUN is a step per file operation of the command, and COMMIT one   *)
(* per entry merged, because a failure can stop it between any two.        *)
(*                                                                         *)
(* How agentbox_proc_run waits for and kills the command is in ProcRun,    *)
(* whose GroupSwept is why Leftovers has two kinds and no third.  Not here *)
(* either: the bytes on the control socket and the client side.            *)
(***************************************************************************)
EXTENDS Overlay

CONSTANTS
  MaxCheckpoints, \* AGENTBOX_MAX_CHECKPOINTS
  MountCap,       \* layers (live one included) whose paths fit the mount options
  MaxGen,         \* bound: generations a behaviour may create
  Faults,         \* which system calls may fail
  Leftovers       \* how processes of a command may outlive its answer

FaultNames == {"umount", "mount", "mkdir", "purge", "merge", "mkdir_p", "getxattr", "spawn"}

(* dying: killed with its process group, still inside its last system call *)
(* escaped: out of reach of the kill because it called setsid()            *)
LeftoverKinds == {"dying", "escaped"}

ASSUME BoundsAssumption ==
  /\ MaxCheckpoints \in Nat \ {0}
  /\ MountCap \in Nat \ {0}
  /\ MaxGen \in Nat \ {0}
  /\ Faults \subseteq FaultNames
  /\ Leftovers \subseteq LeftoverKinds

VARIABLES
  ws,         \* the real workspace
  layers,     \* contents of upper_<n>
  uppers,     \* the upper_<n> directories that exist
  works,      \* the work_<n> directories that exist
  ckpts,      \* checkpoints[0 .. checkpoint_count-1], oldest first
  generation, \* live_upper is upper_<generation>
  nextNum,    \* next_checkpoint_num
  mnt,        \* layers of the overlay mounted on merged_dir, <<>> when none is
  phase,      \* what the request loop is doing
  mi,         \* commit: index of the layer being walked
  seen,       \* commit: entries of that layer already visited
  strays,     \* processes of answered commands, with the mount they still use
  reply,      \* the last frame sent back
  leaked,     \* history: the upper_<n> and work_<n> a purge failed to remove
  aborted     \* history: a commit was given up since the last one that was not

vars == <<ws, layers, uppers, works, ckpts, generation, nextNum, mnt, phase,
          mi, seen, strays, reply, leaked, aborted>>

Gen == 0 .. MaxGen   \* 0: before the first one
Verbs == {"CREATE", "CHECKPOINT", "ROLLBACK", "COMMIT", "DIFF", "RUN", "SHUTDOWN"}
Codes == {"OK", "GENERIC", "IO", "MOUNT_FAILED", "INVALID_ARGUMENT",
          "CHECKPOINT_NOT_FOUND", "CHECKPOINT_LIMIT_REACHED"}
Phases == {"starting", "idle", "running", "merging", "closed"}

(* tree is history, which no action reads: what the sandbox showed when    *)
(* the layer was sealed.                                                   *)
Checkpoints == [id : Nat, gen : Gen, tree : Tree]

(* The gens of a table with the live layer on top, oldest first. *)
StackOf(cks, live) == [i \in 1 .. Len(cks) + 1 |-> IF i <= Len(cks) THEN cks[i].gen ELSE live]

LayersOf(stack) == [i \in DOMAIN stack |-> layers[stack[i]]]

(* What a mount of that stack shows. *)
Shown(stack) == View(ws, LayersOf(stack))

Live == StackOf(ckpts, generation)

(* The tree the i-th checkpoint stands for. *)
CheckpointTree(i) == View(ws, LayersOf([j \in 1 .. i |-> ckpts[j].gen]))

TableGens(cks) == {cks[i].gen : i \in DOMAIN cks}

Answer(verb, rc) == reply' = [verb |-> verb, rc |-> rc]

May(f) == f \in Faults

----------------------------------------------------------------------------
(* Mounting.  *)

Unmounted == <<>>

(* What agentbox_cow_mount answers for these directories. *)
MountCodes(stack, ups, wks) ==
  IF Len(stack) > MountCap THEN {"INVALID_ARGUMENT"}
  ELSE IF \E i \in DOMAIN stack : stack[i] \notin ups THEN {"MOUNT_FAILED"}
  ELSE IF stack[Len(stack)] \notin wks THEN {"MOUNT_FAILED"}
  ELSE {"OK"} \cup (IF May("mount") THEN {"MOUNT_FAILED"} ELSE {})

(* malloc of the lowerdir string comes before the mount. *)
RemountCodes(stack, ups, wks) ==
  MountCodes(stack, ups, wks) \cup (IF May("mount") THEN {"GENERIC"} ELSE {})

(* Mutant: the result of the mount is dropped, as on the error path of     *)
(* commit.                                                                 *)
RemountUnchecked(cks, live, rc) ==
  /\ rc = "OK"
  /\ \E c \in RemountCodes(StackOf(cks, live), uppers', works') :
       mnt' = IF c = "OK" THEN StackOf(cks, live) ELSE Unmounted

(* Mutant: mounts the live_upper of before new_generation_dirs.            *)
RemountStale(cks, live, rc) ==
  /\ rc \in RemountCodes(StackOf(cks, live), uppers', works')
  /\ mnt' = IF rc = "OK" THEN StackOf(cks, generation) ELSE Unmounted

remount_current(cks, live, rc) ==
  /\ rc \in RemountCodes(StackOf(cks, live), uppers', works')
  /\ mnt' = IF rc = "OK" THEN StackOf(cks, live) ELSE Unmounted

(* umount2 of what is not mounted is EINVAL, which counts as success. *)
UnmountFails == mnt # Unmounted /\ May("umount")

MkdirResults == IF May("mkdir") THEN BOOLEAN ELSE {TRUE}

(* The tail of every request that replaces the live layer: ups and wks are *)
(* what the purges before it left on disk.  mkdir's errors are ignored.    *)
NewGeneration(cks, ups, wks, verb) ==
  /\ generation' = generation + 1
  /\ \E u \in MkdirResults, w \in MkdirResults :
       /\ uppers' = ups \cup {g \in {generation + 1} : u}
       /\ works' = wks \cup {g \in {generation + 1} : w}
  /\ \E rc \in Codes : remount_current(cks, generation + 1, rc) /\ Answer(verb, rc)

(* agentbox_cow_purge fails when a system call does, or when a process     *)
(* that outlived its command makes an entry behind nftw's back, so that    *)
(* the directory's own rmdir finds it not empty.                           *)
PurgeMayFail(g) == May("purge") \/ \E s \in strays : s.stack[Len(s.stack)] = g

(* Which of the directories there a purge of the dead ones may leave. *)
Survivors(dead, there) ==
  {S \in SUBSET (dead \cap there) : \A g \in S : PurgeMayFail(g)}

(* What a failed purge leaves in a dead layer is not followed, nor what a  *)
(* process still writes there: nothing reads it again.                     *)
Forget(dead) == layers' = [g \in Gen |-> IF g \in dead THEN EmptyLayer ELSE layers[g]]

(* The purges leave the layers ku and the workdirs kw, and no caller looks *)
(* at their result.                                                        *)
PurgeLeaves(dead, ku, kw) ==
  /\ Forget(dead)
  /\ leaked' = [uppers |-> leaked.uppers \cup ku, works |-> leaked.works \cup kw]

(* Mutant: the workdir is left to pile up. *)
DeadWorkKept == {}

(* The workdirs a new generation discards. *)
DeadWork == {generation}

(* The dead layers and the live workdir are purged, then a new live layer  *)
(* replaces the old one.                                                   *)
Discard(cks, dead, verb) ==
  \E ku \in Survivors(dead, uppers), kw \in Survivors(DeadWork, works) :
    /\ PurgeLeaves(dead, ku, kw)
    /\ NewGeneration(cks, uppers \ (dead \ ku), works \ (DeadWork \ kw), verb)

----------------------------------------------------------------------------
Init ==
  /\ ws \in {t \in Tree : WellFormed(t) /\ \A p \in Path : t[p] # "torn"}
  /\ layers = [g \in Gen |-> EmptyLayer]
  /\ uppers = {}
  /\ works = {}
  /\ ckpts = <<>>
  /\ generation = 0
  /\ nextNum = 0
  /\ mnt = Unmounted
  /\ phase = "starting"
  /\ mi = 0
  /\ seen = {}
  /\ strays = {}
  /\ reply = [verb |-> "CREATE", rc |-> "OK"]
  /\ leaked = [uppers |-> {}, works |-> {}]
  /\ aborted = FALSE

(* The start of agentbox_supervisor_main: a failed first mount ends it. *)
Start ==
  /\ phase = "starting"
  /\ NewGeneration(<<>>, {}, {}, "CREATE")
  /\ phase' = IF reply'.rc = "OK" THEN "idle" ELSE "closed"
  /\ UNCHANGED <<ws, layers, ckpts, nextNum, mi, seen, strays, leaked, aborted>>

----------------------------------------------------------------------------
(* Requests. *)

CanGrow == generation < MaxGen

(* A request refused before it touches anything. *)
Refuse(verb, rc) ==
  /\ Answer(verb, rc)
  /\ UNCHANGED <<ws, layers, uppers, works, ckpts, generation, nextNum, mnt,
                 phase, mi, seen, strays, leaked, aborted>>

(* Mutant: off by one. *)
TableFullLate == Len(ckpts) > MaxCheckpoints

TableFull == Len(ckpts) >= MaxCheckpoints

CheckpointRefused ==
  /\ phase = "idle"
  /\ \/ /\ TableFull
        /\ Refuse("CHECKPOINT", "CHECKPOINT_LIMIT_REACHED")
     \/ /\ ~TableFull
        /\ UnmountFails
        /\ Refuse("CHECKPOINT", "MOUNT_FAILED")

(* Mutant: ids numbered by the table, so that a rollback frees them. *)
RenumberedCheckpoint == [id |-> Len(ckpts), gen |-> generation, tree |-> Shown(Live)]

(* The live layer, sealed in place. *)
NewCheckpoint == [id |-> nextNum, gen |-> generation, tree |-> Shown(Live)]

(* The table records the live layer before the new one is mounted, so an   *)
(* error answer does not undo the checkpoint.                              *)
Seal ==
  /\ phase = "idle"
  /\ CanGrow
  /\ ~TableFull
  /\ ckpts' = Append(ckpts, NewCheckpoint)
  /\ nextNum' = nextNum + 1
  /\ Discard(ckpts', {}, "CHECKPOINT")
  /\ UNCHANGED <<ws, phase, mi, seen, strays, aborted>>

(* Mutant: purges the target's own layer too (>= for >). *)
DeadFromTarget(keep) == {generation} \cup {ckpts[i].gen : i \in {j \in DOMAIN ckpts : j >= keep}}

(* Mutant: forgets the layers of the newer checkpoints. *)
DeadLiveOnly(keep) == {generation}

(* The layers a rollback to the keep-th checkpoint discards. *)
DeadLayers(keep) == {generation} \cup {ckpts[i].gen : i \in keep + 1 .. Len(ckpts)}

TruncateTo(keep) ==
  /\ ckpts' = SubSeq(ckpts, 1, keep)
  /\ Discard(ckpts', DeadLayers(keep), "ROLLBACK")
  /\ UNCHANGED <<ws, nextNum, phase, mi, seen, strays, aborted>>

(* No id: the newest checkpoint, or the bare workspace when there is none. *)
RollbackLatest ==
  /\ phase = "idle"
  /\ CanGrow
  /\ TruncateTo(Len(ckpts))

RollbackTo(id) ==
  /\ phase = "idle"
  /\ CanGrow
  /\ \E i \in DOMAIN ckpts : ckpts[i].id = id /\ TruncateTo(i)

RollbackRefused ==
  /\ phase = "idle"
  /\ \/ /\ \E id \in 0 .. MaxGen : \A i \in DOMAIN ckpts : ckpts[i].id # id
        /\ Refuse("ROLLBACK", "CHECKPOINT_NOT_FOUND")
     \/ UnmountFails /\ Refuse("ROLLBACK", "MOUNT_FAILED")

----------------------------------------------------------------------------
(* COMMIT. *)

CommitRefused ==
  /\ phase = "idle"
  /\ UnmountFails
  /\ Refuse("COMMIT", "MOUNT_FAILED")

CommitBegin ==
  /\ phase = "idle"
  /\ CanGrow
  /\ phase' = "merging"
  /\ mnt' = Unmounted
  /\ mi' = 1
  /\ seen' = {}
  /\ UNCHANGED <<ws, layers, uppers, works, ckpts, generation, nextNum, strays,
                 reply, leaked, aborted>>

Walked == layers[Live[mi]]

(* Mutant: post-order (FTW_DEPTH). *)
VisitChildrenFirst(p) ==
  /\ Walked[p] # "none"
  /\ p \notin seen
  /\ \A q \in Desc(p) : Walked[q] # "none" => q \in seen

(* nftw visits a directory before its contents, and finishes it before it  *)
(* moves on to another.                                                    *)
VisitNext(p) ==
  /\ Walked[p] # "none"
  /\ p \notin seen
  /\ Anc[p] \subseteq seen
  /\ \A q \in seen :
       (\E r \in Desc(q) : Walked[r] # "none" /\ r \notin seen) => q \in Anc[p]

Walking == phase = "merging" /\ mi <= Len(Live) /\ Live[mi] \in uppers

(* What the entry is taken for: a getxattr that fails makes an opaque      *)
(* directory a plain one.                                                  *)
TakenFor(p) ==
  {Walked[p]} \cup (IF May("getxattr") /\ Walked[p] = "opaque" THEN {"dir"} ELSE {})

(* mkdir_p's mkdirs may also fail unnoticed. *)
VisitResults(p, e) ==
  {merge_visit(ws, p, e)} \cup
  (IF May("mkdir_p") /\ e \in {"dir", "opaque"}
   THEN {IF e = "opaque" THEN purge(ws, p) ELSE ws} ELSE {})

MergeVisit(p) ==
  /\ Walking
  /\ VisitNext(p)
  /\ \E e \in TakenFor(p) : ~VisitFails(ws, p, e) /\ ws' \in VisitResults(p, e)
  /\ seen' = seen \cup {p}
  /\ UNCHANGED <<layers, uppers, works, ckpts, generation, nextNum, mnt, phase,
                 mi, strays, reply, leaked, aborted>>

MergeNextLayer ==
  /\ Walking
  /\ \A p \in Path : Walked[p] # "none" => p \in seen
  /\ mi' = mi + 1
  /\ seen' = {}
  /\ UNCHANGED <<ws, layers, uppers, works, ckpts, generation, nextNum, mnt,
                 phase, strays, reply, leaked, aborted>>

(* handle_commit's error path: the result of the remount is dropped. *)
AbortCommit ==
  /\ UNCHANGED <<layers, uppers, works, ckpts, generation, nextNum, strays, leaked>>
  /\ \E rc \in Codes : remount_current(ckpts, generation, rc)
  /\ phase' = "idle"
  /\ mi' = 0
  /\ seen' = {}
  /\ Answer("COMMIT", "IO")
  /\ aborted' = TRUE

(* Mutant: a visit that fails is tried again. *)
MergeRetry(p) ==
  /\ Walking
  /\ VisitNext(p)
  /\ VisitFails(ws, p, Walked[p])
  /\ UNCHANGED vars

MergeFail(p) ==
  /\ Walking
  /\ VisitNext(p)
  /\ VisitFails(ws, p, Walked[p]) \/ May("merge")
  /\ ws' \in FailedVisits(ws, p, Walked[p])
  /\ AbortCommit

(* nftw on a layer directory that is not there. *)
MergeNoLayer ==
  /\ phase = "merging"
  /\ mi <= Len(Live)
  /\ Live[mi] \notin uppers
  /\ AbortCommit
  /\ UNCHANGED ws

CommitFinish ==
  /\ phase = "merging"
  /\ mi > Len(Live)
  /\ ckpts' = <<>>
  /\ Discard(<<>>, TableGens(ckpts) \cup {generation}, "COMMIT")
  /\ phase' = "idle"
  /\ mi' = 0
  /\ seen' = {}
  /\ aborted' = FALSE
  /\ UNCHANGED <<ws, nextNum, strays>>

----------------------------------------------------------------------------
(* RUN: the command's working directory is merged_dir, mounted or not. *)

(* The output files, the pipes or the process cannot be had. *)
RunRefused ==
  /\ phase = "idle"
  /\ May("spawn")
  /\ \E rc \in {"IO", "GENERIC"} : Refuse("RUN", rc)

RunBegin ==
  /\ phase = "idle"
  /\ phase' = "running"
  /\ UNCHANGED <<ws, layers, uppers, works, ckpts, generation, nextNum, mnt,
                 mi, seen, strays, reply, leaked, aborted>>

(* A file operation through the mount of that stack. *)
WriteThrough(stack) ==
  LET top == stack[Len(stack)]
      low == Shown(SubSeq(stack, 1, Len(stack) - 1))
  IN  /\ \E U \in UpperSteps(layers[top], low, Shown(stack)) :
           layers' = [layers EXCEPT ![top] = U]
      /\ UNCHANGED <<ws, uppers, works, ckpts, generation, nextNum, mnt, phase,
                     mi, seen, reply, leaked, aborted>>

CommandOp ==
  /\ phase = "running"
  /\ mnt # Unmounted
  /\ WriteThrough(mnt)
  /\ UNCHANGED strays

(* The command ends or times out and its group is killed; a process of it  *)
(* may be left with the mount in use.                                      *)
RunEnd ==
  /\ phase = "running"
  /\ phase' = "idle"
  /\ Answer("RUN", "OK")
  /\ \/ UNCHANGED strays
     \/ /\ mnt # Unmounted
        /\ \E k \in Leftovers : strays' = strays \cup {[kind |-> k, stack |-> mnt]}
  /\ UNCHANGED <<ws, layers, uppers, works, ckpts, generation, nextNum, mnt,
                 mi, seen, leaked, aborted>>

(* umount2(MNT_DETACH) took the mount from the name, not from its users.   *)
(* While the top layer is the live one or a checkpoint's, so are those     *)
(* below it.                                                               *)
StrayOp ==
  /\ \E s \in strays :
       /\ s.stack[Len(s.stack)] \in uppers \cap (TableGens(ckpts) \cup {generation})
       /\ WriteThrough(s.stack)
       /\ strays' = IF s.kind = "dying" THEN strays \ {s} ELSE strays

Diff ==
  /\ phase = "idle"
  /\ Answer("DIFF", IF \A i \in DOMAIN Live : Live[i] \in uppers THEN "OK" ELSE "IO")
  /\ UNCHANGED <<ws, layers, uppers, works, ckpts, generation, nextNum, mnt,
                 phase, mi, seen, strays, leaked, aborted>>

----------------------------------------------------------------------------
(* The end of the loop.  Killing the anchor, after SHUTDOWN's purge, ends  *)
(* every process of the pid namespace and with it the mount namespace.     *)

Shutdown ==
  /\ phase = "idle"
  /\ phase' = "closed"
  /\ mnt' = Unmounted
  /\ uppers' \in Survivors(uppers, uppers)
  /\ works' \in Survivors(works, works)
  /\ PurgeLeaves(Gen, uppers', works')
  /\ strays' = {}
  /\ Answer("SHUTDOWN", "OK")
  /\ UNCHANGED <<ws, ckpts, generation, nextNum, mi, seen, aborted>>

(* recv_frame fails: nothing is purged. *)
ClientGone ==
  /\ phase = "idle"
  /\ phase' = "closed"
  /\ mnt' = Unmounted
  /\ strays' = {}
  /\ UNCHANGED <<ws, layers, uppers, works, ckpts, generation, nextNum,
                 mi, seen, reply, leaked, aborted>>

Next ==
  \/ Start
  \/ CheckpointRefused
  \/ Seal
  \/ RollbackLatest
  \/ \E i \in DOMAIN ckpts : RollbackTo(ckpts[i].id)
  \/ RollbackRefused
  \/ CommitRefused
  \/ CommitBegin
  \/ \E p \in Path : MergeVisit(p)
  \/ MergeNextLayer
  \/ \E p \in Path : MergeFail(p)
  \/ MergeNoLayer
  \/ CommitFinish
  \/ RunRefused
  \/ RunBegin
  \/ CommandOp
  \/ RunEnd
  \/ StrayOp
  \/ Diff
  \/ Shutdown
  \/ ClientGone

(* A commit that has begun is carried through: the supervisor is one       *)
(* process that blocks on nothing between the merge's system calls.        *)
MergeStep ==
  \/ \E p \in Path : MergeVisit(p) \/ MergeFail(p)
  \/ MergeNextLayer
  \/ MergeNoLayer
  \/ CommitFinish

Spec == Init /\ [][Next]_vars

----------------------------------------------------------------------------
(* Properties. *)

Serving == phase \in {"idle", "running", "merging"}

(* The variables stay in their types. *)
TypeOK ==
  /\ ws \in Tree
  /\ layers \in [Gen -> Layer]
  /\ uppers \subseteq Gen
  /\ works \subseteq Gen
  /\ ckpts \in Seq(Checkpoints)
  /\ generation \in Gen
  /\ nextNum \in Nat
  /\ mnt \in Seq(Gen)
  /\ phase \in Phases
  /\ mi \in Nat
  /\ seen \subseteq Path
  /\ strays \subseteq [kind : LeftoverKinds, stack : Seq(Gen) \ {<<>>}]
  /\ reply \in [verb : Verbs, rc : Codes]
  /\ leaked \in [uppers : SUBSET Gen, works : SUBSET Gen]
  /\ aborted \in BOOLEAN

(* Purging is exact: between requests and inside a commit, the scratch     *)
(* directories on disk are those of the checkpoint table, the live layer   *)
(* and what a failed purge left, so no layer in use is ever deleted and,   *)
(* where purges succeed, none is left behind.                              *)
ScratchMatchesTable ==
  Serving => /\ uppers = TableGens(ckpts) \cup {generation} \cup leaked.uppers
             /\ works = {generation} \cup leaked.works

(* Nothing is forgotten: whatever fails, a scratch directory on disk is    *)
(* the table's, the live layer's, or one whose purge failed - and those    *)
(* are out of use for good: no checkpoint, mount or later generation names *)
(* them again.  They stay until SHUTDOWN sweeps the runtime directory.     *)
NoScratchLeak ==
  Serving => /\ uppers \subseteq TableGens(ckpts) \cup {generation} \cup leaked.uppers
             /\ works \subseteq {generation} \cup leaked.works
             /\ leaked.uppers \cap (TableGens(ckpts) \cup {generation}) = {}
             /\ generation \notin leaked.works

(* Whatever is mounted on merged_dir is the table's stack: commands never  *)
(* run over layers that a checkpoint, rollback or commit has replaced.     *)
MountMatchesTable ==
  phase \in {"idle", "running"} /\ mnt # Unmounted => mnt = Live

(* The table is ordered: ids and layers strictly increase, every id is     *)
(* below the next one to be handed out and every sealed layer below the    *)
(* live one, so that neither is ever reused.                               *)
TableOrdered ==
  /\ \A i, j \in DOMAIN ckpts : i < j => /\ ckpts[i].id < ckpts[j].id
                                        /\ ckpts[i].gen < ckpts[j].gen
  /\ \A i \in DOMAIN ckpts : ckpts[i].id < nextNum /\ ckpts[i].gen < generation
  /\ Len(ckpts) <= MaxCheckpoints

(* Publishing skips special files and what they hide. *)
Unpublished(t, p) == \E q \in Anc[p] \cup {p} : t[q] \in Special

WorkspaceIsShown ==
  LET shown == Shown(Live)
  IN  \A p \in Path : ws[p] = shown[p] \/ Unpublished(shown, p)

MergeDone == phase = "merging" /\ mi > Len(Live)

(* When the merge has walked every layer, the workspace is what the        *)
(* sandbox showed, but for the special files a commit skips - provided no  *)
(* earlier attempt was given up half way.                                  *)
CommitPublishes == MergeDone /\ ~aborted => WorkspaceIsShown

(* The same of every commit: answered OK, it has merged the layer stack.   *)
EveryCommitPublishes == MergeDone => WorkspaceIsShown

(* Outside a commit, every checkpoint still stands for the tree that was   *)
(* shown when it was taken, provided no commit was given up half way: a    *)
(* rollback to it restores that tree.                                      *)
CheckpointsIntact ==
  phase \in {"idle", "running"} /\ ~aborted =>
    \A i \in DOMAIN ckpts : CheckpointTree(i) = ckpts[i].tree

(* With no system call failing, the table's limit is the only one a        *)
(* CHECKPOINT meets.                                                       *)
OnlyTableLimits == reply.verb = "CHECKPOINT" => reply.rc \in {"OK", "CHECKPOINT_LIMIT_REACHED"}

(* A leaf of the workspace that is gone from the sandbox is reported as    *)
(* deleted by DIFF, by its own path or by that of a directory above it -   *)
(* unless a directory above it was recreated, which no line of DIFF tells. *)
DiffReportsDeletions ==
  Serving /\ ~aborted =>
    LET ls    == LayersOf(Live)
        shown == View(ws, ls)
        diff  == DiffStatus(ls)
    IN  \A p \in Path : ws[p] \in Content /\ shown[p] = "absent" =>
          \/ \E q \in Anc[p] \cup {p} : diff[q] # "-"
          \/ \E i \in DOMAIN ls : InOpaque(ls[i], p)

(* Every leaf a command can read that is not the workspace's own is        *)
(* reported as modified by DIFF.                                           *)
DiffReportsLeaves ==
  Serving =>
    LET ls    == LayersOf(Live)
        shown == View(ws, ls)
        diff  == DiffStatus(ls)
    IN  \A p \in Path : shown[p] \notin {"absent", "dir"} /\ Deciders(ls, p) # {}
                        => diff[p] = "M"

(* A failed remount is never silent: the step that leaves merged_dir       *)
(* without its overlay answers with an error.                              *)
MountLossReported ==
  [][phase' = "idle" /\ mnt' = Unmounted /\ (mnt # Unmounted \/ phase = "merging")
       => reply'.rc # "OK"]_vars

(* While a commit rewrites the workspace, step by step and also when it    *)
(* fails, the tree the sandbox shows does not change.                      *)
MergeKeepsView ==
  [][phase = "merging" /\ ckpts' = ckpts /\ generation' = generation
       => Shown(Live)' = Shown(Live)]_vars

(* A commit that has begun is answered. *)
CommitAnswered == phase = "merging" ~> phase = "idle"

(* The sandbox is a store of snapshots. *)
Abstract == INSTANCE Snapshots WITH
  base   <- ws,
  cur    <- Shown(Live),
  snaps  <- [i \in 1 .. Len(ckpts) |-> [id |-> ckpts[i].id, tree |-> CheckpointTree(i)]],
  nextId <- nextNum,
  stale  <- aborted,
  status <- CASE phase = "merging" -> "publishing"
              [] phase \in {"idle", "running"} -> "open"
              [] OTHER -> phase

(* Every behaviour of the supervisor is one of the snapshot store: what    *)
(* checkpoint, rollback and commit do to layers, table and mount has the   *)
(* effect the store promises.                                              *)
ImplementsSnapshots == Abstract!SSpec
=============================================================================
