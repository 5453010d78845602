# Verification of agentbox

TLA+ models of agentbox - the engine in `src/c/` and the programs over it in
`src/agentbox/` - model-checked with TLC, with theorems checked by TLAPS.
Paths below are relative to the repository.

    tlc -config MCSupervisor_core.cfg MCSupervisor   # a run
    tlapm SupervisorProofs.tla                       # the proofs of a module

## The system

A `Sandbox` (Python, over ctypes) asks `agentbox_create` for a supervisor
process, `agentbox-exec`, which holds a user, mount and pid namespace and an
overlay mount whose lowest layer is the real workspace. Client and supervisor
talk over one socketpair, `ctrl_fd`: length-prefixed frames, one request at a
time, each answered before the next is read.

| part | state | operations |
|---|---|---|
| supervisor (`agentbox_core.c` 129-422) | checkpoint table, `generation`, `next_checkpoint_num`, scratch directories `upper_<n>`/`work_<n>`, the mount on `merged/` | CHECKPOINT, ROLLBACK, COMMIT, DIFF, RUN, SHUTDOWN, start, loss of the client |
| copy-on-write engine (`agentbox_cow.c`) | layer directories, the workspace | mount, unmount, purge, merge, diff |
| command runner (`agentbox_proc.c`) | child, its process group, two pipes, two capture files, a deadline | fork, poll, drain, reap, kill on timeout, last drain, sweep, answer |
| client (`agentbox_core.c` 431-757) | `ctrl_fd`, supervisor pid, `runtime_dir` | create, destroy, one function per verb, streaming receive loop |
| control socket (`agentbox_core.c` 36-121) | bytes in flight | `send_frame`, `recv_frame`, field parsing |
| namespace entry and probe (`agentbox_ns.c`) | none | enter, probe, AppArmor profile |
| Python (`src/agentbox/`) | `_closed` | `transaction`, `close`, `run`, the command line's `cmd_run` |

How they interact: the client's requests become supervisor actions; RUN calls
the runner, whose processes write through the mount into the live layer;
COMMIT walks the layers into the workspace the mount is built on; chunks of
output go back on the same socket as the answer.

What is hard:

* *partial failure*: the errors of purge, mkdir and some remounts are ignored, a
  merge can stop between or inside entries, and the table changes before the
  remount that may fail;
* *interleaving*: processes of a finished command may still be alive, dying
  or out of the reach of the kill while the layers they use are sealed or purged;
* *races around a RUN*: the deadline against `setsid()`, the exit of the shell
  against the deadline, helpers against the sweep, output against the bounded
  last drain, a slow client against the blocking socket;
* *sequences*: ids, layers and workdirs over long mixes of checkpoint,
  rollback and commit; a commit after a failed one;
* *descriptors*: no end of a socket is close-on-exec, so anchors, commands and
  sandboxes created later hold ends they do not use, and an end of file that
  tells one side of the other's death may not come;
* *life cycle*: create and destroy are many steps in two processes, each of
  which can fail or be the last one a process takes;
* *bounds*: the checkpoint table, the mount option string, the pipe, the
  socket, the length of a frame.

`PROJECT.json` lists the hazards at their lines.

What makes each part correct:

* supervisor: a checkpoint stands for the tree it was taken of until it is
  rolled back past or committed; scratch directories on disk are those in use,
  and what could not be purged is never used again; what is mounted is what the table says; ids are never reused;
* copy-on-write engine: a commit publishes what the sandbox showed, and the
  merge does not disturb the view meanwhile; a diff tells what changed;
* runner: it ends on the shell's exit or the deadline, leaves no live process
  of the group, tells the truth about the exit, loses no output;
* client and socket: every request gets its own answer or an error, every call
  returns, and the end of either side is noticed by the other;
* life cycle: what was created is gone after destroy or a failed create, and
  sandboxes do not touch each other's directories or sockets;
* namespaces: what passes the probe may still be refused, which create answers
  and takes back, and a setup that says OK helped;
* programs: a `transaction()` that raises is undone, and `agentbox run` is all
  or nothing.

## Modules

| module | models |
|---|---|
| `Overlay` | pure operators: trees, layers, the kernel's union (external), file operations as they appear in an upper layer (external), and the code's purge, `mkdir_p`, `merge_visit`, diff |
| `Supervisor` | the request loop, over `Overlay` |
| `Snapshots` | abstract specification: a private tree, snapshots, restore, non-atomic publishing |
| `MCSupervisor` | workspaces of one, two and three paths for TLC |
| `ProcRun` | one RUN: runner, processes, pipes, client's receive loop |
| `Namespace` | pure operators: what probe, entry and AppArmor installer answer on a machine, which may run short at any call |
| `Session` | the life of sandboxes, over `Namespace`: client process, supervisors, anchors, socket pairs, runtime directories |
| `Client` | programs over one sandbox, extending `Supervisor`: transactions, `agentbox run` |
| `MCSession`, `MCClient` | machines and workspaces for TLC |
| `OverlayProofs` | lemmas: what views, visits and a command's writes do |
| `SupervisorProofs` | theorems about the table, scratch, mount, checkpoints, DIFF |
| `CommitProofs` | over it: a commit publishes the view |
| `SnapshotProofs` | over that: the supervisor implements `Snapshots` |
| `ClientProofs` | over that and `Client`: transactions, `agentbox run` |
| `ProcRunProofs` | theorems about one RUN |
| `SessionProofs` | theorems about the life of sandboxes |

Definitions whose comment starts with "Mutant" are wrong variants of a
definition, one for each property, that show that the property can fail.

### Overlay

A tree maps each path to `absent`, `dir` or a content; a layer maps each path
to what `upper_<n>` holds there: nothing, a whiteout, a directory, an opaque
directory, a leaf. Names and bytes are members of small sets; `Special` are the
contents `merge_visit` skips. `Anc` gives a path's ancestors. `torn` is a file
whose copy was cut short.

Kernel behaviour is modelled from what the code relies on: whiteouts for
removals, opaque marks on directories made new, plain directory entries for
copied-up parents. `merge_visit` and the operators around it follow the code
case by case: `purge` fails below a leaf (`ENOTDIR`), `mkdir_p` silently stops
at one, `copy_regular_file` and the symlink branch fail on a directory.

### Supervisor

`ckpts`, `generation`, `nextNum` are the fields of `supervisor_state_t`;
`uppers`, `works` and `layers` are what is on disk; `mnt` is the stack mounted
on `merged/`, empty when none is. CHECKPOINT (`Seal`), ROLLBACK
(`RollbackLatest`, `RollbackTo`), DIFF and SHUTDOWN are one step each, purges,
new directories and remount included. COMMIT is a step per visited entry in
the order of `nftw` (a directory before its contents and finished before the
next), so that it can fail anywhere; `MergeFail` leaves any state the failing
visit can leave. RUN is a step per file operation of the command.

CHECKPOINT, ROLLBACK and DIFF as single steps lose nothing: the supervisor is
one thread, and the only other actors, left-over processes, act before or
after any of the handler's system calls with the same effect as before or after
the handler - but for the purges: an entry made between `nftw`'s last `unlink`
in a directory and its `rmdir` makes the purge fail. That is an outcome of the
step: `PurgeMayFail` of a layer is true when a system call may fail or some
process still has that layer on top of its stack.

No handler looks at what its purges answer. `Discard` is the tail CHECKPOINT,
ROLLBACK and COMMIT share: each dead layer and the live workdir is removed or,
where its purge may fail, stays (`Survivors`) and is added to the history
variable `leaked`. The name is forgotten in either case. What is left inside
such a directory, and what a process still writes there, is not followed: no
request reads a directory that neither the table nor the live layer names, and
`NoScratchLeak` says that none of these is ever named again.

`Faults` names the system calls that may fail: `purge` those of a handler's
purges, `merge` and `mkdir_p` those of a merge, `getxattr` the test for opaque
directories, which takes one for a plain directory when it fails.
`Leftovers` names the ways a process may outlive its command: `dying` (killed,
in its last system call) or `escaped` (`setsid()`). `GroupSwept` of `ProcRun` is
why there is no third. A leftover writes through the stack it was started on, as
a lazily detached mount lets it. `tree` in a table entry and `aborted` are
history variables too.

### ProcRun

The program counter is the position in `agentbox_proc_run`; each action is the
code between two points where something else can matter. Output is counted in
units; a read takes up to `ReadSize` (8192 bytes), a pipe holds `PipeCap`
(64 KiB on Linux), the last drain has `DrainRounds` (4) rounds. `sending` is
the frame being written: nothing else happens in the supervisor until it is in
the socket. Processes fork, call `setsid()`, close streams, write, exit and
die in any order. `Env` names what may go wrong: failing `open`/`fork`, a full
disk, a dying client with and without SIGPIPE, an ignored SIGCHLD, a deadline
before `setsid()`.

### Namespace and Session

`Session` has every process of several sandboxes but their commands. The
client's position in `agentbox_create`, `agentbox_destroy` or a request is
`api`; an action is the code between two system calls that another process can
notice. `fds` is the client's descriptor table, numbers reused lowest first as
the kernel does; `holds` are the ends a supervisor inherited at its fork, which
its anchor has too. `Held` decides end of file and EPIPE: an end is open while
any process holds it. A request is its verb and the box that sent it (so that
one that reaches another's supervisor can be told), an answer its verb and one
of OK, CHUNK, HUGE (longer than `MAX_FRAME_LEN`) or a code of create. `disk`
says whose scratch each runtime directory holds. What requests do to layers is
`Supervisor`, how RUN waits `ProcRun`.

A scenario (`env`, chosen at the start and fixed) says what may happen
together: `threads` (calls of two boxes overlap), `kill`, `death`, `big`,
`shared`, `fault`, `sigchld` (the client ignores SIGCHLD).

A create can fail in five ways on the client's side: before a directory is made
(`CreateRefuses`), at the `stat` after it, which leaves the directory
(`StatFails`), at the checks that follow, which remove it (`CreateFails`), at
the fork (`ForkFails`) and on the first frame (`Hello`, `Unwind`); on the
supervisor's side at its exec, the entry, the anchor's fork and the first mount
(`ExecFails`, `Enter`, `FirstMountFails`, which answers MOUNT_FAILED, GENERIC
or INVALID_ARGUMENT and leaves what directories there are by then). The purge
of a SHUTDOWN may leave any part of what it finds (`Purged`), and destroy then
answers IO.

`Namespace` says what the probe, the entry and the installer answer on a
machine, the record of what its kernel and AppArmor allow. `Session` draws the
machine at the start; each call of the probe and of the entry is made on what
the machine grants at the moment (`Now`), which under `fault` may be short of
namespaces, memory or mounts (`Shortages`), so that a box that passed the probe
may be refused. The installer leaves none of the profile's text, part of it or
all (`Texts`): `fprintf` and `fclose` are not looked at, and a profile that was
cut short does not stop it. With SIGCHLD ignored `waitpid` says nothing, and
both the probe and the installer take that for success.

### Client

`Client` conjoins the steps of `Supervisor` with what a program makes of the
answers. As `api` it is any program: every request at any time, `transaction()`
blocks entered, left and raised out of, nested up to `MaxDepth`, with
checkpoints, rollbacks past the block and commits inside. As `cli` it is
`cmd_run`, position by position, killed anywhere. It adds no behaviour to the
supervisor, so `ImplementsSnapshots` is checked here.

## Runs

All cfgs say `CHECK_DEADLOCK FALSE`: a sandbox may be closed for good and a
run ends; in `Supervisor` the bound `MaxGen` also stops growth.

| run | checks | shows |
|---|---|---|
| `core` | `TypeOK`, `TableOrdered`, `ScratchMatchesTable`, `CheckpointsIntact`, `CommitPublishes`, `DiffReportsLeaves`, `DiffReportsDeletions`, `MergeKeepsView` | with two checkpoints over a directory and an entry in it, and merges that fail anywhere, checkpoints keep their trees, purging is exact, a complete commit publishes the view but for special files and never changes it meanwhile, DIFF names every changed leaf and every deletion |
| `faults` | `NoScratchLeak`, `MountMatchesTable`, `MountLossReported` | with any system call failing, purges included, and processes that outlive their command, no directory is forgotten but those whose purge failed, which stay out of use, and a lost mount is answered with an error |
| `programs` | `ClientTypeOK`, `RunIsTransaction`, `TransactionUndone`, `ImplementsSnapshots`, `CommitAnswered` | transactions undo what they enclose, `agentbox run` is all or nothing even when killed, under either program the supervisor does what the abstract store promises, and every commit ends |
| `life` | `TypeOK`, `Synchronised`, `OwnRequests`, `OwnLayers`, `NothingLeft`, `SetupEnables`, `CallsReturn`, `OrphansEnd` | two sandboxes from creation to destruction: answers stay with their requests, a second destroy harms nobody, directories are not shared, nothing is left, calls return, supervisors follow a dead client |
| `run_output` | `TypeOK`, `VerdictHonest`, `StreamedIsCaptured`, `SmallOutputKept` | partial reads, a slow client, a helper on the pipes |
| `run_ends` | `GroupSwept`, `TimeoutEndsRun`, `ExitEndsRun` | a RUN ends after its deadline and after the shell's exit and leaves no live process of its group, whatever fails |

Runs that find a disagreement between the code and what is said of it:

| run | property violated | what happens |
|---|---|---|
| `every_commit` | `EveryCommitPublishes` | a failed commit, a rollback, a second commit: OK is answered though `mkdir_p` met a leaf left by the first |
| `capacity` | `OnlyTableLimits` | the option string is full before the table is |
| `cli_run` | `FailedRunLeavesFiles` | `agentbox run "rm -r d; echo > d"` fails in its commit, after other entries were published |
| `supervisor_death` | `EveryCallReturns` | Ctrl-C kills the supervisor, its anchor keeps the socket open, the request under way waits for ever |
| `run_full_output` | `AllOutputCaptured` | a full pipe at exit is read half |
| `run_early_timeout` | `TimeoutEndsRun` | a timeout of 0 can wait for ever |

The findings quote the sentence each contradicts. Other limits are built into
properties as exceptions they name, so that everything else is still claimed:

* a failed commit leaves the workspace half rewritten under the checkpoints:
  `CheckpointsIntact`, `CommitPublishes`, `TransactionUndone` and
  `RunIsTransaction` carry `aborted`;
* a process that called `setsid()` keeps writing into a layer after a
  checkpoint has sealed it: `CheckpointsIntact` is checked and proved with
  `Leftovers` empty; with `{"escaped"}` in `MCSupervisor_core.cfg` TLC finds
  the write;
* a file that went with its recreated directory is in no line of DIFF:
  `DiffReportsDeletions` excepts what some layer's opaque directory hides;
* `KeptWaiting` of `CallsReturn`: a call whose supervisor is gone while its
  anchor or another sandbox holds the socket, and a destroy that waits for a
  supervisor blocked in an oversize answer whose client end a sister holds;
* `HoldEachOther` of `OrphansEnd`: of two sandboxes created at the same time
  each may inherit the other's client end; when the client dies neither
  supervisor sees an end of file. A killed supervisor is excepted too, its
  anchor being what is left;
* a purge that fails leaves its directory until SHUTDOWN and no answer tells:
  `NoScratchLeak` and `ScratchMatchesTable` carry `leaked`;
* scratch of a failed first mount stays, since the `rmdir` of create does not
  purge, and so does the empty directory of a create whose `stat` of it failed
  (`NothingLeft`);
* setup may answer OK, and `cli.py` say that sandboxes can be created without
  sudo, when the profile was cut short or SIGCHLD is ignored (`SetupEnables`);
* an oversize answer ends the use of its sandbox (`Synchronised`), an explicit
  runtime directory that is in use or not empty is taken all the same
  (`OwnLayers`).

### Bounds

* Two paths, one inside the other, give every combination of the entries of a
  parent and a child; deeper trees are left to the theorems. Three layers (two
  checkpoints and the live one) are needed for a decision in the middle of a stack;
  `MaxGen` of 4 leaves room for a rollback or a commit after them.
* `faults` has one path: what fails there is independent of the tree. An
  `escaped` process can do all that a `dying` one can.
* `MountCap` is the number of layers that fit the option string. It exceeds
  the table everywhere except in `faults`, where it is below it so that this
  refusal is met too, and in `capacity`.
* `programs` has one path and three layers, enough for a block in a block and
  a checkpoint inside; what trees do is `core`'s concern. `cli_run` has two
  paths side by side: one to publish before the other fails.
* `life` has two sandboxes, which is what one inheriting from another needs,
  and every machine. DIFF stands for the requests with a single answer, RUN for
  the one with many. `SockCap` 2 blocks a writer on its third frame; `Call`
  keeps one place of `req` free, so that the client does not block on a
  supervisor that never reads. Setup is run after a refused sandbox only and a
  refused or closed sandbox is not created again. One scenario has threads and
  one the large frames and the shared directory, each with kills, deaths and
  failing calls; the third has an ignored SIGCHLD with failing calls.
* `run_output`: `PipeCap` 3, `ReadSize` 2, one round: short and full reads,
  and output that fits the drain and output that does not. More rounds are
  covered by `SmallOutputStaysKept`, and `run_full_output` uses the code's
  four. `SockCap` 1 blocks the supervisor on every second frame.

### Fairness

`Client!CFairSpec`: weak fairness of the merge's steps (`MergeStep`) only. The
supervisor is a process that waits for nothing between them, whatever becomes of
the client. Of programs nothing is assumed.

`ProcRun!FairSpec`: weak fairness of the supervisor, of the client's receive
loop (`agentbox_exec_streaming` reads until the answer; an `on_output` that
never returns is outside the assumption), of the child's `setsid()` and of the
delivery of SIGKILL. Nothing is assumed of the command, and not that the
deadline ever passes. In `run_ends` the deadline does not pass before the
child's first system call; `run_early_timeout` drops that.

`Session!FairSpec`: weak fairness, per sandbox, of a call that has begun and of
the supervisor. A command under a supervisor ends, which is `TimeoutEndsRun`.
Nothing is assumed of when calls begin, and kills, deaths and output may or may
not happen.

## Proofs

Every invariant and every action property that a passing run checks is also a
theorem, and so is the refinement. They hold for every tree of paths, table
size, number of boxes, helpers and frames, every bound and every choice of
faults, but for the assumptions named here and the constants' own
(`PathAssumption`: parents are a strict, transitive order; `ContentAssumption`;
`BoundsAssumption`; `ClientAssumption`; `RunAssumption`; `SessionAssumption`,
which asks for finitely many boxes).

| theorem | says | assumes |
|---|---|---|
| `TypeCorrect` | `[]TypeOK` | |
| `TableStaysOrdered` | `[]TableOrdered` | |
| `MountStaysCurrent` | `[]MountMatchesTable` | |
| `MountLossIsReported` | `MountLossReported` | |
| `ScratchStaysExact` | `[]ScratchMatchesTable` | no mkdir of a scratch directory fails |
| `ScratchIsTheTable` | the same without `leaked`: the disk holds what the table and the live layer name and nothing else | L, neither mkdir nor purge fails |
| `NothingLeaks` | `[]NoScratchLeak` | |
| `LeavesAreReported` | `[]DiffReportsLeaves` | |
| `DeletionsAreReported` | `[]DiffReportsDeletions` | |
| `CheckpointsStayIntact` | `[]CheckpointsIntact` | L |
| `CommitKeepsView` | `MergeKeepsView` | L |
| `CommitsPublish` | `[]CommitPublishes` | L, M |
| `SupervisorImplementsSnapshots` | `Spec => ImplementsSnapshots` | L, M |
| `ProgramsSeeSnapshots` | `CSpec => ImplementsSnapshots` | L, M |
| `ClientTypeCorrect` | `[]ClientTypeOK` | |
| `TransactionsAreUndone` | `TransactionUndone` | L |
| `RunsAreTransactions` | `[]RunIsTransaction` | L, M |
| `RunTypeCorrect` | `[]TypeOK` of a run | |
| `GroupStaysSwept` | `[]GroupSwept` | |
| `VerdictStaysHonest` | `[]VerdictHonest` | SIGCHLD is not ignored |
| `SmallOutputStaysKept` | `[]SmallOutputKept` | the capture files can be written to |
| `StreamStaysCaptured` | `[]StreamedIsCaptured` | the capture files can be written to |
| `SessionTypeCorrect` | `[]TypeOK` of a session | |
| `RequestsAreOwn` | `[]OwnRequests` | |
| `LayersAreOwn` | `[]OwnLayers` | |
| `NothingIsLeft` | `[]NothingLeft` | |
| `CallsInStep` | `[]Synchronised` | |
| `SetupSuffices` | `[]SetupEnables` | |

L is `Leftovers = {}`: no process of a command outlives its answer. M is
`"mkdir_p" \notin Faults` and `"getxattr" \notin Faults`: no mkdir and no test
for opacity of the merge fails. Both are real limits of the code and no more
than what is needed: a process that called `setsid()` writes into sealed layers
(see the exceptions above), `mkdir_p` ignores the failure of each mkdir, so that
a directory can be missing while COMMIT answers OK, and `dir_is_opaque` takes
every failure for "not opaque", so that what a command deleted can survive it.
Every other system call may fail in these theorems, the copies, unlinks and
purges of the merge and the purges of every handler included. The runs check under the same limits.

The inductive invariants, each also checked by TLC on the instances of the runs:

* `TableInv` adds to `TypeOK` and `TableOrdered` that a commit has room for one
  generation more, that generations above the live one are empty, and that
  every layer is closed (an entry's parents are directories of its layer). The
  last is what lets an opaque directory hide all that is below it.
* `MountInv` adds that nothing is mounted while starting and merging. With it
  `MountLossIsReported` is a matter of following each handler to its answer.
* `LeakInv` adds to `NoScratchLeak` that nothing in `leaked` is above the live
  layer, so that a new generation's number is none of them; with no mkdir
  failing it carries `ScratchMatchesTable`.
* `IntactInv` joins both to `CheckpointsIntact`: a command writes only into the
  live layer, which is above every checkpoint's; rollback and commit empty
  only layers no remaining checkpoint has.
* `CommitKeepsView` rests on `VisitTouchesDecided` and `ViewIgnoresDecided` of
  `OverlayProofs`: a visit, whole or failed, changes the workspace only at
  paths the walked layer decides, and at those the workspace does not show.
* `BaseInv` (`CommitProofs`) is what the later theorems share: `TableInv`,
  `MountInv`, no leftovers, a well-formed workspace, empty directories above
  the live one (`Fresh`) and where in its walk a merge is (`Position`).
* `PublishInv` is why a commit is right. `StackFits`: a plain directory of a
  layer is inside an opaque one or lies over a directory of what is below, as
  overlayfs leaves it; so `mkdir_p` in the merge finds directories and no
  leaves. It fails once a commit has been given up (`every_commit` shows how),
  hence `aborted`. `WalkInv`, by `MergedSoFar`: with layers `1..i-1` merged and
  some entries of layer `i` visited, the visited entries are what the layer
  makes them, and what it leaves alone is the view of the layers below. It
  asks only that parents precede their entries, which is all `nftw` promises,
  so the theorem is about every order of siblings.
* `ImplementsSnapshots`: under the mapping in `Supervisor` (`tree`: what is
  shown, `snaps`: the table with what each checkpoint shows) every handler is a
  step of `Snapshots` or a stutter. A merge's visits are `Publish` steps, by
  `MergeKeepsView` and `PublishInv`; a rollback restores by
  `CheckpointsIntact`; a failed handler shows what was shown before.
  `ProgramSteps` carries it to programs: `Client` only restricts when a request
  is made.
* `BlockInv` (`ClientProofs`): an open block marked `kept` has its checkpoint
  in the table with the block's tree, one not kept has an id that is not and
  never will be there, and ids increase inwards. So the rollback of an outer
  block may discard what an inner one did, and never the other way round.
* `CliInv` relates the position of `cmd_run` to the supervisor's phase and the
  exit status (`Where`) and, at each position, the workspace to what it was
  and to what the command left (`What`).
* `GroupInv` adds that the shell is reaped before the sweep on both paths and
  that no helper is ever between `fork()` and `setsid()`; `VerdictInv` adds
  that nobody signals the shell while the loop runs.
* `OutputInv` adds to `GroupInv` that captured and piped units make up the
  written ones, that a stream no longer read has an empty pipe without writers,
  and that `k` rounds of the drain have captured `k` full reads or all that is
  owed.
* `StreamInv` says that the frames on their way carry exactly what is captured
  and not yet got, and that only the last can be the answer. The sum over the
  frames is `Carries`, by a witness that counts up along them, which is what a
  recursive sum would compute and needs no induction.
* `BoxInv` (`SessionProofs`): which process has which end of which socket pair
  at each position of the client and the supervisor (`Ends`), and that the
  greeting is the first frame and the only one until the box is open
  (`Starts`). Two boxes never have the same number, and by counting there are
  two free numbers when a box is created. `OthersKeep`: a step of one box
  leaves what the invariants say of the others alone; the proofs are about one
  box from there.
* `InStep` is the protocol: while no call is under way nothing is in the
  socket; during one, the request is unread, or being served, or its answers
  are in flight, and the answer that ends the call is the last.
* `Dirs` says of each box when its directory holds its scratch, and of two boxes
  in one directory at a time that neither had it alone; `Rests` what a failed
  or ending box still has at each step of its clean-up.
* `SetupEnables` is its own invariant: a setup is the only step that changes what
  it speaks of, and a profile, once loaded, stays.

Only model-checked: liveness, which is out of the prover's reach
(`CommitAnswered`, `TimeoutEndsRun`, `ExitEndsRun`, `CallsReturn`,
`OrphansEnd`). No definition is RECURSIVE.

## Not modelled

* the `waitpid` of `agentbox_cow_mount` for a fuse-overlayfs child when SIGCHLD
  is ignored: the mount would be taken as made;
* two threads on one sandbox and a request made inside `on_output`: nothing
  orders their frames, and each may take the other's answer; use of a sandbox
  after its destroy, which only destroy itself guards against;
* the bytes of frames and the error codes of answers (a request's outcome is in
  `Supervisor`), the probe's scratch directory, the text of the AppArmor
  profile, and whether the binary `cmd_setup` finds is the one
  `locate_exec_binary` will run;
* conversions of the ctypes layer, parsing of arguments, printing, benchmarks,
  examples, packaging;
* edits of the workspace by others while a sandbox is open; symbolic links as
  parents of paths; file modes; what overlayfs does when a directory is the
  upper layer of two mounts at once;
* a command run while nothing is mounted writes into the plain `merged/`
  directory, which is not a layer: the model lets it write nothing.

## What is left

The models and runs are complete as planned. What could still be proved:

1. the safety half of the liveness properties: that a call that waits is in
   `KeptWaiting` or a process of its box has a step to take, for any number of
   boxes, from `Ends` and `InStep`; likewise for `OrphansEnd` and the runner;
2. what remains of `CheckpointsIntact` and `TransactionUndone` with processes
   that outlive their command: only layers those were started on may change.
