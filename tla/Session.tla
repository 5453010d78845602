------------------------------ MODULE Session -------------------------------
(***************************************************************************)
(* The life of sandboxes: a client process that creates, uses and destroys *)
(* them, the supervisor and anchor processes behind each, the socket pair  *)
(* between, and the runtime directory on disk (src/c/agentbox_core.c, its  *)
(* client half and agentbox_supervisor_main; agentbox_exec_main.c;         *)
(* Sandbox in src/agentbox/sandbox.py).                                    *)
(*                                                                         *)
(* What a request does to the layers is in Supervisor, how a command is    *)
(* waited for in ProcRun.  Here a request is its verb, and what matters is *)
(* who holds which end of which socket: no descriptor is close-on-exec, so *)
(* a supervisor inherits whatever the client had open when it was forked,  *)
(* and its anchor and commands inherit it from there.                      *)
(***************************************************************************)
EXTENDS Namespace, Naturals, Sequences, FiniteSets

CONSTANTS
  Box,      \* the Sandbox objects of the program
  Requests, \* the verbs it uses
  Machines, \* the machines it may run on
  SockCap,  \* bound: frames a socket buffers
  Scenarios \* what the environment and the program may do, together

Verbs == {"CHECKPOINT", "ROLLBACK", "COMMIT", "DIFF", "RUN"}

(* threads: two boxes are used, and created, at the same time              *)
(* kill:    a supervisor is killed, for one by the Ctrl-C it shares with   *)
(*          the client's process group                                     *)
(* death:   the client dies without closing its boxes                      *)
(* big:     a command or a list of changed paths exceeds MAX_FRAME_LEN     *)
(* shared:  the program names one runtime_dir for several boxes            *)
(* fault:   any system call of create may fail, and the last purge         *)
(* sigchld: the client ignores SIGCHLD, so that waitpid tells it nothing   *)
EnvNames == {"threads", "kill", "death", "big", "shared", "fault", "sigchld"}

ASSUME SessionAssumption ==
  /\ IsFiniteSet(Box)
  /\ Requests \subseteq Verbs
  /\ Machines \subseteq Machine
  /\ SockCap \in Nat \ {0, 1}
  /\ Scenarios \subseteq SUBSET EnvNames
  /\ "shared" \notin Box

VARIABLES
  env,      \* the scenario, which does not change
  machine,  \* where all this runs
  profile,  \* the AppArmor profile is loaded
  file,     \* what is in its file: see Texts
  setup,    \* what the last agentbox setup answered
  client,   \* the client process lives
  fds,      \* its descriptors: the end of a socket pair each stands for
  api,      \* per box: where its agentbox_ call is
  verb,     \* per box: the request of the call
  ctrl,     \* per box: ctrl_fd
  ret,      \* per box: what its last call returned
  dir,      \* per box: runtime_dir
  disk,     \* per directory: the boxes with scratch in it, or NoDir
  sup,      \* per box: where its supervisor is
  anchor,   \* per box: its anchor lives
  holds,    \* per box: the ends its processes inherited
  req,      \* per box: requests in the socket
  ans,      \* per box: answers in the socket
  out,      \* per box: the answer being written
  fresh     \* history, per box: runtime_dir was its alone from the start

cvars == <<client, fds, api, verb, ctrl, ret, dir>>
svars == <<sup, anchor, holds, out>>
mvars == <<env, machine, profile, file, setup>>
vars == <<cvars, svars, mvars, disk, req, ans, fresh>>

End == Box \X {"client", "supervisor"}
Fd == 1 .. 2 * Cardinality(Box)
NoEnd == <<>>
NoDir == {"no such directory"}
Dir == Box \cup {"shared"}

ClientEnd(b) == <<b, "client">>
SupEnd(b) == <<b, "supervisor">>

May(e) == e \in env

(* Between the calls of a box, and inside one. *)
Resting == {"new", "refused", "failed", "open", "closed", "gone"}
InCall == {"probed", "dir", "pair", "forked", "hello", "unwind", "call", "bye", "wait"}

Gone == {"none", "exited", "killed"}
SupAlive(b) == sup[b] \notin Gone
GroupAlive(b) == SupAlive(b) \/ anchor[b]

(* Some process still has this end open. *)
Held(e) ==
  \/ \E n \in Fd : fds[n] = e
  \/ \E b \in Box : GroupAlive(b) /\ e \in holds[b]

ReqFrame(b, v) == [box |-> b, verb |-> v]
Frame(v, rc) == [verb |-> v, rc |-> rc]
NoFrame == Frame("none", "none")

Init ==
  /\ env \in Scenarios
  /\ machine \in Machines
  /\ profile = FALSE
  /\ file = "none"
  /\ setup = "none"
  /\ client = TRUE
  /\ fds = [n \in Fd |-> NoEnd]
  /\ api = [b \in Box |-> "new"]
  /\ verb = [b \in Box |-> "none"]
  /\ ctrl = [b \in Box |-> 0]
  /\ ret = [b \in Box |-> "none"]
  /\ dir = [b \in Box |-> b]
  /\ disk = [d \in Dir |-> NoDir]
  /\ sup = [b \in Box |-> "none"]
  /\ anchor = [b \in Box |-> FALSE]
  /\ holds = [b \in Box |-> {}]
  /\ req = [b \in Box |-> <<>>]
  /\ ans = [b \in Box |-> <<>>]
  /\ out = [b \in Box |-> NoFrame]
  /\ fresh = [b \in Box |-> TRUE]

----------------------------------------------------------------------------
(* agentbox setup, as the message of a refused box suggests, and before    *)
(* another is made.                                                        *)
Setup ==
  /\ \A b \in Box : api[b] \in {"new", "refused"}
  /\ \E b \in Box : api[b] = "refused"
  /\ \E root, parsed \in BOOLEAN, text \in Texts :
       /\ \E status \in {parsed} \cup {e \in {TRUE} : May("sigchld")} :
            setup' = agentbox_ns_install_apparmor_profile(machine, root, text, status)
       /\ profile' = ProfileLoaded(machine, root, text, parsed, profile)
       /\ file' = ProfileFile(machine, root, text, file)
  /\ UNCHANGED <<env, machine, cvars, svars, disk, req, ans, fresh>>

----------------------------------------------------------------------------
(* The client.  Without threads a call of one box ends before another      *)
(* begins.                                                                 *)

Turn(b) ==
  /\ client
  /\ May("threads") \/ \A o \in Box \ {b} : api[o] \in Resting

(* Moves the call of b on; a resting position ends it with rc. *)
Goto(b, pos, rc) ==
  /\ api' = [api EXCEPT ![b] = pos]
  /\ ret' = [ret EXCEPT ![b] = rc]

Rmdir(d) == IF disk[d] = {} THEN [disk EXCEPT ![d] = NoDir] ELSE disk

(* What the machine grants at the moment. *)
Now == IF May("fault") THEN Shortages(machine) ELSE {machine}

(* Sandbox.__init__ probes first, and any failure refuses the box. *)
Probe(b) ==
  /\ Turn(b)
  /\ api[b] = "new"
  /\ \E m \in Now : \E rc \in agentbox_ns_probe(m, profile, May("sigchld")) :
       Goto(b, IF rc = "OK" THEN "probed" ELSE "refused", rc)
  /\ UNCHANGED <<client, fds, verb, ctrl, dir, svars, mvars, disk, req, ans, fresh>>

(* Mutant: named by the pid of the client alone (issue #1). *)
PidDirs(b) == {CHOOSE x \in Box : TRUE}

(* The default name is unique to the box (mkdtemp). *)
RuntimeDirs(b) == {b} \cup (IF May("shared") THEN {"shared"} ELSE {})

(* Boxes that have their directory and are not done with it. *)
Using(o) == api[o] \notin {"new", "probed", "refused", "failed", "closed", "gone"}

(* The argument checks and runtime_dir; a directory that exists is taken   *)
(* as it is.                                                               *)
MakeDir(b) ==
  /\ Turn(b)
  /\ api[b] = "probed"
  /\ \E d \in RuntimeDirs(b) :
       LET users == {o \in Box \ {b} : Using(o) /\ dir[o] = d}
       IN  /\ dir' = [dir EXCEPT ![b] = d]
           /\ disk' = IF disk[d] = NoDir THEN [disk EXCEPT ![d] = {}] ELSE disk
           /\ fresh' = [o \in Box |->
                          IF o = b THEN users = {} /\ disk[d] \in {NoDir, {}}
                          ELSE fresh[o] /\ o \notin users]
  /\ Goto(b, "dir", ret[b])
  /\ UNCHANGED <<client, fds, verb, ctrl, svars, mvars, req, ans>>

(* A bad workspace or directory.  GENERIC stands for the different codes   *)
(* of a create that undoes what it did.                                    *)
CreateRefuses(b) ==
  /\ Turn(b)
  /\ May("fault")
  /\ api[b] = "probed"
  /\ Goto(b, "failed", "GENERIC")
  /\ UNCHANGED <<client, fds, verb, ctrl, dir, svars, mvars, disk, req, ans, fresh>>

(* The directory is made and cannot be looked at: it stays. *)
StatFails(b) ==
  /\ Turn(b)
  /\ May("fault")
  /\ api[b] = "dir"
  /\ Goto(b, "failed", "IO")
  /\ UNCHANGED <<client, fds, verb, ctrl, dir, svars, mvars, disk, req, ans, fresh>>

(* Another filesystem, no agentbox-exec or no socket: the directory is     *)
(* removed again.                                                          *)
CreateFails(b) ==
  /\ Turn(b)
  /\ May("fault")
  /\ api[b] = "dir"
  /\ disk' = Rmdir(dir[b])
  /\ Goto(b, "failed", "GENERIC")
  /\ UNCHANGED <<client, fds, verb, ctrl, dir, svars, mvars, req, ans, fresh>>

FreeFds == {n \in Fd : fds[n] = NoEnd}
Lowest(S) == CHOOSE n \in S : \A m \in S : n <= m

(* socketpair takes the lowest free descriptors. *)
SocketPair(b) ==
  /\ Turn(b)
  /\ api[b] = "dir"
  /\ LET c == Lowest(FreeFds)
         s == Lowest(FreeFds \ {c})
     IN  /\ fds' = [fds EXCEPT ![c] = ClientEnd(b), ![s] = SupEnd(b)]
         /\ ctrl' = [ctrl EXCEPT ![b] = c]
  /\ Goto(b, "pair", ret[b])
  /\ UNCHANGED <<client, verb, dir, svars, mvars, disk, req, ans, fresh>>

CloseEnds(E) == fds' = [n \in Fd |-> IF fds[n] \in E THEN NoEnd ELSE fds[n]]

(* Mutant: the child keeps sv[0]. *)
InheritAll(b) == {fds[n] : n \in Fd} \ {NoEnd}

(* What the child keeps: everything but its own sv[0]. *)
Inherited(b) == {fds[n] : n \in Fd} \ {NoEnd, ClientEnd(b)}

Fork(b) ==
  /\ Turn(b)
  /\ api[b] = "pair"
  /\ sup' = [sup EXCEPT ![b] = "start"]
  /\ holds' = [holds EXCEPT ![b] = Inherited(b)]
  /\ Goto(b, "forked", ret[b])
  /\ UNCHANGED <<client, fds, verb, ctrl, dir, anchor, out, mvars, disk, req, ans, fresh>>

ForkFails(b) ==
  /\ Turn(b)
  /\ May("fault")
  /\ api[b] = "pair"
  /\ CloseEnds({ClientEnd(b), SupEnd(b)})
  /\ disk' = Rmdir(dir[b])
  /\ Goto(b, "failed", "GENERIC")
  /\ UNCHANGED <<client, verb, ctrl, dir, svars, mvars, req, ans, fresh>>

(* Mutant: the parent keeps sv[1]. *)
KeepSupEnd(b) ==
  /\ Turn(b)
  /\ api[b] = "forked"
  /\ Goto(b, "hello", ret[b])
  /\ UNCHANGED <<client, fds, verb, ctrl, dir, svars, mvars, disk, req, ans, fresh>>

CloseSupEnd(b) ==
  /\ Turn(b)
  /\ api[b] = "forked"
  /\ CloseEnds({SupEnd(b)})
  /\ Goto(b, "hello", ret[b])
  /\ UNCHANGED <<client, verb, ctrl, dir, svars, mvars, disk, req, ans, fresh>>

(* recv_frame on the client's end gives up: every holder of the other end  *)
(* is gone, or what it reads as a length is above MAX_FRAME_LEN.  The body *)
(* of an oversize answer stays in the socket, and path names read as a     *)
(* length are always above the limit.                                      *)
Oversize(b) == ans[b] # <<>> /\ Head(ans[b]).rc = "HUGE"
RecvNull(b) == Oversize(b) \/ (ans[b] = <<>> /\ ~Held(SupEnd(b)))
RecvFrame(b) == ans[b] # <<>> /\ ~Oversize(b)

(* The first frame, or none: a box that is not ready is taken down again.  *)
(* With no frame the supervisor has exited, and the kill finds nothing.    *)
Hello(b) ==
  /\ Turn(b)
  /\ api[b] = "hello"
  /\ \/ /\ RecvFrame(b)
        /\ ans' = [ans EXCEPT ![b] = Tail(@)]
        /\ IF Head(ans[b]).rc = "OK"
           THEN Goto(b, "open", "OK") /\ UNCHANGED fds
           ELSE Goto(b, "unwind", Head(ans[b]).rc) /\ CloseEnds({ClientEnd(b)})
     \/ /\ RecvNull(b)
        /\ Goto(b, "unwind", "SUPERVISOR_DOWN")
        /\ CloseEnds({ClientEnd(b)})
        /\ UNCHANGED ans
  /\ UNCHANGED <<client, verb, ctrl, dir, svars, mvars, disk, req, fresh>>

(* waitpid, rmdir: a directory with something in it stays, unnoticed. *)
Unwind(b) ==
  /\ Turn(b)
  /\ api[b] = "unwind"
  /\ ~SupAlive(b)
  /\ disk' = Rmdir(dir[b])
  /\ Goto(b, "failed", ret[b])
  /\ UNCHANGED <<client, fds, verb, ctrl, dir, svars, mvars, req, ans, fresh>>

(* The frame goes to whoever is behind ctrl_fd now, if it is read at all.  *)
Send(b, v) ==
  LET e == fds[ctrl[b]]
  IN  /\ verb' = [verb EXCEPT ![b] = v]
      /\ req' = IF e # NoEnd /\ Held(SupEnd(e[1]))
                THEN [req EXCEPT ![e[1]] = Append(@, ReqFrame(b, v))]
                ELSE req

(* agentbox_checkpoint, _rollback, _commit, _diff, _exec_streaming.  The   *)
(* bound on req leaves room for the SHUTDOWN, so that a client that gets   *)
(* no answers need not be modelled as blocking on a full socket.           *)
Call(b) ==
  /\ Turn(b)
  /\ api[b] = "open"
  /\ Len(req[b]) < SockCap - 1
  /\ \E v \in Requests \cup (IF May("big") THEN {"BIGRUN"} ELSE {}) : Send(b, v)
  /\ Goto(b, "call", ret[b])
  /\ UNCHANGED <<client, fds, ctrl, dir, svars, mvars, disk, ans, fresh>>

(* Mutant: exec_streaming takes the first frame for the last. *)
LastFrameAny(b) == RecvFrame(b)

(* exec_streaming hands a CHUNK to on_chunk and reads on. *)
LastFrame(b) == RecvFrame(b) /\ (verb[b] = "RUN" => Head(ans[b]).rc # "CHUNK")

Chunk(b) ==
  /\ Turn(b)
  /\ api[b] = "call"
  /\ RecvFrame(b)
  /\ ~LastFrame(b)
  /\ ans' = [ans EXCEPT ![b] = Tail(@)]
  /\ UNCHANGED <<cvars, svars, mvars, disk, req, fresh>>

(* Answers are not told apart by their code. *)
Return(b) ==
  /\ Turn(b)
  /\ api[b] = "call"
  /\ \/ /\ LastFrame(b)
        /\ ans' = [ans EXCEPT ![b] = Tail(@)]
        /\ Goto(b, "open", "OK")
     \/ /\ RecvNull(b)
        /\ Goto(b, "open", "SUPERVISOR_DOWN")
        /\ UNCHANGED ans
  /\ verb' = [verb EXCEPT ![b] = "none"]
  /\ UNCHANGED <<client, fds, ctrl, dir, svars, mvars, disk, req, fresh>>

(* Mutant: no test of box->active. *)
CanDestroyAlways(b) == api[b] \in {"open", "closed"}

CanDestroy(b) == api[b] = "open"

Destroy(b) ==
  /\ Turn(b)
  /\ CanDestroy(b)
  /\ Send(b, "SHUTDOWN")
  /\ Goto(b, "bye", ret[b])
  /\ UNCHANGED <<client, fds, ctrl, dir, svars, mvars, disk, ans, fresh>>

(* Any frame, or none, will do; then the socket is closed. *)
Farewell(b) ==
  /\ Turn(b)
  /\ api[b] = "bye"
  /\ RecvFrame(b) \/ RecvNull(b)
  /\ ans' = [ans EXCEPT ![b] = <<>>]
  /\ CloseEnds({ClientEnd(b)})
  /\ Goto(b, "wait", ret[b])
  /\ UNCHANGED <<client, verb, ctrl, dir, svars, mvars, disk, req, fresh>>

(* Mutant: rmdir without the waitpid before it. *)
NotWaited(b) == TRUE

Waited(b) == ~SupAlive(b)

Closed(b) ==
  /\ Turn(b)
  /\ api[b] = "wait"
  /\ Waited(b)
  /\ disk' = Rmdir(dir[b])
  /\ Goto(b, "closed", IF disk'[dir[b]] = NoDir THEN "OK" ELSE "IO")
  /\ UNCHANGED <<client, fds, verb, ctrl, dir, svars, mvars, req, ans, fresh>>

(* Its descriptors and its memory go with it. *)
ClientDies ==
  /\ client
  /\ May("death")
  /\ client' = FALSE
  /\ fds' = [n \in Fd |-> NoEnd]
  /\ api' = [b \in Box |-> "gone"]
  /\ verb' = [b \in Box |-> "none"]
  /\ ctrl' = [b \in Box |-> 0]
  /\ ret' = [b \in Box |-> "none"]
  /\ UNCHANGED <<dir, svars, mvars, disk, req, ans, fresh>>

----------------------------------------------------------------------------
(* The supervisor of b. *)

(* It writes its next frame.  A write whose reader is gone fails, and no   *)
(* caller of send_frame looks at that.                                     *)
Write(b, f) ==
  IF Held(ClientEnd(b)) THEN ans' = [ans EXCEPT ![b] = Append(@, f)] ELSE UNCHANGED ans

CanWrite(b) == Len(ans[b]) < SockCap \/ ~Held(ClientEnd(b))

At(b, from, to) == sup[b] = from /\ sup' = [sup EXCEPT ![b] = to]

(* execl fails: _exit(127), with nothing said. *)
ExecFails(b) ==
  /\ May("fault")
  /\ At(b, "start", "exited")
  /\ UNCHANGED <<anchor, holds, out, cvars, mvars, disk, req, ans, fresh>>

(* agentbox_ns_enter, then the fork of the anchor. *)
Enter(b) ==
  /\ \E rc \in {agentbox_ns_enter(m, profile) : m \in Now} :
         \/ /\ rc = "OK"
            /\ At(b, "start", "anchored")
            /\ anchor' = [anchor EXCEPT ![b] = TRUE]
            /\ UNCHANGED ans
         \/ /\ rc # "OK" \/ May("fault")
            /\ At(b, "start", "exited")
            /\ Write(b, Frame("CREATE", IF rc = "OK" THEN "GENERIC" ELSE rc))
            /\ UNCHANGED anchor
  /\ UNCHANGED <<holds, out, cvars, mvars, disk, req, fresh>>

(* Runtime_dir with the scratch of b in it. *)
Scratch(b) == [disk EXCEPT ![dir[b]] = @ \cup {b}]

(* merged_dir, the first layer and its mount. *)
FirstMount(b) ==
  /\ disk[dir[b]] # NoDir
  /\ At(b, "anchored", "serve")
  /\ disk' = Scratch(b)
  /\ Write(b, Frame("CREATE", "OK"))
  /\ UNCHANGED <<anchor, holds, out, cvars, mvars, req, fresh>>

(* What remount_current answers when it fails: no memory for the stack, a  *)
(* mount or, for long paths, its options refused.                          *)
MountErrors == {"MOUNT_FAILED"} \cup (IF May("fault") THEN {"GENERIC", "INVALID_ARGUMENT"} ELSE {})

(* A failure takes the anchor down again but not the directories, of which *)
(* there are none when the calloc before them failed, or their mkdir.      *)
FirstMountFails(b) ==
  /\ May("fault") \/ disk[dir[b]] = NoDir
  /\ At(b, "anchored", "exited")
  /\ UNCHANGED disk \/ (disk[dir[b]] # NoDir /\ disk' = Scratch(b))
  /\ \E rc \in MountErrors : Write(b, Frame("CREATE", rc))
  /\ anchor' = [anchor EXCEPT ![b] = FALSE]
  /\ UNCHANGED <<holds, out, cvars, mvars, req, fresh>>

(* purge_runtime_dir_contents sweeps whatever the directory holds.  What   *)
(* cannot be removed stays, and the request is answered OK all the same.   *)
Purged(b) ==
  LET d == dir[b]
  IN  IF disk[d] = NoDir THEN {disk}
      ELSE {[disk EXCEPT ![d] = kept] : kept \in IF May("fault") THEN SUBSET disk[d] ELSE {{}}}

(* Mutant: the supervisor does not check the length. *)
NeverTooLong(f) == FALSE

(* The frame's length is above MAX_FRAME_LEN. *)
TooLong(f) == f.verb = "BIGRUN"

(* The next request.  Its effect comes before its answer; RUN's answer has *)
(* to wait for the command.                                                *)
Serve(b) ==
  /\ sup[b] = "serve"
  /\ req[b] # <<>>
  /\ ~TooLong(Head(req[b]))
  /\ LET v == Head(req[b]).verb
     IN  /\ sup' = [sup EXCEPT ![b] = IF v = "RUN" THEN "run" ELSE "answer"]
         /\ \E rc \in {"OK"} \cup (IF v = "DIFF" /\ May("big") THEN {"HUGE"} ELSE {}) :
              out' = [out EXCEPT ![b] = Frame(v, rc)]
         /\ disk' \in IF v = "SHUTDOWN" THEN Purged(b) ELSE {disk}
  /\ req' = [req EXCEPT ![b] = Tail(@)]
  /\ UNCHANGED <<anchor, holds, cvars, mvars, ans, fresh>>

RunOutput(b) ==
  /\ sup[b] = "run"
  /\ CanWrite(b)
  /\ Held(ClientEnd(b))
  /\ Write(b, Frame("RUN", "CHUNK"))
  /\ UNCHANGED <<svars, cvars, mvars, disk, req, fresh>>

(* The command has ended or timed out, or could not be started. *)
RunEnds(b) ==
  /\ At(b, "run", "answer")
  /\ UNCHANGED <<anchor, holds, out, cvars, mvars, disk, req, ans, fresh>>

(* An oversize answer is more than the socket can buffer and more than the *)
(* client will read.                                                       *)
Respond(b) ==
  /\ CanWrite(b)
  /\ At(b, "answer", IF out[b].verb = "SHUTDOWN" THEN "leave"
                     ELSE IF out[b].rc = "HUGE" /\ Held(ClientEnd(b)) THEN "stuck"
                     ELSE "serve")
  /\ Write(b, out[b])
  /\ out' = [out EXCEPT ![b] = NoFrame]
  /\ UNCHANGED <<anchor, holds, cvars, mvars, disk, req, fresh>>

(* EPIPE, once nobody can read. *)
WriteFails(b) ==
  /\ At(b, "stuck", "serve")
  /\ ~Held(ClientEnd(b))
  /\ UNCHANGED <<anchor, holds, out, cvars, mvars, disk, req, ans, fresh>>

(* recv_frame gives up: the client is gone, or sent an oversize command.   *)
(* Nothing is purged.                                                      *)
ClientGone(b) ==
  /\ At(b, "serve", "leave")
  /\ \/ req[b] = <<>> /\ ~Held(ClientEnd(b))
     \/ req[b] # <<>> /\ TooLong(Head(req[b]))
  /\ UNCHANGED <<anchor, holds, out, cvars, mvars, disk, req, ans, fresh>>

(* Mutant: the anchor is left to itself. *)
LeaveAnchor(b) ==
  /\ At(b, "leave", "exited")
  /\ UNCHANGED <<anchor, holds, out, cvars, mvars, disk, req, ans, fresh>>

(* The anchor is killed and waited for, and with it every process of the   *)
(* pid namespace.                                                          *)
Leave(b) ==
  /\ At(b, "leave", "exited")
  /\ anchor' = [anchor EXCEPT ![b] = FALSE]
  /\ UNCHANGED <<holds, out, cvars, mvars, disk, req, ans, fresh>>

(* Only the supervisor dies: the anchor is the init of its pid namespace,  *)
(* which ignores the signal, and commands have a session of their own.     *)
Killed(b) ==
  /\ May("kill")
  /\ SupAlive(b)
  /\ sup' = [sup EXCEPT ![b] = "killed"]
  /\ out' = [out EXCEPT ![b] = NoFrame]
  /\ UNCHANGED <<anchor, holds, cvars, mvars, disk, req, ans, fresh>>

----------------------------------------------------------------------------
(* What is left of a call once it has begun, and what supervisors do. *)
ClientStep(b) ==
  \/ MakeDir(b) \/ CreateRefuses(b) \/ StatFails(b) \/ CreateFails(b)
  \/ SocketPair(b) \/ Fork(b) \/ ForkFails(b)
  \/ CloseSupEnd(b) \/ Hello(b) \/ Unwind(b)
  \/ Chunk(b) \/ Return(b)
  \/ Farewell(b) \/ Closed(b)

SupStep(b) ==
  \/ ExecFails(b) \/ Enter(b) \/ FirstMount(b) \/ FirstMountFails(b)
  \/ Serve(b) \/ RunEnds(b) \/ Respond(b) \/ WriteFails(b)
  \/ ClientGone(b) \/ Leave(b)

Next ==
  \/ Setup
  \/ \E b \in Box :
       \/ Probe(b) \/ Call(b) \/ Destroy(b) \/ ClientStep(b)
       \/ RunOutput(b) \/ SupStep(b) \/ Killed(b)
  \/ ClientDies

Spec == Init /\ [][Next]_vars

(* A call that has begun is carried on, supervisors run, and commands end  *)
(* (by their timeout at the latest: TimeoutEndsRun of ProcRun).            *)
FairSpec == Spec /\ \A b \in Box : WF_vars(ClientStep(b)) /\ WF_vars(SupStep(b))

----------------------------------------------------------------------------
(* Properties. *)

Frames == [verb : Verbs \cup {"none", "CREATE", "SHUTDOWN"},
           rc : {"none", "OK", "CHUNK", "HUGE", "NAMESPACE_UNAVAILABLE",
                 "MOUNT_FAILED", "INVALID_ARGUMENT", "GENERIC"}]

(* The variables stay in their types. *)
TypeOK ==
  /\ env \in Scenarios
  /\ machine \in Machines
  /\ profile \in BOOLEAN
  /\ file \in Texts
  /\ setup \in {"none", "OK", "PERMISSION_DENIED", "IO", "GENERIC"}
  /\ client \in BOOLEAN
  /\ fds \in [Fd -> End \cup {NoEnd}]
  /\ api \in [Box -> Resting \cup InCall]
  /\ verb \in [Box -> Verbs \cup {"none", "BIGRUN", "SHUTDOWN"}]
  /\ ctrl \in [Box -> Fd \cup {0}]
  /\ ret \in [Box -> {"none", "NAMESPACE_UNAVAILABLE", "MOUNT_FAILED", "INVALID_ARGUMENT",
                     "GENERIC", "IO", "SUPERVISOR_DOWN"} \cup ProbeCodes]
  /\ dir \in [Box -> Dir]
  /\ disk \in [Dir -> (SUBSET Box) \cup {NoDir}]
  /\ sup \in [Box -> Gone \cup {"start", "anchored", "serve", "run", "answer",
                              "stuck", "leave"}]
  /\ anchor \in [Box -> BOOLEAN]
  /\ holds \in [Box -> SUBSET End]
  /\ out \in [Box -> Frames]
  /\ fresh \in [Box -> BOOLEAN]
  /\ \A b \in Box : /\ ans[b] \in Seq(Frames)
                     /\ req[b] \in Seq([box : Box, verb : Verbs \cup {"BIGRUN", "SHUTDOWN"}])

(* Requests and answers stay in step, streamed output included: between    *)
(* two calls of a box its socket is empty and its supervisor waits, and    *)
(* the frame a call returns with answers the request it sent.  Only an     *)
(* oversize answer breaks this, for the rest of the box's life.            *)
Synchronised ==
  client => \A b \in Box :
    /\ api[b] = "open" /\ ~Oversize(b) =>
         /\ ans[b] = <<>>
         /\ SupAlive(b) => req[b] = <<>> /\ sup[b] = "serve"
    /\ api[b] = "call" /\ RecvFrame(b) => Head(ans[b]).verb = verb[b]

(* Descriptor numbers are used again after a box is closed, but a          *)
(* supervisor is only ever asked what its own box asked: a second destroy  *)
(* does not shut down the box that now has the number.                     *)
OwnRequests == \A b \in Box : \A i \in DOMAIN req[b] : req[b][i].box = b

(* Until a box is shut down its runtime_dir holds its own scratch and no   *)
(* other, so that boxes over one workspace do not show or purge each       *)
(* other's layers: always with the default directory, and with one the     *)
(* program names if it was empty and no two boxes use it at a time.        *)
OwnLayers ==
  \A b \in Box :
    /\ dir[b] # "shared" => fresh[b]
    /\ /\ fresh[b]
       /\ sup[b] \in {"serve", "run", "answer", "stuck"}
       /\ out[b].verb # "SHUTDOWN"
       => disk[dir[b]] = {b}

(* When destroy has answered OK or create has failed, nothing of the box   *)
(* is left: no descriptor, no process, no directory.  The exceptions are a *)
(* killed supervisor, the scratch of a first mount that failed, and the    *)
(* empty directory of a create that could not look at it.                  *)
NothingLeft ==
  \A b \in Box :
    client /\ sup[b] # "killed" /\ (api[b] = "failed" \/ (api[b] = "closed" /\ ret[b] = "OK"))
    => /\ \A n \in Fd : fds[n] \notin {ClientEnd(b), SupEnd(b)}
       /\ ~GroupAlive(b)
       /\ \/ dir[b] = "shared"
          \/ disk[dir[b]] = NoDir
          \/ /\ sup[b] = "exited" /\ disk[dir[b]] = {b}
             /\ ret[b] \in {"MOUNT_FAILED", "GENERIC", "INVALID_ARGUMENT"}
          \/ sup[b] = "none" /\ disk[dir[b]] = {} /\ ret[b] = "IO"

(* Where AppArmor alone stands in the way, a setup that says OK removes it *)
(* - if the profile was written whole, which the installer does not check, *)
(* and SIGCHLD is not ignored.                                             *)
SetupEnables ==
  setup = "OK" /\ machine.idmap = "apparmor" /\ file = "whole" /\ ~May("sigchld")
  => IdMapped(machine, profile)

HeldBySister(b, e) == \E o \in Box \ {b} : GroupAlive(o) /\ e \in holds[o]

(* Processes with no use for it keep an end of b's socket open: the anchor *)
(* of a killed supervisor, or another box's group the end of a supervisor  *)
(* that is gone or the client end that a blocked writer waits on.          *)
KeptWaiting(b) ==
  \/ sup[b] = "killed" /\ anchor[b]
  \/ ~SupAlive(b) /\ HeldBySister(b, SupEnd(b))
  \/ sup[b] = "stuck" /\ api[b] = "wait" /\ HeldBySister(b, ClientEnd(b))

(* A call ends, one way or the other, unless other processes keep it       *)
(* waiting.                                                                *)
CallsReturn ==
  \A b \in Box : api[b] \in InCall ~> (api[b] \notin InCall \/ KeptWaiting(b))

(* Every call ends: that of a dead supervisor with SUPERVISOR_DOWN.        *)
EveryCallReturns == \A b \in Box : api[b] \in InCall ~> api[b] \notin InCall

(* Two groups that hold each other's client end. *)
HoldEachOther ==
  \E b, c \in Box : /\ b # c
                    /\ GroupAlive(b) /\ ClientEnd(c) \in holds[b]
                    /\ GroupAlive(c) /\ ClientEnd(b) \in holds[c]

(* When the client dies every supervisor notices, whichever of its sisters *)
(* holds its client end - unless one was killed or, created by threads at  *)
(* the same time, two hold each other's.                                   *)
OrphansEnd ==
  ~client ~> \/ \A b \in Box : ~GroupAlive(b)
             \/ \E b \in Box : sup[b] = "killed"
             \/ May("threads") /\ HoldEachOther
=============================================================================
