------------------------------ MODULE ProcRun ------------------------------
(***************************************************************************)
(* One RUN request: agentbox_proc_run (src/c/agentbox_proc.c) with the     *)
(* processes of the command, the two output pipes, and the frames it sends *)
(* to agentbox_exec_streaming on the client's side of the control socket.  *)
(*                                                                         *)
(* Output is counted in units; the order of units within a stream is the   *)
(* pipe's, so the first n units captured are the first n written.          *)
(***************************************************************************)
EXTENDS Integers, Sequences

CONSTANTS
  Helper,      \* processes the command may start besides the shell
  PipeCap,     \* units a pipe holds
  ReadSize,    \* units one read() of drain_once takes, at most
  DrainRounds, \* rounds of the drain after completion
  SockCap,     \* frames the control socket holds
  MaxOut,      \* bound: units written to a stream
  Env          \* what may go wrong around the run

(* slow_start: the deadline passes before the shell has called setsid(), as *)
(*             it may with a timeout_sec of 0                               *)
(* sigchld:    the supervisor inherited an ignored SIGCHLD                  *)
(* sigpipe:    the supervisor did not inherit an ignored SIGPIPE            *)
(* gone:       the client may die                                           *)
(* nospace:    writing to the capture file may fail                         *)
(* spawn:      open(), pipe() or fork() may fail                            *)
EnvNames == {"slow_start", "sigchld", "sigpipe", "gone", "nospace", "spawn"}

Shell == "sh"   \* the direct child

ASSUME RunAssumption ==
  /\ Shell \notin Helper
  /\ PipeCap \in Nat \ {0}
  /\ ReadSize \in Nat \ {0}
  /\ DrainRounds \in Nat
  /\ SockCap \in Nat \ {0}
  /\ MaxOut \in Nat
  /\ Env \subseteq EnvNames

VARIABLES
  pc,        \* where agentbox_proc_run is
  proc,      \* the processes of the command
  status,    \* what the shell's exit status says
  holds,     \* processes with the write end of a stream's pipe
  pipe,      \* units in the pipe
  written,   \* units ever written
  owed,      \* history: written when the shell exited
  captured,  \* units in stdout_path, stderr_path
  open,      \* out_open, err_open
  todo,      \* streams still to read in this pass
  rounds,    \* drain rounds begun
  expired,   \* the clock is past the deadline
  timed_out,
  wstatus,   \* the status waitpid() stored
  sending,   \* the frame being written to the socket, as a sequence
  sock,      \* frames in the socket
  got,       \* units handed to the client's on_chunk
  client     \* where agentbox_exec_streaming is

procVars == <<proc, status, holds, written, owed>>
loopVars == <<open, todo, rounds, timed_out, wstatus>>
sockVars == <<sending, sock, got, client>>
vars == <<pc, procVars, pipe, captured, loopVars, expired, sockVars>>

Stream == {"out", "err"}
Proc == {Shell} \cup Helper
PCs == {"start", "check", "poll", "drain", "reap", "kill", "wait", "final",
        "sweep", "answer", "done", "dead"}

(* none: not started; forked: not yet past setsid(); group, escaped: alive, *)
(* in the shell's process group or not; dying: SIGKILL pending; zombie;     *)
(* reaped.                                                                  *)
ProcStates == {"none", "forked", "group", "escaped", "dying", "zombie", "reaped"}
Exits == {"zero", "nonzero", "signal"}
Statuses == Exits \cup {"unset", "killed"}

Chunk == [kind : {"CHUNK"}, stream : Stream, n : 1 .. ReadSize]
Final == [kind : {"OK"}, timed_out : BOOLEAN, code : Statuses \cup {"minus_one"}]
           \cup [kind : {"ERR"}]
Frame == Chunk \cup Final

May(e) == e \in Env

Init ==
  /\ pc = "start"
  /\ proc = [p \in Proc |-> "none"]
  /\ status = "unset"
  /\ holds = [s \in Stream |-> {}]
  /\ pipe = [s \in Stream |-> 0]
  /\ written = [s \in Stream |-> 0]
  /\ owed = [s \in Stream |-> 0]
  /\ captured = [s \in Stream |-> 0]
  /\ open = {}
  /\ todo = {}
  /\ rounds = 0
  /\ expired = FALSE
  /\ timed_out = FALSE
  /\ wstatus = "unset"
  /\ sending = <<>>
  /\ sock = <<>>
  /\ got = [s \in Stream |-> 0]
  /\ client = "waiting"

----------------------------------------------------------------------------
(* The supervisor.  Every step of agentbox_proc_run waits for the frame    *)
(* before it to be written: on_chunk blocks.                               *)

At(l) == pc = l /\ sending = <<>>

SpawnFails ==
  /\ At("start") /\ May("spawn")
  /\ sending' = <<[kind |-> "ERR"]>>
  /\ pc' = "done"
  /\ UNCHANGED <<procVars, pipe, captured, loopVars, expired, sock, got, client>>

Fork ==
  /\ At("start")
  /\ proc' = [proc EXCEPT ![Shell] = "forked"]
  /\ holds' = [s \in Stream |-> {Shell}]
  /\ open' = Stream
  /\ pc' = "check"
  /\ UNCHANGED <<status, written, owed, pipe, captured, todo, rounds,
                 timed_out, wstatus, expired, sockVars>>

(* The head of the loop. *)
CheckDeadline ==
  /\ At("check")
  /\ timed_out' = expired
  /\ pc' = IF expired THEN "kill" ELSE "poll"
  /\ UNCHANGED <<procVars, pipe, captured, open, todo, rounds, wstatus, expired, sockVars>>

AtEof(s) == pipe[s] = 0 /\ holds[s] = {}

(* poll() returns within 100ms, with nothing if no stream is ready. *)
Poll ==
  /\ At("poll")
  /\ todo' = {s \in open : pipe[s] > 0 \/ AtEof(s)}
  /\ pc' = "drain"
  /\ UNCHANGED <<procVars, pipe, captured, open, rounds, timed_out, wstatus, expired, sockVars>>

(* The stream whose turn it is: stdout first. *)
Turn(s) == s \in todo /\ (s = "err" => "out" \notin todo)

Least(m, n) == IF m <= n THEN m ELSE n

(* Mutant: the drain after completion only fills the capture file.         *)
ForwardUnlessFinal(s, n) ==
  sending' = IF n = 0 \/ pc = "final" THEN <<>> ELSE <<[kind |-> "CHUNK", stream |-> s, n |-> n]>>

forward(s, n) ==
  sending' = IF n = 0 THEN <<>> ELSE <<[kind |-> "CHUNK", stream |-> s, n |-> n]>>

(* Mutant: the length asked for is taken for the length read. *)
ReadFull(s) == ReadSize

ReadLength(s) == Least(ReadSize, pipe[s])

(* A read of nothing is EOF (the stream is done with) or EAGAIN. *)
drain_once(s) ==
  LET n == ReadLength(s) IN
  /\ pc \in {"drain", "final"} /\ sending = <<>>
  /\ Turn(s)
  /\ todo' = todo \ {s}
  /\ pipe' = [pipe EXCEPT ![s] = @ - n]
  /\ open' = IF AtEof(s) THEN open \ {s} ELSE open
  /\ \E kept \in {n} \cup (IF May("nospace") THEN {0} ELSE {}) :
       captured' = [captured EXCEPT ![s] = @ + kept]
  /\ forward(s, n)
  /\ UNCHANGED <<pc, procVars, rounds, timed_out, wstatus, expired, sock, got, client>>

DrainedReady ==
  /\ At("drain") /\ todo = {}
  /\ pc' = "reap"
  /\ UNCHANGED <<procVars, pipe, captured, loopVars, expired, sockVars>>

(* What waitpid() stores for the dead shell: with SIGCHLD ignored it fails *)
(* and the code takes 0.                                                   *)
WaitResult == IF May("sigchld") THEN "zero" ELSE status

(* Mutant: any answer of waitpid(WNOHANG) ends the loop.                   *)
ReapAnything ==
  /\ At("reap")
  /\ pc' = "final"
  /\ wstatus' = status
  /\ proc' = [proc EXCEPT ![Shell] = IF @ = "zombie" THEN "reaped" ELSE @]

(* Mutant: completion is both pipes at EOF. *)
ReapAtEof ==
  /\ At("reap")
  /\ IF proc[Shell] = "zombie" /\ open = {}
     THEN /\ proc' = [proc EXCEPT ![Shell] = "reaped"]
          /\ wstatus' = WaitResult
          /\ pc' = "final"
     ELSE pc' = "check" /\ UNCHANGED <<proc, wstatus>>

(* waitpid(pid, WNOHANG) at the foot of the loop. *)
TryReap ==
  /\ At("reap")
  /\ IF proc[Shell] = "zombie"
     THEN /\ proc' = [proc EXCEPT ![Shell] = "reaped"]
          /\ wstatus' = WaitResult
          /\ pc' = "final"
     ELSE pc' = "check" /\ UNCHANGED <<proc, wstatus>>

Reap ==
  /\ TryReap
  /\ UNCHANGED <<status, holds, written, owed, pipe, captured, open, todo,
                 rounds, timed_out, expired, sockVars>>

(* Mutant: only the direct child is killed. *)
KilledShell == [proc EXCEPT ![Shell] = IF @ = "group" THEN "dying" ELSE @]

(* Mutant: SIGTERM, which the group may ignore. *)
KilledIfWilling == proc

(* kill(-pid, SIGKILL): no process is in the group before setsid(). *)
KilledGroup == [p \in Proc |-> IF proc[p] = "group" THEN "dying" ELSE proc[p]]

Kill ==
  /\ At("kill")
  /\ proc' = KilledGroup
  /\ pc' = "wait"
  /\ UNCHANGED <<status, holds, written, owed, pipe, captured, loopVars,
                 expired, sockVars>>

(* waitpid(pid, 0) blocks until the shell is dead. *)
Wait ==
  /\ At("wait")
  /\ proc[Shell] = "zombie"
  /\ proc' = [proc EXCEPT ![Shell] = "reaped"]
  /\ wstatus' = WaitResult
  /\ pc' = "final"
  /\ UNCHANGED <<status, holds, written, owed, pipe, captured, open, todo,
                 rounds, timed_out, expired, sockVars>>

(* Mutant: && for ||, a stream at EOF ends the drain of the other. *)
MoreWhileBothOpen == rounds < DrainRounds /\ open = Stream

MoreToDrain == rounds < DrainRounds /\ open # {}

DrainRound ==
  /\ At("final") /\ todo = {}
  /\ IF MoreToDrain
     THEN rounds' = rounds + 1 /\ todo' = open /\ pc' = pc
     ELSE pc' = "sweep" /\ UNCHANGED <<rounds, todo>>
  /\ UNCHANGED <<procVars, pipe, captured, open, timed_out, wstatus, expired, sockVars>>

(* The second kill, and the pipes closed. *)
Sweep ==
  /\ At("sweep")
  /\ proc' = KilledGroup
  /\ holds' = [s \in Stream |-> {}]
  /\ pc' = "answer"
  /\ UNCHANGED <<status, written, owed, pipe, captured, loopVars, expired, sockVars>>

ResultFrame ==
  [kind |-> "OK", timed_out |-> timed_out,
   code |-> IF timed_out THEN "minus_one" ELSE wstatus]

SendResult ==
  /\ At("answer")
  /\ sending' = <<ResultFrame>>
  /\ pc' = "done"
  /\ UNCHANGED <<procVars, pipe, captured, loopVars, expired, sock, got, client>>

(* send_frame: blocks while the socket is full. *)
Send ==
  /\ sending # <<>> /\ client # "gone"
  /\ Len(sock) < SockCap
  /\ sock' = sock \o sending
  /\ sending' = <<>>
  /\ UNCHANGED <<pc, procVars, pipe, captured, loopVars, expired, got, client>>

(* Nobody reads: EPIPE, which is ignored, or death by SIGPIPE. *)
SendFails ==
  /\ sending # <<>> /\ client = "gone"
  /\ sending' = <<>>
  /\ pc' = IF May("sigpipe") THEN "dead" ELSE pc
  /\ UNCHANGED <<procVars, pipe, captured, loopVars, expired, sock, got, client>>

Supervisor ==
  \/ Fork \/ CheckDeadline \/ Poll \/ (\E s \in Stream : drain_once(s))
  \/ DrainedReady \/ Reap \/ Kill \/ Wait \/ DrainRound \/ Sweep \/ SendResult
  \/ Send \/ SendFails

----------------------------------------------------------------------------
(* The command. *)

supVars == <<pc, captured, loopVars, sockVars>>

(* The child between fork() and exec(); before it nothing is in the group. *)
Setsid ==
  /\ proc[Shell] = "forked"
  /\ proc' = [proc EXCEPT ![Shell] = "group"]
  /\ UNCHANGED <<supVars, status, holds, written, owed, pipe, expired>>

Alive(p) == proc[p] \in {"group", "escaped"}

ForkHelper(p, h) ==
  /\ Alive(p) /\ proc[h] = "none"
  /\ proc' = [proc EXCEPT ![h] = proc[p]]
  /\ holds' = [s \in Stream |-> IF p \in holds[s] THEN holds[s] \cup {h} ELSE holds[s]]
  /\ UNCHANGED <<supVars, status, written, owed, pipe, expired>>

(* A helper calls setsid() itself; the shell, a group leader, cannot. *)
Escape(h) ==
  /\ proc[h] = "group"
  /\ proc' = [proc EXCEPT ![h] = "escaped"]
  /\ UNCHANGED <<supVars, status, holds, written, owed, pipe, expired>>

CloseStream(p, s) ==
  /\ Alive(p) /\ p \in holds[s]
  /\ holds' = [holds EXCEPT ![s] = @ \ {p}]
  /\ UNCHANGED <<supVars, proc, status, written, owed, pipe, expired>>

(* A killed process may still complete the write it is in. *)
Write(p, s) ==
  /\ Alive(p) \/ proc[p] = "dying"
  /\ p \in holds[s]
  /\ pipe[s] < PipeCap
  /\ written[s] < MaxOut
  /\ pipe' = [pipe EXCEPT ![s] = @ + 1]
  /\ written' = [written EXCEPT ![s] = @ + 1]
  /\ UNCHANGED <<supVars, proc, status, holds, owed, expired>>

Leave(p) ==
  /\ proc' = [proc EXCEPT ![p] = "zombie"]
  /\ holds' = [s \in Stream |-> holds[s] \ {p}]

(* The shell ends by itself: exit status or a signal, 126 and 127 for a    *)
(* failed chdir() or exec() among them.                                    *)
ShellExit(code) ==
  /\ proc[Shell] = "group"
  /\ Leave(Shell)
  /\ status' = code
  /\ owed' = written
  /\ UNCHANGED <<supVars, written, pipe, expired>>

HelperExit(h) ==
  /\ Alive(h)
  /\ Leave(h)
  /\ UNCHANGED <<supVars, status, written, owed, pipe, expired>>

(* SIGKILL takes effect. *)
Die(p) ==
  /\ proc[p] = "dying"
  /\ Leave(p)
  /\ IF p = Shell THEN status' = "killed" /\ owed' = written
                  ELSE UNCHANGED <<status, owed>>
  /\ UNCHANGED <<supVars, written, pipe, expired>>

Command ==
  \/ Setsid
  \/ \E c \in Exits : ShellExit(c)
  \/ \E h \in Helper : Escape(h) \/ HelperExit(h) \/ (\E p \in Proc : ForkHelper(p, h))
  \/ \E p \in Proc, s \in Stream : CloseStream(p, s) \/ Write(p, s)
  \/ \E p \in Proc : Die(p)

----------------------------------------------------------------------------
(* The clock and the client. *)

DeadlinePasses ==
  /\ ~expired
  /\ pc # "start"
  /\ proc[Shell] # "forked" \/ May("slow_start")
  /\ expired' = TRUE
  /\ UNCHANGED <<supVars, procVars, pipe>>

(* The receive loop of agentbox_exec_streaming. *)
ClientRecv ==
  LET f == Head(sock) IN
  /\ client = "waiting" /\ sock # <<>>
  /\ sock' = Tail(sock)
  /\ IF f.kind = "CHUNK"
     THEN got' = [got EXCEPT ![f.stream] = @ + f.n] /\ UNCHANGED client
     ELSE client' = "returned" /\ UNCHANGED got
  /\ UNCHANGED <<pc, procVars, pipe, captured, loopVars, expired, sending>>

ClientDies ==
  /\ May("gone")
  /\ client = "waiting"
  /\ client' = "gone"
  /\ UNCHANGED <<pc, procVars, pipe, captured, loopVars, expired, sending, sock, got>>

Next ==
  \/ Supervisor \/ SpawnFails \/ Command
  \/ DeadlinePasses \/ ClientRecv \/ ClientDies

Spec == Init /\ [][Next]_vars

(* The supervisor and the client run, the kernel schedules the forked      *)
(* child and delivers SIGKILL.  The command need not do anything, and the  *)
(* deadline may be far away.                                               *)
FairSpec ==
  /\ Spec
  /\ WF_vars(Supervisor)
  /\ WF_vars(ClientRecv)
  /\ WF_vars(Setsid)
  /\ \A p \in Proc : WF_vars(Die(p))

----------------------------------------------------------------------------
(* Properties. *)

TypeOK ==
  /\ pc \in PCs
  /\ proc \in [Proc -> ProcStates]
  /\ status \in Statuses
  /\ holds \in [Stream -> SUBSET Proc]
  /\ pipe \in [Stream -> 0 .. PipeCap]
  /\ written \in [Stream -> 0 .. MaxOut]
  /\ owed \in [Stream -> 0 .. MaxOut]
  /\ captured \in [Stream -> Nat]
  /\ open \subseteq Stream
  /\ todo \subseteq open
  /\ rounds \in 0 .. DrainRounds
  /\ expired \in BOOLEAN
  /\ timed_out \in BOOLEAN
  /\ wstatus \in Statuses
  /\ sending = <<>> \/ \E f \in Frame : sending = <<f>>
  /\ sock \in Seq(Frame)
  /\ got \in [Stream -> Nat]
  /\ client \in {"waiting", "returned", "gone"}

(* When agentbox_proc_run has returned, no process of the command's group   *)
(* is left alive: each is dead or has SIGKILL pending, whatever the command *)
(* forked and when, on the timeout path and on the normal one.              *)
GroupSwept ==
  pc \in {"answer", "done"} => \A p \in Proc : proc[p] \notin {"forked", "group"}

(* A result that says the command was not stopped carries the shell's own   *)
(* exit status and the shell is reaped; one that says it was is given only  *)
(* when the deadline has passed.                                            *)
VerdictHonest ==
  pc = "answer" =>
    /\ proc[Shell] = "reaped"
    /\ IF timed_out THEN expired ELSE wstatus \in Exits /\ wstatus = status

(* When agentbox_exec_streaming returns, on_chunk has been given exactly    *)
(* what the capture files hold, and no frame is left to be taken for the    *)
(* answer of the next request.                                              *)
StreamedIsCaptured ==
  client = "returned" => got = captured /\ sock = <<>> /\ sending = <<>>

(* The drain after completion keeps what the shell wrote before it exited,  *)
(* on each stream, as long as that is no more than DrainRounds reads, and   *)
(* whatever the other stream does.                                          *)
SmallOutputKept ==
  pc \in {"answer", "done"} =>
    \A s \in Stream : captured[s] >= Least(owed[s], DrainRounds * ReadSize)

(* Stated by the comment on agentbox_proc_run in agentbox.h: the full       *)
(* output is available afterward.  Here: all that the shell wrote before it *)
(* exited by itself.                                                        *)
AllOutputCaptured ==
  pc \in {"answer", "done"} /\ ~timed_out => \A s \in Stream : captured[s] >= owed[s]

Ended == pc \in {"done", "dead"} /\ sending = <<>>

(* Once the deadline has passed the run is answered, whatever the command   *)
(* does, full pipes, helpers and closed streams included.                   *)
TimeoutEndsRun == expired ~> Ended

(* Once the shell has exited the run is answered: it does not wait for the  *)
(* processes that keep the pipes open, nor for the deadline.                *)
ExitEndsRun == (proc[Shell] = "zombie") ~> Ended
=============================================================================
