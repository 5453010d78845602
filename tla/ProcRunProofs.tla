--------------------------- MODULE ProcRunProofs ---------------------------
(***************************************************************************)
(* What a RUN leaves behind and what it answers, for every set of helper   *)
(* processes, every pipe and socket size and every number of drain rounds. *)
(***************************************************************************)
EXTENDS ProcRun, TLAPS

(* A read takes no more than the pipe holds and no more than was asked for. *)
LEMMA ReadLengthFits ==
  ASSUME TypeOK, NEW s \in Stream
  PROVE  /\ ReadLength(s) \in 0 .. ReadSize
         /\ pipe[s] - ReadLength(s) \in 0 .. PipeCap
BY RunAssumption DEF TypeOK, ReadLength, Least

(* One frame appended, or taken, leaves a sequence of frames. *)
LEMMA FramesStayFrames ==
  ASSUME TypeOK
  PROVE  /\ sending # <<>> => sock \o sending \in Seq(Frame)
         /\ sock # <<>> => Head(sock) \in Frame /\ Tail(sock) \in Seq(Frame)
  <1>1. sock \in Seq(Frame)
    BY DEF TypeOK
  <1>2. ASSUME sending # <<>>
        PROVE  sock \o sending \in Seq(Frame)
    <2>1. PICK f \in Frame : sending = <<f>>
      BY <1>2 DEF TypeOK
    <2>2. <<f>> \in Seq(Frame)
      OBVIOUS
    <2> QED
      BY <1>1, <2>1, <2>2
  <1>3. ASSUME sock # <<>>
        PROVE  Head(sock) \in Frame /\ Tail(sock) \in Seq(Frame)
    BY <1>1, <1>3
  <1> QED
    BY <1>2, <1>3

(* The frames the supervisor builds. *)
LEMMA BuiltFrames ==
  ASSUME TypeOK
  PROVE  /\ ResultFrame \in Frame
         /\ [kind |-> "ERR"] \in Frame
         /\ \A s \in Stream, n \in 1 .. ReadSize :
              [kind |-> "CHUNK", stream |-> s, n |-> n] \in Frame
  <1>1. ResultFrame \in Final
    BY DEF TypeOK, ResultFrame, Final, Statuses
  <1>2. [kind |-> "ERR"] \in Final
    BY DEF Final
  <1>3. \A s \in Stream, n \in 1 .. ReadSize :
          [kind |-> "CHUNK", stream |-> s, n |-> n] \in Chunk
    BY DEF Chunk
  <1> QED
    BY <1>1, <1>2, <1>3 DEF Frame

(* Only a chunk carries a stream and a length. *)
LEMMA ChunkFields ==
  ASSUME NEW f \in Frame, f.kind = "CHUNK"
  PROVE  f.stream \in Stream /\ f.n \in Nat
  <1>1. f \in Chunk
    BY DEF Frame, Final, Chunk
  <1> QED
    BY <1>1, RunAssumption DEF Chunk

(* Every step of agentbox_proc_run keeps the types. *)
LEMMA SupervisorType ==
  ASSUME TypeOK, Supervisor \/ SpawnFails
  PROVE  TypeOK'
  <1> USE RunAssumption
  <1>1. CASE SpawnFails
    BY <1>1, BuiltFrames DEF SpawnFails, TypeOK, PCs, procVars, loopVars
  <1>2. CASE Fork
    BY <1>2 DEF Fork, TypeOK, PCs, Proc, ProcStates, sockVars
  <1>3. CASE CheckDeadline
    BY <1>3 DEF CheckDeadline, TypeOK, PCs, procVars, sockVars
  <1>4. CASE Poll
    BY <1>4 DEF Poll, TypeOK, PCs, procVars, sockVars
  <1>5. ASSUME NEW s \in Stream, drain_once(s)
        PROVE  TypeOK'
    <2> DEFINE n == ReadLength(s)
    <2>1. n \in 0 .. ReadSize /\ pipe[s] - n \in 0 .. PipeCap
      BY ReadLengthFits
    <2>2. pipe' \in [Stream -> 0 .. PipeCap]
      BY <1>5, <2>1 DEF drain_once, TypeOK
    <2>3. captured' \in [Stream -> Nat]
      BY <1>5, <2>1 DEF drain_once, TypeOK
    <2>4. open' \subseteq Stream /\ todo' \subseteq open'
      BY <1>5 DEF drain_once, TypeOK, AtEof
    <2>5. sending' = <<>> \/ \E f \in Frame : sending' = <<f>>
      BY <1>5, <2>1, BuiltFrames DEF drain_once, forward
    <2> QED
      BY <1>5, <2>2, <2>3, <2>4, <2>5 DEF drain_once, TypeOK, procVars
  <1>6. CASE DrainedReady
    BY <1>6 DEF DrainedReady, TypeOK, PCs, procVars, loopVars, sockVars
  <1>7. CASE Reap
    BY <1>7 DEF Reap, TryReap, WaitResult, TypeOK, PCs, Proc, ProcStates, Statuses,
                Exits, sockVars
  <1>8. CASE Kill
    BY <1>8 DEF Kill, KilledGroup, TypeOK, PCs, ProcStates, loopVars, sockVars
  <1>9. CASE Wait
    BY <1>9 DEF Wait, WaitResult, TypeOK, PCs, Proc, ProcStates, Statuses, Exits, sockVars
  <1>10. CASE DrainRound
    <2>1. pc' \in PCs /\ rounds' \in 0 .. DrainRounds /\ todo' \subseteq open
      BY <1>10 DEF DrainRound, MoreToDrain, TypeOK, PCs
    <2>2. UNCHANGED <<procVars, pipe, captured, open, timed_out, wstatus, expired, sockVars>>
      BY <1>10 DEF DrainRound
    <2> QED
      BY <2>1, <2>2 DEF TypeOK, procVars, sockVars
  <1>11. CASE Sweep
    BY <1>11 DEF Sweep, KilledGroup, TypeOK, PCs, ProcStates, loopVars, sockVars
  <1>12. CASE SendResult
    BY <1>12, BuiltFrames DEF SendResult, TypeOK, PCs, procVars, loopVars
  <1>13. CASE Send
    BY <1>13, FramesStayFrames DEF Send, TypeOK, procVars, loopVars
  <1>14. CASE SendFails
    BY <1>14 DEF SendFails, TypeOK, PCs, procVars, loopVars
  <1> QED
    BY <1>1, <1>2, <1>3, <1>4, <1>5, <1>6, <1>7, <1>8, <1>9, <1>10, <1>11, <1>12,
       <1>13, <1>14 DEF Supervisor

(* Every step of the command keeps the types. *)
LEMMA CommandType ==
  ASSUME TypeOK, Command
  PROVE  TypeOK'
  <1> USE RunAssumption
  <1> USE DEF supVars, loopVars, sockVars
  <1>1. CASE Setsid
    BY <1>1 DEF Setsid, TypeOK, Proc, ProcStates
  <1>2. ASSUME NEW c \in Exits, ShellExit(c)
        PROVE  TypeOK'
    BY <1>2 DEF ShellExit, Leave, TypeOK, Proc, ProcStates, Statuses
  <1>3. ASSUME NEW h \in Helper, Escape(h)
        PROVE  TypeOK'
    BY <1>3 DEF Escape, TypeOK, Proc, ProcStates
  <1>4. ASSUME NEW h \in Helper, HelperExit(h)
        PROVE  TypeOK'
    BY <1>4 DEF HelperExit, Leave, TypeOK, Proc, ProcStates
  <1>5. ASSUME NEW p \in Proc, NEW h \in Helper, ForkHelper(p, h)
        PROVE  TypeOK'
    BY <1>5 DEF ForkHelper, TypeOK, Proc
  <1>6. ASSUME NEW p \in Proc, NEW s \in Stream, CloseStream(p, s)
        PROVE  TypeOK'
    BY <1>6 DEF CloseStream, TypeOK
  <1>7. ASSUME NEW p \in Proc, NEW s \in Stream, Write(p, s)
        PROVE  TypeOK'
    <2>1. pipe' \in [Stream -> 0 .. PipeCap]
      BY <1>7 DEF Write, TypeOK
    <2>2. written' \in [Stream -> 0 .. MaxOut]
      BY <1>7 DEF Write, TypeOK
    <2>3. UNCHANGED <<supVars, proc, status, holds, owed, expired>>
      BY <1>7 DEF Write
    <2> QED
      BY <2>1, <2>2, <2>3 DEF TypeOK
  <1>8. ASSUME NEW p \in Proc, Die(p)
        PROVE  TypeOK'
    BY <1>8 DEF Die, Leave, TypeOK, ProcStates, Statuses
  <1> QED
    BY <1>1, <1>2, <1>3, <1>4, <1>5, <1>6, <1>7, <1>8 DEF Command

(* TypeOK is inductive: the counts stay within the pipes, a frame being    *)
(* sent is one frame, a stream being read is one still open.               *)
LEMMA TypeStep == TypeOK /\ [Next]_vars => TypeOK'
  <1> SUFFICES ASSUME TypeOK, [Next]_vars PROVE TypeOK'
    OBVIOUS
  <1>1. CASE Supervisor \/ SpawnFails
    BY <1>1, SupervisorType
  <1>2. CASE Command
    BY <1>2, CommandType
  <1>3. CASE DeadlinePasses
    BY <1>3 DEF DeadlinePasses, TypeOK, supVars, procVars, loopVars, sockVars
  <1>4. CASE ClientRecv
    <2>1. Head(sock) \in Frame /\ Tail(sock) \in Seq(Frame)
      BY <1>4, FramesStayFrames DEF ClientRecv
    <2>2. got' \in [Stream -> Nat]
      <3> DEFINE f == Head(sock)
      <3>1. CASE f.kind = "CHUNK"
        <4>1. f.stream \in Stream /\ f.n \in Nat
          BY <2>1, <3>1, ChunkFields
        <4>2. got' = [got EXCEPT ![f.stream] = @ + f.n]
          BY <1>4, <3>1 DEF ClientRecv
        <4>3. got \in [Stream -> Nat]
          BY DEF TypeOK
        <4> HIDE DEF f
        <4> QED
          BY <4>1, <4>2, <4>3
      <3>2. CASE f.kind # "CHUNK"
        BY <1>4, <3>2 DEF ClientRecv, TypeOK
      <3> QED
        BY <3>1, <3>2
    <2> QED
      BY <1>4, <2>1, <2>2 DEF ClientRecv, TypeOK, procVars, loopVars
  <1>5. CASE ClientDies
    BY <1>5 DEF ClientDies, TypeOK, procVars, loopVars
  <1>6. CASE UNCHANGED vars
    BY <1>6 DEF TypeOK, vars, procVars, loopVars, sockVars
  <1> QED
    BY <1>1, <1>2, <1>3, <1>4, <1>5, <1>6 DEF Next

(* The first state has the types. *)
LEMMA TypeInit == Init => TypeOK
  <1> SUFFICES ASSUME Init PROVE TypeOK
    OBVIOUS
  <1>1. sock \in Seq(Frame)
    BY DEF Init
  <1>2. /\ pipe \in [Stream -> 0 .. PipeCap]
        /\ written \in [Stream -> 0 .. MaxOut]
        /\ owed \in [Stream -> 0 .. MaxOut]
        /\ rounds \in 0 .. DrainRounds
    BY RunAssumption DEF Init
  <1>3. /\ captured \in [Stream -> Nat]
        /\ got \in [Stream -> Nat]
    BY DEF Init
  <1> QED
    BY <1>1, <1>2, <1>3 DEF Init, TypeOK, PCs, ProcStates, Statuses

(* Type correctness of a RUN, for every size of pipe, socket and command. *)
THEOREM RunTypeCorrect == Spec => []TypeOK
BY TypeInit, TypeStep, PTL DEF Spec

----------------------------------------------------------------------------
(* The group.  GroupSwept speaks of the end of a run only; what keeps it   *)
(* true is that the shell is past setsid(), dead and reaped before the     *)
(* sweep, on both paths, and that a process outside the group never joins  *)
(* it again.                                                               *)
ShellReaped ==
  /\ pc = "start" => \A p \in Proc : proc[p] = "none"
  /\ pc \in {"final", "sweep", "answer"} => proc[Shell] = "reaped"
  /\ \A h \in Helper : proc[h] # "forked"

GroupInv == TypeOK /\ ShellReaped /\ GroupSwept

(* The parts of agentbox_proc_run keep GroupInv. *)
LEMMA SupervisorGroup ==
  ASSUME GroupInv, Supervisor \/ SpawnFails
  PROVE  ShellReaped' /\ GroupSwept'
  <1> USE RunAssumption
  <1> USE DEF GroupInv, TypeOK, ShellReaped, GroupSwept, Proc, At, procVars, sockVars
  <1>1. CASE SpawnFails
    BY <1>1 DEF SpawnFails
  <1>2. CASE Fork
    BY <1>2 DEF Fork
  <1>3. CASE CheckDeadline \/ Poll
    BY <1>3 DEF CheckDeadline, Poll
  <1>4. ASSUME NEW s \in Stream, drain_once(s)
        PROVE  ShellReaped' /\ GroupSwept'
    BY <1>4 DEF drain_once
  <1>5. CASE DrainedReady
    BY <1>5 DEF DrainedReady
  <1>6. CASE Reap
    BY <1>6 DEF Reap, TryReap
  <1>7. CASE Kill
    BY <1>7 DEF Kill, KilledGroup
  <1>8. CASE Wait
    BY <1>8 DEF Wait
  <1>9. CASE DrainRound
    BY <1>9 DEF DrainRound
  <1>10. CASE Sweep
    BY <1>10 DEF Sweep, KilledGroup
  <1>11. CASE SendResult \/ Send \/ SendFails
    BY <1>11 DEF SendResult, Send, SendFails
  <1> QED
    BY <1>1, <1>2, <1>3, <1>4, <1>5, <1>6, <1>7, <1>8, <1>9, <1>10, <1>11 DEF Supervisor

(* The command keeps GroupInv: what it forks is where its parent is. *)
LEMMA CommandGroup ==
  ASSUME GroupInv, Command
  PROVE  ShellReaped' /\ GroupSwept'
  <1> USE RunAssumption
  <1> USE DEF GroupInv, TypeOK, ShellReaped, GroupSwept, Proc, supVars, Alive
  <1>1. CASE Setsid
    BY <1>1 DEF Setsid
  <1>2. ASSUME NEW c \in Exits, ShellExit(c)
        PROVE  ShellReaped' /\ GroupSwept'
    BY <1>2 DEF ShellExit, Leave
  <1>3. ASSUME NEW h \in Helper, Escape(h) \/ HelperExit(h)
        PROVE  ShellReaped' /\ GroupSwept'
    BY <1>3 DEF Escape, HelperExit, Leave
  <1>4. ASSUME NEW p \in Proc, NEW h \in Helper, ForkHelper(p, h)
        PROVE  ShellReaped' /\ GroupSwept'
    BY <1>4 DEF ForkHelper
  <1>5. ASSUME NEW p \in Proc, NEW s \in Stream, CloseStream(p, s) \/ Write(p, s)
        PROVE  ShellReaped' /\ GroupSwept'
    BY <1>5 DEF CloseStream, Write
  <1>6. ASSUME NEW p \in Proc, Die(p)
        PROVE  ShellReaped' /\ GroupSwept'
    BY <1>6 DEF Die, Leave
  <1> QED
    BY <1>1, <1>2, <1>3, <1>4, <1>5, <1>6 DEF Command

(* GroupInv is inductive. *)
LEMMA GroupStep == GroupInv /\ [Next]_vars => GroupInv'
  <1> SUFFICES ASSUME GroupInv, [Next]_vars PROVE GroupInv'
    OBVIOUS
  <1>1. TypeOK'
    BY TypeStep DEF GroupInv
  <1>2. ShellReaped' /\ GroupSwept'
    <2>1. CASE Supervisor \/ SpawnFails
      BY <2>1, SupervisorGroup
    <2>2. CASE Command
      BY <2>2, CommandGroup
    <2>3. CASE DeadlinePasses \/ ClientRecv \/ ClientDies \/ UNCHANGED vars
      BY <2>3 DEF DeadlinePasses, ClientRecv, ClientDies, vars, supVars,
                  procVars, GroupInv, ShellReaped, GroupSwept
    <2> QED
      BY <2>1, <2>2, <2>3 DEF Next
  <1> QED
    BY <1>1, <1>2 DEF GroupInv

(* When agentbox_proc_run returns, the command's process group is dead or  *)
(* dying: for every number of helpers, on both paths, whatever fails.      *)
THEOREM GroupStaysSwept == Spec => []GroupSwept
  <1>1. Init => GroupInv
    BY TypeInit DEF Init, GroupInv, ShellReaped, GroupSwept, Proc
  <1> QED
    BY <1>1, GroupStep, PTL DEF Spec, GroupInv

----------------------------------------------------------------------------
(* The verdict.  While the loop runs nobody has signalled the shell, so    *)
(* the status of a shell found dead there is its own; a reaped shell's     *)
(* status no longer changes.                                               *)
LoopPCs == {"start", "check", "poll", "drain", "reap"}

StatusKnown ==
  /\ pc \in LoopPCs =>
       /\ ~timed_out
       /\ proc[Shell] \in {"none", "forked", "group", "zombie"}
       /\ proc[Shell] = "zombie" => status \in Exits
  /\ pc \in {"kill", "wait", "final", "sweep", "answer"} /\ timed_out => expired
  /\ pc \in {"kill", "wait"} => timed_out
  /\ pc \in {"final", "sweep", "answer"} =>
       proc[Shell] = "reaped" /\ (~timed_out => wstatus \in Exits /\ wstatus = status)

VerdictInv == TypeOK /\ ShellReaped /\ StatusKnown

(* agentbox_proc_run keeps StatusKnown, with SIGCHLD not ignored. *)
LEMMA SupervisorVerdict ==
  ASSUME VerdictInv, "sigchld" \notin Env, Supervisor \/ SpawnFails
  PROVE  StatusKnown'
  <1> USE RunAssumption
  <1> USE DEF VerdictInv, TypeOK, ShellReaped, StatusKnown, LoopPCs, Proc, At, procVars,
              sockVars, loopVars
  <1>1. CASE SpawnFails
    BY <1>1 DEF SpawnFails
  <1>2. CASE Fork
    BY <1>2 DEF Fork
  <1>3. CASE CheckDeadline \/ Poll
    BY <1>3 DEF CheckDeadline, Poll
  <1>4. ASSUME NEW s \in Stream, drain_once(s)
        PROVE  StatusKnown'
    BY <1>4 DEF drain_once
  <1>5. CASE DrainedReady
    BY <1>5 DEF DrainedReady
  <1>6. CASE Reap
    BY <1>6 DEF Reap, TryReap, WaitResult, May
  <1>7. CASE Kill
    BY <1>7 DEF Kill, KilledGroup
  <1>8. CASE Wait
    BY <1>8 DEF Wait
  <1>9. CASE DrainRound
    BY <1>9 DEF DrainRound
  <1>10. CASE Sweep
    BY <1>10 DEF Sweep, KilledGroup
  <1>11. CASE SendResult \/ Send \/ SendFails
    BY <1>11 DEF SendResult, Send, SendFails
  <1> QED
    BY <1>1, <1>2, <1>3, <1>4, <1>5, <1>6, <1>7, <1>8, <1>9, <1>10, <1>11 DEF Supervisor

(* The command keeps StatusKnown. *)
LEMMA CommandVerdict ==
  ASSUME VerdictInv, Command
  PROVE  StatusKnown'
  <1> USE RunAssumption
  <1> USE DEF VerdictInv, TypeOK, ShellReaped, StatusKnown, LoopPCs, Proc, supVars,
              loopVars, Alive
  <1>1. CASE Setsid
    BY <1>1 DEF Setsid
  <1>2. ASSUME NEW c \in Exits, ShellExit(c)
        PROVE  StatusKnown'
    BY <1>2 DEF ShellExit, Leave
  <1>3. ASSUME NEW h \in Helper, Escape(h) \/ HelperExit(h)
        PROVE  StatusKnown'
    BY <1>3 DEF Escape, HelperExit, Leave
  <1>4. ASSUME NEW p \in Proc, NEW h \in Helper, ForkHelper(p, h)
        PROVE  StatusKnown'
    BY <1>4 DEF ForkHelper
  <1>5. ASSUME NEW p \in Proc, NEW s \in Stream, CloseStream(p, s) \/ Write(p, s)
        PROVE  StatusKnown'
    BY <1>5 DEF CloseStream, Write
  <1>6. ASSUME NEW p \in Proc, Die(p)
        PROVE  StatusKnown'
    BY <1>6 DEF Die, Leave
  <1> QED
    BY <1>1, <1>2, <1>3, <1>4, <1>5, <1>6 DEF Command

(* VerdictInv is inductive. *)
LEMMA VerdictStep ==
  ASSUME "sigchld" \notin Env
  PROVE  GroupInv /\ VerdictInv /\ [Next]_vars => VerdictInv'
  <1> SUFFICES ASSUME GroupInv, VerdictInv, [Next]_vars PROVE VerdictInv'
    OBVIOUS
  <1>1. TypeOK' /\ ShellReaped'
    BY GroupStep DEF GroupInv
  <1>2. StatusKnown'
    <2>1. CASE Supervisor \/ SpawnFails
      BY <2>1, SupervisorVerdict
    <2>2. CASE Command
      BY <2>2, CommandVerdict
    <2>3. CASE DeadlinePasses \/ ClientRecv \/ ClientDies \/ UNCHANGED vars
      BY <2>3 DEF DeadlinePasses, ClientRecv, ClientDies, vars, supVars,
                  procVars, loopVars, VerdictInv, StatusKnown
    <2> QED
      BY <2>1, <2>2, <2>3 DEF Next
  <1> QED
    BY <1>1, <1>2 DEF VerdictInv

(* A run that is not said to have timed out is answered with the shell's   *)
(* own exit status; one that is, only after the deadline.                  *)
THEOREM VerdictStaysHonest ==
  ASSUME "sigchld" \notin Env
  PROVE  Spec => []VerdictHonest
  <1>1. Init => GroupInv /\ VerdictInv
    BY TypeInit DEF Init, GroupInv, VerdictInv, ShellReaped, GroupSwept, StatusKnown,
                    LoopPCs, Proc
  <1>2. GroupInv /\ VerdictInv /\ [Next]_vars => (GroupInv /\ VerdictInv)'
    BY GroupStep, VerdictStep
  <1>3. VerdictInv => VerdictHonest
    BY DEF VerdictInv, StatusKnown, VerdictHonest
  <1> QED
    BY <1>1, <1>2, <1>3, PTL DEF Spec

----------------------------------------------------------------------------
(* The output.  Nothing is lost while it is in a pipe that is still read;  *)
(* each round of the last drain either empties a pipe or takes ReadSize    *)
(* units from it.                                                          *)

(* All that is owed is captured, or at least k reads of it. *)
Reached(s, k) == captured[s] >= owed[s] \/ captured[s] >= k * ReadSize

Counts ==
  /\ \A s \in Stream : captured[s] + pipe[s] = written[s] /\ owed[s] <= written[s]
  /\ \A s \in Stream : s \notin open => pipe[s] = 0 /\ holds[s] = {}

Rounds ==
  /\ pc \in {"start", "check", "poll", "drain", "reap", "kill", "wait"} => rounds = 0
  /\ pc \in {"start", "check", "poll", "reap", "kill", "wait"} => todo = {}
  /\ pc = "start" => owed = [s \in Stream |-> 0]
  /\ pc = "done" => proc[Shell] \in {"none", "reaped"}

Progress ==
  /\ pc = "final" => \A s \in Stream : Reached(s, IF s \in todo THEN rounds - 1 ELSE rounds)
  /\ pc = "final" /\ todo # {} => rounds > 0
  /\ pc \in {"sweep", "answer", "done"} => \A s \in Stream : Reached(s, DrainRounds)

OutputInv == GroupInv /\ Counts /\ Rounds /\ Progress

(* Products of a round number and ReadSize, the only arithmetic that is    *)
(* not linear.                                                             *)
LEMMA Products ==
  /\ \A k \in Int : k * ReadSize \in Int
  /\ \A k \in Int : (k - 1) * ReadSize + ReadSize = k * ReadSize
  /\ \A k \in Nat : k * ReadSize >= 0
  /\ 0 * ReadSize = 0
BY RunAssumption

(* A read takes what it removes, and leaves nothing if it was short. *)
LEMMA ReadTakes ==
  ASSUME OutputInv, "nospace" \notin Env, NEW s \in Stream, drain_once(s)
  PROVE  /\ captured'[s] + pipe'[s] = captured[s] + pipe[s]
         /\ captured'[s] >= captured[s]
         /\ pipe'[s] = 0 \/ captured'[s] = captured[s] + ReadSize
         /\ \A r \in Stream \ {s} : captured'[r] = captured[r] /\ pipe'[r] = pipe[r]
  <1>1. pipe[s] \in Nat /\ captured[s] \in Nat /\ ReadSize \in Nat
    BY RunAssumption DEF OutputInv, GroupInv, TypeOK
  <1>2. /\ captured' = [captured EXCEPT ![s] = @ + ReadLength(s)]
        /\ pipe' = [pipe EXCEPT ![s] = @ - ReadLength(s)]
    BY DEF drain_once, May
  <1>3. captured'[s] = captured[s] + ReadLength(s) /\ pipe'[s] = pipe[s] - ReadLength(s)
    BY <1>2 DEF OutputInv, GroupInv, TypeOK
  <1>4. \A r \in Stream \ {s} : captured'[r] = captured[r] /\ pipe'[r] = pipe[r]
    BY <1>2 DEF OutputInv, GroupInv, TypeOK
  <1> QED
    BY <1>1, <1>3, <1>4 DEF ReadLength, Least

(* drain_once keeps the counts and makes a round's progress. *)
LEMMA DrainOutput ==
  ASSUME OutputInv, "nospace" \notin Env, NEW s \in Stream, drain_once(s)
  PROVE  Counts' /\ Rounds' /\ Progress'
  <1> USE DEF OutputInv
  <1>1. Counts'
    <2>1. \A r \in Stream : /\ captured[r] \in Nat /\ pipe[r] \in Nat
                            /\ written[r] \in Nat /\ owed[r] \in Nat
      BY DEF GroupInv, TypeOK
    <2>2. written' = written /\ owed' = owed /\ holds' = holds
      BY DEF drain_once, procVars
    <2>3. \A r \in Stream : captured'[r] + pipe'[r] = written'[r] /\ owed'[r] <= written'[r]
      BY <2>1, <2>2, ReadTakes DEF Counts
    <2>4. \A r \in Stream : r \notin open' => pipe'[r] = 0 /\ holds'[r] = {}
      <3> SUFFICES ASSUME NEW r \in Stream, r \notin open'
                   PROVE  pipe'[r] = 0 /\ holds'[r] = {}
        OBVIOUS
      <3>1. CASE r \in open
        <4>1. r = s /\ AtEof(s)
          BY <3>1 DEF drain_once
        <4>2. pipe[s] = 0 /\ holds[s] = {}
          BY <4>1 DEF AtEof
        <4>3. captured'[s] \in Nat /\ pipe'[s] \in Nat
          <5>1. TypeOK'
            BY SupervisorType DEF Supervisor, GroupInv
          <5> QED
            BY <5>1 DEF TypeOK
        <4>4. pipe'[s] = 0
          BY <2>1, <4>2, <4>3, ReadTakes
        <4> QED
          BY <2>2, <4>1, <4>2, <4>4
      <3>2. CASE r \notin open
        <4>1. pipe[r] = 0 /\ holds[r] = {}
          BY <3>2 DEF Counts
        <4>2. r # s
          BY <3>2 DEF drain_once, Turn, GroupInv, TypeOK
        <4> QED
          BY <2>2, <4>1, <4>2, ReadTakes
      <3> QED
        BY <3>1, <3>2
    <2> QED
      BY <2>3, <2>4 DEF Counts
  <1>2. Rounds'
    BY DEF drain_once, Rounds, procVars, Turn
  <1>3. Progress'
    <2>1. /\ pc' = pc /\ rounds' = rounds /\ owed' = owed /\ written' = written
          /\ todo' = todo \ {s} /\ s \in todo /\ pc \in {"drain", "final"}
      BY DEF drain_once, procVars, Turn
    <2>2. /\ captured[s] \in Nat /\ captured'[s] \in Int /\ pipe'[s] \in Int
          /\ owed[s] \in Nat /\ written[s] \in Nat /\ pipe[s] \in Nat
          /\ rounds \in Int /\ ReadSize \in Nat
      <3>1. TypeOK'
        BY SupervisorType DEF Supervisor, GroupInv
      <3> QED
        BY <3>1, RunAssumption DEF GroupInv, TypeOK
    <2>3. ASSUME pc = "final"
          PROVE  Reached(s, rounds)'
      <3>1. Reached(s, rounds - 1)
        BY <2>1, <2>3 DEF Progress
      <3>2. CASE pipe'[s] = 0
        <4>1. captured'[s] = written[s] /\ owed[s] <= written[s]
          BY <2>2, <3>2, ReadTakes DEF Counts
        <4> QED
          BY <2>1, <2>2, <4>1 DEF Reached
      <3>3. CASE captured'[s] = captured[s] + ReadSize
        <4>1. CASE captured[s] >= owed[s]
          BY <2>1, <2>2, <3>3, <4>1 DEF Reached
        <4>2. CASE captured[s] >= (rounds - 1) * ReadSize
          <5> DEFINE less == (rounds - 1) * ReadSize
                     more == rounds * ReadSize
          <5>1. less \in Int /\ more \in Int /\ less + ReadSize = more
            BY <2>2, Products
          <5>2. captured[s] >= less
            BY <4>2
          <5>3. captured'[s] >= more
            <6> HIDE DEF less, more
            <6> QED
              BY <2>2, <3>3, <5>1, <5>2
          <5> QED
            BY <2>1, <5>3 DEF Reached
        <4> QED
          BY <3>1, <4>1, <4>2 DEF Reached
      <3> QED
        BY <3>2, <3>3, ReadTakes
    <2>4. ASSUME pc = "final", NEW r \in Stream \ {s}
          PROVE  Reached(r, IF r \in todo THEN rounds - 1 ELSE rounds)'
      <3>1. captured'[r] = captured[r] /\ (r \in todo' <=> r \in todo)
        BY <2>1, ReadTakes
      <3> QED
        BY <2>1, <2>4, <3>1 DEF Progress, Reached
    <2>5. ASSUME pc' = "final", NEW r \in Stream
          PROVE  Reached(r, IF r \in todo THEN rounds - 1 ELSE rounds)'
      BY <2>1, <2>3, <2>4, <2>5
    <2>6. pc' = "final" /\ todo' # {} => rounds' > 0
      BY <2>1 DEF Progress
    <2>7. pc' \notin {"sweep", "answer", "done"}
      BY <2>1
    <2> QED
      BY <2>5, <2>6, <2>7 DEF Progress
  <1> QED
    BY <1>1, <1>2, <1>3

(* The other steps of agentbox_proc_run read nothing; what they change is  *)
(* where in the drain they are.                                            *)
LEMMA SupervisorOutput ==
  ASSUME OutputInv, "nospace" \notin Env, Supervisor \/ SpawnFails
  PROVE  Counts' /\ Rounds' /\ Progress'
  <1> USE DEF OutputInv, At, procVars, loopVars, sockVars
  <1>0. /\ DrainRounds \in Nat /\ rounds \in 0 .. DrainRounds /\ 0 * ReadSize = 0
        /\ \A k \in Nat : k * ReadSize \in Int /\ k * ReadSize >= 0
        /\ \A s \in Stream : captured[s] \in Nat /\ owed[s] \in Nat
        /\ \A s \in Stream : written[s] \in Nat /\ pipe[s] \in Nat
    BY RunAssumption, Products DEF GroupInv, TypeOK
  <1>1. CASE SpawnFails
    <2>1. \A s \in Stream : owed[s] = 0
      BY <1>1 DEF SpawnFails, Rounds
    <2>2. \A s \in Stream : Reached(s, DrainRounds)'
      BY <1>0, <1>1, <2>1 DEF SpawnFails, Reached
    <2>3. proc[Shell] = "none"
      BY <1>1 DEF SpawnFails, GroupInv, ShellReaped, Proc
    <2> QED
      BY <1>1, <2>2, <2>3 DEF SpawnFails, Counts, Rounds, Progress
  <1>2. CASE Fork
    BY <1>2 DEF Fork, Counts, Rounds, Progress
  <1>3. CASE CheckDeadline \/ Poll \/ DrainedReady \/ Kill
    BY <1>3 DEF CheckDeadline, Poll, DrainedReady, Kill, Counts, Rounds, Progress
  <1>4. ASSUME NEW s \in Stream, drain_once(s)
        PROVE  Counts' /\ Rounds' /\ Progress'
    BY <1>4, DrainOutput
  <1>5. CASE Reap \/ Wait
    <2>1. rounds = 0 /\ todo = {} /\ rounds' = rounds /\ todo' = todo /\ captured' = captured
      BY <1>5 DEF Reap, TryReap, Wait, Rounds
    <2>2. \A s \in Stream : Reached(s, IF s \in todo THEN rounds - 1 ELSE rounds)'
      BY <1>0, <2>1 DEF Reached
    <2>3. pc' \in {"check", "final"}
      BY <1>5 DEF Reap, TryReap, Wait
    <2>4. Counts'
      BY <1>5 DEF Reap, TryReap, Wait, Counts
    <2>5. Progress'
      BY <2>1, <2>2, <2>3 DEF Progress
    <2>6. Rounds'
      BY <2>1, <2>3 DEF Rounds
    <2> QED
      BY <2>4, <2>5, <2>6
  <1>6. CASE DrainRound
    <2>1. Counts' /\ Rounds'
      BY <1>6 DEF DrainRound, Counts, Rounds
    <2>2. \A s \in Stream : Reached(s, rounds)
      BY <1>6 DEF DrainRound, Progress
    <2>3. captured' = captured /\ owed' = owed /\ open' = open
      BY <1>6 DEF DrainRound
    <2>4. CASE MoreToDrain
      <3>1. rounds' = rounds + 1 /\ todo' = open /\ pc' = "final"
        BY <1>6, <2>4 DEF DrainRound
      <3>2. ASSUME NEW s \in Stream
            PROVE  Reached(s, IF s \in todo THEN rounds - 1 ELSE rounds)'
        <4>1. CASE s \in open
          BY <1>0, <2>2, <2>3, <3>1, <4>1 DEF Reached
        <4>2. CASE s \notin open
          BY <1>0, <2>3, <4>2 DEF Counts, Reached
        <4> QED
          BY <4>1, <4>2
      <3> QED
        BY <1>0, <2>1, <3>1, <3>2 DEF Progress
    <2>5. CASE ~MoreToDrain
      <3>1. pc' = "sweep"
        BY <1>6, <2>5 DEF DrainRound
      <3>2. ASSUME NEW s \in Stream
            PROVE  Reached(s, DrainRounds)'
        <4>1. CASE s \in open
          <5>1. rounds = DrainRounds
            BY <1>0, <2>5, <4>1 DEF MoreToDrain
          <5> QED
            BY <2>2, <2>3, <5>1 DEF Reached
        <4>2. CASE s \notin open
          BY <1>0, <2>3, <4>2 DEF Counts, Reached
        <4> QED
          BY <4>1, <4>2
      <3> QED
        BY <2>1, <3>1, <3>2 DEF Progress
    <2> QED
      BY <2>4, <2>5
  <1>7. CASE Sweep
    BY <1>7 DEF Sweep, Counts, Rounds, Progress, Reached
  <1>8. CASE SendResult
    BY <1>8 DEF SendResult, Counts, Rounds, Progress, Reached, GroupInv, ShellReaped
  <1>9. CASE Send \/ SendFails
    BY <1>9 DEF Send, SendFails, Counts, Rounds, Progress, Reached
  <1> QED
    BY <1>1, <1>2, <1>3, <1>4, <1>5, <1>6, <1>7, <1>8, <1>9 DEF Supervisor

(* The command adds to both sides of the count, and does not touch what is *)
(* owed once the shell is reaped.                                          *)
LEMMA CommandOutput ==
  ASSUME OutputInv, Command
  PROVE  Counts' /\ Rounds' /\ Progress'
  <1> USE DEF OutputInv, supVars, loopVars, sockVars
  <1>0. \A s \in Stream : /\ captured[s] \in Nat /\ owed[s] \in Nat
                          /\ written[s] \in Nat /\ pipe[s] \in Nat
    BY DEF GroupInv, TypeOK
  <1>1. Counts'
    <2>1. CASE Setsid
      BY <2>1 DEF Setsid, Counts
    <2>2. ASSUME NEW c \in Exits, ShellExit(c)
          PROVE  Counts'
      BY <1>0, <2>2 DEF ShellExit, Leave, Counts
    <2>3. ASSUME NEW h \in Helper, Escape(h) \/ HelperExit(h)
          PROVE  Counts'
      BY <2>3 DEF Escape, HelperExit, Leave, Counts
    <2>4. ASSUME NEW p \in Proc, NEW h \in Helper, ForkHelper(p, h)
          PROVE  Counts'
      BY <2>4 DEF ForkHelper, Counts
    <2>5. ASSUME NEW p \in Proc, NEW s \in Stream, CloseStream(p, s)
          PROVE  Counts'
      BY <2>5 DEF CloseStream, Counts, GroupInv, TypeOK
    <2>6. ASSUME NEW p \in Proc, NEW s \in Stream, Write(p, s)
          PROVE  Counts'
      <3>1. /\ p \in holds[s] /\ captured' = captured /\ owed' = owed
            /\ open' = open /\ holds' = holds
            /\ pipe' = [pipe EXCEPT ![s] = @ + 1]
            /\ written' = [written EXCEPT ![s] = @ + 1]
        BY <2>6 DEF Write
      <3>2. s \in open
        BY <3>1 DEF Counts
      <3>3. pipe'[s] = pipe[s] + 1 /\ written'[s] = written[s] + 1
        BY <3>1 DEF GroupInv, TypeOK
      <3>4. \A r \in Stream \ {s} : pipe'[r] = pipe[r] /\ written'[r] = written[r]
        BY <3>1 DEF GroupInv, TypeOK
      <3>5. captured[s] + (pipe[s] + 1) = written[s] + 1 /\ owed[s] <= written[s] + 1
        BY <1>0 DEF Counts
      <3>6. \A r \in Stream : captured'[r] + pipe'[r] = written'[r] /\ owed'[r] <= written'[r]
        BY <3>1, <3>3, <3>4, <3>5 DEF Counts
      <3>7. \A r \in Stream : r \notin open' => pipe'[r] = 0 /\ holds'[r] = {}
        BY <3>1, <3>2, <3>4 DEF Counts
      <3> QED
        BY <3>6, <3>7 DEF Counts
    <2>7. ASSUME NEW p \in Proc, Die(p)
          PROVE  Counts'
      BY <1>0, <2>7 DEF Die, Leave, Counts
    <2> QED
      BY <2>1, <2>2, <2>3, <2>4, <2>5, <2>6, <2>7 DEF Command
  <1>2. /\ pc' = pc /\ rounds' = rounds /\ todo' = todo /\ captured' = captured
        /\ (pc \in {"start", "final", "sweep", "answer", "done"} => owed' = owed)
        /\ (pc = "done" => proc'[Shell] = proc[Shell])
    <2> USE RunAssumption DEF GroupInv, TypeOK, ShellReaped, Rounds, Proc, Alive
    <2>1. CASE Setsid
      BY <2>1 DEF Setsid
    <2>2. ASSUME NEW c \in Exits, ShellExit(c)
          PROVE  <1>2!:
      BY <2>2 DEF ShellExit, Leave
    <2>3. ASSUME NEW h \in Helper, Escape(h) \/ HelperExit(h)
          PROVE  <1>2!:
      BY <2>3 DEF Escape, HelperExit, Leave
    <2>4. ASSUME NEW p \in Proc, NEW h \in Helper, ForkHelper(p, h)
          PROVE  <1>2!:
      BY <2>4 DEF ForkHelper
    <2>5. ASSUME NEW p \in Proc, NEW s \in Stream, CloseStream(p, s) \/ Write(p, s)
          PROVE  <1>2!:
      BY <2>5 DEF CloseStream, Write
    <2>6. ASSUME NEW p \in Proc, Die(p)
          PROVE  <1>2!:
      BY <2>6 DEF Die, Leave
    <2> QED
      BY <2>1, <2>2, <2>3, <2>4, <2>5, <2>6 DEF Command
  <1>3. Rounds'
    BY <1>2 DEF Rounds
  <1>4. Progress'
    BY <1>2 DEF Progress, Reached
  <1> QED
    BY <1>1, <1>3, <1>4

(* OutputInv is inductive. *)
LEMMA OutputStep ==
  ASSUME "nospace" \notin Env
  PROVE  OutputInv /\ [Next]_vars => OutputInv'
  <1> SUFFICES ASSUME OutputInv, [Next]_vars PROVE OutputInv'
    OBVIOUS
  <1>1. GroupInv'
    BY GroupStep DEF OutputInv
  <1>2. Counts' /\ Rounds' /\ Progress'
    <2>1. CASE Supervisor \/ SpawnFails
      BY <2>1, SupervisorOutput
    <2>2. CASE Command
      BY <2>2, CommandOutput
    <2>3. CASE DeadlinePasses \/ ClientRecv \/ ClientDies \/ UNCHANGED vars
      BY <2>3 DEF DeadlinePasses, ClientRecv, ClientDies, vars, supVars, procVars,
                  loopVars, OutputInv, Counts, Rounds, Progress, Reached
    <2> QED
      BY <2>1, <2>2, <2>3 DEF Next
  <1> QED
    BY <1>1, <1>2 DEF OutputInv

(* The last drain keeps what the shell wrote before it exited, up to       *)
(* DrainRounds reads of each stream, when the capture files can be written *)
(* to: for every pipe and read size, whatever helpers and the other stream *)
(* do.                                                                     *)
THEOREM SmallOutputStaysKept ==
  ASSUME "nospace" \notin Env
  PROVE  Spec => []SmallOutputKept
  <1>1. Init => OutputInv
    <2> SUFFICES ASSUME Init PROVE OutputInv
      OBVIOUS
    <2>1. GroupInv
      BY TypeInit DEF Init, GroupInv, ShellReaped, GroupSwept, Proc
    <2> QED
      BY <2>1 DEF Init, OutputInv, Counts, Rounds, Progress
  <1>2. OutputInv => SmallOutputKept
    <2> SUFFICES ASSUME OutputInv, pc \in {"answer", "done"}, NEW s \in Stream
                 PROVE  captured[s] >= Least(owed[s], DrainRounds * ReadSize)
      BY DEF SmallOutputKept
    <2>1. Reached(s, DrainRounds)
      BY DEF OutputInv, Progress
    <2>2. DrainRounds * ReadSize \in Int /\ captured[s] \in Int /\ owed[s] \in Int
      BY RunAssumption, Products DEF OutputInv, GroupInv, TypeOK
    <2> QED
      BY <2>1, <2>2 DEF Reached, Least
  <1> QED
    BY <1>1, <1>2, OutputStep, PTL DEF Spec

----------------------------------------------------------------------------
(* The stream.  What the capture files hold and on_chunk has not been      *)
(* given yet is on the way.                                                *)

Units(f, s) == IF f.kind = "CHUNK" /\ f.stream = s THEN f.n ELSE 0

(* The frames of q take a count of stream s from one value to another: c   *)
(* is the count after each of them.                                        *)
Carries(q, s, from, to) ==
  \E c \in [0 .. Len(q) -> Nat] :
    /\ c[0] = from /\ c[Len(q)] = to
    /\ \A i \in 1 .. Len(q) : c[i] = c[i - 1] + Units(q[i], s)

Queue == sock \o sending

(* Only the last frame of a run is its answer. *)
AnswerLast(q) == \A i \in 1 .. Len(q) : q[i].kind # "CHUNK" => i = Len(q) /\ pc = "done"

StreamInv ==
  client # "gone" =>
    /\ \A s \in Stream : Carries(Queue, s, got[s], captured[s])
    /\ AnswerLast(Queue)
    /\ client = "returned" => Queue = <<>> /\ pc = "done"

(* A frame carries a natural number of units.                              *)
LEMMA UnitsNat ==
  ASSUME NEW f \in Frame, NEW s \in Stream
  PROVE  Units(f, s) \in Nat
  BY ChunkFields DEF Units

(* Nothing on the way.                                                     *)
LEMMA CarriesNothing ==
  ASSUME NEW s, NEW m \in Nat, NEW n
  PROVE  Carries(<<>>, s, m, n) <=> m = n
  <1>1. Carries(<<>>, s, m, n) => m = n
    BY DEF Carries
  <1>2. Carries(<<>>, s, m, m)
    <2> DEFINE c == [i \in 0 .. 0 |-> m]
    <2>1. c \in [0 .. 0 -> Nat] /\ c[0] = m
      OBVIOUS
    <2>2. Len(<<>>) = 0 /\ 1 .. 0 = {}
      OBVIOUS
    <2> HIDE DEF c
    <2>3. /\ c \in [0 .. Len(<<>>) -> Nat] /\ c[0] = m /\ c[Len(<<>>)] = m
          /\ \A i \in 1 .. Len(<<>>) : c[i] = c[i - 1] + Units(<<>>[i], s)
      BY <2>1, <2>2
    <2> QED
      BY <2>3 DEF Carries
  <1> QED
    BY <1>1, <1>2

(* One more frame sent.                                                    *)
LEMMA CarriesMore ==
  ASSUME NEW q \in Seq(Frame), NEW s \in Stream, NEW m \in Nat, NEW n \in Nat, NEW f \in Frame,
         Carries(q, s, m, n)
  PROVE  Carries(Append(q, f), s, m, n + Units(f, s))
  <1> DEFINE k == Len(q)
             r == Append(q, f)
             u == Units(f, s)
  <1>1. k \in Nat /\ Len(r) = k + 1 /\ r[k + 1] = f /\ (\A i \in 1 .. k : r[i] = q[i])
    OBVIOUS
  <1>2. u \in Nat
    BY UnitsNat
  <1>3. PICK c \in [0 .. k -> Nat] :
          /\ c[0] = m /\ c[k] = n
          /\ \A i \in 1 .. k : c[i] = c[i - 1] + Units(q[i], s)
    BY DEF Carries
  <1> DEFINE d == [i \in 0 .. k + 1 |-> IF i = k + 1 THEN n + u ELSE c[i]]
  <1>4. Units(r[k + 1], s) = u /\ \A i \in 1 .. k : Units(r[i], s) = Units(q[i], s)
    BY <1>1
  <1> HIDE DEF k, r, u
  <1>5. d \in [0 .. k + 1 -> Nat] /\ d[0] = m /\ d[k + 1] = n + u
    BY <1>1, <1>2, <1>3
  <1>6. \A i \in 1 .. k + 1 : d[i] = d[i - 1] + Units(r[i], s)
    <2> SUFFICES ASSUME NEW i \in 1 .. k + 1 PROVE d[i] = d[i - 1] + Units(r[i], s)
      OBVIOUS
    <2>1. CASE i = k + 1
      BY <1>1, <1>3, <1>4, <2>1
    <2>2. CASE i \in 1 .. k
      <3>1. d[i] = c[i] /\ d[i - 1] = c[i - 1]
        BY <1>1, <2>2
      <3> QED
        BY <1>3, <1>4, <2>2, <3>1
    <2> QED
      BY <1>1, <2>1, <2>2
  <1>7. Carries(r, s, m, n + u)
    BY <1>1, <1>5, <1>6 DEF Carries
  <1> QED
    BY <1>7 DEF r, u

(* The first frame received.                                               *)
LEMMA CarriesLess ==
  ASSUME NEW q \in Seq(Frame), q # <<>>, NEW s \in Stream, NEW m \in Nat, NEW n \in Nat,
         Carries(q, s, m, n)
  PROVE  Carries(Tail(q), s, m + Units(Head(q), s), n)
  <1> DEFINE k == Len(q)
             r == Tail(q)
             u == Units(Head(q), s)
  <1>1. k \in Nat \ {0} /\ Len(r) = k - 1 /\ Head(q) = q[1] /\ Head(q) \in Frame
    OBVIOUS
  <1>2. \A i \in 1 .. k - 1 : r[i] = q[i + 1]
    OBVIOUS
  <1>3. u \in Nat /\ u = Units(q[1], s)
    BY <1>1, UnitsNat
  <1>4. PICK c \in [0 .. k -> Nat] :
          /\ c[0] = m /\ c[k] = n
          /\ \A i \in 1 .. k : c[i] = c[i - 1] + Units(q[i], s)
    BY DEF Carries
  <1> DEFINE d == [i \in 0 .. k - 1 |-> c[i + 1]]
  <1>5. \A i \in 1 .. k - 1 : Units(r[i], s) = Units(q[i + 1], s)
    BY <1>2
  <1> HIDE DEF k, r, u
  <1>6. d \in [0 .. k - 1 -> Nat] /\ d[0] = m + u /\ d[k - 1] = n
    BY <1>1, <1>3, <1>4
  <1>7. \A i \in 1 .. k - 1 : d[i] = d[i - 1] + Units(r[i], s)
    <2> SUFFICES ASSUME NEW i \in 1 .. k - 1 PROVE d[i] = d[i - 1] + Units(r[i], s)
      OBVIOUS
    <2>1. i + 1 \in 1 .. k /\ i \in 0 .. k - 1 /\ i - 1 \in 0 .. k - 1 /\ i \in Int
      BY <1>1
    <2>2. d[i] = c[i + 1] /\ d[i - 1] = c[i]
      BY <2>1
    <2>3. c[i + 1] = c[i] + Units(q[i + 1], s)
      BY <1>4, <2>1
    <2> QED
      BY <1>5, <2>2, <2>3
  <1>8. Carries(r, s, m + u, n)
    BY <1>1, <1>6, <1>7 DEF Carries
  <1> QED
    BY <1>8 DEF r, u

(* The frame being written is the last on the way.                         *)
LEMMA QueueFacts ==
  ASSUME TypeOK
  PROVE  /\ sending = <<>> => Queue = sock
         /\ \A f : sending = <<f>> => Queue = Append(sock, f)
         /\ Queue \in Seq(Frame)
         /\ sock # <<>> => /\ Queue # <<>> /\ Head(Queue) = Head(sock)
                           /\ Tail(Queue) = Tail(sock) \o sending
  <1>1. sock \in Seq(Frame) /\ sending \in Seq(Frame)
    <2>1. sock \in Seq(Frame) /\ (sending = <<>> \/ \E f \in Frame : sending = <<f>>)
      BY DEF TypeOK
    <2>2. <<>> \in Seq(Frame) /\ \A f \in Frame : <<f>> \in Seq(Frame)
      OBVIOUS
    <2> QED
      BY <2>1, <2>2
  <1>2. sending = <<>> => Queue = sock
    BY <1>1 DEF Queue
  <1>3. \A f : sending = <<f>> => Queue = Append(sock, f)
    BY <1>1 DEF Queue
  <1>4. Queue \in Seq(Frame)
    BY <1>1 DEF Queue
  <1>5. ASSUME sock # <<>>
        PROVE  Queue # <<>> /\ Head(Queue) = Head(sock) /\ Tail(Queue) = Tail(sock) \o sending
    BY <1>1, <1>5 DEF Queue
  <1> QED
    BY <1>2, <1>3, <1>4, <1>5

(* A step before the answer that sends nothing.                            *)
LEMMA SilentStream ==
  ASSUME TypeOK, StreamInv, UNCHANGED <<sock, sending, got, captured, client>>,
         pc # "done" \/ pc' = pc
  PROVE  StreamInv'
  <1>1. UNCHANGED Queue
    BY DEF Queue
  <1> QED
    BY <1>1 DEF StreamInv, AnswerLast

(* A step before the answer that begins to send f.                         *)
LEMMA SendingStream ==
  ASSUME TypeOK, StreamInv, UNCHANGED <<sock, got, client>>, sending = <<>>, pc # "done",
         NEW f \in Frame, sending' = <<f>>, f.kind # "CHUNK" => pc' = "done",
         \A s \in Stream : captured'[s] = captured[s] + Units(f, s)
  PROVE  StreamInv'
  <1> SUFFICES ASSUME client # "gone"
               PROVE  /\ \A s \in Stream : Carries(Queue', s, got'[s], captured'[s])
                      /\ AnswerLast(Queue)'
                      /\ client' # "returned"
    BY DEF StreamInv
  <1>1. sock \in Seq(Frame) /\ Queue = sock /\ Queue' = Append(sock, f)
    <2>1. sock \in Seq(Frame) /\ Queue = sock
      BY QueueFacts DEF TypeOK
    <2> QED
      BY <2>1 DEF Queue
  <1>2. \A s \in Stream : Carries(Queue', s, got'[s], captured'[s])
    <2> SUFFICES ASSUME NEW s \in Stream PROVE Carries(Queue', s, got'[s], captured'[s])
      OBVIOUS
    <2>1. got[s] \in Nat /\ captured[s] \in Nat /\ Carries(sock, s, got[s], captured[s])
      BY <1>1 DEF TypeOK, StreamInv
    <2>2. \E a, z \in Nat : a = got[s] /\ z = captured[s] /\ Carries(sock, s, a, z)
      BY <2>1
    <2>3. Carries(Append(sock, f), s, got[s], captured[s] + Units(f, s))
      BY <1>1, <2>2, CarriesMore
    <2> QED
      BY <1>1, <2>3
  <1>3. AnswerLast(Queue)'
    <2>1. \A i \in 1 .. Len(sock) : sock[i].kind = "CHUNK"
      BY <1>1 DEF StreamInv, AnswerLast
    <2>2. Len(Append(sock, f)) = Len(sock) + 1 /\ Append(sock, f)[Len(sock) + 1] = f
          /\ Len(sock) \in Nat /\ \A i \in 1 .. Len(sock) : Append(sock, f)[i] = sock[i]
      BY <1>1
    <2> QED
      BY <1>1, <2>1, <2>2 DEF AnswerLast
  <1>4. client' # "returned"
    BY DEF StreamInv
  <1> QED
    BY <1>2, <1>3, <1>4

(* The supervisor forwards what it captures.                               *)
LEMMA SupervisorStream ==
  ASSUME "nospace" \notin Env, TypeOK, StreamInv, Supervisor \/ SpawnFails
  PROVE  StreamInv'
  <1> USE DEF procVars, loopVars, sockVars
  <1>1. CASE Fork \/ CheckDeadline \/ Poll \/ DrainedReady \/ Reap \/ Kill \/ Wait \/ DrainRound \/ Sweep
    <2>1. UNCHANGED <<sock, sending, got, captured, client>> /\ pc # "done"
      BY <1>1 DEF Fork, CheckDeadline, Poll, DrainedReady, Reap, TryReap, Kill, Wait, DrainRound,
                  Sweep, At
    <2> QED
      BY <2>1, SilentStream
  <1>2. ASSUME NEW s \in Stream, drain_once(s) PROVE StreamInv'
    <2> DEFINE n == ReadLength(s)
    <2>1. /\ UNCHANGED <<sock, got, client, pc>> /\ sending = <<>> /\ pc # "done"
          /\ captured' = [captured EXCEPT ![s] = @ + n]
          /\ sending' = IF n = 0 THEN <<>> ELSE <<[kind |-> "CHUNK", stream |-> s, n |-> n]>>
      BY <1>2 DEF drain_once, forward, May
    <2>2. n \in 0 .. ReadSize
      BY ReadLengthFits
    <2>3. captured \in [Stream -> Nat]
      BY DEF TypeOK
    <2> HIDE DEF n
    <2>4. CASE n = 0
      <3>1. captured' = captured
        BY <2>1, <2>3, <2>4
      <3> QED
        BY <2>1, <2>4, <3>1, SilentStream
    <2>5. CASE n # 0
      <3> DEFINE f == [kind |-> "CHUNK", stream |-> s, n |-> n]
      <3>1. n \in 1 .. ReadSize
        BY <2>2, <2>5, RunAssumption
      <3>2. f \in Frame
        BY <3>1, BuiltFrames
      <3>3. f.kind = "CHUNK" /\ Units(f, s) = n /\ \A t \in Stream : t # s => Units(f, t) = 0
        BY DEF Units
      <3>4. \A t \in Stream : captured'[t] = captured[t] + Units(f, t)
        BY <2>1, <2>3, <3>3
      <3>5. sending' = <<f>>
        BY <2>1, <2>5
      <3> HIDE DEF f
      <3>6. \E g \in Frame : /\ sending' = <<g>> /\ g.kind = "CHUNK"
                             /\ \A t \in Stream : captured'[t] = captured[t] + Units(g, t)
        BY <3>2, <3>3, <3>4, <3>5
      <3> QED
        BY <2>1, <3>6, SendingStream
    <2> QED
      BY <2>4, <2>5
  <1>3. CASE SendResult \/ SpawnFails
    <2>1. /\ UNCHANGED <<sock, got, client, captured>> /\ sending = <<>> /\ pc # "done" /\ pc' = "done"
          /\ sending' = <<ResultFrame>> \/ sending' = <<[kind |-> "ERR"]>>
      BY <1>3 DEF SendResult, SpawnFails, At
    <2>2. PICK f \in Frame : sending' = <<f>> /\ f.kind # "CHUNK"
      <3>1. ResultFrame \in Frame /\ [kind |-> "ERR"] \in Frame
        BY BuiltFrames
      <3>2. ResultFrame.kind = "OK" /\ [kind |-> "ERR"].kind = "ERR"
        BY DEF ResultFrame
      <3> QED
        BY <2>1, <3>1, <3>2
    <2>3. \A s \in Stream : captured'[s] = captured[s] + Units(f, s)
      BY <2>1, <2>2 DEF Units, TypeOK
    <2> QED
      BY <2>1, <2>2, <2>3, SendingStream
  <1>4. CASE Send
    <2>1. sock' = sock \o sending /\ sending' = <<>> /\ UNCHANGED <<got, captured, client, pc>>
      BY <1>4 DEF Send
    <2>2. Queue' = Queue
      <3>1. Queue \in Seq(Frame) /\ Queue' = Queue \o <<>>
        BY <2>1, QueueFacts DEF Queue
      <3> QED
        BY <3>1
    <2> QED
      BY <2>1, <2>2 DEF StreamInv, AnswerLast
  <1>5. CASE SendFails
    BY <1>5 DEF SendFails, StreamInv
  <1> QED
    BY <1>1, <1>2, <1>3, <1>4, <1>5 DEF Supervisor

(* The client hands on what it receives, and returns with the answer.      *)
LEMMA ClientStream ==
  ASSUME TypeOK, StreamInv, ClientRecv
  PROVE  StreamInv'
  <1> DEFINE f == Head(sock)
  <1>1. /\ client = "waiting" /\ sock # <<>> /\ sock' = Tail(sock)
        /\ UNCHANGED <<sending, captured, pc>>
        /\ IF f.kind = "CHUNK"
           THEN got' = [got EXCEPT ![f.stream] = @ + f.n] /\ client' = client
           ELSE client' = "returned" /\ got' = got
    BY DEF ClientRecv
  <1>2. /\ Queue \in Seq(Frame) /\ Queue # <<>> /\ Head(Queue) = f /\ Queue' = Tail(Queue)
        /\ f \in Frame
    <2>1. Queue \in Seq(Frame) /\ Queue # <<>> /\ Head(Queue) = f /\ Tail(Queue) = Tail(sock) \o sending
      BY <1>1, QueueFacts
    <2>2. Queue' = Tail(sock) \o sending
      BY <1>1 DEF Queue
    <2>3. f \in Frame
      BY <1>1, FramesStayFrames
    <2> QED
      BY <2>1, <2>2, <2>3
  <1> HIDE DEF f
  <1>3. ASSUME NEW s \in Stream
        PROVE  /\ got'[s] = got[s] + Units(f, s)
               /\ Carries(Queue', s, got'[s], captured'[s])
    <2>1. got[s] \in Nat /\ captured[s] \in Nat /\ Carries(Queue, s, got[s], captured[s])
      BY <1>1 DEF TypeOK, StreamInv
    <2>2. got'[s] = got[s] + Units(f, s)
      <3>0. got \in [Stream -> Nat]
        BY DEF TypeOK
      <3>1. CASE f.kind = "CHUNK"
        <4>1. f.stream \in Stream /\ f.n \in Nat
          BY <1>2, <3>1, ChunkFields
        <4>2. got' = [got EXCEPT ![f.stream] = @ + f.n]
          BY <1>1, <3>1
        <4> QED
          BY <2>1, <3>0, <3>1, <4>1, <4>2 DEF Units
      <3>2. CASE f.kind # "CHUNK"
        BY <1>1, <2>1, <3>2 DEF Units
      <3> QED
        BY <3>1, <3>2
    <2>3. \E a, z \in Nat : a = got[s] /\ z = captured[s] /\ Carries(Queue, s, a, z)
      BY <2>1
    <2>4. Carries(Tail(Queue), s, got[s] + Units(f, s), captured[s])
      BY <1>2, <2>3, CarriesLess
    <2> QED
      BY <1>1, <1>2, <2>2, <2>4
  <1>4. /\ Len(Queue) \in Nat \ {0} /\ Queue[1] = f /\ Len(Tail(Queue)) = Len(Queue) - 1
        /\ \A i \in 1 .. Len(Queue) - 1 : Tail(Queue)[i] = Queue[i + 1]
    BY <1>2
  <1>5. AnswerLast(Queue)'
    <2>1. AnswerLast(Queue)
      BY <1>1 DEF StreamInv
    <2>2. \A i \in 1 .. Len(Queue) - 1 : Queue[i + 1].kind # "CHUNK" => i = Len(Queue) - 1 /\ pc = "done"
      <3> SUFFICES ASSUME NEW i \in 1 .. Len(Queue) - 1, Queue[i + 1].kind # "CHUNK"
                   PROVE  i = Len(Queue) - 1 /\ pc = "done"
        OBVIOUS
      <3>1. i + 1 \in 1 .. Len(Queue) /\ i \in Int
        BY <1>4
      <3>2. i + 1 = Len(Queue) /\ pc = "done"
        BY <2>1, <3>1 DEF AnswerLast
      <3>3. Len(Queue) \in Int
        BY <1>4
      <3> DEFINE l == Len(Queue)
      <3>4. l \in Int /\ i + 1 = l
        BY <3>2, <3>3
      <3>5. i = l - 1
        <4> HIDE DEF l
        <4> QED
          BY <3>1, <3>4
      <3> QED
        BY <3>2, <3>5
    <2>3. Len(Queue') = Len(Queue) - 1 /\ \A i \in 1 .. Len(Queue) - 1 : Queue'[i] = Queue[i + 1]
      BY <1>2, <1>4
    <2>4. \A i \in 1 .. Len(Queue') : Queue'[i].kind # "CHUNK" => i = Len(Queue') /\ pc' = "done"
      BY <1>1, <2>2, <2>3
    <2> QED
      BY <2>4 DEF AnswerLast
  <1>6. client' = "returned" => Queue' = <<>> /\ pc' = "done"
    <2> SUFFICES ASSUME client' = "returned" PROVE Queue' = <<>> /\ pc' = "done"
      OBVIOUS
    <2>1. f.kind # "CHUNK"
      BY <1>1
    <2>2. 1 = Len(Queue) /\ pc = "done"
      <3>1. AnswerLast(Queue)
        BY <1>1 DEF StreamInv
      <3>2. 1 \in 1 .. Len(Queue) /\ Queue[1].kind # "CHUNK"
        BY <1>4, <2>1
      <3> QED
        BY <3>1, <3>2 DEF AnswerLast
    <2>3. Tail(Queue) \in Seq(Frame) /\ Len(Tail(Queue)) = 0
      BY <1>2, <1>4, <2>2
    <2> QED
      BY <1>1, <1>2, <2>2, <2>3
  <1> QED
    BY <1>3, <1>5, <1>6 DEF StreamInv

(* StreamInv is inductive.                                                 *)
LEMMA StreamStep ==
  ASSUME "nospace" \notin Env
  PROVE  TypeOK /\ StreamInv /\ [Next]_vars => StreamInv'
  <1> SUFFICES ASSUME TypeOK, StreamInv, [Next]_vars PROVE StreamInv'
    OBVIOUS
  <1>1. CASE Supervisor \/ SpawnFails
    BY <1>1, SupervisorStream
  <1>2. CASE Command \/ DeadlinePasses \/ UNCHANGED vars
    <2>1. UNCHANGED <<sock, sending, got, captured, client, pc>>
      BY <1>2 DEF Command, Setsid, ShellExit, Escape, HelperExit, ForkHelper, CloseStream, Write,
                  Die, DeadlinePasses, supVars, sockVars, vars
    <2> QED
      BY <2>1, SilentStream
  <1>3. CASE ClientRecv
    BY <1>3, ClientStream
  <1>4. CASE ClientDies
    BY <1>4 DEF ClientDies, StreamInv
  <1> QED
    BY <1>1, <1>2, <1>3, <1>4 DEF Next

(* When agentbox_exec_streaming returns, on_chunk has been given exactly   *)
(* what the capture files hold, and nothing is left in the socket: for     *)
(* every read, pipe and socket size, when the files can be written to.     *)
THEOREM StreamStaysCaptured ==
  ASSUME "nospace" \notin Env
  PROVE  Spec => []StreamedIsCaptured
  <1>1. Init => StreamInv
    <2> SUFFICES ASSUME Init PROVE StreamInv
      OBVIOUS
    <2>1. Queue = <<>>
      BY DEF Init, Queue
    <2>2. \A s \in Stream : Carries(<<>>, s, 0, 0)
      BY CarriesNothing
    <2> QED
      BY <2>1, <2>2 DEF Init, StreamInv, AnswerLast
  <1>2. TypeOK /\ StreamInv => StreamedIsCaptured
    <2> SUFFICES ASSUME TypeOK, StreamInv, client = "returned"
                 PROVE  got = captured /\ sock = <<>> /\ sending = <<>>
      BY DEF StreamedIsCaptured
    <2>1. Queue = <<>> /\ \A s \in Stream : Carries(Queue, s, got[s], captured[s])
      BY DEF StreamInv
    <2>2. sending = <<>>
      <3> SUFFICES ASSUME sending # <<>> PROVE FALSE
        OBVIOUS
      <3>1. PICK f \in Frame : sending = <<f>>
        BY DEF TypeOK
      <3>2. Queue = Append(sock, f) /\ sock \in Seq(Frame)
        BY <3>1, QueueFacts DEF TypeOK
      <3> QED
        BY <2>1, <3>2
    <2>3. sock = <<>>
      BY <2>1, <2>2, QueueFacts
    <2>4. \A s \in Stream : got[s] = captured[s]
      <3> SUFFICES ASSUME NEW s \in Stream PROVE got[s] = captured[s]
        OBVIOUS
      <3>1. got[s] \in Nat /\ Carries(<<>>, s, got[s], captured[s])
        BY <2>1 DEF TypeOK
      <3>2. \E a \in Nat : \E z : a = got[s] /\ z = captured[s] /\ Carries(<<>>, s, a, z)
        BY <3>1
      <3> QED
        BY <3>2, CarriesNothing
    <2>5. got = captured
      BY <2>4 DEF TypeOK
    <2> QED
      BY <2>2, <2>3, <2>5
  <1> QED
    BY <1>1, <1>2, RunTypeCorrect, StreamStep, PTL DEF Spec
=============================================================================
