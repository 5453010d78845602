--------------------------- MODULE SessionProofs ----------------------------
(* Theorems about the life of sandboxes, for every number of boxes, every  *)
(* machine and everything the environment may do.                          *)
EXTENDS Session, FiniteSetTheorems, WellFoundedInduction, TLAPS

(* Abbreviations of Session that the provers always see through. *)
USE DEF Scratch, MountErrors

----------------------------------------------------------------------------
(* Descriptors. *)

(* The ends of sockets are told apart.                                     *)
LEMMA EndFacts ==
  /\ \A b \in Box : ClientEnd(b) \in End /\ SupEnd(b) \in End /\ ClientEnd(b)[1] = b
  /\ \A b : ClientEnd(b) # NoEnd /\ SupEnd(b) # NoEnd
  /\ \A b, c : /\ ClientEnd(b) # SupEnd(c)
               /\ ClientEnd(b) = ClientEnd(c) => b = c
               /\ SupEnd(b) = SupEnd(c) => b = c
  BY DEF ClientEnd, SupEnd, End, NoEnd

(* There are two descriptors for each box.                                 *)
LEMMA FdFacts ==
  /\ Cardinality(Box) \in Nat /\ Fd \subseteq Nat \ {0}
  /\ IsFiniteSet(Fd) /\ Cardinality(Fd) = 2 * Cardinality(Box)
<1>1. Cardinality(Box) \in Nat
  BY SessionAssumption, FS_CardinalityType
<1>2. Fd \subseteq Nat \ {0}
  BY <1>1 DEF Fd
<1>3. IsFiniteSet(Fd) /\ Cardinality(Fd) = 2 * Cardinality(Box)
  <2> DEFINE n == 2 * Cardinality(Box)
  <2>1. n \in Int /\ 1 \in Int /\ n >= 0 /\ Fd = 1 .. n
    BY <1>1 DEF Fd
  <2> HIDE DEF n
  <2>2. IsFiniteSet(1 .. n) /\ Cardinality(1 .. n) = IF 1 > n THEN 0 ELSE n - 1 + 1
    BY <2>1, FS_Interval
  <2>3. Cardinality(1 .. n) = n
    BY <2>1, <2>2
  <2> QED
    BY <2>1, <2>2, <2>3 DEF n
<1> QED
  BY <1>1, <1>2, <1>3

(* A set of descriptors that is not empty has a lowest.                    *)
LEMMA LowestIn ==
  ASSUME NEW S \in SUBSET Nat, S # {}
  PROVE  Lowest(S) \in S
<1>1. PICK x \in S : \A y \in S : ~(<<y, x>> \in OpToRel(<, Nat))
  BY NatLessThanWellFounded, WFMin
<1>2. \A y \in S : x <= y
  <2> SUFFICES ASSUME NEW y \in S PROVE x <= y
    OBVIOUS
  <2>1. x \in Nat /\ y \in Nat
    OBVIOUS
  <2>2. ~(y < x)
    BY <1>1, <2>1 DEF OpToRel
  <2> QED
    BY <2>1, <2>2
<1> QED
  BY <1>2 DEF Lowest

(* The calls in which a box has its socket. *)
Connected == {"pair", "forked", "hello", "open", "call", "bye"}

(* Who has which end: every end is open at most once in the client, only   *)
(* a connected box has ends, ctrl_fd is its own, and its supervisor keeps  *)
(* the other.                                                              *)
Ends ==
  /\ \A n, m \in Fd : fds[n] = fds[m] /\ fds[n] # NoEnd => n = m
  /\ \A n \in Fd, b \in Box :
       /\ fds[n] = ClientEnd(b) => api[b] \in Connected
       /\ fds[n] = SupEnd(b) => api[b] \in {"pair", "forked"}
  /\ \A b \in Box : api[b] \in Connected => ctrl[b] \in Fd /\ fds[ctrl[b]] = ClientEnd(b)
  /\ \A b \in Box : api[b] = "pair" => \E n \in Fd : fds[n] = SupEnd(b)
  /\ \A b \in Box : sup[b] # "none" => SupEnd(b) \in holds[b]

(* A box without a socket finds two free descriptors: the others have two  *)
(* each at most.                                                           *)
LEMMA TwoAreFree ==
  ASSUME TypeOK, Ends, NEW b \in Box, api[b] \notin Connected
  PROVE  /\ Lowest(FreeFds) \in FreeFds
         /\ Lowest(FreeFds \ {Lowest(FreeFds)}) \in FreeFds \ {Lowest(FreeFds)}
<1> DEFINE Used == Fd \ FreeFds
           Theirs == (End \ {ClientEnd(b)}) \ {SupEnd(b)}
           f == [n \in Used |-> fds[n]]
           N == Cardinality(Box)
<1>1. N \in Nat /\ N > 0
  <2>1. Box # {}
    OBVIOUS
  <2> QED
    BY <2>1, SessionAssumption, FdFacts, FS_EmptySet
<1>2. IsFiniteSet(End) /\ Cardinality(End) = 2 * N
  <2>1. IsFiniteSet({"client", "supervisor"}) /\ Cardinality({"client", "supervisor"}) = 2
    <3>1. IsFiniteSet({"client"}) /\ Cardinality({"client"}) = 1
      BY FS_Singleton, Zenon
    <3>2. {"client", "supervisor"} = {"client"} \cup {"supervisor"} /\ "supervisor" \notin {"client"}
      OBVIOUS
    <3>3. /\ IsFiniteSet({"client"} \cup {"supervisor"})
          /\ Cardinality({"client"} \cup {"supervisor"}) = Cardinality({"client"}) + 1
      BY <3>1, <3>2, FS_AddElement
    <3> QED
      BY <3>1, <3>2, <3>3
  <2>2. Cardinality(End) = N * 2 /\ IsFiniteSet(End)
    BY <2>1, SessionAssumption, FS_Product DEF End
  <2> QED
    BY <1>1, <2>2
<1>3. IsFiniteSet(Theirs) /\ Cardinality(Theirs) = 2 * N - 2
  <2>1. /\ IsFiniteSet(End \ {ClientEnd(b)})
        /\ Cardinality(End \ {ClientEnd(b)}) = 2 * N - 1
    BY <1>2, EndFacts, FS_RemoveElement
  <2>2. SupEnd(b) \in End \ {ClientEnd(b)}
    BY EndFacts
  <2>3. /\ IsFiniteSet(Theirs)
        /\ Cardinality(Theirs) = Cardinality(End \ {ClientEnd(b)}) - 1
    BY <2>1, <2>2, FS_RemoveElement
  <2> QED
    BY <1>1, <2>1, <2>3
<1>4. f \in Injection(Used, Theirs)
  <2>1. ASSUME NEW n \in Used PROVE fds[n] \in Theirs
    <3>1. fds[n] \in End
      BY DEF FreeFds, TypeOK
    <3>2. fds[n] # ClientEnd(b) /\ fds[n] # SupEnd(b)
      BY DEF Ends, Connected
    <3> QED
      BY <3>1, <3>2
  <2>2. \A n, m \in Used : fds[n] = fds[m] => n = m
    BY DEF FreeFds, Ends
  <2> QED
    BY <2>1, <2>2 DEF Injection, IsInjective
<1>5. IsFiniteSet(Used) /\ Cardinality(Used) <= 2 * N - 2 /\ Cardinality(Used) \in Nat
  <2>1. IsFiniteSet(Used) /\ Cardinality(Used) <= Cardinality(Theirs)
    BY <1>3, <1>4, FS_Injection
  <2> QED
    BY <1>3, <2>1, FS_CardinalityType
<1>6. IsFiniteSet(FreeFds) /\ Cardinality(FreeFds) >= 2
  <2>1. FreeFds = Fd \ Used /\ Fd \cap Used = Used
    BY DEF FreeFds
  <2>2. IsFiniteSet(Fd \ Used) /\ Cardinality(Fd \ Used) = Cardinality(Fd) - Cardinality(Fd \cap Used)
    BY FdFacts, FS_Difference
  <2>3. IsFiniteSet(FreeFds) /\ Cardinality(FreeFds) = 2 * N - Cardinality(Used)
    BY <2>1, <2>2, FdFacts
  <2> DEFINE k == Cardinality(Used)
  <2>4. k \in Nat /\ k <= 2 * N - 2 /\ Cardinality(FreeFds) = 2 * N - k
    BY <1>5, <2>3
  <2> HIDE DEF k, N
  <2> QED
    BY <1>1, <2>3, <2>4
<1>7. FreeFds \subseteq Nat
  BY FdFacts DEF FreeFds
<1>8. FreeFds # {}
  BY <1>6, FS_EmptySet
<1>9. FreeFds \ {Lowest(FreeFds)} # {}
  <2>1. /\ IsFiniteSet(FreeFds \ {Lowest(FreeFds)})
        /\ Cardinality(FreeFds \ {Lowest(FreeFds)}) = Cardinality(FreeFds) - 1
    BY <1>6, <1>7, <1>8, LowestIn, FS_RemoveElement
  <2>2. Cardinality(FreeFds) \in Nat
    BY <1>6, FS_CardinalityType
  <2> QED
    BY <1>6, <2>1, <2>2, FS_EmptySet
<1> QED
  BY <1>7, <1>8, <1>9, LowestIn

----------------------------------------------------------------------------
(* One step of one box, by its client or its supervisor. *)

BoxStep(b) ==
  \/ Probe(b) \/ Call(b) \/ Destroy(b) \/ ClientStep(b)
  \/ RunOutput(b) \/ SupStep(b) \/ Killed(b)

Rets == {"none", "NAMESPACE_UNAVAILABLE", "MOUNT_FAILED", "INVALID_ARGUMENT",
         "GENERIC", "IO", "SUPERVISOR_DOWN"} \cup ProbeCodes
Asked == [box : Box, verb : Verbs \cup {"BIGRUN", "SHUTDOWN"}]

(* The types, and that there is a socket for each box. *)
Types ==
  /\ TypeOK
  /\ ans \in [Box -> Seq(Frames)]
  /\ req \in [Box -> Seq(Asked)]

(* A box that asks is connected, so that the request goes to its own       *)
(* supervisor.                                                             *)
LEMMA SendsToOwn ==
  ASSUME Types, Ends, NEW b \in Box, api[b] = "open", NEW v, Send(b, v)
  PROVE  /\ verb' = [verb EXCEPT ![b] = v]
         /\ \/ req' = [req EXCEPT ![b] = Append(@, ReqFrame(b, v))]
            \/ req' = req
         /\ Held(SupEnd(b)) => req' = [req EXCEPT ![b] = Append(@, ReqFrame(b, v))]
<1>1. fds[ctrl[b]] = ClientEnd(b)
  BY DEF Ends, Connected
<1>2. fds[ctrl[b]] # NoEnd /\ fds[ctrl[b]][1] = b
  BY <1>1, EndFacts
<1> QED
  BY <1>2 DEF Send

(* What a supervisor writes is read by its own client or by nobody.        *)
LEMMA WritesToOwn ==
  ASSUME NEW b \in Box, NEW f, Write(b, f)
  PROVE  ans' = [ans EXCEPT ![b] = Append(@, f)] \/ ans' = ans
  BY DEF Write

(* Appending a frame keeps a queue of frames.                              *)
LEMMA QueueFacts ==
  ASSUME NEW T, NEW s \in Seq(T)
  PROVE  /\ \A f \in T : Append(s, f) \in Seq(T)
         /\ s # <<>> => Head(s) \in T /\ Tail(s) \in Seq(T)
  OBVIOUS

(* Frames and requests are told apart by their fields.                     *)
LEMMA FrameFacts ==
  /\ \A v, rc : Frame(v, rc).verb = v /\ Frame(v, rc).rc = rc
  /\ \A v \in Verbs \cup {"none", "CREATE", "SHUTDOWN"} :
       \A rc \in {"none", "OK", "CHUNK", "HUGE", "NAMESPACE_UNAVAILABLE",
                  "MOUNT_FAILED", "INVALID_ARGUMENT", "GENERIC"} : Frame(v, rc) \in Frames
  /\ NoFrame \in Frames
  /\ \A f \in Frames : f.rc \in {"none", "OK", "CHUNK", "HUGE", "NAMESPACE_UNAVAILABLE",
                                 "MOUNT_FAILED", "INVALID_ARGUMENT", "GENERIC"}
  /\ \A b, v : ReqFrame(b, v).box = b /\ ReqFrame(b, v).verb = v
  /\ \A b \in Box : \A v \in Verbs \cup {"BIGRUN", "SHUTDOWN"} : ReqFrame(b, v) \in Asked
  BY DEF Frame, Frames, NoFrame, ReqFrame, Asked

(* A step of one box leaves the position, the answers, the socket and the  *)
(* processes of the others alone.                                          *)
LEMMA OthersKeep ==
  ASSUME Types, Ends, NEW b \in Box, BoxStep(b), NEW o \in Box, o # b
  PROVE  /\ api'[o] = api[o] /\ ret'[o] = ret[o] /\ verb'[o] = verb[o]
         /\ ctrl'[o] = ctrl[o] /\ dir'[o] = dir[o] /\ sup'[o] = sup[o]
         /\ anchor'[o] = anchor[o] /\ holds'[o] = holds[o] /\ out'[o] = out[o]
         /\ ans'[o] = ans[o] /\ req'[o] = req[o]
<1> DEFINE Goal == /\ api'[o] = api[o] /\ ret'[o] = ret[o] /\ verb'[o] = verb[o]
                   /\ ctrl'[o] = ctrl[o] /\ dir'[o] = dir[o] /\ sup'[o] = sup[o]
                   /\ anchor'[o] = anchor[o] /\ holds'[o] = holds[o] /\ out'[o] = out[o]
                   /\ ans'[o] = ans[o] /\ req'[o] = req[o]
<1> SUFFICES Goal
  OBVIOUS
<1>0. /\ DOMAIN api = Box /\ DOMAIN ret = Box /\ DOMAIN verb = Box /\ DOMAIN ctrl = Box
      /\ DOMAIN dir = Box /\ DOMAIN sup = Box /\ DOMAIN anchor = Box /\ DOMAIN holds = Box
      /\ DOMAIN out = Box /\ DOMAIN ans = Box /\ DOMAIN req = Box
  BY DEF Types, TypeOK
<1> USE <1>0 DEF Goto, svars, cvars, mvars
<1>1. ASSUME Probe(b) \/ MakeDir(b) \/ CreateRefuses(b) \/ StatFails(b)
             \/ CreateFails(b) \/ SocketPair(b) PROVE Goal
  BY <1>1 DEF Probe, MakeDir, CreateRefuses, StatFails, CreateFails, SocketPair
<1>2. ASSUME Fork(b) \/ ForkFails(b) \/ CloseSupEnd(b) \/ Hello(b) \/ Unwind(b) PROVE Goal
  BY <1>2 DEF Fork, ForkFails, CloseSupEnd, Hello, Unwind
<1>3. ASSUME Call(b) PROVE Goal
  <2>1. PICK v : Send(b, v)
    BY <1>3 DEF Call
  <2>2. /\ verb' = [verb EXCEPT ![b] = v]
        /\ req' = [req EXCEPT ![b] = Append(@, ReqFrame(b, v))] \/ req' = req
    BY <1>3, <2>1, SendsToOwn DEF Call
  <2> QED
    BY <1>3, <2>2 DEF Call
<1>4. ASSUME Destroy(b) PROVE Goal
  <2>1. /\ verb' = [verb EXCEPT ![b] = "SHUTDOWN"]
        /\ req' = [req EXCEPT ![b] = Append(@, ReqFrame(b, "SHUTDOWN"))] \/ req' = req
    BY <1>4, SendsToOwn DEF Destroy, CanDestroy
  <2> QED
    BY <1>4, <2>1 DEF Destroy
<1>5. ASSUME Chunk(b) \/ Return(b) \/ Farewell(b) \/ Closed(b) PROVE Goal
  BY <1>5 DEF Chunk, Return, Farewell, Closed
<1>6. ASSUME RunOutput(b) \/ ExecFails(b) \/ RunEnds(b) \/ WriteFails(b) PROVE Goal
  BY <1>6, WritesToOwn DEF RunOutput, ExecFails, RunEnds, WriteFails, At
<1>7. ASSUME Enter(b) PROVE Goal
  BY <1>7, WritesToOwn DEF Enter, At
<1>8. ASSUME FirstMount(b) \/ FirstMountFails(b) PROVE Goal
  <2>1. PICK f : Write(b, f)
    BY <1>8 DEF FirstMount, FirstMountFails
  <2>2. ans' = [ans EXCEPT ![b] = Append(@, f)] \/ ans' = ans
    BY <2>1, WritesToOwn
  <2> QED
    BY <1>8, <2>2 DEF FirstMount, FirstMountFails, At
<1>9. ASSUME Serve(b) PROVE Goal
  BY <1>9 DEF Serve
<1>10. ASSUME Respond(b) PROVE Goal
  BY <1>10, WritesToOwn DEF Respond, At
<1>11. ASSUME ClientGone(b) \/ Leave(b) \/ Killed(b) PROVE Goal
  BY <1>11 DEF ClientGone, Leave, Killed, At
<1> HIDE DEF Goal
<1> QED
  BY <1>1, <1>2, <1>3, <1>4, <1>5, <1>6, <1>7, <1>8, <1>9, <1>10, <1>11
     DEF BoxStep, ClientStep, SupStep

----------------------------------------------------------------------------
(* How a box starts: until its supervisor has greeted there is nothing in  *)
(* the socket, and the greeting is the first and only frame.               *)

Greeting(rc) == <<Frame("CREATE", rc)>>
Refusals == {"NAMESPACE_UNAVAILABLE", "MOUNT_FAILED", "INVALID_ARGUMENT", "GENERIC"}
Unborn == {"new", "probed", "refused", "dir", "pair"}
Unasked == Unborn \cup {"forked", "hello", "unwind", "failed"}

(* A call at a, a supervisor at s, answers w and requests r in the socket, *)
(* and an anchor if k.                                                     *)
StartOK(a, s, w, r, k) ==
  /\ a \in Unborn => s = "none" /\ w = <<>>
  /\ a \in {"forked", "hello"} =>
       \/ s \in {"start", "anchored", "exited", "killed"} /\ w = <<>>
       \/ s \in {"serve", "killed"} /\ w = Greeting("OK")
       \/ s = "exited" /\ \E rc \in Refusals : w = Greeting(rc)
  /\ a = "unwind" => s \in {"exited", "killed"}
  /\ a \in {"failed", "closed"} => s \in Gone
  /\ a \in Unasked => r = <<>>
  /\ s \in {"none", "start", "exited"} => ~k

Starts == \A b \in Box : StartOK(api[b], sup[b], ans[b], req[b], anchor[b])

(* The greeting tells whether the box is ready.                            *)
LEMMA GreetingFacts ==
  /\ \A rc : Greeting(rc) # <<>> /\ Head(Greeting(rc)).rc = rc /\ Tail(Greeting(rc)) = <<>>
  /\ \A rc : Append(<<>>, Frame("CREATE", rc)) = Greeting(rc)
  BY DEF Greeting, Frame

(* What the system calls of the supervisor's entry answer.                 *)
LEMMA EnterCodes ==
  \A m, p : agentbox_ns_enter(m, p) \in {"OK", "NAMESPACE_UNAVAILABLE", "MOUNT_FAILED"}
  BY DEF agentbox_ns_enter

(* What the probe and the installer answer.                                *)
LEMMA ProbeAndSetupCodes ==
  /\ \A m, p, c : agentbox_ns_probe(m, p, c) \subseteq ProbeCodes
  /\ \A m, r, f, p : agentbox_ns_install_apparmor_profile(m, r, f, p)
                       \in {"OK", "PERMISSION_DENIED", "IO", "GENERIC"}
  BY DEF agentbox_ns_probe, probe_child_body, ProbeCodes, agentbox_ns_install_apparmor_profile

(* A step of the client keeps the types.                                   *)
LEMMA ClientTypes ==
  ASSUME Types, Ends, Starts, NEW b \in Box,
         Probe(b) \/ Call(b) \/ Destroy(b) \/ ClientStep(b)
  PROVE  Types'
<1> SUFFICES Types'
  OBVIOUS
<1> USE DEF Types, TypeOK, Goto, svars, cvars, mvars
<1>1. ASSUME Probe(b) PROVE Types'
  <2>1. PICK m \in Now : \E rc \in agentbox_ns_probe(m, profile, May("sigchld")) :
          Goto(b, IF rc = "OK" THEN "probed" ELSE "refused", rc)
    BY <1>1 DEF Probe
  <2>3. PICK rc \in agentbox_ns_probe(m, profile, May("sigchld")) :
          Goto(b, IF rc = "OK" THEN "probed" ELSE "refused", rc)
    BY <2>1
  <2>2. rc \in ProbeCodes
    BY <2>3, ProbeAndSetupCodes
  <2> QED
    BY <1>1, <2>2, <2>3 DEF Probe, Resting, InCall
<1>2. ASSUME MakeDir(b) PROVE Types'
  <2>1. PICK d \in RuntimeDirs(b) :
          /\ dir' = [dir EXCEPT ![b] = d]
          /\ disk' = IF disk[d] = NoDir THEN [disk EXCEPT ![d] = {}] ELSE disk
    BY <1>2 DEF MakeDir
  <2>2. d \in Dir
    BY DEF RuntimeDirs, Dir
  <2>3. fresh' \in [Box -> BOOLEAN]
    BY <1>2 DEF MakeDir
  <2>4. disk' \in [Dir -> (SUBSET Box) \cup {NoDir}]
    BY <2>1, <2>2
  <2>5. dir' \in [Box -> Dir]
    BY <2>1, <2>2
  <2> QED
    BY <1>2, <2>3, <2>4, <2>5 DEF MakeDir, Resting, InCall
<1>3. disk' = Rmdir(dir[b]) => disk' \in [Dir -> (SUBSET Box) \cup {NoDir}]
  BY DEF Rmdir
<1>4. ASSUME CreateRefuses(b) \/ StatFails(b) \/ CreateFails(b) PROVE Types'
  BY <1>3, <1>4 DEF CreateRefuses, StatFails, CreateFails, Resting
<1>5. ASSUME SocketPair(b) PROVE Types'
  <2> DEFINE c == Lowest(FreeFds)
             s == Lowest(FreeFds \ {c})
  <2>1. c \in Fd /\ s \in Fd
    BY <1>5, TwoAreFree DEF SocketPair, Connected, FreeFds
  <2>2. fds' = [fds EXCEPT ![c] = ClientEnd(b), ![s] = SupEnd(b)] /\ ctrl' = [ctrl EXCEPT ![b] = c]
    BY <1>5 DEF SocketPair
  <2> HIDE DEF c, s
  <2>3. fds' \in [Fd -> End \cup {NoEnd}] /\ ctrl' \in [Box -> Fd \cup {0}]
    BY <2>1, <2>2, EndFacts
  <2> QED
    BY <1>5, <2>3 DEF SocketPair, InCall
<1>6. \A E : CloseEnds(E) => fds' \in [Fd -> End \cup {NoEnd}]
  BY DEF CloseEnds
<1>0. /\ ans[b] # <<>> /\ ans' = [ans EXCEPT ![b] = Tail(@)] => ans' \in [Box -> Seq(Frames)]
      /\ UNCHANGED ans => ans' \in [Box -> Seq(Frames)]
  <2>1. ans \in [Box -> Seq(Frames)] /\ ans[b] \in Seq(Frames)
    OBVIOUS
  <2> HIDE DEF Types, TypeOK
  <2>2. ans[b] # <<>> => Tail(ans[b]) \in Seq(Frames)
    BY <2>1, QueueFacts
  <2> QED
    BY <2>1, <2>2
<1>7. ASSUME Fork(b) PROVE Types'
  <2>1. Inherited(b) \in SUBSET End
    BY DEF Inherited
  <2> QED
    BY <1>7, <2>1 DEF Fork, InCall
<1>8. ASSUME ForkFails(b) PROVE Types'
  BY <1>3, <1>6, <1>8 DEF ForkFails, Resting
<1>9. ASSUME CloseSupEnd(b) PROVE Types'
  BY <1>6, <1>9 DEF CloseSupEnd, InCall
<1>10. ASSUME Hello(b) PROVE Types'
  <2>1. ans' \in [Box -> Seq(Frames)]
    BY <1>0, <1>10 DEF Hello, RecvFrame
  <2>2. fds' \in [Fd -> End \cup {NoEnd}]
    BY <1>6, <1>10 DEF Hello
  <2>3. ASSUME RecvFrame(b) PROVE Head(ans[b]).rc \in Refusals \cup {"OK"}
    <3>1. \E rc \in Refusals \cup {"OK"} : ans[b] = Greeting(rc)
      BY <1>10, <2>3 DEF Hello, RecvFrame, Starts, StartOK
    <3> QED
      BY <3>1, GreetingFacts
  <2>4. ret' \in [Box -> Rets] /\ api' \in [Box -> Resting \cup InCall]
    <3>1. \E pos \in {"open", "unwind"}, rc \in Refusals \cup {"OK", "SUPERVISOR_DOWN"} :
            api' = [api EXCEPT ![b] = pos] /\ ret' = [ret EXCEPT ![b] = rc]
      BY <1>10, <2>3 DEF Hello
    <3>2. {"open", "unwind"} \subseteq Resting \cup InCall
      BY DEF Resting, InCall
    <3>3. Refusals \cup {"OK", "SUPERVISOR_DOWN"} \subseteq Rets /\ ret \in [Box -> Rets]
      BY DEF Refusals, Rets, ProbeCodes
    <3> QED
      BY <3>1, <3>2, <3>3
  <2> QED
    BY <1>10, <2>1, <2>2, <2>4 DEF Hello, Rets
<1>11. ASSUME Unwind(b) PROVE Types'
  BY <1>3, <1>11 DEF Unwind, Resting
<1>12. ASSUME NEW v \in Verbs \cup {"BIGRUN", "SHUTDOWN"}, Send(b, v), api[b] = "open"
       PROVE  /\ verb' \in [Box -> Verbs \cup {"none", "BIGRUN", "SHUTDOWN"}]
              /\ req' \in [Box -> Seq(Asked)]
  <2>1. /\ verb' = [verb EXCEPT ![b] = v]
        /\ req' = [req EXCEPT ![b] = Append(@, ReqFrame(b, v))] \/ req' = req
    BY <1>12, SendsToOwn
  <2>2. Append(req[b], ReqFrame(b, v)) \in Seq(Asked)
    BY QueueFacts, FrameFacts
  <2>3. verb \in [Box -> Verbs \cup {"none", "BIGRUN", "SHUTDOWN"}] /\ req \in [Box -> Seq(Asked)]
    BY DEF Types, TypeOK
  <2>4. req' \in [Box -> Seq(Asked)]
    BY <2>1, <2>2, <2>3
  <2> QED
    BY <2>1, <2>3, <2>4
<1>13. ASSUME Call(b) PROVE Types'
  <2>1. PICK v \in Verbs \cup {"BIGRUN", "SHUTDOWN"} : Send(b, v)
    BY <1>13, SessionAssumption DEF Call
  <2>2. /\ verb' \in [Box -> Verbs \cup {"none", "BIGRUN", "SHUTDOWN"}]
        /\ req' \in [Box -> Seq(Asked)]
    BY <1>12, <1>13, <2>1 DEF Call
  <2> QED
    BY <1>13, <2>2 DEF Call, InCall, Asked
<1>14. ASSUME Destroy(b) PROVE Types'
  <2>1. /\ verb' \in [Box -> Verbs \cup {"none", "BIGRUN", "SHUTDOWN"}]
        /\ req' \in [Box -> Seq(Asked)]
    BY <1>12, <1>14 DEF Destroy, CanDestroy
  <2> QED
    BY <1>14, <2>1 DEF Destroy, InCall, Asked
<1>15. ASSUME Chunk(b) PROVE Types'
  <2>1. ans' \in [Box -> Seq(Frames)]
    BY <1>0, <1>15 DEF Chunk, RecvFrame
  <2> QED
    BY <1>15, <2>1 DEF Chunk
<1>16. ASSUME Return(b) PROVE Types'
  <2>1. ans' \in [Box -> Seq(Frames)]
    BY <1>0, <1>16 DEF Return, LastFrame, RecvFrame
  <2> QED
    BY <1>16, <2>1 DEF Return, Resting, ProbeCodes
<1>17. ASSUME Farewell(b) PROVE Types'
  <2>1. ans' \in [Box -> Seq(Frames)]
    BY <1>17 DEF Farewell
  <2> QED
    BY <1>6, <1>17, <2>1 DEF Farewell, InCall
<1>18. ASSUME Closed(b) PROVE Types'
  BY <1>3, <1>18 DEF Closed, Resting, ProbeCodes
<1> QED
  BY <1>1, <1>2, <1>4, <1>5, <1>7, <1>8, <1>9, <1>10, <1>11, <1>13, <1>14, <1>15,
     <1>16, <1>17, <1>18 DEF ClientStep

(* A step of the supervisor keeps the types.                               *)
LEMMA SupervisorTypes ==
  ASSUME Types, NEW b \in Box, RunOutput(b) \/ SupStep(b) \/ Killed(b)
  PROVE  Types'
<1> SUFFICES Types'
  OBVIOUS
<1>0. ASSUME NEW f \in Frames, Write(b, f) PROVE ans' \in [Box -> Seq(Frames)]
  <2>1. ans \in [Box -> Seq(Frames)]
    BY DEF Types
  <2>2. Append(ans[b], f) \in Seq(Frames)
    BY <2>1, QueueFacts
  <2> QED
    BY <1>0, <2>1, <2>2, WritesToOwn
<1> USE DEF Types, TypeOK, svars, cvars, mvars
<1>1. ASSUME ExecFails(b) \/ RunEnds(b) \/ WriteFails(b) \/ ClientGone(b) PROVE Types'
  BY <1>1 DEF ExecFails, RunEnds, WriteFails, ClientGone, At, Gone
<1>2. ASSUME Leave(b) PROVE Types'
  BY <1>2 DEF Leave, At, Gone
<1>3. ASSUME Killed(b) PROVE Types'
  BY <1>3, FrameFacts DEF Killed, Gone
<1>4. ASSUME Enter(b) PROVE Types'
  <2>1. ans' \in [Box -> Seq(Frames)]
    <3>1. UNCHANGED ans \/ \E rc \in Refusals : Write(b, Frame("CREATE", rc))
      BY <1>4, EnterCodes DEF Enter, Refusals
    <3>2. \A rc \in Refusals : Frame("CREATE", rc) \in Frames
      BY FrameFacts DEF Refusals
    <3>3. UNCHANGED ans => ans' \in [Box -> Seq(Frames)]
      OBVIOUS
    <3>4. (\E rc \in Refusals : Write(b, Frame("CREATE", rc))) => ans' \in [Box -> Seq(Frames)]
      BY <1>0, <3>2
    <3> QED
      BY <3>1, <3>3, <3>4
  <2>2. sup' \in [Box -> Gone \cup {"start", "anchored", "serve", "run", "answer",
                                  "stuck", "leave"}]
    BY <1>4 DEF Enter, At, Gone
  <2>3. anchor' \in [Box -> BOOLEAN]
    BY <1>4 DEF Enter
  <2> QED
    BY <1>4, <2>1, <2>2, <2>3 DEF Enter
<1>5. ASSUME FirstMount(b) \/ FirstMountFails(b) PROVE Types'
  <2>1. ans' \in [Box -> Seq(Frames)]
    <3>1. \E rc \in {"OK"} \cup Refusals : Write(b, Frame("CREATE", rc))
      BY <1>5 DEF FirstMount, FirstMountFails, Refusals
    <3>2. \A rc \in {"OK"} \cup Refusals : Frame("CREATE", rc) \in Frames
      BY FrameFacts DEF Refusals
    <3> QED
      BY <1>0, <3>1, <3>2
  <2>2. sup' \in [Box -> Gone \cup {"start", "anchored", "serve", "run", "answer",
                                  "stuck", "leave"}]
    BY <1>5 DEF FirstMount, FirstMountFails, At, Gone
  <2>3. anchor' \in [Box -> BOOLEAN]
    BY <1>5 DEF FirstMount, FirstMountFails
  <2>4. disk' \in [Dir -> (SUBSET Box) \cup {NoDir}]
    <3>1. dir[b] \in Dir
      OBVIOUS
    <3>2. disk' = disk \/ (disk[dir[b]] # NoDir /\ disk' = [disk EXCEPT ![dir[b]] = @ \cup {b}])
      BY <1>5 DEF FirstMount, FirstMountFails
    <3>3. disk[dir[b]] # NoDir => disk[dir[b]] \cup {b} \in SUBSET Box
      <4>1. disk[dir[b]] \in (SUBSET Box) \cup {NoDir}
        BY <3>1
      <4> QED
        BY <4>1, Zenon
    <3> QED
      BY <3>1, <3>2, <3>3
  <2> QED
    BY <1>5, <2>1, <2>2, <2>3, <2>4 DEF FirstMount, FirstMountFails
<1>6. ASSUME Serve(b) PROVE Types'
  <2>1. Head(req[b]) \in Asked /\ Tail(req[b]) \in Seq(Asked)
    <3>1. req[b] \in Seq(Asked) /\ req[b] # <<>>
      BY <1>6 DEF Serve
    <3> QED
      BY <3>1, QueueFacts
  <2>2. req' \in [Box -> Seq(Asked)]
    BY <1>6, <2>1 DEF Serve
  <2>3. out' \in [Box -> Frames]
    <3>1. Head(req[b]).verb \in Verbs \cup {"SHUTDOWN"}
      BY <1>6, <2>1 DEF Serve, TooLong, Asked
    <3>2. \E rc \in {"OK", "HUGE"} : out' = [out EXCEPT ![b] = Frame(Head(req[b]).verb, rc)]
      BY <1>6 DEF Serve
    <3>3. \A rc \in {"OK", "HUGE"} : Frame(Head(req[b]).verb, rc) \in Frames
      BY <3>1, FrameFacts
    <3> QED
      BY <3>2, <3>3
  <2>4. disk' \in [Dir -> (SUBSET Box) \cup {NoDir}]
    <3>1. ASSUME NEW d \in Dir, disk[d] # NoDir, NEW kept \in SUBSET disk[d]
          PROVE  [disk EXCEPT ![d] = kept] \in [Dir -> (SUBSET Box) \cup {NoDir}]
      <4>1. disk[d] \in SUBSET Box
        BY <3>1, Zenon
      <4>2. kept \in SUBSET Box
        BY <4>1
      <4> QED
        BY <4>2
    <3>2. dir[b] \in Dir
      OBVIOUS
    <3>3. UNCHANGED disk \/ disk' \in Purged(b)
      BY <1>6 DEF Serve
    <3>4. CASE UNCHANGED disk
      BY <3>4
    <3>5. CASE disk[dir[b]] # NoDir /\ disk' \in Purged(b) /\ ~UNCHANGED disk
      <4>1. PICK kept \in IF May("fault") THEN SUBSET disk[dir[b]] ELSE {{}} :
              disk' = [disk EXCEPT ![dir[b]] = kept]
        BY <3>5 DEF Purged
      <4>2. kept \in SUBSET disk[dir[b]]
        BY <4>1
      <4> QED
        BY <3>1, <3>2, <3>5, <4>1, <4>2
    <3>6. disk[dir[b]] = NoDir => UNCHANGED disk
      BY <3>3 DEF Purged
    <3> QED
      BY <3>3, <3>4, <3>5, <3>6
  <2>5. sup' \in [Box -> Gone \cup {"start", "anchored", "serve", "run", "answer",
                                  "stuck", "leave"}]
    BY <1>6 DEF Serve
  <2> QED
    BY <1>6, <2>2, <2>3, <2>4, <2>5 DEF Serve, Asked
<1>7. ASSUME RunOutput(b) PROVE Types'
  <2>1. Frame("RUN", "CHUNK") \in Frames
    BY FrameFacts DEF Verbs
  <2>2. ans' \in [Box -> Seq(Frames)]
    BY <1>0, <1>7, <2>1 DEF RunOutput
  <2> QED
    BY <1>7, <2>2 DEF RunOutput
<1>8. ASSUME Respond(b) PROVE Types'
  <2>1. out[b] \in Frames
    OBVIOUS
  <2>2. Write(b, out[b])
    BY <1>8 DEF Respond
  <2>3. ans' \in [Box -> Seq(Frames)]
    <3>1. PICK f \in Frames : Write(b, f)
      BY <2>1, <2>2
    <3> QED
      BY <1>0, <3>1
  <2> QED
    BY <1>8, <2>3, FrameFacts DEF Respond, At
<1> QED
  BY <1>1, <1>2, <1>3, <1>4, <1>5, <1>6, <1>7, <1>8 DEF SupStep

(* Each box keeps its own ends.                                            *)
LEMMA EndsStep ==
  ASSUME Types, Ends, NEW b \in Box, BoxStep(b)
  PROVE  Ends'
<1> SUFFICES Ends'
  OBVIOUS
<1>0. /\ DOMAIN api = Box /\ DOMAIN ctrl = Box /\ DOMAIN sup = Box /\ DOMAIN holds = Box
      /\ fds \in [Fd -> End \cup {NoEnd}]
  BY DEF Types, TypeOK
<1> USE <1>0, EndFacts DEF Goto, svars, cvars, mvars
<1>1. ASSUME UNCHANGED <<fds, api, ctrl, holds>>, \A o \in Box : sup'[o] # "none" => sup[o] # "none"
      PROVE  Ends'
  BY <1>1 DEF Ends
<1>2. ASSUME RunOutput(b) \/ SupStep(b) \/ Killed(b) PROVE Ends'
  <2>1. UNCHANGED <<fds, api, ctrl, holds>>
    BY <1>2 DEF RunOutput, Killed, SupStep, ExecFails, Enter, FirstMount, FirstMountFails,
                Serve, RunEnds,
                Respond, WriteFails, ClientGone, Leave
  <2>2. \A o \in Box : sup'[o] # "none" => sup[o] # "none"
    BY <1>2 DEF RunOutput, Killed, SupStep, ExecFails, Enter, FirstMount, FirstMountFails,
                Serve, RunEnds,
                Respond, WriteFails, ClientGone, Leave, At, SupAlive, Gone
  <2> QED
    BY <1>1, <2>1, <2>2
<1>3. ASSUME UNCHANGED <<fds, ctrl, sup, holds>>,
             NEW p, api' = [api EXCEPT ![b] = p], p # "pair",
             api[b] \notin {"pair", "forked"}, api[b] \in Connected <=> p \in Connected
      PROVE  Ends'
  BY <1>3 DEF Ends
<1>4. ASSUME Probe(b) \/ MakeDir(b) \/ CreateRefuses(b) \/ StatFails(b)
             \/ CreateFails(b) \/ Unwind(b) \/ Closed(b) PROVE Ends'
  BY <1>3, <1>4 DEF Probe, MakeDir, CreateRefuses, StatFails, CreateFails, Unwind, Closed,
                    Connected
<1>5. ASSUME Call(b) \/ Destroy(b) \/ Return(b) PROVE Ends'
  BY <1>3, <1>5 DEF Call, Destroy, CanDestroy, Return, Connected
<1>6. ASSUME Chunk(b) PROVE Ends'
  BY <1>1, <1>6 DEF Chunk
<1>7. ASSUME SocketPair(b) PROVE Ends'
  <2> DEFINE c == Lowest(FreeFds)
             s == Lowest(FreeFds \ {c})
  <2>1. c \in Fd /\ s \in Fd /\ c # s /\ fds[c] = NoEnd /\ fds[s] = NoEnd
    BY <1>7, TwoAreFree DEF SocketPair, Connected, FreeFds, Types
  <2>2. /\ fds' = [fds EXCEPT ![c] = ClientEnd(b), ![s] = SupEnd(b)]
        /\ ctrl' = [ctrl EXCEPT ![b] = c] /\ api' = [api EXCEPT ![b] = "pair"]
        /\ UNCHANGED <<sup, holds>> /\ api[b] = "dir"
    BY <1>7 DEF SocketPair
  <2> HIDE DEF c, s
  <2>3. /\ fds'[c] = ClientEnd(b) /\ fds'[s] = SupEnd(b)
        /\ \A n \in Fd \ {c, s} : fds'[n] = fds[n]
    BY <2>1, <2>2
  <2>4. \A n \in Fd : fds[n] \notin {ClientEnd(b), SupEnd(b)}
    BY <2>2 DEF Ends, Connected
  <2>5. \A n, m \in Fd : fds'[n] = fds'[m] /\ fds'[n] # NoEnd => n = m
    BY <2>1, <2>3, <2>4 DEF Ends
  <2>6. \A n \in Fd, o \in Box : /\ fds'[n] = ClientEnd(o) => api'[o] \in Connected
                                 /\ fds'[n] = SupEnd(o) => api'[o] \in {"pair", "forked"}
    BY <2>1, <2>2, <2>3 DEF Ends, Connected
  <2>7. \A o \in Box : api'[o] \in Connected => ctrl'[o] \in Fd /\ fds'[ctrl'[o]] = ClientEnd(o)
    <3> SUFFICES ASSUME NEW o \in Box, api'[o] \in Connected
                 PROVE  ctrl'[o] \in Fd /\ fds'[ctrl'[o]] = ClientEnd(o)
      OBVIOUS
    <3>1. CASE o = b
      BY <2>1, <2>2, <2>3, <3>1
    <3>2. CASE o # b
      <4>1. ctrl'[o] = ctrl[o] /\ ctrl[o] \in Fd /\ fds[ctrl[o]] = ClientEnd(o)
        BY <2>2, <3>2 DEF Ends
      <4> QED
        BY <2>1, <2>3, <4>1
    <3> QED
      BY <3>1, <3>2
  <2>8. \A o \in Box : api'[o] = "pair" => \E n \in Fd : fds'[n] = SupEnd(o)
    <3> SUFFICES ASSUME NEW o \in Box, o # b, api'[o] = "pair"
                 PROVE  \E n \in Fd : fds'[n] = SupEnd(o)
      BY <2>1, <2>3
    <3>1. PICK n \in Fd : fds[n] = SupEnd(o)
      BY <2>2 DEF Ends
    <3> QED
      BY <2>1, <2>3, <3>1
  <2> QED
    BY <2>2, <2>5, <2>6, <2>7, <2>8 DEF Ends
<1>8. ASSUME Fork(b) PROVE Ends'
  <2>1. /\ api' = [api EXCEPT ![b] = "forked"] /\ api[b] = "pair"
        /\ sup' = [sup EXCEPT ![b] = "start"] /\ UNCHANGED <<fds, ctrl>>
        /\ holds' = [holds EXCEPT ![b] = Inherited(b)]
    BY <1>8 DEF Fork
  <2>2. SupEnd(b) \in Inherited(b)
    BY <2>1 DEF Ends, Inherited
  <2> QED
    BY <2>1, <2>2 DEF Ends, Connected
<1>9. ASSUME NEW E \in {{ClientEnd(b)}, {SupEnd(b)}, {ClientEnd(b), SupEnd(b)}}, CloseEnds(E),
             NEW p, api' = [api EXCEPT ![b] = p], UNCHANGED <<ctrl, sup, holds>>,
             p # "pair", p \in Connected => ClientEnd(b) \notin E /\ api[b] \in Connected,
             p \notin Connected => ClientEnd(b) \in E,
             p # "forked", SupEnd(b) \in E \/ api[b] \notin {"pair", "forked"}
      PROVE  Ends'
  <2>1. \A n \in Fd : fds'[n] = IF fds[n] \in E THEN NoEnd ELSE fds[n]
    BY <1>9 DEF CloseEnds
  <2>2. \A n, m \in Fd : fds'[n] = fds'[m] /\ fds'[n] # NoEnd => n = m
    BY <2>1 DEF Ends
  <2>3. \A n \in Fd, o \in Box : /\ fds'[n] = ClientEnd(o) => api'[o] \in Connected
                                 /\ fds'[n] = SupEnd(o) => api'[o] \in {"pair", "forked"}
    BY <1>9, <2>1 DEF Ends
  <2>4. \A o \in Box : api'[o] \in Connected => ctrl'[o] \in Fd /\ fds'[ctrl'[o]] = ClientEnd(o)
    <3> SUFFICES ASSUME NEW o \in Box, api'[o] \in Connected
                 PROVE  ctrl'[o] \in Fd /\ fds'[ctrl'[o]] = ClientEnd(o)
      OBVIOUS
    <3>1. ctrl'[o] = ctrl[o] /\ ctrl[o] \in Fd /\ fds[ctrl[o]] = ClientEnd(o)
      BY <1>9 DEF Ends
    <3>2. ClientEnd(o) \notin E
      BY <1>9
    <3> QED
      BY <2>1, <3>1, <3>2
  <2>5. \A o \in Box : api'[o] = "pair" => \E n \in Fd : fds'[n] = SupEnd(o)
    <3> SUFFICES ASSUME NEW o \in Box, api'[o] = "pair"
                 PROVE  \E n \in Fd : fds'[n] = SupEnd(o)
      OBVIOUS
    <3>1. o # b /\ api[o] = "pair"
      BY <1>9
    <3>2. PICK n \in Fd : fds[n] = SupEnd(o)
      BY <3>1 DEF Ends
    <3>3. SupEnd(o) \notin E
      BY <1>9, <3>1
    <3> QED
      BY <2>1, <3>2, <3>3
  <2> QED
    BY <1>9, <2>2, <2>3, <2>4, <2>5 DEF Ends
<1>10. ASSUME ForkFails(b) PROVE Ends'
  BY <1>9, <1>10 DEF ForkFails, Connected
<1>11. ASSUME CloseSupEnd(b) PROVE Ends'
  BY <1>9, <1>11 DEF CloseSupEnd, Connected
<1>12. ASSUME Hello(b) PROVE Ends'
  <2>1. CASE UNCHANGED fds /\ api' = [api EXCEPT ![b] = "open"]
    BY <1>3, <1>12, <2>1 DEF Hello, Connected
  <2>2. CASE CloseEnds({ClientEnd(b)}) /\ api' = [api EXCEPT ![b] = "unwind"]
    BY <1>9, <1>12, <2>2 DEF Hello, Connected
  <2> QED
    BY <1>12, <2>1, <2>2 DEF Hello
<1>13. ASSUME Farewell(b) PROVE Ends'
  BY <1>9, <1>13 DEF Farewell, Connected
<1> QED
  BY <1>2, <1>4, <1>5, <1>6, <1>7, <1>8, <1>10, <1>11, <1>12, <1>13 DEF BoxStep, ClientStep

(* The client of a box that starts holds its end, so that the greeting is  *)
(* not lost.                                                               *)
LEMMA Greets ==
  ASSUME Types, Ends, NEW b \in Box, NEW rc, Write(b, Frame("CREATE", rc)),
         api[b] \in {"forked", "hello"}, ans[b] = <<>>
  PROVE  ans'[b] = Greeting(rc)
<1>0. DOMAIN ans = Box
  BY DEF Types
<1>1. ctrl[b] \in Fd /\ fds[ctrl[b]] = ClientEnd(b)
  BY DEF Ends, Connected
<1>2. Held(ClientEnd(b))
  BY <1>1 DEF Held
<1> QED
  BY <1>0, <1>2, GreetingFacts DEF Write

(* A box starts in order, whatever the others do.                          *)
LEMMA StartsStep ==
  ASSUME Types, Ends, Starts, NEW b \in Box, BoxStep(b)
  PROVE  Starts'
<1> DEFINE Goal == StartOK(api'[b], sup'[b], ans'[b], req'[b], anchor'[b])
<1>0. /\ DOMAIN api = Box /\ DOMAIN sup = Box /\ DOMAIN ans = Box /\ DOMAIN req = Box
      /\ DOMAIN anchor = Box
  BY DEF Types, TypeOK
<1> SUFFICES Goal
  BY OthersKeep DEF Starts
<1>1. StartOK(api[b], sup[b], ans[b], req[b], anchor[b])
  BY DEF Starts
<1> USE <1>0, <1>1 DEF StartOK, Goto, svars, cvars, mvars, Unborn, Unasked
<1>2. ASSUME Probe(b) \/ MakeDir(b) \/ CreateRefuses(b) \/ StatFails(b)
             \/ CreateFails(b) \/ SocketPair(b) PROVE Goal
  BY <1>2 DEF Probe, MakeDir, CreateRefuses, StatFails, CreateFails, SocketPair, Gone
<1>3. ASSUME Fork(b) \/ ForkFails(b) \/ CloseSupEnd(b) \/ Unwind(b) PROVE Goal
  BY <1>3 DEF Fork, ForkFails, CloseSupEnd, Unwind, SupAlive, Gone
<1>4. ASSUME Hello(b) PROVE Goal
  <2>1. CASE RecvFrame(b)
    <3>1. PICK rc \in Refusals \cup {"OK"} : ans[b] = Greeting(rc) /\ (rc # "OK" => sup[b] = "exited")
      BY <1>4, <2>1 DEF Hello, RecvFrame
    <3>2. Head(ans[b]).rc = rc /\ ans[b] # <<>>
      BY <3>1, GreetingFacts
    <3>3. api'[b] = IF rc = "OK" THEN "open" ELSE "unwind"
      BY <1>4, <2>1, <3>2 DEF Hello, RecvNull, RecvFrame
    <3>4. UNCHANGED <<sup, req, anchor>>
      BY <1>4 DEF Hello
    <3> QED
      BY <1>4, <3>1, <3>3, <3>4 DEF Hello
  <2>2. CASE RecvNull(b) /\ ~RecvFrame(b)
    <3>1. ans[b] = <<>> /\ ~Held(SupEnd(b))
      <4>1. ~Oversize(b)
        BY <1>4, GreetingFacts DEF Hello, Oversize, Refusals
      <4> QED
        BY <2>2, <4>1 DEF RecvNull
    <3>2. sup[b] \in {"exited", "killed"}
      <4>1. sup[b] \in {"start", "anchored", "exited", "killed"}
        BY <1>4, <3>1, GreetingFacts DEF Hello
      <4>2. SupEnd(b) \in holds[b]
        BY <4>1 DEF Ends
      <4> QED
        BY <3>1, <4>1, <4>2 DEF Held, GroupAlive, SupAlive, Gone
    <3> QED
      BY <1>4, <2>2, <3>1, <3>2 DEF Hello
  <2> QED
    BY <1>4, <2>1, <2>2 DEF Hello
<1>5. ASSUME Call(b) \/ Destroy(b) PROVE Goal
  <2>1. api'[b] \in {"call", "bye"} /\ UNCHANGED <<sup, ans, anchor>>
    BY <1>5 DEF Call, Destroy
  <2> QED
    BY <2>1
<1>6. ASSUME Chunk(b) \/ Return(b) \/ Farewell(b) \/ Closed(b) PROVE Goal
  BY <1>6 DEF Chunk, Return, Farewell, Closed, Waited, SupAlive
<1>7. ASSUME NEW rc, Write(b, Frame("CREATE", rc)), api[b] \in {"forked", "hello"}, ans[b] = <<>>
      PROVE  ans'[b] = Greeting(rc)
  BY <1>7, Greets
<1>8. ASSUME sup[b] \in {"start", "anchored"}
      PROVE  /\ api[b] \notin Unborn \cup {"unwind", "failed", "closed"}
             /\ api[b] \in {"forked", "hello"} => ans[b] = <<>>
  BY <1>8, GreetingFacts DEF Gone
<1>9. ASSUME Enter(b) PROVE Goal
  <2>1. sup[b] = "start" /\ UNCHANGED <<api, req>>
    BY <1>9 DEF Enter, At
  <2>2. \/ sup'[b] = "anchored" /\ UNCHANGED ans
        \/ /\ sup'[b] = "exited" /\ UNCHANGED anchor
           /\ \E rc \in Refusals : Write(b, Frame("CREATE", rc))
    BY <1>9, EnterCodes DEF Enter, At, Refusals
  <2>3. CASE sup'[b] = "anchored" /\ UNCHANGED ans
    BY <1>8, <2>1, <2>3
  <2>4. CASE /\ sup'[b] = "exited" /\ UNCHANGED anchor
             /\ \E rc \in Refusals : Write(b, Frame("CREATE", rc))
    <3>1. api[b] \in {"forked", "hello"} => \E rc \in Refusals : ans'[b] = Greeting(rc)
      BY <1>7, <1>8, <2>1, <2>4
    <3> QED
      BY <1>8, <2>1, <2>4, <3>1
  <2> QED
    BY <2>2, <2>3, <2>4
<1>10. ASSUME FirstMount(b) \/ FirstMountFails(b) PROVE Goal
  <2>1. sup[b] = "anchored" /\ UNCHANGED <<api, req>>
    BY <1>10 DEF FirstMount, FirstMountFails, At
  <2>2. \/ sup'[b] = "serve" /\ Write(b, Frame("CREATE", "OK"))
        \/ /\ sup'[b] = "exited" /\ ~anchor'[b]
           /\ \E rc \in Refusals : Write(b, Frame("CREATE", rc))
    BY <1>10 DEF FirstMount, FirstMountFails, At, Refusals
  <2>3. CASE sup'[b] = "serve" /\ Write(b, Frame("CREATE", "OK"))
    <3>1. api[b] \in {"forked", "hello"} => ans'[b] = Greeting("OK")
      BY <1>7, <1>8, <2>1, <2>3
    <3> QED
      BY <1>8, <2>1, <2>3, <3>1
  <2>4. CASE /\ sup'[b] = "exited" /\ ~anchor'[b]
             /\ \E rc \in Refusals : Write(b, Frame("CREATE", rc))
    <3>1. api[b] \in {"forked", "hello"} => \E rc \in Refusals : ans'[b] = Greeting(rc)
      BY <1>7, <1>8, <2>1, <2>4
    <3> QED
      BY <1>8, <2>1, <2>4, <3>1
  <2> QED
    BY <2>2, <2>3, <2>4
<1>11. ASSUME ExecFails(b) \/ Killed(b) PROVE Goal
  BY <1>8, <1>11 DEF ExecFails, Killed, At, SupAlive, Gone
<1>12. ASSUME sup[b] \in {"run", "answer", "stuck", "leave"} \/ (sup[b] = "serve" /\ req[b] # <<>>)
       PROVE  api[b] \notin Unasked \cup {"closed"}
  BY <1>12 DEF Gone
<1>13. ASSUME RunOutput(b) \/ RunEnds(b) \/ Respond(b) \/ WriteFails(b) \/ Leave(b) PROVE Goal
  <2>1. sup[b] \in {"run", "answer", "stuck", "leave"}
    BY <1>13 DEF RunOutput, RunEnds, Respond, WriteFails, Leave, At
  <2>2. UNCHANGED <<api, req>> /\ (sup'[b] \in {"none", "start", "exited"} => ~anchor'[b])
    BY <1>13, <2>1 DEF RunOutput, RunEnds, Respond, WriteFails, Leave, At
  <2> QED
    BY <1>12, <2>1, <2>2
<1>14. ASSUME Serve(b) PROVE Goal
  <2>1. sup[b] = "serve" /\ req[b] # <<>> /\ UNCHANGED api /\ sup'[b] \in {"run", "answer"}
    BY <1>14 DEF Serve
  <2> QED
    BY <1>12, <2>1
<1>15. ASSUME ClientGone(b) PROVE Goal
  <2>1. sup[b] = "serve" /\ sup'[b] = "leave" /\ UNCHANGED <<api, ans, req, anchor>>
    BY <1>15 DEF ClientGone, At
  <2>2. api[b] \notin Unasked \cup {"closed"}
    <3>1. CASE req[b] # <<>>
      BY <1>12, <2>1, <3>1
    <3>2. CASE ~Held(ClientEnd(b))
      <4>1. api[b] \notin Connected
        BY <3>2 DEF Ends, Held
      <4> QED
        BY <2>1, <4>1 DEF Connected, Gone
    <3> QED
      BY <1>15, <3>1, <3>2 DEF ClientGone
  <2> QED
    BY <2>1, <2>2
<1> HIDE DEF Goal
<1> QED
  BY <1>2, <1>3, <1>4, <1>5, <1>6, <1>9, <1>10, <1>11, <1>13, <1>14, <1>15
     DEF BoxStep, ClientStep, SupStep

(* What the descriptors, the sockets and the processes of the boxes are    *)
(* like in every state.                                                    *)
BoxInv == Types /\ Ends /\ Starts

(* Every step keeps BoxInv.                                                *)
LEMMA BoxStepInv ==
  ASSUME BoxInv, [Next]_vars
  PROVE  BoxInv'
<1>1. ASSUME NEW b \in Box, BoxStep(b) PROVE BoxInv'
  <2>1. Types'
    BY <1>1, ClientTypes, SupervisorTypes DEF BoxInv, BoxStep
  <2>2. Ends' /\ Starts'
    BY <1>1, EndsStep, StartsStep DEF BoxInv
  <2> QED
    BY <2>1, <2>2 DEF BoxInv
<1>2. CASE Setup
  <2>1. UNCHANGED <<env, machine, client, fds, api, verb, ctrl, ret, dir, disk, sup, anchor, holds,
                    out, req, ans, fresh>>
    BY <1>2 DEF Setup, cvars, svars
  <2>2. setup' \in {"none", "OK", "PERMISSION_DENIED", "IO", "GENERIC"}
    BY <1>2, ProbeAndSetupCodes DEF Setup
  <2>3. profile' \in BOOLEAN /\ file' \in Texts
    BY <1>2 DEF Setup, ProfileLoaded, ProfileFile, BoxInv, Types, TypeOK
  <2>4. Types'
    BY <2>1, <2>2, <2>3 DEF BoxInv, Types, TypeOK
  <2>5. Ends' /\ Starts'
    BY <2>1 DEF BoxInv, Ends, Starts
  <2> QED
    BY <2>4, <2>5 DEF BoxInv
<1>3. CASE ClientDies
  <2>1. /\ client' = FALSE /\ fds' = [n \in Fd |-> NoEnd] /\ api' = [b \in Box |-> "gone"]
        /\ verb' = [b \in Box |-> "none"] /\ ctrl' = [b \in Box |-> 0]
        /\ ret' = [b \in Box |-> "none"]
        /\ UNCHANGED <<env, machine, profile, file, setup, dir, disk, sup, anchor, holds, out, req,
                       ans, fresh>>
    BY <1>3 DEF ClientDies, svars, mvars
  <2>2. Types'
    BY <2>1 DEF BoxInv, Types, TypeOK, Resting
  <2>3. Ends'
    BY <2>1, EndFacts DEF BoxInv, Ends, Connected
  <2>4. Starts'
    BY <2>1 DEF BoxInv, Starts, StartOK, Unborn, Unasked
  <2> QED
    BY <2>2, <2>3, <2>4 DEF BoxInv
<1>4. CASE UNCHANGED vars
  BY <1>4 DEF vars, cvars, svars, mvars, BoxInv, Types, TypeOK, Ends, Starts
<1> QED
  BY <1>1, <1>2, <1>3, <1>4 DEF Next, BoxStep

(* BoxInv in the initial states.                                           *)
LEMMA BoxInit ==
  ASSUME Init
  PROVE  BoxInv
<1>1. Types
  <2>1. out \in [Box -> Frames]
    BY FrameFacts DEF Init
  <2>2. ans \in [Box -> Seq(Frames)] /\ req \in [Box -> Seq(Asked)]
    BY DEF Init
  <2>3. dir \in [Box -> Dir] /\ disk \in [Dir -> (SUBSET Box) \cup {NoDir}]
    BY DEF Init, Dir
  <2>4. /\ env \in Scenarios /\ machine \in Machines /\ profile \in BOOLEAN
        /\ file \in Texts /\ client \in BOOLEAN
        /\ anchor \in [Box -> BOOLEAN] /\ fresh \in [Box -> BOOLEAN]
    BY DEF Init, Texts
  <2>5. /\ api \in [Box -> Resting \cup InCall]
        /\ sup \in [Box -> Gone \cup {"start", "anchored", "serve", "run", "answer",
                                     "stuck", "leave"}]
    BY DEF Init, Resting, Gone
  <2> QED
    BY <2>1, <2>2, <2>3, <2>4, <2>5 DEF Init, Types, TypeOK, Asked
<1>2. Ends
  BY EndFacts DEF Init, Ends, Connected
<1>3. Starts
  BY DEF Init, Starts, StartOK, Unborn, Unasked, Gone
<1> QED
  BY <1>1, <1>2, <1>3 DEF BoxInv

(* BoxInv always.                                                          *)
LEMMA BoxesInOrder == Spec => []BoxInv
  BY BoxInit, BoxStepInv, PTL DEF Spec

(* The variables keep their types: among others, a socket pair always      *)
(* finds two free descriptors (agentbox_create), an answer to create is    *)
(* one of its codes, and only well-formed frames are read and written.     *)
THEOREM SessionTypeCorrect == Spec => []TypeOK
<1>1. BoxInv => TypeOK
  BY DEF BoxInv, Types
<1> QED
  BY <1>1, BoxesInOrder, PTL

----------------------------------------------------------------------------
(* Requests. *)

(* A step of one box keeps the requests of all.                            *)
LEMMA RequestsStep ==
  ASSUME BoxInv, OwnRequests, [Next]_vars
  PROVE  OwnRequests'
<1>0. Types /\ Ends /\ req \in [Box -> Seq(Asked)]
  BY DEF BoxInv, Types
<1>1. ASSUME NEW b \in Box, BoxStep(b), \A i \in DOMAIN req'[b] : req'[b][i].box = b
      PROVE  OwnRequests'
  BY <1>0, <1>1, OthersKeep DEF OwnRequests
<1>2. ASSUME NEW b \in Box, NEW v, Send(b, v), api[b] = "open"
      PROVE  \A i \in DOMAIN req'[b] : req'[b][i].box = b
  <2>1. req' = [req EXCEPT ![b] = Append(@, ReqFrame(b, v))] \/ req' = req
    BY <1>0, <1>2, SendsToOwn
  <2>2. ReqFrame(b, v).box = b
    BY FrameFacts
  <2>3. req[b] \in Seq(Asked) /\ (req'[b] = Append(req[b], ReqFrame(b, v)) \/ req'[b] = req[b])
    BY <1>0, <2>1
  <2>4. DOMAIN req[b] = 1 .. Len(req[b]) /\ Len(req[b]) \in Nat
    BY <2>3
  <2>5. CASE req'[b] = Append(req[b], ReqFrame(b, v))
    <3>1. /\ DOMAIN req'[b] = 1 .. Len(req[b]) + 1
          /\ \A i \in 1 .. Len(req[b]) : req'[b][i] = req[b][i]
          /\ req'[b][Len(req[b]) + 1] = ReqFrame(b, v)
      BY <2>3, <2>5
    <3> QED
      BY <2>2, <2>4, <3>1 DEF OwnRequests
  <2>6. CASE req'[b] = req[b]
    BY <2>6 DEF OwnRequests
  <2> QED
    BY <2>3, <2>5, <2>6
<1>3. ASSUME NEW b \in Box, Call(b) PROVE OwnRequests'
  <2>1. PICK v : Send(b, v) /\ api[b] = "open"
    BY <1>3 DEF Call
  <2>2. \A i \in DOMAIN req'[b] : req'[b][i].box = b
    BY <1>2, <2>1
  <2> QED
    BY <1>1, <1>3, <2>2 DEF BoxStep
<1>4. ASSUME NEW b \in Box, Destroy(b) PROVE OwnRequests'
  <2>1. \A i \in DOMAIN req'[b] : req'[b][i].box = b
    BY <1>2, <1>4 DEF Destroy, CanDestroy
  <2> QED
    BY <1>1, <1>4, <2>1 DEF BoxStep
<1>5. ASSUME NEW b \in Box, Serve(b) PROVE OwnRequests'
  <2>1. req[b] \in Seq(Asked) /\ req[b] # <<>> /\ req'[b] = Tail(req[b])
    BY <1>0, <1>5 DEF Serve
  <2>2. \A i \in DOMAIN Tail(req[b]) : i + 1 \in DOMAIN req[b] /\ Tail(req[b])[i] = req[b][i + 1]
    BY <2>1
  <2>3. \A i \in DOMAIN req'[b] : req'[b][i].box = b
    BY <2>1, <2>2 DEF OwnRequests
  <2> QED
    BY <1>1, <1>5, <2>3 DEF BoxStep, SupStep
<1>6. ASSUME UNCHANGED req PROVE OwnRequests'
  BY <1>6 DEF OwnRequests
<1>7. ASSUME NEW b \in Box, BoxStep(b), ~Call(b), ~Destroy(b), ~Serve(b) PROVE UNCHANGED req
  BY <1>7 DEF BoxStep, ClientStep, SupStep, Probe, MakeDir, CreateRefuses, StatFails,
              CreateFails, SocketPair, Fork,
              ForkFails, CloseSupEnd, Hello, Unwind, Chunk, Return, Farewell, Closed, RunOutput,
              ExecFails, Enter, FirstMount, FirstMountFails, RunEnds, Respond, WriteFails,
              ClientGone, Leave, Killed
<1>8. ASSUME Setup \/ ClientDies \/ UNCHANGED vars PROVE UNCHANGED req
  BY <1>8 DEF Setup, ClientDies, vars
<1> QED
  BY <1>3, <1>4, <1>5, <1>6, <1>7, <1>8 DEF Next, BoxStep

(* Whatever descriptor numbers are reused in whatever order, a supervisor  *)
(* is only asked what its own box asked (box->active in agentbox_destroy   *)
(* and the calls that test it).                                            *)
THEOREM RequestsAreOwn == Spec => []OwnRequests
<1>1. Init => OwnRequests
  BY DEF Init, OwnRequests
<1> QED
  BY <1>1, BoxesInOrder, RequestsStep, PTL DEF Spec

----------------------------------------------------------------------------
(* The machine. *)

(* Only setup touches the machine, and it takes no profile away.           *)
LEMMA MachineKeeps ==
  ASSUME NEW b \in Box, BoxStep(b) \/ ClientDies \/ UNCHANGED vars
  PROVE  UNCHANGED <<env, machine, profile, file, setup>>
  BY DEF BoxStep, ClientStep, SupStep, Probe, MakeDir, CreateRefuses, StatFails, CreateFails,
         SocketPair, Fork,
         ForkFails, CloseSupEnd, Hello, Unwind, Chunk, Return, Farewell, Closed, RunOutput,
         ExecFails, Enter, FirstMount, FirstMountFails, RunEnds, Respond, WriteFails,
         ClientGone, Leave, Killed,
         Call, Destroy, Serve, ClientDies, vars, mvars

(* A setup that answers OK leaves no AppArmor restriction in the way, then *)
(* and ever after, unless it wrote the profile short or cannot see how the *)
(* parser ended (agentbox_ns_install_apparmor_profile).                    *)
THEOREM SetupSuffices == Spec => []SetupEnables
<1>1. Init => SetupEnables
  BY DEF Init, SetupEnables
<1>2. ASSUME BoxInv, SetupEnables, [Next]_vars PROVE SetupEnables'
  <2>1. ASSUME UNCHANGED <<env, machine, profile, file, setup>> PROVE SetupEnables'
    BY <1>2, <2>1 DEF SetupEnables, May
  <2>2. CASE Setup
    <3>1. PICK root \in BOOLEAN, parsed \in BOOLEAN, text \in Texts :
            /\ \E status \in {parsed} \cup {e \in {TRUE} : May("sigchld")} :
                 setup' = agentbox_ns_install_apparmor_profile(machine, root, text, status)
            /\ profile' = ProfileLoaded(machine, root, text, parsed, profile)
            /\ file' = ProfileFile(machine, root, text, file)
      BY <2>2 DEF Setup
    <3>2. PICK status \in {parsed} \cup {e \in {TRUE} : May("sigchld")} :
            setup' = agentbox_ns_install_apparmor_profile(machine, root, text, status)
      BY <3>1
    <3>3. UNCHANGED <<env, machine>> /\ (machine.idmap = "apparmor" => machine.apparmor)
      BY <1>2, <2>2, SessionAssumption DEF Setup, BoxInv, Types, TypeOK, Machine
    <3> SUFFICES ASSUME setup' = "OK", machine.idmap = "apparmor", file' = "whole", ~May("sigchld")
                 PROVE  IdMapped(machine, profile')
      BY <3>3 DEF SetupEnables, May
    <3>4. root /\ text # "none" /\ status = TRUE
      BY <3>2, <3>3 DEF agentbox_ns_install_apparmor_profile
    <3>5. parsed /\ text = "whole"
      BY <3>1, <3>2, <3>3, <3>4 DEF ProfileFile
    <3> QED
      BY <3>1, <3>3, <3>4, <3>5 DEF ProfileLoaded, IdMapped
  <2>3. ASSUME NEW b \in Box, BoxStep(b) PROVE SetupEnables'
    BY <2>1, <2>3, MachineKeeps
  <2>4. CASE ClientDies \/ UNCHANGED vars
    BY <2>1, <2>4 DEF ClientDies, vars, mvars
  <2> QED
    BY <1>2, <2>2, <2>3, <2>4 DEF Next, BoxStep
<1> QED
  BY <1>1, <1>2, BoxesInOrder, PTL DEF Spec

----------------------------------------------------------------------------
(* Runtime directories. *)

Serving == {"serve", "run", "answer", "stuck"}

(* The directory d of a box b whose call is at a: fr tells whether it is   *)
(* its alone, s where the supervisor is, f what it is about to write and   *)
(* D what the directory holds.                                             *)
DirOK(b, a, d, fr, s, f, D) ==
  /\ d \in {b, "shared"}
  /\ d # "shared" => fr
  /\ a \in {"new", "probed", "refused"} => d = b /\ D = NoDir
  /\ fr /\ (a \in {"dir", "pair"} \/ s \in {"start", "anchored"}) => D = {}
  /\ fr /\ s \in Serving /\ f.verb # "SHUTDOWN" => D = {b}
  /\ s \notin {"run", "answer"} => f = NoFrame

Engaged(b) == Using(b) \/ SupAlive(b)

(* Every directory is as DirOK says, and of two boxes that share one at a  *)
(* time neither has it alone.                                              *)
Dirs ==
  /\ \A b \in Box : DirOK(b, api[b], dir[b], fresh[b], sup[b], out[b], disk[dir[b]])
  /\ \A b, o \in Box : b # o /\ Engaged(b) /\ Engaged(o) /\ dir[b] = dir[o] => ~fresh[b] /\ ~fresh[o]
  /\ client => \A b \in Box : api[b] # "gone"

(* A step other than MakeDir changes at most the box's own directory, and  *)
(* only while the box is engaged.                                          *)
LEMMA DiskLocal ==
  ASSUME Types, NEW b \in Box, BoxStep(b), ~MakeDir(b)
  PROVE  /\ UNCHANGED <<dir, fresh, client>>
         /\ \A d \in Dir : d # dir[b] => disk'[d] = disk[d]
         /\ Engaged(b) \/ disk' = disk
<1> DEFINE Goal == /\ UNCHANGED <<dir, fresh, client>>
                   /\ \A d \in Dir : d # dir[b] => disk'[d] = disk[d]
                   /\ Engaged(b) \/ disk' = disk
<1> SUFFICES Goal
  OBVIOUS
<1>0. DOMAIN disk = Dir
  BY DEF Types, TypeOK
<1> USE <1>0 DEF svars, cvars, Engaged
<1>1. ASSUME UNCHANGED <<dir, fresh, disk, client>> PROVE Goal
  BY <1>1
<1>2. CASE Probe(b) \/ SocketPair(b) \/ Fork(b) \/ CloseSupEnd(b) \/ Hello(b) \/ Call(b) \/ Destroy(b)
           \/ Chunk(b) \/ Return(b) \/ Farewell(b)
  BY <1>1, <1>2 DEF Probe, SocketPair, Fork, CloseSupEnd, Hello, Call, Destroy, Chunk, Return, Farewell
<1>3. CASE ExecFails(b) \/ Enter(b) \/ RunOutput(b) \/ RunEnds(b) \/ Respond(b) \/ WriteFails(b)
           \/ ClientGone(b) \/ Leave(b) \/ Killed(b)
  BY <1>1, <1>3 DEF ExecFails, Enter, RunOutput, RunEnds, Respond, WriteFails, ClientGone, Leave, Killed
<1>4. CASE CreateRefuses(b) \/ StatFails(b) \/ CreateFails(b) \/ ForkFails(b)
           \/ Unwind(b) \/ Closed(b)
  BY <1>4 DEF CreateRefuses, StatFails, CreateFails, ForkFails, Unwind, Closed, Rmdir, Using
<1>5. CASE FirstMount(b) \/ FirstMountFails(b)
  BY <1>5 DEF FirstMount, FirstMountFails, At, SupAlive, Gone
<1>6. CASE Serve(b)
  BY <1>6 DEF Serve, Purged, SupAlive, Gone
<1> HIDE DEF Goal
<1> QED
  BY <1>2, <1>3, <1>4, <1>5, <1>6 DEF BoxStep, ClientStep, SupStep

(* Only MakeDir engages a box.                                             *)
LEMMA Engages ==
  ASSUME Types, Starts, NEW b \in Box, BoxStep(b), ~MakeDir(b), Engaged(b)'
  PROVE  Engaged(b)
<1>0. /\ DOMAIN api = Box /\ DOMAIN sup = Box
      /\ StartOK(api[b], sup[b], ans[b], req[b], anchor[b])
  BY DEF Types, TypeOK, Starts
<1> USE <1>0 DEF Goto, svars, cvars, Engaged, Using, SupAlive, Gone
<1>1. CASE Probe(b) \/ CreateRefuses(b) \/ StatFails(b) \/ CreateFails(b)
           \/ SocketPair(b) \/ Fork(b) \/ ForkFails(b) \/ CloseSupEnd(b)
           \/ Hello(b) \/ Unwind(b)
  BY <1>1 DEF Probe, CreateRefuses, StatFails, CreateFails, SocketPair, Fork, ForkFails,
              CloseSupEnd, Hello, Unwind,
              StartOK, Unborn
<1>2. CASE Call(b) \/ Destroy(b) \/ Chunk(b) \/ Return(b) \/ Farewell(b) \/ Closed(b)
  BY <1>2 DEF Call, Destroy, CanDestroy, Chunk, Return, Farewell, Closed
<1>3. CASE RunOutput(b) \/ SupStep(b) \/ Killed(b)
  <2>1. UNCHANGED api
    BY <1>3 DEF RunOutput, SupStep, Killed, ExecFails, Enter, FirstMount, FirstMountFails,
                Serve, RunEnds, Respond,
                WriteFails, ClientGone, Leave
  <2>2. sup' = sup \/ sup[b] \notin Gone
    BY <1>3 DEF RunOutput, SupStep, Killed, ExecFails, Enter, FirstMount, FirstMountFails,
                Serve, RunEnds, Respond,
                WriteFails, ClientGone, Leave, At
  <2> QED
    BY <2>1, <2>2
<1> QED
  BY <1>1, <1>2, <1>3 DEF BoxStep, ClientStep

(* A step other than MakeDir keeps Dirs if it keeps DirOK of its own box.  *)
LEMMA DirsLocal ==
  ASSUME Types, Ends, Starts, Dirs, NEW b \in Box, BoxStep(b), ~MakeDir(b),
         client => api'[b] # "gone",
         DirOK(b, api'[b], dir'[b], fresh'[b], sup'[b], out'[b], disk'[dir'[b]])
  PROVE  Dirs'
<1>1. /\ UNCHANGED <<dir, fresh, client>>
      /\ \A d \in Dir : d # dir[b] => disk'[d] = disk[d]
      /\ Engaged(b) \/ disk' = disk
  BY DiskLocal
<1>2. ASSUME NEW o \in Box, o # b
      PROVE  /\ (Engaged(o))' <=> Engaged(o)
             /\ DirOK(o, api'[o], dir'[o], fresh'[o], sup'[o], out'[o], disk'[dir'[o]])
             /\ api'[o] = api[o]
  <2>1. /\ api'[o] = api[o] /\ sup'[o] = sup[o] /\ out'[o] = out[o]
    BY <1>2, OthersKeep
  <2>2. (Engaged(o))' <=> Engaged(o)
    BY <2>1 DEF Engaged, Using, SupAlive
  <2>3. DirOK(o, api[o], dir[o], fresh[o], sup[o], out[o], disk[dir[o]])
    BY DEF Dirs
  <2>4. CASE disk'[dir[o]] = disk[dir[o]]
    BY <1>1, <2>1, <2>2, <2>3, <2>4
  <2>5. CASE disk'[dir[o]] # disk[dir[o]]
    <3>1. dir[o] \in Dir
      BY DEF Types, TypeOK
    <3>2. dir[o] = dir[b] /\ Engaged(b)
      BY <1>1, <2>5, <3>1
    <3>3. dir[o] = "shared"
      BY <1>2, <2>3, <3>2 DEF Dirs, DirOK
    <3>4. Engaged(o) => ~fresh[o]
      BY <1>2, <3>2 DEF Dirs
    <3>5. "shared" # o
      BY SessionAssumption
    <3>6. api[o] \in {"dir", "pair"} \/ sup[o] \in {"start", "anchored"} \cup Serving => Engaged(o)
      BY DEF Engaged, Using, SupAlive, Gone, Serving
    <3> QED
      BY <1>1, <2>1, <2>2, <2>3, <3>3, <3>4, <3>5, <3>6 DEF DirOK
  <2> QED
    BY <2>4, <2>5
<1>3. (Engaged(b))' => Engaged(b)
  BY Engages
<1>4. \A x, o \in Box : x # o /\ (Engaged(x))' /\ (Engaged(o))' /\ dir'[x] = dir'[o]
                        => ~fresh'[x] /\ ~fresh'[o]
  BY <1>1, <1>2, <1>3 DEF Dirs
<1> QED
  BY <1>1, <1>2, <1>4 DEF Dirs

(* A new directory is empty, and its own users lose it to each other.      *)
LEMMA DirsMade ==
  ASSUME Types, Ends, Starts, Dirs, NEW b \in Box, MakeDir(b)
  PROVE  Dirs'
<1>0. /\ api' = [api EXCEPT ![b] = "dir"] /\ api[b] = "probed" /\ client
      /\ UNCHANGED <<client, sup, out>>
  BY DEF MakeDir, Turn, Goto, svars
<1>1. /\ DOMAIN api = Box /\ DOMAIN dir = Box /\ DOMAIN disk = Dir
      /\ dir \in [Box -> Dir] /\ fresh \in [Box -> BOOLEAN]
      /\ sup[b] = "none"
  BY <1>0 DEF Types, TypeOK, Starts, StartOK, Unborn
<1>2. PICK d \in RuntimeDirs(b) :
        LET users == {o \in Box \ {b} : Using(o) /\ dir[o] = d}
        IN  /\ dir' = [dir EXCEPT ![b] = d]
            /\ disk' = IF disk[d] = NoDir THEN [disk EXCEPT ![d] = {}] ELSE disk
            /\ fresh' = [o \in Box |->
                           IF o = b THEN users = {} /\ disk[d] \in {NoDir, {}}
                           ELSE fresh[o] /\ o \notin users]
  BY DEF MakeDir
<1>3. d \in {b, "shared"} /\ d \in Dir
  BY DEF RuntimeDirs, Dir
<1>4. /\ disk'[d] = (IF disk[d] = NoDir THEN {} ELSE disk[d])
      /\ \A e \in Dir : e # d => disk'[e] = disk[e]
      /\ dir'[b] = d /\ api'[b] = "dir"
      /\ \A o \in Box : o # b => dir'[o] = dir[o] /\ api'[o] = api[o]
  BY <1>0, <1>1, <1>2, <1>3
<1>5. \A o \in Box : o # b =>
        /\ fresh'[o] => fresh[o]
        /\ Using(o) /\ dir[o] = d => ~fresh'[o] /\ ~fresh'[b]
        /\ fresh[o] /\ dir[o] # d => fresh'[o]
  BY <1>2, Zenon
<1>6. fresh'[b] => disk'[d] = {}
  <2>1. fresh'[b] => disk[d] \in {NoDir, {}}
    BY <1>2, Zenon
  <2> QED
    BY <1>4, <2>1
<1>7. \A o \in Box : Engaged(o) => Using(o)
  BY <1>0 DEF Dirs, Starts, StartOK, Engaged, Using, SupAlive, Gone, Unborn
<1>8. \A o \in Box : o # b => ((Engaged(o))' <=> Engaged(o))
  BY <1>0, <1>4 DEF Engaged, Using, SupAlive
<1>9. \A o \in Box : DirOK(o, api[o], dir[o], fresh[o], sup[o], out[o], disk[dir[o]])
  BY DEF Dirs
<1>10. DirOK(b, api'[b], dir'[b], fresh'[b], sup'[b], out'[b], disk'[dir'[b]])
  <2>1. d = b => fresh'[b]
    <3> SUFFICES ASSUME d = b PROVE fresh'[b]
      OBVIOUS
    <3>1. disk[b] = NoDir
      BY <1>0, <1>9 DEF DirOK
    <3>2. \A o \in Box : o # b => dir[o] # b
      BY <1>9, SessionAssumption DEF DirOK
    <3>3. {o \in Box \ {b} : Using(o) /\ dir[o] = d} = {}
      BY <3>2
    <3> QED
      BY <1>2, <3>1, <3>3
  <2>2. DirOK(b, api[b], dir[b], fresh[b], sup[b], out[b], disk[dir[b]])
    BY <1>9
  <2> QED
    BY <1>0, <1>1, <1>3, <1>4, <1>6, <2>1, <2>2 DEF DirOK, Serving
<1>11. ASSUME NEW o \in Box, o # b
       PROVE  DirOK(o, api'[o], dir'[o], fresh'[o], sup'[o], out'[o], disk'[dir'[o]])
  <2>0. /\ DirOK(o, api[o], dir[o], fresh[o], sup[o], out[o], disk[dir[o]])
        /\ sup'[o] = sup[o] /\ out'[o] = out[o] /\ dir'[o] = dir[o] /\ api'[o] = api[o]
    BY <1>0, <1>4, <1>9, <1>11
  <2>a. /\ fresh'[o] => fresh[o]
        /\ Using(o) /\ dir[o] = d => ~fresh'[o]
        /\ fresh[o] /\ dir[o] # d => fresh'[o]
    BY <1>5, <1>11, Zenon
  <2>1. dir[o] # "shared" => fresh'[o] /\ disk'[dir[o]] = disk[dir[o]]
    <3>1. dir[o] # "shared" => fresh[o] /\ dir[o] = o /\ o # d /\ o \in Dir
      BY <1>3, <1>11, <2>0, SessionAssumption DEF DirOK, Dir
    <3> QED
      BY <1>4, <2>a, <3>1
  <2>2. disk'[dir[o]] = disk[dir[o]] \/ dir[o] = d
    BY <1>1, <1>4
  <2>3. CASE disk'[dir[o]] = disk[dir[o]]
    BY <2>0, <2>a, <2>1, <2>3 DEF DirOK
  <2>4. CASE dir[o] = d /\ d = "shared"
    <3>1. Engaged(o) => ~fresh'[o]
      BY <1>7, <2>a, <2>4
    <3>2. api[o] \in {"dir", "pair"} \/ sup[o] \in {"start", "anchored"} \cup Serving => Engaged(o)
      BY DEF Engaged, Using, SupAlive, Gone, Serving
    <3>3. api[o] \notin {"new", "probed", "refused"}
      BY <2>0, <2>4, SessionAssumption DEF DirOK
    <3> QED
      BY <2>0, <2>a, <2>4, <3>1, <3>2, <3>3 DEF DirOK
  <2> QED
    BY <2>1, <2>2, <2>3, <2>4
<1>12. \A x, o \in Box : x # o /\ (Engaged(x))' /\ (Engaged(o))' /\ dir'[x] = dir'[o]
                         => ~fresh'[x] /\ ~fresh'[o]
  <2> SUFFICES ASSUME NEW x \in Box, NEW o \in Box, x # o, (Engaged(x))', (Engaged(o))',
                      dir'[x] = dir'[o]
               PROVE  ~fresh'[x] /\ ~fresh'[o]
    OBVIOUS
  <2>1. CASE x = b
    <3>1. Using(o) /\ dir[o] = d /\ o # b
      BY <1>4, <1>7, <1>8, <2>1
    <3> QED
      BY <1>5, <2>1, <3>1, Zenon
  <2>2. CASE o = b
    <3>1. Using(x) /\ dir[x] = d /\ x # b
      BY <1>4, <1>7, <1>8, <2>2
    <3> QED
      BY <1>5, <2>2, <3>1, Zenon
  <2>3. CASE x # b /\ o # b
    <3>1. Engaged(x) /\ Engaged(o) /\ dir[x] = dir[o]
      BY <1>4, <1>8, <2>3
    <3>2. ~fresh[x] /\ ~fresh[o]
      BY <3>1 DEF Dirs
    <3> QED
      BY <1>5, <2>3, <3>2, Zenon
  <2> QED
    BY <2>1, <2>2, <2>3
<1> QED
  BY <1>0, <1>4, <1>10, <1>11, <1>12 DEF Dirs

(* Every step keeps Dirs.                                                  *)
LEMMA DirsStep ==
  ASSUME BoxInv, Dirs, [Next]_vars
  PROVE  Dirs'
<1>0. Types /\ Ends /\ Starts
  BY DEF BoxInv
<1>1. ASSUME NEW b \in Box, BoxStep(b), ~MakeDir(b) PROVE Dirs'
  <2> DEFINE Goal == /\ client => api'[b] # "gone"
                     /\ DirOK(b, api'[b], dir'[b], fresh'[b], sup'[b], out'[b], disk'[dir'[b]])
  <2> SUFFICES Goal
    BY <1>0, <1>1, DirsLocal
  <2>0. /\ DirOK(b, api[b], dir[b], fresh[b], sup[b], out[b], disk[dir[b]])
        /\ StartOK(api[b], sup[b], ans[b], req[b], anchor[b])
        /\ client => api[b] # "gone"
    BY <1>0 DEF Dirs, Starts
  <2>a. /\ DOMAIN api = Box /\ DOMAIN sup = Box /\ DOMAIN out = Box
        /\ DOMAIN disk = Dir /\ dir[b] \in Dir
    BY <1>0 DEF Types, TypeOK
  <2>b. UNCHANGED <<dir, fresh>>
    BY <1>0, <1>1, DiskLocal
  <2> USE <2>0, <2>a, <2>b DEF Goto, svars, cvars, DirOK
  <2>1. CASE Probe(b) \/ SocketPair(b) \/ Fork(b)
    BY <2>1 DEF Probe, SocketPair, Fork, StartOK, Unborn, Serving
  <2>2. CASE CreateRefuses(b) \/ StatFails(b) \/ CreateFails(b) \/ ForkFails(b)
    <3>1. sup'[b] = "none" /\ out' = out /\ api'[b] = "failed"
      BY <2>2 DEF CreateRefuses, StatFails, CreateFails, ForkFails, StartOK, Unborn
    <3>2. sup[b] = "none"
      BY <2>2 DEF CreateRefuses, StatFails, CreateFails, ForkFails, StartOK, Unborn
    <3> QED
      BY <3>1, <3>2 DEF Serving
  <2>3. CASE CloseSupEnd(b) \/ Hello(b) \/ Call(b) \/ Destroy(b) \/ Return(b) \/ Farewell(b)
    <3>1. UNCHANGED <<sup, out, disk>> /\ api'[b] \in {"hello", "open", "unwind", "call", "bye", "wait"}
      BY <2>3 DEF CloseSupEnd, Hello, Call, Destroy, Return, Farewell
    <3> QED
      BY <3>1
  <2>4. CASE Unwind(b) \/ Closed(b)
    <3>1. UNCHANGED <<sup, out>> /\ api'[b] \in {"failed", "closed"} /\ sup[b] \in Gone
      BY <2>4 DEF Unwind, Closed, Waited, SupAlive
    <3> QED
      BY <3>1 DEF Gone, Serving
  <2>5. CASE Chunk(b) \/ RunOutput(b)
    BY <2>5 DEF Chunk, RunOutput
  <2>6. CASE ExecFails(b) \/ Enter(b)
    <3>1. UNCHANGED <<api, out, disk>> /\ sup[b] = "start" /\ sup'[b] \in {"anchored", "exited"}
      BY <2>6 DEF ExecFails, Enter, At
    <3> QED
      BY <3>1 DEF Serving
  <2>7. CASE FirstMount(b) \/ FirstMountFails(b)
    <3>1. UNCHANGED <<api, out>> /\ sup[b] = "anchored"
      BY <2>7 DEF FirstMount, FirstMountFails, At
    <3>2. \/ sup'[b] = "exited"
          \/ sup'[b] = "serve" /\ disk'[dir[b]] = disk[dir[b]] \cup {b}
      BY <2>7 DEF FirstMount, FirstMountFails, At
    <3>3. fresh[b] => disk[dir[b]] = {}
      BY <3>1
    <3>4. api[b] \notin {"new", "probed", "refused", "dir", "pair"}
      BY <3>1 DEF StartOK, Unborn
    <3>5. fresh[b] /\ sup'[b] = "serve" => disk'[dir[b]] = {b}
      BY <3>2, <3>3
    <3> QED
      BY <3>1, <3>2, <3>4, <3>5 DEF Serving
  <2>8. CASE Serve(b)
    <3>1. /\ UNCHANGED api /\ sup[b] = "serve" /\ sup'[b] \in {"run", "answer"}
          /\ \E rc : out'[b] = Frame(Head(req[b]).verb, rc)
          /\ disk' \in IF Head(req[b]).verb = "SHUTDOWN" THEN Purged(b) ELSE {disk}
      BY <2>8 DEF Serve
    <3>2. out'[b].verb = Head(req[b]).verb /\ out[b].verb = "none"
      BY <3>1, FrameFacts DEF NoFrame
    <3>3. api[b] \notin {"new", "probed", "refused", "dir", "pair"}
      BY <3>1 DEF StartOK, Unborn
    <3> QED
      BY <3>1, <3>2, <3>3 DEF Serving
  <2>9. CASE RunEnds(b) \/ Respond(b) \/ WriteFails(b)
    <3>1. /\ UNCHANGED <<api, disk>> /\ sup[b] \in {"run", "answer", "stuck"}
          /\ \/ sup'[b] = "answer" /\ out'[b] = out[b] /\ sup[b] = "run"
             \/ sup'[b] \in {"stuck", "serve"} /\ out'[b] = NoFrame /\ out[b].verb # "SHUTDOWN"
             \/ sup'[b] = "leave" /\ out'[b] = NoFrame
      BY <2>9, FrameFacts DEF RunEnds, Respond, WriteFails, At, NoFrame
    <3>2. api[b] \notin {"new", "probed", "refused", "dir", "pair"}
      BY <3>1 DEF StartOK, Unborn
    <3> QED
      BY <3>1, <3>2 DEF Serving
  <2>10. CASE ClientGone(b) \/ Leave(b) \/ Killed(b)
    <3>1. /\ UNCHANGED <<api, disk>> /\ sup[b] # "none"
          /\ sup'[b] \in {"leave", "exited", "killed"} /\ out'[b] = NoFrame
      BY <2>10 DEF ClientGone, Leave, Killed, At, SupAlive, Gone
    <3>2. api[b] \notin {"new", "probed", "refused", "dir", "pair"}
      BY <3>1 DEF StartOK, Unborn
    <3> QED
      BY <3>1, <3>2 DEF Serving
  <2> HIDE DEF Goal
  <2> QED
    BY <1>1, <2>1, <2>2, <2>3, <2>4, <2>5, <2>6, <2>7, <2>8, <2>9, <2>10
       DEF BoxStep, ClientStep, SupStep
<1>2. CASE Setup
  BY <1>2 DEF Setup, cvars, svars, Dirs, Engaged, Using, SupAlive
<1>3. CASE ClientDies
  <2>1. /\ UNCHANGED <<dir, fresh, disk, sup, out>> /\ ~client'
        /\ \A b \in Box : api'[b] = "gone"
    BY <1>3 DEF ClientDies, svars
  <2>2. \A b \in Box : (Engaged(b))' => Engaged(b)
    BY <2>1 DEF Engaged, Using, SupAlive
  <2>3. \A b \in Box : DirOK(b, api'[b], dir'[b], fresh'[b], sup'[b], out'[b], disk'[dir'[b]])
    BY <2>1 DEF Dirs, DirOK
  <2> QED
    BY <2>1, <2>2, <2>3 DEF Dirs
<1>4. CASE UNCHANGED vars
  BY <1>4 DEF vars, cvars, svars, Dirs, Engaged, Using, SupAlive
<1> QED
  BY <1>0, <1>1, <1>2, <1>3, <1>4, DirsMade DEF Next, BoxStep

(* Dirs always.                                                            *)
LEMMA DirsInOrder == Spec => [](BoxInv /\ Dirs)
<1>1. ASSUME Init PROVE Dirs
  <2>1. /\ \A b \in Box : /\ api[b] = "new" /\ dir[b] = b /\ fresh[b] /\ sup[b] = "none"
                          /\ out[b] = NoFrame /\ disk[dir[b]] = NoDir
    BY <1>1 DEF Init, Dir
  <2>2. \A b \in Box : DirOK(b, api[b], dir[b], fresh[b], sup[b], out[b], disk[dir[b]])
    BY <2>1 DEF DirOK, Serving
  <2>3. \A b \in Box : ~Engaged(b)
    BY <2>1 DEF Engaged, Using, SupAlive, Gone
  <2> QED
    BY <2>1, <2>2, <2>3 DEF Dirs
<1> QED
  BY <1>1, BoxesInOrder, DirsStep, PTL DEF Spec

(* Until it is shut down, a box in a directory of its own finds there its  *)
(* own scratch and no other: mkdtemp's name is always one, a named one is  *)
(* while it was empty and nobody else uses it.                             *)
THEOREM LayersAreOwn == Spec => []OwnLayers
<1>1. Dirs => OwnLayers
  BY DEF Dirs, DirOK, OwnLayers, Serving
<1> QED
  BY <1>1, DirsInOrder, PTL

----------------------------------------------------------------------------
(* What a box leaves behind. *)

(* The answers of a first mount that failed. *)
FirstErrors == {"MOUNT_FAILED", "GENERIC", "INVALID_ARGUMENT"}

(* The box b, which has a directory of its own with D in it: its call at   *)
(* a, its supervisor at s, w in the socket and r the last answer.          *)
RestOK(b, a, s, w, r, D) ==
  /\ a \in {"forked", "hello"} /\ s = "exited" =>
       D = {} \/ (D = {b} /\ \E rc \in FirstErrors : w = Greeting(rc))
  /\ a = "unwind" /\ s = "exited" => D = {} \/ (D = {b} /\ r \in FirstErrors)
  /\ a = "failed" /\ s # "killed" =>
       \/ D = NoDir
       \/ s = "exited" /\ D = {b} /\ r \in FirstErrors
       \/ s = "none" /\ D = {} /\ r = "IO"
  /\ a = "closed" /\ r = "OK" => D = NoDir

Rests == \A b \in Box : dir[b] = b => RestOK(b, api[b], sup[b], ans[b], ret[b], disk[b])

(* Every step keeps Rests.                                                 *)
LEMMA RestsStep ==
  ASSUME BoxInv, Dirs, Rests, [Next]_vars
  PROVE  Rests'
<1>0. Types /\ Ends /\ Starts
  BY DEF BoxInv
<1>1. ASSUME NEW b \in Box, BoxStep(b),
             dir'[b] = b => RestOK(b, api'[b], sup'[b], ans'[b], ret'[b], disk'[b])
      PROVE  Rests'
  <2> SUFFICES ASSUME NEW o \in Box, o # b, dir'[o] = o
               PROVE  RestOK(o, api'[o], sup'[o], ans'[o], ret'[o], disk'[o])
    BY <1>1 DEF Rests
  <2>1. /\ api'[o] = api[o] /\ sup'[o] = sup[o] /\ ans'[o] = ans[o] /\ ret'[o] = ret[o]
        /\ dir[o] = o
    BY <1>0, <1>1, OthersKeep
  <2>2. o \in Dir /\ o # "shared" /\ dir[b] \in {b, "shared"} /\ DOMAIN disk = Dir
    BY <1>0, SessionAssumption DEF Dir, Dirs, DirOK, Types, TypeOK
  <2>3. disk'[o] = disk[o]
    <3>1. CASE MakeDir(b)
      <4>1. PICK d \in RuntimeDirs(b) :
              disk' = IF disk[d] = NoDir THEN [disk EXCEPT ![d] = {}] ELSE disk
        BY <3>1 DEF MakeDir
      <4>2. d # o
        BY <2>2 DEF RuntimeDirs
      <4> QED
        BY <2>2, <4>1, <4>2
    <3>2. CASE ~MakeDir(b)
      BY <1>0, <1>1, <2>2, <3>2, DiskLocal
    <3> QED
      BY <3>1, <3>2
  <2> QED
    BY <2>1, <2>3 DEF Rests
<1>2. ASSUME NEW b \in Box, BoxStep(b), dir'[b] = b
      PROVE  RestOK(b, api'[b], sup'[b], ans'[b], ret'[b], disk'[b])
  <2> DEFINE Goal == RestOK(b, api'[b], sup'[b], ans'[b], ret'[b], disk'[b])
  <2> SUFFICES Goal
    OBVIOUS
  <2>0. MakeDir(b) => Goal
    BY <1>0 DEF MakeDir, Goto, RestOK, Types, TypeOK
  <2> SUFFICES ASSUME ~MakeDir(b) PROVE Goal
    BY <2>0
  <2>1. dir[b] = b /\ fresh[b]
    BY <1>0, <1>2, DiskLocal, SessionAssumption DEF Dirs, DirOK
  <2>2. /\ DirOK(b, api[b], b, TRUE, sup[b], out[b], disk[b])
        /\ StartOK(api[b], sup[b], ans[b], req[b], anchor[b])
        /\ RestOK(b, api[b], sup[b], ans[b], ret[b], disk[b])
    BY <1>0, <2>1 DEF Dirs, Starts, Rests, DirOK
  <2>3. /\ DOMAIN api = Box /\ DOMAIN sup = Box /\ DOMAIN ret = Box /\ DOMAIN disk = Dir
        /\ b \in Dir /\ {b} # {} /\ NoDir # {}
    BY <1>0 DEF Types, TypeOK, Dir, NoDir
  <2> USE <2>1, <2>2, <2>3 DEF Goto, svars, cvars, RestOK
  <2>4. CASE CreateRefuses(b) \/ CreateFails(b) \/ ForkFails(b)
    <3>1. \/ disk[b] = NoDir /\ disk' = disk
          \/ disk[b] = {} /\ disk' = Rmdir(b)
      BY <2>4 DEF CreateRefuses, CreateFails, ForkFails, DirOK
    <3>2. disk'[b] = NoDir
      BY <3>1 DEF Rmdir
    <3>3. api'[b] = "failed"
      BY <2>4 DEF CreateRefuses, CreateFails, ForkFails
    <3> QED
      BY <3>2, <3>3
  <2>15. CASE StatFails(b)
    <3>1. sup[b] = "none" /\ disk[b] = {}
      BY <2>15 DEF StatFails, StartOK, Unborn, DirOK
    <3>2. UNCHANGED <<sup, disk>> /\ api'[b] = "failed" /\ ret'[b] = "IO"
      BY <2>15 DEF StatFails
    <3> QED
      BY <3>1, <3>2
  <2>5. CASE Probe(b) \/ SocketPair(b) \/ Fork(b)
    BY <2>5 DEF Probe, SocketPair, Fork
  <2>6. CASE CloseSupEnd(b)
    BY <2>6 DEF CloseSupEnd
  <2>7. CASE Hello(b)
    <3>1. UNCHANGED <<sup, disk>> /\ api[b] = "hello" /\ api'[b] \in {"open", "unwind"}
      BY <2>7 DEF Hello
    <3>2. CASE RecvNull(b)
      <4>1. ~Oversize(b)
        BY <2>7, GreetingFacts DEF Hello, Oversize, StartOK, Refusals
      <4>2. ans[b] = <<>>
        BY <3>2, <4>1 DEF RecvNull
      <4>3. sup[b] = "exited" => disk[b] = {}
        BY <3>1, <4>2, GreetingFacts
      <4> QED
        BY <3>1, <4>3
    <3>3. CASE RecvFrame(b) /\ ~RecvNull(b)
      <4>1. ret'[b] = "OK" \/ ret'[b] = Head(ans[b]).rc
        BY <2>7, <3>3 DEF Hello
      <4>2. api'[b] = "unwind" => ret'[b] = Head(ans[b]).rc
        BY <2>7, <3>3 DEF Hello
      <4>3. sup[b] = "exited" => disk[b] = {} \/ (disk[b] = {b} /\ Head(ans[b]).rc \in FirstErrors)
        BY <3>1, GreetingFacts
      <4> QED
        BY <3>1, <4>2, <4>3
    <3> QED
      BY <2>7, <3>2, <3>3 DEF Hello
  <2>8. CASE Unwind(b)
    <3>1. /\ UNCHANGED sup /\ api'[b] = "failed" /\ ret'[b] = ret[b] /\ disk' = Rmdir(b)
          /\ api[b] = "unwind"
      BY <2>8 DEF Unwind
    <3>2. ASSUME sup[b] # "killed"
          PROVE  /\ sup[b] = "exited"
                 /\ disk[b] = {} \/ (disk[b] = {b} /\ ret[b] \in FirstErrors)
      BY <3>1, <3>2 DEF StartOK
    <3>3. disk[b] = {} => disk'[b] = NoDir
      BY <3>1 DEF Rmdir
    <3>4. disk[b] = {b} => disk'[b] = {b}
      BY <3>1 DEF Rmdir
    <3> QED
      BY <3>1, <3>2, <3>3, <3>4
  <2>9. CASE Call(b) \/ Destroy(b) \/ Chunk(b) \/ Return(b) \/ Farewell(b)
    BY <2>9 DEF Call, Destroy, Chunk, Return, Farewell
  <2>10. CASE Closed(b)
    <3>1. api'[b] = "closed" /\ ret'[b] = (IF disk'[b] = NoDir THEN "OK" ELSE "IO")
      BY <2>10 DEF Closed
    <3> QED
      BY <3>1
  <2>11. CASE ExecFails(b) \/ Enter(b)
    <3>1. UNCHANGED <<api, ret, disk>> /\ sup[b] = "start"
      BY <2>11 DEF ExecFails, Enter, At
    <3>2. disk[b] = {} /\ api[b] \notin {"unwind", "failed"}
      BY <3>1 DEF DirOK, StartOK, Gone
    <3> QED
      BY <3>1, <3>2
  <2>12. CASE FirstMount(b) \/ FirstMountFails(b)
    <3>1. UNCHANGED <<api, ret>> /\ sup[b] = "anchored"
      BY <2>12 DEF FirstMount, FirstMountFails, At
    <3>2. disk[b] = {} /\ api[b] \notin {"unwind", "failed", "closed"}
      BY <3>1 DEF DirOK, StartOK, Gone
    <3>3. api[b] \in {"forked", "hello"} => ans[b] = <<>>
      BY <3>1 DEF StartOK
    <3>4. \/ sup'[b] = "serve"
          \/ disk' = disk
          \/ /\ disk'[b] = disk[b] \cup {b}
             /\ \E rc \in FirstErrors : Write(b, Frame("CREATE", rc))
      BY <2>12 DEF FirstMount, FirstMountFails, At, FirstErrors
    <3>5. ASSUME api[b] \in {"forked", "hello"}, NEW rc, Write(b, Frame("CREATE", rc))
          PROVE  ans'[b] = Greeting(rc)
      BY <1>0, <3>3, <3>5, Greets
    <3> QED
      BY <3>1, <3>2, <3>4, <3>5
  <2>13. CASE RunOutput(b) \/ Serve(b) \/ RunEnds(b) \/ Respond(b) \/ WriteFails(b) \/ ClientGone(b)
    <3>1. /\ UNCHANGED <<api, ret>> /\ sup[b] \in {"serve", "run", "answer", "stuck"}
          /\ sup'[b] \in {"serve", "run", "answer", "stuck", "leave"}
      BY <2>13 DEF RunOutput, Serve, RunEnds, Respond, WriteFails, ClientGone, At
    <3>2. api[b] \notin {"unwind", "failed", "closed"}
      BY <3>1 DEF StartOK, Gone
    <3> QED
      BY <3>1, <3>2
  <2>14. CASE Leave(b) \/ Killed(b)
    <3>1. /\ UNCHANGED <<api, ret, disk>> /\ sup[b] \notin Gone
          /\ sup'[b] = "killed" \/ (sup[b] = "leave" /\ sup'[b] = "exited")
      BY <2>14 DEF Leave, Killed, At, SupAlive, Gone
    <3>2. api[b] \notin {"unwind", "failed", "closed"} /\ (sup[b] = "leave" => api[b] \notin {"forked", "hello"})
      BY <3>1 DEF StartOK, Gone
    <3> QED
      BY <3>1, <3>2
  <2> HIDE DEF Goal
  <2> QED
    BY <1>2, <2>4, <2>5, <2>6, <2>7, <2>8, <2>9, <2>10, <2>11, <2>12, <2>13, <2>14,
       <2>15 DEF BoxStep, ClientStep, SupStep
<1>3. CASE Setup
  BY <1>3 DEF Setup, cvars, svars, Rests
<1>4. CASE ClientDies
  BY <1>4 DEF ClientDies, Rests, RestOK
<1>5. CASE UNCHANGED vars
  BY <1>5 DEF vars, cvars, svars, Rests
<1> QED
  BY <1>1, <1>2, <1>3, <1>4, <1>5 DEF Next, BoxStep

(* A destroy that answers OK and a create that fails leave nothing: no     *)
(* descriptor in the client, no supervisor, no anchor, no directory - the  *)
(* scratch of a failed first mount, a directory that could not be looked   *)
(* at and what a killed supervisor had aside.                              *)
THEOREM NothingIsLeft == Spec => []NothingLeft
<1>1. Init => Rests
  BY DEF Init, Rests, RestOK
<1>2. ASSUME BoxInv, Dirs, Rests PROVE NothingLeft
  <2> SUFFICES ASSUME NEW b \in Box, sup[b] # "killed",
                      api[b] = "failed" \/ (api[b] = "closed" /\ ret[b] = "OK")
               PROVE  /\ \A n \in Fd : fds[n] \notin {ClientEnd(b), SupEnd(b)}
                      /\ ~GroupAlive(b)
                      /\ \/ dir[b] = "shared"
                         \/ disk[dir[b]] = NoDir
                         \/ /\ sup[b] = "exited" /\ disk[dir[b]] = {b}
                            /\ ret[b] \in FirstErrors
                         \/ sup[b] = "none" /\ disk[dir[b]] = {} /\ ret[b] = "IO"
    BY DEF NothingLeft, FirstErrors
  <2>1. \A n \in Fd : fds[n] \notin {ClientEnd(b), SupEnd(b)}
    BY <1>2 DEF BoxInv, Ends, Connected
  <2>2. ~GroupAlive(b)
    BY <1>2 DEF BoxInv, Starts, StartOK, GroupAlive, SupAlive, Gone
  <2>3. dir[b] # "shared" => dir[b] = b
    BY <1>2 DEF Dirs, DirOK
  <2>4. dir[b] = b => RestOK(b, api[b], sup[b], ans[b], ret[b], disk[b])
    BY <1>2 DEF Rests
  <2> QED
    BY <2>1, <2>2, <2>3, <2>4 DEF RestOK
<1> QED
  BY <1>1, <1>2, DirsInOrder, RestsStep, PTL DEF Spec

----------------------------------------------------------------------------
(* Requests and answers in step. *)

ChunkFrame == Frame("RUN", "CHUNK")

(* What is in the socket while the answer to v is not, and when it is:     *)
(* streamed output, of a RUN only.                                         *)
Streaming(w, v) == \A i \in 1 .. Len(w) : v = "RUN" /\ w[i] = ChunkFrame
Answered(w, v) ==
  /\ w # <<>>
  /\ \A i \in 1 .. Len(w) - 1 : v = "RUN" /\ w[i] = ChunkFrame
  /\ w[Len(w)] = Frame(v, "OK")

Stuck(w) == w # <<>> /\ Head(w).rc = "HUGE"

(* What streaming puts into the socket and the client takes out.           *)
LEMMA StreamFacts ==
  ASSUME NEW w \in Seq(Frames), NEW v
  PROVE  /\ Streaming(<<>>, v)
         /\ Streaming(w, v) /\ v = "RUN" => Streaming(Append(w, ChunkFrame), v)
         /\ Streaming(w, v) => Answered(Append(w, Frame(v, "OK")), v)
         /\ Streaming(w, v) /\ w # <<>> =>
              v = "RUN" /\ Head(w) = ChunkFrame /\ Streaming(Tail(w), v)
         /\ Answered(w, v) =>
              \/ v = "RUN" /\ Head(w) = ChunkFrame /\ Answered(Tail(w), v)
              \/ Head(w) = Frame(v, "OK") /\ Tail(w) = <<>>
<1>1. Streaming(<<>>, v)
  BY DEF Streaming
<1>2. ASSUME NEW f
      PROVE  /\ Len(Append(w, f)) = Len(w) + 1 /\ Len(w) \in Nat /\ Append(w, f) # <<>>
             /\ \A i \in 1 .. Len(w) : Append(w, f)[i] = w[i]
             /\ Append(w, f)[Len(w) + 1] = f
  OBVIOUS
<1>3. Streaming(w, v) /\ v = "RUN" => Streaming(Append(w, ChunkFrame), v)
  BY <1>2 DEF Streaming
<1>4. Streaming(w, v) => Answered(Append(w, Frame(v, "OK")), v)
  BY <1>2 DEF Streaming, Answered
<1>5. ASSUME w # <<>>
      PROVE  /\ Len(w) \in Nat \ {0} /\ Head(w) = w[1] /\ Len(Tail(w)) = Len(w) - 1
             /\ \A i \in 1 .. Len(w) - 1 : Tail(w)[i] = w[i + 1]
             /\ Len(w) = 1 => Tail(w) = <<>>
             /\ Len(w) # 1 => Tail(w) # <<>>
  <2>1. Len(w) \in Nat \ {0} /\ Head(w) = w[1] /\ Tail(w) \in Seq(Frames)
    BY <1>5
  <2>2. Len(Tail(w)) = Len(w) - 1
    BY <1>5
  <2>3. \A i \in 1 .. Len(w) - 1 : Tail(w)[i] = w[i + 1]
    BY <1>5, <2>1
  <2>4. \A s \in Seq(Frames) : Len(s) = 0 <=> s = <<>>
    OBVIOUS
  <2>a. Len(Tail(w)) = 0 <=> Tail(w) = <<>>
    BY <2>1, <2>4
  <2> DEFINE n == Len(w)
             t == Tail(w)
  <2>b. n \in Nat \ {0} /\ Len(t) = n - 1 /\ (Len(t) = 0 <=> t = <<>>)
    BY <2>1, <2>2, <2>a
  <2>5. (n = 1 => t = <<>>) /\ (n # 1 => t # <<>>)
    <3> HIDE DEF n, t
    <3> QED
      BY <2>b
  <2> QED
    BY <2>1, <2>2, <2>3, <2>5
<1>6. Streaming(w, v) /\ w # <<>> =>
        v = "RUN" /\ Head(w) = ChunkFrame /\ Streaming(Tail(w), v)
  BY <1>5 DEF Streaming
<1>7. ASSUME Answered(w, v)
      PROVE  \/ v = "RUN" /\ Head(w) = ChunkFrame /\ Answered(Tail(w), v)
             \/ Head(w) = Frame(v, "OK") /\ Tail(w) = <<>>
  <2>1. w # <<>>
    BY <1>7 DEF Answered
  <2>2. CASE Len(w) = 1
    BY <1>5, <1>7, <2>1, <2>2 DEF Answered
  <2>3. CASE Len(w) # 1
    <3>1. v = "RUN" /\ w[1] = ChunkFrame
      BY <1>5, <1>7, <2>1, <2>3 DEF Answered
    <3>2. \A i \in 1 .. Len(Tail(w)) - 1 : Tail(w)[i] = ChunkFrame
      BY <1>5, <1>7, <2>1, <2>3 DEF Answered
    <3>3. Tail(w)[Len(Tail(w))] = Frame(v, "OK") /\ Tail(w) # <<>>
      BY <1>5, <1>7, <2>1, <2>3 DEF Answered
    <3> QED
      BY <1>5, <2>1, <3>1, <3>2, <3>3 DEF Answered
  <2> QED
    BY <2>2, <2>3
<1> QED
  BY <1>1, <1>3, <1>4, <1>6, <1>7

(* Streamed output and the answer after it are none of them oversize.      *)
LEMMA NotOversize ==
  ASSUME NEW w \in Seq(Frames), NEW v, Streaming(w, v) \/ Answered(w, v)
  PROVE  ~Stuck(w)
<1>1. ChunkFrame.rc = "CHUNK" /\ Frame(v, "OK").rc = "OK"
  BY FrameFacts DEF ChunkFrame
<1>2. Streaming(w, v) /\ w # <<>> => Head(w) = ChunkFrame
  BY StreamFacts
<1>3. Answered(w, v) => Head(w) = ChunkFrame \/ Head(w) = Frame(v, "OK")
  BY StreamFacts
<1> QED
  BY <1>1, <1>2, <1>3 DEF Stuck

(* The box b between calls, and during the call of v: the supervisor at s  *)
(* with f to write, r requests and w answers in the socket.                *)
OpenOK(s, r, w) ==
  \/ Stuck(w) /\ s \in {"stuck", "killed"}
  \/ w = <<>> /\ s = "serve" /\ r = <<>>
  \/ w = <<>> /\ s \in {"exited", "killed"}

CallOK(b, v, s, r, w, f) ==
  \/ Stuck(w) /\ s \in {"stuck", "killed"}
  \/ s = "serve" /\ r = <<ReqFrame(b, v)>> /\ w = <<>>
  \/ s = "run" /\ r = <<>> /\ f = Frame("RUN", "OK") /\ v = "RUN" /\ Streaming(w, v)
  \/ s = "answer" /\ r = <<>> /\ f = Frame(v, "OK") /\ Streaming(w, v)
  \/ s = "answer" /\ r = <<>> /\ f = Frame(v, "HUGE") /\ w = <<>>
  \/ s = "serve" /\ r = <<>> /\ Answered(w, v)
  \/ s \in {"leave", "exited"} /\ w = <<>>
  \/ s = "killed" /\ (Streaming(w, v) \/ Answered(w, v))

InStep ==
  \A b \in Box :
    /\ api[b] = "open" => OpenOK(sup[b], req[b], ans[b])
    /\ api[b] = "call" => /\ verb[b] # "SHUTDOWN"
                          /\ CallOK(b, verb[b], sup[b], req[b], ans[b], out[b])

(* A connected box has its own end open, and a supervisor that lives the   *)
(* other.                                                                  *)
LEMMA BothHeld ==
  ASSUME Types, Ends, NEW b \in Box
  PROVE  /\ api[b] \in Connected => Held(ClientEnd(b))
         /\ sup[b] \notin Gone => Held(SupEnd(b))
<1>1. api[b] \in Connected => Held(ClientEnd(b))
  BY DEF Ends, Held
<1>2. sup[b] \notin Gone => Held(SupEnd(b))
  BY DEF Ends, Held, GroupAlive, SupAlive, Gone
<1> QED
  BY <1>1, <1>2

(* The client's steps keep calls in step.                                  *)
LEMMA ClientInStep ==
  ASSUME BoxInv, InStep, NEW b \in Box,
         Probe(b) \/ Call(b) \/ Destroy(b) \/ ClientStep(b)
  PROVE  InStep'
<1>0. /\ Types /\ Ends /\ BoxStep(b) /\ ans \in [Box -> Seq(Frames)]
      /\ DOMAIN api = Box /\ DOMAIN verb = Box /\ DOMAIN req = Box /\ DOMAIN ans = Box
      /\ ans[b] \in Seq(Frames) /\ req[b] \in Seq(Asked)
  BY DEF BoxInv, Types, TypeOK, BoxStep
<1> DEFINE Goal ==
      /\ api'[b] = "open" => OpenOK(sup'[b], req'[b], ans'[b])
      /\ api'[b] = "call" => /\ verb'[b] # "SHUTDOWN"
                             /\ CallOK(b, verb'[b], sup'[b], req'[b], ans'[b], out'[b])
<1> SUFFICES Goal
  BY <1>0, OthersKeep DEF InStep
<1>1. /\ api[b] = "open" => OpenOK(sup[b], req[b], ans[b])
      /\ api[b] = "call" => /\ verb[b] # "SHUTDOWN"
                            /\ CallOK(b, verb[b], sup[b], req[b], ans[b], out[b])
      /\ StartOK(api[b], sup[b], ans[b], req[b], anchor[b])
  BY DEF InStep, BoxInv, Starts
<1> USE <1>0 DEF Goto
<1>2. CASE api'[b] \notin {"open", "call"}
  BY <1>2
<1>3. CASE Hello(b) /\ api'[b] = "open"
  <2>1. RecvFrame(b) /\ Head(ans[b]).rc = "OK" /\ ans'[b] = Tail(ans[b]) /\ UNCHANGED <<sup, req>>
    BY <1>3 DEF Hello, svars
  <2>2. ans[b] = Greeting("OK") /\ sup[b] \in {"serve", "killed"} /\ req[b] = <<>>
    <3>1. api[b] = "hello" /\ ans[b] # <<>>
      BY <1>3, <2>1 DEF Hello, RecvFrame
    <3>2. \A rc \in Refusals : ans[b] # Greeting(rc)
      BY <2>1, GreetingFacts DEF Refusals
    <3> QED
      BY <1>1, <3>1, <3>2 DEF StartOK, Unasked
  <2>3. Tail(ans[b]) = <<>>
    BY <2>2, GreetingFacts
  <2> QED
    BY <1>3, <2>1, <2>2, <2>3 DEF OpenOK
<1>4. CASE Call(b)
  <2>1. PICK v \in Verbs \cup {"BIGRUN"} : Send(b, v)
    BY <1>4, SessionAssumption DEF Call
  <2>2. /\ verb'[b] = v /\ UNCHANGED <<sup, ans, out>> /\ v # "SHUTDOWN"
        /\ Held(SupEnd(b)) => req'[b] = Append(req[b], ReqFrame(b, v))
        /\ api[b] = "open" /\ api'[b] = "call"
    BY <1>4, <2>1, SendsToOwn DEF Call, svars, Verbs
  <2>3. CASE ans[b] = <<>> /\ sup[b] = "serve" /\ req[b] = <<>>
    <3>1. Held(SupEnd(b))
      BY <2>3, BothHeld DEF Gone
    <3>2. req'[b] = <<ReqFrame(b, v)>>
      BY <2>2, <2>3, <3>1
    <3> QED
      BY <2>2, <2>3, <3>2 DEF CallOK
  <2>4. CASE ans[b] = <<>> /\ sup[b] \in {"exited", "killed"}
    <3>1. Streaming(ans[b], v)
      BY <2>4, StreamFacts
    <3> QED
      BY <2>2, <2>4, <3>1 DEF CallOK
  <2>5. CASE Stuck(ans[b]) /\ sup[b] \in {"stuck", "killed"}
    BY <2>2, <2>5 DEF CallOK
  <2> QED
    BY <1>1, <2>2, <2>3, <2>4, <2>5 DEF OpenOK
<1>5. Oversize(b) <=> Stuck(ans[b])
  BY DEF Oversize, Stuck
<1>6. ASSUME api[b] = "call", RecvFrame(b)
      PROVE  /\ ans[b] # <<>> /\ ~Stuck(ans[b])
             /\ \/ Streaming(ans[b], verb[b]) /\ sup[b] \in {"run", "answer", "killed"}
                \/ Answered(ans[b], verb[b]) /\ sup[b] \in {"serve", "killed"}
  BY <1>1, <1>5, <1>6 DEF CallOK, RecvFrame
<1>a. ChunkFrame.rc = "CHUNK" /\ ChunkFrame.verb = "RUN" /\ \A v : Frame(v, "OK").rc = "OK"
  BY FrameFacts DEF ChunkFrame
<1>7. CASE Chunk(b)
  <2>1. /\ UNCHANGED <<api, verb, sup, req, out>> /\ ans'[b] = Tail(ans[b])
        /\ api[b] = "call" /\ RecvFrame(b) /\ verb[b] = "RUN" /\ Head(ans[b]).rc = "CHUNK"
    BY <1>7 DEF Chunk, LastFrame, cvars, svars
  <2>2. Head(ans[b]) # Frame(verb[b], "OK")
    BY <1>a, <2>1
  <2>3. Streaming(ans[b], verb[b]) => Streaming(ans'[b], verb[b])
    BY <1>6, <2>1, StreamFacts
  <2>4. Answered(ans[b], verb[b]) => Answered(ans'[b], verb[b])
    BY <2>1, <2>2, StreamFacts
  <2>5. ~Stuck(ans[b]) /\ ans[b] # <<>>
    BY <1>6, <2>1
  <2> QED
    BY <1>1, <2>1, <2>3, <2>4, <2>5 DEF CallOK
<1>8. CASE Return(b)
  <2>1. UNCHANGED <<sup, req>> /\ api[b] = "call" /\ api'[b] = "open"
    BY <1>8 DEF Return, svars
  <2>2. CASE LastFrame(b) /\ ans' = [ans EXCEPT ![b] = Tail(@)]
    <3>1. ans'[b] = Tail(ans[b]) /\ RecvFrame(b) /\ (verb[b] = "RUN" => Head(ans[b]) # ChunkFrame)
      BY <1>a, <2>2 DEF LastFrame
    <3>2. ~Streaming(ans[b], verb[b])
      BY <1>6, <2>1, <3>1, StreamFacts
    <3>3. Answered(ans[b], verb[b]) /\ sup[b] \in {"serve", "killed"}
      BY <1>6, <2>1, <3>1, <3>2
    <3>4. Tail(ans[b]) = <<>>
      BY <3>1, <3>3, StreamFacts
    <3>5. sup[b] = "serve" => req[b] = <<>>
      <4>1. ans[b] # <<>>
        BY <3>1 DEF RecvFrame
      <4> QED
        BY <1>1, <2>1, <4>1 DEF CallOK
    <3> QED
      BY <2>1, <3>1, <3>3, <3>4, <3>5 DEF OpenOK
  <2>3. CASE RecvNull(b) /\ UNCHANGED ans
    <3>1. CASE Stuck(ans[b])
      <4>1. ans[b] # <<>> /\ ~Streaming(ans[b], verb[b]) /\ ~Answered(ans[b], verb[b])
        BY <3>1, NotOversize DEF Stuck
      <4>2. sup[b] \in {"stuck", "killed"}
        BY <1>1, <2>1, <4>1 DEF CallOK
      <4> QED
        BY <2>1, <2>3, <3>1, <4>2 DEF OpenOK
    <3>2. CASE ans[b] = <<>> /\ ~Held(SupEnd(b))
      <4>1. sup[b] \in Gone /\ sup[b] # "none"
        BY <1>1, <2>1, <3>2, BothHeld DEF CallOK
      <4> QED
        BY <2>1, <2>3, <3>2, <4>1 DEF OpenOK, Gone
    <3> QED
      BY <1>5, <2>3, <3>1, <3>2 DEF RecvNull
  <2> QED
    BY <1>8, <2>2, <2>3 DEF Return
<1>9. \/ api'[b] \notin {"open", "call"} \/ (Hello(b) /\ api'[b] = "open")
      \/ Call(b) \/ Chunk(b) \/ Return(b)
  BY DEF ClientStep, Probe, MakeDir, CreateRefuses, StatFails, CreateFails, SocketPair, Fork,
         ForkFails, CloseSupEnd, Hello,
         Unwind, Destroy, Farewell, Closed
<1> HIDE DEF Goal
<1> QED
  BY <1>2, <1>3, <1>4, <1>7, <1>8, <1>9

(* The supervisor's steps keep calls in step.                              *)
LEMMA SupervisorInStep ==
  ASSUME BoxInv, InStep, NEW b \in Box, RunOutput(b) \/ SupStep(b) \/ Killed(b)
  PROVE  InStep'
<1>0. /\ Types /\ Ends /\ BoxStep(b)
      /\ DOMAIN sup = Box /\ DOMAIN req = Box /\ DOMAIN ans = Box /\ DOMAIN out = Box
      /\ ans[b] \in Seq(Frames) /\ req[b] \in Seq(Asked)
  BY DEF BoxInv, Types, TypeOK, BoxStep
<1>1. UNCHANGED <<api, verb>>
  BY DEF RunOutput, SupStep, Killed, ExecFails, Enter, FirstMount, FirstMountFails, Serve,
         RunEnds, Respond,
         WriteFails, ClientGone, Leave, cvars
<1>2. /\ api[b] = "open" => OpenOK(sup[b], req[b], ans[b])
      /\ api[b] = "call" => /\ verb[b] # "SHUTDOWN"
                            /\ CallOK(b, verb[b], sup[b], req[b], ans[b], out[b])
  BY DEF InStep
<1>3. ASSUME api[b] \in {"open", "call"} PROVE Held(ClientEnd(b))
  BY <1>0, <1>3, BothHeld DEF Connected
<1>4. ASSUME api[b] = "open" PROVE OpenOK(sup'[b], req'[b], ans'[b])
  <2>1. /\ sup[b] \notin {"start", "anchored", "run", "answer", "leave"}
        /\ sup[b] = "serve" => req[b] = <<>>
    BY <1>2, <1>4 DEF OpenOK
  <2>2. Killed(b)
    BY <1>3, <1>4, <2>1 DEF RunOutput, SupStep, ExecFails, Enter, FirstMount, FirstMountFails,
                            Serve, RunEnds,
                            Respond, WriteFails, ClientGone, Leave, At
  <2>3. sup'[b] = "killed" /\ UNCHANGED <<req, ans>>
    BY <1>0, <2>2 DEF Killed
  <2> QED
    BY <1>2, <1>4, <2>3 DEF OpenOK
<1>5. ASSUME api[b] = "call" PROVE CallOK(b, verb[b], sup'[b], req'[b], ans'[b], out'[b])
  <2> DEFINE v == verb[b]
             Goal == CallOK(b, v, sup'[b], req'[b], ans'[b], out'[b])
  <2>0. v # "SHUTDOWN" /\ CallOK(b, v, sup[b], req[b], ans[b], out[b]) /\ Held(ClientEnd(b))
    BY <1>2, <1>3, <1>5
  <2> SUFFICES Goal
    OBVIOUS
  <2> HIDE DEF v
  <2>a. Streaming(<<>>, v)
    BY <1>0, StreamFacts
  <2>b. \A f : Write(b, f) => ans'[b] = Append(ans[b], f)
    BY <1>0, <2>0 DEF Write
  <2>c. /\ ReqFrame(b, v).verb = v /\ Head(<<ReqFrame(b, v)>>) = ReqFrame(b, v)
        /\ Tail(<<ReqFrame(b, v)>>) = <<>>
    BY FrameFacts
  <2>d. /\ \A u, rc : Frame(u, rc).verb = u /\ Frame(u, rc).rc = rc
        /\ Frame("RUN", "CHUNK") = ChunkFrame
    BY FrameFacts DEF ChunkFrame
  <2> USE <1>0
  <2>1. CASE ExecFails(b) \/ Enter(b) \/ FirstMount(b) \/ FirstMountFails(b)
    BY <2>0, <2>1 DEF ExecFails, Enter, FirstMount, FirstMountFails, At, CallOK
  <2>2. CASE Serve(b)
    <3>1. /\ sup[b] = "serve" /\ req[b] # <<>> /\ ~TooLong(Head(req[b])) /\ UNCHANGED ans
          /\ sup'[b] = (IF Head(req[b]).verb = "RUN" THEN "run" ELSE "answer")
          /\ req'[b] = Tail(req[b])
          /\ \/ out'[b] = Frame(Head(req[b]).verb, "OK")
             \/ Head(req[b]).verb = "DIFF" /\ out'[b] = Frame(Head(req[b]).verb, "HUGE")
      BY <2>2 DEF Serve
    <3>2. req[b] = <<ReqFrame(b, v)>> /\ ans[b] = <<>>
      BY <2>0, <3>1 DEF CallOK
    <3>3. Head(req[b]).verb = v /\ Tail(req[b]) = <<>>
      BY <2>c, <3>2
    <3> QED
      BY <2>a, <3>1, <3>2, <3>3 DEF CallOK
  <2>3. CASE RunOutput(b)
    <3>1. sup[b] = "run" /\ UNCHANGED <<sup, req, out>> /\ ans'[b] = Append(ans[b], ChunkFrame)
      BY <2>3, <2>b, <2>d DEF RunOutput, svars
    <3>2. /\ req[b] = <<>> /\ out[b] = Frame("RUN", "OK") /\ v = "RUN" /\ Streaming(ans[b], v)
      BY <2>0, <3>1 DEF CallOK
    <3>3. Streaming(ans'[b], v)
      BY <3>1, <3>2, StreamFacts
    <3> QED
      BY <3>1, <3>2, <3>3 DEF CallOK
  <2>4. CASE RunEnds(b)
    BY <2>0, <2>4 DEF RunEnds, At, CallOK
  <2>5. CASE Respond(b)
    <3>1. /\ sup[b] = "answer" /\ UNCHANGED req /\ ans'[b] = Append(ans[b], out[b])
          /\ sup'[b] = IF out[b].verb = "SHUTDOWN" THEN "leave"
                       ELSE IF out[b].rc = "HUGE" /\ Held(ClientEnd(b)) THEN "stuck"
                       ELSE "serve"
      <4>1. Write(b, out[b])
        BY <2>5 DEF Respond
      <4>2. ans'[b] = Append(ans[b], out[b])
        BY <2>b, <4>1
      <4> QED
        BY <2>5, <4>2 DEF Respond, At
    <3>2. CASE out[b] = Frame(v, "OK") /\ Streaming(ans[b], v) /\ req[b] = <<>>
      <4>1. sup'[b] = "serve"
        BY <2>0, <2>d, <3>1, <3>2
      <4>2. Answered(ans'[b], v)
        BY <3>1, <3>2, StreamFacts
      <4> QED
        BY <3>1, <3>2, <4>1, <4>2 DEF CallOK
    <3>3. CASE out[b] = Frame(v, "HUGE") /\ ans[b] = <<>>
      <4>1. sup'[b] = "stuck"
        BY <2>0, <2>d, <3>1, <3>3
      <4>2. ans'[b] # <<>> /\ Head(ans'[b]) = Frame(v, "HUGE")
        BY <3>1, <3>3
      <4>3. Stuck(ans'[b])
        BY <2>d, <4>2 DEF Stuck
      <4> QED
        BY <4>1, <4>3 DEF CallOK
    <3> QED
      BY <2>0, <3>1, <3>2, <3>3 DEF CallOK
  <2>6. CASE WriteFails(b)
    BY <2>0, <2>6 DEF WriteFails
  <2>7. CASE ClientGone(b)
    <3>1. sup[b] = "serve" /\ sup'[b] = "leave" /\ UNCHANGED ans /\ req[b] # <<>>
      BY <2>0, <2>7 DEF ClientGone, At
    <3>2. ans[b] = <<>>
      BY <2>0, <3>1 DEF CallOK
    <3> QED
      BY <3>1, <3>2 DEF CallOK
  <2>8. CASE Leave(b)
    <3>1. sup[b] = "leave" /\ sup'[b] = "exited" /\ UNCHANGED ans
      BY <2>8 DEF Leave, At
    <3> QED
      BY <2>0, <3>1 DEF CallOK
  <2>9. CASE Killed(b)
    <3>1. sup'[b] = "killed" /\ sup[b] \notin Gone /\ UNCHANGED ans
      BY <2>9 DEF Killed, SupAlive
    <3>2. Stuck(ans[b]) \/ Streaming(ans[b], v) \/ Answered(ans[b], v)
      BY <2>0, <2>a DEF CallOK
    <3> QED
      BY <3>1, <3>2 DEF CallOK
  <2> HIDE DEF Goal
  <2> QED
    BY <2>1, <2>2, <2>3, <2>4, <2>5, <2>6, <2>7, <2>8, <2>9 DEF SupStep
<1>6. /\ api'[b] = "open" => OpenOK(sup'[b], req'[b], ans'[b])
      /\ api'[b] = "call" => /\ verb'[b] # "SHUTDOWN"
                             /\ CallOK(b, verb'[b], sup'[b], req'[b], ans'[b], out'[b])
  BY <1>1, <1>2, <1>4, <1>5
<1> QED
  BY <1>0, <1>6, OthersKeep DEF InStep

(* For any number of boxes, any machine and whatever is killed or fails,   *)
(* requests and answers of a box stay in step: agentbox_exec_streaming     *)
(* reads its output to the end, so that the next call finds its own answer *)
(* - until an oversize answer.                                             *)
THEOREM CallsInStep == Spec => []Synchronised
<1>1. Init => InStep
  BY DEF Init, InStep
<1>2. ASSUME BoxInv, InStep, [Next]_vars PROVE InStep'
  <2>1. ASSUME NEW b \in Box, BoxStep(b) PROVE InStep'
    BY <1>2, <2>1, ClientInStep, SupervisorInStep DEF BoxStep
  <2>2. CASE Setup
    BY <1>2, <2>2 DEF Setup, cvars, svars, InStep
  <2>3. CASE ClientDies
    BY <2>3 DEF ClientDies, InStep
  <2>4. CASE UNCHANGED vars
    BY <1>2, <2>4 DEF vars, cvars, svars, InStep
  <2> QED
    BY <1>2, <2>1, <2>2, <2>3, <2>4 DEF Next, BoxStep
<1>3. ASSUME BoxInv, InStep PROVE Synchronised
  <2>1. ASSUME NEW b \in Box, api[b] = "open", ~Oversize(b)
        PROVE  ans[b] = <<>> /\ (SupAlive(b) => req[b] = <<>> /\ sup[b] = "serve")
    BY <1>3, <2>1 DEF InStep, OpenOK, Oversize, Stuck, SupAlive, Gone
  <2>2. ASSUME NEW b \in Box, api[b] = "call", RecvFrame(b)
        PROVE  Head(ans[b]).verb = verb[b]
    <3>1. ans[b] # <<>> /\ ~Stuck(ans[b]) /\ ans[b] \in Seq(Frames)
      BY <1>3, <2>2 DEF RecvFrame, Oversize, Stuck, BoxInv, Types
    <3>2. Streaming(ans[b], verb[b]) \/ Answered(ans[b], verb[b])
      BY <1>3, <2>2, <3>1 DEF InStep, CallOK
    <3>3. Head(ans[b]) = Frame(verb[b], "OK") \/ (verb[b] = "RUN" /\ Head(ans[b]) = ChunkFrame)
      BY <3>1, <3>2, StreamFacts
    <3> QED
      BY <3>3, FrameFacts DEF ChunkFrame
  <2> QED
    BY <2>1, <2>2 DEF Synchronised
<1> QED
  BY <1>1, <1>2, <1>3, BoxesInOrder, PTL DEF Spec
=============================================================================
