--------------------------- MODULE SnapshotProofs ---------------------------
(* The supervisor implements the store of snapshots of Snapshots.tla.      *)
EXTENDS CommitProofs

(* Abbreviations of Supervisor that the provers always see through. *)
USE DEF DeadWork, NewCheckpoint, TableFull

----------------------------------------------------------------------------
(* The refinement mapping, by name. *)

Snaps == [i \in 1 .. Len(ckpts) |-> [id |-> ckpts[i].id, tree |-> CheckpointTree(i)]]

Status == CASE phase = "merging" -> "publishing"
            [] phase \in {"idle", "running"} -> "open"
            [] OTHER -> phase

Cur == Shown(Live)

(* A checkpoint's tree is what the layers up to its own show.              *)
LEMMA TreeIsUnder ==
  TypeOK => \A i \in 0 .. Len(ckpts) : CheckpointTree(i) = Under(i)
<1> SUFFICES ASSUME TypeOK, NEW i \in 0 .. Len(ckpts)
             PROVE  CheckpointTree(i) = Under(i)
  OBVIOUS
<1>1. Len(ckpts) \in Nat /\ \A j \in 1 .. Len(ckpts) : Live[j] = ckpts[j].gen
  BY StackType DEF Live, TypeOK
<1>2. [j \in 1 .. i |-> ckpts[j].gen] = [j \in 1 .. i |-> Live[j]]
  BY <1>1
<1>3. LayersOf([j \in 1 .. i |-> Live[j]]) = [j \in 1 .. i |-> layers[Live[j]]]
  BY DEF LayersOf
<1> QED
  BY <1>2, <1>3 DEF CheckpointTree, Under

(* An empty live layer shows what lies below it.                           *)
LEMMA EmptyTopShows ==
  TypeOK /\ layers[generation] = EmptyLayer => Cur = Under(Len(ckpts))
<1> SUFFICES ASSUME TypeOK, layers[generation] = EmptyLayer
             PROVE  Cur = Under(Len(ckpts))
  OBVIOUS
<1>1. /\ Len(ckpts) \in Nat /\ Len(Live) = Len(ckpts) + 1 /\ Live[Len(ckpts) + 1] = generation
  BY StackType DEF Live, TypeOK
<1>2. /\ Len(Live) \in 1 .. Len(Live) /\ Len(Live) - 1 = Len(ckpts)
      /\ Len(ckpts) \in 0 .. Len(Live)
  BY <1>1
<1>3. Cur = Over(EmptyLayer, Under(Len(ckpts)))
  BY <1>1, <1>2, UnderFacts DEF Cur
<1>4. Under(Len(ckpts)) \in Tree
  BY <1>2, UnderFacts
<1> QED
  BY <1>3, <1>4, OverEmpty DEF Tree

(* What a new generation shows: the workspace with the checkpoints kept.   *)
LEMMA NewGenerationShows ==
  ASSUME BaseInv, TypeOK', NEW n \in 0 .. Len(Live), Len(ckpts') = n, ws' = ws,
         generation' = generation + 1,
         \A g \in Gen : layers'[g] \in {layers[g], EmptyLayer},
         \A i \in 1 .. n : ckpts'[i].gen = Live[i] /\ layers'[Live[i]] = layers[Live[i]]
  PROVE  /\ Cur' = Under(n)
         /\ \A i \in 0 .. n : CheckpointTree(i)' = Under(i)
<1>0. TypeOK /\ Fresh
  BY DEF BaseInv, TableInv
<1>1. generation + 1 \in Gen /\ generation \in Int /\ n \in Nat
  BY <1>0, UnderFacts, BoundsAssumption DEF TypeOK, Gen
<1>2. layers'[generation'] = EmptyLayer
  BY <1>0, <1>1 DEF Fresh
<1>3. \A i \in 1 .. n : Live'[i] = Live[i]
  BY <1>0, LiveAfter
<1>4. ASSUME NEW i \in 0 .. n PROVE Under(i)' = Under(i)
  <2>1. \A j \in 1 .. i : j \in 1 .. n
    BY <1>1
  <2> QED
    BY <1>3, <2>1, UnderSame
<1>5. (TypeOK => \A i \in 0 .. Len(ckpts) : CheckpointTree(i) = Under(i))'
  BY TreeIsUnder, PTL
<1>6. (TypeOK /\ layers[generation] = EmptyLayer => Cur = Under(Len(ckpts)))'
  BY EmptyTopShows, PTL
<1> QED
  BY <1>1, <1>2, <1>4, <1>5, <1>6

----------------------------------------------------------------------------
(* The steps of the store, in terms of the supervisor. *)

(* The variables of the store are the mapping's. *)
LEMMA Mapped ==
  /\ Abstract!svars = <<ws, Cur, Snaps, nextNum, aborted, Status>>
  /\ Abstract!SInit <=> /\ ws \in Tree /\ Cur = ws /\ Snaps = <<>> /\ nextNum = 0
                        /\ aborted = FALSE /\ Status = "starting"
  BY DEF Abstract!svars, Abstract!SInit, Cur, Snaps, Status

(* The steps that the store's requests are. *)
LEMMA MappedRequests ==
  /\ Status = "starting" /\ Status' \in {"open", "closed"}
       /\ UNCHANGED <<ws, Cur, Snaps, nextNum, aborted>> => Abstract!SNext
  /\ Status = "open" /\ Cur' \in Tree
       /\ UNCHANGED <<ws, Snaps, nextNum, aborted, Status>> => Abstract!SNext
  /\ Status = "open" /\ Snaps' = Append(Snaps, [id |-> nextNum, tree |-> Cur])
       /\ nextNum' = nextNum + 1 /\ UNCHANGED <<ws, Cur, aborted, Status>> => Abstract!SNext
  /\ \A i \in 0 .. Len(Snaps) :
       /\ i = 0 => Snaps = <<>>
       /\ Status = "open" /\ Snaps' = SubSeq(Snaps, 1, i)
       /\ Cur' = IF i = 0 THEN ws ELSE Snaps[i].tree
       /\ UNCHANGED <<ws, nextNum, aborted, Status>>
       => Abstract!SNext
  /\ Status = "open" /\ Status' = "closed" /\ UNCHANGED <<ws, nextNum, aborted>>
       => Abstract!SNext
  BY DEF Abstract!SNext, Abstract!Open, Abstract!Write, Abstract!Take, Abstract!Restore,
     Abstract!Close, Cur, Snaps, Status

(* The steps of publishing. *)
LEMMA MappedPublishing ==
  /\ Status = "open" /\ Status' = "publishing"
       /\ UNCHANGED <<ws, Cur, Snaps, nextNum, aborted>> => Abstract!SNext
  /\ /\ Status = "publishing"
     /\ \/ Status' = "publishing" /\ UNCHANGED aborted
        \/ Status' = "open" /\ aborted' = TRUE
     /\ ws' \in Tree /\ Len(Snaps') = Len(Snaps)
     /\ \A i \in DOMAIN Snaps : Snaps'[i].id = Snaps[i].id /\ Snaps'[i].tree \in Tree
     /\ UNCHANGED <<Cur, nextNum>>
     => Abstract!SNext
  /\ /\ Status = "publishing"
     /\ aborted \/ \A p \in Path : ws[p] = Cur[p] \/ Unpublished(Cur, p)
     /\ aborted' = FALSE /\ Status' = "open" /\ Snaps' = <<>> /\ Cur' = ws
     /\ UNCHANGED <<ws, nextNum>>
     => Abstract!SNext
  BY DEF Abstract!SNext, Abstract!Publish, Abstract!PublishSome, Abstract!Published,
     Cur, Snaps, Status

(* The initial states are the store's.                                     *)
LEMMA RefinedInit == Init => Abstract!SInit
<1> SUFFICES ASSUME Init PROVE Abstract!SInit
  OBVIOUS
<1>1. TypeOK /\ layers[generation] = EmptyLayer
  BY TableInit, BoundsAssumption DEF TableInv, Init, Gen
<1>2. Len(ckpts) = 0 /\ Snaps = <<>>
  BY DEF Init, Snaps
<1>3. Cur = ws
  BY <1>1, <1>2, EmptyTopShows, UnderFacts
<1>4. Status = "starting" /\ ws \in Tree /\ nextNum = 0 /\ aborted = FALSE
  BY DEF Init, Status
<1> QED
  BY <1>2, <1>3, <1>4, Mapped

(* Steps that leave workspace, layers and table alone leave the trees.     *)
LEMMA TreesSame ==
  ASSUME UNCHANGED <<ws, layers, ckpts, generation>>
  PROVE  Cur' = Cur /\ Snaps' = Snaps
<1>1. Live' = Live
  BY DEF Live
<1>2. Cur' = Cur
  BY <1>1 DEF Cur, Shown, LayersOf
<1>3. ASSUME NEW i PROVE CheckpointTree(i)' = CheckpointTree(i)
  BY DEF CheckpointTree, LayersOf
<1> QED
  BY <1>2, <1>3 DEF Snaps

(* Snapshots have trees.                                                   *)
LEMMA SnapsType ==
  TypeOK => /\ Snaps \in Seq([id : Nat, tree : Tree])
            /\ Len(Snaps) = Len(ckpts) /\ Len(ckpts) \in Nat
            /\ DOMAIN Snaps = 1 .. Len(ckpts)
            /\ \A i \in 1 .. Len(ckpts) : Snaps[i].tree \in Tree /\ Snaps[i].id = ckpts[i].id
<1> SUFFICES ASSUME TypeOK
             PROVE  /\ Snaps \in Seq([id : Nat, tree : Tree])
                    /\ Len(Snaps) = Len(ckpts) /\ Len(ckpts) \in Nat
                    /\ DOMAIN Snaps = 1 .. Len(ckpts)
                    /\ \A i \in 1 .. Len(ckpts) : /\ Snaps[i].tree \in Tree
                                                  /\ Snaps[i].id = ckpts[i].id
  OBVIOUS
<1>1. Len(ckpts) \in Nat /\ \A i \in 1 .. Len(ckpts) : ckpts[i].id \in Nat
  <2>1. Len(ckpts) \in Nat /\ \A i \in 1 .. Len(ckpts) : ckpts[i] \in Checkpoints
    BY DEF TypeOK
  <2> QED
    BY <2>1 DEF Checkpoints
<1>2. ASSUME NEW i \in 1 .. Len(ckpts) PROVE CheckpointTree(i) \in Tree
  <2>1. i \in 0 .. Len(ckpts) /\ i \in 0 .. Len(Live)
    BY <1>1, UnderFacts
  <2> QED
    BY <2>1, TreeIsUnder, UnderFacts
<1>3. Snaps \in [1 .. Len(ckpts) -> [id : Nat, tree : Tree]]
  BY <1>1, <1>2 DEF Snaps
<1> QED
  BY <1>1, <1>3 DEF Snaps

(* And so does the sandbox.                                                *)
LEMMA CurType == TypeOK => Cur \in Tree
  BY StackType, LayersOfType DEF Cur, Live, TypeOK

(* A sequence is the function that lists it.                               *)
LEMMA SeqIsFunction ==
  ASSUME NEW S, NEW s \in Seq(S), NEW n, Len(s) = n
  PROVE  s = [i \in 1 .. n |-> s[i]]
  OBVIOUS

(* Every step of the supervisor is a step of the store or leaves it alone. *)
LEMMA RefinedStep ==
  ASSUME Leftovers = {}, "mkdir_p" \notin Faults, "getxattr" \notin Faults
  PROVE  BaseInv /\ PublishInv /\ [Next]_vars => [Abstract!SNext]_(Abstract!svars)
<1> SUFFICES ASSUME BaseInv, PublishInv, [Next]_vars
             PROVE  Abstract!SNext \/ UNCHANGED <<ws, Cur, Snaps, nextNum, aborted, Status>>
  BY DEF Abstract!svars, Cur, Snaps, Status
<1>0. /\ TableInv /\ MountInv /\ strays = {} /\ WellFormed(ws) /\ Fresh /\ Position
      /\ TypeOK /\ Room /\ LayersClosed /\ TableOrdered /\ mi \in Nat
  BY DEF BaseInv, TableInv, TypeOK
<1>1. TypeOK'
  BY <1>0, TableStep DEF TableInv
<1>2. /\ ckpts \in Seq(Checkpoints) /\ Len(ckpts) \in Nat /\ Len(Live) = Len(ckpts) + 1
      /\ \A i \in 1 .. Len(ckpts) : Live[i] = ckpts[i].gen
      /\ \A i \in 0 .. Len(ckpts) : CheckpointTree(i) = Under(i)
      /\ \A i \in 1 .. Len(Live) : Live[i] \in Gen
      /\ Under(0) = ws /\ Under(Len(Live)) = Cur
  <2>1. ckpts \in Seq(Checkpoints) /\ Len(ckpts) \in Nat
    BY <1>0 DEF TypeOK
  <2>2. /\ Len(Live) = Len(ckpts) + 1 /\ \A i \in 1 .. Len(Live) : Live[i] \in Gen
        /\ Under(0) = ws /\ Under(Len(Live)) = Cur
    BY <1>0, UnderFacts DEF Cur
  <2>3. \A i \in 1 .. Len(ckpts) : Live[i] = ckpts[i].gen
    BY <1>0, <1>1, LiveAfter
  <2>4. \A i \in 0 .. Len(ckpts) : CheckpointTree(i) = Under(i)
    BY <1>0, TreeIsUnder
  <2> QED
    BY <2>1, <2>2, <2>3, <2>4
<1>3. /\ phase = "merging" => Status = "publishing"
      /\ phase \in {"idle", "running"} => Status = "open"
      /\ phase \notin {"idle", "running", "merging"} => Status = phase
      /\ phase' = "merging" => Status' = "publishing"
      /\ phase' \in {"idle", "running"} => Status' = "open"
      /\ phase' \notin {"idle", "running", "merging"} => Status' = phase'
  BY DEF Status
<1> DEFINE Goal == Abstract!SNext \/ UNCHANGED <<ws, Cur, Snaps, nextNum, aborted, Status>>
<1> SUFFICES Goal
  OBVIOUS
<1>4. ASSUME UNCHANGED <<ws, layers, ckpts, generation, nextNum, aborted>>,
             phase' = phase \/ (phase \in {"idle", "running"} /\ phase' \in {"idle", "running"})
      PROVE  Goal
  BY <1>3, <1>4, TreesSame DEF Status
<1>5. CASE Start
  <2>1. /\ phase = "starting" /\ phase' \in {"idle", "closed"} /\ generation' = generation + 1
        /\ UNCHANGED <<ws, layers, ckpts, nextNum, aborted>> /\ ckpts = <<>> /\ ckpts' = <<>>
    BY <1>0, <1>5 DEF Start, NewGeneration, Room
  <2>2. layers[generation] = EmptyLayer
    BY <1>0, <2>1 DEF Fresh, TypeOK
  <2>3. Cur = ws
    BY <1>0, <1>2, <2>1, <2>2, EmptyTopShows
  <2>4. Cur' = Under(0)
    BY <1>1, <1>2, <2>1, NewGenerationShows
  <2>5. Snaps = <<>> /\ Snaps' = <<>>
    BY <2>1 DEF Snaps
  <2> QED
    BY <1>2, <1>3, <2>1, <2>3, <2>4, <2>5, MappedRequests
<1>6. CASE Seal
  <2>0. PICK n \in Nat : n = Len(Live)
    BY <1>2
  <2>1. /\ phase = "idle" /\ generation' = generation + 1 /\ nextNum' = nextNum + 1
        /\ UNCHANGED <<ws, layers, phase, aborted>>
    BY <1>0, <1>6, DiscardShape DEF Seal
  <2>2. /\ Len(ckpts') = n /\ \A i \in 1 .. Len(ckpts) : ckpts'[i] = ckpts[i]
        /\ ckpts'[n].gen = generation /\ ckpts'[n].id = nextNum
    BY <1>2, <1>6, <2>0 DEF Seal
  <2>3. \A i \in 1 .. n : i \in 1 .. Len(ckpts) \/ i = n
    BY <1>2, <2>0
  <2>4. \A i \in 1 .. n : ckpts'[i].gen = Live[i]
    BY <1>0, <1>1, <1>2, <2>0, <2>2, <2>3, LiveAfter
  <2>5. n \in 0 .. Len(Live) /\ n \in Nat /\ n \in 0 .. n
    BY <2>0
  <2>6. Cur' = Under(n) /\ \A i \in 0 .. n : CheckpointTree(i)' = Under(i)
    BY <1>1, <2>1, <2>2, <2>4, <2>5, NewGenerationShows
  <2> DEFINE new == [id |-> nextNum, tree |-> Cur]
  <2>7. Snaps' = Append(Snaps, new)
    <3>1. Snaps' = [i \in 1 .. n |-> [id |-> ckpts'[i].id, tree |-> CheckpointTree(i)']]
      BY <2>2 DEF Snaps
    <3>2. \A i \in 1 .. Len(ckpts) : [id |-> ckpts'[i].id, tree |-> CheckpointTree(i)'] = Snaps[i]
      <4>1. \A i \in 1 .. Len(ckpts) : i \in 0 .. n /\ i \in 0 .. Len(ckpts)
        BY <1>2, <2>0
      <4> QED
        BY <1>2, <2>2, <2>6, <4>1 DEF Snaps
    <3>3. [id |-> ckpts'[n].id, tree |-> CheckpointTree(n)'] = new
      BY <1>2, <2>0, <2>2, <2>5, <2>6
    <3>4. Append(Snaps, new) = [i \in 1 .. n |-> IF i = n THEN new ELSE Snaps[i]]
      <4>1. Len(Snaps) = Len(ckpts) /\ Snaps \in Seq([id : Nat, tree : Tree])
        BY <1>0, SnapsType
      <4>2. new \in [id : Nat, tree : Tree]
        BY <1>0, CurType DEF TypeOK
      <4> HIDE DEF new
      <4>3. /\ Append(Snaps, new) \in Seq([id : Nat, tree : Tree])
            /\ Len(Append(Snaps, new)) = n /\ Append(Snaps, new)[n] = new
            /\ \A i \in 1 .. Len(ckpts) : Append(Snaps, new)[i] = Snaps[i]
        BY <1>2, <2>0, <4>1, <4>2
      <4>4. Append(Snaps, new) = [i \in 1 .. n |-> Append(Snaps, new)[i]]
        BY <4>3, SeqIsFunction, Zenon
      <4>5. \A i \in 1 .. n : Append(Snaps, new)[i] = IF i = n THEN new ELSE Snaps[i]
        BY <2>3, <4>3
      <4> QED
        BY <4>4, <4>5, Zenon
    <3> HIDE DEF new
    <3> QED
      BY <1>2, <2>3, <3>1, <3>2, <3>3, <3>4
  <2> QED
    BY <1>2, <1>3, <2>0, <2>1, <2>6, <2>7, MappedRequests
<1>7. ASSUME NEW keep \in 0 .. Len(ckpts), phase = "idle", CanGrow, TruncateTo(keep),
             keep = 0 => ckpts = <<>>
      PROVE  Goal
  <2> DEFINE dead == DeadLayers(keep)
  <2>1. /\ generation' = generation + 1 /\ ckpts' = SubSeq(ckpts, 1, keep)
        /\ Forget(dead) /\ UNCHANGED <<ws, phase, aborted, nextNum>>
    BY <1>7, DiscardShape DEF TruncateTo
  <2>2. /\ Len(ckpts') = keep /\ DOMAIN ckpts' = 1 .. keep /\ keep \in Nat
        /\ \A i \in 1 .. keep : ckpts'[i] = ckpts[i] /\ i \in 1 .. Len(ckpts)
    BY <1>2, <2>1
  <2>3. TableGens(ckpts') = (TableGens(ckpts) \cup {generation}) \ dead
    BY <1>0, <2>1, GensAfterTruncate
  <2> HIDE DEF dead
  <2>4. \A i \in 1 .. keep : Live[i] \in Gen \ dead
    <3>1. \A i \in 1 .. keep : ckpts[i].gen \in TableGens(ckpts')
      BY <2>2 DEF TableGens
    <3> QED
      BY <1>2, <2>2, <2>3, <3>1
  <2>5. \A i \in 1 .. keep : ckpts'[i].gen = Live[i] /\ layers'[Live[i]] = layers[Live[i]]
    BY <1>0, <1>2, <2>1, <2>2, <2>4, ForgetFacts
  <2>6. \A g \in Gen : layers'[g] \in {layers[g], EmptyLayer}
    BY <2>1 DEF Forget
  <2>7. keep \in 0 .. Len(Live)
    BY <1>2
  <2>8. Cur' = Under(keep) /\ \A i \in 0 .. keep : CheckpointTree(i)' = Under(i)
    BY <1>1, <2>1, <2>2, <2>5, <2>6, <2>7, NewGenerationShows
  <2>9. /\ Len(Snaps) = Len(ckpts)
        /\ Snaps = [i \in 1 .. Len(ckpts) |-> [id |-> ckpts[i].id, tree |-> CheckpointTree(i)]]
    BY <1>0, SnapsType DEF Snaps
  <2>10. Snaps' = SubSeq(Snaps, 1, keep)
    <3>1. Snaps' = [i \in 1 .. keep |-> [id |-> ckpts'[i].id, tree |-> CheckpointTree(i)']]
      BY <2>2 DEF Snaps
    <3>2. \A i \in 1 .. keep : [id |-> ckpts'[i].id, tree |-> CheckpointTree(i)'] = Snaps[i]
      BY <1>2, <2>2, <2>8, <2>9
    <3>3. SubSeq(Snaps, 1, keep) = [i \in 1 .. keep |-> Snaps[i]]
      <4>1. Snaps \in Seq([id : Nat, tree : Tree])
        BY <1>0, SnapsType
      <4> QED
        BY <1>2, <2>9, <4>1
    <3> QED
      BY <3>1, <3>2, <3>3
  <2>11. Cur' = IF keep = 0 THEN ws ELSE Snaps[keep].tree
    BY <1>2, <2>2, <2>8, <2>9
  <2>12. keep = 0 => Snaps = <<>>
    BY <1>7 DEF Snaps
  <2> QED
    BY <1>3, <1>7, <2>1, <2>9, <2>10, <2>11, <2>12, MappedRequests
<1>8. ASSUME NEW verb, NEW rc, Refuse(verb, rc)
      PROVE  Goal
  BY <1>4, <1>8 DEF Refuse
<1>9. CASE CommitBegin
  <2>1. /\ phase = "idle" /\ phase' = "merging"
        /\ UNCHANGED <<ws, layers, ckpts, generation, nextNum, aborted>>
    BY <1>9 DEF CommitBegin
  <2> QED
    BY <1>3, <2>1, TreesSame, MappedPublishing
<1>10. ASSUME phase = "merging",
              \/ phase' = "merging" /\ aborted' = aborted
              \/ phase' = "idle" /\ aborted' = TRUE,
              Cur' = Cur, ckpts' = ckpts, nextNum' = nextNum
       PROVE  Goal
  <2>1. ws' \in Tree
    BY <1>1 DEF TypeOK
  <2>2. (TypeOK => /\ Snaps \in Seq([id : Nat, tree : Tree])
                   /\ Len(Snaps) = Len(ckpts) /\ Len(ckpts) \in Nat
                   /\ DOMAIN Snaps = 1 .. Len(ckpts)
                   /\ \A i \in 1 .. Len(ckpts) : Snaps[i].tree \in Tree
                                                 /\ Snaps[i].id = ckpts[i].id)'
    BY SnapsType, PTL
  <2>3. Len(Snaps') = Len(Snaps)
    BY <1>0, <1>1, <1>10, <2>2, SnapsType
  <2>4. \A i \in DOMAIN Snaps : Snaps'[i].id = Snaps[i].id /\ Snaps'[i].tree \in Tree
    BY <1>0, <1>1, <1>10, <2>2, SnapsType
  <2> QED
    BY <1>3, <1>10, <2>1, <2>3, <2>4, MappedPublishing
<1>11. ASSUME NEW p \in Path, MergeVisit(p) \/ MergeFail(p)
       PROVE  Goal
  <2>1. /\ phase = "merging" /\ Walking /\ Walked[p] # "none"
        /\ UNCHANGED <<layers, ckpts, generation, nextNum>>
        /\ \/ \E e \in TakenFor(p) : ws' \in VisitResults(p, e)
           \/ ws' \in FailedVisits(ws, p, Walked[p])
        /\ \/ phase' = "merging" /\ aborted' = aborted
           \/ phase' = "idle" /\ aborted' = TRUE
    BY <1>11 DEF MergeVisit, MergeFail, AbortCommit, Walking, VisitNext
  <2>2. mi \in 1 .. Len(Live)
    BY <1>0, <1>2, <2>1 DEF Walking, Position
  <2>3. Cur' = Cur
    BY <1>0, <2>1, <2>2, VisitKeepsShown DEF Cur
  <2> QED
    BY <1>10, <2>1, <2>3
<1>12. CASE MergeNextLayer
  BY <1>4, <1>12 DEF MergeNextLayer
<1>13. CASE MergeNoLayer
  BY <1>10, <1>13, TreesSame DEF MergeNoLayer, AbortCommit
<1>14. CASE CommitFinish
  <2>1. /\ phase = "merging" /\ mi > Len(Live) /\ phase' = "idle" /\ aborted' = FALSE
        /\ generation' = generation + 1 /\ ckpts' = <<>> /\ UNCHANGED <<ws, nextNum>>
        /\ \A g \in Gen : layers'[g] \in {layers[g], EmptyLayer}
    BY <1>14, DiscardShape DEF CommitFinish, Forget
  <2>2. Cur' = Under(0)
    <3>1. Len(ckpts') = 0 /\ 0 \in 0 .. Len(Live)
      BY <1>2, <2>1
    <3> QED
      BY <1>1, <2>1, <3>1, NewGenerationShows
  <2>3. Snaps' = <<>>
    BY <2>1 DEF Snaps
  <2>4. aborted \/ \A p \in Path : ws[p] = Cur[p] \/ Unpublished(Cur, p)
    BY <2>1 DEF PublishInv, Serving, CommitPublishes, MergeDone, WorkspaceIsShown, Cur
  <2> QED
    BY <1>2, <1>3, <2>1, <2>2, <2>3, <2>4, MappedPublishing
<1>15. CASE RunBegin \/ RunEnd \/ Diff
  BY <1>4, <1>15 DEF RunBegin, RunEnd, Diff
<1>16. CASE CommandOp
  <2>1. mnt = Live /\ mnt \in Seq(Gen) /\ mnt # <<>> /\ WriteThrough(mnt) /\ phase = "running"
    BY <1>0, <1>16 DEF CommandOp, MountInv, MountMatchesTable, Unmounted, TypeOK
  <2>2. mnt[Len(mnt)] = generation
    BY <1>0, <2>1, StackType DEF Live, TypeOK
  <2>3. /\ \A g \in Gen \ {generation} : layers'[g] = layers[g]
        /\ UNCHANGED <<ws, ckpts, generation, nextNum, phase, aborted>>
    BY <1>0, <2>1, <2>2, WriteThroughFacts
  <2>4. ASSUME NEW j \in 1 .. Len(ckpts)
        PROVE  layers'[ckpts[j].gen] = layers[ckpts[j].gen]
    <3>1. ckpts[j].gen \in Gen
      BY <1>2
    <3>2. ckpts[j].gen \in Int /\ generation \in Int
      BY <1>0, <3>1, BoundsAssumption DEF TypeOK, Gen
    <3>3. ckpts[j].gen < generation
      BY <1>0, <1>2 DEF TableOrdered
    <3> QED
      BY <2>3, <3>1, <3>2, <3>3
  <2>5. ASSUME NEW i \in 1 .. Len(ckpts)
        PROVE  CheckpointTree(i)' = CheckpointTree(i)
    <3>1. \A j \in 1 .. i : j \in 1 .. Len(ckpts)
      BY <1>2
    <3> QED
      BY <1>2, <2>3, <2>4, <3>1, TreeOfSameLayers
  <2>6. Snaps' = Snaps
    BY <2>3, <2>5 DEF Snaps
  <2>7. Cur' \in Tree
    <3>1. (TypeOK => Cur \in Tree)'
      BY CurType, PTL
    <3> QED
      BY <1>1, <3>1
  <2>8. Status = "open" /\ Status' = Status
    BY <1>3, <2>1, <2>3 DEF Status
  <2> QED
    BY <2>3, <2>6, <2>7, <2>8, MappedRequests
<1>17. CASE StrayOp
  BY <1>0, <1>17 DEF StrayOp
<1>18. CASE Shutdown \/ ClientGone
  <2>1. phase = "idle" /\ phase' = "closed" /\ UNCHANGED <<ws, nextNum, aborted>>
    BY <1>18 DEF Shutdown, ClientGone
  <2> QED
    BY <1>3, <2>1, MappedRequests
<1>19. CASE UNCHANGED vars
  BY <1>4, <1>19 DEF vars
<1> HIDE DEF Goal
<1> QED
  BY <1>0, <1>5, <1>6, <1>7, <1>8, <1>9, <1>11, <1>12, <1>13, <1>14, <1>15, <1>16, <1>17,
     <1>18, <1>19, NextCases

(* Checkpoint, rollback, commit and the commands between them have the     *)
(* effect that the store of snapshots promises, whatever mounts, unmounts, *)
(* mkdirs of scratch directories, merges and spawns fail; provided no      *)
(* process of a command outlives its answer and no mkdir of the merge      *)
(* fails unnoticed.                                                        *)
THEOREM SupervisorImplementsSnapshots ==
  ASSUME Leftovers = {}, "mkdir_p" \notin Faults, "getxattr" \notin Faults
  PROVE  Spec => ImplementsSnapshots
<1>1. Init => PublishInv
  BY DEF Init, PublishInv, Serving
<1>2. BaseInv /\ [Next]_vars => BaseInv'
  BY BaseStep
<1>3. BaseInv /\ PublishInv /\ [Next]_vars => PublishInv'
  BY PublishStep
<1>4. BaseInv /\ PublishInv /\ [Next]_vars => [Abstract!SNext]_(Abstract!svars)
  BY RefinedStep
<1> QED
  BY <1>1, <1>2, <1>3, <1>4, BaseInit, RefinedInit, PTL
  DEF Spec, ImplementsSnapshots, Abstract!SSpec
=============================================================================
