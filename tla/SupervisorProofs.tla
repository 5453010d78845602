-------------------------- MODULE SupervisorProofs --------------------------
(* Theorems about Supervisor, for every workspace, every number of         *)
(* checkpoints and every choice of faults.                                 *)
EXTENDS Supervisor, OverlayProofs

(* Abbreviations of Supervisor that the provers always see through. *)
USE DEF DeadWork, NewCheckpoint, TableFull

----------------------------------------------------------------------------
(* Types and the order of the table. *)

(* The bound on generations holds where it is needed: a commit that has    *)
(* begun may open one more.                                                *)
Room ==
  /\ phase = "starting" => generation = 0 /\ ckpts = <<>>
  /\ phase = "merging" => generation < MaxGen

(* A layer's entries have their parents in the layer. *)
LayersClosed == \A g \in Gen : Closed(layers[g])

TableInv == TypeOK /\ Room /\ TableOrdered /\ LayersClosed

(* A stack is a sequence of generations as long as the table and one more. *)
LEMMA StackType ==
  ASSUME NEW cks \in Seq(Checkpoints), NEW live \in Gen
  PROVE  /\ StackOf(cks, live) \in Seq(Gen)
         /\ Len(StackOf(cks, live)) = Len(cks) + 1
         /\ DOMAIN StackOf(cks, live) = 1 .. Len(cks) + 1
         /\ StackOf(cks, live)[Len(cks) + 1] = live
         /\ \A i \in 1 .. Len(cks) : StackOf(cks, live)[i] = cks[i].gen
<1>1. Len(cks) \in Nat /\ \A i \in 1 .. Len(cks) : cks[i] \in Checkpoints
  OBVIOUS
<1>2. StackOf(cks, live) \in [1 .. Len(cks) + 1 -> Gen]
  BY <1>1 DEF StackOf, Checkpoints
<1> QED
  BY <1>1, <1>2 DEF StackOf

(* What the common tail of CHECKPOINT, ROLLBACK and COMMIT establishes.    *)
LEMMA NewGenerationFacts ==
  ASSUME NEW cks \in Seq(Checkpoints), NEW ups \in SUBSET Gen, NEW wks \in SUBSET Gen,
         NEW verb \in Verbs, generation \in Gen, generation < MaxGen,
         NewGeneration(cks, ups, wks, verb)
  PROVE  /\ generation' = generation + 1
         /\ generation' \in Gen
         /\ uppers' \subseteq ups \cup {generation + 1}
         /\ works' \subseteq wks \cup {generation + 1}
         /\ uppers' \subseteq Gen /\ works' \subseteq Gen
         /\ "mkdir" \notin Faults => /\ uppers' = ups \cup {generation + 1}
                                     /\ works' = wks \cup {generation + 1}
         /\ mnt' \in {Unmounted, StackOf(cks, generation + 1)}
         /\ mnt' \in Seq(Gen)
         /\ reply' \in [verb : Verbs, rc : Codes]
         /\ mnt' = Unmounted => reply'.rc # "OK"
<1> USE BoundsAssumption
<1>1. generation' = generation + 1 /\ generation + 1 \in Gen
  BY DEF NewGeneration, Gen
<1>2. PICK u \in MkdirResults, w \in MkdirResults :
        /\ uppers' = ups \cup {g \in {generation + 1} : u}
        /\ works' = wks \cup {g \in {generation + 1} : w}
  BY DEF NewGeneration
<1>3. "mkdir" \notin Faults => u = TRUE /\ w = TRUE
  BY DEF MkdirResults, May
<1>4. PICK rc \in Codes : remount_current(cks, generation + 1, rc) /\ Answer(verb, rc)
  BY DEF NewGeneration
<1>5. StackOf(cks, generation + 1) \in Seq(Gen) /\ StackOf(cks, generation + 1) # <<>>
  BY <1>1, StackType
<1>6. mnt' = IF rc = "OK" THEN StackOf(cks, generation + 1) ELSE Unmounted
  BY <1>4 DEF remount_current
<1>7. reply' = [verb |-> verb, rc |-> rc]
  BY <1>4 DEF Answer
<1> QED
  BY <1>1, <1>2, <1>3, <1>5, <1>6, <1>7 DEF Unmounted

(* A layer shows nodes.                                                    *)
LEMMA NodeOfType ==
  ASSUME NEW L \in Layer, NEW p \in Path
  PROVE  NodeOf(L, p) \in Node
<1>1. L[p] \in Entry
  BY DEF Layer
<1> QED
  BY <1>1, ContentAssumption DEF NodeOf, Entry, Node, Reserved

(* The steps by what they do: the refusals and the rollbacks share a form. *)
LEMMA NextCases ==
  ASSUME TypeOK, [Next]_vars
  PROVE  \/ Start \/ Seal \/ CommitBegin \/ CommitFinish
         \/ \E keep \in 0 .. Len(ckpts) : /\ phase = "idle" /\ CanGrow /\ TruncateTo(keep)
                                          /\ keep = 0 => ckpts = <<>>
         \/ \E verb \in Verbs, rc \in Codes \ {"OK"} : Refuse(verb, rc)
         \/ \E p \in Path : MergeVisit(p) \/ MergeFail(p)
         \/ MergeNextLayer \/ MergeNoLayer
         \/ RunBegin \/ CommandOp \/ RunEnd \/ StrayOp \/ Diff
         \/ Shutdown \/ ClientGone \/ UNCHANGED vars
<1> ckpts \in Seq(Checkpoints)
  BY DEF TypeOK
<1>1. CASE CheckpointRefused \/ RollbackRefused \/ CommitRefused \/ RunRefused
  BY <1>1 DEF CheckpointRefused, RollbackRefused, CommitRefused, RunRefused, Verbs, Codes
<1>2. CASE RollbackLatest
  BY <1>2 DEF RollbackLatest
<1>3. CASE \E i \in DOMAIN ckpts : RollbackTo(ckpts[i].id)
  BY <1>3 DEF RollbackTo
<1> QED
  BY <1>1, <1>2, <1>3 DEF Next

(* A stack of layers over a tree shows a tree: the newest decider is one   *)
(* of the layers.                                                          *)
LEMMA ViewType ==
  ASSUME NEW t \in Tree, NEW n \in Nat, NEW ls \in [1 .. n -> Layer]
  PROVE  View(t, ls) \in Tree
<1>1. ASSUME NEW p \in Path, Deciders(ls, p) # {}
      PROVE  NodeOf(ls[Newest(Deciders(ls, p))], p) \in Node
  <2>1. Deciders(ls, p) \in SUBSET (1 .. n)
    BY DEF Deciders
  <2>2. Newest(Deciders(ls, p)) \in 1 .. n
    BY <1>1, <2>1, NewestIn
  <2> QED
    BY <2>2, NodeOfType
<1> QED
  BY <1>1 DEF View, Tree

(* A stack of generations gives a stack of layers.                         *)
LEMMA LayersOfType ==
  ASSUME TypeOK, NEW stack \in Seq(Gen)
  PROVE  /\ LayersOf(stack) \in [1 .. Len(stack) -> Layer]
         /\ Shown(stack) \in Tree
         /\ stack # <<>> => Len(stack) \in Nat /\ Len(stack) > 0 /\ stack[Len(stack)] \in Gen
<1>1. Len(stack) \in Nat /\ \A i \in 1 .. Len(stack) : stack[i] \in Gen
  OBVIOUS
<1>2. LayersOf(stack) \in [1 .. Len(stack) -> Layer]
  BY <1>1 DEF LayersOf, TypeOK
<1>3. Shown(stack) \in Tree
  BY <1>1, <1>2, ViewType DEF Shown, TypeOK
<1>4. stack # <<>> => Len(stack) > 0
  OBVIOUS
<1> QED
  BY <1>1, <1>2, <1>3, <1>4

(* An operation through a mount changes the top layer of its stack only,   *)
(* and leaves it a layer.                                                  *)
LEMMA WriteThroughFacts ==
  ASSUME TypeOK, LayersClosed, NEW stack \in Seq(Gen), stack # <<>>, WriteThrough(stack)
  PROVE  /\ layers' \in [Gen -> Layer]
         /\ LayersClosed'
         /\ \A g \in Gen \ {stack[Len(stack)]} : layers'[g] = layers[g]
         /\ UNCHANGED <<ws, uppers, works, ckpts, generation, nextNum, mnt, phase,
                        mi, seen, reply, leaked, aborted>>
<1> DEFINE top == stack[Len(stack)]
           low == Shown(SubSeq(stack, 1, Len(stack) - 1))
<1>1. top \in Gen /\ Len(stack) \in Nat /\ Len(stack) > 0
  BY LayersOfType
<1>2. PICK U \in UpperSteps(layers[top], low, Shown(stack)) :
        layers' = [layers EXCEPT ![top] = U]
  BY DEF WriteThrough
<1>3. layers[top] \in Layer /\ Closed(layers[top])
  BY <1>1 DEF TypeOK, LayersClosed
<1>4. LayersOf(stack)[Len(stack)] = layers[top]
  BY <1>1 DEF LayersOf
<1>5. ASSUME NEW q \in Path, Decides(layers[top], q)
      PROVE  Shown(stack)[q] = NodeOf(layers[top], q)
  BY <1>1, <1>4, <1>5, LayersOfType, TopDecides DEF Shown
<1> HIDE DEF top, low
<1>6. U \in Layer /\ Closed(U)
  BY <1>2, <1>3, <1>5, UpperStepsClosed
<1>7. layers' \in [Gen -> Layer] /\ \A g \in Gen : Closed(layers'[g])
  BY <1>1, <1>2, <1>6 DEF TypeOK, LayersClosed
<1>8. \A g \in Gen \ {top} : layers'[g] = layers[g]
  BY <1>2 DEF TypeOK
<1> QED
  BY <1>7, <1>8 DEF WriteThrough, LayersClosed, top

(* A fresh upper directory is a closed layer. *)
LEMMA EmptyLayerType == EmptyLayer \in Layer /\ Closed(EmptyLayer)
  BY DEF EmptyLayer, Layer, Entry, Closed

(* Purging layers keeps the types.                                         *)
LEMMA ForgetFacts ==
  ASSUME TypeOK, LayersClosed, NEW gens, Forget(gens)
  PROVE  /\ layers' \in [Gen -> Layer]
         /\ LayersClosed'
         /\ \A g \in Gen \ gens : layers'[g] = layers[g]
         /\ \A g \in Gen \cap gens : layers'[g] = EmptyLayer
  BY EmptyLayerType DEF Forget, TypeOK, LayersClosed

(* The purges and the new generation together: the dead layers' contents   *)
(* go, and the new table is mounted or the answer is an error.             *)
LEMMA DiscardFacts ==
  ASSUME TypeOK, NEW cks \in Seq(Checkpoints), NEW dead, NEW verb \in Verbs,
         generation < MaxGen, Discard(cks, dead, verb)
  PROVE  /\ generation' = generation + 1 /\ generation' \in Gen
         /\ mnt' \in {Unmounted, StackOf(cks, generation')} /\ mnt' \in Seq(Gen)
         /\ reply' \in [verb : Verbs, rc : Codes]
         /\ mnt' = Unmounted => reply'.rc # "OK"
         /\ uppers' \subseteq Gen /\ works' \subseteq Gen
         /\ leaked' \in [uppers : SUBSET Gen, works : SUBSET Gen]
         /\ Forget(dead)
<1>1. PICK ku \in Survivors(dead, uppers), kw \in Survivors({generation}, works) :
        /\ PurgeLeaves(dead, ku, kw)
        /\ NewGeneration(cks, uppers \ (dead \ ku), works \ ({generation} \ kw), verb)
  BY DEF Discard
<1>2. /\ leaked \in [uppers : SUBSET Gen, works : SUBSET Gen] /\ generation \in Gen
      /\ uppers \in SUBSET Gen /\ works \in SUBSET Gen
  BY DEF TypeOK
<1>3. leaked' \in [uppers : SUBSET Gen, works : SUBSET Gen]
  BY <1>1, <1>2 DEF PurgeLeaves, Survivors
<1>4. uppers \ (dead \ ku) \in SUBSET Gen /\ works \ ({generation} \ kw) \in SUBSET Gen
  BY <1>2
<1> DEFINE ups == uppers \ (dead \ ku)
           wks == works \ ({generation} \ kw)
<1>5. NewGeneration(cks, ups, wks, verb) /\ ups \in SUBSET Gen /\ wks \in SUBSET Gen
  BY <1>1, <1>4
<1> HIDE DEF ups, wks
<1>6. /\ generation' = generation + 1 /\ generation' \in Gen
      /\ mnt' \in {Unmounted, StackOf(cks, generation')} /\ mnt' \in Seq(Gen)
      /\ reply' \in [verb : Verbs, rc : Codes]
      /\ mnt' = Unmounted => reply'.rc # "OK"
      /\ uppers' \subseteq Gen /\ works' \subseteq Gen
  BY <1>2, <1>5, NewGenerationFacts
<1> QED
  BY <1>1, <1>3, <1>6 DEF PurgeLeaves

(* The same without its types; a discard of no layer changes none.         *)
LEMMA DiscardShape ==
  ASSUME NEW cks, NEW dead, NEW verb, Discard(cks, dead, verb)
  PROVE  /\ generation' = generation + 1
         /\ Forget(dead)
         /\ TypeOK /\ dead = {} => layers' = layers
         /\ \E ups, wks : NewGeneration(cks, ups, wks, verb)
<1>1. PICK ku \in Survivors(dead, uppers), kw \in Survivors({generation}, works) :
        /\ PurgeLeaves(dead, ku, kw)
        /\ NewGeneration(cks, uppers \ (dead \ ku), works \ ({generation} \ kw), verb)
  BY DEF Discard
<1>2. Forget(dead)
  BY <1>1 DEF PurgeLeaves
<1>3. ASSUME TypeOK, dead = {} PROVE layers' = layers
  <2>1. layers' = [g \in Gen |-> layers[g]]
    BY <1>2, <1>3 DEF Forget
  <2>2. layers \in [Gen -> Layer]
    BY <1>3 DEF TypeOK
  <2> QED
    BY <2>1, <2>2
<1>4. generation' = generation + 1
  BY <1>1 DEF NewGeneration
<1> QED
  BY <1>1, <1>2, <1>3, <1>4

(* What the purges fail to remove is recorded, everything else that is     *)
(* dead goes.                                                              *)
PurgeRecords(dead, ku, kw) ==
  /\ leaked'.uppers = leaked.uppers \cup ku
  /\ leaked'.works = leaked.works \cup kw
  /\ uppers' \subseteq (uppers \ (dead \ ku)) \cup {generation + 1}
  /\ works' \subseteq (works \ ({generation} \ kw)) \cup {generation + 1}
  /\ "mkdir" \notin Faults => /\ uppers' = (uppers \ (dead \ ku)) \cup {generation + 1}
                              /\ works' = (works \ ({generation} \ kw)) \cup {generation + 1}
  /\ "purge" \notin Faults /\ strays = {} => ku = {} /\ kw = {}

LEMMA DiscardRecords ==
  ASSUME NEW cks, NEW dead, NEW verb, Discard(cks, dead, verb)
  PROVE  \E ku \in SUBSET (dead \cap uppers), kw \in SUBSET ({generation} \cap works) :
           PurgeRecords(dead, ku, kw)
<1>1. PICK ku \in Survivors(dead, uppers), kw \in Survivors({generation}, works) :
        /\ PurgeLeaves(dead, ku, kw)
        /\ NewGeneration(cks, uppers \ (dead \ ku), works \ ({generation} \ kw), verb)
  BY DEF Discard
<1>2. ku \in SUBSET (dead \cap uppers) /\ kw \in SUBSET ({generation} \cap works)
  BY DEF Survivors
<1>3. "purge" \notin Faults /\ strays = {} => ku = {} /\ kw = {}
  BY DEF Survivors, PurgeMayFail, May
<1>4. leaked'.uppers = leaked.uppers \cup ku /\ leaked'.works = leaked.works \cup kw
  BY <1>1 DEF PurgeLeaves
<1>5. PICK u \in MkdirResults, w \in MkdirResults :
        /\ uppers' = (uppers \ (dead \ ku)) \cup {g \in {generation + 1} : u}
        /\ works' = (works \ ({generation} \ kw)) \cup {g \in {generation + 1} : w}
  BY <1>1 DEF NewGeneration
<1>6. "mkdir" \notin Faults => u = TRUE /\ w = TRUE
  BY DEF MkdirResults, May
<1>7. PurgeRecords(dead, ku, kw)
  BY <1>3, <1>4, <1>5, <1>6 DEF PurgeRecords
<1> QED
  BY <1>2, <1>7

(* The types, the bound and the order of the table hold initially.         *)
LEMMA TableInit == Init => TableInv
<1> SUFFICES ASSUME Init PROVE TableInv
  OBVIOUS
<1> USE BoundsAssumption
<1>1. 0 \in Gen
  BY DEF Gen
<1>2. layers \in [Gen -> Layer] /\ LayersClosed
  BY EmptyLayerType DEF Init, LayersClosed
<1>3. TypeOK
  <2>1. ws \in Tree /\ phase \in Phases /\ reply \in [verb : Verbs, rc : Codes]
    BY DEF Init, Phases, Verbs, Codes
  <2>2. ckpts \in Seq(Checkpoints) /\ mnt \in Seq(Gen)
    BY DEF Init, Unmounted
  <2>3. aborted \in BOOLEAN /\ leaked \in [uppers : SUBSET Gen, works : SUBSET Gen]
    BY DEF Init
  <2>4. /\ uppers \subseteq Gen /\ works \subseteq Gen /\ seen \subseteq Path
        /\ strays \subseteq [kind : LeftoverKinds, stack : Seq(Gen) \ {<<>>}]
        /\ generation \in Gen /\ nextNum \in Nat /\ mi \in Nat
    BY <1>1 DEF Init
  <2> QED
    BY <1>2, <2>1, <2>2, <2>3, <2>4 DEF TypeOK
<1>4. Room /\ TableOrdered
  BY DEF Init, Room, TableOrdered
<1> QED
  BY <1>2, <1>3, <1>4 DEF TableInv

(* They are preserved by every step.                                       *)
LEMMA TableStep == TableInv /\ [Next]_vars => TableInv'
<1> SUFFICES ASSUME TableInv, [Next]_vars PROVE TableInv'
  OBVIOUS
<1> USE BoundsAssumption
<1>0. TypeOK /\ Room /\ TableOrdered /\ LayersClosed
  BY DEF TableInv
<1>1. CASE Start
  <2>1. generation \in Gen /\ generation < MaxGen /\ ckpts = <<>>
    BY <1>0, <1>1 DEF Start, Room, TypeOK
  <2>2. NewGeneration(<<>>, {}, {}, "CREATE") /\ <<>> \in Seq(Checkpoints) /\ "CREATE" \in Verbs
    BY <1>1 DEF Start, Verbs
  <2>3. /\ generation' \in Gen /\ uppers' \subseteq Gen /\ works' \subseteq Gen
        /\ mnt' \in Seq(Gen) /\ reply' \in [verb : Verbs, rc : Codes]
    BY <2>1, <2>2, NewGenerationFacts
  <2>4. /\ phase' \in {"idle", "closed"}
        /\ UNCHANGED <<ws, layers, ckpts, nextNum, mi, seen, strays, leaked, aborted>>
    BY <1>1 DEF Start
  <2>5. TypeOK' /\ Room'
    BY <1>0, <2>3, <2>4 DEF TypeOK, Room, Phases
  <2>6. TableOrdered' /\ LayersClosed'
    BY <1>0, <2>1, <2>4 DEF TableOrdered, LayersClosed
  <2> QED
    BY <2>5, <2>6 DEF TableInv
<1>2. CASE Seal
  <2> DEFINE new == [id |-> nextNum, gen |-> generation, tree |-> Shown(Live)]
  <2>1. /\ generation \in Gen /\ generation < MaxGen /\ nextNum \in Nat
        /\ ckpts \in Seq(Checkpoints) /\ Len(ckpts) < MaxCheckpoints
    BY <1>0, <1>2 DEF Seal, CanGrow, TypeOK
  <2>2. new \in Checkpoints
    BY <1>0, <2>1, StackType, LayersOfType DEF Checkpoints, Live
  <2> HIDE DEF new
  <2>3. /\ ckpts' = Append(ckpts, new) /\ nextNum' = nextNum + 1
        /\ Discard(ckpts', {}, "CHECKPOINT") /\ "CHECKPOINT" \in Verbs
        /\ phase' = "idle"
        /\ UNCHANGED <<ws, mi, seen, strays, aborted>>
    BY <1>2 DEF Seal, new, Verbs
  <2>4. ckpts' \in Seq(Checkpoints) /\ Len(ckpts') = Len(ckpts) + 1
    BY <2>1, <2>2, <2>3
  <2>5. /\ generation' = generation + 1 /\ generation' \in Gen
        /\ uppers' \subseteq Gen /\ works' \subseteq Gen
        /\ mnt' \in Seq(Gen) /\ reply' \in [verb : Verbs, rc : Codes]
        /\ leaked' \in [uppers : SUBSET Gen, works : SUBSET Gen]
        /\ Forget({})
    BY <1>0, <2>1, <2>3, <2>4, DiscardFacts
  <2>a. layers' \in [Gen -> Layer] /\ LayersClosed'
    BY <1>0, <2>5, ForgetFacts
  <2>6. TypeOK' /\ Room'
    BY <1>0, <2>1, <2>3, <2>4, <2>5, <2>a DEF TypeOK, Room, Phases
  <2>7. /\ \A i \in 1 .. Len(ckpts) : ckpts'[i] = ckpts[i] /\ ckpts[i] \in Checkpoints
        /\ ckpts'[Len(ckpts) + 1] = new
        /\ new.id = nextNum /\ new.gen = generation
    BY <2>1, <2>2, <2>3 DEF new
  <2>8. \A i, j \in DOMAIN ckpts' : i < j => /\ ckpts'[i].id < ckpts'[j].id
                                            /\ ckpts'[i].gen < ckpts'[j].gen
    <3> SUFFICES ASSUME NEW i \in DOMAIN ckpts', NEW j \in DOMAIN ckpts', i < j
                 PROVE  ckpts'[i].id < ckpts'[j].id /\ ckpts'[i].gen < ckpts'[j].gen
      OBVIOUS
    <3>1. i \in 1 .. Len(ckpts) /\ (j \in 1 .. Len(ckpts) \/ j = Len(ckpts) + 1)
      BY <2>1, <2>4
    <3>2. i \in DOMAIN ckpts /\ ckpts'[i] = ckpts[i]
      BY <2>1, <2>7, <3>1
    <3>3. CASE j \in 1 .. Len(ckpts)
      BY <1>0, <2>1, <2>7, <3>2, <3>3 DEF TableOrdered
    <3>4. CASE j = Len(ckpts) + 1
      BY <1>0, <2>7, <3>2, <3>4 DEF TableOrdered
    <3> QED
      BY <3>1, <3>3, <3>4
  <2>9. \A i \in DOMAIN ckpts' : ckpts'[i].id < nextNum' /\ ckpts'[i].gen < generation'
    <3> SUFFICES ASSUME NEW i \in DOMAIN ckpts'
                 PROVE  ckpts'[i].id < nextNum' /\ ckpts'[i].gen < generation'
      OBVIOUS
    <3>1. nextNum' = nextNum + 1 /\ generation' = generation + 1 /\ generation \in Nat
      BY <2>1, <2>3, <2>5 DEF Gen
    <3>2. CASE i = Len(ckpts) + 1
      BY <2>1, <2>7, <3>1, <3>2
    <3>3. CASE i \in 1 .. Len(ckpts)
      <4>1. /\ ckpts'[i] = ckpts[i] /\ ckpts[i].id \in Nat /\ ckpts[i].gen \in Nat
            /\ ckpts[i].id < nextNum /\ ckpts[i].gen < generation
        BY <1>0, <2>1, <2>7, <3>3 DEF TableOrdered, Checkpoints, Gen
      <4> QED
        BY <2>1, <3>1, <4>1
    <3> QED
      BY <2>1, <2>4, <3>2, <3>3
  <2>10. TableOrdered' /\ LayersClosed'
    BY <1>0, <2>1, <2>3, <2>4, <2>8, <2>9, <2>a DEF TableOrdered
  <2> QED
    BY <2>6, <2>10 DEF TableInv
<1>3. ASSUME NEW keep \in 0 .. Len(ckpts), phase = "idle", CanGrow, TruncateTo(keep)
      PROVE  TableInv'
  <2> DEFINE dead == DeadLayers(keep)
  <2>1. /\ generation \in Gen /\ generation < MaxGen
        /\ ckpts \in Seq(Checkpoints) /\ Len(ckpts) \in Nat
    BY <1>0, <1>3 DEF CanGrow, TypeOK
  <2>2. /\ ckpts' = SubSeq(ckpts, 1, keep)
        /\ Discard(ckpts', dead, "ROLLBACK") /\ "ROLLBACK" \in Verbs
        /\ phase' = "idle"
        /\ UNCHANGED <<ws, nextNum, mi, seen, strays, aborted>>
    BY <1>3 DEF TruncateTo, Verbs
  <2> HIDE DEF dead
  <2>3. /\ ckpts' \in Seq(Checkpoints) /\ Len(ckpts') = keep
        /\ \A i \in 1 .. keep : ckpts'[i] = ckpts[i]
    BY <2>1, <2>2
  <2>4. /\ generation' = generation + 1 /\ generation' \in Gen
        /\ uppers' \subseteq Gen /\ works' \subseteq Gen
        /\ mnt' \in Seq(Gen) /\ reply' \in [verb : Verbs, rc : Codes]
        /\ leaked' \in [uppers : SUBSET Gen, works : SUBSET Gen]
        /\ Forget(dead)
    BY <1>0, <2>1, <2>2, <2>3, DiscardFacts
  <2>5. layers' \in [Gen -> Layer] /\ LayersClosed'
    BY <1>0, <2>4, ForgetFacts
  <2>6. TypeOK' /\ Room'
    BY <1>0, <2>2, <2>3, <2>4, <2>5 DEF TypeOK, Room, Phases
  <2>7. \A i \in 1 .. keep : ckpts[i] \in Checkpoints
    BY <2>1
  <2>8. TableOrdered'
    <3>1. \A i \in DOMAIN ckpts' : i \in DOMAIN ckpts /\ ckpts'[i] = ckpts[i]
      BY <2>1, <2>3
    <3>2. \A i \in DOMAIN ckpts' : ckpts'[i].gen < generation'
      BY <1>0, <2>1, <2>3, <2>4, <2>7, <3>1 DEF TableOrdered, Checkpoints, Gen
    <3>3. Len(ckpts') <= MaxCheckpoints
      BY <1>0, <2>1, <2>3 DEF TableOrdered
    <3> QED
      BY <1>0, <2>2, <3>1, <3>2, <3>3 DEF TableOrdered
  <2> QED
    BY <2>5, <2>6, <2>8 DEF TableInv
<1>4. ASSUME NEW verb \in Verbs, NEW rc \in Codes, Refuse(verb, rc)
      PROVE  TableInv'
  BY <1>0, <1>4 DEF Refuse, Answer, TableInv, TypeOK, Room, TableOrdered, LayersClosed
<1>5. CASE CommitBegin
  BY <1>0, <1>5 DEF CommitBegin, CanGrow, Unmounted, TableInv, TypeOK, Room,
     TableOrdered, LayersClosed, Phases
<1>6. ASSUME NEW p \in Path, MergeVisit(p)
      PROVE  TableInv'
  <2>1. Walked \in Layer
    BY <1>0, <1>6, StackType DEF MergeVisit, Walking, Walked, Live, TypeOK
  <2>2. PICK e \in TakenFor(p) : ws' \in VisitResults(p, e)
    BY <1>6 DEF MergeVisit
  <2>3. e \in Entry
    BY <2>1, <2>2 DEF TakenFor, Layer, Entry
  <2>4. ws' \in Tree
    BY <1>0, <2>2, <2>3, VisitType DEF VisitResults, TypeOK
  <2> QED
    BY <1>0, <1>6, <2>4 DEF MergeVisit, TableInv, TypeOK, Room, TableOrdered, LayersClosed
<1>7. CASE MergeNextLayer
  BY <1>0, <1>7 DEF MergeNextLayer, TableInv, TypeOK, Room, TableOrdered, LayersClosed
<1>8. ASSUME AbortCommit, ws' \in Tree
      PROVE  TableInv'
  <2>1. mnt' \in Seq(Gen)
    BY <1>0, <1>8, StackType DEF AbortCommit, remount_current, Unmounted, TypeOK
  <2> QED
    BY <1>0, <1>8, <2>1 DEF AbortCommit, Answer, TableInv, TypeOK, Room, TableOrdered,
       LayersClosed, Phases, Verbs, Codes
<1>9. ASSUME NEW p \in Path, MergeFail(p)
      PROVE  TableInv'
  <2>1. Walked \in Layer
    BY <1>0, <1>9, StackType DEF MergeFail, Walking, Walked, Live, TypeOK
  <2>2. ws' \in Tree
    BY <1>0, <1>9, <2>1, VisitType DEF MergeFail, TypeOK, Layer
  <2> QED
    BY <1>8, <1>9, <2>2 DEF MergeFail
<1>10. CASE MergeNoLayer
  BY <1>0, <1>8, <1>10 DEF MergeNoLayer, TypeOK
<1>11. CASE CommitFinish
  <2>1. generation \in Gen /\ generation < MaxGen /\ <<>> \in Seq(Checkpoints)
    BY <1>0, <1>11 DEF CommitFinish, Room, TypeOK
  <2>2. /\ ckpts' = <<>>
        /\ Discard(<<>>, TableGens(ckpts) \cup {generation}, "COMMIT") /\ "COMMIT" \in Verbs
        /\ phase' = "idle" /\ mi' = 0 /\ seen' = {} /\ aborted' = FALSE
        /\ UNCHANGED <<ws, nextNum, strays>>
    BY <1>11 DEF CommitFinish, Verbs
  <2>3. /\ generation' \in Gen /\ uppers' \subseteq Gen /\ works' \subseteq Gen
        /\ mnt' \in Seq(Gen) /\ reply' \in [verb : Verbs, rc : Codes]
        /\ leaked' \in [uppers : SUBSET Gen, works : SUBSET Gen]
        /\ Forget(TableGens(ckpts) \cup {generation})
    BY <1>0, <2>1, <2>2, DiscardFacts
  <2>4. layers' \in [Gen -> Layer] /\ LayersClosed'
    BY <1>0, <2>3, ForgetFacts
  <2>5. TypeOK'
    <3>1. ckpts' \in Seq(Checkpoints) /\ phase' \in Phases /\ mi' \in Nat
      BY <2>1, <2>2 DEF Phases
    <3>2. aborted' \in BOOLEAN
      BY <2>2
    <3> QED
      BY <1>0, <2>2, <2>3, <2>4, <3>1, <3>2 DEF TypeOK
  <2>6. Room' /\ TableOrdered'
    BY <2>2 DEF Room, TableOrdered
  <2> QED
    BY <2>4, <2>5, <2>6 DEF TableInv
<1>12. CASE RunBegin
  BY <1>0, <1>12 DEF RunBegin, TableInv, TypeOK, Room, TableOrdered, LayersClosed, Phases
<1>13. CASE CommandOp
  <2>1. /\ layers' \in [Gen -> Layer] /\ LayersClosed'
        /\ UNCHANGED <<ws, uppers, works, ckpts, generation, nextNum, mnt, phase,
                       mi, seen, strays, reply, leaked, aborted>>
    BY <1>0, <1>13, WriteThroughFacts DEF CommandOp, TypeOK, Unmounted
  <2> QED
    BY <1>0, <2>1 DEF TableInv, TypeOK, Room, TableOrdered
<1>14. CASE RunEnd
  <2>1. strays' \subseteq [kind : LeftoverKinds, stack : Seq(Gen) \ {<<>>}]
    BY <1>0, <1>14 DEF RunEnd, TypeOK, Unmounted
  <2> QED
    BY <1>0, <1>14, <2>1 DEF RunEnd, Answer, TableInv, TypeOK, Room, TableOrdered,
       LayersClosed, Phases, Verbs, Codes
<1>15. CASE StrayOp
  <2>1. PICK s \in strays : /\ WriteThrough(s.stack)
                            /\ strays' = IF s.kind = "dying" THEN strays \ {s} ELSE strays
    BY <1>15 DEF StrayOp
  <2>2. s.stack \in Seq(Gen) /\ s.stack # <<>>
    BY <1>0 DEF TypeOK
  <2>3. /\ layers' \in [Gen -> Layer] /\ LayersClosed'
        /\ UNCHANGED <<ws, uppers, works, ckpts, generation, nextNum, mnt, phase,
                       mi, seen, reply, leaked, aborted>>
    BY <1>0, <2>1, <2>2, WriteThroughFacts
  <2> QED
    BY <1>0, <2>1, <2>3 DEF TableInv, TypeOK, Room, TableOrdered
<1>16. CASE Diff
  BY <1>0, <1>16 DEF Diff, Answer, TableInv, TypeOK, Room, TableOrdered, LayersClosed,
     Verbs, Codes
<1>17. CASE Shutdown
  <2>1. layers' \in [Gen -> Layer] /\ LayersClosed'
    BY <1>0, <1>17, ForgetFacts DEF Shutdown, PurgeLeaves
  <2>2. /\ uppers' \subseteq uppers /\ works' \subseteq works
        /\ leaked' = [uppers |-> leaked.uppers \cup uppers', works |-> leaked.works \cup works']
    BY <1>17 DEF Shutdown, Survivors, PurgeLeaves
  <2>3. leaked' \in [uppers : SUBSET Gen, works : SUBSET Gen]
    BY <1>0, <2>2 DEF TypeOK
  <2> QED
    BY <1>0, <1>17, <2>1, <2>2, <2>3 DEF Shutdown, Answer, Unmounted, TableInv, TypeOK, Room,
       TableOrdered, Phases, Verbs, Codes
<1>18. CASE ClientGone
  BY <1>0, <1>18 DEF ClientGone, Unmounted, TableInv, TypeOK, Room, TableOrdered,
     LayersClosed, Phases
<1>19. CASE UNCHANGED vars
  BY <1>0, <1>19 DEF vars, TableInv, TypeOK, Room, TableOrdered, LayersClosed
<1> QED
  BY <1>0, <1>1, <1>2, <1>3, <1>4, <1>5, <1>6, <1>7, <1>9, <1>10, <1>11, <1>12, <1>13,
     <1>14, <1>15, <1>16, <1>17, <1>18, <1>19, NextCases

(* The variables keep their types, whatever faults and leftover processes  *)
(* there are.                                                              *)
THEOREM TypeCorrect == Spec => []TypeOK
<1>1. TableInv => TypeOK
  BY DEF TableInv
<1> QED
  BY <1>1, TableInit, TableStep, PTL DEF Spec

(* Checkpoint ids and layer directories are never reused: the table stays  *)
(* strictly increasing in both, whatever is rolled back, committed or      *)
(* failed.                                                                 *)
THEOREM TableStaysOrdered == Spec => []TableOrdered
<1>1. TableInv => TableOrdered
  BY DEF TableInv
<1> QED
  BY <1>1, TableInit, TableStep, PTL DEF Spec

----------------------------------------------------------------------------
(* The mount and the scratch directories. *)

MountInv ==
  /\ MountMatchesTable
  /\ phase \in {"starting", "merging"} => mnt = Unmounted

(* Every step leaves merged_dir with the table's stack or with nothing.    *)
LEMMA MountStep == TableInv /\ MountInv /\ [Next]_vars => MountInv'
<1> SUFFICES ASSUME TableInv, MountInv, [Next]_vars PROVE MountInv'
  OBVIOUS
<1>0. TypeOK /\ Room
  BY DEF TableInv
<1> USE DEF MountInv, MountMatchesTable, Live
<1>1. CASE Start
  <2>1. generation \in Gen /\ generation < MaxGen /\ ckpts = <<>>
    BY <1>0, <1>1, BoundsAssumption DEF Start, Room, TypeOK
  <2>2. NewGeneration(<<>>, {}, {}, "CREATE") /\ <<>> \in Seq(Checkpoints) /\ "CREATE" \in Verbs
    BY <1>1 DEF Start, Verbs
  <2>3. mnt' \in {Unmounted, StackOf(<<>>, generation')}
    BY <2>1, <2>2, NewGenerationFacts
  <2> QED
    BY <1>1, <2>1, <2>3 DEF Start
<1>2. CASE Seal
  <2>1. phase' = "idle" /\ Discard(ckpts', {}, "CHECKPOINT") /\ "CHECKPOINT" \in Verbs
    BY <1>2 DEF Seal, Verbs
  <2>2. ckpts' \in Seq(Checkpoints)
    BY TableStep DEF TableInv, TypeOK
  <2>3. mnt' \in {Unmounted, StackOf(ckpts', generation')}
    BY <1>0, <1>2, <2>1, <2>2, DiscardFacts DEF Seal, CanGrow
  <2> QED
    BY <2>1, <2>3
<1>3. ASSUME NEW keep \in 0 .. Len(ckpts), phase = "idle", CanGrow, TruncateTo(keep)
      PROVE  MountInv'
  <2>1. PICK dead : /\ phase' = "idle"
                    /\ Discard(ckpts', dead, "ROLLBACK") /\ "ROLLBACK" \in Verbs
    BY <1>3 DEF TruncateTo, Verbs
  <2>2. ckpts' \in Seq(Checkpoints)
    BY TableStep DEF TableInv, TypeOK
  <2>3. mnt' \in {Unmounted, StackOf(ckpts', generation')}
    BY <1>0, <1>3, <2>1, <2>2, DiscardFacts DEF CanGrow
  <2> QED
    BY <2>1, <2>3
<1>4. ASSUME NEW verb \in Verbs, NEW rc \in Codes, Refuse(verb, rc)
      PROVE  MountInv'
  BY <1>4 DEF Refuse
<1>5. CASE CommitBegin
  BY <1>5 DEF CommitBegin
<1>6. ASSUME NEW p \in Path, MergeVisit(p)
      PROVE  MountInv'
  BY <1>6 DEF MergeVisit
<1>7. CASE MergeNextLayer
  BY <1>7 DEF MergeNextLayer
<1>8. CASE AbortCommit
  BY <1>8 DEF AbortCommit, remount_current
<1>9. CASE CommitFinish
  <2>1. generation \in Gen /\ generation < MaxGen /\ <<>> \in Seq(Checkpoints)
    BY <1>0, <1>9 DEF CommitFinish, Room, TypeOK
  <2>2. /\ phase' = "idle" /\ ckpts' = <<>>
        /\ Discard(<<>>, TableGens(ckpts) \cup {generation}, "COMMIT") /\ "COMMIT" \in Verbs
    BY <1>9 DEF CommitFinish, Verbs
  <2>3. mnt' \in {Unmounted, StackOf(<<>>, generation')}
    BY <1>0, <2>1, <2>2, DiscardFacts
  <2> QED
    BY <2>2, <2>3
<1>10. CASE RunBegin \/ RunEnd \/ Diff
  BY <1>10 DEF RunBegin, RunEnd, Diff
<1>11. CASE CommandOp \/ StrayOp
  BY <1>11 DEF CommandOp, StrayOp, WriteThrough
<1>12. CASE Shutdown \/ ClientGone
  BY <1>12 DEF Shutdown, ClientGone
<1>13. CASE UNCHANGED vars
  BY <1>13 DEF vars
<1> QED
  BY <1>0, <1>1, <1>2, <1>3, <1>4, <1>5, <1>6, <1>7, <1>8, <1>9, <1>10, <1>11, <1>12,
     <1>13, NextCases DEF MergeFail, MergeNoLayer

(* Commands never run over layers that a checkpoint, rollback or commit    *)
(* has replaced, whatever fails.                                           *)
THEOREM MountStaysCurrent == Spec => []MountMatchesTable
<1>1. Init => MountInv
  BY DEF Init, MountInv, MountMatchesTable
<1>2. MountInv => MountMatchesTable
  BY DEF MountInv
<1> QED
  BY <1>1, <1>2, TableInit, TableStep, MountStep, PTL DEF Spec

(* The three ways the table changes, in terms of its layers.               *)
LEMMA GensAfterAppend ==
  ASSUME NEW cks \in Seq(Checkpoints), NEW c \in Checkpoints
  PROVE  TableGens(Append(cks, c)) = TableGens(cks) \cup {c.gen}
<1>1. /\ DOMAIN Append(cks, c) = 1 .. Len(cks) + 1 /\ DOMAIN cks = 1 .. Len(cks)
      /\ Len(cks) \in Nat
      /\ \A i \in 1 .. Len(cks) : Append(cks, c)[i] = cks[i]
      /\ Append(cks, c)[Len(cks) + 1] = c
  OBVIOUS
<1>2. \A i \in 1 .. Len(cks) + 1 : i \in 1 .. Len(cks) \/ i = Len(cks) + 1
  BY <1>1
<1>3. \A i \in 1 .. Len(cks) : i \in 1 .. Len(cks) + 1
  BY <1>1
<1>4. Len(cks) + 1 \in 1 .. Len(cks) + 1
  BY <1>1
<1> QED
  BY <1>1, <1>2, <1>3, <1>4 DEF TableGens

(* The layers a rollback leaves in the table are the old ones it does not   *)
(* purge.                                                                   *)
LEMMA GensAfterTruncate ==
  ASSUME TypeOK, TableOrdered, NEW keep \in 0 .. Len(ckpts)
  PROVE  TableGens(SubSeq(ckpts, 1, keep)) =
           (TableGens(ckpts) \cup {generation}) \ DeadLayers(keep)
<1> DEFINE kept == SubSeq(ckpts, 1, keep)
<1>1. /\ ckpts \in Seq(Checkpoints) /\ Len(ckpts) \in Nat
      /\ DOMAIN ckpts = 1 .. Len(ckpts)
  BY DEF TypeOK
<1>2. DOMAIN kept = 1 .. keep /\ \A i \in 1 .. keep : kept[i] = ckpts[i]
  BY <1>1
<1>3. \A i \in 1 .. Len(ckpts) : i \in 1 .. keep \/ i \in keep + 1 .. Len(ckpts)
  BY <1>1
<1>4. \A i \in 1 .. keep : i \in 1 .. Len(ckpts)
  BY <1>1
<1>5. \A i \in keep + 1 .. Len(ckpts) : i \in 1 .. Len(ckpts)
  BY <1>1
<1>6. ASSUME NEW i \in 1 .. keep, NEW j \in keep + 1 .. Len(ckpts)
      PROVE  ckpts[i].gen # ckpts[j].gen
  <2>1. i \in DOMAIN ckpts /\ j \in DOMAIN ckpts /\ i < j
    BY <1>1
  <2>2. ckpts[i] \in Checkpoints /\ ckpts[j] \in Checkpoints
    BY <1>1, <2>1
  <2>3. ckpts[i].gen \in Int /\ ckpts[j].gen \in Int
    BY <2>2, BoundsAssumption DEF Checkpoints, Gen
  <2>4. ckpts[i].gen < ckpts[j].gen
    BY <2>1 DEF TableOrdered
  <2> QED
    BY <2>3, <2>4
<1>7. ASSUME NEW i \in 1 .. Len(ckpts)
      PROVE  ckpts[i].gen # generation
  <2>1. ckpts[i] \in Checkpoints /\ generation \in Gen
    BY <1>1 DEF TypeOK
  <2>2. ckpts[i].gen \in Int /\ generation \in Int
    BY <2>1, BoundsAssumption DEF Checkpoints, Gen
  <2>3. ckpts[i].gen < generation
    BY <1>1 DEF TableOrdered
  <2> QED
    BY <2>2, <2>3
<1>8. TableGens(kept) = {ckpts[i].gen : i \in 1 .. keep}
  BY <1>2 DEF TableGens
<1>9. TableGens(ckpts) = {ckpts[i].gen : i \in 1 .. Len(ckpts)}
  BY <1>1 DEF TableGens
<1>10. DeadLayers(keep) = {generation} \cup {ckpts[i].gen : i \in keep + 1 .. Len(ckpts)}
  BY DEF DeadLayers
<1> HIDE DEF kept
<1>11. TableGens(kept) \subseteq (TableGens(ckpts) \cup {generation}) \ DeadLayers(keep)
  BY <1>4, <1>6, <1>7, <1>8, <1>9, <1>10
<1>12. (TableGens(ckpts) \cup {generation}) \ DeadLayers(keep) \subseteq TableGens(kept)
  BY <1>3, <1>8, <1>9, <1>10
<1> QED
  BY <1>11, <1>12 DEF kept

(* What a failed purge left is older than the live layer's number. *)
LeakInv ==
  /\ NoScratchLeak
  /\ phase # "closed" => \A g \in leaked.uppers \cup leaked.works : g <= generation
  /\ phase = "starting" => leaked.uppers = {} /\ leaked.works = {}

(* The common part of CHECKPOINT, ROLLBACK and COMMIT: what the new table  *)
(* does not name is purged, and what the purge leaves is recorded.         *)
LEMMA DiscardLeaks ==
  ASSUME TypeOK, TableOrdered, LeakInv, Serving, phase' = "idle", generation < MaxGen,
         NEW dead, NEW verb \in Verbs, ckpts' \in Seq(Checkpoints),
         dead \subseteq TableGens(ckpts) \cup {generation},
         TableGens(ckpts') = (TableGens(ckpts) \cup {generation}) \ dead,
         Discard(ckpts', dead, verb)
  PROVE  /\ LeakInv'
         /\ "mkdir" \notin Faults /\ ScratchMatchesTable => ScratchMatchesTable'
<1> DEFINE named == TableGens(ckpts) \cup {generation}
           named1 == TableGens(ckpts') \cup {generation + 1}
<1>1. PICK ku \in SUBSET (dead \cap uppers), kw \in SUBSET ({generation} \cap works) :
        PurgeRecords(dead, ku, kw)
  BY DiscardRecords
<1> USE DEF PurgeRecords
<1>2. generation' = generation + 1
  BY DiscardFacts
<1>3. generation \in Int
  BY BoundsAssumption DEF TypeOK, Gen
<1>4. \A g \in named : g \in Int /\ g <= generation
  <2>1. ckpts \in Seq(Checkpoints)
    BY DEF TypeOK
  <2>2. ASSUME NEW i \in DOMAIN ckpts
        PROVE  ckpts[i].gen \in Int /\ ckpts[i].gen < generation
    <3>1. ckpts[i] \in Checkpoints
      BY <2>1
    <3> QED
      BY <3>1, BoundsAssumption DEF TableOrdered, Checkpoints, Gen
  <2> QED
    BY <1>3, <2>2 DEF TableGens
<1>5. /\ \A g \in leaked.uppers \cup leaked.works : g \in Int /\ g <= generation
      /\ uppers \subseteq named \cup leaked.uppers /\ works \subseteq {generation} \cup leaked.works
      /\ leaked.uppers \cap named = {} /\ generation \notin leaked.works
  <2>1. leaked.uppers \subseteq Gen /\ leaked.works \subseteq Gen
    BY DEF TypeOK
  <2> QED
    BY <2>1, BoundsAssumption DEF LeakInv, NoScratchLeak, Serving, Gen
<1>a. TableGens(ckpts)' = TableGens(ckpts')
  BY DEF TableGens
<1> HIDE DEF named
<1>6. /\ generation + 1 \notin named
      /\ generation + 1 \notin leaked.uppers \cup leaked.works
  BY <1>3, <1>4, <1>5
<1>7. named1 = (named \ dead) \cup {generation + 1} /\ dead \subseteq named
  BY DEF named
<1> HIDE DEF named1
<1>8. \A g \in leaked'.uppers \cup leaked'.works : g <= generation'
  <2>1. \A g \in ku : g \in Int /\ g <= generation
    BY <1>4, <1>7
  <2>2. \A g \in kw : g = generation
    OBVIOUS
  <2>3. leaked'.uppers = leaked.uppers \cup ku /\ leaked'.works = leaked.works \cup kw
    BY <1>1
  <2>4. \A g \in leaked'.uppers \cup leaked'.works : g \in Int /\ g <= generation
    <3> SUFFICES ASSUME NEW g \in leaked'.uppers \cup leaked'.works
                 PROVE  g \in Int /\ g <= generation
      OBVIOUS
    <3>1. g \in (leaked.uppers \cup leaked.works) \cup (ku \cup kw)
      BY <2>3
    <3>2. CASE g \in leaked.uppers \cup leaked.works
      BY <1>5, <3>2
    <3>3. CASE g \in ku
      BY <2>1, <3>3
    <3>4. CASE g \in kw
      <4>1. g = generation
        BY <2>2, <3>4
      <4> QED
        BY <1>3, <4>1
    <3> QED
      BY <3>1, <3>2, <3>3, <3>4
  <2> QED
    BY <1>2, <1>3, <2>4
<1>9. /\ uppers' \subseteq named1 \cup leaked'.uppers
      /\ works' \subseteq {generation + 1} \cup leaked'.works
      /\ leaked'.uppers \cap named1 = {} /\ generation + 1 \notin leaked'.works
  <2>1. generation + 1 \notin ku /\ generation + 1 \notin kw
    BY <1>3, <1>6, <1>7
  <2> QED
    BY <1>1, <1>5, <1>6, <1>7, <2>1
<1>10. LeakInv'
  BY <1>2, <1>a, <1>8, <1>9 DEF LeakInv, NoScratchLeak, named1
<1>11. ASSUME "mkdir" \notin Faults, ScratchMatchesTable
       PROVE  ScratchMatchesTable'
  <2>1. uppers = named \cup leaked.uppers /\ works = {generation} \cup leaked.works
    BY <1>11 DEF ScratchMatchesTable, named
  <2>2. /\ uppers' = (uppers \ (dead \ ku)) \cup {generation + 1}
        /\ works' = (works \ ({generation} \ kw)) \cup {generation + 1}
    BY <1>1, <1>11
  <2>3. uppers' = named1 \cup leaked'.uppers /\ works' = {generation + 1} \cup leaked'.works
    BY <1>1, <1>5, <1>7, <2>1, <2>2
  <2> QED
    BY <1>2, <1>a, <2>3 DEF ScratchMatchesTable, named1
<1> QED
  BY <1>10, <1>11

LEMMA LeakStep ==
  TableInv /\ LeakInv /\ [Next]_vars =>
    LeakInv' /\ ("mkdir" \notin Faults /\ ScratchMatchesTable => ScratchMatchesTable')
<1> DEFINE Exact == "mkdir" \notin Faults /\ ScratchMatchesTable => ScratchMatchesTable'
<1> SUFFICES ASSUME TableInv, LeakInv, [Next]_vars PROVE LeakInv' /\ Exact
  OBVIOUS
<1>0. TypeOK /\ Room /\ TableOrdered /\ ckpts' \in Seq(Checkpoints)
  BY TableStep DEF TableInv, TypeOK
<1>1. CASE Start
  <2>1. generation \in Gen /\ generation < MaxGen /\ ckpts = <<>> /\ generation = 0
    BY <1>0, <1>1, BoundsAssumption DEF Start, Room, TypeOK
  <2>2. /\ NewGeneration(<<>>, {}, {}, "CREATE") /\ <<>> \in Seq(Checkpoints)
        /\ "CREATE" \in Verbs /\ ckpts' = <<>> /\ leaked' = leaked
        /\ leaked.uppers = {} /\ leaked.works = {} /\ phase' # "starting"
    BY <1>1, <2>1 DEF Start, Verbs, LeakInv
  <2>3. /\ generation' = generation + 1
        /\ uppers' \subseteq {} \cup {generation + 1} /\ works' \subseteq {} \cup {generation + 1}
        /\ "mkdir" \notin Faults => /\ uppers' = {} \cup {generation + 1}
                                    /\ works' = {} \cup {generation + 1}
    BY <2>1, <2>2, NewGenerationFacts
  <2>4. TableGens(ckpts') = {}
    BY <2>2 DEF TableGens
  <2>5. TableGens(ckpts)' = TableGens(ckpts')
    BY DEF TableGens
  <2> QED
    BY <2>2, <2>3, <2>4, <2>5 DEF LeakInv, NoScratchLeak, ScratchMatchesTable
<1>2. CASE Seal
  <2> DEFINE new == [id |-> nextNum, gen |-> generation, tree |-> Shown(Live)]
  <2>1. /\ ckpts' = Append(ckpts, new) /\ new \in Checkpoints
        /\ Discard(ckpts', {}, "CHECKPOINT") /\ "CHECKPOINT" \in Verbs
        /\ Serving /\ phase' = "idle" /\ generation < MaxGen
    BY <1>0, <1>2, StackType, LayersOfType
    DEF Seal, CanGrow, TypeOK, Checkpoints, Live, Serving, Verbs
  <2>2. TableGens(ckpts') = (TableGens(ckpts) \cup {generation}) \ {}
    BY <1>0, <2>1, GensAfterAppend DEF TypeOK
  <2> QED
    BY <1>0, <2>1, <2>2, DiscardLeaks
<1>3. ASSUME NEW keep \in 0 .. Len(ckpts), phase = "idle", CanGrow, TruncateTo(keep)
      PROVE  LeakInv' /\ Exact
  <2> DEFINE dead == DeadLayers(keep)
  <2>1. /\ ckpts' = SubSeq(ckpts, 1, keep)
        /\ Discard(ckpts', dead, "ROLLBACK") /\ "ROLLBACK" \in Verbs
        /\ Serving /\ phase' = "idle" /\ generation < MaxGen
    BY <1>3 DEF TruncateTo, CanGrow, Serving, Verbs
  <2>2. TableGens(ckpts') = (TableGens(ckpts) \cup {generation}) \ dead
    BY <1>0, <2>1, GensAfterTruncate
  <2>3. dead \subseteq TableGens(ckpts) \cup {generation}
    <3>1. \A i \in keep + 1 .. Len(ckpts) : i \in DOMAIN ckpts
      BY <1>0 DEF TypeOK
    <3> QED
      BY <3>1 DEF DeadLayers, TableGens
  <2> HIDE DEF dead
  <2> QED
    BY <1>0, <2>1, <2>2, <2>3, DiscardLeaks
<1>4. CASE CommitFinish
  <2> DEFINE dead == TableGens(ckpts) \cup {generation}
  <2>1. /\ ckpts' = <<>> /\ Discard(<<>>, dead, "COMMIT") /\ "COMMIT" \in Verbs
        /\ Serving /\ phase' = "idle" /\ generation < MaxGen
    BY <1>0, <1>4 DEF CommitFinish, Room, Serving, Verbs
  <2>2. Discard(ckpts', dead, "COMMIT")
    BY <2>1
  <2>3. TableGens(ckpts') = (TableGens(ckpts) \cup {generation}) \ dead
    BY <2>1 DEF TableGens
  <2>4. dead \subseteq TableGens(ckpts) \cup {generation}
    OBVIOUS
  <2> HIDE DEF dead
  <2> QED
    BY <1>0, <2>1, <2>2, <2>3, <2>4, DiscardLeaks
<1>5. ASSUME UNCHANGED <<uppers, works, ckpts, generation, leaked>>,
             phase' # "starting", phase' = "closed" \/ Serving
      PROVE  LeakInv' /\ Exact
  BY <1>5 DEF LeakInv, NoScratchLeak, ScratchMatchesTable, Serving, TableGens
<1>6. ASSUME NEW verb \in Verbs, NEW rc \in Codes, Refuse(verb, rc)
      PROVE  LeakInv' /\ Exact
  BY <1>6 DEF Refuse, LeakInv, NoScratchLeak, ScratchMatchesTable, Serving, TableGens
<1>7. CASE CommitBegin \/ MergeNextLayer \/ RunBegin \/ RunEnd \/ Diff
  BY <1>5, <1>7 DEF CommitBegin, MergeNextLayer, Walking, RunBegin, RunEnd, Diff, Serving
<1>8. ASSUME NEW p \in Path, MergeVisit(p)
      PROVE  LeakInv' /\ Exact
  BY <1>5, <1>8 DEF MergeVisit, Walking, Serving
<1>9. CASE AbortCommit /\ phase = "merging"
  BY <1>5, <1>9 DEF AbortCommit, Serving
<1>10. CASE CommandOp \/ StrayOp \/ UNCHANGED vars
  BY <1>10 DEF CommandOp, StrayOp, WriteThrough, vars, LeakInv, NoScratchLeak,
     ScratchMatchesTable, Serving, TableGens
<1>11. CASE Shutdown
  BY <1>11 DEF Shutdown, LeakInv, NoScratchLeak, ScratchMatchesTable, Serving
<1>12. CASE ClientGone
  BY <1>5, <1>12 DEF ClientGone, Serving
<1> QED
  BY <1>0, <1>1, <1>2, <1>3, <1>4, <1>6, <1>7, <1>8, <1>9, <1>10, <1>11, <1>12, NextCases
  DEF MergeFail, MergeNoLayer, Walking

(* Nothing holds initially that would have to be purged. *)
LEMMA LeakInit == Init => LeakInv /\ ScratchMatchesTable
  BY DEF Init, LeakInv, NoScratchLeak, ScratchMatchesTable, Serving

(* Whatever fails - mkdirs, and purges too, whose result every handler     *)
(* ignores - no scratch directory is forgotten that was not tried to be    *)
(* removed, and what could not be is never again a checkpoint's or the     *)
(* live layer's.                                                           *)
THEOREM NothingLeaks == Spec => []NoScratchLeak
<1>1. LeakInv => NoScratchLeak
  BY DEF LeakInv
<1> QED
  BY <1>1, LeakInit, TableInit, TableStep, LeakStep, PTL DEF Spec

(* Checkpoint, rollback and commit purge exactly the directories that the  *)
(* table no longer names: with no mkdir failing, what is on disk is the    *)
(* table's, the live layer's, and what a purge tried to remove and could   *)
(* not - of a layer a process still writes to, for one.                    *)
THEOREM ScratchStaysExact ==
  ASSUME "mkdir" \notin Faults
  PROVE  Spec => []ScratchMatchesTable
<1>1. LeakInv /\ ScratchMatchesTable /\ TableInv /\ [Next]_vars => ScratchMatchesTable'
  BY LeakStep
<1> QED
  BY <1>1, LeakInit, TableInit, TableStep, LeakStep, PTL DEF Spec

(* Where purges succeed: no process outlives its command and no system     *)
(* call of a purge fails.  Then no directory is left over at all.          *)
NoneLeaked == strays = {} /\ (Serving => leaked.uppers = {} /\ leaked.works = {})

(* Then the disk holds the table's layers, the live layer and its workdir  *)
(* and nothing else, through any mix of checkpoints, rollbacks and commits *)
(* of which any merge or mount may fail.                                   *)
THEOREM ScratchIsTheTable ==
  ASSUME "mkdir" \notin Faults, "purge" \notin Faults, Leftovers = {}
  PROVE  Spec => [](Serving => /\ uppers = TableGens(ckpts) \cup {generation}
                               /\ works = {generation})
<1> DEFINE Same == Serving => /\ uppers = TableGens(ckpts) \cup {generation}
                              /\ works = {generation}
<1>1. Init => NoneLeaked
  BY DEF Init, NoneLeaked, Serving
<1>2. TableInv /\ LeakInv /\ NoneLeaked /\ [Next]_vars => NoneLeaked'
  <2> SUFFICES ASSUME TableInv, LeakInv, NoneLeaked, [Next]_vars PROVE NoneLeaked'
    OBVIOUS
  <2>0. TypeOK /\ Room /\ strays = {} /\ ckpts' \in Seq(Checkpoints) /\ <<>> \in Seq(Checkpoints)
    BY TableStep DEF TableInv, TypeOK, NoneLeaked
  <2> USE DEF NoneLeaked, Serving
  <2>1. ASSUME Serving, generation < MaxGen, strays' = strays,
               NEW cks \in Seq(Checkpoints), NEW dead, NEW verb \in Verbs,
               Discard(cks, dead, verb)
        PROVE  NoneLeaked'
    <3>1. leaked.uppers = {} /\ leaked.works = {}
      BY <2>1
    <3>2. PICK ku, kw : PurgeRecords(dead, ku, kw)
      BY <2>1, DiscardRecords
    <3>3. leaked'.uppers = {} /\ leaked'.works = {}
      BY <2>0, <3>1, <3>2 DEF PurgeRecords
    <3> QED
      BY <2>0, <2>1, <3>3
  <2>2. CASE Start
    BY <2>2 DEF Start, LeakInv
  <2>3. CASE Seal
    BY <2>0, <2>1, <2>3 DEF Seal, CanGrow, Verbs
  <2>4. ASSUME NEW keep, phase = "idle", CanGrow, TruncateTo(keep)
        PROVE  NoneLeaked'
    BY <2>0, <2>1, <2>4 DEF TruncateTo, CanGrow, Verbs
  <2>5. CASE CommitFinish
    BY <2>0, <2>1, <2>5 DEF CommitFinish, Room, Verbs
  <2>6. ASSUME NEW verb, NEW rc, Refuse(verb, rc) PROVE NoneLeaked'
    BY <2>6 DEF Refuse
  <2>7. ASSUME NEW p \in Path, MergeVisit(p) PROVE NoneLeaked'
    BY <2>7 DEF MergeVisit
  <2>8. CASE CommitBegin \/ MergeNextLayer \/ RunBegin \/ RunEnd \/ Diff
    BY <2>8 DEF CommitBegin, MergeNextLayer, Walking, RunBegin, RunEnd, Diff
  <2>9. CASE AbortCommit /\ phase = "merging"
    BY <2>9 DEF AbortCommit
  <2>10. CASE CommandOp \/ UNCHANGED vars
    BY <2>10 DEF CommandOp, WriteThrough, vars
  <2>11. CASE StrayOp
    BY <2>11 DEF StrayOp
  <2>12. CASE Shutdown \/ ClientGone
    BY <2>12 DEF Shutdown, ClientGone
  <2> QED
    BY <2>0, <2>2, <2>3, <2>4, <2>5, <2>6, <2>7, <2>8, <2>9, <2>10, <2>11, <2>12, NextCases
    DEF MergeFail, MergeNoLayer, Walking
<1>3. NoneLeaked /\ ScratchMatchesTable => Same
  BY DEF NoneLeaked, ScratchMatchesTable
<1>4. Spec => []ScratchMatchesTable
  BY ScratchStaysExact
<1> QED
  BY <1>1, <1>2, <1>3, <1>4, LeakInit, TableInit, TableStep, LeakStep, PTL DEF Spec

----------------------------------------------------------------------------
(* Checkpoints keep their trees. *)

(* A checkpoint's tree depends on the workspace and on its own layers and  *)
(* those below it, on nothing else.                                        *)
LEMMA TreeOfSameLayers ==
  ASSUME NEW i \in Nat, ws' = ws,
         \A j \in 1 .. i : /\ ckpts'[j].gen = ckpts[j].gen
                           /\ layers'[ckpts[j].gen] = layers[ckpts[j].gen]
  PROVE  CheckpointTree(i)' = CheckpointTree(i)
<1>1. [j \in 1 .. i |-> ckpts'[j].gen] = [j \in 1 .. i |-> ckpts[j].gen]
  OBVIOUS
<1>2. LayersOf([j \in 1 .. i |-> ckpts[j].gen])' = LayersOf([j \in 1 .. i |-> ckpts[j].gen])
  BY <1>1 DEF LayersOf
<1> QED
  BY <1>2 DEF CheckpointTree

IntactInv ==
  /\ TableInv
  /\ MountInv
  /\ strays = {}
  /\ CheckpointsIntact

(* Without leftover processes, only the live layer is ever written, and it *)
(* is above every checkpoint.                                              *)
LEMMA IntactStep ==
  ASSUME Leftovers = {}
  PROVE  IntactInv /\ [Next]_vars => IntactInv'
<1> SUFFICES ASSUME IntactInv, [Next]_vars PROVE IntactInv'
  OBVIOUS
<1>0. /\ TableInv /\ MountInv /\ strays = {} /\ CheckpointsIntact
      /\ TypeOK /\ Room /\ TableOrdered /\ LayersClosed
  BY DEF IntactInv, TableInv
<1>1. TableInv' /\ MountInv'
  BY <1>0, TableStep, MountStep
<1>2. SUFFICES strays' = {} /\ CheckpointsIntact'
  BY <1>1 DEF IntactInv
<1>3. /\ ckpts \in Seq(Checkpoints) /\ Len(ckpts) \in Nat
      /\ DOMAIN ckpts = 1 .. Len(ckpts)
      /\ \A i \in 1 .. Len(ckpts) : ckpts[i].gen \in Gen
  <2>1. ckpts \in Seq(Checkpoints)
    BY <1>0 DEF TypeOK
  <2>2. \A i \in 1 .. Len(ckpts) : ckpts[i] \in Checkpoints
    BY <2>1
  <2> QED
    BY <2>1, <2>2 DEF Checkpoints
<1>4. \A i \in 1 .. Len(ckpts) : ckpts[i].gen # generation
  <2> SUFFICES ASSUME NEW i \in 1 .. Len(ckpts) PROVE ckpts[i].gen # generation
    OBVIOUS
  <2>1. ckpts[i].gen \in Gen /\ generation \in Gen
    BY <1>0, <1>3 DEF TypeOK
  <2>2. ckpts[i].gen \in Int /\ generation \in Int
    BY <2>1, BoundsAssumption DEF Gen
  <2>3. ckpts[i].gen < generation
    BY <1>0, <1>3 DEF TableOrdered
  <2> QED
    BY <2>2, <2>3
<1>5. ASSUME /\ strays' = {} /\ ws' = ws /\ ckpts' = ckpts
             /\ phase' \in {"idle", "running"} => phase \in {"idle", "running"}
             /\ aborted' = aborted
             /\ \A g \in Gen \ {generation} : layers'[g] = layers[g]
      PROVE  strays' = {} /\ CheckpointsIntact'
  <2> SUFFICES ASSUME phase' \in {"idle", "running"}, ~aborted', NEW i \in 1 .. Len(ckpts)
               PROVE  CheckpointTree(i)' = ckpts[i].tree
    BY <1>3, <1>5 DEF CheckpointsIntact
  <2>1. CheckpointTree(i) = ckpts[i].tree
    BY <1>0, <1>3, <1>5 DEF CheckpointsIntact
  <2>2. \A j \in 1 .. i : /\ ckpts'[j].gen = ckpts[j].gen
                          /\ layers'[ckpts[j].gen] = layers[ckpts[j].gen]
    BY <1>3, <1>4, <1>5
  <2>3. CheckpointTree(i)' = CheckpointTree(i)
    BY <1>5, <2>2, TreeOfSameLayers
  <2> QED
    BY <2>1, <2>3
<1>6. CASE Start
  BY <1>0, <1>6 DEF Start, Room, CheckpointsIntact
<1>7. CASE Seal
  <2> DEFINE n == Len(ckpts)
             new == [id |-> nextNum, gen |-> generation, tree |-> Shown(Live)]
  <2>1. /\ ckpts' = Append(ckpts, new) /\ phase = "idle"
        /\ UNCHANGED <<ws, phase, strays, aborted>>
    BY <1>7 DEF Seal
  <2>a. layers' = layers
    BY <1>0, <1>7 DEF Seal, Discard, PurgeLeaves, Forget, TypeOK
  <2>2. /\ DOMAIN ckpts' = 1 .. n + 1
        /\ \A i \in 1 .. n : ckpts'[i] = ckpts[i]
        /\ ckpts'[n + 1].gen = generation /\ ckpts'[n + 1].tree = Shown(Live)
    BY <1>3, <2>1
  <2> SUFFICES ASSUME ~aborted, NEW i \in 1 .. n + 1
               PROVE  CheckpointTree(i)' = ckpts'[i].tree
    BY <1>0, <2>1, <2>2 DEF CheckpointsIntact
  <2>3. CASE i \in 1 .. n
    <3>1. CheckpointTree(i) = ckpts[i].tree
      BY <1>0, <1>3, <2>1, <2>3 DEF CheckpointsIntact
    <3>2. \A j \in 1 .. i : j \in 1 .. n
      BY <1>3, <2>3
    <3>3. CheckpointTree(i)' = CheckpointTree(i)
      BY <2>1, <2>a, <2>2, <3>2, TreeOfSameLayers
    <3> QED
      BY <2>2, <2>3, <3>1, <3>3
  <2>4. CASE i = n + 1
    <3>1. [j \in 1 .. n + 1 |-> ckpts'[j].gen] = Live
      BY <1>3, <2>2 DEF Live, StackOf
    <3>2. CheckpointTree(i)' = View(ws', LayersOf([j \in 1 .. i |-> ckpts[j].gen])')
      BY DEF CheckpointTree
    <3>3. LayersOf([j \in 1 .. i |-> ckpts[j].gen])' = LayersOf(Live)
      BY <2>1, <2>a, <2>4, <3>1 DEF LayersOf
    <3>4. CheckpointTree(i)' = Shown(Live)
      BY <2>1, <3>2, <3>3 DEF Shown
    <3> QED
      BY <2>2, <2>4, <3>4
  <2> QED
    BY <1>3, <2>3, <2>4
<1>8. ASSUME NEW keep \in 0 .. Len(ckpts), phase = "idle", CanGrow, TruncateTo(keep)
      PROVE  strays' = {} /\ CheckpointsIntact'
  <2> DEFINE dead == DeadLayers(keep)
  <2>1. /\ ckpts' = SubSeq(ckpts, 1, keep) /\ Forget(dead)
        /\ UNCHANGED <<ws, phase, strays, aborted>>
    BY <1>8 DEF TruncateTo, Discard, PurgeLeaves
  <2>2. /\ DOMAIN ckpts' = 1 .. keep
        /\ \A i \in 1 .. keep : ckpts'[i] = ckpts[i] /\ i \in 1 .. Len(ckpts)
    BY <1>3, <2>1
  <2>3. TableGens(ckpts') = (TableGens(ckpts) \cup {generation}) \ dead
    BY <1>0, <2>1, GensAfterTruncate
  <2> HIDE DEF dead
  <2>4. ASSUME NEW j \in 1 .. keep
        PROVE  layers'[ckpts[j].gen] = layers[ckpts[j].gen]
    <3>1. ckpts[j].gen \in TableGens(ckpts')
      BY <2>2 DEF TableGens
    <3>2. ckpts[j].gen \in Gen \ dead
      BY <1>3, <2>2, <2>3, <3>1
    <3> QED
      BY <1>0, <2>1, <3>2, ForgetFacts
  <2> SUFFICES ASSUME ~aborted, NEW i \in 1 .. keep
               PROVE  CheckpointTree(i)' = ckpts'[i].tree
    BY <1>0, <2>1, <2>2 DEF CheckpointsIntact
  <2>5. CheckpointTree(i) = ckpts[i].tree
    BY <1>0, <1>3, <1>8, <2>2 DEF CheckpointsIntact
  <2>6. \A j \in 1 .. i : j \in 1 .. keep
    BY <1>3
  <2>7. CheckpointTree(i)' = CheckpointTree(i)
    BY <2>1, <2>2, <2>4, <2>6, TreeOfSameLayers
  <2> QED
    BY <2>2, <2>5, <2>7
<1>9. ASSUME NEW verb \in Verbs, NEW rc \in Codes, Refuse(verb, rc)
      PROVE  strays' = {} /\ CheckpointsIntact'
  BY <1>0, <1>5, <1>9 DEF Refuse
<1>10. CASE CommitBegin
  BY <1>0, <1>10 DEF CommitBegin, CheckpointsIntact
<1>11. ASSUME NEW p \in Path, MergeVisit(p)
       PROVE  strays' = {} /\ CheckpointsIntact'
  BY <1>0, <1>11 DEF MergeVisit, Walking, CheckpointsIntact
<1>12. CASE MergeNextLayer
  BY <1>0, <1>12 DEF MergeNextLayer, Walking, CheckpointsIntact
<1>13. CASE AbortCommit
  BY <1>0, <1>13 DEF AbortCommit, CheckpointsIntact
<1>14. CASE CommitFinish
  BY <1>0, <1>14 DEF CommitFinish, CheckpointsIntact
<1>15. CASE RunBegin \/ RunEnd \/ Diff
  BY <1>0, <1>5, <1>15 DEF RunBegin, RunEnd, Diff
<1>16. CASE CommandOp
  <2>1. mnt = Live /\ mnt \in Seq(Gen) /\ mnt # <<>> /\ WriteThrough(mnt)
    BY <1>0, <1>16 DEF CommandOp, MountInv, MountMatchesTable, Unmounted, TypeOK
  <2>2. mnt[Len(mnt)] = generation
    BY <1>0, <2>1, StackType DEF Live, TypeOK
  <2>3. /\ \A g \in Gen \ {generation} : layers'[g] = layers[g]
        /\ UNCHANGED <<ws, ckpts, phase, aborted>>
    BY <1>0, <2>1, <2>2, WriteThroughFacts
  <2> QED
    BY <1>0, <1>5, <1>16, <2>3 DEF CommandOp
<1>17. CASE StrayOp
  BY <1>0, <1>17 DEF StrayOp
<1>18. CASE Shutdown \/ ClientGone
  BY <1>18 DEF Shutdown, ClientGone, CheckpointsIntact
<1>19. CASE UNCHANGED vars
  BY <1>0, <1>5, <1>19 DEF vars
<1> QED
  BY <1>0, <1>6, <1>7, <1>8, <1>9, <1>10, <1>11, <1>12, <1>13, <1>14, <1>15, <1>16, <1>17,
     <1>18, <1>19, NextCases DEF MergeFail, MergeNoLayer

(* A checkpoint stands for the tree that was shown when it was taken until *)
(* it is rolled back past or committed, provided no process of a command   *)
(* outlives its answer and no commit was given up half way: however many   *)
(* commands, checkpoints, rollbacks and mount failures come in between.    *)
THEOREM CheckpointsStayIntact ==
  ASSUME Leftovers = {}
  PROVE  Spec => []CheckpointsIntact
<1>1. Init => IntactInv
  <2> SUFFICES ASSUME Init PROVE IntactInv
    OBVIOUS
  <2>1. TableInv
    BY TableInit
  <2> QED
    BY <2>1 DEF Init, IntactInv, MountInv, MountMatchesTable, CheckpointsIntact
<1>2. IntactInv /\ [Next]_vars => IntactInv'
  BY IntactStep
<1>3. IntactInv => CheckpointsIntact
  BY DEF IntactInv
<1> QED
  BY <1>1, <1>2, <1>3, PTL DEF Spec

----------------------------------------------------------------------------
(* A commit keeps the view. *)

(* One visit of the merge, complete or failed.                             *)
LEMMA VisitKeepsShown ==
  ASSUME TableInv, Walking, NEW p \in Path, Walked[p] # "none",
         \/ \E e \in TakenFor(p) : ws' \in VisitResults(p, e)
         \/ ws' \in FailedVisits(ws, p, Walked[p]),
         UNCHANGED <<layers, ckpts, generation>>, mi \in 1 .. Len(Live)
  PROVE  Shown(Live)' = Shown(Live)
<1>1. TypeOK /\ LayersClosed
  BY DEF TableInv
<1>2. Live \in Seq(Gen) /\ Live' = Live
  BY <1>1, StackType DEF Live, TypeOK
<1>3. Live[mi] \in Gen /\ mi \in DOMAIN Live
  BY <1>2
<1>4. Closed(Walked) /\ LayersOf(Live)[mi] = Walked /\ mi \in DOMAIN LayersOf(Live)
  BY <1>1, <1>3 DEF LayersClosed, LayersOf, Walked
<1>5. \/ ws' = merge_visit(ws, p, Walked[p])
      \/ ws' = mkdir_p(ws, p)
      \/ ws' = purge(ws, p) /\ Hides(Walked[p])
      \/ ws' \in FailedVisits(ws, p, Walked[p])
  <2>1. CASE ws' \in FailedVisits(ws, p, Walked[p])
    BY <2>1
  <2>2. ASSUME NEW e \in TakenFor(p), ws' \in VisitResults(p, e)
        PROVE  \/ ws' = merge_visit(ws, p, Walked[p])
               \/ ws' = mkdir_p(ws, p)
               \/ ws' = purge(ws, p) /\ Hides(Walked[p])
               \/ ws' = ws
    <3>1. merge_visit(ws, p, "dir") = mkdir_p(ws, p)
      BY ContentAssumption DEF merge_visit, Reserved
    <3>2. e = Walked[p] \/ e = "dir"
      BY <2>2 DEF TakenFor
    <3>3. \/ ws' = merge_visit(ws, p, e)
          \/ ws' = purge(ws, p) /\ e = "opaque"
          \/ ws' = ws
      BY <2>2 DEF VisitResults
    <3> QED
      BY <3>1, <3>2, <3>3 DEF Hides
  <2>3. ws \in FailedVisits(ws, p, Walked[p])
    BY DEF FailedVisits
  <2> QED
    BY <2>1, <2>2, <2>3
<1>6. ws \in Tree
  BY <1>1 DEF TypeOK
<1>7. ASSUME NEW q \in Path, ~Decides(Walked, q)
      PROVE  ws'[q] = ws[q]
  BY <1>4, <1>5, <1>6, <1>7, VisitTouchesDecided
<1>8. View(ws', LayersOf(Live)) = View(ws, LayersOf(Live))
  BY <1>4, <1>7, ViewIgnoresDecided
<1>9. LayersOf(Live)' = LayersOf(Live)
  BY <1>2 DEF LayersOf
<1> QED
  BY <1>8, <1>9 DEF Shown

ViewInv == TableInv /\ strays = {} /\ (phase = "merging" => mi > 0)

(* While a commit rewrites the workspace, entry by entry and also when it  *)
(* fails between two of them or inside one, the sandbox goes on showing    *)
(* the same tree, provided no process of a command outlives its answer.    *)
THEOREM CommitKeepsView ==
  ASSUME Leftovers = {}
  PROVE  Spec => MergeKeepsView
<1> DEFINE Kept == phase = "merging" /\ ckpts' = ckpts /\ generation' = generation
                     => Shown(Live)' = Shown(Live)
<1>1. Init => ViewInv
  <2> SUFFICES ASSUME Init PROVE ViewInv
    OBVIOUS
  <2>1. TableInv
    BY TableInit
  <2> QED
    BY <2>1 DEF Init, ViewInv
<1>2. ViewInv /\ [Next]_vars => ViewInv'
  <2> SUFFICES ASSUME ViewInv, [Next]_vars PROVE ViewInv'
    OBVIOUS
  <2>0. TableInv /\ TableInv' /\ TypeOK /\ mi \in Nat
    BY TableStep DEF ViewInv, TableInv, TypeOK
  <2> SUFFICES strays' = {} /\ (phase' = "merging" => mi' > 0)
    BY <2>0 DEF ViewInv
  <2>1. CASE Start \/ Seal \/ CommitBegin \/ CommitFinish
    BY <2>1 DEF ViewInv, Start, Seal, CommitBegin, CommitFinish
  <2>2. ASSUME NEW keep, TruncateTo(keep), phase = "idle" PROVE ViewInv'
    BY <2>0, <2>2 DEF ViewInv, TruncateTo
  <2>3. ASSUME NEW verb, NEW rc, Refuse(verb, rc) PROVE ViewInv'
    BY <2>0, <2>3 DEF ViewInv, Refuse
  <2>4. ASSUME NEW p \in Path, MergeVisit(p) PROVE ViewInv'
    BY <2>0, <2>4 DEF ViewInv, MergeVisit
  <2>5. CASE MergeNextLayer
    BY <2>0, <2>5 DEF ViewInv, MergeNextLayer, Walking
  <2>6. CASE AbortCommit
    BY <2>6 DEF ViewInv, AbortCommit
  <2>7. CASE RunBegin \/ RunEnd \/ Diff \/ Shutdown \/ ClientGone
    BY <2>7 DEF ViewInv, RunBegin, RunEnd, Diff, Shutdown, ClientGone
  <2>8. CASE CommandOp
    BY <2>8 DEF ViewInv, CommandOp, WriteThrough
  <2>9. CASE StrayOp
    BY <2>9 DEF ViewInv, StrayOp
  <2>10. CASE UNCHANGED vars
    BY <2>10 DEF ViewInv, vars
  <2> QED
    BY <2>0, <2>1, <2>2, <2>3, <2>4, <2>5, <2>6, <2>7, <2>8, <2>9, <2>10, NextCases
    DEF MergeFail, MergeNoLayer, ViewInv
<1>3. ViewInv /\ [Next]_vars => [Kept]_vars
  <2> SUFFICES ASSUME ViewInv, [Next]_vars, phase = "merging",
                      ckpts' = ckpts, generation' = generation
               PROVE  Shown(Live)' = Shown(Live)
    OBVIOUS
  <2>0. TableInv /\ TypeOK /\ strays = {} /\ mi \in Nat /\ mi > 0
    BY DEF ViewInv, TableInv, TypeOK
  <2>1. ASSUME UNCHANGED <<ws, layers>>
        PROVE  Shown(Live)' = Shown(Live)
    <3>1. Live' = Live
      BY DEF Live, StackOf
    <3>2. LayersOf(Live)' = LayersOf(Live)
      BY <2>1, <3>1 DEF LayersOf
    <3> QED
      BY <2>1, <3>2 DEF Shown
  <2>2. Len(Live) \in Nat
    BY <2>0, StackType DEF Live, TypeOK
  <2>3. ASSUME NEW p \in Path, MergeVisit(p)
        PROVE  Shown(Live)' = Shown(Live)
    <3>1. mi \in 1 .. Len(Live)
      BY <2>0, <2>2, <2>3 DEF MergeVisit, Walking
    <3> QED
      BY <2>0, <2>3, <3>1, VisitKeepsShown DEF MergeVisit, VisitNext
  <2>4. ASSUME NEW p \in Path, MergeFail(p)
        PROVE  Shown(Live)' = Shown(Live)
    <3>1. mi \in 1 .. Len(Live)
      BY <2>0, <2>2, <2>4 DEF MergeFail, Walking
    <3> QED
      BY <2>0, <2>4, <3>1, VisitKeepsShown DEF MergeFail, VisitNext, AbortCommit
  <2>5. CASE MergeNextLayer \/ MergeNoLayer \/ UNCHANGED vars
    BY <2>1, <2>5 DEF MergeNextLayer, MergeNoLayer, AbortCommit, vars
  <2>6. CASE CommitFinish
    <3>1. generation' = generation + 1 /\ generation \in Int
      BY <2>0, <2>6, BoundsAssumption DEF CommitFinish, Discard, NewGeneration, TypeOK, Gen
    <3> QED
      BY <3>1
  <2>7. ASSUME NEW verb, NEW rc, Refuse(verb, rc)
        PROVE  Shown(Live)' = Shown(Live)
    BY <2>1, <2>7 DEF Refuse
  <2>8. CASE Start \/ Seal \/ CommitBegin \/ RunBegin \/ RunEnd \/ Diff \/ CommandOp
             \/ Shutdown \/ ClientGone
    BY <2>8 DEF Start, Seal, CommitBegin, RunBegin, RunEnd, Diff, CommandOp, Shutdown, ClientGone
  <2>9. CASE StrayOp
    BY <2>0, <2>9 DEF StrayOp
  <2> QED
    BY <2>0, <2>3, <2>4, <2>5, <2>6, <2>7, <2>8, <2>9, NextCases
<1> QED
  BY <1>1, <1>2, <1>3, PTL DEF Spec, MergeKeepsView

----------------------------------------------------------------------------
(* Losing the mount. *)

(* However the remount at the end of a request fails, the client is told:  *)
(* the request that leaves merged_dir without its overlay is not answered  *)
(* OK.                                                                     *)
THEOREM MountLossIsReported == Spec => MountLossReported
<1> DEFINE Told == phase' = "idle" /\ mnt' = Unmounted
                     /\ (mnt # Unmounted \/ phase = "merging") => reply'.rc # "OK"
<1>1. Init => MountInv
  BY DEF Init, MountInv, MountMatchesTable
<1>2. TableInv /\ MountInv /\ [Next]_vars => [Told]_vars
  <2> SUFFICES ASSUME TableInv, MountInv, [Next]_vars, phase' = "idle", mnt' = Unmounted,
                      mnt # Unmounted \/ phase = "merging"
               PROVE  reply'.rc # "OK"
    OBVIOUS
  <2>0. TypeOK /\ Room /\ ckpts' \in Seq(Checkpoints)
    BY TableStep DEF TableInv, TypeOK
  <2>1. CASE Start
    BY <2>1 DEF Start, MountInv
  <2>2. CASE Seal
    <3>1. Discard(ckpts', {}, "CHECKPOINT") /\ "CHECKPOINT" \in Verbs
      BY <2>2 DEF Seal, Verbs
    <3> QED
      BY <2>0, <2>2, <3>1, DiscardFacts DEF Seal, CanGrow
  <2>3. ASSUME NEW keep \in 0 .. Len(ckpts), CanGrow, TruncateTo(keep)
        PROVE  reply'.rc # "OK"
    <3>1. PICK dead : Discard(ckpts', dead, "ROLLBACK") /\ "ROLLBACK" \in Verbs
      BY <2>3 DEF TruncateTo, Verbs
    <3> QED
      BY <2>0, <2>3, <3>1, DiscardFacts DEF CanGrow
  <2>4. ASSUME NEW verb \in Verbs, NEW rc \in Codes \ {"OK"}, Refuse(verb, rc)
        PROVE  reply'.rc # "OK"
    BY <2>4 DEF Refuse, Answer
  <2>5. CASE AbortCommit
    BY <2>5 DEF AbortCommit, Answer
  <2>6. CASE CommitFinish
    <3>1. generation \in Gen /\ generation < MaxGen /\ <<>> \in Seq(Checkpoints)
      BY <2>0, <2>6 DEF CommitFinish, Room, TypeOK
    <3>2. PICK dead : Discard(<<>>, dead, "COMMIT") /\ "COMMIT" \in Verbs
      BY <2>6 DEF CommitFinish, Verbs
    <3> QED
      BY <2>0, <3>1, <3>2, DiscardFacts
  <2>7. CASE CommitBegin \/ RunBegin \/ Shutdown \/ ClientGone
    BY <2>7 DEF CommitBegin, RunBegin, Shutdown, ClientGone
  <2>8. ASSUME NEW p \in Path, MergeVisit(p)
        PROVE  FALSE
    BY <2>8 DEF MergeVisit, Walking
  <2>9. CASE MergeNextLayer \/ CommandOp
    BY <2>9 DEF MergeNextLayer, Walking, CommandOp, WriteThrough
  <2>10. CASE RunEnd \/ Diff
    BY <2>10 DEF RunEnd, Diff
  <2>11. CASE StrayOp \/ UNCHANGED vars
    BY <2>11 DEF StrayOp, WriteThrough, vars
  <2> QED
    BY <2>0, <2>1, <2>2, <2>3, <2>4, <2>5, <2>6, <2>7, <2>8, <2>9, <2>10, <2>11, NextCases
    DEF MergeFail, MergeNoLayer
<1> QED
  BY <1>1, <1>2, TableInit, TableStep, MountStep, PTL DEF Spec, MountLossReported

----------------------------------------------------------------------------
(* DIFF. *)

(* The stack that DIFF walks, and its newest decider at a path. *)
LEMMA ShownByDecider ==
  ASSUME TypeOK, NEW p \in Path, Deciders(LayersOf(Live), p) # {}
  PROVE  LET ls == LayersOf(Live)
             n  == Newest(Deciders(ls, p))
         IN  /\ n \in DOMAIN ls
             /\ ls[n] \in Layer
             /\ Decides(ls[n], p)
             /\ View(ws, ls)[p] = NodeOf(ls[n], p)
             /\ \A i \in DOMAIN ls : i \in Int /\ (Decides(ls[i], p) => i <= n)
<1> DEFINE ls == LayersOf(Live)
           n  == Newest(Deciders(ls, p))
<1>1. Live \in Seq(Gen)
  BY StackType DEF Live, TypeOK
<1>2. ls \in [1 .. Len(Live) -> Layer] /\ Len(Live) \in Nat
  BY <1>1, LayersOfType
<1> HIDE DEF ls
<1>3. Deciders(ls, p) \in SUBSET (1 .. Len(Live))
  BY <1>2 DEF Deciders
<1>4. n \in Deciders(ls, p) /\ \A j \in Deciders(ls, p) : j <= n
  BY <1>2, <1>3, NewestIn DEF ls
<1>5. View(ws, ls)[p] = NodeOf(ls[n], p)
  BY DEF View, ls
<1> QED
  BY <1>2, <1>4, <1>5 DEF Deciders, ls

(* A leaf shown by a layer is reported as modified: a layer that sets its  *)
(* status also decides it, so the newest to decide is the newest to set.   *)
THEOREM LeavesAreReported == Spec => []DiffReportsLeaves
<1>1. TypeOK => DiffReportsLeaves
  <2> DEFINE ls == LayersOf(Live)
  <2> SUFFICES ASSUME TypeOK, NEW p \in Path, View(ws, ls)[p] \notin {"absent", "dir"},
                      Deciders(ls, p) # {}
               PROVE  DiffStatus(ls)[p] = "M"
    BY DEF DiffReportsLeaves
  <2> DEFINE n == Newest(Deciders(ls, p))
  <2>1. /\ n \in DOMAIN ls /\ ls[n] \in Layer /\ View(ws, ls)[p] = NodeOf(ls[n], p)
        /\ \A i \in DOMAIN ls : i \in Int /\ (Decides(ls[i], p) => i <= n)
    BY ShownByDecider
  <2> HIDE DEF n, ls
  <2>2. ls[n][p] \notin {"none", "whiteout", "dir", "opaque"}
    BY <2>1 DEF NodeOf
  <2>3. n \in DiffSetters(ls, p)
    BY <2>1, <2>2 DEF DiffSetters
  <2>4. \A j \in DiffSetters(ls, p) : j \in Int /\ j <= n
    BY <2>1 DEF DiffSetters, Decides
  <2>5. Newest(DiffSetters(ls, p)) = n
    BY <2>3, <2>4, NewestIs
  <2> QED
    BY <2>2, <2>3, <2>5 DEF DiffStatus
<1> QED
  BY <1>1, TypeCorrect, PTL

(* A leaf of the workspace that the sandbox no longer shows is reported:   *)
(* what hides it is a whiteout or a leaf, which has a status, or an opaque *)
(* directory above it.                                                     *)
THEOREM DeletionsAreReported == Spec => []DiffReportsDeletions
<1>1. TypeOK => DiffReportsDeletions
  <2> DEFINE ls == LayersOf(Live)
  <2> SUFFICES ASSUME TypeOK, NEW p \in Path, ws[p] \in Content, View(ws, ls)[p] = "absent",
                      ~ \E i \in DOMAIN ls : InOpaque(ls[i], p)
               PROVE  \E q \in Anc[p] \cup {p} : DiffStatus(ls)[q] # "-"
    BY DEF DiffReportsDeletions
  <2> DEFINE n == Newest(Deciders(ls, p))
  <2>1. Deciders(ls, p) # {}
    BY ContentAssumption DEF View, Reserved
  <2>2. /\ n \in DOMAIN ls /\ ls[n] \in Layer /\ View(ws, ls)[p] = NodeOf(ls[n], p)
        /\ Decides(ls[n], p)
    BY <2>1, ShownByDecider
  <2> HIDE DEF n, ls
  <2>3. ls[n][p] \in {"none", "whiteout"}
    BY <2>2, ContentAssumption DEF NodeOf, Layer, Entry, Reserved
  <2>4. PICK q \in Anc[p] \cup {p} : ls[n][q] \notin {"none", "dir", "opaque"}
    <3>1. CASE ls[n][p] = "whiteout"
      BY <3>1
    <3>2. CASE ls[n][p] = "none"
      BY <2>2, <3>2 DEF Decides, Hides, InOpaque
    <3> QED
      BY <2>3, <3>1, <3>2
  <2>5. q \in Path /\ n \in DiffSetters(ls, q)
    BY <2>2, <2>4, PathAssumption DEF DiffSetters
  <2>6. DiffStatus(ls)[q] # "-"
    BY <2>5 DEF DiffStatus
  <2> QED
    BY <2>6
<1> QED
  BY <1>1, TypeCorrect, PTL
=============================================================================
