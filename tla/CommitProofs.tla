---------------------------- MODULE CommitProofs ----------------------------
(* A commit publishes what the sandbox shows, and with that the supervisor *)
(* implements the store of snapshots: for every workspace, every stack of  *)
(* layers and every order in which nftw visits a directory's entries.      *)
EXTENDS SupervisorProofs

(* Abbreviations of Supervisor that the provers always see through. *)
USE DEF DeadWork, NewCheckpoint, TableFull

----------------------------------------------------------------------------
(* One layer. *)

(* The tree t is v, but for the special files of v and what they hide. *)
Agrees(t, v) == \A p \in Path : t[p] = v[p] \/ Unpublished(v, p)

(* The walk of layer L has visited the entries S, and t is on its way to   *)
(* the tree goal: what L leaves alone is there already, directories to be  *)
(* merged with are in place, visited entries are what they should be, and  *)
(* nothing is left below a visited entry that hides what it covers.        *)
MergedSoFar(t, L, goal, S) ==
  /\ \A p \in Path : ~Decides(L, p) => t[p] = goal[p] \/ Unpublished(goal, p)
  /\ \A p \in Path : L[p] = "dir" /\ ~InOpaque(L, p) => t[p] = "dir"
  /\ \A p \in S : /\ L[p] # "none"
                  /\ Anc[p] \subseteq S
                  /\ L[p] \notin Special => t[p] = NodeOf(L, p)
  /\ \A p \in Path \ S : \A a \in Anc[p] \cap S :
       Hides(L[a]) /\ L[a] \notin Special => t[p] = "absent"

(* Before a layer is walked, the workspace agrees with what lies below it. *)
LEMMA MergeStarts ==
  ASSUME NEW t, NEW L \in Layer, NEW low, Agrees(t, low), WellFormed(low), Fits(L, low)
  PROVE  MergedSoFar(t, L, Over(L, low), {})
<1> USE PathAssumption
<1>1. ASSUME NEW p \in Path, ~Decides(L, p)
      PROVE  t[p] = Over(L, low)[p] \/ Unpublished(Over(L, low), p)
  <2>1. Over(L, low)[p] = low[p]
    BY <1>1 DEF Over
  <2>2. ASSUME Unpublished(low, p) PROVE Unpublished(Over(L, low), p)
    <3>1. PICK q \in Anc[p] \cup {p} : low[q] \in Special
      BY <2>2 DEF Unpublished
    <3>2. q \in Path /\ Anc[q] \subseteq Anc[p]
      OBVIOUS
    <3>3. ~Decides(L, q)
      <4>1. ~ \E a \in Anc[q] : Hides(L[a])
        BY <1>1, <3>2 DEF Decides
      <4>2. L[q] = "dir" => low[q] = "dir"
        BY <3>2, <4>1 DEF Fits, InOpaque, Hides
      <4>3. L[q] # "dir"
        BY <3>1, <4>2, ContentAssumption DEF Reserved
      <4> QED
        BY <1>1, <4>1, <4>3 DEF Decides, Hides
    <3>4. Over(L, low)[q] = low[q]
      BY <3>2, <3>3 DEF Over
    <3> QED
      BY <3>1, <3>4 DEF Unpublished
  <2> QED
    BY <2>1, <2>2 DEF Agrees
<1>2. ASSUME NEW p \in Path, L[p] = "dir", ~InOpaque(L, p)
      PROVE  t[p] = "dir"
  <2>1. low[p] = "dir"
    BY <1>2 DEF Fits
  <2>2. \A a \in Anc[p] : low[a] = "dir"
    BY <2>1 DEF WellFormed
  <2>3. ~Unpublished(low, p)
    BY <2>1, <2>2, ContentAssumption DEF Unpublished, Reserved
  <2> QED
    BY <2>1, <2>3 DEF Agrees
<1> QED
  BY <1>1, <1>2 DEF MergedSoFar

(* When all its entries are visited, the workspace agrees with what the    *)
(* layer shows.                                                            *)
LEMMA MergeEnds ==
  ASSUME NEW t, NEW L \in Layer, NEW low, NEW S \in SUBSET Path,
         MergedSoFar(t, L, Over(L, low), S), \A p \in Path : L[p] # "none" => p \in S
  PROVE  Agrees(t, Over(L, low))
<1> USE PathAssumption
<1> DEFINE goal == Over(L, low)
<1> SUFFICES ASSUME NEW p \in Path PROVE t[p] = goal[p] \/ Unpublished(goal, p)
  BY DEF Agrees
<1>0. \A q \in Path : Decides(L, q) => goal[q] = NodeOf(L, q)
  BY DEF Over
<1>1. ASSUME NEW q \in Anc[p] \cup {p}, L[q] \in Special
      PROVE  Unpublished(goal, p)
  <2>1. q \in Path /\ L[q] \notin Reserved
    BY <1>1, ContentAssumption
  <2>2. goal[q] = L[q]
    BY <1>0, <2>1 DEF Decides, NodeOf, Reserved
  <2> QED
    BY <1>1, <2>2 DEF Unpublished
<1> HIDE DEF goal
<1>2. CASE ~Decides(L, p)
  BY <1>2 DEF MergedSoFar, goal
<1>3. CASE L[p] # "none"
  <2>1. p \in S /\ goal[p] = NodeOf(L, p)
    BY <1>0, <1>3 DEF Decides
  <2>2. CASE L[p] \in Special
    BY <1>1, <2>2
  <2>3. CASE L[p] \notin Special
    BY <2>1, <2>3 DEF MergedSoFar
  <2> QED
    BY <2>2, <2>3
<1>4. CASE L[p] = "none" /\ Decides(L, p)
  <2>1. goal[p] = "absent"
    BY <1>0, <1>4 DEF NodeOf
  <2>2. PICK a \in Anc[p] : Hides(L[a])
    BY <1>4 DEF Decides
  <2>3. a \in S
    BY <2>2 DEF Hides
  <2>4. CASE L[a] \in Special
    BY <1>1, <2>4
  <2>5. CASE L[a] \notin Special
    <3>1. p \notin S
      BY <1>4 DEF MergedSoFar
    <3>2. t[p] = "absent"
      BY <2>2, <2>3, <2>5, <3>1 DEF MergedSoFar
    <3> QED
      BY <2>1, <3>2
  <2> QED
    BY <2>4, <2>5
<1> QED
  BY <1>2, <1>3, <1>4

(* What a visit does to the paths it is not about: it changes those below  *)
(* the entry when the entry hides them, and no other.                      *)
LEMMA VisitElsewhere ==
  ASSUME NEW t \in Tree, NEW p \in Path, NEW e \in Entry, NEW q \in Path, q # p,
         \A a \in Anc[p] : t[a] = "dir"
  PROVE  IF q \in Desc(p) /\ e \in {"whiteout", "opaque"}
         THEN merge_visit(t, p, e)[q] = "absent"
         ELSE merge_visit(t, p, e)[q] = t[q]
<1> USE PathAssumption
<1>1. ASSUME NEW w, \A a \in Anc[p] : w[a] = "dir"
      PROVE  mkdir_p(w, p)[q] = w[q]
  BY <1>1 DEF mkdir_p
<1>2. purge(t, p)[q] = IF q \in Desc(p) THEN "absent" ELSE t[q]
  BY DEF purge, Subtree
<1>3. \A a \in Anc[p] : purge(t, p)[a] = t[a]
  BY DEF purge, Subtree, Desc
<1>4. CASE e = "whiteout"
  BY <1>2, <1>4, ContentAssumption DEF merge_visit, Reserved
<1>5. CASE e = "opaque"
  BY <1>1, <1>2, <1>3, <1>5, ContentAssumption DEF merge_visit, Reserved
<1>6. CASE e = "dir"
  BY <1>1, <1>6, ContentAssumption DEF merge_visit, Reserved
<1>7. CASE e \notin {"whiteout", "opaque", "dir"}
  BY <1>7 DEF merge_visit, Tree
<1> QED
  BY <1>4, <1>5, <1>6, <1>7

(* What it does to the path it is about.                                   *)
LEMMA VisitHere ==
  ASSUME NEW t \in Tree, NEW L \in Layer, NEW p \in Path, L[p] \notin Special \cup {"none"},
         \A a \in Anc[p] : t[a] = "dir", L[p] = "dir" => t[p] \in {"dir", "absent"}
  PROVE  merge_visit(t, p, L[p])[p] = NodeOf(L, p)
<1> USE PathAssumption
<1> DEFINE e == L[p]
<1>1. e \in Entry
  BY DEF Layer
<1>2. ASSUME NEW w, \A a \in Anc[p] : w[a] = "dir", w[p] \in {"dir", "absent"}
      PROVE  mkdir_p(w, p)[p] = "dir"
  BY <1>2 DEF mkdir_p, BelowLeaf
<1>3. purge(t, p)[p] = "absent" /\ \A a \in Anc[p] : purge(t, p)[a] = t[a]
  BY DEF purge, Subtree, Desc
<1>4. CASE e = "whiteout"
  BY <1>3, <1>4, ContentAssumption DEF merge_visit, NodeOf, Reserved
<1>5. CASE e = "opaque"
  BY <1>2, <1>3, <1>5, ContentAssumption DEF merge_visit, NodeOf, Reserved
<1>6. CASE e = "dir"
  BY <1>2, <1>6, ContentAssumption DEF merge_visit, NodeOf, Reserved
<1>7. CASE e \in Content
  BY <1>7, ContentAssumption DEF merge_visit, NodeOf, Reserved, Tree
<1> QED
  BY <1>1, <1>4, <1>5, <1>6, <1>7 DEF Entry

(* A visit that returns 0 brings the workspace one entry further, in any   *)
(* order that visits a directory before its contents.                      *)
LEMMA VisitMerges ==
  ASSUME NEW t \in Tree, WellFormed(t), NEW L \in Layer, Closed(L), NEW goal,
         NEW S \in SUBSET Path, MergedSoFar(t, L, goal, S),
         NEW p \in Path, L[p] # "none", p \notin S, Anc[p] \subseteq S,
         ~VisitFails(t, p, L[p])
  PROVE  MergedSoFar(merge_visit(t, p, L[p]), L, goal, S \cup {p})
<1> USE PathAssumption
<1> DEFINE u == merge_visit(t, p, L[p])
<1>1. \A a \in Anc[p] : t[a] = "dir"
  <2> SUFFICES ASSUME NEW a \in Anc[p] PROVE t[a] = "dir"
    OBVIOUS
  <2>1. a \in S /\ L[a] \in {"dir", "opaque"}
    BY DEF Closed
  <2>2. L[a] \notin Special
    BY <2>1, ContentAssumption DEF Reserved
  <2> QED
    BY <2>1, <2>2 DEF MergedSoFar, NodeOf
<1>2. \A q \in Path \ {p} : IF q \in Desc(p) /\ L[p] \in {"whiteout", "opaque"}
                            THEN u[q] = "absent" ELSE u[q] = t[q]
  BY <1>1, VisitElsewhere DEF Layer
<1>3. L[p] \notin Special => u[p] = NodeOf(L, p)
  <2>1. ASSUME L[p] = "dir" PROVE t[p] \in {"dir", "absent"}
    <3>1. CASE InOpaque(L, p)
      <4>1. PICK a \in Anc[p] : L[a] = "opaque"
        BY <3>1 DEF InOpaque
      <4>2. Hides(L[a]) /\ L[a] \notin Special
        BY <4>1, ContentAssumption DEF Hides, Reserved
      <4> QED
        BY <4>2 DEF MergedSoFar
    <3>2. CASE ~InOpaque(L, p)
      BY <2>1, <3>2 DEF MergedSoFar
    <3> QED
      BY <3>1, <3>2
  <2> QED
    BY <1>1, <2>1, VisitHere
<1> HIDE DEF u
<1>4. ASSUME NEW q \in Path, ~Decides(L, q)
      PROVE  u[q] = goal[q] \/ Unpublished(goal, q)
  <2>1. q # p /\ ~(q \in Desc(p) /\ L[p] \in {"whiteout", "opaque"})
    BY <1>4 DEF Decides, Desc, Hides
  <2> QED
    BY <1>2, <1>4, <2>1 DEF MergedSoFar
<1>5. ASSUME NEW q \in Path, L[q] = "dir", ~InOpaque(L, q)
      PROVE  u[q] = "dir"
  <2>1. t[q] = "dir"
    BY <1>5 DEF MergedSoFar
  <2>2. CASE q = p
    BY <1>3, <1>5, <2>2, ContentAssumption DEF NodeOf, Reserved
  <2>3. CASE q # p
    <3>1. q \in Desc(p) => L[p] \in {"dir", "opaque"} /\ L[p] # "opaque"
      BY <1>5 DEF Closed, Desc, InOpaque
    <3> QED
      BY <1>2, <2>1, <2>3, <3>1
  <2> QED
    BY <2>2, <2>3
<1>6. ASSUME NEW q \in S \cup {p}
      PROVE  /\ L[q] # "none"
             /\ Anc[q] \subseteq S \cup {p}
             /\ L[q] \notin Special => u[q] = NodeOf(L, q)
  <2>1. CASE q = p
    BY <1>3, <2>1
  <2>2. CASE q # p
    <3>1. q \in S /\ Anc[q] \subseteq S /\ L[q] # "none"
      BY <2>2 DEF MergedSoFar
    <3>2. q \notin Desc(p)
      BY <3>1 DEF Desc
    <3>3. u[q] = t[q]
      BY <1>2, <2>2, <3>1, <3>2
    <3> QED
      BY <3>1, <3>3 DEF MergedSoFar
  <2> QED
    BY <2>1, <2>2
<1>7. ASSUME NEW q \in Path \ (S \cup {p}), NEW a \in Anc[q] \cap (S \cup {p}),
             Hides(L[a]), L[a] \notin Special
      PROVE  u[q] = "absent"
  <2>1. CASE a \in S
    <3>1. t[q] = "absent"
      BY <1>7, <2>1 DEF MergedSoFar
    <3> QED
      BY <1>2, <3>1
  <2>2. CASE a = p
    <3>1. q \in Desc(p)
      BY <2>2 DEF Desc
    <3>2. CASE L[p] \in {"whiteout", "opaque"}
      BY <1>2, <3>1, <3>2
    <3>3. CASE L[p] \notin {"whiteout", "opaque"}
      <4>1. L[p] \in Content \ Special
        BY <1>7, <2>2, <3>3 DEF Layer, Entry, Hides
      <4>2. t[p] # "dir"
        BY <4>1 DEF VisitFails, Replaceable
      <4>3. t[q] = "absent"
        BY <3>1, <4>2 DEF WellFormed, Desc
      <4> QED
        BY <1>2, <4>3
    <3> QED
      BY <3>2, <3>3
  <2> QED
    BY <2>1, <2>2
<1> QED
  BY <1>4, <1>5, <1>6, <1>7 DEF MergedSoFar, u

----------------------------------------------------------------------------
(* The stack. *)

(* What the k oldest layers show over the workspace. *)
Under(k) == View(ws, [i \in 1 .. k |-> layers[Live[i]]])

(* Facts about the live stack and its parts.                               *)
LEMMA UnderFacts ==
  ASSUME TypeOK
  PROVE  /\ Len(Live) \in Nat /\ Len(Live) = Len(ckpts) + 1 /\ DOMAIN Live = 1 .. Len(Live)
         /\ \A i \in 1 .. Len(Live) : Live[i] \in Gen /\ layers[Live[i]] \in Layer
         /\ Under(0) = ws
         /\ Under(Len(Live)) = Shown(Live)
         /\ \A k \in 1 .. Len(Live) : Under(k) = Over(layers[Live[k]], Under(k - 1))
         /\ \A k \in 0 .. Len(Live) : Under(k) \in Tree
         /\ WellFormed(ws) /\ LayersClosed =>
              \A k \in 0 .. Len(Live) : WellFormed(Under(k))
<1>1. /\ Len(Live) \in Nat /\ Len(Live) = Len(ckpts) + 1 /\ DOMAIN Live = 1 .. Len(Live)
      /\ Live \in Seq(Gen)
  BY StackType DEF Live, TypeOK
<1>2. \A i \in 1 .. Len(Live) : Live[i] \in Gen
  BY <1>1
<1>3. \A i \in 1 .. Len(Live) : layers[Live[i]] \in Layer
  BY <1>2 DEF TypeOK
<1>4. Under(0) = ws
  <2>1. \A p \in Path : Deciders([i \in 1 .. 0 |-> layers[Live[i]]], p) = {}
    BY DEF Deciders
  <2>2. ws = [p \in Path |-> ws[p]]
    BY DEF TypeOK, Tree
  <2> QED
    BY <2>1, <2>2 DEF Under, View
<1>5. Under(Len(Live)) = Shown(Live)
  BY <1>1 DEF Under, Shown, LayersOf
<1>6. ASSUME NEW k \in 1 .. Len(Live)
      PROVE  Under(k) = Over(layers[Live[k]], Under(k - 1))
  <2> DEFINE ls == [i \in 1 .. k |-> layers[Live[i]]]
  <2>1. k \in Nat /\ k > 0 /\ DOMAIN ls = 1 .. k /\ ls[k] = layers[Live[k]]
    BY <1>1
  <2>2. [i \in 1 .. k - 1 |-> ls[i]] = [i \in 1 .. k - 1 |-> layers[Live[i]]]
    BY <1>1
  <2>3. View(ws, ls) = Over(ls[k], View(ws, [i \in 1 .. k - 1 |-> ls[i]]))
    <3> HIDE DEF ls
    <3> QED
      BY <2>1, ViewIsOver
  <2> QED
    BY <2>1, <2>2, <2>3 DEF Under
<1>7. ASSUME NEW k \in 0 .. Len(Live)
      PROVE  [i \in 1 .. k |-> layers[Live[i]]] \in [1 .. k -> Layer] /\ k \in Nat
  BY <1>1, <1>3
<1>8. ASSUME NEW k \in 0 .. Len(Live) PROVE Under(k) \in Tree
  BY <1>7, ViewType DEF Under, TypeOK
<1>9. ASSUME NEW k \in 0 .. Len(Live), WellFormed(ws), LayersClosed PROVE WellFormed(Under(k))
  <2>1. \A i \in 1 .. k : Closed(layers[Live[i]])
    BY <1>1, <1>2, <1>9 DEF LayersClosed
  <2> QED
    BY <1>7, <1>9, <2>1, ViewWellFormed DEF Under
<1> QED
  BY <1>1, <1>2, <1>3, <1>4, <1>5, <1>6, <1>8, <1>9

(* What is shown depends on the workspace and the layers alone.            *)
LEMMA UnderSame ==
  ASSUME NEW k, ws' = ws,
         \A i \in 1 .. k : Live'[i] = Live[i] /\ layers'[Live[i]] = layers[Live[i]]
  PROVE  Under(k)' = Under(k)
<1>1. [i \in 1 .. k |-> layers'[Live'[i]]] = [i \in 1 .. k |-> layers[Live[i]]]
  OBVIOUS
<1> QED
  BY <1>1 DEF Under

(* The stack of a changed table.                                           *)
LEMMA LiveAfter ==
  ASSUME TypeOK, TypeOK'
  PROVE  /\ Len(Live') = Len(ckpts') + 1
         /\ Live'[Len(ckpts') + 1] = generation'
         /\ \A i \in 1 .. Len(ckpts') : Live'[i] = ckpts'[i].gen
         /\ Live[Len(ckpts) + 1] = generation
         /\ \A i \in 1 .. Len(ckpts) : Live[i] = ckpts[i].gen
  BY StackType DEF Live, TypeOK

----------------------------------------------------------------------------
(* What holds whatever fails, as long as no process outlives its command. *)

(* Directories that are still to be made are empty, and all of them are    *)
(* before the first mount.                                                 *)
Fresh == \A g \in Gen : g > generation \/ phase = "starting" => layers[g] = EmptyLayer

(* The walk's position is kept inside a commit only. *)
Position == (phase = "merging" => mi > 0) /\ (phase # "merging" => mi = 0)

BaseInv ==
  /\ TableInv
  /\ MountInv
  /\ strays = {}
  /\ WellFormed(ws)
  /\ Fresh
  /\ Position

(* It holds initially. *)
LEMMA BaseInit == Init => BaseInv
<1> SUFFICES ASSUME Init PROVE BaseInv
  OBVIOUS
<1>1. TableInv
  BY TableInit
<1>2. MountInv /\ strays = {} /\ WellFormed(ws) /\ Position
  BY DEF Init, MountInv, MountMatchesTable, Position
<1>3. Fresh
  BY DEF Init, Fresh
<1> QED
  BY <1>1, <1>2, <1>3 DEF BaseInv

(* Layers above the live one stay empty when the live one is replaced and  *)
(* others are purged.                                                      *)
LEMMA FreshAfter ==
  ASSUME BaseInv, phase # "starting" \/ layers' = layers, phase' # "starting",
         generation' = generation + 1,
         \A g \in Gen : layers'[g] \in {layers[g], EmptyLayer}
  PROVE  Fresh'
<1>1. generation \in Int /\ \A g \in Gen : g \in Int
  BY BoundsAssumption DEF BaseInv, TableInv, TypeOK, Gen
<1>2. ASSUME NEW g \in Gen, g > generation + 1
      PROVE  layers[g] = EmptyLayer
  BY <1>1, <1>2 DEF BaseInv, Fresh
<1> QED
  BY <1>2 DEF Fresh

(* Every step preserves it: a visit of the merge, complete or failed,      *)
(* leaves a real directory tree, and only the live layer is written.       *)
LEMMA BaseStep ==
  ASSUME Leftovers = {}
  PROVE  BaseInv /\ [Next]_vars => BaseInv'
<1> SUFFICES ASSUME BaseInv, [Next]_vars PROVE BaseInv'
  OBVIOUS
<1>0. /\ TableInv /\ MountInv /\ strays = {} /\ WellFormed(ws) /\ Fresh /\ Position
      /\ TypeOK /\ Room /\ LayersClosed /\ mi \in Nat
  BY DEF BaseInv, TableInv, TypeOK
<1>1. TableInv' /\ MountInv'
  BY <1>0, TableStep, MountStep
<1> DEFINE Goal == strays' = {} /\ WellFormed(ws)' /\ Fresh' /\ Position'
<1>2. SUFFICES Goal
  BY <1>1 DEF BaseInv
<1>3. ASSUME UNCHANGED <<ws, layers, generation, strays, mi>>,
             phase' # "starting", phase # "starting", phase' = "merging" <=> phase = "merging"
      PROVE  Goal
  BY <1>0, <1>3 DEF Fresh, Position
<1>4. CASE Start
  <2>1. generation' = generation + 1 /\ phase' # "starting" /\ phase' # "merging"
    BY <1>4 DEF Start, NewGeneration
  <2>2. UNCHANGED <<ws, layers, strays, mi>> /\ phase = "starting"
    BY <1>4 DEF Start
  <2>3. Fresh'
    BY <2>1, <2>2, FreshAfter
  <2> QED
    BY <1>0, <2>1, <2>2, <2>3 DEF Position
<1>5. CASE Seal
  <2>1. generation' = generation + 1 /\ phase = "idle"
    BY <1>5, DiscardShape DEF Seal
  <2>2. UNCHANGED <<ws, layers, strays, mi, phase>>
    BY <1>0, <1>5, DiscardShape DEF Seal
  <2>3. Fresh'
    BY <2>1, <2>2, FreshAfter
  <2> QED
    BY <1>0, <2>1, <2>2, <2>3 DEF Position
<1>6. ASSUME NEW keep, phase = "idle", TruncateTo(keep)
      PROVE  Goal
  <2>1. generation' = generation + 1 /\ \E gens : Forget(gens)
    BY <1>6, DiscardShape DEF TruncateTo
  <2>2. UNCHANGED <<ws, strays, mi, phase>>
    BY <1>6 DEF TruncateTo
  <2>3. Fresh'
    BY <1>6, <2>1, <2>2, FreshAfter DEF Forget
  <2> QED
    BY <1>0, <1>6, <2>2, <2>3 DEF Position
<1>7. ASSUME NEW verb, NEW rc, Refuse(verb, rc)
      PROVE  Goal
  BY <1>0, <1>7 DEF Refuse, Fresh, Position
<1>8. CASE CommitBegin
  BY <1>0, <1>8 DEF CommitBegin, Fresh, Position
<1>9. ASSUME NEW p \in Path, MergeVisit(p) \/ MergeFail(p)
      PROVE  WellFormed(ws)'
  <2>1. Walked \in Layer
    BY <1>0, <1>9, StackType DEF MergeVisit, MergeFail, Walking, Walked, Live, TypeOK
  <2>2. Walked[p] \in Entry /\ ws \in Tree
    BY <1>0, <2>1 DEF Layer, TypeOK
  <2>3. CASE MergeFail(p)
    BY <1>0, <2>2, <2>3, VisitWellFormed DEF MergeFail
  <2>4. CASE MergeVisit(p)
    <3>1. PICK e \in TakenFor(p) : ~VisitFails(ws, p, e) /\ ws' \in VisitResults(p, e)
      BY <2>4 DEF MergeVisit
    <3>2. e \in Entry
      BY <2>2, <3>1 DEF TakenFor, Entry
    <3>3. \/ ws' = merge_visit(ws, p, e) /\ ~VisitFails(ws, p, e)
          \/ ws' = purge(ws, p)
          \/ ws' = ws
      BY <3>1 DEF VisitResults
    <3> QED
      BY <1>0, <2>2, <3>2, <3>3, VisitWellFormed
  <2> QED
    BY <1>9, <2>3, <2>4
<1>10. ASSUME NEW p \in Path, MergeVisit(p)
       PROVE  Goal
  BY <1>0, <1>9, <1>10 DEF MergeVisit, Walking, Fresh, Position
<1>11. CASE MergeNextLayer
  BY <1>0, <1>11 DEF MergeNextLayer, Walking, Fresh, Position
<1>12. ASSUME AbortCommit, WellFormed(ws)', phase = "merging"
       PROVE  Goal
  BY <1>0, <1>12 DEF AbortCommit, Fresh, Position
<1>13. ASSUME NEW p \in Path, MergeFail(p)
       PROVE  Goal
  BY <1>9, <1>12, <1>13 DEF MergeFail, Walking
<1>14. CASE MergeNoLayer
  BY <1>0, <1>12, <1>14 DEF MergeNoLayer, WellFormed
<1>15. CASE CommitFinish
  <2>1. generation' = generation + 1 /\ \E gens : Forget(gens)
    BY <1>15, DiscardShape DEF CommitFinish
  <2>2. phase = "merging" /\ phase' = "idle" /\ mi' = 0 /\ UNCHANGED <<ws, strays>>
    BY <1>15 DEF CommitFinish
  <2>3. Fresh'
    BY <2>1, <2>2, FreshAfter DEF Forget
  <2> QED
    BY <1>0, <2>2, <2>3 DEF Position
<1>16. CASE RunBegin \/ RunEnd \/ Diff
  BY <1>0, <1>3, <1>16 DEF RunBegin, RunEnd, Diff
<1>17. CASE CommandOp
  <2>1. mnt = Live /\ mnt \in Seq(Gen) /\ mnt # <<>> /\ WriteThrough(mnt)
    BY <1>0, <1>17 DEF CommandOp, MountInv, MountMatchesTable, Unmounted, TypeOK
  <2>2. mnt[Len(mnt)] = generation
    BY <1>0, <2>1, StackType DEF Live, TypeOK
  <2>3. /\ \A g \in Gen \ {generation} : layers'[g] = layers[g]
        /\ UNCHANGED <<ws, generation, phase, mi>>
    BY <1>0, <2>1, <2>2, WriteThroughFacts
  <2>4. generation \in Int /\ phase = "running" /\ strays' = strays
    BY <1>0, <1>17, BoundsAssumption DEF CommandOp, TypeOK, Gen
  <2>5. \A g \in Gen : g > generation => g # generation
    BY <2>4
  <2> QED
    BY <1>0, <2>3, <2>4, <2>5 DEF Fresh, Position
<1>18. CASE StrayOp
  BY <1>0, <1>18 DEF StrayOp
<1>19. CASE Shutdown
  BY <1>0, <1>19 DEF Shutdown, PurgeLeaves, Forget, Fresh, Position
<1>20. CASE ClientGone
  BY <1>0, <1>20 DEF ClientGone, Fresh, Position
<1>21. CASE UNCHANGED vars
  BY <1>0, <1>21 DEF vars, Fresh, Position
<1> HIDE DEF Goal
<1> QED
  BY <1>0, <1>4, <1>5, <1>6, <1>7, <1>8, <1>10, <1>11, <1>13, <1>14, <1>15, <1>16, <1>17,
     <1>18, <1>19, <1>20, <1>21, NextCases

----------------------------------------------------------------------------
(* The commit publishes. *)

(* The layers still to be walked fit what lies below them. *)
StackFits == \A k \in 1 .. Len(Live) : k > mi => Fits(layers[Live[k]], Under(k - 1))

WalkInv ==
  phase = "merging" /\ mi <= Len(Live) => MergedSoFar(ws, Walked, Under(mi), seen)

PublishInv == Serving /\ ~aborted => StackFits /\ WalkInv /\ CommitPublishes

(* A new layer fits anything. *)
LEMMA EmptyFits == \A low : Fits(EmptyLayer, low)
  BY DEF Fits, EmptyLayer

(* Outside a commit the invariant asks for fitting layers only, and it is  *)
(* enough to look at the top one: n layers below it are as before.         *)
LEMMA TopFits ==
  ASSUME TypeOK, TypeOK', PublishInv, ws' = ws, phase' # "merging",
         NEW n \in 0 .. Len(Live), Len(Live') = n + 1, n = 0 \/ (Serving /\ ~aborted /\ mi = 0),
         \A i \in 1 .. n : Live'[i] = Live[i] /\ layers'[Live[i]] = layers[Live[i]],
         Fits(layers'[Live'[n + 1]], Under(n))
  PROVE  PublishInv'
<1>1. Len(Live) \in Nat /\ n \in Nat /\ n <= Len(Live)
  BY UnderFacts
<1>2. ASSUME NEW k \in 0 .. n PROVE Under(k)' = Under(k)
  <2>1. \A i \in 1 .. k : i \in 1 .. n
    BY <1>1
  <2> QED
    BY <2>1, UnderSame
<1>3. ASSUME NEW k \in 1 .. n + 1
      PROVE  Fits(layers'[Live'[k]], Under(k - 1)')
  <2>1. CASE k \in 1 .. n
    <3>1. k \in 1 .. Len(Live) /\ k > mi /\ k - 1 \in 0 .. n
      BY <1>1, <2>1
    <3>2. Fits(layers[Live[k]], Under(k - 1))
      BY <1>1, <2>1, <3>1 DEF PublishInv, StackFits
    <3> QED
      BY <1>2, <2>1, <3>1, <3>2
  <2>2. CASE k = n + 1
    <3>1. k - 1 = n /\ n \in 0 .. n
      BY <1>1, <2>2
    <3> QED
      BY <1>2, <2>2, <3>1
  <2> QED
    BY <1>1, <2>1, <2>2
<1>4. StackFits'
  BY <1>3 DEF StackFits
<1> QED
  BY <1>4 DEF PublishInv, WalkInv, CommitPublishes, MergeDone

(* The walk of the next layer can begin when the workspace agrees with     *)
(* what the layers before it show, and when there is none it is done.      *)
LEMMA WalkBegins ==
  ASSUME TypeOK, LayersClosed, WellFormed(ws), NEW m \in 0 .. Len(Live), Agrees(ws, Under(m)),
         \A k \in 1 .. Len(Live) : k > m => Fits(layers[Live[k]], Under(k - 1)),
         phase' = "merging", mi' = m + 1, seen' = {},
         UNCHANGED <<ws, layers, ckpts, generation>>
  PROVE  PublishInv'
<1>1. Live' = Live /\ Len(Live) \in Nat /\ \A k \in 0 .. Len(Live) : Under(k)' = Under(k)
  <2>1. Live' = Live
    BY DEF Live
  <2> QED
    BY <2>1, UnderFacts, UnderSame
<1>2. StackFits'
  <2> SUFFICES ASSUME NEW k \in 1 .. Len(Live), k > m + 1
               PROVE  Fits(layers[Live[k]], Under(k - 1)')
    BY <1>1 DEF StackFits
  <2>1. k > m /\ k - 1 \in 0 .. Len(Live)
    BY <1>1
  <2> QED
    BY <1>1, <2>1
<1>3. WalkInv'
  <2> SUFFICES ASSUME m + 1 <= Len(Live)
               PROVE  MergedSoFar(ws, Walked', Under(m + 1)', {})
    BY <1>1 DEF WalkInv
  <2>1. m + 1 \in 1 .. Len(Live) /\ m + 1 - 1 = m /\ m + 1 > m /\ m \in 0 .. Len(Live)
    BY <1>1
  <2>2. Walked' = layers[Live[m + 1]] /\ layers[Live[m + 1]] \in Layer
    BY <1>1, <2>1, UnderFacts DEF Walked
  <2>3. Under(m + 1) = Over(layers[Live[m + 1]], Under(m)) /\ WellFormed(Under(m))
    BY <2>1, UnderFacts
  <2>4. Fits(layers[Live[m + 1]], Under(m))
    BY <2>1
  <2>5. MergedSoFar(ws, layers[Live[m + 1]], Over(layers[Live[m + 1]], Under(m)), {})
    BY <2>2, <2>3, <2>4, MergeStarts
  <2>6. Under(m + 1)' = Under(m + 1)
    BY <1>1, <2>1
  <2> QED
    BY <2>2, <2>3, <2>5, <2>6
<1>4. CommitPublishes'
  <2> SUFFICES ASSUME m + 1 > Len(Live)
               PROVE  WorkspaceIsShown'
    BY <1>1 DEF CommitPublishes, MergeDone
  <2>1. m = Len(Live)
    BY <1>1
  <2>2. Agrees(ws, Shown(Live))
    BY <2>1, UnderFacts
  <2>3. Shown(Live)' = Shown(Live)
    BY <1>1 DEF Shown, LayersOf
  <2> QED
    BY <2>2, <2>3 DEF WorkspaceIsShown, Agrees
<1> QED
  BY <1>2, <1>3, <1>4 DEF PublishInv

(* A visit that returns 0 moves the walk on and leaves what the layers up  *)
(* to the one walked show, and those above it.                             *)
LEMMA WalkContinues ==
  ASSUME BaseInv, PublishInv, "mkdir_p" \notin Faults, "getxattr" \notin Faults, ~aborted, NEW p \in Path, MergeVisit(p)
  PROVE  PublishInv'
<1>0. /\ TypeOK /\ LayersClosed /\ WellFormed(ws) /\ mi \in Nat
  BY DEF BaseInv, TableInv, TypeOK
<1>1. /\ phase = "merging" /\ mi <= Len(Live) /\ VisitNext(p) /\ ~VisitFails(ws, p, Walked[p])
      /\ ws' = merge_visit(ws, p, Walked[p]) /\ seen' = seen \cup {p}
      /\ UNCHANGED <<layers, ckpts, generation, mi, phase, aborted>>
  BY DEF MergeVisit, Walking, TakenFor, VisitResults, May
<1>2. mi \in 1 .. Len(Live) /\ Len(Live) \in Nat
  BY <1>0, <1>1, UnderFacts DEF BaseInv, Position
<1>3. Walked \in Layer /\ Closed(Walked) /\ Walked = layers[Live[mi]]
  BY <1>0, <1>2, UnderFacts DEF Walked, LayersClosed
<1>4. Live' = Live /\ Walked' = Walked
  BY <1>1 DEF Live, Walked
<1>5. \A q \in Path : ~Decides(Walked, q) => ws'[q] = ws[q]
  BY <1>0, <1>1, <1>3, VisitTouchesDecided DEF VisitNext, TypeOK
<1>6. ASSUME NEW k \in mi .. Len(Live) PROVE Under(k)' = Under(k)
  <2> DEFINE ls == [i \in 1 .. k |-> layers[Live[i]]]
  <2>1. mi \in DOMAIN ls /\ ls[mi] = Walked
    BY <1>2, <1>3
  <2>2. View(ws', ls) = View(ws, ls)
    <3> HIDE DEF ls
    <3> QED
      BY <1>5, <2>1, ViewIgnoresDecided
  <2> QED
    BY <1>1, <1>4, <2>2 DEF Under
<1>7. StackFits /\ MergedSoFar(ws, Walked, Under(mi), seen)
  BY <1>1 DEF PublishInv, Serving, WalkInv
<1>8. StackFits'
  <2> SUFFICES ASSUME NEW k \in 1 .. Len(Live), k > mi
               PROVE  Fits(layers[Live[k]], Under(k - 1)')
    BY <1>1, <1>4 DEF StackFits
  <2>1. k - 1 \in mi .. Len(Live)
    BY <1>2
  <2> QED
    BY <1>6, <1>7, <2>1 DEF StackFits
<1>9. WalkInv'
  <2>1. Under(mi)' = Under(mi)
    BY <1>1, <1>2, <1>6
  <2>2. MergedSoFar(merge_visit(ws, p, Walked[p]), Walked, Under(mi), seen \cup {p})
    <3>1. ws \in Tree /\ seen \in SUBSET Path
      BY <1>0 DEF TypeOK
    <3>2. Walked[p] # "none" /\ p \notin seen /\ Anc[p] \subseteq seen
      BY <1>1 DEF VisitNext
    <3> QED
      BY <1>0, <1>1, <1>3, <1>7, <3>1, <3>2, VisitMerges
  <2>3. MergedSoFar(ws', Walked', Under(mi)', seen')
    BY <1>1, <1>4, <2>1, <2>2
  <2> QED
    BY <1>1, <2>3 DEF WalkInv
<1>10. CommitPublishes'
  BY <1>0, <1>1, <1>2, <1>4 DEF CommitPublishes, MergeDone
<1> QED
  BY <1>8, <1>9, <1>10 DEF PublishInv

(* Every step preserves the invariant.  A commit that is given up sets     *)
(* aborted, and the next complete one leaves no layers.                    *)
LEMMA PublishStep ==
  ASSUME Leftovers = {}, "mkdir_p" \notin Faults, "getxattr" \notin Faults
  PROVE  BaseInv /\ PublishInv /\ [Next]_vars => PublishInv'
<1> SUFFICES ASSUME BaseInv, PublishInv, [Next]_vars, Serving', ~aborted' PROVE PublishInv'
  BY DEF PublishInv
<1>0. /\ TableInv /\ MountInv /\ strays = {} /\ WellFormed(ws) /\ Fresh /\ Position
      /\ TypeOK /\ Room /\ LayersClosed /\ TableOrdered /\ mi \in Nat
  BY DEF BaseInv, TableInv, TypeOK
<1>1. TypeOK'
  BY <1>0, TableStep DEF TableInv
<1>2. /\ ckpts \in Seq(Checkpoints) /\ Len(ckpts) \in Nat /\ Len(Live) = Len(ckpts) + 1
      /\ generation \in Gen /\ \A g \in Gen : g \in Int
      /\ layers \in [Gen -> Layer]
  BY <1>0, UnderFacts, BoundsAssumption DEF TypeOK, Gen
<1>3. ASSUME UNCHANGED <<ws, layers, ckpts, generation, mi, seen, aborted>>, Serving,
             phase' = "merging" <=> phase = "merging"
      PROVE  PublishInv'
  <2>1. Live' = Live
    BY <1>3 DEF Live
  <2>2. StackFits /\ WalkInv /\ CommitPublishes
    BY <1>3 DEF PublishInv
  <2> QED
    BY <1>3, <2>1, <2>2 DEF PublishInv, StackFits, WalkInv, CommitPublishes, MergeDone,
       WorkspaceIsShown, Walked, Under, Shown, LayersOf
<1>4. ASSUME generation' = generation + 1, generation' \in Gen,
             \A g \in Gen : layers'[g] \in {layers[g], EmptyLayer}
      PROVE  layers'[Live'[Len(ckpts') + 1]] = EmptyLayer
  <2>1. Live'[Len(ckpts') + 1] = generation + 1
    BY <1>0, <1>1, <1>4, LiveAfter
  <2>2. layers[generation + 1] = EmptyLayer
    BY <1>0, <1>2, <1>4 DEF Fresh
  <2> QED
    BY <1>4, <2>1, <2>2
<1>5. ASSUME generation' = generation + 1, ckpts' = <<>>, ws' = ws, phase' # "merging",
             \A g \in Gen : layers'[g] \in {layers[g], EmptyLayer}
      PROVE  PublishInv'
  <2>1. Len(Live') = 0 + 1 /\ 0 \in 0 .. Len(Live)
    BY <1>0, <1>1, <1>2, <1>5, LiveAfter
  <2>2. generation' \in Gen
    BY <1>1 DEF TypeOK
  <2>3. layers'[Live'[0 + 1]] = EmptyLayer
    BY <1>4, <1>5, <2>2
  <2> QED
    BY <1>0, <1>1, <1>5, <2>1, <2>3, EmptyFits, TopFits
<1>6. CASE Start
  <2>1. /\ generation' = generation + 1 /\ ckpts' = <<>> /\ ws' = ws /\ layers' = layers
        /\ phase' # "merging"
    BY <1>0, <1>6 DEF Start, NewGeneration, Room
  <2> QED
    BY <1>5, <2>1
<1>7. CASE Seal
  <2>1. /\ generation' = generation + 1 /\ UNCHANGED <<ws, layers, phase, aborted>>
        /\ phase = "idle"
    BY <1>0, <1>7, DiscardShape DEF Seal
  <2>2. /\ Len(ckpts') = Len(ckpts) + 1 /\ \A i \in 1 .. Len(ckpts) : ckpts'[i] = ckpts[i]
        /\ ckpts'[Len(ckpts) + 1].gen = generation
    BY <1>2, <1>7 DEF Seal
  <2> DEFINE n == Len(Live)
  <2>3. Len(Live') = n + 1 /\ n \in 0 .. Len(Live) /\ n = Len(ckpts')
    BY <1>0, <1>1, <1>2, <2>2, LiveAfter
  <2>4. \A i \in 1 .. n : Live'[i] = Live[i]
    <3>1. \A i \in 1 .. n : i \in 1 .. Len(ckpts) \/ i = Len(ckpts) + 1
      BY <1>2
    <3>2. \A i \in 1 .. n : i \in 1 .. Len(ckpts')
      BY <2>3
    <3> QED
      BY <1>0, <1>1, <2>2, <3>1, <3>2, LiveAfter
  <2>5. layers'[Live'[n + 1]] = EmptyLayer
    <3>1. generation' \in Gen
      BY <1>1 DEF TypeOK
    <3> QED
      BY <1>4, <2>1, <2>3, <3>1
  <2> HIDE DEF n
  <2>6. Serving /\ ~aborted /\ mi = 0 /\ phase' # "merging"
    BY <1>0, <2>1 DEF Serving, Position
  <2> QED
    BY <1>0, <1>1, <2>1, <2>3, <2>4, <2>5, <2>6, EmptyFits, TopFits
<1>8. ASSUME NEW keep \in 0 .. Len(ckpts), phase = "idle", CanGrow, TruncateTo(keep)
      PROVE  PublishInv'
  <2> DEFINE dead == DeadLayers(keep)
  <2>1. /\ generation' = generation + 1 /\ ckpts' = SubSeq(ckpts, 1, keep)
        /\ Forget(dead) /\ UNCHANGED <<ws, phase, aborted>>
    BY <1>8, DiscardShape DEF TruncateTo
  <2>2. /\ Len(ckpts') = keep /\ \A i \in 1 .. keep : ckpts'[i] = ckpts[i] /\ i \in 1 .. Len(ckpts)
    BY <1>2, <2>1
  <2>3. TableGens(ckpts') = (TableGens(ckpts) \cup {generation}) \ dead
    BY <1>0, <2>1, GensAfterTruncate
  <2> HIDE DEF dead
  <2>4. keep \in 0 .. Len(Live) /\ Len(Live') = keep + 1
    BY <1>0, <1>1, <1>2, <2>2, LiveAfter
  <2>5. ASSUME NEW i \in 1 .. keep
        PROVE  Live'[i] = Live[i] /\ layers'[Live[i]] = layers[Live[i]]
    <3>1. Live'[i] = ckpts[i].gen /\ Live[i] = ckpts[i].gen
      BY <1>0, <1>1, <2>2, LiveAfter
    <3>2. DOMAIN ckpts' = 1 .. keep
      BY <1>1, <2>2 DEF TypeOK
    <3>3. ckpts[i].gen \in TableGens(ckpts')
      BY <2>2, <3>2 DEF TableGens
    <3>4. Live[i] \in Gen \ dead
      BY <1>0, <1>2, <2>2, <2>3, <3>1, <3>3, UnderFacts
    <3> QED
      BY <1>0, <2>1, <3>1, <3>4, ForgetFacts
  <2>6. layers'[Live'[keep + 1]] = EmptyLayer
    <3>1. generation' \in Gen
      BY <1>1 DEF TypeOK
    <3>2. \A g \in Gen : layers'[g] \in {layers[g], EmptyLayer}
      BY <2>1 DEF Forget
    <3> QED
      BY <1>4, <2>1, <2>2, <3>1, <3>2
  <2>7. Serving /\ ~aborted /\ mi = 0 /\ phase' # "merging"
    BY <1>0, <1>8, <2>1 DEF Serving, Position
  <2> QED
    BY <1>0, <1>1, <2>1, <2>4, <2>5, <2>6, <2>7, EmptyFits, TopFits
<1>9. ASSUME NEW verb, NEW rc, Refuse(verb, rc)
      PROVE  PublishInv'
  BY <1>3, <1>9 DEF Refuse, Serving
<1>10. CASE CommitBegin
  <2>1. /\ phase = "idle" /\ phase' = "merging" /\ mi' = 0 + 1 /\ seen' = {}
        /\ UNCHANGED <<ws, layers, ckpts, generation, aborted>>
    BY <1>10 DEF CommitBegin
  <2>2. Agrees(ws, Under(0))
    BY <1>0, UnderFacts DEF Agrees
  <2>3. StackFits /\ mi = 0 /\ 0 \in 0 .. Len(Live)
    BY <1>0, <1>2, <2>1 DEF PublishInv, Serving, Position
  <2> QED
    BY <1>0, <2>1, <2>2, <2>3, WalkBegins DEF StackFits
<1>11. ASSUME NEW p \in Path, MergeVisit(p)
       PROVE  PublishInv'
  BY <1>11, WalkContinues DEF MergeVisit
<1>12. CASE MergeNextLayer
  <2>1. /\ phase = "merging" /\ mi <= Len(Live) /\ \A p \in Path : Walked[p] # "none" => p \in seen
        /\ mi' = mi + 1 /\ seen' = {} /\ UNCHANGED <<ws, layers, ckpts, generation, phase, aborted>>
    BY <1>12 DEF MergeNextLayer, Walking
  <2>2. mi \in 1 .. Len(Live) /\ mi \in 0 .. Len(Live)
    BY <1>0, <1>2, <2>1 DEF Position
  <2>3. StackFits /\ MergedSoFar(ws, Walked, Under(mi), seen)
    BY <2>1 DEF PublishInv, Serving, WalkInv
  <2>4. Agrees(ws, Under(mi))
    <3>1. Walked \in Layer /\ Under(mi) = Over(Walked, Under(mi - 1)) /\ seen \in SUBSET Path
      BY <1>0, <2>2, UnderFacts DEF Walked, TypeOK
    <3> QED
      BY <2>1, <2>3, <3>1, MergeEnds
  <2>5. \A k \in 1 .. Len(Live) : k > mi => Fits(layers[Live[k]], Under(k - 1))
    BY <2>3 DEF StackFits
  <2> QED
    BY <1>0, <2>1, <2>2, <2>4, <2>5, WalkBegins
<1>13. CASE AbortCommit
  BY <1>13 DEF AbortCommit
<1>14. CASE CommitFinish
  <2>1. /\ generation' = generation + 1 /\ ckpts' = <<>> /\ ws' = ws /\ phase' # "merging"
        /\ \A g \in Gen : layers'[g] \in {layers[g], EmptyLayer}
    BY <1>14, DiscardShape DEF CommitFinish, Forget
  <2> QED
    BY <1>5, <2>1
<1>15. CASE RunBegin \/ RunEnd \/ Diff
  BY <1>3, <1>15 DEF RunBegin, RunEnd, Diff, Serving
<1>16. CASE CommandOp
  <2>1. /\ mnt = Live /\ mnt \in Seq(Gen) /\ mnt # <<>> /\ WriteThrough(mnt) /\ phase = "running"
    BY <1>0, <1>16 DEF CommandOp, MountInv, MountMatchesTable, Unmounted, TypeOK
  <2> DEFINE n == Len(ckpts)
             U == layers[Live[n + 1]]
             low == Under(n)
  <2>2. /\ n \in 0 .. Len(Live) /\ n + 1 \in 1 .. Len(Live) /\ n + 1 - 1 = n
        /\ Len(mnt) = n + 1 /\ Live[n + 1] = generation
    BY <1>0, <1>1, <1>2, <2>1, LiveAfter
  <2>3. /\ \A g \in Gen \ {generation} : layers'[g] = layers[g]
        /\ UNCHANGED <<ws, ckpts, generation, phase, mi, aborted>>
    BY <1>0, <2>1, <2>2, WriteThroughFacts
  <2>4. Live' = Live
    BY <2>3 DEF Live
  <2>5. \A i \in 1 .. n : Live[i] \in Gen /\ Live[i] # generation
    <3> SUFFICES ASSUME NEW i \in 1 .. n PROVE Live[i] \in Gen /\ Live[i] # generation
      OBVIOUS
    <3>1. Live[i] = ckpts[i].gen /\ Live[i] \in Gen
      BY <1>0, <1>1, <1>2, LiveAfter, UnderFacts
    <3>2. ckpts[i].gen < generation
      BY <1>0, <1>2 DEF TableOrdered
    <3> QED
      BY <1>2, <3>1, <3>2
  <2>6. Shown(SubSeq(mnt, 1, Len(mnt) - 1)) = low
    <3>1. SubSeq(Live, 1, n) = [i \in 1 .. n |-> Live[i]]
      BY <1>2, <2>1, <2>2
    <3>2. LayersOf([i \in 1 .. n |-> Live[i]]) = [i \in 1 .. n |-> layers[Live[i]]]
      BY DEF LayersOf
    <3>3. Len(mnt) - 1 = n
      BY <1>2, <2>2
    <3>4. SubSeq(mnt, 1, Len(mnt) - 1) = [i \in 1 .. n |-> Live[i]]
      BY <2>1, <3>1, <3>3
    <3> QED
      BY <3>2, <3>4 DEF Shown, Under
  <2>7. Shown(mnt) = Over(U, low)
    BY <1>0, <1>2, <2>1, <2>2, UnderFacts
  <2>8. PICK W \in UpperSteps(U, low, Over(U, low)) : layers' = [layers EXCEPT ![generation] = W]
    BY <2>1, <2>2, <2>6, <2>7 DEF WriteThrough
  <2>9. layers'[Live'[n + 1]] = W
    BY <1>2, <2>2, <2>4, <2>8
  <2>10. U \in Layer /\ Fits(U, low)
    <3>1. StackFits /\ mi = 0
      BY <1>0, <2>1, <2>3 DEF PublishInv, Serving, Position
    <3>2. n + 1 > mi
      BY <1>2, <3>1
    <3> QED
      BY <1>0, <2>2, <3>1, <3>2, UnderFacts DEF StackFits
  <2>11. Fits(W, low)
    <3>1. \A q \in Path : Over(U, low)[q] = IF Decides(U, q) THEN NodeOf(U, q) ELSE low[q]
      BY DEF Over
    <3> HIDE DEF U, low
    <3> QED
      BY <2>10, <3>1, UpperStepsFit
  <2>12. Serving /\ ~aborted /\ mi = 0 /\ phase' # "merging"
    BY <1>0, <2>1, <2>3 DEF Serving, Position
  <2>13. \A i \in 1 .. n : Live'[i] = Live[i] /\ layers'[Live[i]] = layers[Live[i]]
    BY <2>3, <2>4, <2>5
  <2>14. Len(Live') = n + 1
    BY <1>2, <2>4
  <2> HIDE DEF n, U
  <2> QED
    BY <1>0, <1>1, <2>2, <2>3, <2>9, <2>11, <2>12, <2>13, <2>14, TopFits
<1>17. CASE StrayOp
  BY <1>0, <1>17 DEF StrayOp
<1>18. CASE Shutdown \/ ClientGone
  BY <1>18 DEF Shutdown, ClientGone, Serving
<1>19. CASE UNCHANGED vars
  BY <1>3, <1>19 DEF vars, Serving
<1> QED
  BY <1>0, <1>6, <1>7, <1>8, <1>9, <1>10, <1>11, <1>12, <1>13, <1>14, <1>15, <1>16, <1>17,
     <1>18, <1>19, NextCases DEF MergeFail, MergeNoLayer

(* A commit that walks every layer leaves in the workspace what the        *)
(* sandbox showed, but for special files, whatever was written, sealed and *)
(* rolled back before it and in whatever order nftw visits siblings;       *)
(* provided no process of a command outlives its answer, no mkdir of the   *)
(* merge fails unnoticed and no commit was given up since the last         *)
(* complete one.                                                           *)
THEOREM CommitsPublish ==
  ASSUME Leftovers = {}, "mkdir_p" \notin Faults, "getxattr" \notin Faults
  PROVE  Spec => []CommitPublishes
<1>1. Init => PublishInv
  BY DEF Init, PublishInv, Serving
<1>2. PublishInv => CommitPublishes
  BY DEF PublishInv, CommitPublishes, MergeDone, Serving
<1>3. BaseInv /\ [Next]_vars => BaseInv'
  BY BaseStep
<1>4. BaseInv /\ PublishInv /\ [Next]_vars => PublishInv'
  BY PublishStep
<1> QED
  BY <1>1, <1>2, <1>3, <1>4, BaseInit, PTL DEF Spec
=============================================================================
