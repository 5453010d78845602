--------------------------- MODULE OverlayProofs ---------------------------
(* Facts about the operators of Overlay, for every set of paths and        *)
(* contents and for stacks of any height.                                  *)
EXTENDS Overlay, WellFoundedInduction, TLAPS

(* A number of a set that is above all its numbers is the newest.          *)
LEMMA NewestIs ==
  ASSUME NEW S, NEW n \in S, \A j \in S : j \in Int /\ j <= n
  PROVE  Newest(S) = n
<1> DEFINE P(i) == i \in S /\ \A j \in S : j <= i
<1>1. P(n)
  OBVIOUS
<1>2. P(CHOOSE i : P(i))
  <2> HIDE DEF P
  <2> QED BY <1>1, Zenon
<1>3. Newest(S) = CHOOSE i : P(i)
  BY Zenon DEF Newest
<1>4. Newest(S) \in S /\ n <= Newest(S)
  BY <1>2, <1>3
<1> QED
  BY <1>4

(* A set of indices that is not empty has a newest member.                 *)
LEMMA NewestIn ==
  ASSUME NEW n \in Nat, NEW S \in SUBSET (1 .. n), S # {}
  PROVE  Newest(S) \in S /\ \A j \in S : j <= Newest(S)
<1> DEFINE T == {n - i : i \in S}
<1>0. \A i \in S : i \in Int /\ 1 <= i /\ i <= n
  OBVIOUS
<1>1. T \subseteq Nat /\ T # {}
  <2>1. ASSUME NEW i \in S PROVE n - i \in Nat
    BY <1>0
  <2> QED
    BY <2>1
<1>2. PICK x \in T : \A y \in T : ~(<<y, x>> \in OpToRel(<, Nat))
  BY <1>1, NatLessThanWellFounded, WFMin
<1>3. ASSUME NEW y \in T PROVE x <= y
  <2>1. x \in Nat /\ y \in Nat
    BY <1>1
  <2>2. ~(<<y, x>> \in OpToRel(<, Nat))
    BY <1>2
  <2>3. ~(y < x)
    BY <2>1, <2>2 DEF OpToRel
  <2> QED
    BY <2>1, <2>3
<1>4. PICK k \in S : x = n - k
  OBVIOUS
<1>5. \A j \in S : j <= k
  <2>1. ASSUME NEW j \in S PROVE n - k <= n - j
    BY <1>3, <1>4
  <2> QED
    BY <1>0, <2>1
<1>6. Newest(S) = k
  BY <1>0, <1>5, NewestIs
<1> QED
  BY <1>5, <1>6

(* When the top layer of a stack decides a path, the union shows the top   *)
(* layer's node there.                                                     *)
LEMMA TopDecides ==
  ASSUME NEW t, NEW n \in Nat, NEW ls, DOMAIN ls = 1 .. n, n > 0,
         NEW p \in Path, Decides(ls[n], p)
  PROVE  View(t, ls)[p] = NodeOf(ls[n], p)
<1>1. n \in Deciders(ls, p)
  BY DEF Deciders
<1>2. \A j \in Deciders(ls, p) : j \in Int /\ j <= n
  BY DEF Deciders
<1>3. Newest(Deciders(ls, p)) = n
  BY <1>1, <1>2, NewestIs
<1> QED
  BY <1>1, <1>3 DEF View

(* Rewriting the workspace only where some layer of the stack decides      *)
(* leaves the union unchanged.                                             *)
LEMMA ViewIgnoresDecided ==
  ASSUME NEW t, NEW u, NEW ls, NEW k \in DOMAIN ls,
         \A p \in Path : ~Decides(ls[k], p) => u[p] = t[p]
  PROVE  View(u, ls) = View(t, ls)
<1>1. ASSUME NEW p \in Path, Deciders(ls, p) = {}
      PROVE  u[p] = t[p]
  BY <1>1 DEF Deciders
<1> QED
  BY <1>1 DEF View

----------------------------------------------------------------------------
(* The merge. *)

(* Whatever the visit of an entry does to the target, and also when it     *)
(* fails half way, only paths that the layer decides are touched: a purge  *)
(* stays below an entry that hides what is under it, and the parents that  *)
(* mkdir_p makes are entries of the same layer.                            *)
LEMMA VisitTouchesDecided ==
  ASSUME NEW t \in Tree, NEW L, Closed(L), NEW p \in Path, L[p] # "none", NEW u,
         \/ u = merge_visit(t, p, L[p])
         \/ u = mkdir_p(t, p)
         \/ u = purge(t, p) /\ Hides(L[p])
         \/ u \in FailedVisits(t, p, L[p]),
         NEW q \in Path, ~Decides(L, q)
  PROVE  u[q] = t[q]
<1> USE PathAssumption
<1>1. q # p /\ q \notin Anc[p]
  BY DEF Decides, Closed
<1>2. Hides(L[p]) => q \notin Subtree(p)
  BY <1>1 DEF Decides, Subtree, Desc
<1>3. purge(t, p)[q] = t[q] \/ ~Hides(L[p])
  BY <1>2 DEF purge
<1>4. ASSUME NEW w PROVE mkdir_p(w, p)[q] = w[q]
  BY <1>1 DEF mkdir_p
<1>5. CASE u = merge_visit(t, p, L[p])
  <2>1. CASE L[p] = "whiteout"
    BY <1>3, <1>5, <2>1, ContentAssumption DEF merge_visit, Hides, Reserved
  <2>2. CASE L[p] = "opaque"
    BY <1>3, <1>4, <1>5, <2>2, ContentAssumption DEF merge_visit, Hides, Reserved
  <2>3. CASE L[p] = "dir"
    BY <1>4, <1>5, <2>3, ContentAssumption DEF merge_visit, Reserved
  <2>4. CASE L[p] \notin {"whiteout", "opaque", "dir"}
    BY <1>1, <1>5, <2>4, ContentAssumption DEF merge_visit, Tree, Reserved
  <2> QED
    BY <2>1, <2>2, <2>3, <2>4
<1>6. CASE u = purge(t, p) /\ Hides(L[p])
  BY <1>3, <1>6
<1>7. CASE u \in FailedVisits(t, p, L[p])
  <2>1. CASE L[p] \in {"whiteout", "opaque"} /\ u \in PartialPurges(t, p)
    BY <1>2, <2>1 DEF PartialPurges, Hides
  <2>2. CASE u \in {[t EXCEPT ![p] = n] : n \in {"absent", "torn"}}
    BY <1>1, <2>2 DEF Tree
  <2> QED
    BY <1>7, <2>1, <2>2 DEF FailedVisits
<1> QED
  BY <1>4, <1>5, <1>6, <1>7

(* A visit leaves a tree.                                                  *)
LEMMA VisitType ==
  ASSUME NEW t \in Tree, NEW p \in Path, NEW e \in Entry
  PROVE  /\ merge_visit(t, p, e) \in Tree
         /\ purge(t, p) \in Tree
         /\ FailedVisits(t, p, e) \subseteq Tree
<1>1. ASSUME NEW w \in Tree PROVE purge(w, p) \in Tree /\ mkdir_p(w, p) \in Tree
  BY DEF purge, mkdir_p, Tree, Node
<1>2. merge_visit(t, p, e) \in Tree
  <2>1. CASE e \in {"whiteout", "opaque", "dir"}
    BY <1>1, <2>1, ContentAssumption DEF merge_visit, Reserved
  <2>2. CASE e \in Content \ Special /\ e \notin {"whiteout", "opaque", "dir"}
    BY <2>2 DEF merge_visit, Tree, Node
  <2>3. CASE e \notin Content \ Special /\ e \notin {"whiteout", "opaque", "dir"}
    BY <2>3 DEF merge_visit
  <2> QED
    BY <2>1, <2>2, <2>3
<1>3. PartialPurges(t, p) \subseteq Tree
  BY DEF PartialPurges, Tree, Node
<1>4. ASSUME NEW n \in {"absent", "torn"} PROVE [t EXCEPT ![p] = n] \in Tree
  BY DEF Tree, Node
<1> QED
  BY <1>1, <1>2, <1>3, <1>4 DEF FailedVisits

----------------------------------------------------------------------------
(* The kernel's layers. *)

(* Copying up the parents of a path that is seen inside directories only   *)
(* keeps a layer closed, and gives the path its parents.                   *)
LEMMA CopyUpClosed ==
  ASSUME NEW U \in Layer, Closed(U), NEW v, NEW p \in Path, ParentsAreDirs(v, p),
         \A q \in Path : Decides(U, q) => v[q] = NodeOf(U, q)
  PROVE  /\ CopyUp(U, p) \in Layer
         /\ Closed(CopyUp(U, p))
         /\ \A a \in Anc[p] : CopyUp(U, p)[a] \in {"dir", "opaque"}
<1> USE PathAssumption
<1>1. CopyUp(U, p) \in Layer
  BY DEF CopyUp, Layer, Entry
<1>2. ASSUME NEW a \in Anc[p], U[a] # "none"
      PROVE  U[a] \in {"dir", "opaque"}
  <2>1. NodeOf(U, a) = "dir"
    BY <1>2 DEF Decides, ParentsAreDirs
  <2>2. U[a] \in Entry
    BY DEF Layer
  <2> QED
    BY <2>1, <2>2, ContentAssumption DEF NodeOf, Entry, Reserved
<1>3. \A a \in Anc[p] : CopyUp(U, p)[a] \in {"dir", "opaque"}
  BY <1>2 DEF CopyUp
<1>4. ASSUME NEW q \in Path, CopyUp(U, p)[q] # "none", NEW a \in Anc[q]
      PROVE  CopyUp(U, p)[a] \in {"dir", "opaque"}
  <2>1. CASE q \in Anc[p]
    BY <1>3, <2>1
  <2>2. CASE q \notin Anc[p]
    BY <1>4, <2>2 DEF CopyUp, Closed
  <2> QED
    BY <2>1, <2>2
<1> QED
  BY <1>1, <1>3, <1>4 DEF Closed

(* No operation of a command leaves a layer whose entries have lost their  *)
(* parents.                                                                *)
LEMMA UpperStepsClosed ==
  ASSUME NEW U \in Layer, Closed(U), NEW low, NEW v, NEW W \in UpperSteps(U, low, v),
         \A q \in Path : Decides(U, q) => v[q] = NodeOf(U, q)
  PROVE  W \in Layer /\ Closed(W)
<1> USE PathAssumption
<1>1. PICK p \in Path :
        \/ W \in WriteLeaf(U, v, p)
        \/ W \in MakeDir(U, v, p)
        \/ W \in TouchDir(U, v, p)
        \/ W \in RemoveTree(U, low, v, p)
  BY DEF UpperSteps
<1>2. ParentsAreDirs(v, p)
  BY <1>1 DEF WriteLeaf, MakeDir, TouchDir, RemoveTree
<1> DEFINE C == CopyUp(U, p)
<1>3. C \in Layer /\ Closed(C) /\ \A a \in Anc[p] : C[a] \in {"dir", "opaque"}
  BY <1>2, CopyUpClosed
<1> HIDE DEF C
<1>4. ASSUME NEW e \in Entry, W = [C EXCEPT ![p] = e],
             \A q \in Desc(p) : C[q] # "none" => e \in {"dir", "opaque"}
      PROVE  W \in Layer /\ Closed(W)
  <2>1. W \in Layer
    BY <1>3, <1>4 DEF Layer
  <2>2. ASSUME NEW q \in Path, W[q] # "none", NEW a \in Anc[q]
        PROVE  W[a] \in {"dir", "opaque"}
    <3>1. CASE q = p
      BY <1>3, <1>4, <3>1 DEF Layer
    <3>2. CASE q # p /\ a = p
      BY <1>3, <1>4, <2>2, <3>2 DEF Layer, Desc
    <3>3. CASE q # p /\ a # p
      BY <1>3, <1>4, <2>2, <3>3 DEF Layer, Closed
    <3> QED
      BY <3>1, <3>2, <3>3
  <2> QED
    BY <2>1, <2>2 DEF Closed
<1>5. ASSUME NEW q \in Desc(p), C[q] # "none"
      PROVE  v[p] = "dir" /\ U[p] # "none"
  <2>1. U[q] # "none"
    BY <1>5 DEF C, CopyUp, Desc
  <2>2. U[p] \in {"dir", "opaque"}
    BY <2>1 DEF Closed, Desc
  <2>3. v[p] = NodeOf(U, p)
    BY <2>2 DEF Decides
  <2> QED
    BY <2>2, <2>3 DEF NodeOf
<1>6. CASE W \in WriteLeaf(U, v, p)
  <2>1. PICK c \in Content : W = [C EXCEPT ![p] = c] /\ v[p] # "dir"
    BY <1>6 DEF WriteLeaf, C
  <2> QED
    BY <1>4, <1>5, <2>1 DEF Entry
<1>7. CASE W \in MakeDir(U, v, p)
  <2>1. PICK e \in {"dir", "opaque"} : W = [C EXCEPT ![p] = e]
    BY <1>7 DEF MakeDir, C
  <2> QED
    BY <1>4, <2>1 DEF Entry
<1>8. CASE W \in TouchDir(U, v, p)
  BY <1>4, <1>8 DEF TouchDir, C, Entry
<1>9. CASE W \in RemoveTree(U, low, v, p)
  <2>1. PICK B \in {C, U}, e \in {"whiteout", "none"} :
          /\ W = [q \in Path |-> IF q = p /\ e = "whiteout" THEN "whiteout"
                                 ELSE IF q \in Subtree(p) THEN "none" ELSE B[q]]
          /\ e = "whiteout" => B = C
    <3>1. CASE low[p] # "absent" /\ ~InOpaque(U, p)
      BY <1>9, <3>1 DEF RemoveTree, C
    <3>2. CASE ~(low[p] # "absent" /\ ~InOpaque(U, p))
      BY <1>9, <3>2 DEF RemoveTree, C
    <3> QED
      BY <3>1, <3>2
  <2>2. B \in Layer /\ Closed(B)
    BY <1>3
  <2>3. W \in Layer
    BY <2>1, <2>2 DEF Layer, Entry
  <2>4. ASSUME NEW q \in Path, W[q] # "none", NEW a \in Anc[q]
        PROVE  W[a] \in {"dir", "opaque"}
    <3>1. q \notin Desc(p) /\ a \notin Subtree(p)
      <4>1. q \in Subtree(p) => q = p
        BY <2>1, <2>4
      <4> QED
        BY <4>1 DEF Subtree, Desc
    <3>2. W[a] = B[a]
      BY <2>1, <3>1 DEF Subtree
    <3>3. CASE q = p
      BY <1>3, <2>1, <2>4, <3>2, <3>3 DEF Subtree
    <3>4. CASE q # p
      BY <2>1, <2>2, <2>4, <3>1, <3>2, <3>4 DEF Subtree, Closed
    <3> QED
      BY <3>3, <3>4
  <2> QED
    BY <2>3, <2>4 DEF Closed
<1> QED
  BY <1>1, <1>6, <1>7, <1>8, <1>9

----------------------------------------------------------------------------
(* Trees made of layers. *)

(* The union of a layer with what lies below it. *)
Over(L, low) == [p \in Path |-> IF Decides(L, p) THEN NodeOf(L, p) ELSE low[p]]

(* A stack shows its top layer over what the rest of it shows.             *)
LEMMA ViewIsOver ==
  ASSUME NEW t, NEW n \in Nat, n > 0, NEW ls, DOMAIN ls = 1 .. n
  PROVE  View(t, ls) = Over(ls[n], View(t, [i \in 1 .. n - 1 |-> ls[i]]))
<1> DEFINE below == [i \in 1 .. n - 1 |-> ls[i]]
<1>1. ASSUME NEW p \in Path, ~Decides(ls[n], p)
      PROVE  View(t, ls)[p] = View(t, below)[p]
  <2>1. Deciders(ls, p) \subseteq 1 .. n - 1
    BY <1>1 DEF Deciders
  <2>2. Deciders(below, p) = Deciders(ls, p)
    BY <2>1 DEF Deciders
  <2>3. CASE Deciders(ls, p) = {}
    BY <2>2, <2>3 DEF View
  <2>4. CASE Deciders(ls, p) # {}
    <3>1. Newest(Deciders(ls, p)) \in Deciders(ls, p)
      <4>1. n - 1 \in Nat
        OBVIOUS
      <4> QED
        BY <2>1, <2>4, <4>1, NewestIn
    <3>2. below[Newest(Deciders(ls, p))] = ls[Newest(Deciders(ls, p))]
      BY <2>1, <3>1
    <3> QED
      BY <2>2, <2>4, <3>2 DEF View
  <2> QED
    BY <2>3, <2>4
<1>2. ASSUME NEW p \in Path, Decides(ls[n], p)
      PROVE  View(t, ls)[p] = NodeOf(ls[n], p)
  BY <1>2, TopDecides
<1>3. View(t, ls) = [p \in Path |-> View(t, ls)[p]]
  BY DEF View
<1> HIDE DEF below
<1> QED
  BY <1>1, <1>2, <1>3 DEF Over, below

(* An empty layer on top changes nothing.                                  *)
LEMMA OverEmpty ==
  ASSUME NEW t, DOMAIN t = Path, t = [p \in Path |-> t[p]]
  PROVE  Over(EmptyLayer, t) = t
<1>1. ASSUME NEW p \in Path PROVE ~Decides(EmptyLayer, p)
  BY PathAssumption DEF Decides, EmptyLayer, Hides
<1> QED
  BY <1>1 DEF Over

(* A stack of closed layers over a real directory tree shows one: a layer  *)
(* that decides a parent and not its child has a plain directory there.    *)
LEMMA ViewWellFormed ==
  ASSUME NEW t, WellFormed(t), NEW n \in Nat, NEW ls \in [1 .. n -> Layer],
         \A i \in 1 .. n : Closed(ls[i])
  PROVE  WellFormed(View(t, ls))
<1> SUFFICES ASSUME NEW p \in Path, View(t, ls)[p] # "absent", NEW a \in Anc[p]
             PROVE  View(t, ls)[a] = "dir"
  BY DEF WellFormed
<1> DEFINE Dp == Deciders(ls, p)
           Da == Deciders(ls, a)
           m  == Newest(Dp)
           k  == Newest(Da)
<1>1. a \in Path /\ Anc[a] \subseteq Anc[p]
  BY PathAssumption
<1>2. Dp \in SUBSET (1 .. n) /\ Da \in SUBSET (1 .. n)
  BY DEF Deciders
<1>3. ASSUME NEW i \in Da, i \notin Dp
      PROVE  NodeOf(ls[i], a) = "dir"
  <2>1. Decides(ls[i], a) /\ ~Decides(ls[i], p)
    BY <1>3 DEF Deciders
  <2>2. ls[i][a] = "dir"
    BY <1>1, <2>1 DEF Decides, Hides
  <2> QED
    BY <2>2 DEF NodeOf
<1>4. CASE Dp = {}
  <2>1. t[a] = "dir"
    BY <1>4 DEF View, WellFormed
  <2>2. CASE Da = {}
    BY <1>1, <2>1, <2>2 DEF View
  <2>3. CASE Da # {}
    <3>1. k \in Da
      BY <1>2, <2>3, NewestIn
    <3>2. NodeOf(ls[k], a) = "dir"
      BY <1>3, <1>4, <3>1
    <3> QED
      BY <1>1, <2>3, <3>2 DEF View
  <2> QED
    BY <2>2, <2>3
<1>5. CASE Dp # {}
  <2>1. m \in Dp /\ \A j \in Dp : j <= m
    BY <1>2, <1>5, NewestIn
  <2>2. View(t, ls)[p] = NodeOf(ls[m], p)
    BY <1>5 DEF View
  <2>3. ls[m][p] # "none"
    BY <2>2 DEF NodeOf
  <2>4. ls[m][a] \in {"dir", "opaque"}
    BY <1>2, <2>1, <2>3 DEF Closed
  <2>5. m \in Da
    BY <1>2, <2>1, <2>4 DEF Deciders, Decides
  <2>6. k \in Da /\ m <= k
    BY <1>2, <2>5, NewestIn
  <2>7. NodeOf(ls[k], a) = "dir"
    <3>1. CASE k = m
      BY <2>4, <3>1 DEF NodeOf
    <3>2. CASE k # m
      <4>1. k \notin Dp
        BY <1>2, <2>1, <2>6, <3>2
      <4> QED
        BY <1>3, <2>6, <4>1
    <3> QED
      BY <3>1, <3>2
  <2> QED
    BY <1>1, <2>5, <2>7 DEF View
<1> QED
  BY <1>4, <1>5

(* A visit, complete or failed, leaves a real directory tree.              *)
LEMMA VisitWellFormed ==
  ASSUME NEW t \in Tree, WellFormed(t), NEW p \in Path, NEW e \in Entry, NEW u,
         \/ u = merge_visit(t, p, e) /\ ~VisitFails(t, p, e)
         \/ u = purge(t, p)
         \/ u \in FailedVisits(t, p, e)
  PROVE  WellFormed(u)
<1> USE PathAssumption
<1>1. WellFormed(purge(t, p))
  BY DEF WellFormed, purge, Subtree, Desc
<1>2. ASSUME NEW w \in Tree, WellFormed(w) PROVE WellFormed(mkdir_p(w, p))
  <2> SUFFICES ASSUME NEW q \in Path, mkdir_p(w, p)[q] # "absent", NEW a \in Anc[q]
               PROVE  mkdir_p(w, p)[a] = "dir"
    BY DEF WellFormed
  <2>1. a \in Path /\ Anc[a] \subseteq Anc[q]
    OBVIOUS
  <2>2. CASE w[q] # "absent"
    BY <1>2, <2>1, <2>2 DEF WellFormed, mkdir_p
  <2>3. CASE w[q] = "absent"
    <3>1. q \in Anc[p] \cup {p} /\ ~BelowLeaf(w, q)
      BY <2>3 DEF mkdir_p
    <3>2. a \in Anc[p] /\ w[a] \in {"dir", "absent"} /\ ~BelowLeaf(w, a)
      BY <2>1, <3>1 DEF BelowLeaf
    <3> QED
      BY <2>1, <3>2 DEF mkdir_p
  <2> QED
    BY <2>2, <2>3
<1>3. ASSUME Replaceable(t, p), NEW n, u = [t EXCEPT ![p] = n] PROVE WellFormed(u)
  <2> SUFFICES ASSUME NEW q \in Path, u[q] # "absent", NEW a \in Anc[q]
               PROVE  u[a] = "dir"
    BY DEF WellFormed
  <2>1. CASE q = p
    BY <1>3, <2>1 DEF Replaceable, ParentsAreDirs, Tree
  <2>2. CASE q # p
    <3>1. t[q] # "absent" /\ t[a] = "dir"
      BY <1>3, <2>2 DEF Tree, WellFormed
    <3> QED
      BY <1>3, <3>1 DEF Replaceable, Tree
  <2> QED
    BY <2>1, <2>2
<1>4. CASE u = merge_visit(t, p, e) /\ ~VisitFails(t, p, e)
  <2>0. purge(t, p) \in Tree
    BY VisitType
  <2>1. CASE e = "whiteout"
    BY <1>1, <1>4, <2>1, ContentAssumption DEF merge_visit, Reserved
  <2>2. CASE e = "opaque"
    BY <1>1, <1>2, <1>4, <2>0, <2>2, ContentAssumption DEF merge_visit, Reserved
  <2>3. CASE e = "dir"
    BY <1>2, <1>4, <2>3, ContentAssumption DEF merge_visit, Reserved
  <2>4. CASE e \in Content \ Special
    BY <1>3, <1>4, <2>4, ContentAssumption DEF merge_visit, VisitFails, Reserved
  <2>5. CASE e \notin {"whiteout", "opaque", "dir"} /\ e \notin Content \ Special
    BY <1>4, <2>5 DEF merge_visit
  <2> QED
    BY <2>1, <2>2, <2>3, <2>4, <2>5
<1>5. CASE u = purge(t, p)
  BY <1>1, <1>5
<1>6. CASE u \in FailedVisits(t, p, e)
  <2>1. ASSUME u \in PartialPurges(t, p) PROVE WellFormed(u)
    <3>1. PICK gone \in {S \in SUBSET Subtree(p) : \A q \in S : Desc(q) \subseteq S} :
            u = [q \in Path |-> IF q \in gone THEN "absent" ELSE t[q]]
      BY <2>1 DEF PartialPurges
    <3> QED
      BY <3>1 DEF WellFormed, Desc
  <2>2. ASSUME Replaceable(t, p), u \in {[t EXCEPT ![p] = n] : n \in {"absent", "torn"}}
        PROVE  WellFormed(u)
    BY <1>3, <2>2
  <2>3. CASE u = t
    BY <2>3
  <2> QED
    BY <1>6, <2>1, <2>2, <2>3 DEF FailedVisits
<1> QED
  BY <1>4, <1>5, <1>6

(* A plain directory of a layer merges with a directory below it, or is    *)
(* inside an opaque one.                                                   *)
Fits(U, low) == \A p \in Path : U[p] = "dir" => InOpaque(U, p) \/ low[p] = "dir"

(* Every operation of a command keeps that: a directory is made opaque     *)
(* unless it is inside one that is, and only shown directories are copied  *)
(* up.                                                                     *)
LEMMA UpperStepsFit ==
  ASSUME NEW U \in Layer, NEW low, Fits(U, low), NEW v, NEW W \in UpperSteps(U, low, v),
         \A q \in Path : v[q] = IF Decides(U, q) THEN NodeOf(U, q) ELSE low[q]
  PROVE  Fits(W, low)
<1> USE PathAssumption
<1>1. PICK p \in Path :
        \/ W \in WriteLeaf(U, v, p)
        \/ W \in MakeDir(U, v, p)
        \/ W \in TouchDir(U, v, p)
        \/ W \in RemoveTree(U, low, v, p)
  BY DEF UpperSteps
<1>2. ParentsAreDirs(v, p)
  BY <1>1 DEF WriteLeaf, MakeDir, TouchDir, RemoveTree
<1> DEFINE C == CopyUp(U, p)
<1>3. ASSUME NEW q \in Path, U[q] = "none", v[q] = "dir"
      PROVE  low[q] = "dir"
  BY <1>3 DEF NodeOf
<1>4. ASSUME NEW q \in Path, C[q] = "dir"
      PROVE  InOpaque(U, q) \/ low[q] = "dir"
  <2>1. CASE U[q] = "dir"
    BY <2>1 DEF Fits
  <2>2. CASE U[q] # "dir"
    BY <1>2, <1>3, <1>4, <2>2 DEF CopyUp, ParentsAreDirs
  <2> QED
    BY <2>1, <2>2
<1>5. C \in [Path -> Entry] /\ \A q \in Path : U[q] = "opaque" => C[q] = "opaque"
  BY DEF CopyUp, Layer, Entry
<1> HIDE DEF C
<1>6. ASSUME NEW e, W = [C EXCEPT ![p] = e], U[p] = "opaque" => e = "opaque",
             e = "dir" => InOpaque(U, p) \/ low[p] = "dir"
      PROVE  Fits(W, low)
  <2> SUFFICES ASSUME NEW q \in Path, W[q] = "dir"
               PROVE  InOpaque(W, q) \/ low[q] = "dir"
    BY DEF Fits
  <2>1. InOpaque(U, q) \/ low[q] = "dir"
    BY <1>4, <1>5, <1>6
  <2>2. ASSUME NEW a \in Anc[q], U[a] = "opaque" PROVE W[a] = "opaque"
    BY <1>5, <1>6, <2>2
  <2> QED
    BY <2>1, <2>2 DEF InOpaque
<1>7. ASSUME U[p] = "opaque" PROVE v[p] = "dir"
  BY <1>7 DEF Decides, NodeOf
<1>8. CASE W \in WriteLeaf(U, v, p)
  <2>1. PICK c \in Content : W = [C EXCEPT ![p] = c] /\ v[p] # "dir"
    BY <1>8 DEF WriteLeaf, C
  <2> QED
    BY <1>6, <1>7, <2>1, ContentAssumption DEF Reserved
<1>9. CASE W \in MakeDir(U, v, p)
  <2>1. /\ W = [C EXCEPT ![p] = IF InOpaque(U, p) THEN "dir" ELSE "opaque"]
        /\ v[p] = "absent"
    BY <1>9 DEF MakeDir, C
  <2> QED
    BY <1>6, <1>7, <2>1
<1>10. CASE W \in TouchDir(U, v, p)
  <2>1. W = [C EXCEPT ![p] = "dir"] /\ v[p] = "dir" /\ U[p] = "none"
    BY <1>10 DEF TouchDir, C
  <2> QED
    BY <1>3, <1>6, <2>1
<1>11. CASE W \in RemoveTree(U, low, v, p)
  <2>1. PICK B \in {C, U} : \A q \in Path : IF q \in Subtree(p)
                                            THEN W[q] \in {"whiteout", "none"}
                                            ELSE W[q] = B[q]
    <3>1. CASE low[p] # "absent" /\ ~InOpaque(U, p)
      BY <1>11, <3>1 DEF RemoveTree, Subtree, C
    <3>2. CASE ~(low[p] # "absent" /\ ~InOpaque(U, p))
      BY <1>11, <3>2 DEF RemoveTree, Subtree, C
    <3> QED
      BY <3>1, <3>2
  <2> SUFFICES ASSUME NEW q \in Path, W[q] = "dir"
               PROVE  InOpaque(W, q) \/ low[q] = "dir"
    BY DEF Fits
  <2>2. q \notin Subtree(p) /\ B[q] = "dir"
    BY <2>1
  <2>3. InOpaque(U, q) \/ low[q] = "dir"
    BY <1>4, <2>2 DEF Fits
  <2>4. ASSUME NEW a \in Anc[q], U[a] = "opaque" PROVE W[a] = "opaque"
    <3>1. a \notin Subtree(p)
      BY <2>2 DEF Subtree, Desc
    <3>2. B[a] = "opaque"
      BY <1>5, <2>4
    <3> QED
      BY <2>1, <3>1, <3>2
  <2> QED
    BY <2>3, <2>4 DEF InOpaque
<1> QED
  BY <1>1, <1>8, <1>9, <1>10, <1>11
============================================================================
