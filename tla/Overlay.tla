------------------------------ MODULE Overlay ------------------------------
(***************************************************************************)
(* Directory trees, copy-on-write layers and what src/c/agentbox_cow.c     *)
(* does with them.                                                         *)
(*                                                                         *)
(* A tree maps every path to the node found there.  A layer (one           *)
(* upper_<n> directory) maps every path to the entry the layer directory   *)
(* holds: nothing, a whiteout, a directory, an opaque directory or a leaf  *)
(* (regular file, symbolic link or special file).  Names, bytes and modes  *)
(* are abstracted to members of Content.                                   *)
(*                                                                         *)
(* The module is pure: it holds no state, and Supervisor applies it.       *)
(***************************************************************************)
EXTENDS Integers, Sequences

CONSTANTS
  Path,     \* the paths below the workspace root
  Anc,      \* Anc[p]: the proper ancestors of p below the root
  Content,  \* contents of leaves, told apart by identity only
  Special   \* those contents that are sockets, fifos or device nodes

Reserved == {"absent", "dir", "torn", "none", "whiteout", "opaque"}

ASSUME PathAssumption ==
  /\ Anc \in [Path -> SUBSET Path]
  /\ \A p \in Path : p \notin Anc[p]
  /\ \A p \in Path : \A a \in Anc[p] : Anc[a] \subseteq Anc[p]

ASSUME ContentAssumption ==
  /\ Special \subseteq Content
  /\ Content \cap Reserved = {}

Desc(p) == {q \in Path : p \in Anc[q]}
Subtree(p) == Desc(p) \cup {p}

(* "torn" is a leaf whose copy was cut short. *)
Node  == Content \cup {"absent", "dir", "torn"}
Entry == Content \cup {"none", "whiteout", "dir", "opaque"}
Tree  == [Path -> Node]
Layer == [Path -> Entry]

EmptyLayer == [p \in Path |-> "none"]

(* What a real directory tree satisfies: only directories have children.   *)
WellFormed(t) == \A p \in Path : t[p] # "absent" => \A a \in Anc[p] : t[a] = "dir"

(* What a layer directory satisfies: an entry's parents are directories of *)
(* the same layer.                                                         *)
Closed(L) == \A p \in Path : L[p] # "none" => \A a \in Anc[p] : L[a] \in {"dir", "opaque"}

----------------------------------------------------------------------------
(* The kernel's union of a stack of layers over the workspace, which is    *)
(* what a command sees below merged/.  ls is ordered oldest first.         *)

Hides(e) == e \notin {"none", "dir"}

(* L determines what is seen at p, whatever lies below L. *)
Decides(L, p) == L[p] # "none" \/ \E a \in Anc[p] : Hides(L[a])

NodeOf(L, p) ==
  CASE L[p] \in {"none", "whiteout"} -> "absent"
    [] L[p] \in {"dir", "opaque"}    -> "dir"
    [] OTHER                         -> L[p]

Deciders(ls, p) == {i \in DOMAIN ls : Decides(ls[i], p)}

Newest(S) == CHOOSE i \in S : \A j \in S : j <= i

View(t, ls) ==
  [p \in Path |-> IF Deciders(ls, p) = {} THEN t[p]
                  ELSE NodeOf(ls[Newest(Deciders(ls, p))], p)]

----------------------------------------------------------------------------
(* What the kernel records in the upper layer U for the operations of a    *)
(* command.  low is the union of everything below U, v the union with U.   *)

CopyUp(U, p) == [q \in Path |-> IF q \in Anc[p] /\ U[q] = "none" THEN "dir" ELSE U[q]]

ParentsAreDirs(v, p) == \A a \in Anc[p] : v[a] = "dir"

InOpaque(U, p) == \E a \in Anc[p] : U[a] = "opaque"

(* Creating or rewriting a leaf. *)
WriteLeaf(U, v, p) ==
  IF ParentsAreDirs(v, p) /\ v[p] # "dir"
  THEN {[CopyUp(U, p) EXCEPT ![p] = c] : c \in Content}
  ELSE {}

(* A new directory is opaque unless it is made inside one that already is. *)
MakeDir(U, v, p) ==
  IF ParentsAreDirs(v, p) /\ v[p] = "absent"
  THEN {[CopyUp(U, p) EXCEPT ![p] = IF InOpaque(U, p) THEN "dir" ELSE "opaque"]}
  ELSE {}

(* chmod and the like copy a lower directory up without its contents. *)
TouchDir(U, v, p) ==
  IF ParentsAreDirs(v, p) /\ v[p] = "dir" /\ U[p] = "none"
  THEN {[CopyUp(U, p) EXCEPT ![p] = "dir"]}
  ELSE {}

(* rm -r: a whiteout where something below would show through. *)
RemoveTree(U, low, v, p) ==
  IF ParentsAreDirs(v, p) /\ v[p] # "absent"
  THEN LET shows == low[p] # "absent" /\ ~InOpaque(U, p)
           base  == IF shows THEN CopyUp(U, p) ELSE U
       IN  {[q \in Path |-> IF q = p /\ shows THEN "whiteout"
                            ELSE IF q \in Subtree(p) THEN "none" ELSE base[q]]}
  ELSE {}

(* Every layer one operation of a command can turn U into. *)
UpperSteps(U, low, v) ==
  UNION {WriteLeaf(U, v, p) \cup MakeDir(U, v, p)
           \cup TouchDir(U, v, p) \cup RemoveTree(U, low, v, p) : p \in Path}

----------------------------------------------------------------------------
(* agentbox_cow_commit_merge: what the visit of one entry does to the      *)
(* target tree.                                                            *)

(* lstat of p is answered by ENOTDIR when one of p's parents is a leaf. *)
BelowLeaf(t, p) == \E a \in Anc[p] : t[a] \notin {"dir", "absent"}

(* agentbox_cow_purge *)
purge(t, p) == [q \in Path |-> IF q \in Subtree(p) THEN "absent" ELSE t[q]]

(* mkdir's errors are ignored, so a leaf on the way stops it silently. *)
mkdir_p(t, p) ==
  [q \in Path |-> IF q \in Anc[p] \cup {p} /\ t[q] = "absent" /\ ~BelowLeaf(t, q)
                  THEN "dir" ELSE t[q]]

(* unlink(dst) and open(dst, O_CREAT) both succeed. *)
Replaceable(t, p) == t[p] # "dir" /\ ParentsAreDirs(t, p)

(* The visit of entry e at p returns -1 whatever the state of the disk. *)
VisitFails(t, p, e) ==
  \/ e \in {"whiteout", "opaque"} /\ BelowLeaf(t, p)
  \/ e \in Content \ Special /\ ~Replaceable(t, p)

(* Mutant: whiteouts are copied like leaves. *)
MergeCopiesWhiteouts(t, p, e) ==
  CASE e \in {"opaque", "dir"} -> mkdir_p(IF e = "opaque" THEN purge(t, p) ELSE t, p)
    [] e \in Special          -> t
    [] OTHER                  -> [t EXCEPT ![p] = e]

(* Mutant: every directory resets its target. *)
MergeResetsDirs(t, p, e) ==
  CASE e = "whiteout"           -> purge(t, p)
    [] e \in {"opaque", "dir"}  -> mkdir_p(purge(t, p), p)
    [] e \in Content \ Special  -> [t EXCEPT ![p] = e]
    [] OTHER                    -> t

(* The target after a visit that returns 0. *)
merge_visit(t, p, e) ==
  CASE e = "whiteout"           -> purge(t, p)
    [] e = "opaque"             -> mkdir_p(purge(t, p), p)
    [] e = "dir"                -> mkdir_p(t, p)
    [] e \in Content \ Special  -> [t EXCEPT ![p] = e]
    [] OTHER                    -> t

(* A purge that stops half way has removed children before their parents. *)
PartialPurges(t, p) ==
  {[q \in Path |-> IF q \in gone THEN "absent" ELSE t[q]] :
     gone \in {S \in SUBSET Subtree(p) : \A q \in S : Desc(q) \subseteq S}}

(* The targets a visit that returns -1 can leave behind: copy_regular_file *)
(* unlinks, then creates, then fills.                                      *)
FailedVisits(t, p, e) ==
  {t} \cup (IF e \in {"whiteout", "opaque"} /\ ~BelowLeaf(t, p) THEN PartialPurges(t, p) ELSE {})
      \cup (IF e \in Content \ Special /\ Replaceable(t, p)
            THEN {[t EXCEPT ![p] = n] : n \in {"absent", "torn"}} ELSE {})

----------------------------------------------------------------------------
(* agentbox_cow_diff: the status each path ends up with.  Directories set  *)
(* none, so an older layer's status survives them.                         *)

DiffSetters(ls, p) == {i \in DOMAIN ls : ls[i][p] \notin {"none", "dir", "opaque"}}

(* Mutant: the first status a path is given stays. *)
DiffFirstStatus(ls) ==
  [p \in Path |-> IF DiffSetters(ls, p) = {} THEN "-"
                  ELSE IF ls[CHOOSE i \in DiffSetters(ls, p) :
                               \A j \in DiffSetters(ls, p) : i <= j][p] = "whiteout"
                  THEN "D" ELSE "M"]

(* Mutant: a whiteout sets no status. *)
DiffLeavesOnly(ls) ==
  [p \in Path |-> IF \E i \in DiffSetters(ls, p) : ls[i][p] # "whiteout" THEN "M" ELSE "-"]

DiffStatus(ls) ==
  [p \in Path |-> IF DiffSetters(ls, p) = {} THEN "-"
                  ELSE IF ls[Newest(DiffSetters(ls, p))][p] = "whiteout" THEN "D" ELSE "M"]
============================================================================
