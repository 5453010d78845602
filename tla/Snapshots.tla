----------------------------- MODULE Snapshots ------------------------------
(***************************************************************************)
(* What a sandbox promises, without layers, mounts or scratch directories: *)
(* a private tree over a workspace, snapshots of it that never change      *)
(* while nothing is being published, restoring any of them, and publishing *)
(* the private tree to the workspace.                                      *)
(*                                                                         *)
(* Publishing is not atomic: the workspace changes piece by piece and the  *)
(* attempt may be given up, which spoils the snapshots and the next        *)
(* attempt.  What must hold throughout is that the private tree stays as   *)
(* it is.                                                                  *)
(***************************************************************************)
EXTENDS Integers, Sequences

CONSTANTS
  Path,      \* paths below the workspace root
  Tree,      \* the set of trees, functions on Path
  Unpublished(_, _)  \* Unpublished(t, p): publishing t may leave p alone

VARIABLES
  base,    \* the workspace
  cur,     \* the private tree
  snaps,   \* snapshots, oldest first
  nextId,  \* the id of the next snapshot; ids are never used twice
  stale,   \* an attempt to publish was given up since the last complete one
  status

svars == <<base, cur, snaps, nextId, stale, status>>

SInit ==
  /\ base \in Tree
  /\ cur = base
  /\ snaps = <<>>
  /\ nextId = 0
  /\ stale = FALSE
  /\ status = "starting"

Open ==
  /\ status = "starting"
  /\ status' \in {"open", "closed"}
  /\ UNCHANGED <<base, cur, snaps, nextId, stale>>

Write ==
  /\ status = "open"
  /\ cur' \in Tree
  /\ UNCHANGED <<base, snaps, nextId, stale, status>>

Take ==
  /\ status = "open"
  /\ snaps' = Append(snaps, [id |-> nextId, tree |-> cur])
  /\ nextId' = nextId + 1
  /\ UNCHANGED <<base, cur, stale, status>>

Restore(i) ==
  /\ status = "open"
  /\ snaps' = SubSeq(snaps, 1, i)
  /\ cur' = IF i = 0 THEN base ELSE snaps[i].tree
  /\ UNCHANGED <<base, nextId, stale, status>>

Publish ==
  /\ status = "open"
  /\ status' = "publishing"
  /\ UNCHANGED <<base, cur, snaps, nextId, stale>>

(* Any of the workspace may have been rewritten, and with it what the      *)
(* snapshots show; giving up does not put it back.                         *)
PublishSome ==
  /\ status = "publishing"
  /\ \/ status' = "publishing" /\ UNCHANGED stale
     \/ status' = "open" /\ stale' = TRUE
  /\ base' \in Tree
  /\ Len(snaps') = Len(snaps)
  /\ \A i \in DOMAIN snaps : snaps'[i].id = snaps[i].id /\ snaps'[i].tree \in Tree
  /\ UNCHANGED <<cur, nextId>>

Published ==
  /\ status = "publishing"
  /\ stale \/ \A p \in Path : base[p] = cur[p] \/ Unpublished(cur, p)
  /\ stale' = FALSE
  /\ status' = "open"
  /\ snaps' = <<>>
  /\ cur' = base
  /\ UNCHANGED <<base, nextId>>

(* Closing discards the private tree and the snapshots with it. *)
Close ==
  /\ status = "open"
  /\ status' = "closed"
  /\ UNCHANGED <<base, nextId, stale>>

SNext ==
  \/ Open
  \/ Write
  \/ Take
  \/ \E i \in 0 .. Len(snaps) : Restore(i) /\ (i = 0 => snaps = <<>>)
  \/ Publish
  \/ PublishSome
  \/ Published
  \/ Close

SSpec == SInit /\ [][SNext]_svars
=============================================================================
