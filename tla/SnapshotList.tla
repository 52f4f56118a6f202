---------------------------- MODULE SnapshotList ----------------------------
(***************************************************************************)
(* The doubly linked list of snapshots of a template manager, as a         *)
(* sequence from the oldest to the newest one, and the operations of       *)
(* template_manager.c that move references and ownership flags in it.      *)
(*                                                                         *)
(* A snapshot maps template IDs to records; a record refers to a template  *)
(* and carries the flags SNAPSHOT_TF_CREATE (c: first added here) and      *)
(* SNAPSHOT_TF_DESTROY (d: this record frees the template).  The operators *)
(* touch only the fields "editable" and "recs", so a module may give its   *)
(* snapshots more fields (start time, lifetime).                           *)
(*                                                                         *)
(* The last part states what a list must be like for these operations to   *)
(* be right (ListInv); SnapshotList_proofs shows that each keeps it.       *)
(***************************************************************************)
EXTENDS Naturals, Sequences

CONSTANTS
  IDs,        \* template IDs in use (256..65535 in the code)
  Addrs,      \* addresses of templates
  NoTmplt     \* "this snapshot has no record of the ID"

ASSUME NoTmpltAssumption == NoTmplt \notin Addrs

Record == [t : Addrs \cup {NoTmplt}, c : BOOLEAN, d : BOOLEAN]

Rec(t, c, d) == [t |-> t, c |-> c, d |-> d]
NoRec == Rec(NoTmplt, FALSE, FALSE)

\* A snapshot, whatever its other fields are, and a list of snapshots.
IsSnapshot(s) ==
  {"editable", "recs"} \subseteq DOMAIN s /\ s.editable \in BOOLEAN /\ s.recs \in [IDs -> Record]
IsList(snaps) ==
  /\ snaps \in Seq({snaps[i] : i \in DOMAIN snaps})
  /\ \A i \in DOMAIN snaps : IsSnapshot(snaps[i])

\* snapshot_rec_find() # NULL
Has(s, id) == s.recs[id].t # NoTmplt

WithRecs(s, recs) == [s EXCEPT !.recs = recs]
WithRec(s, id, rec) == WithRecs(s, [x \in IDs |-> IF x = id THEN rec ELSE s.recs[x]])
Editable(s) == [s EXCEPT !.editable = TRUE]

\* Older snapshots with a record of the same ID and the same template.
OlderRefs(snaps, i, id) ==
  {j \in 1..(i - 1) : snaps[j].recs[id].t = snaps[i].recs[id].t}

\* mgr_snap_dflag_move(): j is the snapshot the Delete flag of record id of
\* snapshot i moves to, 0 when there is none (FDS_ERR_NOTFOUND).  A record
\* with the Create flag ends the search at once.
IsMoveTarget(snaps, i, id, j) ==
  IF snaps[i].recs[id].c \/ OlderRefs(snaps, i, id) = {}
  THEN j = 0
  ELSE /\ j \in OlderRefs(snaps, i, id)
       /\ \A k \in OlderRefs(snaps, i, id) : k <= j

\* Mutant: the source of a copy keeps its Delete flags.
InsertCloneShared(snaps, i, expired) ==
  [k \in 1..(Len(snaps) + 1) |->
     IF k <= i THEN snaps[k]
     ELSE IF k = i + 1
     THEN Editable(WithRecs(snaps[i], [id \in IDs |->
            LET r == snaps[i].recs[id] IN Rec(r.t, FALSE, r.d)]))
     ELSE snaps[k - 1]]

\* mgr_link_newer() with the copy made by mgr_snap_clone(): the copy follows
\* its source, takes over all Delete flags and no Create flag, and lacks the
\* records in "expired", whose Delete flag stays with the source.
InsertClone(snaps, i, expired) ==
  [k \in 1..(Len(snaps) + 1) |->
     IF k < i THEN snaps[k]
     ELSE IF k = i
     THEN WithRecs(snaps[i], [id \in IDs |->
            LET r == snaps[i].recs[id] IN Rec(r.t, r.c, r.d /\ id \in expired)])
     ELSE IF k = i + 1
     THEN Editable(WithRecs(snaps[i], [id \in IDs |->
            LET r == snaps[i].recs[id] IN IF id \in expired THEN NoRec ELSE Rec(r.t, FALSE, r.d)]))
     ELSE snaps[k - 1]]

\* snapshot_rec_add(): the record replaces whatever the snapshot had.
SetRec(snaps, i, id, t, c, d) ==
  [k \in 1..Len(snaps) |-> IF k = i THEN WithRec(snaps[k], id, Rec(t, c, d)) ELSE snaps[k]]

\* Set or clear the Delete flag of a record.
WithOwner(s, id, d) == WithRec(s, id, Rec(s.recs[id].t, s.recs[id].c, d))

\* mgr_snap_freeze_cb() on the list: snapshots J get a reference to the
\* template of snapshot i, the newest of them the Delete flag as well.
Spread(snaps, i, id, J, top) ==
  [k \in 1..Len(snaps) |->
     IF k \in J THEN WithRec(snaps[k], id, Rec(snaps[i].recs[id].t, FALSE, k = top))
     ELSE IF k = i THEN WithOwner(snaps[k], id, FALSE)
     ELSE snaps[k]]

\* mgr_snap_template_remove() on the list: the record goes, its Delete flag
\* moves to snapshot j (0: nowhere).
DropRec(snaps, i, id, j) ==
  [k \in 1..Len(snaps) |->
     IF k = i THEN WithRec(snaps[k], id, NoRec)
     ELSE IF k = j /\ snaps[i].recs[id].d THEN WithOwner(snaps[k], id, TRUE)
     ELSE snaps[k]]

\* mgr_snap_remove() on the list: the Delete flag of each record moves to
\* snapshot to[id] (0: it stays), then the snapshot is unlinked.
Unlink(snaps, i, to) ==
  [k \in 1..(Len(snaps) - 1) |->
     IF k < i
     THEN WithRecs(snaps[k], [id \in IDs |->
            LET r == snaps[k].recs[id]
            IN  Rec(r.t, r.c, r.d \/ (to[id] = k /\ snaps[i].recs[id].d))])
     ELSE snaps[k + 1]]

\* Templates a snapshot refers to, and those of them it must destroy
\* (mgr_snap_destroy_cb()).
RefsOf(s) == {s.recs[id].t : id \in {x \in IDs : Has(s, x)}}
OwnedBy(s) == {s.recs[id].t : id \in {x \in IDs : Has(s, x) /\ s.recs[x].d}}
Refs(snaps) == UNION {RefsOf(snaps[i]) : i \in DOMAIN snaps}
Owned(snaps) == UNION {OwnedBy(snaps[i]) : i \in DOMAIN snaps}

\* Mutant: a removed snapshot takes all its templates along.
LeaveWithAll(snaps, i, to) == OwnedBy(snaps[i])

\* Templates whose Delete flag leaves the list together with snapshot i.
LeaveWith(snaps, i, to) ==
  {snaps[i].recs[id].t : id \in {x \in IDs : /\ Has(snaps[i], x)
                                             /\ snaps[i].recs[x].d
                                             /\ to[x] = 0}}

\* Mutant: only the owner's own reference is replaced.
ReplacedInOwner(snaps, i, id) == snaps[i].recs[id].d

\* fds_tmgr_set_iemgr_cb(): the walk from the owner of a template, snapshot k,
\* to older snapshots reaches the reference of snapshot i.  A Create flag on
\* the way ends it.
Replaced(snaps, i, id) ==
  \E k \in i..Len(snaps) :
     /\ snaps[k].recs[id].t = snaps[i].recs[id].t /\ snaps[k].recs[id].d
     /\ \A l \in (i + 1)..(k - 1) :
          ~(snaps[l].recs[id].t = snaps[i].recs[id].t /\ snaps[l].recs[id].c)

\* The list with every reference reached replaced by the copy of the template.
ReplaceRefs(snaps, copy) ==
  [i \in 1..Len(snaps) |-> WithRecs(snaps[i], [id \in IDs |->
     LET r == snaps[i].recs[id]
     IN  IF Has(snaps[i], id) /\ Replaced(snaps, i, id) THEN Rec(copy[r.t], r.c, r.d) ELSE r])]

-----------------------------------------------------------------------------
(* The list on its own. *)

Same(s, i, j, id) == Has(s[i], id) /\ s[j].recs[id].t = s[i].recs[id].t

\* The Delete flag is at the newest reference, and there is one.
OwnerIsNewest(s) ==
  \A i, j \in DOMAIN s : \A id \in IDs : i < j /\ Same(s, i, j, id) => ~s[i].recs[id].d
HasOwner(s) ==
  \A i \in DOMAIN s : \A id \in IDs : Has(s[i], id) =>
    \E k \in DOMAIN s : k >= i /\ Same(s, i, k, id) /\ s[k].recs[id].d
\* The Create flag is at the oldest reference, so the search for an older one
\* may stop there.
CreateIsOldest(s) ==
  \A i, j \in DOMAIN s : \A id \in IDs : i < j /\ Same(s, i, j, id) => ~s[j].recs[id].c
\* Only references of one ID share a template.
OneId(s) ==
  \A i, j \in DOMAIN s : \A id, other \in IDs :
    Has(s[i], id) /\ s[j].recs[other].t = s[i].recs[id].t => other = id
\* What was added to a snapshot that is still editable is not yet propagated.
AddedIsOwned(s) ==
  \A i \in DOMAIN s : \A id \in IDs :
    s[i].editable /\ s[i].recs[id].c => Has(s[i], id) /\ s[i].recs[id].d
EmptyIsUnowned(s) ==
  \A i \in DOMAIN s : \A id \in IDs : s[i].recs[id].d => Has(s[i], id)

ListInv(s) ==
  /\ OwnerIsNewest(s) /\ HasOwner(s) /\ CreateIsOldest(s)
  /\ OneId(s) /\ AddedIsOwned(s) /\ EmptyIsUnowned(s)
=============================================================================
