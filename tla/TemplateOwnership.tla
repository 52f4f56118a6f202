-------------------------- MODULE TemplateOwnership --------------------------
(***************************************************************************)
(* Who frees a template.  The internal functions of template_manager.c     *)
(* that create, share, move, replace and drop references to templates, one *)
(* action each, without Export Times: a function may run whenever the list *)
(* allows it, and a call of a public function is a sequence of such steps. *)
(*                                                                         *)
(* TemplateManager checks the parts of OwnershipInv after each of its      *)
(* calls; TemplateOwnership_proofs proves OwnershipInv for lists, sets of  *)
(* IDs and sets of addresses of any size.                                  *)
(***************************************************************************)
EXTENDS SnapshotList

CONSTANTS
  MaxSnaps,   \* bound: length of the list
  MaxHanded   \* bound: garbage batches the user holds

ASSUME BoundsAssumption == MaxSnaps \in Nat /\ MaxHanded \in Nat

VARIABLES
  snaps,    \* the list of snapshots, oldest first
  live,     \* templates that are allocated
  trash,    \* fds_tmgr.garbage: templates it owns, templates its snapshots use
  handed    \* garbage the user took and has not destroyed, oldest first

vars == <<snaps, live, trash, handed>>

Garbage == [own : SUBSET Addrs, refs : SUBSET Addrs]
NoGarbage == [own |-> {}, refs |-> {}]
EmptySnapshot == [editable |-> TRUE, recs |-> [id \in IDs |-> NoRec]]

Discard(own, refs) ==
  trash' = [own |-> trash.own \cup own, refs |-> trash.refs \cup refs]

Init ==
  /\ snaps = <<>> /\ live = {}
  /\ trash = NoGarbage /\ handed = <<>>

\* mgr_snap_create()
Create ==
  /\ Len(snaps) < MaxSnaps
  /\ snaps' = <<EmptySnapshot>> \o snaps
  /\ UNCHANGED <<live, trash, handed>>

\* mgr_snap_clone(), for a new start time (expired templates are left out) or
\* for mgr_snap_edit().
Clone(i, expired) ==
  /\ Len(snaps) < MaxSnaps
  /\ ~snaps[i].editable
  /\ snaps' = InsertClone(snaps, i, expired)
  /\ UNCHANGED <<live, trash, handed>>

\* mgr_snap_template_add() after the old record is gone, and the copy that
\* fds_tmgr_template_set_fkey() makes (it has no Create flag).
AddNew(i, id, t, create) ==
  /\ snaps[i].editable /\ ~Has(snaps[i], id)
  /\ t \notin live
  /\ snaps' = SetRec(snaps, i, id, t, create, TRUE)
  /\ live' = live \cup {t}
  /\ UNCHANGED <<trash, handed>>

\* The template of snapshot i is carried to the newer snapshots J, the last
\* of which owns it from then on: mgr_snap_freeze_cb(), and one by one the
\* references fds_tmgr_template_set_fkey() gives to its copy.
Carry(i, id, J) ==
  /\ snaps[i].recs[id].d /\ ~(snaps[i].editable /\ snaps[i].recs[id].c)
  /\ \A j \in J : j > i /\ snaps[j].editable /\ ~Has(snaps[j], id)
  /\ \E top \in J : (\A j \in J : j <= top) /\ snaps' = Spread(snaps, i, id, J, top)
  /\ UNCHANGED <<live, trash, handed>>

\* mgr_snap_freeze() without its callbacks.
Freeze(i) ==
  /\ snaps[i].editable
  /\ snaps' = [snaps EXCEPT ![i].editable = FALSE]
  /\ UNCHANGED <<live, trash, handed>>

\* mgr_snap_template_remove(): the owner's record passes the template on, or
\* frees it when no other snapshot can have seen it, or leaves it to garbage.
RemoveRec(i, id, j) ==
  LET rec == snaps[i].recs[id]
  IN  /\ snaps[i].editable /\ Has(snaps[i], id)
      /\ IF rec.d THEN IsMoveTarget(snaps, i, id, j) ELSE j = 0
      /\ snaps' = DropRec(snaps, i, id, j)
      /\ \/ (~rec.d \/ j # 0) /\ UNCHANGED <<live, trash>>
         \/ rec.d /\ j = 0 /\ rec.c /\ live' = live \ {rec.t} /\ UNCHANGED trash
         \/ rec.d /\ j = 0 /\ ~rec.c /\ Discard({rec.t}, {}) /\ UNCHANGED live
      /\ UNCHANGED handed

\* mgr_snap_remove()
RemoveSnap(i, to) ==
  /\ \A id \in IDs : IF Has(snaps[i], id) /\ snaps[i].recs[id].d
                     THEN IsMoveTarget(snaps, i, id, to[id]) ELSE to[id] = 0
  /\ snaps' = Unlink(snaps, i, to)
  /\ Discard(LeaveWith(snaps, i, to), RefsOf(snaps[i]))
  /\ UNCHANGED <<live, handed>>

\* mgr_cleanup() of a session without history: all but the newest snapshot go.
KeepNewest ==
  LET older == SubSeq(snaps, 1, Len(snaps) - 1)
  IN  /\ snaps # <<>>
      /\ snaps' = <<snaps[Len(snaps)]>>
      /\ Discard(Owned(older), Refs(older))
      /\ UNCHANGED <<live, handed>>

\* fds_tmgr_clear()
Clear ==
  /\ snaps' = <<>>
  /\ Discard(Owned(snaps), Refs(snaps))
  /\ UNCHANGED <<live, handed>>

\* fds_tmgr_set_iemgr() after its cleanup.
ReplaceAll(copy) ==
  /\ \A t, u \in Owned(snaps) : copy[t] = copy[u] => t = u
  /\ snaps' = ReplaceRefs(snaps, copy)
  /\ live' = live \cup {copy[t] : t \in Owned(snaps)}
  /\ Discard(Owned(snaps), Refs(snaps))
  /\ UNCHANGED handed

\* fds_tmgr_garbage_get() after its cleanup.
GarbageGet ==
  /\ trash # NoGarbage /\ Len(handed) < MaxHanded
  /\ handed' = Append(handed, trash)
  /\ trash' = NoGarbage
  /\ UNCHANGED <<snaps, live>>

\* fds_tmgr_garbage_destroy() of the garbage taken first.
GarbageDestroy ==
  /\ handed # <<>>
  /\ live' = live \ Head(handed).own
  /\ handed' = Tail(handed)
  /\ UNCHANGED <<snaps, trash>>

Next ==
  \/ Create
  \/ \E i \in DOMAIN snaps, expired \in SUBSET IDs : Clone(i, expired)
  \/ \E i \in DOMAIN snaps, id \in IDs, t \in Addrs, create \in BOOLEAN : AddNew(i, id, t, create)
  \/ \E i \in DOMAIN snaps, id \in IDs, J \in SUBSET (DOMAIN snaps) : Carry(i, id, J)
  \/ \E i \in DOMAIN snaps : Freeze(i)
  \/ \E i \in DOMAIN snaps, id \in IDs, j \in {0} \cup DOMAIN snaps : RemoveRec(i, id, j)
  \/ \E i \in DOMAIN snaps, to \in [IDs -> {0} \cup DOMAIN snaps] : RemoveSnap(i, to)
  \/ KeepNewest \/ Clear
  \/ \E copy \in [Owned(snaps) -> Addrs \ live] : ReplaceAll(copy)
  \/ GarbageGet \/ GarbageDestroy

Spec == Init /\ [][Next]_vars

-----------------------------------------------------------------------------
(* The list and the garbage. *)

\* Type invariant.
TypeOK ==
  /\ IsList(snaps) /\ live \subseteq Addrs
  /\ trash \in Garbage /\ handed \in Seq(Garbage)

\* Nothing that can still be reached refers to a freed template, and nothing
\* would be freed twice (mgr_snap_destroy_cb(), garbage_destroy()).
NoDangling ==
  /\ Refs(snaps) \cup trash.own \cup trash.refs \subseteq live
  /\ \A b \in DOMAIN handed : handed[b].own \cup handed[b].refs \subseteq live

\* A template is freed by one snapshot of the list or by one batch of garbage.
OwnersDisjoint ==
  /\ Owned(snaps) \cap trash.own = {}
  /\ \A b \in DOMAIN handed : handed[b].own \cap (Owned(snaps) \cup trash.own) = {}
  /\ \A a, b \in DOMAIN handed : a # b => handed[a].own \cap handed[b].own = {}

\* Every allocated template is freed by somebody.
NoLeak ==
  \A t \in live : \/ t \in Owned(snaps) \cup trash.own
                  \/ \E b \in DOMAIN handed : t \in handed[b].own

\* Garbage may be destroyed in the order it was handed out: nothing in the
\* list and no later garbage uses a template it owns.
GarbageUnused ==
  /\ Refs(snaps) \cap trash.own = {}
  /\ \A b \in DOMAIN handed : handed[b].own \cap (Refs(snaps) \cup trash.refs) = {}
  /\ \A a, b \in DOMAIN handed : a < b => handed[a].own \cap handed[b].refs = {}

\* Garbage has not seen a template of an editable snapshot that still carries
\* its Create flag: mgr_snap_template_remove() frees it on the spot.
AddedIsUnseen ==
  \A i \in DOMAIN snaps : \A id \in IDs :
    snaps[i].editable /\ snaps[i].recs[id].c =>
      /\ snaps[i].recs[id].t \notin trash.refs
      /\ \A b \in DOMAIN handed : snaps[i].recs[id].t \notin handed[b].refs

\* Each template has one owner, is freed by it alone and not before anything
\* that can be reached has ceased to use it, whatever the order in which the
\* functions of template_manager.c change the list and hand out garbage.
OwnershipInv ==
  /\ TypeOK /\ ListInv(snaps) /\ NoDangling /\ OwnersDisjoint
  /\ NoLeak /\ GarbageUnused /\ AddedIsUnseen
=============================================================================
