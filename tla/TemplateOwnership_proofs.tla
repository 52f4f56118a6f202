----------------------- MODULE TemplateOwnership_proofs -----------------------
(***************************************************************************)
(* Spec => []OwnershipInv: who frees a template, for lists of any length,  *)
(* any set of IDs and any set of addresses.                                *)
(*                                                                         *)
(* OwnershipInv is inductive as it stands.  It says the same as Sound of   *)
(* SnapshotList_proofs (Unfolded, Folded), and each action is one of the   *)
(* list operations that module is about.                                   *)
(***************************************************************************)
EXTENDS TemplateOwnership, SnapshotList_proofs

\* What the garbage may be is the same in both modules.
LEMMA SameBatch == Garbage = Batch /\ NoGarbage = NoBatch
BY DEF Garbage, Batch, NoGarbage, NoBatch

\* The invariant in terms of the lemmas on lists and garbage.
LEMMA Unfolded ==
  ASSUME OwnershipInv
  PROVE  /\ Sound(snaps, live, trash, handed) /\ IsList(snaps) /\ ListInv(snaps)
         /\ Owned(snaps) = Refs(snaps) /\ Refs(snaps) \subseteq Addrs
<1>1. /\ IsList(snaps) /\ ListInv(snaps) /\ live \subseteq Addrs
      /\ trash \in Batch /\ handed \in Seq(Batch)
  BY SameBatch DEF OwnershipInv, TypeOK
<1>2. Owned(snaps) = Refs(snaps) /\ Refs(snaps) \subseteq Addrs
  BY <1>1, OwnedIsRefs, RefsInAddrs DEF ListInv
<1>3. \A t \in Unpropagated(snaps) :
        t \notin trash.refs /\ \A b \in DOMAIN handed : t \notin handed[b].refs
  <2> SUFFICES ASSUME NEW t \in Unpropagated(snaps)
               PROVE  t \notin trash.refs /\ \A b \in DOMAIN handed : t \notin handed[b].refs
    OBVIOUS
  <2>1. PICK k \in DOMAIN snaps, x \in IDs :
          snaps[k].editable /\ snaps[k].recs[x].c /\ snaps[k].recs[x].t = t
    BY UnpropagatedMember
  <2> QED  BY <2>1 DEF OwnershipInv, AddedIsUnseen
<1>4. GarbageInv(Refs(snaps), Unpropagated(snaps), live, trash, handed)
  BY <1>2, <1>3 DEF OwnershipInv, NoDangling, OwnersDisjoint, NoLeak, GarbageUnused, GarbageInv
<1> QED  BY <1>1, <1>2, <1>4 DEF Sound

\* The invariant of the module is what SnapshotList_proofs calls a sound state.
LEMMA Folded ==
  ASSUME Sound(snaps', live', trash', handed')
  PROVE  OwnershipInv'
<1>1. /\ IsList(snaps') /\ ListInv(snaps') /\ live' \subseteq Addrs
      /\ trash' \in Garbage /\ handed' \in Seq(Garbage)
      /\ GarbageInv(Refs(snaps'), Unpropagated(snaps'), live', trash', handed')
  BY SameBatch DEF Sound
<1>2. Owned(snaps') = Refs(snaps')
  BY <1>1, OwnedIsRefs DEF ListInv
<1>3. NoDangling' /\ OwnersDisjoint' /\ NoLeak' /\ GarbageUnused'
  BY <1>1, <1>2 DEF GarbageInv, NoDangling, OwnersDisjoint, NoLeak, GarbageUnused
<1>4. AddedIsUnseen'
  BY <1>1, UnpropagatedMember DEF GarbageInv, AddedIsUnseen
<1> QED  BY <1>1, <1>3, <1>4 DEF OwnershipInv, TypeOK

\* What Discard leaves as garbage.
LEMMA Discarded ==
  ASSUME OwnershipInv, NEW own, NEW refs, Discard(own, refs)
  PROVE  /\ trash' = [own |-> trash'.own, refs |-> trash'.refs]
         /\ trash'.own = trash.own \cup own /\ trash'.refs = trash.refs \cup refs
BY DEF Discard

-----------------------------------------------------------------------------
(* The steps. *)

\* Create keeps the invariant.
LEMMA CreateStep ==
  ASSUME OwnershipInv, Create
  PROVE  OwnershipInv'
<1>1. IsSnapshot(EmptySnapshot) /\ \A x \in IDs : EmptySnapshot.recs[x] = NoRec
  BY NoRecFields DEF EmptySnapshot, IsSnapshot
<1>2. snaps' = <<EmptySnapshot>> \o snaps /\ UNCHANGED <<live, trash, handed>>
  BY DEF Create
<1>3. IsCreate(snaps, snaps')
  <2> HIDE DEF EmptySnapshot
  <2> QED  BY <1>1, <1>2, Unfolded, CreateShape
<1>4. Sound(snaps', live, trash, handed)
  BY <1>3, Unfolded, CreateSound
<1> QED  BY <1>2, <1>4, Folded

\* Clone keeps the invariant.
LEMMA CloneStep ==
  ASSUME OwnershipInv, NEW i \in DOMAIN snaps, NEW expired \in SUBSET IDs, Clone(i, expired)
  PROVE  OwnershipInv'
<1>1. /\ snaps' = InsertClone(snaps, i, expired) /\ ~snaps[i].editable
      /\ UNCHANGED <<live, trash, handed>>
  BY DEF Clone
<1>2. IsClone(snaps, i, expired, snaps')
  BY <1>1, Unfolded, CloneShape
<1>3. Sound(snaps', live, trash, handed)
  BY <1>1, <1>2, Unfolded, CloneSound
<1> QED  BY <1>1, <1>3, Folded

\* Freeze keeps the invariant.
LEMMA FreezeStep ==
  ASSUME OwnershipInv, NEW i \in DOMAIN snaps, Freeze(i)
  PROVE  OwnershipInv'
<1>1. snaps' = [snaps EXCEPT ![i].editable = FALSE] /\ UNCHANGED <<live, trash, handed>>
  BY DEF Freeze
<1>2. IsFreeze(snaps, snaps')
  BY <1>1, Unfolded, FreezeShape
<1>3. Sound(snaps', live, trash, handed)
  BY <1>2, Unfolded, FreezeSound
<1> QED  BY <1>1, <1>3, Folded

\* Carry keeps the invariant: the template it carries is owned by an older snapshot.
LEMMA CarryStep ==
  ASSUME OwnershipInv, NEW i \in DOMAIN snaps, NEW id \in IDs,
         NEW J \in SUBSET (DOMAIN snaps), Carry(i, id, J)
  PROVE  OwnershipInv'
<1>1. PICK top \in J : (\A j \in J : j <= top) /\ snaps' = Spread(snaps, i, id, J, top)
  BY DEF Carry
<1>2. /\ snaps[i].recs[id].d /\ ~(snaps[i].editable /\ snaps[i].recs[id].c)
      /\ \A j \in J : j > i /\ ~Has(snaps[j], id)
      /\ UNCHANGED <<live, trash, handed>>
  BY DEF Carry
<1>3. i \notin J
  BY <1>2, Unfolded, Fields
<1>4. IsSpread(snaps, i, id, J, top, snaps')
  BY <1>1, <1>3, Unfolded, SpreadShape
<1>5. Sound(snaps', live, trash, handed)
  BY <1>1, <1>2, <1>4, Unfolded, SpreadSound
<1> QED  BY <1>2, <1>5, Folded

\* AddNew keeps the invariant: its template was not in use.
LEMMA AddNewStep ==
  ASSUME OwnershipInv, NEW i \in DOMAIN snaps, NEW id \in IDs, NEW t \in Addrs,
         NEW create \in BOOLEAN, AddNew(i, id, t, create)
  PROVE  OwnershipInv'
<1>1. /\ snaps' = SetRec(snaps, i, id, t, create, TRUE) /\ live' = live \cup {t}
      /\ trash' = trash /\ handed' = handed /\ ~Has(snaps[i], id) /\ t \notin live
  BY DEF AddNew
<1>2. IsSet(snaps, i, id, t, snaps') /\ snaps'[i].recs[id] = Rec(t, create, TRUE)
  <2> DEFINE owned == TRUE
  <2>1. /\ IsList(snaps) /\ snaps' = SetRec(snaps, i, id, t, create, owned)
        /\ owned \in BOOLEAN
    BY <1>1, Unfolded
  <2> HIDE DEF owned
  <2>2. IsSet(snaps, i, id, t, snaps') /\ snaps'[i].recs[id] = Rec(t, create, owned)
    BY <2>1, SetRecShape
  <2> QED  BY <2>2 DEF owned
<1>3. snaps'[i].recs[id].d
  BY <1>2 DEF Rec
<1>4. Sound(snaps', live \cup {t}, trash, handed)
  BY <1>1, <1>2, <1>3, Unfolded, AddSound
<1> QED  BY <1>1, <1>4, Folded

\* RemoveRec keeps the invariant, wherever the Delete flag goes.
LEMMA RemoveRecStep ==
  ASSUME OwnershipInv, NEW i \in DOMAIN snaps, NEW id \in IDs,
         NEW j \in {0} \cup DOMAIN snaps, RemoveRec(i, id, j)
  PROVE  OwnershipInv'
<1> DEFINE rec == snaps[i].recs[id]
<1>1. Sound(snaps, live, trash, handed) /\ IsList(snaps) /\ ListInv(snaps)
  BY Unfolded
<1>2. /\ snaps[i].editable /\ Has(snaps[i], id) /\ snaps' = DropRec(snaps, i, id, j)
      /\ handed' = handed
      /\ rec.d => IsMoveTarget(snaps, i, id, j)
  BY DEF RemoveRec
<1>3. rec.d => j # i
  <2>1. rec.d => /\ j # 0 => j < i
    BY <1>1, <1>2, TargetFacts
  <2>2. i \in Nat \ {0}
    BY <1>1, Fields
  <2> QED  BY <1>2, <2>1, <2>2
<1>4. IsDrop(snaps, i, id, j, snaps')
  BY <1>1, <1>2, <1>3, DropShape
<1>5. CASE (~rec.d \/ j # 0) /\ UNCHANGED <<live, trash>>
  <2>1. rec.d => IsMoveTarget(snaps, i, id, j) /\ j # 0
    BY <1>2, <1>5
  <2>2. Sound(snaps', live, trash, handed)
    BY <1>1, <1>2, <1>4, <2>1, DropSound
  <2> QED  BY <1>2, <1>5, <2>2, Folded
<1>6. CASE rec.d /\ j = 0 /\ rec.c /\ live' = live \ {rec.t} /\ UNCHANGED trash
  <2>1. IsMoveTarget(snaps, i, id, 0) /\ IsDrop(snaps, i, id, 0, snaps')
    BY <1>2, <1>4, <1>6
  <2>2. Sound(snaps', live \ {rec.t}, trash, handed)
    BY <1>1, <1>2, <1>6, <2>1, DropFreesSound
  <2> QED  BY <1>2, <1>6, <2>2, Folded
<1>7. CASE rec.d /\ j = 0 /\ ~rec.c /\ Discard({rec.t}, {}) /\ UNCHANGED live
  <2>1. IsMoveTarget(snaps, i, id, 0) /\ IsDrop(snaps, i, id, 0, snaps')
    BY <1>2, <1>4, <1>7
  <2>2. /\ trash' = [own |-> trash'.own, refs |-> trash'.refs]
        /\ trash'.own = trash.own \cup {rec.t} /\ trash'.refs = trash.refs \cup {}
    BY <1>7, Discarded
  <2>3. trash'.refs = trash.refs
    BY <2>2
  <2>4. Sound(snaps', live, trash', handed)
    BY <1>1, <1>2, <1>7, <2>1, <2>2, <2>3, DropDiscardsSound
  <2> QED  BY <1>2, <1>7, <2>4, Folded
<1> QED  BY <1>5, <1>6, <1>7 DEF RemoveRec

\* RemoveSnap keeps the invariant, wherever the Delete flags go.
LEMMA RemoveSnapStep ==
  ASSUME OwnershipInv, NEW i \in DOMAIN snaps, NEW to \in [IDs -> {0} \cup DOMAIN snaps],
         RemoveSnap(i, to)
  PROVE  OwnershipInv'
<1> DEFINE own == LeaveWith(snaps, i, to)
           refs == RefsOf(snaps[i])
<1>1. Sound(snaps, live, trash, handed) /\ IsList(snaps) /\ ListInv(snaps)
  BY Unfolded
<1>2. /\ snaps' = Unlink(snaps, i, to) /\ UNCHANGED <<live, handed>>
      /\ Discard(own, refs)
  BY DEF RemoveSnap
<1>3. /\ \A x \in IDs : snaps[i].recs[x].d => IsMoveTarget(snaps, i, x, to[x])
      /\ \A x \in IDs : to[x] \in Nat
  BY <1>1, Fields DEF RemoveSnap, ListInv, EmptyIsUnowned
<1>4. /\ trash' = [own |-> trash'.own, refs |-> trash'.refs]
      /\ trash'.own = trash.own \cup own /\ trash'.refs = trash.refs \cup refs
  <2> HIDE DEF own, refs
  <2> QED  BY <1>2, Discarded
<1>5. Sound(snaps', live, trash', handed)
  BY <1>1, <1>2, <1>3, <1>4, UnlinkSound
<1> QED  BY <1>2, <1>5, Folded

\* KeepNewest keeps the invariant: the newest snapshot owns all it refers to.
LEMMA KeepNewestStep ==
  ASSUME OwnershipInv, KeepNewest
  PROVE  OwnershipInv'
<1> DEFINE older == SubSeq(snaps, 1, Len(snaps) - 1)
           own == Owned(older)
           refs == Refs(older)
<1>1. Sound(snaps, live, trash, handed) /\ IsList(snaps) /\ ListInv(snaps)
  BY Unfolded
<1>2. /\ snaps # <<>> /\ snaps' = <<snaps[Len(snaps)]>> /\ UNCHANGED <<live, handed>>
      /\ Discard(own, refs)
  BY DEF KeepNewest
<1>3. IsPrefix(older, snaps)
  <2>1. Len(snaps) \in Nat \ {0} /\ snaps \in Seq({snaps[k] : k \in DOMAIN snaps})
    BY <1>1, <1>2, LenProperties, EmptySeq DEF IsList
  <2> QED  BY <2>1 DEF IsPrefix
<1> HIDE DEF older, own, refs
<1>4. /\ trash' = [own |-> trash'.own, refs |-> trash'.refs]
      /\ trash'.own = trash.own \cup own /\ trash'.refs = trash.refs \cup refs
  BY <1>2, Discarded
<1>5. /\ trash'.own = trash.own \cup Owned(older) /\ trash'.refs = trash.refs \cup Refs(older)
  BY <1>4 DEF own, refs
<1>6. Sound(snaps', live, trash', handed)
  BY <1>1, <1>2, <1>3, <1>4, <1>5, NewestSound
<1> QED  BY <1>2, <1>6, Folded

\* Clear keeps the invariant.
LEMMA ClearStep ==
  ASSUME OwnershipInv, Clear
  PROVE  OwnershipInv'
<1> DEFINE own == Refs(snaps)
<1>1. Discard(own, own) /\ snaps' = <<>> /\ UNCHANGED <<live, handed>>
  BY Unfolded DEF Clear
<1>2. /\ trash' = [own |-> trash'.own, refs |-> trash'.refs]
      /\ trash'.own = trash.own \cup own /\ trash'.refs = trash.refs \cup own
  <2> HIDE DEF own
  <2> QED  BY <1>1, Discarded
<1>3. Sound(snaps', live, trash', handed)
  BY <1>1, <1>2, Unfolded, ClearSound
<1> QED  BY <1>1, <1>3, Folded

\* ReplaceAll keeps the invariant: the copies are new and distinct.
LEMMA ReplaceAllStep ==
  ASSUME OwnershipInv, NEW copy \in [Owned(snaps) -> Addrs \ live], ReplaceAll(copy)
  PROVE  OwnershipInv'
<1> DEFINE own == Refs(snaps)
           copies == Copies(copy, snaps)
<1>1. /\ Sound(snaps, live, trash, handed) /\ IsList(snaps) /\ ListInv(snaps)
      /\ Owned(snaps) = Refs(snaps)
  BY Unfolded
<1>2. /\ snaps' = ReplaceRefs(snaps, copy) /\ live' = live \cup copies
      /\ Discard(own, own) /\ handed' = handed
      /\ \A t, u \in Refs(snaps) : copy[t] = copy[u] => t = u
  BY <1>1 DEF ReplaceAll, Copies
<1>3. copy \in [Refs(snaps) -> Addrs] /\ copy \in [Refs(snaps) -> Addrs \ live]
  BY <1>1
<1>4. IsReplace(snaps, copy, snaps')
  BY <1>1, <1>2, <1>3, ReplaceShape
<1>5. /\ trash' = [own |-> trash'.own, refs |-> trash'.refs]
      /\ trash'.own = trash.own \cup own /\ trash'.refs = trash.refs \cup own
  <2> HIDE DEF own
  <2> QED  BY <1>2, Discarded
<1>6. Sound(snaps', live \cup copies, trash', handed)
  <2> HIDE DEF own, copies
  <2>1. copies = Copies(copy, snaps) /\ own = Refs(snaps)
    BY DEF copies, own
  <2> QED  BY <1>1, <1>2, <1>3, <1>4, <1>5, <2>1, ReplaceSound
<1> QED  BY <1>2, <1>6, Folded

\* GarbageGet keeps the invariant.
LEMMA GarbageGetStep ==
  ASSUME OwnershipInv, GarbageGet
  PROVE  OwnershipInv'
<1>1. /\ handed' = Append(handed, trash) /\ trash' = NoBatch /\ snaps' = snaps
      /\ live' = live
  BY SameBatch DEF GarbageGet
<1>2. Sound(snaps, live, NoBatch, handed')
  BY <1>1, Unfolded, TakeSound
<1> QED  BY <1>1, <1>2, Folded

\* GarbageDestroy keeps the invariant: what it frees is not in use.
LEMMA GarbageDestroyStep ==
  ASSUME OwnershipInv, GarbageDestroy
  PROVE  OwnershipInv'
<1>1. /\ handed # <<>> /\ live' = live \ Head(handed).own /\ handed' = Tail(handed)
      /\ snaps' = snaps /\ trash' = trash
  BY DEF GarbageDestroy
<1>2. Sound(snaps, live \ Head(handed).own, trash, handed')
  BY <1>1, Unfolded, DestroySound
<1> QED  BY <1>1, <1>2, Folded

-----------------------------------------------------------------------------

\* A new manager satisfies the invariant.
LEMMA InitInv ==
  ASSUME Init
  PROVE  OwnershipInv
<1>1. IsList(snaps) /\ ListInv(snaps) /\ Refs(snaps) = {}
  BY EmptyList DEF Init
<1>2. Owned(snaps) = {}
  BY <1>1, OwnedIsRefs DEF ListInv
<1>3. TypeOK
  BY <1>1 DEF Init, TypeOK, NoGarbage, Garbage
<1>4. NoDangling /\ OwnersDisjoint /\ NoLeak /\ GarbageUnused
  BY <1>1, <1>2 DEF Init, NoGarbage, NoDangling, OwnersDisjoint, NoLeak, GarbageUnused
<1>5. AddedIsUnseen
  BY DEF Init, AddedIsUnseen
<1> QED  BY <1>1, <1>3, <1>4, <1>5 DEF OwnershipInv

\* Every step keeps the invariant.
LEMMA NextInv ==
  ASSUME OwnershipInv, [Next]_vars
  PROVE  OwnershipInv'
<1>1. CASE Create
  BY <1>1, CreateStep
<1>2. CASE \E i \in DOMAIN snaps, expired \in SUBSET IDs : Clone(i, expired)
  BY <1>2, CloneStep
<1>3. CASE \E i \in DOMAIN snaps, id \in IDs, t \in Addrs, create \in BOOLEAN :
             AddNew(i, id, t, create)
  BY <1>3, AddNewStep
<1>4. CASE \E i \in DOMAIN snaps, id \in IDs, J \in SUBSET (DOMAIN snaps) : Carry(i, id, J)
  BY <1>4, CarryStep
<1>5. CASE \E i \in DOMAIN snaps : Freeze(i)
  BY <1>5, FreezeStep
<1>6. CASE \E i \in DOMAIN snaps, id \in IDs, j \in {0} \cup DOMAIN snaps : RemoveRec(i, id, j)
  BY <1>6, RemoveRecStep
<1>7. CASE \E i \in DOMAIN snaps, to \in [IDs -> {0} \cup DOMAIN snaps] : RemoveSnap(i, to)
  BY <1>7, RemoveSnapStep
<1>8. CASE KeepNewest
  BY <1>8, KeepNewestStep
<1>9. CASE Clear
  BY <1>9, ClearStep
<1>10. CASE \E copy \in [Owned(snaps) -> Addrs \ live] : ReplaceAll(copy)
  BY <1>10, ReplaceAllStep
<1>11. CASE GarbageGet
  BY <1>11, GarbageGetStep
<1>12. CASE GarbageDestroy
  BY <1>12, GarbageDestroyStep
<1>13. CASE UNCHANGED vars
  BY <1>13 DEF vars, OwnershipInv, TypeOK, NoDangling, OwnersDisjoint, NoLeak, GarbageUnused,
               AddedIsUnseen
<1> QED  BY <1>1, <1>2, <1>3, <1>4, <1>5, <1>6, <1>7, <1>8, <1>9, <1>10, <1>11, <1>12, <1>13
            DEF Next

\* The whole invariant: in every state a call sequence of template_manager.c
\* can reach, each template is freed by exactly one snapshot or garbage batch,
\* none is freed while somebody can reach it, and none is lost.
THEOREM Ownership == Spec => []OwnershipInv
<1>1. Init => OwnershipInv
  BY InitInv
<1>2. OwnershipInv /\ [Next]_vars => OwnershipInv'
  BY NextInv
<1> QED  BY <1>1, <1>2, PTL DEF Spec

\* Garbage may be destroyed in the order fds_tmgr_garbage_get() handed it out.
THEOREM GarbageIndependent == Spec => []GarbageUnused
<1>1. OwnershipInv => GarbageUnused
  BY DEF OwnershipInv
<1> QED  BY <1>1, Ownership, PTL
=============================================================================
