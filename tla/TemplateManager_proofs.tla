------------------------ MODULE TemplateManager_proofs ------------------------
(***************************************************************************)
(* What holds after every call of the template manager, for sets of IDs,   *)
(* addresses, templates and Export Times of any size: each template is     *)
(* freed exactly once and never too early, the templates of the list       *)
(* belong to the current IE manager, snapshots older than the selected one *)
(* are frozen, and a frozen snapshot stays as it is.                       *)
(*                                                                         *)
(* Inv is inductive.  A call is taken apart into the list operations of    *)
(* SnapshotList_proofs; a loop is followed round by round (Loop).          *)
(***************************************************************************)
EXTENDS TemplateManager, SnapshotList_proofs, FiniteSetTheorems, FunctionTheorems,
        WellFoundedInduction

\* The fields of struct fds_tmgr, and those of a piece of garbage.
ManagerFields ==
  {"session", "limN", "limO", "limS", "now", "newest", "snaps", "cur", "tm",
   "ies", "trash", "handed", "asserts", "alike"}
IsGarbage(g) == g = [own |-> g.own, snaps |-> g.snaps]

UsesAll(h) == [b \in DOMAIN h |-> Uses(h[b])]
\* Templates T belong to an IE manager.
Current(tm, T, ies) == \A t \in T : "ies" \in DOMAIN tm[t] /\ tm[t].ies = ies
Starts(s) == \A k \in DOMAIN s : "start" \in DOMAIN s[k]

\* The manager between two steps of a call; the templates X are allocated and
\* not in the list yet.
Good(m, X) ==
  /\ DOMAIN m = ManagerFields
  /\ DOMAIN m.tm \subseteq Addrs /\ X \subseteq DOMAIN m.tm
  /\ IsGarbage(m.trash)
  /\ m.handed \in Seq({m.handed[b] : b \in DOMAIN m.handed})
  /\ \A b \in DOMAIN m.handed : IsGarbage(m.handed[b])
  /\ Sound(m.snaps, DOMAIN m.tm \ X, Uses(m.trash), UsesAll(m.handed))
  /\ Starts(m.snaps) /\ Current(m.tm, Refs(m.snaps) \cup X, m.ies)

\* The selected snapshot: what is older is frozen, and it is itself unless it
\* starts at the selected time.
OlderFrozen(m) ==
  /\ m.cur \in 0..Len(m.snaps)
  /\ \A k \in 1..(m.cur - 1) : ~m.snaps[k].editable
AtNow(m) == m.cur # 0 /\ m.snaps[m.cur].editable => m.snaps[m.cur].start = m.now

Inv(m) == Good(m, {}) /\ OlderFrozen(m) /\ AtNow(m)

\* What somebody may have seen: frozen snapshots and what garbage holds.
FrozenViews(m) == {View(m.snaps[k]) : k \in {j \in DOMAIN m.snaps : ~m.snaps[j].editable}}
Seen(m) ==
  FrozenViews(m) \cup m.trash.snaps \cup UNION {m.handed[b].snaps : b \in DOMAIN m.handed}
SeenRefs(m) == UNION {ViewRefs(v) : v \in Seen(m)}

\* Everything seen stays visible, and its templates stay as they are.
Keeps(m, n) ==
  Seen(m) \subseteq Seen(n) /\ \A t \in SeenRefs(m) : n.tm[t] = m.tm[t]

-----------------------------------------------------------------------------
(* Parts of a manager. *)

\* A set of small numbers that is not empty has a largest one.
LEMMA Maximum ==
  ASSUME NEW n \in Nat, NEW S \in SUBSET (1..n), S # {}
  PROVE  \E x \in S : \A y \in S : y <= x
<1> DEFINE T == {n - x : x \in S}
<1>1. T \in SUBSET Nat /\ T # {}
  <2>1. \A x \in S : n - x \in Nat
    OBVIOUS
  <2>2. PICK x \in S : TRUE
    OBVIOUS
  <2>3. n - x \in T
    BY <2>2
  <2> QED  BY <2>1, <2>3
<1>2. PICK z \in T : \A y \in T : z <= y
  <2> HIDE DEF T
  <2> QED  BY <1>1, Propagation!Minimum
<1>3. PICK x \in S : z = n - x
  OBVIOUS
<1>4. \A y \in S : n - x <= n - y
  BY <1>2, <1>3
<1>5. ASSUME NEW y \in S PROVE y <= x
  <2>1. n - x <= n - y
    BY <1>4
  <2>2. x \in Int /\ y \in Int /\ n \in Int
    OBVIOUS
  <2> HIDE DEF T
  <2> QED  BY <2>1, <2>2
<1> QED  BY <1>5

\* The indices of a list.
LEMMA ListLen ==
  ASSUME NEW s, IsList(s)
  PROVE  Len(s) \in Nat /\ DOMAIN s = 1..Len(s)
BY LenProperties DEF IsList

\* A step of a call that leaves the configuration and handed garbage alone.
Rest(m, n) ==
  DOMAIN n = DOMAIN m /\ n.now = m.now /\ n.ies = m.ies /\ n.handed = m.handed

\* What Good says, part by part.
LEMMA GoodFacts ==
  ASSUME NEW m, NEW X, Good(m, X)
  PROVE  /\ DOMAIN m = ManagerFields /\ IsList(m.snaps) /\ ListInv(m.snaps) /\ Starts(m.snaps)
         /\ Sound(m.snaps, DOMAIN m.tm \ X, Uses(m.trash), UsesAll(m.handed))
         /\ IsGarbage(m.trash) /\ DOMAIN m.tm \subseteq Addrs /\ X \subseteq DOMAIN m.tm
         /\ GarbageInv(Refs(m.snaps), Unpropagated(m.snaps), DOMAIN m.tm \ X,
                       Uses(m.trash), UsesAll(m.handed))
         /\ Refs(m.snaps) \subseteq DOMAIN m.tm \ X
         /\ Current(m.tm, Refs(m.snaps) \cup X, m.ies)
BY DEF Good, Sound, GarbageInv, Starts

\* What a piece of garbage owns and refers to.
LEMMA UsesFields ==
  ASSUME NEW g
  PROVE  Uses(g).own = g.own /\ Uses(g).refs = GarbageRefs(g)
      /\ Uses(g) = [own |-> Uses(g).own, refs |-> Uses(g).refs]
BY DEF Uses

\* What a view of a snapshot refers to is what the snapshot refers to.
LEMMA ViewRefsOf ==
  ASSUME NEW s
  PROVE  ViewRefs(View(s)) = RefsOf(s)
<1>1. View(s).ref = [id \in IDs |-> s.recs[id].t]
  BY DEF View
<1> QED  BY <1>1 DEF ViewRefs, RefsOf, Has

\* Views depend only on what readers of a snapshot see.
LEMMA SameViewView ==
  ASSUME NEW x, NEW y, IsSnapshot(x), "start" \in DOMAIN x, SameView(x, y)
  PROVE  View(y) = View(x) /\ RefsOf(y) = RefsOf(x) /\ "start" \in DOMAIN y
<1>1. y.start = x.start /\ "start" \in DOMAIN y
  BY DEF SameView, SameRest
<1>2. \A id \in IDs : y.recs[id].t = x.recs[id].t
  BY DEF SameView
<1>3. [id \in IDs |-> y.recs[id].t] = [id \in IDs |-> x.recs[id].t]
  BY <1>2
<1>4. RefsOf(y) = RefsOf(x)
  BY <1>2 DEF RefsOf, Has
<1> QED  BY <1>1, <1>3, <1>4 DEF View

RefsOfViews(S) == UNION {ViewRefs(v) : v \in S}

\* Membership in it.
LEMMA InRefsOfViews ==
  ASSUME NEW S, NEW t
  PROVE  t \in RefsOfViews(S) <=> \E v \in S : t \in ViewRefs(v)
BY DEF RefsOfViews

\* Garbage that takes views T also refers to what they refer to.
LEMMA GarbageRefsAdd ==
  ASSUME NEW g, NEW h, NEW T, h.snaps = g.snaps \cup T
  PROVE  GarbageRefs(h) = GarbageRefs(g) \cup RefsOfViews(T)
<1>1. GarbageRefs(h) = RefsOfViews(h.snaps) /\ GarbageRefs(g) = RefsOfViews(g.snaps)
  BY DEF GarbageRefs, RefsOfViews
<1>2. \A t : t \in RefsOfViews(h.snaps) <=> t \in RefsOfViews(g.snaps) \cup RefsOfViews(T)
  BY InRefsOfViews
<1> QED  BY <1>1, <1>2

\* A template that is seen is allocated, and no call may free it at once.
LEMMA SeenIsLive ==
  ASSUME NEW m, NEW X, Good(m, X)
  PROVE  /\ SeenRefs(m) \subseteq DOMAIN m.tm \ X
         /\ SeenRefs(m) \cap Unpropagated(m.snaps) = {}
<1>1. /\ IsList(m.snaps) /\ ListInv(m.snaps)
      /\ GarbageInv(Refs(m.snaps), Unpropagated(m.snaps), DOMAIN m.tm \ X,
                    Uses(m.trash), UsesAll(m.handed))
  BY GoodFacts
<1>2. ASSUME NEW t \in SeenRefs(m)
      PROVE  \/ \E k \in DOMAIN m.snaps : ~m.snaps[k].editable /\ t \in RefsOf(m.snaps[k])
             \/ t \in Uses(m.trash).refs
             \/ \E b \in DOMAIN m.handed : t \in UsesAll(m.handed)[b].refs
  <2>1. PICK v \in Seen(m) : t \in ViewRefs(v)
    BY DEF SeenRefs
  <2>2. CASE v \in FrozenViews(m)
    <3>1. PICK k \in DOMAIN m.snaps : ~m.snaps[k].editable /\ v = View(m.snaps[k])
      BY <2>2 DEF FrozenViews
    <3> QED  BY <2>1, <3>1, ViewRefsOf
  <2>3. CASE v \in m.trash.snaps
    BY <2>1, <2>3, UsesFields DEF GarbageRefs
  <2>4. CASE v \in UNION {m.handed[b].snaps : b \in DOMAIN m.handed}
    <3>1. PICK b \in DOMAIN m.handed : v \in m.handed[b].snaps
      BY <2>4
    <3>2. UsesAll(m.handed)[b] = Uses(m.handed[b])
      BY DEF UsesAll
    <3>3. t \in Uses(m.handed[b]).refs
      BY <2>1, <3>1, UsesFields DEF GarbageRefs
    <3> QED  BY <3>2, <3>3
  <2> QED  BY <2>2, <2>3, <2>4 DEF Seen
<1>3. DOMAIN UsesAll(m.handed) = DOMAIN m.handed
  BY DEF UsesAll
<1> SUFFICES ASSUME NEW t \in SeenRefs(m)
             PROVE  t \in DOMAIN m.tm \ X /\ t \notin Unpropagated(m.snaps)
  OBVIOUS
<1>4. CASE \E k \in DOMAIN m.snaps : ~m.snaps[k].editable /\ t \in RefsOf(m.snaps[k])
  <2>1. PICK k \in DOMAIN m.snaps : ~m.snaps[k].editable /\ t \in RefsOf(m.snaps[k])
    BY <1>4
  <2>2. t \in Refs(m.snaps)
    BY <2>1 DEF Refs
  <2>3. PICK y \in IDs : m.snaps[k].recs[y].t = t
    BY <2>1 DEF RefsOf
  <2>4. t \notin Unpropagated(m.snaps)
    <3> SUFFICES ASSUME t \in Unpropagated(m.snaps) PROVE FALSE
      OBVIOUS
    <3>1. PICK l \in DOMAIN m.snaps, x \in IDs :
            m.snaps[l].editable /\ m.snaps[l].recs[x].c /\ m.snaps[l].recs[x].t = t
      BY UnpropagatedMember
    <3>2. k = l
      BY <1>1, <2>3, <3>1, UnpropagatedIsAlone
    <3> QED  BY <2>1, <3>1, <3>2
  <2> QED  BY <1>1, <2>2, <2>4 DEF GarbageInv
<1>5. CASE t \in Uses(m.trash).refs
  BY <1>1, <1>5 DEF GarbageInv
<1>6. CASE \E b \in DOMAIN m.handed : t \in UsesAll(m.handed)[b].refs
  BY <1>1, <1>3, <1>6 DEF GarbageInv
<1> QED  BY <1>2, <1>4, <1>5, <1>6

-----------------------------------------------------------------------------
(* What a step has to show. *)

\* A step whose result is sound leads to a good state.
LEMMA StepGood ==
  ASSUME NEW m, NEW X, Good(m, X), NEW n, NEW Y, Rest(m, n), IsGarbage(n.trash),
         DOMAIN n.tm \subseteq Addrs, Y \subseteq DOMAIN n.tm, Starts(n.snaps),
         Sound(n.snaps, DOMAIN n.tm \ Y, Uses(n.trash), UsesAll(m.handed)),
         Current(n.tm, Refs(n.snaps) \cup Y, m.ies)
  PROVE  Good(n, Y)
BY DEF Good, Rest, Starts

\* What was frozen is still in the list or in garbage, with its templates.
LEMMA StepKeeps ==
  ASSUME NEW m, NEW n, n.handed = m.handed, m.trash.snaps \subseteq n.trash.snaps,
         FrozenViews(m) \subseteq FrozenViews(n) \cup n.trash.snaps,
         \A t \in SeenRefs(m) : n.tm[t] = m.tm[t]
  PROVE  Keeps(m, n)
<1>1. Seen(m) \subseteq Seen(n)
  BY DEF Seen
<1> QED  BY <1>1 DEF Keeps

\* Two steps that keep what was seen.
LEMMA KeepsTransitive ==
  ASSUME NEW m, NEW n, NEW p, Keeps(m, n), Keeps(n, p)
  PROVE  Keeps(m, p)
<1>1. SeenRefs(m) \subseteq SeenRefs(n)
  BY DEF Keeps, SeenRefs
<1> QED  BY <1>1 DEF Keeps

\* No step at all.
LEMMA KeepsItself ==
  ASSUME NEW m
  PROVE  Keeps(m, m)
BY DEF Keeps

\* Frozen snapshots that look the same afterwards.
FrozenStay(s, n) ==
  \A k \in DOMAIN s : ~s[k].editable =>
    \E l \in DOMAIN n : ~n[l].editable /\ SameView(s[k], n[l])

\* Then all their views are left.
LEMMA ViewsStay ==
  ASSUME NEW m, NEW n, IsList(m.snaps), Starts(m.snaps), FrozenStay(m.snaps, n.snaps)
  PROVE  FrozenViews(m) \subseteq FrozenViews(n)
<1> SUFFICES ASSUME NEW v \in FrozenViews(m)
             PROVE  v \in FrozenViews(n)
  OBVIOUS
<1>1. PICK k \in DOMAIN m.snaps : ~m.snaps[k].editable /\ v = View(m.snaps[k])
  BY DEF FrozenViews
<1>2. PICK l \in DOMAIN n.snaps : ~n.snaps[l].editable /\ SameView(m.snaps[k], n.snaps[l])
  BY <1>1 DEF FrozenStay
<1>3. View(n.snaps[l]) = View(m.snaps[k])
  BY <1>2, SameViewView, Fields DEF Starts
<1> QED  BY <1>1, <1>2, <1>3 DEF FrozenViews

\* Nothing but the configuration or the selected snapshot changed.
LEMMA StepSame ==
  ASSUME NEW m, NEW X, Good(m, X), NEW n, DOMAIN n = DOMAIN m, n.ies = m.ies,
         n.handed = m.handed, n.snaps = m.snaps, n.tm = m.tm, n.trash = m.trash
  PROVE  Good(n, X) /\ Keeps(m, n)
<1>1. Good(n, X)
  BY DEF Good
<1>2. FrozenViews(n) = FrozenViews(m)
  BY DEF FrozenViews
<1> QED  BY <1>1, <1>2, StepKeeps

\* References are only rearranged.
LEMMA StepRearranges ==
  ASSUME NEW m, NEW X, Good(m, X), NEW n, Rest(m, n), n.tm = m.tm, n.trash = m.trash,
         Starts(n.snaps), Refs(n.snaps) = Refs(m.snaps),
         Sound(n.snaps, DOMAIN m.tm \ X, Uses(m.trash), UsesAll(m.handed)),
         FrozenStay(m.snaps, n.snaps)
  PROVE  Good(n, X) /\ Keeps(m, n)
<1>1. /\ IsList(m.snaps) /\ Starts(m.snaps) /\ IsGarbage(n.trash) /\ DOMAIN n.tm \subseteq Addrs
      /\ X \subseteq DOMAIN n.tm
      /\ Sound(n.snaps, DOMAIN n.tm \ X, Uses(n.trash), UsesAll(m.handed))
      /\ Current(n.tm, Refs(n.snaps) \cup X, m.ies)
  BY GoodFacts
<1>2. Good(n, X)
  BY <1>1, StepGood
<1>3. FrozenViews(m) \subseteq FrozenViews(n)
  BY <1>1, ViewsStay
<1> QED  BY <1>2, <1>3, StepKeeps DEF Rest

-----------------------------------------------------------------------------
(* The operations a call is made of. *)

\* A snapshot that was just created.
LEMMA NewSnapshotFields ==
  ASSUME NEW time
  PROVE  /\ IsSnapshot(NewSnapshot(time)) /\ NewSnapshot(time).start = time
         /\ "start" \in DOMAIN NewSnapshot(time)
         /\ \A x \in IDs : NewSnapshot(time).recs[x] = NoRec
BY NoRecFields DEF NewSnapshot, IsSnapshot

\* What mgr_snap_create() changes.
LEMMA SnapCreateFields ==
  ASSUME NEW m, DOMAIN m = ManagerFields, NEW time, NEW n, n = SnapCreate(m, time)
  PROVE  /\ Rest(m, n) /\ n.tm = m.tm /\ n.trash = m.trash
         /\ n.snaps = <<NewSnapshot(time)>> \o m.snaps
BY DEF SnapCreate, Assume, ManagerFields, Rest

\* mgr_snap_create()
LEMMA SnapCreateStep ==
  ASSUME NEW m, NEW X, Good(m, X), NEW time, NEW n, n = SnapCreate(m, time)
  PROVE  /\ Good(n, X) /\ Keeps(m, n) /\ Rest(m, n)
         /\ Len(n.snaps) = Len(m.snaps) + 1 /\ n.snaps[1].start = time
<1> DEFINE e  == NewSnapshot(time)
           s  == m.snaps
           ns == n.snaps
           l  == DOMAIN m.tm \ X
           tr == Uses(m.trash)
           h  == UsesAll(m.handed)
<1>1. DOMAIN m = ManagerFields
  BY DEF Good
<1>2. Rest(m, n) /\ n.tm = m.tm /\ n.trash = m.trash
  BY <1>1, SnapCreateFields
<1>3. ns = <<e>> \o s
  BY <1>1, SnapCreateFields
<1>4. /\ IsSnapshot(e) /\ e.start = time /\ "start" \in DOMAIN e /\ \A x \in IDs : e.recs[x] = NoRec
  BY NewSnapshotFields
<1>5. IsList(s) /\ Starts(s) /\ Sound(s, l, tr, h)
  BY GoodFacts
<1> HIDE DEF e, s, ns, l, tr, h
<1>6. Len(s) \in Nat /\ DOMAIN s = 1..Len(s)
  BY <1>5, ListLen
<1>7. IsCreate(s, ns) /\ ns[1] = e
  BY <1>3, <1>4, <1>5, CreateShape
<1>8. Sound(ns, l, tr, h) /\ Refs(ns) = Refs(s)
  BY <1>5, <1>7, CreateSound
<1>9. /\ IsList(ns) /\ DOMAIN ns = 1..(Len(s) + 1)
      /\ \A k \in 2..(Len(s) + 1) : ns[k] = s[k - 1]
  BY <1>7 DEF IsCreate
<1>10. Starts(ns)
  <2> SUFFICES ASSUME NEW k \in 1..(Len(s) + 1)
               PROVE  "start" \in DOMAIN ns[k]
    BY <1>9 DEF Starts
  <2>1. CASE k = 1
    BY <2>1, <1>4, <1>7
  <2>2. CASE k # 1
    <3>1. k - 1 \in DOMAIN s /\ ns[k] = s[k - 1]
      BY <1>6, <1>9, <2>2
    <3> QED  BY <3>1, <1>5 DEF Starts
  <2> QED  BY <2>1, <2>2
<1>11. FrozenStay(s, ns)
  <2> SUFFICES ASSUME NEW k \in DOMAIN s, ~s[k].editable
               PROVE  \E j \in DOMAIN ns : ~ns[j].editable /\ SameView(s[k], ns[j])
    BY DEF FrozenStay
  <2>1. k + 1 \in DOMAIN ns /\ ns[k + 1] = s[k]
    BY <1>6, <1>9
  <2>2. SameView(s[k], s[k])
    BY DEF SameView, SameRest
  <2> QED  BY <2>1, <2>2
<1>12. Good(n, X) /\ Keeps(m, n)
  BY <1>2, <1>8, <1>10, <1>11, StepRearranges DEF s, ns, l, tr, h
<1>13. Len(ns) = Len(s) + 1
  BY <1>6, <1>9, ListLen
<1> QED  BY <1>2, <1>4, <1>7, <1>12, <1>13 DEF s, ns

\* A list is a tuple already.
LEMMA TupleList ==
  ASSUME NEW s, IsList(s)
  PROVE  Tuple(s) = s
<1> DEFINE S == {s[i] : i \in DOMAIN s}
<1>1. s \in Seq(S)
  BY DEF IsList
<1> HIDE DEF S
<1>2. Len(s) \in Nat /\ \A i \in 1..Len(s) : s[i] \in S
  BY <1>1, LenProperties, ElementOfSeq
<1>3. /\ SubSeq(s, 1, Len(s)) \in Seq(S) /\ Len(SubSeq(s, 1, Len(s))) = Len(s)
      /\ \A i \in 1..Len(s) : SubSeq(s, 1, Len(s))[i] = s[i]
  BY <1>1, <1>2, SubSeqProperties
<1> QED  BY <1>1, <1>3, SeqEqual DEF Tuple

\* A list with other start, lifetime and validity in one snapshot.
IsDated(s, i, n) ==
  /\ IsList(n) /\ DOMAIN n = DOMAIN s /\ Len(n) = Len(s)
  /\ n[i].editable = s[i].editable /\ n[i].recs = s[i].recs /\ DOMAIN n[i] = DOMAIN s[i]
  /\ \A k \in DOMAIN s : k # i => n[k] = s[k]

\* A snapshot written with other times.
LEMMA DatedShape ==
  ASSUME NEW s, IsList(s), NEW i \in DOMAIN s, NEW x, DOMAIN x = DOMAIN s[i],
         x.editable = s[i].editable, x.recs = s[i].recs,
         NEW n, n = [s EXCEPT ![i] = x]
  PROVE  IsDated(s, i, n) /\ n[i] = x
<1>1. /\ Len(s) \in Nat /\ DOMAIN s = 1..Len(s) /\ \A k \in DOMAIN s : IsSnapshot(s[k])
  BY ListLen DEF IsList
<1>2. DOMAIN n = 1..Len(s) /\ n[i] = x /\ \A k \in DOMAIN s : k # i => n[k] = s[k]
  BY <1>1
<1>3. n = [k \in 1..Len(s) |-> n[k]]
  BY <1>1, <1>2
<1>4. IsSnapshot(x)
  BY <1>1 DEF IsSnapshot
<1>5. \A k \in 1..Len(s) : IsSnapshot(n[k])
  BY <1>1, <1>2, <1>4
<1>6. IsList(n) /\ Len(n) = Len(s)
  BY <1>1, <1>3, <1>5, ListOf
<1> QED  BY <1>1, <1>2, <1>6 DEF IsDated

\* A clone and what the caller writes into it.
LEMMA CloneDated ==
  ASSUME NEW s, IsList(s), NEW i \in DOMAIN s, NEW expired \in SUBSET IDs,
         NEW c, IsClone(s, i, expired, c), NEW n, IsDated(c, i + 1, n)
  PROVE  IsClone(s, i, expired, n) /\ n[i] = c[i]
<1>1. Len(s) \in Nat /\ DOMAIN s = 1..Len(s) /\ i \in 1..Len(s)
  BY Fields
<1>2. i \in DOMAIN c /\ i # i + 1 /\ DOMAIN c = 1..(Len(s) + 1) /\ Len(c) = Len(s) + 1
  BY <1>1 DEF IsClone
<1>3. /\ IsList(n) /\ DOMAIN n = 1..(Len(s) + 1) /\ Len(n) = Len(s) + 1
      /\ n[i + 1].editable = c[i + 1].editable /\ n[i + 1].recs = c[i + 1].recs
      /\ \A k \in 1..(Len(s) + 1) : k # i + 1 => n[k] = c[k]
  BY <1>2 DEF IsDated
<1>4. n[i] = c[i]
  BY <1>2, <1>3
<1>5. \A k \in 1..(i - 1) : n[k] = s[k]
  BY <1>1, <1>3 DEF IsClone
<1>6. \A k \in (i + 2)..(Len(s) + 1) : n[k] = s[k - 1]
  BY <1>1, <1>3 DEF IsClone
<1> QED  BY <1>3, <1>4, <1>5, <1>6 DEF IsClone

Written(s, i, expired, start, purge, a, b) ==
  [Tuple(InsertClone(s, i, expired)) EXCEPT
     ![i + 1].start = start,
     ![i + 1].enabled = IF purge THEN a ELSE @,
     ![i + 1].minv = IF purge THEN b ELSE @]

\* A clone whose times are written is a clone still.
LEMMA CloneWritten ==
  ASSUME NEW s, IsList(s), NEW i \in DOMAIN s, "start" \in DOMAIN s[i],
         NEW expired \in SUBSET IDs, NEW start, NEW purge, NEW a, NEW b,
         NEW n, n = Written(s, i, expired, start, purge, a, b)
  PROVE  /\ IsClone(s, i, expired, n) /\ SameView(s[i], n[i])
         /\ n[i + 1].start = start /\ "start" \in DOMAIN n[i + 1]
<1> DEFINE c == InsertClone(s, i, expired)
           y == c[i + 1]
           x == [[[y EXCEPT !.start = start] EXCEPT
                     !.enabled = IF purge THEN a ELSE @] EXCEPT !.minv = IF purge THEN b ELSE @]
<1>1. IsClone(s, i, expired, c) /\ SameView(s[i], c[i]) /\ SameRest(s[i], c[i + 1])
  BY CloneShape
<1> HIDE DEF c
<1>2. IsList(c) /\ Tuple(c) = c /\ i + 1 \in DOMAIN c
  BY <1>1, TupleList, Fields DEF IsClone
<1>3. n = [c EXCEPT ![i + 1] = x]
  BY <1>2 DEF c, Written
<1>4. DOMAIN x = DOMAIN y /\ x.editable = y.editable /\ x.recs = y.recs
  OBVIOUS
<1>5. "start" \in DOMAIN y
  BY <1>1 DEF SameRest
<1>6. x.start = start
  BY <1>5
<1> HIDE DEF x, y
<1>7. IsDated(c, i + 1, n) /\ n[i + 1] = x
  BY <1>2, <1>3, <1>4, DatedShape DEF y
<1>8. IsClone(s, i, expired, n) /\ n[i] = c[i]
  BY <1>1, <1>7, CloneDated
<1> QED  BY <1>1, <1>4, <1>5, <1>6, <1>7, <1>8

IsCloned(m, i, n) ==
  /\ Rest(m, n) /\ n.tm = m.tm /\ n.trash = m.trash
  /\ \E expired \in SUBSET IDs : IsClone(m.snaps, i, expired, n.snaps)
  /\ SameView(m.snaps[i], n.snaps[i]) /\ "start" \in DOMAIN n.snaps[i + 1]

\* What mgr_snap_clone() changes.
LEMMA SnapCloneFields ==
  ASSUME NEW m, DOMAIN m = ManagerFields, IsList(m.snaps), Starts(m.snaps),
         NEW i \in DOMAIN m.snaps, NEW start, NEW n, n = SnapClone(m, i, start)
  PROVE  /\ IsCloned(m, i, n) /\ n.snaps[i + 1].start = start
         /\ n.cur = IF m.cur > i THEN m.cur + 1 ELSE m.cur
         /\ start = m.snaps[i].start => IsClone(m.snaps, i, {}, n.snaps)
<1> DEFINE src     == m.snaps[i]
           timed   == {id \in IDs : Has(src, id) /\ TimesOut(m.tm[src.recs[id].t])}
           eol(id) == m.tm[src.recs[id].t].eol
           purge   == start # src.start /\ src.enabled /\ LE(src.minv, start)
           expired == IF purge THEN {id \in timed : LT(eol(id), start)} ELSE {}
           longest == Plus(start, IF m.limN > m.limO THEN m.limN ELSE m.limO)
           earliest == Earliest({longest} \cup {eol(id) : id \in timed \ expired})
           ok == /\ ~src.editable /\ LE(src.start, start)
                 /\ i < Newest(m) => LT(start, m.snaps[i + 1].start)
           a == timed # expired
           b == Plus(earliest, 1)
           new == [Tuple(InsertClone(m.snaps, i, expired)) EXCEPT
                     ![i + 1].start = start,
                     ![i + 1].enabled = IF purge THEN a ELSE @,
                     ![i + 1].minv = IF purge THEN b ELSE @]
<1>1. expired \in SUBSET IDs
  <2> HIDE DEF src, eol, purge
  <2> QED  OBVIOUS
<1>2. n = Assume([m EXCEPT !.cur = IF @ > i THEN @ + 1 ELSE @, !.snaps = new], ok)
  BY Zenon DEF SnapClone
<1>3. IsClone(m.snaps, i, expired, new) /\ SameView(m.snaps[i], new[i])
      /\ new[i + 1].start = start /\ "start" \in DOMAIN new[i + 1]
  <2> DEFINE s == m.snaps
  <2>1. IsList(s) /\ i \in DOMAIN s /\ "start" \in DOMAIN s[i]
    BY DEF Starts
  <2>2. new = Written(s, i, expired, start, purge, a, b)
    BY DEF Written
  <2> HIDE DEF s, new, expired, purge, a, b
  <2>3. IsClone(s, i, expired, new) /\ SameView(s[i], new[i])
        /\ new[i + 1].start = start /\ "start" \in DOMAIN new[i + 1]
    BY <1>1, <2>1, <2>2, CloneWritten
  <2> QED  BY <2>3 DEF s
<1>4. start = src.start => expired = {}
  OBVIOUS
<1> HIDE DEF new, ok, expired
<1>5. /\ n.snaps = new /\ Rest(m, n) /\ n.tm = m.tm /\ n.trash = m.trash
      /\ n.cur = IF m.cur > i THEN m.cur + 1 ELSE m.cur
  BY <1>2 DEF Assume, ManagerFields, Rest
<1>6. IsCloned(m, i, n) /\ n.snaps[i + 1].start = start
  BY <1>1, <1>3, <1>5 DEF IsCloned
<1> QED  BY <1>3, <1>4, <1>5, <1>6

\* A clone leaves every frozen snapshot there.
LEMMA CloneStays ==
  ASSUME NEW s, IsList(s), Starts(s), NEW i \in DOMAIN s, NEW expired, NEW n,
         IsClone(s, i, expired, n), SameView(s[i], n[i]), "start" \in DOMAIN n[i + 1]
  PROVE  Starts(n) /\ FrozenStay(s, n)
<1>1. /\ Len(s) \in Nat /\ DOMAIN s = 1..Len(s) /\ i \in 1..Len(s)
      /\ \A k \in DOMAIN s : "start" \in DOMAIN s[k]
  BY Fields DEF Starts
<1>2. /\ DOMAIN n = 1..(Len(s) + 1) /\ \A k \in 1..(i - 1) : n[k] = s[k]
      /\ n[i].editable = s[i].editable
      /\ \A k \in (i + 2)..(Len(s) + 1) : n[k] = s[k - 1]
  BY DEF IsClone
<1>3. "start" \in DOMAIN n[i]
  BY <1>1 DEF SameView, SameRest
<1>4. Starts(n)
  <2> SUFFICES ASSUME NEW k \in 1..(Len(s) + 1) PROVE "start" \in DOMAIN n[k]
    BY <1>2 DEF Starts
  <2>1. k \in 1..(i - 1) \/ k = i \/ k = i + 1 \/ (k \in (i + 2)..(Len(s) + 1) /\ k - 1 \in DOMAIN s)
    BY <1>1
  <2> QED  BY <1>1, <1>2, <1>3, <2>1
<1>5. FrozenStay(s, n)
  <2> SUFFICES ASSUME NEW k \in DOMAIN s, ~s[k].editable
               PROVE  \E j \in DOMAIN n : ~n[j].editable /\ SameView(s[k], n[j])
    BY DEF FrozenStay
  <2>1. SameView(s[k], s[k])
    BY DEF SameView, SameRest
  <2>2. CASE k < i
    BY <1>1, <1>2, <2>1, <2>2
  <2>3. CASE k = i
    BY <1>1, <1>2, <2>3
  <2>4. CASE k > i
    <3>1. k + 1 \in (i + 2)..(Len(s) + 1) /\ (k + 1) - 1 = k
      BY <1>1, <2>4
    <3>2. n[k + 1] = s[k] /\ k + 1 \in DOMAIN n
      BY <1>1, <1>2, <3>1
    <3> QED  BY <2>1, <3>2
  <2> QED  BY <1>1, <2>2, <2>3, <2>4
<1> QED  BY <1>4, <1>5

\* mgr_snap_clone()
LEMMA CloneStep ==
  ASSUME NEW m, NEW X, Good(m, X), NEW i \in DOMAIN m.snaps, ~m.snaps[i].editable,
         NEW n, IsCloned(m, i, n)
  PROVE  Good(n, X) /\ Keeps(m, n)
<1> DEFINE s  == m.snaps
           ns == n.snaps
           l  == DOMAIN m.tm \ X
           tr == Uses(m.trash)
           h  == UsesAll(m.handed)
<1>1. PICK expired \in SUBSET IDs : IsClone(s, i, expired, ns)
  BY DEF IsCloned
<1>2. Rest(m, n) /\ n.tm = m.tm /\ n.trash = m.trash
  BY DEF IsCloned
<1>3. SameView(s[i], ns[i]) /\ "start" \in DOMAIN ns[i + 1]
  BY DEF IsCloned
<1>4. IsList(s) /\ Starts(s) /\ Sound(s, l, tr, h)
  BY GoodFacts
<1>5. i \in DOMAIN s /\ ~s[i].editable
  OBVIOUS
<1> HIDE DEF s, ns, l, tr, h
<1>6. Sound(ns, l, tr, h) /\ Refs(ns) = Refs(s)
  BY <1>1, <1>4, <1>5, CloneSound
<1>7. Starts(ns) /\ FrozenStay(s, ns)
  BY <1>1, <1>3, <1>4, <1>5, CloneStays
<1> QED  BY <1>2, <1>6, <1>7, StepRearranges DEF s, ns, l, tr, h

\* The search of mgr_snap_dflag_move() has a result.
LEMMA MoveTargetFound ==
  ASSUME NEW m, IsList(m.snaps), NEW i \in DOMAIN m.snaps, NEW id
  PROVE  IsMoveTarget(m.snaps, i, id, MoveTarget(m, i, id)) /\ MoveTarget(m, i, id) \in 0..(i - 1)
<1> DEFINE s == m.snaps
           S == OlderRefs(s, i, id)
<1>1. Len(s) \in Nat /\ i \in 1..Len(s) /\ i - 1 \in Nat /\ S \in SUBSET (1..(i - 1))
  BY Fields DEF OlderRefs
<1>2. \E j \in 0..(i - 1) : IsMoveTarget(s, i, id, j)
  <2>1. CASE s[i].recs[id].c \/ S = {}
    BY <1>1, <2>1 DEF IsMoveTarget
  <2>2. CASE ~s[i].recs[id].c /\ S # {}
    <3> HIDE DEF S, s
    <3>1. PICK j \in S : \A k \in S : k <= j
      BY <1>1, <2>2, Maximum
    <3>2. j \in 0..(i - 1)
      BY <1>1
    <3>3. IsMoveTarget(s, i, id, j)
      BY <2>2, <3>1 DEF IsMoveTarget, S
    <3> QED  BY <3>2, <3>3
  <2> QED  BY <2>1, <2>2
<1> QED  BY <1>2 DEF MoveTarget

\* Every snapshot starts when it did.
SameStarts(s, n) ==
  DOMAIN n = DOMAIN s /\ \A k \in DOMAIN s : "start" \in DOMAIN n[k] /\ n[k].start = s[k].start

IsRemoved(m, i, id, n) ==
  /\ Rest(m, n) /\ SameStarts(m.snaps, n.snaps)
  /\ \A k \in DOMAIN m.snaps : k # i => SameView(m.snaps[k], n.snaps[k])
  /\ \E j : LET r == m.snaps[i].recs[id]
            IN  /\ r.d => IsMoveTarget(m.snaps, i, id, j)
                /\ IsDrop(m.snaps, i, id, j, n.snaps)
                /\ ~r.d \/ j # 0 => n.tm = m.tm /\ n.trash = m.trash
                /\ r.d /\ j = 0 /\ r.c =>
                     n.tm = [u \in DOMAIN m.tm \ {r.t} |-> m.tm[u]] /\ n.trash = m.trash
                /\ r.d /\ j = 0 /\ ~r.c =>
                     /\ n.tm = m.tm
                     /\ n.trash = [own |-> m.trash.own \cup {r.t}, snaps |-> m.trash.snaps]

\* Times written to one snapshot, not its start.
LEMMA DatedStarts ==
  ASSUME NEW s, IsList(s), Starts(s), NEW i \in DOMAIN s, NEW c, DOMAIN c = DOMAIN s,
         \A k \in DOMAIN s : SameRest(s[k], c[k]),
         NEW n, IsDated(c, i, n), n[i].start = c[i].start
  PROVE  SameStarts(s, n)
<1> SUFFICES ASSUME NEW k \in DOMAIN s
             PROVE  "start" \in DOMAIN n[k] /\ n[k].start = s[k].start
  BY DEF SameStarts, IsDated
<1>1. "start" \in DOMAIN s[k] /\ SameRest(s[k], c[k])
  BY DEF Starts
<1>2. "start" \in DOMAIN c[k] /\ c[k].start = s[k].start
  BY <1>1 DEF SameRest
<1> QED  BY <1>2 DEF IsDated

\* The list after a record is removed.
Dropped(s, i, id, to, cond) ==
  [Tuple(DropRec(s, i, id, to)) EXCEPT ![i].enabled = @ /\ cond]

\* The list mgr_snap_template_remove() leaves.
LEMMA DroppedList ==
  ASSUME NEW s, IsList(s), Starts(s), NEW i \in DOMAIN s, NEW id \in IDs, NEW to,
         s[i].recs[id].d => to # i, NEW cond, NEW n, n = Dropped(s, i, id, to, cond)
  PROVE  /\ IsDrop(s, i, id, to, n) /\ SameStarts(s, n)
         /\ \A k \in DOMAIN s : k # i => SameView(s[k], n[k])
<1> DEFINE c == DropRec(s, i, id, to)
           y == c[i]
           x == [y EXCEPT !.enabled = @ /\ cond]
<1>1. /\ IsDrop(s, i, id, to, c) /\ SameRest(s[i], y)
      /\ \A k \in DOMAIN s : k # i => SameView(s[k], c[k])
  BY DropShape
<1> HIDE DEF c
<1>2. IsList(c) /\ Tuple(c) = c /\ DOMAIN c = DOMAIN s
  BY <1>1, TupleList DEF IsDrop
<1>3. n = [c EXCEPT ![i] = x]
  BY <1>2 DEF c, Dropped
<1>4. DOMAIN x = DOMAIN y /\ x.editable = y.editable /\ x.recs = y.recs /\ x.start = y.start
  OBVIOUS
<1> HIDE DEF x, y
<1>5. IsDated(c, i, n) /\ n[i] = x
  BY <1>2, <1>3, <1>4, DatedShape DEF y
<1>6. \A k \in DOMAIN s : SameRest(s[k], c[k])
  BY <1>1 DEF SameView, y
<1>7. SameStarts(s, n)
  BY <1>2, <1>4, <1>5, <1>6, DatedStarts DEF y
<1>8. \A k \in DOMAIN s : n[k].recs = c[k].recs /\ n[k].editable = c[k].editable
  BY <1>2, <1>5 DEF IsDated
<1>9. IsDrop(s, i, id, to, n)
  BY <1>1, <1>2, <1>5, <1>8 DEF IsDrop, IsDated
<1>10. \A k \in DOMAIN s : k # i => SameView(s[k], n[k])
  BY <1>1, <1>2, <1>5 DEF IsDated
<1> QED  BY <1>7, <1>9, <1>10

\* What mgr_snap_template_remove() changes.
LEMMA RemoveFields ==
  ASSUME NEW m, DOMAIN m = ManagerFields, IsList(m.snaps), Starts(m.snaps), IsGarbage(m.trash),
         NEW i \in DOMAIN m.snaps, NEW id \in IDs, NEW n, n = TemplateRemove(m, i, id)
  PROVE  IsRemoved(m, i, id, n) /\ n.cur = m.cur
<1> DEFINE s    == m.snaps
           r    == s[i].recs[id]
           to   == IF r.d THEN MoveTarget(m, i, id) ELSE 0
           cond == Cardinality({x \in IDs : Has(s[i], x)}) # 1
           ok   == s[i].editable
           new  == Dropped(s, i, id, to, cond)
           m1   == Assume([m EXCEPT !.snaps = new], ok)
<1>1. n = IF ~r.d \/ to # 0 THEN m1
          ELSE IF r.c THEN Destroy(m1, {r.t}) ELSE Discard(m1, {r.t}, {})
  BY DEF TemplateRemove, Dropped
<1>2. IsList(s) /\ Starts(s) /\ i \in DOMAIN s /\ i \in Nat
  BY Fields
<1>3. r.d => IsMoveTarget(s, i, id, to) /\ to # i
  BY <1>2, MoveTargetFound
<1>4. ~r.d => to = 0
  OBVIOUS
<1>5. /\ IsDrop(s, i, id, to, new) /\ SameStarts(s, new)
      /\ \A k \in DOMAIN s : k # i => SameView(s[k], new[k])
  <2> HIDE DEF s, to, cond
  <2> QED  BY <1>2, <1>3, DroppedList
<1> HIDE DEF new, ok, to, cond
<1>6. /\ DOMAIN m1 = DOMAIN m /\ m1.snaps = new /\ m1.now = m.now /\ m1.ies = m.ies
      /\ m1.handed = m.handed /\ m1.tm = m.tm /\ m1.trash = m.trash /\ m1.cur = m.cur
  BY DEF Assume, ManagerFields
<1>7. DOMAIN m1 = ManagerFields
  BY <1>6
<1> HIDE DEF m1
<1>8. CASE ~r.d \/ to # 0
  <2>1. n = m1
    BY <1>1, <1>8
  <2> HIDE DEF r
  <2> QED  BY <1>3, <1>5, <1>6, <1>8, <2>1 DEF IsRemoved, Rest, s, r
<1>9. CASE r.d /\ to = 0 /\ r.c
  <2>1. n = Destroy(m1, {r.t})
    BY <1>1, <1>9
  <2>2. /\ DOMAIN n = DOMAIN m1 /\ n.snaps = m1.snaps /\ n.now = m1.now /\ n.ies = m1.ies
        /\ n.handed = m1.handed /\ n.trash = m1.trash /\ n.cur = m1.cur
        /\ n.tm = [u \in DOMAIN m1.tm \ {r.t} |-> m1.tm[u]]
    BY <1>7, <2>1 DEF Destroy, ManagerFields
  <2> QED  BY <1>3, <1>5, <1>6, <1>9, <2>2 DEF IsRemoved, Rest, s, r
<1>10. CASE r.d /\ to = 0 /\ ~r.c
  <2>1. n = Discard(m1, {r.t}, {})
    BY <1>1, <1>10
  <2>2. /\ DOMAIN n = DOMAIN m1 /\ n.snaps = m1.snaps /\ n.now = m1.now /\ n.ies = m1.ies
        /\ n.handed = m1.handed /\ n.tm = m1.tm /\ n.cur = m1.cur
        /\ n.trash = [own |-> m1.trash.own \cup {r.t}, snaps |-> m1.trash.snaps]
    BY <1>7, <2>1 DEF Discard, ManagerFields
  <2> QED  BY <1>3, <1>5, <1>6, <1>10, <2>2 DEF IsRemoved, Rest, s, r
<1> QED  BY <1>8, <1>9, <1>10

\* Templates of the current IE manager stay so.
LEMMA CurrentSub ==
  ASSUME NEW tm, NEW T, NEW ies, Current(tm, T, ies), NEW n, NEW R, R \subseteq T,
         \A t \in R : n[t] = tm[t]
  PROVE  Current(n, R, ies)
BY DEF Current

\* mgr_snap_template_remove()
LEMMA RemoveStep ==
  ASSUME NEW m, NEW X, Good(m, X), NEW i \in DOMAIN m.snaps, m.snaps[i].editable,
         NEW id \in IDs, Has(m.snaps[i], id), NEW n, IsRemoved(m, i, id, n)
  PROVE  Good(n, X) /\ Keeps(m, n)
<1> DEFINE s  == m.snaps
           ns == n.snaps
           r  == s[i].recs[id]
           l  == DOMAIN m.tm \ X
           tr == Uses(m.trash)
           h  == UsesAll(m.handed)
<1>1. PICK j : /\ r.d => IsMoveTarget(s, i, id, j)
               /\ IsDrop(s, i, id, j, ns)
               /\ ~r.d \/ j # 0 => n.tm = m.tm /\ n.trash = m.trash
               /\ r.d /\ j = 0 /\ r.c =>
                    n.tm = [u \in DOMAIN m.tm \ {r.t} |-> m.tm[u]] /\ n.trash = m.trash
               /\ r.d /\ j = 0 /\ ~r.c =>
                    /\ n.tm = m.tm
                    /\ n.trash = [own |-> m.trash.own \cup {r.t}, snaps |-> m.trash.snaps]
  BY DEF IsRemoved
<1>2. /\ Rest(m, n) /\ SameStarts(s, ns)
      /\ \A k \in DOMAIN s : k # i => SameView(s[k], ns[k])
  BY DEF IsRemoved
<1>3. /\ IsList(s) /\ Starts(s) /\ Sound(s, l, tr, h) /\ X \subseteq DOMAIN m.tm
      /\ DOMAIN m.tm \subseteq Addrs /\ Refs(s) \subseteq l /\ IsGarbage(m.trash)
  BY GoodFacts
<1>4. Current(m.tm, Refs(s) \cup X, m.ies) /\ Good(m, X)
  BY GoodFacts
<1>5. i \in DOMAIN s /\ s[i].editable /\ Has(s[i], id) /\ r.d \in BOOLEAN /\ r.c \in BOOLEAN
  BY <1>3, Fields
<1>6. SeenRefs(m) \subseteq l /\ SeenRefs(m) \cap Unpropagated(s) = {}
  BY SeenIsLive
<1>7. UsesAll(m.handed) = h /\ Uses(m.trash) = tr /\ DOMAIN m.tm \ X = l
  OBVIOUS
<1> HIDE DEF s, ns, l, tr, h, r
<1>8. FrozenStay(s, ns) /\ Starts(ns)
  <2>1. DOMAIN ns = DOMAIN s /\ \A k \in DOMAIN s : ns[k].editable = s[k].editable
    BY <1>1 DEF IsDrop
  <2> QED  BY <1>2, <1>5, <2>1 DEF FrozenStay, Starts, SameStarts
<1>9. FrozenViews(m) \subseteq FrozenViews(n)
  BY <1>3, <1>8, ViewsStay DEF s, ns
<1>10. CASE ~r.d \/ j # 0
  <2>1. n.tm = m.tm /\ n.trash = m.trash
    BY <1>1, <1>10
  <2>2. s[i].recs[id].d => IsMoveTarget(s, i, id, j) /\ j # 0
    BY <1>1, <1>10 DEF r
  <2>3. Sound(ns, l, tr, h) /\ Refs(ns) = Refs(s)
    BY <1>1, <1>3, <1>5, <2>2, DropSound
  <2> QED  BY <1>2, <1>4, <1>7, <1>8, <2>1, <2>3, StepRearranges DEF s, ns
<1>11. CASE r.d /\ j = 0 /\ r.c
  <2> DEFINE t == r.t
             l2 == l \ {t}
  <2>1. n.tm = [u \in DOMAIN m.tm \ {t} |-> m.tm[u]] /\ n.trash = m.trash
    BY <1>1, <1>11
  <2>2. s[i].recs[id].d /\ s[i].recs[id].c /\ IsMoveTarget(s, i, id, 0) /\ IsDrop(s, i, id, 0, ns)
        /\ s[i].recs[id].t = t
    BY <1>1, <1>11 DEF r
  <2>3. Sound(ns, l2, tr, h) /\ Refs(ns) = Refs(s) \ {t} /\ t \in Unpropagated(s) \cap Refs(s)
    <3>1. i \in DOMAIN s /\ Has(s[i], id) /\ s[i].editable /\ Sound(s, l, tr, h)
      BY <1>3, <1>5
    <3> HIDE DEF t
    <3>2. /\ Sound(ns, l \ {s[i].recs[id].t}, tr, h)
          /\ Refs(ns) = Refs(s) \ {s[i].recs[id].t}
          /\ s[i].recs[id].t \in Unpropagated(s) \cap Refs(s)
      BY <2>2, <3>1, DropFreesSound
    <3> QED  BY <2>2, <3>2
  <2> HIDE DEF t
  <2>4. t \in l /\ t \notin X
    BY <1>3, <1>7, <2>3
  <2>5. DOMAIN n.tm = DOMAIN m.tm \ {t} /\ \A u \in DOMAIN m.tm \ {t} : n.tm[u] = m.tm[u]
    BY <2>1
  <2>6. DOMAIN n.tm \ X = l2 /\ X \subseteq DOMAIN n.tm /\ DOMAIN n.tm \subseteq Addrs
    BY <1>3, <1>7, <2>4, <2>5
  <2>7. Current(n.tm, Refs(ns) \cup X, m.ies)
    <3>1. Refs(ns) \cup X \subseteq Refs(s) \cup X /\ Refs(ns) \cup X \subseteq DOMAIN m.tm \ {t}
      BY <1>3, <1>7, <2>3, <2>4
    <3> QED  BY <1>4, <2>5, <3>1, CurrentSub
  <2>8. Good(n, X)
    BY <1>2, <1>3, <1>4, <1>7, <1>8, <2>1, <2>3, <2>6, <2>7, StepGood DEF ns
  <2>9. \A u \in SeenRefs(m) : n.tm[u] = m.tm[u]
    BY <1>6, <1>7, <2>3, <2>5
  <2>10. Keeps(m, n)
    BY <1>2, <1>9, <2>1, <2>9, StepKeeps DEF Rest
  <2> QED  BY <2>8, <2>10
<1>12. CASE r.d /\ j = 0 /\ ~r.c
  <2> DEFINE t == r.t
             tr2 == Uses(n.trash)
  <2>1. n.tm = m.tm /\ n.trash = [own |-> m.trash.own \cup {t}, snaps |-> m.trash.snaps]
    BY <1>1, <1>12
  <2>2. s[i].recs[id].d /\ IsMoveTarget(s, i, id, 0) /\ IsDrop(s, i, id, 0, ns)
        /\ s[i].recs[id].t = t
    BY <1>1, <1>12 DEF r
  <2> HIDE DEF t
  <2>3. /\ n.trash.own = m.trash.own \cup {t} /\ n.trash.snaps = m.trash.snaps
        /\ IsGarbage(n.trash)
    BY <2>1 DEF IsGarbage
  <2>4. /\ tr2 = [own |-> tr2.own, refs |-> tr2.refs]
        /\ tr2.own = tr.own \cup {t} /\ tr2.refs = tr.refs
    BY <1>7, <2>3, UsesFields DEF GarbageRefs
  <2> HIDE DEF tr2
  <2>5. Sound(ns, l, tr2, h) /\ Refs(ns) = Refs(s) \ {t}
    BY <1>1, <1>3, <1>5, <2>2, <2>4, DropDiscardsSound
  <2>6. Current(n.tm, Refs(ns) \cup X, m.ies)
    BY <1>4, <2>1, <2>5, CurrentSub
  <2>7. Good(n, X)
    BY <1>2, <1>3, <1>4, <1>7, <1>8, <2>1, <2>3, <2>5, <2>6, StepGood DEF ns, tr2
  <2>8. Keeps(m, n)
    BY <1>2, <1>9, <2>1, <2>3, StepKeeps DEF Rest
  <2> QED  BY <2>7, <2>8
<1> QED  BY <1>5, <1>10, <1>11, <1>12

IsAdded(m, i, id, rec, n) ==
  /\ Rest(m, n) /\ n.tm = m.tm /\ n.trash = m.trash /\ SameStarts(m.snaps, n.snaps)
  /\ \A k \in DOMAIN m.snaps : k # i => SameView(m.snaps[k], n.snaps[k])
  /\ IsSet(m.snaps, i, id, rec.t, n.snaps) /\ n.snaps[i].recs[id] = rec

\* The list after a record with a lifetime is added.
Outlived(c, i, minv) == [c EXCEPT ![i].enabled = TRUE, ![i].minv = minv]

\* The timer of a snapshot is no record of it.
LEMMA OutlivedShape ==
  ASSUME NEW c, IsList(c), NEW i \in DOMAIN c, NEW minv, NEW n, n = Outlived(c, i, minv)
  PROVE  IsDated(c, i, n) /\ n[i].start = c[i].start
<1> DEFINE y == c[i]
           x == [[y EXCEPT !.enabled = TRUE] EXCEPT !.minv = minv]
<1>1. n = [c EXCEPT ![i] = x]
  BY DEF Outlived
<1>2. DOMAIN x = DOMAIN y /\ x.editable = y.editable /\ x.recs = y.recs /\ x.start = y.start
  OBVIOUS
<1> HIDE DEF x
<1> QED  BY <1>1, <1>2, DatedShape

\* A record set, then the timer.
LEMMA SetThenDated ==
  ASSUME NEW s, IsList(s), NEW i \in DOMAIN s, NEW id, NEW t, NEW c, IsSet(s, i, id, t, c),
         NEW n, IsDated(c, i, n)
  PROVE  /\ IsSet(s, i, id, t, n) /\ n[i].recs = c[i].recs
         /\ \A k \in DOMAIN s : k # i => n[k] = c[k]
BY DEF IsSet, IsDated

\* The list mgr_snap_template_add_ref() leaves.
LEMMA AddedList ==
  ASSUME NEW s, IsList(s), Starts(s), NEW i \in DOMAIN s, NEW id \in IDs, NEW t \in Addrs,
         NEW c \in BOOLEAN, NEW d \in BOOLEAN, NEW y, y = Tuple(SetRec(s, i, id, t, c, d)),
         NEW n, n = y \/ (IsDated(y, i, n) /\ n[i].start = y[i].start)
  PROVE  /\ IsSet(s, i, id, t, n) /\ n[i].recs[id] = Rec(t, c, d) /\ SameStarts(s, n)
         /\ \A k \in DOMAIN s : k # i => SameView(s[k], n[k])
<1> DEFINE z == SetRec(s, i, id, t, c, d)
<1>1. IsSet(s, i, id, t, z) /\ SameRest(s[i], z[i]) /\ z[i].recs[id] = Rec(t, c, d)
  BY SetRecShape
<1> HIDE DEF z
<1>2. y = z
  BY <1>1, TupleList DEF z, IsSet
<1>3. IsList(z) /\ DOMAIN z = DOMAIN s /\ \A k \in DOMAIN s : k # i => z[k] = s[k]
  BY <1>1 DEF IsSet
<1>4. \A k \in DOMAIN s : SameRest(s[k], z[k])
  BY <1>1, <1>3 DEF SameRest
<1>5. IsDated(z, i, n) /\ n[i].start = z[i].start
  <2>1. IsDated(z, i, z)
    BY <1>3 DEF IsDated
  <2> QED  BY <1>2, <2>1
<1>6. /\ IsSet(s, i, id, t, n) /\ n[i].recs = z[i].recs
      /\ \A k \in DOMAIN s : k # i => n[k] = z[k]
  BY <1>1, <1>5, SetThenDated
<1>7. SameStarts(s, n)
  BY <1>3, <1>4, <1>5, DatedStarts
<1>8. \A k \in DOMAIN s : k # i => SameView(s[k], n[k])
  BY <1>3, <1>6 DEF SameView, SameRest
<1> QED  BY <1>1, <1>6, <1>7, <1>8

\* What mgr_snap_template_add_ref() changes.
LEMMA AddRefFields ==
  ASSUME NEW m, DOMAIN m = ManagerFields, IsList(m.snaps), Starts(m.snaps),
         NEW i \in DOMAIN m.snaps, NEW id \in IDs, NEW t \in Addrs,
         NEW c \in BOOLEAN, NEW d \in BOOLEAN, NEW n, n = AddRef(m, i, id, t, c, d)
  PROVE  IsAdded(m, i, id, Rec(t, c, d), n) /\ n.cur = m.cur
<1> DEFINE s       == m.snaps
           invalid == Plus(m.tm[t].eol, 1)
           minv    == IF s[i].enabled /\ ~LT(invalid, s[i].minv) THEN s[i].minv ELSE invalid
           y       == Tuple(SetRec(s, i, id, t, c, d))
           ok      == ~Has(s[i], id)
           ok2     == LT(m.tm[t].last, m.tm[t].eol) /\ LT(s[i].start, minv)
           m1      == Assume([m EXCEPT !.snaps = y], ok)
           m2      == [m1 EXCEPT !.snaps[i].enabled = TRUE, !.snaps[i].minv = minv]
           out     == TimesOut(m.tm[t])
<1>1. n = IF out THEN Assume(m2, ok2) ELSE m1
  BY DEF AddRef
<1> HIDE DEF ok, ok2, y, minv, out
<1>2. /\ DOMAIN m1 = DOMAIN m /\ m1.snaps = y /\ m1.now = m.now /\ m1.ies = m.ies
      /\ m1.handed = m.handed /\ m1.tm = m.tm /\ m1.trash = m.trash /\ m1.cur = m.cur
  BY DEF Assume, ManagerFields
<1> HIDE DEF m1
<1>3. /\ DOMAIN m2 = DOMAIN m1 /\ m2.snaps = Outlived(y, i, minv) /\ m2.now = m1.now
      /\ m2.ies = m1.ies /\ m2.handed = m1.handed /\ m2.tm = m1.tm /\ m2.trash = m1.trash
      /\ m2.cur = m1.cur
  BY <1>2 DEF ManagerFields, Outlived
<1> HIDE DEF m2
<1>4. /\ Rest(m, n) /\ n.tm = m.tm /\ n.trash = m.trash /\ n.cur = m.cur
      /\ n.snaps = y \/ n.snaps = Outlived(y, i, minv)
  BY <1>1, <1>2, <1>3 DEF Assume, ManagerFields, Rest
<1>5. IsList(y) /\ i \in DOMAIN y
  <2>1. IsSet(s, i, id, t, SetRec(s, i, id, t, c, d))
    BY SetRecShape
  <2> QED  BY <2>1, TupleList DEF IsSet, y
<1>6. n.snaps = y \/ (IsDated(y, i, n.snaps) /\ n.snaps[i].start = y[i].start)
  BY <1>4, <1>5, OutlivedShape
<1>7. /\ IsSet(s, i, id, t, n.snaps) /\ n.snaps[i].recs[id] = Rec(t, c, d)
      /\ SameStarts(s, n.snaps) /\ \A k \in DOMAIN s : k # i => SameView(s[k], n.snaps[k])
  BY <1>6, AddedList DEF y
<1>8. Rec(t, c, d).t = t
  BY DEF Rec
<1> QED  BY <1>4, <1>7, <1>8 DEF IsAdded

\* A new template enters the list.
\* ... and the new record is the owner of template t.
IsOwnerAdded(m, i, id, t, n) ==
  /\ Rest(m, n) /\ n.tm = m.tm /\ n.trash = m.trash /\ SameStarts(m.snaps, n.snaps)
  /\ \A k \in DOMAIN m.snaps : k # i => SameView(m.snaps[k], n.snaps[k])
  /\ IsSet(m.snaps, i, id, t, n.snaps) /\ n.snaps[i].recs[id].d

\* A reference that owns its template.
LEMMA AddedByOwner ==
  ASSUME NEW m, NEW i, NEW id, NEW rec, NEW n, IsAdded(m, i, id, rec, n), rec.d
  PROVE  IsOwnerAdded(m, i, id, rec.t, n)
BY Zenon DEF IsAdded, IsOwnerAdded

\* A template that was allocated gets into the list.
LEMMA AddStep ==
  ASSUME NEW m, NEW X, Good(m, X), NEW i \in DOMAIN m.snaps, m.snaps[i].editable,
         NEW id \in IDs, ~Has(m.snaps[i], id), NEW t \in X,
         NEW n, IsOwnerAdded(m, i, id, t, n)
  PROVE  Good(n, X \ {t}) /\ Keeps(m, n)
<1> DEFINE s  == m.snaps
           ns == n.snaps
           l  == DOMAIN m.tm \ X
           l2 == l \cup {t}
           tr == Uses(m.trash)
           h  == UsesAll(m.handed)
<1>1. /\ Rest(m, n) /\ n.tm = m.tm /\ n.trash = m.trash /\ SameStarts(s, ns)
      /\ \A k \in DOMAIN s : k # i => SameView(s[k], ns[k])
  BY DEF IsOwnerAdded
<1>2. IsSet(s, i, id, t, ns) /\ ns[i].recs[id].d
  BY DEF IsOwnerAdded
<1>3. /\ IsList(s) /\ Starts(s) /\ Sound(s, l, tr, h) /\ X \subseteq DOMAIN m.tm
      /\ DOMAIN m.tm \subseteq Addrs /\ IsGarbage(m.trash)
  BY GoodFacts
<1>4. Current(m.tm, Refs(s) \cup X, m.ies) /\ Good(m, X)
  BY GoodFacts
<1>5. i \in DOMAIN s /\ s[i].editable /\ ~Has(s[i], id) /\ t \in Addrs /\ t \notin l
  BY <1>3
<1>6. UsesAll(m.handed) = h /\ Uses(m.trash) = tr /\ DOMAIN m.tm \ (X \ {t}) = l2
  BY <1>3
<1>7. X \ {t} \subseteq DOMAIN n.tm /\ DOMAIN n.tm \subseteq Addrs
  BY <1>1, <1>3
<1> HIDE DEF s, ns, l, tr, h
<1>8. FrozenStay(s, ns) /\ Starts(ns)
  <2>1. DOMAIN ns = DOMAIN s /\ \A k \in DOMAIN s : ns[k].editable = s[k].editable
    BY <1>2 DEF IsSet
  <2> QED  BY <1>1, <1>5, <2>1 DEF FrozenStay, Starts, SameStarts
<1>9. FrozenViews(m) \subseteq FrozenViews(n)
  BY <1>3, <1>8, ViewsStay DEF s, ns
<1>10. Sound(ns, l2, tr, h) /\ Refs(ns) = Refs(s) \cup {t}
  <2>1. IsSet(s, i, id, t, ns) /\ ns[i].recs[id].d
    BY <1>2
  <2>2. /\ IsList(s) /\ Sound(s, l, tr, h) /\ i \in DOMAIN s /\ s[i].editable
        /\ ~Has(s[i], id) /\ t \in Addrs /\ t \notin l
    BY <1>3, <1>5
  <2> HIDE <1>2, <1>3, <1>5
  <2>3. Sound(ns, l \cup {t}, tr, h)
    BY <2>1, <2>2, AddSound
  <2>4. ListInv(s) /\ t \notin Refs(s)
    BY <2>2 DEF Sound, GarbageInv
  <2>5. Refs(ns) = Refs(s) \cup {t}
    BY <2>1, <2>2, <2>4, AddInv
  <2> QED  BY <2>3, <2>5
<1>11. Current(n.tm, Refs(ns) \cup (X \ {t}), m.ies)
  <2>1. Refs(ns) \cup (X \ {t}) \subseteq Refs(s) \cup X
    BY <1>10
  <2> QED  BY <1>1, <1>4, <2>1, CurrentSub
<1> HIDE DEF l2
<1>12. Good(n, X \ {t})
  BY <1>1, <1>3, <1>4, <1>6, <1>7, <1>8, <1>10, <1>11, StepGood DEF ns
<1>13. Keeps(m, n)
  BY <1>1, <1>9, StepKeeps DEF Rest
<1> QED  BY <1>12, <1>13

\* A template is carried to newer snapshots, the newest of them owns it.
IsCarried(m, i, id, J, top, n) ==
  /\ Rest(m, n) /\ n.tm = m.tm /\ n.trash = m.trash
  /\ IsSpread(m.snaps, i, id, J, top, n.snaps) /\ SameStarts(m.snaps, n.snaps)
  /\ \A k \in DOMAIN m.snaps : k \notin J => SameView(m.snaps[k], n.snaps[k])

\* A template gets to more snapshots, and the newest of them owns it.
LEMMA CarryStep ==
  ASSUME NEW m, NEW X, Good(m, X), NEW i \in DOMAIN m.snaps, NEW id \in IDs,
         m.snaps[i].recs[id].d, ~(m.snaps[i].editable /\ m.snaps[i].recs[id].c),
         NEW J \in SUBSET DOMAIN m.snaps,
         \A j \in J : j > i /\ ~Has(m.snaps[j], id) /\ m.snaps[j].editable,
         NEW top \in J, \A j \in J : j <= top, NEW n, IsCarried(m, i, id, J, top, n)
  PROVE  Good(n, X) /\ Keeps(m, n)
<1> DEFINE s  == m.snaps
           ns == n.snaps
           l  == DOMAIN m.tm \ X
           tr == Uses(m.trash)
           h  == UsesAll(m.handed)
<1>1. /\ Rest(m, n) /\ n.tm = m.tm /\ n.trash = m.trash /\ SameStarts(s, ns)
      /\ \A k \in DOMAIN s : k \notin J => SameView(s[k], ns[k])
  BY DEF IsCarried
<1>2. IsSpread(s, i, id, J, top, ns)
  BY DEF IsCarried
<1>3. IsList(s) /\ Starts(s) /\ Sound(s, l, tr, h)
  BY GoodFacts
<1>4. /\ i \in DOMAIN s /\ s[i].recs[id].d /\ ~(s[i].editable /\ s[i].recs[id].c)
      /\ J \in SUBSET DOMAIN s /\ \A j \in J : j > i /\ ~Has(s[j], id)
  OBVIOUS
<1>5. \A j \in J : s[j].editable
  OBVIOUS
<1> HIDE DEF s, ns, l, tr, h
<1>6. Sound(ns, l, tr, h) /\ Refs(ns) = Refs(s)
  BY <1>2, <1>3, <1>4, SpreadSound
<1>7. FrozenStay(s, ns) /\ Starts(ns)
  <2>1. DOMAIN ns = DOMAIN s /\ \A k \in DOMAIN s : ns[k].editable = s[k].editable
    BY <1>2 DEF IsSpread
  <2> QED  BY <1>1, <1>5, <2>1 DEF FrozenStay, Starts, SameStarts
<1> QED  BY <1>1, <1>6, <1>7, StepRearranges DEF s, ns, l, tr, h

\* mgr_snap_freeze() of one snapshot, before the callbacks.
Freeze(m, i) == [m EXCEPT !.snaps[i].editable = FALSE]

\* What freezing one snapshot changes.
LEMMA FreezeFields ==
  ASSUME NEW m, DOMAIN m = ManagerFields, IsList(m.snaps), Starts(m.snaps),
         NEW i \in DOMAIN m.snaps, NEW n, n = Freeze(m, i)
  PROVE  /\ Rest(m, n) /\ n.tm = m.tm /\ n.trash = m.trash /\ n.cur = m.cur
         /\ IsFreeze(m.snaps, n.snaps) /\ ~n.snaps[i].editable /\ SameStarts(m.snaps, n.snaps)
         /\ \A k \in DOMAIN m.snaps : SameView(m.snaps[k], n.snaps[k])
         /\ \A k \in DOMAIN m.snaps : k # i => n.snaps[k] = m.snaps[k]
<1> DEFINE s == m.snaps
           new == [s EXCEPT ![i].editable = FALSE]
<1>1. /\ IsFreeze(s, new) /\ ~new[i].editable
      /\ \A k \in DOMAIN s : SameView(s[k], new[k]) /\ (k # i => new[k] = s[k])
  <2>1. new = [s EXCEPT ![i].editable = FALSE] /\ IsList(s) /\ i \in DOMAIN s
    OBVIOUS
  <2> HIDE DEF s, new
  <2> QED  BY <2>1, FreezeShape
<1>2. /\ Rest(m, n) /\ n.tm = m.tm /\ n.trash = m.trash /\ n.cur = m.cur /\ n.snaps = new
  BY DEF Freeze, ManagerFields, Rest
<1> HIDE DEF new
<1>3. SameStarts(s, new)
  BY <1>1 DEF SameStarts, SameView, SameRest, Starts, IsFreeze
<1> QED  BY <1>1, <1>2, <1>3

\* The editable flag is cleared.
LEMMA FreezeStep ==
  ASSUME NEW m, NEW X, Good(m, X), NEW i \in DOMAIN m.snaps, NEW n, n = Freeze(m, i)
  PROVE  Good(n, X) /\ Keeps(m, n)
<1> DEFINE s  == m.snaps
           ns == n.snaps
           l  == DOMAIN m.tm \ X
           tr == Uses(m.trash)
           h  == UsesAll(m.handed)
<1>1. DOMAIN m = ManagerFields /\ IsList(s) /\ Starts(s) /\ Sound(s, l, tr, h)
  BY GoodFacts
<1>2. /\ Rest(m, n) /\ n.tm = m.tm /\ n.trash = m.trash /\ SameStarts(s, ns)
      /\ \A k \in DOMAIN s : SameView(s[k], ns[k])
  BY <1>1, FreezeFields
<1>3. IsFreeze(s, ns) /\ \A k \in DOMAIN s : k # i => ns[k] = s[k]
  BY <1>1, FreezeFields
<1>4. ~ns[i].editable
  BY <1>1, FreezeFields
<1> HIDE DEF s, ns, l, tr, h
<1>5. Sound(ns, l, tr, h) /\ Refs(ns) = Refs(s)
  BY <1>1, <1>3, FreezeSound
<1>6. FrozenStay(s, ns) /\ Starts(ns)
  <2>1. DOMAIN ns = DOMAIN s /\ \A k \in DOMAIN s : ~s[k].editable => ~ns[k].editable
    BY <1>3 DEF IsFreeze
  <2> QED  BY <1>2, <2>1 DEF FrozenStay, Starts, SameStarts
<1> QED  BY <1>2, <1>5, <1>6, StepRearranges DEF s, ns, l, tr, h

-----------------------------------------------------------------------------
(* Snapshots that go to the garbage. *)

\* Templates "own" and snapshots "views" go to the garbage.
LEMMA DiscardStep ==
  ASSUME NEW m, NEW X, Good(m, X), NEW n, Rest(m, n), n.tm = m.tm,
         IsGarbage(n.trash), m.trash.snaps \subseteq n.trash.snaps,
         Sound(n.snaps, DOMAIN m.tm \ X, Uses(n.trash), UsesAll(m.handed)),
         Starts(n.snaps), Refs(n.snaps) \subseteq Refs(m.snaps),
         FrozenViews(m) \subseteq FrozenViews(n) \cup n.trash.snaps
  PROVE  Good(n, X) /\ Keeps(m, n)
<1>1. X \subseteq DOMAIN m.tm /\ DOMAIN m.tm \subseteq Addrs
  BY GoodFacts
<1>2. Current(m.tm, Refs(m.snaps) \cup X, m.ies)
  BY GoodFacts
<1>3. Refs(n.snaps) \cup X \subseteq Refs(m.snaps) \cup X
  OBVIOUS
<1>4. Current(n.tm, Refs(n.snaps) \cup X, m.ies)
  BY <1>2, <1>3, CurrentSub
<1>5. Good(n, X)
  BY <1>1, <1>4, StepGood
<1>6. Keeps(m, n)
  BY StepKeeps DEF Rest
<1> QED  BY <1>5, <1>6

\* Garbage that grew.
IsGrown(old, own, views, g) ==
  g = [own |-> old.own \cup own, snaps |-> old.snaps \cup views]

\* Such garbage owns and refers to that much more.
LEMMA DiscardUses ==
  ASSUME NEW old, NEW own, NEW views, NEW g, IsGrown(old, own, views, g)
  PROVE  /\ IsGarbage(g) /\ old.snaps \subseteq g.snaps /\ views \subseteq g.snaps
         /\ Uses(g) = [own |-> Uses(g).own, refs |-> Uses(g).refs]
         /\ Uses(g).own = Uses(old).own \cup own
         /\ Uses(g).refs = Uses(old).refs \cup RefsOfViews(views)
<1>1. g.own = old.own \cup own /\ g.snaps = old.snaps \cup views
  BY DEF IsGrown
<1>2. g.snaps = old.snaps \cup views
  BY DEF IsGrown
<1>3. IsGarbage(g)
  BY DEF IsGarbage, IsGrown
<1>4. GarbageRefs(g) = GarbageRefs(old) \cup RefsOfViews(views)
  BY <1>2, GarbageRefsAdd
<1>5. /\ Uses(g).own = g.own /\ Uses(g).refs = GarbageRefs(g)
      /\ Uses(g) = [own |-> Uses(g).own, refs |-> Uses(g).refs]
      /\ Uses(old).own = old.own /\ Uses(old).refs = GarbageRefs(old)
  BY UsesFields
<1> QED  BY <1>1, <1>3, <1>4, <1>5

\* Frozen snapshots that look the same afterwards or are in the garbage.
FrozenStayOr(s, n, S) ==
  \A k \in DOMAIN s : ~s[k].editable =>
    View(s[k]) \in S \/ \E j \in DOMAIN n : ~n[j].editable /\ SameView(s[k], n[j])

\* Then every frozen view is left in the list or in S.
LEMMA ViewsStayOr ==
  ASSUME NEW m, NEW n, NEW S, IsList(m.snaps), Starts(m.snaps),
         FrozenStayOr(m.snaps, n.snaps, S)
  PROVE  FrozenViews(m) \subseteq FrozenViews(n) \cup S
<1> SUFFICES ASSUME NEW v \in FrozenViews(m), v \notin S
             PROVE  v \in FrozenViews(n)
  OBVIOUS
<1>1. PICK k \in DOMAIN m.snaps : ~m.snaps[k].editable /\ v = View(m.snaps[k])
  BY DEF FrozenViews
<1>2. PICK j \in DOMAIN n.snaps : ~n.snaps[j].editable /\ SameView(m.snaps[k], n.snaps[j])
  BY <1>1 DEF FrozenStayOr
<1>3. View(n.snaps[j]) = View(m.snaps[k])
  BY <1>2, SameViewView, Fields DEF Starts
<1> QED  BY <1>1, <1>2, <1>3 DEF FrozenViews

\* The templates of one view.
LEMMA RefsOfOneView ==
  ASSUME NEW x
  PROVE  RefsOfViews({View(x)}) = RefsOf(x)
<1>1. \A t : t \in RefsOfViews({View(x)}) <=> t \in ViewRefs(View(x))
  BY InRefsOfViews
<1> QED  BY <1>1, ViewRefsOf

\* mgr_snap_remove()
IsUnlinked(m, i, to, n) ==
  /\ \A x \in IDs : to[x] \in Nat
  /\ \A x \in IDs : m.snaps[i].recs[x].d => IsMoveTarget(m.snaps, i, x, to[x])
  /\ Rest(m, n) /\ n.tm = m.tm /\ n.snaps = Tuple(Unlink(m.snaps, i, to))
  /\ n.trash = [own |-> m.trash.own \cup LeaveWith(m.snaps, i, to),
                snaps |-> m.trash.snaps \cup {View(m.snaps[i])}]

\* What mgr_snap_remove() changes.
LEMMA UnlinkFields ==
  ASSUME NEW m, DOMAIN m = ManagerFields, IsList(m.snaps), NEW i \in DOMAIN m.snaps,
         NEW n, n = SnapRemove(m, i)
  PROVE  \E to : IsUnlinked(m, i, to, n)
<1> DEFINE s    == m.snaps
           to   == [id \in IDs |-> IF s[i].recs[id].d THEN MoveTarget(m, i, id) ELSE 0]
           new  == Tuple(Unlink(s, i, to))
           own  == LeaveWith(s, i, to)
           view == View(s[i])
           m1   == [m EXCEPT !.snaps = new,
                             !.cur = IF @ = i THEN 0 ELSE IF @ > i THEN @ - 1 ELSE @]
<1>1. n = Discard(m1, own, {view})
  BY DEF SnapRemove
<1>2. i \in Nat /\ \A x \in IDs : IsMoveTarget(s, i, x, MoveTarget(m, i, x)) /\ MoveTarget(m, i, x) \in Nat
  BY MoveTargetFound, Fields
<1>3. /\ \A x \in IDs : to[x] \in Nat
      /\ \A x \in IDs : s[i].recs[x].d => IsMoveTarget(s, i, x, to[x])
  <2> HIDE DEF s
  <2> QED  BY <1>2
<1> HIDE DEF new, own, view, to
<1>4. /\ Rest(m, n) /\ n.tm = m.tm /\ n.snaps = new
      /\ n.trash = [own |-> m.trash.own \cup own, snaps |-> m.trash.snaps \cup {view}]
  <2>1. /\ DOMAIN m1 = ManagerFields /\ m1.snaps = new /\ m1.now = m.now /\ m1.ies = m.ies
        /\ m1.handed = m.handed /\ m1.tm = m.tm /\ m1.trash = m.trash
    BY DEF ManagerFields
  <2> HIDE DEF m1
  <2> QED  BY <1>1, <2>1 DEF Discard, ManagerFields, Rest
<1>5. IsUnlinked(m, i, to, n)
  BY <1>3, <1>4 DEF new, own, view, IsUnlinked
<1> QED  BY <1>5

\* mgr_snap_remove()
LEMMA UnlinkStep ==
  ASSUME NEW m, NEW X, Good(m, X), NEW i \in DOMAIN m.snaps, NEW n, n = SnapRemove(m, i)
  PROVE  /\ Good(n, X) /\ Keeps(m, n) /\ Rest(m, n)
         /\ DOMAIN n.snaps = 1..(Len(m.snaps) - 1)
<1> DEFINE s  == m.snaps
           ns == n.snaps
           l  == DOMAIN m.tm \ X
           tr == Uses(m.trash)
           tr2 == Uses(n.trash)
           h  == UsesAll(m.handed)
<1>1. DOMAIN m = ManagerFields /\ IsList(s) /\ Starts(s) /\ Sound(s, l, tr, h)
  BY GoodFacts
<1>2. PICK to : IsUnlinked(m, i, to, n)
  BY <1>1, UnlinkFields
<1>3. /\ \A x \in IDs : to[x] \in Nat
      /\ \A x \in IDs : s[i].recs[x].d => IsMoveTarget(s, i, x, to[x])
      /\ Rest(m, n) /\ n.tm = m.tm /\ ns = Tuple(Unlink(s, i, to))
      /\ n.trash = [own |-> m.trash.own \cup LeaveWith(s, i, to),
                    snaps |-> m.trash.snaps \cup {View(s[i])}]
  BY <1>2 DEF IsUnlinked
<1> DEFINE own == LeaveWith(s, i, to)
           views == {View(s[i])}
           u == Unlink(s, i, to)
<1>4. /\ IsGarbage(n.trash) /\ m.trash.snaps \subseteq n.trash.snaps /\ views \subseteq n.trash.snaps
      /\ tr2 = [own |-> tr2.own, refs |-> tr2.refs]
      /\ tr2.own = tr.own \cup own /\ tr2.refs = tr.refs \cup RefsOfViews(views)
  <2> DEFINE old == m.trash
             g == n.trash
  <2> HIDE DEF own, views
  <2>1. IsGrown(old, own, views, g)
    BY <1>3 DEF own, views, IsGrown
  <2> HIDE DEF old, g
  <2>2. /\ IsGarbage(g) /\ old.snaps \subseteq g.snaps /\ views \subseteq g.snaps
        /\ Uses(g) = [own |-> Uses(g).own, refs |-> Uses(g).refs]
        /\ Uses(g).own = Uses(old).own \cup own
        /\ Uses(g).refs = Uses(old).refs \cup RefsOfViews(views)
    BY <2>1, DiscardUses
  <2> QED  BY <2>2 DEF old, g
<1>5. RefsOfViews(views) = RefsOf(s[i])
  BY RefsOfOneView
<1>6. i \in DOMAIN s
  OBVIOUS
<1>7. View(s[i]) \in n.trash.snaps
  BY <1>4
<1> HIDE DEF s, ns, l, tr, h, tr2, own, views, u
<1>8. \A x \in IDs : to[x] \in Nat
  BY <1>3
<1>9. \A x \in IDs : s[i].recs[x].d => IsMoveTarget(s, i, x, to[x])
  BY <1>3
<1>10. /\ tr2 = [own |-> tr2.own, refs |-> tr2.refs]
      /\ tr2.own = tr.own \cup LeaveWith(s, i, to) /\ tr2.refs = tr.refs \cup RefsOf(s[i])
  BY <1>4, <1>5 DEF own
<1>11. u = Unlink(s, i, to)
  BY DEF u
<1>12. /\ Sound(u, l, tr2, h) /\ Refs(u) \subseteq Refs(s) /\ DOMAIN u = 1..(Len(s) - 1)
       /\ \A k \in DOMAIN u : \E j \in DOMAIN s : SameRest(s[j], u[k])
       /\ \A k \in DOMAIN s : k # i => \E j \in DOMAIN u :
            u[j].editable = s[k].editable /\ SameView(s[k], u[j])
  BY <1>1, <1>6, <1>8, <1>9, <1>10, <1>11, UnlinkSound
<1>13. ns = u
  BY <1>3, <1>11, <1>12, TupleList DEF Sound
<1>14. Starts(ns)
  BY <1>1, <1>12, <1>13 DEF Starts, SameRest
<1>15. FrozenStayOr(s, ns, n.trash.snaps)
  BY <1>7, <1>12, <1>13 DEF FrozenStayOr
<1>16. FrozenViews(m) \subseteq FrozenViews(n) \cup n.trash.snaps
  BY <1>1, <1>15, ViewsStayOr DEF s, ns
<1>17. Good(n, X) /\ Keeps(m, n)
  BY <1>3, <1>4, <1>12, <1>13, <1>14, <1>16, DiscardStep DEF s, ns, l, tr2, h
<1> QED  BY <1>3, <1>12, <1>13, <1>17 DEF s, ns

\* Snapshots S of the list, as a list, and what they take along.
Slice(s, S) == [k \in S |-> s[k]]
OwnedIn(s, S) == UNION {OwnedBy(s[k]) : k \in S}
ViewsIn(s, S) == {View(s[k]) : k \in S}

\* What such a part of a list owns and refers to.
LEMMA SliceFacts ==
  ASSUME NEW s, NEW S, NEW n, n = Slice(s, S)
  PROVE  /\ DOMAIN n = S /\ \A k \in S : n[k] = s[k]
         /\ Owned(n) = OwnedIn(s, S) /\ Refs(n) = RefsOfViews(ViewsIn(s, S))
<1>1. DOMAIN n = S /\ \A k \in S : n[k] = s[k]
  BY DEF Slice
<1>2. {OwnedBy(n[k]) : k \in DOMAIN n} = {OwnedBy(s[k]) : k \in S}
  BY <1>1
<1>3. Owned(n) = OwnedIn(s, S)
  BY <1>2 DEF Owned, OwnedIn
<1>4. \A t : t \in Refs(n) <=> t \in RefsOfViews(ViewsIn(s, S))
  <2>1. \A t : t \in Refs(n) <=> \E k \in S : t \in RefsOf(s[k])
    BY <1>1 DEF Refs
  <2>2. \A t : t \in RefsOfViews(ViewsIn(s, S)) <=> \E k \in S : t \in ViewRefs(View(s[k]))
    BY InRefsOfViews DEF ViewsIn
  <2> QED  BY <2>1, <2>2, ViewRefsOf
<1> QED  BY <1>1, <1>3, <1>4

\* What discarding snapshots S changes.
LEMMA DiscardListFields ==
  ASSUME NEW m, DOMAIN m = ManagerFields, NEW S, NEW n, n = DiscardList(m, S)
  PROVE  /\ DOMAIN n = DOMAIN m /\ n.snaps = m.snaps /\ n.now = m.now /\ n.ies = m.ies
         /\ n.handed = m.handed /\ n.tm = m.tm /\ n.session = m.session
         /\ IsGrown(m.trash, OwnedIn(m.snaps, S), ViewsIn(m.snaps, S), n.trash)
<1>1. n = Discard(m, OwnedIn(m.snaps, S), ViewsIn(m.snaps, S))
  BY DEF DiscardList, OwnedIn, ViewsIn
<1> DEFINE own == OwnedIn(m.snaps, S)
           views == ViewsIn(m.snaps, S)
<1>2. n = Discard(m, own, views)
  BY <1>1
<1> HIDE DEF own, views
<1>3. /\ DOMAIN n = DOMAIN m /\ n.snaps = m.snaps /\ n.now = m.now /\ n.ies = m.ies
      /\ n.handed = m.handed /\ n.tm = m.tm /\ n.session = m.session
      /\ IsGrown(m.trash, own, views, n.trash)
  BY <1>2 DEF Discard, ManagerFields, IsGrown
<1> QED  BY <1>3 DEF own, views

\* What is left of the list when snapshots S go; g is the garbage then.
LEMMA GrownFacts ==
  ASSUME NEW m, NEW X, Good(m, X), NEW S, NEW g,
         IsGrown(m.trash, OwnedIn(m.snaps, S), ViewsIn(m.snaps, S), g)
  PROVE  /\ IsGarbage(g) /\ m.trash.snaps \subseteq g.snaps
         /\ \A k \in S : View(m.snaps[k]) \in g.snaps
         /\ Uses(g) = [own |-> Uses(g).own, refs |-> Uses(g).refs]
         /\ Uses(g).own = Uses(m.trash).own \cup Owned(Slice(m.snaps, S))
         /\ Uses(g).refs = Uses(m.trash).refs \cup Refs(Slice(m.snaps, S))
<1> DEFINE own == OwnedIn(m.snaps, S)
           views == ViewsIn(m.snaps, S)
           old == m.trash
<1>1. IsGrown(old, own, views, g)
  OBVIOUS
<1>2. \A k \in S : View(m.snaps[k]) \in views
  BY DEF ViewsIn
<1>3. Owned(Slice(m.snaps, S)) = own /\ Refs(Slice(m.snaps, S)) = RefsOfViews(views)
  BY SliceFacts
<1> HIDE DEF own, views, old
<1>4. /\ IsGarbage(g) /\ old.snaps \subseteq g.snaps /\ views \subseteq g.snaps
      /\ Uses(g) = [own |-> Uses(g).own, refs |-> Uses(g).refs]
      /\ Uses(g).own = Uses(old).own \cup own
      /\ Uses(g).refs = Uses(old).refs \cup RefsOfViews(views)
  BY <1>1, DiscardUses
<1> QED  BY <1>2, <1>3, <1>4 DEF old

\* mgr_cleanup() of a session without history.
KeepNewest(m) ==
  [DiscardList(m, 1..(Newest(m) - 1)) EXCEPT !.snaps = <<m.snaps[Newest(m)]>>, !.cur = 0]

\* mgr_cleanup() without history.
LEMMA KeepNewestStep ==
  ASSUME NEW m, NEW X, Good(m, X), m.snaps # <<>>, NEW n, n = KeepNewest(m)
  PROVE  Good(n, X) /\ Keeps(m, n) /\ Rest(m, n) /\ n.cur = 0
<1> DEFINE s  == m.snaps
           ns == n.snaps
           l  == DOMAIN m.tm \ X
           tr == Uses(m.trash)
           tr2 == Uses(n.trash)
           h  == UsesAll(m.handed)
           S == 1..(Len(s) - 1)
           older == Slice(s, S)
           d == DiscardList(m, S)
<1>1. DOMAIN m = ManagerFields /\ IsList(s) /\ Starts(s) /\ Sound(s, l, tr, h) /\ s # <<>>
  BY GoodFacts
<1>2. n = [d EXCEPT !.snaps = <<s[Len(s)]>>, !.cur = 0]
  BY DEF KeepNewest, Newest
<1>3. /\ DOMAIN d = DOMAIN m /\ d.snaps = m.snaps /\ d.now = m.now /\ d.ies = m.ies
      /\ d.handed = m.handed /\ d.tm = m.tm /\ IsGrown(m.trash, OwnedIn(s, S), ViewsIn(s, S), d.trash)
  <2> HIDE DEF d, S
  <2> QED  BY <1>1, DiscardListFields DEF d
<1> HIDE DEF d
<1>4. /\ Rest(m, n) /\ n.tm = m.tm /\ n.trash = d.trash /\ ns = <<s[Len(s)]>> /\ n.cur = 0
  BY <1>1, <1>2, <1>3 DEF ManagerFields, Rest
<1>5. /\ IsGarbage(n.trash) /\ m.trash.snaps \subseteq n.trash.snaps
      /\ \A k \in S : View(s[k]) \in n.trash.snaps
      /\ tr2 = [own |-> tr2.own, refs |-> tr2.refs]
      /\ tr2.own = tr.own \cup Owned(older) /\ tr2.refs = tr.refs \cup Refs(older)
  <2> DEFINE g == n.trash
  <2>1. IsGrown(m.trash, OwnedIn(m.snaps, S), ViewsIn(m.snaps, S), g)
    BY <1>3, <1>4
  <2> HIDE DEF S, g
  <2>2. /\ IsGarbage(g) /\ m.trash.snaps \subseteq g.snaps
        /\ \A k \in S : View(m.snaps[k]) \in g.snaps
        /\ Uses(g) = [own |-> Uses(g).own, refs |-> Uses(g).refs]
        /\ Uses(g).own = Uses(m.trash).own \cup Owned(Slice(m.snaps, S))
        /\ Uses(g).refs = Uses(m.trash).refs \cup Refs(Slice(m.snaps, S))
    BY <2>1, GrownFacts
  <2> QED  BY <2>2 DEF g
<1>6. IsPrefix(older, s)
  BY SliceFacts DEF IsPrefix
<1> HIDE DEF s, ns, l, tr, h, tr2, older
<1>7. Sound(ns, l, tr2, h) /\ Refs(ns) \subseteq Refs(s) /\ DOMAIN ns = {1} /\ ns[1] = s[Len(s)]
  BY <1>1, <1>4, <1>5, <1>6, NewestSound
<1>8. Len(s) \in Nat /\ DOMAIN s = 1..Len(s) /\ Len(s) # 0
  <2>1. Len(s) \in Nat /\ DOMAIN s = 1..Len(s)
    BY <1>1, ListLen
  <2>2. Len(s) # 0
    BY <1>1, EmptySeq DEF IsList
  <2> QED  BY <2>1, <2>2
<1>9. Starts(ns)
  BY <1>1, <1>7, <1>8 DEF Starts
<1>10. FrozenStayOr(s, ns, n.trash.snaps)
  <2> SUFFICES ASSUME NEW k \in DOMAIN s, ~s[k].editable, View(s[k]) \notin n.trash.snaps
               PROVE  \E j \in DOMAIN ns : ~ns[j].editable /\ SameView(s[k], ns[j])
    BY DEF FrozenStayOr
  <2>1. k = Len(s)
    BY <1>5, <1>8
  <2> QED  BY <1>7, <2>1 DEF SameView, SameRest
<1>11. FrozenViews(m) \subseteq FrozenViews(n) \cup n.trash.snaps
  BY <1>1, <1>10, ViewsStayOr DEF s, ns
<1>12. Good(n, X) /\ Keeps(m, n)
  BY <1>4, <1>5, <1>7, <1>9, <1>11, DiscardStep DEF s, ns, l, tr2, h
<1> QED  BY <1>4, <1>12

\* The whole list.
LEMMA WholeSlice ==
  ASSUME NEW s, IsList(s)
  PROVE  Slice(s, DOMAIN s) = s
<1>1. s = [k \in DOMAIN s |-> s[k]]
  BY LenProperties DEF IsList
<1> QED  BY <1>1 DEF Slice

\* What fds_tmgr_clear() changes.
LEMMA ClearFields ==
  ASSUME NEW m, DOMAIN m = ManagerFields, NEW n, n = ClearAll(m)
  PROVE  /\ DOMAIN n = DOMAIN m /\ n.snaps = <<>> /\ n.cur = 0 /\ n.ies = m.ies
         /\ n.handed = m.handed /\ n.tm = m.tm
         /\ IsGrown(m.trash, OwnedIn(m.snaps, DOMAIN m.snaps), ViewsIn(m.snaps, DOMAIN m.snaps), n.trash)
<1> DEFINE S == DOMAIN m.snaps
           d == DiscardList(m, S)
<1>1. n = [d EXCEPT !.snaps = <<>>, !.cur = 0, !.now = 0, !.newest = 0]
  BY DEF ClearAll
<1>2. /\ DOMAIN d = DOMAIN m /\ d.ies = m.ies /\ d.handed = m.handed /\ d.tm = m.tm
      /\ IsGrown(m.trash, OwnedIn(m.snaps, S), ViewsIn(m.snaps, S), d.trash)
  <2> HIDE DEF d, S
  <2> QED  BY DiscardListFields DEF d
<1> HIDE DEF d, S
<1>3. /\ DOMAIN n = DOMAIN m /\ n.snaps = <<>> /\ n.cur = 0 /\ n.ies = m.ies
      /\ n.handed = m.handed /\ n.tm = m.tm /\ n.trash = d.trash
  BY <1>1, <1>2 DEF ManagerFields
<1> QED  BY <1>2, <1>3 DEF S

\* The whole list goes to the garbage g.
LEMMA AllGrown ==
  ASSUME NEW m, NEW X, Good(m, X), NEW g,
         IsGrown(m.trash, OwnedIn(m.snaps, DOMAIN m.snaps), ViewsIn(m.snaps, DOMAIN m.snaps), g)
  PROVE  /\ IsGarbage(g) /\ m.trash.snaps \subseteq g.snaps
         /\ FrozenViews(m) \subseteq g.snaps
         /\ Uses(g) = [own |-> Uses(g).own, refs |-> Uses(g).refs]
         /\ Uses(g).own = Uses(m.trash).own \cup Refs(m.snaps)
         /\ Uses(g).refs = Uses(m.trash).refs \cup Refs(m.snaps)
<1> DEFINE S == DOMAIN m.snaps
<1>1. IsList(m.snaps) /\ HasOwner(m.snaps)
  BY GoodFacts DEF ListInv
<1>2. Slice(m.snaps, S) = m.snaps /\ Owned(m.snaps) = Refs(m.snaps)
  BY <1>1, WholeSlice, OwnedIsRefs
<1>3. IsGrown(m.trash, OwnedIn(m.snaps, S), ViewsIn(m.snaps, S), g)
  OBVIOUS
<1>4. FrozenViews(m) \subseteq {View(m.snaps[k]) : k \in S}
  BY DEF FrozenViews
<1> HIDE DEF S
<1>5. /\ IsGarbage(g) /\ m.trash.snaps \subseteq g.snaps
      /\ \A k \in S : View(m.snaps[k]) \in g.snaps
      /\ Uses(g) = [own |-> Uses(g).own, refs |-> Uses(g).refs]
      /\ Uses(g).own = Uses(m.trash).own \cup Owned(Slice(m.snaps, S))
      /\ Uses(g).refs = Uses(m.trash).refs \cup Refs(Slice(m.snaps, S))
  BY <1>3, GrownFacts
<1> QED  BY <1>2, <1>4, <1>5

\* fds_tmgr_clear()
LEMMA ClearStep ==
  ASSUME NEW m, NEW X, Good(m, X), NEW n, n = ClearAll(m)
  PROVE  /\ Good(n, X) /\ Keeps(m, n) /\ n.cur = 0
<1> DEFINE s   == m.snaps
           l   == DOMAIN m.tm \ X
           tr  == Uses(m.trash)
           h   == UsesAll(m.handed)
           c   == [m EXCEPT !.snaps = <<>>, !.trash = n.trash]
           tr2 == Uses(n.trash)
<1>1. DOMAIN m = ManagerFields /\ IsList(s) /\ Starts(s) /\ Sound(s, l, tr, h)
  BY GoodFacts
<1>2. /\ DOMAIN n = DOMAIN m /\ n.snaps = <<>> /\ n.cur = 0 /\ n.ies = m.ies
      /\ n.handed = m.handed /\ n.tm = m.tm
      /\ IsGrown(m.trash, OwnedIn(m.snaps, DOMAIN m.snaps), ViewsIn(m.snaps, DOMAIN m.snaps), n.trash)
  BY <1>1, ClearFields
<1>3. /\ IsGarbage(n.trash) /\ m.trash.snaps \subseteq n.trash.snaps
      /\ FrozenViews(m) \subseteq n.trash.snaps
      /\ tr2 = [own |-> tr2.own, refs |-> tr2.refs]
      /\ tr2.own = tr.own \cup Refs(s) /\ tr2.refs = tr.refs \cup Refs(s)
  BY <1>2, AllGrown
<1>4. Rest(m, c) /\ c.tm = m.tm /\ c.trash = n.trash /\ c.snaps = <<>>
  BY <1>1 DEF ManagerFields, Rest
<1> HIDE DEF c, s, l, tr, h, tr2
<1>5. Sound(c.snaps, l, tr2, h)
  BY <1>1, <1>3, <1>4, ClearSound
<1>6. Starts(c.snaps) /\ Refs(c.snaps) = {}
  BY <1>4, EmptyList DEF Starts
<1>7. Good(c, X) /\ Keeps(m, c)
  BY <1>3, <1>4, <1>5, <1>6, DiscardStep DEF l, tr2, h
<1>8. Good(n, X) /\ Keeps(c, n)
  BY <1>2, <1>4, <1>7, StepSame DEF Rest
<1> QED  BY <1>2, <1>7, <1>8, KeepsTransitive

-----------------------------------------------------------------------------
(* Addresses to allocate. *)

\* Everything referred to is allocated, so what is not allocated is free.
LEMMA FreeAddrs ==
  ASSUME NEW m, NEW X, Good(m, X)
  PROVE  Free(m) = Addrs \ DOMAIN m.tm
<1>1. GarbageInv(Refs(m.snaps), Unpropagated(m.snaps), DOMAIN m.tm \ X,
                 Uses(m.trash), UsesAll(m.handed))
  BY GoodFacts
<1>2. Refs(m.snaps) \cup Uses(m.trash).refs \subseteq DOMAIN m.tm
  BY <1>1 DEF GarbageInv
<1>3. GarbageRefs(m.trash) \subseteq DOMAIN m.tm
  BY <1>2, UsesFields
<1>4. ASSUME NEW b \in DOMAIN m.handed PROVE GarbageRefs(m.handed[b]) \subseteq DOMAIN m.tm
  <2>1. b \in DOMAIN UsesAll(m.handed) /\ UsesAll(m.handed)[b] = Uses(m.handed[b])
    BY DEF UsesAll
  <2>2. UsesAll(m.handed)[b].refs \subseteq DOMAIN m.tm
    BY <1>1, <2>1 DEF GarbageInv
  <2> QED  BY <2>1, <2>2, UsesFields
<1>5. UNION {GarbageRefs(m.handed[b]) : b \in DOMAIN m.handed} \subseteq DOMAIN m.tm
  BY <1>4
<1> QED  BY <1>2, <1>3, <1>5 DEF Free, ListRefs

\* malloc() returns a free address.
LEMMA FreshIsFree ==
  ASSUME NEW m, Free(m) # {}
  PROVE  Fresh(m) \in Free(m)
<1>1. Free(m) \in SUBSET Nat
  BY ParamsAssumption DEF Free
<1>2. \E t \in Free(m) : \A u \in Free(m) : t <= u
  <2> DEFINE S == Free(m)
  <2>1. S \in SUBSET Nat /\ S # {}
    BY <1>1
  <2> HIDE DEF S
  <2>2. \E t \in S : \A u \in S : t <= u
    BY <2>1, Propagation!Minimum
  <2> QED  BY <2>2 DEF S
<1> QED  BY <1>2 DEF Fresh

\* There is an address for each template when there are enough of them.
LEMMA Embeds ==
  ASSUME NEW S, NEW T, IsFiniteSet(S), IsFiniteSet(T), Cardinality(S) <= Cardinality(T)
  PROVE  \E f \in [S -> T] : \A x, y \in S : f[x] = f[y] => x = y
<1> DEFINE n == Cardinality(S)
           k == Cardinality(T)
<1>1. n \in Nat /\ k \in Nat /\ n <= k /\ ExistsBijection(1..n, S) /\ ExistsBijection(1..k, T)
  BY FS_CardinalityType
<1> HIDE DEF n, k
<1>2. ExistsBijection(S, 1..n)
  BY <1>1, Fun_ExistsBijSymmetric
<1>3. PICK g : g \in Bijection(S, 1..n)
  BY <1>2 DEF ExistsBijection
<1>4. PICK h : h \in Bijection(1..k, T)
  BY <1>1 DEF ExistsBijection
<1>5. g \in [S -> 1..n] /\ \A x, y \in S : g[x] = g[y] => x = y
  BY <1>3 DEF Bijection, Injection, IsInjective
<1>6. h \in [1..k -> T] /\ \A x, y \in 1..k : h[x] = h[y] => x = y
  BY <1>4 DEF Bijection, Injection, IsInjective
<1> DEFINE f == [x \in S |-> h[g[x]]]
<1>7. \A x \in S : g[x] \in 1..k
  BY <1>1, <1>5
<1>8. f \in [S -> T] /\ \A x, y \in S : f[x] = f[y] => x = y
  BY <1>5, <1>6, <1>7
<1> QED  BY <1>8

\* What fds_tmgr_set_iemgr() allocates.
IsCopy(m, copy) ==
  /\ copy \in [Refs(m.snaps) -> Free(m)]
  /\ \A t, u \in Refs(m.snaps) : copy[t] = copy[u] => t = u
IsCopied(m, copy, ies, n) ==
  /\ DOMAIN n = DOMAIN m /\ n.handed = m.handed /\ n.ies = ies /\ n.cur = 0
  /\ IsGrown(m.trash, OwnedIn(m.snaps, DOMAIN m.snaps), ViewsIn(m.snaps, DOMAIN m.snaps), n.trash)
  /\ n.snaps = Tuple(ReplaceRefs(m.snaps, copy))
  /\ DOMAIN n.tm = DOMAIN m.tm \cup Copies(copy, m.snaps)
  /\ \A t \in DOMAIN m.tm \ Copies(copy, m.snaps) : n.tm[t] = m.tm[t]
  /\ \A t \in Copies(copy, m.snaps) :
       \E o \in Refs(m.snaps) : n.tm[t] = [m.tm[o] EXCEPT !.ies = ies]

\* What fds_tmgr_set_iemgr() changes, once there is room for the copies.
LEMMA CopyAllFields ==
  ASSUME NEW m, Good(m, {}), Cardinality(Free(m)) >= Cardinality(Refs(m.snaps)),
         NEW ies, NEW n, n = CopyAll(m, ies)
  PROVE  \E copy : IsCopy(m, copy) /\ IsCopied(m, copy, ies, n)
<1> DEFINE s      == m.snaps
           owned  == Owned(s)
           copy   == CHOOSE f \in [owned -> Free(m)] : \A t, u \in owned : f[t] = f[u] => t = u
           copies == {copy[t] : t \in owned}
           c      == ClearAll(m)
           old(t) == CHOOSE o \in owned : copy[o] = t
           tm2    == [t \in DOMAIN m.tm \cup copies |->
                        IF t \in copies THEN [m.tm[old(t)] EXCEPT !.ies = ies] ELSE m.tm[t]]
           list   == Tuple(ReplaceRefs(s, copy))
<1>1. DOMAIN m = ManagerFields /\ IsList(s) /\ HasOwner(s)
  BY GoodFacts DEF ListInv
<1>2. owned = Refs(s)
  BY <1>1, OwnedIsRefs
<1>3. IsCopy(m, copy)
  <2> DEFINE S == Refs(s)
             T == Free(m)
  <2>1. IsFiniteSet(S) /\ IsFiniteSet(T)
    <3>1. S \in SUBSET Addrs /\ T \in SUBSET Addrs
      BY <1>1, RefsInAddrs DEF Free
    <3> HIDE DEF S, T
    <3> QED  BY <3>1, FS_Subset, ParamsAssumption
  <2>2. Cardinality(S) <= Cardinality(T)
    <3>1. Cardinality(S) \in Nat /\ Cardinality(T) \in Nat /\ Cardinality(T) >= Cardinality(S)
      BY <2>1, FS_CardinalityType
    <3> QED  BY <3>1
  <2> HIDE DEF S, T
  <2>3. \E f \in [S -> T] : \A t, u \in S : f[t] = f[u] => t = u
    BY <2>1, <2>2, Embeds
  <2>4. \E f \in [owned -> Free(m)] : \A t, u \in owned : f[t] = f[u] => t = u
    BY <1>2, <2>3 DEF S, T
  <2> HIDE DEF owned
  <2>5. copy \in [owned -> Free(m)] /\ \A t, u \in owned : copy[t] = copy[u] => t = u
    BY <2>4
  <2> HIDE DEF copy
  <2> QED  BY <1>2, <2>5 DEF IsCopy
<1>4. copies = Copies(copy, s)
  <2> HIDE DEF copy, owned
  <2> QED  BY <1>2 DEF Copies
<1>5. n = [c EXCEPT !.ies = ies, !.tm = tm2, !.snaps = list]
  BY DEF CopyAll
<1>6. /\ DOMAIN c = DOMAIN m /\ c.cur = 0 /\ c.handed = m.handed
      /\ IsGrown(m.trash, OwnedIn(s, DOMAIN s), ViewsIn(s, DOMAIN s), c.trash)
  BY <1>1, ClearFields
<1>7. ASSUME NEW t \in copies PROVE old(t) \in owned
  <2> HIDE DEF copy, owned
  <2> QED  OBVIOUS
<1> HIDE DEF c, list, owned, copy
<1>8. /\ DOMAIN tm2 = DOMAIN m.tm \cup copies
      /\ \A t \in DOMAIN m.tm \ copies : tm2[t] = m.tm[t]
      /\ \A t \in copies : tm2[t] = [m.tm[old(t)] EXCEPT !.ies = ies]
  <2> HIDE DEF copies, old
  <2> QED  OBVIOUS
<1> HIDE DEF tm2, old, copies
<1>9. /\ DOMAIN n = DOMAIN m /\ n.handed = m.handed /\ n.ies = ies /\ n.cur = 0
      /\ n.trash = c.trash /\ n.snaps = list /\ n.tm = tm2
  BY <1>1, <1>5, <1>6 DEF ManagerFields
<1>10. \A t \in copies : \E o \in Refs(s) : n.tm[t] = [m.tm[o] EXCEPT !.ies = ies]
  BY <1>2, <1>7, <1>8, <1>9
<1>11. /\ DOMAIN n.tm = DOMAIN m.tm \cup copies
       /\ \A t \in DOMAIN m.tm \ copies : n.tm[t] = m.tm[t]
  BY <1>8, <1>9
<1>12. IsCopied(m, copy, ies, n)
  BY <1>4, <1>6, <1>9, <1>10, <1>11 DEF IsCopied, list
<1> QED  BY <1>3, <1>12

\* fds_tmgr_set_iemgr() after its cleanup.
LEMMA CopyAllStep ==
  ASSUME NEW m, Good(m, {}), Cardinality(Free(m)) >= Cardinality(Refs(m.snaps)),
         NEW ies, NEW n, n = CopyAll(m, ies)
  PROVE  Good(n, {}) /\ Keeps(m, n) /\ n.cur = 0
<1> DEFINE s   == m.snaps
           ns  == n.snaps
           l   == DOMAIN m.tm \ {}
           tr  == Uses(m.trash)
           h   == UsesAll(m.handed)
           tr2 == Uses(n.trash)
<1>1. PICK copy : IsCopy(m, copy) /\ IsCopied(m, copy, ies, n)
  BY CopyAllFields
<1> DEFINE copies == Copies(copy, s)
<1>2. /\ DOMAIN m = ManagerFields /\ IsList(s) /\ Starts(s) /\ ListInv(s) /\ Sound(s, l, tr, h)
      /\ DOMAIN m.tm \subseteq Addrs
  BY GoodFacts
<1>3. Current(m.tm, Refs(s) \cup {}, m.ies)
  BY GoodFacts
<1>4. /\ DOMAIN n = DOMAIN m /\ n.handed = m.handed /\ n.ies = ies /\ n.cur = 0
      /\ IsGrown(m.trash, OwnedIn(s, DOMAIN s), ViewsIn(s, DOMAIN s), n.trash)
  BY <1>1 DEF IsCopied
<1>5. /\ ns = Tuple(ReplaceRefs(s, copy)) /\ DOMAIN n.tm = DOMAIN m.tm \cup copies
      /\ \A t \in DOMAIN m.tm \ copies : n.tm[t] = m.tm[t]
  BY <1>1 DEF IsCopied
<1>6. \A t \in copies : \E o \in Refs(s) : n.tm[t] = [m.tm[o] EXCEPT !.ies = ies]
  BY <1>1 DEF IsCopied
<1>7. /\ IsGarbage(n.trash) /\ m.trash.snaps \subseteq n.trash.snaps
      /\ FrozenViews(m) \subseteq n.trash.snaps
      /\ tr2 = [own |-> tr2.own, refs |-> tr2.refs]
      /\ tr2.own = tr.own \cup Refs(s) /\ tr2.refs = tr.refs \cup Refs(s)
  BY <1>4, AllGrown
<1>8. /\ copy \in [Refs(s) -> Addrs \ l] /\ copy \in [Refs(s) -> Addrs]
      /\ \A t, u \in Refs(s) : copy[t] = copy[u] => t = u
  <2>1. Free(m) = Addrs \ l
    BY FreeAddrs
  <2> QED  BY <1>1, <2>1 DEF IsCopy
<1>9. l = DOMAIN m.tm /\ SeenRefs(m) \subseteq l
  BY SeenIsLive
<1>10. h = UsesAll(n.handed)
  BY <1>4
<1> HIDE DEF s, ns, l, tr, h, tr2, copies
<1> DEFINE u == ReplaceRefs(s, copy)
<1>11. IsReplace(s, copy, u) /\ \A k \in DOMAIN s : SameRest(s[k], u[k])
  BY <1>2, <1>8, ReplaceShape
<1> HIDE DEF u
<1>12. ns = u
  BY <1>5, <1>11, TupleList DEF IsReplace, u
<1>13. copies = Copies(copy, s)
  BY DEF copies
<1>14. Sound(ns, l \cup copies, tr2, h) /\ Refs(ns) = copies
  BY <1>2, <1>7, <1>8, <1>11, <1>12, <1>13, ReplaceSound
<1>15. Starts(ns)
  <2>1. DOMAIN ns = DOMAIN s
    BY <1>11, <1>12 DEF IsReplace
  <2> QED  BY <1>2, <1>11, <1>12, <2>1 DEF Starts, SameRest
<1>16. \A t \in copies : t \in Addrs /\ t \notin l
  BY <1>8, <1>13 DEF Copies
<1>17. Current(n.tm, copies, ies)
  <2> SUFFICES ASSUME NEW t \in copies
               PROVE  "ies" \in DOMAIN n.tm[t] /\ n.tm[t].ies = ies
    BY DEF Current
  <2>1. PICK o \in Refs(s) : n.tm[t] = [m.tm[o] EXCEPT !.ies = ies]
    BY <1>6
  <2>2. "ies" \in DOMAIN m.tm[o]
    BY <1>3 DEF Current
  <2> QED  BY <2>1, <2>2
<1>18. /\ DOMAIN n.tm \subseteq Addrs /\ DOMAIN n.tm \ {} = l \cup copies
       /\ Refs(ns) \cup {} = copies
  BY <1>2, <1>5, <1>9, <1>14, <1>16
<1>19. Good(n, {})
  <2>1. /\ m.handed \in Seq({m.handed[b] : b \in DOMAIN m.handed})
        /\ \A b \in DOMAIN m.handed : IsGarbage(m.handed[b])
    BY DEF Good
  <2>2. /\ n.handed \in Seq({n.handed[b] : b \in DOMAIN n.handed})
        /\ \A b \in DOMAIN n.handed : IsGarbage(n.handed[b])
    BY <1>4, <2>1
  <2>3. Sound(n.snaps, DOMAIN n.tm \ {}, Uses(n.trash), UsesAll(n.handed))
    BY <1>10, <1>14, <1>18 DEF ns, tr2
  <2>4. Starts(n.snaps) /\ Current(n.tm, Refs(n.snaps) \cup {}, n.ies)
    BY <1>4, <1>15, <1>17, <1>18 DEF ns
  <2>5. DOMAIN n = ManagerFields /\ DOMAIN n.tm \subseteq Addrs /\ {} \subseteq DOMAIN n.tm
        /\ IsGarbage(n.trash)
    BY <1>2, <1>4, <1>7, <1>18
  <2> QED  BY <2>2, <2>3, <2>4, <2>5 DEF Good
<1>20. \A t \in SeenRefs(m) : n.tm[t] = m.tm[t]
  BY <1>5, <1>9, <1>16
<1>21. Keeps(m, n)
  BY <1>4, <1>7, <1>20, StepKeeps
<1> QED  BY <1>4, <1>19, <1>21

-----------------------------------------------------------------------------
(* What later steps of a call rely on. *)

\* Snapshots 1..c are what they were, up to their references; so is the
\* selected one when it is one of them.
Behind(m, n, c) ==
  /\ Len(m.snaps) <= Len(n.snaps)
  /\ \A k \in 1..c : /\ n.snaps[k].editable = m.snaps[k].editable
                     /\ n.snaps[k].start = m.snaps[k].start
  /\ m.cur <= c => n.cur = m.cur
  /\ n.now = m.now

\* Two steps of a call.
LEMMA BehindTransitive ==
  ASSUME NEW m, NEW n, NEW p, NEW c, Behind(m, n, c), Behind(n, p, c),
         Len(m.snaps) \in Nat, Len(n.snaps) \in Nat, Len(p.snaps) \in Nat
  PROVE  Behind(m, p, c)
<1>1. Len(m.snaps) <= Len(p.snaps)
  BY DEF Behind
<1> QED  BY <1>1 DEF Behind

\* Fewer snapshots are looked at.
LEMMA BehindLess ==
  ASSUME NEW m, NEW n, NEW c \in Nat, Behind(m, n, c), NEW b \in Nat, b <= c, m.cur \in Nat
  PROVE  Behind(m, n, b)
BY DEF Behind

\* A clone is made of a snapshot that is not older than c.
LEMMA CloneBehind ==
  ASSUME NEW m, IsList(m.snaps), Starts(m.snaps), NEW i \in DOMAIN m.snaps, NEW n,
         IsCloned(m, i, n), n.cur = IF m.cur > i THEN m.cur + 1 ELSE m.cur,
         NEW c \in Nat, c <= i, m.cur \in Nat
  PROVE  Behind(m, n, c) /\ Len(n.snaps) = Len(m.snaps) + 1
<1>1. Len(m.snaps) \in Nat /\ i \in 1..Len(m.snaps)
  BY Fields
<1>2. PICK expired \in SUBSET IDs : IsClone(m.snaps, i, expired, n.snaps)
  BY DEF IsCloned
<1>3. Len(n.snaps) = Len(m.snaps) + 1 /\ n.snaps[i].editable = m.snaps[i].editable
  BY <1>2 DEF IsClone
<1>4. \A k \in 1..(i - 1) : n.snaps[k] = m.snaps[k]
  BY <1>2 DEF IsClone
<1>5. n.snaps[i].start = m.snaps[i].start
  BY DEF IsCloned, SameView, SameRest, Starts
<1>6. ASSUME NEW k \in 1..c
      PROVE  n.snaps[k].editable = m.snaps[k].editable /\ n.snaps[k].start = m.snaps[k].start
  <2>1. k \in 1..(i - 1) \/ k = i
    BY <1>1
  <2> QED  BY <1>3, <1>4, <1>5, <2>1
<1>7. m.cur <= c => n.cur = m.cur
  BY <1>1
<1>8. Len(m.snaps) <= Len(n.snaps)
  BY <1>1, <1>3
<1>9. n.now = m.now
  BY DEF IsCloned, Rest
<1> QED  BY <1>3, <1>6, <1>7, <1>8, <1>9 DEF Behind

\* A step that only changes references and flags.
LEMMA FlagsBehind ==
  ASSUME NEW m, NEW n, IsList(m.snaps), IsList(n.snaps), SameStarts(m.snaps, n.snaps),
         \A k \in DOMAIN m.snaps : n.snaps[k].editable = m.snaps[k].editable,
         n.cur = m.cur, n.now = m.now, NEW c \in Nat, c <= Len(m.snaps)
  PROVE  Behind(m, n, c) /\ Len(n.snaps) = Len(m.snaps)
<1>1. Len(m.snaps) \in Nat /\ DOMAIN m.snaps = 1..Len(m.snaps)
  BY ListLen
<1>2. Len(n.snaps) \in Nat /\ DOMAIN n.snaps = 1..Len(n.snaps)
  BY ListLen
<1>3. Len(n.snaps) = Len(m.snaps)
  <2>1. 1..Len(n.snaps) = 1..Len(m.snaps)
    BY <1>1, <1>2 DEF SameStarts
  <2> HIDE DEF SameStarts
  <2>2. \A k \in Nat : k \in 1..Len(n.snaps) <=> k \in 1..Len(m.snaps)
    BY <2>1
  <2>3. ~(Len(n.snaps) < Len(m.snaps))
    <3>1. Len(m.snaps) \in 1..Len(m.snaps) \/ Len(m.snaps) = 0
      BY <1>1
    <3> QED  BY <1>1, <1>2, <2>2, <3>1
  <2>4. ~(Len(m.snaps) < Len(n.snaps))
    <3>1. Len(n.snaps) \in 1..Len(n.snaps) \/ Len(n.snaps) = 0
      BY <1>2
    <3> QED  BY <1>1, <1>2, <2>2, <3>1
  <2> QED  BY <1>1, <1>2, <2>3, <2>4
<1>4. \A k \in 1..c : k \in DOMAIN m.snaps
  BY <1>1
<1> QED  BY <1>1, <1>3, <1>4 DEF Behind, SameStarts

\* A removed record.
LEMMA RemoveBehind ==
  ASSUME NEW m, IsList(m.snaps), NEW i \in DOMAIN m.snaps, NEW id, NEW n,
         IsRemoved(m, i, id, n), n.cur = m.cur, NEW c \in Nat, c <= Len(m.snaps)
  PROVE  /\ Behind(m, n, c) /\ Len(n.snaps) = Len(m.snaps) /\ IsList(n.snaps)
         /\ DOMAIN n.snaps = DOMAIN m.snaps /\ Starts(n.snaps)
         /\ \A k \in DOMAIN m.snaps : n.snaps[k].editable = m.snaps[k].editable
<1>1. PICK j : IsDrop(m.snaps, i, id, j, n.snaps)
  BY DEF IsRemoved
<1>2. /\ IsList(n.snaps) /\ DOMAIN n.snaps = DOMAIN m.snaps
      /\ \A k \in DOMAIN m.snaps : n.snaps[k].editable = m.snaps[k].editable
  BY <1>1 DEF IsDrop
<1>3. SameStarts(m.snaps, n.snaps) /\ n.now = m.now
  BY DEF IsRemoved, Rest
<1>4. Starts(n.snaps)
  BY <1>2, <1>3 DEF SameStarts, Starts
<1> QED  BY <1>2, <1>3, <1>4, FlagsBehind

\* An added record.
LEMMA AddBehind ==
  ASSUME NEW m, IsList(m.snaps), NEW i \in DOMAIN m.snaps, NEW id, NEW rec, NEW n,
         IsAdded(m, i, id, rec, n), n.cur = m.cur, NEW c \in Nat, c <= Len(m.snaps)
  PROVE  /\ Behind(m, n, c) /\ Len(n.snaps) = Len(m.snaps) /\ IsList(n.snaps)
         /\ DOMAIN n.snaps = DOMAIN m.snaps /\ Starts(n.snaps)
         /\ \A k \in DOMAIN m.snaps : n.snaps[k].editable = m.snaps[k].editable
<1>1. IsSet(m.snaps, i, id, rec.t, n.snaps)
  BY DEF IsAdded
<1>2. /\ IsList(n.snaps) /\ DOMAIN n.snaps = DOMAIN m.snaps
      /\ \A k \in DOMAIN m.snaps : n.snaps[k].editable = m.snaps[k].editable
  BY <1>1 DEF IsSet
<1>3. SameStarts(m.snaps, n.snaps) /\ n.now = m.now
  BY DEF IsAdded, Rest
<1>4. Starts(n.snaps)
  BY <1>2, <1>3 DEF SameStarts, Starts
<1> QED  BY <1>2, <1>3, <1>4, FlagsBehind

\* mgr_snap_edit(): snapshot e of n is snapshot i of m, made editable.
IsEdited(m, i, n, e) ==
  \/ m.snaps[i].editable /\ n = m /\ e = i
  \/ /\ ~m.snaps[i].editable /\ e = i + 1 /\ IsCloned(m, i, n)
     /\ IsClone(m.snaps, i, {}, n.snaps) /\ n.cur = IF m.cur > i THEN m.cur + 1 ELSE m.cur

\* mgr_snap_edit() returns the snapshot or a copy of it.
LEMMA EditFields ==
  ASSUME NEW m, DOMAIN m = ManagerFields, IsList(m.snaps), Starts(m.snaps),
         NEW i \in DOMAIN m.snaps, NEW n, n = SnapEdit(m, i)
  PROVE  IsEdited(m, i, n, EditIdx(m, i))
<1>1. CASE m.snaps[i].editable
  BY <1>1 DEF SnapEdit, EditIdx, IsEdited
<1>2. CASE ~m.snaps[i].editable
  <2> DEFINE c  == SnapClone(m, i, m.snaps[i].start)
             ok == i < Newest(m) => HistoryMod(m)
  <2>1. n = Assume(c, ok) /\ EditIdx(m, i) = i + 1
    BY <1>2 DEF SnapEdit, EditIdx
  <2>2. /\ IsCloned(m, i, c) /\ c.cur = IF m.cur > i THEN m.cur + 1 ELSE m.cur
        /\ IsClone(m.snaps, i, {}, c.snaps)
    BY SnapCloneFields
  <2> HIDE DEF c, ok
  <2>3. DOMAIN c = ManagerFields
    BY <2>2 DEF IsCloned, Rest
  <2>4. /\ DOMAIN n = DOMAIN c /\ n.now = c.now /\ n.ies = c.ies /\ n.handed = c.handed
        /\ n.tm = c.tm /\ n.trash = c.trash /\ n.snaps = c.snaps /\ n.cur = c.cur
    BY <2>1, <2>3 DEF Assume, ManagerFields
  <2>5. IsCloned(m, i, n)
    BY <2>2, <2>4 DEF IsCloned, Rest
  <2> QED  BY <1>2, <2>1, <2>2, <2>4, <2>5 DEF IsEdited
<1> QED  BY <1>1, <1>2

\* The editable snapshot e has the templates snapshot i had.
LEMMA EditShape ==
  ASSUME NEW m, IsList(m.snaps), Starts(m.snaps), NEW i \in DOMAIN m.snaps, NEW n,
         NEW e, IsEdited(m, i, n, e)
  PROVE  /\ e \in DOMAIN n.snaps /\ n.snaps[e].editable /\ i <= e /\ e <= i + 1 /\ e \in Nat
         /\ IsList(n.snaps) /\ Starts(n.snaps) /\ n.tm = m.tm /\ n.trash = m.trash /\ Rest(m, n)
         /\ \A x \in IDs : n.snaps[e].recs[x].t = m.snaps[i].recs[x].t
         /\ Len(n.snaps) \in {Len(m.snaps), Len(m.snaps) + 1}
<1>1. Len(m.snaps) \in Nat /\ i \in 1..Len(m.snaps) /\ i \in Nat
  BY Fields
<1>2. CASE m.snaps[i].editable /\ n = m /\ e = i
  BY <1>1, <1>2 DEF Rest
<1>3. CASE /\ ~m.snaps[i].editable /\ e = i + 1 /\ IsCloned(m, i, n)
           /\ IsClone(m.snaps, i, {}, n.snaps)
  <2>1. /\ IsList(n.snaps) /\ DOMAIN n.snaps = 1..(Len(m.snaps) + 1)
        /\ Len(n.snaps) = Len(m.snaps) + 1 /\ n.snaps[i + 1].editable
        /\ \A x \in IDs : n.snaps[i + 1].recs[x].t = m.snaps[i].recs[x].t
    BY <1>3 DEF IsClone
  <2>2. Starts(n.snaps)
    BY <1>3, CloneStays DEF IsCloned
  <2>3. n.tm = m.tm /\ n.trash = m.trash /\ Rest(m, n)
    BY <1>3 DEF IsCloned
  <2>4. e \in DOMAIN n.snaps /\ e = i + 1
    BY <1>1, <1>3, <2>1
  <2> QED  BY <1>1, <2>1, <2>2, <2>3, <2>4
<1> QED  BY <1>2, <1>3 DEF IsEdited

\* What is older than snapshot i stays.
LEMMA EditBehind ==
  ASSUME NEW m, IsList(m.snaps), Starts(m.snaps), NEW i \in DOMAIN m.snaps, NEW n,
         NEW e, IsEdited(m, i, n, e), NEW c \in Nat, c <= i, m.cur \in Nat
  PROVE  Behind(m, n, c)
<1>1. Len(m.snaps) \in Nat
  BY Fields
<1>2. CASE n = m
  BY <1>1, <1>2 DEF Behind
<1>3. CASE IsCloned(m, i, n) /\ n.cur = IF m.cur > i THEN m.cur + 1 ELSE m.cur
  BY <1>3, CloneBehind
<1> QED  BY <1>2, <1>3 DEF IsEdited

\* mgr_snap_edit()
LEMMA EditStep ==
  ASSUME NEW m, NEW X, Good(m, X), NEW i \in DOMAIN m.snaps, NEW n, NEW e, IsEdited(m, i, n, e)
  PROVE  Good(n, X) /\ Keeps(m, n)
<1>1. CASE n = m
  BY <1>1, KeepsItself
<1>2. CASE ~m.snaps[i].editable /\ IsCloned(m, i, n)
  BY <1>2, CloneStep
<1> QED  BY <1>1, <1>2 DEF IsEdited

-----------------------------------------------------------------------------
(* Propagation: mgr_snap_freeze_cb() adds the references first and moves the
   Delete flag at the end.  The invariant of its loop is about the list with
   the flag already moved. *)

WithFlag(x, id, d) == [x EXCEPT !.recs[id].d = d]

\* Snapshot n is x but for the Delete flag of record id.
OnlyFlag(x, id, n) ==
  /\ SameView(x, n) /\ n.editable = x.editable
  /\ \A y \in IDs : n.recs[y].t = x.recs[y].t
  /\ \A y \in IDs : n.recs[y].c = x.recs[y].c
  /\ \A y \in IDs \ {id} : n.recs[y] = x.recs[y]

\* The Delete flag is all that changes.
LEMMA FlagFields ==
  ASSUME NEW x, IsSnapshot(x), NEW id \in IDs, NEW d \in BOOLEAN
  PROVE  /\ IsSnapshot(WithFlag(x, id, d)) /\ OnlyFlag(x, id, WithFlag(x, id, d))
         /\ WithFlag(x, id, d).recs[id].d <=> d
<1> DEFINE r == [x.recs[id] EXCEPT !.d = d]
           f == [x.recs EXCEPT ![id] = r]
           n == [x EXCEPT !.recs = f]
<1>1. WithFlag(x, id, d) = n
  BY DEF WithFlag
<1>2. x.recs \in [IDs -> Record]
  BY DEF IsSnapshot
<1>3. r \in Record /\ r.t = x.recs[id].t /\ r.c = x.recs[id].c /\ r.d = d
  BY <1>2 DEF Record
<1> HIDE DEF r
<1>4. f \in [IDs -> Record] /\ f[id] = r /\ \A y \in IDs \ {id} : f[y] = x.recs[y]
  BY <1>2, <1>3
<1>5. \A y \in IDs : f[y].t = x.recs[y].t /\ f[y].c = x.recs[y].c
  BY <1>3, <1>4
<1> HIDE DEF f
<1>6. DOMAIN n = DOMAIN x /\ n.recs = f /\ n.editable = x.editable
      /\ \A g \in DOMAIN x \ {"editable", "recs"} : n[g] = x[g]
  BY DEF IsSnapshot
<1> HIDE DEF n
<1>7. IsSnapshot(n)
  BY <1>4, <1>6 DEF IsSnapshot
<1> QED  BY <1>1, <1>3, <1>4, <1>5, <1>6, <1>7 DEF OnlyFlag, SameView, SameRest

\* The Delete flag of record id moved from snapshot i to snapshot at.
IsMoved(s, i, id, at, n) ==
  /\ IsList(n) /\ DOMAIN n = DOMAIN s /\ Len(n) = Len(s)
  /\ at = 0 => n = s
  /\ at # 0 => n[at] = WithFlag(s[at], id, TRUE) /\ n[i] = WithFlag(s[i], id, FALSE)
  /\ \A k \in DOMAIN s : k # at /\ k # i => n[k] = s[k]

\* What moving the Delete flag changes.
LEMMA MoveOwnerFields ==
  ASSUME NEW m, DOMAIN m = ManagerFields, IsList(m.snaps), NEW i \in DOMAIN m.snaps,
         NEW id \in IDs, NEW at, at = 0 \/ (at \in DOMAIN m.snaps /\ at # i)
  PROVE  /\ IsMoved(m.snaps, i, id, at, MoveOwner(m, i, id, at).snaps)
         /\ Rest(m, MoveOwner(m, i, id, at)) /\ MoveOwner(m, i, id, at).tm = m.tm
         /\ MoveOwner(m, i, id, at).trash = m.trash /\ MoveOwner(m, i, id, at).cur = m.cur
<1> DEFINE s == m.snaps
           n == MoveOwner(m, i, id, at)
<1>1. CASE at = 0
  BY <1>1 DEF MoveOwner, IsMoved, Rest
<1>2. CASE at # 0
  <2> DEFINE x == WithFlag(s[at], id, TRUE)
             y == WithFlag(s[i], id, FALSE)
             u == [[s EXCEPT ![at] = x] EXCEPT ![i] = y]
  <2>1. at \in DOMAIN s /\ at # i /\ i \in DOMAIN s
    BY <1>2
  <2>2. n = [m EXCEPT !.snaps = u]
    <3>1. n = [[m EXCEPT !.snaps[at].recs[id].d = TRUE] EXCEPT !.snaps[i].recs[id].d = FALSE]
      BY <1>2 DEF MoveOwner
    <3>2. [m EXCEPT !.snaps[at].recs[id].d = TRUE] = [m EXCEPT !.snaps = [s EXCEPT ![at] = x]]
      BY DEF WithFlag
    <3> DEFINE m1 == [m EXCEPT !.snaps = [s EXCEPT ![at] = x]]
    <3>3. m1.snaps = [s EXCEPT ![at] = x] /\ m1.snaps[i] = s[i]
      BY <2>1 DEF ManagerFields
    <3>4. n = [m1 EXCEPT !.snaps = [m1.snaps EXCEPT ![i] = WithFlag(m1.snaps[i], id, FALSE)]]
      BY <3>1, <3>2 DEF WithFlag
    <3>5. n = [m1 EXCEPT !.snaps = u]
      BY <3>3, <3>4
    <3> HIDE DEF u, n, x
    <3> QED  BY <3>5
  <2>3. IsSnapshot(x) /\ IsSnapshot(y)
    BY <2>1, Fields, FlagFields
  <2>4. Len(s) \in Nat /\ DOMAIN s = 1..Len(s) /\ \A k \in DOMAIN s : IsSnapshot(s[k])
    BY Fields
  <2> HIDE DEF x, y, s
  <2>5. u = [k \in 1..Len(s) |-> u[k]] /\ \A k \in 1..Len(s) : IsSnapshot(u[k])
    BY <2>1, <2>3, <2>4
  <2>6. u[at] = x /\ u[i] = y /\ DOMAIN u = DOMAIN s /\ \A k \in DOMAIN s : k # at /\ k # i => u[k] = s[k]
    BY <2>1
  <2> HIDE DEF u
  <2>7. IsList(u) /\ Len(u) = Len(s)
    BY <2>4, <2>5, ListOf
  <2>8. IsMoved(s, i, id, at, u)
    BY <1>2, <2>6, <2>7 DEF IsMoved, x, y
  <2>9. n.snaps = u /\ Rest(m, n) /\ n.tm = m.tm /\ n.trash = m.trash /\ n.cur = m.cur
    <3> HIDE DEF n
    <3> QED  BY <2>2 DEF ManagerFields, Rest
  <2> QED  BY <2>8, <2>9 DEF s
<1> QED  BY <1>1, <1>2

\* What the move leaves alone.
Alike(s, i, id, at, n) ==
  /\ \A k \in DOMAIN s : SameView(s[k], n[k]) /\ n[k].editable = s[k].editable
  /\ \A k \in DOMAIN s : \A x \in IDs :
       n[k].recs[x].t = s[k].recs[x].t /\ n[k].recs[x].c = s[k].recs[x].c
  /\ \A k \in DOMAIN s : \A x \in IDs \ {id} : n[k].recs[x] = s[k].recs[x]
  /\ \A k \in DOMAIN s : k # at /\ k # i => n[k] = s[k]
  /\ at # 0 => n[at].recs[id].d /\ ~n[i].recs[id].d

\* Moving the Delete flag changes no template and no Create flag.
LEMMA MovedFacts ==
  ASSUME NEW s, IsList(s), NEW i \in DOMAIN s, NEW id \in IDs,
         NEW at, at = 0 \/ (at \in DOMAIN s /\ at # i), NEW n, IsMoved(s, i, id, at, n)
  PROVE  Alike(s, i, id, at, n)
<1>1. \A k \in DOMAIN s : k # at /\ k # i => n[k] = s[k]
  BY DEF IsMoved
<1>2. ASSUME NEW k \in DOMAIN s, n[k] = s[k] PROVE OnlyFlag(s[k], id, n[k])
  BY <1>2 DEF OnlyFlag, SameView, SameRest
<1>3. CASE at = 0
  <2>1. n = s
    BY <1>3 DEF IsMoved
  <2>2. \A k \in DOMAIN s : OnlyFlag(s[k], id, n[k])
    BY <1>2, <2>1
  <2> QED  BY <1>1, <1>3, <2>2 DEF OnlyFlag, Alike
<1>4. CASE at # 0
  <2>1. at \in DOMAIN s /\ n[at] = WithFlag(s[at], id, TRUE) /\ n[i] = WithFlag(s[i], id, FALSE)
    BY <1>4 DEF IsMoved
  <2>2. IsSnapshot(s[at]) /\ IsSnapshot(s[i]) /\ TRUE \in BOOLEAN /\ FALSE \in BOOLEAN
    BY <2>1, Fields
  <2>3. OnlyFlag(s[at], id, n[at]) /\ n[at].recs[id].d
    BY <2>1, <2>2, FlagFields
  <2>4. OnlyFlag(s[i], id, n[i]) /\ ~n[i].recs[id].d
    BY <2>1, <2>2, FlagFields
  <2>5. \A k \in DOMAIN s : OnlyFlag(s[k], id, n[k])
    BY <1>1, <1>2, <2>3, <2>4
  <2> QED  BY <1>1, <2>3, <2>4, <2>5 DEF OnlyFlag, Alike
<1> QED  BY <1>3, <1>4

\* A newer snapshot is cloned.
LEMMA MovedClone ==
  ASSUME NEW s, IsList(s), NEW i \in DOMAIN s, NEW id \in IDs,
         NEW at, at = 0 \/ (at \in DOMAIN s /\ at # i), NEW a, IsMoved(s, i, id, at, a),
         NEW j \in DOMAIN s, i < j, at < j, NEW n, IsClone(s, j, {}, n), SameView(s[j], n[j]),
         NEW b, IsMoved(n, i, id, at, b)
  PROVE  IsClone(a, j, {}, b) /\ SameView(a[j], b[j]) /\ b[j + 1] = n[j + 1] /\ a[j] = s[j]
<1>1. /\ Len(s) \in Nat /\ DOMAIN s = 1..Len(s) /\ i \in 1..Len(s) /\ j \in 1..Len(s)
      /\ at = 0 \/ at \in 1..Len(s)
  BY Fields
<1>2. IsClone(s, j, {}, n)
  OBVIOUS
<1>3. /\ DOMAIN n = 1..(Len(s) + 1) /\ Len(n) = Len(s) + 1
      /\ \A k \in 1..(j - 1) : n[k] = s[k]
      /\ \A k \in (j + 2)..(Len(s) + 1) : n[k] = s[k - 1]
  BY <1>2, Zenon DEF IsClone
<1>4. IsList(b) /\ DOMAIN b = 1..(Len(s) + 1) /\ Len(b) = Len(s) + 1 /\ Len(a) = Len(s)
  BY <1>3 DEF IsMoved
<1>5. ASSUME NEW k \in j..(Len(s) + 1) PROVE b[k] = n[k]
  <2>1. k # at /\ k # i /\ k \in DOMAIN n
    BY <1>1, <1>3
  <2> QED  BY <2>1 DEF IsMoved
<1>6. ASSUME NEW k \in j..Len(s) PROVE a[k] = s[k]
  <2>1. k # at /\ k # i /\ k \in DOMAIN s
    BY <1>1
  <2> QED  BY <2>1 DEF IsMoved
<1>7. \A k \in 1..(j - 1) : b[k] = a[k]
  <2> SUFFICES ASSUME NEW k \in 1..(j - 1) PROVE b[k] = a[k]
    OBVIOUS
  <2>1. n[k] = s[k] /\ k \in DOMAIN s /\ k \in DOMAIN n
    BY <1>1, <1>3
  <2>2. CASE at = 0
    BY <2>1, <2>2 DEF IsMoved
  <2>3. CASE at # 0 /\ (k = at \/ k = i)
    <3>1. n[at] = s[at] /\ n[i] = s[i]
      BY <1>1, <1>3, <2>3
    <3> QED  BY <2>3, <3>1 DEF IsMoved
  <2>4. CASE k # at /\ k # i
    BY <2>1, <2>4 DEF IsMoved
  <2> QED  BY <2>2, <2>3, <2>4
<1>8. b[j] = n[j] /\ b[j + 1] = n[j + 1] /\ a[j] = s[j]
  BY <1>1, <1>5, <1>6
<1>9. \A k \in (j + 2)..(Len(s) + 1) : b[k] = a[k - 1]
  <2> SUFFICES ASSUME NEW k \in (j + 2)..(Len(s) + 1) PROVE b[k] = a[k - 1]
    OBVIOUS
  <2>1. k \in j..(Len(s) + 1) /\ k - 1 \in j..Len(s)
    BY <1>1
  <2>2. n[k] = s[k - 1]
    BY <1>3
  <2> QED  BY <1>5, <1>6, <2>1, <2>2
<1> QED  BY <1>4, <1>7, <1>8, <1>9 DEF IsClone

\* A record of another template is removed from a newer snapshot.
LEMMA MovedDrop ==
  ASSUME NEW s, IsList(s), NEW i \in DOMAIN s, NEW id \in IDs,
         NEW at, at = 0 \/ (at \in DOMAIN s /\ at # i), NEW a, IsMoved(s, i, id, at, a),
         NEW e \in DOMAIN s, e # i, e # at, s[i].recs[id].t # s[e].recs[id].t,
         at # 0 => s[at].recs[id].t # s[e].recs[id].t,
         NEW to, s[e].recs[id].d => IsMoveTarget(s, e, id, to),
         NEW n, IsDrop(s, e, id, to, n), NEW b, IsMoved(n, i, id, at, b)
  PROVE  /\ IsDrop(a, e, id, to, b) /\ a[e] = s[e] /\ b[e] = n[e]
         /\ a[e].recs[id].d => IsMoveTarget(a, e, id, to)
<1>1. Len(s) \in Nat /\ DOMAIN s = 1..Len(s) /\ e \in 1..Len(s)
  BY Fields
<1>2. /\ \A k \in DOMAIN s : a[k].editable = s[k].editable
      /\ \A k \in DOMAIN s : \A x \in IDs :
           a[k].recs[x].t = s[k].recs[x].t /\ a[k].recs[x].c = s[k].recs[x].c
      /\ \A k \in DOMAIN s : \A x \in IDs \ {id} : a[k].recs[x] = s[k].recs[x]
      /\ \A k \in DOMAIN s : k # at /\ k # i => a[k] = s[k]
      /\ at # 0 => a[at].recs[id].d /\ ~a[i].recs[id].d
  BY MovedFacts DEF Alike
<1>3. /\ IsList(n) /\ DOMAIN n = DOMAIN s
      /\ \A k \in DOMAIN s : n[k].editable = s[k].editable
      /\ n[e].recs[id] = NoRec
  BY DEF IsDrop
<1>4. ASSUME NEW k \in DOMAIN s, NEW x \in IDs, ~(k = e /\ x = id)
      PROVE  /\ n[k].recs[x].t = s[k].recs[x].t /\ n[k].recs[x].c = s[k].recs[x].c
             /\ n[k].recs[x].d <=> s[k].recs[x].d \/ (x = id /\ s[e].recs[id].d /\ to = k)
  BY <1>4 DEF IsDrop
<1>5. /\ \A k \in DOMAIN s : b[k].editable = n[k].editable
      /\ \A k \in DOMAIN s : \A x \in IDs :
           b[k].recs[x].t = n[k].recs[x].t /\ b[k].recs[x].c = n[k].recs[x].c
      /\ \A k \in DOMAIN s : \A x \in IDs \ {id} : b[k].recs[x] = n[k].recs[x]
      /\ \A k \in DOMAIN s : k # at /\ k # i => b[k] = n[k]
      /\ at # 0 => b[at].recs[id].d /\ ~b[i].recs[id].d
  BY <1>3, MovedFacts DEF Alike
<1>6. IsList(b) /\ DOMAIN b = DOMAIN a /\ DOMAIN a = DOMAIN s
  BY <1>3 DEF IsMoved
<1>7. a[e] = s[e] /\ b[e] = n[e]
  BY <1>2, <1>5
<1>8. s[e].recs[id].d => IsMoveTarget(a, e, id, to)
  <2>1. OlderRefs(a, e, id) = OlderRefs(s, e, id)
    <3>1. \A k \in 1..(e - 1) : k \in DOMAIN s
      BY <1>1
    <3> QED  BY <1>2, <3>1 DEF OlderRefs
  <2> QED  BY <1>2, <2>1 DEF IsMoveTarget
<1>9. s[e].recs[id].d => to # i /\ (at # 0 => to # at)
  <2>1. s[e].recs[id].d => to = 0 \/ s[to].recs[id].t = s[e].recs[id].t
    BY DEF IsMoveTarget, OlderRefs
  <2>2. i # 0
    BY Fields
  <2> QED  BY <2>1, <2>2
<1>10. ASSUME NEW k \in DOMAIN s, NEW x \in IDs, ~(k = e /\ x = id)
       PROVE  /\ b[k].recs[x].t = a[k].recs[x].t /\ b[k].recs[x].c = a[k].recs[x].c
              /\ b[k].recs[x].d <=> a[k].recs[x].d \/ (x = id /\ a[e].recs[id].d /\ to = k)
  <2>1. b[k].recs[x].t = a[k].recs[x].t /\ b[k].recs[x].c = a[k].recs[x].c
    BY <1>2, <1>4, <1>5, <1>10
  <2>2. b[k].recs[x].d <=> a[k].recs[x].d \/ (x = id /\ a[e].recs[id].d /\ to = k)
    <3>1. CASE x # id
      BY <1>2, <1>4, <1>5, <3>1
    <3>2. CASE x = id /\ at # 0 /\ k = at
      BY <1>2, <1>5, <3>2
    <3>3. CASE x = id /\ at # 0 /\ k = i
      BY <1>2, <1>5, <1>7, <1>9, <3>3
    <3>4. CASE x = id /\ ~(at # 0 /\ (k = at \/ k = i))
      <4>1. b[k] = n[k] /\ a[k] = s[k]
        BY <1>2, <1>5, <3>4 DEF IsMoved
      <4> QED  BY <1>4, <1>7, <1>10, <4>1
    <3> QED  BY <3>1, <3>2, <3>3, <3>4
  <2> QED  BY <2>1, <2>2
<1>11. IsDrop(a, e, id, to, b)
  BY <1>2, <1>3, <1>5, <1>6, <1>7, <1>10 DEF IsDrop
<1> QED  BY <1>7, <1>8, <1>11

\* The template enters a newer snapshot, without a flag, which then owns it.
LEMMA MovedAdd ==
  ASSUME NEW s, IsList(s), NEW i \in DOMAIN s, NEW id \in IDs,
         NEW at, at = 0 \/ (at \in DOMAIN s /\ at # i), NEW a, IsMoved(s, i, id, at, a),
         at # 0 => ~s[at].recs[id].d /\ s[at].recs[id].t = s[i].recs[id].t,
         NEW e \in DOMAIN s, e # i, e # at, e # 0,
         NEW n, IsSet(s, e, id, s[i].recs[id].t, n), ~n[e].recs[id].c,
         NEW b, IsMoved(n, i, id, e, b)
  PROVE  IsSpread(a, IF at = 0 THEN i ELSE at, id, {e}, e, b)
<1> DEFINE o == IF at = 0 THEN i ELSE at
<1>1. o \in DOMAIN s /\ o # e /\ s[o].recs[id].t = s[i].recs[id].t
  OBVIOUS
<1> HIDE DEF o
<1>2. Alike(s, i, id, at, a)
  BY MovedFacts
<1>3. /\ \A k \in DOMAIN s : a[k].editable = s[k].editable
      /\ \A k \in DOMAIN s : \A x \in IDs :
           a[k].recs[x].t = s[k].recs[x].t /\ a[k].recs[x].c = s[k].recs[x].c
      /\ \A k \in DOMAIN s : \A x \in IDs \ {id} : a[k].recs[x] = s[k].recs[x]
      /\ \A k \in DOMAIN s : k # at /\ k # i => a[k] = s[k]
      /\ at # 0 => a[at].recs[id].d /\ ~a[i].recs[id].d
  BY <1>2 DEF Alike
<1>4. /\ IsList(n) /\ DOMAIN n = DOMAIN s
      /\ \A k \in DOMAIN s : n[k].editable = s[k].editable
      /\ \A k \in DOMAIN s : k # e => n[k] = s[k]
      /\ \A x \in IDs \ {id} : n[e].recs[x] = s[e].recs[x]
      /\ n[e].recs[id].t = s[i].recs[id].t
  BY DEF IsSet
<1>5. Alike(n, i, id, e, b)
  BY <1>4, MovedFacts
<1>6. /\ \A k \in DOMAIN s : b[k].editable = n[k].editable
      /\ \A k \in DOMAIN s : \A x \in IDs :
           b[k].recs[x].t = n[k].recs[x].t /\ b[k].recs[x].c = n[k].recs[x].c
      /\ \A k \in DOMAIN s : \A x \in IDs \ {id} : b[k].recs[x] = n[k].recs[x]
      /\ \A k \in DOMAIN s : k # e /\ k # i => b[k] = n[k]
      /\ b[e].recs[id].d /\ ~b[i].recs[id].d
  BY <1>4, <1>5 DEF Alike
<1>7. IsList(b) /\ DOMAIN b = DOMAIN a /\ DOMAIN a = DOMAIN s
  BY <1>4 DEF IsMoved
<1>8. /\ b[e].recs[id].t = a[o].recs[id].t /\ ~b[e].recs[id].c /\ b[e].recs[id].d
  BY <1>1, <1>3, <1>4, <1>6
<1>9. b[o].recs[id].t = a[o].recs[id].t /\ b[o].recs[id].c = a[o].recs[id].c
  BY <1>1, <1>3, <1>4, <1>6
<1>10. ~b[o].recs[id].d
  <2>1. CASE at = 0
    BY <1>6, <2>1 DEF o
  <2>2. CASE at # 0
    <3>1. b[at] = n[at] /\ n[at] = s[at]
      BY <1>4, <1>6, <2>2
    <3> QED  BY <2>2, <3>1 DEF o
  <2> QED  BY <2>1, <2>2
<1>11. ASSUME NEW k \in DOMAIN s, NEW x \in IDs, ~(k \in {e} \cup {o} /\ x = id)
      PROVE  b[k].recs[x] = a[k].recs[x]
  <2>1. CASE x # id
    <3>1. b[k].recs[x] = n[k].recs[x] /\ a[k].recs[x] = s[k].recs[x]
      BY <1>3, <1>6, <2>1
    <3>2. n[k].recs[x] = s[k].recs[x]
      BY <1>4, <2>1
    <3> QED  BY <3>1, <3>2
  <2>2. CASE x = id /\ k # e /\ k # o /\ k # i
    <3>1. b[k] = n[k] /\ n[k] = s[k]
      BY <1>4, <1>6, <2>2
    <3>2. a[k] = s[k]
      <4>1. CASE at = 0
        BY <4>1 DEF IsMoved
      <4>2. CASE at # 0
        BY <1>3, <2>2, <4>2 DEF o
      <4> QED  BY <4>1, <4>2
    <3> QED  BY <3>1, <3>2
  <2>3. CASE x = id /\ k = i /\ i # o
    <3>1. at # 0 /\ n[i] = s[i]
      BY <1>4, <2>3 DEF o
    <3>2. b[i] = WithFlag(n[i], id, FALSE) /\ a[i] = WithFlag(s[i], id, FALSE)
      BY <3>1 DEF IsMoved
    <3> QED  BY <2>3, <3>1, <3>2
  <2> QED  BY <1>11, <2>1, <2>2, <2>3
<1>12. \A k \in DOMAIN s : b[k].editable = a[k].editable
  BY <1>3, <1>4, <1>6
<1>13. IsSpread(a, o, id, {e}, e, b)
  BY <1>7, <1>8, <1>9, <1>10, <1>11, <1>12 DEF IsSpread
<1> QED  BY <1>13 DEF o

\* Template t of snapshot i is being carried on; it is in snapshot at (0: in no
\* newer one yet), and the walk has got to snapshot j.
Carrying(m, i, id, t, at, j) ==
  /\ DOMAIN m = ManagerFields /\ IsList(m.snaps) /\ Starts(m.snaps) /\ IsGarbage(m.trash)
  /\ m.cur \in Nat /\ j \in Nat /\ i < j /\ t \in Addrs
  /\ i \in DOMAIN m.snaps /\ ~m.snaps[i].editable
  /\ m.snaps[i].recs[id].t = t /\ m.snaps[i].recs[id].d
  /\ at = 0 \/ /\ at \in DOMAIN m.snaps /\ i < at /\ at < j /\ m.snaps[at].recs[id].t = t
               /\ ~m.snaps[at].recs[id].c /\ ~m.snaps[at].recs[id].d

\* What the list is like once the Delete flag is moved.
LEMMA CarryingFields ==
  ASSUME NEW m, NEW i, NEW id \in IDs, NEW t, NEW at, NEW j, Carrying(m, i, id, t, at, j),
         NEW a, a = MoveOwner(m, i, id, at)
  PROVE  /\ at = 0 \/ (at \in DOMAIN m.snaps /\ at # i)
         /\ at < j /\ at \in Nat /\ i \in Nat
         /\ IsMoved(m.snaps, i, id, at, a.snaps) /\ Alike(m.snaps, i, id, at, a.snaps)
         /\ Rest(m, a) /\ a.tm = m.tm /\ a.trash = m.trash /\ a.cur = m.cur
<1>1. DOMAIN m = ManagerFields /\ IsList(m.snaps) /\ i \in DOMAIN m.snaps /\ i < j /\ j \in Nat
  BY DEF Carrying
<1>2. DOMAIN m.snaps = 1..Len(m.snaps) /\ Len(m.snaps) \in Nat
  BY <1>1, ListLen
<1>3. at = 0 \/ (at \in DOMAIN m.snaps /\ i < at /\ at < j)
  BY DEF Carrying
<1>4. at = 0 \/ (at \in DOMAIN m.snaps /\ at # i)
  BY <1>1, <1>2, <1>3
<1>5. at < j /\ at \in Nat /\ i \in Nat
  BY <1>1, <1>2, <1>3
<1>6. /\ IsMoved(m.snaps, i, id, at, a.snaps) /\ Rest(m, a) /\ a.tm = m.tm
      /\ a.trash = m.trash /\ a.cur = m.cur
  BY <1>1, <1>4, MoveOwnerFields
<1>7. Alike(m.snaps, i, id, at, a.snaps)
  BY <1>1, <1>4, <1>6, MovedFacts
<1> QED  BY <1>4, <1>5, <1>6, <1>7

\* The other records of snapshot i stay.
OthersStay(s, n, i, id) ==
  \A x \in IDs \ {id} : /\ n[i].recs[x].t = s[i].recs[x].t /\ n[i].recs[x].c = s[i].recs[x].c
                        /\ n[i].recs[x].d <=> s[i].recs[x].d

\* Snapshot j is made editable.
LEMMA CarryEdit ==
  ASSUME NEW m, NEW X, NEW i, NEW id \in IDs, NEW t, NEW at, NEW j,
         Carrying(m, i, id, t, at, j), j \in DOMAIN m.snaps,
         NEW a, a = MoveOwner(m, i, id, at), Good(a, X),
         NEW n, NEW e, IsEdited(m, j, n, e), NEW b, b = MoveOwner(n, i, id, at)
  PROVE  /\ Carrying(n, i, id, t, at, e) /\ Good(b, X) /\ Keeps(a, b)
         /\ OthersStay(m.snaps, n.snaps, i, id)
<1>1. CASE n = m /\ e = j
  BY <1>1, KeepsItself DEF OthersStay
<1>2. CASE /\ ~m.snaps[j].editable /\ e = j + 1 /\ IsCloned(m, j, n)
           /\ IsClone(m.snaps, j, {}, n.snaps) /\ n.cur = IF m.cur > j THEN m.cur + 1 ELSE m.cur
  <2> DEFINE s == m.snaps
             ns == n.snaps
  <2>1. /\ DOMAIN m = ManagerFields /\ IsList(s) /\ Starts(s) /\ IsGarbage(m.trash)
        /\ m.cur \in Nat /\ j \in Nat /\ i < j /\ i \in DOMAIN s /\ j \in DOMAIN s
        /\ IsClone(s, j, {}, ns)
    BY <1>2 DEF Carrying
  <2>2. /\ at = 0 \/ (at \in DOMAIN s /\ at # i)
        /\ at < j /\ at \in Nat /\ i \in Nat
        /\ IsMoved(s, i, id, at, a.snaps) /\ Alike(s, i, id, at, a.snaps)
        /\ Rest(m, a) /\ a.tm = m.tm /\ a.trash = m.trash
    BY CarryingFields
  <2>3. /\ Rest(m, n) /\ n.tm = m.tm /\ n.trash = m.trash
        /\ SameView(s[j], ns[j]) /\ "start" \in DOMAIN ns[j + 1]
    BY <1>2 DEF IsCloned
  <2>4. Len(s) \in Nat /\ DOMAIN s = 1..Len(s)
    BY <2>1, ListLen
  <2> HIDE DEF s, ns
  <2>5. /\ IsList(ns) /\ DOMAIN ns = 1..(Len(s) + 1) /\ \A k \in 1..(j - 1) : ns[k] = s[k]
    BY <2>1 DEF IsClone
  <2>6. ns[i] = s[i] /\ (at # 0 => ns[at] = s[at]) /\ i \in DOMAIN ns /\ (at # 0 => at \in DOMAIN ns)
    BY <2>1, <2>2, <2>4, <2>5
  <2>7. Starts(ns)
    BY <2>1, <2>3, CloneStays
  <2>8. Carrying(n, i, id, t, at, e)
    <3>1. /\ n.cur \in Nat /\ e \in Nat /\ i < e /\ at < e
      BY <1>2, <2>1, <2>2
    <3>2. DOMAIN n = ManagerFields /\ IsGarbage(n.trash)
      BY <2>1, <2>3 DEF Rest
    <3> QED  BY <2>5, <2>6, <2>7, <3>1, <3>2 DEF Carrying, s, ns
  <2>9. /\ IsMoved(ns, i, id, at, b.snaps) /\ Rest(n, b) /\ b.tm = n.tm /\ b.trash = n.trash
    BY <2>8, CarryingFields DEF ns
  <2>10. /\ IsClone(a.snaps, j, {}, b.snaps) /\ SameView(a.snaps[j], b.snaps[j])
         /\ b.snaps[j + 1] = ns[j + 1] /\ a.snaps[j] = s[j]
    BY <2>1, <2>2, <2>3, <2>9, MovedClone
  <2>11. Rest(a, b) /\ b.tm = a.tm /\ b.trash = a.trash
    BY <2>2, <2>3, <2>9 DEF Rest
  <2>12. IsCloned(a, j, b)
    BY <2>3, <2>10, <2>11 DEF IsCloned
  <2>13. ~a.snaps[j].editable /\ j \in DOMAIN a.snaps
    BY <1>2, <2>1, <2>2, <2>10 DEF s, IsMoved
  <2>14. Good(b, X) /\ Keeps(a, b)
    BY <2>12, <2>13, CloneStep
  <2>15. OthersStay(s, ns, i, id)
    BY <2>6 DEF OthersStay
  <2> QED  BY <2>8, <2>14, <2>15 DEF s, ns
<1> QED  BY <1>1, <1>2 DEF IsEdited

\* The template is the newest one of its ID below the walk.
LEMMA CarriedIsNewest ==
  ASSUME NEW m, NEW X, NEW i, NEW id \in IDs, NEW t, NEW at, NEW j,
         Carrying(m, i, id, t, at, j), NEW a, a = MoveOwner(m, i, id, at), Good(a, X),
         NEW e \in DOMAIN m.snaps, j <= e
  PROVE  m.snaps[e].recs[id].t # t
<1> SUFFICES ASSUME m.snaps[e].recs[id].t = t PROVE FALSE
  OBVIOUS
<1>1. /\ IsMoved(m.snaps, i, id, at, a.snaps) /\ Alike(m.snaps, i, id, at, a.snaps)
      /\ at < j /\ at \in Nat /\ i \in Nat
  BY CarryingFields
<1>2. /\ IsList(m.snaps) /\ i \in DOMAIN m.snaps /\ i < j /\ j \in Nat /\ t \in Addrs
      /\ m.snaps[i].recs[id].t = t /\ m.snaps[i].recs[id].d
      /\ at # 0 => at \in DOMAIN m.snaps /\ m.snaps[at].recs[id].t = t
  BY DEF Carrying
<1>3. e \in Nat /\ i < e /\ at < e
  BY <1>1, <1>2, Fields
<1>4. DOMAIN a.snaps = DOMAIN m.snaps /\ \A k \in DOMAIN m.snaps : a.snaps[k].recs[id].t = m.snaps[k].recs[id].t
  BY <1>1 DEF IsMoved, Alike
<1>5. OwnerIsNewest(a.snaps)
  BY GoodFacts DEF ListInv
<1>6. CASE at = 0
  <2>1. a.snaps = m.snaps
    BY <1>1, <1>6 DEF IsMoved
  <2>2. Same(a.snaps, i, e, id)
    BY <1>2, <2>1, NoTmpltAssumption DEF Same, Has
  <2> QED  BY <1>2, <1>3, <1>5, <2>1, <2>2 DEF OwnerIsNewest
<1>7. CASE at # 0
  <2>1. a.snaps[at].recs[id].d
    BY <1>1, <1>7 DEF Alike
  <2>2. Same(a.snaps, at, e, id)
    BY <1>2, <1>4, <1>7, NoTmpltAssumption DEF Same, Has
  <2> QED  BY <1>2, <1>3, <1>4, <1>5, <1>7, <2>1, <2>2 DEF OwnerIsNewest
<1> QED  BY <1>6, <1>7

\* The record it has for the ID is removed.
LEMMA CarryRemove ==
  ASSUME NEW m, NEW X, NEW i, NEW id \in IDs, NEW t, NEW at, NEW e,
         Carrying(m, i, id, t, at, e), e \in DOMAIN m.snaps, m.snaps[e].editable,
         Has(m.snaps[e], id), NEW a, a = MoveOwner(m, i, id, at), Good(a, X),
         NEW n, n = TemplateRemove(m, e, id), NEW b, b = MoveOwner(n, i, id, at)
  PROVE  /\ Carrying(n, i, id, t, at, e) /\ Good(b, X) /\ Keeps(a, b)
         /\ OthersStay(m.snaps, n.snaps, i, id)
         /\ e \in DOMAIN n.snaps /\ n.snaps[e].editable /\ ~Has(n.snaps[e], id)
         /\ Behind(m, n, i)
<1> DEFINE s == m.snaps
           ns == n.snaps
           r == s[e].recs[id]
<1>1. /\ DOMAIN m = ManagerFields /\ IsList(s) /\ Starts(s) /\ IsGarbage(m.trash)
      /\ m.cur \in Nat /\ e \in Nat /\ i < e /\ i \in DOMAIN s /\ e \in DOMAIN s /\ t \in Addrs
      /\ ~s[i].editable /\ s[i].recs[id].t = t /\ s[i].recs[id].d
      /\ at # 0 => /\ at \in DOMAIN s /\ s[at].recs[id].t = t
                   /\ ~s[at].recs[id].c /\ ~s[at].recs[id].d
  BY DEF Carrying
<1>2. /\ at = 0 \/ (at \in DOMAIN s /\ at # i)
      /\ at < e /\ at \in Nat /\ i \in Nat
      /\ IsMoved(s, i, id, at, a.snaps) /\ Alike(s, i, id, at, a.snaps)
      /\ Rest(m, a) /\ a.tm = m.tm /\ a.trash = m.trash
  BY CarryingFields
<1>3. IsRemoved(m, e, id, n) /\ n.cur = m.cur
  BY <1>1, RemoveFields
<1>4. PICK j : /\ r.d => IsMoveTarget(s, e, id, j)
               /\ IsDrop(s, e, id, j, ns)
               /\ ~r.d \/ j # 0 => n.tm = m.tm /\ n.trash = m.trash
               /\ r.d /\ j = 0 /\ r.c =>
                    n.tm = [u \in DOMAIN m.tm \ {r.t} |-> m.tm[u]] /\ n.trash = m.trash
               /\ r.d /\ j = 0 /\ ~r.c =>
                    /\ n.tm = m.tm
                    /\ n.trash = [own |-> m.trash.own \cup {r.t}, snaps |-> m.trash.snaps]
  BY <1>3 DEF IsRemoved
<1>5. Rest(m, n) /\ SameStarts(s, ns) /\ \A k \in DOMAIN s : k # e => SameView(s[k], ns[k])
  BY <1>3 DEF IsRemoved
<1>6. s[e].recs[id].t # t
  <2>1. e \in DOMAIN m.snaps /\ e <= e
    BY <1>1
  <2> QED  BY <2>1, CarriedIsNewest
<1>7. Len(s) \in Nat /\ i <= Len(s) /\ r.d \in BOOLEAN /\ r.c \in BOOLEAN
  BY <1>1, Fields
<1>8. /\ Behind(m, n, i) /\ IsList(ns) /\ DOMAIN ns = DOMAIN s /\ Starts(ns)
      /\ \A k \in DOMAIN s : ns[k].editable = s[k].editable
  BY <1>1, <1>2, <1>3, <1>7, RemoveBehind
<1> HIDE DEF s, ns, r
<1>9. ~Has(ns[e], id)
  BY <1>4, NoRecFields DEF IsDrop, Has
<1>10. IsGarbage(n.trash)
  BY <1>1, <1>4, <1>7 DEF IsGarbage
<1>11. \A k \in DOMAIN s : \A x \in IDs : ~(k = e /\ x = id) =>
         /\ ns[k].recs[x].t = s[k].recs[x].t /\ ns[k].recs[x].c = s[k].recs[x].c
         /\ ns[k].recs[x].d <=> s[k].recs[x].d \/ (x = id /\ s[e].recs[id].d /\ j = k)
  BY <1>4 DEF IsDrop
<1>12. s[e].recs[id].d => j # i /\ (at # 0 => j # at)
  <2>1. s[e].recs[id].d => j = 0 \/ s[j].recs[id].t = s[e].recs[id].t
    BY <1>4 DEF IsMoveTarget, OlderRefs, r
  <2>2. i # 0
    BY <1>1, Fields
  <2> QED  BY <1>1, <1>6, <2>1, <2>2
<1>13. OthersStay(s, ns, i, id)
  BY <1>1, <1>11 DEF OthersStay
<1>14. Carrying(n, i, id, t, at, e)
  <2>1. ns[i].recs[id].t = t /\ ns[i].recs[id].d /\ ~ns[i].editable
    BY <1>1, <1>2, <1>8, <1>11
  <2>2. at # 0 => ns[at].recs[id].t = t /\ ~ns[at].recs[id].c /\ ~ns[at].recs[id].d /\ i < at
    <3>1. at # 0 => i < at
      BY DEF Carrying
    <3>2. at # 0 => ns[at].recs[id].t = t /\ ~ns[at].recs[id].c /\ ~ns[at].recs[id].d
      BY <1>1, <1>2, <1>11, <1>12
    <3> QED  BY <3>1, <3>2
  <2>3. DOMAIN n = ManagerFields /\ n.cur \in Nat
    BY <1>1, <1>3, <1>5 DEF Rest
  <2> QED  BY <1>1, <1>2, <1>8, <1>10, <2>1, <2>2, <2>3 DEF Carrying, ns
<1>15. /\ IsMoved(ns, i, id, at, b.snaps) /\ Alike(ns, i, id, at, b.snaps)
       /\ Rest(n, b) /\ b.tm = n.tm /\ b.trash = n.trash
  BY <1>14, CarryingFields DEF ns
<1>16. /\ IsDrop(a.snaps, e, id, j, b.snaps) /\ a.snaps[e] = s[e] /\ b.snaps[e] = ns[e]
       /\ a.snaps[e].recs[id].d => IsMoveTarget(a.snaps, e, id, j)
  <2>1. e # i /\ e # at /\ s[i].recs[id].t # s[e].recs[id].t /\ (at # 0 => s[at].recs[id].t # s[e].recs[id].t)
    BY <1>1, <1>2, <1>6
  <2>2. s[e].recs[id].d => IsMoveTarget(s, e, id, j)
    BY <1>4 DEF r
  <2>3. IsDrop(s, e, id, j, ns)
    BY <1>4
  <2> QED  BY <1>1, <1>2, <1>15, <2>1, <2>2, <2>3, MovedDrop
<1>17. DOMAIN a.snaps = DOMAIN s /\ DOMAIN b.snaps = DOMAIN s
  BY <1>2, <1>8, <1>15 DEF IsMoved
<1>18. \A k \in DOMAIN s : SameView(s[k], a.snaps[k]) /\ SameView(ns[k], b.snaps[k])
  BY <1>2, <1>8, <1>15 DEF Alike
<1>19. SameStarts(a.snaps, b.snaps)
  BY <1>1, <1>5, <1>8, <1>17, <1>18 DEF SameStarts, SameView, SameRest, Starts
<1>20. \A k \in DOMAIN s : k # e => SameView(a.snaps[k], b.snaps[k])
  BY <1>5, <1>18 DEF SameView, SameRest
<1>21. Rest(a, b)
  BY <1>2, <1>5, <1>15 DEF Rest
<1>22. IsRemoved(a, e, id, b)
  <2> DEFINE q == a.snaps[e].recs[id]
  <2>1. q = r /\ a.tm = m.tm /\ a.trash = m.trash /\ b.tm = n.tm /\ b.trash = n.trash
    BY <1>2, <1>15, <1>16 DEF r
  <2> HIDE DEF q
  <2>2. /\ q.d => IsMoveTarget(a.snaps, e, id, j)
        /\ IsDrop(a.snaps, e, id, j, b.snaps)
        /\ ~q.d \/ j # 0 => b.tm = a.tm /\ b.trash = a.trash
        /\ q.d /\ j = 0 /\ q.c =>
             b.tm = [u \in DOMAIN a.tm \ {q.t} |-> a.tm[u]] /\ b.trash = a.trash
        /\ q.d /\ j = 0 /\ ~q.c =>
             /\ b.tm = a.tm
             /\ b.trash = [own |-> a.trash.own \cup {q.t}, snaps |-> a.trash.snaps]
    <3>1. q.d => IsMoveTarget(a.snaps, e, id, j)
      BY <1>16 DEF q
    <3>2. IsDrop(a.snaps, e, id, j, b.snaps)
      BY <1>16
    <3> QED  BY <1>4, <2>1, <3>1, <3>2, Zenon
  <2> QED  BY <1>17, <1>19, <1>20, <1>21, <2>2 DEF IsRemoved, q
<1>23. e \in DOMAIN a.snaps /\ a.snaps[e].editable /\ Has(a.snaps[e], id)
  BY <1>1, <1>16, <1>17 DEF s
<1>24. Good(b, X) /\ Keeps(a, b)
  BY <1>22, <1>23, RemoveStep
<1>25. e \in DOMAIN ns /\ ns[e].editable
  BY <1>1, <1>8 DEF s
<1> QED  BY <1>8, <1>9, <1>13, <1>14, <1>24, <1>25 DEF s, ns

\* It gets the template.
LEMMA CarryAdd ==
  ASSUME NEW m, NEW X, NEW i, NEW id \in IDs, NEW t, NEW at, NEW e,
         Carrying(m, i, id, t, at, e), e \in DOMAIN m.snaps, m.snaps[e].editable,
         ~Has(m.snaps[e], id), NEW a, a = MoveOwner(m, i, id, at), Good(a, X),
         NEW r, r.t = t, ~r.c, ~r.d,
         NEW n, IsAdded(m, e, id, r, n), n.cur = m.cur, NEW b, b = MoveOwner(n, i, id, e)
  PROVE  /\ Carrying(n, i, id, t, e, e + 1) /\ Good(b, X) /\ Keeps(a, b)
         /\ OthersStay(m.snaps, n.snaps, i, id) /\ Behind(m, n, i)
<1> DEFINE s == m.snaps
           ns == n.snaps
           o == IF at = 0 THEN i ELSE at
<1> HIDE DEF o
<1>1. /\ DOMAIN m = ManagerFields /\ IsList(s) /\ Starts(s) /\ IsGarbage(m.trash)
      /\ m.cur \in Nat /\ e \in Nat /\ i < e /\ i \in DOMAIN s /\ e \in DOMAIN s /\ t \in Addrs
      /\ ~s[i].editable /\ s[i].recs[id].t = t /\ s[i].recs[id].d
      /\ at # 0 => /\ at \in DOMAIN s /\ s[at].recs[id].t = t
                   /\ ~s[at].recs[id].c /\ ~s[at].recs[id].d
  BY DEF Carrying
<1>2. /\ at = 0 \/ (at \in DOMAIN s /\ at # i)
      /\ at < e /\ at \in Nat /\ i \in Nat
      /\ IsMoved(s, i, id, at, a.snaps) /\ Alike(s, i, id, at, a.snaps)
      /\ Rest(m, a) /\ a.tm = m.tm /\ a.trash = m.trash
  BY CarryingFields
<1> HIDE DEF s, ns
<1>3. /\ Rest(m, n) /\ n.tm = m.tm /\ n.trash = m.trash /\ SameStarts(s, ns)
      /\ \A k \in DOMAIN s : k # e => SameView(s[k], ns[k])
      /\ IsSet(s, e, id, t, ns) /\ ns[e].recs[id] = r
  BY DEF IsAdded, s, ns
<1>4. Len(s) \in Nat /\ i <= Len(s)
  BY <1>1, <1>2, ListLen
<1>5. /\ Behind(m, n, i) /\ IsList(ns) /\ DOMAIN ns = DOMAIN s /\ Starts(ns)
      /\ \A k \in DOMAIN s : ns[k].editable = s[k].editable
  <2>1. IsList(m.snaps) /\ e \in DOMAIN m.snaps /\ i \in Nat /\ i <= Len(m.snaps)
    BY <1>1, <1>2, <1>4 DEF s
  <2>2. /\ Behind(m, n, i) /\ Len(n.snaps) = Len(m.snaps) /\ IsList(n.snaps)
        /\ DOMAIN n.snaps = DOMAIN m.snaps /\ Starts(n.snaps)
        /\ \A k \in DOMAIN m.snaps : n.snaps[k].editable = m.snaps[k].editable
    BY <2>1, AddBehind
  <2> QED  BY <2>2 DEF s, ns
<1>6. \A k \in DOMAIN s : k # e => ns[k] = s[k]
  BY <1>3 DEF IsSet
<1>7. ns[i] = s[i] /\ ns[e].recs[id].t = t /\ ~ns[e].recs[id].c /\ ~ns[e].recs[id].d
  BY <1>1, <1>2, <1>3, <1>6
<1>8. OthersStay(s, ns, i, id)
  BY <1>7 DEF OthersStay
<1>9. Carrying(n, i, id, t, e, e + 1)
  <2>1. DOMAIN n = ManagerFields /\ n.cur \in Nat /\ IsGarbage(n.trash)
    BY <1>1, <1>3 DEF Rest
  <2>2. e + 1 \in Nat /\ i < e + 1 /\ e < e + 1
    BY <1>1, <1>2
  <2>3. e \in DOMAIN ns /\ i \in DOMAIN ns
    BY <1>1, <1>5
  <2> QED  BY <1>1, <1>5, <1>7, <2>1, <2>2, <2>3 DEF Carrying, ns
<1>10. /\ IsMoved(ns, i, id, e, b.snaps) /\ Alike(ns, i, id, e, b.snaps)
       /\ Rest(n, b) /\ b.tm = n.tm /\ b.trash = n.trash
  <2> DEFINE j == e + 1
  <2>1. Carrying(n, i, id, t, e, j)
    BY <1>9
  <2> HIDE DEF j
  <2>2. /\ IsMoved(n.snaps, i, id, e, b.snaps) /\ Alike(n.snaps, i, id, e, b.snaps)
        /\ Rest(n, b) /\ b.tm = n.tm /\ b.trash = n.trash
    BY <2>1, CarryingFields
  <2> QED  BY <2>2 DEF ns
<1>11. e # i /\ e # at /\ e # 0
  BY <1>1, <1>2
<1>12. IsSpread(a.snaps, o, id, {e}, e, b.snaps)
  <2>1. at # 0 => ~s[at].recs[id].d /\ s[at].recs[id].t = s[i].recs[id].t
    BY <1>1
  <2>2. IsSet(s, e, id, s[i].recs[id].t, ns)
    BY <1>1, <1>3
  <2> QED  BY <1>1, <1>2, <1>7, <1>10, <1>11, <2>1, <2>2, MovedAdd DEF o
<1>13. DOMAIN a.snaps = DOMAIN s /\ DOMAIN b.snaps = DOMAIN s
  BY <1>2, <1>5, <1>10 DEF IsMoved
<1>14. \A k \in DOMAIN s : SameView(s[k], a.snaps[k]) /\ SameView(ns[k], b.snaps[k])
  BY <1>2, <1>5, <1>10 DEF Alike
<1>15. SameStarts(a.snaps, b.snaps)
  BY <1>1, <1>3, <1>5, <1>13, <1>14 DEF SameStarts, SameView, SameRest, Starts
<1>16. \A k \in DOMAIN a.snaps : k \notin {e} => SameView(a.snaps[k], b.snaps[k])
  <2>1. \A k \in DOMAIN s : k # e => SameView(a.snaps[k], b.snaps[k])
    BY <1>3, <1>14 DEF SameView, SameRest
  <2> QED  BY <1>13, <2>1
<1>17. Rest(a, b) /\ b.tm = a.tm /\ b.trash = a.trash
  BY <1>2, <1>3, <1>10 DEF Rest
<1>18. IsCarried(a, o, id, {e}, e, b)
  BY <1>12, <1>15, <1>16, <1>17 DEF IsCarried
<1>19. /\ o \in DOMAIN a.snaps /\ a.snaps[o].recs[id].d
       /\ ~(a.snaps[o].editable /\ a.snaps[o].recs[id].c) /\ o < e
  <2>1. CASE at = 0
    <3>1. a.snaps = s /\ o = i
      BY <1>2, <2>1 DEF IsMoved, o
    <3> QED  BY <1>1, <3>1
  <2>2. CASE at # 0
    <3>1. o = at /\ a.snaps[at].recs[id].d
      BY <1>2, <2>2 DEF Alike, o
    <3>2. a.snaps[at].recs[id].c = s[at].recs[id].c /\ at \in DOMAIN s
      BY <1>1, <1>2, <2>2 DEF Alike
    <3> QED  BY <1>1, <1>2, <1>13, <2>2, <3>1, <3>2
  <2> QED  BY <2>1, <2>2
<1>20. e \in DOMAIN a.snaps /\ ~Has(a.snaps[e], id) /\ a.snaps[e].editable
  <2>1. a.snaps[e] = s[e]
    BY <1>1, <1>2, <1>11 DEF Alike
  <2> QED  BY <1>1, <1>13, <2>1 DEF s
<1>21. Good(b, X) /\ Keeps(a, b)
  <2> DEFINE J == {e}
  <2>1. J \in SUBSET DOMAIN a.snaps /\ \A j \in J : j > o /\ ~Has(a.snaps[j], id) /\ a.snaps[j].editable
    BY <1>19, <1>20
  <2>2. e \in J /\ \A j \in J : j <= e
    BY <1>1
  <2>3. IsCarried(a, o, id, J, e, b)
    BY <1>18
  <2> HIDE DEF J
  <2> QED  BY <1>19, <2>1, <2>2, <2>3, CarryStep
<1> QED  BY <1>5, <1>8, <1>9, <1>21 DEF s, ns

\* The record mgr_snap_template_add_ref() adds.
LEMMA AddedRecord ==
  ASSUME NEW m, DOMAIN m = ManagerFields, IsList(m.snaps), Starts(m.snaps),
         NEW i \in DOMAIN m.snaps, NEW id \in IDs, NEW t \in Addrs,
         NEW c \in BOOLEAN, NEW d \in BOOLEAN, NEW n, n = AddRef(m, i, id, t, c, d)
  PROVE  \E r : r.t = t /\ (r.c <=> c) /\ (r.d <=> d) /\ IsAdded(m, i, id, r, n) /\ n.cur = m.cur
<1> DEFINE r == Rec(t, c, d)
<1>1. r.t = t /\ (r.c <=> c) /\ (r.d <=> d)
  BY DEF Rec
<1>2. IsAdded(m, i, id, r, n) /\ n.cur = m.cur
  BY AddRefFields
<1> HIDE DEF r
<1> QED  BY <1>1, <1>2

AddPlain(m, i, id, t) == AddRef(m, i, id, t, FALSE, FALSE)

\* A reference without flags.
LEMMA AddedPlain ==
  ASSUME NEW m, DOMAIN m = ManagerFields, IsList(m.snaps), Starts(m.snaps),
         NEW i \in DOMAIN m.snaps, NEW id \in IDs, NEW t \in Addrs,
         NEW n, n = AddPlain(m, i, id, t)
  PROVE  \E r : r.t = t /\ ~r.c /\ ~r.d /\ IsAdded(m, i, id, r, n) /\ n.cur = m.cur
<1> DEFINE no == FALSE
<1>1. n = AddRef(m, i, id, t, no, no)
  BY DEF AddPlain
<1>2. no \in BOOLEAN /\ ~no
  OBVIOUS
<1> HIDE DEF no
<1>3. \E r : r.t = t /\ (r.c <=> no) /\ (r.d <=> no) /\ IsAdded(m, i, id, r, n) /\ n.cur = m.cur
  BY <1>1, <1>2, AddedRecord
<1> QED  BY <1>2, <1>3

\* Two steps that change records of one ID.
LEMMA OthersStayTransitive ==
  ASSUME NEW s, NEW n, NEW p, NEW i, NEW id, OthersStay(s, n, i, id), OthersStay(n, p, i, id)
  PROVE  OthersStay(s, p, i, id)
BY DEF OthersStay

\* One snapshot more: the part of PropagateTo that changes the list.
CarryTo(m, j, id, t) ==
  LET e  == EditIdx(m, j)
      m1 == SnapEdit(m, j)
      m2 == IF Has(m.snaps[j], id) THEN TemplateRemove(m1, e, id) ELSE m1
  IN  AddRef(m2, e, id, t, FALSE, FALSE)

\* The whole round for a snapshot that gets the template.
LEMMA CarryOne ==
  ASSUME NEW m, NEW X, NEW i, NEW id \in IDs, NEW t, NEW at, NEW j,
         Carrying(m, i, id, t, at, j), j \in DOMAIN m.snaps,
         NEW a, a = MoveOwner(m, i, id, at), Good(a, X),
         NEW n, n = CarryTo(m, j, id, t), NEW e, e = EditIdx(m, j),
         NEW b, b = MoveOwner(n, i, id, e)
  PROVE  /\ Carrying(n, i, id, t, e, e + 1) /\ Good(b, X) /\ Keeps(a, b)
         /\ OthersStay(m.snaps, n.snaps, i, id) /\ Behind(m, n, i)
<1> DEFINE m1 == SnapEdit(m, j)
           m2 == IF Has(m.snaps[j], id) THEN TemplateRemove(m1, e, id) ELSE m1
           b1 == MoveOwner(m1, i, id, at)
           b2 == MoveOwner(m2, i, id, at)
<1>1. /\ DOMAIN m = ManagerFields /\ IsList(m.snaps) /\ Starts(m.snaps) /\ m.cur \in Nat
      /\ t \in Addrs /\ j \in Nat /\ i < j /\ i \in DOMAIN m.snaps
  BY DEF Carrying
<1>2. i \in Nat /\ i <= j
  BY <1>1, Fields
<1>3. IsEdited(m, j, m1, e)
  BY <1>1, EditFields
<1>4. n = AddPlain(m2, e, id, t)
  BY DEF CarryTo, AddPlain
<1>5. m2 = IF Has(m.snaps[j], id) THEN TemplateRemove(m1, e, id) ELSE m1
  OBVIOUS
<1>6. b1 = MoveOwner(m1, i, id, at) /\ b2 = MoveOwner(m2, i, id, at)
  OBVIOUS
<1> HIDE DEF m1, m2, b1, b2
<1>7. /\ Carrying(m1, i, id, t, at, e) /\ Good(b1, X) /\ Keeps(a, b1)
      /\ OthersStay(m.snaps, m1.snaps, i, id)
  BY <1>3, <1>6, CarryEdit
<1>8. /\ e \in DOMAIN m1.snaps /\ m1.snaps[e].editable
      /\ \A x \in IDs : m1.snaps[e].recs[x].t = m.snaps[j].recs[x].t
  BY <1>1, <1>3, EditShape
<1>9. Behind(m, m1, i)
  BY <1>1, <1>2, <1>3, EditBehind
<1>10. Has(m1.snaps[e], id) <=> Has(m.snaps[j], id)
  BY <1>8 DEF Has
<1>11. /\ Carrying(m2, i, id, t, at, e) /\ Good(b2, X) /\ Keeps(b1, b2)
       /\ OthersStay(m1.snaps, m2.snaps, i, id)
       /\ e \in DOMAIN m2.snaps /\ m2.snaps[e].editable /\ ~Has(m2.snaps[e], id)
       /\ Behind(m1, m2, i)
  <2>1. CASE Has(m.snaps[j], id)
    <3>1. m2 = TemplateRemove(m1, e, id)
      BY <1>5, <2>1
    <3>2. Has(m1.snaps[e], id)
      BY <1>10, <2>1
    <3> QED  BY <1>6, <1>7, <1>8, <3>1, <3>2, CarryRemove
  <2>2. CASE ~Has(m.snaps[j], id)
    <3>1. m2 = m1 /\ b2 = b1
      BY <1>5, <1>6, <2>2
    <3>2. OthersStay(m1.snaps, m1.snaps, i, id) /\ Keeps(b1, b1)
      BY KeepsItself DEF OthersStay
    <3>3. Behind(m1, m1, i)
      <4>1. IsList(m1.snaps)
        BY <1>7 DEF Carrying
      <4>2. Len(m1.snaps) \in Nat
        BY <4>1, ListLen
      <4> QED  BY <4>2 DEF Behind
    <3> QED  BY <1>7, <1>8, <1>10, <2>2, <3>1, <3>2, <3>3
  <2> QED  BY <2>1, <2>2
<1>12. PICK r : r.t = t /\ ~r.c /\ ~r.d /\ IsAdded(m2, e, id, r, n) /\ n.cur = m2.cur
  <2>1. DOMAIN m2 = ManagerFields /\ IsList(m2.snaps) /\ Starts(m2.snaps)
    BY <1>11 DEF Carrying
  <2>2. t \in Addrs /\ e \in DOMAIN m2.snaps
    BY <1>1, <1>11
  <2> QED  BY <1>4, <2>1, <2>2, AddedPlain
<1> HIDE <1>4
<1>13. /\ Carrying(n, i, id, t, e, e + 1) /\ Good(b, X) /\ Keeps(b2, b)
       /\ OthersStay(m2.snaps, n.snaps, i, id) /\ Behind(m2, n, i)
  BY <1>6, <1>11, <1>12, CarryAdd
<1>14. IsList(m1.snaps) /\ IsList(m2.snaps) /\ IsList(n.snaps)
  BY <1>7, <1>11, <1>13 DEF Carrying
<1>15. Len(m.snaps) \in Nat /\ Len(m1.snaps) \in Nat /\ Len(m2.snaps) \in Nat /\ Len(n.snaps) \in Nat
  BY <1>1, <1>14, ListLen
<1>16. Behind(m, m2, i)
  BY <1>9, <1>11, <1>15, BehindTransitive
<1>17. Behind(m, n, i)
  BY <1>13, <1>15, <1>16, BehindTransitive
<1>18. Keeps(a, b)
  BY <1>7, <1>11, <1>13, KeepsTransitive
<1>19. OthersStay(m.snaps, n.snaps, i, id)
  BY <1>7, <1>11, <1>13, OthersStayTransitive
<1> QED  BY <1>13, <1>17, <1>18, <1>19

\* The propagation of template t of the ID from snapshot i of manager m on.
Riding(p, m, X, i, id, t) ==
  /\ p = [m |-> p.m, id |-> id, t |-> t, j |-> p.j, at |-> p.at]
  /\ Carrying(p.m, i, id, t, p.at, p.j)
  /\ Good(MoveOwner(p.m, i, id, p.at), X) /\ Keeps(m, MoveOwner(p.m, i, id, p.at))
  /\ OthersStay(m.snaps, p.m.snaps, i, id) /\ Behind(m, p.m, i)

\* A snapshot is left out.
LEMMA CarryingLater ==
  ASSUME NEW m, NEW i, NEW id, NEW t, NEW at, NEW j, Carrying(m, i, id, t, at, j),
         NEW k, k = j + 1, i \in Nat
  PROVE  Carrying(m, i, id, t, at, k)
<1>1. at = 0 \/ at \in Nat
  BY Fields DEF Carrying
<1>2. j \in Nat /\ i < j /\ k \in Nat /\ i < k
  BY DEF Carrying
<1>3. at # 0 => at < j /\ at \in Nat
  BY <1>1 DEF Carrying
<1>4. at # 0 => at < k
  BY <1>2, <1>3
<1> QED  BY <1>2, <1>4 DEF Carrying

\* The fields a round writes.
LEMMA RideOn ==
  ASSUME NEW a, NEW id, NEW t, NEW b, NEW c, NEW n, NEW j, NEW at
  PROVE  [[m |-> a, id |-> id, t |-> t, j |-> b, at |-> c] EXCEPT !.m = n, !.j = j, !.at = at]
           = [m |-> n, id |-> id, t |-> t, j |-> j, at |-> at]
<1> DEFINE p == [m |-> a, id |-> id, t |-> t, j |-> b, at |-> c]
           p1 == [p EXCEPT !.m = n]
           p2 == [p1 EXCEPT !.j = j]
<1>1. p1 = [m |-> n, id |-> id, t |-> t, j |-> b, at |-> c]
  OBVIOUS
<1> HIDE DEF p1
<1>2. p2 = [m |-> n, id |-> id, t |-> t, j |-> j, at |-> c]
  BY <1>1
<1> HIDE DEF p2
<1>3. [p2 EXCEPT !.at = at] = [m |-> n, id |-> id, t |-> t, j |-> j, at |-> at]
  BY <1>2
<1> QED  BY <1>3, Zenon DEF p1, p2

\* One round of the loop of mgr_snap_freeze_cb().
LEMMA PropagateRound ==
  ASSUME NEW p, NEW m, NEW X, NEW i \in Nat, NEW id \in IDs, NEW t, Len(m.snaps) \in Nat,
         Riding(p, m, X, i, id, t), ~PropagationEnds(p), NEW q, q = PropagateTo(p)
  PROVE  Riding(q, m, X, i, id, t)
<1> DEFINE e == EditIdx(p.m, p.j)
           n == CarryTo(p.m, p.j, id, t)
           a == MoveOwner(p.m, i, id, p.at)
           b == MoveOwner(n, i, id, e)
<1>1. /\ p = [m |-> p.m, id |-> id, t |-> t, j |-> p.j, at |-> p.at]
      /\ Carrying(p.m, i, id, t, p.at, p.j) /\ Good(a, X) /\ Keeps(m, a)
      /\ OthersStay(m.snaps, p.m.snaps, i, id) /\ Behind(m, p.m, i)
  BY DEF Riding
<1>2. IsList(p.m.snaps) /\ p.j \in Nat /\ i < p.j
  BY <1>1 DEF Carrying
<1>3. Len(p.m.snaps) \in Nat /\ DOMAIN p.m.snaps = 1..Len(p.m.snaps)
  BY <1>2, ListLen
<1>4. p.j \in DOMAIN p.m.snaps
  BY <1>2, <1>3 DEF PropagationEnds, Newest
<1>5. p.id = id /\ p.t = t
  BY <1>1
<1>6. CASE Hidden(p.m, p.j)
  <2>1. q = [p EXCEPT !.j = @ + 1]
    BY <1>6 DEF PropagateTo
  <2>2. /\ q.m = p.m /\ q.at = p.at /\ q.j = p.j + 1
        /\ q = [m |-> q.m, id |-> id, t |-> t, j |-> q.j, at |-> q.at]
    BY <1>1, <2>1
  <2>3. Carrying(q.m, i, id, t, q.at, q.j)
    BY <1>1, <2>2, CarryingLater
  <2> QED  BY <1>1, <2>2, <2>3 DEF Riding
<1>7. CASE ~Hidden(p.m, p.j)
  <2>1. q = [p EXCEPT !.m = CarryTo(p.m, p.j, id, t), !.j = e + 1, !.at = e]
    BY <1>5, <1>7 DEF PropagateTo, CarryTo
  <2>2. n = CarryTo(p.m, p.j, id, t) /\ e = EditIdx(p.m, p.j) /\ b = MoveOwner(n, i, id, e)
        /\ a = MoveOwner(p.m, i, id, p.at)
    OBVIOUS
  <2> HIDE DEF e, n, a, b
  <2>3. q = [p EXCEPT !.m = n, !.j = e + 1, !.at = e]
    BY <2>1, <2>2
  <2>4. q = [m |-> n, id |-> id, t |-> t, j |-> e + 1, at |-> e]
    <3>1. PICK m0, j0, at0 : p = [m |-> m0, id |-> id, t |-> t, j |-> j0, at |-> at0]
      BY <1>1, Zenon
    <3>2. q = [[m |-> m0, id |-> id, t |-> t, j |-> j0, at |-> at0]
                 EXCEPT !.m = n, !.j = e + 1, !.at = e]
      BY <2>3, <3>1, Zenon
    <3> HIDE <3>1
    <3> QED  BY <3>2, RideOn, Zenon
  <2>5. /\ Carrying(n, i, id, t, e, e + 1) /\ Good(b, X) /\ Keeps(a, b)
        /\ OthersStay(p.m.snaps, n.snaps, i, id) /\ Behind(p.m, n, i)
    BY <1>1, <1>4, <2>2, CarryOne
  <2>6. Keeps(m, b) /\ OthersStay(m.snaps, n.snaps, i, id)
    BY <1>1, <2>5, KeepsTransitive, OthersStayTransitive
  <2>7. Behind(m, n, i)
    <3>1. IsList(n.snaps)
      BY <2>5 DEF Carrying
    <3>2. Len(n.snaps) \in Nat
      BY <3>1, ListLen
    <3> QED  BY <1>1, <1>3, <2>5, <3>2, BehindTransitive
  <2> QED  BY <2>2, <2>4, <2>5, <2>6, <2>7 DEF Riding
<1> QED  BY <1>6, <1>7

\* All its rounds.
LEMMA PropagateAll ==
  ASSUME NEW m, NEW X, NEW i \in Nat, NEW id \in IDs, NEW t, Carrying(m, i, id, t, 0, i + 1),
         Good(m, X), NEW p, p = Propagate(m, i, id, t)
  PROVE  Riding(p, m, X, i, id, t)
<1> DEFINE x == [m |-> m, id |-> id, t |-> t, j |-> i + 1, at |-> 0]
           n == Newest(m)
<1>1. n \in Nat /\ Len(m.snaps) \in Nat
  BY GoodFacts, ListLen DEF Newest
<1>2. p = Propagation!Repeat(x, n)
  BY DEF Propagate
<1>3. Riding(x, m, X, i, id, t)
  <2>1. MoveOwner(m, i, id, 0) = m
    BY DEF MoveOwner
  <2>2. Behind(m, m, i) /\ OthersStay(m.snaps, m.snaps, i, id) /\ Keeps(m, m)
    BY <1>1, KeepsItself DEF Behind, OthersStay
  <2> QED  BY <2>1, <2>2 DEF Riding
<1> HIDE DEF x, n
<1>4. PICK S : /\ x \in S
               /\ \A T \in SUBSET S :
                    x \in T /\ (\A y \in T : ~PropagationEnds(y) /\ PropagateTo(y) \in S
                                               => PropagateTo(y) \in T)
                      => Propagation!Repeat(x, n) \in T
  BY <1>1, Propagation!LoopInvariant
<1> DEFINE T == {y \in S : Riding(y, m, X, i, id, t)}
<1>5. x \in T /\ T \in SUBSET S
  BY <1>3, <1>4
<1>6. ASSUME NEW y \in T, ~PropagationEnds(y), PropagateTo(y) \in S
      PROVE  PropagateTo(y) \in T
  BY <1>1, <1>6, PropagateRound
<1>7. Propagation!Repeat(x, n) \in T
  <2> HIDE DEF T
  <2> QED  BY <1>4, <1>5, <1>6
<1> QED  BY <1>2, <1>7

\* An assertion changes nothing else.
LEMMA AssumeFields ==
  ASSUME NEW m, DOMAIN m = ManagerFields, NEW cond, NEW n, n = Assume(m, cond)
  PROVE  /\ DOMAIN n = ManagerFields /\ n.snaps = m.snaps /\ n.cur = m.cur /\ n.tm = m.tm
         /\ n.trash = m.trash /\ n.handed = m.handed /\ n.ies = m.ies /\ n.now = m.now
         /\ n.limS = m.limS
BY DEF Assume, ManagerFields

\* An assertion is no step.
LEMMA AssumeStep ==
  ASSUME NEW m, NEW X, Good(m, X), NEW cond, NEW n, n = Assume(m, cond)
  PROVE  Good(n, X) /\ Keeps(m, n)
<1>1. DOMAIN m = ManagerFields
  BY GoodFacts
<1>2. /\ DOMAIN n = DOMAIN m /\ n.ies = m.ies /\ n.handed = m.handed
      /\ n.snaps = m.snaps /\ n.tm = m.tm /\ n.trash = m.trash
  BY <1>1, AssumeFields
<1> QED  BY <1>2, StepSame

\* The one on the templates that get one flow key.
LEMMA AlikeFields ==
  ASSUME NEW m, DOMAIN m = ManagerFields, NEW cond, NEW n, n = AssumeAlike(m, cond)
  PROVE  /\ DOMAIN n = ManagerFields /\ n.snaps = m.snaps /\ n.cur = m.cur /\ n.tm = m.tm
         /\ n.trash = m.trash /\ n.handed = m.handed /\ n.ies = m.ies /\ n.now = m.now
         /\ n.limS = m.limS
BY DEF AssumeAlike, ManagerFields

LEMMA AlikeStep ==
  ASSUME NEW m, NEW X, Good(m, X), NEW cond, NEW n, n = AssumeAlike(m, cond)
  PROVE  Good(n, X) /\ Keeps(m, n)
<1>1. DOMAIN m = ManagerFields
  BY GoodFacts
<1>2. /\ DOMAIN n = DOMAIN m /\ n.ies = m.ies /\ n.handed = m.handed
      /\ n.snaps = m.snaps /\ n.tm = m.tm /\ n.trash = m.trash
  BY <1>1, AlikeFields
<1> QED  BY <1>2, StepSame

\* Moving the Delete flag at the end of it.
LEMMA MovedBehind ==
  ASSUME NEW m, NEW i, NEW id \in IDs, NEW t, NEW at, NEW j, Carrying(m, i, id, t, at, j),
         NEW n, n = MoveOwner(m, i, id, at)
  PROVE  /\ Behind(m, n, i) /\ OthersStay(m.snaps, n.snaps, i, id)
         /\ i \in DOMAIN n.snaps /\ ~n.snaps[i].editable /\ n.cur = m.cur
         /\ IsList(n.snaps) /\ IsList(m.snaps)
<1> DEFINE s == m.snaps
           ns == n.snaps
<1>1. /\ i \in Nat /\ IsMoved(s, i, id, at, ns) /\ Alike(s, i, id, at, ns) /\ n.cur = m.cur
  BY CarryingFields
<1>2. n.now = m.now
  <2>1. Rest(m, n)
    BY CarryingFields
  <2> QED  BY <2>1 DEF Rest
<1>3. IsList(s) /\ Starts(s) /\ i \in DOMAIN s /\ ~s[i].editable
  BY DEF Carrying
<1>4. IsList(m.snaps) /\ IsList(n.snaps) /\ i <= Len(m.snaps)
  BY <1>1, <1>3, Fields DEF IsMoved
<1> HIDE DEF s, ns
<1>5. /\ DOMAIN ns = DOMAIN s
      /\ \A k \in DOMAIN s : SameView(s[k], ns[k]) /\ ns[k].editable = s[k].editable
      /\ \A x \in IDs \ {id} : ns[i].recs[x] = s[i].recs[x]
  BY <1>1, <1>3 DEF IsMoved, Alike
<1>6. SameStarts(s, ns)
  BY <1>3, <1>5 DEF SameStarts, SameView, SameRest, Starts
<1>7. /\ SameStarts(m.snaps, n.snaps)
      /\ \A k \in DOMAIN m.snaps : n.snaps[k].editable = m.snaps[k].editable
  BY <1>5, <1>6 DEF s, ns
<1>8. Behind(m, n, i)
  BY <1>1, <1>4, <1>7, <1>2, FlagsBehind
<1>9. OthersStay(s, ns, i, id)
  BY <1>5 DEF OthersStay
<1> QED  BY <1>1, <1>3, <1>4, <1>5, <1>8, <1>9 DEF s, ns

\* One record of a snapshot that is being frozen.
LEMMA PropagateRecStep ==
  ASSUME NEW m, NEW X, Good(m, X), NEW i \in DOMAIN m.snaps, ~m.snaps[i].editable,
         NEW id \in IDs, Has(m.snaps[i], id) /\ m.snaps[i].recs[id].c => m.snaps[i].recs[id].d,
         m.cur \in Nat, NEW n, n = PropagateRec(m, i, id)
  PROVE  /\ Good(n, X) /\ Keeps(m, n) /\ Behind(m, n, i) /\ n.cur \in Nat
         /\ OthersStay(m.snaps, n.snaps, i, id)
         /\ i \in DOMAIN n.snaps /\ ~n.snaps[i].editable
<1> DEFINE rec == m.snaps[i].recs[id]
           ok  == rec.d /\ HistoryMod(m)
           m1  == Assume(m, ok)
           t   == rec.t
           p   == Propagate(m1, i, id, t)
<1>1. /\ DOMAIN m = ManagerFields /\ IsList(m.snaps) /\ Starts(m.snaps) /\ IsGarbage(m.trash)
      /\ DOMAIN m.tm \subseteq Addrs /\ Refs(m.snaps) \subseteq DOMAIN m.tm \ X
  BY GoodFacts
<1>2. i \in Nat /\ Len(m.snaps) \in Nat
  BY <1>1, Fields, ListLen
<1>3. CASE ~Has(m.snaps[i], id) \/ ~rec.c
  <2>1. n = m
    BY <1>3 DEF PropagateRec
  <2> QED  BY <1>2, <2>1, KeepsItself DEF Behind, OthersStay
<1>4. CASE Has(m.snaps[i], id) /\ rec.c
  <2>1. n = MoveOwner(p.m, i, id, p.at)
    BY <1>4 DEF PropagateRec, Propagated
  <2>2. t \in Refs(m.snaps)
    BY <1>4 DEF Refs, RefsOf
  <2>3. t \in Addrs /\ m.snaps[i].recs[id].t = t /\ m.snaps[i].recs[id].d
    BY <1>1, <1>4, <2>2
  <2> HIDE DEF ok, rec
  <2>4. /\ DOMAIN m1 = ManagerFields /\ m1.snaps = m.snaps /\ m1.cur = m.cur
        /\ m1.trash = m.trash /\ m1.now = m.now /\ Good(m1, X) /\ Keeps(m, m1)
    BY <1>1, AssumeFields, AssumeStep
  <2> HIDE DEF m1, t
  <2>5. Carrying(m1, i, id, t, 0, i + 1)
    BY <1>1, <1>2, <2>3, <2>4 DEF Carrying
  <2>6. Riding(p, m1, X, i, id, t)
    BY <1>2, <2>4, <2>5, PropagateAll
  <2> HIDE DEF p
  <2>7. /\ Carrying(p.m, i, id, t, p.at, p.j) /\ Good(n, X) /\ Keeps(m1, n)
        /\ OthersStay(m1.snaps, p.m.snaps, i, id) /\ Behind(m1, p.m, i)
    BY <2>1, <2>6 DEF Riding
  <2>8. /\ Behind(p.m, n, i) /\ OthersStay(p.m.snaps, n.snaps, i, id)
        /\ i \in DOMAIN n.snaps /\ ~n.snaps[i].editable /\ n.cur = p.m.cur
        /\ IsList(n.snaps) /\ IsList(p.m.snaps)
    BY <2>1, <2>7, MovedBehind
  <2>9. Len(n.snaps) \in Nat /\ Len(p.m.snaps) \in Nat /\ Len(m1.snaps) \in Nat
    BY <1>2, <2>4, <2>8, ListLen
  <2>10. Behind(m1, n, i)
    BY <2>7, <2>8, <2>9, BehindTransitive
  <2>11. Behind(m, n, i)
    BY <2>4, <2>10 DEF Behind
  <2>12. OthersStay(m.snaps, n.snaps, i, id)
    BY <2>4, <2>7, <2>8, OthersStayTransitive
  <2>13. n.cur \in Nat
    BY <2>7, <2>8 DEF Carrying
  <2> QED  BY <2>4, <2>7, <2>8, <2>11, <2>12, <2>13, KeepsTransitive
<1> QED  BY <1>3, <1>4

-----------------------------------------------------------------------------
(* mgr_snap_freeze() *)

\* Freezing snapshot i of manager m, with some records still to propagate.
Freezes(f, m, X, i) ==
  /\ DOMAIN f = {"m", "i", "left"} /\ f.i = i /\ f.left \subseteq IDs
  /\ Good(f.m, X) /\ Keeps(m, f.m) /\ Behind(m, f.m, i) /\ f.m.cur \in Nat
  /\ i \in DOMAIN f.m.snaps /\ ~f.m.snaps[i].editable
  /\ \A id \in f.left : Has(f.m.snaps[i], id) /\ f.m.snaps[i].recs[id].c
                          => f.m.snaps[i].recs[id].d

\* The next ID is one of those left.
LEMMA LeastFound ==
  ASSUME NEW S \in SUBSET IDs, S # {}
  PROVE  Least(S) \in S
<1>1. S \in SUBSET Nat
  BY ParamsAssumption
<1>2. \E x \in S : \A y \in S : x <= y
  BY <1>1, Propagation!Minimum
<1> QED  BY <1>2 DEF Least

\* One ID of a snapshot that is frozen.
LEMMA FreezeRound ==
  ASSUME NEW f, NEW m, NEW X, NEW i, Len(m.snaps) \in Nat, Freezes(f, m, X, i), ~NoneLeft(f)
  PROVE  Freezes(FreezeRec(f), m, X, i)
<1> DEFINE id == Least(f.left)
           n  == PropagateRec(f.m, i, id)
           g  == FreezeRec(f)
<1>1. /\ DOMAIN f = {"m", "i", "left"} /\ f.i = i /\ f.left \subseteq IDs
      /\ Good(f.m, X) /\ Keeps(m, f.m) /\ Behind(m, f.m, i) /\ f.m.cur \in Nat
      /\ i \in DOMAIN f.m.snaps /\ ~f.m.snaps[i].editable
  BY DEF Freezes
<1>2. id \in f.left /\ id \in IDs
  BY <1>1, LeastFound DEF NoneLeft
<1>3. g = [f EXCEPT !.m = n, !.left = f.left \ {id}]
  BY <1>1 DEF FreezeRec
<1> HIDE DEF g, n, id
<1>4. DOMAIN g = {"m", "i", "left"} /\ g.i = i /\ g.m = n /\ g.left = f.left \ {id}
  BY <1>1, <1>3
<1>5. Has(f.m.snaps[i], id) /\ f.m.snaps[i].recs[id].c => f.m.snaps[i].recs[id].d
  BY <1>2 DEF Freezes
<1>6. /\ Good(n, X) /\ Keeps(f.m, n) /\ Behind(f.m, n, i) /\ n.cur \in Nat
      /\ OthersStay(f.m.snaps, n.snaps, i, id)
      /\ i \in DOMAIN n.snaps /\ ~n.snaps[i].editable
  BY <1>1, <1>2, <1>5, PropagateRecStep DEF n
<1>7. Len(f.m.snaps) \in Nat /\ Len(n.snaps) \in Nat
  BY <1>1, <1>6, GoodFacts, ListLen
<1>8. Behind(m, n, i) /\ Keeps(m, n)
  BY <1>1, <1>6, <1>7, BehindTransitive, KeepsTransitive
<1>9. \A x \in f.left \ {id} : Has(n.snaps[i], x) /\ n.snaps[i].recs[x].c
                                 => n.snaps[i].recs[x].d
  BY <1>1, <1>6 DEF Freezes, OthersStay, Has
<1> QED  BY <1>1, <1>4, <1>6, <1>8, <1>9 DEF Freezes, g

\* The snapshots older than i stay as they are, i is frozen.
Past(m, n, i) ==
  /\ Len(m.snaps) <= Len(n.snaps)
  /\ \A k \in 1..(i - 1) : n.snaps[k].editable = m.snaps[k].editable
  /\ \A k \in 1..i : n.snaps[k].start = m.snaps[k].start
  /\ m.cur <= i => n.cur = m.cur
  /\ n.now = m.now /\ i \in DOMAIN n.snaps /\ ~n.snaps[i].editable

\* mgr_snap_freeze()
LEMMA SnapFreezeStep ==
  ASSUME NEW m, NEW X, Good(m, X), NEW i \in DOMAIN m.snaps, m.cur \in Nat,
         NEW n, n = SnapFreeze(m, i)
  PROVE  /\ Good(n, X) /\ Keeps(m, n) /\ Past(m, n, i) /\ n.cur \in Nat
<1> DEFINE m1 == Freeze(m, i)
           x  == [m |-> m1, i |-> i, left |-> IDs]
           c  == Cardinality(IDs)
<1>1. /\ DOMAIN m = ManagerFields /\ IsList(m.snaps) /\ Starts(m.snaps) /\ ListInv(m.snaps)
  BY GoodFacts
<1>2. i \in Nat /\ Len(m.snaps) \in Nat /\ c \in Nat /\ i \in 1..Len(m.snaps)
  BY <1>1, Fields, ListLen, ParamsAssumption, FS_CardinalityType
<1>3. CASE ~m.snaps[i].editable
  <2>1. n = m
    BY <1>3 DEF SnapFreeze
  <2> QED  BY <1>2, <1>3, <2>1, KeepsItself DEF Past
<1>4. CASE m.snaps[i].editable
  <2>1. n = IF i = Newest(m) THEN m1 ELSE Freezing!Repeat(x, c).m
    BY <1>4 DEF SnapFreeze, Freeze
  <2>2. m1 = Freeze(m, i) /\ x.m = m1 /\ x.i = i /\ x.left = IDs /\ DOMAIN x = {"m", "i", "left"}
    OBVIOUS
  <2> HIDE DEF m1, x, c
  <2>3. /\ Rest(m, m1) /\ m1.cur = m.cur
        /\ IsFreeze(m.snaps, m1.snaps) /\ ~m1.snaps[i].editable /\ SameStarts(m.snaps, m1.snaps)
        /\ \A k \in DOMAIN m.snaps : k # i => m1.snaps[k] = m.snaps[k]
    BY <1>1, <2>2, FreezeFields
  <2>4. Good(m1, X) /\ Keeps(m, m1)
    BY <2>2, FreezeStep
  <2>5. IsList(m1.snaps) /\ i \in DOMAIN m1.snaps
    BY <2>3, <2>4, GoodFacts DEF SameStarts
  <2>6. Past(m, m1, i)
    <3>1. Len(m1.snaps) = Len(m.snaps)
      BY <1>1, <2>3, <2>5, ListLen DEF SameStarts
    <3>2. \A k \in 1..(i - 1) : k \in DOMAIN m.snaps /\ k # i
      BY <1>1, <1>2, ListLen
    <3>3. \A k \in 1..i : k \in DOMAIN m.snaps
      BY <1>1, <1>2, ListLen
    <3> QED  BY <1>2, <2>3, <2>5, <3>1, <3>2, <3>3 DEF Past, SameStarts, Rest
  <2>7. CASE i = Newest(m)
    BY <2>1, <2>3, <2>4, <2>6, <2>7
  <2>8. CASE i # Newest(m)
    <3>1. n = Freezing!Repeat(x, c).m
      BY <2>1, <2>8
    <3>2. \A id \in IDs : Has(m1.snaps[i], id) /\ m1.snaps[i].recs[id].c => m1.snaps[i].recs[id].d
      BY <1>1, <1>4, <2>3 DEF ListInv, AddedIsOwned, IsFreeze
    <3>3. Len(m1.snaps) \in Nat
      BY <2>5, ListLen
    <3>4. Freezes(x, m1, X, i)
      BY <2>2, <2>3, <2>4, <2>5, <3>2, <3>3, KeepsItself DEF Freezes, Behind
    <3>5. PICK S : /\ x \in S
                   /\ \A T \in SUBSET S :
                        x \in T /\ (\A y \in T : ~NoneLeft(y) /\ FreezeRec(y) \in S
                                                   => FreezeRec(y) \in T)
                          => Freezing!Repeat(x, c) \in T
      BY <1>2, Freezing!LoopInvariant DEF c
    <3> DEFINE T == {y \in S : Freezes(y, m1, X, i)}
    <3>6. x \in T /\ T \in SUBSET S
      BY <3>4, <3>5
    <3>7. ASSUME NEW y \in T, ~NoneLeft(y), FreezeRec(y) \in S
          PROVE  FreezeRec(y) \in T
      BY <3>3, <3>7, FreezeRound
    <3>8. Freezing!Repeat(x, c) \in T
      <4> HIDE DEF T
      <4> QED  BY <3>5, <3>6, <3>7
    <3> DEFINE z == Freezing!Repeat(x, c)
    <3>9. Freezes(z, m1, X, i) /\ n = z.m
      BY <3>1, <3>8
    <3> HIDE DEF z, T
    <3>10. /\ Good(n, X) /\ Keeps(m1, n) /\ Behind(m1, n, i) /\ n.cur \in Nat
           /\ i \in DOMAIN n.snaps /\ ~n.snaps[i].editable
      BY <3>9 DEF Freezes
    <3>11. Len(n.snaps) \in Nat
      BY <3>10, GoodFacts, ListLen
    <3>12. Past(m, n, i)
      BY <1>2, <2>3, <2>6, <3>3, <3>10, <3>11 DEF Past, Behind
    <3> QED  BY <2>4, <3>10, <3>12, KeepsTransitive
  <2> QED  BY <2>7, <2>8
<1> QED  BY <1>3, <1>4

-----------------------------------------------------------------------------
(* fds_tmgr_set_time() *)

\* Another snapshot is selected.
Select(m, c) == [m EXCEPT !.cur = c]

\* Selecting a snapshot changes no list.
LEMMA SelectStep ==
  ASSUME NEW m, NEW X, Good(m, X), NEW c, NEW n, n = Select(m, c)
  PROVE  /\ Good(n, X) /\ Keeps(m, n) /\ n.cur = c /\ n.snaps = m.snaps /\ n.now = m.now
<1>1. DOMAIN m = ManagerFields
  BY GoodFacts
<1>2. /\ DOMAIN n = DOMAIN m /\ n.ies = m.ies /\ n.handed = m.handed /\ n.now = m.now
      /\ n.snaps = m.snaps /\ n.tm = m.tm /\ n.trash = m.trash /\ n.cur = c
  BY <1>1 DEF Select, ManagerFields
<1>3. Good(n, X) /\ Keeps(m, n)
  BY <1>2, StepSame
<1> QED  BY <1>2, <1>3

\* A manager just before the selection of snapshot c: everything older is
\* frozen, and so is c unless it starts at the selected time.
Arriving(m, c) ==
  /\ c \in DOMAIN m.snaps /\ \A k \in 1..(c - 1) : ~m.snaps[k].editable
  /\ m.snaps[c].editable => m.snaps[c].start = m.now

\* Then snapshot c may be selected.
LEMMA Selected ==
  ASSUME NEW m, NEW X, Good(m, X), NEW c, Arriving(m, c), NEW n, n = Select(m, c)
  PROVE  Good(n, X) /\ Keeps(m, n) /\ OlderFrozen(n) /\ AtNow(n)
<1>1. /\ Good(n, X) /\ Keeps(m, n) /\ n.cur = c /\ n.snaps = m.snaps /\ n.now = m.now
  BY SelectStep
<1>2. c \in 0..Len(m.snaps)
  BY GoodFacts, ListLen DEF Arriving
<1> QED  BY <1>1, <1>2 DEF Arriving, OlderFrozen, AtNow

\* The copy that leaves expired templates behind.
LEMMA ClonedArriving ==
  ASSUME NEW m, NEW X, Good(m, X), NEW i \in DOMAIN m.snaps, m.cur \in Nat,
         \A k \in 1..i : ~m.snaps[k].editable, NEW n, n = SnapClone(m, i, m.now)
  PROVE  /\ Good(n, X) /\ Keeps(m, n) /\ Arriving(n, i + 1)
         /\ Len(n.snaps) = Len(m.snaps) + 1 /\ n.tm = m.tm /\ n.cur \in Nat /\ n.now = m.now
         /\ n.snaps[i + 1].editable /\ n.snaps[i + 1].start = n.now
<1>1. DOMAIN m = ManagerFields /\ IsList(m.snaps) /\ Starts(m.snaps)
  BY GoodFacts
<1>2. i \in Nat /\ i \in 1..Len(m.snaps) /\ Len(m.snaps) \in Nat
  BY <1>1, Fields, ListLen
<1>3. /\ IsCloned(m, i, n) /\ n.snaps[i + 1].start = m.now
      /\ n.cur = IF m.cur > i THEN m.cur + 1 ELSE m.cur
  BY <1>1, SnapCloneFields
<1>4. ~m.snaps[i].editable
  BY <1>2
<1>5. Good(n, X) /\ Keeps(m, n)
  BY <1>3, <1>4, CloneStep
<1>6. Behind(m, n, i) /\ Len(n.snaps) = Len(m.snaps) + 1
  <2>1. i <= i
    BY <1>2
  <2> QED  BY <1>1, <1>2, <1>3, <2>1, CloneBehind
<1>7. i + 1 \in DOMAIN n.snaps
  BY <1>2, <1>5, <1>6, GoodFacts, ListLen
<1>8. ASSUME NEW k \in 1..((i + 1) - 1) PROVE ~n.snaps[k].editable
  <2>1. k \in 1..i
    BY <1>2
  <2> QED  BY <1>6, <2>1 DEF Behind
<1>9. n.now = m.now /\ n.tm = m.tm /\ n.snaps[i + 1].editable
  BY <1>3 DEF IsCloned, Rest, IsClone
<1>10. Arriving(n, i + 1)
  BY <1>3, <1>7, <1>8, <1>9 DEF Arriving
<1>11. n.cur \in Nat
  BY <1>2, <1>3
<1> QED  BY <1>3, <1>5, <1>6, <1>9, <1>10, <1>11

\* Everything passed on the way to snapshot f.i is frozen.
Passes(f, m, X, time) ==
  /\ DOMAIN f = {"m", "i", "time"} /\ f.time = time
  /\ Good(f.m, X) /\ Keeps(m, f.m) /\ f.m.cur \in Nat /\ f.m.now = m.now
  /\ f.i \in DOMAIN f.m.snaps /\ \A k \in 1..(f.i - 1) : ~f.m.snaps[k].editable

\* One snapshot is passed.
LEMMA PassRound ==
  ASSUME NEW f, NEW m, NEW X, NEW time, Passes(f, m, X, time), ~Arrived(f)
  PROVE  Passes(Pass(f), m, X, time)
<1> DEFINE cond == LE(f.m.snaps[f.i].start, f.time)
           i    == f.i
           m1   == Assume(f.m, cond)
           n    == SnapFreeze(m1, i)
           g    == Pass(f)
<1>1. /\ DOMAIN f = {"m", "i", "time"} /\ f.time = time
      /\ Good(f.m, X) /\ Keeps(m, f.m) /\ f.m.cur \in Nat /\ f.m.now = m.now
      /\ i \in DOMAIN f.m.snaps /\ \A k \in 1..(i - 1) : ~f.m.snaps[k].editable
  BY DEF Passes
<1>2. g = [f EXCEPT !.m = n, !.i = i + 1]
  BY <1>1 DEF Pass, NotAfter
<1>3. i # Len(f.m.snaps)
  BY DEF Arrived, Newest
<1> HIDE DEF g, n, cond
<1>4. DOMAIN g = {"m", "i", "time"} /\ g.i = i + 1 /\ g.m = n /\ g.time = f.time
  BY <1>1, <1>2
<1> HIDE DEF i
<1>5. DOMAIN f.m = ManagerFields /\ IsList(f.m.snaps)
  BY <1>1, GoodFacts
<1>6. /\ m1.snaps = f.m.snaps /\ m1.cur = f.m.cur /\ m1.now = f.m.now
      /\ Good(m1, X) /\ Keeps(f.m, m1)
  BY <1>1, <1>5, AssumeFields, AssumeStep
<1>7. m1.cur \in Nat /\ i \in DOMAIN m1.snaps
  BY <1>1, <1>6
<1> HIDE DEF m1
<1>8. Good(n, X) /\ Keeps(m1, n) /\ Past(m1, n, i) /\ n.cur \in Nat
  BY <1>6, <1>7, SnapFreezeStep DEF n
<1>9. Keeps(m, n)
  BY <1>1, <1>6, <1>8, KeepsTransitive
<1>10. i \in Nat /\ i \in 1..Len(f.m.snaps) /\ Len(f.m.snaps) \in Nat
  BY <1>1, <1>5, Fields, ListLen
<1>11. i + 1 \in DOMAIN n.snaps
  <2>1. IsList(n.snaps) /\ Len(f.m.snaps) <= Len(n.snaps)
    BY <1>6, <1>8, GoodFacts DEF Past
  <2>2. DOMAIN n.snaps = 1..Len(n.snaps) /\ Len(n.snaps) \in Nat
    BY <2>1, ListLen
  <2> QED  BY <1>3, <1>10, <2>1, <2>2
<1>12. ASSUME NEW k \in 1..((i + 1) - 1) PROVE ~n.snaps[k].editable
  <2>1. k = i \/ k \in 1..(i - 1)
    BY <1>10
  <2> QED  BY <1>1, <1>6, <1>8, <2>1 DEF Past
<1> QED  BY <1>1, <1>4, <1>6, <1>8, <1>9, <1>11, <1>12 DEF Passes, Past, g

\* The loop of mgr_seek_forwards().
LEMMA ForwardsStep ==
  ASSUME NEW m, NEW X, Good(m, X), NEW i \in DOMAIN m.snaps, m.cur \in Nat, NEW time,
         \A k \in 1..(i - 1) : ~m.snaps[k].editable, NEW f, f = Forwards(m, i, time)
  PROVE  Passes(f, m, X, time)
<1> DEFINE x == [m |-> m, i |-> i, time |-> time]
           c == 2 * Newest(m)
<1>1. c \in Nat
  BY GoodFacts, ListLen DEF Newest
<1>2. f = Passing!Repeat(x, c)
  BY DEF Forwards
<1>3. Passes(x, m, X, time)
  BY KeepsItself DEF Passes
<1> HIDE DEF x, c
<1>4. PICK S : /\ x \in S
               /\ \A T \in SUBSET S :
                    x \in T /\ (\A y \in T : ~Arrived(y) /\ Pass(y) \in S => Pass(y) \in T)
                      => Passing!Repeat(x, c) \in T
  BY <1>1, Passing!LoopInvariant
<1> DEFINE T == {y \in S : Passes(y, m, X, time)}
<1>5. x \in T /\ T \in SUBSET S
  BY <1>3, <1>4
<1>6. ASSUME NEW y \in T, ~Arrived(y), Pass(y) \in S PROVE Pass(y) \in T
  BY <1>6, PassRound
<1>7. Passing!Repeat(x, c) \in T
  <2> HIDE DEF T
  <2> QED  BY <1>4, <1>5, <1>6
<1> QED  BY <1>2, <1>7

\* A snapshot is selected, everything seen before is still there.
Settled(m, n, X) == Good(n, X) /\ Keeps(m, n) /\ OlderFrozen(n) /\ AtNow(n)

\* A snapshot is selected last.
LEMMA SettledSelect ==
  ASSUME NEW m, NEW n, NEW X, Good(n, X), Keeps(m, n), NEW c, Arriving(n, c),
         NEW p, p = Select(n, c)
  PROVE  Settled(m, p, X)
BY Selected, KeepsTransitive DEF Settled

\* Steps before it.
LEMMA SettledLater ==
  ASSUME NEW m, NEW n, NEW p, NEW X, Keeps(m, n), Settled(n, p, X)
  PROVE  Settled(m, p, X)
BY KeepsTransitive DEF Settled

\* The selected snapshot has a number.
LEMMA SettledCur ==
  ASSUME NEW m, NEW n, NEW X, Settled(m, n, X)
  PROVE  n.cur \in Nat
<1>1. n.cur \in 0..Len(n.snaps)
  BY DEF Settled, OlderFrozen
<1> QED  BY <1>1

\* What mgr_seek_forwards() does with the snapshot it found.
LEMMA ArriveStep ==
  ASSUME NEW m, NEW X, Good(m, X), NEW i \in DOMAIN m.snaps, m.cur \in Nat,
         \A k \in 1..(i - 1) : ~m.snaps[k].editable, NEW n, n = Arrive(m, i, m.now)
  PROVE  Settled(m, n, X)
<1> DEFINE time == m.now
           z    == SnapFreeze(m, i)
<1>1. Good(z, X) /\ Keeps(m, z) /\ Past(m, z, i) /\ z.cur \in Nat
  BY SnapFreezeStep
<1>2. i \in Nat /\ i \in DOMAIN z.snaps /\ z.now = m.now
  BY <1>1, GoodFacts, Fields DEF Past
<1>3. ASSUME NEW k \in 1..i PROVE ~z.snaps[k].editable
  <2>1. k = i \/ k \in 1..(i - 1)
    BY <1>2
  <2> QED  BY <1>1, <2>1 DEF Past
<1>4. CASE m.snaps[i].start = time
  <2>1. n = Select(m, i)
    BY <1>4 DEF Arrive, Select
  <2>2. Arriving(m, i)
    BY <1>4 DEF Arriving
  <2> QED  BY <2>1, <2>2, KeepsItself, SettledSelect
<1>5. CASE m.snaps[i].start # time /\ m.snaps[i].enabled /\ LE(m.snaps[i].minv, time)
  <2> DEFINE y == SnapClone(z, i, time)
  <2>1. n = Select(y, i + 1)
    BY <1>5 DEF Arrive, Select
  <2>2. y = SnapClone(z, i, z.now)
    BY <1>2
  <2> HIDE DEF y, z
  <2>3. Good(y, X) /\ Keeps(z, y) /\ Arriving(y, i + 1)
    BY <1>1, <1>2, <1>3, <2>2, ClonedArriving
  <2>4. Keeps(m, y)
    BY <1>1, <2>3, KeepsTransitive
  <2> QED  BY <2>1, <2>3, <2>4, SettledSelect
<1>6. CASE m.snaps[i].start # time /\ ~(m.snaps[i].enabled /\ LE(m.snaps[i].minv, time))
  <2>1. n = Select(z, i)
    BY <1>6 DEF Arrive, Select
  <2> HIDE DEF z
  <2>2. Arriving(z, i)
    <3>1. \A k \in 1..(i - 1) : ~z.snaps[k].editable
      BY <1>2, <1>3
    <3>2. ~z.snaps[i].editable
      BY <1>1 DEF Past
    <3> QED  BY <1>2, <3>1, <3>2 DEF Arriving
  <2> QED  BY <1>1, <2>1, <2>2, SettledSelect
<1> QED  BY <1>4, <1>5, <1>6

\* mgr_seek_forwards()
LEMMA SeekForwardsStep ==
  ASSUME NEW m, NEW X, Good(m, X), m.cur \in DOMAIN m.snaps, m.cur \in Nat,
         \A k \in 1..(m.cur - 1) : ~m.snaps[k].editable, NEW n, n = SeekForwards(m, m.now)
  PROVE  Settled(m, n, X)
<1> DEFINE time == m.now
           f    == Forwards(m, m.cur, time)
           c1   == Arrived(f)
           m1   == Assume(f.m, c1)
           c2   == LE(m1.snaps[f.i].start, time)
           m2   == Assume(m1, c2)
<1>1. Passes(f, m, X, time)
  BY ForwardsStep
<1>2. n = Arrive(m2, f.i, time)
  BY DEF SeekForwards, ArriveFrom, NotAfter
<1> HIDE DEF f, c1, c2
<1>3. /\ Good(f.m, X) /\ Keeps(m, f.m) /\ f.m.cur \in Nat /\ f.m.now = m.now
      /\ f.i \in DOMAIN f.m.snaps /\ \A k \in 1..(f.i - 1) : ~f.m.snaps[k].editable
  BY <1>1 DEF Passes
<1>4. DOMAIN f.m = ManagerFields
  BY <1>3, GoodFacts
<1>5. /\ m1.snaps = f.m.snaps /\ m1.cur = f.m.cur /\ m1.now = f.m.now
      /\ Good(m1, X) /\ Keeps(f.m, m1) /\ DOMAIN m1 = ManagerFields
  BY <1>3, <1>4, AssumeFields, AssumeStep
<1> HIDE DEF m1
<1>6. /\ m2.snaps = m1.snaps /\ m2.cur = m1.cur /\ m2.now = m1.now
      /\ Good(m2, X) /\ Keeps(m1, m2)
  BY <1>5, AssumeFields, AssumeStep
<1> HIDE DEF m2
<1>7. Settled(m2, n, X)
  <2>1. n = Arrive(m2, f.i, m2.now)
    BY <1>2, <1>3, <1>5, <1>6
  <2>2. /\ f.i \in DOMAIN m2.snaps /\ m2.cur \in Nat
        /\ \A k \in 1..(f.i - 1) : ~m2.snaps[k].editable
    BY <1>3, <1>5, <1>6
  <2> QED  BY <1>6, <2>1, <2>2, ArriveStep
<1>8. Keeps(m, m2)
  BY <1>3, <1>5, <1>6, KeepsTransitive
<1> QED  BY <1>7, <1>8, SettledLater

\* A new oldest snapshot is selected.
LEMMA CreatedFirst ==
  ASSUME NEW m, NEW X, Good(m, X), NEW n, n = [SnapCreate(m, m.now) EXCEPT !.cur = 1]
  PROVE  Settled(m, n, X)
<1> DEFINE y == SnapCreate(m, m.now)
<1>1. Good(y, X) /\ Keeps(m, y) /\ Rest(m, y) /\ Len(y.snaps) = Len(m.snaps) + 1
      /\ y.snaps[1].start = m.now
  BY SnapCreateStep
<1>2. n = Select(y, 1)
  BY DEF Select
<1> HIDE DEF y
<1>3. Len(m.snaps) \in Nat /\ DOMAIN y.snaps = 1..Len(y.snaps)
  BY <1>1, GoodFacts, ListLen
<1>4. Arriving(y, 1)
  BY <1>1, <1>3 DEF Arriving, Rest
<1> QED  BY <1>1, <1>2, <1>4, SettledSelect

\* mgr_seek_backwards()
LEMMA SeekBackwardsStep ==
  ASSUME NEW m, NEW X, Good(m, X), m.cur \in DOMAIN m.snaps, m.cur \in Nat,
         \A k \in 1..(m.cur - 1) : ~m.snaps[k].editable, NEW n, n = SeekBackwards(m, m.now)
  PROVE  Settled(m, n, X)
<1> DEFINE time  == m.now
           older == {j \in 1..(m.cur - 1) : LE(m.snaps[j].start, time)}
           i     == CHOOSE j \in older : \A k \in older : k <= j
           cond  == \A j \in 1..(m.cur - 1) :
                      (\A k \in older : k <= j) => ~m.snaps[j].editable
           m1    == Assume(m, cond)
<1>1. DOMAIN m = ManagerFields /\ IsList(m.snaps)
  BY GoodFacts
<1>2. Len(m.snaps) \in Nat /\ DOMAIN m.snaps = 1..Len(m.snaps)
  BY <1>1, ListLen
<1>3. n = IF older = {} THEN [SnapCreate(m1, time) EXCEPT !.cur = 1]
          ELSE IF m.snaps[i].enabled /\ LE(m.snaps[i].minv, time)
          THEN [SnapClone(m1, i, time) EXCEPT !.cur = i + 1]
          ELSE [m1 EXCEPT !.cur = i]
  BY DEF SeekBackwards
<1> HIDE DEF cond
<1>4. /\ m1.snaps = m.snaps /\ m1.cur = m.cur /\ m1.now = m.now
      /\ Good(m1, X) /\ Keeps(m, m1)
  BY <1>1, AssumeFields, AssumeStep
<1> HIDE DEF m1
<1>5. older # {} => i \in older
  <2>1. m.cur - 1 \in Nat
    BY <1>2
  <2>2. older \in SUBSET (1..(m.cur - 1))
    OBVIOUS
  <2> HIDE DEF older
  <2>3. older # {} => \E j \in older : \A k \in older : k <= j
    BY <2>1, <2>2, Maximum
  <2> QED  BY <2>3
<1>6. older # {} => /\ i \in DOMAIN m1.snaps /\ i \in Nat
                    /\ \A k \in 1..i : ~m1.snaps[k].editable
  <2>1. older # {} => i \in 1..(m.cur - 1)
    BY <1>5
  <2> HIDE DEF older, i
  <2> QED  BY <1>2, <1>4, <2>1
<1> HIDE DEF older, i
<1>7. CASE older = {}
  <2>1. n = [SnapCreate(m1, m1.now) EXCEPT !.cur = 1]
    BY <1>3, <1>4, <1>7
  <2>2. Settled(m1, n, X)
    BY <1>4, <2>1, CreatedFirst
  <2> QED  BY <1>4, <2>2, SettledLater
<1>8. CASE older # {} /\ m.snaps[i].enabled /\ LE(m.snaps[i].minv, time)
  <2> DEFINE y == SnapClone(m1, i, m1.now)
  <2>1. n = Select(y, i + 1)
    BY <1>3, <1>4, <1>8 DEF Select
  <2> HIDE DEF y
  <2>2. Good(y, X) /\ Keeps(m1, y) /\ Arriving(y, i + 1)
    BY <1>4, <1>6, <1>8, ClonedArriving DEF y
  <2>3. Settled(m1, n, X)
    BY <2>1, <2>2, SettledSelect
  <2> QED  BY <1>4, <2>3, SettledLater
<1>9. CASE older # {} /\ ~(m.snaps[i].enabled /\ LE(m.snaps[i].minv, time))
  <2>1. n = Select(m1, i)
    BY <1>3, <1>9 DEF Select
  <2>2. Arriving(m1, i)
    <3>1. i \in 1..Len(m.snaps) /\ i \in DOMAIN m1.snaps
      BY <1>2, <1>4, <1>6, <1>9
    <3>2. i \in 1..i /\ \A k \in 1..(i - 1) : k \in 1..i
      BY <1>2, <3>1
    <3>3. \A k \in 1..i : ~m1.snaps[k].editable
      BY <1>6, <1>9
    <3> QED  BY <3>1, <3>2, <3>3 DEF Arriving
  <2> QED  BY <1>4, <2>1, <2>2, SettledSelect
<1> QED  BY <1>7, <1>8, <1>9

\* Whatever time is selected, the invariant holds afterwards.
LEMMA SelectTimeStep ==
  ASSUME NEW m, NEW X, Good(m, X), OlderFrozen(m), NEW t, NEW n, n = SelectTime(m, t)
  PROVE  Settled(m, n, X) /\ n.cur \in Nat
<1> DEFINE newest == IF (LT(t, m.now) /\ m.snaps = <<>>) \/ LT(m.newest, t) THEN t ELSE m.newest
           m1 == [m EXCEPT !.now = t, !.newest = newest,
                           !.cur = IF @ = 0 /\ m.snaps # <<>> THEN 1 ELSE @]
<1>1. DOMAIN m = ManagerFields /\ IsList(m.snaps)
  BY GoodFacts
<1>2. Len(m.snaps) \in Nat /\ DOMAIN m.snaps = 1..Len(m.snaps)
  BY <1>1, ListLen
<1>3. n = IF m.snaps = <<>> THEN [SnapCreate(m1, t) EXCEPT !.cur = 1]
          ELSE IF LT(t, m1.snaps[m1.cur].start) THEN SeekBackwards(m1, t)
          ELSE SeekForwards(m1, t)
  BY DEF SelectTime
<1> HIDE DEF newest
<1>4. /\ DOMAIN m1 = DOMAIN m /\ m1.ies = m.ies /\ m1.handed = m.handed
      /\ m1.snaps = m.snaps /\ m1.tm = m.tm /\ m1.trash = m.trash /\ m1.now = t
      /\ m1.cur = IF m.cur = 0 /\ m.snaps # <<>> THEN 1 ELSE m.cur
  BY <1>1 DEF ManagerFields
<1> HIDE DEF m1
<1>5. Good(m1, X) /\ Keeps(m, m1)
  BY <1>4, StepSame
<1>6. CASE m.snaps = <<>>
  <2>1. n = [SnapCreate(m1, m1.now) EXCEPT !.cur = 1]
    BY <1>3, <1>4, <1>6
  <2>2. Settled(m, n, X)
    BY <1>5, <2>1, CreatedFirst, SettledLater
  <2> QED  BY <2>2, SettledCur
<1>7. CASE m.snaps # <<>>
  <2>1. Len(m.snaps) # 0
    BY <1>1, <1>7 DEF IsList
  <2>2. m1.cur \in DOMAIN m1.snaps /\ m1.cur \in Nat
        /\ \A k \in 1..(m1.cur - 1) : ~m1.snaps[k].editable
    BY <1>2, <1>4, <1>7, <2>1 DEF OlderFrozen
  <2>3. n = SeekBackwards(m1, m1.now) \/ n = SeekForwards(m1, m1.now)
    BY <1>3, <1>4, <1>7
  <2>4. Settled(m1, n, X)
    BY <1>5, <2>2, <2>3, SeekBackwardsStep, SeekForwardsStep
  <2>5. Settled(m, n, X)
    BY <1>5, <2>4, SettledLater
  <2> QED  BY <2>5, SettledCur
<1> QED  BY <1>6, <1>7

-----------------------------------------------------------------------------
(* Modifications of the current snapshot. *)

\* mgr_modify_prepare() has been called.
Ready(m) ==
  /\ Arriving(m, m.cur) /\ m.snaps[m.cur].editable /\ m.snaps[m.cur].start = m.now

\* A call may end there.
LEMMA ReadySettled ==
  ASSUME NEW m, NEW X, Good(m, X), Ready(m), NEW o, Keeps(o, m)
  PROVE  Settled(o, m, X)
<1>1. m.cur \in 0..Len(m.snaps)
  BY GoodFacts, ListLen DEF Ready, Arriving
<1> QED  BY <1>1 DEF Ready, Arriving, Settled, OlderFrozen, AtNow

\* Changes to newer snapshots leave it so.
LEMMA ReadyBehind ==
  ASSUME NEW m, NEW X, Good(m, X), Ready(m), NEW n, NEW Y, Good(n, Y), Behind(m, n, m.cur)
  PROVE  Ready(n) /\ n.cur = m.cur
<1>1. DOMAIN m.snaps = 1..Len(m.snaps) /\ Len(m.snaps) \in Nat
  BY GoodFacts, ListLen
<1>2. DOMAIN n.snaps = 1..Len(n.snaps) /\ Len(n.snaps) \in Nat
  BY GoodFacts, ListLen
<1>3. m.cur \in 1..Len(m.snaps)
  BY <1>1 DEF Ready, Arriving
<1>4. n.cur = m.cur /\ Len(m.snaps) <= Len(n.snaps) /\ n.now = m.now
  BY <1>3 DEF Behind
<1>5. m.cur \in DOMAIN n.snaps
  BY <1>1, <1>2, <1>3, <1>4
<1>6. m.cur \in 1..m.cur /\ \A k \in 1..(m.cur - 1) : k \in 1..m.cur
  BY <1>1, <1>3
<1> HIDE <1>1, <1>2, <1>3
<1> QED  BY <1>4, <1>5, <1>6 DEF Ready, Arriving, Behind

\* mgr_modify_prepare()
LEMMA PrepareStep ==
  ASSUME NEW m, NEW X, Good(m, X), OlderFrozen(m), AtNow(m), m.cur # 0, NEW n, n = Prepare(m)
  PROVE  /\ Good(n, X) /\ Keeps(m, n) /\ Ready(n) /\ n.tm = m.tm
         /\ Len(n.snaps) <= Len(m.snaps) + 1
<1> DEFINE i == m.cur
           y == SnapClone(m, i, m.now)
<1>1. DOMAIN m = ManagerFields /\ IsList(m.snaps)
  BY GoodFacts
<1>2. DOMAIN m.snaps = 1..Len(m.snaps) /\ Len(m.snaps) \in Nat
  BY <1>1, ListLen
<1>3. i \in DOMAIN m.snaps /\ i \in Nat /\ \A k \in 1..(i - 1) : ~m.snaps[k].editable
  BY <1>2 DEF OlderFrozen
<1>4. CASE m.snaps[i].editable
  <2>1. m.snaps[i].start = m.now
    BY <1>4 DEF AtNow
  <2>2. n = Select(m, i)
    BY <1>4, <2>1 DEF Prepare, SnapEdit, EditIdx, Select
  <2>3. /\ Good(n, X) /\ Keeps(m, n) /\ n.cur = i /\ n.snaps = m.snaps /\ n.now = m.now
    BY <2>2, SelectStep
  <2>4. Ready(n)
    BY <1>3, <1>4, <2>1, <2>3 DEF Ready, Arriving
  <2>5. n.tm = m.tm
    BY <2>2 DEF Select
  <2> QED  BY <1>2, <2>3, <2>4, <2>5
<1>5. CASE ~m.snaps[i].editable
  <2>1. \A k \in 1..i : ~m.snaps[k].editable
    <3> SUFFICES ASSUME NEW k \in 1..i PROVE ~m.snaps[k].editable
      OBVIOUS
    <3>1. k = i \/ k \in 1..(i - 1)
      BY <1>3
    <3> QED  BY <1>3, <1>5, <3>1
  <2>2. /\ Good(y, X) /\ Keeps(m, y) /\ Arriving(y, i + 1)
        /\ Len(y.snaps) = Len(m.snaps) + 1 /\ y.tm = m.tm
        /\ y.snaps[i + 1].editable /\ y.snaps[i + 1].start = y.now
    BY <1>3, <2>1, ClonedArriving
  <2> DEFINE ok == i < Newest(m) => HistoryMod(m)
             z  == Assume(y, ok)
  <2>3. n = Select(y, i + 1) \/ n = Select(z, i + 1)
    <3>1. CASE m.snaps[i].start = m.now
      BY <1>5, <3>1 DEF Prepare, SnapEdit, EditIdx, Select
    <3>2. CASE m.snaps[i].start # m.now
      BY <3>2 DEF Prepare, Select
    <3> QED  BY <3>1, <3>2
  <2> HIDE DEF y, ok
  <2>4. DOMAIN y = ManagerFields
    BY <2>2, GoodFacts
  <2>5. /\ z.snaps = y.snaps /\ z.cur = y.cur /\ z.now = y.now /\ z.tm = y.tm
        /\ Good(z, X) /\ Keeps(y, z) /\ DOMAIN z = ManagerFields
    BY <2>2, <2>4, AssumeFields, AssumeStep
  <2> HIDE DEF z
  <2>6. PICK u \in {y, z} : n = Select(u, i + 1)
    BY <2>3
  <2>7. /\ Good(u, X) /\ Keeps(m, u) /\ Arriving(u, i + 1) /\ DOMAIN u = ManagerFields
        /\ Len(u.snaps) = Len(m.snaps) + 1 /\ u.tm = m.tm
        /\ u.snaps[i + 1].editable /\ u.snaps[i + 1].start = u.now
    <3>1. CASE u = y
      BY <2>2, <2>4, <3>1
    <3>2. CASE u = z
      <4>1. Keeps(m, z)
        BY <2>2, <2>5, KeepsTransitive
      <4> QED  BY <2>2, <2>5, <3>2, <4>1 DEF Arriving
    <3> QED  BY <2>6, <3>1, <3>2
  <2>8. /\ Good(n, X) /\ Keeps(u, n) /\ n.cur = i + 1 /\ n.snaps = u.snaps /\ n.now = u.now
    BY <2>6, <2>7, SelectStep
  <2>9. Ready(n)
    BY <2>7, <2>8 DEF Ready, Arriving
  <2>10. n.tm = m.tm
    BY <2>6, <2>7 DEF Select, ManagerFields
  <2>11. Keeps(m, n)
    BY <2>7, <2>8, KeepsTransitive
  <2> QED  BY <1>2, <2>7, <2>8, <2>9, <2>10, <2>11
<1> QED  BY <1>4, <1>5

\* A template is allocated, and is not in the list yet.
LEMMA AllocateStep ==
  ASSUME NEW m, NEW X, Good(m, X), NEW t \in Addrs \ DOMAIN m.tm, NEW x,
         "ies" \in DOMAIN x, x.ies = m.ies, NEW n, n = Allocate(m, t, x)
  PROVE  /\ Good(n, X \cup {t}) /\ Keeps(m, n) /\ n.snaps = m.snaps /\ n.cur = m.cur
         /\ n.now = m.now /\ n.ies = m.ies /\ DOMAIN n.tm = DOMAIN m.tm \cup {t} /\ n.tm[t] = x
         /\ \A u \in DOMAIN m.tm : n.tm[u] = m.tm[u]
<1>1. /\ DOMAIN m = ManagerFields /\ DOMAIN m.tm \subseteq Addrs /\ X \subseteq DOMAIN m.tm
      /\ Sound(m.snaps, DOMAIN m.tm \ X, Uses(m.trash), UsesAll(m.handed))
      /\ Refs(m.snaps) \subseteq DOMAIN m.tm \ X /\ Starts(m.snaps) /\ IsGarbage(m.trash)
      /\ Current(m.tm, Refs(m.snaps) \cup X, m.ies)
  BY GoodFacts
<1>2. n.tm = [u \in DOMAIN m.tm \cup {t} |-> IF u = t THEN x ELSE m.tm[u]]
  BY <1>1 DEF Allocate, ManagerFields
<1>3. /\ Rest(m, n) /\ n.snaps = m.snaps /\ n.cur = m.cur /\ n.trash = m.trash
      /\ n.handed = m.handed
  BY <1>1 DEF Allocate, ManagerFields, Rest
<1>4. /\ DOMAIN n.tm = DOMAIN m.tm \cup {t} /\ n.tm[t] = x
      /\ \A u \in DOMAIN m.tm : n.tm[u] = m.tm[u]
  BY <1>2
<1>5. DOMAIN n.tm \ (X \cup {t}) = DOMAIN m.tm \ X
  BY <1>1, <1>4
<1>6. Current(n.tm, Refs(n.snaps) \cup (X \cup {t}), m.ies)
  <2>1. \A u \in Refs(m.snaps) \cup X : u \in DOMAIN m.tm /\ n.tm[u] = m.tm[u]
    BY <1>1, <1>4
  <2> QED  BY <1>1, <1>3, <1>4, <2>1 DEF Current
<1>7. Good(n, X \cup {t})
  <2> DEFINE Y == X \cup {t}
  <2>1. /\ IsGarbage(n.trash) /\ DOMAIN n.tm \subseteq Addrs /\ Y \subseteq DOMAIN n.tm
        /\ Starts(n.snaps)
    BY <1>1, <1>3, <1>4
  <2>2. Sound(n.snaps, DOMAIN n.tm \ Y, Uses(n.trash), UsesAll(m.handed))
    BY <1>1, <1>3, <1>5
  <2>3. Current(n.tm, Refs(n.snaps) \cup Y, m.ies)
    BY <1>6
  <2> HIDE DEF Y
  <2>4. Good(n, Y)
    BY <1>3, <2>1, <2>2, <2>3, StepGood
  <2> QED  BY <2>4 DEF Y
<1>8. Keeps(m, n)
  <2>1. \A u \in SeenRefs(m) : n.tm[u] = m.tm[u]
    BY <1>4, SeenIsLive
  <2>2. FrozenViews(n) = FrozenViews(m) /\ n.trash.snaps = m.trash.snaps
    BY <1>3 DEF FrozenViews
  <2> QED  BY <1>3, <2>1, <2>2, StepKeeps
<1> QED  BY <1>3, <1>4, <1>7, <1>8 DEF Rest

\* A new record with the Delete flag takes over template t, which nothing owned.
LEMMA OwnerAdded ==
  ASSUME NEW m, NEW X, Good(m, X), NEW i \in DOMAIN m.snaps, m.snaps[i].editable,
         NEW id \in IDs, ~Has(m.snaps[i], id), NEW t \in X, NEW rec, rec.t = t, rec.d,
         NEW n, IsAdded(m, i, id, rec, n), n.cur = m.cur
  PROVE  /\ Good(n, X \ {t}) /\ Keeps(m, n) /\ n.tm = m.tm
         /\ Len(n.snaps) = Len(m.snaps) /\ n.snaps[i].recs[id] = rec
         /\ \A k \in DOMAIN m.snaps : n.snaps[k].editable = m.snaps[k].editable
         /\ \A k \in DOMAIN m.snaps : k # i => n.snaps[k] = m.snaps[k]
         /\ \A b \in Nat : b <= Len(m.snaps) => Behind(m, n, b)
<1>1. /\ DOMAIN m = ManagerFields /\ IsList(m.snaps) /\ Starts(m.snaps)
      /\ X \subseteq DOMAIN m.tm /\ DOMAIN m.tm \subseteq Addrs /\ t \in Addrs
  BY GoodFacts
<1>2. Good(n, X \ {t}) /\ Keeps(m, n)
  BY AddedByOwner, AddStep
<1>3. \A b \in Nat : b <= Len(m.snaps) =>
        /\ Behind(m, n, b) /\ Len(n.snaps) = Len(m.snaps)
        /\ \A k \in DOMAIN m.snaps : n.snaps[k].editable = m.snaps[k].editable
  BY <1>1, AddBehind
<1>4. 0 <= Len(m.snaps)
  BY <1>1, ListLen
<1>5. n.snaps[i].recs[id] = rec /\ n.tm = m.tm
      /\ \A k \in DOMAIN m.snaps : k # i => n.snaps[k] = m.snaps[k]
  BY DEF IsAdded, IsSet
<1> QED  BY <1>2, <1>3, <1>4, <1>5

\* mgr_snap_template_add_ref() of a new template, first added here.
AddNew(m, i, id, t) == AddRef(m, i, id, t, TRUE, TRUE)

\* A new template.
LEMMA AddedNew ==
  ASSUME NEW m, DOMAIN m = ManagerFields, IsList(m.snaps), Starts(m.snaps),
         NEW i \in DOMAIN m.snaps, NEW id \in IDs, NEW t \in Addrs,
         NEW n, n = AddNew(m, i, id, t)
  PROVE  \E r : r.t = t /\ r.c /\ r.d /\ IsAdded(m, i, id, r, n) /\ n.cur = m.cur
<1> DEFINE yes == TRUE
<1>1. n = AddRef(m, i, id, t, yes, yes)
  BY DEF AddNew
<1>2. yes \in BOOLEAN /\ yes
  OBVIOUS
<1> HIDE DEF yes
<1>3. \A c, d \in BOOLEAN : n = AddRef(m, i, id, t, c, d) =>
        \E r : r.t = t /\ (r.c <=> c) /\ (r.d <=> d) /\ IsAdded(m, i, id, r, n) /\ n.cur = m.cur
  BY AddedRecord
<1>4. \E r : r.t = t /\ (r.c <=> yes) /\ (r.d <=> yes) /\ IsAdded(m, i, id, r, n) /\ n.cur = m.cur
  BY <1>1, <1>2, <1>3
<1> QED  BY <1>2, <1>4

\* mgr_snap_template_add_ref() of the copy of a template.
AddCopy(m, i, id, t) == AddRef(m, i, id, t, FALSE, TRUE)

\* A copy of a template.
LEMMA AddedCopy ==
  ASSUME NEW m, DOMAIN m = ManagerFields, IsList(m.snaps), Starts(m.snaps),
         NEW i \in DOMAIN m.snaps, NEW id \in IDs, NEW t \in Addrs,
         NEW n, n = AddCopy(m, i, id, t)
  PROVE  \E r : r.t = t /\ ~r.c /\ r.d /\ IsAdded(m, i, id, r, n) /\ n.cur = m.cur
<1> DEFINE yes == TRUE
           no  == FALSE
<1>1. n = AddRef(m, i, id, t, no, yes)
  BY DEF AddCopy
<1>2. yes \in BOOLEAN /\ yes /\ no \in BOOLEAN /\ ~no
  OBVIOUS
<1> HIDE DEF yes, no
<1>3. \A c, d \in BOOLEAN : n = AddRef(m, i, id, t, c, d) =>
        \E r : r.t = t /\ (r.c <=> c) /\ (r.d <=> d) /\ IsAdded(m, i, id, r, n) /\ n.cur = m.cur
  BY AddedRecord
<1>4. \E r : r.t = t /\ (r.c <=> no) /\ (r.d <=> yes) /\ IsAdded(m, i, id, r, n) /\ n.cur = m.cur
  BY <1>1, <1>2, <1>3
<1> QED  BY <1>2, <1>4

\* mgr_snap_template_remove() from an editable snapshot.
LEMMA RecordRemoved ==
  ASSUME NEW m, NEW X, Good(m, X), NEW i \in DOMAIN m.snaps, m.snaps[i].editable,
         NEW id \in IDs, Has(m.snaps[i], id), NEW n, n = TemplateRemove(m, i, id)
  PROVE  /\ Good(n, X) /\ Keeps(m, n) /\ n.cur = m.cur /\ Len(n.snaps) = Len(m.snaps)
         /\ i \in DOMAIN n.snaps /\ n.snaps[i].editable /\ ~Has(n.snaps[i], id)
         /\ DOMAIN n.tm \subseteq DOMAIN m.tm
         /\ \A b \in Nat : b <= Len(m.snaps) => Behind(m, n, b)
         /\ \A k \in DOMAIN m.snaps :
              k # i /\ m.snaps[k].recs[id].t # m.snaps[i].recs[id].t =>
                /\ n.snaps[k].recs[id].t = m.snaps[k].recs[id].t
                /\ n.snaps[k].recs[id].c = m.snaps[k].recs[id].c
                /\ n.snaps[k].recs[id].d <=> m.snaps[k].recs[id].d
<1> DEFINE s == m.snaps
           ns == n.snaps
           r == s[i].recs[id]
<1>1. DOMAIN m = ManagerFields /\ IsList(s) /\ Starts(s) /\ IsGarbage(m.trash)
  BY GoodFacts
<1>2. IsRemoved(m, i, id, n) /\ n.cur = m.cur
  BY <1>1, RemoveFields
<1>3. Good(n, X) /\ Keeps(m, n)
  BY <1>2, RemoveStep
<1>4. Len(s) \in Nat /\ DOMAIN s = 1..Len(s)
  BY <1>1, ListLen
<1>5. \A b \in Nat : b <= Len(m.snaps) =>
        /\ Behind(m, n, b) /\ Len(n.snaps) = Len(m.snaps) /\ DOMAIN n.snaps = DOMAIN m.snaps
        /\ \A k \in DOMAIN m.snaps : n.snaps[k].editable = m.snaps[k].editable
  BY <1>1, <1>2, RemoveBehind
<1>6. PICK j : /\ r.d => IsMoveTarget(s, i, id, j)
               /\ IsDrop(s, i, id, j, ns)
               /\ ~r.d \/ j # 0 => n.tm = m.tm /\ n.trash = m.trash
               /\ r.d /\ j = 0 /\ r.c =>
                    n.tm = [u \in DOMAIN m.tm \ {r.t} |-> m.tm[u]] /\ n.trash = m.trash
               /\ r.d /\ j = 0 /\ ~r.c =>
                    /\ n.tm = m.tm
                    /\ n.trash = [own |-> m.trash.own \cup {r.t}, snaps |-> m.trash.snaps]
  BY <1>2 DEF IsRemoved
<1>7. r.d \in BOOLEAN /\ r.c \in BOOLEAN
  BY <1>1, Fields
<1>8. 0 <= Len(m.snaps) /\ i \in DOMAIN s /\ s[i].editable
  BY <1>4
<1> HIDE DEF s, ns, r
<1>9. DOMAIN n.tm \subseteq DOMAIN m.tm
  BY <1>6, <1>7
<1>10. ~Has(ns[i], id)
  BY <1>6, NoRecFields DEF IsDrop, Has
<1>11. ASSUME NEW k \in DOMAIN s, k # i, s[k].recs[id].t # s[i].recs[id].t
       PROVE  /\ ns[k].recs[id].t = s[k].recs[id].t
              /\ ns[k].recs[id].c = s[k].recs[id].c
              /\ ns[k].recs[id].d <=> s[k].recs[id].d
  <2>1. s[i].recs[id].d => j # k
    <3>1. s[i].recs[id].d => j = 0 \/ s[j].recs[id].t = s[i].recs[id].t
      BY <1>6 DEF IsMoveTarget, OlderRefs, r
    <3>2. k # 0
      BY <1>4
    <3> QED  BY <1>11, <3>1, <3>2
  <2>2. \A x \in IDs : ~(k = i /\ x = id) =>
         /\ ns[k].recs[x].t = s[k].recs[x].t /\ ns[k].recs[x].c = s[k].recs[x].c
         /\ ns[k].recs[x].d <=> s[k].recs[x].d \/ (x = id /\ s[i].recs[id].d /\ j = k)
    BY <1>6 DEF IsDrop
  <2> QED  BY <1>11, <2>1, <2>2
<1>12. Len(n.snaps) = Len(m.snaps) /\ i \in DOMAIN n.snaps /\ n.snaps[i].editable
  BY <1>5, <1>8 DEF s
<1>13. \A b \in Nat : b <= Len(m.snaps) => Behind(m, n, b)
  BY <1>5
<1> QED  BY <1>2, <1>3, <1>9, <1>10, <1>11, <1>12, <1>13 DEF s, ns

\* mgr_snap_template_add() to the prepared current snapshot.
LEMMA TemplateAddStep ==
  ASSUME NEW m, Good(m, {}), Ready(m), m.cur \in Nat, Free(m) # {}, NEW id \in IDs, NEW def,
         NEW n, n = TemplateAdd(m, id, def)
  PROVE  Good(n, {}) /\ Keeps(m, n) /\ Ready(n)
<1> DEFINE i       == m.cur
           rec     == m.snaps[i].recs[id]
           refresh == rec.t # NoTmplt /\ m.tm[rec.t].def = def
           t       == Fresh(m)
           x == [def |-> def, last |-> m.now,
                 eol |-> Plus(m.now, IF TypeOf(def) = "data" THEN m.limN ELSE m.limO),
                 first |-> IF refresh THEN m.tm[rec.t].first ELSE m.now,
                 key |-> IF refresh THEN m.tm[rec.t].key ELSE 0,
                 ies |-> IF refresh THEN m.tm[rec.t].ies ELSE m.ies]
           m1 == Allocate(m, t, x)
           m2 == IF rec.t # NoTmplt THEN TemplateRemove(m1, i, id) ELSE m1
<1>1. /\ DOMAIN m = ManagerFields /\ IsList(m.snaps) /\ DOMAIN m.tm \subseteq Addrs
      /\ Refs(m.snaps) \subseteq DOMAIN m.tm /\ Current(m.tm, Refs(m.snaps), m.ies)
  <2>1. /\ DOMAIN m = ManagerFields /\ IsList(m.snaps) /\ DOMAIN m.tm \subseteq Addrs
        /\ Refs(m.snaps) \subseteq DOMAIN m.tm \ {} /\ Current(m.tm, Refs(m.snaps) \cup {}, m.ies)
    BY GoodFacts
  <2>2. Refs(m.snaps) \cup {} = Refs(m.snaps)
    OBVIOUS
  <2> QED  BY <2>1, <2>2
<1>2. i \in DOMAIN m.snaps /\ m.snaps[i].editable
  BY DEF Ready, Arriving
<1>3. t \in Addrs \ DOMAIN m.tm
  BY FreeAddrs, FreshIsFree
<1>4. n = AddNew(m2, i, id, t)
  BY Zenon DEF TemplateAdd, AddNew
<1>5. x.ies = m.ies /\ "ies" \in DOMAIN x
  <2>1. CASE refresh
    <3>1. rec.t \in Refs(m.snaps)
      <4> HIDE DEF i
      <4> QED  BY <1>2, <2>1 DEF Refs, RefsOf, Has
    <3> HIDE DEF rec
    <3> QED  BY <1>1, <2>1, <3>1 DEF Current
  <2>2. CASE ~refresh
    <3> HIDE DEF refresh
    <3> QED  BY <2>2
  <2> QED  BY <2>1, <2>2, Zenon
<1> HIDE DEF x, t, rec, refresh
<1> DEFINE T == {t}
<1>6. /\ Good(m1, {} \cup {t}) /\ Keeps(m, m1) /\ m1.snaps = m.snaps /\ m1.cur = m.cur
      /\ m1.now = m.now
  <2> DEFINE none == {}
             y    == m1
  <2>1. Good(m, none) /\ y = Allocate(m, t, x)
    OBVIOUS
  <2> HIDE DEF none, y
  <2>2. /\ Good(y, none \cup {t}) /\ Keeps(m, y) /\ y.snaps = m.snaps /\ y.cur = m.cur
        /\ y.now = m.now
    BY <1>3, <1>5, <2>1, AllocateStep
  <2> QED  BY <2>2 DEF none, y
<1>7. {} \cup {t} = T /\ T \ {t} = {} /\ t \in T
  OBVIOUS
<1> HIDE DEF T
<1>8. Good(m1, T)
  BY <1>6, <1>7
<1>9. m2 = IF Has(m1.snaps[i], id) THEN TemplateRemove(m1, i, id) ELSE m1
  BY <1>6 DEF Has, rec
<1> HIDE DEF m1, m2
<1>10. Ready(m1) /\ i \in DOMAIN m1.snaps /\ m1.snaps[i].editable /\ m1.cur = i
  BY <1>2, <1>6 DEF Ready, Arriving
<1>11. /\ Good(m2, T) /\ Keeps(m1, m2) /\ ~Has(m2.snaps[i], id) /\ Ready(m2) /\ m2.cur = i
       /\ i \in DOMAIN m2.snaps /\ m2.snaps[i].editable
  <2>1. CASE Has(m1.snaps[i], id)
    <3>1. /\ Good(m2, T) /\ Keeps(m1, m2) /\ ~Has(m2.snaps[i], id) /\ m2.cur = m1.cur
          /\ i \in DOMAIN m2.snaps /\ m2.snaps[i].editable
          /\ \A b \in Nat : b <= Len(m1.snaps) => Behind(m1, m2, b)
      BY <1>8, <1>9, <1>10, <2>1, RecordRemoved
    <3>2. i <= Len(m1.snaps)
      BY <1>1, <1>2, <1>6, ListLen
    <3>3. Behind(m1, m2, m1.cur)
      BY <1>10, <3>1, <3>2
    <3> QED  BY <1>8, <1>10, <3>1, <3>3, ReadyBehind
  <2>2. CASE ~Has(m1.snaps[i], id)
    BY <1>8, <1>9, <1>10, <2>2, KeepsItself
  <2> QED  BY <2>1, <2>2
<1>12. /\ Good(n, T \ {t}) /\ Keeps(m2, n)
       /\ \A b \in Nat : b <= Len(m2.snaps) => Behind(m2, n, b)
  <2>1. DOMAIN m2 = ManagerFields /\ IsList(m2.snaps) /\ Starts(m2.snaps) /\ t \in Addrs
    BY <1>3, <1>11, GoodFacts
  <2>2. PICK r : r.t = t /\ r.c /\ r.d /\ IsAdded(m2, i, id, r, n) /\ n.cur = m2.cur
    BY <1>4, <1>11, <2>1, AddedNew
  <2>3. t \in T /\ Good(m2, T) /\ ~Has(m2.snaps[i], id)
    BY <1>7, <1>11
  <2>4. Good(n, T \ {t}) /\ Keeps(m2, n)
    BY <1>11, <2>2, <2>3, OwnerAdded
  <2>5. \A b \in Nat : b <= Len(m2.snaps) => Behind(m2, n, b)
    BY <1>11, <2>2, <2>3, OwnerAdded
  <2> QED  BY <2>4, <2>5
<1>13. Good(n, {})
  BY <1>7, <1>12
<1>14. Ready(n)
  <2>1. i <= Len(m2.snaps)
    BY <1>11, GoodFacts, ListLen
  <2>2. Behind(m2, n, m2.cur)
    BY <1>11, <1>12, <2>1
  <2> QED  BY <1>11, <1>13, <2>2, ReadyBehind
<1>15. Keeps(m, n)
  BY <1>6, <1>11, <1>12, KeepsTransitive
<1> QED  BY <1>13, <1>14, <1>15

-----------------------------------------------------------------------------
(* Withdrawal and removal. *)

\* mgr_snap_edit() and the removal of a record of what it returned: snapshots
\* before j stay as they are.
LEMMA EditedRemoved ==
  ASSUME NEW m, NEW X, Good(m, X), NEW j \in DOMAIN m.snaps, NEW id \in IDs,
         Has(m.snaps[j], id), m.cur \in Nat, NEW a, NEW e, IsEdited(m, j, a, e),
         NEW n, n = TemplateRemove(a, e, id)
  PROVE  /\ Good(n, X) /\ Keeps(m, n) /\ n.cur \in Nat
         /\ e \in Nat /\ j <= e /\ e \in DOMAIN n.snaps /\ n.snaps[e].editable
         /\ \A c \in Nat : c <= j => Behind(m, n, c)
<1>1. DOMAIN m = ManagerFields /\ IsList(m.snaps) /\ Starts(m.snaps)
  BY GoodFacts
<1>2. /\ e \in DOMAIN a.snaps /\ a.snaps[e].editable /\ j <= e /\ e \in Nat /\ IsList(a.snaps)
      /\ a.snaps[e].recs[id].t = m.snaps[j].recs[id].t
      /\ Len(a.snaps) \in {Len(m.snaps), Len(m.snaps) + 1}
  BY <1>1, EditShape
<1>3. Good(a, X) /\ Keeps(m, a)
  BY EditStep
<1>4. \A c \in Nat : c <= j => Behind(m, a, c)
  BY <1>1, EditBehind
<1>5. a.cur \in Nat
  BY DEF IsEdited
<1>6. Has(a.snaps[e], id)
  BY <1>2 DEF Has
<1>7. /\ Good(n, X) /\ Keeps(a, n) /\ n.cur = a.cur /\ Len(n.snaps) = Len(a.snaps)
      /\ e \in DOMAIN n.snaps /\ n.snaps[e].editable
      /\ \A b \in Nat : b <= Len(a.snaps) => Behind(a, n, b)
  BY <1>2, <1>3, <1>6, RecordRemoved
<1>8. Keeps(m, n)
  BY <1>3, <1>7, KeepsTransitive
<1>9. ASSUME NEW c \in Nat, c <= j PROVE Behind(m, n, c)
  <2>1. Len(m.snaps) \in Nat /\ Len(a.snaps) \in Nat /\ DOMAIN a.snaps = 1..Len(a.snaps)
    BY <1>1, <1>2, ListLen
  <2>2. c <= Len(a.snaps)
    <3>1. j \in Nat
      BY <1>1, Fields
    <3> QED  BY <1>2, <1>9, <2>1, <3>1
  <2>3. Behind(m, a, c) /\ Behind(a, n, c)
    BY <1>4, <1>7, <1>9, <2>2
  <2> QED  BY <1>7, <2>1, <2>3, BehindTransitive
<1> QED  BY <1>2, <1>5, <1>7, <1>8, <1>9

\* The loop works on snapshot m.cur and newer ones.
Withdraws(w, m, X, id) ==
  /\ DOMAIN w = {"m", "j", "id"} /\ w.id = id
  /\ Good(w.m, X) /\ Keeps(m, w.m) /\ w.m.cur \in Nat /\ Behind(m, w.m, m.cur)
  /\ w.j \in Nat /\ m.cur <= w.j /\ 1 <= w.j

\* One round of the loop of mgr_snap_template_withdraw().
LEMMA WithdrawRound ==
  ASSUME NEW w, NEW m, NEW X, NEW id \in IDs, m.cur \in Nat, Len(m.snaps) \in Nat,
         Withdraws(w, m, X, id), ~WithdrawEnds(w), NEW v, v = WithdrawAt(w)
  PROVE  Withdraws(v, m, X, id)
<1> DEFINE e == EditIdx(w.m, w.j)
           a == SnapEdit(w.m, w.j)
           n == TemplateRemove(a, e, id)
           j == w.j
           o == w.m
<1>1. /\ DOMAIN w = {"m", "j", "id"} /\ w.id = id
      /\ Good(o, X) /\ Keeps(m, o) /\ o.cur \in Nat /\ Behind(m, o, m.cur)
      /\ j \in Nat /\ m.cur <= j /\ 1 <= j
  BY DEF Withdraws
<1>2. DOMAIN o = ManagerFields /\ IsList(o.snaps) /\ Starts(o.snaps)
      /\ Len(o.snaps) \in Nat /\ DOMAIN o.snaps = 1..Len(o.snaps)
  BY <1>1, GoodFacts, ListLen
<1>3. j \in DOMAIN o.snaps
  BY <1>1, <1>2 DEF WithdrawEnds, Newest
<1>4. CASE ~Has(o.snaps[j], id) \/ Hidden(o, j)
  <2>1. v = [w EXCEPT !.j = @ + 1]
    BY <1>1, <1>4 DEF WithdrawAt
  <2>2. DOMAIN v = DOMAIN w /\ v.m = o /\ v.id = id /\ v.j = j + 1
    BY <1>1, <2>1
  <2> HIDE DEF o, j
  <2> QED  BY <1>1, <2>2 DEF Withdraws
<1>5. CASE ~(~Has(o.snaps[j], id) \/ Hidden(o, j))
  <2>1. v = [w EXCEPT !.m = n, !.j = e + 1]
    BY <1>1, <1>5 DEF WithdrawAt
  <2>2. IsEdited(o, j, a, e)
    BY <1>2, <1>3, EditFields
  <2>3. n = TemplateRemove(a, e, id)
    OBVIOUS
  <2> HIDE DEF n, e, a
  <2>4. DOMAIN v = DOMAIN w /\ v.m = n /\ v.id = id /\ v.j = e + 1
    BY <1>1, <2>1
  <2> HIDE DEF o, j
  <2>5. Has(o.snaps[j], id)
    BY <1>5
  <2>6. /\ Good(n, X) /\ Keeps(o, n) /\ n.cur \in Nat /\ e \in Nat /\ j <= e
        /\ \A c \in Nat : c <= j => Behind(o, n, c)
    BY <1>1, <1>3, <2>2, <2>3, <2>5, EditedRemoved
  <2>7. Behind(m, n, m.cur)
    <3>1. Len(n.snaps) \in Nat
      BY <2>6, GoodFacts, ListLen
    <3> QED  BY <1>1, <1>2, <2>6, <3>1, BehindTransitive
  <2>8. Keeps(m, n)
    BY <1>1, <2>6, KeepsTransitive
  <2>9. m.cur <= e + 1 /\ 1 <= e + 1 /\ e + 1 \in Nat
    BY <1>1, <2>6
  <2> QED  BY <1>1, <2>4, <2>6, <2>7, <2>8, <2>9 DEF Withdraws
<1> QED  BY <1>4, <1>5

\* mgr_snap_template_withdraw() of a prepared snapshot.
LEMMA WithdrawFromStep ==
  ASSUME NEW m, NEW X, Good(m, X), Ready(m), m.cur \in Nat, NEW id \in IDs,
         NEW n, n = WithdrawFrom(m, m.cur, id)
  PROVE  Good(n, X) /\ Keeps(m, n) /\ Ready(n) /\ n.cur = m.cur
<1> DEFINE x == [m |-> m, j |-> m.cur, id |-> id]
           c == Newest(m)
           w == Withdrawal!Repeat(x, c)
<1>1. c \in Nat /\ Len(m.snaps) \in Nat /\ DOMAIN m.snaps = 1..Len(m.snaps)
  BY GoodFacts, ListLen DEF Newest
<1>2. n = w.m
  BY DEF WithdrawFrom
<1>3. Withdraws(x, m, X, id)
  <2>1. 1 <= m.cur /\ Behind(m, m, m.cur)
    BY <1>1 DEF Ready, Arriving, Behind
  <2> QED  BY <2>1, KeepsItself DEF Withdraws
<1> HIDE DEF x, c
<1>4. PICK S : /\ x \in S
               /\ \A T \in SUBSET S :
                    x \in T /\ (\A y \in T : ~WithdrawEnds(y) /\ WithdrawAt(y) \in S => WithdrawAt(y) \in T)
                      => Withdrawal!Repeat(x, c) \in T
  BY <1>1, Withdrawal!LoopInvariant
<1> DEFINE T == {y \in S : Withdraws(y, m, X, id)}
<1>5. x \in T /\ T \in SUBSET S
  BY <1>3, <1>4
<1>6. ASSUME NEW y \in T, ~WithdrawEnds(y), WithdrawAt(y) \in S PROVE WithdrawAt(y) \in T
  BY <1>1, <1>6, WithdrawRound
<1>7. w \in T
  <2> HIDE DEF T
  <2> QED  BY <1>4, <1>5, <1>6
<1>8. Good(n, X) /\ Keeps(m, n) /\ Behind(m, n, m.cur)
  BY <1>2, <1>7 DEF Withdraws
<1> QED  BY <1>8, ReadyBehind

\* fds_tmgr_template_withdraw_all() goes on with the same snapshot.
WithdrawsEach(f, m, X) ==
  /\ DOMAIN f = {"m", "left"} /\ f.left \subseteq IDs
  /\ Good(f.m, X) /\ Keeps(m, f.m) /\ Ready(f.m) /\ f.m.cur \in Nat

\* One ID.
LEMMA WithdrawNextRound ==
  ASSUME NEW f, NEW m, NEW X, WithdrawsEach(f, m, X), ~NoneLeft(f), NEW g, g = WithdrawNext(f)
  PROVE  WithdrawsEach(g, m, X)
<1> DEFINE id == Least(f.left)
           n  == WithdrawFrom(f.m, f.m.cur, id)
<1>1. /\ DOMAIN f = {"m", "left"} /\ f.left \subseteq IDs
      /\ Good(f.m, X) /\ Keeps(m, f.m) /\ Ready(f.m) /\ f.m.cur \in Nat
  BY DEF WithdrawsEach
<1>2. id \in IDs
  BY <1>1, LeastFound DEF NoneLeft
<1>3. g = [f EXCEPT !.m = n, !.left = f.left \ {id}]
  BY <1>1 DEF WithdrawNext
<1>4. n = WithdrawFrom(f.m, f.m.cur, id)
  OBVIOUS
<1> HIDE DEF n, id
<1>5. DOMAIN g = DOMAIN f /\ g.m = n /\ g.left = f.left \ {id}
  BY <1>1, <1>3
<1>6. Good(n, X) /\ Keeps(f.m, n) /\ Ready(n) /\ n.cur = f.m.cur
  BY <1>1, <1>2, <1>4, WithdrawFromStep
<1>7. Keeps(m, n)
  BY <1>1, <1>6, KeepsTransitive
<1> QED  BY <1>1, <1>5, <1>6, <1>7 DEF WithdrawsEach

\* fds_tmgr_template_withdraw_all() of a prepared snapshot.
LEMMA WithdrawAllStep ==
  ASSUME NEW m, NEW X, Good(m, X), Ready(m), m.cur \in Nat, NEW L \in SUBSET IDs, NEW c \in Nat,
         NEW n, n = Withdrawals!Repeat([m |-> m, left |-> L], c).m
  PROVE  Good(n, X) /\ Keeps(m, n) /\ Ready(n)
<1> DEFINE x == [m |-> m, left |-> L]
           w == Withdrawals!Repeat(x, c)
<1>1. n = w.m
  OBVIOUS
<1>2. WithdrawsEach(x, m, X)
  BY KeepsItself DEF WithdrawsEach
<1> HIDE DEF x
<1>3. PICK S : /\ x \in S
               /\ \A T \in SUBSET S :
                    x \in T /\ (\A y \in T : ~NoneLeft(y) /\ WithdrawNext(y) \in S => WithdrawNext(y) \in T)
                      => Withdrawals!Repeat(x, c) \in T
  BY Withdrawals!LoopInvariant
<1> DEFINE T == {y \in S : WithdrawsEach(y, m, X)}
<1>4. x \in T /\ T \in SUBSET S
  BY <1>2, <1>3
<1>5. ASSUME NEW y \in T, ~NoneLeft(y), WithdrawNext(y) \in S PROVE WithdrawNext(y) \in T
  BY <1>5, WithdrawNextRound
<1>6. w \in T
  <2> HIDE DEF T
  <2> QED  BY <1>3, <1>4, <1>5
<1> QED  BY <1>1, <1>6 DEF WithdrawsEach

Removes(r, m, X, id) ==
  /\ DOMAIN r = {"m", "j", "id", "type"} /\ r.id = id
  /\ Good(r.m, X) /\ Keeps(m, r.m) /\ r.m.cur \in Nat /\ r.m.now = m.now
  /\ r.j \in Nat /\ 1 <= r.j

\* Before a snapshot is removed from it is copied, as mgr_snap_edit() does.
LEMMA CloneIsEdit ==
  ASSUME NEW m, DOMAIN m = ManagerFields, IsList(m.snaps), Starts(m.snaps),
         NEW i \in DOMAIN m.snaps, NEW n,
         n = IF m.snaps[i].editable THEN m ELSE SnapClone(m, i, m.snaps[i].start)
  PROVE  IsEdited(m, i, n, EditIdx(m, i))
<1>1. CASE m.snaps[i].editable
  BY <1>1 DEF IsEdited, EditIdx
<1>2. CASE ~m.snaps[i].editable
  <2>1. n = SnapClone(m, i, m.snaps[i].start)
    BY <1>2
  <2>2. /\ IsCloned(m, i, n) /\ IsClone(m.snaps, i, {}, n.snaps)
        /\ n.cur = IF m.cur > i THEN m.cur + 1 ELSE m.cur
    BY <2>1, SnapCloneFields
  <2>3. EditIdx(m, i) = i + 1
    BY <1>2 DEF EditIdx
  <2> QED  BY <1>2, <2>2, <2>3 DEF IsEdited
<1> QED  BY <1>1, <1>2

\* Snapshots that must not stay editable are frozen at once.
LEMMA RefreezeStep ==
  ASSUME NEW m, NEW X, Good(m, X), NEW i \in DOMAIN m.snaps, m.cur \in Nat,
         NEW n, n = Refreeze(m, i)
  PROVE  Good(n, X) /\ Keeps(m, n) /\ n.cur \in Nat /\ n.now = m.now
<1>1. DOMAIN m = ManagerFields /\ IsList(m.snaps) /\ Starts(m.snaps)
  BY GoodFacts
<1>2. n = m \/ n = Freeze(m, i)
  BY DEF Refreeze, Freeze
<1>3. CASE n = m
  BY <1>3, KeepsItself
<1>4. CASE n = Freeze(m, i)
  <2>1. Rest(m, n) /\ n.cur = m.cur
    BY <1>1, <1>4, FreezeFields
  <2>2. Good(n, X) /\ Keeps(m, n)
    BY <1>4, FreezeStep
  <2> QED  BY <2>1, <2>2 DEF Rest
<1> QED  BY <1>2, <1>3, <1>4

\* One round of the loop of fds_tmgr_template_remove().
LEMMA RemoveRound ==
  ASSUME NEW r, NEW m, NEW X, NEW id \in IDs, Removes(r, m, X, id), ~RemovalEnds(r),
         NEW v, v = RemoveAt(r)
  PROVE  Removes(v, m, X, id)
<1> DEFINE o == r.m
           j == r.j
           e == EditIdx(o, j)
           a == IF o.snaps[j].editable THEN o ELSE SnapClone(o, j, o.snaps[j].start)
           b == TemplateRemove(a, e, id)
           n == Refreeze(b, e)
<1>1. /\ DOMAIN r = {"m", "j", "id", "type"} /\ r.id = id
      /\ Good(o, X) /\ Keeps(m, o) /\ o.cur \in Nat /\ o.now = m.now
      /\ j \in Nat /\ 1 <= j
  BY DEF Removes
<1>2. DOMAIN o = ManagerFields /\ IsList(o.snaps) /\ Starts(o.snaps)
      /\ Len(o.snaps) \in Nat /\ DOMAIN o.snaps = 1..Len(o.snaps)
  BY <1>1, GoodFacts, ListLen
<1>3. j \in DOMAIN o.snaps
  BY <1>1, <1>2 DEF RemovalEnds, Newest
<1>4. \/ v = [r EXCEPT !.j = j + 1]
      \/ v = [r EXCEPT !.m = n, !.j = e + 1] /\ Has(o.snaps[j], id)
  <2> DEFINE skip == \/ ~Has(o.snaps[j], r.id) \/ Hidden(o, j)
                     \/ ~TypeMatches(r.type, o.tm[o.snaps[j].recs[r.id].t].def)
  <2>1. skip => v = [r EXCEPT !.j = @ + 1]
    BY Zenon DEF RemoveAt
  <2>2. ~skip => v = [r EXCEPT !.m = n, !.j = e + 1]
    BY <1>1, Zenon DEF RemoveAt
  <2>3. ~skip => Has(o.snaps[j], id)
    BY <1>1
  <2>4. [r EXCEPT !.j = @ + 1] = [r EXCEPT !.j = j + 1]
    BY <1>1
  <2> HIDE DEF skip, n, e, o, j
  <2> QED  BY <2>1, <2>2, <2>3, <2>4
<1>5. CASE v = [r EXCEPT !.j = j + 1]
  <2>1. DOMAIN v = DOMAIN r /\ v.m = o /\ v.id = id /\ v.j = j + 1
    BY <1>1, <1>5
  <2> HIDE DEF o, j
  <2> QED  BY <1>1, <2>1 DEF Removes
<1>6. CASE v = [r EXCEPT !.m = n, !.j = e + 1] /\ Has(o.snaps[j], id)
  <2>1. IsEdited(o, j, a, e)
    BY <1>2, <1>3, CloneIsEdit
  <2>2. b = TemplateRemove(a, e, id) /\ n = Refreeze(b, e)
    OBVIOUS
  <2> HIDE DEF n, b, e, a
  <2>3. DOMAIN v = DOMAIN r /\ v.m = n /\ v.id = id /\ v.j = e + 1
    BY <1>1, <1>6
  <2> HIDE DEF o, j
  <2>4. /\ Good(b, X) /\ Keeps(o, b) /\ b.cur \in Nat
        /\ e \in Nat /\ j <= e /\ e \in DOMAIN b.snaps
        /\ \A c \in Nat : c <= j => Behind(o, b, c)
    BY <1>1, <1>3, <1>6, <2>1, <2>2, EditedRemoved
  <2>5. Good(n, X) /\ Keeps(b, n) /\ n.cur \in Nat /\ n.now = b.now
    BY <2>2, <2>4, RefreezeStep
  <2>6. b.now = o.now
    BY <1>1, <2>4 DEF Behind
  <2>7. Keeps(m, n)
    BY <1>1, <2>4, <2>5, KeepsTransitive
  <2> QED  BY <1>1, <2>3, <2>4, <2>5, <2>6, <2>7 DEF Removes
<1> QED  BY <1>4, <1>5, <1>6

\* The loop of fds_tmgr_template_remove().
LEMMA RemoveFromStep ==
  ASSUME NEW m, NEW X, Good(m, X), m.cur \in Nat, NEW id \in IDs, NEW type,
         NEW n, n = RemoveFrom(m, id, type)
  PROVE  Good(n, X) /\ Keeps(m, n)
<1> DEFINE x == [m |-> m, j |-> 1, id |-> id, type |-> type]
           c == Newest(m)
           w == Removal!Repeat(x, c)
<1>1. c \in Nat
  BY GoodFacts, ListLen DEF Newest
<1>2. n = w.m
  BY DEF RemoveFrom
<1>3. Removes(x, m, X, id)
  BY KeepsItself DEF Removes
<1> HIDE DEF x, c
<1>4. PICK S : /\ x \in S
               /\ \A T \in SUBSET S :
                    x \in T /\ (\A y \in T : ~RemovalEnds(y) /\ RemoveAt(y) \in S => RemoveAt(y) \in T)
                      => Removal!Repeat(x, c) \in T
  BY <1>1, Removal!LoopInvariant
<1> DEFINE T == {y \in S : Removes(y, m, X, id)}
<1>5. x \in T /\ T \in SUBSET S
  BY <1>3, <1>4
<1>6. ASSUME NEW y \in T, ~RemovalEnds(y), RemoveAt(y) \in S PROVE RemoveAt(y) \in T
  BY <1>6, RemoveRound
<1>7. w \in T
  <2> HIDE DEF T
  <2> QED  BY <1>4, <1>5, <1>6
<1> QED  BY <1>2, <1>7 DEF Removes

\* Whatever was done to the list, fds_tmgr_set_time() selects a snapshot again.
LEMMA Reselected ==
  ASSUME NEW m, NEW n, NEW X, Good(n, X), Keeps(m, n), NEW t,
         NEW p, p = SelectTime(Select(n, 0), t)
  PROVE  Settled(m, p, X)
<1> DEFINE a == Select(n, 0)
<1>1. Good(a, X) /\ Keeps(n, a) /\ a.cur = 0 /\ a.snaps = n.snaps
  BY SelectStep
<1>2. OlderFrozen(a)
  <2>1. Len(a.snaps) \in Nat
    BY <1>1, GoodFacts, ListLen
  <2> QED  BY <1>1, <2>1 DEF OlderFrozen
<1> HIDE DEF a
<1>3. Settled(a, p, X)
  BY <1>1, <1>2, SelectTimeStep DEF a
<1>4. Keeps(m, a)
  BY <1>1, KeepsTransitive
<1> QED  BY <1>3, <1>4, SettledLater

-----------------------------------------------------------------------------
(* Cleanup and garbage. *)

Sweeps(c, m, X) ==
  /\ DOMAIN c = {"m", "i"} /\ Good(c.m, X) /\ Keeps(m, c.m) /\ c.m.ies = m.ies
  /\ c.m.now = m.now /\ c.i \in Nat /\ 1 <= c.i

\* One round of the loop of mgr_cleanup().
LEMMA SweepRound ==
  ASSUME NEW c, NEW m, NEW X, Sweeps(c, m, X), ~CleanupEnds(c), NEW v, v = CleanupAt(c)
  PROVE  Sweeps(v, m, X)
<1> DEFINE o == c.m
           i == c.i
           n == SnapRemove(o, i)
<1>1. /\ DOMAIN c = {"m", "i"} /\ Good(o, X) /\ Keeps(m, o) /\ o.ies = m.ies
      /\ o.now = m.now /\ i \in Nat /\ 1 <= i
  BY DEF Sweeps
<1>2. Len(o.snaps) \in Nat /\ DOMAIN o.snaps = 1..Len(o.snaps)
  BY <1>1, GoodFacts, ListLen
<1>3. i \in DOMAIN o.snaps
  BY <1>1, <1>2 DEF CleanupEnds, Newest
<1>4. v = [c EXCEPT !.i = i + 1] \/ v = [c EXCEPT !.m = n]
  BY <1>1 DEF CleanupAt
<1>5. CASE v = [c EXCEPT !.i = i + 1]
  <2>1. DOMAIN v = DOMAIN c /\ v.m = o /\ v.i = i + 1
    BY <1>1, <1>5
  <2> HIDE DEF o, i
  <2> QED  BY <1>1, <2>1 DEF Sweeps
<1>6. CASE v = [c EXCEPT !.m = n]
  <2>1. n = SnapRemove(o, i)
    OBVIOUS
  <2> HIDE DEF n
  <2>2. DOMAIN v = DOMAIN c /\ v.m = n /\ v.i = i
    BY <1>1, <1>6
  <2> HIDE DEF o, i
  <2>3. Good(n, X) /\ Keeps(o, n) /\ Rest(o, n)
    BY <1>1, <1>3, <2>1, UnlinkStep
  <2>4. Keeps(m, n)
    BY <1>1, <2>3, KeepsTransitive
  <2> QED  BY <1>1, <2>2, <2>3, <2>4 DEF Sweeps, Rest
<1> QED  BY <1>4, <1>5, <1>6

\* All its rounds.
LEMMA SweepStep ==
  ASSUME NEW m, NEW X, Good(m, X), NEW c \in Nat,
         NEW n, n = Sweep!Repeat([m |-> m, i |-> 1], c).m
  PROVE  Good(n, X) /\ Keeps(m, n) /\ n.ies = m.ies /\ n.now = m.now
<1> DEFINE x == [m |-> m, i |-> 1]
           w == Sweep!Repeat(x, c)
<1>1. n = w.m
  OBVIOUS
<1>2. Sweeps(x, m, X)
  BY KeepsItself DEF Sweeps
<1> HIDE DEF x
<1>3. PICK S : /\ x \in S
               /\ \A T \in SUBSET S :
                    x \in T /\ (\A y \in T : ~CleanupEnds(y) /\ CleanupAt(y) \in S => CleanupAt(y) \in T)
                      => Sweep!Repeat(x, c) \in T
  BY Sweep!LoopInvariant
<1> DEFINE T == {y \in S : Sweeps(y, m, X)}
<1>4. x \in T /\ T \in SUBSET S
  BY <1>2, <1>3
<1>5. ASSUME NEW y \in T, ~CleanupEnds(y), CleanupAt(y) \in S PROVE CleanupAt(y) \in T
  BY <1>5, SweepRound
<1>6. w \in T
  <2> HIDE DEF T
  <2> QED  BY <1>3, <1>4, <1>5
<1> QED  BY <1>1, <1>6 DEF Sweeps

\* mgr_cleanup(): nothing is selected afterwards.
LEMMA CleanupStep ==
  ASSUME NEW m, NEW X, Good(m, X), OlderFrozen(m), NEW n, n = Cleanup(m)
  PROVE  /\ Good(n, X) /\ Keeps(m, n) /\ OlderFrozen(n) /\ n.cur = 0
         /\ n.ies = m.ies /\ n.now = m.now
<1>1. IsList(m.snaps) /\ Len(m.snaps) \in Nat /\ Newest(m) \in Nat
  BY GoodFacts, ListLen DEF Newest
<1>2. CASE m.snaps = <<>>
  <2>1. n = m
    BY <1>2 DEF Cleanup
  <2>2. m.cur = 0
    BY <1>2 DEF OlderFrozen
  <2> QED  BY <2>1, <2>2, KeepsItself
<1>3. CASE m.snaps # <<>>
  <2> DEFINE a == Sweep!Repeat([m |-> m, i |-> 1], Newest(m)).m
  <2>1. \/ n = KeepNewest(m)
        \/ n = Select(a, 0)
    BY <1>3 DEF Cleanup, KeepNewest, Select
  <2>2. ASSUME n = KeepNewest(m)
       PROVE  Good(n, X) /\ Keeps(m, n) /\ n.cur = 0 /\ n.ies = m.ies /\ n.now = m.now
    <3>1. Good(n, X) /\ Keeps(m, n) /\ Rest(m, n) /\ n.cur = 0
      BY <1>3, <2>2, KeepNewestStep
    <3> QED  BY <3>1 DEF Rest
  <2>3. ASSUME n = Select(a, 0)
       PROVE  Good(n, X) /\ Keeps(m, n) /\ n.cur = 0 /\ n.ies = m.ies /\ n.now = m.now
    <3>1. Good(a, X) /\ Keeps(m, a) /\ a.ies = m.ies /\ a.now = m.now
      BY <1>1, SweepStep
    <3> HIDE DEF a
    <3>2. Good(n, X) /\ Keeps(a, n) /\ n.cur = 0 /\ n.now = a.now /\ n.ies = a.ies
      <4>1. n.ies = a.ies
        BY <2>3, <3>1 DEF Select, Good, ManagerFields
      <4> QED  BY <2>3, <3>1, <4>1, SelectStep
    <3> QED  BY <3>1, <3>2, KeepsTransitive
  <2>4. Good(n, X) /\ Keeps(m, n) /\ n.cur = 0 /\ n.ies = m.ies /\ n.now = m.now
    BY <2>1, <2>2, <2>3
  <2>5. OlderFrozen(n)
    <3>1. Len(n.snaps) \in Nat
      BY <2>4, GoodFacts, ListLen
    <3> QED  BY <2>4, <3>1 DEF OlderFrozen
  <2> QED  BY <2>4, <2>5
<1> QED  BY <1>2, <1>3

\* A sequence, whatever its elements are.
IsSeq(h) == h \in Seq({h[b] : b \in DOMAIN h})

\* The indices of a sequence.
LEMMA SeqFacts ==
  ASSUME NEW h, IsSeq(h)
  PROVE  Len(h) \in Nat /\ DOMAIN h = 1..Len(h)
<1> DEFINE S == {h[b] : b \in DOMAIN h}
<1>1. h \in Seq(S)
  BY DEF IsSeq
<1> HIDE DEF S
<1> QED  BY <1>1, LenProperties

\* A sequence of any set.
LEMMA SeqIn ==
  ASSUME NEW S, NEW h \in Seq(S)
  PROVE  IsSeq(h)
<1> DEFINE T == {h[b] : b \in DOMAIN h}
<1>1. Len(h) \in Nat /\ DOMAIN h = 1..Len(h) /\ h \in [1..Len(h) -> S]
  BY LenProperties
<1>2. h \in [1..Len(h) -> T]
  BY <1>1
<1> HIDE DEF T
<1>3. h \in Seq(T)
  BY <1>1, <1>2, SeqOf
<1> QED  BY <1>3 DEF IsSeq, T

\* Sequences with the same elements.
LEMMA SeqsEqual ==
  ASSUME NEW g, NEW h, IsSeq(g), IsSeq(h), Len(g) = Len(h), \A b \in 1..Len(g) : g[b] = h[b]
  PROVE  g = h
<1> DEFINE G == {g[b] : b \in DOMAIN g}
           H == {h[b] : b \in DOMAIN h}
<1>1. g \in Seq(G) /\ h \in Seq(H)
  BY DEF IsSeq
<1> HIDE DEF G, H
<1>2. g \in Seq(G \cup H) /\ h \in Seq(G \cup H)
  BY <1>1, SeqSub
<1> QED  BY <1>2, SeqEqual

IsAppended(h, g, n) ==
  /\ IsSeq(n) /\ Len(n) = Len(h) + 1
  /\ \A b \in 1..Len(h) : n[b] = h[b]
  /\ n[Len(h) + 1] = g

\* Append, element by element.
LEMMA AppendedSeq ==
  ASSUME NEW h, IsSeq(h), NEW g, NEW n, n = Append(h, g)
  PROVE  IsAppended(h, g, n)
<1> DEFINE S == {h[b] : b \in DOMAIN h}
           T == S \cup {g}
<1>1. h \in Seq(S)
  BY DEF IsSeq
<1> HIDE DEF S
<1>2. h \in Seq(T) /\ g \in T
  BY <1>1, SeqSub
<1> HIDE DEF T
<1>3. /\ n \in Seq(T) /\ Len(n) = Len(h) + 1
      /\ \A b \in 1..Len(h) : n[b] = h[b]
      /\ n[Len(h) + 1] = g
  BY <1>2, AppendProperties
<1> QED  BY <1>3, SeqIn DEF IsAppended

\* Tail, element by element.
LEMMA TailSeq ==
  ASSUME NEW h, IsSeq(h), h # <<>>, NEW n, n = Tail(h)
  PROVE  /\ IsSeq(n) /\ Len(n) = Len(h) - 1 /\ Head(h) = h[1] /\ Len(h) \in Nat \ {0}
         /\ \A b \in 1..Len(n) : n[b] = h[b + 1]
<1> DEFINE S == {h[b] : b \in DOMAIN h}
<1>1. h \in Seq(S)
  BY DEF IsSeq
<1> HIDE DEF S
<1>2. /\ n \in Seq(S) /\ Len(n) = Len(h) - 1
      /\ \A b \in 1..Len(n) : n[b] = h[b + 1]
  BY <1>1, HeadTailProperties
<1>3. Len(h) \in Nat \ {0} /\ Head(h) = h[1]
  BY <1>1, EmptySeq
<1> QED  BY <1>2, <1>3, SeqIn

\* What handed garbage uses, in the same order.
LEMMA UsesOfSeq ==
  ASSUME NEW h, IsSeq(h), NEW u, u = UsesAll(h)
  PROVE  IsSeq(u) /\ Len(u) = Len(h) /\ \A b \in 1..Len(h) : u[b] = Uses(h[b])
<1>1. Len(h) \in Nat /\ DOMAIN h = 1..Len(h)
  BY SeqFacts
<1> DEFINE S == {Uses(h[b]) : b \in DOMAIN h}
<1>2. u \in [1..Len(h) -> S] /\ \A b \in 1..Len(h) : u[b] = Uses(h[b])
  BY <1>1 DEF UsesAll
<1> HIDE DEF S
<1>3. u \in Seq(S) /\ Len(u) = Len(h)
  BY <1>1, <1>2, SeqOf
<1> QED  BY <1>2, <1>3, SeqIn

GivesAway(h, g, n) ==
  /\ IsSeq(n) /\ DOMAIN n = DOMAIN h \cup {Len(h) + 1} /\ n[Len(h) + 1] = g
  /\ \A b \in DOMAIN h : n[b] = h[b]
  /\ UsesAll(n) = Append(UsesAll(h), Uses(g))

\* Garbage is handed out.
LEMMA UsesOfAppend ==
  ASSUME NEW h, IsSeq(h), NEW g, NEW n, n = Append(h, g)
  PROVE  GivesAway(h, g, n)
<1> DEFINE u == UsesAll(h)
           y == UsesAll(n)
           z == Append(u, Uses(g))
<1>1. Len(h) \in Nat /\ DOMAIN h = 1..Len(h)
  BY SeqFacts
<1>2. /\ IsSeq(n) /\ Len(n) = Len(h) + 1
      /\ \A b \in 1..Len(h) : n[b] = h[b]
      /\ n[Len(h) + 1] = g
  <2>1. IsAppended(h, g, n)
    BY AppendedSeq
  <2> QED  BY <2>1 DEF IsAppended
<1>3. DOMAIN n = 1..Len(n)
  BY <1>2, SeqFacts
<1>4. IsSeq(u) /\ Len(u) = Len(h) /\ \A b \in 1..Len(h) : u[b] = Uses(h[b])
  BY UsesOfSeq
<1>5. IsSeq(y) /\ Len(y) = Len(n) /\ \A b \in 1..Len(n) : y[b] = Uses(n[b])
  BY <1>2, UsesOfSeq
<1> HIDE DEF u, y
<1>6. /\ IsSeq(z) /\ Len(z) = Len(u) + 1
      /\ \A b \in 1..Len(u) : z[b] = u[b]
      /\ z[Len(u) + 1] = Uses(g)
  BY <1>4, AppendedSeq DEF IsAppended
<1> HIDE DEF z
<1>7. ASSUME NEW b \in 1..Len(y) PROVE y[b] = z[b]
  <2>1. b \in 1..Len(h) \/ b = Len(h) + 1
    BY <1>1, <1>2, <1>5
  <2>2. CASE b \in 1..Len(h)
    BY <1>2, <1>4, <1>5, <1>6, <2>2
  <2>3. CASE b = Len(h) + 1
    BY <1>2, <1>4, <1>5, <1>6, <2>3
  <2> QED  BY <2>1, <2>2, <2>3
<1>8. y = z
  BY <1>2, <1>4, <1>5, <1>6, <1>7, SeqsEqual
<1> QED  BY <1>1, <1>2, <1>3, <1>8 DEF y, z, u, GivesAway

\* No garbage uses no template.
LEMMA NoGarbageUses == Uses(NoGarbage) = NoBatch /\ IsGarbage(NoGarbage) /\ NoGarbage.snaps = {}
<1>1. NoGarbage.own = {} /\ NoGarbage.snaps = {} /\ NoGarbage = [own |-> {}, snaps |-> {}]
  BY DEF NoGarbage
<1>2. GarbageRefs(NoGarbage) = {}
  BY <1>1 DEF GarbageRefs
<1> QED  BY <1>1, <1>2 DEF Uses, NoBatch, IsGarbage

\* fds_tmgr_garbage_get() gives the trash away.
LEMMA HandOutStep ==
  ASSUME NEW m, NEW X, Good(m, X), NEW n, n = HandOut(m)
  PROVE  Good(n, X) /\ Keeps(m, n) /\ n.snaps = m.snaps /\ n.cur = m.cur /\ n.now = m.now
<1>1. CASE m.trash = NoGarbage
  BY <1>1, KeepsItself DEF HandOut
<1>2. CASE m.trash # NoGarbage
  <2> DEFINE h == m.handed
             g == m.trash
  <2>1. /\ DOMAIN m = ManagerFields /\ IsSeq(h)
        /\ \A b \in DOMAIN h : IsGarbage(h[b])
        /\ IsGarbage(g) /\ Starts(m.snaps) /\ X \subseteq DOMAIN m.tm /\ DOMAIN m.tm \subseteq Addrs
        /\ Sound(m.snaps, DOMAIN m.tm \ X, Uses(g), UsesAll(h))
        /\ Current(m.tm, Refs(m.snaps) \cup X, m.ies)
    BY DEF Good, IsSeq
  <2>2. n = [m EXCEPT !.trash = NoGarbage, !.handed = Append(h, g)]
    BY <1>2 DEF HandOut
  <2>3. /\ DOMAIN n = ManagerFields /\ n.snaps = m.snaps /\ n.cur = m.cur /\ n.now = m.now
        /\ n.tm = m.tm /\ n.ies = m.ies /\ n.trash = NoGarbage /\ n.handed = Append(h, g)
    BY <2>1, <2>2 DEF ManagerFields
  <2> HIDE <2>2
  <2>4. /\ IsSeq(n.handed)
        /\ DOMAIN n.handed = DOMAIN h \cup {Len(h) + 1} /\ n.handed[Len(h) + 1] = g
        /\ \A b \in DOMAIN h : n.handed[b] = h[b]
        /\ UsesAll(n.handed) = Append(UsesAll(h), Uses(g))
    <3>1. GivesAway(h, g, n.handed)
      BY <2>1, <2>3, UsesOfAppend
    <3> QED  BY <3>1 DEF GivesAway
  <2>5. Sound(n.snaps, DOMAIN n.tm \ X, Uses(n.trash), UsesAll(n.handed))
    BY <2>1, <2>3, <2>4, TakeSound, NoGarbageUses
  <2>6. \A b \in DOMAIN n.handed : IsGarbage(n.handed[b])
    BY <2>1, <2>4
  <2>7. Good(n, X)
    BY <2>1, <2>3, <2>4, <2>5, <2>6, NoGarbageUses DEF Good, IsSeq
  <2>8. Seen(m) \subseteq Seen(n)
    <3>1. FrozenViews(n) = FrozenViews(m)
      BY <2>3 DEF FrozenViews
    <3>2. g.snaps \subseteq UNION {n.handed[b].snaps : b \in DOMAIN n.handed}
      BY <2>4
    <3>3. UNION {h[b].snaps : b \in DOMAIN h} \subseteq UNION {n.handed[b].snaps : b \in DOMAIN n.handed}
      BY <2>4
    <3> QED  BY <3>1, <3>2, <3>3 DEF Seen
  <2>9. Keeps(m, n)
    BY <2>3, <2>8 DEF Keeps
  <2> QED  BY <2>3, <2>7, <2>9
<1> QED  BY <1>1, <1>2

\* What a call does for every snapshot that was frozen: nothing.
FrozenKept(m, n) ==
  /\ FrozenViews(m) \subseteq Seen(n)
  /\ \A t \in RefsOfViews(FrozenViews(m)) : n.tm[t] = m.tm[t]

\* Steps that keep all that was seen keep what is frozen.
LEMMA KeepsFrozen ==
  ASSUME NEW m, NEW n, Keeps(m, n)
  PROVE  FrozenKept(m, n)
<1>1. FrozenViews(m) \subseteq Seen(m)
  BY DEF Seen
<1>2. RefsOfViews(FrozenViews(m)) \subseteq SeenRefs(m)
  BY <1>1 DEF RefsOfViews, SeenRefs
<1> QED  BY <1>1, <1>2 DEF Keeps, FrozenKept

\* Templates of frozen snapshots are templates of the list.
LEMMA FrozenRefs ==
  ASSUME NEW m
  PROVE  RefsOfViews(FrozenViews(m)) \subseteq Refs(m.snaps)
<1> SUFFICES ASSUME NEW t \in RefsOfViews(FrozenViews(m)) PROVE t \in Refs(m.snaps)
  OBVIOUS
<1>1. PICK v \in FrozenViews(m) : t \in ViewRefs(v)
  BY InRefsOfViews
<1>2. PICK k \in DOMAIN m.snaps : v = View(m.snaps[k])
  BY DEF FrozenViews
<1> QED  BY <1>1, <1>2, ViewRefsOf DEF Refs

Drops(h, n) ==
  /\ IsSeq(n) /\ \A b \in DOMAIN n : \E a \in DOMAIN h : n[b] = h[a]
  /\ UsesAll(n) = Tail(UsesAll(h)) /\ UsesAll(h) # <<>>
  /\ Head(UsesAll(h)).own = Head(h).own

\* The oldest garbage is destroyed.
LEMMA UsesOfTail ==
  ASSUME NEW h, IsSeq(h), h # <<>>, NEW n, n = Tail(h)
  PROVE  Drops(h, n)
<1> DEFINE u == UsesAll(h)
           y == UsesAll(n)
           z == Tail(u)
<1>1. /\ IsSeq(n) /\ Len(n) = Len(h) - 1 /\ Head(h) = h[1] /\ Len(h) \in Nat \ {0}
      /\ \A b \in 1..Len(n) : n[b] = h[b + 1]
  BY TailSeq
<1>2. DOMAIN n = 1..Len(n) /\ DOMAIN h = 1..Len(h)
  BY <1>1, SeqFacts
<1>3. IsSeq(u) /\ Len(u) = Len(h) /\ \A b \in 1..Len(h) : u[b] = Uses(h[b])
  BY UsesOfSeq, Zenon
<1>4. IsSeq(y) /\ Len(y) = Len(n) /\ \A b \in 1..Len(n) : y[b] = Uses(n[b])
  BY <1>1, UsesOfSeq, Zenon
<1> HIDE DEF u, y
<1>5. u # <<>>
  <2>1. Len(<<>>) = 0
    OBVIOUS
  <2> QED  BY <1>1, <1>3, <2>1
<1>6. /\ IsSeq(z) /\ Len(z) = Len(u) - 1 /\ Head(u) = u[1]
      /\ \A b \in 1..Len(z) : z[b] = u[b + 1]
  BY <1>3, <1>5, TailSeq
<1> HIDE DEF z
<1>7. ASSUME NEW b \in 1..Len(y) PROVE y[b] = z[b]
  <2>1. b \in 1..Len(n) /\ b \in 1..Len(z) /\ b + 1 \in 1..Len(h)
    BY <1>1, <1>3, <1>4, <1>6
  <2> QED  BY <1>1, <1>3, <1>4, <1>6, <2>1
<1>8. y = z
  BY <1>1, <1>3, <1>4, <1>6, <1>7, SeqsEqual
<1>9. \A b \in DOMAIN n : b + 1 \in DOMAIN h /\ n[b] = h[b + 1]
  BY <1>1, <1>2
<1>10. Head(u).own = Head(h).own
  <2>1. Head(u) = Uses(h[1])
    BY <1>1, <1>3, <1>6
  <2> QED  BY <1>1, <2>1, UsesFields
<1> QED  BY <1>1, <1>5, <1>8, <1>9, <1>10 DEF y, z, u, Drops

\* fds_tmgr_garbage_destroy()
LEMMA GarbageDestroyStep ==
  ASSUME NEW m, Good(m, {}), m.handed # <<>>,
         NEW n, n = [Destroy(m, Head(m.handed).own) EXCEPT !.handed = Tail(@)]
  PROVE  /\ Good(n, {}) /\ FrozenKept(m, n)
         /\ n.snaps = m.snaps /\ n.cur = m.cur /\ n.now = m.now
<1> DEFINE h == m.handed
           D == Head(h).own
           s == m.snaps
<1>1. /\ DOMAIN m = ManagerFields /\ IsSeq(h)
      /\ \A b \in DOMAIN h : IsGarbage(h[b])
      /\ IsGarbage(m.trash) /\ Starts(s) /\ DOMAIN m.tm \subseteq Addrs
      /\ Sound(s, DOMAIN m.tm, Uses(m.trash), UsesAll(h))
      /\ Current(m.tm, Refs(s), m.ies)
  <2>1. DOMAIN m.tm \ {} = DOMAIN m.tm /\ Refs(s) \cup {} = Refs(s)
    OBVIOUS
  <2> QED  BY <2>1 DEF Good, IsSeq
<1>2. /\ DOMAIN n = ManagerFields /\ n.snaps = m.snaps /\ n.cur = m.cur /\ n.now = m.now
      /\ n.tm = [u \in DOMAIN m.tm \ D |-> m.tm[u]] /\ n.ies = m.ies /\ n.trash = m.trash
      /\ n.handed = Tail(h)
  BY <1>1 DEF ManagerFields, Destroy
<1>3. /\ IsSeq(n.handed)
      /\ \A b \in DOMAIN n.handed : \E a \in DOMAIN h : n.handed[b] = h[a]
      /\ UsesAll(n.handed) = Tail(UsesAll(h)) /\ UsesAll(h) # <<>>
      /\ Head(UsesAll(h)).own = D
  <2>1. Drops(h, n.handed)
    BY <1>1, <1>2, UsesOfTail
  <2> QED  BY <2>1 DEF Drops
<1> HIDE DEF D, h, s
<1>4. DOMAIN n.tm = DOMAIN m.tm \ D /\ \A u \in DOMAIN m.tm \ D : n.tm[u] = m.tm[u]
  BY <1>2
<1>5. Sound(s, DOMAIN m.tm \ D, Uses(m.trash), UsesAll(n.handed)) /\ Refs(s) \cap D = {}
  BY <1>1, <1>3, DestroySound
<1>6. Refs(s) \subseteq DOMAIN m.tm
  BY <1>1 DEF Sound, GarbageInv
<1>7. \A t \in Refs(s) : n.tm[t] = m.tm[t]
  BY <1>4, <1>5, <1>6
<1>8. Current(n.tm, Refs(s), n.ies)
  BY <1>1, <1>2, <1>7 DEF Current
<1>9. Good(n, {})
  <2>1. DOMAIN n.tm \ {} = DOMAIN n.tm /\ Refs(s) \cup {} = Refs(s) /\ {} \subseteq DOMAIN n.tm
    OBVIOUS
  <2>2. \A b \in DOMAIN n.handed : IsGarbage(n.handed[b])
    BY <1>1, <1>3
  <2>3. DOMAIN n.tm \subseteq Addrs
    BY <1>1, <1>4
  <2>4. n.snaps = s /\ m.snaps = s
    BY <1>2 DEF s
  <2>5. Sound(n.snaps, DOMAIN n.tm \ {}, Uses(n.trash), UsesAll(n.handed))
    BY <1>2, <1>4, <1>5, <2>1, <2>4
  <2>6. Current(n.tm, Refs(n.snaps) \cup {}, n.ies)
    BY <1>8, <2>1, <2>4
  <2>7. Starts(n.snaps) /\ IsGarbage(n.trash)
    BY <1>1, <1>2, <2>4
  <2> QED  BY <1>2, <1>3, <2>1, <2>2, <2>3, <2>5, <2>6, <2>7, Zenon DEF Good, IsSeq
<1>10. FrozenKept(m, n)
  <2>1. FrozenViews(n) = FrozenViews(m)
    BY <1>2 DEF FrozenViews
  <2>2. FrozenViews(m) \subseteq Seen(n)
    BY <2>1 DEF Seen
  <2>3. \A t \in RefsOfViews(FrozenViews(m)) : n.tm[t] = m.tm[t]
    BY <1>7, FrozenRefs DEF s
  <2> QED  BY <2>2, <2>3 DEF FrozenKept
<1> QED  BY <1>2, <1>9, <1>10

-----------------------------------------------------------------------------
(* Flow keys: fds_tmgr_template_set_fkey() replaces the template of one
   snapshot after the other by a copy with the key.  References to the same
   template get the same copy, which the newest of them owns. *)

\* The previous owner of the copy loses the Delete flag.
IsDisowned(m, i, id, n) ==
  /\ Rest(m, n) /\ n.tm = m.tm /\ n.trash = m.trash /\ n.cur = m.cur
  /\ IsList(n.snaps) /\ DOMAIN n.snaps = DOMAIN m.snaps
  /\ n.snaps[i] = WithFlag(m.snaps[i], id, FALSE)
  /\ \A k \in DOMAIN m.snaps : k # i => n.snaps[k] = m.snaps[k]

\* What taking the Delete flag away changes.
LEMMA DisownFields ==
  ASSUME NEW m, DOMAIN m = ManagerFields, IsList(m.snaps), NEW i \in DOMAIN m.snaps,
         NEW id \in IDs, NEW n, n = Disown(m, i, id)
  PROVE  IsDisowned(m, i, id, n)
<1> DEFINE s  == m.snaps
           x  == WithFlag(s[i], id, FALSE)
           u  == [s EXCEPT ![i] = x]
           b  == [m EXCEPT !.snaps = u]
           ok == m.snaps[i].recs[id].d
<1>1. n = Assume(b, ok)
  BY DEF Disown, WithFlag
<1>2. IsSnapshot(x)
  BY Fields, FlagFields
<1>3. Len(s) \in Nat /\ DOMAIN s = 1..Len(s) /\ \A k \in DOMAIN s : IsSnapshot(s[k])
  BY Fields
<1>4. DOMAIN b = ManagerFields /\ b.snaps = u /\ Rest(m, b) /\ b.tm = m.tm /\ b.trash = m.trash
      /\ b.cur = m.cur
  <2> HIDE DEF u
  <2> QED  BY DEF ManagerFields, Rest
<1> HIDE DEF x, s, ok
<1>5. u = [k \in 1..Len(s) |-> u[k]] /\ \A k \in 1..Len(s) : IsSnapshot(u[k])
  BY <1>2, <1>3
<1>6. u[i] = x /\ DOMAIN u = DOMAIN s /\ \A k \in DOMAIN s : k # i => u[k] = s[k]
  BY DEF s
<1> HIDE DEF u, b
<1>7. IsList(u)
  BY <1>3, <1>5, ListOf
<1>8. /\ DOMAIN n = ManagerFields /\ n.snaps = b.snaps /\ n.cur = b.cur /\ n.tm = b.tm
      /\ n.trash = b.trash /\ n.handed = b.handed /\ n.ies = b.ies /\ n.now = b.now
  BY <1>1, <1>4, AssumeFields
<1>9. Rest(m, n)
  BY <1>4, <1>8 DEF Rest
<1> QED  BY <1>4, <1>6, <1>7, <1>8, <1>9 DEF IsDisowned, x, s

\* On the list this is what propagation to one snapshot does.
LEMMA DisownSpread ==
  ASSUME NEW s, IsList(s), NEW at \in DOMAIN s, NEW id \in IDs, NEW e \in DOMAIN s, e # at,
         NEW o, IsSet(s, e, id, s[at].recs[id].t, o), ~o[e].recs[id].c, o[e].recs[id].d,
         NEW n, IsList(n), DOMAIN n = DOMAIN s, n[at] = WithFlag(o[at], id, FALSE),
         \A k \in DOMAIN s : k # at => n[k] = o[k]
  PROVE  IsSpread(s, at, id, {e}, e, n) /\ SameView(s[at], n[at])
<1>1. /\ \A k \in DOMAIN s : o[k].editable = s[k].editable
      /\ \A k \in DOMAIN s : k # e => o[k] = s[k]
      /\ \A x \in IDs \ {id} : o[e].recs[x] = s[e].recs[x]
      /\ o[e].recs[id].t = s[at].recs[id].t
  BY DEF IsSet
<1>2. o[at] = s[at] /\ IsSnapshot(s[at])
  BY <1>1, Fields
<1>3. n[at] = WithFlag(s[at], id, FALSE)
  BY <1>2
<1>4. OnlyFlag(s[at], id, n[at]) /\ ~n[at].recs[id].d
  <2> DEFINE no == FALSE
  <2>1. n[at] = WithFlag(s[at], id, no) /\ no \in BOOLEAN /\ ~no
    BY <1>3
  <2> HIDE DEF no
  <2>2. OnlyFlag(s[at], id, WithFlag(s[at], id, no)) /\ (WithFlag(s[at], id, no).recs[id].d <=> no)
    BY <1>2, <2>1, FlagFields
  <2> QED  BY <2>1, <2>2
<1>5. /\ SameView(s[at], n[at]) /\ n[at].editable = s[at].editable
      /\ \A y \in IDs : n[at].recs[y].t = s[at].recs[y].t
      /\ \A y \in IDs : n[at].recs[y].c = s[at].recs[y].c
      /\ \A y \in IDs \ {id} : n[at].recs[y] = s[at].recs[y]
  BY <1>4 DEF OnlyFlag
<1>6. n[e] = o[e]
  OBVIOUS
<1>7. ASSUME NEW k \in DOMAIN s, NEW x \in IDs, ~(k \in {e} \cup {at} /\ x = id)
      PROVE  n[k].recs[x] = s[k].recs[x]
  <2>1. CASE k = at
    BY <1>5, <1>7, <2>1
  <2>2. CASE k = e
    BY <1>1, <1>6, <1>7, <2>2
  <2>3. CASE k # at /\ k # e
    BY <1>1, <2>3
  <2> QED  BY <2>1, <2>2, <2>3
<1>8. \A k \in DOMAIN s : n[k].editable = s[k].editable
  BY <1>1, <1>5
<1>9. /\ n[e].recs[id].t = s[at].recs[id].t /\ ~n[e].recs[id].c /\ n[e].recs[id].d
      /\ n[at].recs[id].t = s[at].recs[id].t /\ n[at].recs[id].c = s[at].recs[id].c
  BY <1>1, <1>5, <1>6
<1>10. IsSpread(s, at, id, {e}, e, n)
  BY <1>4, <1>7, <1>8, <1>9 DEF IsSpread
<1> QED  BY <1>5, <1>10

\* The record of one snapshot is exchanged for one of template t.
Exchanged(m, e, id, t) == AddCopy(TemplateRemove(m, e, id), e, id, t)

\* What the snapshots are like afterwards.
IsExchanged(m, e, id, t, n) ==
  /\ Keeps(m, n) /\ n.cur = m.cur /\ Len(n.snaps) = Len(m.snaps)
  /\ e \in DOMAIN n.snaps /\ n.snaps[e].recs[id].t = t
  /\ ~n.snaps[e].recs[id].c /\ n.snaps[e].recs[id].d
  /\ DOMAIN n.tm \subseteq DOMAIN m.tm
  /\ \A b \in Nat : b <= Len(m.snaps) => Behind(m, n, b)

\* A template nothing refers to yet.
LEMMA ExchangedNew ==
  ASSUME NEW m, NEW X, Good(m, X), NEW t \in X, NEW e \in DOMAIN m.snaps,
         m.snaps[e].editable, NEW id \in IDs, Has(m.snaps[e], id), m.cur \in Nat,
         NEW n, n = Exchanged(m, e, id, t)
  PROVE  Good(n, X \ {t}) /\ IsExchanged(m, e, id, t, n)
<1> DEFINE b == TemplateRemove(m, e, id)
<1>1. /\ Good(b, X) /\ Keeps(m, b) /\ b.cur = m.cur /\ Len(b.snaps) = Len(m.snaps)
      /\ e \in DOMAIN b.snaps /\ b.snaps[e].editable /\ ~Has(b.snaps[e], id)
      /\ DOMAIN b.tm \subseteq DOMAIN m.tm
      /\ \A c \in Nat : c <= Len(m.snaps) => Behind(m, b, c)
  BY RecordRemoved
<1>2. n = AddCopy(b, e, id, t)
  BY DEF Exchanged
<1> HIDE DEF b
<1>3. /\ DOMAIN b = ManagerFields /\ IsList(b.snaps) /\ Starts(b.snaps)
      /\ X \subseteq DOMAIN b.tm /\ DOMAIN b.tm \subseteq Addrs
  BY <1>1, GoodFacts
<1>4. t \in Addrs
  BY <1>3
<1>5. PICK r : r.t = t /\ ~r.c /\ r.d /\ IsAdded(b, e, id, r, n) /\ n.cur = b.cur
  BY <1>1, <1>2, <1>3, <1>4, AddedCopy
<1>6. /\ Good(n, X \ {t}) /\ Keeps(b, n) /\ n.tm = b.tm
      /\ Len(n.snaps) = Len(b.snaps) /\ n.snaps[e].recs[id] = r
      /\ \A c \in Nat : c <= Len(b.snaps) => Behind(b, n, c)
  <2>1. IsAdded(b, e, id, r, n) /\ n.cur = b.cur /\ r.t = t /\ r.d
    BY <1>5
  <2>2. Good(b, X) /\ e \in DOMAIN b.snaps /\ b.snaps[e].editable /\ ~Has(b.snaps[e], id)
    BY <1>1
  <2>3. Good(n, X \ {t}) /\ Keeps(b, n)
    BY <2>1, <2>2, OwnerAdded
  <2>4. n.tm = b.tm
    BY <2>1 DEF IsAdded
  <2>5. \A c \in Nat : c <= Len(b.snaps) => Behind(b, n, c)
    BY <2>1, <2>2, OwnerAdded
  <2>6. Len(n.snaps) = Len(b.snaps)
    <3>1. 0 \in Nat /\ 0 <= Len(b.snaps) /\ IsList(b.snaps)
      BY <1>3, ListLen
    <3> QED  BY <2>1, <2>2, <3>1, AddBehind
  <2>7. n.snaps[e].recs[id] = r
    BY <2>1 DEF IsAdded
  <2> QED  BY <2>3, <2>4, <2>5, <2>6, <2>7
<1>7. Keeps(m, n)
  BY <1>1, <1>6, KeepsTransitive
<1>8. Len(n.snaps) \in Nat /\ DOMAIN n.snaps = 1..Len(n.snaps) /\ DOMAIN b.snaps = 1..Len(b.snaps)
  BY <1>3, <1>6, GoodFacts, ListLen
<1>9. ASSUME NEW c \in Nat, c <= Len(m.snaps) PROVE Behind(m, n, c)
  <2>1. Behind(m, b, c) /\ Behind(b, n, c)
    BY <1>1, <1>6, <1>9
  <2> QED  BY <1>1, <1>6, <1>8, <2>1, BehindTransitive
<1> QED  BY <1>1, <1>5, <1>6, <1>7, <1>8, <1>9 DEF IsExchanged

\* The copy that an older snapshot owns so far.
LEMMA ExchangedShared ==
  ASSUME NEW m, Good(m, {}), NEW e \in DOMAIN m.snaps, m.snaps[e].editable, NEW id \in IDs,
         Has(m.snaps[e], id), m.cur \in Nat, NEW at \in DOMAIN m.snaps, at < e, NEW t,
         t # NoTmplt, m.snaps[at].recs[id].t = t, ~m.snaps[at].recs[id].c,
         m.snaps[at].recs[id].d, NEW n, n = Disown(Exchanged(m, e, id, t), at, id)
  PROVE  Good(n, {}) /\ IsExchanged(m, e, id, t, n)
<1> DEFINE b == TemplateRemove(m, e, id)
           o == Exchanged(m, e, id, t)
           none == {}
<1>1. DOMAIN m.snaps = 1..Len(m.snaps) /\ Len(m.snaps) \in Nat /\ OwnerIsNewest(m.snaps)
      /\ IsList(m.snaps)
  BY GoodFacts, ListLen DEF ListInv
<1>2. e # at /\ m.snaps[e].recs[id].t # t
  <2>1. Has(m.snaps[at], id)
    BY DEF Has
  <2> QED  BY <1>1, <2>1 DEF OwnerIsNewest, Same
<1>3. Good(m, none)
  OBVIOUS
<1> HIDE DEF none
<1>4. /\ Good(b, none) /\ Keeps(m, b) /\ b.cur = m.cur /\ Len(b.snaps) = Len(m.snaps)
      /\ e \in DOMAIN b.snaps /\ b.snaps[e].editable /\ ~Has(b.snaps[e], id)
      /\ DOMAIN b.tm \subseteq DOMAIN m.tm
      /\ \A c \in Nat : c <= Len(m.snaps) => Behind(m, b, c)
      /\ \A k \in DOMAIN m.snaps :
              k # e /\ m.snaps[k].recs[id].t # m.snaps[e].recs[id].t =>
                /\ b.snaps[k].recs[id].t = m.snaps[k].recs[id].t
                /\ b.snaps[k].recs[id].c = m.snaps[k].recs[id].c
                /\ b.snaps[k].recs[id].d <=> m.snaps[k].recs[id].d
  BY <1>3, RecordRemoved
<1>5. b.snaps[at].recs[id].t = t /\ ~b.snaps[at].recs[id].c /\ b.snaps[at].recs[id].d
  BY <1>2, <1>4
<1>6. o = AddCopy(b, e, id, t) /\ n = Disown(o, at, id)
  BY DEF Exchanged
<1> HIDE DEF b, o
<1>7. /\ DOMAIN b = ManagerFields /\ IsList(b.snaps) /\ Starts(b.snaps)
      /\ DOMAIN b.snaps = DOMAIN m.snaps /\ at \in DOMAIN b.snaps /\ t \in Addrs
  <2>1. DOMAIN b = ManagerFields /\ IsList(b.snaps) /\ Starts(b.snaps)
    BY <1>4, GoodFacts
  <2>2. DOMAIN b.snaps = DOMAIN m.snaps
    BY <1>1, <1>4, <2>1, ListLen
  <2>3. t \in Addrs
    BY <1>1, Fields
  <2> QED  BY <2>1, <2>2, <2>3
<1>8. PICK r : r.t = t /\ ~r.c /\ r.d /\ IsAdded(b, e, id, r, o) /\ o.cur = b.cur
  BY <1>4, <1>6, <1>7, AddedCopy
<1>9. /\ Rest(b, o) /\ o.tm = b.tm /\ o.trash = b.trash /\ SameStarts(b.snaps, o.snaps)
      /\ \A k \in DOMAIN b.snaps : k # e => SameView(b.snaps[k], o.snaps[k])
      /\ IsSet(b.snaps, e, id, t, o.snaps) /\ o.snaps[e].recs[id] = r
  BY <1>8 DEF IsAdded
<1>10. /\ DOMAIN o = ManagerFields /\ IsList(o.snaps) /\ DOMAIN o.snaps = DOMAIN b.snaps
       /\ o.snaps[at] = b.snaps[at]
  BY <1>2, <1>7, <1>9 DEF IsSet, Rest
<1>11. IsDisowned(o, at, id, n)
  BY <1>6, <1>7, <1>10, DisownFields
<1>12. /\ Rest(o, n) /\ n.tm = o.tm /\ n.trash = o.trash /\ n.cur = o.cur
       /\ IsList(n.snaps) /\ DOMAIN n.snaps = DOMAIN o.snaps
       /\ n.snaps[at] = WithFlag(o.snaps[at], id, FALSE)
       /\ \A k \in DOMAIN o.snaps : k # at => n.snaps[k] = o.snaps[k]
  BY <1>11 DEF IsDisowned
<1>13. IsSpread(b.snaps, at, id, {e}, e, n.snaps) /\ SameView(b.snaps[at], n.snaps[at])
  <2>1. IsSet(b.snaps, e, id, b.snaps[at].recs[id].t, o.snaps)
    BY <1>5, <1>9
  <2>2. ~o.snaps[e].recs[id].c /\ o.snaps[e].recs[id].d
    BY <1>8, <1>9
  <2>3. /\ IsList(n.snaps) /\ DOMAIN n.snaps = DOMAIN b.snaps
        /\ n.snaps[at] = WithFlag(o.snaps[at], id, FALSE)
    BY <1>10, <1>12
  <2>4. \A k \in DOMAIN b.snaps : k # at => n.snaps[k] = o.snaps[k]
    BY <1>10, <1>12
  <2>5. e \in DOMAIN b.snaps /\ at \in DOMAIN b.snaps /\ e # at /\ IsList(b.snaps)
    BY <1>2, <1>7
  <2> DEFINE s == b.snaps  u == o.snaps  v == n.snaps
  <2>6. /\ IsList(s) /\ at \in DOMAIN s /\ e \in DOMAIN s /\ e # at
        /\ IsSet(s, e, id, s[at].recs[id].t, u) /\ ~u[e].recs[id].c /\ u[e].recs[id].d
        /\ IsList(v) /\ DOMAIN v = DOMAIN s /\ v[at] = WithFlag(u[at], id, FALSE)
        /\ \A k \in DOMAIN s : k # at => v[k] = u[k]
    BY <2>1, <2>2, <2>3, <2>4, <2>5
  <2>7. IsSpread(s, at, id, {e}, e, v) /\ SameView(s[at], v[at])
    <3> HIDE DEF s, u, v
    <3> QED  BY <2>6, DisownSpread
  <2> QED  BY <2>7
<1>14. SameStarts(b.snaps, n.snaps)
  <2>1. ASSUME NEW k \in DOMAIN b.snaps
        PROVE  "start" \in DOMAIN n.snaps[k] /\ n.snaps[k].start = b.snaps[k].start
    <3>1. CASE k = at
      BY <1>7, <1>13, <3>1 DEF SameView, SameRest, Starts
    <3>2. CASE k # at
      BY <1>9, <1>10, <1>12, <2>1, <3>2 DEF SameStarts
    <3> QED  BY <3>1, <3>2
  <2> QED  BY <1>10, <1>12, <2>1 DEF SameStarts
<1>15. \A k \in DOMAIN b.snaps : k \notin {e} => SameView(b.snaps[k], n.snaps[k])
  BY <1>9, <1>10, <1>12, <1>13
<1>16. IsCarried(b, at, id, {e}, e, n)
  BY <1>9, <1>12, <1>13, <1>14, <1>15 DEF IsCarried, Rest
<1>17. Good(n, none) /\ Keeps(b, n)
  <2> DEFINE J == {e}
  <2>1. IsCarried(b, at, id, J, e, n) /\ J \in SUBSET DOMAIN b.snaps /\ e \in J
        /\ \A j \in J : j <= e
    BY <1>1, <1>4, <1>16
  <2>2. \A j \in J : j > at /\ ~Has(b.snaps[j], id) /\ b.snaps[j].editable
    BY <1>1, <1>4
  <2> HIDE DEF J
  <2> QED  BY <1>4, <1>5, <1>7, <2>1, <2>2, CarryStep
<1>18. Keeps(m, n)
  BY <1>4, <1>17, KeepsTransitive
<1>19. /\ \A k \in DOMAIN b.snaps : n.snaps[k].editable = b.snaps[k].editable
       /\ n.snaps[e].recs[id].t = t /\ ~n.snaps[e].recs[id].c /\ n.snaps[e].recs[id].d
  BY <1>5, <1>13 DEF IsSpread
<1>20. ASSUME NEW c \in Nat, c <= Len(b.snaps)
       PROVE  Behind(b, n, c) /\ Len(n.snaps) = Len(b.snaps)
  <2>1. n.cur = b.cur /\ n.now = b.now /\ IsList(n.snaps) /\ IsList(b.snaps)
    BY <1>7, <1>8, <1>9, <1>12 DEF Rest
  <2> QED  BY <1>14, <1>19, <1>20, <2>1, FlagsBehind
<1>21. Len(b.snaps) \in Nat /\ Len(n.snaps) = Len(b.snaps)
  <2>1. 0 <= Len(b.snaps) /\ Len(b.snaps) \in Nat
    BY <1>1, <1>4
  <2> QED  BY <1>20, <2>1
<1>22. ASSUME NEW c \in Nat, c <= Len(m.snaps) PROVE Behind(m, n, c)
  <2>1. Behind(m, b, c) /\ Behind(b, n, c)
    BY <1>4, <1>20, <1>22
  <2> QED  BY <1>1, <1>21, <2>1, BehindTransitive
<1>23. Good(n, {})
  BY <1>17 DEF none
<1> QED  BY <1>4, <1>8, <1>9, <1>10, <1>12, <1>18, <1>19, <1>21, <1>22, <1>23 DEF IsExchanged

\* Snapshot j is made editable first; what is older stays.
IsReadied(m, j, id, b, e) ==
  /\ Keeps(m, b) /\ b.cur \in Nat /\ e \in Nat /\ j <= e
  /\ e \in DOMAIN b.snaps /\ b.snaps[e].editable /\ Has(b.snaps[e], id)
  /\ b.tm = m.tm /\ b.ies = m.ies /\ Len(b.snaps) + j = Len(m.snaps) + e
  /\ \A c \in Nat : c <= j => Behind(m, b, c)
  /\ \A k \in 1..(j - 1) : b.snaps[k] = m.snaps[k]

\* mgr_snap_edit() in this loop, and the assertion after it.
LEMMA Readied ==
  ASSUME NEW m, NEW X, Good(m, X), NEW j \in DOMAIN m.snaps, NEW id \in IDs,
         Has(m.snaps[j], id), m.cur \in Nat, NEW ok, NEW e, e = EditIdx(m, j),
         NEW b, b = AssumeAlike(SnapEdit(m, j), ok)
  PROVE  Good(b, X) /\ IsReadied(m, j, id, b, e)
<1> DEFINE a == SnapEdit(m, j)
<1>1. DOMAIN m = ManagerFields /\ IsList(m.snaps) /\ Starts(m.snaps)
      /\ Len(m.snaps) \in Nat /\ DOMAIN m.snaps = 1..Len(m.snaps)
  BY GoodFacts, ListLen
<1>2. IsEdited(m, j, a, e) /\ b = AssumeAlike(a, ok)
  BY <1>1, EditFields
<1> HIDE DEF a
<1>3. /\ e \in DOMAIN a.snaps /\ a.snaps[e].editable /\ j <= e /\ e \in Nat /\ a.tm = m.tm
      /\ Rest(m, a) /\ \A x \in IDs : a.snaps[e].recs[x].t = m.snaps[j].recs[x].t
  BY <1>1, <1>2, EditShape
<1>4. Good(a, X) /\ Keeps(m, a)
  BY <1>2, EditStep
<1>5. a.cur \in Nat /\ Len(a.snaps) + j = Len(m.snaps) + e
      /\ \A k \in 1..(j - 1) : a.snaps[k] = m.snaps[k]
  <2>1. CASE m.snaps[j].editable /\ a = m /\ e = j
    BY <1>1, <2>1
  <2>2. CASE /\ e = j + 1 /\ IsClone(m.snaps, j, {}, a.snaps)
             /\ a.cur = IF m.cur > j THEN m.cur + 1 ELSE m.cur
    <3>1. Len(a.snaps) = Len(m.snaps) + 1 /\ \A k \in 1..(j - 1) : a.snaps[k] = m.snaps[k]
      BY <2>2 DEF IsClone
    <3>2. Len(a.snaps) + j = Len(m.snaps) + e
      BY <1>1, <2>2, <3>1
    <3>3. a.cur \in Nat
      BY <2>2
    <3> QED  BY <3>1, <3>2, <3>3
  <2> QED  BY <1>2, <2>1, <2>2 DEF IsEdited
<1>6. DOMAIN a = ManagerFields
  BY <1>1, <1>3 DEF Rest
<1>7. /\ b.snaps = a.snaps /\ b.cur = a.cur /\ b.tm = a.tm /\ b.ies = a.ies /\ b.now = a.now
  BY <1>2, <1>6, AlikeFields
<1>8. Good(b, X) /\ Keeps(a, b)
  BY <1>2, <1>4, AlikeStep
<1>9. ASSUME NEW c \in Nat, c <= j PROVE Behind(m, b, c)
  <2>1. Behind(m, a, c)
    BY <1>1, <1>2, <1>9, EditBehind
  <2> QED  BY <1>7, <2>1 DEF Behind
<1>10. Keeps(m, b)
  BY <1>4, <1>8, KeepsTransitive
<1>11. Has(b.snaps[e], id) /\ b.ies = m.ies
  BY <1>3, <1>7 DEF Has, Rest
<1> QED  BY <1>3, <1>5, <1>7, <1>8, <1>9, <1>10, <1>11 DEF IsReadied

\* The owner of the copy so far.
Copied(m, id, orig, new, at, j) ==
  orig # NoTmplt =>
    /\ new # NoTmplt /\ at \in DOMAIN m.snaps /\ at < j
    /\ m.snaps[at].recs[id].t = new /\ ~m.snaps[at].recs[id].c /\ m.snaps[at].recs[id].d

\* One round, to snapshot e, which had been snapshot j.
IsRekeyed(m, j, id, t, n, e) ==
  /\ Good(n, {}) /\ Keeps(m, n) /\ n.cur \in Nat /\ e \in Nat /\ j <= e
  /\ e \in DOMAIN n.snaps /\ n.snaps[e].recs[id].t = t
  /\ ~n.snaps[e].recs[id].c /\ n.snaps[e].recs[id].d
  /\ Len(n.snaps) + j = Len(m.snaps) + e
  /\ \E u : DOMAIN n.tm \subseteq DOMAIN m.tm \cup {u}
  /\ \A c \in Nat : c <= j => Behind(m, n, c)

\* The template replaced last.
LEMMA RekeyShared ==
  ASSUME NEW m, Good(m, {}), NEW j \in DOMAIN m.snaps, NEW id \in IDs, Has(m.snaps[j], id),
         m.cur \in Nat, NEW orig, orig = m.snaps[j].recs[id].t, NEW t, NEW at,
         Copied(m, id, orig, t, at, j), NEW ok, NEW e, e = EditIdx(m, j),
         NEW n, n = Disown(Exchanged(AssumeAlike(SnapEdit(m, j), ok), e, id, t), at, id)
  PROVE  IsRekeyed(m, j, id, t, n, e)
<1> DEFINE b == AssumeAlike(SnapEdit(m, j), ok)
           none == {}
<1>1. Good(b, none) /\ IsReadied(m, j, id, b, e)
  BY Readied
<1>2. n = Disown(Exchanged(b, e, id, t), at, id)
  OBVIOUS
<1>3. Len(m.snaps) \in Nat /\ DOMAIN m.snaps = 1..Len(m.snaps)
  BY GoodFacts, ListLen
<1> HIDE DEF b
<1>4. /\ Keeps(m, b) /\ b.cur \in Nat /\ e \in Nat /\ j <= e
      /\ e \in DOMAIN b.snaps /\ b.snaps[e].editable /\ Has(b.snaps[e], id)
      /\ b.tm = m.tm /\ b.ies = m.ies /\ Len(b.snaps) + j = Len(m.snaps) + e
      /\ \A c \in Nat : c <= j => Behind(m, b, c)
      /\ \A k \in 1..(j - 1) : b.snaps[k] = m.snaps[k]
  BY <1>1 DEF IsReadied
<1>5. Len(b.snaps) \in Nat /\ DOMAIN b.snaps = 1..Len(b.snaps)
  BY <1>1, GoodFacts, ListLen
<1>6. /\ t # NoTmplt /\ at \in 1..(j - 1) /\ at < e
      /\ m.snaps[at].recs[id].t = t /\ ~m.snaps[at].recs[id].c /\ m.snaps[at].recs[id].d
  BY <1>3, <1>4 DEF Copied, Has
<1>7. /\ at \in DOMAIN b.snaps
      /\ b.snaps[at].recs[id].t = t /\ ~b.snaps[at].recs[id].c /\ b.snaps[at].recs[id].d
  <2>1. b.snaps[at] = m.snaps[at]
    BY <1>4, <1>6
  <2>2. at \in 1..Len(b.snaps)
    BY <1>4, <1>5, <1>6
  <2> QED  BY <1>5, <1>6, <2>1, <2>2
<1>8. Good(b, {})
  BY <1>1
<1>9. Good(n, {}) /\ IsExchanged(b, e, id, t, n)
  BY <1>2, <1>4, <1>6, <1>7, <1>8, ExchangedShared
<1>10. /\ Keeps(b, n) /\ n.cur = b.cur /\ Len(n.snaps) = Len(b.snaps)
       /\ e \in DOMAIN n.snaps /\ n.snaps[e].recs[id].t = t
       /\ ~n.snaps[e].recs[id].c /\ n.snaps[e].recs[id].d
       /\ DOMAIN n.tm \subseteq DOMAIN b.tm
       /\ \A c \in Nat : c <= Len(b.snaps) => Behind(b, n, c)
  BY <1>9 DEF IsExchanged
<1>11. Keeps(m, n)
  BY <1>4, <1>10, KeepsTransitive
<1>12. ASSUME NEW c \in Nat, c <= j PROVE Behind(m, n, c)
  <2>1. Behind(m, b, c) /\ Behind(b, n, c)
    BY <1>4, <1>5, <1>10, <1>12
  <2> QED  BY <1>3, <1>5, <1>10, <2>1, BehindTransitive
<1>13. DOMAIN n.tm \subseteq DOMAIN m.tm \cup {t}
  BY <1>4, <1>10
<1> QED  BY <1>4, <1>9, <1>10, <1>11, <1>12, <1>13 DEF IsRekeyed

\* A template not met before gets a copy x.
LEMMA RekeyWith ==
  ASSUME NEW m, Good(m, {}), NEW j \in DOMAIN m.snaps, NEW id \in IDs,
         NEW e, NEW b, Good(b, {}), IsReadied(m, j, id, b, e), NEW t \in Addrs \ DOMAIN b.tm,
         NEW x, "ies" \in DOMAIN x, x.ies = b.ies, NEW a, a = Allocate(b, t, x),
         NEW n, n = Exchanged(a, e, id, t)
  PROVE  IsRekeyed(m, j, id, t, n, e)
<1> DEFINE none == {}
           T == none \cup {t}
<1>1. Good(b, none)
  OBVIOUS
<1>2. Len(m.snaps) \in Nat /\ DOMAIN m.snaps = 1..Len(m.snaps)
  BY GoodFacts, ListLen
<1>3. /\ Keeps(m, b) /\ b.cur \in Nat /\ e \in Nat /\ j <= e
      /\ e \in DOMAIN b.snaps /\ b.snaps[e].editable /\ Has(b.snaps[e], id)
      /\ b.tm = m.tm /\ b.ies = m.ies /\ Len(b.snaps) + j = Len(m.snaps) + e
      /\ \A c \in Nat : c <= j => Behind(m, b, c)
  BY DEF IsReadied
<1>4. Len(b.snaps) \in Nat /\ DOMAIN b.snaps = 1..Len(b.snaps)
  BY <1>1, GoodFacts, ListLen
<1>5. /\ Good(a, T) /\ Keeps(b, a) /\ a.snaps = b.snaps /\ a.cur = b.cur
      /\ a.now = b.now /\ DOMAIN a.tm = DOMAIN b.tm \cup {t}
  <2> HIDE DEF none
  <2>1. Good(a, none \cup {t}) /\ Keeps(b, a)
    BY <1>1, AllocateStep
  <2>2. DOMAIN b = ManagerFields
    BY <1>1, GoodFacts
  <2>3. /\ a.snaps = b.snaps /\ a.cur = b.cur /\ a.now = b.now
        /\ DOMAIN a.tm = DOMAIN b.tm \cup {t}
    BY <2>2 DEF Allocate, ManagerFields
  <2> QED  BY <2>1, <2>3
<1>6. t \in T /\ T \ {t} = {}
  OBVIOUS
<1> HIDE DEF T
<1>7. Good(n, T \ {t}) /\ IsExchanged(a, e, id, t, n)
  <2>1. /\ e \in DOMAIN a.snaps /\ a.snaps[e].editable /\ Has(a.snaps[e], id) /\ a.cur \in Nat
    BY <1>3, <1>5
  <2> QED  BY <1>5, <1>6, <2>1, ExchangedNew
<1>8. /\ Keeps(a, n) /\ n.cur = a.cur /\ Len(n.snaps) = Len(a.snaps)
       /\ e \in DOMAIN n.snaps /\ n.snaps[e].recs[id].t = t
       /\ ~n.snaps[e].recs[id].c /\ n.snaps[e].recs[id].d
       /\ DOMAIN n.tm \subseteq DOMAIN a.tm
       /\ \A c \in Nat : c <= Len(a.snaps) => Behind(a, n, c)
  BY <1>7 DEF IsExchanged
<1>9. Keeps(m, n)
  <2>1. Keeps(m, a)
    BY <1>3, <1>5, KeepsTransitive
  <2> QED  BY <1>8, <2>1, KeepsTransitive
<1>10. ASSUME NEW c \in Nat, c <= j PROVE Behind(m, n, c)
  <2>1. Behind(m, b, c)
    BY <1>3, <1>10
  <2>2. Len(a.snaps) = Len(b.snaps) /\ j <= Len(b.snaps) /\ j \in Nat
    BY <1>2, <1>3, <1>4, <1>5
  <2>3. c <= Len(a.snaps)
    BY <1>4, <1>10, <2>2
  <2>4. Behind(a, n, c)
    BY <1>8, <2>3
  <2>5. Behind(b, a, c)
    <3>1. a.snaps = b.snaps /\ a.cur = b.cur /\ a.now = b.now
      BY <1>5
    <3> QED  BY <1>4, <3>1 DEF Behind
  <2>6. Len(a.snaps) \in Nat /\ Len(n.snaps) \in Nat
    BY <1>4, <1>8, <2>2
  <2>7. Behind(m, a, c)
    BY <1>2, <1>4, <2>1, <2>5, <2>6, BehindTransitive
  <2> QED  BY <1>2, <2>4, <2>6, <2>7, BehindTransitive
<1>11. DOMAIN n.tm \subseteq DOMAIN m.tm \cup {t}
  BY <1>3, <1>5, <1>8
<1>12. Good(n, {}) /\ n.cur \in Nat /\ Len(n.snaps) + j = Len(m.snaps) + e
  BY <1>3, <1>5, <1>6, <1>7, <1>8
<1> QED  BY <1>3, <1>8, <1>9, <1>10, <1>11, <1>12 DEF IsRekeyed

\* A template with another flow key.
WithKey(y, key) == [y EXCEPT !.key = key]

LEMMA WithKeyIes ==
  ASSUME NEW y, NEW key, "ies" \in DOMAIN y
  PROVE  "ies" \in DOMAIN WithKey(y, key) /\ WithKey(y, key).ies = y.ies
  BY DEF WithKey

\* A template a snapshot refers to has the elements now in use.
LEMMA OwnIsCurrent ==
  ASSUME NEW m, Good(m, {}), NEW j \in DOMAIN m.snaps, NEW id \in IDs, Has(m.snaps[j], id),
         NEW old, old = m.snaps[j].recs[id].t
  PROVE  "ies" \in DOMAIN m.tm[old] /\ m.tm[old].ies = m.ies
<1> DEFINE none == {}
<1>1. old \in RefsOf(m.snaps[j])
  BY DEF Has, RefsOf
<1>2. Good(m, none)
  OBVIOUS
<1> HIDE DEF none
<1>3. old \in Refs(m.snaps) \cup none
  BY <1>1 DEF Refs
<1>4. Current(m.tm, Refs(m.snaps) \cup none, m.ies)
  BY <1>2, GoodFacts
<1> QED  BY <1>3, <1>4 DEF Current

\* It is the copy of the template the snapshot has.
LEMMA RekeyNew ==
  ASSUME NEW m, Good(m, {}), NEW j \in DOMAIN m.snaps, NEW id \in IDs, NEW y,
         "ies" \in DOMAIN y, y.ies = m.ies,
         NEW e, NEW b, Good(b, {}), IsReadied(m, j, id, b, e), NEW t \in Free(m), NEW key,
         NEW a, a = Allocate(b, t, WithKey(y, key)), NEW n, n = Exchanged(a, e, id, t)
  PROVE  IsRekeyed(m, j, id, t, n, e)
<1>1. b.tm = m.tm /\ b.ies = m.ies
  BY DEF IsReadied
<1>2. "ies" \in DOMAIN WithKey(y, key) /\ WithKey(y, key).ies = b.ies
  BY <1>1, WithKeyIes
<1>3. t \in Addrs \ DOMAIN b.tm
  BY <1>1, FreeAddrs
<1> QED  BY <1>2, <1>3, RekeyWith

\* At most one address more is in use.
LEMMA FreeLeft ==
  ASSUME NEW S, NEW T, NEW u, T \subseteq S \cup {u}
  PROVE  /\ Cardinality(Addrs \ S) \in Nat /\ Cardinality(Addrs \ T) \in Nat
         /\ Cardinality(Addrs \ S) <= Cardinality(Addrs \ T) + 1
<1> DEFINE A == Addrs \ S
           B == Addrs \ T
           C == A \ {u}
<1>1. IsFiniteSet(A) /\ IsFiniteSet(B)
  BY FS_Subset, ParamsAssumption
<1>2. Cardinality(A) \in Nat /\ Cardinality(B) \in Nat
  BY <1>1, FS_CardinalityType
<1>3. C \subseteq B
  OBVIOUS
<1>4. Cardinality(C) <= Cardinality(B) /\ IsFiniteSet(C)
  <2> HIDE DEF B, C
  <2> QED  BY <1>1, <1>3, FS_Subset
<1>5. Cardinality(C) \in Nat
  BY <1>4, FS_CardinalityType
<1>6. Cardinality(A) <= Cardinality(C) + 1
  <2>1. CASE u \in A
    <3> HIDE DEF A
    <3>1. Cardinality(C) = Cardinality(A) - 1
      BY <1>1, <2>1, FS_RemoveElement
    <3> QED  BY <1>2, <3>1
  <2>2. CASE u \notin A
    <3>1. C = A
      BY <2>2
    <3> HIDE DEF A, C
    <3> QED  BY <1>2, <3>1
  <2> QED  BY <2>1, <2>2
<1> HIDE DEF A, B, C
<1>7. Cardinality(A) <= Cardinality(B) + 1
  BY <1>2, <1>4, <1>5, <1>6
<1> QED  BY <1>2, <1>7 DEF A, B

\* An address for each round that is left.
Enough(m, j) == Len(m.snaps) + 1 <= Cardinality(Addrs \ DOMAIN m.tm) + j

\* So there is one for this round.
LEMMA EnoughFree ==
  ASSUME NEW m, Good(m, {}), NEW j \in DOMAIN m.snaps, Enough(m, j)
  PROVE  Free(m) # {}
<1> DEFINE A == Addrs \ DOMAIN m.tm
           none == {}
<1>1. Good(m, none)
  OBVIOUS
<1> HIDE DEF none
<1>2. Free(m) = A /\ Len(m.snaps) \in Nat /\ DOMAIN m.snaps = 1..Len(m.snaps)
  BY <1>1, FreeAddrs, GoodFacts, ListLen
<1>3. Len(m.snaps) + 1 <= Cardinality(A) + j /\ Cardinality(A) \in Nat
  BY FreeLeft DEF Enough
<1> HIDE DEF A
<1>4. Cardinality(A) # 0
  BY <1>2, <1>3
<1>5. A # {}
  BY <1>4, FS_EmptySet
<1> QED  BY <1>2, <1>5

\* A round takes one at most.
LEMMA EnoughLater ==
  ASSUME NEW m, NEW n, Len(m.snaps) \in Nat, NEW j \in Nat, Enough(m, j), NEW e \in Nat, NEW u,
         DOMAIN n.tm \subseteq DOMAIN m.tm \cup {u}, Len(n.snaps) + j = Len(m.snaps) + e,
         Len(n.snaps) \in Nat
  PROVE  Enough(n, e + 1)
<1> DEFINE A == Cardinality(Addrs \ DOMAIN m.tm)
           B == Cardinality(Addrs \ DOMAIN n.tm)
<1>1. A \in Nat /\ B \in Nat /\ A <= B + 1
  BY FreeLeft
<1>2. Len(m.snaps) + 1 <= A + j
  BY DEF Enough
<1> HIDE DEF A, B
<1>3. Len(n.snaps) + 1 <= B + (e + 1)
  BY <1>1, <1>2
<1> QED  BY <1>3 DEF Enough, B

\* One snapshot in the loop, in terms of the operations on it.
FkeyAssert(f, old) == f.new = NoTmplt \/ f.m.tm[f.new].def = f.m.tm[old].def
FkeyShared(f, old, e) ==
  Disown(Exchanged(AssumeAlike(SnapEdit(f.m, f.j), FkeyAssert(f, old)), e, f.id, f.new), f.at, f.id)
FkeyCopy(f, old, e, t) ==
  Exchanged(Allocate(AssumeAlike(SnapEdit(f.m, f.j), FkeyAssert(f, old)), t,
                     WithKey(f.m.tm[old], f.key)), e, f.id, t)

IsFkeyRound(f, old, e, t, v) ==
  \/ /\ old = f.orig
     /\ v = [f EXCEPT !.m = FkeyShared(f, old, e), !.j = e + 1, !.orig = old,
                      !.new = f.new, !.at = e]
  \/ /\ old # f.orig
     /\ v = [f EXCEPT !.m = FkeyCopy(f, old, e, t), !.j = e + 1, !.orig = old,
                      !.new = t, !.at = e]

\* The copy made before, or a new one.
LEMMA FkeyRound ==
  ASSUME NEW f, NEW old, old = f.m.snaps[f.j].recs[f.id].t, NEW e, e = EditIdx(f.m, f.j),
         NEW t, t = Fresh(f.m), Has(f.m.snaps[f.j], f.id), ~Hidden(f.m, f.j),
         NEW v, v = FkeyAt(f)
  PROVE  IsFkeyRound(f, old, e, t, v)
<1>1. CASE old = f.orig
  BY <1>1, Zenon DEF FkeyAt, FkeyShared, FkeyAssert, Exchanged, AddCopy, IsFkeyRound
<1>2. CASE old # f.orig
  BY <1>2, Zenon DEF FkeyAt, FkeyCopy, WithKey, FkeyAssert, Exchanged, AddCopy, IsFkeyRound
<1> QED  BY <1>1, <1>2

Rekeys(f, m, id) ==
  /\ DOMAIN f = {"m", "j", "id", "key", "first", "orig", "new", "at"} /\ f.id = id
  /\ Good(f.m, {}) /\ Keeps(m, f.m) /\ f.m.cur \in Nat /\ Behind(m, f.m, m.cur)
  /\ f.j \in Nat /\ m.cur <= f.j /\ 1 <= f.j
  /\ Copied(f.m, id, f.orig, f.new, f.at, f.j) /\ Enough(f.m, f.j)

\* One round of the loop of fds_tmgr_template_set_fkey().
LEMMA RekeyRound ==
  ASSUME NEW f, NEW m, NEW id \in IDs, m.cur \in Nat, Len(m.snaps) \in Nat,
         Rekeys(f, m, id), ~FkeyEnds(f), NEW v, v = FkeyAt(f)
  PROVE  Rekeys(v, m, id)
<1> DEFINE o == f.m
           j == f.j
           old == o.snaps[j].recs[id].t
           e == EditIdx(o, j)
           new == Fresh(o)
<1>1. /\ DOMAIN f = {"m", "j", "id", "key", "first", "orig", "new", "at"} /\ f.id = id
      /\ Good(o, {}) /\ Keeps(m, o) /\ o.cur \in Nat /\ Behind(m, o, m.cur)
      /\ j \in Nat /\ m.cur <= j /\ 1 <= j
      /\ Copied(o, id, f.orig, f.new, f.at, j) /\ Enough(o, j)
  BY DEF Rekeys
<1>2. /\ DOMAIN o = ManagerFields /\ IsList(o.snaps) /\ Starts(o.snaps)
      /\ Len(o.snaps) \in Nat /\ DOMAIN o.snaps = 1..Len(o.snaps)
  BY <1>1, GoodFacts, ListLen
<1>3. j \in DOMAIN o.snaps
  BY <1>1, <1>2 DEF FkeyEnds, Newest
<1>4. CASE ~Has(o.snaps[j], id) \/ Hidden(o, j)
  <2>1. v = [f EXCEPT !.j = @ + 1]
    BY <1>1, <1>4, Zenon DEF FkeyAt
  <2>2. /\ DOMAIN v = DOMAIN f /\ v.m = o /\ v.id = id /\ v.j = j + 1
        /\ v.orig = f.orig /\ v.new = f.new /\ v.at = f.at
    BY <1>1, <2>1
  <2>3. Copied(o, id, f.orig, f.new, f.at, j + 1)
    BY <1>1, <1>2 DEF Copied
  <2>4. Enough(o, j + 1)
    <3> DEFINE A == Addrs \ DOMAIN o.tm
    <3>1. Cardinality(A) \in Nat
      BY FreeLeft
    <3>2. Len(o.snaps) + 1 <= Cardinality(A) + j
      BY <1>1 DEF Enough
    <3> HIDE DEF A
    <3>3. Len(o.snaps) + 1 <= Cardinality(A) + (j + 1)
      BY <1>1, <1>2, <3>1, <3>2
    <3> QED  BY <3>3 DEF Enough, A
  <2> HIDE DEF o, j
  <2> QED  BY <1>1, <2>2, <2>3, <2>4 DEF Rekeys
<1>5. CASE ~(~Has(o.snaps[j], id) \/ Hidden(o, j))
  <2> DEFINE a == FkeyShared(f, old, e)
             b == FkeyCopy(f, old, e, new)
             ok == FkeyAssert(f, old)
             x == WithKey(o.tm[old], f.key)
  <2>1. \/ /\ old = f.orig
           /\ v = [f EXCEPT !.m = a, !.j = e + 1, !.orig = old, !.new = f.new, !.at = e]
        \/ /\ old # f.orig
           /\ v = [f EXCEPT !.m = b, !.j = e + 1, !.orig = old, !.new = new, !.at = e]
    <3>1. /\ old = f.m.snaps[f.j].recs[f.id].t /\ e = EditIdx(f.m, f.j) /\ new = Fresh(f.m)
          /\ Has(f.m.snaps[f.j], f.id) /\ ~Hidden(f.m, f.j)
      BY <1>1, <1>5
    <3> HIDE DEF old, e, new, o, j
    <3>2. IsFkeyRound(f, old, e, new, v)
      BY <3>1, FkeyRound
    <3> QED  BY <3>2, Zenon DEF IsFkeyRound
  <2>2. Has(o.snaps[j], id) /\ old # NoTmplt
    BY <1>5 DEF Has
  <2>3. a = Disown(Exchanged(AssumeAlike(SnapEdit(o, j), ok), e, id, f.new), f.at, id)
    BY <1>1 DEF FkeyShared
  <2>4. b = Exchanged(Allocate(AssumeAlike(SnapEdit(o, j), ok), new, x), e, id, new)
    BY <1>1 DEF FkeyCopy
  <2>5. Free(o) # {} /\ new \in Addrs /\ new # NoTmplt
    <3>1. Free(o) # {}
      BY <1>1, <1>3, EnoughFree
    <3>2. new \in Addrs
      BY <3>1, FreshIsFree DEF Free
    <3> HIDE DEF new
    <3> QED  BY <3>1, <3>2, NoTmpltAssumption
  <2> HIDE DEF a, b, ok
  <2>6. \E n, t : /\ v = [f EXCEPT !.m = n, !.j = e + 1, !.orig = old, !.new = t, !.at = e]
                  /\ t # NoTmplt /\ IsRekeyed(o, j, id, t, n, e)
    <3>1. CASE old = f.orig /\ v = [f EXCEPT !.m = a, !.j = e + 1, !.orig = old, !.new = f.new, !.at = e]
      <4>1. IsRekeyed(o, j, id, f.new, a, e)
        <5> HIDE DEF o, j, e
        <5> QED  BY <1>1, <1>3, <2>2, <2>3, <3>1, RekeyShared DEF e
      <4>2. f.new # NoTmplt
        <5> HIDE DEF o, old, e
        <5> QED  BY <1>1, <2>2, <3>1 DEF Copied
      <4> HIDE DEF o, j, old, e
      <4> QED  BY <3>1, <4>1, <4>2, Zenon
    <3>2. CASE old # f.orig /\ v = [f EXCEPT !.m = b, !.j = e + 1, !.orig = old, !.new = new, !.at = e]
      <4> DEFINE r == AssumeAlike(SnapEdit(o, j), ok)
                 y == o.tm[old]
                 z == Allocate(r, new, WithKey(y, f.key))
      <4>1. Good(r, {}) /\ IsReadied(o, j, id, r, e)
        <5> HIDE DEF o, j
        <5> QED  BY <1>1, <1>3, <2>2, Readied
      <4>2. b = Exchanged(z, e, id, new)
        <5> HIDE DEF o, j, old, e, new
        <5> QED  BY <2>4
      <4>3. new \in Free(o) /\ z = Allocate(r, new, WithKey(y, f.key))
        <5> HIDE DEF r, y, o, j, old
        <5> QED  BY <2>5, FreshIsFree
      <4>4. "ies" \in DOMAIN y /\ y.ies = o.ies
        <5>1. old = o.snaps[j].recs[id].t
          OBVIOUS
        <5> HIDE DEF o, j, old, r, z, e, new
        <5>2. "ies" \in DOMAIN o.tm[old] /\ o.tm[old].ies = o.ies
          BY <1>1, <1>3, <2>2, <5>1, OwnIsCurrent
        <5> QED  BY <5>2
      <4> HIDE DEF r, y, z, e, new
      <4>5. IsRekeyed(o, j, id, new, b, e)
        <5> HIDE DEF o, j, old
        <5> QED  BY <1>1, <1>3, <4>1, <4>2, <4>3, <4>4, RekeyNew
      <4> HIDE DEF o, j, old
      <4> QED  BY <2>5, <3>2, <4>5, Zenon
    <3> HIDE DEF o, j, old, e, new
    <3> QED  BY <2>1, <3>1, <3>2, Zenon
  <2> HIDE DEF o, j, e, old, new
  <2>7. PICK n, t : /\ v = [f EXCEPT !.m = n, !.j = e + 1, !.orig = old, !.new = t, !.at = e]
                    /\ t # NoTmplt /\ IsRekeyed(o, j, id, t, n, e)
    BY <2>6, Zenon
  <2>8. /\ Good(n, {}) /\ Keeps(o, n) /\ n.cur \in Nat /\ e \in Nat /\ j <= e
        /\ e \in DOMAIN n.snaps /\ n.snaps[e].recs[id].t = t
        /\ ~n.snaps[e].recs[id].c /\ n.snaps[e].recs[id].d
        /\ Len(n.snaps) + j = Len(o.snaps) + e
        /\ \E u : DOMAIN n.tm \subseteq DOMAIN o.tm \cup {u}
        /\ \A c \in Nat : c <= j => Behind(o, n, c)
    BY <2>7 DEF IsRekeyed
  <2>9. /\ DOMAIN v = DOMAIN f /\ v.m = n /\ v.id = id /\ v.j = e + 1
        /\ v.orig = old /\ v.new = t /\ v.at = e
    BY <1>1, <2>7
  <2>10. Len(n.snaps) \in Nat
    BY <2>8, GoodFacts, ListLen
  <2>11. Behind(m, n, m.cur)
    BY <1>1, <1>2, <2>8, <2>10, BehindTransitive
  <2>12. Keeps(m, n)
    BY <1>1, <2>8, KeepsTransitive
  <2>13. m.cur <= e + 1 /\ 1 <= e + 1 /\ e + 1 \in Nat
    BY <1>1, <2>8
  <2>14. Copied(n, id, old, t, e, e + 1)
    BY <2>7, <2>8 DEF Copied
  <2>15. Enough(n, e + 1)
    BY <1>1, <1>2, <2>8, <2>10, EnoughLater
  <2> QED  BY <1>1, <2>8, <2>9, <2>11, <2>12, <2>13, <2>14, <2>15 DEF Rekeys
<1> QED  BY <1>4, <1>5

\* The loop of fds_tmgr_template_set_fkey().
LEMMA FkeyFromStep ==
  ASSUME NEW m, Good(m, {}), Ready(m), m.cur \in Nat, NEW id \in IDs, NEW key, NEW first,
         Len(m.snaps) <= Cardinality(Free(m)), NEW n, n = FkeyFrom(m, id, key, first)
  PROVE  Good(n, {}) /\ Keeps(m, n) /\ Ready(n)
<1> DEFINE x == [m |-> m, j |-> m.cur, id |-> id, key |-> key, first |-> first,
                 orig |-> NoTmplt, new |-> NoTmplt, at |-> 0]
           c == Newest(m)
           w == Rekeying!Repeat(x, c)
<1>1. c \in Nat /\ Len(m.snaps) \in Nat /\ DOMAIN m.snaps = 1..Len(m.snaps)
  BY GoodFacts, ListLen DEF Newest
<1>2. n = w.m
  BY DEF FkeyFrom
<1>3. Rekeys(x, m, id)
  <2>1. 1 <= m.cur /\ Behind(m, m, m.cur)
    BY <1>1 DEF Ready, Arriving, Behind
  <2>2. Enough(m, m.cur)
    <3> DEFINE A == Addrs \ DOMAIN m.tm
               none == {}
    <3>1. Good(m, none)
      OBVIOUS
    <3>2. Cardinality(A) \in Nat
      BY FreeLeft
    <3>3. Free(m) = A
      <4> HIDE DEF none
      <4> QED  BY <3>1, FreeAddrs
    <3> HIDE DEF A
    <3>4. Len(m.snaps) + 1 <= Cardinality(A) + m.cur
      BY <1>1, <2>1, <3>2, <3>3
    <3> QED  BY <3>4 DEF Enough, A
  <2>3. Copied(m, id, NoTmplt, NoTmplt, 0, m.cur)
    BY DEF Copied
  <2> QED  BY <2>1, <2>2, <2>3, KeepsItself DEF Rekeys
<1> HIDE DEF x, c
<1>4. PICK S : /\ x \in S
               /\ \A T \in SUBSET S :
                    x \in T /\ (\A y \in T : ~FkeyEnds(y) /\ FkeyAt(y) \in S => FkeyAt(y) \in T)
                      => Rekeying!Repeat(x, c) \in T
  BY <1>1, Rekeying!LoopInvariant
<1> DEFINE T == {y \in S : Rekeys(y, m, id)}
<1>5. x \in T /\ T \in SUBSET S
  BY <1>3, <1>4
<1>6. ASSUME NEW y \in T, ~FkeyEnds(y), FkeyAt(y) \in S PROVE FkeyAt(y) \in T
  BY <1>1, <1>6, RekeyRound
<1>7. w \in T
  <2> HIDE DEF T
  <2> QED  BY <1>4, <1>5, <1>6
<1>8. Good(n, {}) /\ Keeps(m, n) /\ Behind(m, n, m.cur)
  BY <1>2, <1>7 DEF Rekeys
<1>9. Ready(n)
  <2> DEFINE none == {}
  <2>1. Good(m, none) /\ Good(n, none)
    BY <1>8
  <2> HIDE DEF none
  <2> QED  BY <1>8, <2>1, ReadyBehind
<1> QED  BY <1>8, <1>9

-----------------------------------------------------------------------------
(* The actions. *)

\* A call leads to such a state again, and keeps what was frozen.
Steps(m, n) == Inv(n) /\ FrozenKept(m, n)

\* What Inv says, part by part.
LEMMA InvFacts ==
  ASSUME NEW m, Inv(m), NEW none, none = {}
  PROVE  /\ Good(m, none) /\ OlderFrozen(m) /\ AtNow(m) /\ m.cur \in Nat
         /\ Len(m.snaps) \in Nat /\ DOMAIN m.snaps = 1..Len(m.snaps)
         /\ DOMAIN m = ManagerFields
         /\ m.cur # 0 => m.cur \in DOMAIN m.snaps
<1>1. Good(m, none) /\ OlderFrozen(m) /\ AtNow(m)
  BY DEF Inv
<1>2. Len(m.snaps) \in Nat /\ DOMAIN m.snaps = 1..Len(m.snaps) /\ DOMAIN m = ManagerFields
  BY <1>1, GoodFacts, ListLen
<1>3. m.cur \in 0..Len(m.snaps)
  BY <1>1 DEF OlderFrozen
<1> QED  BY <1>1, <1>2, <1>3

\* A call that ends with a selected snapshot.
LEMMA SettledSteps ==
  ASSUME NEW m, NEW n, NEW none, none = {}, Settled(m, n, none)
  PROVE  Steps(m, n)
BY KeepsFrozen DEF Settled, Steps, Inv

\* A call that ends with no selected snapshot.
LEMMA Unselected ==
  ASSUME NEW m, NEW n, Good(n, {}), FrozenKept(m, n), n.cur = 0
  PROVE  Steps(m, n)
<1> DEFINE none == {}
<1>1. Good(n, none)
  OBVIOUS
<1> HIDE DEF none
<1>2. Len(n.snaps) \in Nat
  BY <1>1, GoodFacts, ListLen
<1>3. OlderFrozen(n) /\ AtNow(n)
  BY <1>2 DEF OlderFrozen, AtNow
<1> QED  BY <1>3 DEF Steps, Inv

\* The list and what is selected stay.
LEMMA SelectionStays ==
  ASSUME NEW m, Inv(m), NEW n, Good(n, {}), FrozenKept(m, n),
         n.snaps = m.snaps, n.cur = m.cur, n.now = m.now
  PROVE  Steps(m, n)
<1>1. OlderFrozen(n) /\ AtNow(n)
  BY DEF Inv, OlderFrozen, AtNow
<1> QED  BY <1>1 DEF Steps, Inv

\* A call that fails at once.
LEMMA NothingSteps ==
  ASSUME NEW m, Inv(m)
  PROVE  Steps(m, m)
BY KeepsItself, KeepsFrozen DEF Steps

\* mgr_modify_prepare()
IsPrepared(m, n) ==
  /\ Good(n, {}) /\ Keeps(m, n) /\ Ready(n) /\ n.cur \in Nat
  /\ Free(n) = Free(m) /\ Len(n.snaps) \in Nat /\ Len(n.snaps) <= Len(m.snaps) + 1

\* Every modification starts with it.
LEMMA Prepared ==
  ASSUME NEW m, Inv(m), m.cur # 0, NEW n, n = Prepare(m)
  PROVE  IsPrepared(m, n)
<1> DEFINE none == {}
<1>1. none = {}
  OBVIOUS
<1> HIDE DEF none
<1>2. Good(m, none) /\ OlderFrozen(m) /\ AtNow(m)
  BY <1>1, InvFacts
<1>3. /\ Good(n, none) /\ Keeps(m, n) /\ Ready(n) /\ n.tm = m.tm
      /\ Len(n.snaps) <= Len(m.snaps) + 1
  BY <1>2, PrepareStep
<1>4. Len(n.snaps) \in Nat /\ DOMAIN n.snaps = 1..Len(n.snaps)
  BY <1>3, GoodFacts, ListLen
<1>5. n.cur \in Nat
  BY <1>3, <1>4 DEF Ready, Arriving
<1>6. Free(n) = Addrs \ DOMAIN n.tm /\ Free(m) = Addrs \ DOMAIN m.tm
  BY <1>2, <1>3, FreeAddrs
<1>7. Good(n, {})
  BY <1>1, <1>3
<1> QED  BY <1>3, <1>4, <1>5, <1>6, <1>7 DEF IsPrepared

\* A modification of the prepared snapshot.
LEMMA ModifiedSteps ==
  ASSUME NEW m, NEW n, IsPrepared(m, n), NEW p, Good(p, {}), Keeps(n, p), Ready(p)
  PROVE  Steps(m, p)
<1> DEFINE none == {}
<1>1. none = {} /\ Good(p, none)
  OBVIOUS
<1> HIDE DEF none
<1>2. Keeps(m, p)
  BY KeepsTransitive DEF IsPrepared
<1>3. Settled(m, p, none)
  BY <1>1, <1>2, ReadySettled
<1> QED  BY <1>1, <1>3, SettledSteps

\* A modification that is refused then.
LEMMA PreparedSteps ==
  ASSUME NEW m, NEW n, IsPrepared(m, n)
  PROVE  Steps(m, n)
BY KeepsItself, ModifiedSteps DEF IsPrepared

\* There is an address to allocate.
LEMMA RoomFree ==
  ASSUME NEW S, Cardinality(S) >= 1
  PROVE  S # {}
<1>1. Cardinality({}) = 0
  BY FS_EmptySet
<1> QED  BY <1>1

\* fds_tmgr_set_time()
LEMMA SetTimeSteps ==
  ASSUME Inv(mgr), NEW t, SetTime(t)
  PROVE  Steps(mgr, mgr')
<1> DEFINE none == {}
<1>1. none = {}
  OBVIOUS
<1> HIDE DEF none
<1>2. CASE mgr' = SelectTime(mgr, t)
  <2>1. Good(mgr, none) /\ OlderFrozen(mgr)
    BY <1>1, InvFacts
  <2>2. Settled(mgr, mgr', none)
    BY <1>2, <2>1, SelectTimeStep
  <2> QED  BY <1>1, <2>2, SettledSteps
<1>3. CASE mgr' = mgr
  BY <1>3, NothingSteps
<1> QED  BY <1>2, <1>3 DEF SetTime, Done, Fails

\* fds_tmgr_template_add()
LEMMA AddSteps ==
  ASSUME Inv(mgr), NEW id \in IDs, NEW def, Add(id, def)
  PROVE  Steps(mgr, mgr')
<1> DEFINE m == Prepare(mgr)
<1>1. CASE mgr' = mgr
  BY <1>1, NothingSteps
<1>2. CASE mgr.cur # 0 /\ Room(mgr, 1) /\ mgr' = m
  BY <1>2, Prepared, PreparedSteps
<1>3. CASE mgr.cur # 0 /\ Room(mgr, 1) /\ mgr' = TemplateAdd(m, id, def)
  <2>1. IsPrepared(mgr, m)
    BY <1>3, Prepared
  <2> HIDE DEF m
  <2>2. Good(m, {}) /\ Ready(m) /\ m.cur \in Nat /\ Free(m) = Free(mgr)
    BY <2>1 DEF IsPrepared
  <2>3. Free(m) # {}
    BY <1>3, <2>2, RoomFree DEF Room
  <2>4. Good(mgr', {}) /\ Keeps(m, mgr') /\ Ready(mgr')
    BY <1>3, <2>2, <2>3, TemplateAddStep
  <2> QED  BY <2>1, <2>4, ModifiedSteps
<1> QED  BY <1>1, <1>2, <1>3 DEF Add, Added, NoContext, Done, Fails

\* fds_tmgr_template_withdraw()
LEMMA WithdrawSteps ==
  ASSUME Inv(mgr), NEW id \in IDs, NEW type, Withdraw(id, type)
  PROVE  Steps(mgr, mgr')
<1> DEFINE m == Prepare(mgr)
<1>1. CASE mgr' = mgr
  BY <1>1, NothingSteps
<1>2. CASE mgr.cur # 0 /\ mgr' = m
  BY <1>2, Prepared, PreparedSteps
<1>3. CASE mgr.cur # 0 /\ mgr' = WithdrawFrom(m, m.cur, id)
  <2>1. IsPrepared(mgr, m)
    BY <1>3, Prepared
  <2> HIDE DEF m
  <2> DEFINE none == {}
  <2>2. Good(m, none) /\ Ready(m) /\ m.cur \in Nat
    BY <2>1 DEF IsPrepared
  <2>3. Good(mgr', none) /\ Keeps(m, mgr') /\ Ready(mgr')
    <3> HIDE DEF none
    <3> QED  BY <1>3, <2>2, WithdrawFromStep
  <2> QED  BY <2>1, <2>3, ModifiedSteps
<1> QED  BY <1>1, <1>2, <1>3 DEF Withdraw, NoContext, Done, Fails

\* fds_tmgr_template_withdraw_all()
LEMMA WithdrawAllSteps ==
  ASSUME Inv(mgr), NEW type, WithdrawAll(type)
  PROVE  Steps(mgr, mgr')
<1> DEFINE m   == Prepare(mgr)
           all == {id \in IDs : WithdrawCode(m, id, type) = "OK"}
           c   == Cardinality(IDs)
<1>1. CASE mgr' = mgr
  BY <1>1, NothingSteps
<1>2. CASE mgr.cur # 0 /\ mgr' = Withdrawals!Repeat([m |-> m, left |-> all], c).m
  <2>1. IsPrepared(mgr, m)
    BY <1>2, Prepared
  <2>2. all \in SUBSET IDs
    OBVIOUS
  <2>3. c \in Nat
    BY ParamsAssumption, FS_CardinalityType
  <2> HIDE DEF m, all, c
  <2> DEFINE none == {}
  <2>4. Good(m, none) /\ Ready(m) /\ m.cur \in Nat
    BY <2>1 DEF IsPrepared
  <2>5. Good(mgr', none) /\ Keeps(m, mgr') /\ Ready(mgr')
    <3> HIDE DEF none
    <3> QED  BY <1>2, <2>2, <2>3, <2>4, WithdrawAllStep
  <2> QED  BY <2>1, <2>5, ModifiedSteps
<1> QED  BY <1>1, <1>2 DEF WithdrawAll, NoContext, Done, Fails

\* fds_tmgr_template_remove()
LEMMA TemplateRemoveAllSteps ==
  ASSUME Inv(mgr), NEW id \in IDs, NEW type, TemplateRemoveAll(id, type)
  PROVE  Steps(mgr, mgr')
<1> DEFINE n    == RemoveFrom(mgr, id, type)
           none == {}
<1>1. mgr' = SelectTime(Select(n, 0), mgr.now)
  BY DEF TemplateRemoveAll, Done, Select
<1>2. none = {}
  OBVIOUS
<1>3. n = RemoveFrom(mgr, id, type)
  OBVIOUS
<1> HIDE DEF none, n
<1>4. Good(mgr, none) /\ mgr.cur \in Nat
  BY <1>2, InvFacts
<1>5. Good(n, none) /\ Keeps(mgr, n)
  BY <1>3, <1>4, RemoveFromStep
<1>6. Settled(mgr, mgr', none)
  BY <1>1, <1>5, Reselected
<1> QED  BY <1>2, <1>6, SettledSteps

\* fds_tmgr_template_set_fkey()
LEMMA SetFkeySteps ==
  ASSUME Inv(mgr), NEW id \in IDs, NEW key, SetFkey(id, key)
  PROVE  Steps(mgr, mgr')
<1> DEFINE m     == Prepare(mgr)
           first == mgr.tm[mgr.snaps[mgr.cur].recs[id].t].first
<1>1. CASE mgr' = mgr
  BY <1>1, NothingSteps
<1>2. CASE mgr.cur # 0 /\ Room(mgr, Newest(mgr) + 1) /\ mgr' = FkeyFrom(m, id, key, first)
  <2>1. IsPrepared(mgr, m)
    BY <1>2, Prepared
  <2>2. Len(mgr.snaps) \in Nat
    BY InvFacts
  <2> HIDE DEF m, first
  <2>3. /\ Good(m, {}) /\ Ready(m) /\ m.cur \in Nat /\ Free(m) = Free(mgr)
        /\ Len(m.snaps) \in Nat /\ Len(m.snaps) <= Len(mgr.snaps) + 1
    BY <2>1 DEF IsPrepared
  <2>4. Cardinality(Free(mgr)) \in Nat
    BY FreeLeft, ParamsAssumption, FS_Subset, FS_CardinalityType DEF Free
  <2>5. Len(m.snaps) <= Cardinality(Free(m))
    BY <1>2, <2>2, <2>3, <2>4 DEF Room, Newest
  <2>6. Good(mgr', {}) /\ Keeps(m, mgr') /\ Ready(mgr')
    BY <1>2, <2>3, <2>5, FkeyFromStep
  <2> QED  BY <2>1, <2>6, ModifiedSteps
<1> QED  BY <1>1, <1>2, Zenon DEF SetFkey, NoContext, Done, Fails

\* fds_tmgr_snapshot_get() freezes the selected snapshot.
LEMMA SnapshotGetSteps ==
  ASSUME Inv(mgr), SnapshotGet
  PROVE  Steps(mgr, mgr')
<1> DEFINE none == {}
<1>1. none = {}
  OBVIOUS
<1> HIDE DEF none
<1>2. CASE mgr' = mgr
  BY <1>2, NothingSteps
<1>3. CASE mgr.cur # 0 /\ mgr' = SnapFreeze(mgr, mgr.cur)
  <2>1. /\ Good(mgr, none) /\ OlderFrozen(mgr) /\ mgr.cur \in DOMAIN mgr.snaps /\ mgr.cur \in Nat
        /\ Len(mgr.snaps) \in Nat /\ DOMAIN mgr.snaps = 1..Len(mgr.snaps)
    BY <1>1, <1>3, InvFacts
  <2>2. Good(mgr', none) /\ Keeps(mgr, mgr') /\ Past(mgr, mgr', mgr.cur)
    BY <1>3, <2>1, SnapFreezeStep
  <2>3. Len(mgr'.snaps) \in Nat
    BY <2>2, GoodFacts, ListLen
  <2>4. mgr'.cur = mgr.cur /\ mgr.cur <= Len(mgr'.snaps)
    BY <2>1, <2>2, <2>3 DEF Past
  <2>5. \A k \in 1..(mgr.cur - 1) : ~mgr'.snaps[k].editable
    BY <2>1, <2>2 DEF Past, OlderFrozen
  <2>6. OlderFrozen(mgr')
    BY <2>1, <2>3, <2>4, <2>5 DEF OlderFrozen
  <2>7. AtNow(mgr')
    BY <2>2, <2>4 DEF Past, AtNow
  <2>8. Settled(mgr, mgr', none)
    BY <2>2, <2>6, <2>7 DEF Settled
  <2> QED  BY <1>1, <2>8, SettledSteps
<1> QED  BY <1>2, <1>3 DEF SnapshotGet, NoContext, Done, Fails

\* Only the configuration changes.
LEMMA ConfiguredSteps ==
  ASSUME Inv(mgr), NEW n, DOMAIN n = DOMAIN mgr, n.ies = mgr.ies, n.handed = mgr.handed,
         n.snaps = mgr.snaps, n.tm = mgr.tm, n.trash = mgr.trash, n.cur = mgr.cur, n.now = mgr.now
  PROVE  Steps(mgr, n)
<1> DEFINE none == {}
<1>1. Good(mgr, none)
  BY DEF Inv
<1>2. Good(n, none) /\ Keeps(mgr, n)
  <2> HIDE DEF none
  <2> QED  BY <1>1, StepSame
<1> QED  BY <1>2, KeepsFrozen, SelectionStays

\* fds_tmgr_set_udp_timeouts()
LEMMA SetUdpTimeoutsSteps ==
  ASSUME Inv(mgr), NEW n, NEW o, SetUdpTimeouts(n, o)
  PROVE  Steps(mgr, mgr')
<1>1. CASE mgr' = mgr
  BY <1>1, NothingSteps
<1>2. CASE mgr' = [mgr EXCEPT !.limN = n, !.limO = o]
  <2>1. DOMAIN mgr = ManagerFields
    BY InvFacts
  <2>2. /\ DOMAIN mgr' = DOMAIN mgr /\ mgr'.ies = mgr.ies /\ mgr'.handed = mgr.handed
        /\ mgr'.snaps = mgr.snaps /\ mgr'.tm = mgr.tm /\ mgr'.trash = mgr.trash
        /\ mgr'.cur = mgr.cur /\ mgr'.now = mgr.now
    BY <1>2, <2>1 DEF ManagerFields
  <2> QED  BY <2>2, ConfiguredSteps
<1> QED  BY <1>1, <1>2 DEF SetUdpTimeouts, Done, Fails

\* fds_tmgr_set_snapshot_timeout()
LEMMA SetSnapshotTimeoutSteps ==
  ASSUME Inv(mgr), NEW h, SetSnapshotTimeout(h)
  PROVE  Steps(mgr, mgr')
<1>1. mgr' = [mgr EXCEPT !.limS = h]
  BY DEF SetSnapshotTimeout, Done
<1>2. DOMAIN mgr = ManagerFields
  BY InvFacts
<1>3. /\ DOMAIN mgr' = DOMAIN mgr /\ mgr'.ies = mgr.ies /\ mgr'.handed = mgr.handed
      /\ mgr'.snaps = mgr.snaps /\ mgr'.tm = mgr.tm /\ mgr'.trash = mgr.trash
      /\ mgr'.cur = mgr.cur /\ mgr'.now = mgr.now
  BY <1>1, <1>2 DEF ManagerFields
<1> QED  BY <1>3, ConfiguredSteps

\* An empty list takes any IE manager.
LEMMA EmptyAnyIes ==
  ASSUME NEW m, Good(m, {}), m.snaps = <<>>, NEW ies, NEW n, n = [m EXCEPT !.ies = ies]
  PROVE  Good(n, {}) /\ Keeps(m, n) /\ n.cur = m.cur
<1>1. DOMAIN m = ManagerFields
  BY DEF Good
<1>2. /\ DOMAIN n = ManagerFields /\ n.snaps = m.snaps /\ n.tm = m.tm /\ n.trash = m.trash
      /\ n.handed = m.handed /\ n.cur = m.cur
  BY <1>1 DEF ManagerFields
<1>3. Refs(m.snaps) = {}
  BY EmptyList
<1>4. Good(n, {})
  BY <1>2, <1>3 DEF Good, Current
<1>5. Keeps(m, n)
  BY <1>2 DEF Keeps, Seen, SeenRefs, FrozenViews
<1> QED  BY <1>2, <1>4, <1>5

\* fds_tmgr_set_iemgr()
LEMMA SetIemgrSteps ==
  ASSUME Inv(mgr), NEW ies, SetIemgr(ies)
  PROVE  Steps(mgr, mgr')
<1> DEFINE m    == Cleanup(mgr)
           none == {}
<1>1. none = {}
  OBVIOUS
<1>2. /\ Room(m, Cardinality(ListRefs(m)))
      /\ \/ m.snaps = <<>> /\ mgr' = [m EXCEPT !.ies = ies]
         \/ m.snaps # <<>> /\ mgr' = CopyAll(m, ies)
  BY DEF SetIemgr, Done
<1>3. Good(mgr, none) /\ OlderFrozen(mgr)
  BY InvFacts
<1>4. m = Cleanup(mgr)
  OBVIOUS
<1> HIDE DEF m, none
<1>5. Good(m, none) /\ Keeps(mgr, m) /\ m.cur = 0
  BY <1>3, <1>4, CleanupStep
<1>6. Good(m, {})
  BY <1>1, <1>5
<1>7. Good(mgr', {}) /\ Keeps(m, mgr') /\ mgr'.cur = 0
  <2>1. CASE m.snaps = <<>> /\ mgr' = [m EXCEPT !.ies = ies]
    BY <1>5, <1>6, <2>1, EmptyAnyIes
  <2>2. CASE mgr' = CopyAll(m, ies)
    BY <1>2, <1>6, <2>2, CopyAllStep DEF Room, ListRefs
  <2> QED  BY <1>2, <2>1, <2>2
<1>8. FrozenKept(mgr, mgr')
  BY <1>5, <1>7, KeepsTransitive, KeepsFrozen
<1> QED  BY <1>7, <1>8, Unselected

\* fds_tmgr_clear()
LEMMA ClearSteps ==
  ASSUME Inv(mgr), Clear
  PROVE  Steps(mgr, mgr')
<1> DEFINE none == {}
<1>1. none = {}
  OBVIOUS
<1> HIDE DEF none
<1>2. Good(mgr, none) /\ mgr' = ClearAll(mgr)
  BY <1>1, InvFacts DEF Clear, Done
<1>3. Good(mgr', none) /\ Keeps(mgr, mgr') /\ mgr'.cur = 0
  BY <1>2, ClearStep
<1> QED  BY <1>1, <1>3, KeepsFrozen, Unselected

\* fds_tmgr_garbage_get()
LEMMA GarbageGetSteps ==
  ASSUME Inv(mgr), GarbageGet
  PROVE  Steps(mgr, mgr')
<1> DEFINE none == {}
           m == Cleanup(mgr)
           n == SelectTime(m, mgr.now)
<1>1. none = {} /\ m = Cleanup(mgr) /\ n = SelectTime(m, mgr.now)
  OBVIOUS
<1>2. mgr' = HandOut(n)
  BY DEF GarbageGet, Done
<1> HIDE DEF none, m, n
<1>3. Good(mgr, none) /\ OlderFrozen(mgr)
  BY <1>1, InvFacts
<1>4. Good(m, none) /\ Keeps(mgr, m) /\ OlderFrozen(m)
  BY <1>1, <1>3, CleanupStep
<1>5. Settled(m, n, none)
  BY <1>1, <1>4, SelectTimeStep
<1>6. Good(n, none) /\ Keeps(m, n) /\ OlderFrozen(n) /\ AtNow(n)
  BY <1>5 DEF Settled
<1>7. /\ Good(mgr', none) /\ Keeps(n, mgr')
      /\ mgr'.snaps = n.snaps /\ mgr'.cur = n.cur /\ mgr'.now = n.now
  BY <1>2, <1>6, HandOutStep
<1>8. OlderFrozen(mgr') /\ AtNow(mgr')
  BY <1>6, <1>7 DEF OlderFrozen, AtNow
<1>9. Keeps(mgr, mgr')
  <2>1. Keeps(mgr, n)
    BY <1>4, <1>6, KeepsTransitive
  <2> QED  BY <1>7, <2>1, KeepsTransitive
<1>10. Settled(mgr, mgr', none)
  BY <1>7, <1>8, <1>9 DEF Settled
<1> QED  BY <1>1, <1>10, SettledSteps

\* fds_tmgr_garbage_destroy()
LEMMA GarbageDestroySteps ==
  ASSUME Inv(mgr), GarbageDestroy
  PROVE  Steps(mgr, mgr')
<1>1. /\ mgr.handed # <<>>
      /\ mgr' = [Destroy(mgr, Head(mgr.handed).own) EXCEPT !.handed = Tail(@)]
  BY DEF GarbageDestroy, Done
<1>2. Good(mgr, {})
  BY DEF Inv
<1>3. /\ Good(mgr', {}) /\ FrozenKept(mgr, mgr')
      /\ mgr'.snaps = mgr.snaps /\ mgr'.cur = mgr.cur /\ mgr'.now = mgr.now
  BY <1>1, <1>2, GarbageDestroyStep
<1> QED  BY <1>3, SelectionStays

\* Every call.
LEMMA NextSteps ==
  ASSUME Inv(mgr), [Next]_vars
  PROVE  Steps(mgr, mgr')
<1>1. CASE \E t \in Times : SetTime(t)
  BY <1>1, SetTimeSteps
<1>2. CASE \E id \in IDs, def \in Defs : Add(id, def)
  BY <1>2, AddSteps
<1>3. CASE \E id \in IDs, type \in {"any", "data", "opts"} :
             Withdraw(id, type) \/ TemplateRemoveAll(id, type)
  BY <1>3, WithdrawSteps, TemplateRemoveAllSteps
<1>4. CASE \E type \in {"any", "data", "opts"} : WithdrawAll(type)
  BY <1>4, WithdrawAllSteps
<1>5. CASE \E id \in IDs, key \in Keys : SetFkey(id, key)
  BY <1>5, SetFkeySteps
<1>6. CASE \E n, o \in Lifetimes : SetUdpTimeouts(n, o)
  BY <1>6, SetUdpTimeoutsSteps
<1>7. CASE \E h \in SnapLifetimes : SetSnapshotTimeout(h)
  BY <1>7, SetSnapshotTimeoutSteps
<1>8. CASE \E ies \in IesSet : SetIemgr(ies)
  BY <1>8, SetIemgrSteps
<1>9. CASE SnapshotGet
  BY <1>9, SnapshotGetSteps
<1>10. CASE Clear
  BY <1>10, ClearSteps
<1>11. CASE GarbageGet
  BY <1>11, GarbageGetSteps
<1>12. CASE GarbageDestroy
  BY <1>12, GarbageDestroySteps
<1>13. CASE UNCHANGED vars
  BY <1>13, NothingSteps DEF vars
<1> QED  BY <1>1, <1>2, <1>3, <1>4, <1>5, <1>6, <1>7, <1>8, <1>9, <1>10, <1>11, <1>12, <1>13
            DEF Next

\* fds_tmgr_create()
LEMMA InitInv ==
  ASSUME Init
  PROVE  Inv(mgr)
<1>1. /\ DOMAIN mgr = ManagerFields /\ mgr.snaps = <<>> /\ mgr.cur = 0 /\ mgr.tm = <<>>
      /\ mgr.trash = NoGarbage /\ mgr.handed = <<>>
  BY DEF Init, ManagerFields
<1>2. IsList(mgr.snaps) /\ ListInv(mgr.snaps) /\ Refs(mgr.snaps) = {} /\ Unpropagated(mgr.snaps) = {}
  BY <1>1, EmptyList
<1>3. DOMAIN mgr.tm = {} /\ DOMAIN mgr.snaps = {} /\ DOMAIN mgr.handed = {} /\ Len(mgr.snaps) = 0
  BY <1>1
<1>4. Uses(mgr.trash) = NoBatch /\ IsGarbage(mgr.trash) /\ NoBatch \in Batch
  BY <1>1, NoGarbageUses DEF NoBatch, Batch
<1>5. UsesAll(mgr.handed) = <<>> /\ UsesAll(mgr.handed) \in Seq(Batch)
  BY <1>1, <1>3 DEF UsesAll
<1>6. GarbageInv({}, {}, {}, NoBatch, <<>>)
  BY DEF GarbageInv, NoBatch
<1>7. Sound(mgr.snaps, {}, Uses(mgr.trash), UsesAll(mgr.handed))
  BY <1>2, <1>4, <1>5, <1>6 DEF Sound
<1>8. mgr.handed \in Seq({mgr.handed[b] : b \in DOMAIN mgr.handed})
  BY <1>1
<1>9. Good(mgr, {})
  BY <1>1, <1>2, <1>3, <1>4, <1>7, <1>8 DEF Good, Starts, Current
<1>10. OlderFrozen(mgr) /\ AtNow(mgr)
  BY <1>1, <1>3 DEF OlderFrozen, AtNow
<1> QED  BY <1>9, <1>10 DEF Inv

\* The state between two calls.
ManagerInv == Inv(mgr)

\* Every call of template_mgr.h leads from such a state to another.
THEOREM Invariance == Spec => []ManagerInv
<1>1. Init => ManagerInv
  BY InitInv DEF ManagerInv
<1>2. ManagerInv /\ [Next]_vars => ManagerInv'
  BY NextSteps DEF ManagerInv, Steps
<1> QED  BY <1>1, <1>2, PTL DEF Spec

\* What Inv says of the owners of templates.
LEMMA OwnedOnce ==
  ASSUME ManagerInv
  PROVE  SingleOwner
<1> DEFINE s == mgr.snaps
           l == DOMAIN mgr.tm
           g == Uses(mgr.trash)
           h == UsesAll(mgr.handed)
<1>1. /\ IsList(s) /\ ListInv(s) /\ GarbageInv(Refs(s), Unpropagated(s), l, g, h)
  BY DEF ManagerInv, Inv, Good, Sound
<1>2. Owned(s) = Refs(s)
  BY <1>1, OwnedIsRefs DEF ListInv
<1>3. Own!Refs(s) = Refs(s) /\ Own!Owned(s) = Owned(s)
  BY DEF Own!Refs, Own!RefsOf, Own!Has, Refs, RefsOf, Has,
         Own!Owned, Own!OwnedBy, Owned, OwnedBy
<1>4. h = [b \in DOMAIN mgr.handed |-> Uses(mgr.handed[b])]
  BY DEF UsesAll
<1> HIDE DEF h
<1>5. Own!NoDangling
  BY <1>1, <1>3, <1>4 DEF GarbageInv, Own!NoDangling
<1>6. Own!OwnersDisjoint
  BY <1>1, <1>2, <1>3, <1>4 DEF GarbageInv, Own!OwnersDisjoint
<1>7. Own!NoLeak
  BY <1>1, <1>2, <1>3, <1>4 DEF GarbageInv, Own!NoLeak
<1>8. Own!GarbageUnused
  BY <1>1, <1>3, <1>4 DEF GarbageInv, Own!GarbageUnused
<1>9. Own!AddedIsUnseen
  <2>1. ASSUME NEW i \in DOMAIN s, NEW id \in IDs, s[i].editable, s[i].recs[id].c
        PROVE  s[i].recs[id].t \in Unpropagated(s)
    BY <2>1 DEF Unpropagated, AddedTo
  <2> QED  BY <1>1, <1>4, <2>1 DEF GarbageInv, Own!AddedIsUnseen
<1> QED  BY <1>1, <1>5, <1>6, <1>7, <1>8, <1>9 DEF SingleOwner

\* Whatever is called, and in whatever order: each template is freed exactly
\* once, by the list or by one piece of garbage, and not while a snapshot of
\* the list or of garbage refers to it (snapshot_rec_flags).
THEOREM FreedOnce == Spec => []SingleOwner
<1>1. ManagerInv => SingleOwner
  BY OwnedOnce
<1> QED  BY <1>1, Invariance, PTL

\* Every template of the list belongs to the IE manager that was set last
\* (fds_tmgr_set_iemgr()).
THEOREM CurrentElements == Spec => []IesCurrent
<1>1. ManagerInv => IesCurrent
  BY DEF ManagerInv, Inv, Good, Current, IesCurrent, ListRefs
<1> QED  BY <1>1, Invariance, PTL

\* Snapshots older than the selected time do not change any more.
THEOREM PastFrozen == Spec => []PastIsFrozen
<1>1. ManagerInv => PastIsFrozen
  BY DEF ManagerInv, Inv, OlderFrozen, AtNow, PastIsFrozen
<1> QED  BY <1>1, Invariance, PTL

\* Garbage: what is collected and what was handed out.
LEMMA GarbagesFacts ==
  ASSUME NEW m, IsSeq(m.handed)
  PROVE  /\ 1 \in DOMAIN Garbages(m) /\ Garbages(m)[1] = m.trash
         /\ \A b \in DOMAIN m.handed : b + 1 \in DOMAIN Garbages(m) /\ Garbages(m)[b + 1] = m.handed[b]
<1> DEFINE h == m.handed
           g == m.trash
           S == {g} \cup {h[b] : b \in DOMAIN h}
<1>1. h \in Seq(S) /\ <<g>> \in Seq(S) /\ Len(<<g>>) = 1 /\ <<g>>[1] = g
  BY DEF IsSeq
<1>2. Len(h) \in Nat /\ DOMAIN h = 1..Len(h)
  BY SeqFacts
<1>3. Garbages(m) = <<g>> \o h
  BY DEF Garbages
<1> HIDE DEF h, g, S
<1>4. /\ <<g>> \o h \in Seq(S) /\ Len(<<g>> \o h) = 1 + Len(h)
      /\ \A i \in 1..(1 + Len(h)) : (<<g>> \o h)[i] = IF i <= 1 THEN <<g>>[i] ELSE h[i - 1]
  BY <1>1, ConcatProperties
<1>5. DOMAIN (<<g>> \o h) = 1..(1 + Len(h))
  BY <1>4, LenProperties
<1>6. ASSUME NEW b \in DOMAIN h
      PROVE  b + 1 \in 1..(1 + Len(h)) /\ (<<g>> \o h)[b + 1] = h[b]
  <2>1. b \in Nat /\ b >= 1 /\ b <= Len(h) /\ (b + 1) - 1 = b /\ ~(b + 1 <= 1)
    BY <1>2
  <2>2. b + 1 \in 1..(1 + Len(h))
    BY <1>2, <2>1
  <2> QED  BY <1>4, <2>1, <2>2
<1>7. 1 \in 1..(1 + Len(h)) /\ (<<g>> \o h)[1] = g
  BY <1>1, <1>2, <1>4
<1> QED  BY <1>3, <1>5, <1>6, <1>7 DEF h, g

\* What is seen is in the list or in garbage.
LEMMA SeenReachable ==
  ASSUME NEW m, IsSeq(m.handed), NEW v \in Seen(m)
  PROVE  Content(m, v) \in Reachable(m)
<1>1. CASE v \in FrozenViews(m)
  <2>1. PICK k \in DOMAIN m.snaps : ~m.snaps[k].editable /\ v = View(m.snaps[k])
    BY <1>1 DEF FrozenViews
  <2>2. Content(m, v) \in Frozen(m)
    BY <2>1 DEF Frozen
  <2> QED  BY <2>2 DEF Reachable
<1>2. ASSUME NEW b \in DOMAIN Garbages(m), v \in Garbages(m)[b].snaps
      PROVE  Content(m, v) \in Reachable(m)
  BY <1>2 DEF Reachable
<1>3. CASE v \in m.trash.snaps
  BY <1>2, <1>3, GarbagesFacts
<1>4. CASE \E b \in DOMAIN m.handed : v \in m.handed[b].snaps
  BY <1>2, <1>4, GarbagesFacts
<1> QED  BY <1>1, <1>3, <1>4 DEF Seen

\* A view whose templates stay shows the same.
LEMMA SameContent ==
  ASSUME NEW m, NEW n, NEW v, \A t \in ViewRefs(v) : n.tm[t] = m.tm[t]
  PROVE  Content(n, v) = Content(m, v)
<1>1. ASSUME NEW id \in IDs, v.ref[id] # NoTmplt
      PROVE  n.tm[v.ref[id]] = m.tm[v.ref[id]]
  BY <1>1 DEF ViewRefs
<1> QED  BY <1>1 DEF Content

\* So no call changes what a frozen snapshot shows.
LEMMA FrozenReachable ==
  ASSUME NEW m, NEW n, Steps(m, n)
  PROVE  Frozen(m) \subseteq Reachable(n)
<1>1. FrozenKept(m, n) /\ IsSeq(n.handed)
  BY DEF Steps, Inv, Good, IsSeq
<1>2. ASSUME NEW k \in DOMAIN m.snaps, ~m.snaps[k].editable
      PROVE  Content(m, View(m.snaps[k])) \in Reachable(n)
  <2> DEFINE v == View(m.snaps[k])
  <2>1. v \in FrozenViews(m)
    BY <1>2 DEF FrozenViews
  <2> HIDE DEF v
  <2>2. v \in Seen(n) /\ \A t \in ViewRefs(v) : n.tm[t] = m.tm[t]
    BY <1>1, <2>1 DEF FrozenKept, RefsOfViews
  <2>3. Content(n, v) = Content(m, v)
    BY <2>2, SameContent
  <2>4. Content(n, v) \in Reachable(n)
    BY <1>1, <2>2, SeenReachable
  <2> QED  BY <2>3, <2>4 DEF v
<1> QED  BY <1>2 DEF Frozen

\* A frozen snapshot stays as it is, in the list or in garbage, and so do the
\* templates it refers to, until the user destroys that garbage.
THEOREM SeenStays == Spec => FrozenStays
<1>1. ManagerInv /\ [Next]_vars => [Frozen(mgr) \subseteq Reachable(mgr')]_vars
  BY NextSteps, FrozenReachable DEF ManagerInv
<1> QED  BY <1>1, Invariance, PTL DEF Spec, FrozenStays
=============================================================================
