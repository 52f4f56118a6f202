------------------------- MODULE SnapshotList_proofs -------------------------
(***************************************************************************)
(* What the operations of SnapshotList do to a list, for lists, sets of    *)
(* IDs and sets of addresses of any size.                                  *)
(*                                                                         *)
(* For each operation there is a lemma on its shape (the new list,         *)
(* snapshot by snapshot), and lemmas that a list of that shape keeps the   *)
(* list invariant ListInv and on how its set of templates in use differs;  *)
(* what garbage owns and uses follows from these sets.                     *)
(***************************************************************************)
EXTENDS SnapshotList, SequenceTheorems, TLAPS

(* Sequences given by a function on 1..n. *)

\* A function on 1..n is a sequence of length n.
LEMMA SeqOf ==
  ASSUME NEW S, NEW n \in Nat, NEW f \in [1..n -> S]
  PROVE  f \in Seq(S) /\ Len(f) = n /\ DOMAIN f = 1..n
<1>1. f \in Seq(S)
  BY SeqDef
<1>2. DOMAIN f = 1..n
  OBVIOUS
<1>3. Len(f) \in Nat /\ DOMAIN f = 1..Len(f)
  BY <1>1, LenProperties
<1>4. Len(f) = n
  <2>1. \A k \in Nat : k \in 1..n <=> k \in 1..Len(f)
    BY <1>2, <1>3
  <2>2. CASE Len(f) < n
    BY <2>1, <2>2, <1>3
  <2>3. CASE n < Len(f)
    BY <2>1, <2>3, <1>3
  <2> QED  BY <2>2, <2>3, <1>3
<1> QED  BY <1>1, <1>2, <1>4

\* A sequence over a set is one over a larger set.
LEMMA SeqSub ==
  ASSUME NEW S, NEW T, S \subseteq T, NEW s \in Seq(S)
  PROVE  s \in Seq(T)
BY SeqDef

\* A sequence of snapshots is a list.
LEMMA SeqList ==
  ASSUME NEW S, NEW s \in Seq(S), \A k \in DOMAIN s : IsSnapshot(s[k])
  PROVE  IsList(s)
<1> DEFINE T == {s[k] : k \in DOMAIN s}
<1>1. Len(s) \in Nat /\ DOMAIN s = 1..Len(s) /\ s \in [1..Len(s) -> S]
  BY LenProperties
<1>2. s \in [1..Len(s) -> T]
  BY <1>1
<1> HIDE DEF T
<1>3. s \in Seq(T)
  BY <1>1, <1>2, SeqOf
<1> QED  BY <1>3 DEF IsList, T

\* A function on 1..n whose values are snapshots is a list.
LEMMA ListOf ==
  ASSUME NEW n \in Nat, NEW f, f = [k \in 1..n |-> f[k]], \A k \in 1..n : IsSnapshot(f[k])
  PROVE  IsList(f) /\ Len(f) = n /\ DOMAIN f = 1..n
<1> DEFINE S == {f[i] : i \in DOMAIN f}
<1>1. DOMAIN f = 1..n
  OBVIOUS
<1>2. f \in [1..n -> S]
  BY <1>1
<1> HIDE DEF S
<1>3. f \in Seq(S) /\ Len(f) = n
  BY <1>2, SeqOf
<1> QED  BY <1>1, <1>3 DEF IsList, S

\* The fields of a snapshot of the list.
LEMMA Fields ==
  ASSUME NEW s, IsList(s), NEW i \in DOMAIN s
  PROVE  /\ Len(s) \in Nat /\ DOMAIN s = 1..Len(s) /\ i \in 1..Len(s)
         /\ IsSnapshot(s[i]) /\ s[i].editable \in BOOLEAN
         /\ s[i].recs \in [IDs -> Record]
         /\ \A id \in IDs : /\ s[i].recs[id] \in Record
                            /\ s[i].recs[id].t \in Addrs \cup {NoTmplt}
                            /\ s[i].recs[id].c \in BOOLEAN /\ s[i].recs[id].d \in BOOLEAN
<1>1. Len(s) \in Nat /\ DOMAIN s = 1..Len(s)
  BY LenProperties DEF IsList
<1>2. IsSnapshot(s[i])
  BY DEF IsList
<1>3. s[i].recs \in [IDs -> Record] /\ s[i].editable \in BOOLEAN
  BY <1>2 DEF IsSnapshot
<1>4. \A id \in IDs : s[i].recs[id] \in Record
  BY <1>3
<1>5. \A id \in IDs : /\ s[i].recs[id].t \in Addrs \cup {NoTmplt}
                      /\ s[i].recs[id].c \in BOOLEAN /\ s[i].recs[id].d \in BOOLEAN
  BY <1>4 DEF Record
<1> QED  BY <1>1, <1>2, <1>3, <1>4, <1>5

\* What the constructor of records builds, field by field.
LEMMA RecFields ==
  ASSUME NEW t \in Addrs \cup {NoTmplt}, NEW c \in BOOLEAN, NEW d \in BOOLEAN
  PROVE  /\ Rec(t, c, d) \in Record
         /\ Rec(t, c, d).t = t /\ Rec(t, c, d).c = c /\ Rec(t, c, d).d = d
BY DEF Rec, Record

\* A record with its Delete flag set anew is a record that keeps the rest.
LEMMA OwnerFields ==
  ASSUME NEW r \in Record, NEW d \in BOOLEAN
  PROVE  /\ Rec(r.t, r.c, d) \in Record
         /\ Rec(r.t, r.c, d).t = r.t /\ Rec(r.t, r.c, d).c = r.c /\ Rec(r.t, r.c, d).d = d
BY DEF Rec, Record

\* The empty record refers to no template and has no flags.
LEMMA NoRecFields ==
  NoRec \in Record /\ NoRec.t = NoTmplt /\ NoRec.c = FALSE /\ NoRec.d = FALSE
BY DEF NoRec, Rec, Record

\* The fields that the operations of the list leave alone.
SameRest(x, y) ==
  DOMAIN y = DOMAIN x /\ \A f \in DOMAIN x \ {"editable", "recs"} : y[f] = x[f]
\* What a reader of the snapshot sees is the same, too.
SameView(x, y) == SameRest(x, y) /\ \A id \in IDs : y.recs[id].t = x.recs[id].t

\* Replacing the records of a snapshot leaves everything else alone.
LEMMA WithRecsFields ==
  ASSUME NEW x, IsSnapshot(x), NEW r \in [IDs -> Record]
  PROVE  /\ IsSnapshot(WithRecs(x, r)) /\ SameRest(x, WithRecs(x, r))
         /\ WithRecs(x, r).recs = r /\ WithRecs(x, r).editable = x.editable
BY DEF WithRecs, IsSnapshot, SameRest

\* Making a snapshot editable leaves its records alone.
LEMMA EditableFields ==
  ASSUME NEW x, IsSnapshot(x)
  PROVE  /\ IsSnapshot(Editable(x)) /\ SameRest(x, Editable(x))
         /\ Editable(x).recs = x.recs /\ Editable(x).editable = TRUE
BY DEF Editable, IsSnapshot, SameRest

\* Writing the record of one ID leaves the other IDs alone.
LEMMA WithRecFields ==
  ASSUME NEW x, IsSnapshot(x), NEW id \in IDs, NEW r \in Record
  PROVE  /\ IsSnapshot(WithRec(x, id, r)) /\ SameRest(x, WithRec(x, id, r))
         /\ WithRec(x, id, r).editable = x.editable
         /\ WithRec(x, id, r).recs[id] = r
         /\ \A other \in IDs \ {id} : WithRec(x, id, r).recs[other] = x.recs[other]
<1> DEFINE f == [y \in IDs |-> IF y = id THEN r ELSE x.recs[y]]
<1>1. f \in [IDs -> Record]
  BY DEF IsSnapshot
<1>2. IsSnapshot(WithRecs(x, f)) /\ WithRecs(x, f).recs = f
      /\ WithRecs(x, f).editable = x.editable /\ SameRest(x, WithRecs(x, f))
  BY <1>1, WithRecsFields
<1> QED  BY <1>1, <1>2 DEF WithRec

(* Templates in use. *)

\* A template is referred to iff some snapshot has it under some ID.
LEMMA RefsMember ==
  ASSUME NEW s, NEW t
  PROVE  t \in Refs(s) <=> \E k \in DOMAIN s : \E id \in IDs :
                              Has(s[k], id) /\ s[k].recs[id].t = t
BY DEF Refs, RefsOf

\* A template is owned iff some reference to it has the Delete flag.
LEMMA OwnedMember ==
  ASSUME NEW s, NEW t
  PROVE  t \in Owned(s) <=> \E k \in DOMAIN s : \E id \in IDs :
                               Has(s[k], id) /\ s[k].recs[id].d /\ s[k].recs[id].t = t
BY DEF Owned, OwnedBy

\* What a snapshot has is among the references of its list.
LEMMA InRefs ==
  ASSUME NEW s, NEW k \in DOMAIN s, NEW id \in IDs, Has(s[k], id)
  PROVE  s[k].recs[id].t \in Refs(s)
BY RefsMember

\* Every template in use is owned by the list.
LEMMA OwnedIsRefs ==
  ASSUME NEW s, HasOwner(s)
  PROVE  Owned(s) = Refs(s)
<1>1. ASSUME NEW t \in Owned(s)
      PROVE  t \in Refs(s)
  BY OwnedMember, RefsMember
<1>2. ASSUME NEW t \in Refs(s)
      PROVE  t \in Owned(s)
  <2>1. PICK k \in DOMAIN s, id \in IDs : Has(s[k], id) /\ s[k].recs[id].t = t
    BY RefsMember
  <2>2. PICK o \in DOMAIN s : Same(s, k, o, id) /\ s[o].recs[id].d
    BY <2>1 DEF HasOwner
  <2>3. Has(s[o], id) /\ s[o].recs[id].t = t
    BY <2>1, <2>2 DEF Same, Has
  <2> QED  BY <2>2, <2>3, OwnedMember
<1> QED  BY <1>1, <1>2

-----------------------------------------------------------------------------
(* mgr_snap_clone(): the copy follows its source. *)

\* What the new list n is, snapshot by snapshot.
IsClone(s, i, expired, n) ==
  /\ IsList(n) /\ Len(n) = Len(s) + 1
  /\ DOMAIN n = 1..(Len(s) + 1)
  /\ \A k \in 1..(i - 1) : n[k] = s[k]
  /\ n[i].editable = s[i].editable /\ n[i + 1].editable = TRUE
  /\ \A id \in IDs :
       /\ n[i].recs[id].t = s[i].recs[id].t /\ n[i].recs[id].c = s[i].recs[id].c
       /\ n[i].recs[id].d = (s[i].recs[id].d /\ id \in expired)
       /\ id \in expired => n[i + 1].recs[id] = NoRec
       /\ id \notin expired => /\ n[i + 1].recs[id].t = s[i].recs[id].t
                               /\ n[i + 1].recs[id].c = FALSE
                               /\ n[i + 1].recs[id].d = s[i].recs[id].d
  /\ \A k \in (i + 2)..(Len(s) + 1) : n[k] = s[k - 1]

\* mgr_snap_clone() builds a list of the shape of a clone.
LEMMA CloneShape ==
  ASSUME NEW s, IsList(s), NEW i \in DOMAIN s, NEW expired \in SUBSET IDs,
         NEW n, n = InsertClone(s, i, expired)
  PROVE  IsClone(s, i, expired, n) /\ SameView(s[i], n[i]) /\ SameRest(s[i], n[i + 1])
<1> DEFINE f == [id \in IDs |-> LET r == s[i].recs[id] IN Rec(r.t, r.c, r.d /\ id \in expired)]
           g == [id \in IDs |->
                  LET r == s[i].recs[id]
                  IN  IF id \in expired THEN NoRec ELSE Rec(r.t, FALSE, r.d)]
           src == WithRecs(s[i], f)
           clone == Editable(WithRecs(s[i], g))
<1>1. Len(s) \in Nat /\ DOMAIN s = 1..Len(s) /\ i \in 1..Len(s) /\ i \in Nat
  BY Fields
<1>2. \A k \in DOMAIN s : IsSnapshot(s[k])
  BY Fields
<1>3. ASSUME NEW id \in IDs
      PROVE  /\ f[id] \in Record /\ f[id].t = s[i].recs[id].t /\ f[id].c = s[i].recs[id].c
             /\ f[id].d = (s[i].recs[id].d /\ id \in expired)
  <2>1. f[id] = Rec(s[i].recs[id].t, s[i].recs[id].c, s[i].recs[id].d /\ id \in expired)
    OBVIOUS
  <2>2. (s[i].recs[id].d /\ id \in expired) \in BOOLEAN
    OBVIOUS
  <2>3. s[i].recs[id].t \in Addrs \cup {NoTmplt} /\ s[i].recs[id].c \in BOOLEAN
    BY Fields
  <2> QED  BY <2>1, <2>2, <2>3, RecFields, Zenon
<1>4. ASSUME NEW id \in IDs
      PROVE  /\ g[id] \in Record
             /\ id \in expired => g[id] = NoRec
             /\ id \notin expired => /\ g[id].t = s[i].recs[id].t
                                     /\ g[id].c = FALSE
                                     /\ g[id].d = s[i].recs[id].d
  <2>1. g[id] = IF id \in expired THEN NoRec
                ELSE Rec(s[i].recs[id].t, FALSE, s[i].recs[id].d)
    OBVIOUS
  <2>2. s[i].recs[id].t \in Addrs \cup {NoTmplt} /\ s[i].recs[id].d \in BOOLEAN
    BY Fields
  <2>3. FALSE \in BOOLEAN
    OBVIOUS
  <2> QED  BY <2>1, <2>2, <2>3, RecFields, NoRecFields, Zenon
<1>5. f \in [IDs -> Record] /\ g \in [IDs -> Record]
  BY <1>3, <1>4
<1>6. IsSnapshot(src) /\ src.recs = f /\ src.editable = s[i].editable /\ SameRest(s[i], src)
  BY <1>2, <1>5, WithRecsFields
<1>7. IsSnapshot(clone) /\ clone.recs = g /\ clone.editable = TRUE /\ SameRest(s[i], clone)
  <2> DEFINE y == WithRecs(s[i], g)
  <2>1. IsSnapshot(y) /\ y.recs = g /\ SameRest(s[i], y)
    BY <1>2, <1>5, WithRecsFields
  <2> HIDE DEF y, g
  <2>2. /\ IsSnapshot(Editable(y)) /\ SameRest(y, Editable(y))
        /\ Editable(y).recs = y.recs /\ Editable(y).editable = TRUE
    BY <2>1, EditableFields
  <2>3. clone = Editable(y)
    BY DEF y
  <2> HIDE DEF clone
  <2> QED  BY <2>1, <2>2, <2>3 DEF SameRest
<1>8. n = [k \in 1..(Len(s) + 1) |-> IF k < i THEN s[k] ELSE IF k = i THEN src
                                     ELSE IF k = i + 1 THEN clone ELSE s[k - 1]]
  BY DEF InsertClone
<1> HIDE DEF src, clone, f, g
<1>9. n = [k \in 1..(Len(s) + 1) |-> n[k]] /\ \A k \in 1..(Len(s) + 1) : IsSnapshot(n[k])
  BY <1>1, <1>2, <1>6, <1>7, <1>8
<1>10. IsList(n) /\ Len(n) = Len(s) + 1 /\ DOMAIN n = 1..(Len(s) + 1)
  BY <1>1, <1>9, ListOf
<1>11. n[i] = src /\ n[i + 1] = clone
  BY <1>1, <1>8
<1>12. \A k \in 1..(i - 1) : n[k] = s[k]
  BY <1>1, <1>8
<1>13. \A k \in (i + 2)..(Len(s) + 1) : n[k] = s[k - 1]
  BY <1>1, <1>8
<1>14. SameView(s[i], n[i]) /\ SameRest(s[i], n[i + 1])
  BY <1>3, <1>6, <1>7, <1>11 DEF SameView
<1> QED  BY <1>3, <1>4, <1>6, <1>7, <1>10, <1>11, <1>12, <1>13, <1>14 DEF IsClone

\* Cloning a frozen snapshot keeps the list invariant.
LEMMA CloneInv ==
  ASSUME NEW s, IsList(s), ListInv(s), NEW i \in DOMAIN s, ~s[i].editable,
         NEW expired \in SUBSET IDs, NEW n, IsClone(s, i, expired, n)
  PROVE  ListInv(n)
<1> DEFINE old(k) == IF k <= i THEN k ELSE k - 1
<1>1. Len(s) \in Nat /\ DOMAIN s = 1..Len(s) /\ i \in 1..Len(s) /\ i \in Nat
  BY Fields
<1>2. IsClone(s, i, expired, n)
  OBVIOUS
<1>3. DOMAIN n = 1..(Len(s) + 1)
  BY <1>2 DEF IsClone
<1>4. \A k \in DOMAIN n : k \in Int /\ old(k) \in Int /\ old(k) \in DOMAIN s
  BY <1>1, <1>3
<1>5. ASSUME NEW a \in DOMAIN n, NEW b \in DOMAIN n, a < b
      PROVE  old(a) < old(b) \/ (a = i /\ b = i + 1)
  <2>1. a \in Int /\ b \in Int /\ i \in Int
    BY <1>1, <1>3
  <2>2. ~(a <= i /\ i < b) => old(b) - old(a) = b - a
    BY <2>1, <1>5
  <2>3. a <= i /\ i < b => old(b) - old(a) = b - a - 1
    BY <2>1, <1>5
  <2> HIDE DEF old
  <2> QED  BY <2>1, <2>2, <2>3, <1>4, <1>5
<1>6. ASSUME NEW k \in DOMAIN n, NEW id \in IDs
      PROVE  \/ n[k].recs[id].t = s[old(k)].recs[id].t
             \/ k = i + 1 /\ id \in expired /\ n[k].recs[id] = NoRec
  <2>1. CASE k < i
    BY <2>1, <1>1, <1>3, <1>2 DEF IsClone
  <2>2. CASE k = i
    BY <2>2, <1>1, <1>3, <1>2 DEF IsClone
  <2>3. CASE k = i + 1
    BY <2>3, <1>1, <1>3, <1>2 DEF IsClone
  <2>4. CASE k > i + 1
    BY <2>4, <1>1, <1>3, <1>2 DEF IsClone
  <2> QED  BY <2>1, <2>2, <2>3, <2>4, <1>1, <1>3
<1>7. ASSUME NEW k \in DOMAIN n, NEW id \in IDs
      PROVE  /\ n[k].recs[id].d => s[old(k)].recs[id].d
             /\ n[k].recs[id].c => s[old(k)].recs[id].c /\ k # i + 1
             /\ n[k].editable => s[old(k)].editable \/ k = i + 1
             /\ k # i /\ k # i + 1 => n[k] = s[old(k)]
  <2>1. CASE k < i
    BY <2>1, <1>1, <1>3, <1>2 DEF IsClone
  <2>2. CASE k = i
    <3>1. old(k) = i /\ k # i + 1
      BY <2>2, <1>1
    <3>2. /\ n[i].recs[id].d = (s[i].recs[id].d /\ id \in expired)
          /\ n[i].recs[id].c = s[i].recs[id].c /\ n[i].editable = s[i].editable
      BY <1>2 DEF IsClone
    <3> HIDE DEF old
    <3> QED  BY <2>2, <3>1, <3>2
  <2>3. CASE k = i + 1
    <3>1. old(k) = i /\ k # i
      <4>1. k = i + 1 /\ i \in Int
        BY <2>3, <1>1
      <4> QED  BY <4>1
    <3>2. /\ n[k].recs[id].d => s[i].recs[id].d
          /\ n[k].recs[id].c = FALSE
      BY <2>3, <1>2, NoRecFields DEF IsClone
    <3>3. k = i + 1
      BY <2>3
    <3> HIDE DEF old
    <3> QED  BY <3>1, <3>2, <3>3
  <2>4. CASE k > i + 1
    BY <2>4, <1>1, <1>3, <1>2 DEF IsClone
  <2> QED  BY <2>1, <2>2, <2>3, <2>4, <1>1, <1>3
<1>8. \A k \in DOMAIN n : \A id \in IDs : Has(n[k], id) =>
        /\ n[k].recs[id].t = s[old(k)].recs[id].t /\ Has(s[old(k)], id)
        /\ ~(k = i + 1 /\ id \in expired)
  BY <1>6, <1>2, NoRecFields DEF IsClone, Has
<1>9. OwnerIsNewest(n)
  <2> SUFFICES ASSUME NEW a \in DOMAIN n, NEW b \in DOMAIN n, NEW id \in IDs,
                      a < b, Same(n, a, b, id), n[a].recs[id].d
               PROVE  FALSE
    BY DEF OwnerIsNewest
  <2>1. Has(n[a], id) /\ Has(n[b], id) /\ n[b].recs[id].t = n[a].recs[id].t
    BY DEF Same, Has
  <2>2. Same(s, old(a), old(b), id) /\ s[old(a)].recs[id].d
    BY <2>1, <1>7, <1>8 DEF Same
  <2>3. a = i /\ b = i + 1
    BY <2>2, <1>5, <1>4 DEF ListInv, OwnerIsNewest
  <2>4. id \in expired
    BY <2>3, <1>2 DEF IsClone
  <2> QED  BY <2>1, <2>3, <2>4, <1>8
<1>10. HasOwner(n)
  <2> SUFFICES ASSUME NEW a \in DOMAIN n, NEW id \in IDs, Has(n[a], id)
               PROVE  \E k \in DOMAIN n : k >= a /\ Same(n, a, k, id) /\ n[k].recs[id].d
    BY DEF HasOwner
  <2>1. n[a].recs[id].t = s[old(a)].recs[id].t /\ Has(s[old(a)], id)
        /\ ~(a = i + 1 /\ id \in expired)
    BY <1>8
  <2>2. PICK k \in DOMAIN s : k >= old(a) /\ Same(s, old(a), k, id) /\ s[k].recs[id].d
    BY <2>1, <1>4 DEF ListInv, HasOwner
  <2>3. CASE k < i
    <3>1. k \in DOMAIN n /\ n[k] = s[k] /\ k >= a
      BY <2>2, <2>3, <1>1, <1>3, <1>2 DEF IsClone
    <3> QED  BY <2>1, <2>2, <3>1 DEF Same
  <2>4. CASE k = i /\ id \in expired
    <3>1. n[i].recs[id].t = s[i].recs[id].t /\ n[i].recs[id].d
      BY <2>2, <2>4, <1>2 DEF IsClone
    <3>2. i \in DOMAIN n /\ i >= a
      BY <2>1, <2>2, <2>4, <1>1, <1>3
    <3> QED  BY <2>1, <2>2, <2>4, <3>1, <3>2 DEF Same
  <2>5. CASE k = i /\ id \notin expired
    <3>1. /\ k + 1 \in DOMAIN n /\ n[k + 1].recs[id].t = s[k].recs[id].t
          /\ n[k + 1].recs[id].d /\ k + 1 >= a
      BY <2>2, <2>5, <1>1, <1>3, <1>2 DEF IsClone
    <3> QED  BY <2>1, <2>2, <3>1 DEF Same
  <2>6. CASE k > i
    <3>1. k + 1 \in DOMAIN n /\ n[k + 1] = s[k] /\ k + 1 >= a
      BY <2>2, <2>6, <1>1, <1>3, <1>2 DEF IsClone
    <3> QED  BY <2>1, <2>2, <3>1 DEF Same
  <2> QED  BY <2>3, <2>4, <2>5, <2>6, <1>1
<1>11. CreateIsOldest(n)
  <2> SUFFICES ASSUME NEW a \in DOMAIN n, NEW b \in DOMAIN n, NEW id \in IDs,
                      a < b, Same(n, a, b, id), n[b].recs[id].c
               PROVE  FALSE
    BY DEF CreateIsOldest
  <2>1. Has(n[a], id) /\ Has(n[b], id) /\ n[b].recs[id].t = n[a].recs[id].t
    BY DEF Same, Has
  <2>2. Same(s, old(a), old(b), id) /\ s[old(b)].recs[id].c /\ b # i + 1
    BY <2>1, <1>7, <1>8 DEF Same
  <2> QED  BY <2>2, <1>5, <1>4 DEF ListInv, CreateIsOldest
<1>12. OneId(n)
  <2> SUFFICES ASSUME NEW a \in DOMAIN n, NEW b \in DOMAIN n, NEW id \in IDs, NEW other \in IDs,
                      Has(n[a], id), n[b].recs[other].t = n[a].recs[id].t
               PROVE  other = id
    BY DEF OneId
  <2>1. Has(n[b], other)
    BY DEF Has
  <2>2. Has(s[old(a)], id) /\ s[old(b)].recs[other].t = s[old(a)].recs[id].t
    BY <2>1, <1>8
  <2> QED  BY <2>2, <1>4 DEF ListInv, OneId
<1>13. AddedIsOwned(n)
  <2> SUFFICES ASSUME NEW k \in DOMAIN n, NEW id \in IDs, n[k].editable, n[k].recs[id].c
               PROVE  Has(n[k], id) /\ n[k].recs[id].d
    BY DEF AddedIsOwned
  <2>1. k # i + 1 /\ k # i
    BY <1>7, Fields
  <2>2. n[k] = s[old(k)]
    BY <2>1, <1>7
  <2> QED  BY <2>2, <1>4 DEF ListInv, AddedIsOwned
<1>14. EmptyIsUnowned(n)
  <2> SUFFICES ASSUME NEW k \in DOMAIN n, NEW id \in IDs, n[k].recs[id].d
               PROVE  Has(n[k], id)
    BY DEF EmptyIsUnowned
  <2>1. Has(s[old(k)], id)
    BY <1>7, <1>4 DEF ListInv, EmptyIsUnowned
  <2> QED  BY <2>1, <1>6, NoRecFields DEF Has
<1> QED  BY <1>9, <1>10, <1>11, <1>12, <1>13, <1>14 DEF ListInv

\* A clone brings no template in and loses none.
LEMMA CloneRefs ==
  ASSUME NEW s, IsList(s), NEW i \in DOMAIN s, NEW expired \in SUBSET IDs,
         NEW n, IsClone(s, i, expired, n)
  PROVE  Refs(n) = Refs(s)
<1>1. Len(s) \in Nat /\ DOMAIN s = 1..Len(s) /\ i \in 1..Len(s) /\ i \in Nat
  BY Fields
<1>2. IsClone(s, i, expired, n)
  OBVIOUS
<1>3. DOMAIN n = 1..(Len(s) + 1)
  BY <1>2 DEF IsClone
<1>4. ASSUME NEW t \in Refs(n)
      PROVE  t \in Refs(s)
  <2>1. PICK k \in DOMAIN n, id \in IDs : Has(n[k], id) /\ n[k].recs[id].t = t
    BY RefsMember
  <2>2. CASE k < i
    <3>1. k \in DOMAIN s /\ n[k] = s[k]
      BY <2>2, <1>1, <1>3, <1>2 DEF IsClone
    <3> QED  BY <2>1, <3>1, RefsMember
  <2>3. CASE k = i
    BY <2>1, <2>3, <1>1, <1>3, <1>2, RefsMember DEF IsClone, Has
  <2>4. CASE k = i + 1
    <3>1. n[i + 1].recs[id].t = t /\ n[i + 1].recs[id].t # NoTmplt
      BY <2>1, <2>4 DEF Has
    <3>2. s[i].recs[id].t = t /\ Has(s[i], id)
      BY <3>1, <1>2, NoRecFields DEF IsClone, Has
    <3> QED  BY <3>2, RefsMember
  <2>5. CASE k > i + 1
    <3>1. k - 1 \in DOMAIN s /\ n[k] = s[k - 1]
      BY <2>5, <1>1, <1>3, <1>2 DEF IsClone
    <3> QED  BY <2>1, <3>1, RefsMember
  <2> QED  BY <2>2, <2>3, <2>4, <2>5, <1>1, <1>3
<1>5. ASSUME NEW t \in Refs(s)
      PROVE  t \in Refs(n)
  <2>1. PICK k \in DOMAIN s, id \in IDs : Has(s[k], id) /\ s[k].recs[id].t = t
    BY RefsMember
  <2>2. CASE k < i
    <3>1. k \in DOMAIN n /\ n[k] = s[k]
      BY <2>2, <1>1, <1>3, <1>2 DEF IsClone
    <3> QED  BY <2>1, <3>1, RefsMember
  <2>3. CASE k = i
    <3>1. i \in DOMAIN n /\ n[i].recs[id].t = s[i].recs[id].t
      BY <1>1, <1>3, <1>2 DEF IsClone
    <3> QED  BY <2>1, <2>3, <3>1, RefsMember DEF Has
  <2>4. CASE k > i
    <3>1. k + 1 \in DOMAIN n /\ n[k + 1] = s[k]
      BY <2>4, <1>1, <1>3, <1>2 DEF IsClone
    <3> QED  BY <2>1, <3>1, RefsMember
  <2> QED  BY <2>2, <2>3, <2>4, <1>1
<1> QED  BY <1>4, <1>5

-----------------------------------------------------------------------------
(* snapshot_rec_add(): a record for an ID without one. *)

IsSet(s, i, id, t, n) ==
  /\ IsList(n) /\ DOMAIN n = DOMAIN s /\ Len(n) = Len(s)
  /\ \A k \in DOMAIN s : n[k].editable = s[k].editable
  /\ \A k \in DOMAIN s : k # i => n[k] = s[k]
  /\ \A other \in IDs \ {id} : n[i].recs[other] = s[i].recs[other]
  /\ n[i].recs[id].t = t

\* Adding a record changes one ID of one snapshot.
LEMMA SetRecShape ==
  ASSUME NEW s, IsList(s), NEW i \in DOMAIN s, NEW id \in IDs,
         NEW t \in Addrs, NEW c \in BOOLEAN, NEW d \in BOOLEAN,
         NEW n, n = SetRec(s, i, id, t, c, d)
  PROVE  /\ IsSet(s, i, id, t, n) /\ SameRest(s[i], n[i]) /\ n[i].recs[id] = Rec(t, c, d)
<1> DEFINE r == Rec(t, c, d)
           x == WithRec(s[i], id, r)
<1>1. Len(s) \in Nat /\ DOMAIN s = 1..Len(s)
  BY Fields
<1>2. \A k \in DOMAIN s : IsSnapshot(s[k])
  BY Fields
<1>3. r \in Record /\ r.t = t /\ r.d = d
  BY RecFields
<1> HIDE DEF r
<1>4. /\ IsSnapshot(x) /\ x.editable = s[i].editable /\ x.recs[id] = r /\ SameRest(s[i], x)
      /\ \A other \in IDs \ {id} : x.recs[other] = s[i].recs[other]
  BY <1>2, <1>3, WithRecFields
<1>5. n = [k \in 1..Len(s) |-> IF k = i THEN x ELSE s[k]]
  BY DEF SetRec, r
<1> HIDE DEF x
<1>6. n = [k \in 1..Len(s) |-> n[k]] /\ \A k \in 1..Len(s) : IsSnapshot(n[k])
  BY <1>1, <1>2, <1>4, <1>5
<1>7. IsList(n) /\ Len(n) = Len(s) /\ DOMAIN n = DOMAIN s
  BY <1>1, <1>6, ListOf
<1>8. n[i] = x /\ \A k \in DOMAIN s : k # i => n[k] = s[k]
  BY <1>1, <1>5
<1> QED  BY <1>3, <1>4, <1>7, <1>8 DEF IsSet, r

\* Adding a template nobody refers to, owned where it is added, keeps the invariant.
LEMMA AddInv ==
  ASSUME NEW s, IsList(s), ListInv(s), NEW i \in DOMAIN s, NEW id \in IDs,
         ~Has(s[i], id), NEW t \in Addrs, t \notin Refs(s), NEW n,
         IsSet(s, i, id, t, n), n[i].recs[id].d
  PROVE  ListInv(n) /\ Refs(n) = Refs(s) \cup {t}
<1>1. IsSet(s, i, id, t, n)
  OBVIOUS
<1>2. DOMAIN n = DOMAIN s
  BY <1>1 DEF IsSet
<1>3. /\ n[i].recs[id].t = t /\ n[i].recs[id].d
      /\ \A k \in DOMAIN s : n[k].editable = s[k].editable
  BY <1>1 DEF IsSet
<1>4. \A k \in DOMAIN s : k \in Nat
  BY Fields
<1>5. Has(n[i], id) /\ t # NoTmplt
  BY <1>3, NoTmpltAssumption DEF Has
<1>6. ASSUME NEW k \in DOMAIN s, NEW x \in IDs, ~(k = i /\ x = id)
      PROVE  n[k].recs[x] = s[k].recs[x]
  BY <1>6, <1>1 DEF IsSet
<1>7. ASSUME NEW k \in DOMAIN s, NEW x \in IDs, n[k].recs[x].t = t
      PROVE  k = i /\ x = id
  <2> SUFFICES ASSUME ~(k = i /\ x = id)
               PROVE  FALSE
    OBVIOUS
  <2>1. s[k].recs[x].t = t
    BY <1>6, <1>7
  <2>2. Has(s[k], x)
    BY <2>1, <1>5 DEF Has
  <2> QED  BY <2>1, <2>2, InRefs
<1>8. OwnerIsNewest(n)
  <2> SUFFICES ASSUME NEW a \in DOMAIN n, NEW b \in DOMAIN n, NEW x \in IDs,
                      a < b, Same(n, a, b, x)
               PROVE  ~n[a].recs[x].d
    BY DEF OwnerIsNewest
  <2>1. a \in DOMAIN s /\ b \in DOMAIN s
    BY <1>2
  <2>2. n[a].recs[x].t = n[b].recs[x].t /\ a # b
    <3>1. a \in Nat /\ b \in Nat
      BY <2>1, <1>4
    <3>2. a # b
      BY <2>1, <3>1
    <3> QED  BY <2>1, <3>2 DEF Same
  <2>3. ~(a = i /\ x = id) /\ ~(b = i /\ x = id)
    BY <2>1, <2>2, <1>7, <1>3
  <2>4. n[a].recs[x] = s[a].recs[x] /\ n[b].recs[x] = s[b].recs[x]
    BY <2>1, <2>3, <1>6
  <2>5. Same(s, a, b, x)
    BY <2>1, <2>4 DEF Same, Has
  <2> QED  BY <2>1, <2>4, <2>5 DEF ListInv, OwnerIsNewest
<1>9. HasOwner(n)
  <2> SUFFICES ASSUME NEW a \in DOMAIN n, NEW x \in IDs, Has(n[a], x)
               PROVE  \E k \in DOMAIN n : k >= a /\ Same(n, a, k, x) /\ n[k].recs[x].d
    BY DEF HasOwner
  <2>1. a \in DOMAIN s
    BY <1>2
  <2>2. CASE a = i /\ x = id
    <3>1. n[i].recs[id].d
      BY <1>3
    <3>2. Same(n, i, i, id)
      BY <1>5 DEF Same
    <3>3. i \in Nat /\ i >= i
      BY <1>4
    <3> QED  BY <2>1, <2>2, <3>1, <3>2, <3>3
  <2>3. CASE ~(a = i /\ x = id)
    <3>1. n[a].recs[x] = s[a].recs[x] /\ Has(s[a], x)
      BY <2>1, <2>3, <1>6 DEF Has
    <3>2. PICK k \in DOMAIN s : k >= a /\ Same(s, a, k, x) /\ s[k].recs[x].d
      BY <2>1, <3>1 DEF ListInv, HasOwner
    <3>3. ~(k = i /\ x = id)
      BY <2>1, <3>2 DEF Same, Has
    <3>4. n[k].recs[x] = s[k].recs[x]
      BY <2>1, <3>3, <1>6
    <3> QED  BY <2>1, <3>1, <3>2, <3>4, <1>2 DEF Same, Has
  <2> QED  BY <2>1, <2>2, <2>3
<1>10. CreateIsOldest(n)
  <2> SUFFICES ASSUME NEW a \in DOMAIN n, NEW b \in DOMAIN n, NEW x \in IDs,
                      a < b, Same(n, a, b, x)
               PROVE  ~n[b].recs[x].c
    BY DEF CreateIsOldest
  <2>1. a \in DOMAIN s /\ b \in DOMAIN s
    BY <1>2
  <2>2. n[a].recs[x].t = n[b].recs[x].t /\ a # b
    <3>1. a \in Nat /\ b \in Nat
      BY <2>1, <1>4
    <3>2. a # b
      BY <2>1, <3>1
    <3> QED  BY <2>1, <3>2 DEF Same
  <2>3. ~(a = i /\ x = id) /\ ~(b = i /\ x = id)
    BY <2>1, <2>2, <1>7, <1>3
  <2>4. n[a].recs[x] = s[a].recs[x] /\ n[b].recs[x] = s[b].recs[x]
    BY <2>1, <2>3, <1>6
  <2>5. Same(s, a, b, x)
    BY <2>1, <2>4 DEF Same, Has
  <2> QED  BY <2>1, <2>4, <2>5 DEF ListInv, CreateIsOldest
<1>11. OneId(n)
  <2> SUFFICES ASSUME NEW a \in DOMAIN n, NEW b \in DOMAIN n, NEW x \in IDs, NEW other \in IDs,
                      Has(n[a], x), n[b].recs[other].t = n[a].recs[x].t
               PROVE  other = x
    BY DEF OneId
  <2>1. a \in DOMAIN s /\ b \in DOMAIN s
    BY <1>2
  <2>2. CASE a = i /\ x = id
    BY <2>1, <2>2, <1>7, <1>3
  <2>3. CASE b = i /\ other = id
    BY <2>1, <2>3, <1>7, <1>3
  <2>4. CASE ~(a = i /\ x = id) /\ ~(b = i /\ other = id)
    <3>1. n[a].recs[x] = s[a].recs[x] /\ n[b].recs[other] = s[b].recs[other]
      BY <2>1, <2>4, <1>6
    <3>2. Has(s[a], x)
      BY <2>1, <3>1 DEF Has
    <3> QED  BY <2>1, <3>1, <3>2 DEF ListInv, OneId
  <2> QED  BY <2>1, <2>2, <2>3, <2>4
<1>12. AddedIsOwned(n)
  <2> SUFFICES ASSUME NEW a \in DOMAIN n, NEW x \in IDs, n[a].editable, n[a].recs[x].c
               PROVE  Has(n[a], x) /\ n[a].recs[x].d
    BY DEF AddedIsOwned
  <2>1. a \in DOMAIN s
    BY <1>2
  <2>2. CASE a = i /\ x = id
    BY <2>1, <2>2, <1>5, <1>3
  <2>3. CASE ~(a = i /\ x = id)
    <3>1. n[a].recs[x] = s[a].recs[x] /\ s[a].editable
      BY <2>1, <2>3, <1>6, <1>3
    <3>2. Has(s[a], x) /\ s[a].recs[x].d
      BY <2>1, <3>1 DEF ListInv, AddedIsOwned
    <3> QED  BY <2>1, <3>1, <3>2 DEF Has
  <2> QED  BY <2>1, <2>2, <2>3
<1>13. EmptyIsUnowned(n)
  <2> SUFFICES ASSUME NEW a \in DOMAIN n, NEW x \in IDs, n[a].recs[x].d, ~(a = i /\ x = id)
               PROVE  Has(n[a], x)
    BY <1>5 DEF EmptyIsUnowned
  <2>1. a \in DOMAIN s
    BY <1>2
  <2>2. n[a].recs[x] = s[a].recs[x]
    BY <2>1, <1>6
  <2>3. Has(s[a], x)
    BY <2>1, <2>2 DEF ListInv, EmptyIsUnowned
  <2> QED  BY <2>1, <2>2, <2>3 DEF Has
<1>14. Refs(n) = Refs(s) \cup {t}
  <2>1. ASSUME NEW u \in Refs(n)
        PROVE  u \in Refs(s) \cup {t}
    <3>1. PICK k \in DOMAIN s, x \in IDs : Has(n[k], x) /\ n[k].recs[x].t = u
      <4>1. PICK k \in DOMAIN n, x \in IDs : Has(n[k], x) /\ n[k].recs[x].t = u
        BY RefsMember
    <4> QED  BY <4>1, <1>2
    <3>2. CASE k = i /\ x = id
      BY <3>1, <3>2, <1>3
    <3>3. CASE ~(k = i /\ x = id)
      <4>1. n[k].recs[x] = s[k].recs[x]
        BY <3>3, <1>6
      <4>2. Has(s[k], x)
        BY <3>1, <4>1 DEF Has
      <4> QED  BY <3>1, <4>1, <4>2, InRefs
    <3> QED  BY <3>2, <3>3
  <2>2. ASSUME NEW u \in Refs(s)
        PROVE  u \in Refs(n)
    <3>1. PICK k \in DOMAIN s, x \in IDs : Has(s[k], x) /\ s[k].recs[x].t = u
      BY RefsMember
    <3>2. n[k].recs[x] = s[k].recs[x]
      BY <3>1, <1>6
    <3>3. Has(n[k], x)
      BY <3>1, <3>2 DEF Has
    <3> QED  BY <3>1, <3>2, <3>3, <1>2, InRefs
  <2>3. t \in Refs(n)
    <3>1. n[i].recs[id].t \in Refs(n)
      BY <1>5, <1>2, InRefs
    <3> QED  BY <3>1, <1>3
  <2> QED  BY <2>1, <2>2, <2>3
<1> QED  BY <1>8, <1>9, <1>10, <1>11, <1>12, <1>13, <1>14 DEF ListInv

-----------------------------------------------------------------------------
(* Lists with references at the same places: mgr_snap_freeze() changes the *)
(* mode of a snapshot, fds_tmgr_set_iemgr() the templates.                 *)

\* The invariant depends on who shares with whom and on the flags, not on addresses.
LEMMA SameShapeInv ==
  ASSUME NEW s, ListInv(s), NEW n, DOMAIN n = DOMAIN s,
         \A k \in DOMAIN s : n[k].editable => s[k].editable,
         \A k \in DOMAIN s : \A x \in IDs :
           /\ Has(n[k], x) <=> Has(s[k], x)
           /\ n[k].recs[x].c = s[k].recs[x].c
           /\ n[k].recs[x].d = s[k].recs[x].d,
         \A k, l \in DOMAIN s : \A x, y \in IDs :
           Has(s[k], x) /\ n[l].recs[y].t = n[k].recs[x].t => s[l].recs[y].t = s[k].recs[x].t,
         \A k, l \in DOMAIN s : \A x \in IDs :
           Has(s[k], x) /\ s[l].recs[x].t = s[k].recs[x].t => n[l].recs[x].t = n[k].recs[x].t
  PROVE  ListInv(n)
<1>1. \A a, b \in DOMAIN s : \A x \in IDs : Same(n, a, b, x) <=> Same(s, a, b, x)
  BY DEF Same
<1>2. OwnerIsNewest(n)
  BY <1>1 DEF ListInv, OwnerIsNewest
<1>3. HasOwner(n)
  <2> SUFFICES ASSUME NEW a \in DOMAIN n, NEW x \in IDs, Has(n[a], x)
               PROVE  \E k \in DOMAIN n : k >= a /\ Same(n, a, k, x) /\ n[k].recs[x].d
    BY DEF HasOwner
  <2>1. PICK k \in DOMAIN s : k >= a /\ Same(s, a, k, x) /\ s[k].recs[x].d
    BY DEF ListInv, HasOwner
  <2> QED  BY <2>1, <1>1
<1>4. CreateIsOldest(n)
  BY <1>1 DEF ListInv, CreateIsOldest
<1>5. OneId(n)
  <2> SUFFICES ASSUME NEW a \in DOMAIN n, NEW b \in DOMAIN n, NEW x \in IDs, NEW other \in IDs,
                      Has(n[a], x), n[b].recs[other].t = n[a].recs[x].t
               PROVE  other = x
    BY DEF OneId
  <2>1. Has(s[a], x) /\ s[b].recs[other].t = s[a].recs[x].t
    OBVIOUS
  <2> QED  BY <2>1 DEF ListInv, OneId
<1>6. AddedIsOwned(n)
  BY DEF ListInv, AddedIsOwned
<1>7. EmptyIsUnowned(n)
  BY DEF ListInv, EmptyIsUnowned
<1> QED  BY <1>2, <1>3, <1>4, <1>5, <1>6, <1>7 DEF ListInv

IsFreeze(s, n) ==
  /\ IsList(n) /\ DOMAIN n = DOMAIN s
  /\ \A k \in DOMAIN s : n[k].recs = s[k].recs /\ (n[k].editable => s[k].editable)

\* Freezing clears one flag of one snapshot.
LEMMA FreezeShape ==
  ASSUME NEW s, IsList(s), NEW i \in DOMAIN s,
         NEW n, n = [s EXCEPT ![i].editable = FALSE]
  PROVE  /\ IsFreeze(s, n) /\ ~n[i].editable
         /\ \A k \in DOMAIN s : SameView(s[k], n[k]) /\ (k # i => n[k] = s[k])
<1>1. Len(s) \in Nat /\ DOMAIN s = 1..Len(s) /\ \A k \in DOMAIN s : IsSnapshot(s[k])
  BY Fields
<1>2. DOMAIN n = DOMAIN s
  OBVIOUS
<1>3. \A k \in DOMAIN s : /\ IsSnapshot(n[k]) /\ n[k].recs = s[k].recs
                          /\ n[k].editable => s[k].editable
  BY <1>1 DEF IsSnapshot
<1>4. IsList(n)
  <2> DEFINE S == {n[k] : k \in DOMAIN s}
  <2>1. n \in [1..Len(s) -> S]
    BY <1>1
  <2> HIDE DEF S
  <2>2. n \in Seq(S)
    BY <1>1, <2>1, SeqOf
  <2> QED  BY <1>2, <1>3, <2>2, SeqList
<1>5. ~n[i].editable /\ \A k \in DOMAIN s : k # i => n[k] = s[k]
  BY <1>1 DEF IsSnapshot
<1>6. \A k \in DOMAIN s : SameView(s[k], n[k])
  <2>1. n[i] = [s[i] EXCEPT !.editable = FALSE]
    OBVIOUS
  <2>2. SameRest(s[i], n[i])
    BY <2>1 DEF SameRest
  <2>3. \A k \in DOMAIN s : SameRest(s[k], s[k])
    BY DEF SameRest
  <2> QED  BY <1>3, <1>5, <2>2, <2>3 DEF SameView
<1> QED  BY <1>2, <1>3, <1>4, <1>5, <1>6 DEF IsFreeze

\* Freezing a snapshot keeps the list invariant.
LEMMA FreezeInv ==
  ASSUME NEW s, IsList(s), ListInv(s), NEW n, IsFreeze(s, n)
  PROVE  ListInv(n) /\ Refs(n) = Refs(s)
<1>1. \A k \in DOMAIN s : \A x \in IDs :
        (Has(n[k], x) <=> Has(s[k], x)) /\ n[k].recs[x] = s[k].recs[x]
  BY DEF IsFreeze, Has
<1>2. ListInv(n)
  BY <1>1, SameShapeInv DEF IsFreeze
<1>3. \A t : t \in Refs(n) <=> t \in Refs(s)
  BY <1>1, RefsMember DEF IsFreeze
<1> QED  BY <1>2, <1>3

-----------------------------------------------------------------------------
(* fds_tmgr_set_iemgr(): the references are replaced by copies.            *)

\* The walk from the owner of a template reaches every reference.
LEMMA AllReplaced ==
  ASSUME NEW s, IsList(s), ListInv(s), NEW i \in DOMAIN s, NEW id \in IDs,
         Has(s[i], id)
  PROVE  Replaced(s, i, id)
<1>1. Len(s) \in Nat /\ DOMAIN s = 1..Len(s) /\ i \in Nat
  BY Fields
<1>2. PICK k \in DOMAIN s : k >= i /\ Same(s, i, k, id) /\ s[k].recs[id].d
  BY DEF ListInv, HasOwner
<1>3. k \in i..Len(s)
  BY <1>1, <1>2
<1>4. ASSUME NEW l \in (i + 1)..(k - 1), s[l].recs[id].t = s[k].recs[id].t
      PROVE  ~s[l].recs[id].c
  <2>1. l \in DOMAIN s /\ i < l
    BY <1>1, <1>2
  <2>2. Same(s, i, l, id)
    BY <1>2, <1>4 DEF Same
  <2> QED  BY <2>1, <2>2 DEF ListInv, CreateIsOldest
<1>5. s[k].recs[id].t = s[i].recs[id].t
  BY <1>2 DEF Same
<1> QED  BY <1>2, <1>3, <1>4, <1>5 DEF Replaced

IsReplace(s, copy, n) ==
  /\ IsList(n) /\ DOMAIN n = DOMAIN s
  /\ \A k \in DOMAIN s : n[k].editable = s[k].editable
  /\ \A k \in DOMAIN s : \A x \in IDs :
       /\ Has(s[k], x) => n[k].recs[x].t = copy[s[k].recs[x].t] /\ n[k].recs[x].t \in Addrs
       /\ ~Has(s[k], x) => n[k].recs[x].t = NoTmplt
       /\ n[k].recs[x].c = s[k].recs[x].c /\ n[k].recs[x].d = s[k].recs[x].d

\* fds_tmgr_set_iemgr() replaces each reference by the copy of its template.
LEMMA ReplaceShape ==
  ASSUME NEW s, IsList(s), ListInv(s), NEW copy \in [Refs(s) -> Addrs],
         NEW n, n = ReplaceRefs(s, copy)
  PROVE  IsReplace(s, copy, n) /\ \A k \in DOMAIN s : SameRest(s[k], n[k])
<1>1. Len(s) \in Nat /\ DOMAIN s = 1..Len(s) /\ \A k \in DOMAIN s : IsSnapshot(s[k])
  BY Fields
<1> DEFINE rec(k, x) == IF Has(s[k], x)
                        THEN Rec(copy[s[k].recs[x].t], s[k].recs[x].c, s[k].recs[x].d)
                        ELSE s[k].recs[x]
           recs(k) == [x \in IDs |-> rec(k, x)]
<1>2. ASSUME NEW k \in DOMAIN s, NEW x \in IDs
      PROVE  /\ rec(k, x) \in Record
             /\ Has(s[k], x) => rec(k, x).t = copy[s[k].recs[x].t] /\ rec(k, x).t \in Addrs
             /\ ~Has(s[k], x) => rec(k, x).t = NoTmplt
             /\ rec(k, x).c = s[k].recs[x].c /\ rec(k, x).d = s[k].recs[x].d
  <2>1. CASE Has(s[k], x)
    <3>1. copy[s[k].recs[x].t] \in Addrs
      BY <2>1, InRefs
    <3>2. s[k].recs[x].c \in BOOLEAN /\ s[k].recs[x].d \in BOOLEAN
      BY Fields
    <3>3. rec(k, x) = Rec(copy[s[k].recs[x].t], s[k].recs[x].c, s[k].recs[x].d)
      BY <2>1
    <3> HIDE DEF rec
    <3> QED  BY <2>1, <3>1, <3>2, <3>3, RecFields
  <2>2. CASE ~Has(s[k], x)
    <3>1. s[k].recs[x] \in Record /\ s[k].recs[x].t = NoTmplt
      BY <2>2, Fields DEF Has
    <3>2. rec(k, x) = s[k].recs[x]
      BY <2>2
    <3> HIDE DEF rec
    <3> QED  BY <2>2, <3>1, <3>2
  <2> QED  BY <2>1, <2>2
<1>3. ASSUME NEW k \in DOMAIN s
      PROVE  /\ IsSnapshot(WithRecs(s[k], recs(k)))
             /\ WithRecs(s[k], recs(k)).recs = recs(k)
             /\ WithRecs(s[k], recs(k)).editable = s[k].editable
             /\ SameRest(s[k], WithRecs(s[k], recs(k)))
  <2>1. recs(k) \in [IDs -> Record]
    <3> HIDE DEF rec
    <3> QED  BY <1>2
  <2> HIDE DEF recs
  <2> QED  BY <1>1, <2>1, WithRecsFields
<1>4. n = [k \in 1..Len(s) |-> WithRecs(s[k], recs(k))]
  <2>1. ASSUME NEW k \in 1..Len(s)
        PROVE  [x \in IDs |-> LET r == s[k].recs[x]
                              IN  IF Has(s[k], x) /\ Replaced(s, k, x)
                                  THEN Rec(copy[r.t], r.c, r.d) ELSE r] = recs(k)
    BY <1>1, AllReplaced
  <2> HIDE DEF recs
  <2> QED  BY <2>1 DEF ReplaceRefs
<1>5. IsList(n) /\ DOMAIN n = DOMAIN s
  <2> HIDE DEF recs
  <2>1. n = [k \in 1..Len(s) |-> n[k]] /\ \A k \in 1..Len(s) : IsSnapshot(n[k])
    BY <1>1, <1>3, <1>4
  <2> QED  BY <1>1, <2>1, ListOf
<1>6. \A k \in DOMAIN s : /\ n[k].editable = s[k].editable /\ n[k].recs = recs(k)
                          /\ SameRest(s[k], n[k])
  <2> HIDE DEF recs
  <2> QED  BY <1>1, <1>3, <1>4
<1>7. \A k \in DOMAIN s : \A x \in IDs :
        /\ Has(s[k], x) => n[k].recs[x].t = copy[s[k].recs[x].t] /\ n[k].recs[x].t \in Addrs
        /\ ~Has(s[k], x) => n[k].recs[x].t = NoTmplt
        /\ n[k].recs[x].c = s[k].recs[x].c /\ n[k].recs[x].d = s[k].recs[x].d
  <2>1. \A k \in DOMAIN s : \A x \in IDs : n[k].recs[x] = rec(k, x)
    <3> HIDE DEF rec
    <3> QED  BY <1>6
  <2> HIDE DEF rec
  <2> QED  BY <2>1, <1>2
<1> QED  BY <1>5, <1>6, <1>7 DEF IsReplace

\* Replacing templates by distinct copies keeps the list invariant.
LEMMA ReplaceInv ==
  ASSUME NEW s, IsList(s), ListInv(s), NEW copy \in [Refs(s) -> Addrs],
         \A t, u \in Refs(s) : copy[t] = copy[u] => t = u,
         NEW n, IsReplace(s, copy, n)
  PROVE  ListInv(n) /\ Refs(n) = {copy[t] : t \in Refs(s)}
<1>1. IsList(n) /\ DOMAIN n = DOMAIN s
  BY DEF IsReplace
<1>2. \A k \in DOMAIN s : n[k].editable = s[k].editable
  BY DEF IsReplace
<1>3. \A k \in DOMAIN s : \A x \in IDs :
        /\ Has(s[k], x) => n[k].recs[x].t = copy[s[k].recs[x].t] /\ n[k].recs[x].t \in Addrs
        /\ ~Has(s[k], x) => n[k].recs[x].t = NoTmplt
        /\ n[k].recs[x].c = s[k].recs[x].c /\ n[k].recs[x].d = s[k].recs[x].d
  BY DEF IsReplace
<1>4. \A k \in DOMAIN s : \A x \in IDs : Has(n[k], x) <=> Has(s[k], x)
  BY <1>3, NoTmpltAssumption DEF Has
<1>5. ASSUME NEW k \in DOMAIN s, NEW l \in DOMAIN s, NEW x \in IDs, NEW y \in IDs,
             Has(s[k], x), n[l].recs[y].t = n[k].recs[x].t
      PROVE  s[l].recs[y].t = s[k].recs[x].t
  <2>1. Has(n[k], x) /\ Has(n[l], y)
    BY <1>4, <1>5 DEF Has
  <2>2. Has(s[l], y)
    BY <2>1, <1>4
  <2>3. copy[s[l].recs[y].t] = copy[s[k].recs[x].t]
    BY <2>2, <1>3, <1>5
  <2>4. s[l].recs[y].t \in Refs(s) /\ s[k].recs[x].t \in Refs(s)
    BY <2>2, <1>5, InRefs
  <2> QED  BY <2>3, <2>4
<1>6. ASSUME NEW k \in DOMAIN s, NEW l \in DOMAIN s, NEW x \in IDs,
             Has(s[k], x), s[l].recs[x].t = s[k].recs[x].t
      PROVE  n[l].recs[x].t = n[k].recs[x].t
  <2>1. Has(s[l], x)
    BY <1>6 DEF Has
  <2> QED  BY <2>1, <1>3, <1>6
<1>7. ListInv(n)
  BY <1>1, <1>2, <1>3, <1>4, <1>5, <1>6, SameShapeInv
<1>8. ASSUME NEW u
       PROVE  u \in Refs(n) <=> u \in {copy[t] : t \in Refs(s)}
  <2>1. ASSUME u \in Refs(n)
        PROVE  u \in {copy[t] : t \in Refs(s)}
    <3>1. PICK k \in DOMAIN s, x \in IDs : Has(n[k], x) /\ n[k].recs[x].t = u
      BY <2>1, <1>1, RefsMember
    <3>2. Has(s[k], x) /\ u = copy[s[k].recs[x].t] /\ s[k].recs[x].t \in Refs(s)
      BY <3>1, <1>3, <1>4, InRefs
    <3> QED  BY <3>2
  <2>2. ASSUME NEW t \in Refs(s), u = copy[t]
        PROVE  u \in Refs(n)
    <3>1. PICK k \in DOMAIN s, x \in IDs : Has(s[k], x) /\ s[k].recs[x].t = t
      BY RefsMember
    <3>2. Has(n[k], x) /\ n[k].recs[x].t = u
      BY <3>1, <2>2, <1>3, <1>4
    <3> QED  BY <3>2, <1>1, RefsMember
  <2> QED  BY <2>1, <2>2
<1> QED  BY <1>7, <1>8

-----------------------------------------------------------------------------
(* Lists that lose snapshots or references: o[k] is the place snapshot k   *)
(* of the new list had in the old one.                                     *)

IsSubList(s, n, o) ==
  /\ \A k \in DOMAIN n : o[k] \in Nat /\ k \in Nat
  /\ \A k \in DOMAIN s : k \in Nat
  /\ \A a, b \in DOMAIN n : a < b => o[a] < o[b]
  /\ \A k \in DOMAIN n : \A x \in IDs :
       /\ Has(n[k], x) => /\ o[k] \in DOMAIN s
                          /\ n[k].recs[x].t = s[o[k]].recs[x].t
                          /\ n[k].recs[x].c => s[o[k]].recs[x].c
       /\ n[k].recs[x].d => Has(n[k], x)

\* What does not depend on the Delete flags is inherited.
LEMMA SubListInv ==
  ASSUME NEW s, ListInv(s), NEW n, NEW o, IsSubList(s, n, o)
  PROVE  /\ CreateIsOldest(n) /\ OneId(n) /\ EmptyIsUnowned(n)
         /\ Refs(n) \subseteq Refs(s)
         /\ \A a, b \in DOMAIN n : \A x \in IDs :
              Same(n, a, b, x) => Same(s, o[a], o[b], x) /\ Has(n[b], x)
<1>1. \A k \in DOMAIN n : \A x \in IDs :
        /\ Has(n[k], x) => /\ o[k] \in DOMAIN s /\ Has(s[o[k]], x)
                           /\ n[k].recs[x].t = s[o[k]].recs[x].t
                           /\ n[k].recs[x].c => s[o[k]].recs[x].c
        /\ n[k].recs[x].d => Has(n[k], x)
  BY DEF IsSubList, Has
<1>2. ASSUME NEW a \in DOMAIN n, NEW b \in DOMAIN n, NEW x \in IDs, Same(n, a, b, x)
      PROVE  Same(s, o[a], o[b], x) /\ Has(n[b], x)
  <2>1. Has(n[a], x) /\ Has(n[b], x) /\ n[b].recs[x].t = n[a].recs[x].t
    BY <1>2 DEF Same, Has
  <2> QED  BY <2>1, <1>1 DEF Same
<1>3. CreateIsOldest(n)
  <2> SUFFICES ASSUME NEW a \in DOMAIN n, NEW b \in DOMAIN n, NEW x \in IDs,
                      a < b, Same(n, a, b, x), n[b].recs[x].c
               PROVE  FALSE
    BY DEF CreateIsOldest
  <2>1. Has(n[a], x) /\ Has(n[b], x) /\ Same(s, o[a], o[b], x)
    BY <1>2 DEF Same
  <2>2. o[a] \in DOMAIN s /\ o[b] \in DOMAIN s /\ s[o[b]].recs[x].c
    BY <2>1, <1>1
  <2>3. o[a] < o[b]
    BY DEF IsSubList
  <2> QED  BY <2>1, <2>2, <2>3 DEF ListInv, CreateIsOldest
<1>4. OneId(n)
  <2> SUFFICES ASSUME NEW a \in DOMAIN n, NEW b \in DOMAIN n, NEW x \in IDs, NEW other \in IDs,
                      Has(n[a], x), n[b].recs[other].t = n[a].recs[x].t
               PROVE  other = x
    BY DEF OneId
  <2>1. Has(n[b], other)
    BY DEF Has
  <2>2. /\ o[a] \in DOMAIN s /\ o[b] \in DOMAIN s /\ Has(s[o[a]], x)
        /\ s[o[b]].recs[other].t = s[o[a]].recs[x].t
    BY <2>1, <1>1
  <2> QED  BY <2>2 DEF ListInv, OneId
<1>5. EmptyIsUnowned(n)
  BY <1>1 DEF EmptyIsUnowned
<1>6. ASSUME NEW t \in Refs(n)
      PROVE  t \in Refs(s)
  <2>1. PICK k \in DOMAIN n, x \in IDs : Has(n[k], x) /\ n[k].recs[x].t = t
    BY RefsMember
  <2>2. o[k] \in DOMAIN s /\ Has(s[o[k]], x) /\ s[o[k]].recs[x].t = t
    BY <2>1, <1>1
  <2> QED  BY <2>2, RefsMember
<1> QED  BY <1>2, <1>3, <1>4, <1>5, <1>6

(* mgr_snap_create() *)

IsCreate(s, n) ==
  /\ IsList(n) /\ DOMAIN n = 1..(Len(s) + 1)
  /\ \A x \in IDs : n[1].recs[x] = NoRec
  /\ \A k \in 2..(Len(s) + 1) : n[k] = s[k - 1]

\* An empty snapshot put in front moves the others up by one.
LEMMA CreateShape ==
  ASSUME NEW s, IsList(s), NEW e, IsSnapshot(e), \A x \in IDs : e.recs[x] = NoRec,
         NEW n, n = <<e>> \o s
  PROVE  IsCreate(s, n) /\ n[1] = e
<1> DEFINE S == {s[k] : k \in DOMAIN s} \cup {e}
           first == <<e>>
<1>1. first \in Seq(S) /\ Len(first) = 1 /\ first[1] = e
  OBVIOUS
<1>2. Len(s) \in Nat /\ DOMAIN s = 1..Len(s)
  BY Fields, LenProperties DEF IsList
<1>3. s \in Seq(S)
  BY SeqSub DEF IsList
<1> HIDE DEF first, S
<1>4. /\ n \in Seq(S) /\ Len(n) = 1 + Len(s)
      /\ \A k \in 1..(1 + Len(s)) : n[k] = IF k <= 1 THEN first[k] ELSE s[k - 1]
  <2>1. n = first \o s
    BY DEF first
  <2> QED  BY <1>1, <1>3, <2>1, ConcatProperties
<1>5. DOMAIN n = 1..(Len(s) + 1)
  BY <1>2, <1>4, LenProperties
<1>6. n[1] = e /\ \A k \in 2..(Len(s) + 1) : n[k] = s[k - 1]
  BY <1>1, <1>2, <1>4
<1>7. IsList(n)
  <2>1. \A k \in DOMAIN n : IsSnapshot(n[k])
    <3>1. ASSUME NEW k \in DOMAIN n, k # 1
          PROVE  IsSnapshot(n[k])
      <4>1. n[k] = s[k - 1] /\ k - 1 \in DOMAIN s
        BY <3>1, <1>2, <1>5, <1>6
      <4> QED  BY <4>1 DEF IsList
    <3> QED  BY <3>1, <1>6
  <2> QED  BY <2>1, <1>4, SeqList
<1> QED  BY <1>5, <1>6, <1>7 DEF IsCreate

\* An empty snapshot in front keeps the list invariant.
LEMMA CreateInv ==
  ASSUME NEW s, IsList(s), ListInv(s), NEW n, IsCreate(s, n)
  PROVE  ListInv(n) /\ Refs(n) = Refs(s)
<1> DEFINE o == [k \in DOMAIN n |-> k - 1]
<1>1. Len(s) \in Nat /\ DOMAIN s = 1..Len(s) /\ DOMAIN n = 1..(Len(s) + 1)
  BY LenProperties DEF IsCreate
<1>2. \A x \in IDs : ~Has(n[1], x) /\ ~n[1].recs[x].c /\ ~n[1].recs[x].d
  BY NoRecFields DEF IsCreate, Has
<1>3. \A k \in DOMAIN n : k # 1 => o[k] \in DOMAIN s /\ n[k] = s[o[k]]
  BY <1>1 DEF IsCreate
<1>4. /\ \A k \in DOMAIN n : o[k] \in Nat /\ k \in Nat /\ o[k] = k - 1
      /\ \A k \in DOMAIN s : k \in Nat /\ k + 1 \in DOMAIN n /\ o[k + 1] = k /\ k + 1 # 1
  BY <1>1
<1>5. \A a, b \in DOMAIN n : a < b <=> o[a] < o[b]
  BY <1>4
<1> HIDE DEF o
<1>6. \A k \in DOMAIN n : \A x \in IDs :
        Has(n[k], x) \/ n[k].recs[x].c \/ n[k].recs[x].d =>
          o[k] \in DOMAIN s /\ n[k] = s[o[k]]
  BY <1>2, <1>3
<1>7. \A k \in DOMAIN n : \A x \in IDs : n[k].recs[x].d => Has(n[k], x)
  BY <1>6 DEF ListInv, EmptyIsUnowned
<1>8. IsSubList(s, n, o)
  BY <1>4, <1>5, <1>6, <1>7 DEF IsSubList
<1>9. /\ CreateIsOldest(n) /\ OneId(n) /\ EmptyIsUnowned(n)
      /\ Refs(n) \subseteq Refs(s)
      /\ \A a, b \in DOMAIN n : \A x \in IDs :
           Same(n, a, b, x) => Same(s, o[a], o[b], x) /\ Has(n[b], x)
  BY <1>8, SubListInv
<1>10. OwnerIsNewest(n)
  <2> SUFFICES ASSUME NEW a \in DOMAIN n, NEW b \in DOMAIN n, NEW x \in IDs,
                      a < b, Same(n, a, b, x), n[a].recs[x].d
               PROVE  FALSE
    BY DEF OwnerIsNewest
  <2>1. Has(n[a], x) /\ Has(n[b], x) /\ Same(s, o[a], o[b], x)
    BY <1>9 DEF Same
  <2>2. o[a] \in DOMAIN s /\ o[b] \in DOMAIN s /\ s[o[a]].recs[x].d /\ o[a] < o[b]
    BY <2>1, <1>5, <1>6
  <2> QED  BY <2>1, <2>2 DEF ListInv, OwnerIsNewest
<1>11. HasOwner(n)
  <2> SUFFICES ASSUME NEW a \in DOMAIN n, NEW x \in IDs, Has(n[a], x)
               PROVE  \E k \in DOMAIN n : k >= a /\ Same(n, a, k, x) /\ n[k].recs[x].d
    BY DEF HasOwner
  <2>1. o[a] \in DOMAIN s /\ n[a] = s[o[a]]
    BY <1>6
  <2>2. PICK k \in DOMAIN s : k >= o[a] /\ Same(s, o[a], k, x) /\ s[k].recs[x].d
    BY <2>1 DEF ListInv, HasOwner
  <2>3. k + 1 \in DOMAIN n /\ n[k + 1] = s[k]
    BY <1>3, <1>4
  <2>4. k + 1 >= a
    BY <2>2, <1>4
  <2> QED  BY <2>1, <2>2, <2>3, <2>4 DEF Same
<1>12. AddedIsOwned(n)
  BY <1>6 DEF ListInv, AddedIsOwned
<1>13. ASSUME NEW t \in Refs(s)
       PROVE  t \in Refs(n)
  <2>1. PICK k \in DOMAIN s, x \in IDs : Has(s[k], x) /\ s[k].recs[x].t = t
    BY RefsMember
  <2>2. k + 1 \in DOMAIN n /\ n[k + 1] = s[k]
    BY <1>3, <1>4
  <2> QED  BY <2>1, <2>2, RefsMember
<1> QED  BY <1>9, <1>10, <1>11, <1>12, <1>13 DEF ListInv

(* mgr_cleanup() without history; only the newest snapshot stays. *)

\* Of a list cut down to its newest snapshot, the older part owned what is lost.
LEMMA KeepNewestInv ==
  ASSUME NEW s, IsList(s), ListInv(s), s # <<>>,
         NEW n, IsList(n), DOMAIN n = {1}, n[1] = s[Len(s)],
         NEW older, DOMAIN older = 1..(Len(s) - 1),
         \A k \in 1..(Len(s) - 1) : older[k] = s[k]
  PROVE  /\ ListInv(n) /\ Refs(s) = Refs(n) \cup Owned(older)
         /\ Refs(n) \cap Owned(older) = {} /\ Refs(older) \subseteq Refs(s)
<1> DEFINE o == [k \in {1} |-> Len(s)]
<1>1. Len(s) \in Nat \ {0} /\ DOMAIN s = 1..Len(s) /\ Len(s) \in DOMAIN s
  BY LenProperties, EmptySeq
<1>2. o[1] = Len(s) /\ 1 \in DOMAIN n
  OBVIOUS
<1> HIDE DEF o
<1>3. IsSubList(s, n, o)
  BY <1>1, <1>2 DEF IsSubList, ListInv, EmptyIsUnowned
<1>4. CreateIsOldest(n) /\ OneId(n) /\ EmptyIsUnowned(n) /\ Refs(n) \subseteq Refs(s)
  BY <1>3, SubListInv
<1>5. OwnerIsNewest(n)
  BY DEF OwnerIsNewest
<1>6. \A x \in IDs : Has(s[Len(s)], x) => s[Len(s)].recs[x].d
  <2> SUFFICES ASSUME NEW x \in IDs, Has(s[Len(s)], x)
               PROVE  s[Len(s)].recs[x].d
    OBVIOUS
  <2>1. PICK k \in DOMAIN s : k >= Len(s) /\ Same(s, Len(s), k, x) /\ s[k].recs[x].d
    BY <1>1 DEF ListInv, HasOwner
  <2>2. k = Len(s)
    BY <2>1, <1>1
  <2> QED  BY <2>1, <2>2
<1>7. HasOwner(n)
  BY <1>2, <1>6 DEF HasOwner, Same
<1>8. AddedIsOwned(n)
  BY <1>1 DEF ListInv, AddedIsOwned, Has
<1>9. ASSUME NEW t \in Refs(s)
      PROVE  t \in Refs(n) \cup Owned(older)
  <2>1. t \in Owned(s)
    BY OwnedIsRefs DEF ListInv
  <2>2. PICK k \in DOMAIN s, x \in IDs : Has(s[k], x) /\ s[k].recs[x].d /\ s[k].recs[x].t = t
    BY <2>1, OwnedMember
  <2>3. CASE k = Len(s)
    BY <2>2, <2>3, <1>2, RefsMember
  <2>4. CASE k # Len(s)
    <3>1. k \in DOMAIN older /\ older[k] = s[k]
      BY <2>4, <1>1
    <3> QED  BY <2>2, <3>1, OwnedMember
  <2> QED  BY <2>3, <2>4
<1>10. ASSUME NEW t \in Refs(n)
      PROVE  t \notin Owned(older)
  <2>1. PICK x \in IDs : Has(s[Len(s)], x) /\ s[Len(s)].recs[x].t = t
    BY RefsMember
  <2> SUFFICES ASSUME NEW k \in DOMAIN older, NEW y \in IDs,
                      Has(older[k], y), older[k].recs[y].d, older[k].recs[y].t = t
               PROVE  FALSE
    BY OwnedMember
  <2>2. k \in DOMAIN s /\ k < Len(s) /\ older[k] = s[k]
    BY <1>1
  <2>3. x = y
    BY <2>1, <2>2, <1>1 DEF ListInv, OneId
  <2>4. Same(s, k, Len(s), y)
    BY <2>1, <2>2, <2>3 DEF Same
  <2> QED  BY <2>2, <2>4, <1>1 DEF ListInv, OwnerIsNewest
<1>11. ASSUME NEW t \in Owned(older) \cup Refs(older)
       PROVE  t \in Refs(s)
  <2>1. t \in Refs(older)
    BY OwnedMember, RefsMember
  <2>2. PICK k \in DOMAIN older, x \in IDs : Has(older[k], x) /\ older[k].recs[x].t = t
    BY <2>1, RefsMember
  <2>3. k \in DOMAIN s /\ older[k] = s[k]
    BY <1>1
  <2> QED  BY <2>2, <2>3, RefsMember
<1> QED  BY <1>4, <1>5, <1>7, <1>8, <1>9, <1>10, <1>11 DEF ListInv

(* mgr_snap_template_remove() and mgr_snap_remove(): snapshot i loses its   *)
(* records of the IDs in "gone".                                            *)

\* The search for an older reference finds the newest one but the owner's.
LEMMA TargetFacts ==
  ASSUME NEW s, IsList(s), ListInv(s), NEW i \in DOMAIN s, NEW id \in IDs,
         s[i].recs[id].d, NEW j, IsMoveTarget(s, i, id, j)
  PROVE  /\ j # 0 => /\ j \in DOMAIN s /\ j < i
                     /\ s[j].recs[id].t = s[i].recs[id].t
         /\ \A k \in DOMAIN s : s[k].recs[id].t = s[i].recs[id].t /\ k # i => j # 0 /\ k <= j
<1>1. Len(s) \in Nat /\ DOMAIN s = 1..Len(s) /\ i \in Nat
  BY Fields
<1>2. Has(s[i], id)
  BY DEF ListInv, EmptyIsUnowned
<1>3. ASSUME NEW k \in DOMAIN s, s[k].recs[id].t = s[i].recs[id].t, k # i
      PROVE  k \in OlderRefs(s, i, id) /\ ~s[i].recs[id].c
  <2>1. Same(s, i, k, id) /\ Same(s, k, i, id)
    BY <1>2, <1>3 DEF Same, Has
  <2>2. k \in Nat
    BY <1>1
  <2>3. ~(i < k)
    BY <2>1 DEF ListInv, OwnerIsNewest
  <2>4. k < i
    BY <2>2, <2>3, <1>1, <1>3
  <2>5. ~s[i].recs[id].c
    BY <2>1, <2>4 DEF ListInv, CreateIsOldest
  <2>6. k \in 1..(i - 1)
    BY <2>4, <1>1
  <2> QED  BY <2>5, <2>6, <1>3 DEF OlderRefs
<1>4. ASSUME j # 0
      PROVE  j \in DOMAIN s /\ j < i /\ s[j].recs[id].t = s[i].recs[id].t
  <2>1. j \in OlderRefs(s, i, id)
    BY <1>4 DEF IsMoveTarget
  <2>2. j \in 1..(i - 1) /\ s[j].recs[id].t = s[i].recs[id].t
    BY <2>1 DEF OlderRefs
  <2> QED  BY <2>2, <1>1
<1>5. ASSUME NEW k \in DOMAIN s, s[k].recs[id].t = s[i].recs[id].t, k # i
      PROVE  j # 0 /\ k <= j
  <2>1. k \in OlderRefs(s, i, id) /\ ~s[i].recs[id].c
    BY <1>3, <1>5
  <2>2. j \in OlderRefs(s, i, id) /\ k <= j
    BY <2>1 DEF IsMoveTarget
  <2>3. j \in 1..(i - 1)
    BY <2>2 DEF OlderRefs
  <2> QED  BY <2>2, <2>3, <1>1
<1> QED  BY <1>4, <1>5

IsLoss(s, i, gone, to, n, o) ==
  /\ gone \subseteq IDs
  /\ \A x \in gone : s[i].recs[x].d => IsMoveTarget(s, i, x, to[x])
  /\ \A k \in DOMAIN n : /\ k \in Nat /\ o[k] \in DOMAIN s
                         /\ n[k].editable => s[o[k]].editable
  /\ \A a, b \in DOMAIN n : a < b <=> o[a] < o[b]
  /\ \A k \in DOMAIN s : \A x \in IDs : ~(k = i /\ x \in gone) => \E l \in DOMAIN n : o[l] = k
  /\ \A k \in DOMAIN n : \A x \in IDs :
       IF o[k] = i /\ x \in gone
       THEN n[k].recs[x] = NoRec
       ELSE /\ n[k].recs[x].t = s[o[k]].recs[x].t
            /\ n[k].recs[x].c = s[o[k]].recs[x].c
            /\ n[k].recs[x].d <=> \/ s[o[k]].recs[x].d
                                  \/ x \in gone /\ s[i].recs[x].d /\ to[x] = o[k]

LossLeaves(s, i, gone, to) ==
  {s[i].recs[x].t : x \in {y \in gone : Has(s[i], y) /\ s[i].recs[y].d /\ to[y] = 0}}

\* A snapshot that loses some IDs, their flags moved as mgr_snap_dflag_move() does,
\* keeps the invariant; only what was owned and found no newer owner leaves.
LEMMA LossInv ==
  ASSUME NEW s, IsList(s), ListInv(s), NEW i \in DOMAIN s, NEW gone,
         NEW to, NEW n, NEW o, IsLoss(s, i, gone, to, n, o)
  PROVE  ListInv(n) /\ Refs(n) = Refs(s) \ LossLeaves(s, i, gone, to)
<1>1. gone \subseteq IDs
  BY DEF IsLoss
<1>2. Len(s) \in Nat /\ DOMAIN s = 1..Len(s) /\ i \in Nat /\ \A k \in DOMAIN s : k \in Nat
  BY Fields
<1>3. \A k \in DOMAIN n : /\ k \in Nat /\ o[k] \in DOMAIN s /\ o[k] \in Nat
                          /\ n[k].editable => s[o[k]].editable
  BY <1>2 DEF IsLoss
<1>4. \A a, b \in DOMAIN n : a < b <=> o[a] < o[b]
  BY DEF IsLoss
<1>5. ASSUME NEW k \in DOMAIN n, NEW x \in IDs, Has(n[k], x) \/ n[k].recs[x].c \/ n[k].recs[x].d
      PROVE  /\ ~(o[k] = i /\ x \in gone)
             /\ n[k].recs[x].t = s[o[k]].recs[x].t /\ n[k].recs[x].c = s[o[k]].recs[x].c
             /\ n[k].recs[x].d <=> \/ s[o[k]].recs[x].d
                                   \/ x \in gone /\ s[i].recs[x].d /\ to[x] = o[k]
  <2>1. ~(o[k] = i /\ x \in gone)
    BY <1>5, NoRecFields DEF IsLoss, Has
  <2> QED  BY <2>1 DEF IsLoss
\* A record that is not lost is still there.
<1>6. ASSUME NEW k \in DOMAIN s, NEW x \in IDs, Has(s[k], x), ~(k = i /\ x \in gone)
      PROVE  \E l \in DOMAIN n : /\ o[l] = k /\ Has(n[l], x)
                                 /\ n[l].recs[x].t = s[k].recs[x].t
                                 /\ n[l].recs[x].d <=> \/ s[k].recs[x].d
                                                       \/ x \in gone /\ s[i].recs[x].d /\ to[x] = k
  <2>1. PICK l \in DOMAIN n : o[l] = k
    BY <1>6 DEF IsLoss
  <2>2. /\ n[l].recs[x].t = s[k].recs[x].t
        /\ n[l].recs[x].d <=> \/ s[k].recs[x].d
                              \/ x \in gone /\ s[i].recs[x].d /\ to[x] = k
    BY <2>1, <1>6 DEF IsLoss
  <2>3. Has(n[l], x)
    BY <2>2, <1>6 DEF Has
  <2> QED  BY <2>1, <2>2, <2>3
<1>7. ASSUME NEW x \in gone, s[i].recs[x].d
      PROVE  /\ Has(s[i], x)
             /\ to[x] # 0 => /\ to[x] \in DOMAIN s /\ to[x] < i /\ to[x] # i
                             /\ s[to[x]].recs[x].t = s[i].recs[x].t /\ Has(s[to[x]], x)
             /\ \A k \in DOMAIN s : s[k].recs[x].t = s[i].recs[x].t /\ k # i =>
                                      to[x] # 0 /\ k <= to[x]
  <2>1. IsMoveTarget(s, i, x, to[x])
    BY <1>7 DEF IsLoss
  <2>2. Has(s[i], x)
    BY <1>7, <1>1 DEF ListInv, EmptyIsUnowned
  <2>3. /\ to[x] # 0 => /\ to[x] \in DOMAIN s /\ to[x] < i
                        /\ s[to[x]].recs[x].t = s[i].recs[x].t
        /\ \A k \in DOMAIN s : s[k].recs[x].t = s[i].recs[x].t /\ k # i =>
                                 to[x] # 0 /\ k <= to[x]
    BY <2>1, <1>7, <1>1, TargetFacts
  <2>4. to[x] # 0 => to[x] # i
    BY <2>3, <1>2
  <2> QED  BY <2>2, <2>3, <2>4 DEF Has
<1>8. IsSubList(s, n, o)
  <2>1. \A k \in DOMAIN n : \A x \in IDs : n[k].recs[x].d => Has(n[k], x)
    <3> SUFFICES ASSUME NEW k \in DOMAIN n, NEW x \in IDs, n[k].recs[x].d
                 PROVE  Has(n[k], x)
      OBVIOUS
    <3>1. CASE s[o[k]].recs[x].d
      <4>1. Has(s[o[k]], x)
        BY <3>1, <1>3 DEF ListInv, EmptyIsUnowned
      <4> QED  BY <4>1, <1>5 DEF Has
    <3>2. CASE x \in gone /\ s[i].recs[x].d /\ to[x] = o[k]
      <4>1. Has(s[o[k]], x)
        BY <3>2, <1>2, <1>3, <1>7
      <4> QED  BY <4>1, <1>5 DEF Has
    <3> QED  BY <3>1, <3>2, <1>5
  <2> QED  BY <2>1, <1>2, <1>3, <1>4, <1>5 DEF IsSubList
<1>9. /\ CreateIsOldest(n) /\ OneId(n) /\ EmptyIsUnowned(n)
      /\ Refs(n) \subseteq Refs(s)
      /\ \A a, b \in DOMAIN n : \A x \in IDs :
           Same(n, a, b, x) => Same(s, o[a], o[b], x) /\ Has(n[b], x)
  BY <1>8, SubListInv
<1>10. OwnerIsNewest(n)
  <2> SUFFICES ASSUME NEW a \in DOMAIN n, NEW b \in DOMAIN n, NEW x \in IDs,
                      a < b, Same(n, a, b, x), n[a].recs[x].d
               PROVE  FALSE
    BY DEF OwnerIsNewest
  <2>1. Has(n[a], x) /\ Has(n[b], x) /\ Same(s, o[a], o[b], x)
    BY <1>9 DEF Same
  <2>2. o[a] \in DOMAIN s /\ o[b] \in DOMAIN s /\ o[a] < o[b] /\ o[a] \in Nat /\ o[b] \in Nat
    BY <1>3, <1>4
  <2>3. CASE s[o[a]].recs[x].d
    BY <2>1, <2>2, <2>3 DEF ListInv, OwnerIsNewest
  <2>4. CASE x \in gone /\ s[i].recs[x].d /\ to[x] = o[a]
    <3>1. s[o[a]].recs[x].t = s[i].recs[x].t /\ s[o[b]].recs[x].t = s[i].recs[x].t
      BY <2>1, <2>2, <2>4, <1>2, <1>7 DEF Same
    <3>2. o[b] # i
      BY <2>1, <2>4, <1>5
    <3>3. o[b] <= o[a]
      BY <2>2, <2>4, <3>1, <3>2, <1>7
    <3> QED  BY <2>2, <3>3
  <2> QED  BY <2>1, <2>3, <2>4, <1>5
<1>11. HasOwner(n)
  <2> SUFFICES ASSUME NEW a \in DOMAIN n, NEW x \in IDs, Has(n[a], x)
               PROVE  \E k \in DOMAIN n : k >= a /\ Same(n, a, k, x) /\ n[k].recs[x].d
    BY DEF HasOwner
  <2>1. /\ o[a] \in DOMAIN s /\ n[a].recs[x].t = s[o[a]].recs[x].t /\ Has(s[o[a]], x)
        /\ ~(o[a] = i /\ x \in gone)
    BY <1>3, <1>5 DEF Has
  <2>2. ASSUME NEW k \in DOMAIN n, o[k] >= o[a]
        PROVE  k >= a
    BY <2>2, <1>3, <1>4
  <2>3. PICK k \in DOMAIN s : k >= o[a] /\ Same(s, o[a], k, x) /\ s[k].recs[x].d
    BY <2>1 DEF ListInv, HasOwner
  <2>4. Has(s[k], x) /\ s[k].recs[x].t = s[o[a]].recs[x].t
    BY <2>3 DEF Same, Has
  <2>5. CASE ~(k = i /\ x \in gone)
    <3>1. PICK l \in DOMAIN n : o[l] = k /\ n[l].recs[x].t = s[k].recs[x].t /\ n[l].recs[x].d
      BY <2>3, <2>4, <2>5, <1>6
    <3>2. l >= a
      BY <2>2, <2>3, <3>1
    <3> QED  BY <2>1, <2>4, <3>1, <3>2 DEF Same
  <2>6. CASE k = i /\ x \in gone
    <3>1. to[x] # 0 /\ o[a] <= to[x]
      BY <2>1, <2>3, <2>4, <2>6, <1>7
    <3>2. /\ to[x] \in DOMAIN s /\ Has(s[to[x]], x) /\ to[x] # i
          /\ s[to[x]].recs[x].t = s[i].recs[x].t
      BY <2>3, <2>6, <3>1, <1>7
    <3>3. PICK l \in DOMAIN n : /\ o[l] = to[x] /\ n[l].recs[x].t = s[to[x]].recs[x].t
                                /\ n[l].recs[x].d
      BY <2>3, <2>6, <3>2, <1>6
    <3>4. l >= a
      BY <2>2, <3>1, <3>2, <3>3, <1>2, <1>3
    <3> QED  BY <2>1, <2>4, <2>6, <3>2, <3>3, <3>4 DEF Same
  <2> QED  BY <2>5, <2>6
<1>12. AddedIsOwned(n)
  <2> SUFFICES ASSUME NEW k \in DOMAIN n, NEW x \in IDs, n[k].editable, n[k].recs[x].c
               PROVE  Has(n[k], x) /\ n[k].recs[x].d
    BY DEF AddedIsOwned
  <2>1. s[o[k]].editable /\ s[o[k]].recs[x].c
    BY <1>3, <1>5
  <2>2. Has(s[o[k]], x) /\ s[o[k]].recs[x].d
    BY <2>1, <1>3 DEF ListInv, AddedIsOwned
  <2> QED  BY <2>2, <1>5 DEF Has
<1>13. ASSUME NEW t \in Refs(s), t \notin LossLeaves(s, i, gone, to)
       PROVE  t \in Refs(n)
  <2>1. PICK k \in DOMAIN s, x \in IDs : Has(s[k], x) /\ s[k].recs[x].t = t
    BY RefsMember
  <2>2. \E l \in DOMAIN s : ~(l = i /\ x \in gone) /\ Has(s[l], x) /\ s[l].recs[x].t = t
    <3>1. CASE ~(k = i /\ x \in gone)
      BY <2>1, <3>1
    <3>2. CASE k = i /\ x \in gone /\ s[i].recs[x].d
      <4>1. to[x] # 0
        BY <2>1, <3>2, <1>13 DEF LossLeaves
      <4> QED  BY <2>1, <3>2, <4>1, <1>7
    <3>3. CASE k = i /\ x \in gone /\ ~s[i].recs[x].d
      <4>1. PICK l \in DOMAIN s : Same(s, k, l, x) /\ s[l].recs[x].d
        BY <2>1 DEF ListInv, HasOwner
      <4> QED  BY <2>1, <3>3, <4>1 DEF Same, Has
    <3> QED  BY <3>1, <3>2, <3>3
  <2>3. PICK l \in DOMAIN n : Has(n[l], x) /\ n[l].recs[x].t = t
    BY <2>2, <1>6
  <2> QED  BY <2>3, RefsMember
<1>14. ASSUME NEW t \in Refs(n)
       PROVE  t \notin LossLeaves(s, i, gone, to)
  <2>1. PICK k \in DOMAIN n, x \in IDs : Has(n[k], x) /\ n[k].recs[x].t = t
    BY RefsMember
  <2>2. /\ o[k] \in DOMAIN s /\ s[o[k]].recs[x].t = t /\ Has(s[o[k]], x)
        /\ ~(o[k] = i /\ x \in gone)
    BY <2>1, <1>3, <1>5 DEF Has
  <2> SUFFICES ASSUME NEW y \in gone, Has(s[i], y), s[i].recs[y].d, to[y] = 0,
                      s[i].recs[y].t = t
               PROVE  FALSE
    BY DEF LossLeaves
  <2>3. x = y
    BY <2>2, <1>1 DEF ListInv, OneId
  <2> QED  BY <2>2, <2>3, <1>7
<1> QED  BY <1>9, <1>10, <1>11, <1>12, <1>13, <1>14 DEF ListInv

\* Snapshots keep their places.
IsUnmoved(s, o) == \A k \in DOMAIN s : o[k] = k

IsDrop(s, i, id, j, n) ==
  /\ IsList(n) /\ DOMAIN n = DOMAIN s
  /\ \A k \in DOMAIN s : n[k].editable = s[k].editable
  /\ n[i].recs[id] = NoRec
  /\ \A k \in DOMAIN s : \A x \in IDs : ~(k = i /\ x = id) =>
       /\ n[k].recs[x].t = s[k].recs[x].t /\ n[k].recs[x].c = s[k].recs[x].c
       /\ n[k].recs[x].d <=> s[k].recs[x].d \/ (x = id /\ s[i].recs[id].d /\ j = k)

\* mgr_snap_template_remove() takes one ID out of one snapshot.
LEMMA DropShape ==
  ASSUME NEW s, IsList(s), NEW i \in DOMAIN s, NEW id \in IDs, NEW j,
         s[i].recs[id].d => j # i, NEW n, n = DropRec(s, i, id, j)
  PROVE  /\ IsDrop(s, i, id, j, n) /\ SameRest(s[i], n[i])
         /\ \A k \in DOMAIN s : k # i => SameView(s[k], n[k])
<1> DEFINE gap == WithRec(s[i], id, NoRec)
           heir(k) == WithOwner(s[k], id, TRUE)
<1>1. Len(s) \in Nat /\ DOMAIN s = 1..Len(s) /\ \A k \in DOMAIN s : IsSnapshot(s[k]) /\ k \in Nat
  BY Fields
<1>2. /\ IsSnapshot(gap) /\ gap.editable = s[i].editable /\ gap.recs[id] = NoRec
      /\ SameRest(s[i], gap)
      /\ \A x \in IDs : x # id => gap.recs[x] = s[i].recs[x]
  BY <1>1, NoRecFields, WithRecFields
<1>3. ASSUME NEW k \in DOMAIN s
      PROVE  /\ IsSnapshot(heir(k)) /\ heir(k).editable = s[k].editable
             /\ heir(k).recs[id].t = s[k].recs[id].t /\ heir(k).recs[id].c = s[k].recs[id].c
             /\ heir(k).recs[id].d = TRUE /\ SameRest(s[k], heir(k))
             /\ \A x \in IDs : x # id => heir(k).recs[x] = s[k].recs[x]
  <2> DEFINE r == Rec(s[k].recs[id].t, s[k].recs[id].c, TRUE)
  <2>1. /\ r \in Record /\ r.t = s[k].recs[id].t /\ r.c = s[k].recs[id].c /\ r.d = TRUE
    <3>1. s[k].recs[id].t \in Addrs \cup {NoTmplt} /\ s[k].recs[id].c \in BOOLEAN
      BY Fields
    <3>2. TRUE \in BOOLEAN
      OBVIOUS
    <3> QED  BY <3>1, <3>2, RecFields, Zenon
  <2> HIDE DEF r
  <2>2. heir(k) = WithRec(s[k], id, r)
    BY DEF WithOwner, r
  <2> HIDE DEF heir
  <2> QED  BY <1>1, <2>1, <2>2, WithRecFields
<1>4. n = [k \in 1..Len(s) |-> IF k = i THEN gap
                               ELSE IF k = j /\ s[i].recs[id].d THEN heir(k) ELSE s[k]]
  BY DEF DropRec
<1> HIDE DEF gap, heir
<1>5. n = [k \in 1..Len(s) |-> n[k]] /\ \A k \in 1..Len(s) : IsSnapshot(n[k])
  <2>1. ASSUME NEW k \in 1..Len(s)
        PROVE  IsSnapshot(IF k = i THEN gap
                          ELSE IF k = j /\ s[i].recs[id].d THEN heir(k) ELSE s[k])
    BY <1>1, <1>2, <1>3
  <2> QED  BY <2>1, <1>4
<1>6. IsList(n) /\ DOMAIN n = DOMAIN s
  BY <1>1, <1>5, ListOf
<1>7. /\ n[i] = gap
      /\ \A k \in DOMAIN s : k # i /\ k = j /\ s[i].recs[id].d => n[k] = heir(k)
      /\ \A k \in DOMAIN s : k # i /\ ~(k = j /\ s[i].recs[id].d) => n[k] = s[k]
  BY <1>1, <1>4
<1>8. \A k \in DOMAIN s : n[k].editable = s[k].editable
  BY <1>2, <1>3, <1>7
<1>9. ASSUME NEW k \in DOMAIN s, NEW x \in IDs, ~(k = i /\ x = id)
      PROVE  /\ n[k].recs[x].t = s[k].recs[x].t /\ n[k].recs[x].c = s[k].recs[x].c
             /\ n[k].recs[x].d <=> s[k].recs[x].d \/ (x = id /\ s[i].recs[id].d /\ j = k)
  <2>1. CASE k = i
    BY <2>1, <1>2, <1>7, <1>9
  <2>2. CASE k # i /\ k = j /\ s[i].recs[id].d
    <3>1. n[k] = heir(k)
      BY <2>2, <1>7
    <3>2. CASE x = id
      <4>1. /\ n[k].recs[x].t = s[k].recs[x].t /\ n[k].recs[x].c = s[k].recs[x].c
            /\ n[k].recs[x].d = TRUE
        BY <3>1, <3>2, <1>3
      <4> QED  BY <4>1, <3>2, <2>2
    <3>3. CASE x # id
      <4>1. n[k].recs[x] = s[k].recs[x]
        BY <3>1, <3>3, <1>3
      <4> QED  BY <4>1, <3>3
    <3> QED  BY <3>2, <3>3
  <2>3. CASE k # i /\ ~(k = j /\ s[i].recs[id].d)
    BY <2>3, <1>7, <1>9
  <2> QED  BY <2>1, <2>2, <2>3
<1>10. n[i].recs[id] = NoRec
  BY <1>2, <1>7
<1>11. SameRest(s[i], n[i]) /\ \A k \in DOMAIN s : k # i => SameRest(s[k], n[k])
  <2>1. \A k \in DOMAIN s : SameRest(s[k], s[k])
    BY DEF SameRest
  <2> QED  BY <2>1, <1>2, <1>3, <1>7
<1>12. \A k \in DOMAIN s : k # i => SameView(s[k], n[k])
  BY <1>9, <1>11 DEF SameView
<1> QED  BY <1>6, <1>8, <1>9, <1>10, <1>11, <1>12 DEF IsDrop

\* ... as a loss of references.
LEMMA DropIsLoss ==
  ASSUME NEW s, IsList(s), NEW i \in DOMAIN s, NEW id \in IDs, NEW j,
         s[i].recs[id].d => IsMoveTarget(s, i, id, j),
         NEW n, IsDrop(s, i, id, j, n),
         NEW gone, gone = {id}, NEW to, to[id] = j, NEW o, IsUnmoved(s, o)
  PROVE  IsLoss(s, i, gone, to, n, o)
<1>1. \A k \in DOMAIN s : k \in Nat
  BY Fields
<1>2. IsList(n) /\ DOMAIN n = DOMAIN s /\ \A k \in DOMAIN s : n[k].editable = s[k].editable
  BY DEF IsDrop
<1>3. to[id] = j /\ \A k \in DOMAIN s : o[k] = k
  BY DEF IsUnmoved
<1>4. IsLoss(s, i, gone, to, n, o)
  <2>1. \A x \in {id} : s[i].recs[x].d => IsMoveTarget(s, i, x, to[x])
    BY <1>3
  <2>2. \A k \in DOMAIN n : k \in Nat /\ o[k] \in DOMAIN s /\ (n[k].editable => s[o[k]].editable)
    BY <1>1, <1>2, <1>3
  <2>3. \A a, b \in DOMAIN n : a < b <=> o[a] < o[b]
    BY <1>2, <1>3
  <2>4. \A k \in DOMAIN s : \E l \in DOMAIN n : o[l] = k
    BY <1>2, <1>3
  <2>5. ASSUME NEW k \in DOMAIN n, NEW x \in IDs
        PROVE  IF o[k] = i /\ x \in {id}
               THEN n[k].recs[x] = NoRec
               ELSE /\ n[k].recs[x].t = s[o[k]].recs[x].t
                    /\ n[k].recs[x].c = s[o[k]].recs[x].c
                    /\ n[k].recs[x].d <=> \/ s[o[k]].recs[x].d
                                          \/ x \in {id} /\ s[i].recs[x].d /\ to[x] = o[k]
    <3>1. o[k] = k /\ k \in DOMAIN s
      BY <1>2, <1>3
    <3>2. CASE k = i /\ x = id
      BY <3>1, <3>2 DEF IsDrop
    <3>3. CASE ~(k = i /\ x = id)
      BY <3>1, <3>3, <1>3 DEF IsDrop
    <3> QED  BY <3>2, <3>3
  <2> QED  BY <2>1, <2>2, <2>3, <2>4, <2>5 DEF IsLoss
<1> QED  BY <1>4

\* mgr_snap_remove() is a loss of all IDs followed by closing the gap.
LEMMA UnlinkShape ==
  ASSUME NEW s, IsList(s), NEW i \in DOMAIN s, NEW to,
         \A x \in IDs : s[i].recs[x].d => IsMoveTarget(s, i, x, to[x]) /\ ~(to[x] > i),
         \A x \in IDs : to[x] \in Nat,
         NEW n, n = Unlink(s, i, to)
  PROVE  /\ IsList(n)
         /\ \E o : IsLoss(s, i, IDs, to, n, o)
         /\ DOMAIN n = 1..(Len(s) - 1)
         /\ \A k \in DOMAIN n : \E l \in DOMAIN s : SameRest(s[l], n[k])
         /\ \A k \in DOMAIN s : k # i => \E l \in DOMAIN n :
              n[l].editable = s[k].editable /\ SameView(s[k], n[l])
<1> DEFINE recs(k) == [x \in IDs |-> LET r == s[k].recs[x]
                                     IN  Rec(r.t, r.c, r.d \/ (to[x] = k /\ s[i].recs[x].d))]
           heir(k) == WithRecs(s[k], recs(k))
<1>1. /\ Len(s) \in Nat /\ DOMAIN s = 1..Len(s) /\ i \in Nat /\ Len(s) - 1 \in Nat
      /\ \A k \in DOMAIN s : IsSnapshot(s[k]) /\ k \in Nat
  <2>1. Len(s) \in Nat /\ DOMAIN s = 1..Len(s) /\ i \in 1..Len(s)
    BY Fields
  <2> QED  BY <2>1, Fields
<1>2. ASSUME NEW k \in DOMAIN s, NEW x \in IDs
      PROVE  /\ recs(k)[x] \in Record
             /\ recs(k)[x].t = s[k].recs[x].t /\ recs(k)[x].c = s[k].recs[x].c
             /\ recs(k)[x].d = (s[k].recs[x].d \/ (to[x] = k /\ s[i].recs[x].d))
  <2> DEFINE d == s[k].recs[x].d \/ (to[x] = k /\ s[i].recs[x].d)
  <2>1. recs(k)[x] = Rec(s[k].recs[x].t, s[k].recs[x].c, d)
    OBVIOUS
  <2>2. d \in BOOLEAN
    OBVIOUS
  <2>3. s[k].recs[x] \in Record
    BY Fields
  <2> HIDE DEF recs, d
  <2>4. /\ recs(k)[x] \in Record
        /\ recs(k)[x].t = s[k].recs[x].t /\ recs(k)[x].c = s[k].recs[x].c
        /\ recs(k)[x].d = d
    BY <2>1, <2>2, <2>3, OwnerFields
  <2> QED  BY <2>4 DEF d
<1>3. ASSUME NEW k \in DOMAIN s
      PROVE  /\ IsSnapshot(heir(k)) /\ heir(k).editable = s[k].editable
             /\ heir(k).recs = recs(k) /\ SameRest(s[k], heir(k))
  <2>1. recs(k) \in [IDs -> Record]
    BY <1>2
  <2> HIDE DEF recs
  <2> QED  BY <1>1, <2>1, WithRecsFields
<1>4. n = [k \in 1..(Len(s) - 1) |-> IF k < i THEN heir(k) ELSE s[k + 1]]
  BY DEF Unlink
<1> HIDE DEF heir, recs
<1>5. n = [k \in 1..(Len(s) - 1) |-> n[k]] /\ \A k \in 1..(Len(s) - 1) : IsSnapshot(n[k])
  BY <1>1, <1>3, <1>4
<1>6. IsList(n) /\ DOMAIN n = 1..(Len(s) - 1)
  BY <1>1, <1>5, ListOf
<1> DEFINE o == [k \in DOMAIN n |-> IF k < i THEN k ELSE k + 1]
<1>7. \A k \in DOMAIN n : /\ k \in Nat /\ o[k] \in DOMAIN s /\ o[k] # i
                          /\ k < i => o[k] = k /\ n[k] = heir(o[k])
                          /\ ~(k < i) => o[k] = k + 1 /\ n[k] = s[o[k]] /\ o[k] > i
  BY <1>1, <1>4, <1>6
<1>8. \A a, b \in DOMAIN n : a < b <=> o[a] < o[b]
  BY <1>1, <1>6
<1>9. ASSUME NEW k \in DOMAIN s, k # i
      PROVE  \E l \in DOMAIN n : o[l] = k
  <2>1. CASE k < i
    <3>1. k \in DOMAIN n /\ o[k] = k
      BY <2>1, <1>1, <1>6
    <3> QED  BY <3>1
  <2>2. CASE k > i
    <3>1. k - 1 \in DOMAIN n /\ o[k - 1] = k
      BY <2>2, <1>1, <1>6
    <3> QED  BY <3>1
  <2> QED  BY <2>1, <2>2, <1>1, <1>9
<1> HIDE DEF o
<1>10. ASSUME NEW k \in DOMAIN n, NEW x \in IDs
      PROVE  /\ n[k].recs[x].t = s[o[k]].recs[x].t /\ n[k].recs[x].c = s[o[k]].recs[x].c
             /\ n[k].recs[x].d <=> s[o[k]].recs[x].d \/ (s[i].recs[x].d /\ to[x] = o[k])
  <2>1. CASE k < i
    <3>1. n[k].recs[x] = recs(o[k])[x] /\ o[k] \in DOMAIN s
      BY <2>1, <1>3, <1>7
    <3> QED  BY <3>1, <1>2
  <2>2. CASE ~(k < i)
    <3>1. n[k] = s[o[k]] /\ o[k] > i
      BY <2>2, <1>7
    <3>2. ~(s[i].recs[x].d /\ to[x] = o[k])
      BY <3>1
    <3> QED  BY <3>1, <3>2
  <2> QED  BY <2>1, <2>2
<1>11. IsLoss(s, i, IDs, to, n, o)
  <2>1. \A k \in DOMAIN n : n[k].editable => s[o[k]].editable
    BY <1>3, <1>7
  <2>2. \A x \in IDs : s[i].recs[x].d => IsMoveTarget(s, i, x, to[x])
    OBVIOUS
  <2>3. ASSUME NEW k \in DOMAIN n, NEW x \in IDs
        PROVE  IF o[k] = i /\ x \in IDs
               THEN n[k].recs[x] = NoRec
               ELSE /\ n[k].recs[x].t = s[o[k]].recs[x].t
                    /\ n[k].recs[x].c = s[o[k]].recs[x].c
                    /\ n[k].recs[x].d <=> \/ s[o[k]].recs[x].d
                                          \/ x \in IDs /\ s[i].recs[x].d /\ to[x] = o[k]
    BY <1>7, <1>10
  <2> QED  BY <2>1, <2>2, <2>3, <1>7, <1>8, <1>9 DEF IsLoss
<1>12. \A k \in DOMAIN n : o[k] \in DOMAIN s /\ SameRest(s[o[k]], n[k])
  <2>1. \A k \in DOMAIN s : SameRest(s[k], s[k])
    BY DEF SameRest
  <2> QED  BY <2>1, <1>3, <1>7
<1>13. ASSUME NEW k \in DOMAIN s, k # i
       PROVE  \E l \in DOMAIN n : n[l].editable = s[k].editable /\ SameView(s[k], n[l])
  <2>1. PICK l \in DOMAIN n : o[l] = k
    BY <1>9, <1>13
  <2>2. SameView(s[k], n[l])
    BY <2>1, <1>10, <1>12 DEF SameView
  <2>3. n[l].editable = s[k].editable
    BY <2>1, <1>3, <1>7
  <2> QED  BY <2>2, <2>3
<1> QED  BY <1>6, <1>11, <1>12, <1>13

-----------------------------------------------------------------------------
(* mgr_snap_freeze_cb(): a template is carried to newer snapshots.         *)

IsSpread(s, i, id, J, top, n) ==
  /\ IsList(n) /\ DOMAIN n = DOMAIN s
  /\ \A k \in DOMAIN s : n[k].editable = s[k].editable
  /\ \A k \in J : /\ n[k].recs[id].t = s[i].recs[id].t
                  /\ ~n[k].recs[id].c /\ (n[k].recs[id].d <=> k = top)
  /\ n[i].recs[id].t = s[i].recs[id].t /\ n[i].recs[id].c = s[i].recs[id].c
  /\ ~n[i].recs[id].d
  /\ \A k \in DOMAIN s : \A x \in IDs :
       ~(k \in J \cup {i} /\ x = id) => n[k].recs[x] = s[k].recs[x]

\* mgr_snap_freeze_cb() carries one template to newer snapshots.
LEMMA SpreadShape ==
  ASSUME NEW s, IsList(s), NEW i \in DOMAIN s, NEW id \in IDs,
         NEW J \in SUBSET DOMAIN s, i \notin J, NEW top \in J,
         NEW n, n = Spread(s, i, id, J, top)
  PROVE  IsSpread(s, i, id, J, top, n)
<1> DEFINE src == WithOwner(s[i], id, FALSE)
           r(k) == Rec(s[i].recs[id].t, FALSE, k = top)
           ref(k) == WithRec(s[k], id, r(k))
<1>1. Len(s) \in Nat /\ DOMAIN s = 1..Len(s) /\ \A k \in DOMAIN s : IsSnapshot(s[k])
  BY Fields
<1>2. /\ IsSnapshot(src) /\ src.editable = s[i].editable
      /\ src.recs[id].t = s[i].recs[id].t /\ src.recs[id].c = s[i].recs[id].c
      /\ src.recs[id].d = FALSE
      /\ \A x \in IDs : x # id => src.recs[x] = s[i].recs[x]
  <2> DEFINE q == Rec(s[i].recs[id].t, s[i].recs[id].c, FALSE)
  <2>1. /\ q \in Record /\ q.t = s[i].recs[id].t /\ q.c = s[i].recs[id].c /\ q.d = FALSE
    <3>1. s[i].recs[id] \in Record /\ FALSE \in BOOLEAN
      BY Fields
    <3> QED  BY <3>1, OwnerFields
  <2> HIDE DEF q
  <2>2. src = WithRec(s[i], id, q)
    BY DEF WithOwner, q
  <2> HIDE DEF src
  <2> QED  BY <1>1, <2>1, <2>2, WithRecFields
<1>3. ASSUME NEW k \in J
      PROVE  /\ IsSnapshot(ref(k)) /\ ref(k).editable = s[k].editable
             /\ ref(k).recs[id].t = s[i].recs[id].t /\ ref(k).recs[id].c = FALSE
             /\ ref(k).recs[id].d <=> k = top
             /\ \A x \in IDs : x # id => ref(k).recs[x] = s[k].recs[x]
  <2>1. /\ r(k) \in Record /\ r(k).t = s[i].recs[id].t /\ r(k).c = FALSE
        /\ r(k).d <=> k = top
    <3>1. s[i].recs[id].t \in Addrs \cup {NoTmplt}
      BY Fields
    <3>2. CASE k = top
      <4>1. r(k) = Rec(s[i].recs[id].t, FALSE, TRUE)
        BY <3>2
      <4> QED  BY <3>1, <3>2, <4>1 DEF Rec, Record
    <3>3. CASE k # top
      <4>1. r(k) = Rec(s[i].recs[id].t, FALSE, FALSE)
        BY <3>3
      <4> QED  BY <3>1, <3>3, <4>1 DEF Rec, Record
    <3> QED  BY <3>2, <3>3
  <2> HIDE DEF r
  <2> QED  BY <1>1, <2>1, WithRecFields
<1>4. n = [k \in 1..Len(s) |-> IF k \in J THEN ref(k) ELSE IF k = i THEN src ELSE s[k]]
  BY DEF Spread
<1> HIDE DEF src, ref, r
<1>5. n = [k \in 1..Len(s) |-> n[k]] /\ \A k \in 1..Len(s) : IsSnapshot(n[k])
  BY <1>1, <1>2, <1>3, <1>4
<1>6. IsList(n) /\ DOMAIN n = DOMAIN s
  BY <1>1, <1>5, ListOf
<1>7. /\ n[i] = src
      /\ \A k \in J : n[k] = ref(k)
      /\ \A k \in DOMAIN s : k \notin J /\ k # i => n[k] = s[k]
  BY <1>1, <1>4
<1>8. \A k \in DOMAIN s : n[k].editable = s[k].editable
  BY <1>2, <1>3, <1>7
<1>9. ASSUME NEW k \in DOMAIN s, NEW x \in IDs, ~(k \in J \cup {i} /\ x = id)
      PROVE  n[k].recs[x] = s[k].recs[x]
  <2>1. CASE k \in J
    <3>1. n[k] = ref(k) /\ x # id
      BY <2>1, <1>7, <1>9
    <3>2. ref(k).recs[x] = s[k].recs[x]
      BY <2>1, <3>1, <1>3
    <3> QED  BY <3>1, <3>2
  <2>2. CASE k = i
    BY <2>2, <1>2, <1>7, <1>9
  <2>3. CASE k \notin J /\ k # i
    BY <2>3, <1>7
  <2> QED  BY <2>1, <2>2, <2>3
<1>10. /\ n[i].recs[id].t = s[i].recs[id].t /\ n[i].recs[id].c = s[i].recs[id].c
      /\ ~n[i].recs[id].d
  BY <1>2, <1>7
<1>11. ASSUME NEW k \in J
       PROVE  /\ n[k].recs[id].t = s[i].recs[id].t
              /\ ~n[k].recs[id].c /\ (n[k].recs[id].d <=> k = top)
  <2>1. n[k] = ref(k)
    BY <1>7
  <2>2. /\ ref(k).recs[id].t = s[i].recs[id].t /\ ref(k).recs[id].c = FALSE
        /\ ref(k).recs[id].d <=> k = top
    BY <1>3
  <2> QED  BY <2>1, <2>2, Zenon
<1> QED  BY <1>6, <1>8, <1>9, <1>10, <1>11 DEF IsSpread

\* Carrying an owned template to newer snapshots without its ID keeps the invariant.
LEMMA SpreadInv ==
  ASSUME NEW s, IsList(s), ListInv(s), NEW i \in DOMAIN s, NEW id \in IDs,
         s[i].recs[id].d, ~(s[i].editable /\ s[i].recs[id].c),
         NEW J \in SUBSET DOMAIN s, \A j \in J : j > i /\ ~Has(s[j], id),
         NEW top \in J, \A j \in J : j <= top,
         NEW n, IsSpread(s, i, id, J, top, n)
  PROVE  ListInv(n) /\ Refs(n) = Refs(s)
<1>1. Len(s) \in Nat /\ DOMAIN s = 1..Len(s) /\ \A k \in DOMAIN s : k \in Nat
  BY Fields
<1>2. DOMAIN n = DOMAIN s
  BY DEF IsSpread
<1> DEFINE t == s[i].recs[id].t
<1>3. Has(s[i], id) /\ t # NoTmplt
  BY DEF ListInv, EmptyIsUnowned, Has
<1> HIDE DEF t
\* Snapshots with a reference to the template, before and after.
<1>4. \A k \in DOMAIN s : \A x \in IDs : s[k].recs[x].t = t => x = id /\ k <= i
  <2> SUFFICES ASSUME NEW k \in DOMAIN s, NEW x \in IDs, s[k].recs[x].t = t
               PROVE  x = id /\ k <= i
    OBVIOUS
  <2>1. x = id
    BY <1>3 DEF ListInv, OneId, t
  <2>2. ~(i < k)
    BY <2>1, <1>3 DEF ListInv, OwnerIsNewest, Same, t
  <2> QED  BY <2>1, <2>2, <1>1
<1>5. \A k \in J : /\ k \in DOMAIN s /\ k > i
                   /\ n[k].recs[id].t = t /\ ~n[k].recs[id].c /\ (n[k].recs[id].d <=> k = top)
  BY DEF IsSpread, t
<1>6. /\ n[i].recs[id].t = t /\ n[i].recs[id].c = s[i].recs[id].c /\ ~n[i].recs[id].d
      /\ s[i].recs[id].t = t
  BY DEF IsSpread, t
<1>7. \A k \in DOMAIN s : \A x \in IDs :
        ~(k \in J \cup {i} /\ x = id) => n[k].recs[x] = s[k].recs[x]
  BY DEF IsSpread
<1>8. \A k \in DOMAIN s : \A x \in IDs : n[k].recs[x].t = t => x = id /\ (k \in J \/ k <= i)
  BY <1>1, <1>4, <1>7
<1>9. \A k \in DOMAIN s : \A x \in IDs :
        n[k].recs[x].t # t => n[k].recs[x] = s[k].recs[x]
  BY <1>5, <1>6, <1>7
<1>10. OwnerIsNewest(n)
  <2> SUFFICES ASSUME NEW a \in DOMAIN n, NEW b \in DOMAIN n, NEW x \in IDs,
                      a < b, Same(n, a, b, x), n[a].recs[x].d
               PROVE  FALSE
    BY DEF OwnerIsNewest
  <2>1. a \in DOMAIN s /\ b \in DOMAIN s /\ a \in Nat /\ b \in Nat
    BY <1>1, <1>2
  <2>2. n[a].recs[x].t = n[b].recs[x].t /\ Has(n[a], x)
    BY DEF Same
  <2>3. CASE n[a].recs[x].t # t
    <3>1. n[a].recs[x] = s[a].recs[x] /\ n[b].recs[x] = s[b].recs[x]
      BY <2>1, <2>2, <2>3, <1>9
    <3>2. Same(s, a, b, x)
      BY <2>2, <3>1 DEF Same, Has
    <3> QED  BY <2>1, <3>1, <3>2 DEF ListInv, OwnerIsNewest
  <2>4. CASE n[a].recs[x].t = t
    <3>1. x = id
      BY <2>1, <2>4, <1>8
    <3>2. CASE a \in J
      <4>1. a = top
        BY <3>1, <3>2, <1>5
      <4>2. b \in J \/ b <= i
        BY <2>1, <2>2, <2>4, <1>8
      <4>3. b \in J
        BY <2>1, <3>2, <4>2, <1>1, <1>5
      <4> QED  BY <2>1, <4>1, <4>3
    <3>3. CASE a \notin J
      <4>1. a <= i /\ a # i
        BY <2>1, <2>4, <3>1, <3>3, <1>6, <1>8
      <4>2. n[a].recs[id] = s[a].recs[id] /\ a < i
        BY <2>1, <3>3, <4>1, <1>1, <1>7
      <4>3. Same(s, a, i, id)
        BY <2>2, <2>4, <3>1, <4>2, <1>6 DEF Same, Has
      <4> QED  BY <2>1, <3>1, <4>2, <4>3 DEF ListInv, OwnerIsNewest
    <3> QED  BY <3>2, <3>3
  <2> QED  BY <2>3, <2>4
<1>11. HasOwner(n)
  <2> SUFFICES ASSUME NEW a \in DOMAIN n, NEW x \in IDs, Has(n[a], x)
               PROVE  \E k \in DOMAIN n : k >= a /\ Same(n, a, k, x) /\ n[k].recs[x].d
    BY DEF HasOwner
  <2>1. a \in DOMAIN s /\ a \in Nat /\ top \in Nat
    BY <1>1, <1>2
  <2>2. CASE n[a].recs[x].t # t
    <3>1. n[a].recs[x] = s[a].recs[x] /\ Has(s[a], x)
      BY <2>1, <2>2, <1>9 DEF Has
    <3>2. PICK k \in DOMAIN s : k >= a /\ Same(s, a, k, x) /\ s[k].recs[x].d
      BY <2>1, <3>1 DEF ListInv, HasOwner
    <3>3. s[k].recs[x].t = n[a].recs[x].t
      BY <3>1, <3>2 DEF Same
    <3>4. k \notin J \/ x # id
      BY <3>2, <3>3 DEF Has
    <3>5. k # i \/ x # id
      BY <2>2, <3>3, <1>6
    <3>6. n[k].recs[x] = s[k].recs[x]
      BY <3>4, <3>5, <1>7
    <3> QED  BY <3>2, <3>3, <3>6, <1>2 DEF Same
  <2>3. CASE n[a].recs[x].t = t
    <3>1. x = id /\ (a \in J \/ a <= i)
      BY <2>1, <2>3, <1>8
    <3>2. top >= a
      BY <2>1, <3>1, <1>1, <1>5
    <3> QED  BY <2>3, <3>1, <3>2, <1>5, <1>2 DEF Same
  <2> QED  BY <2>2, <2>3
<1>12. CreateIsOldest(n)
  <2> SUFFICES ASSUME NEW a \in DOMAIN n, NEW b \in DOMAIN n, NEW x \in IDs,
                      a < b, Same(n, a, b, x), n[b].recs[x].c
               PROVE  FALSE
    BY DEF CreateIsOldest
  <2>1. a \in DOMAIN s /\ b \in DOMAIN s /\ a \in Nat /\ b \in Nat
    BY <1>1, <1>2
  <2>2. n[a].recs[x].t = n[b].recs[x].t /\ Has(n[a], x)
    BY DEF Same
  <2>3. ~(b \in J /\ x = id)
    BY <1>5
  <2>4. n[b].recs[x].t = s[b].recs[x].t /\ s[b].recs[x].c
    BY <2>1, <2>3, <1>6, <1>7
  <2>5. ~(a \in J /\ x = id)
    <3> SUFFICES ASSUME a \in J, x = id
                 PROVE  FALSE
      OBVIOUS
    <3>1. s[b].recs[id].t = t /\ a > i
      BY <2>2, <2>4, <1>5
    <3> QED  BY <2>1, <3>1, <1>1, <1>4
  <2>6. n[a].recs[x].t = s[a].recs[x].t
    BY <2>1, <2>5, <1>6, <1>7
  <2>7. Same(s, a, b, x)
    BY <2>2, <2>4, <2>6 DEF Same, Has
  <2> QED  BY <2>1, <2>4, <2>7 DEF ListInv, CreateIsOldest
<1>13. OneId(n)
  <2> SUFFICES ASSUME NEW a \in DOMAIN n, NEW b \in DOMAIN n, NEW x \in IDs, NEW other \in IDs,
                      Has(n[a], x), n[b].recs[other].t = n[a].recs[x].t
               PROVE  other = x
    BY DEF OneId
  <2>1. CASE n[a].recs[x].t = t
    BY <2>1, <1>8, <1>2
  <2>2. CASE n[a].recs[x].t # t
    <3>1. n[a].recs[x] = s[a].recs[x] /\ n[b].recs[other] = s[b].recs[other]
      BY <2>2, <1>9, <1>2
    <3>2. Has(s[a], x)
      BY <3>1 DEF Has
    <3> QED  BY <3>1, <3>2, <1>2 DEF ListInv, OneId
  <2> QED  BY <2>1, <2>2
<1>14. AddedIsOwned(n)
  <2> SUFFICES ASSUME NEW a \in DOMAIN n, NEW x \in IDs, n[a].editable, n[a].recs[x].c
               PROVE  Has(n[a], x) /\ n[a].recs[x].d
    BY DEF AddedIsOwned
  <2>1. a \in DOMAIN s /\ s[a].editable
    BY <1>2 DEF IsSpread
  <2>2. ~(a \in J \cup {i} /\ x = id)
    BY <2>1, <1>5, <1>6
  <2>3. n[a].recs[x] = s[a].recs[x]
    BY <2>1, <2>2, <1>7
  <2>4. Has(s[a], x) /\ s[a].recs[x].d
    BY <2>1, <2>3 DEF ListInv, AddedIsOwned
  <2> QED  BY <2>3, <2>4 DEF Has
<1>15. EmptyIsUnowned(n)
  <2> SUFFICES ASSUME NEW a \in DOMAIN n, NEW x \in IDs, n[a].recs[x].d
               PROVE  Has(n[a], x)
    BY DEF EmptyIsUnowned
  <2>1. CASE n[a].recs[x].t = t
    BY <2>1, <1>3 DEF Has
  <2>2. CASE n[a].recs[x].t # t
    <3>1. n[a].recs[x] = s[a].recs[x]
      BY <2>2, <1>9, <1>2
    <3>2. Has(s[a], x)
      BY <3>1, <1>2 DEF ListInv, EmptyIsUnowned
    <3> QED  BY <3>1, <3>2 DEF Has
  <2> QED  BY <2>1, <2>2
<1>16. ASSUME NEW u \in Refs(n)
       PROVE  u \in Refs(s)
  <2>1. PICK k \in DOMAIN n, x \in IDs : Has(n[k], x) /\ n[k].recs[x].t = u
    BY RefsMember
  <2>2. CASE u = t
    BY <2>2, <1>3, <1>6, RefsMember
  <2>3. CASE u # t
    <3>1. n[k].recs[x] = s[k].recs[x] /\ k \in DOMAIN s
      BY <2>1, <2>3, <1>9, <1>2
    <3> QED  BY <2>1, <3>1, RefsMember DEF Has
  <2> QED  BY <2>2, <2>3
<1>17. ASSUME NEW u \in Refs(s)
       PROVE  u \in Refs(n)
  <2>1. PICK k \in DOMAIN s, x \in IDs : Has(s[k], x) /\ s[k].recs[x].t = u
    BY RefsMember
  <2>2. CASE u = t
    <3>1. Has(n[i], id) /\ i \in DOMAIN n
      BY <1>3, <1>6, <1>2 DEF Has
    <3> QED  BY <2>2, <3>1, <1>6, RefsMember
  <2>3. CASE u # t
    <3>1. ~(k \in J \cup {i} /\ x = id)
      BY <2>1, <2>3, <1>6
    <3>2. n[k].recs[x] = s[k].recs[x] /\ k \in DOMAIN n
      BY <3>1, <1>7, <1>2
    <3> QED  BY <2>1, <3>2, RefsMember DEF Has
  <2> QED  BY <2>2, <2>3
<1> QED  BY <1>10, <1>11, <1>12, <1>13, <1>14, <1>15, <1>16, <1>17 DEF ListInv

-----------------------------------------------------------------------------
(* The garbage, as a statement on sets: R is in use, F was added and not   *)
(* yet propagated, l is allocated.                                         *)

\* Templates of editable snapshots that still carry their Create flag.
AddedTo(s) == {s.recs[x].t : x \in {y \in IDs : s.editable /\ s.recs[y].c}}
Unpropagated(s) == UNION {AddedTo(s[k]) : k \in DOMAIN s}

\* A batch of garbage: templates it frees, templates its snapshots refer to.
Batch == [own : SUBSET Addrs, refs : SUBSET Addrs]
NoBatch == [own |-> {}, refs |-> {}]

GarbageInv(R, F, l, tr, h) ==
  /\ R \cup tr.own \cup tr.refs \subseteq l
  /\ \A b \in DOMAIN h : h[b].own \cup h[b].refs \subseteq l
  /\ R \cap tr.own = {}
  /\ \A b \in DOMAIN h : h[b].own \cap (R \cup tr.own \cup tr.refs) = {}
  /\ \A a, b \in DOMAIN h : a # b => h[a].own \cap h[b].own = {}
  /\ \A a, b \in DOMAIN h : a < b => h[a].own \cap h[b].refs = {}
  /\ \A t \in l : t \in R \cup tr.own \/ \E b \in DOMAIN h : t \in h[b].own
  /\ F \cap tr.refs = {}
  /\ \A b \in DOMAIN h : F \cap h[b].refs = {}

\* What is not propagated yet was created in a snapshot that is still editable.
LEMMA UnpropagatedMember ==
  ASSUME NEW s, NEW t
  PROVE  t \in Unpropagated(s) <=> \E k \in DOMAIN s : \E x \in IDs :
                               s[k].editable /\ s[k].recs[x].c /\ s[k].recs[x].t = t
BY DEF Unpropagated, AddedTo

\* A fresh template has one reference.
LEMMA UnpropagatedIsAlone ==
  ASSUME NEW s, IsList(s), ListInv(s), NEW k \in DOMAIN s, NEW i \in DOMAIN s,
         NEW id \in IDs, NEW x \in IDs, s[k].editable, s[k].recs[id].c,
         s[i].recs[x].t = s[k].recs[id].t
  PROVE  i = k /\ Has(s[k], id)
<1>1. k \in Nat /\ i \in Nat
  BY Fields
<1>2. Has(s[k], id) /\ s[k].recs[id].d
  BY DEF ListInv, AddedIsOwned
<1>3. x = id
  BY <1>2 DEF ListInv, OneId
<1>4. Same(s, i, k, id) /\ Same(s, k, i, id)
  BY <1>2, <1>3 DEF Same, Has
<1>5. ~(k < i)
  BY <1>2, <1>4 DEF ListInv, OwnerIsNewest
<1>6. ~(i < k)
  BY <1>4 DEF ListInv, CreateIsOldest
<1> QED  BY <1>1, <1>2, <1>5, <1>6

\* References are addresses.
LEMMA RefsInAddrs ==
  ASSUME NEW s, IsList(s)
  PROVE  Refs(s) \subseteq Addrs
<1> SUFFICES ASSUME NEW t \in Refs(s)
             PROVE  t \in Addrs
  OBVIOUS
<1>1. PICK k \in DOMAIN s, x \in IDs : Has(s[k], x) /\ s[k].recs[x].t = t
  BY RefsMember
<1> QED  BY <1>1, Fields DEF Has

\* New templates.
LEMMA GarbageAdd ==
  ASSUME NEW R, NEW F, NEW l, NEW tr, NEW h, GarbageInv(R, F, l, tr, h),
         NEW T, T \cap l = {}, NEW F2, F2 \subseteq F \cup T
  PROVE  GarbageInv(R \cup T, F2, l \cup T, tr, h)
BY DEF GarbageInv

\* Templates go from the list to the garbage, along with snapshots that use
\* templates.
LEMMA GarbageDiscard ==
  ASSUME NEW R, NEW F, NEW l, NEW tr, NEW h, GarbageInv(R, F, l, tr, h),
         NEW own, NEW refs, own \cup refs \subseteq R,
         NEW F2, F2 \subseteq F, F2 \cap refs = {},
         NEW tr2, tr2.own = tr.own \cup own, tr2.refs = tr.refs \cup refs
  PROVE  GarbageInv(R \ own, F2, l, tr2, h)
<1>1. /\ (R \ own) \cup tr2.own \cup tr2.refs \subseteq l
      /\ (R \ own) \cap tr2.own = {} /\ F2 \cap tr2.refs = {}
  BY DEF GarbageInv
<1>2. /\ \A b \in DOMAIN h : h[b].own \cup h[b].refs \subseteq l
      /\ \A b \in DOMAIN h : h[b].own \cap ((R \ own) \cup tr2.own \cup tr2.refs) = {}
      /\ \A b \in DOMAIN h : F2 \cap h[b].refs = {}
  BY DEF GarbageInv
<1>3. \A t \in l : t \in (R \ own) \cup tr2.own \/ \E b \in DOMAIN h : t \in h[b].own
  BY DEF GarbageInv
<1> QED  BY <1>1, <1>2, <1>3 DEF GarbageInv

\* A fresh template is freed.
LEMMA GarbageFree ==
  ASSUME NEW R, NEW F, NEW l, NEW tr, NEW h, GarbageInv(R, F, l, tr, h),
         NEW t \in F \cap R, NEW F2, F2 \subseteq F
  PROVE  GarbageInv(R \ {t}, F2, l \ {t}, tr, h)
<1>1. t \notin tr.own \cup tr.refs
  BY DEF GarbageInv
<1>2. \A b \in DOMAIN h : t \notin h[b].own \cup h[b].refs
  BY DEF GarbageInv
<1>3. /\ (R \ {t}) \cup tr.own \cup tr.refs \subseteq l \ {t}
      /\ (R \ {t}) \cap tr.own = {} /\ F2 \cap tr.refs = {}
  BY <1>1 DEF GarbageInv
<1>4. /\ \A b \in DOMAIN h : h[b].own \cup h[b].refs \subseteq l \ {t}
      /\ \A b \in DOMAIN h : h[b].own \cap ((R \ {t}) \cup tr.own \cup tr.refs) = {}
      /\ \A b \in DOMAIN h : F2 \cap h[b].refs = {}
  BY <1>2 DEF GarbageInv
<1>5. \A u \in l \ {t} :
        u \in (R \ {t}) \cup tr.own \/ \E b \in DOMAIN h : u \in h[b].own
  BY DEF GarbageInv
<1> QED  BY <1>3, <1>4, <1>5 DEF GarbageInv

\* The user takes the garbage.
LEMMA GarbageTake ==
  ASSUME NEW R, NEW F, NEW l, NEW tr \in Batch, NEW h \in Seq(Batch),
         GarbageInv(R, F, l, tr, h), NEW h2, h2 = Append(h, tr)
  PROVE  h2 \in Seq(Batch) /\ GarbageInv(R, F, l, NoBatch, h2)
<1>1. /\ h2 \in Seq(Batch) /\ Len(h2) = Len(h) + 1 /\ Len(h) \in Nat
      /\ DOMAIN h = 1..Len(h) /\ DOMAIN h2 = 1..(Len(h) + 1)
      /\ \A b \in DOMAIN h : h2[b] = h[b] /\ b # Len(h) + 1 /\ b < Len(h) + 1 /\ b \in Nat
      /\ h2[Len(h) + 1] = tr
  BY AppendProperties, LenProperties
<1> DEFINE last == Len(h) + 1
<1>2. /\ DOMAIN h2 = DOMAIN h \cup {last} /\ h2[last] = tr /\ last \in Nat
      /\ \A b \in DOMAIN h : h2[b] = h[b] /\ b # last /\ b < last /\ b \in Nat
  BY <1>1
<1>3. NoBatch.own = {} /\ NoBatch.refs = {}
  BY DEF NoBatch
<1> HIDE DEF last
<1>4. R \cup tr.own \cup tr.refs \subseteq l /\ R \cap tr.own = {} /\ F \cap tr.refs = {}
  BY DEF GarbageInv
<1>5. \A b \in DOMAIN h2 : /\ h2[b].own \cup h2[b].refs \subseteq l
                           /\ h2[b].own \cap R = {} /\ F \cap h2[b].refs = {}
  BY <1>2, <1>4 DEF GarbageInv
<1>6. ASSUME NEW a \in DOMAIN h2, NEW b \in DOMAIN h2, a # b
      PROVE  h2[a].own \cap h2[b].own = {}
  BY <1>2, <1>6 DEF GarbageInv
<1>7. ASSUME NEW a \in DOMAIN h2, NEW b \in DOMAIN h2, a < b
      PROVE  h2[a].own \cap h2[b].refs = {}
  <2>1. a \in DOMAIN h
    BY <1>2, <1>7
  <2>2. CASE b \in DOMAIN h
    BY <2>1, <2>2, <1>2, <1>7 DEF GarbageInv
  <2>3. CASE b = last
    BY <2>1, <2>3, <1>2 DEF GarbageInv
  <2> QED  BY <2>2, <2>3, <1>2
<1>8. \A t \in l : t \in R \/ \E b \in DOMAIN h2 : t \in h2[b].own
  BY <1>2 DEF GarbageInv
<1> QED  BY <1>1, <1>3, <1>4, <1>5, <1>6, <1>7, <1>8 DEF GarbageInv

\* The user destroys the garbage taken first.
LEMMA GarbageGone ==
  ASSUME NEW R, NEW F, NEW l, NEW tr, NEW h \in Seq(Batch), h # <<>>,
         GarbageInv(R, F, l, tr, h), NEW h2, h2 = Tail(h)
  PROVE  h2 \in Seq(Batch) /\ GarbageInv(R, F, l \ Head(h).own, tr, h2)
<1>1. /\ h2 \in Seq(Batch) /\ Len(h2) = Len(h) - 1 /\ Head(h) = h[1]
      /\ \A b \in 1..Len(h2) : h2[b] = h[b + 1]
  BY HeadTailProperties
<1>2. /\ Len(h) \in Nat \ {0} /\ DOMAIN h = 1..Len(h) /\ 1 \in DOMAIN h
      /\ DOMAIN h2 = 1..(Len(h) - 1)
  BY <1>1, LenProperties, EmptySeq
<1>3. /\ \A b \in DOMAIN h2 : /\ b + 1 \in DOMAIN h /\ h2[b] = h[b + 1] /\ 1 < b + 1
                              /\ 1 # b + 1
      /\ \A b \in DOMAIN h : b # 1 => b - 1 \in DOMAIN h2 /\ h2[b - 1] = h[b]
      /\ \A a, b \in DOMAIN h2 : /\ a # b => a + 1 # b + 1
                                 /\ a < b => a + 1 < b + 1
  BY <1>1, <1>2
<1> DEFINE own == Head(h).own
<1>4. own = h[1].own
  BY <1>1
<1> HIDE DEF own
<1>5. /\ own \cap (R \cup tr.own \cup tr.refs) = {}
      /\ \A b \in DOMAIN h2 : own \cap h2[b].own = {} /\ own \cap h2[b].refs = {}
  BY <1>2, <1>3, <1>4 DEF GarbageInv
<1>6. R \cup tr.own \cup tr.refs \subseteq l \ own /\ R \cap tr.own = {} /\ F \cap tr.refs = {}
  BY <1>5 DEF GarbageInv
<1>7. \A b \in DOMAIN h2 : /\ h2[b].own \cup h2[b].refs \subseteq l \ own
                           /\ h2[b].own \cap (R \cup tr.own \cup tr.refs) = {}
                           /\ F \cap h2[b].refs = {}
  BY <1>3, <1>5 DEF GarbageInv
<1>8. /\ \A a, b \in DOMAIN h2 : a # b => h2[a].own \cap h2[b].own = {}
      /\ \A a, b \in DOMAIN h2 : a < b => h2[a].own \cap h2[b].refs = {}
  BY <1>3 DEF GarbageInv
<1>9. ASSUME NEW t \in l \ own
      PROVE  t \in R \cup tr.own \/ \E b \in DOMAIN h2 : t \in h2[b].own
  BY <1>3, <1>4 DEF GarbageInv
<1>10. GarbageInv(R, F, l \ own, tr, h2)
  BY <1>6, <1>7, <1>8, <1>9 DEF GarbageInv
<1> QED  BY <1>1, <1>10 DEF own

\* Nothing becomes unpropagated unless it was created in an editable snapshot.
LEMMA UnpropagatedSub ==
  ASSUME NEW s, NEW n,
         \A k \in DOMAIN n : \A x \in IDs : n[k].editable /\ n[k].recs[x].c =>
           \E l \in DOMAIN s : /\ s[l].editable /\ s[l].recs[x].c
                               /\ s[l].recs[x].t = n[k].recs[x].t
  PROVE  Unpropagated(n) \subseteq Unpropagated(s)
<1> SUFFICES ASSUME NEW t \in Unpropagated(n)
             PROVE  t \in Unpropagated(s)
  OBVIOUS
<1>1. PICK k \in DOMAIN n, x \in IDs : n[k].editable /\ n[k].recs[x].c /\ n[k].recs[x].t = t
  BY UnpropagatedMember
<1>2. PICK l \in DOMAIN s : s[l].editable /\ s[l].recs[x].c /\ s[l].recs[x].t = t
  BY <1>1
<1> QED  BY <1>2, UnpropagatedMember

-----------------------------------------------------------------------------
(* The list, what is allocated, and the garbage: each operation keeps them *)
(* sound.                                                                  *)

Sound(s, l, tr, h) ==
  /\ IsList(s) /\ ListInv(s) /\ l \subseteq Addrs
  /\ tr \in Batch /\ h \in Seq(Batch)
  /\ GarbageInv(Refs(s), Unpropagated(s), l, tr, h)

\* References are only rearranged.
LEMMA SoundSame ==
  ASSUME NEW s, NEW l, NEW tr, NEW h, Sound(s, l, tr, h),
         NEW n, IsList(n), ListInv(n), Refs(n) = Refs(s),
         Unpropagated(n) \subseteq Unpropagated(s)
  PROVE  Sound(n, l, tr, h)
<1>1. GarbageInv(Refs(n), Unpropagated(n), l, tr, h)
  BY DEF Sound, GarbageInv
<1> QED  BY <1>1 DEF Sound

\* Templates "own" and a user of templates "refs" go to the garbage.
LEMMA SoundDiscard ==
  ASSUME NEW s, NEW l, NEW tr, NEW h, Sound(s, l, tr, h),
         NEW own, NEW refs, own \cup refs \subseteq Refs(s),
         NEW n, IsList(n), ListInv(n), Refs(n) = Refs(s) \ own,
         Unpropagated(n) \subseteq Unpropagated(s), Unpropagated(n) \cap refs = {},
         NEW tr2 \in Batch, tr2.own = tr.own \cup own, tr2.refs = tr.refs \cup refs
  PROVE  Sound(n, l, tr2, h)
<1>1. GarbageInv(Refs(s), Unpropagated(s), l, tr, h)
  BY DEF Sound
<1>2. GarbageInv(Refs(s) \ own, Unpropagated(n), l, tr2, h)
  BY <1>1, GarbageDiscard
<1> QED  BY <1>2 DEF Sound

\* mgr_snap_create()
LEMMA CreateSound ==
  ASSUME NEW s, NEW l, NEW tr, NEW h, Sound(s, l, tr, h), NEW n, IsCreate(s, n)
  PROVE  Sound(n, l, tr, h) /\ Refs(n) = Refs(s)
<1>1. IsList(s) /\ ListInv(s)
  BY DEF Sound
<1>2. ListInv(n) /\ Refs(n) = Refs(s)
  BY <1>1, CreateInv
<1>3. Unpropagated(n) \subseteq Unpropagated(s)
  <2>1. ASSUME NEW k \in DOMAIN n, NEW x \in IDs, n[k].recs[x].c
        PROVE  k - 1 \in DOMAIN s /\ n[k] = s[k - 1]
    <3>1. DOMAIN s = 1..Len(s) /\ Len(s) \in Nat /\ k \in 1..(Len(s) + 1)
      BY <1>1, LenProperties DEF IsCreate, IsList
    <3>2. k # 1
      BY <2>1, NoRecFields DEF IsCreate
    <3> QED  BY <3>1, <3>2 DEF IsCreate
  <2> QED  BY <2>1, UnpropagatedSub
<1>4. IsList(n)
  BY DEF IsCreate
<1> QED  BY <1>2, <1>3, <1>4, SoundSame

\* mgr_snap_clone()
LEMMA CloneSound ==
  ASSUME NEW s, NEW l, NEW tr, NEW h, Sound(s, l, tr, h),
         NEW i \in DOMAIN s, ~s[i].editable, NEW expired \in SUBSET IDs,
         NEW n, IsClone(s, i, expired, n)
  PROVE  Sound(n, l, tr, h) /\ Refs(n) = Refs(s)
<1>1. IsList(s) /\ ListInv(s)
  BY DEF Sound
<1>2. ListInv(n) /\ Refs(n) = Refs(s)
  BY <1>1, CloneInv, CloneRefs
<1>3. Unpropagated(n) \subseteq Unpropagated(s)
  <2>1. ASSUME NEW k \in DOMAIN n, NEW x \in IDs, n[k].editable, n[k].recs[x].c
        PROVE  \E j \in DOMAIN s : n[k] = s[j]
    <3>1. /\ DOMAIN s = 1..Len(s) /\ Len(s) \in Nat /\ i \in 1..Len(s)
          /\ k \in 1..(Len(s) + 1)
      BY <1>1, Fields DEF IsClone
    <3>2. k # i
      BY <1>1, <2>1, Fields DEF IsClone
    <3>3. k # i + 1
      BY <2>1, NoRecFields DEF IsClone
    <3>4. CASE k < i
      BY <3>1, <3>4 DEF IsClone
    <3>5. CASE k > i + 1
      <4>1. k - 1 \in DOMAIN s /\ n[k] = s[k - 1]
        BY <3>1, <3>5 DEF IsClone
      <4> QED  BY <4>1
    <3> QED  BY <3>1, <3>2, <3>3, <3>4, <3>5
  <2>2. ASSUME NEW k \in DOMAIN n, NEW x \in IDs, n[k].editable, n[k].recs[x].c
        PROVE  \E j \in DOMAIN s : /\ s[j].editable /\ s[j].recs[x].c
                                   /\ s[j].recs[x].t = n[k].recs[x].t
    <3>1. PICK j \in DOMAIN s : n[k] = s[j]
      BY <2>1, <2>2
    <3> QED  BY <2>2, <3>1
  <2> QED  BY <2>2, UnpropagatedSub
<1>4. IsList(n)
  BY DEF IsClone
<1> QED  BY <1>2, <1>3, <1>4, SoundSame

\* mgr_snap_freeze() without its callbacks.
LEMMA FreezeSound ==
  ASSUME NEW s, NEW l, NEW tr, NEW h, Sound(s, l, tr, h), NEW n, IsFreeze(s, n)
  PROVE  Sound(n, l, tr, h) /\ Refs(n) = Refs(s)
<1>1. ListInv(n) /\ Refs(n) = Refs(s)
  BY FreezeInv DEF Sound
<1>2. Unpropagated(n) \subseteq Unpropagated(s)
  BY UnpropagatedSub DEF IsFreeze
<1>3. IsList(n)
  BY DEF IsFreeze
<1> QED  BY <1>1, <1>2, <1>3, SoundSame

\* mgr_snap_freeze_cb()
LEMMA SpreadSound ==
  ASSUME NEW s, NEW l, NEW tr, NEW h, Sound(s, l, tr, h),
         NEW i \in DOMAIN s, NEW id \in IDs,
         s[i].recs[id].d, ~(s[i].editable /\ s[i].recs[id].c),
         NEW J \in SUBSET DOMAIN s, \A j \in J : j > i /\ ~Has(s[j], id),
         NEW top \in J, \A j \in J : j <= top,
         NEW n, IsSpread(s, i, id, J, top, n)
  PROVE  Sound(n, l, tr, h) /\ Refs(n) = Refs(s)
<1>1. IsList(s) /\ ListInv(s)
  BY DEF Sound
<1>2. ListInv(n) /\ Refs(n) = Refs(s)
  BY <1>1, SpreadInv
<1>3. Unpropagated(n) \subseteq Unpropagated(s)
  <2>1. ASSUME NEW k \in DOMAIN n, NEW x \in IDs, n[k].editable, n[k].recs[x].c
        PROVE  /\ k \in DOMAIN s /\ s[k].editable /\ s[k].recs[x].c
               /\ s[k].recs[x].t = n[k].recs[x].t
    <3>1. k \in DOMAIN s /\ s[k].editable
      BY <2>1 DEF IsSpread
    <3>2. ~(k \in J /\ x = id)
      BY <2>1 DEF IsSpread
    <3>3. CASE k = i /\ x = id
      BY <3>1, <3>3, <2>1 DEF IsSpread
    <3>4. CASE ~(k = i /\ x = id)
      <4>1. n[k].recs[x] = s[k].recs[x]
        BY <3>1, <3>2, <3>4 DEF IsSpread
      <4> QED  BY <3>1, <4>1, <2>1
    <3> QED  BY <3>3, <3>4
  <2> QED  BY <2>1, UnpropagatedSub
<1>4. IsList(n)
  BY DEF IsSpread
<1> QED  BY <1>2, <1>3, <1>4, SoundSame

\* mgr_snap_template_add() of a new template t.
LEMMA AddSound ==
  ASSUME NEW s, NEW l, NEW tr, NEW h, Sound(s, l, tr, h),
         NEW i \in DOMAIN s, NEW id \in IDs, ~Has(s[i], id),
         NEW t \in Addrs, t \notin l,
         NEW n, IsSet(s, i, id, t, n), n[i].recs[id].d
  PROVE  Sound(n, l \cup {t}, tr, h) /\ Refs(n) = Refs(s) \cup {t}
<1>1. IsList(s) /\ ListInv(s) /\ GarbageInv(Refs(s), Unpropagated(s), l, tr, h)
  BY DEF Sound
<1>2. ListInv(n) /\ Refs(n) = Refs(s) \cup {t}
  <2>1. t \notin Refs(s)
    BY <1>1 DEF GarbageInv
  <2> QED  BY <1>1, <2>1, AddInv
<1>3. Unpropagated(n) \subseteq Unpropagated(s) \cup {t}
  <2> SUFFICES ASSUME NEW u \in Unpropagated(n)
               PROVE  u \in Unpropagated(s) \cup {t}
    OBVIOUS
  <2>1. PICK k \in DOMAIN n, x \in IDs :
          n[k].editable /\ n[k].recs[x].c /\ n[k].recs[x].t = u
    BY UnpropagatedMember
  <2>2. k \in DOMAIN s /\ s[k].editable
    BY <2>1 DEF IsSet
  <2>3. CASE k = i /\ x = id
    BY <2>1, <2>3 DEF IsSet
  <2>4. CASE ~(k = i /\ x = id)
    <3>1. n[k].recs[x] = s[k].recs[x]
      BY <2>2, <2>4 DEF IsSet
    <3> QED  BY <2>1, <2>2, <3>1, UnpropagatedMember
  <2> QED  BY <2>3, <2>4
<1>4. GarbageInv(Refs(n), Unpropagated(n), l \cup {t}, tr, h)
  <2>1. {t} \cap l = {}
    OBVIOUS
  <2>2. GarbageInv(Refs(s) \cup {t}, Unpropagated(n), l \cup {t}, tr, h)
    BY <1>1, <1>3, <2>1, GarbageAdd
  <2> QED  BY <1>2, <2>2
<1>5. IsList(n)
  BY DEF IsSet
<1> QED  BY <1>2, <1>4, <1>5 DEF Sound

\* mgr_snap_template_remove(): what is left of the list.
LEMMA DropKeeps ==
  ASSUME NEW s, IsList(s), ListInv(s), NEW i \in DOMAIN s, NEW id \in IDs, Has(s[i], id),
         NEW j, s[i].recs[id].d => IsMoveTarget(s, i, id, j),
         NEW n, IsDrop(s, i, id, j, n)
  PROVE  /\ ListInv(n) /\ Unpropagated(n) \subseteq Unpropagated(s)
         /\ Refs(n) = Refs(s) \ (IF s[i].recs[id].d /\ j = 0 THEN {s[i].recs[id].t} ELSE {})
<1>1. \E gone : gone = {id}
  OBVIOUS
<1>2. \E to : to[id] = j
  <2>1. [x \in {id} |-> j][id] = j
    OBVIOUS
  <2> QED  BY <2>1
<1>3. \E o : IsUnmoved(s, o)
  <2>1. \A k \in DOMAIN s : [k2 \in DOMAIN s |-> k2][k] = k
    OBVIOUS
  <2> QED  BY <2>1 DEF IsUnmoved
<1>4. PICK gone : gone = {id}
  BY <1>1
<1>5. PICK to : to[id] = j
  BY <1>2
<1>6. PICK o : IsUnmoved(s, o)
  BY <1>3
<1>7. IsLoss(s, i, gone, to, n, o)
  BY <1>4, <1>5, <1>6, DropIsLoss
<1>8. ListInv(n) /\ Refs(n) = Refs(s) \ LossLeaves(s, i, gone, to)
  BY <1>7, LossInv
<1>9. LossLeaves(s, i, gone, to) = IF s[i].recs[id].d /\ j = 0 THEN {s[i].recs[id].t} ELSE {}
  BY <1>4, <1>5 DEF LossLeaves
<1>10. Unpropagated(n) \subseteq Unpropagated(s)
  <2>1. ASSUME NEW k \in DOMAIN n, NEW x \in IDs, n[k].editable, n[k].recs[x].c
        PROVE  /\ k \in DOMAIN s /\ s[k].editable /\ s[k].recs[x].c
               /\ s[k].recs[x].t = n[k].recs[x].t
    <3>1. k \in DOMAIN s /\ s[k].editable
      BY <2>1 DEF IsDrop
    <3>2. ~(k = i /\ x = id)
      BY <2>1, NoRecFields DEF IsDrop
    <3> QED  BY <3>1, <3>2, <2>1 DEF IsDrop
  <2> QED  BY <2>1, UnpropagatedSub
<1> QED  BY <1>8, <1>9, <1>10

\* ... when another record has the template as well.
LEMMA DropSound ==
  ASSUME NEW s, NEW l, NEW tr, NEW h, Sound(s, l, tr, h),
         NEW i \in DOMAIN s, NEW id \in IDs, Has(s[i], id),
         NEW j, s[i].recs[id].d => IsMoveTarget(s, i, id, j) /\ j # 0,
         NEW n, IsDrop(s, i, id, j, n)
  PROVE  Sound(n, l, tr, h) /\ Refs(n) = Refs(s)
<1>1. IsList(s) /\ ListInv(s) /\ IsList(n)
  BY DEF Sound, IsDrop
<1>2. ListInv(n) /\ Unpropagated(n) \subseteq Unpropagated(s) /\ Refs(n) = Refs(s)
  <2>1. /\ ListInv(n) /\ Unpropagated(n) \subseteq Unpropagated(s)
        /\ Refs(n) = Refs(s) \ (IF s[i].recs[id].d /\ j = 0 THEN {s[i].recs[id].t} ELSE {})
    BY <1>1, DropKeeps
  <2> QED  BY <2>1
<1> QED  BY <1>1, <1>2, SoundSame

\* ... when nobody else can have seen it: it is freed.
LEMMA DropFreesSound ==
  ASSUME NEW s, NEW l, NEW tr, NEW h, Sound(s, l, tr, h),
         NEW i \in DOMAIN s, NEW id \in IDs, Has(s[i], id),
         s[i].editable, s[i].recs[id].d, s[i].recs[id].c, IsMoveTarget(s, i, id, 0),
         NEW n, IsDrop(s, i, id, 0, n)
  PROVE  /\ Sound(n, l \ {s[i].recs[id].t}, tr, h)
         /\ Refs(n) = Refs(s) \ {s[i].recs[id].t}
         /\ s[i].recs[id].t \in Unpropagated(s) \cap Refs(s)
<1> DEFINE t == s[i].recs[id].t
<1>1. /\ IsList(s) /\ ListInv(s) /\ IsList(n) /\ l \subseteq Addrs /\ tr \in Batch
      /\ h \in Seq(Batch) /\ GarbageInv(Refs(s), Unpropagated(s), l, tr, h)
  BY DEF Sound, IsDrop
<1>2. ListInv(n) /\ Unpropagated(n) \subseteq Unpropagated(s) /\ Refs(n) = Refs(s) \ {t}
  <2>1. /\ ListInv(n) /\ Unpropagated(n) \subseteq Unpropagated(s)
        /\ Refs(n) = Refs(s) \ (IF s[i].recs[id].d /\ 0 = 0 THEN {s[i].recs[id].t} ELSE {})
    BY <1>1, DropKeeps
  <2> QED  BY <2>1
<1>3. t \in Unpropagated(s) \cap Refs(s)
  BY UnpropagatedMember, InRefs
<1> HIDE DEF t
<1>4. GarbageInv(Refs(n), Unpropagated(n), l \ {t}, tr, h)
  BY <1>1, <1>2, <1>3, GarbageFree
<1>5. Sound(n, l \ {t}, tr, h)
  BY <1>1, <1>2, <1>4 DEF Sound
<1> QED  BY <1>2, <1>3, <1>5 DEF t

\* ... when it is left to the garbage.
LEMMA DropDiscardsSound ==
  ASSUME NEW s, NEW l, NEW tr, NEW h, Sound(s, l, tr, h),
         NEW i \in DOMAIN s, NEW id \in IDs, Has(s[i], id),
         s[i].recs[id].d, IsMoveTarget(s, i, id, 0),
         NEW n, IsDrop(s, i, id, 0, n),
         NEW tr2, tr2 = [own |-> tr2.own, refs |-> tr2.refs],
         tr2.own = tr.own \cup {s[i].recs[id].t}, tr2.refs = tr.refs
  PROVE  Sound(n, l, tr2, h) /\ Refs(n) = Refs(s) \ {s[i].recs[id].t}
<1> DEFINE t == s[i].recs[id].t
<1>1. IsList(s) /\ ListInv(s) /\ IsList(n) /\ tr \in Batch
  BY DEF Sound, IsDrop
<1>2. ListInv(n) /\ Unpropagated(n) \subseteq Unpropagated(s) /\ Refs(n) = Refs(s) \ {t}
  <2>1. /\ ListInv(n) /\ Unpropagated(n) \subseteq Unpropagated(s)
        /\ Refs(n) = Refs(s) \ (IF s[i].recs[id].d /\ 0 = 0 THEN {s[i].recs[id].t} ELSE {})
    BY <1>1, DropKeeps
  <2> QED  BY <2>1
<1>3. t \in Addrs /\ t \in Refs(s)
  BY <1>1, InRefs, RefsInAddrs
<1> HIDE DEF t
<1>4. tr2 \in Batch /\ tr2.own = tr.own \cup {t} /\ tr2.refs = tr.refs \cup {}
  BY <1>1, <1>3 DEF Batch, t
<1> DEFINE own == {t}
           refs == {}
<1>5. /\ own \cup refs \subseteq Refs(s) /\ Unpropagated(n) \cap refs = {}
      /\ Refs(n) = Refs(s) \ own
      /\ tr2.own = tr.own \cup own /\ tr2.refs = tr.refs \cup refs
  BY <1>2, <1>3, <1>4
<1> HIDE DEF own, refs
<1>6. Sound(n, l, tr2, h)
  BY <1>1, <1>2, <1>4, <1>5, SoundDiscard
<1> QED  BY <1>2, <1>6 DEF t

\* mgr_snap_remove()
LEMMA UnlinkSound ==
  ASSUME NEW s, NEW l, NEW tr, NEW h, Sound(s, l, tr, h),
         NEW i \in DOMAIN s, NEW to,
         \A x \in IDs : to[x] \in Nat,
         \A x \in IDs : s[i].recs[x].d => IsMoveTarget(s, i, x, to[x]),
         NEW n, n = Unlink(s, i, to), NEW tr2,
         tr2 = [own |-> tr2.own, refs |-> tr2.refs],
         tr2.own = tr.own \cup LeaveWith(s, i, to), tr2.refs = tr.refs \cup RefsOf(s[i])
  PROVE  /\ Sound(n, l, tr2, h) /\ Refs(n) \subseteq Refs(s)
         /\ DOMAIN n = 1..(Len(s) - 1)
         /\ \A k \in DOMAIN n : \E m \in DOMAIN s : SameRest(s[m], n[k])
         /\ \A k \in DOMAIN s : k # i => \E m \in DOMAIN n :
              n[m].editable = s[k].editable /\ SameView(s[k], n[m])
<1>1. IsList(s) /\ ListInv(s) /\ tr \in Batch
  BY DEF Sound
<1>2. \A x \in IDs : s[i].recs[x].d => IsMoveTarget(s, i, x, to[x]) /\ ~(to[x] > i)
  <2> SUFFICES ASSUME NEW x \in IDs, s[i].recs[x].d
               PROVE  ~(to[x] > i)
    OBVIOUS
  <2>1. to[x] # 0 => to[x] < i
    BY <1>1, TargetFacts
  <2>2. i \in Nat
    BY <1>1, Fields
  <2> QED  BY <2>1, <2>2
<1>3. /\ IsList(n) /\ \E o : IsLoss(s, i, IDs, to, n, o)
      /\ DOMAIN n = 1..(Len(s) - 1)
      /\ \A k \in DOMAIN n : \E m \in DOMAIN s : SameRest(s[m], n[k])
      /\ \A k \in DOMAIN s : k # i => \E m \in DOMAIN n :
              n[m].editable = s[k].editable /\ SameView(s[k], n[m])
  BY <1>1, <1>2, UnlinkShape
<1>4. PICK o : IsLoss(s, i, IDs, to, n, o)
  BY <1>3
<1>5. LossLeaves(s, i, IDs, to) = LeaveWith(s, i, to)
  BY DEF LossLeaves, LeaveWith
<1>6. ListInv(n) /\ Refs(n) = Refs(s) \ LeaveWith(s, i, to)
  <2>1. ListInv(n) /\ Refs(n) = Refs(s) \ LossLeaves(s, i, IDs, to)
    BY <1>1, <1>4, LossInv
  <2> QED  BY <1>5, <2>1
<1>7. ASSUME NEW k \in DOMAIN n, NEW x \in IDs, n[k].editable, n[k].recs[x].c
       PROVE  /\ o[k] \in DOMAIN s /\ s[o[k]].editable /\ s[o[k]].recs[x].c
              /\ s[o[k]].recs[x].t = n[k].recs[x].t /\ o[k] # i
  <2>1. o[k] # i
    BY <1>4, <1>7, NoRecFields DEF IsLoss
  <2>2. n[k].recs[x].t = s[o[k]].recs[x].t /\ n[k].recs[x].c = s[o[k]].recs[x].c
    BY <1>4, <2>1 DEF IsLoss
  <2> QED  BY <1>4, <1>7, <2>1, <2>2 DEF IsLoss
<1>8. Unpropagated(n) \subseteq Unpropagated(s)
  BY <1>7, UnpropagatedSub
<1>9. Unpropagated(n) \cap RefsOf(s[i]) = {}
  <2> SUFFICES ASSUME NEW t \in Unpropagated(n), t \in RefsOf(s[i])
               PROVE  FALSE
    OBVIOUS
  <2>1. PICK k \in DOMAIN n, x \in IDs :
          n[k].editable /\ n[k].recs[x].c /\ n[k].recs[x].t = t
    BY UnpropagatedMember
  <2>2. PICK y \in IDs : s[i].recs[y].t = t
    BY DEF RefsOf
  <2>3. /\ o[k] \in DOMAIN s /\ s[o[k]].editable /\ s[o[k]].recs[x].c
        /\ s[i].recs[y].t = s[o[k]].recs[x].t /\ o[k] # i
    BY <1>7, <2>1, <2>2
  <2> QED  BY <1>1, <2>3, UnpropagatedIsAlone
<1>10. LeaveWith(s, i, to) \cup RefsOf(s[i]) \subseteq Refs(s)
  BY DEF LeaveWith, RefsOf, Refs
<1>11. tr2 \in Batch
  <2>1. tr.own \subseteq Addrs /\ tr.refs \subseteq Addrs
    BY <1>1 DEF Batch
  <2>2. tr2.own \subseteq Addrs /\ tr2.refs \subseteq Addrs
    BY <1>1, <1>10, <2>1, RefsInAddrs
  <2> QED  BY <2>2 DEF Batch
<1> DEFINE own == LeaveWith(s, i, to)
           refs == RefsOf(s[i])
<1>12. /\ tr2.own = tr.own \cup own /\ tr2.refs = tr.refs \cup refs
       /\ own \cup refs \subseteq Refs(s) /\ Refs(n) = Refs(s) \ own
       /\ Unpropagated(n) \cap refs = {} /\ IsList(n) /\ ListInv(n)
  BY <1>3, <1>6, <1>9, <1>10
<1> HIDE DEF own, refs
<1>13. Sound(n, l, tr2, h)
  BY <1>8, <1>11, <1>12, SoundDiscard
<1> QED  BY <1>3, <1>6, <1>13

\* A list without its newest snapshot.
IsPrefix(older, s) ==
  DOMAIN older = 1..(Len(s) - 1) /\ \A k \in 1..(Len(s) - 1) : older[k] = s[k]

\* mgr_cleanup() of a session without history.
LEMMA NewestSound ==
  ASSUME NEW s, NEW l, NEW tr, NEW h, Sound(s, l, tr, h), s # <<>>,
         NEW n, n = <<s[Len(s)]>>, NEW older, IsPrefix(older, s), NEW tr2,
         tr2 = [own |-> tr2.own, refs |-> tr2.refs],
         tr2.own = tr.own \cup Owned(older), tr2.refs = tr.refs \cup Refs(older)
  PROVE  Sound(n, l, tr2, h) /\ Refs(n) \subseteq Refs(s) /\ DOMAIN n = {1} /\ n[1] = s[Len(s)]
<1> DEFINE last == s[Len(s)]
           own == Owned(older)
           refs == Refs(older)
<1>1. IsList(s) /\ ListInv(s) /\ tr \in Batch
  BY DEF Sound
<1>2. /\ Len(s) \in Nat \ {0} /\ DOMAIN s = 1..Len(s)
      /\ Len(s) \in DOMAIN s /\ Len(s) - 1 \in Nat
  BY <1>1, LenProperties, EmptySeq DEF IsList
<1>3. IsSnapshot(last)
  BY <1>1, <1>2, Fields
<1>4. IsList(n) /\ DOMAIN n = {1} /\ n[1] = last
  <2>1. n = <<last>>
    OBVIOUS
  <2> HIDE DEF last
  <2>2. n \in Seq({last}) /\ DOMAIN n = {1} /\ n[1] = last
    BY <2>1
  <2> QED  BY <1>3, <2>2, SeqList
<1>5. /\ DOMAIN older = 1..(Len(s) - 1)
      /\ \A k \in 1..(Len(s) - 1) : older[k] = s[k]
  BY DEF IsPrefix
<1>6. own = Owned(older) /\ refs = Refs(older)
  OBVIOUS
<1> HIDE DEF own, refs
<1> HIDE DEF last
<1>7. /\ ListInv(n) /\ Refs(s) = Refs(n) \cup own
      /\ Refs(n) \cap own = {} /\ refs \subseteq Refs(s)
  <2>1. /\ ListInv(n) /\ Refs(s) = Refs(n) \cup Owned(older)
        /\ Refs(n) \cap Owned(older) = {} /\ Refs(older) \subseteq Refs(s)
    BY <1>1, <1>4, <1>5, KeepNewestInv DEF last
  <2> QED  BY <1>6, <2>1
<1>8. Unpropagated(n) \subseteq Unpropagated(s)
  BY <1>2, <1>4, UnpropagatedSub DEF last
<1>9. Unpropagated(n) \cap refs = {}
  <2> SUFFICES ASSUME NEW t \in Unpropagated(n), t \in Refs(older)
               PROVE  FALSE
    BY <1>6
  <2>1. PICK x \in IDs : last.editable /\ last.recs[x].c /\ last.recs[x].t = t
    BY <1>4, UnpropagatedMember
  <2>2. PICK k \in DOMAIN older, y \in IDs : older[k].recs[y].t = t
    BY RefsMember
  <2>3. k \in DOMAIN s /\ k # Len(s) /\ s[k].recs[y].t = t
    BY <1>2, <1>5, <2>2
  <2> QED  BY <1>1, <1>2, <2>1, <2>3, UnpropagatedIsAlone DEF last
<1>10. own \cup refs \subseteq Refs(s) /\ Refs(n) = Refs(s) \ own
  BY <1>7
<1>11. tr2.own = tr.own \cup own /\ tr2.refs = tr.refs \cup refs
  BY <1>6
<1>12. tr2 \in Batch
  BY <1>1, <1>10, <1>11, RefsInAddrs DEF Batch
<1>13. Sound(n, l, tr2, h)
  BY <1>4, <1>7, <1>8, <1>9, <1>10, <1>11, <1>12, SoundDiscard
<1> QED  BY <1>4, <1>10, <1>13 DEF last

\* fds_tmgr_clear()
LEMMA EmptyList ==
  ASSUME NEW n, n = <<>>
  PROVE  IsList(n) /\ ListInv(n) /\ Refs(n) = {} /\ Unpropagated(n) = {}
<1>1. DOMAIN n = {}
  OBVIOUS
<1>2. IsList(n)
  <2>1. n \in Seq({})
    OBVIOUS
  <2> QED  BY <1>1, <2>1, SeqList
<1>3. ListInv(n)
  BY <1>1 DEF ListInv, OwnerIsNewest, HasOwner, CreateIsOldest, OneId, AddedIsOwned, EmptyIsUnowned
<1> QED  BY <1>1, <1>2, <1>3 DEF Refs, Unpropagated

\* A list thrown away as a whole leaves garbage that nothing else refers to.
LEMMA ClearSound ==
  ASSUME NEW s, NEW l, NEW tr, NEW h, Sound(s, l, tr, h), NEW n, n = <<>>,
         NEW tr2, tr2 = [own |-> tr2.own, refs |-> tr2.refs],
         tr2.own = tr.own \cup Refs(s), tr2.refs = tr.refs \cup Refs(s)
  PROVE  Sound(n, l, tr2, h)
<1>1. IsList(s) /\ tr \in Batch
  BY DEF Sound
<1>2. IsList(n) /\ ListInv(n) /\ Refs(n) = {} /\ Unpropagated(n) = {}
  BY EmptyList
<1>3. tr2 \in Batch /\ tr2.own = tr.own \cup Refs(s) /\ tr2.refs = tr.refs \cup Refs(s)
  BY <1>1, RefsInAddrs DEF Batch
<1>4. /\ Refs(s) \cup Refs(s) \subseteq Refs(s) /\ Refs(n) = Refs(s) \ Refs(s)
      /\ Unpropagated(n) \subseteq Unpropagated(s) /\ Unpropagated(n) \cap Refs(s) = {}
  BY <1>2
<1> QED  BY <1>2, <1>3, <1>4, SoundDiscard

\* The templates the list refers to from then on.
Copies(copy, s) == {copy[t] : t \in Refs(s)}

\* fds_tmgr_set_iemgr()
LEMMA ReplaceSound ==
  ASSUME NEW s, NEW l, NEW tr, NEW h, Sound(s, l, tr, h),
         NEW copy \in [Refs(s) -> Addrs \ l],
         \A t, u \in Refs(s) : copy[t] = copy[u] => t = u,
         NEW n, IsReplace(s, copy, n), NEW copies, copies = Copies(copy, s),
         NEW tr2, tr2 = [own |-> tr2.own, refs |-> tr2.refs],
         tr2.own = tr.own \cup Refs(s), tr2.refs = tr.refs \cup Refs(s)
  PROVE  Sound(n, l \cup copies, tr2, h) /\ Refs(n) = copies
<1>1. /\ IsList(s) /\ ListInv(s) /\ l \subseteq Addrs /\ tr \in Batch /\ h \in Seq(Batch)
      /\ GarbageInv(Refs(s), Unpropagated(s), l, tr, h)
  BY DEF Sound
<1>2. copy \in [Refs(s) -> Addrs] /\ \A t \in Refs(s) : copy[t] \in Addrs \ l
  OBVIOUS
<1>3. ListInv(n) /\ Refs(n) = copies
  BY <1>1, <1>2, ReplaceInv DEF Copies
<1>4. copies \cap l = {} /\ copies \subseteq Addrs
  BY <1>2 DEF Copies
<1>5. Unpropagated(n) \subseteq copies
  <2> SUFFICES ASSUME NEW t \in Unpropagated(n)
               PROVE  t \in Refs(n)
    BY <1>3
  <2>1. PICK k \in DOMAIN n, x \in IDs :
          n[k].editable /\ n[k].recs[x].c /\ n[k].recs[x].t = t
    BY UnpropagatedMember
  <2>2. Has(n[k], x)
    BY <1>3, <2>1 DEF ListInv, AddedIsOwned
  <2> QED  BY <2>1, <2>2, InRefs
<1>6. tr2 \in Batch /\ tr2.own = tr.own \cup Refs(s) /\ tr2.refs = tr.refs \cup Refs(s)
  BY <1>1, RefsInAddrs DEF Batch
<1>7. GarbageInv(Refs(s) \ Refs(s), {}, l, tr2, h)
  <2> DEFINE none == {}
  <2>1. /\ none \subseteq Unpropagated(s) /\ none \cap Refs(s) = {}
        /\ Refs(s) \cup Refs(s) \subseteq Refs(s)
    OBVIOUS
  <2> HIDE DEF none
  <2>2. GarbageInv(Refs(s) \ Refs(s), none, l, tr2, h)
    BY <1>1, <1>6, <2>1, GarbageDiscard
  <2> QED  BY <2>2 DEF none
<1>8. GarbageInv((Refs(s) \ Refs(s)) \cup copies, Unpropagated(n), l \cup copies, tr2, h)
  BY <1>4, <1>5, <1>7, GarbageAdd
<1>9. (Refs(s) \ Refs(s)) \cup copies = Refs(n)
  BY <1>3
<1>10. GarbageInv(Refs(n), Unpropagated(n), l \cup copies, tr2, h)
  BY <1>8, <1>9
<1>11. IsList(n) /\ l \cup copies \subseteq Addrs
  BY <1>1, <1>4 DEF IsReplace
<1> QED  BY <1>1, <1>3, <1>6, <1>10, <1>11 DEF Sound

\* fds_tmgr_garbage_get()
LEMMA TakeSound ==
  ASSUME NEW s, NEW l, NEW tr, NEW h, Sound(s, l, tr, h), NEW h2, h2 = Append(h, tr)
  PROVE  Sound(s, l, NoBatch, h2)
<1>1. /\ tr \in Batch /\ h \in Seq(Batch)
      /\ GarbageInv(Refs(s), Unpropagated(s), l, tr, h)
  BY DEF Sound
<1>2. h2 \in Seq(Batch) /\ GarbageInv(Refs(s), Unpropagated(s), l, NoBatch, h2)
  BY <1>1, GarbageTake
<1>3. NoBatch \in Batch
  BY DEF NoBatch, Batch
<1> QED  BY <1>2, <1>3 DEF Sound

\* fds_tmgr_garbage_destroy()
LEMMA DestroySound ==
  ASSUME NEW s, NEW l, NEW tr, NEW h, Sound(s, l, tr, h), h # <<>>, NEW h2, h2 = Tail(h)
  PROVE  Sound(s, l \ Head(h).own, tr, h2) /\ Refs(s) \cap Head(h).own = {}
<1>1. h \in Seq(Batch) /\ GarbageInv(Refs(s), Unpropagated(s), l, tr, h)
  BY DEF Sound
<1>2. h2 \in Seq(Batch) /\ GarbageInv(Refs(s), Unpropagated(s), l \ Head(h).own, tr, h2)
  BY <1>1, GarbageGone
<1>3. Refs(s) \subseteq l \ Head(h).own
  BY <1>2 DEF GarbageInv
<1> QED  BY <1>2, <1>3 DEF Sound
=============================================================================
