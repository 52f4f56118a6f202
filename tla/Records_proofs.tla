---------------------------- MODULE Records_proofs ----------------------------
(***************************************************************************)
(* What the calls on a template keep, for every table of the constants:    *)
(* fds_template_ies_define() gives the same result whatever was defined    *)
(* before, and the view of a biflow template from the other direction      *)
(* mirrors its fields.  Nothing is assumed of the IE managers.             *)
(***************************************************************************)
EXTENDS Records, TLAPS

-----------------------------------------------------------------------------
(* The invariant *)

\* Flags of fields that fds_template_parse() sets, and those that belong to
\* a definition.
ParsedFieldFlags == {"SCOPE", "MULTI", "LAST"}
DefFlags == {"STRUCT", "REVERSE", "BKEY"}
ParsedTmpltFlags == {"MULTI", "DYNAMIC"}
TmpltDefFlags == {"BIFLOW", "STRUCT"}

IsField(f) ==
  f = [id |-> f.id, en |-> f.en, len |-> f.len, off |-> f.off, flags |-> f.flags, def |-> f.def]

IsTmplt(t) ==
  t = [type |-> t.type, id |-> t.id, scope |-> t.scope, fields |-> t.fields, rev |-> t.rev,
       flags |-> t.flags, dataLen |-> t.dataLen, raw |-> t.raw, opts |-> t.opts]

IsView(fields) ==
  /\ fields = [i \in DOMAIN fields |-> fields[i]]
  /\ \A i \in DOMAIN fields : IsField(fields[i])

\* The flags of every field come from parsing, from a definition, and from
\* the flow key k alone.
FieldFlagsOK(fields, k) ==
  \A i \in DOMAIN fields :
    /\ fields[i].flags \subseteq ParsedFieldFlags \cup DefFlags \cup {"FKEY"}
    /\ "FKEY" \in fields[i].flags <=> i - 1 \in k

\* A field and what it is from the other direction.
Mirrored(f, r) ==
  /\ r.len = f.len /\ r.off = f.off
  /\ f.def = NoElem => r.def = NoElem
  /\ f.def # NoElem /\ "BKEY" \notin f.flags =>
       /\ r.def = f.def.partner /\ SameIe(r, f.def.partner)
       /\ "REVERSE" \in r.flags <=> "REVERSE" \notin f.flags
  /\ "BKEY" \in f.flags => "BKEY" \in r.flags /\ "REVERSE" \notin f.flags

\* A field is marked as a reverse one when its definition is.
MarkedReverse(f) == "REVERSE" \in f.flags <=> f.def # NoElem /\ f.def.reverse

\* A template with the flow key k, the view from the other direction left out,
FieldsOK(t, k) ==
  /\ IsTmplt(t) /\ IsView(t.fields)
  /\ t.flags \subseteq ParsedTmpltFlags \cup TmpltDefFlags \cup {"FKEY"}
  /\ "FKEY" \in t.flags <=> k # {}
  /\ FieldFlagsOK(t.fields, k)
  /\ \A i \in DOMAIN t.fields : MarkedReverse(t.fields[i])
  /\ "BIFLOW" \notin t.flags => t.rev = <<>>

\* and with it.
TmpltOK(t, k) ==
  /\ FieldsOK(t, k)
  /\ t.rev # <<>> =>
       /\ IsView(t.rev) /\ DOMAIN t.rev = DOMAIN t.fields
       /\ \A i \in DOMAIN t.rev : Mirrored(t.fields[i], t.rev[i])

RInv == TmpltOK(tmplt, key)

-----------------------------------------------------------------------------
(* One field of a biflow template *)

\* What template_ies_biflow() needs of a field f and its counterpart r.
Ready(f, r) ==
  /\ IsField(f) /\ IsField(r) /\ MarkedReverse(f)
  /\ r.len = f.len /\ r.off = f.off
  /\ f.def = NoElem => r.def = NoElem
  /\ r.def # NoElem => Mirrored(f, r)

WithFlags(f, flags) == [f EXCEPT !.flags = flags]
Keyed(f) == WithFlags(f, f.flags \cup {"BKEY"})
Unkeyed(f) == WithFlags(f, f.flags \ {"BKEY"})

\* The cases of BiflowField, in its order.
NoDefinition(f) == f.def = NoElem
Done(f, r) == f.def # NoElem /\ r.def # NoElem
OfReverse(f, r) == f.def # NoElem /\ r.def = NoElem /\ f.def.reverse
OfForward(fields, f, r) ==
  /\ f.def # NoElem /\ r.def = NoElem /\ ~f.def.reverse
  /\ f.def.partner # NoElem /\ HasIe(fields, f.def.partner.en, f.def.partner.id)
OfKey(fields, f, r) ==
  /\ f.def # NoElem /\ r.def = NoElem /\ ~f.def.reverse
  /\ ~(f.def.partner # NoElem /\ HasIe(fields, f.def.partner.en, f.def.partner.id))

SwappedKey(mgr, f, r) ==
  LET swapped == SwapIe(mgr, f.en, f.id)
  IN  IF swapped # 0
      THEN [Keyed(Unkeyed(r)) EXCEPT !.id = swapped, !.def = Lookup(mgr, r.en, swapped)]
      ELSE [Keyed(Unkeyed(r)) EXCEPT !.def = f.def]

\* template_ies_biflow() of a field, case by case.
ByCase(b, mgr, fields, f, r) ==
  /\ NoDefinition(f) => b = <<Keyed(f), Keyed(r)>>
  /\ Done(f, r) => b = <<f, r>>
  /\ OfReverse(f, r) =>
       b = <<Unkeyed(f), Renamed(WithFlags(Unkeyed(r), Unkeyed(r).flags \ {"REVERSE"}), f.def.partner)>>
  /\ OfForward(fields, f, r) =>
       b = <<Unkeyed(f), Renamed(WithFlags(Unkeyed(r), Unkeyed(r).flags \cup {"REVERSE"}), f.def.partner)>>
  /\ OfKey(fields, f, r) => b = <<Keyed(Unkeyed(f)), SwappedKey(mgr, f, r)>>
  /\ NoDefinition(f) \/ Done(f, r) \/ OfReverse(f, r) \/ OfForward(fields, f, r) \/ OfKey(fields, f, r)

LEMMA BiflowCases ==
  ASSUME NEW mgr, NEW fields, NEW f, NEW r
  PROVE  ByCase(BiflowField(mgr, fields, f, r), mgr, fields, f, r)
<1> DEFINE b == BiflowField(mgr, fields, f, r)
<1>1. NoDefinition(f) => b = <<Keyed(f), Keyed(r)>>
  BY DEF BiflowField, NoDefinition, Keyed, WithFlags
<1>2. Done(f, r) => b = <<f, r>>
  BY DEF BiflowField, Done
<1>3. OfReverse(f, r) =>
        b = <<Unkeyed(f), Renamed(WithFlags(Unkeyed(r), Unkeyed(r).flags \ {"REVERSE"}), f.def.partner)>>
  BY DEF BiflowField, OfReverse, Unkeyed, WithFlags
<1>4. OfForward(fields, f, r) =>
        b = <<Unkeyed(f), Renamed(WithFlags(Unkeyed(r), Unkeyed(r).flags \cup {"REVERSE"}), f.def.partner)>>
  BY DEF BiflowField, OfForward, Unkeyed, WithFlags
<1>5. OfKey(fields, f, r) => b = <<Keyed(Unkeyed(f)), SwappedKey(mgr, f, r)>>
  BY DEF BiflowField, OfKey, Keyed, Unkeyed, WithFlags, SwappedKey
<1>6. NoDefinition(f) \/ Done(f, r) \/ OfReverse(f, r) \/ OfForward(fields, f, r) \/ OfKey(fields, f, r)
  BY DEF NoDefinition, Done, OfReverse, OfForward, OfKey
<1> HIDE DEF b
<1>7. ByCase(b, mgr, fields, f, r)
  BY <1>1, <1>2, <1>3, <1>4, <1>5, <1>6 DEF ByCase
<1> QED BY <1>7 DEF b

LEMMA WithFlagsFields ==
  ASSUME NEW f, IsField(f), NEW flags
  PROVE  /\ IsField(WithFlags(f, flags))
         /\ WithFlags(f, flags) = [id |-> f.id, en |-> f.en, len |-> f.len, off |-> f.off,
                                   flags |-> flags, def |-> f.def]
         /\ WithFlags(f, flags).id = f.id /\ WithFlags(f, flags).en = f.en
         /\ WithFlags(f, flags).len = f.len /\ WithFlags(f, flags).off = f.off
         /\ WithFlags(f, flags).flags = flags /\ WithFlags(f, flags).def = f.def
BY DEF IsField, WithFlags

LEMMA RenamedFields ==
  ASSUME NEW r, IsField(r), NEW elem
  PROVE  LET q == Renamed(r, elem)
         IN  /\ IsField(q) /\ q.flags = r.flags /\ q.len = r.len /\ q.off = r.off
             /\ q.def = elem /\ q.id = elem.id /\ q.en = elem.en
<1> DEFINE q == Renamed(r, elem)
<1>1. q.def = elem /\ q.id = elem.id /\ q.en = elem.en
  BY DEF Renamed, IsField
<1>2. q.flags = r.flags /\ q.len = r.len /\ q.off = r.off
  BY DEF Renamed, IsField
<1>3. DOMAIN q = {"id", "en", "len", "off", "flags", "def"} /\ q = [x \in DOMAIN q |-> q[x]]
  BY DEF Renamed, IsField
<1>4. IsField(q)
  <2> HIDE DEF q
  <2> QED BY <1>3 DEF IsField
<1> QED BY <1>1, <1>2, <1>4
\* What a field and its counterpart become.
MirrorPair(b, f) ==
  /\ IsField(b[1]) /\ IsField(b[2]) /\ MarkedReverse(b[1]) /\ Mirrored(b[1], b[2])
  /\ b[1].flags \in {f.flags, f.flags \cup {"BKEY"}, f.flags \ {"BKEY"}}

\* A field that is ready stays marked, and its counterpart mirrors it.
LEMMA BiflowFieldMirrors ==
  ASSUME NEW mgr, NEW fields, NEW f, NEW r, Ready(f, r)
  PROVE  MirrorPair(BiflowField(mgr, fields, f, r), f)
<1> DEFINE b == BiflowField(mgr, fields, f, r)
<1>0. ByCase(b, mgr, fields, f, r)
  BY BiflowCases
<1> HIDE DEF b
<1> SUFFICES MirrorPair(b, f)
  BY DEF b
<1>1. /\ IsField(f) /\ IsField(r) /\ MarkedReverse(f)
      /\ r.len = f.len /\ r.off = f.off
      /\ f.def = NoElem => r.def = NoElem
      /\ r.def # NoElem => Mirrored(f, r)
  BY DEF Ready
<1>2. CASE NoDefinition(f)
  <2>1. b = <<Keyed(f), Keyed(r)>>
    BY <1>2, <1>0 DEF ByCase
  <2>2. /\ IsField(Keyed(f)) /\ IsField(Keyed(r))
        /\ Keyed(f).flags = f.flags \cup {"BKEY"} /\ Keyed(f).def = NoElem
        /\ Keyed(f).len = f.len /\ Keyed(f).off = f.off
        /\ Keyed(r).flags = r.flags \cup {"BKEY"} /\ Keyed(r).def = NoElem
        /\ Keyed(r).len = r.len /\ Keyed(r).off = r.off
    BY <1>1, <1>2, WithFlagsFields DEF Keyed, NoDefinition
  <2>3. "REVERSE" \notin Keyed(f).flags
    BY <1>1, <1>2, <2>2 DEF MarkedReverse, NoDefinition
  <2>4. MarkedReverse(Keyed(f)) /\ Mirrored(Keyed(f), Keyed(r))
    BY <1>1, <2>2, <2>3 DEF MarkedReverse, Mirrored
  <2> QED BY <2>1, <2>2, <2>4 DEF MirrorPair
<1>3. CASE Done(f, r)
  <2>1. b = <<f, r>>
    BY <1>3, <1>0 DEF ByCase
  <2> QED BY <1>1, <1>3, <2>1 DEF Done, MirrorPair
<1>4. CASE OfReverse(f, r)
  <2> DEFINE g == WithFlags(Unkeyed(r), Unkeyed(r).flags \ {"REVERSE"})
             q == Renamed(g, f.def.partner)
  <2>1. b = <<Unkeyed(f), q>>
    BY <1>4, <1>0 DEF ByCase
  <2>2. /\ IsField(Unkeyed(f))
        /\ Unkeyed(f).flags = f.flags \ {"BKEY"} /\ Unkeyed(f).def = f.def
        /\ Unkeyed(f).len = f.len /\ Unkeyed(f).off = f.off
        /\ IsField(Unkeyed(r))
        /\ Unkeyed(r).len = r.len /\ Unkeyed(r).off = r.off
    BY <1>1, WithFlagsFields DEF Unkeyed
  <2>3. /\ IsField(g) /\ "REVERSE" \notin g.flags
        /\ g.len = r.len /\ g.off = r.off
    BY <2>2, WithFlagsFields
  <2> HIDE DEF g
  <2>4. /\ IsField(q) /\ q.flags = g.flags /\ q.len = g.len /\ q.off = g.off
        /\ q.def = f.def.partner /\ q.id = f.def.partner.id /\ q.en = f.def.partner.en
    BY <2>3, RenamedFields
  <2> HIDE DEF q
  <2>5. "REVERSE" \in f.flags
    BY <1>1, <1>4 DEF MarkedReverse, OfReverse
  <2>6. MarkedReverse(Unkeyed(f))
    BY <1>1, <1>4, <2>2, <2>5 DEF MarkedReverse, OfReverse
  <2>7. Mirrored(Unkeyed(f), q)
    BY <1>1, <1>4, <2>2, <2>3, <2>4, <2>5 DEF Mirrored, SameIe, OfReverse
  <2> QED BY <2>1, <2>2, <2>4, <2>6, <2>7 DEF MirrorPair
<1>5. CASE OfForward(fields, f, r)
  <2> DEFINE g == WithFlags(Unkeyed(r), Unkeyed(r).flags \cup {"REVERSE"})
             q == Renamed(g, f.def.partner)
  <2>1. b = <<Unkeyed(f), q>>
    BY <1>5, <1>0 DEF ByCase
  <2>2. /\ IsField(Unkeyed(f))
        /\ Unkeyed(f).flags = f.flags \ {"BKEY"} /\ Unkeyed(f).def = f.def
        /\ Unkeyed(f).len = f.len /\ Unkeyed(f).off = f.off
        /\ IsField(Unkeyed(r))
        /\ Unkeyed(r).len = r.len /\ Unkeyed(r).off = r.off
    BY <1>1, WithFlagsFields DEF Unkeyed
  <2>3. /\ IsField(g) /\ "REVERSE" \in g.flags
        /\ g.len = r.len /\ g.off = r.off
    BY <2>2, WithFlagsFields
  <2> HIDE DEF g
  <2>4. /\ IsField(q) /\ q.flags = g.flags /\ q.len = g.len /\ q.off = g.off
        /\ q.def = f.def.partner /\ q.id = f.def.partner.id /\ q.en = f.def.partner.en
    BY <2>3, RenamedFields
  <2> HIDE DEF q
  <2>5. "REVERSE" \notin f.flags
    BY <1>1, <1>5 DEF MarkedReverse, OfForward
  <2>6. MarkedReverse(Unkeyed(f))
    BY <1>1, <1>5, <2>2, <2>5 DEF MarkedReverse, OfForward
  <2>7. Mirrored(Unkeyed(f), q)
    BY <1>1, <1>5, <2>2, <2>3, <2>4, <2>5 DEF Mirrored, SameIe, OfForward
  <2> QED BY <2>1, <2>2, <2>4, <2>6, <2>7 DEF MirrorPair
<1>6. CASE OfKey(fields, f, r)
  <2> DEFINE g == Keyed(Unkeyed(f))
             h == Keyed(Unkeyed(r))
             q == SwappedKey(mgr, f, r)
  <2>1. b = <<g, q>>
    BY <1>6, <1>0 DEF ByCase
  <2>2. /\ IsField(Unkeyed(f))
        /\ Unkeyed(f).flags = f.flags \ {"BKEY"} /\ Unkeyed(f).def = f.def
        /\ Unkeyed(f).len = f.len /\ Unkeyed(f).off = f.off
        /\ IsField(Unkeyed(r))
        /\ Unkeyed(r).len = r.len /\ Unkeyed(r).off = r.off
    BY <1>1, WithFlagsFields DEF Unkeyed
  <2>3. /\ IsField(g) /\ g.flags = (f.flags \ {"BKEY"}) \cup {"BKEY"} /\ g.def = f.def
        /\ g.len = f.len /\ g.off = f.off
        /\ IsField(h) /\ "BKEY" \in h.flags /\ h.len = r.len /\ h.off = r.off
    BY <2>2, WithFlagsFields DEF Keyed
  <2>4. g.flags = f.flags \cup {"BKEY"}
    BY <2>3
  <2> HIDE DEF g, h
  <2>5. /\ IsField(q) /\ "BKEY" \in q.flags /\ q.len = h.len /\ q.off = h.off
    <3>1. q = [h EXCEPT !.id = SwapIe(mgr, f.en, f.id), !.def = Lookup(mgr, r.en, SwapIe(mgr, f.en, f.id))]
          \/ q = [h EXCEPT !.def = f.def]
      BY DEF SwappedKey, h
    <3> HIDE DEF q
    <3>2. ASSUME NEW id, NEW def, q = [h EXCEPT !.id = id, !.def = def]
          PROVE  /\ IsField(q) /\ q.flags = h.flags /\ q.len = h.len /\ q.off = h.off
      BY <2>3, <3>2 DEF IsField
    <3>3. ASSUME q = [h EXCEPT !.def = f.def]
          PROVE  /\ IsField(q) /\ q.flags = h.flags /\ q.len = h.len /\ q.off = h.off
      BY <2>3, <3>3 DEF IsField
    <3> QED BY <2>3, <3>1, <3>2, <3>3
  <2> HIDE DEF q
  <2>6. "REVERSE" \notin f.flags
    BY <1>1, <1>6 DEF MarkedReverse, OfKey
  <2>7. MarkedReverse(g)
    BY <1>1, <1>6, <2>3, <2>4, <2>6 DEF MarkedReverse, OfKey
  <2>8. Mirrored(g, q)
    BY <1>1, <1>6, <2>3, <2>4, <2>5, <2>6 DEF Mirrored, OfKey
  <2> QED BY <2>1, <2>3, <2>4, <2>5, <2>7, <2>8 DEF MirrorPair
<1>7. MirrorPair(b, f)
  BY <1>0, <1>2, <1>3, <1>4, <1>5, <1>6 DEF ByCase
<1> QED BY <1>7 DEF b

-----------------------------------------------------------------------------
(* All fields of a template *)

\* q is t with other fields, another view and other flags.
IsUpdate(q, t, fields, rev, flags) ==
  /\ IsTmplt(q)
  /\ q.fields = fields /\ q.rev = rev /\ q.flags = flags
  /\ q.type = t.type /\ q.id = t.id /\ q.scope = t.scope
  /\ q.dataLen = t.dataLen /\ q.raw = t.raw /\ q.opts = t.opts

LEMMA UpdateAll ==
  ASSUME NEW t, IsTmplt(t), NEW fields, NEW rev, NEW flags
  PROVE  IsUpdate([t EXCEPT !.fields = fields, !.rev = rev, !.flags = flags], t, fields, rev, flags)
<1> DEFINE q == [t EXCEPT !.fields = fields, !.rev = rev, !.flags = flags]
<1>1. q.fields = fields /\ q.rev = rev /\ q.flags = flags
  BY DEF IsTmplt
<1>2. /\ q.type = t.type /\ q.id = t.id /\ q.scope = t.scope
      /\ q.dataLen = t.dataLen /\ q.raw = t.raw /\ q.opts = t.opts
  BY DEF IsTmplt
<1>3. /\ DOMAIN q = {"type", "id", "scope", "fields", "rev", "flags", "dataLen", "raw", "opts"}
      /\ q = [x \in DOMAIN q |-> q[x]]
  BY DEF IsTmplt
<1> HIDE DEF q
<1>4. IsTmplt(q)
  BY <1>3 DEF IsTmplt
<1>5. IsUpdate(q, t, fields, rev, flags)
  BY <1>1, <1>2, <1>4 DEF IsUpdate
<1> QED BY <1>5 DEF q

LEMMA UpdateViews ==
  ASSUME NEW t, IsTmplt(t), NEW fields, NEW rev
  PROVE  IsUpdate([t EXCEPT !.fields = fields, !.rev = rev], t, fields, rev, t.flags)
<1> DEFINE q == [t EXCEPT !.fields = fields, !.rev = rev]
<1>1. q.fields = fields /\ q.rev = rev /\ q.flags = t.flags
  BY DEF IsTmplt
<1>2. /\ q.type = t.type /\ q.id = t.id /\ q.scope = t.scope
      /\ q.dataLen = t.dataLen /\ q.raw = t.raw /\ q.opts = t.opts
  BY DEF IsTmplt
<1>3. /\ DOMAIN q = {"type", "id", "scope", "fields", "rev", "flags", "dataLen", "raw", "opts"}
      /\ q = [x \in DOMAIN q |-> q[x]]
  BY DEF IsTmplt
<1> HIDE DEF q
<1>4. IsTmplt(q)
  BY <1>3 DEF IsTmplt
<1>5. IsUpdate(q, t, fields, rev, t.flags)
  BY <1>1, <1>2, <1>4 DEF IsUpdate
<1> QED BY <1>5 DEF q

LEMMA UpdatesEqual ==
  ASSUME NEW q, NEW p, NEW t, NEW u, NEW fields, NEW rev, NEW flags,
         IsUpdate(q, t, fields, rev, flags), IsUpdate(p, u, fields, rev, flags),
         t.type = u.type, t.id = u.id, t.scope = u.scope, t.dataLen = u.dataLen, t.raw = u.raw, t.opts = u.opts
  PROVE  q = p
BY DEF IsUpdate, IsTmplt

\* The view that template_ies_biflow() starts from, and the fields it makes.
View(t) ==
  IF t.rev = <<>> THEN [i \in DOMAIN t.fields |-> [t.fields[i] EXCEPT !.def = NoElem]] ELSE t.rev
Pair(t, mgr, i) == BiflowField(mgr, t.fields, t.fields[i], View(t)[i])
FirstOfPairs(t, mgr) == [i \in DOMAIN t.fields |-> Pair(t, mgr, i)[1]]
SecondOfPairs(t, mgr) == [i \in DOMAIN t.fields |-> Pair(t, mgr, i)[2]]

LEMMA BiflowUpdate ==
  ASSUME NEW t, NEW mgr, IsTmplt(t)
  PROVE  /\ "BIFLOW" \notin t.flags => Biflow(t, mgr) = t
         /\ "BIFLOW" \in t.flags =>
              IsUpdate(Biflow(t, mgr), t, FirstOfPairs(t, mgr), SecondOfPairs(t, mgr), t.flags)
<1>1. "BIFLOW" \notin t.flags => Biflow(t, mgr) = t
  BY DEF Biflow
<1>2. ASSUME "BIFLOW" \in t.flags
      PROVE  IsUpdate(Biflow(t, mgr), t, FirstOfPairs(t, mgr), SecondOfPairs(t, mgr), t.flags)
  <2> DEFINE both == [i \in DOMAIN t.fields |-> Pair(t, mgr, i)]
             fst == [i \in DOMAIN t.fields |-> both[i][1]]
             snd == [i \in DOMAIN t.fields |-> both[i][2]]
             p == [t EXCEPT !.fields = fst, !.rev = snd]
  <2>1. Biflow(t, mgr) = p
    BY <1>2 DEF Biflow, Pair, View
  <2>2. \A i \in DOMAIN t.fields : both[i] = Pair(t, mgr, i)
    OBVIOUS
  <2> HIDE DEF both
  <2>3. fst = FirstOfPairs(t, mgr) /\ snd = SecondOfPairs(t, mgr)
    BY <2>2 DEF FirstOfPairs, SecondOfPairs
  <2> HIDE DEF fst, snd
  <2>4. IsUpdate(p, t, fst, snd, t.flags)
    BY UpdateViews
  <2> HIDE DEF p
  <2> QED BY <2>1, <2>3, <2>4
<1> QED BY <1>1, <1>2

\* A template that is ready for template_ies_biflow().
ReadyTmplt(t, k) ==
  /\ FieldsOK(t, k)
  /\ t.rev # <<>> =>
       /\ IsView(t.rev) /\ DOMAIN t.rev = DOMAIN t.fields
       /\ \A i \in DOMAIN t.rev : Ready(t.fields[i], t.rev[i])

LEMMA ViewReady ==
  ASSUME NEW t, NEW k, ReadyTmplt(t, k), NEW i \in DOMAIN t.fields
  PROVE  Ready(t.fields[i], View(t)[i])
<1>1. IsField(t.fields[i]) /\ MarkedReverse(t.fields[i])
  BY DEF ReadyTmplt, FieldsOK, IsView
<1>2. CASE t.rev = <<>>
  <2> DEFINE f == t.fields[i]
             r == [f EXCEPT !.def = NoElem]
  <2>1. View(t)[i] = r
    BY <1>2 DEF View
  <2>2. IsField(r) /\ r.len = f.len /\ r.off = f.off /\ r.def = NoElem
    BY <1>1 DEF IsField
  <2> QED BY <1>1, <2>1, <2>2 DEF Ready
<1>3. CASE t.rev # <<>>
  BY <1>3 DEF View, ReadyTmplt
<1> QED BY <1>2, <1>3

LEMMA BiflowKeeps ==
  ASSUME NEW t, NEW k, NEW mgr, ReadyTmplt(t, k)
  PROVE  TmpltOK(Biflow(t, mgr), k)
<1> DEFINE q == Biflow(t, mgr)
           fst == FirstOfPairs(t, mgr)
           snd == SecondOfPairs(t, mgr)
<1>1. FieldsOK(t, k) /\ IsTmplt(t)
  BY DEF ReadyTmplt, FieldsOK
<1>2. CASE "BIFLOW" \notin t.flags
  <2>1. q = t /\ t.rev = <<>>
    BY <1>1, <1>2, BiflowUpdate DEF FieldsOK
  <2> QED BY <1>1, <2>1 DEF TmpltOK
<1>3. CASE "BIFLOW" \in t.flags
  <2>1. IsUpdate(q, t, fst, snd, t.flags)
    BY <1>1, <1>3, BiflowUpdate
  <2>2. IsTmplt(q) /\ q.fields = fst /\ q.rev = snd /\ q.flags = t.flags
    BY <2>1 DEF IsUpdate
  <2>3. /\ DOMAIN fst = DOMAIN t.fields /\ DOMAIN snd = DOMAIN t.fields
        /\ fst = [i \in DOMAIN fst |-> fst[i]] /\ snd = [i \in DOMAIN snd |-> snd[i]]
        /\ \A i \in DOMAIN t.fields : fst[i] = Pair(t, mgr, i)[1] /\ snd[i] = Pair(t, mgr, i)[2]
    BY DEF FirstOfPairs, SecondOfPairs
  <2>4. ASSUME NEW i \in DOMAIN t.fields
        PROVE  MirrorPair(Pair(t, mgr, i), t.fields[i])
    BY ViewReady, BiflowFieldMirrors DEF Pair
  <2> HIDE DEF q, fst, snd
  <2>5. ASSUME NEW i \in DOMAIN t.fields
        PROVE  /\ IsField(fst[i]) /\ IsField(snd[i]) /\ MarkedReverse(fst[i]) /\ Mirrored(fst[i], snd[i])
               /\ fst[i].flags \in {t.fields[i].flags, t.fields[i].flags \cup {"BKEY"}, t.fields[i].flags \ {"BKEY"}}
    BY <2>3, <2>4 DEF MirrorPair
  <2>6. IsView(fst) /\ IsView(snd)
    BY <2>3, <2>5 DEF IsView
  <2>7. FieldFlagsOK(fst, k)
    <3> SUFFICES ASSUME NEW i \in DOMAIN t.fields
                 PROVE  /\ fst[i].flags \subseteq ParsedFieldFlags \cup DefFlags \cup {"FKEY"}
                        /\ "FKEY" \in fst[i].flags <=> i - 1 \in k
      BY <2>3 DEF FieldFlagsOK
    <3> QED BY <1>1, <2>5 DEF FieldsOK, FieldFlagsOK, DefFlags
  <2>8. FieldsOK(q, k)
    BY <1>1, <1>3, <2>2, <2>3, <2>5, <2>6, <2>7 DEF FieldsOK
  <2>9. TmpltOK(q, k)
    BY <2>2, <2>3, <2>5, <2>6, <2>8 DEF TmpltOK
  <2> QED BY <2>9 DEF q
<1> QED BY <1>2, <1>3

-----------------------------------------------------------------------------
(* fds_template_ies_define() *)

\* Its steps before template_ies_biflow(): the definition found for field i,
\* whether the field keeps the one it has, and what the field becomes.
Kept(t, preserve, i) == preserve /\ t.fields[i].def # NoElem
Found(t, mgr, preserve, i) ==
  LET e == Lookup(mgr, t.fields[i].en, t.fields[i].id)
  IN  IF preserve /\ ~(preserve /\ "BIFLOW" \in t.flags) /\ e # NoElem /\ e.reverse THEN NoElem ELSE e
Features(e) ==
  IF e = NoElem THEN {}
  ELSE (IF e.reverse THEN {"REVERSE"} ELSE {}) \cup (IF e.struct THEN {"STRUCT"} ELSE {})
Redefined(f, e) == [f EXCEPT !.def = e, !.flags = (@ \ {"STRUCT", "REVERSE", "BKEY"}) \cup Features(e)]
DefinedField(t, mgr, preserve, i) ==
  IF Kept(t, preserve, i) THEN t.fields[i] ELSE Redefined(t.fields[i], Found(t, mgr, preserve, i))
DefinedFields(t, mgr, preserve) == [i \in DOMAIN t.fields |-> DefinedField(t, mgr, preserve, i)]
Fresh(t, mgr, preserve) ==
  {i \in DOMAIN t.fields : ~Kept(t, preserve, i) /\ Found(t, mgr, preserve, i) # NoElem}
DefinedFlags(t, mgr, preserve) ==
  (t.flags \ {"BIFLOW", "STRUCT"})
    \cup (IF (preserve /\ "BIFLOW" \in t.flags) \/ \E i \in Fresh(t, mgr, preserve) : Found(t, mgr, preserve, i).reverse
          THEN {"BIFLOW"} ELSE {})
    \cup (IF (preserve /\ "STRUCT" \in t.flags) \/ \E i \in Fresh(t, mgr, preserve) : Found(t, mgr, preserve, i).struct
          THEN {"STRUCT"} ELSE {})
Defined(t, mgr, preserve) ==
  [t EXCEPT !.fields = DefinedFields(t, mgr, preserve),
            !.rev = IF preserve THEN @ ELSE <<>>,
            !.flags = DefinedFlags(t, mgr, preserve)]

LEMMA IesDefineSteps ==
  ASSUME NEW t, NEW mgr, NEW preserve
  PROVE  IesDefine(t, mgr, preserve) =
           IF mgr = NoMgr /\ preserve THEN t ELSE Biflow(Defined(t, mgr, preserve), mgr)
BY DEF IesDefine, Defined, DefinedFields, DefinedFlags, DefinedField, Redefined, Features, Fresh, Found, Kept

LEMMA DefinedUpdate ==
  ASSUME NEW t, IsTmplt(t), NEW mgr, NEW preserve \in BOOLEAN
  PROVE  IsUpdate(Defined(t, mgr, preserve), t, DefinedFields(t, mgr, preserve),
                  IF preserve THEN t.rev ELSE <<>>, DefinedFlags(t, mgr, preserve))
<1> DEFINE fields == DefinedFields(t, mgr, preserve)
           rev == IF preserve THEN t.rev ELSE <<>>
           flags == DefinedFlags(t, mgr, preserve)
           q == [t EXCEPT !.fields = fields, !.rev = rev, !.flags = flags]
<1>1. Defined(t, mgr, preserve) = q
  BY DEF Defined, IsTmplt
<1> HIDE DEF fields, rev, flags
<1>2. IsUpdate(q, t, fields, rev, flags)
  BY UpdateAll
<1> HIDE DEF q
<1>3. IsUpdate(Defined(t, mgr, preserve), t, fields, rev, flags)
  BY <1>1, <1>2
<1> QED BY <1>3 DEF fields, rev, flags

LEMMA RedefinedFields ==
  ASSUME NEW f, IsField(f), NEW e
  PROVE  LET q == Redefined(f, e)
         IN  /\ IsField(q) /\ q.def = e /\ q.flags = (f.flags \ {"STRUCT", "REVERSE", "BKEY"}) \cup Features(e)
             /\ q.id = f.id /\ q.en = f.en /\ q.len = f.len /\ q.off = f.off
<1> DEFINE q == Redefined(f, e)
<1>1. q.def = e /\ q.flags = (f.flags \ {"STRUCT", "REVERSE", "BKEY"}) \cup Features(e)
  BY DEF Redefined, IsField
<1>2. q.id = f.id /\ q.en = f.en /\ q.len = f.len /\ q.off = f.off
  BY DEF Redefined, IsField
<1>3. DOMAIN q = {"id", "en", "len", "off", "flags", "def"} /\ q = [x \in DOMAIN q |-> q[x]]
  BY DEF Redefined, IsField
<1>4. IsField(q)
  <2> HIDE DEF q
  <2> QED BY <1>3 DEF IsField
<1> QED BY <1>1, <1>2, <1>4

\* A field that was given a definition anew, or kept the one it has.
LEMMA DefinedFieldOK ==
  ASSUME NEW t, NEW k, FieldsOK(t, k), NEW mgr, NEW preserve \in BOOLEAN, NEW i \in DOMAIN t.fields
  PROVE  LET q == DefinedField(t, mgr, preserve, i)
         IN  /\ IsField(q) /\ MarkedReverse(q)
             /\ q.len = t.fields[i].len /\ q.off = t.fields[i].off
             /\ q.id = t.fields[i].id /\ q.en = t.fields[i].en
             /\ q.flags \subseteq ParsedFieldFlags \cup DefFlags \cup {"FKEY"}
             /\ "FKEY" \in q.flags <=> i - 1 \in k
<1> DEFINE f == t.fields[i]
           e == Found(t, mgr, preserve, i)
           q == DefinedField(t, mgr, preserve, i)
<1>1. /\ IsField(f) /\ MarkedReverse(f)
      /\ f.flags \subseteq ParsedFieldFlags \cup DefFlags \cup {"FKEY"}
      /\ "FKEY" \in f.flags <=> i - 1 \in k
  BY DEF FieldsOK, IsView, FieldFlagsOK
<1>2. CASE Kept(t, preserve, i)
  BY <1>1, <1>2 DEF DefinedField
<1>3. CASE ~Kept(t, preserve, i)
  <2>1. q = Redefined(f, e)
    BY <1>3 DEF DefinedField
  <2> HIDE DEF q, f, e
  <2>2. /\ IsField(q) /\ q.def = e /\ q.flags = (f.flags \ {"STRUCT", "REVERSE", "BKEY"}) \cup Features(e)
        /\ q.id = f.id /\ q.en = f.en /\ q.len = f.len /\ q.off = f.off
    BY <1>1, <2>1, RedefinedFields
  <2>3. /\ Features(e) \subseteq {"STRUCT", "REVERSE"}
        /\ "REVERSE" \in Features(e) <=> e # NoElem /\ e.reverse
    BY DEF Features
  <2>4. MarkedReverse(q)
    BY <2>2, <2>3 DEF MarkedReverse
  <2>5. q.flags \subseteq ParsedFieldFlags \cup DefFlags \cup {"FKEY"} /\ ("FKEY" \in q.flags <=> i - 1 \in k)
    BY <1>1, <2>2, <2>3 DEF DefFlags
  <2> QED BY <2>2, <2>4, <2>5 DEF f, q
<1> QED BY <1>2, <1>3

LEMMA DefinedReady ==
  ASSUME NEW t, NEW k, TmpltOK(t, k), NEW mgr, NEW preserve \in BOOLEAN
  PROVE  ReadyTmplt(Defined(t, mgr, preserve), k)
<1> DEFINE q == Defined(t, mgr, preserve)
           fields == DefinedFields(t, mgr, preserve)
           rev == IF preserve THEN t.rev ELSE <<>>
           flags == DefinedFlags(t, mgr, preserve)
<1>1. FieldsOK(t, k) /\ IsTmplt(t)
  BY DEF TmpltOK, FieldsOK
<1>2. IsTmplt(q) /\ q.fields = fields /\ q.rev = rev /\ q.flags = flags
  BY <1>1, DefinedUpdate DEF IsUpdate
<1>3. /\ DOMAIN fields = DOMAIN t.fields /\ fields = [i \in DOMAIN fields |-> fields[i]]
      /\ \A i \in DOMAIN t.fields : fields[i] = DefinedField(t, mgr, preserve, i)
  BY DEF DefinedFields
<1>4. /\ flags \subseteq ParsedTmpltFlags \cup TmpltDefFlags \cup {"FKEY"}
      /\ "FKEY" \in flags <=> "FKEY" \in t.flags
      /\ preserve /\ "BIFLOW" \in t.flags => "BIFLOW" \in flags
  <2>1. /\ DefinedFlags(t, mgr, preserve) \subseteq t.flags \cup TmpltDefFlags
        /\ "FKEY" \in DefinedFlags(t, mgr, preserve) <=> "FKEY" \in t.flags
        /\ preserve /\ "BIFLOW" \in t.flags => "BIFLOW" \in DefinedFlags(t, mgr, preserve)
    BY DEF DefinedFlags, TmpltDefFlags
  <2> QED BY <1>1, <2>1 DEF FieldsOK
<1> HIDE DEF q, fields, flags
<1>5. ASSUME NEW i \in DOMAIN t.fields
      PROVE  /\ IsField(fields[i]) /\ MarkedReverse(fields[i])
             /\ fields[i].len = t.fields[i].len /\ fields[i].off = t.fields[i].off
             /\ fields[i].flags \subseteq ParsedFieldFlags \cup DefFlags \cup {"FKEY"}
             /\ "FKEY" \in fields[i].flags <=> i - 1 \in k
  BY <1>1, <1>3, DefinedFieldOK
<1>6. FieldsOK(q, k)
  <2>1. IsView(fields)
    BY <1>3, <1>5 DEF IsView
  <2>2. FieldFlagsOK(fields, k)
    BY <1>3, <1>5 DEF FieldFlagsOK
  <2>3. "BIFLOW" \notin flags => rev = <<>>
    BY <1>1, <1>4 DEF FieldsOK
  <2> QED BY <1>1, <1>2, <1>3, <1>4, <1>5, <2>1, <2>2, <2>3 DEF FieldsOK
<1>7. ASSUME rev # <<>>
      PROVE  /\ IsView(rev) /\ DOMAIN rev = DOMAIN fields
             /\ \A i \in DOMAIN rev : Ready(fields[i], rev[i])
  <2>1. preserve /\ rev = t.rev /\ t.rev # <<>>
    BY <1>7
  <2>2. /\ IsView(rev) /\ DOMAIN rev = DOMAIN t.fields
        /\ \A i \in DOMAIN rev : Mirrored(t.fields[i], rev[i])
    BY <2>1 DEF TmpltOK
  <2> HIDE DEF rev
  <2>3. ASSUME NEW i \in DOMAIN rev
        PROVE  Ready(fields[i], rev[i])
    <3>1. IsField(rev[i]) /\ Mirrored(t.fields[i], rev[i]) /\ i \in DOMAIN t.fields
      BY <2>2, <2>3 DEF IsView
    <3>2. CASE t.fields[i].def # NoElem
      <4>1. fields[i] = t.fields[i]
        BY <1>3, <2>1, <3>1, <3>2 DEF DefinedField, Kept
      <4> QED BY <1>5, <3>1, <3>2, <4>1 DEF Ready, Mirrored
    <3>3. CASE t.fields[i].def = NoElem
      BY <1>5, <3>1, <3>3 DEF Ready, Mirrored
    <3> QED BY <3>2, <3>3
  <2> QED BY <1>3, <2>2, <2>3
<1>8. ReadyTmplt(q, k)
  BY <1>2, <1>6, <1>7 DEF ReadyTmplt
<1> QED BY <1>8 DEF q

\* fds_template_ies_define() keeps what is said of a template.
LEMMA IesDefineKeeps ==
  ASSUME NEW t, NEW k, TmpltOK(t, k), NEW mgr, NEW preserve \in BOOLEAN
  PROVE  TmpltOK(IesDefine(t, mgr, preserve), k)
<1>1. CASE mgr = NoMgr /\ preserve
  BY <1>1, IesDefineSteps
<1>2. CASE ~(mgr = NoMgr /\ preserve)
  <2>1. IesDefine(t, mgr, preserve) = Biflow(Defined(t, mgr, preserve), mgr)
    BY <1>2, IesDefineSteps
  <2> QED BY <2>1, DefinedReady, BiflowKeeps
<1> QED BY <1>1, <1>2

-----------------------------------------------------------------------------
(* fds_template_flowkey_define() *)

KeyFlags(flags, on) == IF on THEN flags \cup {"FKEY"} ELSE flags \ {"FKEY"}
KeyMarked(f, on) == WithFlags(f, KeyFlags(f.flags, on))
KeyView(fields, k) == [i \in DOMAIN fields |-> KeyMarked(fields[i], i - 1 \in k)]

LEMMA FlowkeyUpdate ==
  ASSUME NEW t, IsTmplt(t), NEW k
  PROVE  IsUpdate(FlowkeyDefine(t, k), t, KeyView(t.fields, k), KeyView(t.rev, k), KeyFlags(t.flags, k # {}))
<1> DEFINE fields == KeyView(t.fields, k)
           rev == KeyView(t.rev, k)
           flags == KeyFlags(t.flags, k # {})
           q == [t EXCEPT !.fields = fields, !.rev = rev, !.flags = flags]
           p == [t EXCEPT !.flags = flags, !.fields = fields, !.rev = rev]
<1>1. FlowkeyDefine(t, k) = p
  BY DEF FlowkeyDefine, KeyView, KeyMarked, KeyFlags, WithFlags, IsTmplt
<1> HIDE DEF fields, rev, flags
<1>2. p = q
  BY DEF IsTmplt
<1>3. IsUpdate(q, t, fields, rev, flags)
  BY UpdateAll
<1> HIDE DEF q, p
<1>4. IsUpdate(FlowkeyDefine(t, k), t, fields, rev, flags)
  BY <1>1, <1>2, <1>3
<1> QED BY <1>4 DEF fields, rev, flags

LEMMA KeyViewShape ==
  ASSUME NEW fields, NEW k
  PROVE  /\ DOMAIN KeyView(fields, k) = DOMAIN fields
         /\ KeyView(fields, k) = [i \in DOMAIN KeyView(fields, k) |-> KeyView(fields, k)[i]]
         /\ \A i \in DOMAIN fields : KeyView(fields, k)[i] = KeyMarked(fields[i], i - 1 \in k)
         /\ KeyView(<<>>, k) = <<>>
BY DEF KeyView

\* q is f with other flags.
IsFlagged(q, f, flags) ==
  /\ IsField(q) /\ q.flags = flags
  /\ q.id = f.id /\ q.en = f.en /\ q.len = f.len /\ q.off = f.off /\ q.def = f.def

LEMMA KeyMarkedFields ==
  ASSUME NEW f, IsField(f), NEW on
  PROVE  IsFlagged(KeyMarked(f, on), f, KeyFlags(f.flags, on))
BY WithFlagsFields DEF KeyMarked, IsFlagged

LEMMA FlowkeyKeeps ==
  ASSUME NEW t, NEW k, NEW old, TmpltOK(t, old)
  PROVE  TmpltOK(FlowkeyDefine(t, k), k)
<1> DEFINE q == FlowkeyDefine(t, k)
           fields == KeyView(t.fields, k)
           rev == KeyView(t.rev, k)
           flags == KeyFlags(t.flags, k # {})
<1>1. FieldsOK(t, old) /\ IsTmplt(t)
  BY DEF TmpltOK, FieldsOK
<1>2. IsTmplt(q) /\ q.fields = fields /\ q.rev = rev /\ q.flags = flags
  BY <1>1, FlowkeyUpdate DEF IsUpdate
<1>3. /\ DOMAIN fields = DOMAIN t.fields /\ fields = [i \in DOMAIN fields |-> fields[i]]
      /\ \A i \in DOMAIN t.fields : fields[i] = KeyMarked(t.fields[i], i - 1 \in k)
      /\ DOMAIN rev = DOMAIN t.rev /\ rev = [i \in DOMAIN rev |-> rev[i]]
      /\ \A i \in DOMAIN t.rev : rev[i] = KeyMarked(t.rev[i], i - 1 \in k)
      /\ t.rev = <<>> => rev = <<>>
  BY KeyViewShape
<1>4. /\ flags \subseteq ParsedTmpltFlags \cup TmpltDefFlags \cup {"FKEY"}
      /\ "FKEY" \in flags <=> k # {}
      /\ "BIFLOW" \in flags <=> "BIFLOW" \in t.flags
  BY <1>1 DEF KeyFlags, FieldsOK
<1> HIDE DEF q, fields, rev, flags
<1>5. ASSUME NEW i \in DOMAIN t.fields
      PROVE  /\ IsField(fields[i]) /\ MarkedReverse(fields[i])
             /\ fields[i].len = t.fields[i].len /\ fields[i].off = t.fields[i].off
             /\ fields[i].def = t.fields[i].def /\ fields[i].flags = KeyFlags(t.fields[i].flags, i - 1 \in k)
             /\ fields[i].flags \subseteq ParsedFieldFlags \cup DefFlags \cup {"FKEY"}
             /\ "FKEY" \in fields[i].flags <=> i - 1 \in k
  <2>1. /\ IsField(t.fields[i]) /\ MarkedReverse(t.fields[i])
        /\ t.fields[i].flags \subseteq ParsedFieldFlags \cup DefFlags \cup {"FKEY"}
    BY <1>1 DEF FieldsOK, IsView, FieldFlagsOK
  <2>2. /\ IsField(fields[i]) /\ fields[i].flags = KeyFlags(t.fields[i].flags, i - 1 \in k)
        /\ fields[i].len = t.fields[i].len /\ fields[i].off = t.fields[i].off
        /\ fields[i].def = t.fields[i].def
    BY <1>3, <2>1, KeyMarkedFields DEF IsFlagged
  <2> QED BY <2>1, <2>2 DEF KeyFlags, MarkedReverse
<1>6. FieldsOK(q, k)
  <2>1. IsView(fields)
    BY <1>3, <1>5 DEF IsView
  <2>2. FieldFlagsOK(fields, k)
    BY <1>3, <1>5 DEF FieldFlagsOK
  <2>3. "BIFLOW" \notin flags => rev = <<>>
    BY <1>1, <1>3, <1>4 DEF FieldsOK
  <2> QED BY <1>2, <1>3, <1>4, <1>5, <2>1, <2>2, <2>3 DEF FieldsOK
<1>7. ASSUME rev # <<>>
      PROVE  /\ IsView(rev) /\ DOMAIN rev = DOMAIN fields
             /\ \A i \in DOMAIN rev : Mirrored(fields[i], rev[i])
  <2>1. /\ IsView(t.rev) /\ DOMAIN t.rev = DOMAIN t.fields
        /\ \A i \in DOMAIN t.rev : Mirrored(t.fields[i], t.rev[i])
    BY <1>3, <1>7 DEF TmpltOK
  <2>2. ASSUME NEW i \in DOMAIN t.rev
        PROVE  IsField(rev[i]) /\ Mirrored(fields[i], rev[i])
    <3>1. /\ IsField(rev[i]) /\ rev[i].flags = KeyFlags(t.rev[i].flags, i - 1 \in k)
          /\ rev[i].len = t.rev[i].len /\ rev[i].off = t.rev[i].off
          /\ rev[i].id = t.rev[i].id /\ rev[i].en = t.rev[i].en
          /\ rev[i].def = t.rev[i].def
      BY <1>3, <2>1, KeyMarkedFields DEF IsView, IsFlagged
    <3>2. i \in DOMAIN t.fields /\ Mirrored(t.fields[i], t.rev[i])
      BY <2>1
    <3>3. /\ fields[i].len = t.fields[i].len /\ fields[i].off = t.fields[i].off
          /\ fields[i].def = t.fields[i].def
          /\ \A x \in {"BKEY", "REVERSE"} : x \in fields[i].flags <=> x \in t.fields[i].flags
      BY <1>5, <3>2 DEF KeyFlags
    <3>4. \A x \in {"BKEY", "REVERSE"} : x \in rev[i].flags <=> x \in t.rev[i].flags
      BY <3>1 DEF KeyFlags
    <3> QED BY <3>1, <3>2, <3>3, <3>4 DEF Mirrored, SameIe
  <2> QED BY <1>3, <2>1, <2>2 DEF IsView
<1>8. TmpltOK(q, k)
  BY <1>2, <1>6, <1>7 DEF TmpltOK
<1> QED BY <1>8 DEF q

-----------------------------------------------------------------------------
(* A template that was just parsed, and the theorems *)

LEMMA ParsedTemplateOK ==
  ASSUME NEW type, NEW header, NEW ies, NEW raw
  PROVE  TmpltOK(ParsedTemplate(type, header, ies, raw), {})
<1> DEFINE fields == ParsedFields(ies, header.scope)
           dataLen == LengthBefore(ies)[header.count + 1]
           opts == IF type = "options" THEN DetectOpts(fields, header.scope) ELSE {}
           t == ParsedTemplate(type, header, ies, raw)
<1>1. t = [type |-> type, id |-> header.id, scope |-> header.scope, fields |-> fields, rev |-> <<>>,
           flags |-> ParsedFlags(fields), dataLen |-> dataLen, raw |-> raw, opts |-> opts]
  BY DEF ParsedTemplate, Once
<1>2. /\ fields = [i \in DOMAIN fields |-> fields[i]]
      /\ \A i \in DOMAIN fields :
           /\ IsField(fields[i]) /\ fields[i].def = NoElem
           /\ fields[i].flags \subseteq ParsedFieldFlags
  <2>1. \A i \in DOMAIN ies :
          OccurrenceFlags(ies, i) \cup (IF i <= header.scope THEN {"SCOPE"} ELSE {}) \subseteq ParsedFieldFlags
    BY DEF OccurrenceFlags, ParsedFieldFlags
  <2> QED BY <2>1 DEF ParsedFields, IsField
<1>3. ParsedFlags(fields) \subseteq ParsedTmpltFlags
  BY DEF ParsedFlags, ParsedTmpltFlags
<1> HIDE DEF fields, dataLen, opts, t
<1>4. /\ IsTmplt(t) /\ t.fields = fields /\ t.rev = <<>> /\ t.flags = ParsedFlags(fields)
  BY <1>1 DEF IsTmplt
<1>5. FieldFlagsOK(fields, {}) /\ \A i \in DOMAIN fields : MarkedReverse(fields[i])
  BY <1>2 DEF FieldFlagsOK, MarkedReverse, ParsedFieldFlags
<1>6. FieldsOK(t, {})
  BY <1>2, <1>3, <1>4, <1>5 DEF FieldsOK, IsView, ParsedTmpltFlags
<1>7. TmpltOK(t, {})
  BY <1>4, <1>6 DEF TmpltOK
<1> QED BY <1>7 DEF t

\* fds_template_parse() makes a template without definitions and flow keys.
LEMMA ParsedOK ==
  ASSUME NEW type, NEW mem, NEW at, NEW len, Parse(type, mem, at, len).rc = "OK"
  PROVE  TmpltOK(Parse(type, mem, at, len).tmplt, {})
<1> DEFINE header == ParseHeader(type, mem, at, len)
           specs == ParseFields(mem, at + header.len, at + len, header.count)
           tmplt0 == ParsedTemplate(type, header, specs.ies, SubSeq(mem, at + 1, at + header.len + specs.len))
           p == Parse(type, mem, at, len)
<1>1. p = ParseError \/ p = [rc |-> "OK", len |-> header.len + specs.len, tmplt |-> tmplt0]
  BY DEF Parse, Once
<1> HIDE DEF p, header, specs
<1>2. p.rc = "OK"
  BY DEF p
<1>3. p.tmplt = tmplt0
  <2> HIDE DEF tmplt0
  <2> QED BY <1>1, <1>2 DEF ParseError
<1>4. TmpltOK(p.tmplt, {})
  BY <1>3, ParsedTemplateOK
<1> QED BY <1>4 DEF p

\* The template keeps its invariant, from when it was parsed and whatever is
\* called.
THEOREM TemplateInvariant == RSpec => []RInv
<1>1. RInit => RInv
  <2> SUFFICES ASSUME RInit
               PROVE  RInv
    OBVIOUS
  <2>1. PICK raw \in Raws : LET parsed == Parse(raw.type, RawBytes(raw), 0, Len(RawBytes(raw)))
                            IN  parsed.rc = "OK" /\ tmplt = parsed.tmplt
    BY DEF RInit
  <2>2. key = {}
    BY DEF RInit
  <2> QED BY <2>1, <2>2, ParsedOK DEF RInv
<1>2. RInv /\ [RNext]_rvars => RInv'
  <2> SUFFICES ASSUME RInv, [RNext]_rvars
               PROVE  RInv'
    OBVIOUS
  <2>1. ASSUME NEW mgr \in Managers \cup {NoMgr}, NEW preserve \in BOOLEAN, Define(mgr, preserve)
        PROVE  RInv'
    BY <2>1, IesDefineKeeps DEF RInv, Define
  <2>2. ASSUME NEW k \in Keys, SetKey(k)
        PROVE  RInv'
    BY <2>2, FlowkeyKeeps DEF RInv, SetKey
  <2>3. ASSUME NEW flags \in IterFlags, StartIter(flags)
        PROVE  RInv'
    BY <2>3 DEF RInv, StartIter
  <2>4. CASE Rewind
    BY <2>4 DEF RInv, Rewind
  <2>5. CASE NextField
    BY <2>5 DEF RInv, NextField
  <2>6. ASSUME NEW j \in DOMAIN tmplt.fields, FindField(tmplt.fields[j].en, tmplt.fields[j].id)
        PROVE  RInv'
    BY <2>6 DEF RInv, FindField
  <2>7. CASE UNCHANGED rvars
    BY <2>7 DEF RInv, rvars
  <2> QED BY <2>1, <2>2, <2>3, <2>4, <2>5, <2>6, <2>7 DEF RNext
<1> QED BY <1>1, <1>2, PTL DEF RSpec

\* The view from the other direction always mirrors the fields (template.h:128):
\* every field with a definition is shown as the element of the other
\* direction, with the other direction flag, or is common to both directions.
THEOREM ViewsAlwaysMirror == RSpec => []ViewsMirror
<1>1. RInv => ViewsMirror
  <2> SUFFICES ASSUME RInv, NEW i \in DOMAIN tmplt.rev
               PROVE  Mirrored(tmplt.fields[i], tmplt.rev[i])
    BY DEF ViewsMirror, Mirrored
  <2>1. tmplt.rev # <<>>
    OBVIOUS
  <2> QED BY <2>1 DEF RInv, TmpltOK
<1> QED BY <1>1, TemplateInvariant, PTL

-----------------------------------------------------------------------------
(* fds_template_ies_define() forgets what was defined before *)

LEMMA FieldsEqual ==
  ASSUME NEW f, NEW g, IsField(f), IsField(g),
         f.id = g.id, f.en = g.en, f.len = g.len, f.off = g.off, f.flags = g.flags, f.def = g.def
  PROVE  f = g
BY DEF IsField

\* A flow key on a field whose flags and definition change commutes with the change.
LEMMA KeyedMarked ==
  ASSUME NEW f, IsField(f), NEW on
  PROVE  Keyed(KeyMarked(f, on)) = KeyMarked(Keyed(f), on)
<1> DEFINE a == Keyed(KeyMarked(f, on))
           b == KeyMarked(Keyed(f), on)
<1>1. IsFlagged(KeyMarked(f, on), f, KeyFlags(f.flags, on))
  BY KeyMarkedFields
<1>2. IsFlagged(Keyed(f), f, f.flags \cup {"BKEY"})
  BY WithFlagsFields DEF Keyed, IsFlagged
<1>3. IsFlagged(a, f, KeyFlags(f.flags, on) \cup {"BKEY"})
  BY <1>1, WithFlagsFields DEF Keyed, IsFlagged
<1>4. IsFlagged(b, f, KeyFlags(f.flags \cup {"BKEY"}, on))
  BY <1>2, KeyMarkedFields DEF IsFlagged
<1>5. KeyFlags(f.flags, on) \cup {"BKEY"} = KeyFlags(f.flags \cup {"BKEY"}, on)
  BY DEF KeyFlags
<1> HIDE DEF a, b
<1>6. a = b
  BY <1>3, <1>4, <1>5, FieldsEqual DEF IsFlagged
<1> QED BY <1>6 DEF a, b

LEMMA UnkeyedMarked ==
  ASSUME NEW f, IsField(f), NEW on
  PROVE  Unkeyed(KeyMarked(f, on)) = KeyMarked(Unkeyed(f), on)
<1> DEFINE a == Unkeyed(KeyMarked(f, on))
           b == KeyMarked(Unkeyed(f), on)
<1>1. IsFlagged(KeyMarked(f, on), f, KeyFlags(f.flags, on))
  BY KeyMarkedFields
<1>2. IsFlagged(Unkeyed(f), f, f.flags \ {"BKEY"})
  BY WithFlagsFields DEF Unkeyed, IsFlagged
<1>3. IsFlagged(a, f, KeyFlags(f.flags, on) \ {"BKEY"})
  BY <1>1, WithFlagsFields DEF Unkeyed, IsFlagged
<1>4. IsFlagged(b, f, KeyFlags(f.flags \ {"BKEY"}, on))
  BY <1>2, KeyMarkedFields DEF IsFlagged
<1>5. KeyFlags(f.flags, on) \ {"BKEY"} = KeyFlags(f.flags \ {"BKEY"}, on)
  BY DEF KeyFlags
<1> HIDE DEF a, b
<1>6. a = b
  BY <1>3, <1>4, <1>5, FieldsEqual DEF IsFlagged
<1> QED BY <1>6 DEF a, b

\* The counterpart of a field that has an element of the other direction,
\* "reverse" or "forward".
Turned(r, elem, dir) ==
  LET g == Unkeyed(r)
  IN  Renamed(WithFlags(g, IF dir = "reverse" THEN g.flags \cup {"REVERSE"} ELSE g.flags \ {"REVERSE"}), elem)
TurnedFlags(flags, dir) ==
  IF dir = "reverse" THEN (flags \ {"BKEY"}) \cup {"REVERSE"} ELSE (flags \ {"BKEY"}) \ {"REVERSE"}

IsTurned(q, r, elem, flags) ==
  /\ IsField(q) /\ q.flags = flags /\ q.len = r.len /\ q.off = r.off
  /\ q.def = elem /\ q.id = elem.id /\ q.en = elem.en

LEMMA TurnedFields ==
  ASSUME NEW r, IsField(r), NEW elem, NEW dir
  PROVE  IsTurned(Turned(r, elem, dir), r, elem, TurnedFlags(r.flags, dir))
<1> DEFINE g == Unkeyed(r)
           flags == IF dir = "reverse" THEN g.flags \cup {"REVERSE"} ELSE g.flags \ {"REVERSE"}
           h == WithFlags(g, flags)
           q == Renamed(h, elem)
<1>1. IsFlagged(g, r, r.flags \ {"BKEY"})
  BY WithFlagsFields DEF Unkeyed, IsFlagged
<1>2. flags = TurnedFlags(r.flags, dir)
  BY <1>1 DEF IsFlagged, TurnedFlags
<1> HIDE DEF flags, g
<1>3. IsFlagged(h, g, flags)
  BY <1>1, WithFlagsFields DEF IsFlagged
<1> HIDE DEF h
<1>4. IsTurned(q, h, elem, flags)
  BY <1>3, RenamedFields DEF IsFlagged, IsTurned
<1> HIDE DEF q
<1>5. IsTurned(q, r, elem, TurnedFlags(r.flags, dir))
  BY <1>1, <1>2, <1>3, <1>4 DEF IsTurned, IsFlagged
<1> QED BY <1>5 DEF q, h, flags, g, Turned

LEMMA TurnedMarked ==
  ASSUME NEW r, IsField(r), NEW on, NEW elem, NEW dir
  PROVE  Turned(KeyMarked(r, on), elem, dir) = KeyMarked(Turned(r, elem, dir), on)
<1> DEFINE m == KeyMarked(r, on)
           a == Turned(m, elem, dir)
           g == Turned(r, elem, dir)
           b == KeyMarked(g, on)
<1>1. IsFlagged(m, r, KeyFlags(r.flags, on))
  BY KeyMarkedFields
<1> HIDE DEF m
<1>2. IsTurned(a, m, elem, TurnedFlags(m.flags, dir))
  BY <1>1, TurnedFields DEF IsFlagged
<1>3. IsTurned(g, r, elem, TurnedFlags(r.flags, dir))
  BY TurnedFields
<1> HIDE DEF a, g
<1>4. IsFlagged(b, g, KeyFlags(g.flags, on))
  BY <1>3, KeyMarkedFields DEF IsTurned
<1> HIDE DEF b
<1>5. TurnedFlags(KeyFlags(r.flags, on), dir) = KeyFlags(TurnedFlags(r.flags, dir), on)
  BY DEF TurnedFlags, KeyFlags
<1>6. a = b
  BY <1>1, <1>2, <1>3, <1>4, <1>5, FieldsEqual DEF IsTurned, IsFlagged
<1> QED BY <1>6 DEF a, b, m, g

\* q is f with another ID and definition.
IsIdentified(q, f, id, def) ==
  /\ IsField(q) /\ q.flags = f.flags /\ q.en = f.en /\ q.len = f.len /\ q.off = f.off
  /\ q.id = id /\ q.def = def

LEMMA IdentifiedFields ==
  ASSUME NEW f, IsField(f), NEW id, NEW def
  PROVE  /\ IsIdentified([f EXCEPT !.id = id, !.def = def], f, id, def)
         /\ IsIdentified([f EXCEPT !.def = def], f, f.id, def)
<1> DEFINE q == [f EXCEPT !.id = id, !.def = def]
           p == [f EXCEPT !.def = def]
<1>1. /\ q.flags = f.flags /\ q.en = f.en /\ q.len = f.len /\ q.off = f.off
      /\ q.id = id /\ q.def = def
  BY DEF IsField
<1>2. DOMAIN q = {"id", "en", "len", "off", "flags", "def"} /\ q = [x \in DOMAIN q |-> q[x]]
  BY DEF IsField
<1>3. /\ p.flags = f.flags /\ p.en = f.en /\ p.len = f.len /\ p.off = f.off
      /\ p.id = f.id /\ p.def = def
  BY DEF IsField
<1>4. DOMAIN p = {"id", "en", "len", "off", "flags", "def"} /\ p = [x \in DOMAIN p |-> p[x]]
  BY DEF IsField
<1> HIDE DEF q, p
<1>5. IsIdentified(q, f, id, def)
  BY <1>1, <1>2 DEF IsIdentified, IsField
<1>6. IsIdentified(p, f, f.id, def)
  BY <1>3, <1>4 DEF IsIdentified, IsField
<1> QED BY <1>5, <1>6 DEF q, p

LEMMA SwappedFields ==
  ASSUME NEW mgr, NEW f, NEW r, IsField(r)
  PROVE  LET swapped == SwapIe(mgr, f.en, f.id)
         IN  IsIdentified(SwappedKey(mgr, f, r), Keyed(Unkeyed(r)), IF swapped # 0 THEN swapped ELSE r.id,
                          IF swapped # 0 THEN Lookup(mgr, r.en, swapped) ELSE f.def)
<1> DEFINE swapped == SwapIe(mgr, f.en, f.id)
           g == Keyed(Unkeyed(r))
<1>1. IsField(g) /\ g.id = r.id
  BY WithFlagsFields DEF Keyed, Unkeyed
<1> HIDE DEF g
<1>2. IsIdentified(IF swapped # 0 THEN [g EXCEPT !.id = swapped, !.def = Lookup(mgr, r.en, swapped)]
                   ELSE [g EXCEPT !.def = f.def],
                   g, IF swapped # 0 THEN swapped ELSE r.id,
                   IF swapped # 0 THEN Lookup(mgr, r.en, swapped) ELSE f.def)
  <2>1. CASE swapped # 0
    BY <1>1, <2>1, IdentifiedFields
  <2>2. CASE swapped = 0
    BY <1>1, <2>2, IdentifiedFields
  <2> QED BY <2>1, <2>2
<1> QED BY <1>2 DEF g, SwappedKey

LEMMA SwappedMarked ==
  ASSUME NEW mgr, NEW f, NEW r, IsField(f), IsField(r), NEW on
  PROVE  SwappedKey(mgr, KeyMarked(f, on), KeyMarked(r, on)) = KeyMarked(SwappedKey(mgr, f, r), on)
<1> DEFINE swapped == SwapIe(mgr, f.en, f.id)
           id == IF swapped # 0 THEN swapped ELSE r.id
           def == IF swapped # 0 THEN Lookup(mgr, r.en, swapped) ELSE f.def
           F == KeyMarked(f, on)
           R == KeyMarked(r, on)
           a == SwappedKey(mgr, F, R)
           g == SwappedKey(mgr, f, r)
           b == KeyMarked(g, on)
<1>1. IsFlagged(F, f, KeyFlags(f.flags, on)) /\ IsFlagged(R, r, KeyFlags(r.flags, on))
  BY KeyMarkedFields
<1>2. Keyed(Unkeyed(R)) = KeyMarked(Keyed(Unkeyed(r)), on)
  <2>1. Unkeyed(R) = KeyMarked(Unkeyed(r), on)
    BY UnkeyedMarked
  <2>2. IsField(Unkeyed(r))
    BY WithFlagsFields DEF Unkeyed
  <2> QED BY <2>1, <2>2, KeyedMarked
<1>3. IsField(Keyed(Unkeyed(r)))
  BY WithFlagsFields DEF Keyed, Unkeyed
<1> HIDE DEF F, R
<1>4. IsIdentified(a, Keyed(Unkeyed(R)), id, def)
  <2>1. F.en = f.en /\ F.id = f.id /\ F.def = f.def /\ IsField(R) /\ R.en = r.en /\ R.id = r.id
    BY <1>1 DEF IsFlagged
  <2>2. IsIdentified(a, Keyed(Unkeyed(R)), IF SwapIe(mgr, F.en, F.id) # 0 THEN SwapIe(mgr, F.en, F.id) ELSE R.id,
                     IF SwapIe(mgr, F.en, F.id) # 0 THEN Lookup(mgr, R.en, SwapIe(mgr, F.en, F.id)) ELSE F.def)
    BY <2>1, SwappedFields
  <2> QED BY <2>1, <2>2
<1>5. IsIdentified(g, Keyed(Unkeyed(r)), id, def)
  BY SwappedFields
<1> HIDE DEF a, g, id, def
<1>6. IsFlagged(b, g, KeyFlags(g.flags, on))
  BY <1>5, KeyMarkedFields DEF IsIdentified
<1>7. IsFlagged(Keyed(Unkeyed(R)), Keyed(Unkeyed(r)), KeyFlags(Keyed(Unkeyed(r)).flags, on))
  BY <1>2, <1>3, KeyMarkedFields
<1> HIDE DEF b
<1>8. a = b
  BY <1>4, <1>5, <1>6, <1>7, FieldsEqual DEF IsIdentified, IsFlagged
<1> QED BY <1>8 DEF a, b, F, R, g

\* template_ies_biflow() of a field does not look at flow keys.
LEMMA BiflowMarked ==
  ASSUME NEW mgr, NEW fields, NEW marked, NEW f, NEW r, IsField(f), IsField(r), NEW on,
         \A en, id : HasIe(marked, en, id) <=> HasIe(fields, en, id)
  PROVE  LET b == BiflowField(mgr, fields, f, r)
             c == BiflowField(mgr, marked, KeyMarked(f, on), KeyMarked(r, on))
         IN  c[1] = KeyMarked(b[1], on) /\ c[2] = KeyMarked(b[2], on)
<1> DEFINE F == KeyMarked(f, on)
           R == KeyMarked(r, on)
           b == BiflowField(mgr, fields, f, r)
           c == BiflowField(mgr, marked, F, R)
<1>1. ByCase(b, mgr, fields, f, r) /\ ByCase(c, mgr, marked, F, R)
  BY BiflowCases
<1>2. F.def = f.def /\ R.def = r.def
  BY KeyMarkedFields DEF IsFlagged
<1>3. /\ Keyed(F) = KeyMarked(Keyed(f), on) /\ Keyed(R) = KeyMarked(Keyed(r), on)
      /\ Unkeyed(F) = KeyMarked(Unkeyed(f), on)
  BY KeyedMarked, UnkeyedMarked
<1>4. Keyed(Unkeyed(F)) = KeyMarked(Keyed(Unkeyed(f)), on)
  <2>1. IsField(Unkeyed(f))
    BY WithFlagsFields DEF Unkeyed
  <2> QED BY <1>3, <2>1, KeyedMarked
<1>5. SwappedKey(mgr, F, R) = KeyMarked(SwappedKey(mgr, f, r), on)
  BY SwappedMarked
<1>6. /\ Turned(R, f.def.partner, "forward") = KeyMarked(Turned(r, f.def.partner, "forward"), on)
      /\ Turned(R, f.def.partner, "reverse") = KeyMarked(Turned(r, f.def.partner, "reverse"), on)
  BY TurnedMarked
<1>7. /\ Turned(r, f.def.partner, "forward")
           = Renamed(WithFlags(Unkeyed(r), Unkeyed(r).flags \ {"REVERSE"}), f.def.partner)
      /\ Turned(r, f.def.partner, "reverse")
           = Renamed(WithFlags(Unkeyed(r), Unkeyed(r).flags \cup {"REVERSE"}), f.def.partner)
      /\ Turned(R, f.def.partner, "forward")
           = Renamed(WithFlags(Unkeyed(R), Unkeyed(R).flags \ {"REVERSE"}), f.def.partner)
      /\ Turned(R, f.def.partner, "reverse")
           = Renamed(WithFlags(Unkeyed(R), Unkeyed(R).flags \cup {"REVERSE"}), f.def.partner)
  BY DEF Turned
<1> HIDE DEF F, R, b, c
<1>8. CASE NoDefinition(f)
  <2>1. NoDefinition(F)
    BY <1>2, <1>8 DEF NoDefinition
  <2>2. b = <<Keyed(f), Keyed(r)>> /\ c = <<Keyed(F), Keyed(R)>>
    BY <1>1, <1>8, <2>1 DEF ByCase
  <2> QED BY <1>3, <2>2 DEF b, c, F, R
<1>9. CASE Done(f, r)
  <2>1. Done(F, R)
    BY <1>2, <1>9 DEF Done
  <2>2. b = <<f, r>> /\ c = <<F, R>>
    BY <1>1, <1>9, <2>1 DEF ByCase
  <2> QED BY <2>2 DEF b, c, F, R
<1>10. CASE OfReverse(f, r)
  <2>1. OfReverse(F, R)
    BY <1>2, <1>10 DEF OfReverse
  <2>2. /\ b = <<Unkeyed(f), Turned(r, f.def.partner, "forward")>>
        /\ c = <<Unkeyed(F), Turned(R, f.def.partner, "forward")>>
    BY <1>1, <1>2, <1>7, <1>10, <2>1 DEF ByCase
  <2> QED BY <1>3, <1>6, <2>2 DEF b, c, F, R
<1>11. CASE OfForward(fields, f, r)
  <2>1. OfForward(marked, F, R)
    BY <1>2, <1>11 DEF OfForward
  <2>2. /\ b = <<Unkeyed(f), Turned(r, f.def.partner, "reverse")>>
        /\ c = <<Unkeyed(F), Turned(R, f.def.partner, "reverse")>>
    BY <1>1, <1>2, <1>7, <1>11, <2>1 DEF ByCase
  <2> QED BY <1>3, <1>6, <2>2 DEF b, c, F, R
<1>12. CASE OfKey(fields, f, r)
  <2>1. OfKey(marked, F, R)
    BY <1>2, <1>12 DEF OfKey
  <2>2. /\ b = <<Keyed(Unkeyed(f)), SwappedKey(mgr, f, r)>>
        /\ c = <<Keyed(Unkeyed(F)), SwappedKey(mgr, F, R)>>
    BY <1>1, <1>12, <2>1 DEF ByCase
  <2> QED BY <1>4, <1>5, <2>2 DEF b, c, F, R
<1> QED BY <1>1, <1>8, <1>9, <1>10, <1>11, <1>12 DEF ByCase

\* d is p with the flow key k, before template_ies_biflow() without a view.
WithKey(d, p, k) ==
  /\ IsTmplt(d) /\ IsTmplt(p) /\ IsView(p.fields)
  /\ d.rev = <<>> /\ p.rev = <<>>
  /\ d.fields = KeyView(p.fields, k) /\ d.flags = KeyFlags(p.flags, k # {})
  /\ d.type = p.type /\ d.id = p.id /\ d.scope = p.scope
  /\ d.dataLen = p.dataLen /\ d.raw = p.raw /\ d.opts = p.opts

LEMMA BiflowWithKey ==
  ASSUME NEW d, NEW p, NEW k, WithKey(d, p, k), NEW mgr
  PROVE  Biflow(d, mgr) = FlowkeyDefine(Biflow(p, mgr), k)
<1> DEFINE q == FlowkeyDefine(Biflow(p, mgr), k)
<1>1. /\ IsTmplt(d) /\ IsTmplt(p) /\ IsView(p.fields)
      /\ d.rev = <<>> /\ p.rev = <<>>
      /\ d.fields = KeyView(p.fields, k) /\ d.flags = KeyFlags(p.flags, k # {})
      /\ d.type = p.type /\ d.id = p.id /\ d.scope = p.scope
      /\ d.dataLen = p.dataLen /\ d.raw = p.raw /\ d.opts = p.opts
  BY DEF WithKey
<1>2. "BIFLOW" \in d.flags <=> "BIFLOW" \in p.flags
  BY <1>1 DEF KeyFlags
<1>3. CASE "BIFLOW" \notin p.flags
  <2>1. Biflow(d, mgr) = d /\ Biflow(p, mgr) = p
    BY <1>1, <1>2, <1>3, BiflowUpdate
  <2>2. IsUpdate(q, p, d.fields, KeyView(<<>>, k), d.flags)
    BY <1>1, <2>1, FlowkeyUpdate
  <2> HIDE DEF q
  <2>3. q = d
    BY <1>1, <2>2, KeyViewShape DEF IsUpdate, IsTmplt
  <2> QED BY <2>1, <2>3 DEF q
<1>4. CASE "BIFLOW" \in p.flags
  <2> DEFINE bp == Biflow(p, mgr)
             bd == Biflow(d, mgr)
  <2>1. /\ IsUpdate(bp, p, FirstOfPairs(p, mgr), SecondOfPairs(p, mgr), p.flags)
        /\ IsUpdate(bd, d, FirstOfPairs(d, mgr), SecondOfPairs(d, mgr), d.flags)
    BY <1>1, <1>2, <1>4, BiflowUpdate
  <2>2. IsUpdate(q, bp, KeyView(bp.fields, k), KeyView(bp.rev, k), KeyFlags(bp.flags, k # {}))
    BY <2>1, FlowkeyUpdate DEF IsUpdate
  <2>3. /\ DOMAIN d.fields = DOMAIN p.fields
        /\ \A i \in DOMAIN p.fields : d.fields[i] = KeyMarked(p.fields[i], i - 1 \in k)
    BY <1>1, KeyViewShape
  <2>4. ASSUME NEW i \in DOMAIN p.fields
        PROVE  /\ IsField(View(p)[i])
               /\ View(d)[i] = KeyMarked(View(p)[i], i - 1 \in k)
    <3> DEFINE f == p.fields[i]
               g == d.fields[i]
               r == [f EXCEPT !.def = NoElem]
               s == [g EXCEPT !.def = NoElem]
               m == KeyMarked(r, i - 1 \in k)
    <3>1. View(p)[i] = r /\ View(d)[i] = s
      BY <1>1, <2>3 DEF View
    <3>2. IsField(f)
      BY <1>1 DEF IsView
    <3>3. IsFlagged(g, f, KeyFlags(f.flags, i - 1 \in k))
      BY <2>3, <3>2, KeyMarkedFields
    <3> HIDE DEF f, g
    <3>4. IsIdentified(r, f, f.id, NoElem) /\ IsIdentified(s, g, g.id, NoElem)
      BY <3>2, <3>3, IdentifiedFields DEF IsFlagged
    <3> HIDE DEF r, s
    <3>5. IsFlagged(m, r, KeyFlags(r.flags, i - 1 \in k))
      BY <3>4, KeyMarkedFields DEF IsIdentified
    <3> HIDE DEF m
    <3>6. s = m
      BY <3>3, <3>4, <3>5, FieldsEqual DEF IsIdentified, IsFlagged
    <3> QED BY <3>1, <3>4, <3>6 DEF IsIdentified, m
  <2>5. \A en, id : HasIe(d.fields, en, id) <=> HasIe(p.fields, en, id)
    <3>1. \A i \in DOMAIN p.fields : d.fields[i].en = p.fields[i].en /\ d.fields[i].id = p.fields[i].id
      BY <1>1, <2>3, KeyMarkedFields DEF IsFlagged, IsView
    <3> QED BY <2>3, <3>1 DEF HasIe
  <2>6. ASSUME NEW i \in DOMAIN p.fields
        PROVE  /\ Pair(d, mgr, i)[1] = KeyMarked(Pair(p, mgr, i)[1], i - 1 \in k)
               /\ Pair(d, mgr, i)[2] = KeyMarked(Pair(p, mgr, i)[2], i - 1 \in k)
    <3>1. IsField(p.fields[i])
      BY <1>1 DEF IsView
    <3>2. LET b == BiflowField(mgr, p.fields, p.fields[i], View(p)[i])
              c == BiflowField(mgr, d.fields, KeyMarked(p.fields[i], i - 1 \in k), KeyMarked(View(p)[i], i - 1 \in k))
          IN  c[1] = KeyMarked(b[1], i - 1 \in k) /\ c[2] = KeyMarked(b[2], i - 1 \in k)
      BY <2>4, <2>5, <3>1, BiflowMarked
    <3> QED BY <2>3, <2>4, <3>2 DEF Pair
  <2>7. /\ FirstOfPairs(d, mgr) = KeyView(FirstOfPairs(p, mgr), k)
        /\ SecondOfPairs(d, mgr) = KeyView(SecondOfPairs(p, mgr), k)
    BY <2>3, <2>6 DEF FirstOfPairs, SecondOfPairs, KeyView
  <2> HIDE DEF q, bp, bd
  <2>8. bd = q
    BY <1>1, <2>1, <2>2, <2>7 DEF IsUpdate, IsTmplt
  <2> QED BY <2>8 DEF bd, q
<1> QED BY <1>3, <1>4

LEMMA PlainUpdate ==
  ASSUME NEW t, IsTmplt(t)
  PROVE  IsUpdate(Plain(t), t, [i \in DOMAIN t.fields |->
                                  [t.fields[i] EXCEPT !.flags = @ \cap {"SCOPE", "MULTI", "LAST"}, !.def = NoElem]],
                  <<>>, t.flags \cap {"MULTI", "DYNAMIC"})
<1> DEFINE fields == [i \in DOMAIN t.fields |->
                        [t.fields[i] EXCEPT !.flags = @ \cap {"SCOPE", "MULTI", "LAST"}, !.def = NoElem]]
           flags == t.flags \cap {"MULTI", "DYNAMIC"}
           q == [t EXCEPT !.fields = fields, !.rev = <<>>, !.flags = flags]
<1>1. Plain(t) = q
  BY DEF Plain, IsTmplt
<1> HIDE DEF fields, flags
<1>2. IsUpdate(q, t, fields, <<>>, flags)
  BY UpdateAll
<1> HIDE DEF q
<1>3. IsUpdate(Plain(t), t, fields, <<>>, flags)
  BY <1>1, <1>2
<1> QED BY <1>3 DEF fields, flags

LEMMA DefinedAnew ==
  ASSUME NEW t, IsTmplt(t), NEW mgr
  PROVE  IsUpdate(Defined(t, mgr, FALSE), t, DefinedFields(t, mgr, FALSE),
                  <<>>, DefinedFlags(t, mgr, FALSE))
<1> DEFINE fields == DefinedFields(t, mgr, FALSE)
           flags == DefinedFlags(t, mgr, FALSE)
           q == [t EXCEPT !.fields = fields, !.rev = <<>>, !.flags = flags]
<1>1. Defined(t, mgr, FALSE) = q
  BY DEF Defined, IsTmplt
<1> HIDE DEF fields, flags
<1>2. IsUpdate(q, t, fields, <<>>, flags)
  BY UpdateAll
<1> HIDE DEF q
<1>3. IsUpdate(Defined(t, mgr, FALSE), t, fields, <<>>, flags)
  BY <1>1, <1>2
<1> QED BY <1>3 DEF fields, flags

\* The parts of Defined that the redefinition of a template without preserve
\* looks at: names, and what parsing left in the flags.
LEMMA DefinedWithKey ==
  ASSUME NEW t, NEW k, FieldsOK(t, k), NEW mgr
  PROVE  WithKey(Defined(t, mgr, FALSE), Defined(Plain(t), mgr, FALSE), k)
<1> DEFINE bare == [i \in DOMAIN t.fields |->
                      [t.fields[i] EXCEPT !.flags = @ \cap {"SCOPE", "MULTI", "LAST"}, !.def = NoElem]]
           u == Plain(t)
           d == Defined(t, mgr, FALSE)
           p == Defined(u, mgr, FALSE)
           e(i) == Lookup(mgr, t.fields[i].en, t.fields[i].id)
<1>1. IsTmplt(t) /\ IsView(t.fields)
  BY DEF FieldsOK
<1>2. IsUpdate(u, t, bare, <<>>, t.flags \cap {"MULTI", "DYNAMIC"})
  BY <1>1, PlainUpdate
<1>3. /\ IsUpdate(d, t, DefinedFields(t, mgr, FALSE), <<>>, DefinedFlags(t, mgr, FALSE))
      /\ IsUpdate(p, u, DefinedFields(u, mgr, FALSE), <<>>, DefinedFlags(u, mgr, FALSE))
  <2>1. IsTmplt(u)
    BY <1>2 DEF IsUpdate
  <2> HIDE DEF u
  <2> QED BY <1>1, <2>1, DefinedAnew
<1>4. /\ DOMAIN bare = DOMAIN t.fields
      /\ \A i \in DOMAIN t.fields :
           bare[i] = [t.fields[i] EXCEPT !.flags = @ \cap {"SCOPE", "MULTI", "LAST"}, !.def = NoElem]
  OBVIOUS
<1> HIDE DEF bare, u, d, p
<1>5. ASSUME NEW i \in DOMAIN t.fields
      PROVE  /\ IsField(bare[i]) /\ bare[i].flags = t.fields[i].flags \cap {"SCOPE", "MULTI", "LAST"}
             /\ bare[i].id = t.fields[i].id /\ bare[i].en = t.fields[i].en
             /\ bare[i].len = t.fields[i].len /\ bare[i].off = t.fields[i].off
  <2> DEFINE f == t.fields[i]
             q == [f EXCEPT !.flags = @ \cap {"SCOPE", "MULTI", "LAST"}, !.def = NoElem]
  <2>1. bare[i] = q
    BY <1>4
  <2>2. IsField(f)
    BY <1>1 DEF IsView
  <2> HIDE DEF f
  <2>3. /\ q.flags = f.flags \cap {"SCOPE", "MULTI", "LAST"} /\ q.id = f.id /\ q.en = f.en
        /\ q.len = f.len /\ q.off = f.off
    BY <2>2 DEF IsField
  <2>4. DOMAIN q = {"id", "en", "len", "off", "flags", "def"} /\ q = [x \in DOMAIN q |-> q[x]]
    BY <2>2 DEF IsField
  <2> HIDE DEF q
  <2>5. IsField(q)
    BY <2>4 DEF IsField
  <2> QED BY <2>1, <2>3, <2>5 DEF f
<1>6. u.fields = bare /\ u.flags = t.flags \cap {"MULTI", "DYNAMIC"}
  BY <1>2 DEF IsUpdate
<1>7. ASSUME NEW i \in DOMAIN t.fields
      PROVE  /\ Found(t, mgr, FALSE, i) = e(i) /\ Found(u, mgr, FALSE, i) = e(i)
             /\ ~Kept(t, FALSE, i) /\ ~Kept(u, FALSE, i)
  BY <1>5, <1>6 DEF Found, Kept
<1> HIDE DEF e
<1>8. ASSUME NEW i \in DOMAIN t.fields
      PROVE  /\ IsField(DefinedField(u, mgr, FALSE, i))
             /\ DefinedField(t, mgr, FALSE, i) = KeyMarked(DefinedField(u, mgr, FALSE, i), i - 1 \in k)
  <2> DEFINE f == t.fields[i]
             g == bare[i]
             a == Redefined(f, e(i))
             b == Redefined(g, e(i))
             m == KeyMarked(b, i - 1 \in k)
  <2>1. DefinedField(t, mgr, FALSE, i) = a /\ DefinedField(u, mgr, FALSE, i) = b
    BY <1>6, <1>7 DEF DefinedField
  <2>2. IsField(f) /\ IsField(g)
    BY <1>1, <1>5 DEF IsView
  <2>3. /\ IsField(a) /\ a.def = e(i) /\ a.flags = (f.flags \ {"STRUCT", "REVERSE", "BKEY"}) \cup Features(e(i))
        /\ a.id = f.id /\ a.en = f.en /\ a.len = f.len /\ a.off = f.off
    BY <2>2, RedefinedFields
  <2>4. /\ IsField(b) /\ b.def = e(i) /\ b.flags = (g.flags \ {"STRUCT", "REVERSE", "BKEY"}) \cup Features(e(i))
        /\ b.id = g.id /\ b.en = g.en /\ b.len = g.len /\ b.off = g.off
    BY <2>2, RedefinedFields
  <2> HIDE DEF a, b
  <2>5. IsFlagged(m, b, KeyFlags(b.flags, i - 1 \in k))
    BY <2>4, KeyMarkedFields
  <2> HIDE DEF m
  <2>6. KeyFlags(b.flags, i - 1 \in k) = a.flags
    <3>1. /\ f.flags \subseteq ParsedFieldFlags \cup DefFlags \cup {"FKEY"}
          /\ "FKEY" \in f.flags <=> i - 1 \in k
          /\ g.flags = f.flags \cap {"SCOPE", "MULTI", "LAST"}
      BY <1>5 DEF FieldsOK, FieldFlagsOK
    <3>2. Features(e(i)) \subseteq {"STRUCT", "REVERSE"}
      BY DEF Features
    <3> HIDE DEF f, g
    <3> QED BY <2>3, <2>4, <3>1, <3>2 DEF KeyFlags, ParsedFieldFlags, DefFlags
  <2>7. m = a
    <3>1. /\ g.id = f.id /\ g.en = f.en /\ g.len = f.len /\ g.off = f.off
      BY <1>5
    <3> HIDE DEF f, g
    <3> QED BY <2>3, <2>4, <2>5, <2>6, <3>1, FieldsEqual DEF IsFlagged
  <2> QED BY <2>1, <2>4, <2>7 DEF m
<1>9. /\ IsView(p.fields) /\ d.fields = KeyView(p.fields, k)
  <2>1. p.fields = DefinedFields(u, mgr, FALSE) /\ d.fields = DefinedFields(t, mgr, FALSE)
    BY <1>3 DEF IsUpdate
  <2>2. /\ p.fields = [i \in DOMAIN t.fields |-> DefinedField(u, mgr, FALSE, i)]
        /\ d.fields = [i \in DOMAIN t.fields |-> DefinedField(t, mgr, FALSE, i)]
    BY <1>4, <1>6, <2>1 DEF DefinedFields
  <2>3. /\ DOMAIN p.fields = DOMAIN t.fields
        /\ \A i \in DOMAIN t.fields : p.fields[i] = DefinedField(u, mgr, FALSE, i)
        /\ p.fields = [i \in DOMAIN p.fields |-> p.fields[i]]
    BY <2>2
  <2>4. IsView(p.fields)
    BY <1>8, <2>3 DEF IsView
  <2>5. d.fields = KeyView(p.fields, k)
    BY <1>8, <2>2, <2>3 DEF KeyView
  <2> QED BY <2>4, <2>5
<1>10. d.flags = KeyFlags(p.flags, k # {})
  <2>1. d.flags = DefinedFlags(t, mgr, FALSE) /\ p.flags = DefinedFlags(u, mgr, FALSE)
    BY <1>3 DEF IsUpdate
  <2>2. Fresh(t, mgr, FALSE) = Fresh(u, mgr, FALSE) /\ Fresh(t, mgr, FALSE) \subseteq DOMAIN t.fields
    BY <1>4, <1>6, <1>7 DEF Fresh
  <2> DEFINE B == IF \E i \in Fresh(t, mgr, FALSE) : e(i).reverse THEN {"BIFLOW"} ELSE {}
             S == IF \E i \in Fresh(t, mgr, FALSE) : e(i).struct THEN {"STRUCT"} ELSE {}
  <2>7. /\ (\E i \in Fresh(t, mgr, FALSE) : Found(t, mgr, FALSE, i).reverse)
             <=> (\E i \in Fresh(t, mgr, FALSE) : e(i).reverse)
        /\ (\E i \in Fresh(t, mgr, FALSE) : Found(t, mgr, FALSE, i).struct)
             <=> (\E i \in Fresh(t, mgr, FALSE) : e(i).struct)
        /\ (\E i \in Fresh(u, mgr, FALSE) : Found(u, mgr, FALSE, i).reverse)
             <=> (\E i \in Fresh(t, mgr, FALSE) : e(i).reverse)
        /\ (\E i \in Fresh(u, mgr, FALSE) : Found(u, mgr, FALSE, i).struct)
             <=> (\E i \in Fresh(t, mgr, FALSE) : e(i).struct)
    BY <1>7, <2>2, Zenon
  <2>3. d.flags = (t.flags \ {"BIFLOW", "STRUCT"}) \cup B \cup S
    BY <2>1, <2>7 DEF DefinedFlags
  <2>4. p.flags = (u.flags \ {"BIFLOW", "STRUCT"}) \cup B \cup S
    BY <2>1, <2>7 DEF DefinedFlags
  <2>5. B \subseteq {"BIFLOW"} /\ S \subseteq {"STRUCT"}
    OBVIOUS
  <2> HIDE DEF B, S
  <2>6. t.flags \subseteq ParsedTmpltFlags \cup TmpltDefFlags \cup {"FKEY"} /\ ("FKEY" \in t.flags <=> k # {})
    BY DEF FieldsOK
  <2> QED BY <1>6, <2>3, <2>4, <2>5, <2>6 DEF KeyFlags, ParsedTmpltFlags, TmpltDefFlags
<1>11. WithKey(d, p, k)
  BY <1>1, <1>2, <1>3, <1>9, <1>10 DEF WithKey, IsUpdate
<1> QED BY <1>11 DEF d, p, u

\* A definition of the elements without preserve depends on nothing that was
\* defined before it: it gives what it gives on the template that was just
\* parsed, with the flow key of the template.
THEOREM DefinitionsForgotten == RSpec => []DefineForgets
<1>1. RInv => DefineForgets
  <2> SUFFICES ASSUME RInv, NEW mgr \in Managers \cup {NoMgr}
               PROVE  IesDefine(tmplt, mgr, FALSE) = FlowkeyDefine(IesDefine(Plain(tmplt), mgr, FALSE), key)
    BY DEF DefineForgets
  <2> DEFINE d == Defined(tmplt, mgr, FALSE)
             p == Defined(Plain(tmplt), mgr, FALSE)
  <2>1. IesDefine(tmplt, mgr, FALSE) = Biflow(d, mgr) /\ IesDefine(Plain(tmplt), mgr, FALSE) = Biflow(p, mgr)
    BY IesDefineSteps
  <2>2. WithKey(d, p, key)
    BY DefinedWithKey DEF RInv, TmpltOK
  <2> HIDE DEF d, p
  <2>3. Biflow(d, mgr) = FlowkeyDefine(Biflow(p, mgr), key)
    BY <2>2, BiflowWithKey
  <2> QED BY <2>1, <2>3
<1> QED BY <1>1, TemplateInvariant, PTL
=============================================================================
