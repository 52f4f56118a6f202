----------------------------- MODULE Template -----------------------------
(***************************************************************************)
(* One (Options) Template as src/template_mgr/template.c keeps it: parsed  *)
(* from its bytes, given definitions of its Information Elements by one    *)
(* manager after another, and flow keys.                                   *)
(*                                                                         *)
(* Bytes of IPFIX structures (include/libfds/ipfix_structs.h) are in       *)
(* network byte order.  A place in a buffer is the number of bytes before  *)
(* it, as a pointer's distance from the start.                             *)
(*                                                                         *)
(* An IE manager is a function from <<PEN, ID>> to an element              *)
(*   [en, id, name, struct, reverse, partner],                             *)
(* where name is <<"source" | "destination" | "", rest of the name>> and   *)
(* partner is the element of the other direction, or NoElem.               *)
(***************************************************************************)
EXTENDS Integers, Sequences, FiniteSets

\* Lengths of headers, in bytes, and the values with a meaning of their own.
MsgHdrLen == 16
SetHdrLen == 4
WdrlLen == 4
FieldLen == 4
TmpltSet == 2
OptsSet == 3
MinDset == 256
VarLen == 65535
EnBit == 32768
MaxRecord == 65535 - MsgHdrLen - SetHdrLen

\* Op(x), where x is evaluated once.
Once(Op(_), x) == CHOOSE y \in {Op(z) : z \in {x}} : TRUE

\* Reading.
U8(mem, at) == mem[at + 1]
U16(mem, at) == 256 * mem[at + 1] + mem[at + 2]
\* A number of 32 bits, those from 2^31 on as negative ones: enterprise
\* numbers are compared, nothing else.
U32(mem, at) ==
  65536 * (IF U16(mem, at) < 32768 THEN U16(mem, at) ELSE U16(mem, at) - 65536) + U16(mem, at + 2)

\* Writing, for the inputs of instances.
Bytes16(n) == <<n \div 256, n % 256>>
Bytes32(n) == Bytes16(n \div 65536) \o Bytes16(n % 65536)

\* A field specifier, and the header of an (Options) Template.
SpecifierBytes(ie) ==
  IF ie.en = 0 THEN Bytes16(ie.id) \o Bytes16(ie.len)
  ELSE Bytes16(EnBit + ie.id) \o Bytes16(ie.len) \o Bytes32(ie.en)
TmpltHeader(id, count) == Bytes16(id) \o Bytes16(count)
OptsHeader(id, count, scope) == TmpltHeader(id, count) \o Bytes16(scope)

\* Length prefix and content of a variable-length field: the data of a reader
\* starts with 1 or 3 bytes that say how much there is.
\* Reads the prefix at a place: bytes of the prefix and of the content.
VarPrefix(mem, at) == IF U8(mem, at) = 255 THEN 3 ELSE 1
VarSize(mem, at) == IF U8(mem, at) = 255 THEN U16(mem, at + 1) ELSE U8(mem, at)

-----------------------------------------------------------------------------
(* Templates *)

CONSTANTS NoElem,      \* no definition (NULL)
          NoMgr,       \* no IE manager (NULL)
          SwapPairs,   \* <<source, destination>>: the table of standard pairs
          OptsRules    \* the element IDs that the Options Templates are known by

Lookup(mgr, en, id) ==
  IF mgr # NoMgr /\ <<en, id>> \in DOMAIN mgr THEN mgr[<<en, id>>] ELSE NoElem

FieldIndices(t) == DOMAIN t.fields
SameIe(f, g) == f.id = g.id /\ f.en = g.en
MinOf(S) == CHOOSE x \in S : \A y \in S : x <= y

-----------------------------------------------------------------------------
(* Parsing *)

ParseError == [rc |-> "FORMAT"]

\* What an Options Template must not have: no scope fields, or more than fields.
\* Mutant: a template of scope fields only is refused.
BadScopeIfAll(scope, count) == scope = 0 \/ scope >= count
BadScope(scope, count) == scope = 0 \/ scope > count

\* template_parse_header(): len bytes may be read from place at on.
ParseHeader(type, mem, at, len) ==
  LET id == U16(mem, at)
      count == U16(mem, at + 2)
      withdrawsAll == IF type = "data" THEN id = TmpltSet ELSE id = OptsSet
      full == count # 0 /\ type = "options"
      scope == IF full THEN U16(mem, at + 4) ELSE 0
  IN  IF \/ len < WdrlLen
         \/ id < MinDset /\ ~(withdrawsAll /\ count = 0)
         \/ full /\ (len < WdrlLen + 2 \/ BadScope(scope, count))
      THEN ParseError
      ELSE [rc |-> "OK", id |-> id, count |-> count, scope |-> scope,
            len |-> IF full THEN WdrlLen + 2 ELSE WdrlLen]

\* template_parse_fields(): specifiers [id, en, len] from place at up to end.
\* place[i] is where the i-th one starts, behind the end if it is cut off (as
\* one must be if not even the short form of all of them fits).
ParseFields(mem, at, end, count) ==
  LET Spec4(p) == p + FieldLen <= end
      Long(p) == U16(mem, p) >= EnBit
      Whole(p) == Spec4(p) /\ (Long(p) => Spec4(p + FieldLen))
      After(p) == IF p > end \/ ~Whole(p) THEN end + 1
                  ELSE p + (IF Long(p) THEN 2 ELSE 1) * FieldLen
      place[i \in 1..(count + 1)] == IF i = 1 THEN at ELSE Once(After, place[i - 1])
      ie(p) == [id |-> U16(mem, p) % EnBit,
                en |-> IF Long(p) THEN U32(mem, p + FieldLen) ELSE 0,
                len |-> U16(mem, p + 2)]
  IN  IF at + count * FieldLen > end \/ place[count + 1] > end THEN ParseError
      ELSE [rc |-> "OK", len |-> place[count + 1] - at,
            ies |-> [i \in 1..count |-> ie(place[i])]]

\* template_fields_calc_flags(): from the last field to the first.  Fields
\* with another remainder of their ID are not compared.
HashSeen(ies, i) == \E j \in (i + 1)..Len(ies) : ies[j].id % 64 = ies[i].id % 64
\* Mutant: elements are taken for the same by the remainder alone.
LaterSameHash(ies, i) == {x \in (i + 1)..Len(ies) : HashSeen(ies, i) /\ ies[x].id % 64 = ies[i].id % 64}
LaterSame(ies, i) == {x \in (i + 1)..Len(ies) : HashSeen(ies, i) /\ SameIe(ies[x], ies[i])}
OccurrenceFlags(ies, i) ==
  LET repeats == \/ LaterSame(ies, i) # {}
                 \/ \E k \in 1..(i - 1) : LaterSame(ies, k) # {} /\ i = MinOf(LaterSame(ies, k))
  IN  (IF repeats THEN {"MULTI"} ELSE {}) \cup (IF LaterSame(ies, i) = {} THEN {"LAST"} ELSE {})

\* Least length of a record up to field i, and the offset of the field.
LengthBefore(ies) ==
  LET sum[i \in 1..(Len(ies) + 1)] ==
        IF i = 1 THEN 0
        ELSE sum[i - 1] + (IF ies[i - 1].len = VarLen THEN 1 ELSE ies[i - 1].len)
  IN  sum
OffsetOf(ies, i) ==
  IF \E j \in 1..(i - 1) : ies[j].len = VarLen THEN VarLen ELSE LengthBefore(ies)[i] % 65536

(* opts_detector(): which well-known Options Templates this is *)

FirstOf(fields, id) == {i \in DOMAIN fields : /\ fields[i].en = 0 /\ fields[i].id = id
                                              /\ \A j \in 1..(i - 1) : fields[j].en # 0 \/ fields[j].id # id}
HasRequired(fields, scope, ids) ==
  \A id \in ids : \E i \in (scope + 1)..Len(fields) : fields[i].id = id /\ fields[i].en = 0
HasObsTime(fields, scope) ==
  Cardinality({i \in (scope + 1)..Len(fields) : fields[i].en = 0 /\ fields[i].id \in 322..325}) = 2
\* All of the elements that are present are in the scope, and once only.
ScopedOnce(fields, ids) ==
  \A id \in ids : \A i \in FirstOf(fields, id) :
     "SCOPE" \in fields[i].flags /\ "MULTI" \notin fields[i].flags
Present(fields, ids) == {id \in ids : FirstOf(fields, id) # {}}

DetectMproc(fields, scope) ==
  IF Present(fields, OptsRules.mproc) = {} \/ ~ScopedOnce(fields, OptsRules.mproc) THEN {}
  ELSE (IF HasRequired(fields, scope, OptsRules.mprocStat) THEN {"MPROC_STAT"} ELSE {})
       \cup (IF /\ HasRequired(fields, scope, OptsRules.mprocRel)
                /\ HasObsTime(fields, scope)
             THEN {"MPROC_RELIABILITY_STAT"} ELSE {})
DetectEproc(fields, scope) ==
  IF /\ \E id \in OptsRules.eproc : \E i \in FirstOf(fields, id) : {"SCOPE", "LAST"} \subseteq fields[i].flags
     /\ HasRequired(fields, scope, OptsRules.eprocRel)
     /\ HasObsTime(fields, scope)
  THEN {"EPROC_RELIABILITY_STAT"} ELSE {}
DetectFlowkey(fields, scope) ==
  IF /\ Present(fields, OptsRules.fkey) # {} /\ ScopedOnce(fields, OptsRules.fkey)
     /\ HasRequired(fields, scope, OptsRules.fkeyReq)
  THEN {"FKEYS"} ELSE {}
DetectIetype(fields, scope) ==
  IF /\ Present(fields, OptsRules.ietype) = OptsRules.ietype /\ ScopedOnce(fields, OptsRules.ietype)
     /\ HasRequired(fields, scope, OptsRules.ietypeReq)
  THEN {"IE_TYPE"} ELSE {}
DetectOpts(fields, scope) ==
  DetectMproc(fields, scope) \cup DetectEproc(fields, scope)
    \cup DetectFlowkey(fields, scope) \cup DetectIetype(fields, scope)

\* template_calc_features(): fields, flags and length of a parsed template.
ParsedFields(ies, scope) ==
  [i \in DOMAIN ies |->
     [id |-> ies[i].id, en |-> ies[i].en, len |-> ies[i].len, off |-> OffsetOf(ies, i),
      flags |-> OccurrenceFlags(ies, i) \cup (IF i <= scope THEN {"SCOPE"} ELSE {}),
      def |-> NoElem]]
ParsedFlags(fields) ==
  (IF \E i \in DOMAIN fields : "MULTI" \in fields[i].flags THEN {"MULTI"} ELSE {})
    \cup (IF \E i \in DOMAIN fields : fields[i].len = VarLen THEN {"DYNAMIC"} ELSE {})

\* The template of a header, specifiers and the bytes they were parsed from.
ParsedTemplate(type, header, ies, raw) ==
  LET Whole(fields) ==
        [type |-> type, id |-> header.id, scope |-> header.scope, fields |-> fields, rev |-> <<>>,
         flags |-> ParsedFlags(fields), dataLen |-> LengthBefore(ies)[header.count + 1], raw |-> raw,
         opts |-> IF type = "options" THEN DetectOpts(fields, header.scope) ELSE {}]
  IN  Once(Whole, ParsedFields(ies, header.scope))

\* fds_template_parse(): rc, the bytes consumed and the template.
Parse(type, mem, at, len) ==
  LET header == ParseHeader(type, mem, at, len)
      Rest(specs) ==
        IF specs.rc # "OK" THEN ParseError
        ELSE IF LengthBefore(specs.ies)[header.count + 1] > MaxRecord THEN ParseError
        ELSE [rc |-> "OK", len |-> header.len + specs.len,
              tmplt |-> ParsedTemplate(type, header, specs.ies, SubSeq(mem, at + 1, at + header.len + specs.len))]
  IN  IF header.rc # "OK" THEN ParseError
      ELSE Once(Rest, ParseFields(mem, at + header.len, at + len, header.count))

-----------------------------------------------------------------------------
(* Definitions of Information Elements *)

\* template_ies_biflow_src2dst(): the ID of the other end, 0 if there is none.
SwapStandard(id) ==
  LET other == {p[2] : p \in {q \in SwapPairs : q[1] = id}} \cup {p[1] : p \in {q \in SwapPairs : q[2] = id}}
  IN  IF other = {} THEN 0 ELSE CHOOSE x \in other : TRUE
\* Elements are found by name among those of IANA alone.
SwappedNames(mgr, en, id) ==
  LET elem == Lookup(mgr, en, id)
      other == IF elem.name[1] = "source" THEN "destination" ELSE "source"
  IN  IF elem = NoElem \/ elem.name[1] = "" THEN {}
      ELSE {e \in {mgr[k] : k \in DOMAIN mgr} : e.en = 0 /\ e.name = <<other, elem.name[2]>>}
SwapIe(mgr, en, id) ==
  IF en = 0 /\ SwapStandard(id) # 0 THEN SwapStandard(id)
  ELSE LET found == SwappedNames(mgr, en, id)
       IN  IF found = {} THEN 0 ELSE (CHOOSE e \in found : TRUE).id

\* Mutant: the field keeps the number of the other direction.
RenamedDefOnly(r, elem) == [r EXCEPT !.def = elem]
Renamed(r, elem) == [r EXCEPT !.def = elem, !.en = elem.en, !.id = elem.id]
HasIe(fields, en, id) == \E i \in DOMAIN fields : fields[i].en = en /\ fields[i].id = id

\* template_ies_biflow(): one field f and its counterpart r in the view from
\* the other direction.
BiflowField(mgr, fields, f, r) ==
  LET fwd == [f EXCEPT !.flags = @ \ {"BKEY"}]
      rev == [r EXCEPT !.flags = @ \ {"BKEY"}]
      other == f.def.partner
      swapped == SwapIe(mgr, f.en, f.id)
      key(x) == [x EXCEPT !.flags = @ \cup {"BKEY"}]
  IN  CASE f.def = NoElem -> <<key(f), key(r)>>
        [] f.def # NoElem /\ r.def # NoElem -> <<f, r>>
        [] f.def # NoElem /\ r.def = NoElem /\ f.def.reverse ->
             <<fwd, Renamed([rev EXCEPT !.flags = @ \ {"REVERSE"}], other)>>
        [] /\ f.def # NoElem /\ r.def = NoElem /\ ~f.def.reverse
           /\ other # NoElem /\ HasIe(fields, other.en, other.id) ->
             <<fwd, Renamed([rev EXCEPT !.flags = @ \cup {"REVERSE"}], other)>>
        [] OTHER ->
             <<key(fwd),
               IF swapped # 0
               THEN [key(rev) EXCEPT !.id = swapped, !.def = Lookup(mgr, r.en, swapped)]
               ELSE [key(rev) EXCEPT !.def = f.def]>>
Biflow(t, mgr) ==
  IF "BIFLOW" \notin t.flags THEN t
  ELSE LET rev == IF t.rev = <<>> THEN [i \in DOMAIN t.fields |-> [t.fields[i] EXCEPT !.def = NoElem]]
                  ELSE t.rev
           both == [i \in DOMAIN t.fields |-> BiflowField(mgr, t.fields, t.fields[i], rev[i])]
       IN  [t EXCEPT !.fields = [i \in DOMAIN @ |-> both[i][1]],
                     !.rev = [i \in DOMAIN t.fields |-> both[i][2]]]

\* fds_template_ies_define(): every definition anew, or only the missing ones.
IesDefine(t, mgr, preserve) ==
  LET kept(i) == preserve /\ t.fields[i].def # NoElem
      wasBiflow == preserve /\ "BIFLOW" \in t.flags
      wasStruct == preserve /\ "STRUCT" \in t.flags
      found(i) == LET e == Lookup(mgr, t.fields[i].en, t.fields[i].id)
                  IN  IF preserve /\ ~wasBiflow /\ e # NoElem /\ e.reverse THEN NoElem ELSE e
      field(i) ==
        LET f == t.fields[i]
            e == found(i)
            features == IF e = NoElem THEN {}
                        ELSE (IF e.reverse THEN {"REVERSE"} ELSE {}) \cup (IF e.struct THEN {"STRUCT"} ELSE {})
        IN  IF kept(i) THEN f
            ELSE [f EXCEPT !.def = e, !.flags = (@ \ {"STRUCT", "REVERSE", "BKEY"}) \cup features]
      fresh == {i \in DOMAIN t.fields : ~kept(i) /\ found(i) # NoElem}
      flags == (t.flags \ {"BIFLOW", "STRUCT"})
               \cup (IF wasBiflow \/ \E i \in fresh : found(i).reverse THEN {"BIFLOW"} ELSE {})
               \cup (IF wasStruct \/ \E i \in fresh : found(i).struct THEN {"STRUCT"} ELSE {})
  IN  IF mgr = NoMgr /\ preserve THEN t
      ELSE Biflow([t EXCEPT !.fields = [i \in DOMAIN @ |-> field(i)],
                            !.rev = IF preserve THEN @ ELSE <<>>,
                            !.flags = flags], mgr)

-----------------------------------------------------------------------------
(* Flow keys: a key is the set of its bits, the first field being bit 0 *)

\* fds_template_flowkey_applicable()
FlowkeyApplicable(t, key) == \A b \in key : b < Len(t.fields)

\* Mutant: the view from the other direction is left as it is.
FlowkeyDefineForward(t, key) ==
  [t EXCEPT !.flags = IF key # {} THEN @ \cup {"FKEY"} ELSE @ \ {"FKEY"},
            !.fields = [i \in DOMAIN @ |-> [@[i] EXCEPT !.flags = IF i - 1 \in key THEN @ \cup {"FKEY"}
                                                                 ELSE @ \ {"FKEY"}]]]

\* fds_template_flowkey_define(), of an applicable key
FlowkeyDefine(t, key) ==
  LET marked(fields) ==
        [i \in DOMAIN fields |->
           [fields[i] EXCEPT !.flags = IF i - 1 \in key THEN @ \cup {"FKEY"} ELSE @ \ {"FKEY"}]]
  IN  [t EXCEPT !.flags = IF key # {} THEN @ \cup {"FKEY"} ELSE @ \ {"FKEY"},
                !.fields = marked(@), !.rev = marked(@)]

\* fds_template_flowkey_cmp(): equal?
FlowkeyEqual(t, key) ==
  IF key = {} \/ "FKEY" \notin t.flags THEN key = {} /\ "FKEY" \notin t.flags
  ELSE /\ FlowkeyApplicable(t, key)
       /\ \A i \in DOMAIN t.fields : (i - 1 \in key) <=> "FKEY" \in t.fields[i].flags

\* fds_template_cmp(): only the bytes are compared.
TemplateEqual(t, u) == t.raw = u.raw
=============================================================================
