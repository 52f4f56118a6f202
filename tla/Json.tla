-------------------------------- MODULE Json --------------------------------
(***************************************************************************)
(* A Data Record as JSON, src/converters/json.c: fields in the order of    *)
(* the record, values of one element together, lists within lists, in a    *)
(* buffer of the caller's that may be allowed to grow.                     *)
(*                                                                         *)
(* The text written is a sequence of pieces, as in Converters.  A          *)
(* conversion is given its surroundings c = [flags, mgr, snap, mem]; the   *)
(* definition of an element also has a type and label, the length of its   *)
(* name and of its scope's.                                                *)
(***************************************************************************)
EXTENDS Converters, Iterators

CONSTANT BufferBase     \* bound: size that buffers are allocated in multiples of

-----------------------------------------------------------------------------
(* The buffer: once rc is not OK, nothing more is done *)

Buffer(alloc, grow) ==
  [rc |-> "OK", text |-> <<>>, used |-> 0, alloc |-> alloc, grow |-> grow, over |-> FALSE]

\* Mutant: a buffer that grows has no room for what is to be written.
GrownByBase(b, n) == b.alloc + BufferBase
Grown(b, n) == (n \div BufferBase + 1) * BufferBase

\* buffer_reserve() and what is then written: a text that needs room for a
\* number of characters is written there, if need be after room for as many as
\* asked for has been reserved.  over tells that it did not fit nevertheless.
Write(b, need, ask, text) ==
  LET small(x) == x.used + need > x.alloc
      put(x) == [x EXCEPT !.text = @ \o text, !.used = @ + Chars(text),
                          !.alloc = IF small(x) THEN Grown(x, x.used + ask) ELSE @,
                          !.over = @ \/ x.used + Chars(text) > (IF small(x) THEN Grown(x, x.used + ask) ELSE x.alloc)]
      after(x) == IF x.rc # "OK" THEN x
                  ELSE IF small(x) /\ ~x.grow THEN [x EXCEPT !.rc = "BUFFER"]
                  ELSE put(x)
  IN  Once(after, b)

\* buffer_append()
Append1(b, piece) == Write(b, piece[3] + 1, piece[3] + 1, <<piece>>)

Fails(b, rc) == LET after(x) == IF x.rc # "OK" THEN x ELSE [x EXCEPT !.rc = rc] IN Once(after, b)

\* A value that cannot be converted is replaced by null; the buffer may have
\* grown meanwhile.
\* Mutant: what was written of the value is left.
Kept(before, b) == [b EXCEPT !.rc = "OK"]
Undone(before, b) == [b EXCEPT !.rc = "OK", !.text = before.text, !.used = before.used]
OrNull(before, b, null) ==
  LET after(x) == IF x.rc # "ARG" THEN x ELSE Append1(Undone(before, x), null) IN Once(after, b)

-----------------------------------------------------------------------------
(* Fixed texts *)

Fixed(name, chars) == Piece("fixed", name, chars)
Comma == Fixed("comma", 1)
Open(kind) == Fixed(IF kind = "object" THEN "{" ELSE "[", 1)
Close(kind) == Fixed(IF kind = "object" THEN "}" ELSE "]", 1)
Quote == Fixed("quote", 1)
Colon == Fixed("colon", 1)
Null == Fixed("null", 4)
EntryHead(type) == IF type = "options" THEN Fixed("optionsEntry", 30) ELSE Fixed("entry", 23)
BlistHead == Fixed("basicList", 29)
BlistSemantic == Fixed("semantic", 14)
BlistField == Fixed("fieldID", 12)
StlistHead == Fixed("subTemplateList", 39)
StmlistHead == Fixed("subTemplateMultiList", 44)
ListData == Fixed("data", 10)
ListTail == Fixed("tail", 2)

\* add_sematic(), of the semantic that an iterator has read
Semantic(byte) ==
  LET names == <<6, 12, 11, 5, 7>>
  IN  IF byte + 1 \in DOMAIN names THEN Piece("semantic", byte, names[byte + 1])
      ELSE Piece("semantic", 255, 9)

\* Lengths of the names of protocols; those from 143 on are their numbers.
ProtocolLens ==
  <<2,4,4,3,4,2,3,3,3,3,11,6,3,5,5,4,5,3,3,8,3,3,7,7,7,6,6,3,4,7,6,7,9,4,3,4,
    3,3,9,4,2,4,4,10,9,4,4,3,3,3,3,2,6,5,4,6,4,4,9,10,9,2,4,2,9,9,3,4,2,7,4,4,
    4,4,3,3,10,6,6,8,6,4,11,5,3,10,3,3,5,7,10,4,3,5,4,4,6,7,5,2,4,4,4,3,4,4,3,
    3,6,3,11,9,4,3,3,4,3,4,3,3,3,3,2,3,4,4,4,5,8,4,3,4,4,2,15,15,7,10,5,3,5,4,
    4>>
ProtocolLen(byte) == IF byte + 1 \in DOMAIN ProtocolLens THEN ProtocolLens[byte + 1] ELSE 3

-----------------------------------------------------------------------------
(* Values of simple types: [need, ask, rc, text].  The text is written when *)
(* there is room for need characters; else room for ask is reserved first.  *)

Conversion(need, result) ==
  IF result.rc = "OK" THEN [need |-> need, ask |-> need, rc |-> "OK", text |-> result.text]
  ELSE [need |-> need, ask |-> need, rc |-> "ARG", text |-> <<>>]
Refused == Conversion(0, Fault("ARG"))
\* Of a conversion that is tried before anything is reserved.
Tried(need, ask, result) ==
  IF result.rc = "OK" THEN [Conversion(need, result) EXCEPT !.ask = ask] ELSE Refused
Quoted(result) == IF result.rc = "OK" THEN Text(<<Quote>> \o result.text \o <<Quote>>) ELSE result

\* to_uint(), to_int(), to_bool()
UintText(field) == Tried(RoomInt, RoomInt, Uint2Str(field, RoomInt))
IntText(field) == Tried(RoomInt, RoomInt, Int2Str(field, RoomInt))
BoolText(field) ==
  LET result == Bool2Str(field, 6)
  IN  IF Len(field) # 1 \/ result.rc # "OK" THEN Refused ELSE Tried(Chars(result.text) + 1, 6, result)

\* to_octet()
OctetText(flags, field) ==
  LET need == 2 * Len(field) + 5
  IN  IF Len(field) = 0 THEN Refused
      ELSE IF "OCTETS_NOINT" \notin flags /\ Len(field) <= 8 THEN UintText(field)
      ELSE Conversion(need, Text(<<Quote, Fixed("0x", 2)>> \o OctetArray2Str(field, need - 3).text \o <<Quote>>))

\* to_datetime(): a text, or the number of milliseconds
RoomDate == 40
TimeText(flags, type, field) ==
  LET time == GetTimeLp(type, field)
  IN  IF "TS_FORMAT_MSEC" \in flags
      THEN Conversion(RoomDate + 2, Quoted(Datetime2Str(field, type, "msec", "utc", RoomDate + 1)))
      ELSE IF time.rc # "OK" THEN Refused ELSE UintText(time.value)

\* to_mac(), to_ip()
MacText(field) == Conversion(RoomMac + 2, Quoted(Mac2Str(field, RoomMac + 1)))
IpText(field) == Conversion(RoomIp6 + 2, Quoted(Ip2Str(field, RoomIp6 + 1)))

\* How to_string() writes the character at p: what cannot be printed is left
\* out if it is so wanted.
JsonEscapable == {8, 9, 10, 12, 13}
JsonPiece(flags, bytes, p) ==
  LET byte == bytes[p]
      len == Utf8Len(bytes, p)
      special == byte \in JsonEscapable \/ IsControl(byte) \/ len = 0
  IN  IF byte \in {34, 92} THEN Piece("escaped", byte, 2)
      ELSE IF ~special THEN Piece("char", SubSeq(bytes, p, p + len - 1), len)
      ELSE IF "NON_PRINTABLE" \in flags THEN Piece("dropped", byte, 0)
      ELSE IF byte \in JsonEscapable THEN Piece("escaped", byte, 2)
      ELSE IF IsControl(byte) THEN Piece("unicode", byte, 6)
      ELSE Replacement
StringText(flags, field) ==
  LET at(bytes, p) == JsonPiece(flags, bytes, p)
  IN  Conversion(6 * Len(field) + 4, Quoted(Text(Pieces(field, at))))

\* to_flags(), to_proto()
TcpFlagsText(field) ==
  IF Len(field) \notin {1, 2} THEN Refused
  ELSE Conversion(9, Quoted(Text(<<Piece("tcpFlags", field[Len(field)] % 64, 6)>>)))
ProtocolText(field) ==
  LET len == ProtocolLen(field[1])
  IN  IF Len(field) # 1 THEN Refused
      ELSE Conversion(len + 3, Quoted(Text(<<Piece("protocol", field[1], len)>>)))

\* get_converter(): by type, of unknown elements bytes
TypeOf(info) == IF info.def = NoElem THEN "octetArray" ELSE info.def.type
\* iter_loop() chooses the texts of TCP flags and protocols, if so wanted.
KindOf(c, info) ==
  IF "FORMAT_TCPFLAGS" \in c.flags /\ info.id = 6 /\ info.en \in PaddingPens THEN "tcpFlags"
  ELSE IF "FORMAT_PROTO" \in c.flags /\ info.id = 4 /\ info.en \in PaddingPens THEN "protocol"
  ELSE TypeOf(info)

Simple(c, kind, field) ==
  CASE kind \in UintTypes -> UintText(field)
    [] kind \in IntTypes -> IntText(field)
    [] kind = "boolean" -> BoolText(field)
    [] kind = "macAddress" -> MacText(field)
    [] kind = "string" -> StringText(c.flags, field)
    [] kind \in TimeTypes -> TimeText(c.flags, kind, field)
    [] kind \in {"ipv4Address", "ipv6Address"} -> IpText(field)
    [] kind = "tcpFlags" -> TcpFlagsText(field)
    [] kind = "protocol" -> ProtocolText(field)
    [] OTHER -> OctetText(c.flags, field)

PutConversion(b, v) ==
  IF v.rc # "OK" THEN Fails(Write(b, v.need, v.ask, <<>>), "ARG") ELSE Write(b, v.need, v.ask, v.text)

\* add_field_name(): by name, or by numbers
NumericName == 32
DecimalLen(n) == 1 + Cardinality({k \in 1..9 : n >= 10^k})
FieldName(c, info) ==
  IF info.def = NoElem \/ "NUMERIC_ID" \in c.flags
  THEN [need |-> NumericName,
        name |-> Piece("numericName", <<info.en, info.id>>, 7 + DecimalLen(info.en) + DecimalLen(info.id))]
  ELSE [need |-> info.def.label + 5, name |-> Piece("name", <<info.def.en, info.def.id>>, info.def.label + 3)]
PutName(c, b, info) ==
  LET put(field) == Write(b, field.need, field.need, <<field.name, Colon>>)
  IN  Once(put, FieldName(c, info))

-----------------------------------------------------------------------------
(* Records and lists, of each other.  A loop is at s = [loop, over, it, b,   *)
(* added]: what it writes, the field or record it is over, the iterator, the *)
(* buffer and the number of values written; it leaves the s it ends at.      *)

RECURSIVE Loop(_, _)

Start(loop, over, it, b) == [loop |-> loop, over |-> over, it |-> it, b |-> b, added |-> 0]
Run(c, s) == Loop(c, s)
Wrote(c, s, it, b) == Run(c, [s EXCEPT !.it = it, !.b = b, !.added = @ + 1])
Passed(c, s, it) == Run(c, [s EXCEPT !.it = it])
Ends(s, b) == [s EXCEPT !.b = b]
Separated(s) == IF s.added > 0 THEN Append1(s.b, Comma) ELSE s.b
\* A list is over when its iterator is; one that is malformed is of no use.
Ended(s, step, b) == Ends([s EXCEPT !.it = step[1]], IF step[2].rc = "EOC" THEN b ELSE Fails(s.b, "ARG"))

FieldAt(rec, found) == [info |-> found.info, at |-> rec.at + found.data, size |-> found.size]
IterFlagsOf(flags) ==
  (IF "IGNORE_UNKNOWN" \in flags THEN {"UNKNOWN_SKIP"} ELSE {})
    \cup (IF "BIFLOW_REVERSE" \in flags THEN {"BIFLOW_REV"} ELSE {})
    \cup (flags \cap {"REVERSE_SKIP"})
RecordIter(c, rec) == IterInit(rec, IterFlagsOf(c.flags))
SubRecord(c, tmplt, result) == [tmplt |-> tmplt, mem |-> c.mem, at |-> result.rec, size |-> result.size]

\* A record's fields in braces: "{", iter_loop(), "}".
BracedRecord(c, b, rec) ==
  Append1(Run(c, Start("record", rec, RecordIter(c, rec), Append1(b, Open("object")))).b, Close("object"))

\* A field's value by the converter of a kind.
ListHead(b, head, semantic) == Append1(Append1(Append1(b, head), Semantic(semantic)), ListData)
SemanticOf(c, f, it) == IF it.err = "FORMAT" THEN 255 ELSE U8(c.mem, f.at)
ListOver(c, b, f, kind, head, it) ==
  Run(c, Start(kind, f, it, ListHead(b, head, SemanticOf(c, f, it)))).b
Value(c, b, f, kind) ==
  CASE kind = "basicList" ->
         Run(c, Start(kind, f, BlistInit(c.mem, f.at, f.size), Append1(b, BlistHead))).b
    [] kind = "subTemplateList" ->
         ListOver(c, b, f, kind, StlistHead, StlistInit(c.mem, f.at, f.size, c.snap, FALSE))
    [] kind = "subTemplateMultiList" ->
         ListOver(c, b, f, kind, StmlistHead, StmlistInit(c.mem, f.at, f.size, c.snap, FALSE))
    [] OTHER -> PutConversion(b, Simple(c, kind, SubSeq(c.mem, f.at + 1, f.at + f.size)))

\* A value, or null, after which the loop is as before but for it.
ValueOrNull(c, b, f, kind) ==
  LET after(x) == OrNull(x, Value(c, x, f, kind), Null) IN Once(after, b)

\* to_blist(): the values of one element, then the list's semantic and element
BlistInfo(c, it) == [id |-> it.id, en |-> it.en, def |-> Lookup(c.mgr, it.en, it.id)]
WithoutColon(b) ==
  LET cut(x) == IF x.rc # "OK" THEN x ELSE [x EXCEPT !.text = SubSeq(@, 1, Len(@) - 1), !.used = @ - 1]
  IN  Once(cut, b)
BlistEnd(c, b, f, it) ==
  LET semantic == Append1(Append1(b, BlistSemantic), Semantic(U8(c.mem, f.at)))
  IN  Append1(WithoutColon(PutName(c, Append1(semantic, BlistField), BlistInfo(c, it))), Close("object"))
BlistValues(c, s) ==
  LET info == BlistInfo(c, s.it)
      item(r) == ValueOrNull(c, Separated(s), [info |-> info, at |-> r.rec, size |-> r.size], TypeOf(info))
      after(step) ==
        IF step[2].rc = "OK" THEN Wrote(c, s, step[1], item(step[2]))
        ELSE Ended(s, step, BlistEnd(c, s.b, s.over, s.it))
  IN  Once(after, BlistNext(c.mem, s.it))

\* to_stlist(): records of one template
ListRecord(c, s, step) ==
  Wrote(c, s, step[1], BracedRecord(c, Separated(s), SubRecord(c, s.it.tmplt, step[2])))
StlistRecords(c, s) ==
  LET after(step) == IF step[2].rc = "OK" THEN ListRecord(c, s, step) ELSE Ended(s, step, Append1(s.b, ListTail))
  IN  Once(after, StlistNext(c.mem, s.it))

\* to_stMulList(): blocks of records
BlockRecords(c, s) ==
  LET after(step) == IF step[2].rc = "OK" THEN ListRecord(c, s, step) ELSE Ended(s, step, s.b)
  IN  Once(after, StmlistNextRec(c.mem, s.it))
StmlistBlocks(c, s) ==
  LET closed(block) == Wrote(c, s, block.it, Append1(block.b, Close("array")))
      after(step) ==
        IF step[2].rc = "OK"
        THEN Once(closed, Run(c, Start("block", s.over, step[1], Append1(Separated(s), Open("array")))))
        ELSE Ended(s, step, Append1(s.b, ListTail))
  IN  Once(after, StmlistNextBlock(c.mem, s.it))

\* multi_fields(): all values of the element of a field, up to the last
\* occurrence.
Multi(c, s) ==
  LET rec == s.over.rec
      value(found) == ValueOrNull(c, s.b, FieldAt(rec, found), KindOf(c, s.over.info))
      after(step) ==
        CASE step[2].rc = "EOC" -> Ends(s, Append1(s.b, Close("array")))
          [] step[2].rc = "OK" /\ ~SameIe(step[2].info, s.over.info) -> Passed(c, s, step[1])
          [] step[2].rc = "OK" /\ SameIe(step[2].info, s.over.info) /\ "LAST" \in step[2].info.flags ->
               Ends(s, Append1(value(step[2]), Close("array")))
          [] OTHER -> Wrote(c, s, step[1], Append1(value(step[2]), Comma))
  IN  Once(after, IterNext(rec, s.it))

\* iter_loop(): an element that occurs repeatedly is shown where it does for
\* the last time.
Repeated(info) == "MULTI" \in info.flags
RecordFields(c, s) ==
  LET rec == s.over
      over(info) == [rec |-> rec, info |-> info]
      value(b, f) ==
        IF Repeated(f.info)
        THEN Run(c, Start("multi", over(f.info), RecordIter(c, rec), Append1(b, Open("array")))).b
        ELSE ValueOrNull(c, b, f, KindOf(c, f.info))
      after(step) ==
        CASE step[2].rc = "EOC" -> s
          [] step[2].rc = "OK" /\ Repeated(step[2].info) /\ "LAST" \notin step[2].info.flags -> Passed(c, s, step[1])
          [] OTHER -> Wrote(c, s, step[1], value(PutName(c, Separated(s), step[2].info), FieldAt(rec, step[2])))
  IN  Once(after, IterNext(rec, s.it))

\* A failure ends all loops.
Loop(c, s) ==
  CASE s.b.rc # "OK" -> s
    [] s.b.rc = "OK" /\ s.loop = "basicList" -> BlistValues(c, s)
    [] s.b.rc = "OK" /\ s.loop = "subTemplateList" -> StlistRecords(c, s)
    [] s.b.rc = "OK" /\ s.loop = "subTemplateMultiList" -> StmlistBlocks(c, s)
    [] s.b.rc = "OK" /\ s.loop = "block" -> BlockRecords(c, s)
    [] s.b.rc = "OK" /\ s.loop = "multi" -> Multi(c, s)
    [] s.b.rc = "OK" /\ s.loop = "record" -> RecordFields(c, s)

\* fds_drec2json(): to a buffer of the caller's, or one of its own for size 0.
Drec2Json(c, rec, size) ==
  LET start == IF size = 0 THEN Buffer(BufferBase, TRUE) ELSE Buffer(size, "ALLOW_REALLOC" \in c.flags)
      loop == Start("record", rec, RecordIter(c, rec), Append1(start, EntryHead(rec.tmplt.type)))
  IN  Append1(Run(c, loop).b, Close("object"))
=============================================================================
