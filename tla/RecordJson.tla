----------------------------- MODULE RecordJson -----------------------------
(***************************************************************************)
(* A record and its user, who either reads its fields through an iterator  *)
(* (Records), or sets values of them and converts it to JSON, in buffers   *)
(* that are the user's or are left by earlier conversions.  A conversion   *)
(* has an iterator of its own: the two have only the template and the      *)
(* record in common.                                                       *)
(***************************************************************************)
EXTENDS Records, Json

CONSTANTS Typed,        \* records to convert: [type, fields], fields of [ie, bytes]
          TypedManagers,\* IE managers that know the types of their elements
          Snapshot,     \* templates of lists' records, by ID
          Values,       \* values to set: [type, value]
          FlagSets,     \* flags to convert with
          Sizes,        \* sizes of buffers the user may give
          NoDoc,        \* no text is in the buffer
          NoValue,      \* no value has been set
          MaxConversion \* bound: calls of a user who converts

VARIABLES use,        \* what the user does: "fields" or "json"
          mgr,        \* the IE manager that the record is converted by
          size,       \* size of the user's buffer, 0 if it is NULL
          doc,        \* history: the text in the buffer, its flags and how the call ended
          value       \* history: the value set last, and where

convars == <<mgr, size, doc, value>>
jvars == <<tmplt, rec, iter, key, found, steps, use, mgr, size, doc, value>>

RawOf(r) == [type |-> r.type, id |-> 256, scope |-> 1, ies |-> [i \in DOMAIN r.fields |-> r.fields[i].ie]]
BytesOf(fields) ==
  LET part[i \in 0..Len(fields)] == IF i = 0 THEN <<>> ELSE part[i - 1] \o fields[i].bytes
  IN  part[Len(fields)]
TemplateOf(raw) == Parse(raw.type, RawBytes(raw), 0, Len(RawBytes(raw))).tmplt

ConvertInit ==
  \E r \in Typed, m \in TypedManagers \cup {NoMgr} :
    /\ tmplt = IesDefine(TemplateOf(RawOf(r)), m, FALSE)
    /\ rec = [mem |-> BytesOf(r.fields), at |-> 0, size |-> Len(BytesOf(r.fields))]
    /\ iter = NoIter /\ key = {} /\ found = NoMatch /\ steps = 0
    /\ use = "json" /\ mgr = m
JInit ==
  /\ \/ RInit /\ use = "fields" /\ mgr = NoMgr
     \/ ConvertInit
  /\ size = 0 /\ doc = NoDoc /\ value = NoValue

Convert == /\ use = "json" /\ steps < MaxConversion /\ steps' = steps + 1
           /\ UNCHANGED <<iter, key, found, use>>
Around(flags) == [flags |-> flags, mgr |-> mgr, snap |-> Snapshot, mem |-> rec.mem]

\* fds_template_ies_define(), with nothing of earlier definitions kept
DefineTypes(m) ==
  /\ Convert /\ m # mgr
  /\ tmplt' = IesDefine(tmplt, m, FALSE) /\ mgr' = m
  /\ doc' = NoDoc
  /\ UNCHANGED <<rec, size, value>>

\* The setter of a type; times are given in one precision or the other.
SetterOf(type, len, v) ==
  CASE type \in UintTypes -> SetUint(len, v)
    [] type \in IntTypes -> SetInt(len, v)
    [] type \in TimeTypes /\ DOMAIN v = {"sec", "nsec"} -> SetTimeHp(len, type, v)
    [] type \in TimeTypes /\ DOMAIN v # {"sec", "nsec"} -> SetTimeLp(len, type, v)
    [] type = "boolean" -> SetBool(len, v)
    [] type \in {"ipv4Address", "ipv6Address"} -> SetBytes(IpSizes \cap {len}, v)
    [] type = "macAddress" -> SetBytes(MacSizes \cap {len}, v)
    [] OTHER -> SetBytes(ArraySizes \cap {len}, v)

FieldBytes(i) ==
  LET off == Offsets(Record, tmplt.fields, 1, 0)[i]
      first == off + PrefixAt(Record, tmplt.fields[i], off)
  IN  SubSeq(rec.mem, first + 1, first + SizeAt(Record, tmplt.fields[i], off))

\* Sets the value of a field of fixed length by the setter of its type.
SetField(i, v) ==
  LET f == tmplt.fields[i]
      at == Offsets(Record, tmplt.fields, 1, 0)[i]
      result == SetterOf(v.type, f.len, v.value)
  IN  /\ Convert
      /\ f.len # VarLen /\ f.def # NoElem /\ f.def.type = v.type
      /\ IF result.rc \in {"OK", "TRUNC"}
         THEN /\ rec' = [rec EXCEPT !.mem = SubSeq(@, 1, at) \o result.field \o SubSeq(@, at + f.len + 1, Len(@))]
              /\ value' = [at |-> i, type |-> v.type, value |-> v.value]
         ELSE UNCHANGED <<rec, value>>
      /\ doc' = NoDoc
      /\ UNCHANGED <<tmplt, mgr, size>>

\* The user frees the buffer and takes another one.
TakeBuffer(n) ==
  /\ Convert /\ n # size
  /\ size' = n /\ doc' = NoDoc
  /\ UNCHANGED <<tmplt, rec, mgr, value>>

\* fds_drec2json(): a buffer that was grown or allocated is the user's on
\* success only.
ToJson(flags) ==
  /\ Convert
  /\ \E result \in {Drec2Json(Around(flags), Record, size)} :
       /\ doc' = [flags |-> flags, rc |-> result.rc, text |-> result.text, used |-> result.used,
                  alloc |-> result.alloc, over |-> result.over]
       /\ size' = (IF result.rc = "OK" THEN result.alloc ELSE size)
  /\ UNCHANGED <<tmplt, rec, mgr, value>>

ReadFields == use = "fields" /\ RNext /\ UNCHANGED <<use, convars>>
JNext ==
  \/ ReadFields
  \/ \E m \in TypedManagers : DefineTypes(m)
  \/ \E i \in DOMAIN tmplt.fields, v \in Values : SetField(i, v)
  \/ \E n \in Sizes : TakeBuffer(n)
  \/ \E flags \in FlagSets : ToJson(flags)

JSpec == JInit /\ [][JNext]_jvars

-----------------------------------------------------------------------------
(* What a record means, said without a buffer *)

RECURSIVE ValueOf(_, _, _, _, _), RecordOf(_, _)

\* What an iterator returns until it ends: <<iterator, result>> of each call,
\* and how the last one ended.
AllOf(Next(_), it) ==
  LET run[i \in 0..(Len(rec.mem) + 1)] ==
        IF i = 0 THEN [items |-> <<>>, it |-> it, rc |-> "OK"]
        ELSE LET last == run[i - 1]
                 call == Next(last.it)
             IN  IF last.rc # "OK" THEN last
                 ELSE [items |-> IF call[2].rc = "OK" THEN Append(last.items, call) ELSE last.items,
                       it |-> call[1], rc |-> call[2].rc]
  IN  run[Len(rec.mem) + 1]

\* Texts with a comma between any two.
Joined(texts) ==
  LET join[i \in 0..Len(texts)] ==
        IF i = 0 THEN <<>> ELSE join[i - 1] \o (IF i = 1 THEN <<>> ELSE <<Comma>>) \o texts[i]
  IN  join[Len(texts)]
Within(kind, text) == <<Open(kind)>> \o text \o <<Close(kind)>>

\* What a simple value says: a number, a truth value, characters, bytes.
Means(kind, meaning) == <<<<kind, meaning>>>>
InQuotes(text) == <<Quote>> \o text \o <<Quote>>
CharactersOf(flags, bytes) ==
  LET character(b, p) ==
        LET len == Utf8Len(b, p)
        IN  IF b[p] \notin {34, 92} /\ "NON_PRINTABLE" \in flags /\ (IsControl(b[p]) \/ len = 0) THEN <<>>
            ELSE IF len = 0 /\ ~IsControl(b[p]) THEN Means("replaced", <<>>)
            ELSE Means("char", IF len < 2 THEN <<b[p]>> ELSE SubSeq(b, p, p + len - 1))
      all == Pieces(bytes, character)
      flat[i \in 0..Len(all)] == IF i = 0 THEN <<>> ELSE flat[i - 1] \o all[i]
  IN  InQuotes(flat[Len(all)])
Numeric(got) == IF got.rc = "OK" THEN Means("number", got.value) ELSE <<Null>>
SimpleOf(flags, kind, bytes) ==
  LET len == Len(bytes)
      time == GetTimeHp(kind, bytes)
  IN  CASE kind \in UintTypes -> Numeric(GetUint(bytes))
        [] kind \in IntTypes -> Numeric(GetInt(bytes))
        [] kind \in TimeTypes /\ "TS_FORMAT_MSEC" \notin flags -> Numeric(GetTimeLp(kind, bytes))
        [] kind \in TimeTypes /\ "TS_FORMAT_MSEC" \in flags ->
             IF time.rc # "OK" THEN <<Null>>
             ELSE InQuotes(Means("date", time.value.sec) \o Means("fraction", Milli(Milli(time.value.nsec)))
                           \o Means("zone", "utc"))
        [] kind = "boolean" -> IF bytes \in {<<1>>, <<2>>} THEN Means("bool", bytes = <<1>>) ELSE <<Null>>
        [] kind = "string" -> CharactersOf(flags, bytes)
        [] kind = "macAddress" -> IF len = 6 THEN InQuotes(Means("mac", bytes)) ELSE <<Null>>
        [] kind \in {"ipv4Address", "ipv6Address"} ->
             IF len \in IpSizes THEN InQuotes(Means(IF len = 4 THEN "ip4" ELSE "ip6", bytes)) ELSE <<Null>>
        [] kind = "tcpFlags" -> IF len \in 1..2 THEN InQuotes(Means("tcpFlags", bytes[len] % 64)) ELSE <<Null>>
        [] kind = "protocol" -> IF len = 1 THEN InQuotes(Means("protocol", bytes[1])) ELSE <<Null>>
        [] OTHER -> IF len = 0 THEN <<Null>>
                    ELSE IF len <= 8 /\ "OCTETS_NOINT" \notin flags THEN Numeric(GetUint(bytes))
                    ELSE InQuotes(<<Fixed("0x", 2)>> \o Means("hex", bytes))

\* The value of a field of len bytes at a place, and a record.
SubRecordsOf(c, calls) ==
  Joined([i \in DOMAIN calls |->
            Within("object", RecordOf(c, SubRecord(c, calls[i][1].tmplt, calls[i][2])))])
ListOf(c, head, at, data) == <<head, Semantic(U8(c.mem, at)), ListData>> \o data \o <<ListTail>>
ValueOf(c, info, kind, at, len) ==
  LET blist == BlistInit(c.mem, at, len)
      item == BlistInfo(c, blist)
      each(calls) == Joined([i \in DOMAIN calls |-> ValueOf(c, item, TypeOf(item), calls[i][2].rec, calls[i][2].size)])
      blistOf(values) ==
        IF values.rc # "EOC" THEN <<Null>>
        ELSE <<BlistHead>> \o each(values.items)
             \o <<BlistSemantic, Semantic(U8(c.mem, at)), BlistField, FieldName(c, item).name, Close("object")>>
      stlistOf(records) ==
        IF records.rc # "EOC" THEN <<Null>> ELSE ListOf(c, StlistHead, at, SubRecordsOf(c, records.items))
      inBlocks(blocks) ==
        [i \in DOMAIN blocks |-> AllOf(LAMBDA it : StmlistNextRec(c.mem, it), blocks[i][1])]
      arrays(parts) == [i \in DOMAIN parts |-> Within("array", SubRecordsOf(c, parts[i].items))]
      ofParts(parts) ==
        IF \E i \in DOMAIN parts : parts[i].rc # "EOC" THEN <<Null>>
        ELSE ListOf(c, StmlistHead, at, Joined(arrays(parts)))
      stmlistOf(blocks) == IF blocks.rc # "EOC" THEN <<Null>> ELSE ofParts(inBlocks(blocks.items))
  IN  CASE kind = "basicList" -> blistOf(AllOf(LAMBDA it : BlistNext(c.mem, it), blist))
        [] kind = "subTemplateList" ->
             stlistOf(AllOf(LAMBDA it : StlistNext(c.mem, it), StlistInit(c.mem, at, len, c.snap, FALSE)))
        [] kind = "subTemplateMultiList" ->
             stmlistOf(AllOf(LAMBDA it : StmlistNextBlock(c.mem, it), StmlistInit(c.mem, at, len, c.snap, FALSE)))
        [] OTHER -> SimpleOf(c.flags, kind, SubSeq(c.mem, at + 1, at + len))

\* Members: the fields shown of the direction wanted, each element where it
\* occurs last, with all of its values.
FieldsShown(c, r) ==
  LET reverse == "BIFLOW" \in r.tmplt.flags /\ "BIFLOW_REVERSE" \in c.flags
      fields == IF reverse THEN r.tmplt.rev ELSE r.tmplt.fields
      hidden(f) == \/ f.id = PaddingIe /\ f.en \in PaddingPens
                   \/ f.def = NoElem /\ "IGNORE_UNKNOWN" \in c.flags
                   \/ "REVERSE" \in f.flags /\ "REVERSE_SKIP" \in c.flags
  IN  [fields |-> fields, shown |-> {i \in DOMAIN fields : ~hidden(fields[i])}]
Listed(texts) == IF Len(texts) = 1 THEN texts[1] ELSE Within("array", Joined(texts))
RecordOf(c, r) ==
  LET view == FieldsShown(c, r)
      fields == view.fields
      off == Offsets(r, fields, 1, 0)
      one(f, o) == ValueOf(c, f, KindOf(c, f), r.at + o + PrefixAt(r, f, o), SizeAt(r, f, o))
      same(i, j) == j \in view.shown /\ SameIe(fields[i], fields[j])
      values(i) == SelectSeq([j \in DOMAIN fields |-> IF same(i, j) THEN one(fields[j], off[j]) ELSE <<>>],
                             LAMBDA text : text # <<>>)
      last(i) == i \in view.shown /\ \A j \in DOMAIN fields : same(i, j) => j <= i
      member(i) == IF last(i) THEN <<FieldName(c, fields[i]).name, Colon>> \o Listed(values(i)) ELSE <<>>
  IN  Joined(SelectSeq([i \in DOMAIN fields |-> member(i)], LAMBDA text : text # <<>>))

NumberRead(sign, digits) ==
  LET sum[i \in 0..Len(digits)] ==
        IF i = 0 THEN ZeroWord ELSE AddW(MulW(sum[i - 1], 10), WordOf(digits[i]))
  IN  IF sign = "-" THEN NegateW(sum[Len(digits)]) ELSE sum[Len(digits)]
\* How a reader of JSON takes a text: digits are a number, escapes stand for
\* characters.
Reading(p) ==
  CASE p[1] = "number" -> <<"number", NumberRead(p[2][1], p[2][2])>>
    [] p[1] = "fraction" -> <<"fraction", NumberRead("", p[2])>>
    [] p[1] = "ip4" -> <<"ip4", [i \in 1..4 |-> NumberOf(NumberRead("", p[2][i]))]>>
    [] p[1] \in {"escaped", "unicode"} -> <<"char", <<p[2]>>>>
    [] OTHER -> <<p[1], p[2]>>
Read(text) ==
  LET shown == SelectSeq(text, LAMBDA p : p[1] # "dropped")
  IN  [i \in DOMAIN shown |-> Reading(shown[i])]
Without(text) == [i \in DOMAIN text |-> <<text[i][1], text[i][2]>>]
Meaning(c, r) ==
  Without(<<EntryHead(r.tmplt.type)>> \o RecordOf(c, r) \o <<Close("object")>>)

-----------------------------------------------------------------------------
(* Properties *)

\* A JSON text says what the record says, whatever buffer it was written to,
\* how often the buffer had to grow, and which values had to be given up for
\* null half-way.  Nothing is written past the end of the buffer, which also
\* has room for the null byte; and only a buffer that must not grow is too small.
\* (A record of which nothing is shown has a comma too much.)
JsonReadsBack ==
  doc # NoDoc =>
    /\ ~doc.over
    /\ doc.rc = "OK" =>
         /\ doc.used < doc.alloc /\ doc.used = Chars(doc.text)
         /\ FieldsShown(Around(doc.flags), Record).shown # {} =>
              Read(doc.text) = Meaning(Around(doc.flags), Record)
    /\ doc.rc # "OK" => doc.rc = "BUFFER" /\ size # 0 /\ "ALLOW_REALLOC" \notin doc.flags

\* A value that was set is read back as it was, or as the nearest that the
\* field can hold: the nearest number, for a time one less than the resolution
\* of the type before it.  (A number of milliseconds that is set and read as
\* such may lose one in a field of micro- or nanoseconds.)
NearestUint(v, bytes) ==
  LET read == GetUint(bytes).value
  IN  read = v \/ (LessW(read, v) /\ bytes = Repeat(255, Len(bytes)))
NearestInt(v, bytes) ==
  LET read == GetInt(bytes).value
      len == Len(bytes)
      \* Signed numbers in the order of unsigned ones.
      shifted(w) == <<(w[1] + 128) % 256>> \o SubSeq(w, 2, WordLen)
  IN  \/ read = v
      \/ LessW(shifted(read), shifted(v)) /\ bytes = <<127>> \o Repeat(255, len - 1)
      \/ LessW(shifted(v), shifted(read)) /\ bytes = <<128>> \o Repeat(0, len - 1)
\* In nanoseconds.
Resolution == [seconds |-> 1000000000, milliseconds |-> 1000000, microseconds |-> 478, nanoseconds |-> 1]
NearestTime(type, v, bytes) ==
  LET read == GetTimeHp(type, bytes).value
      late == NumberOf(v.nsec) - NumberOf(read.nsec)
  IN  read.sec = v.sec /\ late >= 0 /\ late < Resolution[type]
NearestMsec(type, v, bytes) ==
  LET late == SubW(v, GetTimeLp(type, bytes).value)
  IN  LessW(late, WordOf(CASE type = "seconds" -> 1000 [] type = "milliseconds" -> 1 [] OTHER -> 2))
ValuesReadBack ==
  value # NoValue =>
    LET i == value.at
        type == value.type
        v == value.value
    IN  CASE type \in UintTypes -> NearestUint(v, FieldBytes(i))
          [] type \in IntTypes -> NearestInt(v, FieldBytes(i))
          [] type \in TimeTypes /\ DOMAIN v = {"sec", "nsec"} -> NearestTime(type, v, FieldBytes(i))
          [] type \in TimeTypes /\ DOMAIN v # {"sec", "nsec"} -> NearestMsec(type, v, FieldBytes(i))
          [] type = "boolean" -> GetBool(FieldBytes(i)) = Is(v)
          [] OTHER -> FieldBytes(i) = v

\* A value's text fits the room that the documentation asks for, and never goes
\* past the room given; in a smaller room it is the same text or none.
DocumentedRoom(type, bytes) ==
  CASE type \in UintTypes \cup IntTypes -> RoomInt
    [] type \in TimeTypes -> RoomDate
    [] type = "string" -> 4 * Len(bytes) + 1
    [] type = "octetArray" -> 2 * Len(bytes) + 1
    [] type = "macAddress" -> RoomMac
    [] type \in {"ipv4Address", "ipv6Address"} -> RoomIp6
    [] OTHER -> 6
TextFits ==
  use = "json" /\ doc = NoDoc =>
    \A i \in {j \in DOMAIN tmplt.fields : tmplt.fields[j].def # NoElem} :
      LET type == tmplt.fields[i].def.type
          bytes == FieldBytes(i)
          most == DocumentedRoom(type, bytes)
          whole == Field2Str(bytes, type, most)
          fits(room, text) == text.rc = "OK" => text = whole /\ Chars(text.text) < room
      IN  /\ whole.rc # "BUFFER"
          /\ \A room \in 1..most : fits(room, Field2Str(bytes, type, room))
=============================================================================
