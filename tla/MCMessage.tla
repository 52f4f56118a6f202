------------------------------ MODULE MCMessage ------------------------------
(* Instances of MessageReader for TLC: messages of up to MaxChunks Sets, and *)
(* messages of one Set with one byte changed or the end missing.             *)
EXTENDS MessageReader, SequencesExt

CONSTANTS MaxChunks,   \* bound: Sets of a message
          Values       \* what a byte may be changed to

Ie(en, id, len) == [en |-> en, id |-> id, len |-> len]
Tmplt(type, id, scope, ies) == [type |-> type, id |-> id, scope |-> scope, ies |-> ies]
Mixed == Tmplt("data", 256, 0, <<Ie(0, 1, 2), Ie(9, 82, VarLen)>>)
Basic == Tmplt("data", 257, 0, <<Ie(0, 291, VarLen)>>)
Stats == Tmplt("options", 258, 1, <<Ie(0, 149, 1), Ie(0, 210, 1), Ie(0, 41, 1)>>)
Sub == Tmplt("data", 259, 0, <<Ie(0, 292, VarLen)>>)
Multi == Tmplt("data", 260, 0, <<Ie(0, 293, VarLen)>>)
Tmplts == {Mixed, Basic, Stats, Sub, Multi}

DefBytes(t) ==
  (IF t.type = "options" THEN OptsHeader(t.id, Len(t.ies), t.scope) ELSE TmpltHeader(t.id, Len(t.ies)))
    \o FlattenSeq([i \in DOMAIN t.ies |-> SpecifierBytes(t.ies[i])])
Parsed(t) == Parse(t.type, DefBytes(t), 0, Len(DefBytes(t))).tmplt
AllKnown == [id \in 256..260 |-> Parsed(CHOOSE t \in Tmplts : t.id = id)]
NoneKnown == [id \in {} |-> NoTmplt]

Prefixed(bytes) == <<Len(bytes)>> \o bytes
Prefixed3(bytes) == <<255>> \o Bytes16(Len(bytes)) \o bytes
Pack(id, body) == Bytes16(id) \o Bytes16(Len(body) + SetHdrLen) \o body

\* A Set: what it needs to be known for each item to be read, and what it does.
Chunk(bytes, items, defines, withdraws) ==
  [bytes |-> bytes, items |-> items, defines |-> defines, withdraws |-> withdraws]
Defs(ts, padding) ==
  Chunk(Pack(IF ts[1].type = "data" THEN TmpltSet ELSE OptsSet,
             FlattenSeq([i \in DOMAIN ts |-> DefBytes(ts[i])]) \o padding),
        [i \in DOMAIN ts |-> <<{}, <<"definition", ts[i].id>>>>],
        {ts[i].id : i \in DOMAIN ts}, {})
Wdrl(set, ids) ==
  Chunk(Pack(set, FlattenSeq([i \in DOMAIN ids |-> TmpltHeader(ids[i], 0)])),
        [i \in DOMAIN ids |-> <<{}, <<"withdrawal", ids[i]>>>>], {},
        UNION {CASE ids[i] = TmpltSet -> {256, 257, 259, 260} [] ids[i] = OptsSet -> {258}
                 [] OTHER -> {ids[i]} : i \in DOMAIN ids})
Data(id, body, items) ==
  Chunk(Pack(id, body), [i \in DOMAIN items |-> <<items[i][1] \cup {id}, items[i][2]>>], {}, {})
Always(item) == <<{}, item>>

MixedRec == <<1, 2>> \o Prefixed(<<7>>)
MixedRec3 == <<1, 2>> \o Prefixed3(<<7, 8>>)
MixedItems(n) == <<Always(<<"record", 256>>), Always(<<"field", 1, 2>>), Always(<<"field", 82, n>>)>>
StatsRec == <<1, 0, 3>>
StatsItems == <<Always(<<"record", 258>>), Always(<<"field", 149, 1>>), Always(<<"field", 41, 1>>)>>
ListRec(id, ie, bytes, members) ==
  Data(id, Prefixed(bytes), <<Always(<<"record", id>>), Always(<<"field", ie, Len(bytes)>>)>> \o members)

Chunks == {
  Defs(<<Mixed, Basic>>, <<0, 0, 0>>),
  Defs(<<Stats>>, <<>>),
  Wdrl(TmpltSet, <<256, 259>>), Wdrl(OptsSet, <<258>>), Wdrl(TmpltSet, <<2>>), Wdrl(OptsSet, <<3>>),
  Data(256, MixedRec \o MixedRec3 \o <<0, 0>>, MixedItems(1) \o MixedItems(2)),
  Data(258, StatsRec \o StatsRec, StatsItems \o StatsItems),
  ListRec(257, 291, <<0>> \o Bytes16(1) \o Bytes16(2) \o <<1, 2, 3, 4>>,
          <<Always(<<"member", 2>>), Always(<<"member", 2>>)>>),
  ListRec(257, 291, <<0>> \o Bytes16(EnBit + 82) \o Bytes16(VarLen) \o Bytes32(9) \o <<0>> \o Prefixed3(<<5>>),
          <<Always(<<"member", 0>>), Always(<<"member", 1>>)>>),
  ListRec(259, 292, <<0>> \o Bytes16(258) \o StatsRec \o StatsRec,
          <<<<{258}, <<"member", 3>>>>, <<{258}, <<"member", 3>>>>>>),
  ListRec(260, 293, <<0>> \o Pack(258, StatsRec) \o Pack(400, <<1>>) \o Pack(256, MixedRec3 \o MixedRec),
          <<<<{258}, <<"block", 258>>>>, <<{258}, <<"member", 3>>>>, <<{256}, <<"block", 256>>>>,
            <<{256}, <<"member", 7>>>>, <<{256}, <<"member", 4>>>>>>)
}

Header(len) == Bytes16(10) \o Bytes16(len) \o [i \in 1..12 |-> 0]
Whole(body) == Header(MsgHdrLen + Len(body)) \o body

\* What reading delivers, and which templates are known after n chunks.
Expected(chunks, ids) ==
  LET after[n \in 0..Len(chunks)] ==
        IF n = 0 THEN [ids |-> ids, items |-> <<>>]
        ELSE LET c == chunks[n]
                 b == after[n - 1]
                 read == SelectSeq(c.items, LAMBDA i : i[1] \subseteq b.ids)
             IN  [ids |-> (b.ids \cup c.defines) \ c.withdraws,
                  items |-> b.items \o [i \in DOMAIN read |-> read[i][2]]]
  IN  after[Len(chunks)].items

Sound == UNION {{[bytes |-> Whole(FlattenSeq([i \in 1..n |-> cs[i].bytes])), known |-> before,
                  items |-> Expected(cs, DOMAIN before)]
                  : cs \in [1..n -> Chunks], before \in {NoneKnown, AllKnown}} : n \in 0..MaxChunks}

Changed == UNION {{[bytes |-> [Whole(c.bytes) EXCEPT ![MsgHdrLen + i] = b], known |-> AllKnown, items |-> Damaged]
                     : i \in 1..Len(c.bytes), b \in Values} : c \in Chunks}
Cut == UNION {{[bytes |-> Header(n) \o SubSeq(c.bytes, 1, n - MsgHdrLen), known |-> AllKnown, items |-> Damaged]
                 : n \in MsgHdrLen..(MsgHdrLen + Len(c.bytes))} : c \in Chunks}
MCMessages == Sound \cup Changed \cup Cut

MCOptsRules == [mproc |-> {143, 149}, mprocStat |-> {40, 41, 42}, mprocRel |-> {164, 165},
                eproc |-> {130, 131, 144}, eprocRel |-> {166, 167}, fkey |-> {145}, fkeyReq |-> {173},
                ietype |-> {303, 346}, ietypeReq |-> {339}]
=============================================================================
