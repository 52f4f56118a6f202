------------------------------ MODULE MCRecords ------------------------------
(* Instances of RecordJson for TLC.                                          *)
EXTENDS RecordJson, TLC

Ie(en, id, len) == [en |-> en, id |-> id, len |-> len]
By(elems) == [k \in {<<e.en, e.id>> : e \in elems} |-> CHOOSE e \in elems : k = <<e.en, e.id>>]

MCSwapPairs == {<<7, 11>>, <<8, 12>>}
MCOptsRules == [mproc |-> {143, 149}, mprocStat |-> {40}, mprocRel |-> {164},
                eproc |-> {130, 144}, eprocRel |-> {166}, fkey |-> {145}, fkeyReq |-> {173},
                ietype |-> {303, 346}, ietypeReq |-> {339}]

-----------------------------------------------------------------------------
(* For iterators: templates of which only names and directions matter *)

Named(en, id, dir, stem, struct, reverse) ==
  [en |-> en, id |-> id, name |-> <<dir, stem>>, struct |-> struct, reverse |-> reverse, partner |-> NoElem]

\* An element of the IANA with its reverse one, a standard pair, a vendor's
\* pair known by its names, and a list.
PlainOctets == Named(0, 1, "", "octets", FALSE, FALSE)
PlainReverse == Named(29305, 1, "", "octets@reverse", FALSE, TRUE)
SrcPort == Named(0, 7, "source", "Port", FALSE, FALSE)
DstPort == Named(0, 11, "destination", "Port", FALSE, FALSE)
SrcName == Named(0, 65, "source", "Name", FALSE, FALSE)
DstName == Named(0, 66, "destination", "Name", FALSE, FALSE)
List == Named(0, 291, "", "basicList", TRUE, FALSE)
Paired(e, p) == [e EXCEPT !.partner = p]

MCManagers == {By({Paired(PlainOctets, PlainReverse), Paired(PlainReverse, PlainOctets),
                   SrcPort, DstPort, SrcName, DstName}),
               By({PlainOctets, List, SrcName, DstName})}
MCKeys == {{}, {0}, {1}, {0, 2}}

Shapes == {Ie(0, 1, 2), Ie(29305, 1, 2), Ie(0, 7, 1), Ie(0, 11, 1), Ie(0, 65, 1), Ie(0, 291, VarLen), Ie(0, 210, 1)}
MCRaws == UNION {[type : {"data"}, id : {256}, scope : {0}, ies : [1..n -> Shapes]] : n \in 1..3}
MCContents == {<<0>>, <<255, 0, 1, 9>>}
MCIterFlags == {{}, {"BIFLOW_REV", "REVERSE_SKIP"}, {"UNKNOWN_SKIP"}, {"PADDING_SHOW", "BIFLOW_REV"}}

-----------------------------------------------------------------------------
(* For conversions: records of all types *)

Elem(id, type, label) ==
  [en |-> 0, id |-> id, name |-> <<"", type>>, struct |-> type \in {"basicList", "subTemplateList", "subTemplateMultiList"},
   reverse |-> FALSE, partner |-> NoElem, type |-> type, label |-> label]
Octets == Elem(1, "unsigned64", 19)
OctetsRev == [Octets EXCEPT !.en = 29305, !.reverse = TRUE, !.label = 27]
Iana == {[Octets EXCEPT !.partner = OctetsRev], [OctetsRev EXCEPT !.partner = Octets],
         Elem(4, "unsigned8", 22), Elem(6, "unsigned16", 19), Elem(8, "ipv4Address", 17), Elem(27, "ipv6Address", 17),
         Elem(56, "macAddress", 21), Elem(82, "string", 13), Elem(94, "octetArray", 10), Elem(150, "seconds", 16),
         Elem(152, "milliseconds", 21), Elem(154, "microseconds", 21), Elem(156, "nanoseconds", 21),
         Elem(276, "boolean", 15), Elem(277, "signed32", 12),
         Elem(291, "basicList", 9), Elem(292, "subTemplateList", 15), Elem(293, "subTemplateMultiList", 20)}
MCTypedManagers == {By(Iana)}

Field(id, bytes) == [ie |-> Ie(0, id, Len(bytes)), bytes |-> bytes]
Var(id, bytes) == [ie |-> Ie(0, id, VarLen), bytes |-> <<Len(bytes)>> \o bytes]

\* Records of lists: two octets and a string.
Layout(ies) == [type |-> "data", id |-> 256, scope |-> 0, ies |-> ies]
MCSnapshot ==
  (300 :> IesDefine(TemplateOf(Layout(<<Ie(0, 1, 2), Ie(0, 82, VarLen)>>)), By(Iana), FALSE))
    @@ (301 :> IesDefine(TemplateOf(Layout(<<Ie(0, 4, 1), Ie(0, 4, 1)>>)), By(Iana), FALSE))

\* Lists that are well-formed, empty, of unknown templates, or cut off.
Blists == {<<0, 0, 4, 0, 1, 6, 17>>, <<255, 0, 82, 255, 255, 1, 65, 0>>, <<3, 0, 1, 0, 9, 1, 1, 1, 1, 1, 1, 1, 1, 1>>,
           <<4, 0, 82, 255, 255, 2, 65>>, <<2, 128, 4, 0, 2, 0, 0, 0, 9, 1, 2>>, <<1, 0, 4>>,
           <<4, 1, 35, 255, 255, 6, 4, 0, 4, 0, 1, 6>>}
Stlists == {<<3, 1, 44, 0, 7, 1, 34, 0, 8, 0>>, <<3, 1, 45, 6, 17, 6, 6>>, <<0, 1, 99, 1, 2>>, <<4, 1, 44, 0, 7, 5, 65>>, <<4, 0, 9>>}
Stmlists == {<<3, 1, 44, 0, 7, 0, 7, 0, 1, 45, 0, 8, 6, 17, 6, 6>>, <<1>>, <<4, 1, 99, 0, 5, 1, 1, 45, 0, 6, 6, 6>>,
             <<4, 1, 45, 0, 6, 6, 6, 1, 45, 0, 7, 6, 6, 6>>, <<4, 1, 44, 0, 3>>}
Lists == {Var(291, b) : b \in Blists} \cup {Var(292, b) : b \in Stlists} \cup {Var(293, b) : b \in Stmlists}

Rev(bytes) == [ie |-> Ie(29305, 1, Len(bytes)), bytes |-> bytes]
Simples == {Field(1, <<1, 2>>), Field(1, <<0, 0, 9>>), Rev(<<7, 7>>), Field(4, <<6>>), Field(6, <<1, 18>>), Field(8, <<10, 0, 200, 1>>),
            Field(27, <<32, 1, 13, 184, 0, 1, 0, 2, 16, 3, 0, 4, 1, 5, 171, 6>>), Field(56, <<0, 1, 2, 171, 205, 239>>),
            Var(82, <<65, 34, 10, 1, 195, 169, 200, 130>>), Var(82, <<>>), Field(94, <<1, 2, 3>>), Field(94, <<1, 2, 3, 4, 5, 6, 7, 8, 9>>),
            Field(150, <<90, 0, 0, 0>>), Field(152, <<0, 0, 1, 100, 1, 2, 3, 4>>), Field(154, <<221, 1, 2, 3, 255, 255, 255, 255>>),
            Field(156, <<221, 1, 2, 3, 128, 0, 0, 1>>), Field(276, <<1>>), Field(276, <<2>>), Field(276, <<3>>), Field(277, <<255, 254>>),
            Field(277, <<127, 255, 255, 255>>), Field(8, <<1, 2>>), Field(150, <<1, 2>>), Field(210, <<0>>), Field(500, <<1, 2>>)}

Rec(type, fields) == [type |-> type, fields |-> fields]
Three == {Field(1, <<1, 2>>), Rev(<<7, 7>>), Field(500, <<1, 2>>)}
MCTyped ==
  {Rec("data", <<f>>) : f \in Simples \cup Lists}
    \cup {Rec("options", <<Field(1, <<0, 0, 9>>), f>>) : f \in Lists}
    \cup {Rec("data", <<f, g>>) : f \in {Field(1, <<0, 0, 9>>), Var(82, <<34, 10, 200>>)}, g \in Simples}
    \cup {Rec("data", fs) : fs \in [1..3 -> Three]}

Word(bytes) == Widened(bytes, 0)
Time(sec, nsec) == [sec |-> WordOf(sec), nsec |-> WordOf(nsec)]
Set(types, values) == [type : types, value : values]
MCValues ==
  Set({"unsigned8", "unsigned16", "unsigned64"}, {Word(<<255>>), Word(<<1, 0>>), Word(<<1, 0, 0>>), Repeat(255, 8)})
    \cup Set({"signed32"}, {NegateW(Word(<<128, 0, 0>>)), Word(<<127, 255>>), Word(<<128, 0>>), NegateW(Word(<<128, 1>>)), <<128>> \o Repeat(0, 7)})
    \cup Set({"seconds", "milliseconds", "microseconds", "nanoseconds"},
             {Time(1500000000, 999999999), Time(0, 1), Time(1, 500000000), Word(<<1, 100, 1, 2, 3, 4>>), Word(<<1, 0>>)})
    \cup Set({"boolean"}, {FALSE}) \cup Set({"macAddress"}, {<<1, 2, 3, 4, 5, 6>>})
    \cup Set({"ipv4Address"}, {<<255, 10, 0, 9>>})

MCFlagSets == {{}, {"ALLOW_REALLOC"}, {"ALLOW_REALLOC", "NUMERIC_ID", "OCTETS_NOINT", "TS_FORMAT_MSEC"},
               {"FORMAT_TCPFLAGS", "FORMAT_PROTO", "NON_PRINTABLE"}, {"ALLOW_REALLOC", "BIFLOW_REVERSE"},
               {"REVERSE_SKIP", "IGNORE_UNKNOWN"}}
MCSizes == {30, 60, 130}
=============================================================================
