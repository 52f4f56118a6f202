----------------------------- MODULE MCXmlParser -----------------------------
(* Instances of the XML parser for TLC: descriptions and documents.          *)
EXTENDS XmlParser

Option(comp, type, id, name, next, flags) ==
  [comp |-> comp, type |-> type, id |-> id, name |-> name, next |-> next, flags |-> flags]
RootOpt(name) == Option("ROOT", "NONE", 0, name, NoTable, {})
Elem(id, name, type, flags) == Option("ELEMENT", type, id, name, NoTable, flags)
Attr(id, name, type, flags) == Option("ATTR", type, id, name, NoTable, flags)
TextOpt(id, type, flags) == Option("TEXT", type, id, NoName, NoTable, flags)
Nested(id, name, next, flags) == Option("NESTED", "CONTEXT", id, name, next, flags)
Raw(id, name, flags) == Option("RAW", "STRING", id, name, NoTable, flags)

Opt == {"OPT"}
Many == {"OPT", "MULTI"}

\* The example of xml_parser.h; the tables of the IE manager (iemgr.cpp:315),
\* less what is like the rest; a table within itself; options of other kinds;
\* and descriptions that are refused, one for each rule.
MCTables ==
  [params   |-> <<RootOpt("params"), Elem(1, "timeout", "UINT", Opt), Nested(2, "host", "host", {"MULTI"})>>,
   host     |-> <<Attr(3, "proto", "STRING", {}), Elem(4, "ip", "STRING", {}), Elem(5, "port", "UINT", {})>>,
   elements |-> <<RootOpt("elements"), Nested(0, "scope", "scope", {}), Nested(1, "element", "element", Many)>>,
   scope    |-> <<Elem(2, "pen", "INT", {}), Nested(3, "biflow", "biflow", Opt)>>,
   biflow   |-> <<Attr(4, "mode", "STRING", {}), TextOpt(5, "INT", Opt)>>,
   element  |-> <<Elem(6, "id", "INT", {}), Elem(7, "name", "STRING", Opt)>>,
   tree     |-> <<RootOpt("tree"), Nested(1, "node", "node", Opt)>>,
   node     |-> <<Attr(2, "leaf", "BOOL", Opt), Nested(3, "node", "node", Many)>>,
   other    |-> <<RootOpt("other"), Raw(1, "raw", Opt), Attr(2, "size", "INT", {}), TextOpt(3, "STRING", {"OPT", "NOTRIM"}),
                  Elem(4, "flag", "BOOL", {"OPT", "NOTRIM"})>>,
   noRoot   |-> <<Elem(1, "a", "INT", {})>>,
   twoRoots |-> <<RootOpt("params"), RootOpt("params")>>,
   sameIds  |-> <<RootOpt("params"), Nested(1, "host", "host", {}), Elem(5, "a", "INT", {})>>,
   sameName |-> <<RootOpt("params"), Elem(1, "a", "INT", {}), Raw(2, "a", {})>>,
   manyAttr |-> <<RootOpt("params"), Attr(1, "a", "INT", {"MULTI"})>>,
   noNext   |-> <<RootOpt("params"), Nested(1, "a", NoTable, {})>>,
   twoTexts |-> <<RootOpt("params"), TextOpt(1, "INT", {}), Nested(2, "biflow", "biflow", {})>>,
   noType   |-> <<RootOpt("params"), Elem(1, "a", "NONE", {})>>]

Says1(word) == [word |-> word, padded |-> FALSE]
Wide(word) == [word |-> word, padded |-> TRUE]
Empty == [word |-> "", padded |-> FALSE]
A(name, word) == [name |-> name, text |-> Says1(word)]
T(text) == [kind |-> "text", name |-> NoName, attrs |-> <<>>, children |-> <<>>, text |-> text]
C(word) == [T(Says1(word)) EXCEPT !.kind = "comment"]
E(name, attrs, children) == [kind |-> "element", name |-> name, attrs |-> attrs, children |-> children, text |-> Empty]
V(name, word) == E(name, <<>>, <<T(Says1(word))>>)

Host(attrs, children) == E("params", <<>>, <<E("host", attrs, children)>>)
Tcp == <<A("proto", "tcp")>>
Address == <<V("ip", "abc"), V("port", "7")>>
Scope(children) == E("scope", <<>>, children)
Biflow(mode, children) == E("biflow", mode, children)
Elements(children) == E("elements", <<>>, children)
Number(word) == V("element", word)

ParamsDocs ==
  {Host(Tcp, Address), Host(Tcp, Reverse(Address)), Host(<<>>, Address), Host(Tcp, <<V("ip", "abc")>>),
   Host(Tcp, <<V("ip", "abc"), V("port", "7"), V("ip", "abc")>>), Host(Tcp, <<V("ip", "abc"), V("port", "abc")>>),
   Host(Tcp \o <<A("new", "7")>>, Address), Host(Tcp, Address \o <<V("new", "7")>>),
   Host(Tcp, Address \o <<C("abc"), T(Says1("abc"))>>), Host(Tcp, <<T(Empty), C("abc")>> \o Address \o <<T(Empty)>>),
   Host(<<A("ip", "abc")>>, Address), Host(Tcp, <<E("ip", <<>>, <<C("7"), T(Says1("abc"))>>), V("port", "7")>>),
   Host(Tcp, <<V("ip", "abc"), V("port", "300")>>), E("params", <<>>, <<>>), E("params", <<>>, <<T(Empty)>>),
   E("params", <<>>, <<E("host", Tcp, Address), V("timeout", "7"), E("host", <<A("proto", "udp")>>, Address)>>)}
ElementsDocs ==
  {Elements(<<Scope(<<V("pen", "7"), Biflow(<<A("mode", "split")>>, <<T(Wide("-1"))>>)>>)>>),
   Elements(<<E("element", <<>>, <<V("id", "7")>>), Scope(<<V("pen", "7")>>),
              E("element", <<>>, <<V("name", "abc"), V("id", "-1")>>)>>),
   Elements(<<Scope(<<V("pen", "7"), Biflow(<<A("mode", "split")>>, <<>>)>>)>>),
   Elements(<<Scope(<<V("pen", "7"), Biflow(<<A("mode", "split")>>, <<V("new", "7"), T(Says1("7"))>>)>>)>>),
   Elements(<<Scope(<<V("pen", "7")>>), Scope(<<V("pen", "7")>>)>>),
   Elements(<<Scope(<<V("pen", "300")>>), E("element", <<>>, <<E("id", <<>>, <<>>)>>)>>),
   E("elements", <<A("scope", "7")>>, <<>>)}
TreeDocs ==
  {E("tree", <<>>, <<>>), E("tree", <<>>, <<E("node", <<A("leaf", "yes")>>, <<>>)>>),
   E("tree", <<>>, <<E("node", <<>>, <<E("node", <<A("leaf", "yes")>>, <<>>), E("node", <<A("leaf", "0")>>, <<>>)>>)>>),
   E("tree", <<>>, <<E("node", <<A("leaf", "7")>>, <<>>)>>)}
OtherDocs ==
  {E("other", <<A("size", "-1")>>, <<T(Wide("abc"))>>), E("other", <<A("size", "abc")>>, <<>>),
   E("other", <<A("size", "7")>>, <<E("raw", Tcp, Address), V("flag", "0")>>),
   E("other", <<A("size", "7")>>, <<E("flag", <<>>, <<T(Wide("0"))>>)>>), E("other", <<>>, <<T(Says1("abc"))>>)}
MCDocuments == ParamsDocs \cup ElementsDocs \cup TreeDocs \cup OtherDocs

MCNumerals == ("0" :> 0) @@ ("7" :> 7) @@ ("-1" :> -1) @@ ("300" :> 300)
MCTruths == ("yes" :> TRUE) @@ ("0" :> FALSE)
=============================================================================
