------------------------------ MODULE XmlParser ------------------------------
(***************************************************************************)
(* The XML parser (xml_parser.cpp): a user describes documents by tables   *)
(* of options, lets documents be parsed, and walks the contexts he gets.   *)
(*                                                                         *)
(* A table is a sequence of options [comp, type, id, name, next, flags],   *)
(* with the name of another table, or NoTable, in "next".  A document is a *)
(* tree of nodes, as libxml2 gives it.  A text is [word, padded]: what it  *)
(* says, and whether blanks surround that; the word of a blank text is "". *)
(***************************************************************************)
EXTENDS Integers, SequencesExt

CONSTANTS Tables,     \* descriptions, by name
          Documents,  \* what is parsed
          NoTable, NoName, Null,
          Malformed,  \* what is no XML document
          Numerals,   \* what words that are numbers stand for
          Truths,     \* what words that are truth values stand for
          Width       \* bits of an integer

VARIABLES xml,    \* struct fds_xml: opts, whether there is an error_msg, ctx
          index,  \* the index of each context
          given,  \* history: what a context gave since it was rewound
          source, \* history: the document that was parsed last, by which table,
                  \* how, and whether it gave a context
          ret     \* what the last call returned

xvars == <<xml, index, given, source, ret>>

ValueTypes == {"BOOL", "INT", "UINT", "STRING"}

-----------------------------------------------------------------------------
(* Descriptions: check_all().  IDs, the tables met and the option for text *)
(* belong to the whole description, names to one table.                    *)

Start(t) == [ok |-> TRUE, ids |-> {}, text |-> FALSE, tables |-> {t}, elems |-> {}, attrs |-> {}]

\* check_common(), but for the name.
CommonOk(o, s) == o.id >= 0 /\ (o.id # 0 => o.id \notin s.ids)

RootOk(o) ==
  o.comp = "ROOT" /\ o.type = "NONE" /\ o.next = NoTable /\ o.flags = {} /\ o.name # NoName /\ CommonOk(o, Start(NoTable))

NameOk(o, names) == o.name # NoName /\ o.name \notin names
ElementOk(o, s) == o.comp = "ELEMENT" /\ NameOk(o, s.elems) /\ o.next = NoTable /\ o.type \in ValueTypes
AttrOk(o, s) == o.comp = "ATTR" /\ NameOk(o, s.attrs) /\ o.next = NoTable /\ o.type \in ValueTypes /\ "MULTI" \notin o.flags
TextOk(o, s) == o.comp = "TEXT" /\ o.name = NoName /\ o.next = NoTable /\ o.type \in ValueTypes /\ ~s.text
NestedOk(o, s) == o.comp = "NESTED" /\ NameOk(o, s.elems) /\ o.next # NoTable /\ o.type = "CONTEXT"
RawOk(o, s) == o.comp = "RAW" /\ NameOk(o, s.elems) /\ o.next = NoTable /\ o.type = "STRING"
OptionOk(o, s) == CommonOk(o, s) /\ (ElementOk(o, s) \/ AttrOk(o, s) \/ TextOk(o, s) \/ NestedOk(o, s) \/ RawOk(o, s))

Noted(o, s) ==
  [s EXCEPT !.ids = @ \cup ({o.id} \ {0}), !.text = @ \/ o.comp = "TEXT",
            !.elems = IF o.comp \in {"ELEMENT", "NESTED", "RAW"} THEN @ \cup {o.name} ELSE @,
            !.attrs = IF o.comp = "ATTR" THEN @ \cup {o.name} ELSE @]

\* What follows a table that was met before is not checked.
RECURSIVE CheckAll(_, _)
CheckAll(options, s) ==
  LET o == Head(options)
      here == Noted(o, s)
      inner == CheckAll(Tables[o.next], [here EXCEPT !.tables = @ \cup {o.next}, !.elems = {}, !.attrs = {}])
  IN  IF options = <<>> THEN s
      ELSE IF ~OptionOk(o, s) THEN [s EXCEPT !.ok = FALSE]
      ELSE IF o.comp # "NESTED" THEN CheckAll(Tail(options), here)
      ELSE IF o.next \in s.tables THEN here
      ELSE IF ~inner.ok THEN inner
      ELSE CheckAll(Tail(options), [inner EXCEPT !.elems = here.elems, !.attrs = here.attrs])

-----------------------------------------------------------------------------
(* Values *)

Failed == [ok |-> FALSE]
Value(v) == [ok |-> TRUE, val |-> v]
Trimmed(text, flags) == IF "NOTRIM" \in flags THEN text ELSE [text EXCEPT !.padded = FALSE]

\* strtoull(), of a number of at most Width bits; a negative number is negated.
Unsigned(n) ==
  LET most == 2^Width - 1
  IN  IF n > most \/ -n > most THEN most ELSE n % 2^Width
Signed(n) == IF n >= 2^(Width - 1) THEN n - 2^Width ELSE n

\* parse_content() up to the new content.  Only blanks in front of a number
\* are skipped by strtoull(), and nothing is the number 0.
Convert(o, raw) ==
  LET text == Trimmed(raw, o.flags)
      number == IF text.word = "" THEN 0 ELSE Numerals[text.word]
      isNumber == ~text.padded /\ text.word \in DOMAIN Numerals \cup {""}
  IN  CASE o.type = "STRING"  -> Value(text)
        [] o.type = "BOOL"    -> IF ~text.padded /\ text.word \in DOMAIN Truths THEN Value(Truths[text.word]) ELSE Failed
        [] o.type = "UINT"    -> IF isNumber THEN Value(Unsigned(number)) ELSE Failed
        [] o.type = "INT"     -> IF isNumber THEN Value(Signed(Unsigned(number))) ELSE Failed
        [] o.type = "CONTEXT" -> Value(Null)
        [] o.type = "NONE"    -> Failed

-----------------------------------------------------------------------------
(* One level of a document: [ok, err, ids, cont] *)

Blank == [word |-> "", padded |-> FALSE]
Fresh(err) == [ok |-> TRUE, err |-> err, ids |-> {}, cont |-> <<>>]
Refuse(l) == [l EXCEPT !.ok = FALSE, !.err = TRUE]

\* find_arg(): an element may find the option of an attribute, and conversely.
FindArg(options, name) == SelectSeq(options, LAMBDA o : o.name = name)
FindText(options) == SelectSeq(options, LAMBDA o : o.comp = "TEXT")

Add(l, o, val) == [l EXCEPT !.cont = Append(@, [id |-> o.id, type |-> o.type, val |-> val]), !.ids = @ \cup {o.id}]
ParseContent(l, o, text) ==
  LET value == Convert(o, text)
  IN  IF value.ok THEN Add(l, o, value.val) ELSE Refuse(l)

\* parse_all_properties(): an attribute that is no value of its type is passed
\* over, though it is known as found and an error is noted.
ParseProperty(l, attr, options, pedantic) ==
  LET found == FindArg(options, attr.name)
      o == found[1]
  IN  IF ~l.ok THEN l
      ELSE IF found = <<>> THEN (IF pedantic THEN Refuse(l) ELSE l)
      ELSE [ParseContent(l, o, attr.text) EXCEPT !.ok = TRUE, !.ids = l.ids \cup {o.id}]

\* The node (not an element: it may be a comment) that is alone in an element.
IsAlone(children) == Len(children) = 1 /\ children[1].kind # "element"
ParseAlone(l, children, options, pedantic) ==
  LET found == FindText(options)
  IN  IF ~l.ok \/ ~IsAlone(children) THEN l
      ELSE IF found = <<>> THEN (IF pedantic THEN Refuse(l) ELSE l)
      ELSE ParseContent(l, found[1], children[1].text)

\* The content of its first child, which an element has not.
ValueText(node) ==
  IF node.children = <<>> \/ node.children[1].kind = "element" THEN Blank ELSE node.children[1].text

\* Mutant: an option that may occur many times need not occur.
AllFoundMany(options, ids) == \A o \in ToSet(options) : o.id \in ids \/ o.flags \cap {"OPT", "MULTI"} # {}

\* parse_all_check()
AllFound(options, ids) == \A o \in ToSet(options) : o.id \in ids \/ "OPT" \in o.flags

\* parse_all_contents() of one node, and parse_all() of an element.
RECURSIVE ParseAll(_, _, _, _)
ParseChild(l, node, options, pedantic) ==
  LET found == FindArg(options, node.name)
      o == found[1]
      one == IF o.comp = "RAW" THEN Add(l, o, node) ELSE ParseContent(l, o, ValueText(node))
      inner == ParseAll(Tables[o.next], node, pedantic, one.err)
  IN  IF ~l.ok THEN l
      ELSE IF node.kind = "text" /\ node.text.word # "" /\ FindText(options) = <<>> THEN Refuse(l)
      ELSE IF node.kind # "element" THEN l
      ELSE IF found = <<>> THEN (IF pedantic THEN Refuse(l) ELSE l)
      ELSE IF "MULTI" \notin o.flags /\ o.id \in l.ids THEN Refuse(l)
      ELSE IF o.comp # "NESTED" \/ ~one.ok THEN one
      ELSE [one EXCEPT !.ok = inner.ok, !.err = inner.err, !.cont[Len(one.cont)].val = inner.cont]

ParseAll(options, node, pedantic, err) ==
  LET attrs == FoldLeft(LAMBDA l, attr : ParseProperty(l, attr, options, pedantic), Fresh(err), node.attrs)
      alone == ParseAlone(attrs, node.children, options, pedantic)
      all == FoldLeft(LAMBDA l, child : ParseChild(l, child, options, pedantic), alone, node.children)
  IN  IF all.ok /\ ~AllFound(options, all.ids) THEN Refuse(all) ELSE all

-----------------------------------------------------------------------------
(* Contexts, named by the places of the contents that lead to them. *)

At(ctx, p) == FoldLeft(LAMBDA c, i : c[i].val, ctx, p)
RECURSIVE Handles(_)
Handles(ctx) ==
  IF ctx = Null THEN {<<>>}
  ELSE {<<>>} \cup UNION {{<<i>> \o p : p \in Handles(ctx[i].val)} : i \in {j \in DOMAIN ctx : ctx[j].type = "CONTEXT"}}

Idle == [ctx \in {} |-> 0]
NoSource == [table |-> NoTable, doc |-> Null, pedantic |-> FALSE, accepted |-> FALSE]
XInit ==
  /\ xml = [opts |-> NoTable, err |-> FALSE, ctx |-> Null]
  /\ index = Idle /\ given = Idle /\ source = NoSource /\ ret = "OK"

Error(code) == xml' = [xml EXCEPT !.err = TRUE] /\ ret' = code

\* fds_xml_set_args(): a description without a good root is refused before
\* the old one is given up.
SetArgs(t) ==
  /\ \/ t = NoTable /\ Error("FORMAT")
     \/ t # NoTable /\ ~RootOk(Tables[t][1]) /\ Error("FORMAT")
     \/ /\ t # NoTable /\ RootOk(Tables[t][1])
        /\ IF CheckAll(Tail(Tables[t]), Start(t)).ok
           THEN xml' = [xml EXCEPT !.opts = t] /\ ret' = "OK"
           ELSE xml' = [xml EXCEPT !.opts = NoTable, !.err = TRUE] /\ ret' = "FORMAT"
  /\ UNCHANGED <<index, given, source>>

\* ctx_parse(): the old contexts are gone, whatever comes.
Forget == xml' = [xml EXCEPT !.ctx = Null, !.err = TRUE] /\ ret' = "NULL" /\ index' = Idle /\ given' = Idle
Keep(l) ==
  LET handles == Handles(l.cont)
  IN  /\ xml' = [xml EXCEPT !.ctx = l.cont, !.err = l.err] /\ ret' = "OK"
      /\ index' = [p \in handles |-> 0] /\ given' = [p \in handles |-> <<>>]
ParseTree(doc, pedantic) ==
  LET options == Tables[xml.opts]
      l == ParseAll(Tail(options), doc, pedantic, FALSE)
  IN  /\ IF xml.opts = NoTable \/ options[1].name # doc.name \/ ~l.ok THEN Forget ELSE Keep(l)
      /\ source' = [table |-> xml.opts, doc |-> doc, pedantic |-> pedantic, accepted |-> ret' = "OK"]

\* fds_xml_parse_mem(), fds_xml_parse_file(): the message of a call that
\* failed is never removed, and refuses what comes after it.
Parse(doc, pedantic) ==
  \/ (xml.err \/ doc = Malformed) /\ Error("NULL") /\ UNCHANGED <<index, given, source>>
  \/ ~xml.err /\ doc # Malformed /\ ParseTree(doc, pedantic)

\* fds_xml_next()
NextContent(p) ==
  LET cont == At(xml.ctx, p)
  IN  /\ \/ cont = Null /\ ret' = "FORMAT" /\ UNCHANGED <<index, given>>
         \/ cont # Null /\ index[p] >= Len(cont) /\ ret' = "EOC" /\ UNCHANGED <<index, given>>
         \/ /\ cont # Null /\ index[p] < Len(cont) /\ ret' = "OK"
            /\ index' = [index EXCEPT ![p] = @ + 1]
            /\ given' = [given EXCEPT ![p] = Append(@, cont[index[p] + 1])]
      /\ UNCHANGED <<xml, source>>

\* Mutant: the contexts within are not rewound.
RewoundAlone(p) == {p}
Rewound(p) == {q \in DOMAIN index : IsPrefix(p, q)}

\* fds_xml_rewind(): also the contexts within.
Rewind(p) ==
  /\ index' = [q \in DOMAIN index |-> IF q \in Rewound(p) THEN 0 ELSE index[q]]
  /\ given' = [q \in DOMAIN given |-> IF IsPrefix(p, q) THEN <<>> ELSE given[q]]
  /\ UNCHANGED <<xml, source, ret>>

XNext ==
  \/ \E t \in DOMAIN Tables \cup {NoTable} : SetArgs(t)
  \/ \E doc \in Documents \cup {Malformed}, pedantic \in BOOLEAN : Parse(doc, pedantic)
  \/ \E p \in DOMAIN index : NextContent(p) \/ Rewind(p)

XSpec == XInit /\ [][XNext]_xvars

-----------------------------------------------------------------------------
(* What the description of a document says (xml_parser.h). *)

Occurrences(o, node) ==
  CASE o.comp = "ATTR" -> SelectSeq(node.attrs, LAMBDA a : a.name = o.name)
    [] o.comp = "TEXT" -> IF IsAlone(node.children) THEN node.children ELSE <<>>
    [] OTHER           -> SelectSeq(node.children, LAMBDA c : c.kind = "element" /\ c.name = o.name)

TextOf(o, found) ==
  IF o.comp # "ELEMENT" THEN found.text ELSE IF found.children = <<>> THEN Blank ELSE found.children[1].text
NumberIn(text) == IF text.word = "" THEN 0 ELSE Numerals[text.word]
Kept(o, text) == "NOTRIM" \in o.flags /\ text.padded

HasType(o, text) ==
  CASE o.type = "BOOL"           -> ~Kept(o, text) /\ text.word \in DOMAIN Truths
    [] o.type \in {"INT", "UINT"} -> ~Kept(o, text) /\ text.word \in DOMAIN Numerals \cup {""}
    [] OTHER                     -> TRUE
InRange(o, text) ==
  o.type \in {"INT", "UINT"} /\ text.word \in DOMAIN Numerals =>
    NumberIn(text) \in IF o.type = "UINT" THEN 0..(2^Width - 1) ELSE -(2^(Width - 1))..(2^(Width - 1) - 1)

Says(o, val, found) ==
  CASE o.type \in {"INT", "UINT"} -> val = NumberIn(TextOf(o, found))
    [] o.type = "BOOL"           -> val = Truths[TextOf(o, found).word]
    [] o.comp = "RAW"            -> val = found
    [] o.comp = "NESTED"         -> val # Null
    [] OTHER                     -> val = [TextOf(o, found) EXCEPT !.padded = Kept(o, TextOf(o, found))]

HasText(node) == \E c \in ToSet(node.children) : c.kind = "text" /\ c.text.word # ""

\* Every option occurs as often as its flags allow, with a value of its type;
\* there is text only where text is described; and in pedantic mode there is
\* nothing else.
RECURSIVE Meets(_, _, _)
Meets(options, node, pedantic) ==
  /\ \A o \in ToSet(options) :
       LET found == Occurrences(o, node)
       IN  /\ "OPT" \in o.flags \/ found # <<>>
           /\ "MULTI" \in o.flags \/ Len(found) <= 1
           /\ \A f \in ToSet(found) : IF o.comp = "NESTED" THEN Meets(Tables[o.next], f, pedantic)
                                      ELSE o.comp = "RAW" \/ HasType(o, TextOf(o, f))
  /\ FindText(options) = <<>> => ~HasText(node)
  /\ pedantic =>
       \A known \in ToSet(node.attrs) \cup {c \in ToSet(node.children) : c.kind = "element"} :
         \E o \in ToSet(options) : o.name = known.name

\* The levels of a document: the options and the node of each.
RECURSIVE Levels(_, _)
Levels(options, node) ==
  {[options |-> options, node |-> node]}
  \cup UNION {UNION {Levels(Tables[o.next], f) : f \in ToSet(Occurrences(o, node))} :
               o \in {o \in ToSet(options) : o.comp = "NESTED"}}

\* The code takes an attribute for an element of the same name, and conversely;
\* a comment that is the first child of an element for its value, and no text
\* that has neighbours; and it wraps numbers that do not fit.
IsPlain(options, node) ==
  LET elems == {c \in ToSet(node.children) : c.kind = "element"}
  IN  /\ IsAlone(node.children) => node.children[1].kind = "text"
      /\ HasText(node) => IsAlone(node.children) \/ FindText(options) = <<>>
      /\ \A o \in ToSet(options) :
           /\ o.comp # "ATTR" => \A a \in ToSet(node.attrs) : a.name # o.name
           /\ o.comp = "ATTR" => \A c \in elems : c.name # o.name
           /\ \A f \in ToSet(Occurrences(o, node)) :
                /\ o.comp = "ELEMENT" => f.children = <<>> \/ (IsAlone(f.children) /\ f.children[1].kind = "text")
                /\ o.comp \notin {"NESTED", "RAW"} => InRange(o, TextOf(o, f))
\* It also passes over an attribute without a value of its type.
HasTypedAttrs(options, node) ==
  \A o \in ToSet(options) : o.comp = "ATTR" => \A f \in ToSet(Occurrences(o, node)) : HasType(o, f.text)
\* In pedantic mode blanks alone are a text that is not expected.
IsSpaced(options, node) == IsAlone(node.children) /\ FindText(options) = <<>>

\* What was parsed last, if it is plain at every level and has the right root.
Options == Tail(Tables[source.table])
HasPlain ==
  /\ source.table # NoTable /\ Tables[source.table][1].name = source.doc.name
  /\ \A l \in Levels(Options, source.doc) : IsPlain(l.options, l.node)
AttrsTyped == \A l \in Levels(Options, source.doc) : HasTypedAttrs(l.options, l.node)
NoSpaces == source.pedantic => \A l \in Levels(Options, source.doc) : ~IsSpaced(l.options, l.node)

\* Where a context stands in the description and in the document.
RECURSIVE Level(_)
Level(p) ==
  LET up == Level(Front(p))
      cont == At(xml.ctx, Front(p))
      nth == Cardinality({j \in 1..Last(p) : cont[j].id = cont[Last(p)].id})
      o == CHOOSE q \in ToSet(up.options) : q.id = cont[Last(p)].id
  IN  IF p = <<>> THEN [options |-> Tail(Tables[source.table]), node |-> source.doc]
      ELSE [options |-> Tables[o.next], node |-> Occurrences(o, up.node)[nth]]

\* A parser that has not failed yet gives a context for a document if and only
\* if it meets the description, and an error message otherwise
\* (xml_parser.h:358): whatever the order of its nodes, and however deep the
\* tables are nested.  (Attributes without a value of their type are
\* ContextMeansMet; in pedantic mode no element holds nothing but blanks.)
AcceptsAsDescribed ==
  /\ HasPlain /\ AttrsTyped /\ NoSpaces
       => (source.accepted <=> Meets(Options, source.doc, source.pedantic))
  /\ ret = "NULL" => xml.err

\* "After successful document parsing it is guaranteed that all elements have
\* met all required conditions" (xml_parser.h:358), and success is a context.  It does not hold:
\* parse_all_properties() ignores what parse_content() returns
\* (xml_parser.cpp:1194).
ContextMeansMet == HasPlain /\ source.accepted => Meets(Options, source.doc, source.pedantic)

\* A user who walks a context to its end, for the first time or after he has
\* rewound it or one around it, is given each described attribute, text and
\* element of that part of the document once, in the order of those that
\* share an option, with the value it states.
WalkShowsDocument ==
  \A p \in DOMAIN index :
    /\ source.accepted /\ At(xml.ctx, p) # Null /\ index[p] >= Len(At(xml.ctx, p))
    /\ HasPlain /\ AttrsTyped
    => LET level == Level(p)
           found(o) == Occurrences(o, level.node)
           said(o) == SelectSeq(given[p], LAMBDA c : c.id = o.id)
       IN  /\ \A o \in ToSet(level.options) :
                /\ Len(said(o)) = Len(found(o))
                /\ \A i \in DOMAIN found(o) : said(o)[i].type = o.type /\ Says(o, said(o)[i].val, found(o)[i])
           /\ Len(given[p]) = FoldLeft(LAMBDA n, o : n + Len(found(o)), 0, level.options)
=============================================================================
