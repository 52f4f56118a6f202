----------------------------- MODULE FilterTypes -----------------------------
(***************************************************************************)
(* What the names of a filter stand for: the callbacks that the IPFIX      *)
(* filter, src/ipfix_filter/ipfix_filter.c, gives to the filter.  A name   *)
(* is an alias of the Information Element manager, an element, or a        *)
(* constant that a mapping defines for the name on the other side of the   *)
(* comparison.  A record is seen through a view, the function from the     *)
(* elements that fds_drec_find() or a directional iterator finds in it to  *)
(* their values.                                                           *)
(*                                                                         *)
(* Then the semantic analysis of a filter, src/filter/ast_semantic.c, with *)
(* the table of operations it chooses from (src/filter/opts.c and the      *)
(* tables of src/filter/operations/).  Names get the type the lookup       *)
(* callback gives, literals are converted by constructors and casts, and   *)
(* every node learns whether it is constant and whether it may have        *)
(* several values.  Floating point numbers, their operations and their     *)
(* casts are left out.                                                     *)
(***************************************************************************)
EXTENDS FilterParser, SequencesExt

CONSTANTS Elements,   \* element -> its filter data type
          Aliases,    \* alias -> [mode: {"FIRST_OF", "ANY_OF"}, sources: Seq(element)]
          Mappings    \* <<name, key>> -> number, as fds_iemgr_mapping_find() finds it

ASSUME NameAssumption ==
  /\ DOMAIN Aliases \cap DOMAIN Elements = {}
  /\ \A a \in DOMAIN Aliases : /\ Aliases[a].sources # <<>>
                               /\ ToSet(Aliases[a].sources) \subseteq DOMAIN Elements

\* set_default_value(): the bytes of the union are zero, whatever it holds.
Default(type) ==
  CASE type = Type("IP") -> [ip |-> [version |-> 0, addr |-> <<>>, prefix |-> 0]]
    [] type = Type("BOOL") -> [bool |-> FALSE]
    [] type = Type("STR") -> [str |-> <<>>]
    [] type = Type("MAC") -> [mac |-> 0]
    [] OTHER -> [num |-> 0]

\* get_filter_data_type_for_alias()
AliasType(alias) ==
  LET types == {Elements[e] : e \in ToSet(alias.sources)}
  IN  IF Cardinality(types) = 1 THEN CHOOSE t \in types : TRUE ELSE None

Item(name, kind, type, of) == [name |-> name, kind |-> kind, type |-> type, of |-> of]

Found(tab, id, const) ==
  [rc |-> "OK", tab |-> tab, id |-> id, dt |-> tab[id].type, const |-> const]
Unknown(tab) == [rc |-> "ERR", tab |-> tab, id |-> 0, dt |-> None, const |-> FALSE]

\* lookup_callback(): the table of items remembers the names looked up
\* before; the flags are only set where a constant is met for the first time.
Lookup(tab, name, other) ==
  LET cached == SelectInSeq(tab, LAMBDA item : item.name = name)
      add(item) == Append(tab, item)
      id == Len(tab) + 1
      key == <<other, name>>
  IN  CASE cached # 0 -> Found(tab, cached, FALSE)
        [] cached = 0 /\ name \in DOMAIN Aliases ->
             IF AliasType(Aliases[name]) = None THEN Unknown(tab)
             ELSE Found(add(Item(name, "ALIAS", AliasType(Aliases[name]), name)), id, FALSE)
        [] cached = 0 /\ name \in DOMAIN Elements ->
             Found(add(Item(name, "FIELD", Elements[name], name)), id, FALSE)
        [] cached = 0 /\ name \notin DOMAIN Aliases \cup DOMAIN Elements /\ key \in DOMAIN Mappings ->
             Found(add(Item(name, "CONST", Type("INT"), key)), id, TRUE)
        [] OTHER -> Unknown(tab)

\* const_callback()
ConstValue(tab, id) == [num |-> Mappings[tab[id].of]]

Answer(rc, value, src) == [rc |-> rc, value |-> value, src |-> src]

\* read_first_of(): the first source from position src on that is there.
ReadFirstOf(alias, type, src, view) ==
  LET there == {i \in (src + 1)..Len(alias.sources) : alias.sources[i] \in DOMAIN view}
      first == CHOOSE i \in there : \A j \in there : i <= j
  IN  IF there = {} THEN Answer("NOTFOUND", Default(type), Len(alias.sources))
      ELSE Answer("OK", view[alias.sources[first]], first)

\* data_callback(): src is lookup_state.source_idx, which all names share.
Data(item, reset, view, src) ==
  LET alias == Aliases[item.of]
      read == ReadFirstOf(alias, item.type, IF reset THEN 0 ELSE src, view)
  IN  CASE item.kind = "FIELD" ->
             IF item.of \in DOMAIN view THEN Answer("OK", view[item.of], src)
             ELSE Answer("NOTFOUND", Default(item.type), src)
        [] item.kind = "ALIAS" /\ alias.mode = "FIRST_OF" ->
             IF reset THEN read ELSE Answer("NOTFOUND", Default(item.type), src)
        [] item.kind = "ALIAS" /\ alias.mode = "ANY_OF" ->
             IF read.rc = "OK" THEN [read EXCEPT !.rc = "OK_MORE"] ELSE read

-----------------------------------------------------------------------------
(* The semantic analysis *)

Op(sym, arg1, arg2, out) == [sym |-> sym, arg1 |-> arg1, arg2 |-> arg2, out |-> out]
BinOp(left, sym, right, out) == Op(sym, left, right, out)
UnOp(sym, arg, out) == Op(sym, arg, None, out)
Cast(from, to) == Op("__cast__", from, None, to)
Constructor(from, to) == Op("__constructor__", from, None, to)

BoolT == Type("BOOL")
UintT == Type("UINT")
IntT == Type("INT")
IpT == Type("IP")
TrieType == Type("TRIE")

\* The operations every type that can be compared has.
Equality(t) == <<BinOp(t, "", t, BoolT), BinOp(t, "==", t, BoolT), BinOp(t, "!=", t, BoolT)>>
Membership(t) == <<BinOp(t, "in", ListOf(t), BoolT)>>
Truth(t) == <<Cast(t, BoolT), Cast(ListOf(t), BoolT)>>
Compared(t) == Equality(t) \o Membership(t) \o Truth(t)

TrieOperations == <<Constructor(ListOf(IpT), TrieType), BinOp(IpT, "in", TrieType, BoolT)>>
FlagsOperations == <<Cast(Type("FLAGS"), UintT), BinOp(Type("FLAGS"), "", UintT, BoolT)>>
StrOperations ==
  Equality(Type("STR"))
  \o [i \in 1..3 |-> BinOp(Type("STR"), <<"contains", "startswith", "endswith">>[i], Type("STR"), BoolT)]
  \o Membership(Type("STR")) \o Truth(Type("STR"))
Arithmetic(t) ==
  <<UnOp("-", t, IntT)>>
  \o [i \in 1..5 |-> BinOp(t, <<"+", "-", "*", "/", "%">>[i], t, t)]
  \o <<UnOp("~", t, t)>> \o [i \in 1..3 |-> BinOp(t, <<"|", "&", "^">>[i], t, t)]
  \o Equality(t) \o [i \in 1..4 |-> BinOp(t, <<"<", ">", "<=", ">=">>[i], t, BoolT)]
  \o Membership(t)
UintOperations == Arithmetic(UintT) \o <<Cast(UintT, BoolT)>>
IntOperations ==
  Arithmetic(IntT) \o <<Cast(UintT, IntT), Cast(IntT, UintT), Cast(IntT, BoolT), Cast(ListOf(IntT), BoolT)>>

\* fds_filter_create_default_opts(): each table is put before the earlier ones.
Operations ==
  TrieOperations \o FlagsOperations \o Compared(Type("MAC")) \o Compared(IpT)
  \o StrOperations \o UintOperations \o IntOperations

HasOp(sym, from, to) == \E i \in DOMAIN Operations : Operations[i] = Op(sym, from, None, to)
HasConstructor(from, to) == HasOp("__constructor__", from, to)
HasCast(from, to) == HasOp("__cast__", from, to)

-----------------------------------------------------------------------------

\* propagate_flags()
Propagate(ast) ==
  [ast EXCEPT
     !.multi = @ \/ \E i \in DOMAIN ast.kids : ast.kids[i].multi,
     !.const = @ \/ (ast.kids # <<>> /\ \A i \in DOMAIN ast.kids : ast.kids[i].const)]

Match(dt, sub) == [ok |-> TRUE, dt |-> dt, sub |-> sub]
NoMatch == [ok |-> FALSE, dt |-> None, sub |-> None]

RECURSIVE TryMatch(_, _, _)

\* try_match_list_items()
ItemsMatch(ast, dt, castOk) ==
  dt.list /\ \A i \in DOMAIN ast.kids : TryMatch(ast.kids[i], Type(dt.of), castOk).ok

\* try_match(): can the node become a value of type dt?
TryMatch(ast, dt, castOk) ==
  LET sub(list) == IF ast.kids = <<>> THEN None ELSE Type(list.of)
      through(op) == /\ op.sym \in {"__constructor__"} \cup IF castOk THEN {"__cast__"} ELSE {}
                     /\ op.out = dt
                     /\ ItemsMatch(ast, op.arg1, castOk)
      by == SelectInSeq(Operations, through)
  IN  IF ast.sym = "__list__"
      THEN CASE ItemsMatch(ast, dt, castOk) -> Match(dt, sub(dt))
             [] ~ItemsMatch(ast, dt, castOk) /\ by # 0 -> Match(dt, sub(Operations[by].arg1))
             [] OTHER -> NoMatch
      ELSE IF \/ ast.dt = dt
              \/ HasConstructor(ast.dt, dt)
              \/ castOk /\ HasCast(ast.dt, dt)
           THEN Match(dt, None)
           ELSE NoMatch

\* typeconv_node(): a constructor is preferred.  (Where casts are allowed the
\* code goes on to look for a cast of what was constructed and asserts that it
\* exists; no operation takes a constructed type that a cast led to.)
Convert(ast, to) ==
  CASE ast.sym = "__list__" /\ ast.dt = None -> [ast EXCEPT !.dt = to]
    [] ~(ast.sym = "__list__" /\ ast.dt = None) /\ ast.dt = to -> ast
    [] OTHER ->
         LET sym == IF HasConstructor(ast.dt, to) THEN "__constructor__" ELSE "__cast__"
         IN  Propagate([Unary(sym, ast) EXCEPT !.dt = to])

\* typeconv_list_items(), then typeconv_node()
ConvertAs(ast, match) ==
  LET items == [i \in DOMAIN ast.kids |-> Convert(ast.kids[i], match.sub)]
      list == [ast EXCEPT !.kids = items, !.dt = ListOf(match.sub)]
  IN  Convert(IF match.sub # None THEN list ELSE ast, match.dt)

\* match_unary_node() and match_binary_node(): args are the types wanted.
NodeMatches(ast, args, castOk) ==
  \A i \in DOMAIN ast.kids : TryMatch(ast.kids[i], args[i], castOk).ok
Typed(ast, out, args, castOk) ==
  [ast EXCEPT !.dt = out,
              !.kids = [i \in DOMAIN ast.kids |->
                          ConvertAs(ast.kids[i], TryMatch(ast.kids[i], args[i], castOk))]]

Args(ast, op) == IF Len(ast.kids) = 1 THEN <<op.arg1>> ELSE <<op.arg1, op.arg2>>

\* match_unary_op() and match_binary_op(): the first operation that fits
\* without a cast, else the first that fits with casts.
\* Mutant: casts are never tried.
ChoiceExact(ast, castOk) ==
  SelectInSeq(Operations, LAMBDA op : op.sym = ast.sym /\ NodeMatches(ast, Args(ast, op), FALSE))
Choice(ast, castOk) ==
  SelectInSeq(Operations, LAMBDA op : op.sym = ast.sym /\ NodeMatches(ast, Args(ast, op), castOk))

Resolved(ast, tab) == [ast |-> ast, tab |-> tab, err |-> "OK"]
Wrong(ast, tab) == [ast |-> ast, tab |-> tab, err |-> "SEMANTIC"]

MatchOp(ast, tab) ==
  LET with(i, castOk) ==
        Resolved(Typed(ast, Operations[i].out, Args(ast, Operations[i]), castOk), tab)
  IN  CASE Choice(ast, FALSE) # 0 -> with(Choice(ast, FALSE), FALSE)
        [] Choice(ast, FALSE) = 0 /\ Choice(ast, TRUE) # 0 -> with(Choice(ast, TRUE), TRUE)
        [] OTHER -> Wrong(ast, tab)

\* and, or, not and the root want truth values and have one value each.
MatchLogic(ast, tab) ==
  LET args == [i \in DOMAIN ast.kids |-> BoolT]
      single(a) == [a EXCEPT !.multi = FALSE]
  IN  CASE NodeMatches(ast, args, FALSE) -> Resolved(single(Typed(ast, BoolT, args, FALSE)), tab)
        [] ~NodeMatches(ast, args, FALSE) /\ NodeMatches(ast, args, TRUE) ->
             Resolved(single(Typed(ast, BoolT, args, TRUE)), tab)
        [] OTHER -> Wrong(ast, tab)

Comparisons == {"==", "!=", "<", ">", ">=", "<=", "contains", "in", ""}

RECURSIVE FirstName(_)
\* find_first_name(): "" where there is none.
FirstName(ast) ==
  LET named == SelectInSeq(ast.kids, LAMBDA kid : FirstName(kid) # "")
  IN  IF named # 0 THEN FirstName(ast.kids[named]) ELSE ast.name

RECURSIVE Resolve(_, _, _), ResolveKids(_, _, _, _)

\* The children from the n-th on, left first.  For find_other_name(): other is
\* the first name on the other side of the closest comparison above.
ResolveKids(ast, n, other, tab) ==
  LET across == FirstName(ast.kids[3 - n])
      kid == Resolve(ast.kids[n],
                     IF ast.sym \in Comparisons /\ Len(ast.kids) = 2 THEN across ELSE other, tab)
  IN  CASE n > Len(ast.kids) -> Resolved(ast, tab)
        [] n <= Len(ast.kids) /\ kid.err # "OK" -> kid
        [] OTHER -> ResolveKids([ast EXCEPT !.kids[n] = kid.ast], n + 1, other, kid.tab)

\* resolve_types()
Resolve(source, other, before) ==
  LET kids == ResolveKids(source, 1, other, before)
      ast == Propagate(kids.ast)
      tab == kids.tab
      found == Lookup(tab, ast.name, other)
  IN  CASE kids.err # "OK" -> kids
        [] kids.err = "OK" /\ ast.sym = "__list__" ->
             IF \A i \in DOMAIN ast.kids : ast.kids[i].const THEN Resolved(ast, tab)
             ELSE Wrong(ast, tab)
        [] kids.err = "OK" /\ ast.sym = "__literal__" -> Resolved(ast, tab)
        [] kids.err = "OK" /\ ast.sym \in {"and", "or", "not", "__root__"} -> MatchLogic(ast, tab)
        [] kids.err = "OK" /\ ast.sym = "exists" ->
             IF ast.kids[1].sym # "__name__" \/ ast.kids[1].const THEN Wrong(ast, tab)
             ELSE Resolved([ast EXCEPT !.dt = BoolT], tab)
        [] kids.err = "OK" /\ ast.sym = "__name__" ->
             IF found.rc # "OK" THEN Wrong(ast, tab)
             ELSE Resolved([ast EXCEPT !.id = found.id, !.dt = found.dt, !.const = found.const,
                                       !.multi = ~found.const], found.tab)
        [] OTHER -> MatchOp(ast, tab)
=============================================================================
