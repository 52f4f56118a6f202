----------------------------- MODULE IpfixFilter -----------------------------
(***************************************************************************)
(* One filter of IPFIX records from its creation to its destruction:       *)
(* src/ipfix_filter/ipfix_filter.c over src/filter/filter.c.  The run-time *)
(* state of the evaluation tree (values of the nodes, reevaluate_node and  *)
(* the position in the sources of an alias) lives on between evaluations.  *)
(*                                                                         *)
(* A record is [biflow, all, fwd, rev]: the flag of its template and the   *)
(* views that fds_drec_find() and the iterators of either direction give.  *)
(* A failed assertion and a null pointer end the program: status "gone".   *)
(*                                                                         *)
(* First what an expression is written like and what it says, without the  *)
(* parser, the operation table and the evaluator.  It is an untyped syntax *)
(* tree (without the root node); Written gives its tokens with no more     *)
(* parentheses than it needs, MakesSense tells whether it has a meaning,   *)
(* and Satisfies whether a view of a record satisfies it: a comparison of  *)
(* a name with several values holds when one of them satisfies it.         *)
(* Numbers are neither negative nor too large here, and at most one side   *)
(* of a comparison has several values.                                     *)
(***************************************************************************)
EXTENDS FilterEval

-----------------------------------------------------------------------------
(* Writing an expression down *)

Level(op) ==
  CASE op \in {"and", "or", "not"} -> 0
    [] op \in {"==", "!=", "<", "<=", ">", ">=", ""} -> 1
    [] op \in {"in", "contains", "startswith", "endswith", "exists"} -> 2
    [] op \in {"&", "|", "^", "~"} -> 3
    [] op \in {"<<", ">>"} -> 4
    [] op = "+" \/ op = "-" -> 5
    [] op \in {"*", "/", "%"} -> 6

\* A name may begin with a direction, a token of its own ("src port").
WrittenName(name) ==
  LET two == {<<p, w>> \in NamePrefixes \X (DOMAIN Elements \cup DOMAIN Aliases) :
                name = p \o " " \o w}
  IN  IF two = {} THEN <<Name(name)>>
      ELSE LET pair == CHOOSE t \in two : TRUE IN <<Symbol(pair[1]), Name(pair[2])>>

Bracketed(open, tokens, close) == <<Symbol(open)>> \o tokens \o <<Symbol(close)>>

RECURSIVE Written(_, _)

\* The tokens of e where operators below the level must be in parentheses.
Written(e, level) ==
  LET sign == Len(e.kids) = 1 /\ e.sym \in {"+", "-"}
      mine == IF sign THEN 7 ELSE Level(e.sym)
      right == Written(e.kids[2], mine + 1)
      operator == IF e.sym = "" THEN <<>> ELSE <<Symbol(e.sym)>>
      \* what follows the comparison that is not written must not look like one
      apart == e.sym = "" /\ \E s \in DOMAIN InfixPrec : right[1] = Symbol(s)
      plain == IF Len(e.kids) = 1 THEN operator \o Written(e.kids[1], mine + 1)
               ELSE Written(e.kids[1], mine) \o operator
                    \o IF apart THEN Bracketed("(", right, ")") ELSE right
      items == [i \in DOMAIN e.kids |->
                  Written(e.kids[i], 0) \o IF i < Len(e.kids) THEN <<Symbol(",")>> ELSE <<>>]
  IN  CASE e.sym = "__name__" -> WrittenName(e.name)
        [] e.sym = "__literal__" -> <<Constant(e.dt, e.value)>>
        [] e.sym = "__list__" -> Bracketed("[", FlattenSeq(items), "]")
        [] OTHER -> IF mine < level THEN Bracketed("(", plain, ")") ELSE plain

-----------------------------------------------------------------------------
(* Having a meaning *)

Numeric == {UintT, IntT, Type("FLAGS")}
Addressing == {IpT, Type("STR"), Type("MAC")}
\* What can be taken for a truth value.
Truthful == {BoolT, UintT, IntT} \cup Addressing
Orders == {"<", "<=", ">", ">="}
Comparing == {"", "==", "!="} \cup Orders

IsField(e) == e.sym = "__name__" /\ e.name \in DOMAIN Elements \cup DOMAIN Aliases
SourcesOf(name) == IF name \in DOMAIN Aliases THEN Aliases[name].sources ELSE <<name>>

\* A constant: a name that the other side of the comparison gives a value.
Key(e, other) == <<FirstName(other), e.name>>
IsMapped(e, other) == e.sym = "__name__" /\ ~IsField(e) /\ Key(e, other) \in DOMAIN Mappings

Alike(k, l) == k # None /\ (k = l \/ {k, l} \subseteq Numeric)

RECURSIVE KindOf(_)

\* The type of an expression, None where it means nothing.
KindOf(e) ==
  LET left == e.kids[1]
      right == e.kids[2]
      beside(a, other) == IF IsMapped(a, other) THEN IntT ELSE KindOf(a)
      l == beside(left, right)
      r == beside(right, left)
      types == {Elements[s] : s \in ToSet(SourcesOf(e.name))}
      truth(holds) == IF holds THEN BoolT ELSE None
  IN  CASE e.sym = "__literal__" -> e.dt
        [] e.sym = "__name__" ->
             IF IsField(e) /\ Cardinality(types) = 1 THEN CHOOSE t \in types : TRUE ELSE None
        [] e.sym \in {"and", "or", "not"} ->
             truth(\A i \in DOMAIN e.kids : KindOf(e.kids[i]) \in Truthful)
        [] e.sym = "exists" -> truth(IsField(left))
        [] e.sym = "in" ->
             truth(/\ l \in Numeric \cup Addressing /\ right.sym = "__list__"
                   /\ \A i \in DOMAIN right.kids :
                        /\ right.kids[i].sym = "__literal__" \/ IsMapped(right.kids[i], left)
                        /\ Alike(beside(right.kids[i], left), l))
        [] e.sym \in Comparing ->
             truth(Alike(l, r) /\ l \in Numeric \cup IF e.sym \in Orders THEN {} ELSE Addressing)
        [] OTHER -> IF \A i \in DOMAIN e.kids : KindOf(e.kids[i]) \in Numeric THEN UintT ELSE None

MakesSense(e) == KindOf(e) \in Truthful

-----------------------------------------------------------------------------
(* What a view of a record satisfies *)

\* The sources of a name that the record has; of a FIRST_OF alias only one.
Present(name, view) ==
  LET there == SelectSeq(SourcesOf(name), LAMBDA s : s \in DOMAIN view)
  IN  IF name \in DOMAIN Aliases /\ Aliases[name].mode = "FIRST_OF" /\ there # <<>>
      THEN {there[1]} ELSE ToSet(there)

Calculated(op, a, b) ==
  CASE op = "+" -> a + b
    [] op = "-" -> a - b
    [] op = "*" -> a * b
    [] op = "&" -> FromBits(UintT, BitSet(a) \cap BitSet(b)).num

RECURSIVE Values(_, _, _)

\* The values of an expression beside another one; a default for what is not
\* in the record.
Values(e, other, view) ==
  CASE e.sym = "__literal__" -> {e.value}
    [] e.sym = "__list__" -> UNION {Values(e.kids[i], other, view) : i \in DOMAIN e.kids}
    [] IsMapped(e, other) -> {[num |-> Mappings[Key(e, other)]]}
    [] IsField(e) ->
         IF Present(e.name, view) = {} THEN {Default(KindOf(e))}
         ELSE {view[s] : s \in Present(e.name, view)}
    [] e.sym = "-" /\ Len(e.kids) = 1 -> {[num |-> -v.num] : v \in Values(e.kids[1], e, view)}
    [] OTHER -> {[num |-> Calculated(e.sym, v.num, w.num)] :
                   v \in Values(e.kids[1], e, view), w \in Values(e.kids[2], e, view)}

\* Two addresses agree as far as the shorter prefix goes.
Agree(v, w) ==
  v.version = w.version /\ (IsPrefix(SubSeq(v.addr, 1, v.prefix), SubSeq(w.addr, 1, w.prefix))
                            \/ IsPrefix(SubSeq(w.addr, 1, w.prefix), SubSeq(v.addr, 1, v.prefix)))

Equal(kind, v, w) == IF kind = IpT THEN Agree(v.ip, w.ip) ELSE v = w

\* An address is in a list when a prefix of the list covers it.
Within(kind, v, w) == Equal(kind, v, w) /\ (kind = IpT => w.ip.prefix <= v.ip.prefix)

\* "If the comparison operator is ommited, the default comparison is `==`."
Holds(op, kind, v, w) ==
  CASE op \in {"", "=="} -> Equal(kind, v, w)
    [] op = "!=" -> ~Equal(kind, v, w)
    [] op = "in" -> Within(kind, v, w)
    [] op = "<" -> v.num < w.num
    [] op = "<=" -> v.num <= w.num
    [] op = ">" -> v.num > w.num
    [] op = ">=" -> v.num >= w.num

RECURSIVE Satisfies(_, _)
Satisfies(e, view) ==
  LET left == e.kids[1]
      right == e.kids[2]
      taken(kind, v) == IF kind \in Numeric THEN v.num # 0 ELSE v # Default(kind)
  IN  CASE e.sym = "and" -> Satisfies(left, view) /\ Satisfies(right, view)
        [] e.sym = "or" -> Satisfies(left, view) \/ Satisfies(right, view)
        [] e.sym = "not" -> ~Satisfies(left, view)
        [] e.sym = "exists" -> Present(left.name, view) # {}
        [] e.sym \in Comparing \cup {"in"} ->
             \E v \in Values(left, right, view), w \in Values(right, left, view) :
                Holds(e.sym, KindOf(left), v, w)
        [] OTHER -> \E v \in Values(e, e, view) : taken(KindOf(e), v)

-----------------------------------------------------------------------------
(* The filter *)

CONSTANTS Expressions,  \* expressions that filters are created from
          Records       \* records that filters are evaluated on

VARIABLES status,   \* "none", "failed", "ready" or "gone"
          expr,     \* the expression of the filter
          filter,   \* [tree, tab]: eval_root and lookup_tab
          run,      \* the run-time state, see FilterEval
          last      \* last evaluation: [rec, both, match]

fvars == <<status, expr, filter, run, last>>

Nothing == [sym |-> "none", kids |-> <<>>]
NoFilter == [tree |-> <<>>, tab |-> <<>>]
NoRun == [vals |-> <<>>, reev |-> NoNode, src |-> 0, gone |-> ""]
NoAnswer == [rec |-> <<>>, both |-> FALSE, match |-> {}]

FInit ==
  /\ status = "none" /\ expr = Nothing /\ filter = NoFilter
  /\ run = NoRun /\ last = NoAnswer

\* fds_filter_create(): parse, resolve the types, generate the tree.
Typing(parsed) ==
  IF parsed.err = "OK" THEN Resolve(parsed.ast, "", <<>>) ELSE Wrong(parsed.ast, <<>>)
Generated(typed) ==
  IF typed.err = "OK" THEN [tree |-> Generate(typed.ast, <<>>, typed.tab), tab |-> typed.tab] ELSE NoFilter
Compiled(tokens) == Generated(Typing(ParseFilter(tokens)))

\* fds_ipfix_filter_create()
Made(compiled) ==
  IF compiled = NoFilter
  THEN status' = "failed" /\ UNCHANGED <<filter, run>>
  ELSE /\ status' = IF HasLostTrie(compiled.tree) THEN "gone" ELSE "ready"
       /\ filter' = compiled
       /\ run' = Start(compiled.tree)
Create(e) ==
  /\ status = "none"
  /\ expr' = e
  /\ Made(Compiled(Written(e, 0)))
  /\ UNCHANGED last

\* fds_filter_eval() through one view of a record.
Evaluated(view, st) ==
  Evaluate(filter.tree, filter.tab, view, <<>>, [st EXCEPT !.src = 0])
Matched(st) == st.gone = "" /\ st.vals[<<>>].bool

Ended(st, rec, both, match) ==
  /\ run' = st
  /\ status' = IF st.gone = "" THEN "ready" ELSE "gone"
  /\ last' = [rec |-> rec, both |-> both, match |-> match]
  /\ UNCHANGED <<expr, filter>>

Forwards(rec, both, st) == Ended(st, rec, both, IF Matched(st) THEN {"FWD"} ELSE {})
Both(rec, fwd, rev) ==
  Ended(rev, rec, TRUE, {d \in {"FWD", "REV"} : Matched(IF d = "FWD" THEN fwd ELSE rev)})
Backwards(rec, fwd) == Both(rec, fwd, IF fwd.gone = "" THEN Evaluated(rec.rev, fwd) ELSE fwd)

\* fds_ipfix_filter_eval()
Eval(rec) == status = "ready" /\ Forwards(rec, FALSE, Evaluated(rec.all, run))

\* fds_ipfix_filter_eval_biflow(): one direction after the other.
EvalBiflow(rec) ==
  /\ status = "ready"
  /\ IF rec.biflow THEN Backwards(rec, Evaluated(rec.fwd, run))
     ELSE Forwards(rec, TRUE, Evaluated(rec.all, run))

\* fds_ipfix_filter_destroy(), of a filter that was not created as well.
Destroy ==
  /\ status \in {"ready", "failed"}
  /\ status' = "none" /\ expr' = Nothing /\ filter' = NoFilter
  /\ run' = NoRun /\ last' = NoAnswer

FNext ==
  \/ \E e \in Expressions : Create(e)
  \/ \E rec \in Records : Eval(rec) \/ EvalBiflow(rec)
  \/ Destroy

FSpec == FInit /\ [][FNext]_fvars

-----------------------------------------------------------------------------
(* Properties *)

\* What is read back from the tokens of an expression is that expression: the
\* parser keeps precedence, associativity, lists and names of two words.
ParsedAsWritten ==
  status # "none" => ParseFilter(Written(expr, 0)) = Parsed(Unary("__root__", expr), Len(Written(expr, 0)) + 1)

RECURSIVE Subexpressions(_)
\* The expression and everything below it.
Subexpressions(e) == {e} \cup UNION {Subexpressions(e.kids[i]) : i \in DOMAIN e.kids}

Logical == {"and", "or", "not"}
Operands(e) == UNION {ToSet(o.kids) : o \in {o \in Subexpressions(e) : o.sym \in Logical}}
HasAnyOf(e) ==
  \E o \in Subexpressions(e) : /\ o.sym = "__name__" /\ o.name \in DOMAIN Aliases
                        /\ Aliases[o.name].mode = "ANY_OF"
\* An operand that leaves reevaluate_node of another one in place.
KeepsNode(e) == e.sym \in {"exists", "not"} \/ \A o \in Subexpressions(e) : o.sym # "__name__"
ConstantTwice(e) ==
  \E name \in {o.name : o \in Subexpressions(e)} \ (DOMAIN Elements \cup DOMAIN Aliases \cup {""}) :
     Len(SelectSeq(Written(e, 0), LAMBDA t : t = Name(name))) > 1

\* A filter is refused exactly when its expression means nothing, whichever
\* operations, casts and constructors the analysis tried.  (A constant that is
\* used twice is not one the second time.)
RefusedIffSenseless ==
  status # "none" /\ ~ConstantTwice(expr) => (status = "failed" <=> ~MakesSense(expr))

\* The listed prefixes that end a word but not the address.
WordPrefixes(e) ==
  LET lists == {o.kids[2] : o \in {o \in Subexpressions(e) : o.sym = "in"}}
      items == {i.value.ip : i \in {i \in UNION {ToSet(l.kids) : l \in lists} : i.dt = IpT}}
  IN  {ip \in items : ip.prefix % WordBits = 0 /\ ip.prefix < Widths[ip.version]}

\* A list of addresses that is empty, or where a prefix that ends a word comes
\* before a longer one it covers.
FragileList(e) ==
  e.sym = "__list__"
  /\ \/ e.kids = <<>>
     \/ \E i, j \in DOMAIN e.kids :
          LET p == e.kids[i].value.ip
              q == e.kids[j].value.ip
          IN  /\ i < j /\ p.version = q.version /\ p.prefix < q.prefix
              /\ p.prefix % WordBits = 0 /\ Agree(p, q)

\* A filter that answers tells of every direction of a record whether the
\* record satisfies the expression, whatever it was evaluated on before.
\* (A prefix that ends a word is only found at the end of an address.  Flags
\* compared without an operator are OmittedIsEqual.)
Expected(rec, both) ==
  IF both /\ rec.biflow
  THEN {d \in {"FWD", "REV"} : Satisfies(expr, IF d = "FWD" THEN rec.fwd ELSE rec.rev)}
  ELSE IF Satisfies(expr, rec.all) THEN {"FWD"} ELSE {}
Answered == status = "ready" /\ last # NoAnswer /\ WordPrefixes(expr) = {}
IsAsExpected == last.match = Expected(last.rec, last.both)
FlagsBare(e) == \E o \in Subexpressions(e) : o.sym = "" /\ KindOf(o.kids[1]) = Type("FLAGS")
MatchesReference == Answered /\ ~FlagsBare(expr) => IsAsExpected

\* "If the comparison operator is ommited, the default comparison is `==`"
\* (src/filter/README.md:9), for flags as for any other type.  It does not
\* hold: cmp_flags() tests for a subset.
OmittedIsEqual == Answered /\ FlagsBare(expr) => IsAsExpected

\* The program ends only in the ways the code is known to end: an operand that
\* leaves reevaluate_node to a name of several values, a constant that is used
\* twice, and a list of addresses that the trie cannot take.
EndsOnlyWhen ==
  status = "gone" =>
    \/ HasAnyOf(expr) /\ \E o \in Operands(expr) : KeepsNode(o)
    \/ ConstantTwice(expr)
    \/ \E o \in Subexpressions(expr) : o.sym = "in" /\ KindOf(o.kids[1]) = IpT /\ FragileList(o.kids[2])

\* The trie made of a list of addresses finds what the list covers, every
\* address of every length, and has the shape that adding to it relies on.
TriesFind ==
  status = "ready" =>
    \A o \in {o \in Subexpressions(expr) : o.sym = "in" /\ o.kids[2].kids # <<>>} :
      KindOf(o.kids[1]) = IpT =>
        \E path \in DOMAIN filter.tree :
          LET trie == filter.tree[path].value.trie
          IN  /\ "trie" \in DOMAIN filter.tree[path].value
              /\ \A v \in DOMAIN Widths :
                   LET listed == {ip \in {o.kids[2].kids[i].value.ip : i \in DOMAIN o.kids[2].kids} :
                                    ip.version = v}
                   IN  /\ listed \cap WordPrefixes(expr) = {} =>
                            FindsExactly(trie[v], v, {SubSeq(ip.addr, 1, ip.prefix) : ip \in listed})
                       /\ WellFormed(trie[v])

\* No assertion of the evaluator and of the callbacks fails.
AssertsHold == run.gone \notin {"invalid value", "constant"}
=============================================================================
