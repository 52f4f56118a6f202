----------------------------- MODULE FilterEval -----------------------------
(***************************************************************************)
(* The evaluation tree of a filter: how src/filter/eval_generator.c makes  *)
(* it of the typed syntax tree, folding what is constant, and how          *)
(* src/filter/eval_evaluator.c evaluates it.  A node is named by its path  *)
(* from the root, so that its parent is the front of its path.             *)
(*                                                                         *)
(* Every node keeps the value it got last.  A name may have several        *)
(* values: the evaluator remembers the last node that may have more in     *)
(* reevaluate_node and, while the operand of a logical operation is not    *)
(* true, takes the next value and recomputes the nodes from there upwards. *)
(***************************************************************************)
EXTENDS FilterTypes, Trie

CONSTANT IntBits      \* bits of an integer (64 in the code)

ASSUME IntBitsAssumption == IntBits \in Nat \ {0}

-----------------------------------------------------------------------------
(* Values and what the operations do with them *)

Unsigned(n) == n % 2^IntBits
Signed(n) == LET u == Unsigned(n) IN IF u >= 2^(IntBits - 1) THEN u - 2^IntBits ELSE u
Wrap(type, n) == [num |-> IF type = IntT THEN Signed(n) ELSE Unsigned(n)]

\* C divides towards zero.
Quotient(a, b) ==
  LET size(n) == IF n < 0 THEN -n ELSE n
      q == size(a) \div size(b)
  IN  IF (a < 0) = (b < 0) THEN q ELSE -q

BitSet(n) == {i \in 0..(IntBits - 1) : (Unsigned(n) \div 2^i) % 2 = 1}
FromBits(type, bits) == Wrap(type, FoldSet(LAMBDA i, sum : sum + 2^i, 0, bits))

\* ip_prefix_equals()
PrefixEquals(a, b) ==
  LET n == IF a.prefix <= b.prefix THEN a.prefix ELSE b.prefix
  IN  a.version = b.version /\ SubSeq(a.addr, 1, n) = SubSeq(b.addr, 1, n)

Same(type, a, b) == IF type = IpT THEN PrefixEquals(a.ip, b.ip) ELSE a = b

ContainsString(big, little) ==
  \E i \in 0..(Len(big) - Len(little)) : SubSeq(big, i + 1, i + Len(little)) = little

Truth01(b) == [bool |-> b]

\* ip_list_to_trie(): one root per IP version; Lost once fds_trie_add() reads
\* through a null pointer.
Lost == <<>>
TrieOf(list) ==
  LET add(ip, t) ==
        IF t = Lost \/ ReadsNull(t[ip.version], ip.addr, ip.prefix) THEN Lost
        ELSE [t EXCEPT ![ip.version] = Add(@, ip.addr, ip.prefix)]
  IN  FoldLeft(LAMBDA t, v : add(v.ip, t), [v \in DOMAIN Widths |-> <<>>], list)

\* What a unary operation or a cast from type t makes of a value.
Apply1(sym, t, out, a) ==
  CASE sym = "-" -> Wrap(IntT, -a.num)
    [] sym = "~" -> Wrap(out, -a.num - 1)
    [] sym = "__cast__" /\ out # BoolT -> Wrap(out, a.num)
    [] sym = "__cast__" /\ out = BoolT ->
         Truth01(CASE t.list -> a.list # <<>>
                   [] t = IpT -> a.ip.version # 0
                   [] t = Type("STR") -> a.str # <<>>
                   [] t = Type("MAC") -> TRUE
                   [] OTHER -> a.num # 0)

Apply2(sym, t, a, b) ==
  CASE sym = "+" -> Wrap(t, a.num + b.num)
    [] sym = "-" -> Wrap(t, a.num - b.num)
    [] sym = "*" -> Wrap(t, a.num * b.num)
    [] sym = "/" -> Wrap(t, Quotient(a.num, b.num))
    [] sym = "%" -> Wrap(t, a.num - b.num * Quotient(a.num, b.num))
    [] sym = "&" -> FromBits(t, BitSet(a.num) \cap BitSet(b.num))
    [] sym = "|" -> FromBits(t, BitSet(a.num) \cup BitSet(b.num))
    [] sym = "^" -> FromBits(t, (BitSet(a.num) \cup BitSet(b.num)) \ (BitSet(a.num) \cap BitSet(b.num)))
    [] sym = "" /\ t = Type("FLAGS") -> Truth01(BitSet(b.num) \subseteq BitSet(a.num))
    [] sym = "==" \/ (sym = "" /\ t # Type("FLAGS")) -> Truth01(Same(t, a, b))
    [] sym = "!=" -> Truth01(~Same(t, a, b))
    [] sym = "<" -> Truth01(a.num < b.num)
    [] sym = ">" -> Truth01(a.num > b.num)
    [] sym = "<=" -> Truth01(a.num <= b.num)
    [] sym = ">=" -> Truth01(a.num >= b.num)
    [] sym = "contains" -> Truth01(ContainsString(a.str, b.str))
    [] sym = "startswith" -> Truth01(IsPrefix(b.str, a.str))
    [] sym = "endswith" -> Truth01(IsSuffix(b.str, a.str))
    [] sym = "in" /\ t # IpT -> Truth01(\E i \in DOMAIN b.list : Same(t, a, b.list[i]))
    [] sym = "in" /\ t = IpT ->
         Truth01(/\ a.ip.version \in DOMAIN Widths
                 /\ Find(b.trie[a.ip.version], a.ip.addr, a.ip.prefix))

-----------------------------------------------------------------------------
(* Folding what is constant *)

RECURSIVE ConstantOf(_, _)

\* ast_to_literal(): the value of a constant subtree; process_constructor_node(),
\* list_to_literal() and const_callback() below it.
ConstantOf(ast, tab) ==
  LET kid(i) == ConstantOf(ast.kids[i], tab)
      type == ast.kids[1].dt
  IN  CASE ast.sym = "__literal__" -> ast.value
        [] ast.sym = "__name__" -> ConstValue(tab, ast.id)
        [] ast.sym = "__list__" -> [list |-> [i \in DOMAIN ast.kids |-> kid(i)]]
        [] ast.sym = "__constructor__" -> [trie |-> TrieOf(kid(1).list)]
        [] ast.sym = "__root__" -> kid(1)
        [] ast.sym = "not" -> Truth01(~kid(1).bool)
        [] ast.sym = "and" -> Truth01(kid(1).bool /\ kid(2).bool)
        [] ast.sym = "or" -> Truth01(kid(1).bool \/ kid(2).bool)
        [] OTHER -> IF Len(ast.kids) = 1 THEN Apply1(ast.sym, type, ast.dt, kid(1))
                    ELSE Apply2(ast.sym, type, kid(1), kid(2))

-----------------------------------------------------------------------------
(* The tree: a function from paths to nodes *)

EvalNode(op, ast, value) ==
  [op |-> op, sym |-> ast.sym, id |-> ast.id, out |-> ast.dt, value |-> value,
   type |-> IF ast.kids = <<>> THEN None ELSE ast.kids[1].dt]

Leaf(path, node) == path :> node

RECURSIVE Generate(_, _, _)

\* generate_eval_tree(); an ANY node is put above a filter that may have
\* several values.  (An empty list is not constant; its node is the same.)
Generate(ast, path, tab) ==
  LET below == [i \in DOMAIN ast.kids |-> Generate(ast.kids[i], Append(path, i), tab)]
      node(op) == FoldLeft(LAMBDA tree, kid : tree @@ kid, Leaf(path, EvalNode(op, ast, NoValue)), below)
      constant == ast.const \/ ast.sym = "__list__"
  IN  CASE constant -> Leaf(path, EvalNode("NONE", ast, ConstantOf(ast, tab)))
        [] ~constant /\ ast.sym = "__root__" ->
             IF ast.kids[1].multi THEN node("ANY") ELSE Generate(ast.kids[1], path, tab)
        [] ~constant /\ ast.sym = "exists" ->
             Leaf(path, EvalNode("EXISTS", [ast EXCEPT !.id = ast.kids[1].id], NoValue))
        [] ~constant /\ ast.sym = "__name__" -> Leaf(path, EvalNode("DATA", ast, NoValue))
        [] ~constant /\ ast.sym \in {"and", "or", "not"} -> node(ast.sym)
        [] OTHER -> node(IF Len(ast.kids) = 1 THEN "UNARY" ELSE "BINARY")

\* A list of addresses that fds_trie_add() did not survive.
HasLostTrie(tree) ==
  \E path \in DOMAIN tree : tree[path].value = [trie |-> Lost]

-----------------------------------------------------------------------------
(* Evaluation.  st is what an evaluation works on: the value of every node, *)
(* reevaluate_node (NoNode or a path), the source index of the lookup state *)
(* and why the program ended, if it did.                                    *)

NoNode == <<0>>
Start(tree) ==
  [vals |-> [path \in DOMAIN tree |-> tree[path].value], reev |-> NoNode, src |-> 0, gone |-> ""]

Left(path) == Append(path, 1)
Right(path) == Append(path, 2)

Set(st, path, value) == [st EXCEPT !.vals[path] = value]
Gone(st, why) == [st EXCEPT !.gone = why]

\* A unary, binary or cast function applied to the values of the children.
Compute(tree, path, st) ==
  LET node == tree[path]
      a == st.vals[Left(path)]
      b == st.vals[Right(path)]
  IN  CASE node.op = "UNARY" -> Set(st, path, Apply1(node.sym, node.type, node.out, a))
        [] node.op = "BINARY" /\ node.sym = "in" /\ node.type = IpT /\ b = [list |-> <<>>] ->
             Gone(st, "no trie")
        [] OTHER -> Set(st, path, Apply2(node.sym, node.type, a, b))

\* The data callback called for a node; the table of items is tab.
Call(tree, tab, view, path, reset, st) ==
  Data(tab[tree[path].id], reset, view, st.src)

RECURSIVE Upwards(_, _, _, _, _, _)

\* reevaluate_upwards(), at one node of the way from the bottom to the top.
Upwards(tree, tab, view, path, top, st) ==
  LET node == tree[path]
      answer == Call(tree, tab, view, path, FALSE, st)
      read == [Set(st, path, answer.value) EXCEPT
                 !.src = answer.src, !.reev = IF answer.rc = "OK_MORE" THEN @ ELSE NoNode]
      next(s) == IF s.gone # "" \/ path = top THEN s
                 ELSE Upwards(tree, tab, view, Front(path), top, s)
  IN  CASE node.op = "DATA" -> IF answer.rc = "NOTFOUND" THEN read ELSE next(read)
        [] node.op \in {"UNARY", "BINARY"} -> next(Compute(tree, path, st))
        [] OTHER -> Gone(st, "invalid value")

RECURSIVE Evaluate(_, _, _, _, _), WhileNotTrue(_, _, _, _, _)

\* Mutant: the other values are not tried.
WhileNotTrueOnce(tree, tab, view, path, st) == st

\* evaluate_while_not_true(), from the state its first evaluation left.
WhileNotTrue(tree, tab, view, path, st) ==
  IF st.gone = "" /\ ~st.vals[path].bool /\ st.reev # NoNode
  THEN WhileNotTrue(tree, tab, view, path, Upwards(tree, tab, view, st.reev, path, st))
  ELSE st

\* evaluate_recursively()
Evaluate(tree, tab, view, path, before) ==
  LET node == tree[path]
      operand(p, s) == WhileNotTrue(tree, tab, view, p, Evaluate(tree, tab, view, p, s))
      left == operand(Left(path), before)
      right == operand(Right(path), left)
      answer == Call(tree, tab, view, path, TRUE, before)
      is(s, b) == IF s.gone # "" THEN s ELSE Set(s, path, Truth01(b))
      value(s, kid) == s.vals[kid].bool
      one == Evaluate(tree, tab, view, Left(path), before)
      args == IF node.op = "UNARY" THEN one ELSE Evaluate(tree, tab, view, Right(path), one)
      called == [before EXCEPT !.src = answer.src]
      constant == tab[node.id].kind = "CONST"
  IN  CASE before.gone # "" \/ node.op = "NONE" -> before
        [] before.gone = "" /\ node.op \in {"DATA", "EXISTS"} ->
             CASE constant -> Gone(before, "constant")
               [] ~constant /\ node.op = "EXISTS" -> Set(called, path, Truth01(answer.rc # "NOTFOUND"))
               [] OTHER -> [Set(called, path, answer.value) EXCEPT
                              !.reev = IF answer.rc = "OK_MORE" THEN path ELSE NoNode]
        [] before.gone = "" /\ node.op \in {"UNARY", "BINARY"} ->
             IF args.gone # "" THEN args ELSE Compute(tree, path, args)
        [] before.gone = "" /\ node.op = "ANY" -> is(left, value(left, Left(path)))
        [] before.gone = "" /\ node.op = "not" -> is(left, ~value(left, Left(path)))
        [] before.gone = "" /\ node.op = "and" ->
             IF left.gone # "" \/ ~value(left, Left(path)) THEN is(left, FALSE)
             ELSE is(right, value(right, Right(path)))
        [] before.gone = "" /\ node.op = "or" ->
             IF left.gone = "" /\ value(left, Left(path)) THEN is(left, TRUE)
             ELSE is(right, value(right, Right(path)))
=============================================================================
