---------------------------- MODULE FilterParser ----------------------------
(***************************************************************************)
(* The precedence climbing parser of filter expressions,                   *)
(* src/filter/parser.c.  It takes the tokens of the scanner, of which only *)
(* the kind and what they carry matter, and makes a syntax tree.           *)
(*                                                                         *)
(* A node has the shape of fds_filter_ast_node: the symbol, the children   *)
(* (left and right, the child, or the items of a list, whose chain of      *)
(* __listitem__ nodes is a sequence here), the value of a literal, the     *)
(* name, and what the semantic analysis writes: data type, id and flags.   *)
(* A value is a record with one field named for its kind.                  *)
(***************************************************************************)
EXTENDS Naturals, Sequences, FiniteSets, TLC

Type(t) == [list |-> FALSE, of |-> t]
ListOf(t) == [list |-> TRUE, of |-> t.of]
None == Type("NONE")

NoValue == [none |-> 0]

AstNode(sym, kids) ==
  [sym |-> sym, kids |-> kids, value |-> NoValue, name |-> "", dt |-> None, id |-> 0,
   const |-> FALSE, multi |-> FALSE]
Unary(sym, child) == AstNode(sym, <<child>>)
Binary(sym, left, right) == AstNode(sym, <<left, right>>)
ListNode(items) == AstNode("__list__", items)
NameNode(name) == [AstNode("__name__", <<>>) EXCEPT !.name = name]
Literal(type, value) ==
  [AstNode("__literal__", <<>>) EXCEPT !.value = value, !.dt = type, !.const = TRUE]

-----------------------------------------------------------------------------
(* Tokens *)

Symbol(s) == [kind |-> "SYMBOL", text |-> s, dt |-> None, value |-> NoValue]
Name(s) == [kind |-> "NAME", text |-> s, dt |-> None, value |-> NoValue]
Constant(type, v) == [kind |-> "LITERAL", text |-> "", dt |-> type, value |-> v]
End == [kind |-> "END", text |-> "", dt |-> None, value |-> NoValue]

Token(tokens, i) == IF i <= Len(tokens) THEN tokens[i] ELSE End

\* op_parse_def_table[].  Every infix operator associates to the left; the
\* empty symbol is the comparison that is not written ("port 80").
InfixPrec ==
  [s \in {"*", "/", "%"} |-> 6] @@ [s \in {"+", "-"} |-> 5] @@ [s \in {"<<", ">>"} |-> 4] @@
  [s \in {"&", "|", "^"} |-> 3] @@ [s \in {"in", "contains", "startswith", "endswith"} |-> 2] @@
  [s \in {"", "==", "!=", "<", ">", "<=", ">="} |-> 1] @@ [s \in {"and", "or"} |-> 0]
\* Mutant: "not" binds as closely as "~".
PrefixPrecTight == [s \in {"+", "-"} |-> 7] @@ ("~" :> 3) @@ ("exists" :> 2) @@ ("not" :> 3)
PrefixPrec == [s \in {"+", "-"} |-> 7] @@ ("~" :> 3) @@ ("exists" :> 2) @@ ("not" :> 0)

NamePrefixes == {"in", "out", "ingress", "egress", "src", "dst"}
Trailing == {Symbol(s) : s \in {")", ",", "]"}} \cup {End}

-----------------------------------------------------------------------------
(* A parse ends in [ast, next, err]: next is the first token not consumed. *)

Parsed(ast, next) == [ast |-> ast, next |-> next, err |-> "OK"]
Refused(err) == [ast |-> AstNode("", <<>>), next |-> 0, err |-> err]

RECURSIVE ParseInfix(_, _, _), InfixRest(_, _, _), ParsePrefix(_, _), ListItems(_, _, _)

\* parse_infix_expr()
ParseInfix(tokens, i, prec) == InfixRest(tokens, ParsePrefix(tokens, i), prec)

\* Its loop: left is what has been parsed so far.
InfixRest(tokens, left, prec) ==
  LET token == Token(tokens, left.next)
      written == token.kind = "SYMBOL" /\ token.text \in DOMAIN InfixPrec
      op == IF written THEN token.text ELSE ""
      right == ParseInfix(tokens, IF written THEN left.next + 1 ELSE left.next, InfixPrec[op] + 1)
  IN  CASE left.err # "OK" -> left
        [] left.err = "OK" /\ (token \in Trailing \/ InfixPrec[op] < prec) -> left
        [] OTHER -> IF right.err # "OK" THEN right
                    ELSE InfixRest(tokens, Parsed(Binary(op, left.ast, right.ast), right.next), prec)

\* The items of a list up to its ]; a comma may follow the last one.
ListItems(tokens, i, items) ==
  LET item == ParseInfix(tokens, i, 0)
      after == Token(tokens, item.next)
  IN  CASE Token(tokens, i) = Symbol("]") -> Parsed(ListNode(items), i + 1)
        [] Token(tokens, i) # Symbol("]") /\ item.err # "OK" -> item
        [] OTHER ->
             CASE after = Symbol(",") -> ListItems(tokens, item.next + 1, Append(items, item.ast))
               [] after = Symbol("]") -> ListItems(tokens, item.next, Append(items, item.ast))
               [] OTHER -> Refused("SYNTAX")

\* parse_prefix_expr()
ParsePrefix(tokens, i) ==
  LET token == Token(tokens, i)
      follow == Token(tokens, i + 1)
      is(s) == token = Symbol(s)
      inner == ParseInfix(tokens, i + 1, 0)
      operand == ParseInfix(tokens, i + 1, PrefixPrec[token.text] + 1)
  IN  CASE is("(") ->
             IF inner.err # "OK" THEN inner
             ELSE IF Token(tokens, inner.next) # Symbol(")") THEN Refused("SYNTAX")
             ELSE Parsed(inner.ast, inner.next + 1)
        [] token.kind = "SYMBOL" /\ token.text \in NamePrefixes ->
             IF follow.kind # "NAME" THEN Refused("LEXICAL")
             ELSE Parsed(NameNode(token.text \o " " \o follow.text), i + 2)
        [] is("[") -> ListItems(tokens, i + 1, <<>>)
        [] token.kind = "SYMBOL" /\ token.text \in DOMAIN PrefixPrec ->
             IF operand.err # "OK" THEN operand
             ELSE Parsed(Unary(token.text, operand.ast), operand.next)
        [] token.kind = "NAME" -> Parsed(NameNode(token.text), i + 1)
        [] token.kind = "LITERAL" -> Parsed(Literal(token.dt, token.value), i + 1)
        [] OTHER -> Refused("SYNTAX")

\* parse_filter()
ParseFilter(tokens) ==
  LET e == ParseInfix(tokens, 1, 0)
  IN  CASE e.err # "OK" -> e
        [] e.err = "OK" /\ Token(tokens, e.next) # End -> Refused("LEXICAL")
        [] OTHER -> Parsed(Unary("__root__", e.ast), e.next)
=============================================================================
