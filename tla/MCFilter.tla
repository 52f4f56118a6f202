------------------------------ MODULE MCFilter ------------------------------
(* An instance of IpfixFilter: addresses of one and of two words of two      *)
(* bits, and expressions built from one or two comparisons of every kind.    *)
EXTENDS IpfixFilter

CONSTANTS ListLength, Operators

MCWidths == <<2, 4>>

MCElements ==
  [e \in {"srcIPv4", "dstIPv4", "srcIPv6"} |-> IpT] @@ [e \in {"srcPort", "dstPort", "proto"} |-> UintT]
  @@ ("flags" :> Type("FLAGS")) @@ ("url" :> Type("STR"))
Alias(mode, sources) == [mode |-> mode, sources |-> sources]
MCAliases ==
  ("ip" :> Alias("ANY_OF", <<"srcIPv4", "srcIPv6", "dstIPv4">>)) @@ ("port" :> Alias("ANY_OF", <<"srcPort", "dstPort">>))
  @@ ("src ip" :> Alias("FIRST_OF", <<"srcIPv4", "srcIPv6">>)) @@ ("any" :> Alias("ANY_OF", <<"url", "proto">>))
MCMappings == (<<"proto", "TCP">> :> 6) @@ (<<"port", "http">> :> 3)

Number(n) == [num |-> n]
Prefix(v, bits) ==
  [ip |-> [version |-> v, prefix |-> Len(bits),
           addr |-> [i \in 1..MCWidths[v] |-> IF i <= Len(bits) THEN bits[i] ELSE 0]]]

\* A number is signed unless it is written with the suffix u.
Num(n) == Literal(IntT, Number(n))
UnsignedNum(n) == Literal(UintT, Number(n))
Ip(v, bits) == Literal(IpT, Prefix(v, bits))
Is(name, op, right) == Binary(op, NameNode(name), right)
A4 == <<0, 1>>
B4 == <<1, 1>>
A6 == <<0, 1, 1, 0>>

Record(all, fwd, rev) == [biflow |-> fwd # rev, all |-> all, fwd |-> fwd, rev |-> rev]
Plain(view) == Record(view, view, view)
Forward == ("srcIPv4" :> Prefix(1, A4)) @@ ("dstIPv4" :> Prefix(1, B4)) @@ ("srcPort" :> Number(1))
           @@ ("dstPort" :> Number(3)) @@ ("proto" :> Number(6)) @@ ("flags" :> Number(3))
Backward == ("srcIPv4" :> Prefix(1, B4)) @@ ("dstIPv4" :> Prefix(1, A4)) @@ ("srcPort" :> Number(3))
           @@ ("dstPort" :> Number(1)) @@ ("proto" :> Number(6)) @@ ("url" :> [str |-> <<1>>])
Sparse == ("srcIPv6" :> Prefix(2, A6)) @@ ("dstPort" :> Number(1)) @@ ("url" :> [str |-> <<1>>])
Other == ("dstIPv4" :> Prefix(1, A4)) @@ ("proto" :> Number(1)) @@ ("flags" :> Number(2))
MCRecords == {Plain(Forward), Plain(Sparse), Plain(Other), Record(Forward, Forward, Backward)}

Sensible ==
  {Is("ip", "", Ip(1, A4)), Is("src ip", "==", Ip(1, <<0>>)), Is("ip", "!=", Ip(1, B4)),
   Is("ip", "in", ListNode(<<Ip(1, B4), Ip(2, <<0>>)>>)), Is("port", "", Num(1)),
   Is("port", "in", ListNode(<<Num(1), NameNode("http")>>)), Is("port", ">=", Num(2)),
   Is("port", "==", NameNode("http")), Is("proto", "", NameNode("TCP")), Is("flags", "", Num(2)), Is("flags", "==", UnsignedNum(2)),
   Is("port", "<", UnsignedNum(2)),
   Unary("exists", NameNode("url")), Unary("exists", NameNode("ip")), NameNode("port"),
   Num(0), UnsignedNum(1)}
Senseless ==
  {Is("ip", "==", Num(1)), Is("ip", "in", ListNode(<<Num(1)>>)), NameNode("flags"), NameNode("any"),
   Unary("exists", Num(1)), NameNode("TCP"), Is("port", "", NameNode("TCP"))}
Few == {Is("ip", "", Ip(1, A4)), Is("port", "", Num(1)), Unary("exists", NameNode("url")), Is("proto", "==", UnsignedNum(6))}

\* Precedence and associativity matter in these.
Calculations ==
  {Is("port", "==", Binary(o, Num(2), Binary(p, Num(1), Num(3)))) : o, p \in {"+", "*", "&"}}
  \cup {Is("port", "==", Binary(o, Binary(p, Num(4), Num(2)), Num(1))) : o, p \in {"+", "-", "*"}}
  \cup {Is("port", "==", Binary("-", Num(4), Binary("-", Num(2), Num(1)))),
        Is("port", "", Unary("-", Unary("-", Num(1)))), Binary("<", Binary("+", NameNode("port"), Num(1)), Num(4)),
        Binary("==", Binary("&", NameNode("flags"), Num(2)), Num(2)),
        Is("port", "in", ListNode(<<Num(1), UnsignedNum(2)>>)),
        Is("port", "==", Binary("+", UnsignedNum(1), Num(2)))}

Two(atoms) == {Binary(op, a, b) : op \in Operators, a, b \in atoms}
Three == {Binary(op, a, Binary(o, b, c)) : op, o \in Operators, a, b, c \in Few}
         \cup {Binary(op, Binary(o, a, b), c) : op, o \in Operators, a, b, c \in Few}
         \cup {Unary("not", e) : e \in Two(Few)}
Blocks == {Ip(v, bits) : v \in 1..2, bits \in UNION {[1..n -> Bits] : n \in 1..2}}
            \cup {Ip(2, bits) : bits \in UNION {[1..n -> Bits] : n \in 3..4}}
Lists == {Is("ip", "in", ListNode(items)) : items \in UNION {[1..n -> Blocks] : n \in 0..ListLength}}
\* Lists that split the nodes of one branch again and again.
Twigs == {Ip(2, bits) : bits \in {<<0>>, <<0, 1, 0>>, <<0, 1, 1>>, <<0, 1, 1, 0>>, <<0, 1, 1, 1>>, <<0, 0, 1>>, <<1, 1, 1, 1>>}}
Splits == {Is("ip", "in", ListNode(items)) : items \in [1..(ListLength + 1) -> Twigs]}

MCExpressions ==
  Sensible \cup Senseless \cup Calculations \cup {Unary("not", e) : e \in Sensible \cup Senseless}
  \cup Two(Sensible) \cup Three \cup Lists \cup Splits
=============================================================================
