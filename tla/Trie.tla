-------------------------------- MODULE Trie --------------------------------
(***************************************************************************)
(* The prefix trie of src/trie/trie.c: fds_trie_add() and fds_trie_find().  *)
(* An address is the sequence of its bits, in words of WordBits bits (32   *)
(* in the code); a trie of one IP version is a function from nodes.        *)
(*                                                                         *)
(* A node is named by its path, the bits that lead to it: prefix and       *)
(* branching bits of its ancestors.  A child is thus the node whose path   *)
(* extends that of its parent by the parent's prefix and one bit, and      *)
(* splitting a node leaves the paths of everything below it as they are.   *)
(***************************************************************************)
EXTENDS Naturals, Sequences, FiniteSets

CONSTANTS WordBits,   \* bits of a word
          Widths      \* IP version -> bits of an address, whole words

ASSUME WidthAssumption ==
  /\ WordBits \in Nat \ {0}
  /\ \A v \in DOMAIN Widths : Widths[v] \in Nat \ {0} /\ Widths[v] % WordBits = 0

Bits == {0, 1}
Addresses(v) == [1..Widths[v] -> Bits]

-----------------------------------------------------------------------------
(* Words and bits *)

BitOffset(i) == i % WordBits
\* Length of the address, counted from the start of the word bit i is in.
BitLength(n, i) == n - (i - BitOffset(i))
IsLastWord(n, i) == BitLength(n, i) <= WordBits
BitsRemaining(n, i) ==
  (IF IsLastWord(n, i) THEN BitLength(n, i) ELSE WordBits) - BitOffset(i)

\* extract_n_bits(): len bits after the first i.
Extract(a, i, len) == SubSeq(a, i + 1, i + len)
Matches(a, i, prefix) == Extract(a, i, Len(prefix)) = prefix

\* find_differing_bit(): bits equal before the first difference.  The word is
\* compared beyond the length of the address, host bits included.
DifferingBit(a, i, prefix) ==
  LET same == {k \in 0..(Len(prefix) - 1) : a[i + k + 1] # prefix[k + 1]}
  IN  IF same = {} THEN WordBits ELSE CHOOSE k \in same : \A j \in same : k <= j

-----------------------------------------------------------------------------
(* Adding a prefix *)

Node(prefix, intermediate) == [prefix |-> prefix, intermediate |-> intermediate]

\* trie_node_split_on_bit(): the node keeps the bits before bit k, a new
\* child takes those after it and whatever was below.
SplitOnBit(ns, path, k) ==
  LET node == ns[path]
      child == path \o SubSeq(node.prefix, 1, k + 1)
      rest == Node(SubSeq(node.prefix, k + 2, Len(node.prefix)), node.intermediate)
  IN  [p \in DOMAIN ns \cup {child} |->
         CASE p = path -> Node(SubSeq(node.prefix, 1, k), TRUE)
           [] p = child -> rest
           [] OTHER -> ns[p]]

\* fds_trie_create_nodes(): one node for each word begun, the last one final.
CreateNodes(ns, a, n, i) ==
  LET starts == {i} \cup {j \in (i + 1)..n : BitOffset(j) = 0}
      last == CHOOSE j \in starts : IsLastWord(n, j) /\ \A k \in starts : k < j => ~IsLastWord(n, k)
      new == {j \in starts : j <= last}
      made(j) == IF j = last THEN Node(Extract(a, j, n - j), FALSE)
                 ELSE Node(Extract(a, j, WordBits - 1 - BitOffset(j)), TRUE)
  IN  [p \in DOMAIN ns \cup {Extract(a, 0, j) : j \in new} |->
         IF \E j \in new : p = Extract(a, 0, j) THEN made(Len(p)) ELSE ns[p]]

\* trie_node_find_add(): how far an address is led by the nodes there are.
FindAdd(ns, a, n) ==
  LET Walk[i \in 0..n] ==
        LET path == Extract(a, 0, i)
        IN  IF \/ path \notin DOMAIN ns
               \/ BitsRemaining(n, i) <= Len(ns[path].prefix)
               \/ ~Matches(a, i, ns[path].prefix)
            THEN i
            ELSE Walk[i + Len(ns[path].prefix) + 1]
  IN  Walk[0]

\* The end of fds_trie_add() where a node is split and a new branch begins.
Branch(ns, a, n, i, k) ==
  CreateNodes(SplitOnBit(ns, Extract(a, 0, i), k), a, n, i + k + 1)

\* Mutant: the node stays one that only leads to others.
FinalForgotten(ns, path) == ns

\* The node became, or was, the end of the prefix.
Final(ns, path) == [ns EXCEPT ![path].intermediate = FALSE]

\* Mutant: also when the address ends there.
ReadsNullAtEnd(ns, a, n) ==
  LET i == FindAdd(ns, a, n)
      path == Extract(a, 0, i)
  IN  path \in DOMAIN ns /\ BitsRemaining(n, i) = Len(ns[path].prefix) /\ Matches(a, i, ns[path].prefix)

\* The prefix ends a word that the address goes on after: the code splits the
\* node and then reads the length of the other, missing, branch.
ReadsNull(ns, a, n) ==
  LET i == FindAdd(ns, a, n)
      path == Extract(a, 0, i)
  IN  /\ path \in DOMAIN ns
      /\ BitsRemaining(n, i) = Len(ns[path].prefix)
      /\ Matches(a, i, ns[path].prefix)
      /\ ~IsLastWord(n, i)

Add(ns, a, n) ==
  LET i == FindAdd(ns, a, n)
      path == Extract(a, 0, i)
      prefix == ns[path].prefix
      differing == DifferingBit(a, i, prefix)
      remaining == BitsRemaining(n, i)
  IN  CASE path \notin DOMAIN ns -> CreateNodes(ns, a, n, i)
        [] path \in DOMAIN ns /\ remaining < Len(prefix) /\ differing >= remaining ->
             Final(SplitOnBit(ns, path, remaining), path)
        [] path \in DOMAIN ns /\ remaining = Len(prefix) /\ differing >= Len(prefix) ->
             Final(ns, path)
        [] OTHER -> Branch(ns, a, n, i, differing)

-----------------------------------------------------------------------------
(* Looking an address up *)

Find(ns, a, n) ==
  LET Walk[i \in 0..n] ==
        LET path == Extract(a, 0, i)
            prefix == ns[path].prefix
            tooLong == IF IsLastWord(n, i) THEN n - i < Len(prefix)
                       ELSE WordBits - BitOffset(i) <= Len(prefix)
        IN  /\ path \in DOMAIN ns
            /\ ~tooLong
            /\ Matches(a, i, prefix)
            /\ \/ ~ns[path].intermediate
               \/ /\ i + Len(prefix) < n
                  /\ Walk[i + Len(prefix) + 1]
  IN  Walk[0]

-----------------------------------------------------------------------------
(* What a trie of prefixes is for *)

Covers(p, a, n) == Len(p) <= n /\ Extract(a, 0, Len(p)) = p

\* The trie ns tells, for every address of version v and every length of it,
\* whether one of the prefixes covers it.
FindsExactly(ns, v, prefixes) ==
  \A a \in Addresses(v), n \in 1..Widths[v] :
     Find(ns, a, n) <=> \E p \in prefixes : Covers(p, a, n)

\* The shape fds_trie_add() relies on: every node but the root hangs on an
\* existing one, an intermediate node was made to branch, and no prefix of a
\* node leads across the end of a word.
WellFormed(ns) ==
  \A path \in DOMAIN ns :
    LET node == ns[path]
        full == path \o node.prefix
        below == {b \in Bits : (full \o <<b>>) \in DOMAIN ns}
    IN  /\ BitOffset(Len(path)) + Len(node.prefix) <= WordBits
        /\ path # <<>> => \E p \in DOMAIN ns :
             Len(p) < Len(path) /\ SubSeq(path, 1, Len(path) - 1) = p \o ns[p].prefix
        /\ node.intermediate => below # {}
        /\ node.intermediate /\ Cardinality(below) = 1 => BitOffset(Len(full) + 1) = 0
=============================================================================
