----------------------------- MODULE Elements -----------------------------
(***************************************************************************)
(* Elements of the IE manager in memory (iemgr_element.cpp), the vectors   *)
(* that index them (iemgr_common.h), and the scopes they belong to         *)
(* (iemgr_scope.cpp).  A manager is a record; its part "els" is the heap   *)
(* of elements, by address: a pointer that is not in its domain is NULL or *)
(* dangling.  "scs" is the heap of scopes, "pens" and "prefixes" index     *)
(* them, "replaced" are the PENs of the scopes that the files read so far  *)
(* extended.  A function of the code takes the manager and gives the       *)
(* manager it leaves, with its outcome in "rc".                            *)
(*                                                                         *)
(* A name is its place in the alphabetical order of names; the one behind  *)
(* it is the same name with the postfix "@reverse".                        *)
(***************************************************************************)
EXTENDS Integers, Sequences, FiniteSets, TLC, FiniteSetsExt, SequencesExt

CONSTANTS Null,       \* no element, scope or alias
          NoName,     \* the name is not defined
          NoType,     \* FDS_ET_UNASSIGNED
          NoId,       \* BIFLOW_ID_INVALID
          IdLimit     \* UINT15_LIMIT

Fail(m) == [m EXCEPT !.rc = "FORMAT"]
Throw(m) == [m EXCEPT !.rc = "NOMEM"]
Crash(m) == [m EXCEPT !.rc = "CRASH"]      \* freed or no memory is accessed

\* The rest of a function runs only if nothing has failed.
Then(m, Rest(_)) == IF m.rc = "OK" THEN Rest(m) ELSE m
ForEach(m, Step(_, _), items) == FoldLeft(LAMBDA done, item : Then(done, LAMBDA n : Step(n, item)), m, items)

-----------------------------------------------------------------------------
(* Vectors of pairs of a key and a pointer *)

KeyOf(pair) == pair[1]
Pointers(vec) == {pair[2] : pair \in ToSet(vec)}
Precedes(p, q) == p[1] < q[1] \/ (p[1] = q[1] /\ p[2] < q[2])
SortVec(vec) == SortSeq(vec, Precedes)

Positions(vec, key) == {i \in DOMAIN vec : KeyOf(vec[i]) = key}
FindSecond(vec, key) == IF Positions(vec, key) = {} THEN Null ELSE vec[Min(Positions(vec, key))][2]
EraseFirst(vec, key) == RemoveAt(vec, Min(Positions(vec, key)))
HasPair(vec) == \E i \in 1..(Len(vec) - 1) : KeyOf(vec[i]) = KeyOf(vec[i + 1])

\* std::lower_bound, which relies on the order of the vector.
BinaryFind(vec, key) ==
  LET bound[len \in 0..Len(vec), first \in 1..(Len(vec) + 1)] ==
        IF len = 0 THEN first
        ELSE LET half == len \div 2
             IN  IF KeyOf(vec[first + half]) < key THEN bound[len - half - 1, first + half + 1]
                 ELSE bound[half, first]
      at == bound[Len(vec), 1]
  IN  IF at > Len(vec) THEN Null
      ELSE IF key < KeyOf(vec[at]) THEN Null ELSE vec[at][2]

-----------------------------------------------------------------------------
(* Elements *)

ReverseName(name) == IF name = NoName THEN NoName ELSE name + 1

NewElem(m, elem) == [m EXCEPT !.els = (m.next :> elem) @@ @, !.next = @ + 1]   \* at m.next
FreeElem(m, addr) == [m EXCEPT !.els = [a \in DOMAIN m.els \ {addr} |-> m.els[a]]]

\* Without a name the second vector cannot be extended.
ElementSave(m, s, addr) ==
  LET e == m.els[addr]
      byId == [m EXCEPT !.scs[s].ids = Append(@, <<e.id, addr>>)]
  IN  IF e.name = NoName THEN Throw(byId) ELSE [byId EXCEPT !.scs[s].names = Append(@, <<e.name, addr>>)]

ElementCreateReverse(m, s, src, id) ==
  NewElem([m EXCEPT !.els[src].rev = m.next],
          [m.els[src] EXCEPT !.id = id, !.name = ReverseName(@), !.scope = s, !.isRev = TRUE, !.rev = src,
                             !.aliases = <<>>, !.mappings = <<>>])

ElementAddReverse(m, s, addr, id) ==
  IF m.scs[s].mode # "INDIVIDUAL" \/ id > IdLimit \/ m.els[addr].id = id THEN Fail(m)
  ELSE LET saved == ElementSave(ElementCreateReverse(m, s, addr, id), s, m.next)
       IN  IF saved.rc = "OK" THEN saved ELSE FreeElem(saved, m.next)

\* Mutant: the vector of names keeps the old name.
ElementOverwriteValuesOnly(m, s, dst, src) ==
  IF dst \notin DOMAIN m.els THEN Crash(m)
  ELSE [m EXCEPT !.els[dst].name = IF m.els[src].name = NoName THEN @ ELSE m.els[src].name,
                 !.els[dst].type = IF m.els[src].type = NoType THEN @ ELSE m.els[src].type]

\* Only what the new element defines is rewritten.
ElementOverwriteValues(m, s, dst, src) ==
  IF dst \notin DOMAIN m.els THEN Crash(m)
  ELSE LET name == m.els[src].name
           at == Positions(m.scs[s].names, m.els[dst].name)
           typed == IF m.els[src].type = NoType THEN m ELSE [m EXCEPT !.els[dst].type = m.els[src].type]
       IN  IF name = NoName THEN typed
           ELSE IF at = {} THEN Fail(m)
           ELSE [typed EXCEPT !.scs[s].names[Min(at)][1] = name, !.els[dst].name = name]

ElementOverwriteReverse(m, s, rev, src, biflowId) ==
  LET mode == m.scs[s].mode
      t == IF mode = "PEN" THEN FindSecond(m.pens, m.scs[s].bid) ELSE s
  IN  IF t = Null THEN Fail(m)
      ELSE IF rev = Null
      THEN IF biflowId = NoId THEN m
           ELSE IF biflowId \in m.parsed THEN Fail(m)
           ELSE ElementAddReverse([m EXCEPT !.parsed = @ \cup {biflowId}], t, src, biflowId)
      ELSE IF rev \notin DOMAIN m.els THEN Crash(m)
      ELSE IF biflowId # NoId /\ (mode # "INDIVIDUAL" \/ m.els[rev].id # biflowId) THEN Fail(m)
      ELSE ElementOverwriteValues([m EXCEPT !.els[src].name = ReverseName(@)], t, rev, src)

\* Mutant: nobody asks for the permission.
ElementOverwriteAlways(m, s, dst, src, biflowId) ==
  IF dst \notin DOMAIN m.els THEN Crash(m)
  ELSE IF m.els[dst].isRev # m.els[src].isRev THEN Fail(m)
  ELSE Then(ElementOverwriteValues(m, s, dst, src),
            LAMBDA n : ElementOverwriteReverse(n, s, n.els[dst].rev, src, biflowId))

ElementOverwrite(m, s, dst, src, biflowId) ==
  IF dst \notin DOMAIN m.els THEN Crash(m)
  ELSE IF ~m.canOverwrite \/ m.els[dst].isRev # m.els[src].isRev THEN Fail(m)
  ELSE Then(ElementOverwriteValues(m, s, dst, src),
            LAMBDA n : ElementOverwriteReverse(n, s, n.els[dst].rev, src, biflowId))

ElementWrite(m, s, addr, biflowId) ==
  IF m.els[addr].name = NoName \/ m.els[addr].type = NoType THEN Fail(m)
  ELSE Then(IF biflowId = NoId THEN m ELSE ElementAddReverse(m, s, addr, biflowId),
            LAMBDA n : ElementSave(n, s, addr))

\* The new element is the code's temporary one: only a written one stays.
ElementPush(m, s, elem, biflowId) ==
  LET src == m.next
      dst == FindSecond(m.scs[s].ids, elem.id)
      n == NewElem([m EXCEPT !.parsed = @ \cup {elem.id}], [elem EXCEPT !.scope = s])
      written == ElementWrite(n, s, src, biflowId)
  IN  IF elem.id \in m.parsed THEN Fail(m)
      ELSE IF dst # Null THEN FreeElem(ElementOverwrite(n, s, dst, src, biflowId), src)
      ELSE IF written.rc = "OK" THEN written ELSE FreeElem(written, src)

\* element_read() of an <element>: what it does not define is unassigned.
ElementOf(xml) ==
  [id |-> xml.id, name |-> xml.name, type |-> xml.type, scope |-> Null, isRev |-> FALSE, rev |-> Null,
   aliases |-> <<>>, mappings |-> <<>>]

ElementsRead(m, s, xmls) ==
  ForEach(m, LAMBDA n, xml : ElementPush(n, s, ElementOf(xml), xml.biflowId), xmls)

ElementsCopyReverse(m, dst, src) ==
  ForEach(m, LAMBDA n, pair :
                IF pair[2] \notin DOMAIN n.els THEN Crash(n)
                ELSE ElementSave(ElementCreateReverse(n, dst, pair[2], pair[1]), dst, n.next),
          m.scs[src].ids)

-----------------------------------------------------------------------------
(* Scopes, and the removal of elements from them *)

CONSTANT NoBiflow     \* the file does not describe the biflow of the scope

SplitBit(m, s) == 2 ^ (m.scs[s].bid - 1)
HasBit(id, bit) == (id \div bit) % 2 = 1

\* Mutant: names that were rewritten are left where they were.
ScopeSortIds(m, s) == [m EXCEPT !.scs[s].ids = SortVec(@)]
ScopeSort(m, s) == [m EXCEPT !.scs[s].ids = SortVec(@), !.scs[s].names = SortVec(@)]

NewScope(m, scope) == [m EXCEPT !.scs = (m.next :> scope) @@ @, !.next = @ + 1]     \* at m.next

ScopeSave(m, s) == [m EXCEPT !.prefixes = Append(@, <<m.scs[s].name, s>>), !.pens = Append(@, <<m.scs[s].pen, s>>)]

\* Elements are freed through the vector of IDs, so each must be there once.
ScopeRemoveElements(m, s) ==
  IF s \notin DOMAIN m.scs THEN Crash(m)
  ELSE LET ids == m.scs[s].ids
           emptied == [m EXCEPT !.scs[s].ids = <<>>, !.scs[s].names = <<>>]
       IN  IF Pointers(ids) \subseteq DOMAIN m.els /\ Cardinality(Pointers(ids)) = Len(ids)
           THEN [emptied EXCEPT !.els = [a \in DOMAIN m.els \ Pointers(ids) |-> m.els[a]]]
           ELSE Crash(m)

ScopeRemove(m, s) ==
  Then(ScopeRemoveElements(m, s), LAMBDA n : [n EXCEPT !.scs = [t \in DOMAIN n.scs \ {s} |-> n.scs[t]]])

\* elements_remove_reverse(): the reverse elements of the mode SPLIT.
ElementsRemoveReverse(m, s) ==
  LET bit == SplitBit(m, s)
      forward(pair) == ~HasBit(m.els[pair[2]].id, bit)
      gone == {a \in Pointers(m.scs[s].ids) : HasBit(m.els[a].id, bit)}
      kept == Pointers(m.scs[s].ids) \ gone
  IN  IF m.scs[s].mode # "SPLIT" THEN m
      ELSE [m EXCEPT !.scs[s].names = SelectSeq(@, forward), !.scs[s].ids = SelectSeq(@, forward),
                     !.els = [a \in DOMAIN @ \ gone |-> IF a \in kept THEN [@[a] EXCEPT !.rev = Null] ELSE @[a]]]

\* What a file says of its scope: [pen, name, biflow], the last two optional.
ScopeOf(file) ==
  [pen |-> file.pen, name |-> file.name, mode |-> IF file.biflow = NoBiflow THEN "INVALID" ELSE file.biflow.mode,
   bid |-> IF file.biflow = NoBiflow THEN 0 ELSE file.biflow.id, isRev |-> FALSE, ids |-> <<>>, names |-> <<>>]

ScopeOverwrite(m, s) ==
  IF ~m.canReplace \/ m.scs[s].pen \in m.replaced THEN Fail(m)
  ELSE [ElementsRemoveReverse(m, s) EXCEPT !.replaced = @ \cup {m.scs[s].pen}]

ScopePush(m, file) ==
  LET s == FindSecond(m.pens, file.pen)
  IN  IF s # Null THEN ScopeOverwrite(m, s)
      ELSE IF file.name = NoName \/ file.biflow = NoBiflow THEN Fail(m)
      ELSE ScopeSave(NewScope(m, ScopeOf(file)), m.next)

ScopeCreateReverse(m, s) ==
  LET scope == m.scs[s]
      reverse == [pen |-> scope.bid, name |-> ReverseName(scope.name), mode |-> scope.mode, bid |-> scope.pen,
                  isRev |-> TRUE, ids |-> <<>>, names |-> <<>>]
  IN  ElementsCopyReverse(NewScope(m, reverse), m.next, s)

\* The reverse scope of an extended one is built anew.
ScopeSetBiflowOverwrite(m, s) ==
  LET t == FindSecond(m.pens, m.scs[s].bid)
  IN  Then(ScopeRemoveElements(m, t), LAMBDA n : ElementsCopyReverse(n, t, s))

ScopeSetBiflowPen(m, s) ==
  IF m.scs[s].pen \in m.replaced THEN ScopeSetBiflowOverwrite(m, s)
  ELSE Then(ScopeCreateReverse(m, s), LAMBDA n : ScopeSort(ScopeSave(n, m.next), m.next))

ScopeSetBiflowSplit(m, s) ==
  LET bit == SplitBit(m, s)
  IN  ForEach(m, LAMBDA n, pair :
                    IF HasBit(pair[1], bit) THEN Fail(n)
                    ELSE ElementSave(ElementCreateReverse(n, s, pair[2], pair[1] + bit), s, n.next),
              m.scs[s].ids)

ScopeSetBiflow(m, s) ==
  CASE m.scs[s].mode = "PEN" -> ScopeSetBiflowPen(m, s)
    [] m.scs[s].mode = "SPLIT" -> ScopeSetBiflowSplit(m, s)
    [] OTHER -> m

ScopeCheck(m, s) == IF HasPair(m.scs[s].names) THEN Fail(m) ELSE m

MgrSort(m) == [m EXCEPT !.pens = SortVec(@), !.prefixes = SortVec(@), !.aliasedNames = SortVec(@)]

\* The first entry of an element in either vector goes.
\* Mutant: only the one by its ID.
UnlinkId(m, s, elem) == [m EXCEPT !.scs[s].ids = EraseFirst(@, elem.id)]
Unlink(m, s, elem) == [m EXCEPT !.scs[s].ids = EraseFirst(@, elem.id), !.scs[s].names = EraseFirst(@, elem.name)]

\* element_destroy(): with the element goes its reverse element, and with the
\* last element of a scope the scope, which has no name if an element was
\* added to no scope.
RECURSIVE ElementDestroy(_, _, _)
ElementDestroy(m, pen, id) ==
  LET NotFound(n) == [n EXCEPT !.rc = "NOTFOUND"]
      s == FindSecond(m.pens, pen)
      e == IF s = Null THEN Null ELSE FindSecond(m.scs[s].ids, id)
      elem == m.els[e]
      unlinked == Unlink(m, s, elem)
      partner == m.els[elem.rev]
      alone == IF elem.rev = Null THEN unlinked
               ELSE IF elem.rev \notin DOMAIN m.els THEN Crash(unlinked)
               ELSE ElementDestroy(unlinked, m.scs[partner.scope].pen, partner.id)
      closed(n) == IF n.scs[s].ids # <<>> THEN ScopeSort(n, s)
                   ELSE IF n.scs[s].name = NoName THEN Throw(n)
                   ELSE MgrSort([ScopeRemove(n, s) EXCEPT !.pens = EraseFirst(@, pen),
                                                          !.prefixes = EraseFirst(@, n.scs[s].name)])
  IN  IF e = Null THEN NotFound(m)
      ELSE IF e \notin DOMAIN m.els THEN Crash(m)
      ELSE IF Positions(m.scs[s].names, elem.name) = {} THEN NotFound(m)
      ELSE IF elem.isRev
      THEN IF elem.rev \notin DOMAIN m.els THEN Crash(m)
           ELSE FreeElem([unlinked EXCEPT !.els[elem.rev].rev = Null], e)
      ELSE Then(Then(alone, closed), LAMBDA n : FreeElem(n, e))
=============================================================================
