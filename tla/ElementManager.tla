----------------------------- MODULE ElementManager -----------------------------
(***************************************************************************)
(* The manager of Information Elements (iemgr.cpp, iemgr_common.cpp) under *)
(* the calls of its user: definitions are read from a directory or from    *)
(* files, elements are added, given reverse elements and removed, and the  *)
(* manager is copied, cleared and destroyed, in any order.  A call that    *)
(* fails leaves what it has already done.                                  *)
(*                                                                         *)
(* First aliases of elements and mappings of names to values               *)
(* (iemgr_alias.cpp, iemgr_mapping.cpp): the parts "als" and "maps" of a   *)
(* manager are the heaps of both.  Elements and aliases point to each      *)
(* other.                                                                  *)
(***************************************************************************)
EXTENDS Elements

CONSTANTS NoFile,      \* there is no such file
          Iana         \* the scope of names without a prefix

FindName(m, name) ==      \* fds_iemgr_elem_find_name() of <<name of the scope, name>>
  LET s == BinaryFind(m.prefixes, name[1])
  IN  IF s = Null THEN Null ELSE BinaryFind(m.scs[s].names, name[2])

FindId(m, pen, id) ==     \* fds_iemgr_elem_find_id()
  LET s == BinaryFind(m.pens, pen)
  IN  IF s = Null THEN Null ELSE BinaryFind(m.scs[s].ids, id)

AliasFind(m, name) == BinaryFind(m.aliasedNames, name)

\* alias_save_to_mgr() of the alias at an address.
AliasSave(m, a) ==
  LET alias == m.als[a]
  IN  IF \E name \in ToSet(alias.aliased) : AliasFind(m, name) # Null THEN Fail(m)
      ELSE IF ~(ToSet(alias.sources) \subseteq DOMAIN m.els) THEN Crash(m)
      ELSE ForEach([m EXCEPT !.aliases = Append(@, a),
                             !.aliasedNames = SortVec(@ \o [i \in DOMAIN alias.aliased |-> <<alias.aliased[i], a>>])],
                   LAMBDA n, e : [n EXCEPT !.els[e].aliases = Append(@, a)], alias.sources)

\* read_element() of an alias: [name, aliased, sources], the sources by name.
AliasRead(m, xml) ==
  LET found == [i \in DOMAIN xml.sources |-> FindName(m, xml.sources[i])]
      created == [m EXCEPT !.als = (m.next :> [xml EXCEPT !.sources = found]) @@ @, !.next = @ + 1]
      saved == AliasSave(created, m.next)
  IN  IF Null \in ToSet(found) THEN Fail(m)
      ELSE IF saved.rc = "OK" THEN saved ELSE [saved EXCEPT !.als = m.als]

AliasesRead(m, xmls) == IF xmls = NoFile THEN m ELSE ForEach(m, AliasRead, xmls)

\* mapping_add_match(): the elements of the alias of that name, or an element.
Matched(m, match) ==
  LET a == SelectSeq(m.aliases, LAMBDA b : m.als[b].name = match)
      e == FindName(m, match)
  IN  IF a # <<>> THEN m.als[a[1]].sources ELSE IF e = Null THEN <<>> ELSE <<e>>

MappingSave(m, p) ==
  IF ~(ToSet(m.maps[p].elems) \subseteq DOMAIN m.els) THEN Crash(m)
  ELSE ForEach([m EXCEPT !.mappings = Append(@, p)],
               LAMBDA n, e : [n EXCEPT !.els[e].mappings = Append(@, p)], m.maps[p].elems)

\* read_mapping(): [match, keys]
MappingRead(m, xml) ==
  IF \E b \in ToSet(m.aliases) : b \notin DOMAIN m.als THEN Crash(m)
  ELSE IF \E match \in ToSet(xml.match) : Matched(m, match) = <<>> THEN [m EXCEPT !.rc = "NOTFOUND"]
  ELSE MappingSave([m EXCEPT !.maps = (m.next :> [elems |-> FlattenSeq([i \in DOMAIN xml.match |-> Matched(m, xml.match[i])]),
                                                  keys |-> xml.keys]) @@ @,
                             !.next = @ + 1], m.next)

MappingsRead(m, xmls) == IF xmls = NoFile THEN m ELSE ForEach(m, MappingRead, xmls)

\* Mutant: aliases are not looked at.
MappingFindElement(m, name, key) ==
  LET e == FindName(m, name)
  IN  e # Null /\ \E p \in ToSet(m.els[e].mappings) : key \in m.maps[p].keys

\* fds_iemgr_mapping_find(): whether there is a value of a key.
MappingFind(m, name, key) ==
  LET a == IF name[1] = Iana THEN AliasFind(m, name[2]) ELSE Null
      inElem(e) == \E p \in ToSet(m.els[e].mappings) : key \in m.maps[p].keys
  IN  \/ a # Null /\ \E e \in ToSet(m.als[a].sources) : inElem(e)
      \/ FindName(m, name) # Null /\ inElem(FindName(m, name))

\* aliases_destroy() and mappings_destroy(): the vectors keep the pointers.
AliasesDestroy(m) ==
  IF /\ ToSet(m.aliases) \subseteq DOMAIN m.als /\ IsInjective(m.aliases)
     /\ ToSet(m.mappings) \subseteq DOMAIN m.maps /\ IsInjective(m.mappings)
  THEN [m EXCEPT !.als = [a \in DOMAIN @ \ ToSet(m.aliases) |-> @[a]],
                 !.maps = [p \in DOMAIN @ \ ToSet(m.mappings) |-> @[p]]]
  ELSE Crash(m)

\* aliases_copy(), from one manager to another: the elements of an alias are
\* replaced by those of the new manager in the alias itself, not in its copy,
\* and the new manager gets the alias.  (The copy is lost.)
AliasesCopy(m, aliases) ==
  LET migrated(n, a) == [i \in DOMAIN n.als[a].sources |->
                           LET e == n.els[n.als[a].sources[i]]
                           IN  FindId(n, n.scs[e.scope].pen, e.id)]
  IN  ForEach(m, LAMBDA n, a :
                   IF a \notin DOMAIN n.als THEN Crash(n)
                   ELSE IF ~(ToSet(n.als[a].sources) \subseteq DOMAIN n.els) THEN Crash(n)
                   ELSE IF Null \in ToSet(migrated(n, a)) THEN Crash(n)
                   ELSE AliasSave([n EXCEPT !.als[a].sources = migrated(n, a)], a),
              aliases)

MappingsCopy(m, mappings) ==
  LET migrated(n, p) == [i \in DOMAIN n.maps[p].elems |->
                           LET e == n.els[n.maps[p].elems[i]]
                           IN  FindId(n, n.scs[e.scope].pen, e.id)]
  IN  ForEach(m, LAMBDA n, p :
                   IF p \notin DOMAIN n.maps THEN Crash(n)
                   ELSE IF ~(ToSet(n.maps[p].elems) \subseteq DOMAIN n.els) THEN Crash(n)
                   ELSE IF Null \in ToSet(migrated(n, p)) THEN Crash(n)
                   ELSE MappingSave([n EXCEPT !.maps = (n.next :> [@[p] EXCEPT !.elems = migrated(n, p)]) @@ @,
                                              !.next = @ + 1], n.next),
              mappings)

-----------------------------------------------------------------------------
(* The manager *)

CONSTANTS Dirs,         \* directories: [system, user] of [files, aliases, mappings]
          Files,        \* files to read: [pen, name, biflow, elems]
          Added,        \* elements of the user's own to add: <<PEN, element>>
          AddedTo,      \* PENs that elements found in the manager are added to
          Reversed,     \* reverse elements to add: <<PEN, ID, new ID>>
          MaxCalls      \* bound: calls

VARIABLES mgr,      \* struct fds_iemgr, and the heap
          old,      \* what the manager points to that mgr is a copy of
          call,     \* history: the last call
          calls     \* history: their number

evars == <<mgr, old, call, calls>>

NoCall == [op |-> "none", pen |-> 0, overwrite |-> FALSE]
NoOld == [pens |-> <<>>, aliases |-> <<>>, mappings |-> <<>>]
Heap == [els |-> <<>>, scs |-> <<>>, als |-> <<>>, maps |-> <<>>, next |-> 1]
Roots == [pens |-> <<>>, prefixes |-> <<>>, aliases |-> <<>>, mappings |-> <<>>, aliasedNames |-> <<>>,
          parsed |-> {}, canOverwrite |-> FALSE, canReplace |-> FALSE, replaced |-> {}, rc |-> "OK"]
Empty == Roots @@ Heap

-----------------------------------------------------------------------------
(* Reading *)

\* file_read(): what it notes of a file that cannot be read remains.
FileRead(m, file) ==
  LET pushed == ScopePush(m, file)
      s == FindSecond(pushed.pens, file.pen)
  IN  Then(Then(Then(pushed, LAMBDA n : ElementsRead(n, s, file.elems)),
                LAMBDA n : ScopeSetBiflow(n, s)),
           LAMBDA n : ScopeCheck(ScopeSort([n EXCEPT !.parsed = {}], s), s))

\* dir_read(): NOTFOUND, which may also say that a mapping matches nothing, is
\* passed over; what follows in that file is not read.
DirRead(m, dir, order) ==
  LET passed(n) == IF n.rc = "NOTFOUND" THEN [n EXCEPT !.rc = "OK"] ELSE n
  IN  Then(ForEach(m, FileRead, order),
           LAMBDA n : Then(AliasesRead(MgrSort(n), dir.aliases),
                           LAMBDA k : passed(MappingsRead(k, dir.mappings))))

RemoveTemp(m) == [m EXCEPT !.replaced = {}, !.parsed = {}]
MgrCheck(m) ==
  LET sorted == MgrSort(RemoveTemp(m))
  IN  IF HasPair(sorted.pens) \/ HasPair(sorted.prefixes) THEN Fail(sorted) ELSE sorted

\* fds_iemgr_clear(): forgets the scopes, and frees the aliases and mappings.
Clear(m) ==
  Then(ForEach(m, LAMBDA n, pair : ScopeRemove(n, pair[2]), m.pens),
       LAMBDA n : AliasesDestroy([n EXCEPT !.pens = <<>>, !.prefixes = <<>>]))

\* fds_iemgr_read_dir(): the system gives the files of a directory in any order.
ReadDirOf(m, dir, system, user) ==
  LET cleared == IF m.pens = <<>> THEN m ELSE Clear(m)
  IN  Then(Then(Then(cleared, LAMBDA n : DirRead([n EXCEPT !.canOverwrite = TRUE, !.canReplace = FALSE], dir.system, system)),
                LAMBDA n : DirRead([n EXCEPT !.canReplace = TRUE], dir.user, user)),
           MgrCheck)

\* fds_iemgr_read_file()
ReadFileOf(m, file, overwrite) ==
  Then(FileRead([m EXCEPT !.canOverwrite = overwrite, !.canReplace = TRUE], file), MgrCheck)

-----------------------------------------------------------------------------
(* Changes *)

\* fds_iemgr_elem_add(): an unknown scope is created.  element_copy() takes over
\* the pointers of the element given, to its reverse element, its aliases and
\* its mappings.
ElemAddOf(m, pen, elem, overwrite) ==
  LET allowed == [m EXCEPT !.canOverwrite = overwrite]
      scope == [pen |-> pen, name |-> NoName, mode |-> "INDIVIDUAL", bid |-> 0, isRev |-> FALSE,
                ids |-> <<>>, names |-> <<>>]
      n == IF FindSecond(m.pens, pen) # Null THEN allowed
           ELSE MgrSort([NewScope(allowed, scope) EXCEPT !.pens = Append(@, <<pen, m.next>>)])
      s == FindSecond(n.pens, pen)
  IN  Then(ElementPush(n, s, elem, NoId), LAMBDA p : ScopeSort(p, s))

\* fds_iemgr_elem_add_reverse(): also when there is one, if it may be overwritten.
AddReverseOf(m, pen, id, newId, overwrite) ==
  LET s == BinaryFind(m.pens, pen)
      e == BinaryFind(m.scs[s].ids, id)
      added == ElementAddReverse(m, s, e, newId)
  IN  IF s = Null THEN [m EXCEPT !.rc = "NOTFOUND"]
      ELSE IF m.scs[s].mode # "INDIVIDUAL" THEN Fail(m)
      ELSE IF e = Null THEN [m EXCEPT !.rc = "NOTFOUND"]
      ELSE IF e \notin DOMAIN m.els THEN Crash(m)
      ELSE IF m.els[e].rev # Null /\ ~overwrite THEN Fail(m)
      ELSE IF added.rc = "OK" THEN ScopeSort(added, s) ELSE Throw(added)

\* scope_copy(): the forward elements, and in the modes that keep both in one
\* scope the reverse element of each, which is indexed later.
ScopeCopy(m, s) ==
  LET copyOf(n, e, t) == [n.els[e] EXCEPT !.scope = t]
      copyElem(n, e, t) ==
        LET f == n.next
            r == n.els[e].rev
            one == NewElem(n, copyOf(n, e, t))
            both == NewElem([one EXCEPT !.els[f].rev = one.next], copyOf(n, r, t))
            named(k) == [k EXCEPT !.scs[t].ids = Append(@, <<k.els[f].id, f>>),
                                  !.scs[t].names = Append(@, <<k.els[f].name, f>>)]
        IN  IF r # Null /\ n.scs[t].mode # "PEN"
            THEN IF r \in DOMAIN n.els THEN named(both) ELSE Crash(n)
            ELSE named(one)
      t == m.next
      started == NewScope(m, [m.scs[s] EXCEPT !.ids = <<>>, !.names = <<>>])
  IN  Then(ForEach(started, LAMBDA n, pair :
                              IF pair[2] \notin DOMAIN n.els THEN Crash(n)
                              ELSE IF n.els[pair[2]].isRev THEN n ELSE copyElem(n, pair[2], t),
                   m.scs[s].ids),
           LAMBDA n : ScopeSort(n, t))

\* Mutant: the reverse elements are taken over in every mode.
SaveReverseSame(m, s) ==
  LET partners == SelectSeq([i \in DOMAIN m.scs[s].ids |-> m.els[m.scs[s].ids[i][2]].rev], LAMBDA r : r # Null)
  IN  ScopeSort(ForEach(m, LAMBDA n, r : ElementSave(n, s, r), partners), s)

\* mgr_save_reverse() of one scope of the copy.
SaveReverse(m, s) ==
  LET created == ScopeCreateReverse(m, s)
      partners == SelectSeq([i \in DOMAIN m.scs[s].ids |-> m.els[m.scs[s].ids[i][2]].rev], LAMBDA r : r # Null)
  IN  IF m.scs[s].mode = "PEN" THEN ScopeSave(ScopeSort(created, m.next), m.next)
      ELSE ScopeSort(ForEach(m, LAMBDA n, r : ElementSave(n, s, r), partners), s)

\* mgr_copy(): a scope without a name cannot be copied.
CopyOf(m) ==
  LET scopes == SelectSeq(m.pens, LAMBDA pair : ~m.scs[pair[2]].isRev)
      copyScope(n, pair) == IF n.scs[pair[2]].name = NoName THEN Throw(n)
                            ELSE Then(ScopeCopy(n, pair[2]), LAMBDA k : ScopeSave(k, n.next))
      forward == ForEach(Roots @@ m, copyScope, scopes)
  IN  Then(Then(Then(Then(forward, LAMBDA n : ForEach(n, LAMBDA k, pair : SaveReverse(k, pair[2]), n.pens)),
                     LAMBDA n : AliasesCopy(n, m.aliases)),
                LAMBDA n : MappingsCopy(n, m.mappings)),
           MgrSort)

-----------------------------------------------------------------------------
(* Calls *)

EInit == mgr = Empty /\ old = NoOld /\ call = NoCall /\ calls = 0

\* The outcome of the last call is in mgr.rc.
Call(op, pen, overwrite, m) ==
  /\ calls < MaxCalls /\ mgr.rc # "CRASH"
  /\ mgr' = m
  /\ call' = [op |-> op, pen |-> pen, overwrite |-> overwrite]
  /\ calls' = calls + 1

Ready == [mgr EXCEPT !.rc = "OK"]

ReadDir ==
  \E dir \in Dirs :
    \E system \in SetToSeqs(dir.system.files), user \in SetToSeqs(dir.user.files) :
      Call("read_dir", 0, TRUE, ReadDirOf(Ready, dir, system, user)) /\ UNCHANGED old
ReadFile ==
  \E file \in Files, overwrite \in BOOLEAN :
    Call("read_file", file.pen, overwrite, ReadFileOf(Ready, file, overwrite)) /\ UNCHANGED old
Held(m) == UNION {Pointers(m.scs[pair[2]].ids) : pair \in ToSet(m.pens)}
ElemAdd ==
  \E added \in {<<a[1], ElementOf(a[2])>> : a \in Added} \cup {<<pen, mgr.els[e]>> : pen \in AddedTo, e \in Held(mgr)},
     overwrite \in BOOLEAN :
    Call("elem_add", added[1], overwrite, ElemAddOf(Ready, added[1], added[2], overwrite)) /\ UNCHANGED old
AddReverse ==
  \E reversed \in Reversed, overwrite \in BOOLEAN :
    Call("add_reverse", reversed[1], overwrite,
         AddReverseOf(Ready, reversed[1], reversed[2], reversed[3], overwrite)) /\ UNCHANGED old
ElemRemove ==
  \E pair \in ToSet(mgr.pens) : \E elem \in ToSet(mgr.scs[pair[2]].ids) :
    Call("elem_remove", pair[1], FALSE, ElementDestroy(Ready, pair[1], elem[1])) /\ UNCHANGED old

\* The user goes on with the copy (of a manager that is no copy itself) and
\* keeps the original for the templates that were defined by it.
Copy ==
  LET copy == CopyOf(Ready)
  IN  /\ old.pens = <<>>
      /\ IF copy.rc \in {"OK", "CRASH"}
         THEN Call("copy", 0, FALSE, copy) /\ old' = [pens |-> mgr.pens, aliases |-> mgr.aliases, mappings |-> mgr.mappings]
         ELSE Call("copy", 0, FALSE, [mgr EXCEPT !.rc = copy.rc]) /\ UNCHANGED old
ClearAll == Call("clear", 0, FALSE, Clear(Ready)) /\ UNCHANGED old

\* fds_iemgr_destroy() of the original.
DestroyOld ==
  LET heap == [mgr EXCEPT !.pens = old.pens, !.aliases = old.aliases, !.mappings = old.mappings, !.rc = "OK"]
      cleared == Clear(heap)
  IN  /\ old.pens # <<>>
      /\ Call("destroy", 0, FALSE, [mgr EXCEPT !.els = cleared.els, !.scs = cleared.scs, !.als = cleared.als,
                                               !.maps = cleared.maps, !.rc = cleared.rc])
      /\ old' = NoOld

ENext == ReadDir \/ ReadFile \/ ElemAdd \/ AddReverse \/ ElemRemove \/ Copy \/ ClearAll \/ DestroyOld
ESpec == EInit /\ [][ENext]_evars
-----------------------------------------------------------------------------
(* Properties *)

Done == mgr.rc = "OK"
ScopesOf(m) == Pointers(m.pens)
ElementsOf(m, s) == Pointers(m.scs[s].ids)
Forward(m, s) == {e \in ElementsOf(m, s) : ~m.els[e].isRev}

\* The scopes whose definitions the last call has read.
Loaded == IF call.op = "read_dir" THEN {s \in ScopesOf(mgr) : ~mgr.scs[s].isRev}
          ELSE IF call.op = "read_file" THEN {FindSecond(mgr.pens, call.pen)} ELSE {}

Agree(m) ==
  \A pair \in ToSet(m.pens) :
    LET scope == m.scs[pair[2]]
    IN  /\ pair[1] = scope.pen
        /\ Len(scope.ids) = Len(scope.names) /\ Len(scope.ids) = Cardinality(Pointers(scope.ids))
        /\ Pointers(scope.ids) = Pointers(scope.names) /\ Pointers(scope.ids) \subseteq DOMAIN m.els
        /\ \A by \in ToSet(scope.ids) : by[1] = m.els[by[2]].id /\ m.els[by[2]].scope = pair[2]
        /\ \A by \in ToSet(scope.names) : by[1] = m.els[by[2]].name
Distinct(m) ==
  \A s \in ScopesOf(m) : \A vec \in {m.scs[s].ids, m.scs[s].names} : \A i, j \in DOMAIN vec :
    vec[i][1] = vec[j][1] => i = j

\* No reverse element is one of another manager, as in a copy, or freed.
Closed(m) == \A e \in Held(m) : m.els[e].rev \in Held(m) \cup {Null}

\* No reverse element is that of another element, as in one that was added.
Paired(m) ==
  \A e \in Held(m) :
    LET r == m.els[e].rev IN ~m.els[e].isRev /\ r # Null => m.els[r].isRev /\ m.els[r].rev = e
Sound(m) == Agree(m) /\ Distinct(m) /\ Closed(m) /\ Paired(m)

\* The two vectors of a scope list the same elements, each once, in memory and
\* under its own key, and no call that succeeds or fails half way changes
\* that, unless elements of a scope already shared a name or an ID (a file is
\* refused that names two elements alike, but its elements stay), or had a
\* reverse element that is another manager's.
VectorsAgree ==
  [][Agree(mgr) /\ Distinct(mgr) /\ Closed(mgr) /\ mgr'.rc # "CRASH" => Agree(mgr')]_evars

\* After definitions of a scope were read, each of its elements is found by
\* its ID and by its name (iemgr.h:571, :587), and in the modes PEN and SPLIT it has
\* its reverse element, with the ID and the name that the mode says, which
\* points back: also when they extend or rewrite what was there.
LoadedBothWays ==
  Done =>
    \A s \in Loaded :
      LET scope == mgr.scs[s]
      IN  \A e \in Forward(mgr, s) :
            LET elem == mgr.els[e]
                r == mgr.els[elem.rev]
            IN  /\ FindId(mgr, scope.pen, elem.id) = e
                /\ scope.name # NoName => FindName(mgr, <<scope.name, elem.name>>) = e
                /\ scope.mode \in {"PEN", "SPLIT"} =>
                     /\ elem.rev \in DOMAIN mgr.els /\ r.rev = e /\ r.isRev
                     /\ r.name = ReverseName(elem.name) /\ r.type = elem.type
                     /\ r.id = (IF scope.mode = "PEN" THEN elem.id ELSE elem.id + SplitBit(mgr, s))
                     /\ mgr.scs[r.scope].pen = (IF scope.mode = "PEN" THEN scope.bid ELSE scope.pen)

\* An element with the ID, name and type of another one is in that scope.
Kept(m, s, elem) ==
  \E e \in Pointers(m.scs[s].ids) :
    /\ m.els[e].id = elem.id /\ m.els[e].name = elem.name /\ m.els[e].type = elem.type
    /\ m.els[e].isRev = elem.isRev
OnlyAdding == call'.op \in {"read_file", "elem_add"} /\ ~call'.overwrite /\ mgr'.rc # "CRASH"

\* "If overwrite is false, then elements can be only added" (iemgr.h:555): no
\* element is lost or changes, whether the call succeeds or fails.  It does not
\* hold: scope_overwrite() (iemgr_scope.cpp:210) frees the reverse elements of
\* the mode SPLIT before a file is refused.
AddsOnly == [][OnlyAdding => \A s \in ScopesOf(mgr) : \A e \in ElementsOf(mgr, s) : Kept(mgr', s, mgr.els[e])]_evars

\* It holds but for the reverse elements of the mode SPLIT after a failure:
\* without the permission to overwrite all others stay, and the user's
\* pointers to forward elements stay valid.
AddsButToSplit ==
  [][OnlyAdding =>
       \A s \in ScopesOf(mgr) : \A e \in ElementsOf(mgr, s) :
         LET elem == mgr.els[e]
         IN  /\ Kept(mgr', s, elem) \/ (mgr'.rc # "OK" /\ elem.isRev /\ mgr.scs[s].mode = "SPLIT")
             /\ ~elem.isRev => e \in DOMAIN mgr'.els /\ e \in Pointers(mgr'.scs[s].ids)]_evars

\* An element that was removed is in no vector and no element points to it;
\* a forward one takes its reverse element along.  (An element that got a
\* second reverse element, which the first one's permission to overwrite
\* allows, leaves the first one behind.)
RemovedIsGone ==
  [][call'.op = "elem_remove" /\ mgr'.rc = "OK" /\ Sound(mgr) =>
       \A e \in DOMAIN mgr.els \ DOMAIN mgr'.els :
         /\ \A s \in ScopesOf(mgr') : e \notin Pointers(mgr'.scs[s].ids) \cup Pointers(mgr'.scs[s].names)
         /\ ~mgr.els[e].isRev => mgr.els[e].rev \notin DOMAIN mgr'.els
         /\ \A f \in DOMAIN mgr'.els :
              mgr'.els[f].rev = e => mgr.els[f].isRev /\ mgr.els[e].rev # f]_evars

\* What the original finds by an ID, the copy finds too, as an element of its
\* own, and the reverse element of a forward one is the copy's own, found there
\* by the ID it had.  A reverse element that nothing points to, because another
\* one was added in its place, is not copied (iemgr_scope.cpp:69).
CopyFinds ==
  [][call'.op = "copy" /\ mgr'.rc = "OK" /\ Sound(mgr) =>
       \A s \in ScopesOf(mgr) : \A e \in ElementsOf(mgr, s) :
         LET elem == mgr.els[e]
             found(m, t, id) == FindId(m, mgr.scs[t].pen, id)
             f == found(mgr', s, elem.id)
             r == mgr.els[elem.rev]
         IN  found(mgr, s, elem.id) = e /\ (elem.isRev => r.rev = e) =>
               /\ f # Null /\ f \notin DOMAIN mgr.els
               /\ mgr'.els[f].name = elem.name /\ mgr'.els[f].type = elem.type /\ mgr'.els[f].isRev = elem.isRev
               /\ ~elem.isRev /\ elem.rev # Null => mgr'.els[f].rev = found(mgr', r.scope, r.id)]_evars

\* "Remove the original scope.  The copy should be still available"
\* (tests/unit_tests/iemgr/iemgr_copy.cpp:80): no element of it points to a
\* freed one when the original was destroyed.  It does not hold: the copy of a
\* reverse element keeps its pointer (element_copy(), iemgr_element.cpp:78).
CopyOutlives ==
  Done /\ call.op = "destroy" => \A e \in Held(mgr) : mgr.els[e].rev \in DOMAIN mgr.els \cup {Null}

\* "Element's reverse element is ignored" (iemgr.h:599): an element that was
\* added has none.  It does not hold: element_copy() keeps that of the argument.
ReverseIgnored ==
  [][call'.op = "elem_add" /\ mgr'.rc = "OK" =>
       \A e \in Held(mgr') \ Held(mgr) : mgr'.els[e].rev = Null]_evars

\* A value of a key is found by every name of an alias whose elements the
\* mapping matches, after a directory was read (iemgr.h:681).
MappingsFound ==
  Done /\ call.op = "read_dir" =>
    \A a \in ToSet(mgr.aliases) \cap DOMAIN mgr.als : \A e \in ToSet(mgr.als[a].sources) :
      \A p \in ToSet(mgr.els[e].mappings) : \A name \in ToSet(mgr.als[a].aliased), key \in mgr.maps[p].keys :
        MappingFind(mgr, <<Iana, name>>, key)
=============================================================================
