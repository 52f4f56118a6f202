------------------------------- MODULE Records -------------------------------
(***************************************************************************)
(* A template, a record that it describes, and their user: IE managers and *)
(* flow keys are set on the template, in any order and repeatedly, and the *)
(* record is read through an iterator of either direction, by next and     *)
(* find in any order.                                                      *)
(***************************************************************************)
EXTENDS Iterators

CONSTANTS Managers,     \* IE managers to define templates by
          Keys,         \* flow keys
          Raws,         \* templates to parse: [type, id, scope, ies]
          Contents,     \* contents of variable-length fields: bytes of prefix and content
          IterFlags,    \* flags to initialize iterators with
          NoIter,       \* no iterator
          NoMatch,      \* the last call found nothing, or did not look for anything
          MaxSteps      \* bound: calls

VARIABLES tmplt,      \* struct fds_template
          rec,        \* a record of the template
          iter,       \* struct fds_drec_iter
          key,        \* history: the flow key defined last
          found,      \* history: the field found last by the iterator's find
          steps       \* history: number of calls

rvars == <<tmplt, rec, iter, key, found, steps>>

RawBytes(raw) ==
  LET spec[i \in 0..Len(raw.ies)] == IF i = 0 THEN <<>> ELSE spec[i - 1] \o SpecifierBytes(raw.ies[i])
  IN  (IF raw.type = "options" THEN OptsHeader(raw.id, Len(raw.ies), raw.scope)
       ELSE TmpltHeader(raw.id, Len(raw.ies))) \o spec[Len(raw.ies)]

\* The bytes of a record whose variable-length fields have a given content;
\* those of fixed length hold their index.
RecordBytes(ies, content) ==
  LET part[i \in 0..Len(ies)] ==
        IF i = 0 THEN <<>>
        ELSE part[i - 1] \o (IF ies[i].len = VarLen THEN content ELSE [k \in 1..ies[i].len |-> i])
  IN  part[Len(ies)]

RInit ==
  \E raw \in Raws, content \in Contents :
    LET parsed == Parse(raw.type, RawBytes(raw), 0, Len(RawBytes(raw)))
        bytes == RecordBytes(raw.ies, content)
    IN  /\ parsed.rc = "OK"
        /\ tmplt = parsed.tmplt
        /\ rec = [mem |-> bytes, at |-> 0, size |-> Len(bytes)]
        /\ iter = NoIter /\ key = {} /\ found = NoMatch /\ steps = 0

Call == steps < MaxSteps /\ steps' = steps + 1
Record == [tmplt |-> tmplt, mem |-> rec.mem, at |-> rec.at, size |-> rec.size]

\* fds_template_ies_define().  It frees the fields an iterator may refer to.
Define(mgr, preserve) ==
  /\ Call
  /\ tmplt' = IesDefine(tmplt, mgr, preserve)
  /\ iter' = NoIter /\ found' = NoMatch
  /\ UNCHANGED <<rec, key>>

\* fds_template_flowkey_define()
SetKey(k) ==
  /\ Call
  /\ IF FlowkeyApplicable(tmplt, k)
     THEN tmplt' = FlowkeyDefine(tmplt, k) /\ key' = k
     ELSE UNCHANGED <<tmplt, key>>
  /\ iter' = NoIter /\ found' = NoMatch
  /\ UNCHANGED rec

\* fds_drec_iter_init(): both directions at once are not allowed.
StartIter(flags) ==
  /\ Call
  /\ iter' = IterInit(Record, flags)
  /\ found' = NoMatch
  /\ UNCHANGED <<tmplt, rec, key>>

Rewind ==
  /\ Call /\ iter # NoIter
  /\ iter' = IterRewind(iter) /\ found' = NoMatch
  /\ UNCHANGED <<tmplt, rec, key>>

NextField ==
  /\ Call /\ iter # NoIter
  /\ iter' = IterNext(Record, iter)[1]
  /\ found' = NoMatch
  /\ UNCHANGED <<tmplt, rec, key>>

FindField(en, id) ==
  /\ Call /\ iter # NoIter
  /\ LET result == IterFind(Record, iter, en, id)
     IN  iter' = result[1] /\ found' = (IF result[2].rc = "EOC" THEN NoMatch ELSE result[2])
  /\ UNCHANGED <<tmplt, rec, key>>

RNext ==
  \/ \E mgr \in Managers \cup {NoMgr}, preserve \in BOOLEAN : Define(mgr, preserve)
  \/ \E k \in Keys : SetKey(k)
  \/ \E flags \in IterFlags : StartIter(flags)
  \/ Rewind
  \/ NextField
  \/ \E j \in DOMAIN tmplt.fields : FindField(tmplt.fields[j].en, tmplt.fields[j].id)

RSpec == RInit /\ [][RNext]_rvars

-----------------------------------------------------------------------------
(* Properties *)

Ies == tmplt.fields

\* fds_template_ies_define() without preserve gives what it gives on a
\* template that was just parsed: nothing of earlier definitions remains,
\* whatever managers they came from and whatever flow keys came between.
Plain(t) ==
  LET bare(fields) == [i \in DOMAIN fields |->
                         [fields[i] EXCEPT !.flags = @ \cap {"SCOPE", "MULTI", "LAST"}, !.def = NoElem]]
  IN  [t EXCEPT !.fields = bare(@), !.rev = <<>>, !.flags = @ \cap {"MULTI", "DYNAMIC"}]
DefineForgets ==
  \A mgr \in Managers \cup {NoMgr} :
    IesDefine(tmplt, mgr, FALSE) = FlowkeyDefine(IesDefine(Plain(tmplt), mgr, FALSE), key)

\* The view from the other direction (template.h:128), for managers that know
\* both elements of a pair: each field that is not common to both directions
\* is shown as its counterpart, and the direction flag is the other one.
ViewsMirror ==
  \A i \in DOMAIN tmplt.rev :
    LET f == tmplt.fields[i]
        r == tmplt.rev[i]
    IN  /\ r.len = f.len /\ r.off = f.off
        /\ f.def # NoElem /\ "BKEY" \notin f.flags =>
             /\ r.def = f.def.partner /\ SameIe(r, f.def.partner)
             /\ "REVERSE" \in r.flags <=> "REVERSE" \notin f.flags
        /\ "BKEY" \in f.flags => "BKEY" \in r.flags /\ "REVERSE" \notin f.flags

\* The iterator is at the offset of its next field, whatever calls of next,
\* find and rewind brought it there, and never behind the record; and to look
\* for further occurrences of an element after the one marked as the last is of
\* no use, while before it is not (template.h:84).
IteratorInStep ==
  iter # NoIter =>
    /\ iter.off = Offsets(Record, tmplt.fields, 1, 0)[iter.idx]
    /\ iter.off <= rec.size
    /\ found # NoMatch =>
         ("LAST" \in found.info.flags <=> IterFind(Record, iter, found.info.en, found.info.id)[2].rc = "EOC")
=============================================================================
