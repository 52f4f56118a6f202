---------------------------- MODULE MessageReader ----------------------------
(***************************************************************************)
(* A collector that reads an IPFIX Message with the loops that             *)
(* ipfix_parsers.h documents: over the Sets, in them over template         *)
(* definitions and withdrawals or over Data Records, in a record over its  *)
(* fields, and in a field of structured data over the members of the list. *)
(* Templates it meets are parsed and used from then on.                    *)
(***************************************************************************)
EXTENDS Iterators

CONSTANTS Messages,     \* [bytes, known, items]: a message, the templates known
                        \* before, and what it was encoded from (Damaged: not known)
          Damaged,
          NoIter        \* no iterator

VARIABLES mem,      \* the message, and nothing behind it
          sent,     \* history: what the message was encoded from
          report,   \* FDS_STL_REPORT
          known,    \* the templates of the session, a function of their IDs
          sets,     \* struct fds_sets_iter
          inner,    \* struct fds_tset_iter or fds_dset_iter
          drec,     \* a record and struct fds_drec_iter
          list,     \* struct fds_blist_iter, fds_stlist_iter or fds_stmlist_iter
          phase,    \* the innermost loop that is running
          got       \* history: what was read, in order

mvars == <<mem, sent, report, known, sets, inner, drec, list, phase, got>>

\* What a template that was parsed keeps of its fields for the iterators.
IsTemplate(t) ==
  /\ t.fields \in Seq({t.fields[i] : i \in DOMAIN t.fields})
  /\ \A i \in DOMAIN t.fields : t.fields[i].len \in 0..VarLen
  /\ t.dataLen = LengthBefore(t.fields)[Len(t.fields) + 1]
  /\ "DYNAMIC" \in t.flags <=> \E i \in DOMAIN t.fields : t.fields[i].len = VarLen

\* The caller has seen to the header (ipfix_parsers.h:102): the message is as
\* long as it says.  Nothing is known of its other bytes.
ASSUME MessagesAssumption ==
  \A m \in Messages :
    /\ m.bytes \in Seq(0..255) /\ Len(m.bytes) >= MsgHdrLen
    /\ U16(m.bytes, 2) \in MsgHdrLen..Len(m.bytes)
    /\ \A id \in DOMAIN m.known : IsTemplate(m.known[id])

\* Information Elements of structured data (RFC 6313).
ListLoop == [id \in {291, 292, 293} |->
               CASE id = 291 -> "members" [] id = 292 -> "list_records" [] OTHER -> "blocks"]

MInit ==
  \E m \in Messages :
    /\ mem = m.bytes /\ known = m.known /\ sent = m.items
    /\ report \in BOOLEAN
    /\ sets = SetsInit(m.bytes, 0)
    /\ inner = NoIter /\ drec = NoIter /\ list = NoIter
    /\ phase = "sets" /\ got = <<>>

\* A step of the outermost loop: Sets of other IDs and of templates that are
\* not known are passed over.
NextSet ==
  /\ phase = "sets"
  /\ LET r == SetsNext(mem, sets)
         id == U16(mem, r[2].set)
     IN  /\ sets' = r[1]
         /\ \/ /\ r[2].rc # "OK"
               /\ phase' = "done" /\ inner' = NoIter
            \/ /\ r[2].rc = "OK" /\ id \in {TmpltSet, OptsSet}
               /\ phase' = "templates" /\ inner' = TsetInit(mem, r[2].set)
            \/ /\ r[2].rc = "OK" /\ id \in DOMAIN known
               /\ phase' = "records" /\ inner' = DsetInit(mem, r[2].set, known[id])
            \/ /\ r[2].rc = "OK" /\ id \notin {TmpltSet, OptsSet} \cup DOMAIN known
               /\ phase' = "sets" /\ inner' = NoIter
  /\ UNCHANGED <<mem, sent, report, known, drec, list, got>>

SetType == IF U16(mem, inner.begin) = TmpltSet THEN "data" ELSE "options"
ParseDefinition(r) == Parse(SetType, mem, r.rec, r.size)
Without(ids) == [id \in DOMAIN known \ ids |-> known[id]]

\* A definition or a withdrawal.
NextTemplate ==
  /\ phase = "templates"
  /\ \E r \in {TsetNext(mem, inner)} :
       LET parsed == ParseDefinition(r[2])
           id == U16(mem, r[2].rec)
           all == {i \in DOMAIN known : known[i].type = SetType}
       IN  /\ inner' = r[1]
           /\ \/ /\ r[2].rc # "OK"
                 /\ phase' = "sets" /\ UNCHANGED <<known, got>>
              \/ /\ r[2].rc = "OK" /\ r[2].what = "withdrawal"
                 /\ known' = Without(IF id < MinDset THEN all ELSE {id})
                 /\ got' = Append(got, <<"withdrawal", id>>) /\ UNCHANGED phase
              \/ /\ r[2].rc = "OK" /\ r[2].what = "definition" /\ parsed.rc = "OK"
                 /\ known' = [i \in DOMAIN known \cup {id} |-> IF i = id THEN parsed.tmplt ELSE known[i]]
                 /\ got' = Append(got, <<"definition", id>>) /\ UNCHANGED phase
  /\ UNCHANGED <<mem, sent, report, sets, drec, list>>

NextRecord ==
  /\ phase = "records"
  /\ LET r == DsetNext(mem, inner)
         rec == [tmplt |-> inner.tmplt, mem |-> mem, at |-> r[2].rec, size |-> r[2].size]
     IN  /\ inner' = r[1]
         /\ \/ /\ r[2].rc # "OK"
               /\ phase' = "sets" /\ drec' = NoIter /\ UNCHANGED got
            \/ /\ r[2].rc = "OK"
               /\ phase' = "fields" /\ drec' = [rec |-> rec, it |-> IterInit(rec, {})]
               /\ got' = Append(got, <<"record", inner.tmplt.id>>)
  /\ UNCHANGED <<mem, sent, report, known, sets, list>>

NextField ==
  /\ phase = "fields"
  /\ LET r == IterNext(drec.rec, drec.it)
         f == r[2]
         at == drec.rec.at + f.data
         structured == f.rc = "OK" /\ f.info.en = 0 /\ f.info.id \in DOMAIN ListLoop
     IN  /\ drec' = [drec EXCEPT !.it = r[1]]
         /\ \/ /\ f.rc # "OK" /\ phase' = "records" /\ UNCHANGED <<list, got>>
            \/ /\ f.rc = "OK" /\ got' = Append(got, <<"field", f.info.id, f.size>>)
               /\ IF structured
                  THEN /\ phase' = ListLoop[f.info.id]
                       /\ list' = CASE f.info.id = 291 -> BlistInit(mem, at, f.size)
                                    [] f.info.id = 292 -> StlistInit(mem, at, f.size, known, report)
                                    [] OTHER -> StmlistInit(mem, at, f.size, known, report)
                  ELSE UNCHANGED <<phase, list>>
  /\ UNCHANGED <<mem, sent, report, known, sets, inner>>

\* A member of a basicList, or a record of a subTemplateList.
NextMember ==
  /\ phase \in {"members", "list_records"}
  /\ LET r == IF phase = "members" THEN BlistNext(mem, list) ELSE StlistNext(mem, list)
     IN  /\ list' = r[1]
         /\ IF r[2].rc = "OK"
            THEN got' = Append(got, <<"member", r[2].size>>) /\ UNCHANGED phase
            ELSE phase' = "fields" /\ UNCHANGED got
  /\ UNCHANGED <<mem, sent, report, known, sets, inner, drec>>

\* A block of a subTemplateMultiList; one that is reported is passed over.
NextBlock ==
  /\ phase = "blocks"
  /\ LET r == StmlistNextBlock(mem, list)
     IN  /\ list' = r[1]
         /\ phase' = CASE r[2].rc = "OK" -> "block_records"
                       [] r[2].rc = "NOTFOUND" -> "blocks"
                       [] OTHER -> "fields"
         /\ got' = IF r[2].rc = "OK" THEN Append(got, <<"block", r[2].tid>>) ELSE got
  /\ UNCHANGED <<mem, sent, report, known, sets, inner, drec>>

NextOfBlock ==
  /\ phase = "block_records"
  /\ LET r == StmlistNextRec(mem, list)
     IN  /\ list' = r[1]
         /\ CASE r[2].rc = "OK" -> got' = Append(got, <<"member", r[2].size>>) /\ UNCHANGED phase
              [] r[2].rc = "EOC" -> phase' = "blocks" /\ UNCHANGED got
              [] OTHER -> phase' = "fields" /\ UNCHANGED got
  /\ UNCHANGED <<mem, sent, report, known, sets, inner, drec>>

MNext == NextSet \/ NextTemplate \/ NextRecord \/ NextField \/ NextMember \/ NextBlock \/ NextOfBlock

\* The caller of the loops goes on until they end: nothing else runs them.
MSpec == MInit /\ [][MNext]_mvars /\ WF_mvars(MNext)

-----------------------------------------------------------------------------
(* Properties *)

\* No loop that the API documents goes on for ever, whatever the bytes are: a
\* Set, a record, a member or a block of no length would not let it advance
\* (list_parser.c:124 says so of basicLists).
LoopsEnd == <>(phase = "done")

\* What an iterator over templates returns can be parsed to a template of that
\* length and with room for at least one byte of data, as ipfix_parsers.h:259
\* promises: the iterator and fds_template_parse() check on their own.
DefinitionsParse ==
  phase = "templates" =>
    LET r == TsetNext(mem, inner)[2]
    IN  r.rc = "OK" /\ r.what = "definition" =>
          LET parsed == ParseDefinition(r)
          IN  /\ parsed.rc = "OK" /\ parsed.len = r.size /\ parsed.tmplt.dataLen >= 1
              /\ Len(parsed.tmplt.fields) = r.fields /\ parsed.tmplt.scope = r.scope

\* The iterator over a Data Set and the one over the fields of its records
\* find their lengths apart from each other: the last field ends where the
\* record ends, in a record that no field has left before.
FieldsFillRecord ==
  phase \in {"fields", "members", "list_records", "blocks", "block_records"} =>
    /\ drec.it.off <= drec.rec.size
    /\ drec.it.idx > Len(drec.it.fields) => drec.it.off = drec.rec.size

\* A message that is not damaged is read as it was encoded, padding and what
\* belongs to unknown templates left out.
ReadsWhatWasSent == phase = "done" /\ sent # Damaged => got = sent
=============================================================================
