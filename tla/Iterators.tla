----------------------------- MODULE Iterators -----------------------------
(***************************************************************************)
(* The iterators over the Sets of an IPFIX Message, the records of a Data  *)
(* Set, and the definitions or withdrawals of an (Options) Template Set    *)
(* (src/parsers/ipfix_parser.c), over structured data in a field, a        *)
(* basicList, a subTemplateList and a subTemplateMultiList (list_parser.c) *)
(* and over the fields of a Data Record (src/drec/iterator.c).  One of     *)
(* src/parsers is a record; a call returns <<iterator after the call,      *)
(* result>> with the return code in result.rc.  Those of lists keep their  *)
(* error code.  A Data Record is [tmplt, mem, at, size]: size bytes of mem *)
(* from place at on.                                                       *)
(***************************************************************************)
EXTENDS Template

CONSTANT NoTmplt      \* no template (NULL)

Eoc == [rc |-> "EOC"]
FormatError == [rc |-> "FORMAT"]

-----------------------------------------------------------------------------
(* Sets of a message *)

\* fds_sets_iter_init()
SetsInit(mem, at) == [next |-> at + MsgHdrLen, end |-> at + U16(mem, at + 2)]

\* A Set as long as it says is in the message.
\* Mutant: a Set may be shorter than its header.
SetFitsAnyLength(it, len) == it.next + SetHdrLen <= it.end /\ it.next + len <= it.end
SetFits(it, len) == it.next + SetHdrLen <= it.end /\ len >= SetHdrLen /\ it.next + len <= it.end

\* fds_sets_iter_next()
SetsNext(mem, it) ==
  LET len == U16(mem, it.next + 2)
  IN  IF it.next = it.end THEN <<it, Eoc>>
      ELSE IF ~SetFits(it, len) THEN <<it, FormatError>>
      ELSE <<[it EXCEPT !.next = @ + len], [rc |-> "OK", set |-> it.next]>>

-----------------------------------------------------------------------------
(* Data records *)

\* Where a record that starts at a place ends, or a place behind the end if it
\* does not fit, the prefix of a variable-length field included.
RecordEnd(mem, tmplt, at, end) ==
  LET fields == tmplt.fields
      prefixFits(p) == p + 1 <= end /\ (U8(mem, p) = 255 => p + 3 <= end)
      place[i \in 0..Len(fields)] ==
        IF i = 0 THEN at
        ELSE LET p == place[i - 1]
             IN  IF fields[i].len # VarLen THEN p + fields[i].len
                 ELSE IF ~prefixFits(p) THEN end + 1
                 ELSE p + VarPrefix(mem, p) + VarSize(mem, p)
  IN  place[Len(fields)]

\* fds_dset_iter_init(): a set must have room for one record.
DsetInit(mem, set, tmplt) ==
  LET end == set + U16(mem, set + 2)
  IN  [tmplt |-> tmplt, next |-> set + SetHdrLen, end |-> end,
       failed |-> set + SetHdrLen + tmplt.dataLen > end]

\* fds_dset_iter_next(): what is shorter than any record is padding.
DsetNext(mem, it) ==
  LET recEnd == IF "DYNAMIC" \in it.tmplt.flags THEN RecordEnd(mem, it.tmplt, it.next, it.end)
                ELSE it.next + it.tmplt.dataLen
  IN  IF it.failed THEN <<it, FormatError>>
      ELSE IF it.next = it.end \/ it.next + it.tmplt.dataLen > it.end THEN <<it, Eoc>>
      ELSE IF recEnd > it.end THEN <<it, FormatError>>
      ELSE <<[it EXCEPT !.next = recEnd], [rc |-> "OK", rec |-> it.next, size |-> recEnd - it.next]>>

-----------------------------------------------------------------------------
(* Template definitions and withdrawals *)

MinDefinition(type) == IF type = TmpltSet THEN 8 ELSE 10

\* fds_tset_iter_init(): the first record decides whether the set withdraws.
TsetInit(mem, set) ==
  LET id == U16(mem, set)
      first == set + SetHdrLen
      end == set + U16(mem, set + 2)
      short == first + WdrlLen > end
      withdraws == ~short /\ U16(mem, first + 2) = 0
  IN  [type |-> IF withdraws THEN 0 ELSE id, begin |-> set, next |-> first, end |-> end,
       failed |-> short \/ (~withdraws /\ first + MinDefinition(id) > end)]

\* fds_tset_iter_withdrawals(): one ID, or all of a type if that is the whole set.
Withdrawal(mem, it) ==
  LET id == U16(mem, it.next)
      all == id \in {TmpltSet, OptsSet}
  IN  IF it.next + WdrlLen > it.end THEN <<it, Eoc>>
      ELSE IF \/ U16(mem, it.next + 2) # 0
              \/ all /\ \/ it.begin + SetHdrLen # it.next
                        \/ U16(mem, it.begin + 2) # SetHdrLen + WdrlLen
                        \/ U16(mem, it.begin) # id
              \/ ~all /\ id < MinDset
      THEN <<it, FormatError>>
      ELSE <<[it EXCEPT !.next = @ + WdrlLen],
             [rc |-> "OK", what |-> "withdrawal", rec |-> it.next, size |-> WdrlLen]>>

\* fds_tset_iter_definitions()
Definition(mem, it) ==
  LET options == it.type = OptsSet
      id == U16(mem, it.next)
      count == U16(mem, it.next + 2)
      scope == IF options THEN U16(mem, it.next + 4) ELSE 0
      header == IF options THEN WdrlLen + 2 ELSE WdrlLen
      specs == ParseFields(mem, it.next + header, it.end, count)
      dataLen == LengthBefore(specs.ies)[count + 1]
  IN  IF it.next + MinDefinition(it.type) > it.end THEN <<it, Eoc>>
      ELSE IF \/ options /\ (scope = 0 \/ scope > count)
              \/ id < MinDset
              \/ count = 0
      THEN <<it, FormatError>>
      ELSE IF specs.rc # "OK" THEN <<it, FormatError>>
      ELSE IF dataLen = 0 \/ dataLen > MaxRecord THEN <<it, FormatError>>
      ELSE <<[it EXCEPT !.next = @ + header + specs.len],
             [rc |-> "OK", what |-> "definition", rec |-> it.next, size |-> header + specs.len,
              fields |-> count, scope |-> scope]>>

\* fds_tset_iter_next()
TsetNext(mem, it) ==
  IF it.failed THEN <<it, FormatError>>
  ELSE IF it.next = it.end THEN <<it, Eoc>>
  ELSE IF it.type # 0 THEN Definition(mem, it) ELSE Withdrawal(mem, it)

-----------------------------------------------------------------------------
(* Structured data: a list is in size bytes at a place *)

BlistShortHdr == 5
BlistLongHdr == 9
StlistHdr == 3
StmlistHdr == 1

Failed(it, code) == <<[it EXCEPT !.err = code], [rc |-> code]>>
\* An iterator that was not initialized for an error.
Broken(code) == [err |-> code]

-----------------------------------------------------------------------------
(* basicList *)

\* fds_blist_iter_init()
BlistInit(mem, at, size) ==
  LET id == U16(mem, at + 1)
      len == U16(mem, at + 3)
      long == id >= EnBit
      first == at + (IF long THEN BlistLongHdr ELSE BlistShortHdr)
  IN  IF \/ size < BlistShortHdr
         \/ long /\ size < BlistLongHdr
         \/ len = 0 /\ first # at + size
      THEN Broken("FORMAT")
      ELSE [err |-> "OK", next |-> first, end |-> at + size,
            id |-> id % EnBit, en |-> IF long THEN U32(mem, at + 5) ELSE 0, len |-> len]

\* fds_blist_iter_next(): the end is remembered as an error is.
BlistNext(mem, it) ==
  LET var == it.len = VarLen
      prefix == IF var THEN VarPrefix(mem, it.next) ELSE 0
      size == IF var THEN VarSize(mem, it.next) ELSE it.len
  IN  IF it.err # "OK" THEN <<it, [rc |-> it.err]>>
      ELSE IF it.next >= it.end THEN Failed(it, "EOC")
      ELSE IF it.next + prefix > it.end THEN Failed(it, "FORMAT")
      ELSE IF it.next + prefix + size > it.end THEN Failed(it, "FORMAT")
      ELSE <<[it EXCEPT !.next = @ + prefix + size],
             [rc |-> "OK", rec |-> it.next + prefix, size |-> size]>>

-----------------------------------------------------------------------------
(* Lists of records *)

\* Mutant: records of variable length are taken for the shortest ones.
StlRecSizeFixed(mem, tmplt, at, end) == IF at + tmplt.dataLen > end THEN 0 ELSE tmplt.dataLen

\* stl_rec_size(): the size of a record, 0 if it does not fit.
StlRecSize(mem, tmplt, at, end) ==
  LET recEnd == RecordEnd(mem, tmplt, at, end)
  IN  IF at + tmplt.dataLen > end THEN 0
      ELSE IF "DYNAMIC" \notin tmplt.flags THEN tmplt.dataLen
      ELSE IF recEnd > end THEN 0 ELSE recEnd - at

\* The template of an ID in a snapshot, a function from IDs.
SnapTmplt(snap, id) == IF id \in DOMAIN snap THEN snap[id] ELSE NoTmplt

\* fds_stlist_iter_init()
StlistInit(mem, at, size, snap, report) ==
  LET id == U16(mem, at + 1)
  IN  IF size < StlistHdr THEN Broken("FORMAT")
      ELSE IF id < MinDset THEN Broken("FORMAT")
      ELSE IF report /\ SnapTmplt(snap, id) = NoTmplt THEN Broken("NOTFOUND")
      ELSE [err |-> "OK", tmplt |-> SnapTmplt(snap, id), next |-> at + StlistHdr, end |-> at + size]

\* fds_stlist_iter_next()
StlistNext(mem, it) ==
  LET size == StlRecSize(mem, it.tmplt, it.next, it.end)
  IN  IF it.err # "OK" THEN <<it, [rc |-> it.err]>>
      ELSE IF it.tmplt = NoTmplt \/ it.next >= it.end THEN <<it, Eoc>>
      ELSE IF size = 0 THEN Failed(it, "FORMAT")
      ELSE <<[it EXCEPT !.next = @ + size], [rc |-> "OK", rec |-> it.next, size |-> size]>>

\* fds_stmlist_iter_init(): block is where the next block starts, next the
\* next record of the current one.
StmlistInit(mem, at, size, snap, report) ==
  IF size < StmlistHdr THEN Broken("FORMAT")
  ELSE [err |-> "OK", snap |-> snap, report |-> report, tmplt |-> NoTmplt,
        block |-> at + StmlistHdr, next |-> at + StmlistHdr, end |-> at + size]

BlockEnd(mem, p) == p + U16(mem, p + 2)
ValidBlock(mem, p, end) ==
  /\ p + SetHdrLen <= end
  /\ U16(mem, p) >= MinDset
  /\ U16(mem, p + 2) >= SetHdrLen
  /\ BlockEnd(mem, p) <= end

\* fds_stmlist_iter_next_block(): blocks of unknown templates are reported or
\* passed over.  skip[p] is the first place from p on where the search stops.
StmlistNextBlock(mem, it) ==
  LET known(p) == SnapTmplt(it.snap, U16(mem, p)) # NoTmplt
      stops(p) == p >= it.end \/ ~ValidBlock(mem, p, it.end) \/ known(p) \/ it.report
      skip[p \in it.block..it.end] == IF stops(p) THEN p ELSE skip[BlockEnd(mem, p)]
      stop == skip[it.block]
      passed == stop # it.block
      \* The block passed over last, if any, is the current one.
      last == CHOOSE p \in it.block..it.end : ~stops(p) /\ BlockEnd(mem, p) = stop
      here == IF passed THEN [it EXCEPT !.block = stop, !.next = last + SetHdrLen, !.tmplt = NoTmplt] ELSE it
      inside == [it EXCEPT !.block = BlockEnd(mem, stop), !.next = stop + SetHdrLen,
                           !.tmplt = SnapTmplt(it.snap, U16(mem, stop))]
  IN  IF it.err # "OK" THEN <<it, [rc |-> it.err]>>
      ELSE IF stop >= it.end THEN <<[here EXCEPT !.next = stop], Eoc>>
      ELSE IF ~ValidBlock(mem, stop, it.end) THEN Failed(here, "FORMAT")
      ELSE IF ~known(stop) THEN <<[inside EXCEPT !.next = inside.block], [rc |-> "NOTFOUND"]>>
      ELSE <<inside, [rc |-> "OK", tid |-> U16(mem, stop)]>>

\* fds_stmlist_iter_next_rec()
StmlistNextRec(mem, it) ==
  LET size == StlRecSize(mem, it.tmplt, it.next, it.block)
  IN  IF it.err # "OK" THEN <<it, [rc |-> it.err]>>
      ELSE IF it.next >= it.block THEN <<it, Eoc>>
      ELSE IF size = 0 THEN Failed(it, "FORMAT")
      ELSE <<[it EXCEPT !.next = @ + size], [rc |-> "OK", rec |-> it.next, size |-> size]>>

-----------------------------------------------------------------------------
(* Fields of a Data Record *)

PaddingIe == 210
PaddingPens == {0, 29305}

\* Offset in the record of field j and of what follows it, when that of field
\* idx is off.  (Data of a field lies behind the prefix that says its length.)
\* Mutant: every prefix is taken for a short one.
PrefixAtShort(rec, f, off) == IF f.len = VarLen THEN 1 ELSE 0
PrefixAt(rec, f, off) == IF f.len = VarLen THEN VarPrefix(rec.mem, rec.at + off) ELSE 0
SizeAt(rec, f, off) == IF f.len = VarLen THEN VarSize(rec.mem, rec.at + off) ELSE f.len
Offsets(rec, fields, idx, off) ==
  LET offset[j \in idx..(Len(fields) + 1)] ==
        IF j = idx THEN off
        ELSE LET o == offset[j - 1]
             IN  o + PrefixAt(rec, fields[j - 1], o) + SizeAt(rec, fields[j - 1], o)
  IN  offset

FieldFound(rec, fields, j, off) ==
  [rc |-> "OK", index |-> j - 1, data |-> off + PrefixAt(rec, fields[j], off),
   size |-> SizeAt(rec, fields[j], off), info |-> fields[j]]
EndOfRecord == [rc |-> "EOC"]

\* fds_drec_find()
DrecFind(rec, en, id) ==
  LET fields == rec.tmplt.fields
      hits == {j \in DOMAIN fields : fields[j].id = id /\ fields[j].en = en}
      off == Offsets(rec, fields, 1, 0)
  IN  IF hits = {} THEN EndOfRecord
      ELSE FieldFound(rec, fields, MinOf(hits), off[MinOf(hits)])

-----------------------------------------------------------------------------
(* The iterator: idx and off are the next field and its offset *)

\* fds_drec_iter_init(): the direction matters to a biflow template only.
IterInit(rec, flags) ==
  LET kept == IF "BIFLOW" \in rec.tmplt.flags THEN flags ELSE flags \ {"BIFLOW_FWD", "BIFLOW_REV"}
  IN  [flags |-> kept, idx |-> 1, off |-> 0,
       fields |-> IF "BIFLOW_REV" \in kept THEN rec.tmplt.rev ELSE rec.tmplt.fields]

\* fds_drec_iter_rewind()
IterRewind(it) == [it EXCEPT !.idx = 1, !.off = 0]

\* What fds_drec_iter_next() passes over.
Skipped(it, f) ==
  \/ "PADDING_SHOW" \notin it.flags /\ f.id = PaddingIe /\ f.en \in PaddingPens
  \/ "UNKNOWN_SKIP" \in it.flags /\ f.def = NoElem
  \/ "REVERSE_SKIP" \in it.flags /\ "REVERSE" \in f.flags

\* Moves to the first field of a set: the iterator and what it returns.
Seek(rec, it, wanted) ==
  LET off == Offsets(rec, it.fields, it.idx, it.off)
      hits == {j \in it.idx..Len(it.fields) : j \in wanted}
      j == MinOf(hits)
      past == Len(it.fields) + 1
  IN  IF hits = {} THEN <<[it EXCEPT !.idx = past, !.off = off[past]], EndOfRecord>>
      ELSE <<[it EXCEPT !.idx = j + 1, !.off = off[j + 1]], FieldFound(rec, it.fields, j, off[j])>>

\* fds_drec_iter_next()
IterNext(rec, it) == Seek(rec, it, {j \in DOMAIN it.fields : ~Skipped(it, it.fields[j])})

\* Mutant: the search moves on from field to field, but not in the record.
IterFindIdx(rec, it, en, id) ==
  LET found == Seek(rec, it, {j \in DOMAIN it.fields : it.fields[j].id = id /\ it.fields[j].en = en})
  IN  <<[found[1] EXCEPT !.off = it.off], found[2]>>

\* fds_drec_iter_find(): flags do not matter.
IterFind(rec, it, en, id) ==
  Seek(rec, it, {j \in DOMAIN it.fields : it.fields[j].id = id /\ it.fields[j].en = en})
=============================================================================
