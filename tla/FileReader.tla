----------------------------- MODULE FileReader -----------------------------
(***************************************************************************)
(* A fds_file_t handle opened for reading (File_reader.cpp,                *)
(* Block_data_reader.cpp and the parts of Block_content.cpp,               *)
(* Block_templates.cpp, Block_session.cpp and file.cpp behind it).         *)
(*                                                                         *)
(* A call is one step, except fds_file_open(), which looks at the file     *)
(* header first and at the blocks later: a writer may be at work between.  *)
(* An asynchronous read of the next Data Block is started by one call and  *)
(* used by a later one; what it brings may be the content of either time.  *)
(***************************************************************************)
EXTENDS StorageFile

CONSTANTS
  NoBlock, NoSid, NoOdid,   \* null pointers
  MaxFilter                 \* bound: parts of a filter

VARIABLES
  reader,   \* the File_reader behind the handle
  out       \* result of the last call: a record, an error or end of content

rvars == <<reader, out>>

Failure == [ok |-> FALSE]
Error(code) == [kind |-> "error", code |-> code]
EndOfContent == [kind |-> "eoc"]
Done == [kind |-> "ok"]

-----------------------------------------------------------------------------
(* Loading of blocks. *)

\* Block_data_reader::load_from_file() and data_loader(): the block and the
\* common header behind it, if the file goes on.  A block of which only the
\* beginning was written has fields that read as zeros.
LoadedData(f, info) ==
  LET b     == BlockAt(f, info.off)
      cells == (CHOOSE e \in Starts(f, info.off, BlockHdr) : TRUE).hi
      rest  == Eof(f) - (info.off + info.len)
  IN  IF \/ info.off + info.len > Eof(f) \/ (rest # 0 /\ rest < BlockHdr)
         \/ Starts(f, info.off, BlockHdr) = {}
      THEN Failure
      ELSE IF b.type # "data" \/ b.len # info.len THEN Failure
      ELSE [ok |-> TRUE, cells |-> cells, msgs |-> b.msgs,
            ctx  |-> IF cells < DataHdr THEN <<0, 0>> ELSE b.ctx,
            toff |-> IF cells < DataHdr THEN 0 ELSE b.toff]

\* Block_content::load_from_file(), with the outcome of a rebuild.
Contents(content, sessions) == [ok |-> TRUE, content |-> content, sess |-> sessions]
LoadedTable(f, off) ==
  IF HasBlock(f, off, "table") THEN Contents(BlockAt(f, off).content, <<>>) ELSE Failure

\* File_reader::ctable_process_sblock(), ctable_process_dblock(): what a block
\* adds to an outcome "rest" of the blocks behind it.
WithSession(f, off, rest) ==
  LET b == BlockAt(f, off)
  IN  IF ~rest.ok \/ (b.sid \in DOMAIN rest.sess /\ rest.sess[b.sid] # b.dsc) THEN Failure
      ELSE Contents([rest.content EXCEPT !.sessions = <<SessionInfo(off, b.sid)>> \o @],
                    [s \in DOMAIN rest.sess \cup {b.sid} |-> IF s = b.sid THEN b.dsc ELSE rest.sess[s]])
WithData(f, off, rest) ==
  LET b    == BlockAt(f, off)
      info == IF Starts(f, off, DataHdr) = {} THEN DataInfo(off, b.len, 0, <<0, 0>>)
              ELSE DataInfo(off, b.len, b.toff, b.ctx)
  IN  IF ~rest.ok THEN Failure
      ELSE Contents([rest.content EXCEPT !.blocks = <<info>> \o @], rest.sess)
WithBlock(f, off, rest) ==
  IF HasBlock(f, off, "session") THEN WithSession(f, off, rest)
  ELSE IF BlockAt(f, off).type = "data" THEN WithData(f, off, rest)
  ELSE rest

\* File_reader::ctable_rebuild(): the outcomes of walking through the blocks.
\* Zeros are a block of length zero, an error.  The remains of a block that
\* was overwritten in part may be taken for a block of any length.  (Of a
\* session block written in part nothing is kept: no data block refers to it.)
Rebuilt(f, eof) ==
  LET stop == Contents(NoContent, <<>>)
      walk[off \in HeaderLen..Max({HeaderLen, eof})] ==
        IF off + SessionLen > eof THEN {stop}
        ELSE IF Starts(f, off, BlockHdr) # {}
        THEN LET len == BlockAt(f, off).len
             IN  IF off + len > eof THEN {stop}
                 ELSE {WithBlock(f, off, rest) : rest \in walk[off + len]}
        ELSE IF Zeros(f, off, BlockHdr) THEN {Failure}
        ELSE {Failure, stop} \cup UNION {walk[n] : n \in (off + 1)..eof}
  IN  walk[HeaderLen]

-----------------------------------------------------------------------------
(* Data Blocks in order (File_reader::scheduler() and below). *)

\* m_sfilter
NoFilter == [on |-> FALSE, sids |-> {}, odids |-> {}, combi |-> {}]

\* Mutant: ODIDs selected in all sessions are forgotten.
MatchNoOdids(filter, ctx) == ~filter.on \/ ctx[1] \in filter.sids \/ ctx \in filter.combi

\* File_reader::sfilter_match()
sfilter_match(filter, ctx) ==
  ~filter.on \/ ctx[1] \in filter.sids \/ ctx[2] \in filter.odids \/ ctx \in filter.combi

\* File_reader::get_sblock(); a = [ok, rd] is the reader so far.
SessionsOf(rd, sid) == SelectSeq(rd.content.sessions, LAMBDA s : s.sid = sid)
get_sblock(a, f, sid) ==
  IF ~a.ok \/ sid \in DOMAIN a.rd.sess THEN a
  ELSE IF SessionsOf(a.rd, sid) = <<>> THEN [a EXCEPT !.ok = FALSE]
  ELSE LET off == Head(SessionsOf(a.rd, sid)).off
       IN  IF ~HasBlock(f, off, "session") \/ BlockAt(f, off).sid # sid THEN [a EXCEPT !.ok = FALSE]
           ELSE [a EXCEPT !.rd.sess = [s \in DOMAIN @ \cup {sid} |->
                                         IF s = sid THEN BlockAt(f, off).dsc ELSE @[s]]]

\* File_reader::get_tblock() and the check of its context
get_tblock(a, f, info) ==
  LET known == info.toff \in DOMAIN a.rd.tmplts
      tb    == IF known THEN a.rd.tmplts[info.toff]
               ELSE [ctx |-> BlockAt(f, info.toff).ctx, defs |-> BlockAt(f, info.toff).defs]
  IN  IF ~a.ok \/ (~known /\ ~HasBlock(f, info.toff, "tmplts")) THEN [a EXCEPT !.ok = FALSE]
      ELSE IF tb.ctx # info.ctx THEN [a EXCEPT !.ok = FALSE]
      ELSE [a EXCEPT !.rd.tmplts = [o \in DOMAIN @ \cup {info.toff} |->
                                      IF o = info.toff THEN tb ELSE @[o]]]

\* Lengths of the records of a block as its templates cut it, with those of
\* the headers before them: of a message, of a set, or none.
Lengths(msgs, defs) ==
  FlattenSeq([m \in 1..Len(msgs) |->
    LET recs == msgs[m].recs
    IN  [k \in 1..Len(recs) |->
           [hdrs |-> IF k = 1 THEN MsgHdr + SetHdr
                     ELSE IF recs[k].tid = recs[k - 1].tid THEN 0 ELSE SetHdr,
            body |-> IF defs[recs[k].tid] = NoDef THEN 0 ELSE RecLen[defs[recs[k].tid]]]]])

\* Where each record ends, from the header of the block on.
RecordEnds(lens) ==
  LET end[k \in 0..Len(lens)] == IF k = 0 THEN DataHdr ELSE end[k - 1] + lens[k].hdrs + lens[k].body
  IN  end

\* What the reader makes of the records of a block: session, ODID and what the
\* template says; an error where a template is missing.  Where the block was
\* not stored to its end, the rest reads as zeros: an error in place of a
\* header, but in a set that was begun they pass for records.
Garbled == [kind |-> "garbled"]
Queue(block, defs, dsc) ==
  LET recs == Decoded(block.msgs, defs)
      lens == Lengths(block.msgs, defs)
      end  == RecordEnds(lens)
      begun(k) == lens[k].hdrs = 0 \/ end[k - 1] + lens[k].hdrs <= block.cells
  IN  [k \in 1..Len(recs) |->
         CASE recs[k].def = NoDef -> Error("INTERNAL")
           [] recs[k].def # NoDef /\ end[k] <= block.cells ->
                [kind |-> "rec", key |-> <<dsc, block.ctx[2]>>, rec |-> recs[k]]
           [] recs[k].def # NoDef /\ end[k] > block.cells ->
                IF begun(k) THEN Garbled ELSE Error("INTERNAL")]

\* Mutant: the same block once more.
StaysAt(idx) == idx

NextIdx(idx) == idx + 1

\* File_reader::scheduler_next2current()
Next2Current(a, f, late) ==
  LET info == a.rd.content.blocks[a.rd.idx]
      b    == get_tblock(get_sblock(a, f, info.ctx[1]), f, info)
      data == IF late THEN LoadedData(f, info) ELSE a.rd.next.early
  IN  IF ~b.ok \/ ~data.ok THEN [b EXCEPT !.ok = FALSE]
      ELSE IF data.ctx # info.ctx \/ data.toff # info.toff THEN [b EXCEPT !.ok = FALSE]
      ELSE [b EXCEPT !.rd.next = NoBlock, !.rd.idx = NextIdx(@),
              !.rd.cur = Queue(data, b.rd.tmplts[info.toff].defs, b.rd.sess[info.ctx[1]])]

\* File_reader::scheduler_prepare_next().  Only an asynchronous read is
\* started at once.
PrepareNext(a, f) ==
  LET blocks == a.rd.content.blocks
      wanted == {i \in a.rd.idx..Len(blocks) : sfilter_match(a.rd.filter, blocks[i].ctx)}
      i      == Min(wanted)
  IN  IF ~a.ok THEN a
      ELSE IF wanted = {} THEN [a EXCEPT !.rd.idx = IF @ > Len(blocks) THEN @ ELSE Len(blocks) + 1]
      ELSE [a EXCEPT !.rd.idx = i,
                     !.rd.next = [early |-> IF a.rd.io = "async" THEN LoadedData(f, blocks[i])
                                            ELSE Failure]]

\* File_reader::scheduler()
Advanced(a, f) == IF a.ok /\ a.rd.cur = NoBlock /\ a.rd.next # NoBlock
                  THEN PrepareNext(Next2Current(a, f, TRUE), f) ELSE a
Scheduled(rd, f, late) ==
  LET a == [ok |-> TRUE, rd |-> [rd EXCEPT !.cur = NoBlock]]
      b == IF rd.next # NoBlock THEN Next2Current(a, f, late) ELSE a
  IN  Advanced(PrepareNext(b, f), f)

-----------------------------------------------------------------------------
(* Calls. *)

NoReader == [st |-> "closed"]
Fatal == [st |-> "fatal"]

RInit == reader = NoReader /\ out = Done

\* fds_file_open(): the header; the length of the file, which a rebuild of
\* the Content Table asks for, is that of this moment or of the next step.
ReaderOpen ==
  /\ reader.st = "closed"
  /\ IF file.hdr.magic
     THEN reader' = [st |-> "opening", table |-> file.hdr.table, eof |-> Eof(file)] /\ out' = Done
     ELSE reader' = Fatal /\ out' = Error("INTERNAL")

\* ... the Content Table, loaded or rebuilt, and the rest of the constructor.
ReaderOpened ==
  /\ reader.st = "opening"
  /\ \E io \in Ios, eof \in {reader.eof, Eof(file)} :
     \E c \in IF reader.table # 0 THEN {LoadedTable(file, reader.table)} ELSE Rebuilt(file, eof) :
       IF c.ok
       THEN /\ reader' = [st |-> "open", io |-> io, content |-> c.content, sess |-> c.sess,
                          tmplts |-> <<>>, filter |-> NoFilter,
                          cur |-> NoBlock, next |-> NoBlock, idx |-> 1]
            /\ out' = Done
       ELSE reader' = Fatal /\ out' = Error("INTERNAL")

\* Mutant: the block loaded in advance stays the next one.
RewoundButNext(rd) == [rd EXCEPT !.cur = NoBlock, !.idx = IF rd.next = NoBlock THEN 1 ELSE @]

\* File_reader::read_rewind()
Rewound(rd) == [rd EXCEPT !.cur = NoBlock, !.next = NoBlock, !.idx = 1]

\* fds_file_read_rewind()
Rewind == reader.st = "open" /\ reader' = Rewound(reader) /\ out' = Done

\* fds_file_set_iemgr(): the template blocks get new templates.
SetReaderIemgr == Rewind

Parts(filter) == Cardinality(filter.sids) + Cardinality(filter.odids) + Cardinality(filter.combi)

\* fds_file_read_sfilter(); it rewinds even if it fails.
SfilterConf(sid, odid) ==
  LET a == get_sblock([ok |-> TRUE, rd |-> Rewound(reader)], file, sid)
      unknown == sid \notin DOMAIN reader.sess /\ SessionsOf(reader, sid) = <<>>
  IN  /\ reader.st = "open"
      /\ \/ /\ sid = NoSid /\ odid = NoOdid
            /\ reader' = [Rewound(reader) EXCEPT !.filter = NoFilter] /\ out' = Done
         \/ /\ sid = NoSid /\ odid # NoOdid /\ Parts(reader.filter) < MaxFilter
            /\ reader' = [Rewound(reader) EXCEPT !.filter.odids = @ \cup {odid}, !.filter.on = TRUE]
            /\ out' = Done
         \/ /\ sid # NoSid /\ unknown
            /\ reader' = Rewound(reader) /\ out' = Error("NOTFOUND")
         \/ /\ sid # NoSid /\ ~unknown /\ ~a.ok
            /\ reader' = Fatal /\ out' = Error("INTERNAL")
         \/ /\ sid # NoSid /\ ~unknown /\ a.ok /\ Parts(reader.filter) < MaxFilter
            /\ reader' = [a.rd EXCEPT !.filter.on = TRUE,
                 !.filter.sids  = IF odid = NoOdid THEN @ \cup {sid} ELSE @,
                 !.filter.combi = IF odid = NoOdid THEN @ ELSE @ \cup {<<sid, odid>>}]
            /\ out' = Done

\* The next record of the current block (Block_data_reader::next_rec()).
Delivers(rd) ==
  /\ out' = Head(rd.cur)
  /\ reader' = IF Head(rd.cur).kind # "error" THEN [rd EXCEPT !.cur = Tail(@)] ELSE Fatal

\* fds_file_read_rec(), File_reader::read_rec()
ReadRec ==
  /\ reader.st = "open"
  /\ \/ reader.cur \notin {NoBlock, <<>>} /\ Delivers(reader)
     \/ /\ reader.cur \in {NoBlock, <<>>}
        /\ \E late \in IF reader.io = "async" THEN BOOLEAN ELSE {TRUE} :
             LET a == Scheduled(reader, file, late)
             IN  \/ ~a.ok /\ reader' = Fatal /\ out' = Error("INTERNAL")
                 \/ a.ok /\ a.rd.cur = NoBlock /\ reader' = a.rd /\ out' = EndOfContent
                 \/ a.ok /\ a.rd.cur # NoBlock /\ Delivers(a.rd)

\* Every call of a handle after an internal error (FATAL_TEST of file.cpp)
ReaderFatalCall == reader.st = "fatal" /\ out' = Error("INTERNAL") /\ UNCHANGED reader

\* fds_file_close()
ReaderClose == reader.st # "closed" /\ reader' = NoReader /\ out' = Done

ReaderNext ==
  \/ ReaderOpen \/ ReaderOpened \/ Rewind \/ SetReaderIemgr \/ ReadRec \/ ReaderFatalCall \/ ReaderClose
  \/ \E sid \in 1..SidMax \cup {NoSid}, odid \in ODIDs \cup {NoOdid} : SfilterConf(sid, odid)
=============================================================================
