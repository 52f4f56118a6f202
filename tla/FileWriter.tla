----------------------------- MODULE FileWriter -----------------------------
(***************************************************************************)
(* fds_file_t handles opened for writing or appending (File_writer.cpp,    *)
(* Block_data_writer.cpp, Io_async.cpp, Io_sync.cpp and the parts of       *)
(* file.cpp around them), and the file they write to.                      *)
(*                                                                         *)
(* Every handle belongs to a process of its own.  A call is one step; a    *)
(* call that waits for an asynchronous write is enabled once the write has *)
(* completed, and fds_file_close() is two steps, since it puts the Content *)
(* Table in place before it waits for the last data blocks.                *)
(***************************************************************************)
EXTENDS StorageFile

CONSTANTS
  Handles,      \* file handles
  Dscs,         \* descriptions of Transport Sessions (fds_file_session)
  ETimes,       \* Export Times
  Modes,        \* subset of {"write", "append"}
  MsgMax,       \* m_size_max: length limit of an IPFIX Message
  Capacity,     \* FDS_FILE_DBLOCK_SIZE
  RecMax,       \* longest record that fits in an IPFIX Message
  NoHandle, NoCtx, NoTmplt,   \* null pointers
  Malformed,    \* a Template record that fds_template_parse() refuses
  Torn,         \* lengths a failing write may leave in the file
  MaxRecs,      \* bound: records in the file
  MaxOpens,     \* bound: calls of fds_file_open()
  MaxFaults     \* bound: failing writes

ASSUME WriterAssumption ==
  /\ RecLen \in [Defs -> Nat \ {0}]
  /\ Modes \subseteq {"write", "append"} /\ Torn \subseteq Nat /\ 0 \in Torn
  /\ {MsgHdr, SetHdr, MsgMax, Capacity, RecMax} \subseteq Nat \ {0}
  /\ DataHdr + MsgHdr + SetHdr < Capacity
  /\ \A def \in Defs : DataHdr + MsgHdr + SetHdr + RecLen[def] < Capacity
  /\ NoHandle \notin Handles
  /\ IsFiniteSet(Dscs)     \* structures of a fixed size

VARIABLES
  lock,     \* the handle whose process holds the lock of the file
  writers,  \* Handles -> the File_writer behind the handle
  log,      \* history: the records accepted, for each session and ODID
  lost,     \* history: a write failed or a writer died since the file was created
  used,     \* [opens, faults]: what the bounds count
  ret       \* return code of the last call of fds_file_t

fvars == <<file, lock, writers, log, lost, used, ret>>

Keys == Dscs \X ODIDs

-----------------------------------------------------------------------------
(* Data Blocks under construction (Block_data_writer). *)

EmptyBuffer == [msgs |-> <<>>, len |-> DataHdr, msg |-> DataHdr, toff |-> 0]
NoRequest == [st |-> "none"]
NewContext ==
  [toff |-> 0, tmplts |-> NoTemplates, last |-> NoTmplt, etime |-> 0,
   buf |-> <<EmptyBuffer, EmptyBuffer>>, main |-> 1, req |-> NoRequest]

Main(i) == i.buf[i.main]
Count(i) == Len(Main(i).msgs)

\* Mutant: no room is kept for the headers of a new message.
RemainsBare(b) == IF Capacity > b.len THEN Capacity - b.len ELSE 0

\* Block_data_writer::remains()
Remains(b) == IF Capacity > b.len + MsgHdr + SetHdr THEN Capacity - (b.len + MsgHdr + SetHdr) ELSE 0

LastMsg(b) == b.msgs[Len(b.msgs)]
LastRec(b) == LastMsg(b).recs[Len(LastMsg(b).recs)]

\* Mutant: a change of the Export Time does not close the message.
NewMessageOnSize(b, tid, etime, len) ==
  \/ b.msgs = <<>>
  \/ b.len - b.msg + len + (IF LastRec(b).tid = tid THEN 0 ELSE SetHdr) > MsgMax

\* Must Block_data_writer::add() start a new IPFIX Message?
NewMessage(b, tid, etime, len) ==
  \/ b.msgs = <<>>
  \/ b.len - b.msg + len + (IF LastRec(b).tid = tid THEN 0 ELSE SetHdr) > MsgMax
  \/ LastMsg(b).etime # etime

\* Block_data_writer::add()
AddRecord(b, rec, etime, len) ==
  IF NewMessage(b, rec.tid, etime, len)
  THEN [b EXCEPT !.msgs = Append(@, [etime |-> etime, recs |-> <<rec>>]), !.msg = b.len,
                 !.len = @ + MsgHdr + SetHdr + len]
  ELSE [b EXCEPT !.msgs[Len(b.msgs)].recs = Append(@, rec),
                 !.len = @ + len + IF LastRec(b).tid = rec.tid THEN 0 ELSE SetHdr]

-----------------------------------------------------------------------------
(* Writing of blocks.  "fault" says which write of a call fails, if any,   *)
(* and how many cells of it are in the file nevertheless.                  *)

NoFault == [at |-> <<>>, n |-> 0]
FaultOf(ctx, what) == <<ctx, what>>
Partial(f, off, blk, fault) == Written(f, off, blk, IF fault.n < blk.len THEN fault.n ELSE 0)

\* Mutant: the buffers are not swapped.
BufferToFill(i) == i.main

\* Block_data_writer::store(): the buffer an asynchronous write was started
\* on is left to it, new records go to the other one.
OtherBuffer(i) == 3 - i.main

\* ... with b in the buffer that was filled, to be written at "off".
Started(i, b, off) ==
  [i EXCEPT !.buf = [@ EXCEPT ![i.main] = b, ![OtherBuffer(i)] = EmptyBuffer],
            !.main = OtherBuffer(i),
            !.req = [st |-> "started", off |-> off, buf |-> i.main]]

\* File_writer::flush(): the Template Block, unless it is in the file.
FlushTemplates(a, ctx, fault) ==
  LET i   == a.w.ctxs[ctx]
      blk == TemplateBlock(ctx, i.tmplts)
  IN  IF i.toff # 0 THEN a
      ELSE IF fault.at = FaultOf(ctx, "tmplts")
      THEN [a EXCEPT !.file = Partial(@, a.w.off, blk, fault), !.ok = FALSE]
      ELSE [a EXCEPT !.file = Written(@, a.w.off, blk, blk.len),
                     !.w.ctxs[ctx].toff = a.w.off, !.w.off = @ + blk.len]

\* ... and the Data Block: Block_data_writer::write_to_file() and store(),
\* then Block_content::add_data_block().
FlushData(a, ctx, fault) ==
  LET i   == a.w.ctxs[ctx]
      b   == [Main(i) EXCEPT !.toff = i.toff]
      blk == DataBlock(ctx, b.toff, b.msgs, b.len)
      w1  == [a.w EXCEPT !.table.blocks = Append(@, DataInfo(a.w.off, b.len, i.toff, ctx)),
                         !.off = @ + b.len]
  IN  IF i.req.st = "failed" THEN [a EXCEPT !.ok = FALSE]
      ELSE IF fault.at = FaultOf(ctx, "data")
      THEN [a EXCEPT !.file = IF a.w.io = "sync" THEN Partial(@, a.w.off, blk, fault) ELSE @,
                     !.ok = FALSE]
      ELSE IF a.w.io = "sync"
      THEN [a EXCEPT !.file = Written(@, a.w.off, blk, blk.len),
                     !.w = [w1 EXCEPT !.ctxs[ctx].buf[i.main] = EmptyBuffer]]
      ELSE [a EXCEPT !.w = [w1 EXCEPT !.ctxs[ctx] = Started(i, b, a.w.off)]]

FlushBoth(a, ctx, fault) == IF a.ok THEN FlushData(a, ctx, fault) ELSE a

\* File_writer::flush(), on a = [file, w, ok]; ~a.ok is an exception thrown.
Flush(a, ctx, fault) ==
  IF ~a.ok \/ Count(a.w.ctxs[ctx]) = 0 THEN a
  ELSE FlushBoth(FlushTemplates(a, ctx, fault), ctx, fault)

\* Mutant: a write is started while the previous one is running.
NeverWaits(i) == FALSE

\* The call has to wait for the write of the previous block of the context.
Waits(i) == Count(i) # 0 /\ i.req.st = "started"

\* File_writer::flush_all(), in the order of both maps.
CtxOrder(w) ==
  LET le(c, d) == c[1] < d[1] \/ (c[1] = d[1] /\ c[2] <= d[2])
      rank(c) == Cardinality({d \in DOMAIN w.ctxs : le(d, c)})
  IN  [k \in 1..Cardinality(DOMAIN w.ctxs) |-> CHOOSE c \in DOMAIN w.ctxs : rank(c) = k]
FlushAll(a, fault) ==
  LET order == CtxOrder(a.w)
      upto[k \in 0..Len(order)] == IF k = 0 THEN a ELSE Flush(upto[k - 1], order[k], fault)
  IN  upto[Len(order)]
-----------------------------------------------------------------------------
(* Handles. *)

NoWriter == [st |-> "closed"]
Writer(io, content, off, recs, sessions) ==
  [st |-> "open", io |-> io, sessions |-> sessions, ctxs |-> <<>>, sel |-> NoCtx,
   table |-> content, off |-> off, recs |-> recs]
KeyOf(w, ctx) == <<w.sessions[ctx[1]], ctx[2]>>
Selected(h) == writers[h].ctxs[writers[h].sel]

Faults(S, what) ==
  {NoFault} \cup IF used.faults = MaxFaults THEN {}
                 ELSE {[at |-> FaultOf(ctx, x), n |-> n] : ctx \in S, x \in what, n \in Torn}
FaultCount(fault) == IF fault = NoFault THEN 0 ELSE 1
Counted(fault) == used' = [used EXCEPT !.faults = @ + FaultCount(fault)]
Opened(fault) == used' = [used EXCEPT !.opens = @ + 1, !.faults = @ + FaultCount(fault)]

FInit ==
  /\ file = EmptyFile /\ lock = NoHandle /\ writers = [h \in Handles |-> NoWriter]
  /\ log = [k \in Keys |-> <<>>] /\ lost = FALSE
  /\ used = [opens |-> 0, faults |-> 0] /\ ret = "OK"

\* A call that changes nothing.
Returns(h, code) == ret' = code /\ UNCHANGED <<file, lock, writers, log, lost, used>>

\* Every call of a handle without a file or after an internal error
\* (FATAL_TEST of file.cpp).
FatalCall(h) ==
  writers[h].st \in {"closed", "fatal"} /\ ret' = "INTERNAL" /\ UNCHANGED <<file, lock, writers, log, lost, used>>

\* fds_file_open() fails: no file is open in the handle, and closing its
\* descriptor released the lock if it was taken.
OpenFails(f, code) ==
  /\ file' = f /\ ret' = code
  /\ UNCHANGED <<lock, writers, log>>

\* File_writer of a new file.
OpenNew(h, io, f) ==
  \E fault \in Faults({NoCtx}, {"header"}) :
    /\ Opened(fault)
    /\ IF fault # NoFault THEN OpenFails(f, "INTERNAL") /\ lost' = TRUE
       ELSE /\ file' = HeaderStored(f, 0, 0)
            /\ lock' = h /\ ret' = "OK" /\ lost' = FALSE
            /\ writers' = [writers EXCEPT ![h] = Writer(io, NoContent, HeaderLen, 0, <<>>)]
            /\ log' = [k \in Keys |-> <<>>]

\* Mutant: known sessions are not loaded.
NoSessionsLoaded(f, content) == <<>>

\* Sessions of the file, as File_writer::append_prepare() loads them.
SessionsLoaded(f, content) ==
  [sid \in {s.sid : s \in Range(content.sessions)} |->
     BlockAt(f, (CHOOSE s \in Range(content.sessions) : s.sid = sid).off).dsc]

SessionsValid(f, content) ==
  \A s \in Range(content.sessions) :
     HasBlock(f, s.off, "session") /\ BlockAt(f, s.off).sid = s.sid

\* Mutant: statistics of the file are forgotten.
AppenderNoStats(io, f, content) ==
  Writer(io, content, f.hdr.table, 0, SessionsLoaded(f, content))

\* Mutant: new blocks go behind the header of the file.
AppendOver(io, f, content) ==
  Writer(io, content, HeaderLen, f.hdr.recs, SessionsLoaded(f, content))

Appender(io, f, content) ==
  Writer(io, content, f.hdr.table, f.hdr.recs, SessionsLoaded(f, content))

\* File_writer::append_prepare()
OpenAppend(h, io) ==
  LET content == BlockAt(file, file.hdr.table).content
      denied  == file.hdr.magic /\ file.hdr.table = 0
      valid   == /\ file.hdr.magic /\ file.hdr.table # 0
                 /\ HasBlock(file, file.hdr.table, "table") /\ SessionsValid(file, content)
  IN  \/ ~valid /\ OpenFails(file, IF denied THEN "DENIED" ELSE "INTERNAL")
         /\ Opened(NoFault) /\ UNCHANGED lost
      \/ valid /\ \E fault \in Faults({NoCtx}, {"header"}) :
           /\ Opened(fault)
           /\ IF fault # NoFault THEN OpenFails(file, "INTERNAL") /\ UNCHANGED lost
              ELSE /\ file' = HeaderStored(file, 0, file.hdr.recs)
                   /\ lock' = h /\ ret' = "OK" /\ UNCHANGED <<log, lost>>
                   /\ writers' = [writers EXCEPT ![h] = Appender(io, file, content)]

\* fds_file_open() for writing.  open(O_TRUNC) comes first, then the lock.
OpenWriter(h, mode, io) ==
  LET f == IF mode = "write" THEN EmptyFile ELSE file
  IN  /\ writers[h].st = "closed" /\ used.opens < MaxOpens
      /\ \/ /\ lock # NoHandle
            /\ OpenFails(f, "DENIED")
            /\ lost' = (lost \/ mode = "write") /\ Opened(NoFault)
         \/ lock = NoHandle /\ Eof(f) = 0 /\ OpenNew(h, io, f)
         \/ lock = NoHandle /\ Eof(f) # 0 /\ OpenAppend(h, io)
-----------------------------------------------------------------------------
(* Calls of a handle open for writing. *)

\* What a call leaves behind: a = [file, w, ok] and a return code.
Ends(h, a, code) ==
  /\ file' = a.file
  /\ writers' = [writers EXCEPT ![h] = [a.w EXCEPT !.st = IF code = "INTERNAL" THEN "fatal" ELSE @]]
  /\ lost' = (lost \/ code = "INTERNAL")
  /\ ret' = code /\ UNCHANGED lock
Start(h) == [file |-> file, w |-> writers[h], ok |-> TRUE]

\* fds_file_session_add(), File_writer::session_add()
SessionAdd(h, dsc) ==
  LET w    == writers[h]
      sid  == Cardinality(DOMAIN w.sessions) + 1
      blk  == SessionBlock(sid, dsc)
      done == [w EXCEPT !.sessions = [s \in DOMAIN @ \cup {sid} |-> IF s = sid THEN dsc ELSE @[s]],
                        !.table.sessions = Append(@, SessionInfo(w.off, sid)),
                        !.off = @ + blk.len]
  IN  \/ \E s \in DOMAIN w.sessions : w.sessions[s] = dsc /\ Returns(h, "OK")
      \/ /\ \A s \in DOMAIN w.sessions : w.sessions[s] # dsc
         /\ sid > SidMax /\ Returns(h, "DENIED")
      \/ /\ \A s \in DOMAIN w.sessions : w.sessions[s] # dsc
         /\ sid <= SidMax
         /\ \E fault \in Faults({NoCtx}, {"session"}) :
              /\ Counted(fault) /\ UNCHANGED log
              /\ IF fault = NoFault
                 THEN Ends(h, [file |-> Written(file, w.off, blk, blk.len), w |-> done], "OK")
                 ELSE Ends(h, [file |-> Partial(file, w.off, blk, fault), w |-> w], "INTERNAL")

\* fds_file_write_ctx(), File_writer::select_ctx()
SelectCtx(h, ctx, etime) ==
  LET w == writers[h]
  IN  \/ w.sel # ctx /\ ctx[1] \notin DOMAIN w.sessions /\ Returns(h, "NOTFOUND")
      \/ /\ ctx[1] \in DOMAIN w.sessions
         /\ writers' = [writers EXCEPT ![h] = [w EXCEPT
              !.sel = ctx,
              !.ctxs = [c \in DOMAIN w.ctxs \cup {ctx} |->
                          [(IF c \in DOMAIN w.ctxs THEN w.ctxs[c] ELSE NewContext) EXCEPT
                             !.etime = IF c = ctx THEN etime ELSE @]]]]
         /\ ret' = "OK" /\ UNCHANGED <<file, lock, log, lost, used>>

NotSelected(h) == writers[h].sel = NoCtx /\ Returns(h, "ARG")

\* The Template write_rec() uses: the last one or one looked up.
TemplateOf(i, tid) ==
  IF i.last # NoTmplt /\ i.last.tid = tid THEN i.last ELSE [tid |-> tid, def |-> i.tmplts[tid]]

Accepted == MapThenSumSet(LAMBDA k : Len(log[k]), Keys)

\* Block_data_writer::add() and stats_update() after a flush, if one was due.
\* The caller's data are laid out for "def".
Store(h, a, tid, def, tmplt) ==
  LET ctx == a.w.sel
      i   == a.w.ctxs[ctx]
      key == KeyOf(a.w, ctx)
      n   == Len(log[key]) + 1
  IN  IF ~a.ok THEN Ends(h, a, "INTERNAL") /\ UNCHANGED log
      ELSE IF RecLen[def] # RecLen[tmplt.def] \/ RecLen[def] > RecMax
      THEN Ends(h, [a EXCEPT !.w.ctxs[ctx].last = tmplt], "FORMAT") /\ UNCHANGED log
      ELSE /\ Accepted < MaxRecs
           /\ Ends(h, [a EXCEPT
                !.w.ctxs[ctx] = [i EXCEPT !.last = tmplt,
                   !.buf[i.main] = AddRecord(@, [tid |-> tid, n |-> n], i.etime, RecLen[def])],
                !.w.recs = @ + 1], "OK")
           /\ log' = [log EXCEPT ![key] = Append(@, [n |-> n, def |-> tmplt.def, etime |-> i.etime])]

FlushFaults(h) == Faults({writers[h].sel}, {"tmplts", "data"})

\* fds_file_write_rec(), File_writer::write_rec()
WriteRec(h, tid, def) ==
  LET i     == Selected(h)
      tmplt == TemplateOf(i, tid)
      full  == RecLen[def] > Remains(Main(i))
      flushed(fault) == IF full THEN Flush(Start(h), writers[h].sel, fault) ELSE Start(h)
  IN  \/ NotSelected(h)
      \/ writers[h].sel # NoCtx /\ tmplt.def = NoDef /\ Returns(h, "NOTFOUND")
      \/ /\ writers[h].sel # NoCtx /\ tmplt.def # NoDef
         /\ ~(full /\ Waits(i))
         /\ \E fault \in FlushFaults(h) :
              /\ fault # NoFault => ~flushed(fault).ok
              /\ Counted(fault)
              /\ Store(h, flushed(fault), tid, def, tmplt)

\* Mutant: records of the old definition stay in the buffer.
RedefineUnflushed(a, tid, def, fault) ==
  [a EXCEPT !.w.ctxs[a.w.sel] = [@ EXCEPT !.tmplts[tid] = def, !.toff = 0, !.last = NoTmplt]]

\* Block_templates::add() and what the writer does around it; NoDef removes
\* the definition.
Redefined(a, tid, def) ==
  IF ~a.ok THEN a
  ELSE [a EXCEPT !.w.ctxs[a.w.sel] = [@ EXCEPT !.tmplts[tid] = def, !.toff = 0, !.last = NoTmplt]]
Redefine(a, tid, def, fault) == Redefined(Flush(a, a.w.sel, fault), tid, def)

Redefining(h, tid, def) ==
  /\ ~Waits(Selected(h))
  /\ \E fault \in FlushFaults(h) :
       LET a == IF def = Malformed THEN Flush(Start(h), writers[h].sel, fault)
                ELSE Redefine(Start(h), tid, def, fault)
       IN  /\ fault # NoFault => ~a.ok
           /\ Counted(fault) /\ UNCHANGED log
           /\ Ends(h, a, IF ~a.ok THEN "INTERNAL" ELSE IF def = Malformed THEN "FORMAT" ELSE "OK")

\* fds_file_write_tmplt_add(), File_writer::tmplt_add()
TmpltAdd(h, tid, def) ==
  \/ NotSelected(h)
  \/ /\ writers[h].sel # NoCtx /\ Selected(h).tmplts[tid] = NoDef
     /\ def = Malformed /\ Returns(h, "FORMAT")
  \/ /\ writers[h].sel # NoCtx
     /\ Selected(h).tmplts[tid] = NoDef /\ def # Malformed
     /\ writers' = [writers EXCEPT ![h].ctxs[writers[h].sel] =
                      [@ EXCEPT !.tmplts[tid] = def, !.toff = 0]]
     /\ ret' = "OK" /\ UNCHANGED <<file, lock, log, lost, used>>
  \/ writers[h].sel # NoCtx /\ Selected(h).tmplts[tid] = def /\ Returns(h, "OK")
  \/ /\ writers[h].sel # NoCtx /\ Selected(h).tmplts[tid] \notin {NoDef, def}
     /\ Redefining(h, tid, def)

\* fds_file_write_tmplt_remove(), File_writer::tmplt_remove()
TmpltRemove(h, tid) ==
  \/ NotSelected(h)
  \/ writers[h].sel # NoCtx /\ Selected(h).tmplts[tid] = NoDef /\ Returns(h, "NOTFOUND")
  \/ writers[h].sel # NoCtx /\ Selected(h).tmplts[tid] # NoDef /\ Redefining(h, tid, NoDef)

\* fds_file_set_iemgr(), File_writer::iemgr_set(): new copies of all templates.
SetIemgr(h) ==
  /\ writers' = [writers EXCEPT ![h].ctxs = [c \in DOMAIN @ |-> [@[c] EXCEPT !.last = NoTmplt]]]
  /\ ret' = "OK" /\ UNCHANGED <<file, lock, log, lost, used>>

-----------------------------------------------------------------------------
(* Closing, asynchronous completion, crashes. *)

\* Block_content::write_to_file() stores the sections of the table first and
\* its header last; a failure may leave the sections alone.
SectionsOnly(f, off, blk, fault) ==
  IF fault.n = 0 THEN f
  ELSE [f EXCEPT !.ext = (UNION {Outside(e, off + BlockHdr, off + blk.len) : e \in @})
                           \cup {[off |-> off, lo |-> BlockHdr, hi |-> blk.len, blk |-> blk]}]

\* File_writer::~File_writer(): the Content Table after all blocks, then the
\* file header.  An exception ends it silently.
Finished(a, fault) ==
  LET blk == TableBlock(a.w.table)
  IN  IF ~a.ok THEN a
      ELSE IF fault.at = FaultOf(NoCtx, "table")
      THEN [a EXCEPT !.file = SectionsOnly(@, a.w.off, blk, fault), !.ok = FALSE]
      ELSE IF fault.at = FaultOf(NoCtx, "header")
      THEN [a EXCEPT !.file = Written(@, a.w.off, blk, blk.len), !.ok = FALSE]
      ELSE [a EXCEPT !.file = HeaderStored(Written(@, a.w.off, blk, blk.len), a.w.off, a.w.recs)]
CloseFaults(h) ==
  Faults(DOMAIN writers[h].ctxs, {"tmplts", "data"}) \cup Faults({NoCtx}, {"table", "header"})

\* fds_file_close(), up to the destructors of the contexts
CloseWriter(h) ==
  /\ writers[h].st \in {"open", "fatal"}
  /\ \A c \in DOMAIN writers[h].ctxs : ~Waits(writers[h].ctxs[c])
  /\ \E fault \in CloseFaults(h) :
       LET a == Finished(FlushAll(Start(h), fault), fault)
       IN  /\ fault # NoFault => ~a.ok
           /\ Counted(fault)
           /\ file' = a.file
           /\ writers' = [writers EXCEPT ![h] = [a.w EXCEPT !.st = "closing"]]
           /\ lost' = (lost \/ ~a.ok)
           /\ UNCHANGED <<lock, log, ret>>

Pending(w) == {c \in DOMAIN w.ctxs : w.ctxs[c].req.st = "started"}
Gone(h) == /\ writers' = [writers EXCEPT ![h] = NoWriter]
           /\ lock' = IF lock = h THEN NoHandle ELSE lock

\* ... and the rest of it: Block_data_writer::~Block_data_writer() waits.
CloseEnd(h) ==
  /\ writers[h].st = "closing" /\ Pending(writers[h]) = {}
  /\ Gone(h) /\ UNCHANGED <<file, log, lost, used, ret>>

\* The system completes an asynchronous write (aio_write()), or fails to.
Complete(h, ctx) ==
  LET i   == writers[h].ctxs[ctx]
      b   == i.buf[i.req.buf]
      blk == DataBlock(ctx, b.toff, b.msgs, b.len)
  IN  /\ writers[h].st # "closed" /\ ctx \in Pending(writers[h])
      /\ \E fault \in Faults({ctx}, {"aio"}) :
           /\ Counted(fault)
           /\ IF fault = NoFault
              THEN /\ file' = Written(file, i.req.off, blk, blk.len)
                   /\ writers' = [writers EXCEPT ![h].ctxs[ctx].req = NoRequest] /\ UNCHANGED lost
              ELSE /\ file' = Partial(file, i.req.off, blk, fault)
                   /\ writers' = [writers EXCEPT ![h].ctxs[ctx].req = [st |-> "failed"]]
                   /\ lost' = TRUE
      /\ UNCHANGED <<lock, log, ret>>

\* The process of the writer dies between two writes.
Crash(h) ==
  /\ writers[h].st # "closed" /\ Gone(h) /\ lost' = TRUE
  /\ UNCHANGED <<file, log, used, ret>>

\* Calls that get past FATAL_TEST
Call(h) ==
  /\ writers[h].st = "open"
  /\ \/ \E dsc \in Dscs : SessionAdd(h, dsc)
     \/ \E ctx \in Ctxs, etime \in ETimes : SelectCtx(h, ctx, etime)
     \/ \E tid \in TIDs, def \in Defs : WriteRec(h, tid, def)
     \/ \E tid \in TIDs, def \in Defs \cup {Malformed} : TmpltAdd(h, tid, def)
     \/ \E tid \in TIDs : TmpltRemove(h, tid)
     \/ SetIemgr(h)

WriterNext ==
  \E h \in Handles :
    \/ \E mode \in Modes, io \in Ios : OpenWriter(h, mode, io)
    \/ Call(h) \/ FatalCall(h)
    \/ \E ctx \in Ctxs : Complete(h, ctx)
    \/ CloseWriter(h) \/ CloseEnd(h) \/ Crash(h)

FSpec == FInit /\ [][WriterNext]_fvars

-----------------------------------------------------------------------------
(* Properties. *)

\* Types of the state, with the limits of the code: no Data Block under
\* construction outgrows its buffer (Block_data_writer.cpp asserts it), and
\* session IDs stay in uint16_t.
FTypeOK ==
  /\ lock \in Handles \cup {NoHandle} /\ lost \in BOOLEAN
  /\ file.hdr.table \in Nat /\ file.hdr.recs \in Nat /\ file.hdr.magic \in BOOLEAN
  /\ \A e \in file.ext : e.lo < e.hi /\ e.hi <= e.blk.len /\ HeaderLen <= e.off
  /\ \A h \in Handles :
       writers[h].st # "closed" =>
         /\ DOMAIN writers[h].sessions \subseteq 1..SidMax
         /\ DOMAIN writers[h].ctxs \subseteq Ctxs
         /\ \A c \in DOMAIN writers[h].ctxs : \A b \in Range(writers[h].ctxs[c].buf) :
              b.len <= Capacity /\ b.toff < writers[h].off

\* What the Template Block and the Data Block of an entry of the table hold;
\* "pending" are blocks whose writes have not completed yet.
DefsFor(f, info) ==
  IF HasBlock(f, info.toff, "tmplts") THEN BlockAt(f, info.toff).defs ELSE NoTemplates
MsgsFor(f, info, pending) ==
  IF \E p \in pending : p.off = info.off
  THEN (CHOOSE p \in pending : p.off = info.off).msgs
  ELSE IF HasBlock(f, info.off, "data") THEN BlockAt(f, info.off).msgs ELSE <<>>

\* The records of the listed Data Blocks of a context, in the order of the
\* table.
RecordsOf(f, content, ctx, pending) ==
  FlattenSeq([k \in 1..Len(content.blocks) |->
    LET info == content.blocks[k]
    IN  IF info.ctx = ctx THEN Decoded(MsgsFor(f, info, pending), DefsFor(f, info)) ELSE <<>>])

InFlight(w, ctx) ==
  {[off |-> w.ctxs[c].req.off, msgs |-> w.ctxs[c].buf[w.ctxs[c].req.buf].msgs] :
     c \in {d \in DOMAIN w.ctxs : d = ctx /\ w.ctxs[d].req.st = "started"}}
Buffered(w, ctx) ==
  IF ctx \in DOMAIN w.ctxs THEN Decoded(Main(w.ctxs[ctx]).msgs, w.ctxs[ctx].tmplts) ELSE <<>>

\* Every record an open writer accepted is somewhere, once, in order, and
\* would be decoded by the template it was written with: in a Data Block of
\* the file, in one on its way there, or in the buffer (write_rec(), flush(),
\* store() and tmplt_add() of the writer).
Accounted ==
  ~lost => \A h \in Handles : writers[h].st = "open" =>
    LET w == writers[h]
    IN  \A sid \in DOMAIN w.sessions, odid \in ODIDs :
          log[KeyOf(w, <<sid, odid>>)] =
            RecordsOf(file, w.table, <<sid, odid>>, InFlight(w, <<sid, odid>>))
              \o Buffered(w, <<sid, odid>>)

Closed == lock = NoHandle /\ ~lost /\ file.hdr.magic
Table(f) == BlockAt(f, f.hdr.table).content

\* A file closed by every process that wrote it, with no failed write, holds
\* exactly the records that were accepted: its Content Table leads to all of
\* them, under the description of their session (~File_writer(),
\* append_prepare()), and the counter of its header counts them, however many
\* times the file was appended to (stats_update(), stats_from_hdr()).
ClosedComplete ==
  Closed =>
    /\ file.hdr.recs = Accepted
    /\ HasBlock(file, file.hdr.table, "table") /\ SessionsValid(file, Table(file))
    /\ \A k \in Keys :
         log[k] =
           FlattenSeq([i \in 1..Len(Table(file).sessions) |->
             LET s == Table(file).sessions[i]
             IN  IF BlockAt(file, s.off).dsc = k[1]
                 THEN RecordsOf(file, Table(file), <<s.sid, k[2]>>, {}) ELSE <<>>])

\* A block that is completely in the file stays there, whatever is written,
\* fails or is appended later; only opening the file for writing removes it.
\* (The Content Table is the exception: an appender overwrites it.)
BlocksAreKept ==
  [][\A e \in file.ext :
       /\ e.lo = 0 /\ e.hi = e.blk.len /\ e.blk.type # "table"
       /\ file'.ext # {}
       => e \in file'.ext]_file
=============================================================================
