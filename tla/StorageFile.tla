---------------------------- MODULE StorageFile ----------------------------
(***************************************************************************)
(* The content of an FDS file (src/src/file/structure.h) as the file       *)
(* system keeps it.                                                        *)
(*                                                                         *)
(* A file is a header and a set of extents.  An extent is what is still    *)
(* there of one write: the cells lo..(hi - 1) of the block "blk" that was  *)
(* written at offset "off".  A later write cuts out what it overwrites, so *)
(* extents never overlap; cells no extent has are zero.  Lengths are in    *)
(* cells of a few bytes; the instances keep the order of the real ones.    *)
(***************************************************************************)
EXTENDS Naturals, SequencesExt

CONSTANTS
  HeaderLen,    \* sizeof(struct fds_file_hdr)
  BlockHdr,     \* FDS_FILE_BHDR_SIZE, the common header of a block
  SessionLen,   \* sizeof(struct fds_file_bsession)
  TmpltHdr,     \* Template Block without its records, which take a cell each
  DataHdr,      \* FDS_FILE_BDATA_HDR_SIZE
  MsgHdr,       \* header of an IPFIX Message
  SetHdr,       \* header of an IPFIX Set
  Defs,         \* template definitions
  RecLen,       \* Defs -> length of the data records of a definition
  TIDs,         \* template IDs in use
  NoDef,        \* "the template ID is not defined"
  ODIDs,        \* Observation Domain IDs
  SidMax,       \* UINT16_MAX, the highest ID of a session
  Ios           \* subset of {"sync", "async"}: FDS_FILE_NOASYNC or not

ASSUME LengthsAssumption ==
  /\ {HeaderLen, BlockHdr, SessionLen, TmpltHdr, DataHdr} \subseteq Nat \ {0}
  /\ SidMax \in Nat \ {0} /\ ODIDs \subseteq Nat /\ Ios \subseteq {"sync", "async"}
  /\ IsFiniteSet(TIDs) /\ IsFiniteSet(ODIDs)     \* uint16_t and uint32_t
  /\ BlockHdr < DataHdr /\ BlockHdr < TmpltHdr /\ DataHdr < SessionLen

VARIABLE file    \* the file

\* A context: an internal session ID and an Observation Domain ID.
Ctxs == (1..SidMax) \X ODIDs

NoTemplates == [tid \in TIDs |-> NoDef]

\* A Transport Session description, stored under an internal ID.
SessionBlock(sid, dsc) == [type |-> "session", len |-> SessionLen, sid |-> sid, dsc |-> dsc]

\* The templates of a context.
TemplateBlock(ctx, defs) ==
  [type |-> "tmplts", ctx |-> ctx, defs |-> defs,
   len |-> TmpltHdr + Cardinality({tid \in TIDs : defs[tid] # NoDef})]

\* IPFIX Messages of a context, based on the Template Block at offset toff.
DataBlock(ctx, toff, msgs, len) ==
  [type |-> "data", len |-> len, ctx |-> ctx, toff |-> toff, msgs |-> msgs]

\* Where the sessions and the data blocks are.
SessionInfo(off, sid) == [off |-> off, sid |-> sid]
DataInfo(off, len, toff, ctx) == [off |-> off, len |-> len, toff |-> toff, ctx |-> ctx]
NoContent == [sessions |-> <<>>, blocks |-> <<>>]
TableBlock(c) ==
  [type |-> "table", len |-> BlockHdr + 1 + Len(c.sessions) + Len(c.blocks), content |-> c]

-----------------------------------------------------------------------------
(* Reading and writing. *)

NoHeader == [table |-> 0, recs |-> 0, magic |-> FALSE]
Header(table, recs) == [table |-> table, recs |-> recs, magic |-> TRUE]
EmptyFile == [hdr |-> NoHeader, ext |-> {}]

End(e) == e.off + e.hi
IsEof(f, n) ==
  \/ f.ext = {} /\ n = IF f.hdr.magic THEN HeaderLen ELSE 0
  \/ \E e \in f.ext : n = End(e) /\ \A d \in f.ext : End(d) <= n
Eof(f) == CHOOSE n \in {0, HeaderLen} \cup {End(e) : e \in f.ext} : IsEof(f, n)

\* What is left of an extent once the cells a..(b - 1) of the file are
\* overwritten.
Outside(e, a, b) ==
  {x \in {[e EXCEPT !.hi = IF a < End(e) THEN IF a > e.off THEN a - e.off ELSE 0 ELSE @],
          [e EXCEPT !.lo = IF b > e.off + @ THEN b - e.off ELSE @]} : x.lo < x.hi}

\* pwrite() of the first n cells of a block.
Written(f, off, blk, n) ==
  IF n = 0 THEN f
  ELSE [f EXCEPT !.ext = (UNION {Outside(e, off, off + n) : e \in @})
                           \cup {[off |-> off, lo |-> 0, hi |-> n, blk |-> blk]}]

\* file_hdr_store()
HeaderStored(f, table, recs) == [f EXCEPT !.hdr = Header(table, recs)]

\* The first n cells at an offset are the beginning of a block.
Starts(f, off, n) == {e \in f.ext : e.off = off /\ e.lo = 0 /\ e.hi >= n}
HasBlock(f, off, type) == \E e \in Starts(f, off, BlockHdr) : e.blk.type = type /\ e.hi = e.blk.len
BlockAt(f, off) == (CHOOSE e \in f.ext : e.off = off /\ e.lo = 0).blk

\* Nothing was ever written to n cells: they read as zeros.
Zeros(f, off, n) == \A e \in f.ext : off + n <= e.off + e.lo \/ End(e) <= off

\* The records of a Data Block as the templates "defs" decode them.
Decoded(msgs, defs) ==
  FlattenSeq([m \in 1..Len(msgs) |->
    [k \in 1..Len(msgs[m].recs) |->
       [n |-> msgs[m].recs[k].n, def |-> defs[msgs[m].recs[k].tid], etime |-> msgs[m].etime]]])
=============================================================================
