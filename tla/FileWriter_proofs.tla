-------------------------- MODULE FileWriter_proofs --------------------------
(***************************************************************************)
(* Proofs about FileWriter: its type invariant, with the limits of buffers *)
(* and session IDs, and that no complete block is ever overwritten, for    *)
(* every file, any number of handles, contexts, records and failures.      *)
(*                                                                         *)
(* Both follow from FInv, which says where the running writes and the next *)
(* block go.  A call is a chain of changes of one handle and the file; for *)
(* each kind of change there is a lemma that it keeps what FInv says of    *)
(* them, and one for each action that composes them.                       *)
(***************************************************************************)
EXTENDS FileWriter, SequenceTheorems, FiniteSetTheorems, WellFoundedInduction, TLAPS

(* The inductive invariant. *)

Contents == [sessions : Seq([off : Nat, sid : 1..SidMax]),
             blocks : Seq([off : Nat, len : Nat, toff : Nat, ctx : Ctxs])]
Records == [tid : TIDs, n : Nat]
Messages == [etime : ETimes, recs : Seq(Records)]
Tmplts == [tid : TIDs, def : Defs]
Requests == [st : {"none", "failed"}] \cup [st : {"started"}, off : Nat, buf : {1, 2}]

\* A block as it was written, and what is still there of one.
BlockOK(b) ==
  /\ b.len \in Nat \ {0}
  /\ b.type = "session" => b.dsc \in Dscs
  /\ b.type = "table" => b.content \in Contents
ExtentOK(e) ==
  /\ e = [off |-> e.off, lo |-> e.lo, hi |-> e.hi, blk |-> e.blk]
  /\ e.off \in Nat /\ e.lo \in Nat /\ e.hi \in Nat
  /\ HeaderLen <= e.off /\ e.lo < e.hi /\ e.hi <= e.blk.len
  /\ BlockOK(e.blk)
Apart(d, e) == End(d) <= e.off + e.lo \/ End(e) <= d.off + d.lo
FileOK(f) ==
  /\ f = [hdr |-> f.hdr, ext |-> f.ext]
  /\ f.hdr \in [table : Nat, recs : Nat, magic : BOOLEAN]
  /\ \A e \in f.ext : ExtentOK(e)
  /\ \A d, e \in f.ext : d = e \/ Apart(d, e)
  /\ \E n \in Nat : \A e \in f.ext : End(e) <= n

\* A buffer never outgrows a Data Block.
BufferOK(b) ==
  /\ b = [msgs |-> b.msgs, len |-> b.len, msg |-> b.msg, toff |-> b.toff]
  /\ b.msgs \in Seq(Messages) /\ b.msg \in Nat /\ b.toff \in Nat
  /\ b.len \in Nat /\ DataHdr <= b.len /\ b.len <= Capacity
  /\ b.msgs = <<>> => b.len = DataHdr

\* A context of a writer whose next block goes to "off": the block of a
\* running write is in the buffer that is not being filled.
ContextOK(i, off) ==
  /\ i = [toff |-> i.toff, tmplts |-> i.tmplts, last |-> i.last, etime |-> i.etime,
          buf |-> i.buf, main |-> i.main, req |-> i.req]
  /\ i.toff \in Nat /\ i.toff < off
  /\ i.tmplts \in [TIDs -> Defs \cup {NoDef}] /\ i.last \in Tmplts \cup {NoTmplt}
  /\ i.etime \in ETimes
  /\ i.buf = <<i.buf[1], i.buf[2]>> /\ i.main \in {1, 2}
  /\ \A k \in {1, 2} : BufferOK(i.buf[k]) /\ i.buf[k].toff < off
  /\ i.req \in Requests
  /\ i.req.st = "started" => i.req.buf = OtherBuffer(i)

WriterOK(w) ==
  /\ w = [st |-> w.st, io |-> w.io, sessions |-> w.sessions, ctxs |-> w.ctxs, sel |-> w.sel,
          table |-> w.table, off |-> w.off, recs |-> w.recs]
  /\ w.st \in {"open", "fatal", "closing"} /\ w.io \in Ios
  /\ w.sessions \in [DOMAIN w.sessions -> Dscs] /\ DOMAIN w.sessions \subseteq 1..SidMax
  /\ w.ctxs = [c \in DOMAIN w.ctxs |-> w.ctxs[c]] /\ DOMAIN w.ctxs \subseteq Ctxs
  /\ \A c \in DOMAIN w.ctxs : c[1] \in DOMAIN w.sessions /\ ContextOK(w.ctxs[c], w.off)
  /\ w.sel \in DOMAIN w.ctxs \cup {NoCtx}
  /\ w.table \in Contents /\ w.off \in Nat /\ HeaderLen <= w.off /\ w.recs \in Nat

\* A complete block that has to stay in the file.
Whole(e) == e.lo = 0 /\ e.hi = e.blk.len /\ e.blk.type # "table"

\* Where the running write of a context goes.
From(i) == i.req.off
To(i) == i.req.off + i.buf[i.req.buf].len

\* Nothing but blocks is before the place where the writer goes on, each
\* running write has a place of its own there, and nothing that must stay is
\* behind it.
Placed(f, w) ==
  /\ \A e \in f.ext : Whole(e) => End(e) <= w.off
  /\ \A c \in Pending(w) :
       /\ HeaderLen <= From(w.ctxs[c]) /\ To(w.ctxs[c]) <= w.off
       /\ \A e \in f.ext : Whole(e) => End(e) <= From(w.ctxs[c]) \/ To(w.ctxs[c]) <= e.off
       /\ \A d \in Pending(w) : c = d \/ To(w.ctxs[c]) <= From(w.ctxs[d])
                                      \/ To(w.ctxs[d]) <= From(w.ctxs[c])

\* The header refers to no table while records can be written, and nothing
\* that must stay is behind the table it refers to.
HeaderInStep(f, w) ==
  f.hdr.table = 0 \/ (w.st = "closing" /\ f.hdr.table = w.off)
TableLast(f) ==
  f.hdr.table # 0 =>
    HeaderLen <= f.hdr.table /\ \A e \in f.ext : Whole(e) => End(e) <= f.hdr.table

Logs == [Keys -> Seq([n : Nat, def : Defs, etime : ETimes])]

\* At most one handle is open for writing, the one whose process has the lock.
FInv ==
  /\ FileOK(file) /\ TableLast(file)
  /\ lock \in Handles \cup {NoHandle} /\ lost \in BOOLEAN
  /\ log \in Logs
  /\ writers = [h \in Handles |-> writers[h]]
  /\ \A h \in Handles :
       IF writers[h].st = "closed" THEN writers[h] = NoWriter
       ELSE /\ lock = h /\ WriterOK(writers[h])
            /\ Placed(file, writers[h]) /\ HeaderInStep(file, writers[h])

-----------------------------------------------------------------------------
(* Extents and files. *)

\* No complete block of a file is missing in another.
Kept(f, g) == \A e \in f.ext : Whole(e) => e \in g.ext

\* What is left of an extent is a part of it outside the cells overwritten.
LEMMA OutsideParts ==
  ASSUME NEW e, ExtentOK(e), NEW a \in Nat, NEW b \in Nat, a < b, NEW x \in Outside(e, a, b)
  PROVE  /\ ExtentOK(x)
         /\ x.off = e.off /\ x.blk = e.blk /\ e.lo <= x.lo /\ x.hi <= e.hi
         /\ End(x) <= a \/ b <= x.off + x.lo
<1> DEFINE h == IF a < End(e) THEN IF a > e.off THEN a - e.off ELSE 0 ELSE e.hi
           l == IF b > e.off + e.lo THEN b - e.off ELSE e.lo
           left == [off |-> e.off, lo |-> e.lo, hi |-> h, blk |-> e.blk]
           right == [off |-> e.off, lo |-> l, hi |-> e.hi, blk |-> e.blk]
<1>1. /\ e = [off |-> e.off, lo |-> e.lo, hi |-> e.hi, blk |-> e.blk]
      /\ e.off \in Nat /\ e.lo \in Nat /\ e.hi \in Nat
      /\ HeaderLen <= e.off /\ e.lo < e.hi /\ e.hi <= e.blk.len /\ BlockOK(e.blk)
      /\ e.blk.len \in Nat
  BY DEF ExtentOK, BlockOK
<1>2. [e EXCEPT !.hi = h] = left /\ [e EXCEPT !.lo = l] = right
  BY <1>1
<1>3. x \in {left, right} /\ x.lo < x.hi
  BY <1>2 DEF Outside
<1>4. h \in Nat /\ l \in Nat /\ h <= e.hi /\ e.lo <= l
  BY <1>1 DEF End
<1>5. CASE x = left
  <2>1. x.off = e.off /\ x.lo = e.lo /\ x.hi = h /\ x.blk = e.blk
    BY <1>5
  <2>2. End(x) <= a
    BY <2>1, <1>1, <1>3 DEF End
  <2> QED  BY <2>1, <2>2, <1>1, <1>3, <1>4, <1>5 DEF ExtentOK
<1>6. CASE x = right
  <2>1. x.off = e.off /\ x.lo = l /\ x.hi = e.hi /\ x.blk = e.blk
    BY <1>6
  <2>2. b <= x.off + x.lo
    BY <2>1, <1>1
  <2> QED  BY <2>1, <2>2, <1>1, <1>3, <1>4, <1>6 DEF ExtentOK
<1> QED  BY <1>3, <1>5, <1>6

\* Parts of an extent do not overlap.
LEMMA OutsideApart ==
  ASSUME NEW e, ExtentOK(e), NEW a \in Nat, NEW b \in Nat, a < b,
         NEW x \in Outside(e, a, b), NEW y \in Outside(e, a, b), x # y
  PROVE  Apart(x, y)
<1> DEFINE left == [e EXCEPT !.hi = IF a < End(e) THEN IF a > e.off THEN a - e.off ELSE 0 ELSE @]
           right == [e EXCEPT !.lo = IF b > e.off + @ THEN b - e.off ELSE @]
<1>1. {x, y} = {left, right} /\ x.lo < x.hi /\ y.lo < y.hi
  BY DEF Outside
<1>2. /\ e = [off |-> e.off, lo |-> e.lo, hi |-> e.hi, blk |-> e.blk]
      /\ e.off \in Nat /\ e.lo \in Nat /\ e.hi \in Nat
  BY DEF ExtentOK
<1>3. ASSUME left.lo < left.hi, right.lo < right.hi PROVE Apart(left, right) /\ Apart(right, left)
  <2>1. left.off = e.off /\ left.lo = e.lo /\ left.hi = (IF a < End(e) THEN IF a > e.off THEN a - e.off ELSE 0 ELSE e.hi)
    BY <1>2
  <2>2. right.off = e.off /\ right.lo = (IF b > e.off + e.lo THEN b - e.off ELSE e.lo) /\ right.hi = e.hi
    BY <1>2
  <2>3. End(left) <= right.off + right.lo
    BY <2>1, <2>2, <1>2, <1>3 DEF End
  <2> QED  BY <2>3 DEF Apart
<1>4. (x = left /\ y = right) \/ (x = right /\ y = left)
  BY <1>1
<1> QED  BY <1>1, <1>3, <1>4

\* An extent that is not touched stays.
LEMMA OutsideSame ==
  ASSUME NEW e, ExtentOK(e), NEW a \in Nat, NEW b \in Nat, a < b,
         End(e) <= a \/ b <= e.off + e.lo
  PROVE  e \in Outside(e, a, b)
<1>1. /\ e = [off |-> e.off, lo |-> e.lo, hi |-> e.hi, blk |-> e.blk]
      /\ e.off \in Nat /\ e.lo \in Nat /\ e.hi \in Nat /\ e.lo < e.hi
  BY DEF ExtentOK
<1>2. CASE End(e) <= a
  <2>1. [e EXCEPT !.hi = IF a < End(e) THEN IF a > e.off THEN a - e.off ELSE 0 ELSE @] = e
    BY <1>1, <1>2 DEF End
  <2> QED  BY <2>1, <1>1 DEF Outside
<1>3. CASE b <= e.off + e.lo
  <2>1. [e EXCEPT !.lo = IF b > e.off + @ THEN b - e.off ELSE @] = e
    BY <1>1, <1>3
  <2> QED  BY <2>1, <1>1 DEF Outside
<1> QED  BY <1>2, <1>3

\* A write cuts its cells, a..(b - 1), out of what was there and adds an extent.
IsCut(f, a, b, new, g) ==
  /\ ExtentOK(new) /\ a \in Nat /\ b \in Nat /\ a = new.off + new.lo /\ b = End(new)
  /\ \A e \in f.ext : Whole(e) => End(e) <= a \/ b <= e.off
  /\ g = [hdr |-> f.hdr, ext |-> (UNION {Outside(e, a, b) : e \in f.ext}) \cup {new}]

LEMMA CutAndAdded ==
  ASSUME NEW f, FileOK(f), NEW a, NEW b, NEW new, NEW g, IsCut(f, a, b, new, g)
  PROVE  /\ FileOK(g) /\ g.hdr = f.hdr /\ Kept(f, g)
         /\ \A x \in g.ext : Whole(x) => x \in f.ext \/ x = new
<1> DEFINE old == UNION {Outside(e, a, b) : e \in f.ext}
<1>0. /\ ExtentOK(new) /\ a \in Nat /\ b \in Nat /\ a = new.off + new.lo /\ b = End(new)
      /\ \A e \in f.ext : Whole(e) => End(e) <= a \/ b <= e.off
      /\ g = [hdr |-> f.hdr, ext |-> old \cup {new}]
  BY DEF IsCut
<1>1. /\ f = [hdr |-> f.hdr, ext |-> f.ext]
      /\ f.hdr \in [table : Nat, recs : Nat, magic : BOOLEAN]
      /\ \A e \in f.ext : ExtentOK(e)
      /\ \A d, e \in f.ext : d = e \/ Apart(d, e)
  BY DEF FileOK
<1>3. g.ext = old \cup {new} /\ g.hdr = f.hdr /\ g = [hdr |-> g.hdr, ext |-> g.ext]
  BY <1>0
<1>4. a < b
  BY <1>0 DEF ExtentOK, End
<1>6. ASSUME NEW x \in old
      PROVE  \E e \in f.ext : x \in Outside(e, a, b) /\ ExtentOK(e)
  BY <1>1
<1>7. ASSUME NEW x \in old
      PROVE  /\ ExtentOK(x) /\ Apart(x, new) /\ Apart(new, x)
             /\ Whole(x) => x \in f.ext
             /\ \E e \in f.ext : End(x) <= End(e)
  <2>1. PICK e \in f.ext : x \in Outside(e, a, b) /\ ExtentOK(e)
    BY <1>6
  <2>2. /\ ExtentOK(x)
        /\ x.off = e.off /\ x.blk = e.blk /\ e.lo <= x.lo /\ x.hi <= e.hi
        /\ End(x) <= a \/ b <= x.off + x.lo
    BY <2>1, <1>0, <1>4, OutsideParts
  <2>3. Apart(x, new) /\ Apart(new, x)
    BY <2>2, <1>0 DEF Apart, End, ExtentOK
  <2>4. ASSUME Whole(x) PROVE x \in f.ext
    <3>1. x.lo = 0 /\ x.hi = x.blk.len
      BY <2>4 DEF Whole
    <3>2. e.lo = x.lo /\ e.hi = x.hi
      BY <3>1, <2>1, <2>2 DEF ExtentOK, BlockOK
    <3>3. x = e
      BY <3>2, <2>1, <2>2 DEF ExtentOK
    <3> QED  BY <3>3
  <2>5. End(x) <= End(e)
    BY <2>1, <2>2 DEF End, ExtentOK
  <2> QED  BY <2>2, <2>3, <2>4, <2>5
<1>8. \A e \in g.ext : ExtentOK(e)
  BY <1>0, <1>3, <1>7
<1>9. ASSUME NEW x \in old, NEW y \in old PROVE x = y \/ Apart(x, y)
  <2>1. PICK d \in f.ext : x \in Outside(d, a, b) /\ ExtentOK(d)
    BY <1>6
  <2>2. PICK e \in f.ext : y \in Outside(e, a, b) /\ ExtentOK(e)
    BY <1>6
  <2>3. CASE d = e
    BY <2>1, <2>2, <2>3, <1>0, <1>4, OutsideApart
  <2>4. CASE d # e
    <3>1. Apart(d, e)
      BY <1>1, <2>4
    <3>2. x.off = d.off /\ d.lo <= x.lo /\ x.hi <= d.hi /\ ExtentOK(x)
      BY <2>1, <1>0, <1>4, OutsideParts
    <3>3. y.off = e.off /\ e.lo <= y.lo /\ y.hi <= e.hi /\ ExtentOK(y)
      BY <2>2, <1>0, <1>4, OutsideParts
    <3> QED  BY <3>1, <3>2, <3>3, <2>1, <2>2 DEF Apart, End, ExtentOK
  <2> QED  BY <2>3, <2>4
<1>10. \A d, e \in g.ext : d = e \/ Apart(d, e)
  <2> SUFFICES ASSUME NEW d \in old \cup {new}, NEW e \in old \cup {new}
               PROVE  d = e \/ Apart(d, e)
    BY <1>3
  <2>1. CASE d \in old /\ e \in old
    BY <2>1, <1>9
  <2>2. CASE d = new /\ e \in old
    BY <2>2, <1>7
  <2>3. CASE d \in old /\ e = new
    BY <2>3, <1>7
  <2> QED  BY <2>1, <2>2, <2>3
<1>11. \E n \in Nat : \A e \in g.ext : End(e) <= n
  <2>1. PICK m \in Nat : \A e \in f.ext : End(e) <= m
    BY DEF FileOK
  <2> DEFINE n == IF m <= b THEN b ELSE m
  <2>2. n \in Nat /\ m <= n /\ b <= n
    BY <1>0
  <2>3. ASSUME NEW x \in old PROVE End(x) <= n
    <3>1. PICK e \in f.ext : End(x) <= End(e)
      BY <1>7
    <3>2. End(x) \in Nat /\ End(e) \in Nat
      BY <1>1, <1>7 DEF ExtentOK, End
    <3> QED  BY <3>1, <3>2, <2>1, <2>2
  <2>4. End(new) = b
    BY <1>0
  <2> QED  BY <2>2, <2>3, <2>4, <1>3
<1>12. Kept(f, g)
  <2> SUFFICES ASSUME NEW e \in f.ext, Whole(e) PROVE e \in g.ext
    BY DEF Kept
  <2>1. ExtentOK(e) /\ e.lo = 0
    BY <1>1 DEF Whole
  <2>2. End(e) <= a \/ b <= e.off + e.lo
    BY <2>1, <1>0 DEF ExtentOK
  <2>3. e \in Outside(e, a, b)
    BY <2>1, <2>2, <1>0, <1>4, OutsideSame
  <2> QED  BY <2>3, <1>3
<1>13. \A x \in g.ext : Whole(x) => x \in f.ext \/ x = new
  BY <1>0, <1>3, <1>7
<1> QED  BY <1>1, <1>3, <1>8, <1>10, <1>11, <1>12, <1>13 DEF FileOK

LEMMA WrittenKeeps ==
  ASSUME NEW f, FileOK(f), NEW off \in Nat, NEW n \in Nat, NEW blk,
         HeaderLen <= off, n <= blk.len, BlockOK(blk),
         \A e \in f.ext : Whole(e) => End(e) <= off \/ off + n <= e.off
  PROVE  LET g == Written(f, off, blk, n)
         IN  /\ FileOK(g) /\ g.hdr = f.hdr /\ Kept(f, g)
             /\ \A x \in g.ext : Whole(x) =>
                  \/ x \in f.ext
                  \/ n = blk.len /\ x.off = off /\ x.blk = blk /\ End(x) = off + n
<1>1. CASE n = 0
  BY <1>1 DEF Written, Kept
<1>2. CASE n # 0
  <2> DEFINE g == Written(f, off, blk, n)
             new == [off |-> off, lo |-> 0, hi |-> n, blk |-> blk]
             ext == (UNION {Outside(e, off, off + n) : e \in f.ext}) \cup {new}
  <2>4. ExtentOK(new) /\ off = new.off + new.lo /\ off + n = End(new)
    BY <1>2 DEF ExtentOK, BlockOK, End
  <2>5. g = [f EXCEPT !.ext = ext]
    BY <1>2 DEF Written
  <2>6. g = [hdr |-> f.hdr, ext |-> ext]
    <3> HIDE DEF ext, g
    <3> QED  BY <2>5 DEF FileOK
  <2>1. IsCut(f, off, off + n, new, g)
    <3> HIDE DEF g, new
    <3> QED  BY <2>4, <2>6 DEF IsCut
  <2>2. new.off = off /\ new.blk = blk /\ End(new) = off + n /\ (Whole(new) => n = blk.len)
    BY DEF End, Whole
  <2> HIDE DEF g, new
  <2>3. /\ FileOK(g) /\ g.hdr = f.hdr /\ Kept(f, g)
        /\ \A x \in g.ext : Whole(x) => x \in f.ext \/ x = new
    BY <2>1, CutAndAdded
  <2> QED  BY <2>2, <2>3 DEF g
<1> QED  BY <1>1, <1>2

LEMMA Lengths ==
  /\ HeaderLen \in Nat \ {0} /\ BlockHdr \in Nat \ {0} /\ SessionLen \in Nat \ {0}
  /\ TmpltHdr \in Nat \ {0} /\ DataHdr \in Nat \ {0} /\ SidMax \in Nat \ {0}
  /\ MsgHdr \in Nat /\ SetHdr \in Nat /\ Capacity \in Nat
  /\ DataHdr + MsgHdr + SetHdr < Capacity
  /\ RecLen \in [Defs -> Nat \ {0}]
  /\ \A def \in Defs : DataHdr + MsgHdr + SetHdr + RecLen[def] < Capacity
BY LengthsAssumption, WriterAssumption

\* The table takes a cell for each of its entries.
LEMMA TableLength ==
  ASSUME NEW c \in Contents
  PROVE  TableBlock(c).len \in Nat /\ BlockHdr < TableBlock(c).len
<1>1. PICK m \in Nat : m = Len(c.sessions)
  BY LenProperties DEF Contents
<1>2. PICK n \in Nat : n = Len(c.blocks)
  BY LenProperties DEF Contents
<1>3. TableBlock(c).len = BlockHdr + 1 + m + n
  BY <1>1, <1>2 DEF TableBlock
<1>4. BlockHdr \in Nat
  BY Lengths
<1> QED  BY <1>3, <1>4

\* A write that fails leaves no complete block behind.
LEMMA PartialKeeps ==
  ASSUME NEW f, FileOK(f), NEW off \in Nat, NEW blk, NEW fault,
         HeaderLen <= off, BlockOK(blk), fault.n \in Nat,
         \A e \in f.ext : Whole(e) => End(e) <= off \/ off + blk.len <= e.off
  PROVE  LET g == Partial(f, off, blk, fault)
         IN  /\ FileOK(g) /\ g.hdr = f.hdr /\ Kept(f, g)
             /\ \A x \in g.ext : Whole(x) => x \in f.ext
<1> DEFINE n == IF fault.n < blk.len THEN fault.n ELSE 0
           g == Written(f, off, blk, n)
<1>1. blk.len \in Nat \ {0} /\ n \in Nat /\ n < blk.len
  BY DEF BlockOK
<1>2. Partial(f, off, blk, fault) = g
  BY DEF Partial
<1>3. \A e \in f.ext : Whole(e) => End(e) <= off \/ off + n <= e.off
  BY <1>1 DEF FileOK, ExtentOK
<1> HIDE DEF n
<1>4. /\ FileOK(g) /\ g.hdr = f.hdr /\ Kept(f, g)
      /\ \A x \in g.ext : Whole(x) => x \in f.ext
  BY <1>1, <1>3, WrittenKeeps
<1> QED  BY <1>2, <1>4

LEMMA SectionsKeep ==
  ASSUME NEW f, FileOK(f), NEW off \in Nat, NEW c \in Contents, NEW fault,
         HeaderLen <= off,
         \A e \in f.ext : Whole(e) => End(e) <= off
  PROVE  LET g == SectionsOnly(f, off, TableBlock(c), fault)
         IN  /\ FileOK(g) /\ g.hdr = f.hdr /\ Kept(f, g)
             /\ \A x \in g.ext : Whole(x) => x \in f.ext
<1> DEFINE blk == TableBlock(c)
           g == SectionsOnly(f, off, blk, fault)
           new == [off |-> off, lo |-> BlockHdr, hi |-> blk.len, blk |-> blk]
           ext == (UNION {Outside(e, off + BlockHdr, off + blk.len) : e \in f.ext}) \cup {new}
<1>2. blk.len \in Nat /\ BlockHdr < blk.len /\ blk.type = "table" /\ blk.content = c
  BY TableLength DEF TableBlock
<1>3. BlockOK(blk)
  BY <1>2, Lengths DEF BlockOK
<1> HIDE DEF blk
<1>4. CASE fault.n = 0
  BY <1>4 DEF SectionsOnly, Kept, blk
<1>5. CASE fault.n # 0
  <2>1. ExtentOK(new) /\ off + BlockHdr = new.off + new.lo /\ off + blk.len = End(new) /\ ~Whole(new)
    BY <1>2, <1>3, Lengths DEF ExtentOK, BlockOK, End, Whole
  <2>2. g = [f EXCEPT !.ext = ext]
    BY <1>5 DEF SectionsOnly
  <2>3. g = [hdr |-> f.hdr, ext |-> ext]
    <3> HIDE DEF ext, g
    <3> QED  BY <2>2 DEF FileOK
  <2>4. \A e \in f.ext : Whole(e) => End(e) <= off + BlockHdr
    BY Lengths DEF FileOK, ExtentOK, End
  <2>5. off + BlockHdr \in Nat /\ off + blk.len \in Nat
    BY <1>2, Lengths
  <2>6. IsCut(f, off + BlockHdr, off + blk.len, new, g)
    <3> HIDE DEF g, new
    <3> QED  BY <2>1, <2>3, <2>4, <2>5 DEF IsCut
  <2> HIDE DEF g, new
  <2>7. /\ FileOK(g) /\ g.hdr = f.hdr /\ Kept(f, g)
        /\ \A x \in g.ext : Whole(x) => x \in f.ext \/ x = new
    BY <2>6, CutAndAdded
  <2> QED  BY <2>1, <2>7 DEF g, blk
<1> QED  BY <1>4, <1>5

LEMMA HeaderKeeps ==
  ASSUME NEW f, FileOK(f), NEW table \in Nat, NEW recs \in Nat
  PROVE  LET g == HeaderStored(f, table, recs)
         IN  /\ FileOK(g) /\ g.ext = f.ext /\ Kept(f, g)
             /\ g.hdr.table = table
<1> DEFINE g == HeaderStored(f, table, recs)
           hdr == Header(table, recs)
<1>1. hdr \in [table : Nat, recs : Nat, magic : BOOLEAN] /\ hdr.table = table
  BY DEF Header
<1>2. g = [f EXCEPT !.hdr = hdr] /\ f = [hdr |-> f.hdr, ext |-> f.ext]
  BY DEF HeaderStored, FileOK
<1> HIDE DEF g, hdr
<1>3. g.hdr = hdr /\ g.ext = f.ext /\ g = [hdr |-> g.hdr, ext |-> g.ext]
  BY <1>2
<1> QED  BY <1>1, <1>3 DEF FileOK, Kept, g

LEMMA KeptTransitive ==
  ASSUME NEW f, NEW g, NEW h, Kept(f, g), Kept(g, h)
  PROVE  Kept(f, h)
BY DEF Kept

LEMMA EmptyFileOK == FileOK(EmptyFile) /\ TableLast(EmptyFile)
BY DEF FileOK, TableLast, EmptyFile, NoHeader

(* Blocks. *)

LEMMA SessionBlockOK ==
  ASSUME NEW sid, NEW dsc \in Dscs
  PROVE  BlockOK(SessionBlock(sid, dsc)) /\ SessionBlock(sid, dsc).len = SessionLen
BY Lengths DEF BlockOK, SessionBlock

LEMMA TemplateBlockOK ==
  ASSUME NEW ctx, NEW defs
  PROVE  BlockOK(TemplateBlock(ctx, defs))
<1> DEFINE S == {tid \in TIDs : defs[tid] # NoDef}
<1>1. Cardinality(S) \in Nat
  BY LengthsAssumption, FS_Subset, FS_CardinalityType
<1> HIDE DEF S
<1>2. TmpltHdr + Cardinality(S) \in Nat \ {0}
  BY <1>1, Lengths
<1> QED  BY <1>2 DEF BlockOK, TemplateBlock, S

LEMMA DataBlockOK ==
  ASSUME NEW ctx, NEW toff, NEW msgs, NEW len \in Nat \ {0}
  PROVE  BlockOK(DataBlock(ctx, toff, msgs, len)) /\ DataBlock(ctx, toff, msgs, len).len = len
BY DEF BlockOK, DataBlock

LEMMA TableBlockOK ==
  ASSUME NEW c \in Contents
  PROVE  /\ BlockOK(TableBlock(c)) /\ TableBlock(c).type = "table"
         /\ TableBlock(c).len \in Nat
<1> DEFINE blk == TableBlock(c)
<1>1. blk.type = "table" /\ blk.content = c
  BY DEF TableBlock
<1>2. blk.len \in Nat /\ BlockHdr < blk.len
  BY TableLength
<1> HIDE DEF blk
<1>3. BlockOK(blk)
  BY <1>1, <1>2, Lengths DEF BlockOK
<1> QED  BY <1>1, <1>2, <1>3 DEF blk

-----------------------------------------------------------------------------
(* Buffers, contexts and writers. *)

LEMMA EmptyBufferOK ==
  BufferOK(EmptyBuffer) /\ EmptyBuffer.len = DataHdr /\ EmptyBuffer.toff = 0 /\ EmptyBuffer.msgs = <<>>
<1>1. DataHdr \in Nat /\ DataHdr <= Capacity
  BY Lengths
<1>2. <<>> \in Seq(Messages)
  BY EmptySeq
<1> QED  BY <1>1, <1>2 DEF BufferOK, EmptyBuffer

\* A record is added to a buffer that has room for it.
LEMMA AddRecordOK ==
  ASSUME NEW b, BufferOK(b), NEW rec \in Records, NEW etime \in ETimes, NEW len \in Nat,
         b.len + MsgHdr + SetHdr + len <= Capacity
  PROVE  LET r == AddRecord(b, rec, etime, len) IN BufferOK(r) /\ r.toff = b.toff
<1> DEFINE r == AddRecord(b, rec, etime, len)
<1>1. /\ b = [msgs |-> b.msgs, len |-> b.len, msg |-> b.msg, toff |-> b.toff]
      /\ b.msgs \in Seq(Messages) /\ b.msg \in Nat /\ b.toff \in Nat
      /\ b.len \in Nat /\ DataHdr <= b.len
  BY DEF BufferOK
<1>2. MsgHdr \in Nat /\ SetHdr \in Nat /\ DataHdr \in Nat /\ Capacity \in Nat
  BY Lengths
<1>3. CASE NewMessage(b, rec.tid, etime, len)
  <2> DEFINE m == [etime |-> etime, recs |-> <<rec>>]
             msgs == Append(b.msgs, m)
  <2>1. m \in Messages
    BY DEF Messages
  <2>2. msgs \in Seq(Messages) /\ msgs # <<>>
    <3> HIDE DEF m
    <3>1. msgs \in Seq(Messages) /\ Len(msgs) = Len(b.msgs) + 1
      BY <1>1, <2>1, AppendProperties
    <3>2. PICK n \in Nat : n = Len(b.msgs)
      BY <1>1, LenProperties
    <3> HIDE DEF msgs
    <3>3. Len(msgs) # 0
      BY <3>1, <3>2
    <3> QED  BY <3>1, <3>3, EmptySeq
  <2>3. r = [b EXCEPT !.msgs = msgs, !.msg = b.len, !.len = b.len + MsgHdr + SetHdr + len]
    BY <1>3 DEF AddRecord
  <2>4. r = [msgs |-> msgs, len |-> b.len + MsgHdr + SetHdr + len, msg |-> b.len, toff |-> b.toff]
    <3> HIDE DEF r, msgs
    <3> QED  BY <2>3, <1>1
  <2> HIDE DEF r, msgs
  <2> QED  BY <2>2, <2>4, <1>1, <1>2 DEF BufferOK, r
<1>4. CASE ~NewMessage(b, rec.tid, etime, len)
  <2> DEFINE k == Len(b.msgs)
             m == [b.msgs[k] EXCEPT !.recs = Append(b.msgs[k].recs, rec)]
             msgs == [b.msgs EXCEPT ![k] = m]
             head == IF LastRec(b).tid = rec.tid THEN 0 ELSE SetHdr
             more == len + head
  <2>1. b.msgs # <<>>
    BY <1>4 DEF NewMessage
  <2>2. k \in 1..Len(b.msgs)
    BY <2>1, <1>1, EmptySeq
  <2>3. b.msgs[k] \in Messages
    BY <2>2, <1>1, ElementOfSeq
  <2>4. m \in Messages
    <3>1. Append(b.msgs[k].recs, rec) \in Seq(Records)
      BY <2>3, AppendProperties DEF Messages
    <3> QED  BY <3>1, <2>3 DEF Messages
  <2>5. msgs \in Seq(Messages) /\ msgs # <<>>
    <3> HIDE DEF m
    <3>1. msgs \in Seq(Messages) /\ Len(msgs) = Len(b.msgs)
      BY <1>1, <2>2, <2>4, ExceptSeq
    <3> QED  BY <3>1, <2>2, EmptySeq
  <2>6. head \in Nat /\ more \in Nat /\ more <= MsgHdr + SetHdr + len
    BY <1>2
  <2>7. r = [b EXCEPT !.msgs = msgs, !.len = b.len + more]
    <3>1. r = [b EXCEPT !.msgs = msgs, !.len = b.len + len + head]
      BY <1>4 DEF AddRecord
    <3> HIDE DEF head
    <3>2. b.len + len + head = b.len + more
      BY <2>6, <1>1
    <3> QED  BY <3>1, <3>2
  <2>8. r = [msgs |-> msgs, len |-> b.len + more, msg |-> b.msg, toff |-> b.toff]
    <3> HIDE DEF r, msgs, more
    <3> QED  BY <2>7, <1>1
  <2> HIDE DEF r, msgs, more
  <2>9. b.len + more \in Nat /\ DataHdr <= b.len + more /\ b.len + more <= Capacity
    BY <2>6, <1>1, <1>2, SMTT(30)
  <2> QED  BY <2>5, <2>8, <2>9, <1>1 DEF BufferOK, r
<1> QED  BY <1>3, <1>4

\* What is in order at some offset is in order further on.
LEMMA ContextMonotonic ==
  ASSUME NEW i, NEW off \in Nat, ContextOK(i, off), NEW more \in Nat, off <= more
  PROVE  ContextOK(i, more)
BY DEF ContextOK, BufferOK

LEMMA NewContextOK ==
  ASSUME NEW off \in Nat, HeaderLen <= off, NEW etime \in ETimes
  PROVE  ContextOK([NewContext EXCEPT !.etime = etime], off)
<1> DEFINE i == [NewContext EXCEPT !.etime = etime]
<1>1. i = [toff |-> 0, tmplts |-> NoTemplates, last |-> NoTmplt, etime |-> etime,
           buf |-> <<EmptyBuffer, EmptyBuffer>>, main |-> 1, req |-> [st |-> "none"]]
  BY DEF NewContext, NoRequest
<1>2. 0 < off
  BY Lengths
<1>3. NoTemplates \in [TIDs -> Defs \cup {NoDef}]
  BY DEF NoTemplates
<1>4. [st |-> "none"] \in Requests /\ [st |-> "none"].st = "none"
  BY DEF Requests
<1> HIDE DEF i
<1>5. i.buf[1] = EmptyBuffer /\ i.buf[2] = EmptyBuffer /\ i.buf = <<i.buf[1], i.buf[2]>>
  BY <1>1
<1>6. \A k \in {1, 2} : BufferOK(i.buf[k]) /\ i.buf[k].toff < off
  BY <1>2, <1>5, EmptyBufferOK
<1>7. i = [toff |-> i.toff, tmplts |-> i.tmplts, last |-> i.last, etime |-> i.etime,
           buf |-> i.buf, main |-> i.main, req |-> i.req]
  BY <1>1
<1>8. i.toff = 0 /\ i.tmplts = NoTemplates /\ i.last = NoTmplt /\ i.etime = etime /\ i.main = 1
      /\ i.req = [st |-> "none"]
  BY <1>1
<1>9. ContextOK(i, off)
  BY <1>2, <1>3, <1>4, <1>5, <1>6, <1>7, <1>8 DEF ContextOK
<1> QED  BY <1>9 DEF i

\* A writer with another context, table, place to go on and number of records.
Changed(w, ctx, i, table, off, recs) ==
  [st |-> w.st, io |-> w.io, sessions |-> w.sessions, ctxs |-> [w.ctxs EXCEPT ![ctx] = i],
   sel |-> w.sel, table |-> table, off |-> off, recs |-> recs]

MayChange(w, ctx, i, table, off, recs) ==
  /\ WriterOK(w) /\ ctx \in DOMAIN w.ctxs /\ ContextOK(i, off)
  /\ table \in Contents /\ off \in Nat /\ w.off <= off /\ recs \in Nat

LEMMA ChangedOK ==
  ASSUME NEW w, NEW ctx, NEW i, NEW table, NEW off, NEW recs,
         MayChange(w, ctx, i, table, off, recs)
  PROVE  LET v == Changed(w, ctx, i, table, off, recs)
         IN  /\ WriterOK(v)
             /\ v.st = w.st /\ v.io = w.io /\ v.sessions = w.sessions /\ v.sel = w.sel
             /\ v.table = table /\ v.off = off /\ v.recs = recs
             /\ DOMAIN v.ctxs = DOMAIN w.ctxs /\ v.ctxs[ctx] = i
             /\ \A c \in DOMAIN w.ctxs : c # ctx => v.ctxs[c] = w.ctxs[c]
<1> DEFINE v == Changed(w, ctx, i, table, off, recs)
           cs == [w.ctxs EXCEPT ![ctx] = i]
<1>0. /\ WriterOK(w) /\ ctx \in DOMAIN w.ctxs /\ ContextOK(i, off)
      /\ table \in Contents /\ off \in Nat /\ w.off <= off /\ recs \in Nat
  BY DEF MayChange
<1>1. /\ w.st \in {"open", "fatal", "closing"} /\ w.io \in Ios
      /\ w.sessions \in [DOMAIN w.sessions -> Dscs] /\ DOMAIN w.sessions \subseteq 1..SidMax
      /\ w.ctxs = [c \in DOMAIN w.ctxs |-> w.ctxs[c]] /\ DOMAIN w.ctxs \subseteq Ctxs
      /\ \A c \in DOMAIN w.ctxs : c[1] \in DOMAIN w.sessions /\ ContextOK(w.ctxs[c], w.off)
      /\ w.sel \in DOMAIN w.ctxs \cup {NoCtx}
      /\ w.off \in Nat /\ HeaderLen <= w.off
  BY <1>0 DEF WriterOK
<1>2. /\ DOMAIN cs = DOMAIN w.ctxs /\ cs[ctx] = i
      /\ \A c \in DOMAIN w.ctxs : c # ctx => cs[c] = w.ctxs[c]
      /\ cs = [c \in DOMAIN cs |-> cs[c]]
  BY <1>0, <1>1
<1> HIDE DEF cs
<1>3. /\ v = [st |-> v.st, io |-> v.io, sessions |-> v.sessions, ctxs |-> v.ctxs, sel |-> v.sel,
              table |-> v.table, off |-> v.off, recs |-> v.recs]
      /\ v.st = w.st /\ v.io = w.io /\ v.sessions = w.sessions /\ v.sel = w.sel
      /\ v.table = table /\ v.off = off /\ v.recs = recs /\ v.ctxs = cs
  BY DEF Changed, cs
<1> HIDE DEF v
<1>4. ASSUME NEW c \in DOMAIN v.ctxs
      PROVE  c[1] \in DOMAIN v.sessions /\ ContextOK(v.ctxs[c], v.off)
  <2>1. c \in DOMAIN w.ctxs
    BY <1>2, <1>3
  <2>2. CASE c = ctx
    BY <2>1, <2>2, <1>0, <1>1, <1>2, <1>3
  <2>3. CASE c # ctx
    <3>1. ContextOK(w.ctxs[c], w.off) /\ c[1] \in DOMAIN w.sessions
      BY <2>1, <1>1
    <3>2. ContextOK(w.ctxs[c], off)
      BY <3>1, <1>0, <1>1, ContextMonotonic
    <3> QED  BY <3>1, <3>2, <2>1, <2>3, <1>2, <1>3
  <2> QED  BY <2>2, <2>3
<1>5. HeaderLen <= v.off
  BY <1>0, <1>1, <1>3, Lengths
<1>6. WriterOK(v)
  BY <1>0, <1>1, <1>2, <1>3, <1>4, <1>5 DEF WriterOK
<1> QED  BY <1>2, <1>3, <1>6 DEF v

LEMMA PendingPlace ==
  ASSUME NEW w, WriterOK(w), NEW c \in Pending(w)
  PROVE  /\ c \in DOMAIN w.ctxs /\ ContextOK(w.ctxs[c], w.off)
         /\ w.ctxs[c].req.st = "started" /\ w.ctxs[c].req \in [st : {"started"}, off : Nat, buf : {1, 2}]
         /\ From(w.ctxs[c]) \in Nat /\ To(w.ctxs[c]) \in Nat /\ From(w.ctxs[c]) < To(w.ctxs[c])
<1> DEFINE i == w.ctxs[c]
<1>1. c \in DOMAIN w.ctxs /\ i.req.st = "started" /\ ContextOK(i, w.off)
  BY DEF Pending, WriterOK
<1>2. i.req \in [st : {"started"}, off : Nat, buf : {1, 2}]
  BY <1>1 DEF ContextOK, Requests
<1>3. i.buf[i.req.buf].len \in Nat /\ DataHdr <= i.buf[i.req.buf].len /\ i.req.off \in Nat
  BY <1>1, <1>2 DEF ContextOK, BufferOK
<1> HIDE DEF i
<1>4. From(i) \in Nat /\ To(i) \in Nat /\ From(i) < To(i)
  BY <1>3, Lengths DEF From, To
<1> QED  BY <1>1, <1>2, <1>4 DEF i

\* From the file f and the writer w to g and v: what is added to the file lies
\* in the cells between the places where they go on, and so does the block of
\* a write that is started, at most one, if nothing is added to the file.
SameRequest(w, v, c) ==
  c \in Pending(w) /\ From(v.ctxs[c]) = From(w.ctxs[c]) /\ To(v.ctxs[c]) = To(w.ctxs[c])
Moves(f, w, g, v, ctx) ==
  /\ w.off <= v.off
  /\ \A x \in g.ext : Whole(x) => x \in f.ext \/ (w.off <= x.off /\ End(x) <= v.off)
  /\ \A c \in Pending(v) : c # ctx => SameRequest(w, v, c)
  /\ ctx \in Pending(v) =>
       \/ SameRequest(w, v, ctx)
       \/ /\ From(v.ctxs[ctx]) = w.off /\ To(v.ctxs[ctx]) = v.off
          /\ \A x \in g.ext : Whole(x) => x \in f.ext

LEMMA PlacedKept ==
  ASSUME NEW f, FileOK(f), NEW w, WriterOK(w), Placed(f, w),
         NEW g, FileOK(g), NEW v, WriterOK(v), NEW ctx, Moves(f, w, g, v, ctx)
  PROVE  Placed(g, v)
<1>1. w.off \in Nat /\ v.off \in Nat /\ w.off <= v.off /\ HeaderLen <= w.off /\ HeaderLen \in Nat
  BY Lengths DEF WriterOK, Moves
<1>2. ASSUME NEW x \in g.ext PROVE End(x) \in Nat /\ x.off \in Nat
  BY DEF FileOK, ExtentOK, End
<1>3. ASSUME NEW x \in g.ext, Whole(x) PROVE End(x) <= v.off
  BY <1>1, <1>2, <1>3 DEF Placed, Moves
<1>4. ASSUME NEW c \in Pending(v), SameRequest(w, v, c)
      PROVE  /\ HeaderLen <= From(v.ctxs[c]) /\ To(v.ctxs[c]) <= w.off
             /\ \A e \in g.ext : Whole(e) => End(e) <= From(v.ctxs[c]) \/ To(v.ctxs[c]) <= e.off
  <2>1. /\ HeaderLen <= From(w.ctxs[c]) /\ To(w.ctxs[c]) <= w.off
        /\ \A e \in f.ext : Whole(e) => End(e) <= From(w.ctxs[c]) \/ To(w.ctxs[c]) <= e.off
    BY <1>4 DEF SameRequest, Placed
  <2>2. From(v.ctxs[c]) = From(w.ctxs[c]) /\ To(v.ctxs[c]) = To(w.ctxs[c])
    BY <1>4 DEF SameRequest
  <2>3. From(v.ctxs[c]) \in Nat /\ To(v.ctxs[c]) \in Nat
    BY PendingPlace
  <2>4. ASSUME NEW e \in g.ext, Whole(e)
        PROVE  End(e) <= From(v.ctxs[c]) \/ To(v.ctxs[c]) <= e.off
    <3>1. CASE e \in f.ext
      BY <3>1, <2>1, <2>2, <2>4
    <3>2. CASE w.off <= e.off
      BY <3>2, <2>1, <2>2, <2>3, <1>1, <1>2
    <3> QED  BY <3>1, <3>2, <2>4 DEF Moves
  <2> QED  BY <2>1, <2>2, <2>4
<1>5. ASSUME NEW c \in Pending(v), ~SameRequest(w, v, c)
      PROVE  /\ c = ctx /\ From(v.ctxs[c]) = w.off /\ To(v.ctxs[c]) = v.off
             /\ \A e \in g.ext : Whole(e) => End(e) <= From(v.ctxs[c])
  <2>1. c = ctx /\ From(v.ctxs[c]) = w.off /\ To(v.ctxs[c]) = v.off
        /\ \A x \in g.ext : Whole(x) => x \in f.ext
    BY <1>5 DEF Moves
  <2> QED  BY <2>1 DEF Placed
<1>6. ASSUME NEW c \in Pending(v), NEW d \in Pending(v), c # d
      PROVE  To(v.ctxs[c]) <= From(v.ctxs[d]) \/ To(v.ctxs[d]) <= From(v.ctxs[c])
  <2>0. /\ From(v.ctxs[c]) \in Nat /\ To(v.ctxs[c]) \in Nat
        /\ From(v.ctxs[d]) \in Nat /\ To(v.ctxs[d]) \in Nat
    BY PendingPlace
  <2>1. CASE SameRequest(w, v, c) /\ SameRequest(w, v, d)
    BY <2>1, <1>6 DEF SameRequest, Placed
  <2>2. CASE SameRequest(w, v, c) /\ ~SameRequest(w, v, d)
    BY <2>0, <2>2, <1>1, <1>4, <1>5
  <2>3. CASE ~SameRequest(w, v, c) /\ SameRequest(w, v, d)
    BY <2>0, <2>3, <1>1, <1>4, <1>5
  <2>4. CASE ~SameRequest(w, v, c) /\ ~SameRequest(w, v, d)
    BY <2>4, <1>5, <1>6
  <2> QED  BY <2>1, <2>2, <2>3, <2>4
<1>7. ASSUME NEW c \in Pending(v)
      PROVE  /\ HeaderLen <= From(v.ctxs[c]) /\ To(v.ctxs[c]) <= v.off
             /\ \A e \in g.ext : Whole(e) => End(e) <= From(v.ctxs[c]) \/ To(v.ctxs[c]) <= e.off
  <2>0. From(v.ctxs[c]) \in Nat /\ To(v.ctxs[c]) \in Nat
    BY PendingPlace
  <2>1. CASE SameRequest(w, v, c)
    BY <2>0, <2>1, <1>1, <1>4
  <2>2. CASE ~SameRequest(w, v, c)
    BY <2>0, <2>2, <1>1, <1>5
  <2> QED  BY <2>1, <2>2
<1> QED  BY <1>3, <1>6, <1>7 DEF Placed

(* Flushing.  "a" is what a call works on: the file, the writer and whether  *)
(* no exception was thrown.                                                  *)

AOK(a) ==
  /\ a = [file |-> a.file, w |-> a.w, ok |-> a.ok] /\ a.ok \in BOOLEAN
  /\ FileOK(a.file) /\ WriterOK(a.w) /\ Placed(a.file, a.w)

\* How a flush of a context may change it.
After(a, r, ctx) ==
  /\ AOK(r) /\ Kept(a.file, r.file) /\ r.file.hdr = a.file.hdr
  /\ r.ok => a.ok
  /\ r.w.st = a.w.st /\ r.w.io = a.w.io /\ r.w.sessions = a.w.sessions /\ r.w.sel = a.w.sel
  /\ r.w.recs = a.w.recs /\ DOMAIN r.w.ctxs = DOMAIN a.w.ctxs
  /\ \A c \in DOMAIN a.w.ctxs : c # ctx => r.w.ctxs[c] = a.w.ctxs[c]

LEMMA AfterItself ==
  ASSUME NEW a, AOK(a), NEW ctx
  PROVE  After(a, a, ctx)
BY DEF After, Kept

LEMMA AfterTransitive ==
  ASSUME NEW a, NEW b, NEW r, NEW ctx, After(a, b, ctx), After(b, r, ctx)
  PROVE  After(a, r, ctx)
BY DEF After, Kept

LEMMA StaysPlaced ==
  ASSUME NEW f, FileOK(f), NEW w, WriterOK(w), Placed(f, w),
         NEW g, FileOK(g), \A x \in g.ext : Whole(x) => x \in f.ext
  PROVE  Placed(g, w)
<1>1. w.off \in Nat
  BY DEF WriterOK
<1>2. Moves(f, w, g, w, NoCtx)
  BY <1>1 DEF Moves, SameRequest
<1> QED  BY <1>2, PlacedKept

\* A step fails, having written to the file.
IsOtherFile(a, g, r) ==
  /\ r = [a EXCEPT !.file = g, !.ok = FALSE]
  /\ AOK(a) /\ FileOK(g) /\ g.hdr = a.file.hdr /\ Kept(a.file, g)
  /\ \A x \in g.ext : Whole(x) => x \in a.file.ext
Failing(a, g, r) == r.file = g /\ r.w = a.w /\ r.ok = FALSE

LEMMA OtherFile ==
  ASSUME NEW a, NEW g, NEW r, IsOtherFile(a, g, r), NEW ctx
  PROVE  After(a, r, ctx) /\ Failing(a, g, r)
<1> USE DEF IsOtherFile
<1>0. a = [file |-> a.file, w |-> a.w, ok |-> a.ok]
  BY DEF AOK
<1>1. FileOK(a.file) /\ WriterOK(a.w) /\ Placed(a.file, a.w)
  BY DEF AOK
<1>2. r = [file |-> g, w |-> a.w, ok |-> FALSE]
  BY <1>0
<1>3. Placed(g, a.w)
  BY <1>1, StaysPlaced
<1>4. r.file = g /\ r.w = a.w /\ r.ok = FALSE /\ r = [file |-> r.file, w |-> r.w, ok |-> r.ok]
  BY <1>2
<1>5. After(a, r, ctx)
  BY <1>1, <1>3, <1>4 DEF After, AOK
<1> QED  BY <1>4, <1>5 DEF Failing

\* Places of complete blocks are disjoint from what a writer appends.
LEMMA RoomBehind ==
  ASSUME NEW f, NEW w, WriterOK(w), Placed(f, w)
  PROVE  /\ w.off \in Nat /\ HeaderLen <= w.off
         /\ \A n : \A e \in f.ext : Whole(e) => End(e) <= w.off \/ w.off + n <= e.off
         /\ \A e \in f.ext : Whole(e) => End(e) <= w.off
BY DEF Placed, WriterOK

\* The templates are in the file: they were, or a block of them was added.
SameTemplates(i, j) == j.tmplts = i.tmplts /\ j.last = i.last /\ j.etime = i.etime
WroteTemplates(a, ctx, r) ==
  LET blk == TemplateBlock(ctx, a.w.ctxs[ctx].tmplts)
  IN  IF a.w.ctxs[ctx].toff # 0 THEN r = a
      ELSE /\ r.w.ctxs[ctx].toff = a.w.off
           /\ r.file = Written(a.file, a.w.off, blk, blk.len)

LEMMA FlushTemplatesKeeps ==
  ASSUME NEW a, AOK(a), a.ok, NEW ctx \in DOMAIN a.w.ctxs, NEW fault, fault.n \in Nat
  PROVE  LET r == FlushTemplates(a, ctx, fault)
         IN  /\ After(a, r, ctx)
             /\ r.w.ctxs[ctx].buf = a.w.ctxs[ctx].buf /\ r.w.ctxs[ctx].main = a.w.ctxs[ctx].main
             /\ r.w.ctxs[ctx].req = a.w.ctxs[ctx].req
             /\ SameTemplates(a.w.ctxs[ctx], r.w.ctxs[ctx]) /\ r.w.table = a.w.table
             /\ r.ok => WroteTemplates(a, ctx, r)
<1> DEFINE i == a.w.ctxs[ctx]
           w == a.w
           blk == TemplateBlock(ctx, i.tmplts)
           r == FlushTemplates(a, ctx, fault)
<1>1. /\ a = [file |-> a.file, w |-> a.w, ok |-> a.ok]
      /\ FileOK(a.file) /\ WriterOK(a.w) /\ Placed(a.file, a.w)
  BY DEF AOK
<1>2. BlockOK(blk) /\ blk.len \in Nat \ {0}
  BY TemplateBlockOK DEF BlockOK
<1>3. /\ w.off \in Nat /\ HeaderLen <= w.off
      /\ \A n : \A e \in a.file.ext : Whole(e) => End(e) <= w.off \/ w.off + n <= e.off
  BY <1>1, RoomBehind
<1> HIDE DEF blk
<1>4. CASE i.toff # 0
  BY <1>4, AfterItself DEF FlushTemplates, SameTemplates, WroteTemplates
<1>5. CASE i.toff = 0 /\ fault.at = FaultOf(ctx, "tmplts")
  <2> DEFINE g == Partial(a.file, w.off, blk, fault)
  <2>1. /\ FileOK(g) /\ g.hdr = a.file.hdr /\ Kept(a.file, g)
        /\ \A x \in g.ext : Whole(x) => x \in a.file.ext
    BY <1>1, <1>2, <1>3, PartialKeeps
  <2>2. r = [a EXCEPT !.file = g, !.ok = FALSE]
    BY <1>5 DEF FlushTemplates, blk
  <2> HIDE DEF g, r
  <2>3. After(a, r, ctx) /\ r.w = a.w /\ r.ok = FALSE
    <3>1. IsOtherFile(a, g, r)
      BY <2>1, <2>2 DEF IsOtherFile
    <3>2. After(a, r, ctx) /\ Failing(a, g, r)
      BY <3>1, OtherFile
    <3> QED  BY <3>2 DEF Failing
  <2> QED  BY <2>3 DEF r, SameTemplates
<1>6. CASE i.toff = 0 /\ fault.at # FaultOf(ctx, "tmplts")
  <2> DEFINE g == Written(a.file, w.off, blk, blk.len)
             j == [i EXCEPT !.toff = w.off]
             off == w.off + blk.len
             v == Changed(w, ctx, j, w.table, off, w.recs)
  <2>1. /\ FileOK(g) /\ g.hdr = a.file.hdr /\ Kept(a.file, g)
        /\ \A x \in g.ext : Whole(x) =>
             \/ x \in a.file.ext
             \/ x.off = w.off /\ End(x) = off
    <3>1. blk.len <= blk.len
      BY <1>2
    <3>2. \A e \in a.file.ext : Whole(e) => End(e) <= w.off \/ w.off + blk.len <= e.off
      BY <1>3
    <3> QED  BY <3>1, <3>2, <1>1, <1>2, <1>3, WrittenKeeps
  <2>2. ContextOK(i, w.off)
    BY <1>1 DEF WriterOK
  <2>3. off \in Nat /\ w.off < off /\ w.off <= off
    BY <1>2, <1>3
  <2>4. /\ ContextOK(j, off) /\ j.buf = i.buf /\ j.main = i.main /\ j.req = i.req
        /\ SameTemplates(i, j) /\ j.toff = w.off
    <3>1. ContextOK(i, off)
      BY <2>2, <2>3, <1>3, ContextMonotonic
    <3>2. /\ i = [toff |-> i.toff, tmplts |-> i.tmplts, last |-> i.last, etime |-> i.etime,
                  buf |-> i.buf, main |-> i.main, req |-> i.req]
      BY <3>1 DEF ContextOK
    <3> HIDE DEF i, off
    <3>3. j = [toff |-> w.off, tmplts |-> i.tmplts, last |-> i.last, etime |-> i.etime,
               buf |-> i.buf, main |-> i.main, req |-> i.req]
      BY <3>2
    <3> HIDE DEF j
    <3>4. OtherBuffer(j) = OtherBuffer(i)
      BY <3>3 DEF OtherBuffer
    <3>5. SameTemplates(i, j) /\ j.toff = w.off
      BY <3>3 DEF SameTemplates
    <3> QED  BY <3>1, <3>3, <3>4, <3>5, <2>3, <1>3 DEF ContextOK
  <2>5. r = [file |-> g, w |-> v, ok |-> a.ok]
    <3>1. r = [a EXCEPT !.file = g, !.w.ctxs[ctx].toff = w.off, !.w.off = off]
      BY <1>6 DEF FlushTemplates, blk
    <3>2. /\ w = [st |-> w.st, io |-> w.io, sessions |-> w.sessions, ctxs |-> w.ctxs, sel |-> w.sel,
                  table |-> w.table, off |-> w.off, recs |-> w.recs]
      BY <1>1 DEF WriterOK
    <3> HIDE DEF g, off
    <3>3. [w EXCEPT !.ctxs[ctx].toff = w.off, !.off = off] = v
      <4> DEFINE cs == [w.ctxs EXCEPT ![ctx] = j]
                 u == [w EXCEPT !.ctxs[ctx].toff = w.off, !.off = off]
      <4>1. u = [w EXCEPT !.ctxs = cs, !.off = off]
        OBVIOUS
      <4> HIDE DEF cs, w, u
      <4>2. u = [st |-> w.st, io |-> w.io, sessions |-> w.sessions, ctxs |-> cs,
                 sel |-> w.sel, table |-> w.table, off |-> off, recs |-> w.recs]
        BY <3>2, <4>1
      <4> QED  BY <4>2 DEF Changed, cs, u
    <3>4. r = [file |-> g, w |-> [w EXCEPT !.ctxs[ctx].toff = w.off, !.off = off], ok |-> a.ok]
      BY <3>1, <1>1
    <3> QED  BY <3>3, <3>4
  <2>6. w.table \in Contents /\ w.recs \in Nat
    BY <1>1 DEF WriterOK
  <2>7. /\ WriterOK(v)
        /\ v.st = w.st /\ v.io = w.io /\ v.sessions = w.sessions /\ v.sel = w.sel
        /\ v.table = w.table /\ v.off = off /\ v.recs = w.recs
        /\ DOMAIN v.ctxs = DOMAIN w.ctxs /\ v.ctxs[ctx] = j
        /\ \A c \in DOMAIN w.ctxs : c # ctx => v.ctxs[c] = w.ctxs[c]
    <3>1. WriterOK(w) /\ ctx \in DOMAIN w.ctxs
      BY <1>1
    <3>2. MayChange(w, ctx, j, w.table, off, w.recs)
      <4> HIDE DEF j, off, w
      <4> QED  BY <2>3, <2>4, <2>6, <3>1 DEF MayChange
    <3> HIDE DEF j, off, w
    <3> QED  BY <3>2, ChangedOK
  <2>12. g = Written(a.file, w.off, blk, blk.len)
    OBVIOUS
  <2> HIDE DEF g, j, v, r, off
  <2>8. Moves(a.file, w, g, v, ctx)
    <3>1. \A c \in Pending(v) : SameRequest(w, v, c)
      BY <2>4, <2>7 DEF Pending, SameRequest, From, To
    <3> QED  BY <3>1, <2>1, <2>3, <2>7, <1>3 DEF Moves
  <2>9. Placed(g, v)
    BY <2>1, <2>7, <2>8, <1>1, PlacedKept
  <2>10. AOK(r) /\ r.file = g /\ r.w = v /\ r.ok = a.ok
    BY <2>1, <2>5, <2>7, <2>9 DEF AOK
  <2>11. After(a, r, ctx)
    BY <2>1, <2>7, <2>10 DEF After
  <2>13. WroteTemplates(a, ctx, r)
    BY <1>6, <2>4, <2>7, <2>10, <2>12 DEF WroteTemplates, blk
  <2> QED  BY <2>4, <2>7, <2>10, <2>11, <2>13 DEF r
<1> QED  BY <1>4, <1>5, <1>6

\* Contexts with another buffer or request.
LEMMA ContextFields ==
  ASSUME NEW i, NEW off, ContextOK(i, off)
  PROVE  /\ i = [toff |-> i.toff, tmplts |-> i.tmplts, last |-> i.last, etime |-> i.etime,
                 buf |-> i.buf, main |-> i.main, req |-> i.req]
         /\ i.toff \in Nat /\ i.toff < off /\ i.main \in {1, 2} /\ OtherBuffer(i) \in {1, 2}
         /\ OtherBuffer(i) # i.main
         /\ i.buf = <<i.buf[1], i.buf[2]>>
         /\ BufferOK(Main(i)) /\ Main(i).toff < off
BY DEF ContextOK, OtherBuffer, Main

LEMMA BufferChanged ==
  ASSUME NEW i, NEW off, ContextOK(i, off), NEW k \in {1, 2}, NEW b, BufferOK(b), b.toff < off
  PROVE  LET s == [i.buf EXCEPT ![k] = b]
         IN  /\ s = <<s[1], s[2]>> /\ s[k] = b /\ \A m \in {1, 2} : m # k => s[m] = i.buf[m]
             /\ \A m \in {1, 2} : BufferOK(s[m]) /\ s[m].toff < off
<1>1. i.buf = <<i.buf[1], i.buf[2]>> /\ \A m \in {1, 2} : BufferOK(i.buf[m]) /\ i.buf[m].toff < off
  BY DEF ContextOK
<1> DEFINE s == [i.buf EXCEPT ![k] = b]
<1>2. DOMAIN i.buf = {1, 2}
  BY <1>1
<1>3. s[k] = b /\ \A m \in {1, 2} : m # k => s[m] = i.buf[m]
  BY <1>2
<1>4. s = <<s[1], s[2]>>
  <2>1. CASE k = 1
    BY <2>1, <1>1
  <2>2. CASE k = 2
    BY <2>2, <1>1
  <2> QED  BY <2>1, <2>2
<1> QED  BY <1>1, <1>3, <1>4

\* A record in the buffer being filled, or an empty one there.
NewMain(j, i, off, b) ==
  /\ j = [i EXCEPT !.buf[i.main] = b]
  /\ off \in Nat /\ ContextOK(i, off) /\ BufferOK(b) /\ b.toff < off

LEMMA MainChanged ==
  ASSUME NEW i, NEW off, NEW b, NEW j, NewMain(j, i, off, b)
  PROVE  /\ ContextOK(j, off) /\ Main(j) = b /\ j.req = i.req /\ j.main = i.main
         /\ j.req.st = "started" => j.buf[j.req.buf] = i.buf[i.req.buf]
         /\ j.toff = i.toff /\ j.tmplts = i.tmplts /\ j.last = i.last /\ j.etime = i.etime
<1> DEFINE s == [i.buf EXCEPT ![i.main] = b]
<1>0. off \in Nat /\ ContextOK(i, off) /\ BufferOK(b) /\ b.toff < off
  BY DEF NewMain
<1>1. /\ i = [toff |-> i.toff, tmplts |-> i.tmplts, last |-> i.last, etime |-> i.etime,
              buf |-> i.buf, main |-> i.main, req |-> i.req]
      /\ i.main \in {1, 2} /\ OtherBuffer(i) \in {1, 2} /\ OtherBuffer(i) # i.main
  BY <1>0, ContextFields
<1>2. /\ s = <<s[1], s[2]>> /\ s[i.main] = b /\ \A m \in {1, 2} : m # i.main => s[m] = i.buf[m]
      /\ \A m \in {1, 2} : BufferOK(s[m]) /\ s[m].toff < off
  BY <1>0, <1>1, BufferChanged
<1>3. j = [i EXCEPT !.buf = s]
  BY DEF NewMain
<1> HIDE DEF s
<1>4. j = [toff |-> i.toff, tmplts |-> i.tmplts, last |-> i.last, etime |-> i.etime,
           buf |-> s, main |-> i.main, req |-> i.req]
  BY <1>1, <1>3
<1>5. /\ j.toff = i.toff /\ j.tmplts = i.tmplts /\ j.last = i.last /\ j.etime = i.etime
      /\ j.buf = s /\ j.main = i.main /\ j.req = i.req
      /\ j = [toff |-> j.toff, tmplts |-> j.tmplts, last |-> j.last, etime |-> j.etime,
              buf |-> j.buf, main |-> j.main, req |-> j.req]
  BY <1>4
<1>6. OtherBuffer(j) = OtherBuffer(i) /\ Main(j) = b
  BY <1>2, <1>5 DEF OtherBuffer, Main
<1>7. ContextOK(j, off)
  BY <1>0, <1>2, <1>5, <1>6 DEF ContextOK
<1>8. j.req.st = "started" => j.buf[j.req.buf] = i.buf[i.req.buf]
  BY <1>0, <1>1, <1>2, <1>5 DEF ContextOK
<1> QED  BY <1>5, <1>6, <1>7, <1>8

\* A write is started on the buffer that was filled, and the other one is next.
LEMMA WriteStarted ==
  ASSUME NEW i, NEW off \in Nat, ContextOK(i, off), NEW b, BufferOK(b), b.toff < off
  PROVE  LET j == Started(i, b, off)
         IN  /\ ContextOK(j, off) /\ Main(j) = EmptyBuffer
             /\ j.req.st = "started" /\ From(j) = off /\ To(j) = off + b.len
             /\ j.buf[j.req.buf] = b /\ j.toff = i.toff /\ SameTemplates(i, j)
<1> DEFINE o == OtherBuffer(i)
           r == [st |-> "started", off |-> off, buf |-> i.main]
           t == [i.buf EXCEPT ![i.main] = b]
           s == [i.buf EXCEPT ![i.main] = b, ![o] = EmptyBuffer]
           j == Started(i, b, off)
<1>1. /\ i = [toff |-> i.toff, tmplts |-> i.tmplts, last |-> i.last, etime |-> i.etime,
              buf |-> i.buf, main |-> i.main, req |-> i.req]
      /\ i.main \in {1, 2} /\ o \in {1, 2} /\ o # i.main
      /\ i.buf = <<i.buf[1], i.buf[2]>>
  BY ContextFields
<1>2. DOMAIN i.buf = {1, 2}
  BY <1>1
<1>3. s[i.main] = b /\ s[o] = EmptyBuffer /\ s = <<s[1], s[2]>>
  <2> HIDE DEF o
  <2>1. CASE i.main = 1
    BY <2>1, <1>1, <1>2
  <2>2. CASE i.main = 2
    BY <2>2, <1>1, <1>2
  <2> QED  BY <1>1, <2>1, <2>2
<1>4. 0 < off
  BY DEF ContextOK
<1>5. r \in Requests /\ r.st = "started" /\ r.off = off /\ r.buf = i.main
  BY <1>1 DEF Requests
<1> HIDE DEF j, s, r, o
<1>6. j = [toff |-> i.toff, tmplts |-> i.tmplts, last |-> i.last, etime |-> i.etime,
           buf |-> s, main |-> o, req |-> r]
  <2>1. j = [i EXCEPT !.buf = s, !.main = o, !.req = r]
    BY DEF j, s, r, o, Started
  <2> QED  BY <1>1, <2>1
<1>7. /\ j.toff = i.toff /\ j.tmplts = i.tmplts /\ j.last = i.last /\ j.etime = i.etime
      /\ j.buf = s /\ j.main = o /\ j.req = r
      /\ j = [toff |-> j.toff, tmplts |-> j.tmplts, last |-> j.last, etime |-> j.etime,
              buf |-> j.buf, main |-> j.main, req |-> j.req]
  BY <1>6
<1>8. OtherBuffer(j) = i.main
  BY <1>1, <1>7 DEF OtherBuffer, o
<1>9. \A m \in {1, 2} : BufferOK(s[m]) /\ s[m].toff < off
  BY <1>1, <1>3, <1>4, EmptyBufferOK
<1>10. ContextOK(j, off)
  BY <1>1, <1>3, <1>5, <1>7, <1>8, <1>9 DEF ContextOK
<1>11. Main(j) = EmptyBuffer
  BY <1>3, <1>7 DEF Main
<1>12. From(j) = off /\ To(j) = off + b.len
  BY <1>3, <1>5, <1>7 DEF From, To
<1>13. j.buf[j.req.buf] = b /\ SameTemplates(i, j)
  BY <1>3, <1>5, <1>7 DEF SameTemplates
<1> QED  BY <1>5, <1>7, <1>10, <1>11, <1>12, <1>13 DEF j, s, r, o

\* Another context after a block was written or will be, as a table with an
\* entry more lists it.
LEMMA EntryAdded ==
  ASSUME NEW c \in Contents, NEW off \in Nat, NEW len \in Nat, NEW toff \in Nat, NEW ctx \in Ctxs
  PROVE  [c EXCEPT !.blocks = Append(@, DataInfo(off, len, toff, ctx))] \in Contents
<1>1. DataInfo(off, len, toff, ctx) \in [off : Nat, len : Nat, toff : Nat, ctx : Ctxs]
  BY DEF DataInfo
<1>2. c.blocks \in Seq([off : Nat, len : Nat, toff : Nat, ctx : Ctxs])
  BY DEF Contents
<1>3. Append(c.blocks, DataInfo(off, len, toff, ctx)) \in Seq([off : Nat, len : Nat, toff : Nat, ctx : Ctxs])
  BY <1>1, <1>2, AppendProperties
<1> QED  BY <1>3 DEF Contents

\* What is left of a = [file, w, ok] after a step that succeeds.
StepOK(a, g, v, ctx, r) ==
  /\ FileOK(g) /\ Kept(a.file, g) /\ g.hdr = a.file.hdr
  /\ WriterOK(v) /\ Moves(a.file, a.w, g, v, ctx)
  /\ v.st = a.w.st /\ v.io = a.w.io /\ v.sessions = a.w.sessions /\ v.sel = a.w.sel
  /\ v.recs = a.w.recs /\ DOMAIN v.ctxs = DOMAIN a.w.ctxs
  /\ \A c \in DOMAIN a.w.ctxs : c # ctx => v.ctxs[c] = a.w.ctxs[c]
  /\ r = [file |-> g, w |-> v, ok |-> a.ok]

LEMMA StepAfter ==
  ASSUME NEW a, AOK(a), NEW g, NEW v, NEW ctx, NEW r, StepOK(a, g, v, ctx, r)
  PROVE  After(a, r, ctx) /\ r.w = v /\ r.file = g
<1>1. FileOK(a.file) /\ WriterOK(a.w) /\ Placed(a.file, a.w) /\ a.ok \in BOOLEAN
  BY DEF AOK
<1>2. FileOK(g) /\ WriterOK(v) /\ Moves(a.file, a.w, g, v, ctx)
  BY DEF StepOK
<1>3. Placed(g, v)
  BY <1>1, <1>2, PlacedKept
<1>4. r.file = g /\ r.w = v /\ r.ok = a.ok /\ r = [file |-> r.file, w |-> r.w, ok |-> r.ok]
  BY DEF StepOK
<1>5. AOK(r)
  BY <1>1, <1>2, <1>3, <1>4 DEF AOK
<1> QED  BY <1>4, <1>5 DEF After, StepOK

\* The buffer of a context is in the file or on its way there, and listed.
Entry(a, ctx) ==
  LET i == a.w.ctxs[ctx] IN DataInfo(a.w.off, Main(i).len, i.toff, ctx)
WroteData(a, ctx, r) ==
  LET i == a.w.ctxs[ctx]
      j == r.w.ctxs[ctx]
      blk == DataBlock(ctx, i.toff, Main(i).msgs, Main(i).len)
  IN  /\ SameTemplates(i, j) /\ j.toff = i.toff
      /\ r.w.table = [a.w.table EXCEPT !.blocks = Append(@, Entry(a, ctx))]
      /\ \/ /\ j.req = i.req
            /\ r.file = Written(a.file, a.w.off, blk, blk.len)
         \/ /\ j.req.st = "started" /\ From(j) = a.w.off /\ j.buf[j.req.buf].msgs = Main(i).msgs
            /\ r.file = a.file

LEMMA FlushDataKeeps ==
  ASSUME NEW a, AOK(a), a.ok, NEW ctx \in DOMAIN a.w.ctxs, NEW fault, fault.n \in Nat,
         a.w.ctxs[ctx].req.st # "started"
  PROVE  LET r == FlushData(a, ctx, fault)
         IN  /\ After(a, r, ctx)
             /\ IF r.ok THEN Main(r.w.ctxs[ctx]) = EmptyBuffer
                ELSE r.w.ctxs[ctx] = a.w.ctxs[ctx]
             /\ r.ok => WroteData(a, ctx, r)
<1> DEFINE w == a.w
           i == w.ctxs[ctx]
           b == [Main(i) EXCEPT !.toff = i.toff]
           blk == DataBlock(ctx, b.toff, b.msgs, b.len)
           table == [w.table EXCEPT !.blocks = Append(@, DataInfo(w.off, b.len, i.toff, ctx))]
           off == w.off + b.len
           r == FlushData(a, ctx, fault)
<1>1. /\ FileOK(a.file) /\ WriterOK(w) /\ Placed(a.file, w)
  BY DEF AOK
<1>2. a = [file |-> a.file, w |-> w, ok |-> a.ok]
  BY DEF AOK
<1>3. /\ w.off \in Nat /\ HeaderLen <= w.off
      /\ \A n : \A e \in a.file.ext : Whole(e) => End(e) <= w.off \/ w.off + n <= e.off
  BY <1>1, RoomBehind
<1>4. ContextOK(i, w.off) /\ ctx \in Ctxs
  BY <1>1 DEF WriterOK
<1>5. /\ i.toff \in Nat /\ i.toff < w.off /\ BufferOK(Main(i))
  BY <1>4, ContextFields
<1>6. BufferOK(b) /\ b.toff = i.toff /\ b.len = Main(i).len /\ b.msgs = Main(i).msgs
  <2> DEFINE m == Main(i)
  <2>1. m = [msgs |-> m.msgs, len |-> m.len, msg |-> m.msg, toff |-> m.toff]
    BY <1>5 DEF BufferOK
  <2>2. b = [m EXCEPT !.toff = i.toff]
    OBVIOUS
  <2> HIDE DEF m, b
  <2>3. b = [msgs |-> m.msgs, len |-> m.len, msg |-> m.msg, toff |-> i.toff]
    BY <2>1, <2>2
  <2> QED  BY <2>3, <1>5 DEF BufferOK, m
<1>7. b.len \in Nat \ {0} /\ off \in Nat /\ w.off < off /\ w.off <= off
  <2>1. b.len \in Nat /\ DataHdr <= b.len /\ DataHdr \in Nat \ {0}
    BY <1>6, Lengths DEF BufferOK
  <2>2. w.off \in Nat
    BY <1>3
  <2> HIDE DEF b, w
  <2> QED  BY <2>1, <2>2
<1>8. BlockOK(blk) /\ blk.len = b.len
  BY <1>7, DataBlockOK
<1>9. table \in Contents
  <2>1. w.table \in Contents
    BY <1>1 DEF WriterOK
  <2>2. w.off \in Nat /\ b.len \in Nat /\ i.toff \in Nat /\ ctx \in Ctxs
    BY <1>3, <1>4, <1>5, <1>7
  <2> HIDE DEF w, b, i
  <2> QED  BY <2>1, <2>2, EntryAdded
<1>10. w.recs \in Nat
  BY <1>1 DEF WriterOK
<1>15. /\ table = [w.table EXCEPT !.blocks = Append(@, Entry(a, ctx))]
       /\ blk = DataBlock(ctx, i.toff, Main(i).msgs, Main(i).len)
  <2> HIDE DEF b
  <2> QED  BY <1>6 DEF Entry
<1>11. CASE i.req.st = "failed"
  <2>1. r = [a EXCEPT !.ok = FALSE]
    BY <1>11 DEF FlushData
  <2>2. r = [file |-> a.file, w |-> w, ok |-> FALSE]
    <3> HIDE DEF r
    <3> QED  BY <1>2, <2>1
  <2>3. r.file = a.file /\ r.w = w /\ r.ok = FALSE
    BY <2>2
  <2> HIDE DEF r
  <2>4. After(a, r, ctx)
    BY <1>1, <2>2, <2>3 DEF After, AOK, Kept
  <2> QED  BY <2>3, <2>4 DEF r
<1>12. CASE i.req.st # "failed" /\ fault.at = FaultOf(ctx, "data")
  <2> DEFINE g == IF w.io = "sync" THEN Partial(a.file, w.off, blk, fault) ELSE a.file
  <2>1. \A e \in a.file.ext : Whole(e) => End(e) <= w.off \/ w.off + blk.len <= e.off
    BY <1>3
  <2>2. /\ FileOK(g) /\ g.hdr = a.file.hdr /\ Kept(a.file, g)
        /\ \A x \in g.ext : Whole(x) => x \in a.file.ext
    <3>1. CASE w.io = "sync"
      <4> HIDE DEF blk
      <4> QED  BY <3>1, <2>1, <1>1, <1>3, <1>8, PartialKeeps
    <3>2. CASE w.io # "sync"
      BY <3>2, <1>1 DEF Kept
    <3> QED  BY <3>1, <3>2
  <2>3. r = [a EXCEPT !.file = g, !.ok = FALSE]
    BY <1>12 DEF FlushData
  <2> HIDE DEF g, r
  <2>4. After(a, r, ctx) /\ r.w = w /\ r.ok = FALSE
    <3>1. IsOtherFile(a, g, r)
      BY <2>2, <2>3 DEF IsOtherFile
    <3>2. After(a, r, ctx) /\ Failing(a, g, r)
      BY <3>1, OtherFile
    <3> QED  BY <3>2 DEF Failing
  <2> QED  BY <2>4 DEF r
<1>13. CASE i.req.st # "failed" /\ fault.at # FaultOf(ctx, "data") /\ w.io = "sync"
  <2> DEFINE g == Written(a.file, w.off, blk, blk.len)
             j == [i EXCEPT !.buf[i.main] = EmptyBuffer]
             v == Changed(w, ctx, j, table, off, w.recs)
  <2>1. /\ FileOK(g) /\ g.hdr = a.file.hdr /\ Kept(a.file, g)
        /\ \A x \in g.ext : Whole(x) =>
             \/ x \in a.file.ext
             \/ x.off = w.off /\ End(x) = off
    <3>1. blk.len \in Nat /\ blk.len <= blk.len /\ w.off + blk.len = off
      BY <1>7, <1>8
    <3>2. \A e \in a.file.ext : Whole(e) => End(e) <= w.off \/ w.off + blk.len <= e.off
      BY <1>3
    <3> HIDE DEF blk, off
    <3> QED  BY <3>1, <3>2, <1>1, <1>3, <1>8, WrittenKeeps
  <2>2. ContextOK(i, off)
    BY <1>3, <1>4, <1>7, ContextMonotonic
  <2>3. /\ ContextOK(j, off) /\ Main(j) = EmptyBuffer /\ j.req = i.req
        /\ SameTemplates(i, j) /\ j.toff = i.toff
    <3>1. EmptyBuffer.toff < off
      BY <1>3, <1>7, EmptyBufferOK
    <3> HIDE DEF i, off
    <3>2. NewMain(j, i, off, EmptyBuffer)
      BY <3>1, <1>7, <2>2, EmptyBufferOK DEF NewMain
    <3> HIDE DEF j
    <3> QED  BY <3>2, MainChanged DEF SameTemplates
  <2>4. r = [file |-> g, w |-> v, ok |-> a.ok]
    <3> DEFINE w1 == [w EXCEPT !.table.blocks = Append(@, DataInfo(w.off, b.len, i.toff, ctx)),
                               !.off = @ + b.len]
               u == [w1 EXCEPT !.ctxs[ctx].buf[i.main] = EmptyBuffer]
    <3>1. r = [a EXCEPT !.file = g, !.w = u]
      BY <1>8, <1>13 DEF FlushData
    <3>2. /\ w = [st |-> w.st, io |-> w.io, sessions |-> w.sessions, ctxs |-> w.ctxs, sel |-> w.sel,
                  table |-> w.table, off |-> w.off, recs |-> w.recs]
      BY <1>1 DEF WriterOK
    <3>3. w1 = [w EXCEPT !.table = table, !.off = off]
      OBVIOUS
    <3>4. w1 = [st |-> w.st, io |-> w.io, sessions |-> w.sessions, ctxs |-> w.ctxs, sel |-> w.sel,
                table |-> table, off |-> off, recs |-> w.recs]
      <4> HIDE DEF w1, table, off, w
      <4> QED  BY <3>2, <3>3
    <3>5. u = [w1 EXCEPT !.ctxs = [w1.ctxs EXCEPT ![ctx] = [w1.ctxs[ctx] EXCEPT !.buf[i.main] = EmptyBuffer]]]
      <4> HIDE DEF w1
      <4> QED  OBVIOUS
    <3>6. w1.ctxs = w.ctxs
      <4> HIDE DEF w1, table, off, w
      <4> QED  BY <3>4
    <3>7. u = [w1 EXCEPT !.ctxs = [w.ctxs EXCEPT ![ctx] = j]]
      <4> HIDE DEF w1, u
      <4> QED  BY <3>5, <3>6
    <3>8. u = v
      <4> DEFINE cs == [w.ctxs EXCEPT ![ctx] = j]
      <4>1. u = [w1 EXCEPT !.ctxs = cs]
        BY <3>7
      <4> HIDE DEF w1, u, cs, table, off, w
      <4> QED  BY <3>4, <4>1 DEF Changed, cs
    <3> HIDE DEF r, g, u, v, w
    <3> QED  BY <1>2, <3>1, <3>8
  <2>5. MayChange(w, ctx, j, table, off, w.recs)
    <3>1. WriterOK(w) /\ ctx \in DOMAIN w.ctxs
      BY <1>1
    <3> HIDE DEF j, table, off, w
    <3> QED  BY <3>1, <1>7, <1>9, <1>10, <2>3 DEF MayChange
  <2>6. /\ WriterOK(v)
        /\ v.st = w.st /\ v.io = w.io /\ v.sessions = w.sessions /\ v.sel = w.sel
        /\ v.table = table /\ v.off = off /\ v.recs = w.recs
        /\ DOMAIN v.ctxs = DOMAIN w.ctxs /\ v.ctxs[ctx] = j
        /\ \A c \in DOMAIN w.ctxs : c # ctx => v.ctxs[c] = w.ctxs[c]
    <3> HIDE DEF j, table, off, w
    <3> QED  BY <2>5, ChangedOK
  <2>11. g = Written(a.file, w.off, blk, blk.len)
    OBVIOUS
  <2> HIDE DEF g, j, v, r, off, table, blk
  <2>7. Moves(a.file, w, g, v, ctx)
    <3>1. \A c \in Pending(v) : SameRequest(w, v, c)
      BY <2>3, <2>6 DEF Pending, SameRequest, From, To
    <3> QED  BY <3>1, <2>1, <2>6, <1>3, <1>7 DEF Moves
  <2>8. StepOK(a, g, v, ctx, r)
    BY <2>1, <2>4, <2>6, <2>7 DEF StepOK
  <2>9. After(a, r, ctx) /\ r.w = v
    BY <2>8, StepAfter
  <2>10. r.ok = a.ok
    BY <2>4
  <2>12. r.file = g
    BY <2>4
  <2>13. WroteData(a, ctx, r)
    BY <1>15, <2>3, <2>6, <2>9, <2>11, <2>12 DEF WroteData
  <2> QED  BY <2>3, <2>6, <2>9, <2>10, <2>13 DEF r
<1>14. CASE i.req.st # "failed" /\ fault.at # FaultOf(ctx, "data") /\ w.io # "sync"
  <2> DEFINE j == Started(i, b, w.off)
             v == Changed(w, ctx, j, table, off, w.recs)
  <2>1. /\ ContextOK(j, w.off) /\ Main(j) = EmptyBuffer
        /\ j.req.st = "started" /\ From(j) = w.off /\ To(j) = w.off + b.len
        /\ j.buf[j.req.buf] = b /\ j.toff = i.toff /\ SameTemplates(i, j)
    <3>1. b.toff < w.off /\ w.off \in Nat
      BY <1>3, <1>5, <1>6
    <3> HIDE DEF i, b
    <3> QED  BY <3>1, <1>4, <1>6, WriteStarted
  <2>2. ContextOK(j, off)
    <3> HIDE DEF j
    <3> QED  BY <1>3, <1>7, <2>1, ContextMonotonic
  <2>3. r = [file |-> a.file, w |-> v, ok |-> a.ok]
    <3> DEFINE w1 == [w EXCEPT !.table.blocks = Append(@, DataInfo(w.off, b.len, i.toff, ctx)),
                               !.off = @ + b.len]
               u == [w1 EXCEPT !.ctxs[ctx] = j]
    <3>1. r = [a EXCEPT !.w = u]
      BY <1>14 DEF FlushData
    <3>2. /\ w = [st |-> w.st, io |-> w.io, sessions |-> w.sessions, ctxs |-> w.ctxs, sel |-> w.sel,
                  table |-> w.table, off |-> w.off, recs |-> w.recs]
      BY <1>1 DEF WriterOK
    <3>3. w1 = [w EXCEPT !.table = table, !.off = off]
      OBVIOUS
    <3>4. w1 = [st |-> w.st, io |-> w.io, sessions |-> w.sessions, ctxs |-> w.ctxs, sel |-> w.sel,
                table |-> table, off |-> off, recs |-> w.recs]
      <4> HIDE DEF w1, table, off, w
      <4> QED  BY <3>2, <3>3
    <3>5. u = [w1 EXCEPT !.ctxs = [w1.ctxs EXCEPT ![ctx] = j]]
      <4> HIDE DEF w1, j
      <4> QED  OBVIOUS
    <3>6. w1.ctxs = w.ctxs
      <4> HIDE DEF w1, table, off, w
      <4> QED  BY <3>4
    <3>7. u = [w1 EXCEPT !.ctxs = [w.ctxs EXCEPT ![ctx] = j]]
      <4> HIDE DEF w1, u, j
      <4> QED  BY <3>5, <3>6
    <3>8. u = v
      <4> DEFINE cs == [w.ctxs EXCEPT ![ctx] = j]
      <4>1. u = [w1 EXCEPT !.ctxs = cs]
        BY <3>7
      <4> HIDE DEF w1, u, cs, table, off, w, j
      <4> QED  BY <3>4, <4>1 DEF Changed, cs
    <3> HIDE DEF r, u, v, w
    <3> QED  BY <1>2, <3>1, <3>8
  <2>4. MayChange(w, ctx, j, table, off, w.recs)
    <3>1. WriterOK(w) /\ ctx \in DOMAIN w.ctxs
      BY <1>1
    <3> HIDE DEF j, table, off, w
    <3> QED  BY <3>1, <1>7, <1>9, <1>10, <2>2 DEF MayChange
  <2>5. /\ WriterOK(v)
        /\ v.st = w.st /\ v.io = w.io /\ v.sessions = w.sessions /\ v.sel = w.sel
        /\ v.table = table /\ v.off = off /\ v.recs = w.recs
        /\ DOMAIN v.ctxs = DOMAIN w.ctxs /\ v.ctxs[ctx] = j
        /\ \A c \in DOMAIN w.ctxs : c # ctx => v.ctxs[c] = w.ctxs[c]
    <3> HIDE DEF j, table, off, w
    <3> QED  BY <2>4, ChangedOK
  <2>6. To(j) = off
    BY <2>1
  <2> HIDE DEF j, v, r, off, table
  <2>7. Moves(a.file, w, a.file, v, ctx)
    <3>1. \A c \in Pending(v) : c # ctx => SameRequest(w, v, c)
      BY <2>5 DEF Pending, SameRequest, From, To
    <3> QED  BY <3>1, <2>1, <2>5, <2>6, <1>7 DEF Moves
  <2>8. StepOK(a, a.file, v, ctx, r)
    BY <1>1, <2>3, <2>5, <2>7 DEF StepOK, Kept
  <2>9. After(a, r, ctx) /\ r.w = v
    BY <2>8, StepAfter
  <2>10. r.ok = a.ok
    BY <2>3
  <2>11. r.file = a.file
    BY <2>3
  <2>12. WroteData(a, ctx, r)
    BY <1>6, <1>15, <2>1, <2>5, <2>9, <2>11 DEF WroteData
  <2> QED  BY <2>1, <2>5, <2>9, <2>10, <2>12 DEF r
<1> QED  BY <1>11, <1>12, <1>13, <1>14

LEMMA FlushKeeps ==
  ASSUME NEW a, AOK(a), NEW ctx \in DOMAIN a.w.ctxs, NEW fault, fault.n \in Nat,
         ~Waits(a.w.ctxs[ctx])
  PROVE  LET r == Flush(a, ctx, fault)
         IN  /\ After(a, r, ctx) /\ ~Waits(r.w.ctxs[ctx])
             /\ r.ok => Main(r.w.ctxs[ctx]).len = DataHdr
<1> DEFINE r == Flush(a, ctx, fault)
           i == a.w.ctxs[ctx]
<1>1. BufferOK(Main(i))
  BY ContextFields DEF AOK, WriterOK
<1>2. CASE ~a.ok
  BY <1>2, AfterItself DEF Flush
<1>3. CASE Count(i) = 0
  <2>1. Main(i).msgs = <<>>
    BY <1>1, <1>3, EmptySeq DEF Count, BufferOK
  <2>2. r = a
    BY <1>3 DEF Flush
  <2> QED  BY <1>1, <2>1, <2>2, AfterItself DEF BufferOK
<1>4. CASE a.ok /\ Count(i) # 0
  <2> DEFINE b == FlushTemplates(a, ctx, fault)
  <2>1. /\ After(a, b, ctx)
        /\ b.w.ctxs[ctx].buf = i.buf /\ b.w.ctxs[ctx].main = i.main /\ b.w.ctxs[ctx].req = i.req
    BY <1>4, FlushTemplatesKeeps
  <2>2. r = IF b.ok THEN FlushData(b, ctx, fault) ELSE b
    BY <1>4 DEF Flush, FlushBoth
  <2>3. i.req.st # "started"
    BY <1>4 DEF Waits
  <2>4. AOK(b) /\ ctx \in DOMAIN b.w.ctxs /\ b.w.ctxs[ctx].req.st # "started"
    BY <2>1, <2>3 DEF After
  <2> HIDE DEF b
  <2>5. CASE ~b.ok
    BY <2>1, <2>2, <2>4, <2>5 DEF Waits
  <2>6. CASE b.ok
    <3> DEFINE q == FlushData(b, ctx, fault)
    <3>1. After(b, q, ctx) /\ IF q.ok THEN Main(q.w.ctxs[ctx]) = EmptyBuffer
                              ELSE q.w.ctxs[ctx] = b.w.ctxs[ctx]
      BY <2>4, <2>6, FlushDataKeeps
    <3>2. r = q
      BY <2>2, <2>6
    <3> HIDE DEF q, r
    <3>3. After(a, r, ctx)
      BY <2>1, <3>1, <3>2, AfterTransitive
    <3>4. CASE r.ok
      <4>1. Main(r.w.ctxs[ctx]) = EmptyBuffer
        BY <3>1, <3>2, <3>4
      <4>2. Count(r.w.ctxs[ctx]) = 0
        BY <4>1, EmptyBufferOK, EmptySeq DEF Count
      <4> QED  BY <3>3, <4>1, <4>2, EmptyBufferOK DEF Waits, r
    <3>5. CASE ~r.ok
      <4>1. r.w.ctxs[ctx].req.st # "started"
        BY <2>4, <3>1, <3>2, <3>5
      <4> QED  BY <3>3, <3>5, <4>1 DEF Waits, r
    <3> QED  BY <3>4, <3>5
  <2> QED  BY <2>5, <2>6
<1> QED  BY <1>2, <1>3, <1>4

-----------------------------------------------------------------------------
(* flush_all(): a fold over the contexts in their order. *)

\* Every non-empty set of natural numbers has a least element.
LEMMA Minimum ==
  ASSUME NEW S \in SUBSET Nat, S # {}
  PROVE  \E x \in S : \A y \in S : x <= y
<1>1. IsWellFoundedOn(OpToRel(<, Nat), Nat)
  BY NatLessThanWellFounded
<1>2. PICK x \in S : \A y \in S : ~ (<<y, x>> \in OpToRel(<, Nat))
  BY <1>1, WFMin
<1>3. \A y \in S : ~(y < x)
  BY <1>2 DEF OpToRel
<1> QED  BY <1>3

\* Flushing some contexts after each other defines what it says: the function
\* that FlushAll refers to exists.
Chain(a, order, fault, f, n) ==
  f = [k \in 0..n |-> IF k = 0 THEN a ELSE Flush(f[k - 1], order[k], fault)]

LEMMA ChainExists ==
  ASSUME NEW a, NEW order, NEW fault, NEW n \in Nat
  PROVE  \E f : Chain(a, order, fault, f, n)
<1> DEFINE Missing == {k \in Nat : \A f : ~Chain(a, order, fault, f, k)}
<1>1. SUFFICES ASSUME Missing # {} PROVE FALSE
  OBVIOUS
<1>2. PICK k \in Missing : \A y \in Missing : k <= y
  <2>1. Missing \in SUBSET Nat
    OBVIOUS
  <2> QED  BY <1>1, <2>1, Minimum
<1>3. CASE k = 0
  <2> DEFINE f == [j \in 0..0 |-> a]
  <2>1. f = [j \in 0..0 |-> IF j = 0 THEN a ELSE Flush(f[j - 1], order[j], fault)]
    OBVIOUS
  <2>2. Chain(a, order, fault, f, 0)
    BY <2>1 DEF Chain
  <2> QED  BY <1>2, <1>3, <2>2
<1>4. CASE k # 0
  <2>1. k \in Nat /\ k - 1 \in Nat /\ k - 1 \notin Missing
    BY <1>2, <1>4
  <2>2. PICK g : Chain(a, order, fault, g, k - 1)
    BY <2>1
  <2> DEFINE f == [j \in 0..k |-> IF j = k THEN Flush(g[k - 1], order[k], fault) ELSE g[j]]
  <2>3. ASSUME NEW j \in 0..k
        PROVE  f[j] = IF j = 0 THEN a ELSE Flush(f[j - 1], order[j], fault)
    <3>1. CASE j = k
      <4>1. k - 1 \in 0..k /\ k - 1 # k
        BY <2>1
      <4>2. f[k - 1] = g[k - 1]
        BY <4>1
      <4> QED  BY <1>4, <3>1, <4>2
    <3>2. CASE j # k
      <4>1. j \in 0..(k - 1) /\ f[j] = g[j]
        BY <2>1, <3>2
      <4>2. g[j] = IF j = 0 THEN a ELSE Flush(g[j - 1], order[j], fault)
        BY <2>2, <4>1 DEF Chain
      <4>3. j # 0 => f[j - 1] = g[j - 1]
        <5>1. ASSUME j # 0 PROVE j - 1 \in 0..k /\ j - 1 # k
          BY <2>1, <4>1, <5>1
        <5> QED  BY <5>1
      <4> HIDE DEF f
      <4> QED  BY <4>1, <4>2, <4>3
    <3> QED  BY <3>1, <3>2
  <2>4. f = [j \in 0..k |-> IF j = 0 THEN a ELSE Flush(f[j - 1], order[j], fault)]
    <3>1. f = [j \in 0..k |-> f[j]]
      OBVIOUS
    <3> HIDE DEF f
    <3> QED  BY <2>3, <3>1
  <2>5. Chain(a, order, fault, f, k)
    <3> HIDE DEF f
    <3> QED  BY <2>4 DEF Chain
  <2> QED  BY <1>2, <2>5
<1> QED  BY <1>3, <1>4

LEMMA FlushAllChain ==
  ASSUME NEW a, NEW fault, Len(CtxOrder(a.w)) \in Nat
  PROVE  \E f : /\ Chain(a, CtxOrder(a.w), fault, f, Len(CtxOrder(a.w)))
                /\ FlushAll(a, fault) = f[Len(CtxOrder(a.w))]
<1> DEFINE order == CtxOrder(a.w)
           n == Len(order)
           upto[k \in 0..n] == IF k = 0 THEN a ELSE Flush(upto[k - 1], order[k], fault)
<1>1. FlushAll(a, fault) = upto[n]
  BY DEF FlushAll
<1> HIDE DEF order
<1>2. PICK f : Chain(a, order, fault, f, n)
  BY ChainExists DEF order
<1>3. f = [k \in 0..n |-> IF k = 0 THEN a ELSE Flush(f[k - 1], order[k], fault)]
  BY <1>2 DEF Chain
<1>4. upto = [k \in 0..n |-> IF k = 0 THEN a ELSE Flush(upto[k - 1], order[k], fault)]
  BY <1>3
<1> HIDE DEF upto
<1>5. Chain(a, order, fault, upto, n)
  BY <1>4 DEF Chain
<1> QED  BY <1>1, <1>5 DEF order

\* The order of contexts in the maps of the writer, and the place of one.
Le(c, d) == c[1] < d[1] \/ (c[1] = d[1] /\ c[2] <= d[2])
Below(D, c) == {d \in D : Le(d, c)}
Rank(D, c) == Cardinality(Below(D, c))

LEMMA LeOrder ==
  /\ \A c \in Ctxs : Le(c, c)
  /\ \A c, d \in Ctxs : Le(c, d) \/ Le(d, c)
  /\ \A c, d \in Ctxs : Le(c, d) /\ Le(d, c) => c = d
  /\ \A b, c, d \in Ctxs : Le(b, c) /\ Le(c, d) => Le(b, d)
<1>1. \A c \in Ctxs : c = <<c[1], c[2]>> /\ c[1] \in Nat /\ c[2] \in Nat
  <2> SUFFICES ASSUME NEW x \in 1..SidMax, NEW y \in ODIDs, NEW c, c = <<x, y>>
               PROVE  c = <<c[1], c[2]>> /\ c[1] \in Nat /\ c[2] \in Nat
    BY DEF Ctxs
  <2>1. c[1] = x /\ c[2] = y
    OBVIOUS
  <2>2. x \in Nat
    BY Lengths
  <2>3. y \in Nat
    BY LengthsAssumption
  <2> QED  BY <2>1, <2>2, <2>3
<1>2. \A c, d \in Ctxs : Le(c, d) /\ Le(d, c) => c = d
  <2> SUFFICES ASSUME NEW c \in Ctxs, NEW d \in Ctxs, Le(c, d), Le(d, c) PROVE c = d
    OBVIOUS
  <2>1. c[1] = d[1] /\ c[2] = d[2]
    BY <1>1 DEF Le
  <2> QED  BY <1>1, <2>1
<1> QED  BY <1>1, <1>2 DEF Le

LEMMA IdsFinite == IsFiniteSet(1..SidMax)
<1>1. 1 \in Int /\ SidMax \in Int
  BY Lengths
<1> QED  BY <1>1, FS_Interval

LEMMA CtxsFinite == IsFiniteSet(Ctxs)
<1> QED  BY IdsFinite, LengthsAssumption, FS_Product DEF Ctxs

LEMMA RanksDiffer ==
  ASSUME NEW D \in SUBSET Ctxs, NEW c \in D, NEW d \in D, c # d
  PROVE  Rank(D, c) # Rank(D, d)
<1> SUFFICES ASSUME NEW x \in D, NEW y \in D, Le(x, y), ~Le(y, x) PROVE Rank(D, x) # Rank(D, y)
  BY LeOrder
<1>1. IsFiniteSet(Below(D, y))
  BY CtxsFinite, FS_Subset DEF Below
<1>2. Below(D, x) \in SUBSET Below(D, y)
  BY LeOrder DEF Below
<1>3. y \in Below(D, y) /\ y \notin Below(D, x)
  BY LeOrder DEF Below
<1> QED  BY <1>1, <1>2, <1>3, FS_Subset DEF Rank

\* The k-th context exists for each k up to their number.
LEMMA RanksHit ==
  ASSUME NEW D \in SUBSET Ctxs
  PROVE  /\ Cardinality(D) \in Nat
         /\ \A k \in 1..Cardinality(D) : \E c \in D : Rank(D, c) = k
<1> DEFINE N == Cardinality(D)
           f == [c \in D |-> Rank(D, c)]
<1>1. IsFiniteSet(D) /\ N \in Nat
  BY CtxsFinite, FS_Subset, FS_CardinalityType
<1>2. ASSUME NEW c \in D PROVE Rank(D, c) \in 1..N
  <2>1. Below(D, c) \in SUBSET D /\ c \in Below(D, c)
    BY LeOrder DEF Below
  <2>2. IsFiniteSet(Below(D, c)) /\ Rank(D, c) <= N
    BY <1>1, <2>1, FS_Subset DEF Rank
  <2>3. Rank(D, c) \in Nat /\ Rank(D, c) # 0
    BY <2>1, <2>2, FS_CardinalityType, FS_EmptySet DEF Rank
  <2> QED  BY <1>1, <2>2, <2>3
<1>3. f \in Injection(D, 1..N)
  <2>1. f \in [D -> 1..N]
    BY <1>2
  <2>2. \A c, d \in D : f[c] = f[d] => c = d
    BY RanksDiffer
  <2> QED  BY <2>1, <2>2 DEF Injection, IsInjective
<1>4. IsFiniteSet(1..N) /\ Cardinality(1..N) = N
  BY <1>1, FS_Interval
<1>5. f \in Surjection(D, 1..N)
  BY <1>3, <1>4, FS_Injection
<1>6. \A k \in 1..N : \E c \in D : f[c] = k
  BY <1>5 DEF Surjection
<1> QED  BY <1>1, <1>6

LEMMA CtxOrderHits ==
  ASSUME NEW w, DOMAIN w.ctxs \in SUBSET Ctxs
  PROVE  /\ Len(CtxOrder(w)) \in Nat
         /\ \A k \in 1..Len(CtxOrder(w)) : CtxOrder(w)[k] \in DOMAIN w.ctxs
<1> DEFINE D == DOMAIN w.ctxs
           N == Cardinality(D)
           order == [k \in 1..N |-> CHOOSE c \in D : Rank(D, c) = k]
<1>1. CtxOrder(w) = order
  BY DEF CtxOrder, Rank, Below, Le
<1>2. N \in Nat /\ \A k \in 1..N : \E c \in D : Rank(D, c) = k
  BY RanksHit
<1>3. \A k \in 1..N : order[k] \in D
  BY <1>2
<1>4. order \in Seq(D) /\ Len(order) = N
  <2> HIDE DEF N
  <2>1. order \in [1..N -> D]
    BY <1>3
  <2>2. order \in Seq(D)
    BY <1>2, <2>1, SeqDef
  <2>3. DOMAIN order = 1..Len(order) /\ Len(order) \in Nat /\ DOMAIN order = 1..N
    BY <2>2, LenProperties
  <2> HIDE DEF order
  <2>4. Len(order) = N
    <3>1. PICK m \in Nat : m = Len(order)
      BY <2>3
    <3>2. \A k \in Nat : k \in 1..m <=> k \in 1..N
      BY <2>3, <3>1
    <3>3. ~(m < N) /\ ~(N < m)
      BY <3>2, <1>2
    <3> QED  BY <3>1, <3>3, <1>2
  <2> QED  BY <2>2, <2>4
<1> QED  BY <1>1, <1>2, <1>3, <1>4

\* How flush_all() may change the file and the writer.
AfterAll(a, r) ==
  /\ AOK(r) /\ Kept(a.file, r.file) /\ r.file.hdr = a.file.hdr
  /\ r.w.st = a.w.st /\ r.w.sessions = a.w.sessions /\ r.w.sel = a.w.sel
  /\ r.w.recs = a.w.recs /\ DOMAIN r.w.ctxs = DOMAIN a.w.ctxs
NoneWaits(a) == \A c \in DOMAIN a.w.ctxs : ~Waits(a.w.ctxs[c])

LEMMA FlushAllKeeps ==
  ASSUME NEW a, AOK(a), NoneWaits(a), NEW fault, fault.n \in Nat
  PROVE  AfterAll(a, FlushAll(a, fault))
<1> DEFINE order == CtxOrder(a.w)
           n == Len(order)
<1>1. /\ n \in Nat
      /\ \A k \in 1..n : order[k] \in DOMAIN a.w.ctxs
  <2>1. DOMAIN a.w.ctxs \in SUBSET Ctxs
    BY DEF AOK, WriterOK
  <2> QED  BY <2>1, CtxOrderHits
<1>2. PICK f : Chain(a, order, fault, f, n) /\ FlushAll(a, fault) = f[n]
  BY <1>1, FlushAllChain
<1> HIDE DEF order
<1> DEFINE Good(k) == AfterAll(a, f[k]) /\ NoneWaits(f[k])
           Bad == {k \in 0..n : ~Good(k)}
<1>3. Bad = {}
  <2> SUFFICES ASSUME Bad # {} PROVE FALSE
    OBVIOUS
  <2>1. PICK k \in Bad : \A y \in Bad : k <= y
    <3>1. Bad \in SUBSET Nat
      BY <1>1
    <3> QED  BY <3>1, Minimum
  <2>2. k \in 0..n /\ ~Good(k) /\ f[k] = IF k = 0 THEN a ELSE Flush(f[k - 1], order[k], fault)
    BY <1>2, <2>1 DEF Chain
  <2>3. k # 0
    <3>1. AfterAll(a, a)
      BY DEF AfterAll, Kept
    <3> QED  BY <3>1, <2>2
  <2>4. k - 1 \in 0..n /\ k - 1 \notin Bad /\ k \in 1..n
    BY <1>1, <2>1, <2>2, <2>3
  <2>5. Good(k - 1)
    BY <2>4
  <2> DEFINE p == f[k - 1]
             c == order[k]
             r == Flush(p, c, fault)
  <2>6. f[k] = r
    BY <2>2, <2>3
  <2>7. AOK(p) /\ c \in DOMAIN p.w.ctxs /\ ~Waits(p.w.ctxs[c])
    BY <1>1, <2>4, <2>5 DEF AfterAll, NoneWaits
  <2>8. After(p, r, c) /\ ~Waits(r.w.ctxs[c])
    BY <2>7, FlushKeeps
  <2> HIDE DEF p, c, r
  <2>9. AfterAll(a, r)
    BY <2>5, <2>8 DEF AfterAll, After, p, Kept
  <2>10. NoneWaits(r)
    BY <2>5, <2>8 DEF NoneWaits, After, p
  <2> QED  BY <2>2, <2>6, <2>9, <2>10
<1> QED  BY <1>1, <1>2, <1>3

-----------------------------------------------------------------------------
(* Steps. *)

\* What a step may do to the complete blocks.
BlocksStay == file'.ext = {} \/ Kept(file, file')

LEMMA OpenHandle ==
  ASSUME FInv, NEW h \in Handles, writers[h].st # "closed"
  PROVE  /\ lock = h /\ FileOK(file) /\ WriterOK(writers[h]) /\ Placed(file, writers[h])
         /\ HeaderInStep(file, writers[h]) /\ log \in Logs /\ lost \in BOOLEAN
         /\ writers[h].st # "closing" => file.hdr.table = 0
         /\ \A g \in Handles : g # h => writers[g] = NoWriter
BY DEF FInv, HeaderInStep

\* A step of an open handle.
LEMMA OpenStep ==
  ASSUME FInv, NEW h \in Handles, writers[h].st # "closed",
         NEW v, WriterOK(v), FileOK(file'), Placed(file', v), HeaderInStep(file', v),
         writers' = [writers EXCEPT ![h] = v], lock' = lock, lost' \in BOOLEAN, log' \in Logs
  PROVE  FInv'
<1>1. lock = h /\ \A g \in Handles : g # h => writers[g] = NoWriter
  BY OpenHandle
<1>2. writers = [g \in Handles |-> writers[g]]
  BY DEF FInv
<1>3. /\ writers'[h] = v /\ writers' = [g \in Handles |-> writers'[g]]
      /\ \A g \in Handles : g # h => writers'[g] = NoWriter
  BY <1>1, <1>2
<1>4. v.st # "closed"
  BY DEF WriterOK
<1>5. TableLast(file')
  <2>1. v.off \in Nat /\ HeaderLen <= v.off /\ \A e \in file'.ext : Whole(e) => End(e) <= v.off
    BY RoomBehind
  <2> QED  BY <2>1 DEF TableLast, HeaderInStep
<1>6. NoWriter.st = "closed"
  BY DEF NoWriter
<1>7. ASSUME NEW g \in Handles
      PROVE  IF writers'[g].st = "closed" THEN writers'[g] = NoWriter
             ELSE /\ lock' = g /\ WriterOK(writers'[g])
                  /\ Placed(file', writers'[g]) /\ HeaderInStep(file', writers'[g])
  <2>1. CASE g = h
    BY <2>1, <1>1, <1>3, <1>4
  <2>2. CASE g # h
    BY <2>2, <1>3, <1>6
  <2> QED  BY <2>1, <2>2
<1>8. lock' \in Handles \cup {NoHandle}
  BY <1>1
<1> QED  BY <1>3, <1>5, <1>7, <1>8 DEF FInv

\* Where the running writes go and the next block does is all that counts.
LEMMA SamePlaces ==
  ASSUME NEW f, FileOK(f), NEW w, WriterOK(w), Placed(f, w), NEW v, WriterOK(v), v.off = w.off,
         \A c \in Pending(v) : SameRequest(w, v, c)
  PROVE  Placed(f, v)
<1>1. w.off \in Nat
  BY DEF WriterOK
<1>2. Moves(f, w, f, v, NoCtx)
  BY <1>1 DEF Moves
<1> QED  BY <1>2, PlacedKept

\* A writer in another state.
InStatus(v, w, st) ==
  /\ v = [w EXCEPT !.st = st]
  /\ WriterOK(w) /\ st \in {"open", "fatal", "closing"}

LEMMA StatusOK ==
  ASSUME NEW w, NEW st, NEW v, InStatus(v, w, st)
  PROVE  /\ WriterOK(v) /\ v.st = st /\ v.off = w.off /\ v.ctxs = w.ctxs
         /\ \A c \in Pending(v) : SameRequest(w, v, c)
<1>0. WriterOK(w) /\ st \in {"open", "fatal", "closing"}
  BY DEF InStatus
<1>1. w = [st |-> w.st, io |-> w.io, sessions |-> w.sessions, ctxs |-> w.ctxs, sel |-> w.sel,
           table |-> w.table, off |-> w.off, recs |-> w.recs]
  BY <1>0 DEF WriterOK
<1>2. v = [st |-> st, io |-> w.io, sessions |-> w.sessions, ctxs |-> w.ctxs, sel |-> w.sel,
           table |-> w.table, off |-> w.off, recs |-> w.recs]
  BY <1>1 DEF InStatus
<1>3. /\ v.st = st /\ v.io = w.io /\ v.sessions = w.sessions /\ v.ctxs = w.ctxs /\ v.sel = w.sel
      /\ v.table = w.table /\ v.off = w.off /\ v.recs = w.recs
      /\ v = [st |-> v.st, io |-> v.io, sessions |-> v.sessions, ctxs |-> v.ctxs, sel |-> v.sel,
              table |-> v.table, off |-> v.off, recs |-> v.recs]
  BY <1>2
<1>4. WriterOK(v)
  BY <1>0, <1>3 DEF WriterOK
<1>5. \A c \in Pending(v) : SameRequest(w, v, c)
  BY <1>3 DEF Pending, SameRequest
<1> QED  BY <1>3, <1>4, <1>5

\* The end of a call.
LEMMA EndsOK ==
  ASSUME FInv, NEW h \in Handles, writers[h].st = "open", NEW a, NEW code, Ends(h, a, code),
         FileOK(a.file), WriterOK(a.w), Placed(a.file, a.w),
         Kept(file, a.file), a.file.hdr = file.hdr, log' \in Logs
  PROVE  FInv' /\ BlocksStay
<1> DEFINE st == IF code = "INTERNAL" THEN "fatal" ELSE a.w.st
           v == [a.w EXCEPT !.st = st]
<1>1. st \in {"open", "fatal", "closing"}
  BY DEF WriterOK
<1>2. /\ file' = a.file /\ lock' = lock /\ lost' = (lost \/ code = "INTERNAL")
      /\ writers' = [writers EXCEPT ![h] = v]
  BY DEF Ends
<1> HIDE DEF st
<1>3. WriterOK(v) /\ v.off = a.w.off /\ \A c \in Pending(v) : SameRequest(a.w, v, c)
  <2>1. \E x : InStatus(v, a.w, x)
    BY <1>1 DEF InStatus
  <2> HIDE DEF v
  <2> QED  BY <2>1, StatusOK
<1> HIDE DEF v
<1>4. Placed(file', v)
  BY <1>2, <1>3, SamePlaces
<1>5. HeaderInStep(file', v) /\ lost' \in BOOLEAN
  BY <1>2, OpenHandle DEF HeaderInStep
<1>6. FInv'
  BY <1>2, <1>3, <1>4, <1>5, OpenStep
<1> QED  BY <1>2, <1>6 DEF BlocksStay

LEMMA NothingChanges ==
  ASSUME FInv, file' = file, lock' = lock, writers' = writers, log' = log, lost' = lost
  PROVE  FInv' /\ BlocksStay
<1>1. FInv'
  BY DEF FInv
<1> QED  BY <1>1 DEF BlocksStay, Kept

LEMMA FaultsOK ==
  ASSUME NEW S, NEW what, NEW fault \in Faults(S, what)
  PROVE  fault.n \in Nat
BY WriterAssumption DEF Faults, NoFault

\* A context with other templates, another Export Time or no last template.
Touched(i, off, toff, tmplts, last, etime, j) ==
  /\ ContextOK(i, off) /\ toff \in Nat /\ toff < off
  /\ tmplts \in [TIDs -> Defs \cup {NoDef}] /\ last \in Tmplts \cup {NoTmplt}
  /\ etime \in ETimes
  /\ j = [i EXCEPT !.toff = toff, !.tmplts = tmplts, !.last = last, !.etime = etime]

LEMMA ContextWith ==
  ASSUME NEW i, NEW off, NEW toff, NEW tmplts, NEW last, NEW etime, NEW j,
         Touched(i, off, toff, tmplts, last, etime, j)
  PROVE  ContextOK(j, off) /\ j.buf = i.buf /\ j.main = i.main /\ j.req = i.req
<1>1. /\ i = [toff |-> i.toff, tmplts |-> i.tmplts, last |-> i.last, etime |-> i.etime,
              buf |-> i.buf, main |-> i.main, req |-> i.req]
  BY ContextFields DEF Touched
<1>0. /\ ContextOK(i, off) /\ toff \in Nat /\ toff < off
      /\ tmplts \in [TIDs -> Defs \cup {NoDef}] /\ last \in Tmplts \cup {NoTmplt}
      /\ etime \in ETimes
  BY DEF Touched
<1>2. j = [toff |-> toff, tmplts |-> tmplts, last |-> last, etime |-> etime,
           buf |-> i.buf, main |-> i.main, req |-> i.req]
  BY <1>1 DEF Touched
<1>3. /\ j.toff = toff /\ j.tmplts = tmplts /\ j.last = last /\ j.etime = etime
      /\ j.buf = i.buf /\ j.main = i.main /\ j.req = i.req
      /\ j = [toff |-> j.toff, tmplts |-> j.tmplts, last |-> j.last, etime |-> j.etime,
              buf |-> j.buf, main |-> j.main, req |-> j.req]
  BY <1>2
<1>4. OtherBuffer(j) = OtherBuffer(i)
  BY <1>3 DEF OtherBuffer
<1>5. ContextOK(j, off)
  BY <1>0, <1>3, <1>4 DEF ContextOK
<1> QED  BY <1>3, <1>5

\* A writer in which no more than a context was changed, and no running write.
Retouches(w, ctx, j, recs) ==
  /\ WriterOK(w) /\ ctx \in DOMAIN w.ctxs /\ ContextOK(j, w.off) /\ recs \in Nat
  /\ j.req = w.ctxs[ctx].req
  /\ j.req.st = "started" => j.buf[j.req.buf] = w.ctxs[ctx].buf[j.req.buf]

Retouched(w, ctx, j, recs, v) ==
  Retouches(w, ctx, j, recs) /\ v = [w EXCEPT !.ctxs[ctx] = j, !.recs = recs]

LEMMA RetouchedOK ==
  ASSUME NEW w, NEW ctx, NEW j, NEW recs, NEW v, Retouched(w, ctx, j, recs, v)
  PROVE  /\ WriterOK(v) /\ v.st = w.st /\ v.off = w.off
         /\ \A c \in Pending(v) : SameRequest(w, v, c)
<1>0. /\ WriterOK(w) /\ ctx \in DOMAIN w.ctxs /\ ContextOK(j, w.off) /\ recs \in Nat
      /\ j.req = w.ctxs[ctx].req
      /\ j.req.st = "started" => j.buf[j.req.buf] = w.ctxs[ctx].buf[j.req.buf]
  BY DEF Retouched, Retouches
<1>1. w = [st |-> w.st, io |-> w.io, sessions |-> w.sessions, ctxs |-> w.ctxs, sel |-> w.sel,
           table |-> w.table, off |-> w.off, recs |-> w.recs]
  BY <1>0 DEF WriterOK
<1>2. v = Changed(w, ctx, j, w.table, w.off, recs)
  <2> DEFINE cs == [w.ctxs EXCEPT ![ctx] = j]
  <2>1. v = [w EXCEPT !.ctxs = cs, !.recs = recs]
    BY DEF Retouched
  <2> HIDE DEF cs
  <2>2. v = [st |-> w.st, io |-> w.io, sessions |-> w.sessions, ctxs |-> cs, sel |-> w.sel,
             table |-> w.table, off |-> w.off, recs |-> recs]
    BY <1>1, <2>1
  <2> QED  BY <2>2 DEF Changed, cs
<1>3. MayChange(w, ctx, j, w.table, w.off, recs)
  <2>1. w.table \in Contents /\ w.off \in Nat /\ w.off <= w.off
    BY <1>0 DEF WriterOK
  <2> QED  BY <1>0, <2>1 DEF MayChange
<1> DEFINE u == Changed(w, ctx, j, w.table, w.off, recs)
<1>6. /\ WriterOK(u) /\ u.st = w.st /\ u.off = w.off
      /\ DOMAIN u.ctxs = DOMAIN w.ctxs /\ u.ctxs[ctx] = j
      /\ \A c \in DOMAIN w.ctxs : c # ctx => u.ctxs[c] = w.ctxs[c]
  BY <1>3, ChangedOK
<1>7. v = u
  BY <1>2
<1> HIDE DEF u
<1>4. /\ WriterOK(v) /\ v.st = w.st /\ v.off = w.off
      /\ DOMAIN v.ctxs = DOMAIN w.ctxs /\ v.ctxs[ctx] = j
      /\ \A c \in DOMAIN w.ctxs : c # ctx => v.ctxs[c] = w.ctxs[c]
  BY <1>6, <1>7
<1>5. ASSUME NEW c \in Pending(v) PROVE SameRequest(w, v, c)
  <2>1. CASE c # ctx
    BY <1>4, <2>1 DEF Pending, SameRequest, From, To
  <2>2. CASE c = ctx
    BY <1>0, <1>4, <2>2 DEF Pending, SameRequest, From, To
  <2> QED  BY <2>1, <2>2
<1> QED  BY <1>4, <1>5

\* A step that changes no more than a context.
LEMMA RetouchStep ==
  ASSUME FInv, NEW h \in Handles, writers[h].st = "open", NEW ctx, NEW j,
         Retouches(writers[h], ctx, j, writers[h].recs),
         writers' = [writers EXCEPT ![h].ctxs[ctx] = j],
         file' = file, lock' = lock, log' = log, lost' = lost
  PROVE  FInv' /\ BlocksStay
<1> DEFINE w == writers[h]
           v == [w EXCEPT !.ctxs[ctx] = j]
<1>1. /\ FileOK(file) /\ WriterOK(w) /\ Placed(file, w) /\ HeaderInStep(file, w)
      /\ log \in Logs /\ lost \in BOOLEAN /\ file.hdr.table = 0
  BY OpenHandle
<1>2. v = [w EXCEPT !.ctxs[ctx] = j, !.recs = w.recs]
  <2>1. w = [st |-> w.st, io |-> w.io, sessions |-> w.sessions, ctxs |-> w.ctxs, sel |-> w.sel,
             table |-> w.table, off |-> w.off, recs |-> w.recs]
    BY <1>1 DEF WriterOK
  <2> DEFINE cs == [w.ctxs EXCEPT ![ctx] = j]
             u == [w EXCEPT !.ctxs[ctx] = j, !.recs = w.recs]
  <2>2. v = [w EXCEPT !.ctxs = cs] /\ u = [w EXCEPT !.ctxs = cs, !.recs = w.recs]
    OBVIOUS
  <2> HIDE DEF w, cs, v, u
  <2>3. v = [st |-> w.st, io |-> w.io, sessions |-> w.sessions, ctxs |-> cs, sel |-> w.sel,
             table |-> w.table, off |-> w.off, recs |-> w.recs]
    BY <2>1, <2>2
  <2>4. u = [st |-> w.st, io |-> w.io, sessions |-> w.sessions, ctxs |-> cs, sel |-> w.sel,
             table |-> w.table, off |-> w.off, recs |-> w.recs]
    BY <2>1, <2>2
  <2> QED  BY <2>3, <2>4 DEF u
<1>3. writers' = [writers EXCEPT ![h] = v]
  OBVIOUS
<1> HIDE DEF v, w
<1>8. Retouched(w, ctx, j, w.recs, v)
  BY <1>2 DEF w, Retouched
<1>4. WriterOK(v) /\ v.off = w.off /\ \A c \in Pending(v) : SameRequest(w, v, c)
  BY <1>8, RetouchedOK
<1>5. Placed(file', v)
  BY <1>1, <1>4, SamePlaces
<1>6. HeaderInStep(file', v)
  BY <1>1 DEF HeaderInStep
<1>7. FInv'
  BY <1>1, <1>3, <1>4, <1>5, <1>6, OpenStep DEF w
<1> QED  BY <1>7 DEF BlocksStay, Kept

-----------------------------------------------------------------------------
(* Calls. *)

LEMMA SessionAddStep ==
  ASSUME FInv, NEW h \in Handles, writers[h].st = "open", NEW dsc \in Dscs, SessionAdd(h, dsc)
  PROVE  FInv' /\ BlocksStay
<1> DEFINE w == writers[h]
           sid == Cardinality(DOMAIN w.sessions) + 1
           blk == SessionBlock(sid, dsc)
           sessions == [s \in DOMAIN w.sessions \cup {sid} |-> IF s = sid THEN dsc ELSE w.sessions[s]]
           table == [w.table EXCEPT !.sessions = Append(w.table.sessions, SessionInfo(w.off, sid))]
           off == w.off + blk.len
           done == [w EXCEPT !.sessions = sessions, !.table = table, !.off = off]
<1>1. /\ FileOK(file) /\ WriterOK(w) /\ Placed(file, w) /\ log \in Logs
  BY OpenHandle
<1>2. BlockOK(blk) /\ blk.len = SessionLen /\ SessionLen \in Nat \ {0}
  BY SessionBlockOK, Lengths
<1>3. /\ w.off \in Nat /\ HeaderLen <= w.off
      /\ \A n : \A e \in file.ext : Whole(e) => End(e) <= w.off \/ w.off + n <= e.off
  BY <1>1, RoomBehind
<1>4. sid \in Nat \ {0}
  <2>1. DOMAIN w.sessions \subseteq 1..SidMax /\ IsFiniteSet(1..SidMax)
    <3>1. DOMAIN w.sessions \subseteq 1..SidMax
      BY <1>1 DEF WriterOK
    <3> QED  BY <3>1, IdsFinite
  <2>2. Cardinality(DOMAIN w.sessions) \in Nat
    BY <2>1, FS_Subset, FS_CardinalityType
  <2> QED  BY <2>2
<1>5. CASE \E code : Returns(h, code)
  BY <1>5, NothingChanges DEF Returns
<1>6. ASSUME sid <= SidMax, NEW fault \in Faults({NoCtx}, {"session"}), UNCHANGED log,
             IF fault = NoFault
             THEN Ends(h, [file |-> Written(file, w.off, blk, blk.len), w |-> done], "OK")
             ELSE Ends(h, [file |-> Partial(file, w.off, blk, fault), w |-> w], "INTERNAL")
      PROVE  FInv' /\ BlocksStay
  <2>1. CASE fault # NoFault
    <3> DEFINE g == Partial(file, w.off, blk, fault)
               a == [file |-> g, w |-> w]
    <3>1. fault.n \in Nat
      BY FaultsOK
    <3>2. \A e \in file.ext : Whole(e) => End(e) <= w.off \/ w.off + blk.len <= e.off
      BY <1>3
    <3> HIDE DEF blk
    <3>3. /\ FileOK(g) /\ g.hdr = file.hdr /\ Kept(file, g)
          /\ \A x \in g.ext : Whole(x) => x \in file.ext
      BY <1>1, <1>2, <1>3, <3>1, <3>2, PartialKeeps
    <3>4. Ends(h, a, "INTERNAL")
      BY <1>6, <2>1
    <3> HIDE DEF g, w
    <3>5. Placed(g, w)
      BY <1>1, <3>3, StaysPlaced
    <3>6. a.file = g /\ a.w = w
      OBVIOUS
    <3> HIDE DEF a
    <3> QED  BY <1>1, <1>6, <3>3, <3>4, <3>5, <3>6, EndsOK
  <2>2. CASE fault = NoFault
    <3> DEFINE g == Written(file, w.off, blk, blk.len)
               a == [file |-> g, w |-> done]
    <3>1. Ends(h, a, "OK")
      BY <1>6, <2>2
    <3>2. off \in Nat /\ w.off <= off
      BY <1>2, <1>3
    <3>3. \A e \in file.ext : Whole(e) => End(e) <= w.off \/ w.off + blk.len <= e.off
      BY <1>3
    <3>4. /\ FileOK(g) /\ g.hdr = file.hdr /\ Kept(file, g)
          /\ \A x \in g.ext : Whole(x) => x \in file.ext \/ (w.off <= x.off /\ End(x) <= off)
      <4> HIDE DEF blk
      <4>1. blk.len \in Nat /\ blk.len <= blk.len
        BY <1>2
      <4>2. /\ FileOK(g) /\ g.hdr = file.hdr /\ Kept(file, g)
            /\ \A x \in g.ext : Whole(x) => x \in file.ext \/ (x.off = w.off /\ End(x) = off)
        BY <1>1, <1>2, <1>3, <3>3, <4>1, WrittenKeeps
      <4> HIDE DEF g
      <4> QED  BY <4>2, <1>3, <3>2
    <3>5. sessions \in [DOMAIN sessions -> Dscs] /\ DOMAIN sessions \subseteq 1..SidMax
          /\ DOMAIN w.sessions \subseteq DOMAIN sessions
      BY <1>1, <1>4, <1>6 DEF WriterOK
    <3>6. table \in Contents
      <4>1. SessionInfo(w.off, sid) \in [off : Nat, sid : 1..SidMax]
        BY <1>3, <1>4, <1>6 DEF SessionInfo
      <4>2. w.table \in Contents
        BY <1>1 DEF WriterOK
      <4>3. Append(w.table.sessions, SessionInfo(w.off, sid)) \in Seq([off : Nat, sid : 1..SidMax])
        BY <4>1, <4>2, AppendProperties DEF Contents
      <4> QED  BY <4>2, <4>3 DEF Contents
    <3>7. /\ done.st = w.st /\ done.io = w.io /\ done.sessions = sessions /\ done.ctxs = w.ctxs
          /\ done.sel = w.sel /\ done.table = table /\ done.off = off /\ done.recs = w.recs
          /\ done = [st |-> done.st, io |-> done.io, sessions |-> done.sessions, ctxs |-> done.ctxs,
                     sel |-> done.sel, table |-> done.table, off |-> done.off, recs |-> done.recs]
      <4>1. w = [st |-> w.st, io |-> w.io, sessions |-> w.sessions, ctxs |-> w.ctxs, sel |-> w.sel,
                 table |-> w.table, off |-> w.off, recs |-> w.recs]
        BY <1>1 DEF WriterOK
      <4>2. done = [w EXCEPT !.sessions = sessions, !.table = table, !.off = off]
        OBVIOUS
      <4> HIDE DEF w, sessions, table, off, done
      <4>3. done = [st |-> w.st, io |-> w.io, sessions |-> sessions, ctxs |-> w.ctxs, sel |-> w.sel,
                    table |-> table, off |-> off, recs |-> w.recs]
        BY <4>1, <4>2
      <4> QED  BY <4>3
    <3> HIDE DEF done, sessions, table, off, g
    <3>8. \A c \in DOMAIN w.ctxs : c[1] \in DOMAIN sessions /\ ContextOK(w.ctxs[c], off)
      BY <1>1, <1>3, <3>2, <3>5, ContextMonotonic DEF WriterOK
    <3>9. HeaderLen <= off
      BY <1>3, <3>2, Lengths
    <3>10. WriterOK(done)
      BY <1>1, <3>2, <3>5, <3>6, <3>7, <3>8, <3>9 DEF WriterOK
    <3>11. Moves(file, w, g, done, NoCtx)
      BY <3>2, <3>4, <3>7 DEF Moves, SameRequest, Pending
    <3>12. Placed(g, done)
      BY <1>1, <3>4, <3>10, <3>11, PlacedKept
    <3>13. a.file = g /\ a.w = done
      OBVIOUS
    <3> HIDE DEF a
    <3> QED  BY <1>1, <1>6, <3>1, <3>4, <3>10, <3>12, <3>13, EndsOK
  <2> QED  BY <2>1, <2>2
<1> QED  BY <1>5, <1>6 DEF SessionAdd

LEMMA SelectCtxStep ==
  ASSUME FInv, NEW h \in Handles, writers[h].st = "open", NEW ctx \in Ctxs, NEW etime \in ETimes,
         SelectCtx(h, ctx, etime)
  PROVE  FInv' /\ BlocksStay
<1> DEFINE w == writers[h]
           ctxs == [c \in DOMAIN w.ctxs \cup {ctx} |->
                      [(IF c \in DOMAIN w.ctxs THEN w.ctxs[c] ELSE NewContext) EXCEPT
                         !.etime = IF c = ctx THEN etime ELSE @]]
           v == [w EXCEPT !.sel = ctx, !.ctxs = ctxs]
<1>1. /\ FileOK(file) /\ WriterOK(w) /\ Placed(file, w) /\ HeaderInStep(file, w)
      /\ log \in Logs /\ lost \in BOOLEAN /\ file.hdr.table = 0
  BY OpenHandle
<1>2. w.off \in Nat /\ HeaderLen <= w.off
  BY <1>1 DEF WriterOK
<1>3. CASE \E code : Returns(h, code)
  BY <1>3, NothingChanges DEF Returns
<1>4. CASE /\ ctx[1] \in DOMAIN w.sessions
           /\ writers' = [writers EXCEPT ![h] = v]
           /\ UNCHANGED <<file, lock, log, lost>>
  <2>1. ASSUME NEW c \in DOMAIN w.ctxs
        PROVE  /\ ContextOK(ctxs[c], w.off) /\ ctxs[c].req = w.ctxs[c].req
               /\ ctxs[c].buf = w.ctxs[c].buf
    <3> DEFINE i == w.ctxs[c]
               e == IF c = ctx THEN etime ELSE i.etime
               j == [i EXCEPT !.etime = e]
    <3>1. ContextOK(i, w.off)
      BY <1>1 DEF WriterOK
    <3>2. i = [toff |-> i.toff, tmplts |-> i.tmplts, last |-> i.last, etime |-> i.etime,
               buf |-> i.buf, main |-> i.main, req |-> i.req]
      BY <3>1, ContextFields
    <3>3. e \in ETimes
      BY <3>1 DEF ContextOK
    <3>4. ctxs[c] = j
      OBVIOUS
    <3> HIDE DEF e, ctxs
    <3>5. j = [i EXCEPT !.toff = i.toff, !.tmplts = i.tmplts, !.last = i.last, !.etime = e]
      <4> DEFINE k == [i EXCEPT !.toff = i.toff, !.tmplts = i.tmplts, !.last = i.last, !.etime = e]
      <4>1. j = [i EXCEPT !.etime = e] /\ k = [i EXCEPT !.toff = i.toff, !.tmplts = i.tmplts, !.last = i.last, !.etime = e]
        OBVIOUS
      <4> HIDE DEF i, j, k
      <4>2. j = [toff |-> i.toff, tmplts |-> i.tmplts, last |-> i.last, etime |-> e,
                 buf |-> i.buf, main |-> i.main, req |-> i.req]
        BY <3>2, <4>1
      <4>3. k = [toff |-> i.toff, tmplts |-> i.tmplts, last |-> i.last, etime |-> e,
                 buf |-> i.buf, main |-> i.main, req |-> i.req]
        BY <3>2, <4>1
      <4> QED  BY <4>2, <4>3 DEF k
    <3> HIDE DEF i, j
    <3>6. i.toff \in Nat /\ i.toff < w.off /\ i.tmplts \in [TIDs -> Defs \cup {NoDef}]
          /\ i.last \in Tmplts \cup {NoTmplt}
      BY <3>1 DEF ContextOK, i
    <3>7. ContextOK(j, w.off) /\ j.buf = i.buf /\ j.req = i.req
      <4> HIDE DEF w
      <4>1. Touched(i, w.off, i.toff, i.tmplts, i.last, e, j)
        BY <3>1, <3>3, <3>5, <3>6 DEF Touched
      <4> QED  BY <4>1, ContextWith
    <3> QED  BY <3>4, <3>7 DEF i
  <2>2. ASSUME ctx \notin DOMAIN w.ctxs
        PROVE  ContextOK(ctxs[ctx], w.off) /\ ctxs[ctx].req.st # "started"
    <3> DEFINE i == [NewContext EXCEPT !.etime = etime]
    <3>1. ctxs[ctx] = i
      BY <2>2
    <3>2. ContextOK(i, w.off)
      BY <1>2, NewContextOK
    <3>3. i.req.st = "none"
      BY DEF NewContext, NoRequest
    <3> QED  BY <3>1, <3>2, <3>3
  <2>3. /\ DOMAIN ctxs = DOMAIN w.ctxs \cup {ctx} /\ ctxs = [c \in DOMAIN ctxs |-> ctxs[c]]
    OBVIOUS
  <2> HIDE DEF ctxs
  <2>4. /\ v.st = w.st /\ v.io = w.io /\ v.sessions = w.sessions /\ v.ctxs = ctxs
        /\ v.sel = ctx /\ v.table = w.table /\ v.off = w.off /\ v.recs = w.recs
        /\ v = [st |-> v.st, io |-> v.io, sessions |-> v.sessions, ctxs |-> v.ctxs,
                sel |-> v.sel, table |-> v.table, off |-> v.off, recs |-> v.recs]
    <3>1. w = [st |-> w.st, io |-> w.io, sessions |-> w.sessions, ctxs |-> w.ctxs, sel |-> w.sel,
               table |-> w.table, off |-> w.off, recs |-> w.recs]
      BY <1>1 DEF WriterOK
    <3>2. v = [w EXCEPT !.sel = ctx, !.ctxs = ctxs]
      OBVIOUS
    <3> HIDE DEF w, v
    <3>3. v = [st |-> w.st, io |-> w.io, sessions |-> w.sessions, ctxs |-> ctxs, sel |-> ctx,
               table |-> w.table, off |-> w.off, recs |-> w.recs]
      BY <3>1, <3>2
    <3> QED  BY <3>3
  <2> HIDE DEF v
  <2>5. \A c \in DOMAIN ctxs : c[1] \in DOMAIN w.sessions /\ ContextOK(ctxs[c], w.off)
    <3>1. \A c \in DOMAIN w.ctxs : c[1] \in DOMAIN w.sessions
      BY <1>1 DEF WriterOK
    <3> QED  BY <1>4, <2>1, <2>2, <2>3, <3>1
  <2>6. WriterOK(v)
    BY <1>1, <2>3, <2>4, <2>5 DEF WriterOK
  <2>7. \A c \in Pending(v) : SameRequest(w, v, c)
    BY <2>1, <2>2, <2>3, <2>4 DEF Pending, SameRequest, From, To
  <2>8. Placed(file, v)
    BY <1>1, <2>4, <2>6, <2>7, SamePlaces
  <2>9. HeaderInStep(file, v)
    BY <1>1 DEF HeaderInStep
  <2>10. FInv'
    BY <1>1, <1>4, <2>6, <2>8, <2>9, OpenStep
  <2>11. file' = file
    BY <1>4
  <2> QED  BY <2>10, <2>11 DEF BlocksStay, Kept
<1>5. \/ \E code : Returns(h, code)
      \/ /\ ctx[1] \in DOMAIN w.sessions
         /\ writers' = [writers EXCEPT ![h] = v]
         /\ UNCHANGED <<file, lock, log, lost>>
  <2>1. CASE w.sel # ctx /\ ctx[1] \notin DOMAIN w.sessions /\ Returns(h, "NOTFOUND")
    BY <2>1
  <2>2. CASE ~ (w.sel # ctx /\ ctx[1] \notin DOMAIN w.sessions /\ Returns(h, "NOTFOUND"))
    BY <2>2, Zenon DEF SelectCtx
  <2> QED  BY <2>1, <2>2
<1> QED  BY <1>3, <1>4, <1>5

\* The context the next record belongs to.
LEMMA SelectedOK ==
  ASSUME FInv, NEW h \in Handles, writers[h].st = "open", writers[h].sel # NoCtx
  PROVE  /\ AOK(Start(h)) /\ Start(h).file = file /\ Start(h).w = writers[h] /\ Start(h).ok = TRUE
         /\ writers[h].sel \in DOMAIN writers[h].ctxs
         /\ ContextOK(Selected(h), writers[h].off)
         /\ Retouches(writers[h], writers[h].sel, Selected(h), writers[h].recs)
<1>1. FileOK(file) /\ WriterOK(writers[h]) /\ Placed(file, writers[h])
  BY OpenHandle
<1>2. writers[h].sel \in DOMAIN writers[h].ctxs
  BY <1>1 DEF WriterOK
<1>3. ContextOK(Selected(h), writers[h].off)
  BY <1>1, <1>2 DEF WriterOK, Selected
<1>4. writers[h].recs \in Nat
  BY <1>1 DEF WriterOK
<1> QED  BY <1>1, <1>2, <1>3, <1>4 DEF AOK, Start, Retouches, Selected

\* Flushing the selected context at the beginning of a call.
LEMMA FlushSelected ==
  ASSUME FInv, NEW h \in Handles, writers[h].st = "open", writers[h].sel # NoCtx,
         ~Waits(Selected(h)), NEW fault \in FlushFaults(h)
  PROVE  LET r == Flush(Start(h), writers[h].sel, fault)
         IN  /\ After(Start(h), r, writers[h].sel)
             /\ r.ok => Main(r.w.ctxs[writers[h].sel]).len = DataHdr
<1>1. fault.n \in Nat
  BY FaultsOK DEF FlushFaults
<1> DEFINE a == Start(h)
           ctx == writers[h].sel
<1>2. AOK(a) /\ ctx \in DOMAIN a.w.ctxs /\ ~Waits(a.w.ctxs[ctx])
  BY SelectedOK DEF Selected
<1> HIDE DEF a, ctx
<1>3. LET r == Flush(a, ctx, fault)
      IN  After(a, r, ctx) /\ (r.ok => Main(r.w.ctxs[ctx]).len = DataHdr)
  BY <1>1, <1>2, FlushKeeps
<1> QED  BY <1>3 DEF a, ctx

\* A call ends with what its flush left.
LEMMA FlushEnds ==
  ASSUME FInv, NEW h \in Handles, writers[h].st = "open", NEW a, After(Start(h), a, writers[h].sel),
         NEW code, Ends(h, a, code), log' = log
  PROVE  FInv' /\ BlocksStay
<1>1. FileOK(a.file) /\ WriterOK(a.w) /\ Placed(a.file, a.w) /\ Kept(file, a.file) /\ a.file.hdr = file.hdr
  BY DEF After, AOK, Start
<1>2. log' \in Logs
  BY OpenHandle
<1> QED  BY <1>1, <1>2, EndsOK

\* ... or with a context changed after it, and the number of records.
LEMMA RetouchEnds ==
  ASSUME FInv, NEW h \in Handles, writers[h].st = "open", NEW a, After(Start(h), a, writers[h].sel),
         NEW ctx, NEW j, NEW recs, NEW r, r.file = a.file, Retouched(a.w, ctx, j, recs, r.w),
         NEW code, Ends(h, r, code), log' \in Logs
  PROVE  FInv' /\ BlocksStay
<1>1. FileOK(a.file) /\ WriterOK(a.w) /\ Placed(a.file, a.w) /\ Kept(file, a.file) /\ a.file.hdr = file.hdr
  BY DEF After, AOK, Start
<1>2. WriterOK(r.w) /\ r.w.off = a.w.off /\ \A c \in Pending(r.w) : SameRequest(a.w, r.w, c)
  BY RetouchedOK
<1>3. Placed(a.file, r.w)
  BY <1>1, <1>2, SamePlaces
<1> QED  BY <1>1, <1>2, <1>3, EndsOK

\* The context a flush leaves.
LEMMA FlushedContext ==
  ASSUME FInv, NEW h \in Handles, writers[h].st = "open", writers[h].sel # NoCtx,
         NEW a, After(Start(h), a, writers[h].sel)
  PROVE  /\ AOK(a) /\ WriterOK(a.w) /\ a.w.sel = writers[h].sel /\ a.w.sel \in DOMAIN a.w.ctxs
         /\ ContextOK(a.w.ctxs[a.w.sel], a.w.off)
         /\ a.w.recs \in Nat /\ a.w.sel \in Ctxs /\ a.w.sel[1] \in DOMAIN a.w.sessions
         /\ a.w.sessions \in [DOMAIN a.w.sessions -> Dscs]
<1>1. /\ AOK(a) /\ a.w.sel = writers[h].sel /\ DOMAIN a.w.ctxs = DOMAIN Start(h).w.ctxs
  BY DEF After, Start
<1>2. WriterOK(a.w)
  BY <1>1 DEF AOK
<1>3. a.w.sel \in DOMAIN a.w.ctxs
  BY <1>1, SelectedOK DEF Start
<1> QED  BY <1>1, <1>2, <1>3 DEF WriterOK

\* A context with another last template.
LEMMA LastChanged ==
  ASSUME NEW i, NEW off, ContextOK(i, off), NEW last \in Tmplts \cup {NoTmplt},
         NEW j, j = [i EXCEPT !.last = last]
  PROVE  ContextOK(j, off) /\ j.buf = i.buf /\ j.main = i.main /\ j.req = i.req /\ j.etime = i.etime
<1> DEFINE k == [i EXCEPT !.toff = i.toff, !.tmplts = i.tmplts, !.last = last, !.etime = i.etime]
<1>1. i = [toff |-> i.toff, tmplts |-> i.tmplts, last |-> i.last, etime |-> i.etime,
           buf |-> i.buf, main |-> i.main, req |-> i.req]
  BY ContextFields
<1>2. j = [toff |-> i.toff, tmplts |-> i.tmplts, last |-> last, etime |-> i.etime,
           buf |-> i.buf, main |-> i.main, req |-> i.req]
  BY <1>1
<1>3. k = [toff |-> i.toff, tmplts |-> i.tmplts, last |-> last, etime |-> i.etime,
           buf |-> i.buf, main |-> i.main, req |-> i.req]
  <2>1. k = [i EXCEPT !.toff = i.toff, !.tmplts = i.tmplts, !.last = last, !.etime = i.etime]
    OBVIOUS
  <2> HIDE DEF k
  <2> QED  BY <1>1, <2>1
<1>4. i.toff \in Nat /\ i.toff < off /\ i.tmplts \in [TIDs -> Defs \cup {NoDef}] /\ i.etime \in ETimes
  BY DEF ContextOK
<1>5. j = k
  BY <1>2, <1>3
<1>6. Touched(i, off, i.toff, i.tmplts, last, i.etime, j)
  <2>1. k = [i EXCEPT !.toff = i.toff, !.tmplts = i.tmplts, !.last = last, !.etime = i.etime]
    OBVIOUS
  <2> HIDE DEF k
  <2> QED  BY <1>4, <1>5, <2>1 DEF Touched
<1>7. j.etime = i.etime
  BY <1>2
<1> QED  BY <1>6, <1>7, ContextWith

RoomFor(b, len) == b.len + MsgHdr + SetHdr + len <= Capacity

LEMMA StoreStep ==
  ASSUME FInv, NEW h \in Handles, writers[h].st = "open", writers[h].sel # NoCtx,
         NEW a, After(Start(h), a, writers[h].sel),
         NEW tid \in TIDs, NEW def \in Defs, NEW tmplt \in Tmplts,
         a.ok => RoomFor(Main(a.w.ctxs[a.w.sel]), RecLen[def]),
         Store(h, a, tid, def, tmplt)
  PROVE  FInv' /\ BlocksStay
<1> DEFINE ctx == a.w.sel
           i == a.w.ctxs[ctx]
           key == KeyOf(a.w, ctx)
           n == Len(log[key]) + 1
           rec == [tid |-> tid, n |-> n]
           k == [i EXCEPT !.last = tmplt]
<1>1. /\ AOK(a) /\ WriterOK(a.w) /\ ctx = writers[h].sel /\ ctx \in DOMAIN a.w.ctxs
      /\ ContextOK(i, a.w.off) /\ a.w.recs \in Nat /\ ctx \in Ctxs /\ ctx[1] \in DOMAIN a.w.sessions
      /\ a.w.sessions \in [DOMAIN a.w.sessions -> Dscs]
  BY FlushedContext
<1>2. log \in Logs
  BY OpenHandle
<1>3. a = [file |-> a.file, w |-> a.w, ok |-> a.ok]
  BY <1>1 DEF AOK
<1>4. a.w = [st |-> a.w.st, io |-> a.w.io, sessions |-> a.w.sessions, ctxs |-> a.w.ctxs,
             sel |-> a.w.sel, table |-> a.w.table, off |-> a.w.off, recs |-> a.w.recs]
  BY <1>1 DEF WriterOK
<1>5. ContextOK(k, a.w.off) /\ k.buf = i.buf /\ k.main = i.main /\ k.req = i.req /\ k.etime = i.etime
  <2> HIDE DEF i
  <2> QED  BY <1>1, LastChanged
<1>6. CASE ~a.ok /\ Ends(h, a, "INTERNAL") /\ UNCHANGED log
  BY <1>6, FlushEnds
<1>7. ASSUME UNCHANGED log, Ends(h, [a EXCEPT !.w.ctxs[ctx].last = tmplt], "FORMAT")
      PROVE  FInv' /\ BlocksStay
  <2> DEFINE v == [a.w EXCEPT !.ctxs[ctx] = k, !.recs = a.w.recs]
             r == [a EXCEPT !.w.ctxs[ctx].last = tmplt]
  <2>1. r.file = a.file /\ r.w = [a.w EXCEPT !.ctxs[ctx].last = tmplt]
    BY <1>3
  <2>2. [a.w EXCEPT !.ctxs[ctx].last = tmplt] = [a.w EXCEPT !.ctxs[ctx] = k]
    OBVIOUS
  <2>3. [a.w EXCEPT !.ctxs[ctx] = k] = v
    <3> DEFINE cs == [a.w.ctxs EXCEPT ![ctx] = k]
               u == [a.w EXCEPT !.ctxs[ctx] = k]
               w == a.w
    <3>1. u = [w EXCEPT !.ctxs = cs] /\ v = [w EXCEPT !.ctxs = cs, !.recs = w.recs]
      OBVIOUS
    <3>2. w = [st |-> w.st, io |-> w.io, sessions |-> w.sessions, ctxs |-> w.ctxs,
               sel |-> w.sel, table |-> w.table, off |-> w.off, recs |-> w.recs]
      BY <1>4
    <3> HIDE DEF u, v, w, cs
    <3>3. u = [st |-> w.st, io |-> w.io, sessions |-> w.sessions, ctxs |-> cs,
               sel |-> w.sel, table |-> w.table, off |-> w.off, recs |-> w.recs]
      BY <3>1, <3>2
    <3>4. v = [st |-> w.st, io |-> w.io, sessions |-> w.sessions, ctxs |-> cs,
               sel |-> w.sel, table |-> w.table, off |-> w.off, recs |-> w.recs]
      BY <3>1, <3>2
    <3> QED  BY <3>3, <3>4 DEF u
  <2>4. Ends(h, r, "FORMAT")
    BY <1>7
  <2>5. v = [a.w EXCEPT !.ctxs[ctx] = k, !.recs = a.w.recs]
    OBVIOUS
  <2> HIDE DEF v, r, k
  <2>6. r.w = v
    BY <2>1, <2>2, <2>3
  <2>7. Retouched(a.w, ctx, k, a.w.recs, r.w)
    BY <2>5, <2>6, <1>1, <1>5 DEF Retouched, Retouches
  <2>8. log' \in Logs
    BY <1>2, <1>7
  <2> QED  BY <1>1, <2>1, <2>4, <2>7, <2>8, RetouchEnds
<1>8. ASSUME a.ok, Ends(h, [a EXCEPT
                !.w.ctxs[ctx] = [i EXCEPT !.last = tmplt,
                   !.buf[i.main] = AddRecord(@, rec, i.etime, RecLen[def])],
                !.w.recs = @ + 1], "OK"),
             log' = [log EXCEPT ![key] = Append(@, [n |-> n, def |-> tmplt.def, etime |-> i.etime])]
      PROVE  FInv' /\ BlocksStay
  <2> DEFINE b == AddRecord(Main(i), rec, i.etime, RecLen[def])
             j == [i EXCEPT !.last = tmplt, !.buf[i.main] = AddRecord(@, rec, i.etime, RecLen[def])]
             recs == a.w.recs + 1
             v == [a.w EXCEPT !.ctxs[ctx] = j, !.recs = recs]
             r == [a EXCEPT !.w.ctxs[ctx] = j, !.w.recs = @ + 1]
  <2>1. key \in Keys
    BY <1>1 DEF KeyOf, Keys, Ctxs
  <2>2. log[key] \in Seq([n : Nat, def : Defs, etime : ETimes])
    BY <1>2, <2>1 DEF Logs
  <2>3. n \in Nat
    <3>1. Len(log[key]) \in Nat
      BY <2>2, LenProperties
    <3> QED  BY <3>1
  <2> HIDE DEF key, n
  <2>4. rec \in Records
    BY <2>3 DEF Records
  <2>5. i.etime \in ETimes
    BY <1>1 DEF ContextOK
  <2>6. log' \in Logs
    <3>1. Append(log[key], [n |-> n, def |-> tmplt.def, etime |-> i.etime])
            \in Seq([n : Nat, def : Defs, etime : ETimes])
      BY <2>2, <2>3, <2>5, AppendProperties DEF Tmplts
    <3> HIDE DEF i
    <3> QED  BY <1>2, <1>8, <2>1, <3>1 DEF Logs
  <2>7. BufferOK(b) /\ b.toff < a.w.off
    <3>1. BufferOK(Main(i)) /\ Main(i).toff < a.w.off
      BY <1>1, ContextFields
    <3>2. RecLen[def] \in Nat
      BY Lengths
    <3>3. Main(i).len + MsgHdr + SetHdr + RecLen[def] <= Capacity
      BY <1>8 DEF RoomFor
    <3> HIDE DEF i, rec
    <3>4. BufferOK(b) /\ b.toff = Main(i).toff
      BY <2>4, <2>5, <3>1, <3>2, <3>3, AddRecordOK
    <3> QED  BY <3>1, <3>4
  <2>8. j = [k EXCEPT !.buf[k.main] = b]
    <3>1. j = [k EXCEPT !.buf[i.main] = AddRecord(k.buf[i.main], rec, i.etime, RecLen[def])]
      OBVIOUS
    <3> HIDE DEF j, k, rec
    <3> QED  BY <1>5, <3>1 DEF Main
  <2>9. a.w.off \in Nat
    BY <1>1 DEF WriterOK
  <2> HIDE DEF b
  <2>10. /\ ContextOK(j, a.w.off) /\ j.req = k.req
         /\ j.req.st = "started" => j.buf[j.req.buf] = k.buf[k.req.buf]
    <3> HIDE DEF j, k
    <3>1. NewMain(j, k, a.w.off, b)
      BY <1>5, <2>7, <2>8, <2>9 DEF NewMain
    <3> QED  BY <3>1, MainChanged
  <2> HIDE DEF j, k
  <2>11. Ends(h, r, "OK")
    BY <1>8 DEF j
  <2>12. r.file = a.file /\ r.w = v
    <3> DEFINE cs == [a.w.ctxs EXCEPT ![ctx] = j]
               u == [a.w EXCEPT !.ctxs[ctx] = j]
               w == a.w
               x == [u EXCEPT !.recs = u.recs + 1]
    <3>1. r = [a EXCEPT !.w = x]
      OBVIOUS
    <3>2. u = [w EXCEPT !.ctxs = cs] /\ v = [w EXCEPT !.ctxs = cs, !.recs = recs]
      OBVIOUS
    <3>3. w = [st |-> w.st, io |-> w.io, sessions |-> w.sessions, ctxs |-> w.ctxs,
               sel |-> w.sel, table |-> w.table, off |-> w.off, recs |-> w.recs]
      BY <1>4
    <3>4. recs = w.recs + 1
      OBVIOUS
    <3>5. x = [u EXCEPT !.recs = u.recs + 1]
      OBVIOUS
    <3> HIDE DEF r, u, v, w, cs, recs, x
    <3>6. u = [st |-> w.st, io |-> w.io, sessions |-> w.sessions, ctxs |-> cs,
               sel |-> w.sel, table |-> w.table, off |-> w.off, recs |-> w.recs]
      BY <3>2, <3>3
    <3>7. v = [st |-> w.st, io |-> w.io, sessions |-> w.sessions, ctxs |-> cs,
               sel |-> w.sel, table |-> w.table, off |-> w.off, recs |-> recs]
      BY <3>2, <3>3
    <3>8. x = v
      BY <3>4, <3>5, <3>6, <3>7
    <3>9. r = [file |-> a.file, w |-> x, ok |-> a.ok]
      BY <1>3, <3>1
    <3> QED  BY <3>8, <3>9
  <2>13. recs \in Nat
    BY <1>1
  <2>14. v = [a.w EXCEPT !.ctxs[ctx] = j, !.recs = recs]
    OBVIOUS
  <2> HIDE DEF v, r, recs
  <2>15. Retouched(a.w, ctx, j, recs, r.w)
    BY <2>10, <2>12, <2>13, <2>14, <1>1, <1>5 DEF Retouched, Retouches
  <2> QED  BY <1>1, <2>6, <2>11, <2>12, <2>15, RetouchEnds
<1> QED  BY <1>6, <1>7, <1>8 DEF Store

LEMMA WriteRecStep ==
  ASSUME FInv, NEW h \in Handles, writers[h].st = "open", NEW tid \in TIDs, NEW def \in Defs,
         WriteRec(h, tid, def)
  PROVE  FInv' /\ BlocksStay
<1> DEFINE i == Selected(h)
           sel == writers[h].sel
           tmplt == TemplateOf(i, tid)
           full == RecLen[def] > Remains(Main(i))
           flushed(fault) == IF full THEN Flush(Start(h), sel, fault) ELSE Start(h)
<1>1. CASE \E code : Returns(h, code)
  BY <1>1, NothingChanges DEF Returns
<1>2. ASSUME sel # NoCtx, tmplt.def # NoDef, ~(full /\ Waits(i)),
             NEW fault \in FlushFaults(h), Store(h, flushed(fault), tid, def, tmplt)
      PROVE  FInv' /\ BlocksStay
  <2> DEFINE a == flushed(fault)
  <2>1. ContextOK(i, writers[h].off) /\ BufferOK(Main(i)) /\ AOK(Start(h)) /\ Start(h).w = writers[h]
    BY <1>2, SelectedOK, ContextFields
  <2>2. tmplt \in Tmplts
    <3>1. i.last \in Tmplts \cup {NoTmplt} /\ i.tmplts \in [TIDs -> Defs \cup {NoDef}]
      BY <2>1 DEF ContextOK
    <3>2. CASE i.last # NoTmplt /\ i.last.tid = tid
      BY <3>1, <3>2 DEF TemplateOf
    <3>3. CASE ~(i.last # NoTmplt /\ i.last.tid = tid)
      <4>1. tmplt = [tid |-> tid, def |-> i.tmplts[tid]]
        BY <3>3 DEF TemplateOf
      <4>2. i.tmplts[tid] \in Defs
        BY <1>2, <3>1, <4>1
      <4> QED  BY <4>1, <4>2 DEF Tmplts
    <3> QED  BY <3>2, <3>3
  <2>3. After(Start(h), a, sel) /\ (a.ok => RoomFor(Main(a.w.ctxs[a.w.sel]), RecLen[def]))
    <3>1. CASE full
      <4> DEFINE r == Flush(Start(h), sel, fault)
      <4>1. ~Waits(i)
        BY <1>2, <3>1
      <4>2. After(Start(h), r, sel) /\ (r.ok => Main(r.w.ctxs[sel]).len = DataHdr)
        BY <1>2, <4>1, FlushSelected
      <4>3. a = r
        BY <3>1
      <4>4. r.w.sel = sel
        BY <4>2, <2>1 DEF After
      <4> HIDE DEF a, r, sel
      <4>5. DataHdr + MsgHdr + SetHdr + RecLen[def] <= Capacity
        BY Lengths
      <4> QED  BY <4>2, <4>3, <4>4, <4>5 DEF RoomFor
    <3>2. CASE ~full
      <4>1. a = Start(h)
        BY <3>2
      <4>2. Main(a.w.ctxs[a.w.sel]) = Main(i)
        BY <2>1, <4>1 DEF Selected
      <4>3. RecLen[def] \in Nat \ {0} /\ MsgHdr \in Nat /\ SetHdr \in Nat /\ Capacity \in Nat
        BY Lengths
      <4>4. RoomFor(Main(i), RecLen[def])
        <5>1. Main(i).len \in Nat
          BY <2>1 DEF BufferOK
        <5> HIDE DEF i
        <5> QED  BY <3>2, <4>3, <5>1 DEF Remains, RoomFor
      <4> HIDE DEF i, a
      <4> QED  BY <2>1, <4>1, <4>2, <4>4, AfterItself
    <3> QED  BY <3>1, <3>2
  <2> HIDE DEF a, tmplt
  <2>4. Store(h, a, tid, def, tmplt)
    BY <1>2 DEF a, tmplt
  <2> QED  BY <1>2, <2>2, <2>3, <2>4, StoreStep
<1> QED  BY <1>1, <1>2 DEF WriteRec, NotSelected

\* The templates of a context are changed: its next block needs a new Template
\* Block before it.
Redefines(i, off, tid, def, last, j) ==
  /\ off \in Nat /\ ContextOK(i, off) /\ tid \in TIDs /\ def \in Defs \cup {NoDef}
  /\ last \in {i.last, NoTmplt}
  /\ j = [i EXCEPT !.tmplts[tid] = def, !.toff = 0, !.last = last]

LEMMA TmpltsChanged ==
  ASSUME NEW i, NEW off, NEW tid, NEW def, NEW last, NEW j, Redefines(i, off, tid, def, last, j)
  PROVE  ContextOK(j, off) /\ j.buf = i.buf /\ j.main = i.main /\ j.req = i.req
<1> DEFINE tmplts == [i.tmplts EXCEPT ![tid] = def]
           k == [i EXCEPT !.toff = 0, !.tmplts = tmplts, !.last = last, !.etime = i.etime]
<1>0. off \in Nat /\ ContextOK(i, off) /\ tid \in TIDs /\ def \in Defs \cup {NoDef}
      /\ last \in {i.last, NoTmplt}
  BY DEF Redefines
<1>1. i = [toff |-> i.toff, tmplts |-> i.tmplts, last |-> i.last, etime |-> i.etime,
           buf |-> i.buf, main |-> i.main, req |-> i.req]
  BY <1>0, ContextFields
<1>2. i.toff \in Nat /\ i.toff < off /\ i.tmplts \in [TIDs -> Defs \cup {NoDef}]
      /\ i.last \in Tmplts \cup {NoTmplt} /\ i.etime \in ETimes
  BY <1>0 DEF ContextOK
<1>3. tmplts \in [TIDs -> Defs \cup {NoDef}]
  BY <1>0, <1>2
<1>4. j = [i EXCEPT !.tmplts = tmplts, !.toff = 0, !.last = last]
  BY DEF Redefines
<1>5. k = [i EXCEPT !.toff = 0, !.tmplts = tmplts, !.last = last, !.etime = i.etime]
  OBVIOUS
<1> HIDE DEF k, tmplts
<1>6. j = [toff |-> 0, tmplts |-> tmplts, last |-> last, etime |-> i.etime,
           buf |-> i.buf, main |-> i.main, req |-> i.req]
  BY <1>1, <1>4
<1>7. k = [toff |-> 0, tmplts |-> tmplts, last |-> last, etime |-> i.etime,
           buf |-> i.buf, main |-> i.main, req |-> i.req]
  BY <1>1, <1>5
<1>8. 0 < off /\ last \in Tmplts \cup {NoTmplt}
  BY <1>0, <1>2
<1>9. j = k
  BY <1>6, <1>7
<1>10. Touched(i, off, 0, tmplts, last, i.etime, j)
  BY <1>0, <1>2, <1>3, <1>5, <1>8, <1>9 DEF Touched
<1> QED  BY <1>10, ContextWith

LEMMA RedefiningStep ==
  ASSUME FInv, NEW h \in Handles, writers[h].st = "open", writers[h].sel # NoCtx,
         NEW tid \in TIDs, NEW def \in Defs \cup {NoDef, Malformed}, Redefining(h, tid, def)
  PROVE  FInv' /\ BlocksStay
<1>1. PICK fault \in FlushFaults(h) :
        LET a == IF def = Malformed THEN Flush(Start(h), writers[h].sel, fault)
                 ELSE Redefine(Start(h), tid, def, fault)
        IN  /\ UNCHANGED log
            /\ Ends(h, a, IF ~a.ok THEN "INTERNAL" ELSE IF def = Malformed THEN "FORMAT" ELSE "OK")
  BY DEF Redefining
<1> DEFINE sel == writers[h].sel
           b == Flush(Start(h), sel, fault)
<1>2. After(Start(h), b, sel)
  BY FlushSelected DEF Redefining
<1>3. Start(h).w.sel = sel /\ log' = log
  BY <1>1, SelectedOK
<1> DEFINE a == IF def = Malformed THEN Flush(Start(h), writers[h].sel, fault)
                ELSE Redefine(Start(h), tid, def, fault)
           code == IF ~a.ok THEN "INTERNAL" ELSE IF def = Malformed THEN "FORMAT" ELSE "OK"
<1>4. Ends(h, a, code)
  BY <1>1
<1> HIDE DEF code
<1>5. CASE def = Malformed \/ ~b.ok
  <2>1. a = b
    BY <1>3, <1>5 DEF Redefine, Redefined
  <2> HIDE DEF a, b, sel
  <2> QED  BY <1>2, <1>3, <1>4, <2>1, FlushEnds DEF sel
<1>6. CASE def # Malformed /\ b.ok
  <2> DEFINE i == b.w.ctxs[b.w.sel]
             j == [i EXCEPT !.tmplts[tid] = def, !.toff = 0, !.last = NoTmplt]
             v == [b.w EXCEPT !.ctxs[b.w.sel] = j, !.recs = b.w.recs]
  <2>1. /\ AOK(b) /\ WriterOK(b.w) /\ b.w.sel = sel /\ b.w.sel \in DOMAIN b.w.ctxs
        /\ ContextOK(i, b.w.off) /\ b.w.recs \in Nat
    <3> HIDE DEF b
    <3> QED  BY <1>2, FlushedContext
  <2>2. def \in Defs \cup {NoDef}
    BY <1>6
  <2>3. ContextOK(j, b.w.off) /\ j.buf = i.buf /\ j.req = i.req
    <3>1. b.w.off \in Nat
      BY <2>1 DEF WriterOK
    <3>2. j = [i EXCEPT !.tmplts[tid] = def, !.toff = 0, !.last = NoTmplt]
      OBVIOUS
    <3> HIDE DEF i, j
    <3>3. Redefines(i, b.w.off, tid, def, NoTmplt, j)
      BY <2>1, <2>2, <3>1, <3>2 DEF Redefines
    <3> QED  BY <3>3, TmpltsChanged
  <2>4. a = [b EXCEPT !.w.ctxs[b.w.sel] = j]
    <3>1. a = Redefined(b, tid, def)
      BY <1>3, <1>6 DEF Redefine
    <3> HIDE DEF a, b
    <3> QED  BY <1>6, <3>1 DEF Redefined
  <2>5. b = [file |-> b.file, w |-> b.w, ok |-> b.ok]
    BY <2>1 DEF AOK
  <2> HIDE DEF a, b, j
  <2>6. a.file = b.file /\ a.w = v
    <3> DEFINE w == b.w
               cs == [w.ctxs EXCEPT ![b.w.sel] = j]
               u == [b.w EXCEPT !.ctxs[b.w.sel] = j]
    <3>1. a.file = b.file /\ a.w = u
      BY <2>4, <2>5
    <3>2. u = [w EXCEPT !.ctxs = cs] /\ v = [w EXCEPT !.ctxs = cs, !.recs = w.recs]
      OBVIOUS
    <3>3. w = [st |-> w.st, io |-> w.io, sessions |-> w.sessions, ctxs |-> w.ctxs,
               sel |-> w.sel, table |-> w.table, off |-> w.off, recs |-> w.recs]
      BY <2>1 DEF WriterOK
    <3> HIDE DEF u, v, w, cs
    <3>4. u = [st |-> w.st, io |-> w.io, sessions |-> w.sessions, ctxs |-> cs,
               sel |-> w.sel, table |-> w.table, off |-> w.off, recs |-> w.recs]
      BY <3>2, <3>3
    <3>5. v = [st |-> w.st, io |-> w.io, sessions |-> w.sessions, ctxs |-> cs,
               sel |-> w.sel, table |-> w.table, off |-> w.off, recs |-> w.recs]
      BY <3>2, <3>3
    <3> QED  BY <3>1, <3>4, <3>5
  <2>7. v = [b.w EXCEPT !.ctxs[b.w.sel] = j, !.recs = b.w.recs]
    OBVIOUS
  <2> HIDE DEF v
  <2>8. Retouched(b.w, b.w.sel, j, b.w.recs, a.w)
    BY <2>1, <2>3, <2>6, <2>7 DEF Retouched, Retouches
  <2>9. log' \in Logs
    BY <1>3, OpenHandle
  <2> HIDE DEF sel
  <2> QED  BY <1>2, <1>4, <2>6, <2>8, <2>9, RetouchEnds DEF sel
<1> QED  BY <1>5, <1>6

LEMMA TmpltAddStep ==
  ASSUME FInv, NEW h \in Handles, writers[h].st = "open", NEW tid \in TIDs,
         NEW def \in Defs \cup {Malformed}, TmpltAdd(h, tid, def)
  PROVE  FInv' /\ BlocksStay
<1> DEFINE i == Selected(h)
           sel == writers[h].sel
           j == [i EXCEPT !.tmplts[tid] = def, !.toff = 0]
<1>1. CASE \E code : Returns(h, code)
  BY <1>1, NothingChanges DEF Returns
<1>2. ASSUME sel # NoCtx, def # Malformed,
             writers' = [writers EXCEPT ![h].ctxs[sel] = [@ EXCEPT !.tmplts[tid] = def, !.toff = 0]],
             UNCHANGED <<file, lock, log, lost>>
      PROVE  FInv' /\ BlocksStay
  <2>1. ContextOK(i, writers[h].off) /\ Retouches(writers[h], sel, i, writers[h].recs)
    BY <1>2, SelectedOK
  <2>2. i = [toff |-> i.toff, tmplts |-> i.tmplts, last |-> i.last, etime |-> i.etime,
             buf |-> i.buf, main |-> i.main, req |-> i.req]
    BY <2>1, ContextFields
  <2>3. j = [i EXCEPT !.tmplts[tid] = def, !.toff = 0, !.last = i.last]
    <3> DEFINE t == [i.tmplts EXCEPT ![tid] = def]
               k == [i EXCEPT !.tmplts[tid] = def, !.toff = 0, !.last = i.last]
    <3>1. j = [i EXCEPT !.tmplts = t, !.toff = 0] /\ k = [i EXCEPT !.tmplts = t, !.toff = 0, !.last = i.last]
      OBVIOUS
    <3> HIDE DEF i, j, k, t
    <3>2. j = [toff |-> 0, tmplts |-> t, last |-> i.last, etime |-> i.etime,
               buf |-> i.buf, main |-> i.main, req |-> i.req]
      BY <2>2, <3>1
    <3>3. k = [toff |-> 0, tmplts |-> t, last |-> i.last, etime |-> i.etime,
               buf |-> i.buf, main |-> i.main, req |-> i.req]
      BY <2>2, <3>1
    <3> QED  BY <3>2, <3>3 DEF k
  <2>4. writers' = [writers EXCEPT ![h].ctxs[sel] = j]
    BY <1>2 DEF Selected
  <2>5. def \in Defs \cup {NoDef}
    BY <1>2
  <2> HIDE DEF j, i
  <2>6. ContextOK(j, writers[h].off) /\ j.buf = i.buf /\ j.req = i.req
    <3>1. writers[h].off \in Nat
      BY OpenHandle DEF WriterOK
    <3>2. Redefines(i, writers[h].off, tid, def, i.last, j)
      BY <2>1, <2>3, <2>5, <3>1 DEF Redefines
    <3> QED  BY <3>2, TmpltsChanged
  <2>7. Retouches(writers[h], sel, j, writers[h].recs)
    BY <2>1, <2>6 DEF Retouches
  <2> QED  BY <1>2, <2>4, <2>7, RetouchStep
<1>3. ASSUME sel # NoCtx, Redefining(h, tid, def) PROVE FInv' /\ BlocksStay
  BY <1>3, RedefiningStep
<1> QED  BY <1>1, <1>2, <1>3 DEF TmpltAdd, NotSelected

LEMMA TmpltRemoveStep ==
  ASSUME FInv, NEW h \in Handles, writers[h].st = "open", NEW tid \in TIDs, TmpltRemove(h, tid)
  PROVE  FInv' /\ BlocksStay
<1>1. CASE \E code : Returns(h, code)
  BY <1>1, NothingChanges DEF Returns
<1>2. ASSUME writers[h].sel # NoCtx, Redefining(h, tid, NoDef) PROVE FInv' /\ BlocksStay
  BY <1>2, RedefiningStep
<1> QED  BY <1>1, <1>2 DEF TmpltRemove, NotSelected

LEMMA SetIemgrStep ==
  ASSUME FInv, NEW h \in Handles, writers[h].st = "open", SetIemgr(h)
  PROVE  FInv' /\ BlocksStay
<1> DEFINE w == writers[h]
           ctxs == [c \in DOMAIN w.ctxs |-> [w.ctxs[c] EXCEPT !.last = NoTmplt]]
           v == [w EXCEPT !.ctxs = ctxs]
<1>1. /\ FileOK(file) /\ WriterOK(w) /\ Placed(file, w)
      /\ log \in Logs /\ lost \in BOOLEAN /\ file.hdr.table = 0
  BY OpenHandle
<1>2. writers' = [writers EXCEPT ![h] = v] /\ file' = file /\ lock' = lock /\ log' = log /\ lost' = lost
  BY DEF SetIemgr
<1>3. ASSUME NEW c \in DOMAIN w.ctxs
      PROVE  ContextOK(ctxs[c], w.off) /\ ctxs[c].req = w.ctxs[c].req /\ ctxs[c].buf = w.ctxs[c].buf
  <2> DEFINE i == w.ctxs[c]
             j == [i EXCEPT !.last = NoTmplt]
  <2>1. ContextOK(i, w.off)
    BY <1>1 DEF WriterOK
  <2>2. ctxs[c] = j
    OBVIOUS
  <2> HIDE DEF i
  <2>3. ContextOK(j, w.off) /\ j.buf = i.buf /\ j.req = i.req
    BY <2>1, LastChanged
  <2> HIDE DEF j, ctxs
  <2> QED  BY <2>2, <2>3 DEF i
<1>4. DOMAIN ctxs = DOMAIN w.ctxs /\ ctxs = [c \in DOMAIN ctxs |-> ctxs[c]]
  OBVIOUS
<1> HIDE DEF ctxs
<1>5. /\ v.st = w.st /\ v.io = w.io /\ v.sessions = w.sessions /\ v.ctxs = ctxs
      /\ v.sel = w.sel /\ v.table = w.table /\ v.off = w.off /\ v.recs = w.recs
      /\ v = [st |-> v.st, io |-> v.io, sessions |-> v.sessions, ctxs |-> v.ctxs,
              sel |-> v.sel, table |-> v.table, off |-> v.off, recs |-> v.recs]
  <2>1. w = [st |-> w.st, io |-> w.io, sessions |-> w.sessions, ctxs |-> w.ctxs, sel |-> w.sel,
             table |-> w.table, off |-> w.off, recs |-> w.recs]
    BY <1>1 DEF WriterOK
  <2>2. v = [w EXCEPT !.ctxs = ctxs]
    OBVIOUS
  <2> HIDE DEF w, v
  <2>3. v = [st |-> w.st, io |-> w.io, sessions |-> w.sessions, ctxs |-> ctxs, sel |-> w.sel,
             table |-> w.table, off |-> w.off, recs |-> w.recs]
    BY <2>1, <2>2
  <2> QED  BY <2>3
<1> HIDE DEF v
<1>6. WriterOK(v)
  BY <1>1, <1>3, <1>4, <1>5 DEF WriterOK
<1>7. \A c \in Pending(v) : SameRequest(w, v, c)
  BY <1>3, <1>4, <1>5 DEF Pending, SameRequest, From, To
<1>8. Placed(file', v)
  BY <1>1, <1>2, <1>5, <1>6, <1>7, SamePlaces
<1>9. HeaderInStep(file', v)
  BY <1>1, <1>2 DEF HeaderInStep
<1>10. FInv'
  BY <1>1, <1>2, <1>6, <1>8, <1>9, OpenStep
<1> QED  BY <1>2, <1>10 DEF BlocksStay, Kept

-----------------------------------------------------------------------------
(* Closing, asynchronous completion, crashes. *)

\* The Content Table is written behind everything that must stay.
LEMMA FinishedKeeps ==
  ASSUME NEW a, AOK(a), a.file.hdr.table = 0, NEW fault, fault.n \in Nat
  PROVE  LET r == Finished(a, fault)
         IN  /\ FileOK(r.file) /\ Kept(a.file, r.file) /\ r.w = a.w /\ r.ok \in BOOLEAN
             /\ Placed(r.file, a.w) /\ (r.file.hdr.table = 0 \/ r.file.hdr.table = a.w.off)
<1> DEFINE w == a.w
           blk == TableBlock(w.table)
           sections == SectionsOnly(a.file, w.off, blk, fault)
           f == Written(a.file, w.off, blk, blk.len)
           r == Finished(a, fault)
<1>1. FileOK(a.file) /\ WriterOK(w) /\ Placed(a.file, w) /\ a.ok \in BOOLEAN
      /\ a = [file |-> a.file, w |-> a.w, ok |-> a.ok]
  BY DEF AOK
<1>2. w.table \in Contents /\ w.recs \in Nat
  BY <1>1 DEF WriterOK
<1>3. BlockOK(blk) /\ blk.type = "table" /\ blk.len \in Nat
  BY <1>2, TableBlockOK
<1>4. /\ w.off \in Nat /\ HeaderLen <= w.off
      /\ \A n : \A e \in a.file.ext : Whole(e) => End(e) <= w.off \/ w.off + n <= e.off
      /\ \A e \in a.file.ext : Whole(e) => End(e) <= w.off
  BY <1>1, RoomBehind
<1>5. /\ FileOK(sections) /\ sections.hdr = a.file.hdr /\ Kept(a.file, sections)
      /\ \A x \in sections.ext : Whole(x) => x \in a.file.ext
  <2> HIDE DEF w
  <2> QED  BY <1>1, <1>2, <1>4, SectionsKeep
<1>6. /\ FileOK(f) /\ f.hdr = a.file.hdr /\ Kept(a.file, f)
      /\ \A x \in f.ext : Whole(x) => x \in a.file.ext
  <2>1. \A e \in a.file.ext : Whole(e) => End(e) <= w.off \/ w.off + blk.len <= e.off
    BY <1>4
  <2>2. blk.len <= blk.len
    BY <1>3
  <2> HIDE DEF w, blk
  <2>3. /\ FileOK(f) /\ f.hdr = a.file.hdr /\ Kept(a.file, f)
        /\ \A x \in f.ext : Whole(x) => x \in a.file.ext \/ x.blk = blk
    BY <1>1, <1>3, <1>4, <2>1, <2>2, WrittenKeeps
  <2> QED  BY <2>3, <1>3 DEF Whole
<1> HIDE DEF sections, f, blk, w
<1>7. Placed(sections, w) /\ Placed(f, w)
  BY <1>1, <1>5, <1>6, StaysPlaced
<1>8. CASE ~a.ok
  BY <1>1, <1>8 DEF Finished, Kept, w
<1>9. CASE a.ok /\ fault.at = FaultOf(NoCtx, "table")
  <2>1. r = [a EXCEPT !.file = sections, !.ok = FALSE]
    BY <1>9 DEF Finished, sections, blk, w
  <2> HIDE DEF r
  <2>2. r.file = sections /\ r.w = w /\ r.ok = FALSE
    BY <1>1, <2>1 DEF w
  <2> QED  BY <1>5, <1>7, <2>2 DEF r, w
<1>10. CASE a.ok /\ fault.at # FaultOf(NoCtx, "table") /\ fault.at = FaultOf(NoCtx, "header")
  <2>1. r = [a EXCEPT !.file = f, !.ok = FALSE]
    BY <1>10 DEF Finished, f, blk, w
  <2> HIDE DEF r
  <2>2. r.file = f /\ r.w = w /\ r.ok = FALSE
    BY <1>1, <2>1 DEF w
  <2> QED  BY <1>6, <1>7, <2>2 DEF r, w
<1>11. CASE a.ok /\ fault.at # FaultOf(NoCtx, "table") /\ fault.at # FaultOf(NoCtx, "header")
  <2> DEFINE g == HeaderStored(f, w.off, w.recs)
  <2>1. r = [a EXCEPT !.file = g]
    BY <1>11 DEF Finished, f, blk, w
  <2>2. FileOK(g) /\ g.ext = f.ext /\ Kept(f, g) /\ g.hdr.table = w.off
    BY <1>2, <1>4, <1>6, HeaderKeeps
  <2> HIDE DEF r, g
  <2>3. r.file = g /\ r.w = w /\ r.ok = a.ok
    BY <1>1, <2>1 DEF w
  <2>4. Placed(g, w)
    BY <1>6, <1>7, <1>1, <2>2, StaysPlaced
  <2>5. Kept(a.file, g)
    BY <1>6, <2>2, KeptTransitive
  <2> QED  BY <1>1, <2>2, <2>3, <2>4, <2>5 DEF r, w
<1> QED  BY <1>8, <1>9, <1>10, <1>11

LEMMA CloseWriterStep ==
  ASSUME FInv, NEW h \in Handles, CloseWriter(h)
  PROVE  FInv' /\ BlocksStay
<1>1. writers[h].st # "closed" /\ writers[h].st # "closing"
  BY DEF CloseWriter
<1> DEFINE s == Start(h)
<1>2. /\ FileOK(file) /\ WriterOK(writers[h]) /\ Placed(file, writers[h])
      /\ log \in Logs /\ lost \in BOOLEAN /\ file.hdr.table = 0
  BY <1>1, OpenHandle
<1>3. AOK(s) /\ NoneWaits(s) /\ s.file = file /\ s.w = writers[h]
  BY <1>2 DEF AOK, Start, NoneWaits, CloseWriter
<1>4. PICK fault \in CloseFaults(h) :
        LET a == Finished(FlushAll(Start(h), fault), fault)
        IN  /\ file' = a.file
            /\ writers' = [writers EXCEPT ![h] = [a.w EXCEPT !.st = "closing"]]
            /\ lost' = (lost \/ ~a.ok) /\ lock' = lock /\ log' = log
  BY DEF CloseWriter
<1>5. fault.n \in Nat
  BY FaultsOK DEF CloseFaults
<1> DEFINE b == FlushAll(s, fault)
           a == Finished(b, fault)
           v == [a.w EXCEPT !.st = "closing"]
<1>6. AfterAll(s, b)
  <2> HIDE DEF s
  <2> QED  BY <1>3, <1>5, FlushAllKeeps
<1>7. /\ file' = a.file /\ writers' = [writers EXCEPT ![h] = v]
      /\ lost' = (lost \/ ~a.ok) /\ lock' = lock /\ log' = log
  BY <1>4
<1> HIDE DEF s, b
<1>8. AOK(b) /\ b.file.hdr.table = 0 /\ Kept(file, b.file)
  BY <1>2, <1>3, <1>6 DEF AfterAll
<1>9. /\ FileOK(a.file) /\ Kept(b.file, a.file) /\ a.w = b.w /\ a.ok \in BOOLEAN
      /\ Placed(a.file, b.w) /\ (a.file.hdr.table = 0 \/ a.file.hdr.table = b.w.off)
  BY <1>5, <1>8, FinishedKeeps
<1> HIDE DEF a
<1>10. WriterOK(b.w)
  BY <1>8 DEF AOK
<1>11. WriterOK(v) /\ v.st = "closing" /\ v.off = b.w.off /\ \A c \in Pending(v) : SameRequest(b.w, v, c)
  <2>1. InStatus(v, b.w, "closing")
    BY <1>9, <1>10 DEF InStatus
  <2> HIDE DEF v
  <2> QED  BY <2>1, StatusOK
<1> HIDE DEF v
<1>12. Placed(a.file, v)
  BY <1>9, <1>10, <1>11, SamePlaces
<1>13. HeaderInStep(a.file, v)
  BY <1>9, <1>11 DEF HeaderInStep
<1>14. FileOK(file') /\ Placed(file', v) /\ HeaderInStep(file', v) /\ lost' \in BOOLEAN /\ log' \in Logs
  BY <1>2, <1>7, <1>9, <1>12, <1>13
<1>15. FInv'
  BY <1>1, <1>7, <1>11, <1>14, OpenStep
<1>16. Kept(file, file')
  BY <1>7, <1>8, <1>9, KeptTransitive
<1> QED  BY <1>15, <1>16 DEF BlocksStay

\* The handle is gone; what it left in the file stays.
LEMMA GoneStep ==
  ASSUME FInv, NEW h \in Handles, writers[h].st # "closed", Gone(h), file' = file, log' = log,
         lost' \in BOOLEAN
  PROVE  FInv' /\ BlocksStay
<1>1. lock = h /\ \A g \in Handles : g # h => writers[g] = NoWriter
  BY OpenHandle
<1>2. writers' = [writers EXCEPT ![h] = NoWriter] /\ lock' = NoHandle
  BY <1>1 DEF Gone
<1>3. writers = [g \in Handles |-> writers[g]]
  BY DEF FInv
<1>4. writers' = [g \in Handles |-> writers'[g]] /\ \A g \in Handles : writers'[g] = NoWriter
  BY <1>1, <1>2, <1>3
<1>5. NoWriter.st = "closed"
  BY DEF NoWriter
<1>6. FileOK(file') /\ TableLast(file') /\ log' \in Logs
  BY DEF FInv
<1>7. FInv'
  BY <1>2, <1>4, <1>5, <1>6 DEF FInv
<1> QED  BY <1>7 DEF BlocksStay, Kept

\* The request of a context is over.
LEMMA RequestOver ==
  ASSUME NEW w, WriterOK(w), NEW ctx \in DOMAIN w.ctxs, NEW req \in {NoRequest, [st |-> "failed"]},
         NEW v, v = [w EXCEPT !.ctxs[ctx].req = req]
  PROVE  /\ WriterOK(v) /\ v.st = w.st /\ v.off = w.off
         /\ ctx \notin Pending(v) /\ \A c \in Pending(v) : SameRequest(w, v, c)
<1> DEFINE i == w.ctxs[ctx]
           j == [i EXCEPT !.req = req]
           u == Changed(w, ctx, j, w.table, w.off, w.recs)
<1>1. ContextOK(i, w.off) /\ w.table \in Contents /\ w.off \in Nat /\ w.recs \in Nat
  BY DEF WriterOK
<1>2. req \in Requests /\ req.st # "started"
  BY DEF NoRequest, Requests
<1>3. ContextOK(j, w.off) /\ j.req = req
  <2>1. i = [toff |-> i.toff, tmplts |-> i.tmplts, last |-> i.last, etime |-> i.etime,
             buf |-> i.buf, main |-> i.main, req |-> i.req]
    BY <1>1, ContextFields
  <2> HIDE DEF i
  <2>2. j = [toff |-> i.toff, tmplts |-> i.tmplts, last |-> i.last, etime |-> i.etime,
             buf |-> i.buf, main |-> i.main, req |-> req]
    BY <2>1
  <2> HIDE DEF j
  <2>3. /\ j.toff = i.toff /\ j.tmplts = i.tmplts /\ j.last = i.last /\ j.etime = i.etime
        /\ j.buf = i.buf /\ j.main = i.main /\ j.req = req
        /\ j = [toff |-> j.toff, tmplts |-> j.tmplts, last |-> j.last, etime |-> j.etime,
                buf |-> j.buf, main |-> j.main, req |-> j.req]
    BY <2>2
  <2> QED  BY <1>1, <1>2, <2>3 DEF ContextOK
<1>4. v = u
  <2> DEFINE cs == [w.ctxs EXCEPT ![ctx] = j]
  <2>1. v = [w EXCEPT !.ctxs = cs]
    OBVIOUS
  <2>2. w = [st |-> w.st, io |-> w.io, sessions |-> w.sessions, ctxs |-> w.ctxs,
             sel |-> w.sel, table |-> w.table, off |-> w.off, recs |-> w.recs]
    BY DEF WriterOK
  <2> HIDE DEF cs
  <2>3. v = [st |-> w.st, io |-> w.io, sessions |-> w.sessions, ctxs |-> cs,
             sel |-> w.sel, table |-> w.table, off |-> w.off, recs |-> w.recs]
    BY <2>1, <2>2
  <2> QED  BY <2>3 DEF Changed, cs
<1> HIDE DEF j
<1>5. MayChange(w, ctx, j, w.table, w.off, w.recs)
  BY <1>1, <1>3 DEF MayChange
<1>6. /\ WriterOK(u) /\ u.st = w.st /\ u.off = w.off
      /\ DOMAIN u.ctxs = DOMAIN w.ctxs /\ u.ctxs[ctx] = j
      /\ \A c \in DOMAIN w.ctxs : c # ctx => u.ctxs[c] = w.ctxs[c]
  BY <1>5, ChangedOK
<1> HIDE DEF u
<1>7. ctx \notin Pending(v)
  BY <1>2, <1>3, <1>4, <1>6 DEF Pending
<1>8. \A c \in Pending(v) : SameRequest(w, v, c)
  BY <1>4, <1>6, <1>7 DEF Pending, SameRequest, From, To
<1> QED  BY <1>4, <1>6, <1>7, <1>8

LEMMA CompleteStep ==
  ASSUME FInv, NEW h \in Handles, NEW ctx \in Ctxs, Complete(h, ctx)
  PROVE  FInv' /\ BlocksStay
<1> DEFINE w == writers[h]
           i == w.ctxs[ctx]
           b == i.buf[i.req.buf]
           blk == DataBlock(ctx, b.toff, b.msgs, b.len)
           off == i.req.off
<1>1. w.st # "closed" /\ ctx \in Pending(w)
  BY DEF Complete
<1>2. /\ FileOK(file) /\ WriterOK(w) /\ Placed(file, w) /\ HeaderInStep(file, w)
      /\ log \in Logs /\ lost \in BOOLEAN
  BY <1>1, OpenHandle
<1>3. /\ ctx \in DOMAIN w.ctxs /\ ContextOK(i, w.off) /\ i.req.st = "started"
      /\ i.req \in [st : {"started"}, off : Nat, buf : {1, 2}]
  BY <1>1, <1>2, PendingPlace
<1>4. off \in Nat /\ b.len \in Nat \ {0} /\ From(i) = off /\ To(i) = off + b.len
  <2>1. BufferOK(b)
    BY <1>3 DEF ContextOK
  <2>2. From(i) = off /\ To(i) = off + b.len
    BY DEF From, To
  <2>3. off \in Nat
    BY <1>3
  <2> HIDE DEF b, i, off
  <2>4. b.len \in Nat /\ DataHdr <= b.len
    BY <2>1 DEF BufferOK
  <2>5. DataHdr \in Nat \ {0}
    BY Lengths
  <2>6. b.len \in Nat \ {0}
    BY <2>4, <2>5
  <2> QED  BY <2>2, <2>3, <2>6
<1>5. BlockOK(blk) /\ blk.len = b.len
  <2> HIDE DEF b
  <2> QED  BY <1>4, DataBlockOK
<1>6. /\ HeaderLen <= off /\ To(i) <= w.off
      /\ \A e \in file.ext : Whole(e) => End(e) <= off \/ off + b.len <= e.off
      /\ \A d \in Pending(w) : ctx = d \/ To(i) <= From(w.ctxs[d]) \/ To(w.ctxs[d]) <= From(i)
  BY <1>1, <1>2, <1>4 DEF Placed
<1> HIDE DEF blk, b
<1>7. PICK fault \in Faults({ctx}, {"aio"}) :
        /\ IF fault = NoFault
           THEN /\ file' = Written(file, i.req.off, blk, blk.len)
                /\ writers' = [writers EXCEPT ![h].ctxs[ctx].req = NoRequest] /\ UNCHANGED lost
           ELSE /\ file' = Partial(file, i.req.off, blk, fault)
                /\ writers' = [writers EXCEPT ![h].ctxs[ctx].req = [st |-> "failed"]]
                /\ lost' = TRUE
  BY DEF Complete, blk, b
<1> DEFINE req == IF fault = NoFault THEN NoRequest ELSE [st |-> "failed"]
           v == [w EXCEPT !.ctxs[ctx].req = req]
<1>8. writers' = [writers EXCEPT ![h] = v] /\ lock' = lock /\ log' = log /\ lost' \in BOOLEAN
  BY <1>2, <1>7 DEF Complete
<1>9. req \in {NoRequest, [st |-> "failed"]}
  OBVIOUS
<1>10. v = [w EXCEPT !.ctxs[ctx].req = req]
  OBVIOUS
<1>11. /\ FileOK(file') /\ file'.hdr = file.hdr /\ Kept(file, file')
       /\ \A x \in file'.ext : Whole(x) => x \in file.ext \/ (x.off = off /\ End(x) = off + b.len)
  <2>1. blk.len \in Nat /\ blk.len <= blk.len /\ HeaderLen <= off /\ off \in Nat
        /\ \A e \in file.ext : Whole(e) => End(e) <= off \/ off + blk.len <= e.off
    BY <1>4, <1>5, <1>6
  <2> HIDE DEF off
  <2>2. CASE fault = NoFault
    <3> DEFINE g == Written(file, off, blk, blk.len)
    <3>1. file' = g
      BY <1>7, <2>2 DEF off
    <3>2. /\ FileOK(g) /\ g.hdr = file.hdr /\ Kept(file, g)
          /\ \A x \in g.ext : Whole(x) => x \in file.ext \/ (x.off = off /\ End(x) = off + blk.len)
      BY <1>2, <1>5, <2>1, WrittenKeeps
    <3> HIDE DEF g
    <3> QED  BY <1>5, <3>1, <3>2
  <2>3. CASE fault # NoFault
    <3> DEFINE g == Partial(file, off, blk, fault)
    <3>1. file' = g
      BY <1>7, <2>3 DEF off
    <3>2. fault.n \in Nat
      BY FaultsOK
    <3>3. /\ FileOK(g) /\ g.hdr = file.hdr /\ Kept(file, g)
          /\ \A x \in g.ext : Whole(x) => x \in file.ext
      BY <1>2, <1>5, <2>1, <3>2, PartialKeeps
    <3> HIDE DEF g
    <3> QED  BY <3>1, <3>3
  <2> QED  BY <2>2, <2>3
<1> HIDE DEF req, v, w
<1>12. /\ WriterOK(v) /\ v.st = w.st /\ v.off = w.off
       /\ ctx \notin Pending(v) /\ \A c \in Pending(v) : SameRequest(w, v, c)
  BY <1>2, <1>3, <1>9, <1>10, RequestOver
<1>13. Placed(file', v)
  <2>0. w.off \in Nat
    BY <1>2 DEF WriterOK
  <2>1. \A e \in file'.ext : Whole(e) => End(e) <= v.off
    BY <1>2, <1>4, <1>6, <1>11, <1>12 DEF Placed
  <2>2. ASSUME NEW c \in Pending(v)
        PROVE  /\ HeaderLen <= From(v.ctxs[c]) /\ To(v.ctxs[c]) <= v.off
               /\ \A e \in file'.ext : Whole(e) => End(e) <= From(v.ctxs[c]) \/ To(v.ctxs[c]) <= e.off
               /\ \A d \in Pending(v) : c = d \/ To(v.ctxs[c]) <= From(v.ctxs[d])
                                              \/ To(v.ctxs[d]) <= From(v.ctxs[c])
    <3>1. c \in Pending(w) /\ c # ctx /\ From(v.ctxs[c]) = From(w.ctxs[c]) /\ To(v.ctxs[c]) = To(w.ctxs[c])
      BY <1>12 DEF SameRequest
    <3>2. \A d \in Pending(v) : d \in Pending(w) /\ From(v.ctxs[d]) = From(w.ctxs[d])
                                /\ To(v.ctxs[d]) = To(w.ctxs[d])
      BY <1>12 DEF SameRequest
    <3>3. To(i) <= From(w.ctxs[c]) \/ To(w.ctxs[c]) <= From(i)
      BY <1>6, <3>1
    <3>4. ASSUME NEW e \in file'.ext, Whole(e)
          PROVE  End(e) <= From(v.ctxs[c]) \/ To(v.ctxs[c]) <= e.off
      <4>1. CASE e \in file.ext
        BY <1>2, <3>1, <3>4, <4>1 DEF Placed
      <4>2. CASE e.off = off /\ End(e) = off + b.len
        BY <1>4, <3>1, <3>3, <4>2
      <4> QED  BY <1>11, <3>4, <4>1, <4>2
    <3> QED  BY <1>2, <1>12, <3>1, <3>2, <3>4 DEF Placed
  <2> QED  BY <2>1, <2>2 DEF Placed
<1>14. HeaderInStep(file', v)
  BY <1>2, <1>11, <1>12 DEF HeaderInStep
<1>15. log' \in Logs
  BY <1>2, <1>8
<1>16. FInv'
  BY <1>1, <1>8, <1>11, <1>12, <1>13, <1>14, <1>15, OpenStep DEF w
<1> QED  BY <1>11, <1>16 DEF BlocksStay

-----------------------------------------------------------------------------
(* Opening. *)

\* A file that ends at its beginning is empty.
LEMMA EofZero ==
  ASSUME NEW f, FileOK(f), Eof(f) = 0
  PROVE  f.ext = {}
<1> SUFFICES ASSUME f.ext # {} PROVE FALSE
  OBVIOUS
<1>1. \A e \in f.ext : End(e) \in Nat \ {0}
  BY DEF FileOK, ExtentOK, End
<1> DEFINE S == {n \in Nat : \A e \in f.ext : End(e) <= n}
<1>2. S \in SUBSET Nat /\ S # {}
  BY DEF FileOK
<1>3. PICK n \in S : \A m \in S : n <= m
  <2> HIDE DEF S
  <2> QED  BY <1>2, Minimum
<1>4. PICK e \in f.ext : End(e) = n
  <2> SUFFICES ASSUME \A e \in f.ext : End(e) # n PROVE FALSE
    OBVIOUS
  <2>1. \A e \in f.ext : End(e) <= n - 1
    BY <1>1, <1>3
  <2>2. n # 0
    <3>1. PICK d \in f.ext : TRUE
      OBVIOUS
    <3> QED  BY <1>1, <1>3, <3>1
  <2>3. n - 1 \in S
    BY <2>1, <2>2, <1>3
  <2> QED  BY <1>3, <2>3
<1>5. IsEof(f, n) /\ n \in {0, HeaderLen} \cup {End(x) : x \in f.ext}
  BY <1>3, <1>4 DEF IsEof
<1>6. IsEof(f, Eof(f))
  BY <1>5 DEF Eof
<1>7. PICK d \in f.ext : 0 = End(d)
  BY <1>6 DEF IsEof
<1> QED  BY <1>1, <1>7

LEMMA AllClosed ==
  ASSUME FInv, lock = NoHandle
  PROVE  \A g \in Handles : writers[g] = NoWriter
BY WriterAssumption DEF FInv

\* A handle opened when no other one is.
LEMMA OpenedStep ==
  ASSUME FInv, lock = NoHandle, NEW h \in Handles, NEW v, WriterOK(v), v.st = "open",
         FileOK(file'), Placed(file', v), file'.hdr.table = 0,
         writers' = [writers EXCEPT ![h] = v], lock' = h, lost' \in BOOLEAN, log' \in Logs
  PROVE  FInv'
<1>1. \A g \in Handles : writers[g] = NoWriter
  BY AllClosed
<1>2. writers = [g \in Handles |-> writers[g]]
  BY DEF FInv
<1>3. /\ writers'[h] = v /\ writers' = [g \in Handles |-> writers'[g]]
      /\ \A g \in Handles : g # h => writers'[g] = NoWriter
  BY <1>1, <1>2
<1>4. NoWriter.st = "closed"
  BY DEF NoWriter
<1>5. TableLast(file') /\ HeaderInStep(file', v)
  BY DEF TableLast, HeaderInStep
<1>6. ASSUME NEW g \in Handles
      PROVE  IF writers'[g].st = "closed" THEN writers'[g] = NoWriter
             ELSE /\ lock' = g /\ WriterOK(writers'[g])
                  /\ Placed(file', writers'[g]) /\ HeaderInStep(file', writers'[g])
  <2>1. CASE g = h
    BY <2>1, <1>3, <1>5
  <2>2. CASE g # h
    BY <2>2, <1>3, <1>4
  <2> QED  BY <2>1, <2>2
<1> QED  BY <1>3, <1>5, <1>6 DEF FInv

\* A writer that has not written anything yet.
NewWriter(io, content, off, recs, sessions) ==
  /\ io \in Ios /\ content \in Contents /\ off \in Nat /\ HeaderLen <= off /\ recs \in Nat
  /\ sessions \in [DOMAIN sessions -> Dscs] /\ DOMAIN sessions \subseteq 1..SidMax

LEMMA WriterIsOK ==
  ASSUME NEW io, NEW content, NEW off, NEW recs, NEW sessions,
         NewWriter(io, content, off, recs, sessions),
         NEW f, \A e \in f.ext : Whole(e) => End(e) <= off
  PROVE  LET v == Writer(io, content, off, recs, sessions)
         IN  WriterOK(v) /\ v.st = "open" /\ Placed(f, v)
<1> DEFINE v == Writer(io, content, off, recs, sessions)
<1>1. /\ v.st = "open" /\ v.io = io /\ v.sessions = sessions /\ v.ctxs = <<>> /\ v.sel = NoCtx
      /\ v.table = content /\ v.off = off /\ v.recs = recs
      /\ v = [st |-> v.st, io |-> v.io, sessions |-> v.sessions, ctxs |-> v.ctxs, sel |-> v.sel,
              table |-> v.table, off |-> v.off, recs |-> v.recs]
  BY DEF Writer
<1> HIDE DEF v
<1>2. DOMAIN v.ctxs = {} /\ v.ctxs = [c \in DOMAIN v.ctxs |-> v.ctxs[c]]
  BY <1>1
<1>3. WriterOK(v)
  BY <1>1, <1>2 DEF WriterOK, NewWriter
<1>4. Pending(v) = {}
  BY <1>2 DEF Pending
<1> QED  BY <1>1, <1>3, <1>4 DEF Placed, v

\* What fds_file_open() failed on stays as it is, but for O_TRUNC.
LEMMA OpenFailsStep ==
  ASSUME FInv, NEW f \in {EmptyFile, file}, NEW code, OpenFails(f, code), lost' \in BOOLEAN
  PROVE  FInv' /\ BlocksStay
<1>1. file' = f /\ lock' = lock /\ writers' = writers /\ log' = log
  BY DEF OpenFails
<1>2. CASE f = file
  <2>1. FInv'
    BY <1>1, <1>2 DEF FInv
  <2> QED  BY <1>1, <1>2, <2>1 DEF BlocksStay, Kept
<1>3. CASE f = EmptyFile
  <2>1. FileOK(EmptyFile) /\ TableLast(EmptyFile) /\ EmptyFile.ext = {} /\ EmptyFile.hdr.table = 0
    BY EmptyFileOK DEF EmptyFile, NoHeader
  <2>2. ASSUME NEW w, Placed(file, w) PROVE Placed(EmptyFile, w) /\ HeaderInStep(EmptyFile, w)
    BY <2>1, <2>2 DEF Placed, HeaderInStep
  <2>3. FInv'
    BY <1>1, <1>3, <2>1, <2>2 DEF FInv
  <2> QED  BY <1>1, <1>3, <2>1, <2>3 DEF BlocksStay
<1> QED  BY <1>2, <1>3

LEMMA OpenNewStep ==
  ASSUME FInv, lock = NoHandle, NEW h \in Handles, NEW io \in Ios, NEW f \in {EmptyFile, file},
         f.ext = {}, OpenNew(h, io, f)
  PROVE  FInv' /\ BlocksStay
<1>1. CASE OpenFails(f, "INTERNAL") /\ lost' = TRUE
  BY <1>1, OpenFailsStep
<1>2. ASSUME file' = HeaderStored(f, 0, 0), lock' = h, lost' = FALSE,
             writers' = [writers EXCEPT ![h] = Writer(io, NoContent, HeaderLen, 0, <<>>)],
             log' = [k \in Keys |-> <<>>]
      PROVE  FInv' /\ BlocksStay
  <2> DEFINE v == Writer(io, NoContent, HeaderLen, 0, <<>>)
             g == HeaderStored(f, 0, 0)
  <2>1. FileOK(f)
    BY EmptyFileOK DEF FInv
  <2>2. FileOK(g) /\ g.ext = {} /\ g.hdr.table = 0
    BY <2>1, HeaderKeeps
  <2>3. NoContent \in Contents
    BY EmptySeq DEF NoContent, Contents
  <2>4. <<>> \in [DOMAIN <<>> -> Dscs] /\ DOMAIN <<>> \subseteq 1..SidMax
    OBVIOUS
  <2>5. NewWriter(io, NoContent, HeaderLen, 0, <<>>)
    BY <2>3, <2>4, Lengths DEF NewWriter
  <2> HIDE DEF g
  <2>6. WriterOK(v) /\ v.st = "open" /\ Placed(g, v)
    BY <2>2, <2>5, WriterIsOK
  <2>7. log' \in Logs
    <3>1. \A k \in Keys : <<>> \in Seq([n : Nat, def : Defs, etime : ETimes])
      BY EmptySeq
    <3> QED  BY <1>2, <3>1 DEF Logs
  <2>8. file' = g /\ writers' = [writers EXCEPT ![h] = v] /\ lost' \in BOOLEAN
    BY <1>2 DEF g
  <2> HIDE DEF v
  <2>9. FileOK(file') /\ Placed(file', v) /\ file'.hdr.table = 0
    BY <2>2, <2>6, <2>8
  <2>10. FInv'
    BY <1>2, <2>6, <2>7, <2>8, <2>9, OpenedStep
  <2> QED  BY <2>2, <2>8, <2>10 DEF BlocksStay
<1> QED  BY <1>1, <1>2 DEF OpenNew

\* No more than one block begins at a place.
LEMMA BlockFound ==
  ASSUME NEW f, FileOK(f), NEW off, NEW type, HasBlock(f, off, type)
  PROVE  BlockOK(BlockAt(f, off)) /\ BlockAt(f, off).type = type
<1>1. PICK e \in f.ext : e.off = off /\ e.lo = 0 /\ e.blk.type = type
  BY DEF HasBlock, Starts
<1> DEFINE d == CHOOSE x \in f.ext : x.off = off /\ x.lo = 0
<1>2. d \in f.ext /\ d.off = off /\ d.lo = 0
  BY <1>1
<1> HIDE DEF d
<1>3. ExtentOK(d) /\ ExtentOK(e) /\ (d = e \/ Apart(d, e))
  BY <1>1, <1>2 DEF FileOK
<1>4. d = e
  BY <1>1, <1>2, <1>3 DEF ExtentOK, Apart, End
<1>5. BlockAt(f, off) = e.blk
  BY <1>4 DEF BlockAt, d
<1> QED  BY <1>1, <1>3, <1>5 DEF ExtentOK

LEMMA OpenAppendStep ==
  ASSUME FInv, lock = NoHandle, NEW h \in Handles, NEW io \in Ios, OpenAppend(h, io)
  PROVE  FInv' /\ BlocksStay
<1> DEFINE off == file.hdr.table
           content == BlockAt(file, off).content
           sessions == SessionsLoaded(file, content)
           v == Appender(io, file, content)
           g == HeaderStored(file, 0, file.hdr.recs)
<1>1. FileOK(file) /\ TableLast(file) /\ log \in Logs /\ lost \in BOOLEAN
  BY DEF FInv
<1>2. off \in Nat /\ file.hdr.recs \in Nat
  BY <1>1 DEF FileOK
<1>3. CASE \E code : OpenFails(file, code) /\ UNCHANGED lost
  <2>1. PICK code : OpenFails(file, code)
    BY <1>3
  <2>2. lost' \in BOOLEAN
    BY <1>1, <1>3
  <2> QED  BY <2>1, <2>2, OpenFailsStep
<1>4. ASSUME off # 0, HasBlock(file, off, "table"), SessionsValid(file, content),
             file' = g, lock' = h, UNCHANGED <<log, lost>>, writers' = [writers EXCEPT ![h] = v]
      PROVE  FInv' /\ BlocksStay
  <2>1. content \in Contents
    BY <1>1, <1>4, BlockFound DEF BlockOK
  <2> HIDE DEF content
  <2>2. \A s \in Range(content.sessions) :
          s.sid \in 1..SidMax /\ HasBlock(file, s.off, "session")
    <3>1. content.sessions \in Seq([off : Nat, sid : 1..SidMax])
      BY <2>1 DEF Contents
    <3>2. Range(content.sessions) \subseteq [off : Nat, sid : 1..SidMax]
      <4> DEFINE q == content.sessions
                 S == [off : Nat, sid : 1..SidMax]
      <4>1. q \in Seq(S)
        BY <3>1
      <4> HIDE DEF q, S
      <4>2. DOMAIN q = 1..Len(q)
        BY <4>1, LenProperties
      <4>3. \A k \in 1..Len(q) : q[k] \in S
        BY <4>1, ElementOfSeq
      <4>4. Range(q) \subseteq S
        BY <4>2, <4>3 DEF Range
      <4> QED  BY <4>4 DEF q, S
    <3> QED  BY <1>4, <3>2 DEF SessionsValid
  <2>3. sessions \in [DOMAIN sessions -> Dscs] /\ DOMAIN sessions \subseteq 1..SidMax
    <3> DEFINE S == {s.sid : s \in Range(content.sessions)}
               chosen(sid) == CHOOSE s \in Range(content.sessions) : s.sid = sid
               dsc(sid) == BlockAt(file, chosen(sid).off).dsc
    <3>1. sessions = [sid \in S |-> dsc(sid)]
      BY DEF SessionsLoaded
    <3>2. ASSUME NEW sid \in S PROVE sid \in 1..SidMax /\ dsc(sid) \in Dscs
      <4>1. PICK s \in Range(content.sessions) : s.sid = sid
        OBVIOUS
      <4>2. chosen(sid) \in Range(content.sessions)
        BY <4>1
      <4> HIDE DEF chosen
      <4>3. HasBlock(file, chosen(sid).off, "session")
        BY <2>2, <4>2
      <4>4. BlockOK(BlockAt(file, chosen(sid).off)) /\ BlockAt(file, chosen(sid).off).type = "session"
        BY <1>1, <4>3, BlockFound
      <4> QED  BY <2>2, <4>1, <4>4 DEF BlockOK
    <3> HIDE DEF S, dsc
    <3>3. DOMAIN [sid \in S |-> dsc(sid)] = S /\ [sid \in S |-> dsc(sid)] \in [S -> Dscs]
          /\ S \subseteq 1..SidMax
      BY <3>2
    <3> QED  BY <3>1, <3>3
  <2> HIDE DEF sessions
  <2>4. HeaderLen <= off /\ \A e \in file.ext : Whole(e) => End(e) <= off
    BY <1>1, <1>4 DEF TableLast
  <2>5. NewWriter(io, content, off, file.hdr.recs, sessions)
    BY <1>2, <2>1, <2>3, <2>4 DEF NewWriter
  <2>6. FileOK(g) /\ g.ext = file.ext /\ Kept(file, g) /\ g.hdr.table = 0
    <3> DEFINE recs == file.hdr.recs
    <3>1. recs \in Nat /\ 0 \in Nat
      BY <1>2
    <3>2. g = HeaderStored(file, 0, recs)
      OBVIOUS
    <3> HIDE DEF recs, g
    <3>3. LET x == HeaderStored(file, 0, recs)
          IN  FileOK(x) /\ x.ext = file.ext /\ Kept(file, x) /\ x.hdr.table = 0
      BY <1>1, <3>1, HeaderKeeps
    <3> QED  BY <3>2, <3>3
  <2>7. v = Writer(io, content, off, file.hdr.recs, sessions)
    BY DEF Appender, sessions
  <2> HIDE DEF g, v, off
  <2>8. \A e \in g.ext : Whole(e) => End(e) <= off
    BY <2>4, <2>6
  <2>9. WriterOK(v) /\ v.st = "open" /\ Placed(g, v)
    <3> DEFINE u == Writer(io, content, off, file.hdr.recs, sessions)
    <3>1. WriterOK(u) /\ u.st = "open" /\ Placed(g, u)
      BY <2>5, <2>8, WriterIsOK
    <3>2. u = v
      BY <2>7
    <3> HIDE DEF u
    <3> QED  BY <3>1, <3>2
  <2>10. FileOK(file') /\ Placed(file', v) /\ file'.hdr.table = 0 /\ lost' \in BOOLEAN /\ log' \in Logs
    BY <1>1, <1>4, <2>6, <2>9
  <2>11. FInv'
    BY <1>4, <2>9, <2>10, OpenedStep
  <2> QED  BY <1>4, <2>6, <2>11 DEF BlocksStay
<1> QED  BY <1>3, <1>4 DEF OpenAppend

LEMMA OpenWriterStep ==
  ASSUME FInv, NEW h \in Handles, NEW mode \in Modes, NEW io \in Ios, OpenWriter(h, mode, io)
  PROVE  FInv' /\ BlocksStay
<1> DEFINE f == IF mode = "write" THEN EmptyFile ELSE file
<1>1. f \in {EmptyFile, file}
  OBVIOUS
<1>2. FileOK(f)
  BY EmptyFileOK DEF FInv
<1>3. CASE OpenFails(f, "DENIED") /\ lost' = (lost \/ mode = "write")
  <2>1. lost' \in BOOLEAN
    BY <1>3 DEF FInv
  <2> HIDE DEF f
  <2> QED  BY <1>1, <1>3, <2>1, OpenFailsStep
<1>4. CASE lock = NoHandle /\ Eof(f) = 0 /\ OpenNew(h, io, f)
  <2> HIDE DEF f
  <2>1. f.ext = {}
    BY <1>2, <1>4, EofZero
  <2> QED  BY <1>1, <1>4, <2>1, OpenNewStep
<1>5. CASE lock = NoHandle /\ OpenAppend(h, io)
  BY <1>5, OpenAppendStep
<1> QED  BY <1>3, <1>4, <1>5 DEF OpenWriter

-----------------------------------------------------------------------------
(* Every step keeps FInv, and the complete blocks. *)

LEMMA InitOK == FInit => FInv
<1> SUFFICES ASSUME FInit PROVE FInv
  OBVIOUS
<1>1. FileOK(file) /\ TableLast(file)
  BY EmptyFileOK DEF FInit
<1>2. log \in Logs
  <2>1. \A k \in Keys : <<>> \in Seq([n : Nat, def : Defs, etime : ETimes])
    BY EmptySeq
  <2> QED  BY <2>1 DEF FInit, Logs
<1>3. /\ writers = [h \in Handles |-> writers[h]]
      /\ \A h \in Handles : writers[h] = NoWriter /\ writers[h].st = "closed"
  BY DEF FInit, NoWriter
<1> QED  BY <1>1, <1>2, <1>3 DEF FInv, FInit

LEMMA CallStep ==
  ASSUME FInv, NEW h \in Handles, Call(h)
  PROVE  FInv' /\ BlocksStay
<1>0. writers[h].st = "open"
  BY DEF Call
<1>1. ASSUME NEW dsc \in Dscs, SessionAdd(h, dsc) PROVE FInv' /\ BlocksStay
  BY <1>0, <1>1, SessionAddStep
<1>2. ASSUME NEW ctx \in Ctxs, NEW etime \in ETimes, SelectCtx(h, ctx, etime) PROVE FInv' /\ BlocksStay
  BY <1>0, <1>2, SelectCtxStep
<1>3. ASSUME NEW tid \in TIDs, NEW def \in Defs, WriteRec(h, tid, def) PROVE FInv' /\ BlocksStay
  BY <1>0, <1>3, WriteRecStep
<1>4. ASSUME NEW tid \in TIDs, NEW def \in Defs \cup {Malformed}, TmpltAdd(h, tid, def)
      PROVE  FInv' /\ BlocksStay
  BY <1>0, <1>4, TmpltAddStep
<1>5. ASSUME NEW tid \in TIDs, TmpltRemove(h, tid) PROVE FInv' /\ BlocksStay
  BY <1>0, <1>5, TmpltRemoveStep
<1>6. ASSUME SetIemgr(h) PROVE FInv' /\ BlocksStay
  BY <1>0, <1>6, SetIemgrStep
<1> QED  BY <1>1, <1>2, <1>3, <1>4, <1>5, <1>6 DEF Call

\* FInv is inductive, and no step takes a complete block out of the file, but
\* for open(O_TRUNC): see File_writer.cpp and Block_data_writer.cpp.
THEOREM WriterStep == FInv /\ [WriterNext]_fvars => FInv' /\ BlocksStay
<1> SUFFICES ASSUME FInv, [WriterNext]_fvars PROVE FInv' /\ BlocksStay
  OBVIOUS
<1>1. CASE UNCHANGED fvars
  BY <1>1, NothingChanges DEF fvars
<1>2. ASSUME NEW h \in Handles, NEW mode \in Modes, NEW io \in Ios, OpenWriter(h, mode, io)
      PROVE  FInv' /\ BlocksStay
  BY <1>2, OpenWriterStep
<1>3. ASSUME NEW h \in Handles, Call(h) PROVE FInv' /\ BlocksStay
  BY <1>3, CallStep
<1>4. ASSUME NEW h \in Handles, FatalCall(h) PROVE FInv' /\ BlocksStay
  BY <1>4, NothingChanges DEF FatalCall
<1>5. ASSUME NEW h \in Handles, NEW ctx \in Ctxs, Complete(h, ctx) PROVE FInv' /\ BlocksStay
  BY <1>5, CompleteStep
<1>6. ASSUME NEW h \in Handles, CloseWriter(h) PROVE FInv' /\ BlocksStay
  BY <1>6, CloseWriterStep
<1>7. ASSUME NEW h \in Handles, CloseEnd(h) PROVE FInv' /\ BlocksStay
  <2>1. writers[h].st # "closed" /\ Gone(h) /\ file' = file /\ log' = log /\ lost' = lost
    BY <1>7 DEF CloseEnd
  <2>2. lost' \in BOOLEAN
    BY <2>1 DEF FInv
  <2> QED  BY <2>1, <2>2, GoneStep
<1>8. ASSUME NEW h \in Handles, Crash(h) PROVE FInv' /\ BlocksStay
  <2>1. writers[h].st # "closed" /\ Gone(h) /\ file' = file /\ log' = log /\ lost' \in BOOLEAN
    BY <1>8 DEF Crash
  <2> QED  BY <2>1, GoneStep
<1> QED  BY <1>1, <1>2, <1>3, <1>4, <1>5, <1>6, <1>7, <1>8 DEF WriterNext

\* What the writer relies on between any two steps.
THEOREM WriterInvariant == FSpec => []FInv
<1>1. FInv /\ [WriterNext]_fvars => FInv'
  BY WriterStep
<1> QED  BY InitOK, <1>1, PTL DEF FSpec

\* Block_data_writer::add() never writes behind the end of its buffer, a
\* Template Block is always written before the Data Blocks that refer to it,
\* and session IDs never leave uint16_t.
THEOREM WriterTypes == FSpec => []FTypeOK
<1>1. FInv => FTypeOK
  <2> SUFFICES ASSUME FInv PROVE FTypeOK
    OBVIOUS
  <2>1. /\ file.hdr.table \in Nat /\ file.hdr.recs \in Nat /\ file.hdr.magic \in BOOLEAN
        /\ \A e \in file.ext : e.lo < e.hi /\ e.hi <= e.blk.len /\ HeaderLen <= e.off
    BY DEF FInv, FileOK, ExtentOK
  <2>2. ASSUME NEW h \in Handles, writers[h].st # "closed",
               NEW c \in DOMAIN writers[h].ctxs, NEW b \in Range(writers[h].ctxs[c].buf)
        PROVE  b.len <= Capacity /\ b.toff < writers[h].off
    <3> DEFINE i == writers[h].ctxs[c]
    <3>1. ContextOK(i, writers[h].off)
      BY <2>2, OpenHandle DEF WriterOK
    <3>2. i.buf = <<i.buf[1], i.buf[2]>> /\ \A k \in {1, 2} : BufferOK(i.buf[k]) /\ i.buf[k].toff < writers[h].off
      BY <3>1 DEF ContextOK
    <3> HIDE DEF i
    <3>3. DOMAIN i.buf = {1, 2}
      BY <3>2
    <3>4. PICK k \in {1, 2} : b = i.buf[k]
      BY <3>3 DEF Range, i
    <3> QED  BY <3>2, <3>4 DEF BufferOK
  <2>3. ASSUME NEW h \in Handles, writers[h].st # "closed"
        PROVE  DOMAIN writers[h].sessions \subseteq 1..SidMax /\ DOMAIN writers[h].ctxs \subseteq Ctxs
    BY <2>3, OpenHandle DEF WriterOK
  <2>4. lock \in Handles \cup {NoHandle} /\ lost \in BOOLEAN
    BY DEF FInv
  <2> QED  BY <2>1, <2>2, <2>3, <2>4 DEF FTypeOK
<1> QED  BY WriterInvariant, <1>1, PTL

\* A complete block stays in the file, whatever is written, fails, crashes or
\* is appended later: the running writes and the next block have places no
\* such block is in (flush(), store(), append_prepare()).
THEOREM BlocksStayWhole == FSpec => BlocksAreKept
<1>1. FInv /\ [WriterNext]_fvars =>
        [\A e \in file.ext :
           /\ e.lo = 0 /\ e.hi = e.blk.len /\ e.blk.type # "table"
           /\ file'.ext # {}
           => e \in file'.ext]_file
  <2> SUFFICES ASSUME FInv, [WriterNext]_fvars, NEW e \in file.ext,
                      e.lo = 0, e.hi = e.blk.len, e.blk.type # "table", file'.ext # {}
               PROVE  e \in file'.ext
    OBVIOUS
  <2>1. Kept(file, file')
    BY WriterStep DEF BlocksStay
  <2> QED  BY <2>1 DEF Kept, Whole
<1> QED  BY WriterInvariant, <1>1, PTL DEF FSpec, BlocksAreKept

\* At most one process writes to the file at a time, and it has the lock.
THEOREM OneWriter ==
  FSpec => [](\A g, h \in Handles : writers[g].st # "closed" /\ writers[h].st # "closed" => g = h)
<1>1. FInv => \A g, h \in Handles : writers[g].st # "closed" /\ writers[h].st # "closed" => g = h
  BY DEF FInv
<1> QED  BY WriterInvariant, <1>1, PTL
=============================================================================
