------------------------ MODULE WriterRecords_proofs ------------------------
(***************************************************************************)
(* Proofs about FileWriter: no record is lost, stored twice or decoded by  *)
(* another template than the one it was written with, while a file is      *)
(* open and once it is closed, however many times it is appended to.       *)
(*                                                                         *)
(* The invariant Recorded rests on FInv of FileWriter_proofs, which keeps  *)
(* complete blocks in the file: what the records of a context are then     *)
(* changes only where a step moves or adds some.                           *)
(***************************************************************************)
EXTENDS FileWriter_proofs

-----------------------------------------------------------------------------
(* The inductive invariant. *)

\* A complete block of some type at a place of the file.
BlockIn(f, off, type) ==
  \E e \in f.ext : Whole(e) /\ e.off = off /\ e.blk.type = type /\ BlockHdr <= e.hi

\* Records as they are decoded.
Outcomes == [n : Nat, def : Defs \cup {NoDef}, etime : ETimes]
Part(f, w, info) == Decoded(MsgsFor(f, info, InFlight(w, info.ctx)), DefsFor(f, info))

\* An entry of the table leads to a Data Block that is in the file or on its
\* way there, and to the Template Block it is based on.
Stored(f, w, info) ==
  /\ info.ctx[1] \in DOMAIN w.sessions
  /\ BlockIn(f, info.toff, "tmplts")
  /\ \/ BlockIn(f, info.off, "data")
     \/ info.ctx \in Pending(w) /\ From(w.ctxs[info.ctx]) = info.off
  /\ Part(f, w, info) \in Seq(Outcomes)

\* The records of a buffer have templates, the Template Block of the context
\* holds its templates, and the template used last is one of them.
Defined(m, defs) == m.recs # <<>> /\ \A k \in 1..Len(m.recs) : defs[m.recs[k].tid] # NoDef
CtxInStep(f, i) ==
  /\ i.toff # 0 => BlockIn(f, i.toff, "tmplts") /\ BlockAt(f, i.toff).defs = i.tmplts
  /\ i.last # NoTmplt => i.last.def = i.tmplts[i.last.tid] /\ i.last.def # NoDef
  /\ \A m \in 1..Count(i) : Defined(Main(i).msgs[m], i.tmplts)

\* Sessions are numbered in the order of the table, and each is in the file.
SessionIn(f, w, k) ==
  /\ w.table.sessions[k].sid = k
  /\ BlockIn(f, w.table.sessions[k].off, "session")
  /\ BlockAt(f, w.table.sessions[k].off).sid = k
  /\ BlockAt(f, w.table.sessions[k].off).dsc = w.sessions[k]
SessionsInStep(f, w) ==
  /\ DOMAIN w.sessions = 1..Len(w.table.sessions)
  /\ \A k \in DOMAIN w.sessions : SessionIn(f, w, k)
  /\ \A j, k \in DOMAIN w.sessions : w.sessions[j] = w.sessions[k] => j = k

\* The records of a context: those of the table and those of the buffer.
Held(f, w, ctx) == RecordsOf(f, w.table, ctx, InFlight(w, ctx)) \o Buffered(w, ctx)
LogInStep(f, w, l) ==
  /\ \A sid \in DOMAIN w.sessions, odid \in ODIDs :
       l[KeyOf(w, <<sid, odid>>)] = Held(f, w, <<sid, odid>>)
  /\ \A k \in Keys : (\A sid \in DOMAIN w.sessions : w.sessions[sid] # k[1]) => l[k] = <<>>

InStep(f, w) ==
  /\ SessionsInStep(f, w)
  /\ \A k \in 1..Len(w.table.blocks) : Stored(f, w, w.table.blocks[k])
  /\ \A c \in DOMAIN w.ctxs : CtxInStep(f, w.ctxs[c])

\* A writer being closed left nothing in its buffers, and its table and the
\* number of its records in the file.
TableStored(f, w) ==
  /\ \A c \in DOMAIN w.ctxs : Main(w.ctxs[c]).msgs = <<>>
  /\ f.hdr = Header(w.off, w.recs)
  /\ \E e \in f.ext : /\ e.off = w.off /\ e.lo = 0 /\ e.hi = e.blk.len
                      /\ e.blk = TableBlock(w.table)

\* A closed file is what the writer that appends to it starts with.
Reopened(f) == Appender("sync", f, Table(f))
ClosedInStep(f, l) ==
  /\ f.hdr.table # 0 /\ HasBlock(f, f.hdr.table, "table")
  /\ InStep(f, Reopened(f)) /\ LogInStep(f, Reopened(f), l)
OpenInStep(f, w, l) ==
  /\ w.st # "fatal"
  /\ InStep(f, w) /\ LogInStep(f, w, l)
  /\ w.st = "closing" => TableStored(f, w)

\* The number of records accepted.
Total(l) == MapThenSumSet(LAMBDA k : Len(l[k]), Keys)

Recorded ==
  ~lost =>
    /\ lock = NoHandle /\ file.hdr.magic =>
         ClosedInStep(file, log) /\ file.hdr.recs = Total(log)
    /\ \A h \in Handles : writers[h].st # "closed" =>
         OpenInStep(file, writers[h], log) /\ writers[h].recs = Total(log)

-----------------------------------------------------------------------------
(* Induction over intervals. *)

\* A set that holds a number and the successor of each of its members up to
\* another number holds all between them.
Ladder(S, a, b) == a \in S /\ \A k \in a..(b - 1) : k \in S => k + 1 \in S

\* Then it holds all between them.
LEMMA Climb ==
  ASSUME NEW S, NEW a \in Int, NEW b \in Int, Ladder(S, a, b)
  PROVE  \A k \in a..b : k \in S
<1> DEFINE Missing == {n \in Nat : a + n <= b /\ a + n \notin S}
<1>1. SUFFICES ASSUME Missing # {} PROVE FALSE
  <2>1. ASSUME NEW k \in a..b, k \notin S PROVE k - a \in Missing
    BY <2>1
  <2> QED  BY <2>1
<1>2. PICK n \in Missing : \A m \in Missing : n <= m
  <2>1. Missing \in SUBSET Nat
    OBVIOUS
  <2> QED  BY <1>1, <2>1, Minimum
<1>3. n # 0
  BY <1>2 DEF Ladder
<1>4. n - 1 \in Nat /\ n - 1 \notin Missing /\ a + (n - 1) <= b - 1
  BY <1>2, <1>3
<1>5. a + (n - 1) \in S
  BY <1>4
<1>6. (a + (n - 1)) + 1 \in S
  BY <1>4, <1>5 DEF Ladder
<1>7. (a + (n - 1)) + 1 = a + n
  BY <1>4
<1> QED  BY <1>2, <1>6, <1>7

-----------------------------------------------------------------------------
(* Sequences of sequences. *)

\* The recursion of FlattenSeq, which exists for n sequences.
Flat(s, n, f) == f = [i \in 1..n |-> IF i = 1 THEN s[i] ELSE f[i - 1] \o s[i]]

\* There is a function that meets that recursion.
LEMMA FlatExists ==
  ASSUME NEW s, NEW n \in Nat
  PROVE  \E f : Flat(s, n, f)
<1> DEFINE S == {k \in Nat : \E f : Flat(s, k, f)}
<1>1. 0 \in S
  <2>1. Flat(s, 0, [i \in 1..0 |-> s[i]])
    BY DEF Flat
  <2> QED  BY <2>1
<1>2. ASSUME NEW k \in 0..(n - 1), k \in S PROVE k + 1 \in S
  <2>1. PICK g : Flat(s, k, g)
    BY <1>2
  <2> DEFINE f == [i \in 1..(k + 1) |->
                     IF i = k + 1 THEN IF i = 1 THEN s[i] ELSE g[k] \o s[i] ELSE g[i]]
  <2>2. ASSUME NEW i \in 1..(k + 1)
        PROVE  f[i] = IF i = 1 THEN s[i] ELSE f[i - 1] \o s[i]
    <3>1. CASE i = k + 1
      <4>1. i # 1 => i - 1 \in 1..(k + 1) /\ i - 1 # k + 1 /\ i - 1 = k
        BY <3>1
      <4> QED  BY <3>1, <4>1
    <3>2. CASE i # k + 1
      <4>1. i \in 1..k /\ f[i] = g[i]
        BY <3>2
      <4>2. g[i] = IF i = 1 THEN s[i] ELSE g[i - 1] \o s[i]
        BY <2>1, <4>1 DEF Flat
      <4>3. i # 1 => i - 1 \in 1..(k + 1) /\ i - 1 # k + 1
        BY <4>1
      <4>4. i # 1 => f[i - 1] = g[i - 1]
        BY <4>3
      <4> HIDE DEF f
      <4> QED  BY <4>1, <4>2, <4>4
    <3> QED  BY <3>1, <3>2
  <2>3. f = [i \in 1..(k + 1) |-> f[i]]
    OBVIOUS
  <2>4. Flat(s, k + 1, f)
    <3> HIDE DEF f
    <3> QED  BY <2>2, <2>3 DEF Flat
  <2> QED  BY <2>4
<1>3. Ladder(S, 0, n)
  <2> HIDE DEF S
  <2> QED  BY <1>1, <1>2 DEF Ladder
<1>4. n \in S
  <2> HIDE DEF S
  <2> QED  BY <1>3, Climb
<1> QED  BY <1>4

\* FlattenSeq gives what the recursion ends with.
LEMMA FlattenIs ==
  ASSUME NEW s, Len(s) \in Nat
  PROVE  \E f : Flat(s, Len(s), f) /\ FlattenSeq(s) = IF Len(s) = 0 THEN s ELSE f[Len(s)]
<1> DEFINE n == Len(s)
           flatten[i \in 1..n] == IF i = 1 THEN s[i] ELSE flatten[i - 1] \o s[i]
<1>1. FlattenSeq(s) = IF n = 0 THEN s ELSE flatten[n]
  BY DEF FlattenSeq
<1>2. PICK f : Flat(s, n, f)
  BY FlatExists
<1>3. f = [i \in 1..n |-> IF i = 1 THEN s[i] ELSE f[i - 1] \o s[i]]
  BY <1>2 DEF Flat
<1>4. flatten = [i \in 1..n |-> IF i = 1 THEN s[i] ELSE flatten[i - 1] \o s[i]]
  BY <1>3
<1> HIDE DEF flatten
<1>5. Flat(s, n, flatten)
  BY <1>4 DEF Flat
<1> QED  BY <1>1, <1>5

\* What the recursion gives at each place, for sequences over T.
FlatStep(s, f, i) == f[i] = IF i = 1 THEN s[i] ELSE f[i - 1] \o s[i]
\* One step of the recursion at a time.
LEMMA FlatSteps ==
  ASSUME NEW s, NEW n \in Nat, NEW f, Flat(s, n, f)
  PROVE  \A i \in 1..n : FlatStep(s, f, i)
BY DEF Flat, FlatStep

\* Each step of the recursion gives a sequence over T.
LEMMA FlatTyped ==
  ASSUME NEW T, NEW s \in Seq(Seq(T)), NEW f, Flat(s, Len(s), f)
  PROVE  \A i \in 1..Len(s) : f[i] \in Seq(T)
<1> DEFINE n == Len(s)
           S == {i \in Nat : f[i] \in Seq(T)}
<1>0. n \in Nat /\ \A i \in 1..n : s[i] \in Seq(T)
  BY ElementOfSeq, LenProperties
<1>1. \A i \in 1..n : FlatStep(s, f, i)
  BY <1>0, FlatSteps
<1>2. CASE n = 0
  BY <1>2
<1>3. CASE n # 0
  <2>1. 1 \in S
    BY <1>0, <1>1, <1>3 DEF FlatStep
  <2>2. ASSUME NEW k \in 1..(n - 1), k \in S PROVE k + 1 \in S
    <3>1. k + 1 \in 1..n /\ k + 1 # 1 /\ (k + 1) - 1 = k
      BY <1>0
    <3>2. f[k + 1] = f[k] \o s[k + 1]
      BY <1>1, <3>1 DEF FlatStep
    <3>3. s[k + 1] \in Seq(T) /\ f[k] \in Seq(T)
      BY <1>0, <2>2, <3>1
    <3>4. f[k + 1] \in Seq(T)
      BY <3>2, <3>3, ConcatProperties
    <3> QED  BY <3>1, <3>4
  <2>3. Ladder(S, 1, n)
    <3> HIDE DEF S
    <3> QED  BY <2>1, <2>2 DEF Ladder
  <2>4. \A k \in 1..n : k \in S
    <3> HIDE DEF S
    <3> QED  BY <2>3, <1>0, Climb
  <2> QED  BY <2>4
<1> QED  BY <1>2, <1>3

\* One sequence more.
LEMMA FlattenAppend ==
  ASSUME NEW T, NEW s \in Seq(Seq(T)), NEW x \in Seq(T)
  PROVE  /\ FlattenSeq(s) \in Seq(T)
         /\ FlattenSeq(Append(s, x)) = FlattenSeq(s) \o x
<1> DEFINE n == Len(s)
           t == Append(s, x)
<1>0. /\ n \in Nat /\ t \in Seq(Seq(T)) /\ Len(t) = n + 1 /\ t[n + 1] = x
      /\ \A i \in 1..n : t[i] = s[i]
  BY AppendProperties, LenProperties
<1>1. PICK f : Flat(s, n, f) /\ FlattenSeq(s) = IF n = 0 THEN s ELSE f[n]
  BY <1>0, FlattenIs
<1>2. PICK g : Flat(t, n + 1, g) /\ FlattenSeq(t) = g[n + 1]
  <2>1. Len(t) \in Nat /\ Len(t) # 0
    BY <1>0
  <2> HIDE DEF t
  <2>2. PICK g : Flat(t, Len(t), g) /\ FlattenSeq(t) = IF Len(t) = 0 THEN t ELSE g[Len(t)]
    BY <2>1, FlattenIs
  <2> QED  BY <1>0, <2>1, <2>2
<1>3. (\A i \in 1..n : FlatStep(s, f, i)) /\ \A i \in 1..(n + 1) : FlatStep(t, g, i)
  <2>1. n + 1 \in Nat
    BY <1>0
  <2> QED  BY <1>0, <1>1, <1>2, <2>1, FlatSteps
<1>4. \A i \in 1..n : f[i] \in Seq(T)
  BY <1>1, FlatTyped
<1> HIDE DEF n, t
<1>5. CASE n = 0
  <2>1. s = <<>>
    BY <1>5, EmptySeq DEF n
  <2>2. FlattenSeq(s) = <<>> /\ FlattenSeq(t) = x
    BY <1>0, <1>1, <1>2, <1>3, <1>5, <2>1 DEF FlatStep
  <2> QED  BY <2>2, ConcatEmptySeq, EmptySeq DEF t
<1>6. CASE n # 0
  <2> DEFINE S == {i \in Nat : g[i] = f[i]}
  <2>1. 1 \in S
    <3>1. 1 \in 1..n /\ 1 \in 1..(n + 1)
      BY <1>0, <1>6
    <3>2. g[1] = t[1] /\ f[1] = s[1] /\ t[1] = s[1]
      BY <1>0, <1>3, <3>1 DEF FlatStep
    <3> QED  BY <3>2
  <2>2. ASSUME NEW k \in 1..(n - 1), k \in S PROVE k + 1 \in S
    <3>1. k + 1 \in 1..n /\ k + 1 \in 1..(n + 1) /\ k + 1 # 1 /\ (k + 1) - 1 = k
      BY <1>0
    <3>2. f[k + 1] = f[k] \o s[k + 1] /\ g[k + 1] = g[k] \o t[k + 1]
      BY <1>3, <3>1 DEF FlatStep
    <3>3. t[k + 1] = s[k + 1]
      BY <1>0, <3>1
    <3>4. g[k] = f[k] /\ k + 1 \in Nat
      BY <2>2, <3>1
    <3>5. g[k + 1] = f[k + 1]
      BY <3>2, <3>3, <3>4
    <3> QED  BY <3>4, <3>5
  <2>3. n \in S
    <3>1. Ladder(S, 1, n)
      <4> HIDE DEF S
      <4> QED  BY <2>1, <2>2 DEF Ladder
    <3>2. n \in 1..n
      BY <1>0, <1>6
    <3> HIDE DEF S
    <3> QED  BY <1>0, <3>1, <3>2, Climb
  <2>4. n + 1 \in 1..(n + 1) /\ n + 1 # 1 /\ (n + 1) - 1 = n /\ n \in 1..n
    BY <1>0, <1>6
  <2>5. g[n + 1] = g[n] \o t[n + 1]
    BY <1>3, <2>4 DEF FlatStep
  <2>6. FlattenSeq(s) = f[n] /\ g[n] = f[n] /\ f[n] \in Seq(T)
    BY <1>1, <1>4, <1>6, <2>3, <2>4
  <2> QED  BY <1>0, <1>2, <2>5, <2>6 DEF t
<1> QED  BY <1>5, <1>6

\* No sequences make the empty one.
LEMMA FlattenEmpty == FlattenSeq(<<>>) = <<>>
<1>1. Len(<<>>) = 0
  BY EmptySeq
<1>2. \E f : FlattenSeq(<<>>) = IF Len(<<>>) = 0 THEN <<>> ELSE f[Len(<<>>)]
  BY <1>1, FlattenIs
<1> QED  BY <1>1, <1>2

\* If all sequences but the k-th are empty, that one is all there is.
UpTo(s, k, i) == IF i < k THEN <<>> ELSE s[k]
\* What is flattened is then that sequence.
LEMMA FlattenOnly ==
  ASSUME NEW T, NEW s \in Seq(Seq(T)), NEW k \in 1..Len(s),
         \A i \in 1..Len(s) : i # k => s[i] = <<>>
  PROVE  FlattenSeq(s) = s[k]
<1> DEFINE n == Len(s)
<1>0. n \in Nat /\ n # 0 /\ k \in Nat /\ 1 <= k /\ k <= n /\ \A i \in 1..n : s[i] \in Seq(T)
  BY ElementOfSeq, LenProperties
<1>1. PICK f : Flat(s, n, f) /\ FlattenSeq(s) = f[n]
  BY <1>0, FlattenIs
<1>2. \A i \in 1..n : FlatStep(s, f, i)
  BY <1>0, <1>1, FlatSteps
<1> DEFINE S == {i \in Nat : f[i] = UpTo(s, k, i)}
<1>3. 1 \in S
  <2>1. f[1] = s[1]
    BY <1>0, <1>2 DEF FlatStep
  <2>2. s[1] = UpTo(s, k, 1)
    <3>1. CASE k = 1
      BY <3>1 DEF UpTo
    <3>2. CASE k # 1
      BY <3>2, <1>0 DEF UpTo
    <3> QED  BY <3>1, <3>2
  <2> QED  BY <2>1, <2>2
<1>4. ASSUME NEW i \in 1..(n - 1), i \in S PROVE i + 1 \in S
  <2>1. i + 1 \in 1..n /\ i + 1 # 1 /\ (i + 1) - 1 = i /\ i + 1 \in Nat
    BY <1>0
  <2>2. f[i + 1] = UpTo(s, k, i) \o s[i + 1]
    BY <1>2, <1>4, <2>1 DEF FlatStep
  <2>3. CASE i + 1 = k
    <3>1. UpTo(s, k, i) = <<>> /\ UpTo(s, k, i + 1) = s[k] /\ s[k] \in Seq(T)
      BY <1>0, <2>1, <2>3 DEF UpTo
    <3> QED  BY <2>1, <2>2, <2>3, <3>1, ConcatEmptySeq
  <2>4. CASE i + 1 # k
    <3>1. s[i + 1] = <<>> /\ UpTo(s, k, i) = UpTo(s, k, i + 1) /\ UpTo(s, k, i) \in Seq(T)
      BY <1>0, <2>1, <2>4, EmptySeq DEF UpTo
    <3>2. UpTo(s, k, i) \o <<>> = UpTo(s, k, i)
      BY <3>1, ConcatEmptySeq
    <3> QED  BY <2>1, <2>2, <3>1, <3>2
  <2> QED  BY <2>3, <2>4
<1>5. Ladder(S, 1, n)
  <2> HIDE DEF S
  <2> QED  BY <1>3, <1>4 DEF Ladder
<1>6. n \in S
  <2>1. n \in 1..n
    BY <1>0
  <2> HIDE DEF S
  <2> QED  BY <1>0, <1>5, <2>1, Climb
<1>7. f[n] = s[k]
  BY <1>0, <1>6 DEF UpTo
<1> QED  BY <1>1, <1>7

-----------------------------------------------------------------------------
(* Decoding of messages. *)

DefsOK(defs) == defs \in [TIDs -> Defs \cup {NoDef}]
RecOut(m, r, defs) == [n |-> r.n, def |-> defs[r.tid], etime |-> m.etime]
MsgOut(m, defs) == [k \in 1..Len(m.recs) |-> RecOut(m, m.recs[k], defs)]
Outs(msgs, defs) == [m \in 1..Len(msgs) |-> MsgOut(msgs[m], defs)]

\* Messages are decoded one by one.
LEMMA DecodedIs ==
  ASSUME NEW msgs, NEW defs
  PROVE  Decoded(msgs, defs) = FlattenSeq(Outs(msgs, defs))
BY DEF Decoded, Outs, MsgOut, RecOut

\* A message is decoded to outcomes of its records.
LEMMA MsgOutTyped ==
  ASSUME NEW m \in Messages, NEW defs, DefsOK(defs)
  PROVE  MsgOut(m, defs) \in Seq(Outcomes)
<1>1. m.recs \in Seq(Records) /\ m.etime \in ETimes
  BY DEF Messages
<1>2. Len(m.recs) \in Nat
  BY <1>1, LenProperties
<1>3. ASSUME NEW k \in 1..Len(m.recs) PROVE RecOut(m, m.recs[k], defs) \in Outcomes
  <2>1. m.recs[k] \in Records
    BY <1>1, <1>3, ElementOfSeq
  <2>2. m.recs[k].n \in Nat /\ m.recs[k].tid \in TIDs
    BY <2>1 DEF Records
  <2>3. defs[m.recs[k].tid] \in Defs \cup {NoDef}
    BY <2>2 DEF DefsOK
  <2> QED  BY <1>1, <2>2, <2>3 DEF RecOut, Outcomes
<1> QED  BY <1>2, <1>3, IsASeq DEF MsgOut

\* So are several messages, each at its place.
LEMMA OutsTyped ==
  ASSUME NEW msgs \in Seq(Messages), NEW defs, DefsOK(defs)
  PROVE  Outs(msgs, defs) \in Seq(Seq(Outcomes)) /\ Len(Outs(msgs, defs)) = Len(msgs)
<1>1. Len(msgs) \in Nat /\ \A m \in 1..Len(msgs) : msgs[m] \in Messages
  BY ElementOfSeq, LenProperties
<1>2. \A m \in 1..Len(msgs) : MsgOut(msgs[m], defs) \in Seq(Outcomes)
  BY <1>1, MsgOutTyped
<1>3. Outs(msgs, defs) \in Seq(Seq(Outcomes))
  BY <1>1, <1>2, IsASeq DEF Outs
<1>4. DOMAIN Outs(msgs, defs) = 1..Len(msgs)
  BY DEF Outs
<1> QED  BY <1>1, <1>3, <1>4, LenProperties

\* Decoded messages are one sequence of outcomes.
LEMMA DecodedTyped ==
  ASSUME NEW msgs \in Seq(Messages), NEW defs, DefsOK(defs)
  PROVE  Decoded(msgs, defs) \in Seq(Outcomes)
<1>1. Outs(msgs, defs) \in Seq(Seq(Outcomes)) /\ <<>> \in Seq(Outcomes)
  BY OutsTyped, EmptySeq
<1> QED  BY <1>1, FlattenAppend, DecodedIs

\* No messages hold no records.
LEMMA DecodedNone ==
  ASSUME NEW defs, DefsOK(defs)
  PROVE  Decoded(<<>>, defs) = <<>>
<1>1. <<>> \in Seq(Messages) /\ Len(<<>>) = 0
  BY EmptySeq
<1>2. Outs(<<>>, defs) \in Seq(Seq(Outcomes)) /\ Len(Outs(<<>>, defs)) = 0
  BY <1>1, OutsTyped
<1>3. Outs(<<>>, defs) = <<>>
  BY <1>2, EmptySeq
<1> QED  BY <1>3, DecodedIs, FlattenEmpty

\* A message more.
LEMMA DecodedAppend ==
  ASSUME NEW msgs \in Seq(Messages), NEW m \in Messages, NEW defs, DefsOK(defs)
  PROVE  Decoded(Append(msgs, m), defs) = Decoded(msgs, defs) \o MsgOut(m, defs)
<1> DEFINE n == Len(msgs)
           t == Append(msgs, m)
           s == Outs(msgs, defs)
           u == Outs(t, defs)
           x == MsgOut(m, defs)
<1>1. n \in Nat /\ t \in Seq(Messages) /\ Len(t) = n + 1 /\ t[n + 1] = m /\ \A i \in 1..n : t[i] = msgs[i]
  BY AppendProperties, LenProperties
<1>2. s \in Seq(Seq(Outcomes)) /\ Len(s) = n /\ x \in Seq(Outcomes)
  BY OutsTyped, MsgOutTyped
<1>3. u \in Seq(Seq(Outcomes)) /\ Len(u) = n + 1
  BY <1>1, OutsTyped
<1>4. Append(s, x) \in Seq(Seq(Outcomes)) /\ Len(Append(s, x)) = n + 1
  BY <1>2, AppendProperties
<1>5. ASSUME NEW i \in 1..(n + 1) PROVE u[i] = Append(s, x)[i]
  <2>1. u[i] = MsgOut(t[i], defs)
    BY <1>1 DEF Outs
  <2>2. CASE i = n + 1
    <3>1. Append(s, x)[n + 1] = x
      BY <1>2, AppendProperties
    <3> HIDE DEF s
    <3> QED  BY <1>1, <2>1, <2>2, <3>1
  <2>3. CASE i # n + 1
    <3>1. i \in 1..n
      BY <2>3, <1>1
    <3>2. Append(s, x)[i] = s[i]
      BY <3>1, <1>2, AppendProperties
    <3>3. s[i] = MsgOut(msgs[i], defs)
      BY <3>1 DEF Outs
    <3>4. t[i] = msgs[i]
      BY <1>1, <3>1
    <3> HIDE DEF s, u
    <3> QED  BY <2>1, <3>2, <3>3, <3>4
  <2> QED  BY <2>2, <2>3
<1>6. u = Append(s, x)
  <2> HIDE DEF s, u, x
  <2> QED  BY <1>3, <1>4, <1>5, SeqEqual
<1>7. FlattenSeq(Append(s, x)) = FlattenSeq(s) \o x
  <2> HIDE DEF s, x
  <2> QED  BY <1>2, FlattenAppend
<1>8. Decoded(t, defs) = FlattenSeq(u) /\ Decoded(msgs, defs) = FlattenSeq(s)
  BY DecodedIs
<1> HIDE DEF n, s, u, t, x
<1>9. Decoded(t, defs) = Decoded(msgs, defs) \o x
  BY <1>6, <1>7, <1>8
<1> QED  BY <1>9 DEF t, x

\* Messages as they are once a record is added to the last one.
Longer(msgs, r) == [msgs EXCEPT ![Len(msgs)].recs = Append(@, r)]
\* A message with a record more is a message still.
LEMMA MessageGrows ==
  ASSUME NEW m \in Messages, NEW r \in Records
  PROVE  LET q == [m EXCEPT !.recs = Append(@, r)]
         IN  q \in Messages /\ q.recs = Append(m.recs, r) /\ q.etime = m.etime
<1>1. m = [etime |-> m.etime, recs |-> m.recs] /\ m.etime \in ETimes /\ m.recs \in Seq(Records)
  BY DEF Messages
<1>2. Append(m.recs, r) \in Seq(Records)
  BY <1>1, AppendProperties
<1>3. [m EXCEPT !.recs = Append(@, r)] = [etime |-> m.etime, recs |-> Append(m.recs, r)]
  BY <1>1
<1> QED  BY <1>1, <1>2, <1>3 DEF Messages

\* Only the last message differs, and it has the record at its end.
LEMMA LongerIs ==
  ASSUME NEW msgs \in Seq(Messages), msgs # <<>>, NEW r \in Records
  PROVE  \E front \in Seq(Messages), m \in Messages :
           /\ msgs = Append(front, m) /\ m = LastMsg([msgs |-> msgs])
           /\ Longer(msgs, r) = Append(front, [m EXCEPT !.recs = Append(@, r)])
           /\ [m EXCEPT !.recs = Append(@, r)] \in Messages
<1> DEFINE n == Len(msgs)
<1>1. PICK front \in Seq(Messages), m \in Messages : msgs = Append(front, m)
  BY SequenceEmptyOrAppend
<1>2. Len(front) \in Nat /\ n = Len(front) + 1 /\ msgs[n] = m /\ \A i \in 1..Len(front) : msgs[i] = front[i]
  BY <1>1, AppendProperties, LenProperties
<1> DEFINE q == [m EXCEPT !.recs = Append(@, r)]
           t == Append(front, q)
           u == Longer(msgs, r)
<1>3. q \in Messages
  BY MessageGrows
<1>4. t \in Seq(Messages) /\ Len(t) = n /\ t[n] = q /\ \A i \in 1..Len(front) : t[i] = front[i]
  <2> HIDE DEF q
  <2>1. t \in Seq(Messages) /\ Len(t) = Len(front) + 1 /\ t[Len(front) + 1] = q /\ \A i \in 1..Len(front) : t[i] = front[i]
    BY <1>2, <1>3, AppendProperties
  <2> QED  BY <1>2, <2>1
<1>5. DOMAIN msgs = 1..n /\ n \in 1..n
  BY <1>2, LenProperties
<1>6. u = [msgs EXCEPT ![n] = q]
  BY <1>2 DEF Longer
<1> HIDE DEF q, u
<1>7. u \in Seq(Messages) /\ Len(u) = n
  BY <1>3, <1>5, <1>6, ExceptSeq
<1>8. ASSUME NEW i \in 1..n PROVE u[i] = t[i]
  <2>1. CASE i = n
    BY <1>4, <1>5, <1>6, <2>1
  <2>2. CASE i # n
    <3>1. i \in 1..Len(front)
      BY <1>2, <2>2
    <3>2. u[i] = msgs[i]
      BY <1>5, <1>6, <2>2
    <3> HIDE DEF t
    <3> QED  BY <1>2, <1>4, <3>1, <3>2
  <2> QED  BY <2>1, <2>2
<1>9. u = t
  <2> HIDE DEF t
  <2> QED  BY <1>4, <1>7, <1>8, SeqEqual
<1>10. m = LastMsg([msgs |-> msgs])
  BY <1>2 DEF LastMsg
<1> QED  BY <1>1, <1>3, <1>9, <1>10 DEF u, q

\* A record more in a message is an outcome more.
LEMMA MsgOutAppend ==
  ASSUME NEW m \in Messages, NEW r \in Records, NEW defs, DefsOK(defs)
  PROVE  MsgOut([m EXCEPT !.recs = Append(@, r)], defs) = Append(MsgOut(m, defs), RecOut(m, r, defs))
<1> DEFINE q == [m EXCEPT !.recs = Append(@, r)]
           n == Len(m.recs)
           x == MsgOut(m, defs)
           y == MsgOut(q, defs)
           o == RecOut(m, r, defs)
<1>1. m.etime \in ETimes /\ m.recs \in Seq(Records)
  BY DEF Messages
<1>3. q \in Messages /\ q.recs = Append(m.recs, r) /\ q.etime = m.etime
  BY MessageGrows
<1> HIDE DEF q
<1>4. /\ n \in Nat /\ q.recs \in Seq(Records) /\ Len(q.recs) = n + 1 /\ q.recs[n + 1] = r
      /\ \A i \in 1..n : q.recs[i] = m.recs[i]
  BY <1>1, <1>3, AppendProperties, LenProperties
<1>6. x \in Seq(Outcomes) /\ y \in Seq(Outcomes)
  BY <1>3, MsgOutTyped
<1>7. Len(x) = n /\ Len(y) = n + 1
  <2>1. DOMAIN x = 1..n /\ DOMAIN y = 1..(n + 1)
    BY <1>4 DEF MsgOut
  <2> HIDE DEF x, y
  <2> QED  BY <1>4, <1>6, <2>1, LenProperties
<1>8. o \in Outcomes
  <2>1. r.n \in Nat /\ r.tid \in TIDs
    BY DEF Records
  <2>2. defs[r.tid] \in Defs \cup {NoDef}
    BY <2>1 DEF DefsOK
  <2> QED  BY <1>1, <2>1, <2>2 DEF RecOut, Outcomes
<1>9. Append(x, o) \in Seq(Outcomes) /\ Len(Append(x, o)) = n + 1 /\ Append(x, o)[n + 1] = o
      /\ \A i \in 1..n : Append(x, o)[i] = x[i]
  <2> HIDE DEF x, o
  <2> QED  BY <1>6, <1>7, <1>8, AppendProperties
<1>10. ASSUME NEW i \in 1..(n + 1) PROVE y[i] = Append(x, o)[i]
  <2>1. y[i] = RecOut(q, q.recs[i], defs)
    BY <1>4 DEF MsgOut
  <2>2. CASE i = n + 1
    <3>1. RecOut(q, r, defs) = RecOut(m, r, defs)
      BY <1>3 DEF RecOut
    <3> HIDE DEF x, y
    <3> QED  BY <1>4, <1>9, <2>1, <2>2, <3>1
  <2>3. CASE i # n + 1
    <3>1. i \in 1..n
      BY <2>3, <1>4
    <3>2. x[i] = RecOut(m, m.recs[i], defs)
      BY <3>1 DEF MsgOut
    <3>3. q.recs[i] = m.recs[i]
      BY <1>4, <3>1
    <3>4. RecOut(q, m.recs[i], defs) = RecOut(m, m.recs[i], defs)
      BY <1>3 DEF RecOut
    <3> HIDE DEF x, y, o
    <3> QED  BY <1>9, <2>1, <3>1, <3>2, <3>3, <3>4
  <2> QED  BY <2>2, <2>3
<1> HIDE DEF x, y, o
<1>11. y = Append(x, o)
  BY <1>6, <1>7, <1>9, <1>10, SeqEqual
<1> QED  BY <1>11 DEF x, y, o, q

\* A record more in the last message comes last among those decoded.
LEMMA DecodedLonger ==
  ASSUME NEW msgs \in Seq(Messages), msgs # <<>>, NEW r \in Records, NEW defs, DefsOK(defs)
  PROVE  Decoded(Longer(msgs, r), defs)
           = Append(Decoded(msgs, defs), RecOut(LastMsg([msgs |-> msgs]), r, defs))
<1>1. PICK front \in Seq(Messages), m \in Messages :
           /\ msgs = Append(front, m) /\ m = LastMsg([msgs |-> msgs])
           /\ Longer(msgs, r) = Append(front, [m EXCEPT !.recs = Append(@, r)])
           /\ [m EXCEPT !.recs = Append(@, r)] \in Messages
  BY LongerIs
<1> DEFINE d == Decoded(front, defs)
           x == MsgOut(m, defs)
           o == RecOut(m, r, defs)
<1>2. Decoded(msgs, defs) = d \o x
  BY <1>1, DecodedAppend
<1>3. Decoded(Longer(msgs, r), defs) = d \o Append(x, o)
  <2> DEFINE q == [m EXCEPT !.recs = Append(@, r)]
  <2>1. MsgOut(q, defs) = Append(x, o)
    BY MsgOutAppend
  <2>2. Longer(msgs, r) = Append(front, q) /\ q \in Messages
    BY <1>1
  <2> HIDE DEF q, x, o
  <2>3. Decoded(Append(front, q), defs) = d \o MsgOut(q, defs)
    BY <2>2, DecodedAppend
  <2> QED  BY <2>1, <2>2, <2>3
<1>4. d \in Seq(Outcomes) /\ x \in Seq(Outcomes)
  BY DecodedTyped, MsgOutTyped
<1>5. o \in Outcomes
  <2>1. r.n \in Nat /\ r.tid \in TIDs /\ m.etime \in ETimes
    BY DEF Records, Messages
  <2>2. defs[r.tid] \in Defs \cup {NoDef}
    BY <2>1 DEF DefsOK
  <2> QED  BY <2>1, <2>2 DEF RecOut, Outcomes
<1> HIDE DEF d, x, o
<1>6. d \o Append(x, o) = Append(d \o x, o)
  <2>1. <<o>> \in Seq(Outcomes)
    BY <1>5, IsASeq
  <2>2. Append(x, o) = x \o <<o>>
    BY <1>4, <1>5, AppendIsConcat
  <2>3. d \o x \in Seq(Outcomes)
    BY <1>4, ConcatProperties
  <2>4. Append(d \o x, o) = (d \o x) \o <<o>>
    BY <1>5, <2>3, AppendIsConcat
  <2> QED  BY <1>4, <2>1, <2>2, <2>4, ConcatAssociative
<1> QED  BY <1>1, <1>2, <1>3, <1>6 DEF o

\* Templates that agree on the IDs in use decode the same.
LEMMA DecodedSame ==
  ASSUME NEW msgs, NEW defs, NEW e,
         \A m \in 1..Len(msgs) : \A k \in 1..Len(msgs[m].recs) :
            defs[msgs[m].recs[k].tid] = e[msgs[m].recs[k].tid]
  PROVE  Decoded(msgs, defs) = Decoded(msgs, e)
<1>1. ASSUME NEW m \in 1..Len(msgs) PROVE MsgOut(msgs[m], defs) = MsgOut(msgs[m], e)
  BY <1>1 DEF MsgOut, RecOut
<1>2. Outs(msgs, defs) = Outs(msgs, e)
  BY <1>1 DEF Outs
<1> QED  BY <1>2, DecodedIs

-----------------------------------------------------------------------------
(* Blocks of the file. *)

\* Two beginnings of blocks at one place are the same.
LEMMA OneBlock ==
  ASSUME NEW f, FileOK(f), NEW d \in f.ext, NEW e \in f.ext, d.off = e.off, d.lo = 0, e.lo = 0
  PROVE  d = e
<1>1. ExtentOK(d) /\ ExtentOK(e) /\ (d = e \/ Apart(d, e))
  BY DEF FileOK
<1>2. ~Apart(d, e)
  BY <1>1 DEF Apart, End, ExtentOK
<1> QED  BY <1>1, <1>2

\* What is found at a place is the block that begins there.
LEMMA BlockAtIs ==
  ASSUME NEW f, FileOK(f), NEW e \in f.ext, e.lo = 0, NEW off, e.off = off
  PROVE  /\ BlockAt(f, off) = e.blk
         /\ \A type : e.hi = e.blk.len /\ BlockHdr <= e.hi =>
                        (HasBlock(f, off, type) <=> e.blk.type = type)
<1> DEFINE x == CHOOSE d \in f.ext : d.off = off /\ d.lo = 0
<1>1. x \in f.ext /\ x.off = off /\ x.lo = 0
  OBVIOUS
<1>2. x = e
  <2> HIDE DEF x
  <2> QED  BY <1>1, OneBlock
<1>3. BlockAt(f, off) = e.blk
  BY <1>2 DEF BlockAt
<1>4. ASSUME NEW type, e.hi = e.blk.len, BlockHdr <= e.hi
      PROVE  HasBlock(f, off, type) <=> e.blk.type = type
  <2>0. e.hi \in Nat /\ BlockHdr \in Nat
    BY Lengths DEF FileOK, ExtentOK
  <2>1. e \in Starts(f, off, BlockHdr)
    BY <1>4, <2>0 DEF Starts
  <2>2. \A d \in Starts(f, off, BlockHdr) : d = e
    BY OneBlock DEF Starts
  <2> QED  BY <1>4, <2>1, <2>2 DEF HasBlock
<1> QED  BY <1>3, <1>4

\* A complete block is found, and by its own type only.
LEMMA BlockInIs ==
  ASSUME NEW f, FileOK(f), NEW off, NEW type, BlockIn(f, off, type)
  PROVE  /\ BlockAt(f, off).type = type
         /\ \A t : HasBlock(f, off, t) <=> t = type
<1>1. PICK e \in f.ext : Whole(e) /\ e.off = off /\ e.blk.type = type /\ BlockHdr <= e.hi
  BY DEF BlockIn
<1>2. e.lo = 0 /\ e.hi = e.blk.len
  BY <1>1 DEF Whole
<1> QED  BY <1>1, <1>2, BlockAtIs

\* A complete block is found again.
LEMMA BlockKept ==
  ASSUME NEW f, FileOK(f), NEW g, FileOK(g), Kept(f, g), NEW off, NEW type, BlockIn(f, off, type)
  PROVE  BlockIn(g, off, type) /\ BlockAt(g, off) = BlockAt(f, off)
<1>1. PICK e \in f.ext : Whole(e) /\ e.off = off /\ e.blk.type = type /\ BlockHdr <= e.hi
  BY DEF BlockIn
<1>2. e.lo = 0 /\ e \in g.ext
  BY <1>1 DEF Whole, Kept
<1>3. BlockAt(f, off) = e.blk /\ BlockAt(g, off) = e.blk
  BY <1>1, <1>2, BlockAtIs
<1> QED  BY <1>1, <1>2, <1>3 DEF BlockIn

\* No block is where a running write goes, or behind the place to go on.
LEMMA NotInFlight ==
  ASSUME NEW f, FileOK(f), NEW w, WriterOK(w), Placed(f, w), NEW off, NEW type, BlockIn(f, off, type)
  PROVE  off \in Nat /\ off < w.off /\ \A c \in Pending(w) : From(w.ctxs[c]) # off
<1>1. PICK e \in f.ext : Whole(e) /\ e.off = off
  BY DEF BlockIn
<1>2. e.off \in Nat /\ e.lo \in Nat /\ e.hi \in Nat /\ e.lo < e.hi /\ w.off \in Nat
  BY DEF FileOK, ExtentOK, WriterOK
<1>3. End(e) <= w.off
  BY <1>1 DEF Placed
<1>4. ASSUME NEW c \in Pending(w), From(w.ctxs[c]) = off PROVE FALSE
  <2>1. From(w.ctxs[c]) \in Nat /\ To(w.ctxs[c]) \in Nat /\ From(w.ctxs[c]) < To(w.ctxs[c])
    BY PendingPlace
  <2>2. End(e) <= From(w.ctxs[c]) \/ To(w.ctxs[c]) <= e.off
    BY <1>1 DEF Placed
  <2> QED  BY <1>1, <1>2, <1>4, <2>1, <2>2 DEF End
<1> QED  BY <1>1, <1>2, <1>3, <1>4 DEF End

-----------------------------------------------------------------------------
(* What an entry of the table leads to. *)

FlightMsgs(i) == i.buf[i.req.buf].msgs

\* At most one write of a context is under way.
LEMMA InFlightIs ==
  ASSUME NEW w, NEW ctx
  PROVE  InFlight(w, ctx) =
           IF ctx \in Pending(w) THEN {[off |-> From(w.ctxs[ctx]), msgs |-> FlightMsgs(w.ctxs[ctx])]}
           ELSE {}
BY DEF InFlight, Pending, From, FlightMsgs

\* An entry whose block is being written has the messages of the buffer.
LEMMA MsgsInFlight ==
  ASSUME NEW f, NEW w, NEW info, info.ctx \in Pending(w), From(w.ctxs[info.ctx]) = info.off
  PROVE  MsgsFor(f, info, InFlight(w, info.ctx)) = FlightMsgs(w.ctxs[info.ctx])
<1> DEFINE p == [off |-> From(w.ctxs[info.ctx]), msgs |-> FlightMsgs(w.ctxs[info.ctx])]
           S == InFlight(w, info.ctx)
<1>1. S = {p}
  BY InFlightIs
<1>2. p.off = info.off /\ p.msgs = FlightMsgs(w.ctxs[info.ctx])
  OBVIOUS
<1> HIDE DEF p, S
<1>3. (CHOOSE q \in S : q.off = info.off) = p
  BY <1>1, <1>2
<1>4. \E q \in S : q.off = info.off
  BY <1>1, <1>2
<1> QED  BY <1>2, <1>3, <1>4 DEF MsgsFor, S

\* An entry whose block is in the file has the messages of the block.
LEMMA MsgsInFile ==
  ASSUME NEW f, FileOK(f), NEW w, WriterOK(w), Placed(f, w), NEW info, BlockIn(f, info.off, "data")
  PROVE  MsgsFor(f, info, InFlight(w, info.ctx)) = BlockAt(f, info.off).msgs
<1>1. ~ \E q \in InFlight(w, info.ctx) : q.off = info.off
  <2>1. \A c \in Pending(w) : From(w.ctxs[c]) # info.off
    BY NotInFlight
  <2> QED  BY <2>1, InFlightIs
<1>2. HasBlock(f, info.off, "data")
  BY BlockInIs
<1> QED  BY <1>1, <1>2 DEF MsgsFor

\* An entry has the definitions of the Template Block in the file.
LEMMA DefsInFile ==
  ASSUME NEW f, FileOK(f), NEW info, BlockIn(f, info.toff, "tmplts")
  PROVE  DefsFor(f, info) = BlockAt(f, info.toff).defs
BY BlockInIs DEF DefsFor

\* A running write is still running.
SameFlight(w, v, c) ==
  c \in Pending(w) => /\ c \in Pending(v)
                      /\ From(v.ctxs[c]) = From(w.ctxs[c])
                      /\ FlightMsgs(v.ctxs[c]) = FlightMsgs(w.ctxs[c])

\* A file and the writer behind it.
Good(f, w) == FileOK(f) /\ WriterOK(w) /\ Placed(f, w)

\* What follows a file and a writer: complete blocks and sessions stay.
Follows(f, w, g, v) ==
  /\ Good(f, w) /\ Good(g, v) /\ Kept(f, g)
  /\ DOMAIN w.sessions \subseteq DOMAIN v.sessions

\* What an entry leads to stays as blocks are added to the file.
LEMMA PartKept ==
  ASSUME NEW f, NEW w, NEW g, NEW v, Follows(f, w, g, v), NEW info,
         Stored(f, w, info), SameFlight(w, v, info.ctx)
  PROVE  Stored(g, v, info) /\ Part(g, v, info) = Part(f, w, info)
<1>1. FileOK(f) /\ WriterOK(w) /\ Placed(f, w) /\ FileOK(g) /\ WriterOK(v) /\ Placed(g, v) /\ Kept(f, g)
  BY DEF Follows, Good
<1>2. BlockIn(f, info.toff, "tmplts")
  BY DEF Stored
<1>3. BlockIn(g, info.toff, "tmplts") /\ BlockAt(g, info.toff) = BlockAt(f, info.toff)
  BY <1>1, <1>2, BlockKept
<1>4. DefsFor(g, info) = DefsFor(f, info)
  BY <1>1, <1>2, <1>3, DefsInFile
<1>5. CASE BlockIn(f, info.off, "data")
  <2>1. BlockIn(g, info.off, "data") /\ BlockAt(g, info.off) = BlockAt(f, info.off)
    BY <1>1, <1>5, BlockKept
  <2>2. Part(g, v, info) = Part(f, w, info)
    BY <1>1, <1>4, <1>5, <2>1, MsgsInFile DEF Part
  <2> QED  BY <1>3, <2>1, <2>2 DEF Stored, Follows
<1>6. CASE info.ctx \in Pending(w) /\ From(w.ctxs[info.ctx]) = info.off
  <2>1. info.ctx \in Pending(v) /\ From(v.ctxs[info.ctx]) = info.off
    BY <1>6 DEF SameFlight
  <2>2. Part(g, v, info) = Part(f, w, info)
    BY <1>4, <1>6, <2>1, MsgsInFlight DEF Part, SameFlight
  <2> QED  BY <1>3, <2>1, <2>2 DEF Stored, Follows
<1> QED  BY <1>5, <1>6 DEF Stored

-----------------------------------------------------------------------------
(* The records of a context in the blocks of the table. *)

Parts(f, w, ctx) ==
  [k \in 1..Len(w.table.blocks) |->
     IF w.table.blocks[k].ctx = ctx THEN Part(f, w, w.table.blocks[k]) ELSE <<>>]
Recs(f, w, ctx) == RecordsOf(f, w.table, ctx, InFlight(w, ctx))

\* The records of a context are those of its entries, one after the other.
LEMMA RecsIs ==
  ASSUME NEW f, NEW w, NEW ctx
  PROVE  Recs(f, w, ctx) = FlattenSeq(Parts(f, w, ctx))
<1>1. ASSUME NEW k \in 1..Len(w.table.blocks)
      PROVE  (IF w.table.blocks[k].ctx = ctx
              THEN Decoded(MsgsFor(f, w.table.blocks[k], InFlight(w, ctx)), DefsFor(f, w.table.blocks[k]))
              ELSE <<>>) = Parts(f, w, ctx)[k]
  BY DEF Parts, Part
<1>2. [k \in 1..Len(w.table.blocks) |->
         IF w.table.blocks[k].ctx = ctx
         THEN Decoded(MsgsFor(f, w.table.blocks[k], InFlight(w, ctx)), DefsFor(f, w.table.blocks[k]))
         ELSE <<>>] = Parts(f, w, ctx)
  BY <1>1 DEF Parts, Part
<1> QED  BY <1>2 DEF Recs, RecordsOf

AllStored(f, w) == \A k \in 1..Len(w.table.blocks) : Stored(f, w, w.table.blocks[k])

\* Every entry of a table gives a sequence of outcomes.
LEMMA PartsTyped ==
  ASSUME NEW f, NEW w, w.table \in Contents, AllStored(f, w), NEW ctx
  PROVE  /\ Parts(f, w, ctx) \in Seq(Seq(Outcomes)) /\ Len(Parts(f, w, ctx)) = Len(w.table.blocks)
         /\ Len(w.table.blocks) \in Nat
         /\ Recs(f, w, ctx) \in Seq(Outcomes)
<1> DEFINE n == Len(w.table.blocks)
<1>1. n \in Nat
  BY LenProperties DEF Contents
<1>2. \A k \in 1..n : Parts(f, w, ctx)[k] \in Seq(Outcomes)
  BY EmptySeq DEF Parts, AllStored, Stored
<1>3. Parts(f, w, ctx) = [k \in 1..n |-> Parts(f, w, ctx)[k]]
  BY DEF Parts
<1>4. Parts(f, w, ctx) \in Seq(Seq(Outcomes))
  BY <1>1, <1>2, <1>3, IsASeq
<1>5. Len(Parts(f, w, ctx)) = n
  <2>1. DOMAIN Parts(f, w, ctx) = 1..n
    BY DEF Parts
  <2> QED  BY <1>1, <1>4, <2>1, LenProperties
<1>6. <<>> \in Seq(Outcomes)
  BY EmptySeq
<1>7. Recs(f, w, ctx) \in Seq(Outcomes)
  BY <1>4, <1>6, FlattenAppend, RecsIs
<1> QED  BY <1>1, <1>4, <1>5, <1>7

\* Entries that lead to the same records hold the same records.
LEMMA RecsKept ==
  ASSUME NEW f, NEW w, NEW g, NEW v, v.table.blocks = w.table.blocks, NEW ctx,
         \A k \in 1..Len(w.table.blocks) :
            Part(g, v, w.table.blocks[k]) = Part(f, w, w.table.blocks[k])
  PROVE  Recs(g, v, ctx) = Recs(f, w, ctx)
<1>1. Parts(g, v, ctx) = Parts(f, w, ctx)
  BY DEF Parts
<1> QED  BY <1>1, RecsIs

\* An entry more.
Extends(w, v, info) == v.table.blocks = Append(w.table.blocks, info)
Listed(f, w, g, v, info) ==
  /\ WriterOK(w) /\ AllStored(f, w) /\ WriterOK(v) /\ Extends(w, v, info)
  /\ \A k \in 1..Len(w.table.blocks) :
       /\ Part(g, v, w.table.blocks[k]) = Part(f, w, w.table.blocks[k])
       /\ Stored(g, v, w.table.blocks[k])
  /\ Stored(g, v, info)

\* An entry more adds its records to its context, and to no other one.
LEMMA RecsAppended ==
  ASSUME NEW f, NEW w, NEW g, NEW v, NEW info, Listed(f, w, g, v, info), NEW ctx
  PROVE  /\ AllStored(g, v)
         /\ info.ctx = ctx => Recs(g, v, ctx) = Recs(f, w, ctx) \o Part(g, v, info)
         /\ info.ctx # ctx => Recs(g, v, ctx) = Recs(f, w, ctx)
<1> DEFINE s == w.table.blocks
           t == v.table.blocks
           n == Len(s)
           T == [off : Nat, len : Nat, toff : Nat, ctx : Ctxs]
           x == IF info.ctx = ctx THEN Part(g, v, info) ELSE <<>>
           p == Parts(f, w, ctx)
           q == Parts(g, v, ctx)
<1>0. /\ WriterOK(w) /\ AllStored(f, w) /\ WriterOK(v) /\ Extends(w, v, info) /\ Stored(g, v, info)
      /\ \A k \in 1..Len(w.table.blocks) :
           /\ Part(g, v, w.table.blocks[k]) = Part(f, w, w.table.blocks[k])
           /\ Stored(g, v, w.table.blocks[k])
  BY DEF Listed
<1>11. w.table \in Contents /\ v.table \in Contents
  BY <1>0 DEF WriterOK
<1>1. s \in Seq(T) /\ t \in Seq(T)
  BY <1>11 DEF Contents
<1>2. n \in Nat /\ Len(t) = n + 1 /\ t[n + 1] = info /\ \A k \in 1..n : t[k] = s[k]
  <2>1. n \in Nat /\ s \in Seq(T \cup {info}) /\ info \in T \cup {info}
    <3>1. T \subseteq T \cup {info}
      OBVIOUS
    <3> HIDE DEF T
    <3> QED  BY <1>1, <3>1, LenProperties, SeqMonotonic
  <2> HIDE DEF T
  <2> QED  BY <1>0, <2>1, AppendProperties DEF Extends
<1>3. AllStored(g, v)
  <2>1. ASSUME NEW k \in 1..Len(t) PROVE Stored(g, v, t[k])
    <3>1. CASE k = n + 1
      BY <1>0, <1>2, <3>1
    <3>2. CASE k # n + 1
      <4>1. k \in 1..n
        BY <1>2, <3>2
      <4> QED  BY <1>0, <1>2, <4>1
    <3> QED  BY <3>1, <3>2
  <2> QED  BY <2>1 DEF AllStored
<1>4. p \in Seq(Seq(Outcomes)) /\ Len(p) = n /\ q \in Seq(Seq(Outcomes)) /\ Len(q) = n + 1
  BY <1>0, <1>2, <1>3, <1>11, PartsTyped
<1>5. x \in Seq(Outcomes)
  BY <1>0, EmptySeq DEF Stored
<1>6. Append(p, x) \in Seq(Seq(Outcomes)) /\ Len(Append(p, x)) = n + 1 /\ Append(p, x)[n + 1] = x
      /\ \A k \in 1..n : Append(p, x)[k] = p[k]
  <2> HIDE DEF p, x
  <2> QED  BY <1>4, <1>5, AppendProperties
<1>7. ASSUME NEW k \in 1..(n + 1) PROVE q[k] = Append(p, x)[k]
  <2>1. q[k] = IF t[k].ctx = ctx THEN Part(g, v, t[k]) ELSE <<>>
    BY <1>2 DEF Parts
  <2>2. CASE k = n + 1
    <3> HIDE DEF p, q
    <3> QED  BY <1>2, <1>6, <2>1, <2>2
  <2>3. CASE k # n + 1
    <3>1. k \in 1..n
      BY <1>2, <2>3
    <3>2. p[k] = IF s[k].ctx = ctx THEN Part(f, w, s[k]) ELSE <<>>
      BY <3>1 DEF Parts
    <3> HIDE DEF p, q, x
    <3> QED  BY <1>0, <1>2, <1>6, <2>1, <3>1, <3>2
  <2> QED  BY <2>2, <2>3
<1>8. q = Append(p, x)
  <2> HIDE DEF p, q, x
  <2> QED  BY <1>4, <1>6, <1>7, SeqEqual
<1>9. FlattenSeq(Append(p, x)) = FlattenSeq(p) \o x /\ FlattenSeq(p) \in Seq(Outcomes)
  <2> HIDE DEF p, x
  <2> QED  BY <1>4, <1>5, FlattenAppend
<1>10. Recs(g, v, ctx) = Recs(f, w, ctx) \o x /\ Recs(f, w, ctx) \in Seq(Outcomes)
  <2> HIDE DEF x
  <2> QED  BY <1>8, <1>9, RecsIs
<1>12. info.ctx # ctx => Recs(f, w, ctx) \o x = Recs(f, w, ctx)
  BY <1>10, ConcatEmptySeq
<1> QED  BY <1>3, <1>10, <1>12

-----------------------------------------------------------------------------
(* What a step keeps. *)

\* A complete block was written.
Wrote(f, off, blk, g) ==
  FileOK(f) /\ FileOK(g) /\ blk.len \in Nat \ {0} /\ g = Written(f, off, blk, blk.len)

\* What was written is in the file as one extent.
LEMMA WrittenExtent ==
  ASSUME NEW f, NEW off, NEW blk, NEW g, Wrote(f, off, blk, g)
  PROVE  /\ FileOK(g) /\ blk.len \in Nat \ {0}
         /\ \E e \in g.ext : e.off = off /\ e.lo = 0 /\ e.hi = blk.len /\ e.blk = blk
<1> DEFINE e == [off |-> off, lo |-> 0, hi |-> blk.len, blk |-> blk]
           x == (UNION {Outside(d, off, off + blk.len) : d \in f.ext}) \cup {e}
<1>0. FileOK(f) /\ FileOK(g) /\ blk.len \in Nat \ {0} /\ g = Written(f, off, blk, blk.len)
  BY DEF Wrote
<1>1. f = [hdr |-> f.hdr, ext |-> f.ext]
  BY <1>0 DEF FileOK
<1>2. g = [f EXCEPT !.ext = x]
  BY <1>0 DEF Written
<1>3. g.ext = x
  <2> HIDE DEF x
  <2> QED  BY <1>1, <1>2
<1>4. e \in g.ext
  <2> HIDE DEF e
  <2> QED  BY <1>3
<1>5. e.off = off /\ e.lo = 0 /\ e.hi = blk.len /\ e.blk = blk
  OBVIOUS
<1> HIDE DEF e, x
<1> QED  BY <1>0, <1>4, <1>5

\* It is found at its place.
LEMMA WrittenThere ==
  ASSUME NEW f, NEW off, NEW blk, NEW g, Wrote(f, off, blk, g)
  PROVE  BlockAt(g, off) = blk /\ g.ext # {}
<1>1. PICK e \in g.ext : e.off = off /\ e.lo = 0 /\ e.hi = blk.len /\ e.blk = blk
  BY WrittenExtent
<1>2. FileOK(g) /\ blk.len \in Nat \ {0}
  BY WrittenExtent
<1> QED  BY <1>1, <1>2, BlockAtIs

\* It is a complete block there.
LEMMA WrittenBlock ==
  ASSUME NEW f, NEW off, NEW blk, NEW g, Wrote(f, off, blk, g),
         blk.type # "table", BlockHdr <= blk.len
  PROVE  BlockIn(g, off, blk.type)
<1>1. PICK e \in g.ext : e.off = off /\ e.lo = 0 /\ e.hi = blk.len /\ e.blk = blk
  BY WrittenExtent
<1> QED  BY <1>1 DEF BlockIn, Whole

\* Sessions stay in step while complete blocks are kept.
LEMMA SessionsKept ==
  ASSUME NEW f, FileOK(f), NEW g, FileOK(g), Kept(f, g), NEW w, SessionsInStep(f, w),
         NEW v, v.sessions = w.sessions, v.table.sessions = w.table.sessions
  PROVE  SessionsInStep(g, v)
<1>1. ASSUME NEW k \in DOMAIN w.sessions PROVE SessionIn(g, v, k)
  <2>1. SessionIn(f, w, k)
    BY <1>1 DEF SessionsInStep
  <2> QED  BY <2>1, BlockKept DEF SessionIn
<1> QED  BY <1>1 DEF SessionsInStep

\* So does a context.
LEMMA CtxKept ==
  ASSUME NEW f, FileOK(f), NEW g, FileOK(g), Kept(f, g), NEW i, CtxInStep(f, i)
  PROVE  CtxInStep(g, i)
BY BlockKept DEF CtxInStep

\* An entry has a context and a place.
LEMMA EntryTyped ==
  ASSUME NEW w, WriterOK(w), NEW k \in 1..Len(w.table.blocks)
  PROVE  w.table.blocks[k].ctx \in Ctxs /\ w.table.blocks[k].off \in Nat
<1> DEFINE T == [off : Nat, len : Nat, toff : Nat, ctx : Ctxs]
<1>1. w.table.blocks \in Seq(T)
  BY DEF WriterOK, Contents
<1>2. w.table.blocks[k] \in T
  <2> HIDE DEF T
  <2> QED  BY <1>1, ElementOfSeq
<1> QED  BY <1>2

\* Nothing moves between the blocks and the running writes.
LEMMA SameBlocks ==
  ASSUME NEW f, NEW w, NEW g, NEW v, Follows(f, w, g, v), AllStored(f, w),
         v.table.blocks = w.table.blocks, \A c \in Ctxs : SameFlight(w, v, c)
  PROVE  AllStored(g, v) /\ \A c : Recs(g, v, c) = Recs(f, w, c)
<1>1. FileOK(f) /\ FileOK(g) /\ Kept(f, g) /\ WriterOK(w)
  BY DEF Follows, Good
<1>2. ASSUME NEW k \in 1..Len(w.table.blocks)
      PROVE  /\ Stored(g, v, w.table.blocks[k])
             /\ Part(g, v, w.table.blocks[k]) = Part(f, w, w.table.blocks[k])
  <2>1. w.table.blocks[k].ctx \in Ctxs
    BY <1>1, <1>2, EntryTyped
  <2>2. Stored(f, w, w.table.blocks[k])
    BY <1>2 DEF AllStored
  <2> QED  BY <2>1, <2>2, PartKept
<1>3. AllStored(g, v)
  BY <1>2 DEF AllStored
<1>4. \A c : Recs(g, v, c) = Recs(f, w, c)
  BY <1>2, RecsKept
<1> QED  BY <1>3, <1>4

\* A step that leaves table, sessions and writes alone changes no records stored.
LEMMA SameTable ==
  ASSUME NEW f, NEW w, NEW g, NEW v, Follows(f, w, g, v), InStep(f, w),
         v.table = w.table, v.sessions = w.sessions,
         \A c \in Ctxs : SameFlight(w, v, c),
         \A c \in DOMAIN v.ctxs : CtxInStep(g, v.ctxs[c])
  PROVE  InStep(g, v) /\ \A c : Recs(g, v, c) = Recs(f, w, c)
<1>1. FileOK(f) /\ FileOK(g) /\ Kept(f, g)
  BY DEF Follows, Good
<1>2. SessionsInStep(f, w) /\ AllStored(f, w)
  BY DEF InStep, AllStored
<1>3. SessionsInStep(g, v)
  BY <1>1, <1>2, SessionsKept
<1>4. AllStored(g, v) /\ \A c : Recs(g, v, c) = Recs(f, w, c)
  BY <1>2, SameBlocks
<1> QED  BY <1>3, <1>4 DEF InStep, AllStored

\* Records are held in the table's blocks and then in the buffer.
LEMMA HeldIs ==
  ASSUME NEW f, NEW w, NEW c
  PROVE  /\ Held(f, w, c) = Recs(f, w, c) \o Buffered(w, c)
         /\ Buffered(w, c) = IF c \in DOMAIN w.ctxs THEN Decoded(Main(w.ctxs[c]).msgs, w.ctxs[c].tmplts)
                             ELSE <<>>
BY DEF Held, Recs, Buffered

\* If neither changes, the same records are held.
LEMMA HeldSame ==
  ASSUME NEW f, NEW w, NEW g, NEW v, NEW c,
         Recs(g, v, c) = Recs(f, w, c), Buffered(v, c) = Buffered(w, c)
  PROVE  Held(g, v, c) = Held(f, w, c)
BY DEF Held, Recs

\* The records of a context before and after a part of a call.
Carries(a, r) ==
  /\ AOK(r) /\ Kept(a.file, r.file) /\ InStep(r.file, r.w)
  /\ r.w.sessions = a.w.sessions /\ r.w.recs = a.w.recs
  /\ \A c \in Ctxs : Held(r.file, r.w, c) = Held(a.file, a.w, c)

\* The context a flush is about, before and after.
Emptied(a, r, ctx) ==
  SameTemplates(a.w.ctxs[ctx], r.w.ctxs[ctx]) /\ Main(r.w.ctxs[ctx]).msgs = <<>>

\* All contexts but one are the same.
OthersSame(w, v, ctx) ==
  /\ DOMAIN v.ctxs = DOMAIN w.ctxs
  /\ \A d \in DOMAIN w.ctxs : d # ctx => v.ctxs[d] = w.ctxs[d]

\* A context that is left alone has the same write and buffer.
LEMMA OtherFlights ==
  ASSUME NEW w, NEW v, NEW ctx, OthersSame(w, v, ctx), NEW c, c # ctx
  PROVE  SameFlight(w, v, c) /\ Buffered(v, c) = Buffered(w, c)
<1>1. c \in Pending(v) <=> c \in Pending(w)
  BY DEF OthersSame, Pending
<1>2. c \in DOMAIN w.ctxs => v.ctxs[c] = w.ctxs[c]
  BY DEF OthersSame
<1>3. c \in Pending(w) => c \in DOMAIN w.ctxs
  BY DEF Pending
<1> QED  BY <1>1, <1>2, <1>3 DEF SameFlight, Buffered, OthersSame

\* A flush of one context leaves the other ones alone.
LEMMA AfterOthers ==
  ASSUME NEW a, NEW r, NEW ctx, After(a, r, ctx)
  PROVE  OthersSame(a.w, r.w, ctx)
BY DEF After, OthersSame

\* Writing the Template Block of a context keeps the records of all contexts.
LEMMA TemplatesCarry ==
  ASSUME NEW a, AOK(a), a.ok, InStep(a.file, a.w), NEW ctx \in DOMAIN a.w.ctxs,
         NEW fault, fault.n \in Nat, FlushTemplates(a, ctx, fault).ok
  PROVE  LET r == FlushTemplates(a, ctx, fault)
         IN  /\ Carries(a, r) /\ r.w.ctxs[ctx].toff # 0
             /\ SameTemplates(a.w.ctxs[ctx], r.w.ctxs[ctx])
<1> DEFINE r == FlushTemplates(a, ctx, fault)
           i == a.w.ctxs[ctx]
           j == r.w.ctxs[ctx]
           blk == TemplateBlock(ctx, i.tmplts)
<1>1. /\ After(a, r, ctx) /\ j.buf = i.buf /\ j.main = i.main /\ j.req = i.req
      /\ SameTemplates(i, j) /\ r.w.table = a.w.table /\ WroteTemplates(a, ctx, r)
  BY FlushTemplatesKeeps
<1> HIDE DEF r
<1>2. CASE i.toff # 0
  <2>1. r = a
    BY <1>1, <1>2 DEF WroteTemplates
  <2>2. Carries(a, r)
    BY <2>1 DEF Carries, Kept
  <2> QED  BY <1>1, <1>2, <2>1, <2>2 DEF r
<1>3. CASE i.toff = 0
  <2>1. j.toff = a.w.off /\ r.file = Written(a.file, a.w.off, blk, blk.len)
    BY <1>1, <1>3 DEF WroteTemplates
  <2>2. FileOK(a.file) /\ WriterOK(a.w) /\ Placed(a.file, a.w) /\ FileOK(r.file) /\ Kept(a.file, r.file)
        /\ WriterOK(r.w) /\ Placed(r.file, r.w) /\ AOK(r)
    BY <1>1 DEF AOK, After
  <2>3. blk.len \in Nat \ {0} /\ BlockHdr <= blk.len /\ blk.type = "tmplts" /\ blk.defs = i.tmplts
    <3>1. blk.len \in Nat \ {0}
      BY TemplateBlockOK DEF BlockOK
    <3>2. Cardinality({tid \in TIDs : i.tmplts[tid] # NoDef}) \in Nat
      <4>1. IsFiniteSet({tid \in TIDs : i.tmplts[tid] # NoDef})
        BY LengthsAssumption, FS_Subset
      <4> QED  BY <4>1, FS_CardinalityType
    <3>3. BlockHdr \in Nat /\ TmpltHdr \in Nat /\ BlockHdr < TmpltHdr
      BY LengthsAssumption
    <3> QED  BY <3>1, <3>2, <3>3 DEF TemplateBlock
  <2>4. BlockIn(r.file, a.w.off, "tmplts") /\ BlockAt(r.file, a.w.off) = blk
    <3> HIDE DEF blk
    <3>1. Wrote(a.file, a.w.off, blk, r.file)
      BY <2>1, <2>2, <2>3 DEF Wrote
    <3>2. BlockAt(r.file, a.w.off) = blk
      BY <3>1, WrittenThere
    <3>3. BlockIn(r.file, a.w.off, blk.type)
      <4>1. blk.type # "table"
        BY <2>3
      <4> QED  BY <2>3, <3>1, <4>1, WrittenBlock
    <3> QED  BY <2>3, <3>2, <3>3
  <2>5. j.toff # 0
    <3>1. HeaderLen \in Nat \ {0} /\ HeaderLen <= a.w.off
      BY <2>2, Lengths DEF WriterOK
    <3> QED  BY <2>1, <3>1
  <2>6. ASSUME NEW c \in DOMAIN r.w.ctxs PROVE CtxInStep(r.file, r.w.ctxs[c])
    <3>1. CtxInStep(a.file, a.w.ctxs[c])
      BY <1>1, <2>6 DEF InStep, After
    <3>2. CASE c = ctx
      <4>1. Main(j) = Main(i)
        BY <1>1 DEF Main
      <4> HIDE DEF i, j, blk
      <4> QED  BY <1>1, <2>1, <2>3, <2>4, <3>1, <3>2, <4>1 DEF CtxInStep, SameTemplates, Count, i, j
    <3>3. CASE c # ctx
      BY <1>1, <2>2, <2>6, <3>1, <3>3, CtxKept DEF After
    <3> QED  BY <3>2, <3>3
  <2>7. ASSUME NEW c PROVE SameFlight(a.w, r.w, c) /\ Buffered(r.w, c) = Buffered(a.w, c)
    <3>1. CASE c = ctx
      <4>1. Main(j) = Main(i)
        BY <1>1 DEF Main
      <4>2. ctx \in DOMAIN r.w.ctxs
        BY <1>1 DEF After
      <4> HIDE DEF blk
      <4>3. SameFlight(a.w, r.w, ctx)
        BY <1>1, <4>2 DEF SameFlight, Pending, From, FlightMsgs
      <4>4. Buffered(r.w, ctx) = Buffered(a.w, ctx)
        BY <1>1, <4>1, <4>2 DEF Buffered, SameTemplates
      <4> QED  BY <3>1, <4>3, <4>4
    <3>2. CASE c # ctx
      BY <1>1, <3>2, OtherFlights, AfterOthers
    <3> QED  BY <3>1, <3>2
  <2>8. Follows(a.file, a.w, r.file, r.w)
    BY <1>1, <2>2 DEF Follows, Good, After
  <2>9. r.w.sessions = a.w.sessions /\ r.w.recs = a.w.recs
    BY <1>1 DEF After
  <2> HIDE DEF i, j, blk
  <2>10. InStep(r.file, r.w) /\ \A c : Recs(r.file, r.w, c) = Recs(a.file, a.w, c)
    BY <1>1, <2>6, <2>7, <2>8, <2>9, SameTable
  <2>11. Carries(a, r)
    <3>1. ASSUME NEW c PROVE Held(r.file, r.w, c) = Held(a.file, a.w, c)
      BY <2>7, <2>10, HeldSame
    <3> QED  BY <2>2, <2>9, <2>10, <3>1 DEF Carries
  <2> QED  BY <1>1, <2>5, <2>11 DEF r, i, j
<1> QED  BY <1>2, <1>3

-----------------------------------------------------------------------------
(* Flushing of buffers. *)

\* Where the block of a buffer is, once it was flushed.
LEMMA BlockFlushed ==
  ASSUME NEW a, AOK(a), a.ok, InStep(a.file, a.w), NEW ctx \in DOMAIN a.w.ctxs,
         a.w.ctxs[ctx].toff # 0, NEW r, After(a, r, ctx), WroteData(a, ctx, r)
  PROVE  /\ Part(r.file, r.w, Entry(a, ctx)) = Buffered(a.w, ctx)
         /\ Stored(r.file, r.w, Entry(a, ctx))
<1> DEFINE i == a.w.ctxs[ctx]
           j == r.w.ctxs[ctx]
           info == Entry(a, ctx)
           b == Main(i)
           blk == DataBlock(ctx, i.toff, b.msgs, b.len)
<1>1. /\ FileOK(a.file) /\ WriterOK(a.w) /\ Placed(a.file, a.w)
      /\ FileOK(r.file) /\ WriterOK(r.w) /\ Placed(r.file, r.w) /\ Kept(a.file, r.file)
  BY DEF AOK, After
<1>2. info.off = a.w.off /\ info.ctx = ctx /\ info.toff = i.toff
  BY DEF Entry, DataInfo
<1>3. /\ ContextOK(i, a.w.off) /\ ctx[1] \in DOMAIN a.w.sessions /\ BufferOK(b) /\ DefsOK(i.tmplts)
      /\ ctx \in DOMAIN r.w.ctxs
  BY <1>1, ContextFields DEF WriterOK, ContextOK, DefsOK, After
<1>4. /\ BlockIn(a.file, i.toff, "tmplts") /\ BlockAt(a.file, i.toff).defs = i.tmplts
  BY DEF InStep, CtxInStep
<1>5. BlockIn(r.file, i.toff, "tmplts") /\ BlockAt(r.file, i.toff).defs = i.tmplts
  <2>1. BlockIn(r.file, i.toff, "tmplts") /\ BlockAt(r.file, i.toff) = BlockAt(a.file, i.toff)
    BY <1>1, <1>4, BlockKept
  <2> QED  BY <1>4, <2>1
<1> HIDE DEF info
<1>6. DefsFor(r.file, info) = i.tmplts
  BY <1>1, <1>2, <1>5, DefsInFile
<1>7. /\ MsgsFor(r.file, info, InFlight(r.w, info.ctx)) = b.msgs
      /\ BlockIn(r.file, info.off, "data")
           \/ (info.ctx \in Pending(r.w) /\ From(r.w.ctxs[info.ctx]) = info.off)
  <2>1. CASE r.file = Written(a.file, a.w.off, blk, blk.len)
    <3>1. blk.len \in Nat \ {0} /\ BlockHdr <= blk.len /\ blk.type = "data" /\ blk.msgs = b.msgs
      <4>1. b.len \in Nat /\ DataHdr <= b.len
        BY <1>3 DEF BufferOK
      <4>2. BlockHdr \in Nat /\ DataHdr \in Nat /\ BlockHdr < DataHdr /\ 0 < DataHdr
        BY LengthsAssumption
      <4>3. blk.len = b.len /\ blk.type = "data" /\ blk.msgs = b.msgs
        BY DEF DataBlock
      <4> HIDE DEF b, blk
      <4> QED  BY <4>1, <4>2, <4>3
    <3> HIDE DEF blk
    <3>2. Wrote(a.file, a.w.off, blk, r.file)
      BY <1>1, <2>1, <3>1 DEF Wrote
    <3>3. BlockAt(r.file, info.off) = blk
      <4>1. BlockAt(r.file, a.w.off) = blk
        BY <3>2, WrittenThere
      <4> QED  BY <1>2, <4>1
    <3>4. BlockIn(r.file, info.off, "data")
      <4>1. blk.type # "table"
        BY <3>1
      <4>2. BlockIn(r.file, a.w.off, blk.type)
        BY <3>1, <3>2, <4>1, WrittenBlock
      <4> QED  BY <1>2, <3>1, <4>2
    <3> QED  BY <1>1, <3>1, <3>3, <3>4, MsgsInFile
  <2>2. CASE j.req.st = "started" /\ From(j) = a.w.off /\ j.buf[j.req.buf].msgs = b.msgs
    <3>1. ctx \in Pending(r.w) /\ From(r.w.ctxs[ctx]) = a.w.off /\ FlightMsgs(r.w.ctxs[ctx]) = b.msgs
      BY <1>3, <2>2 DEF Pending, FlightMsgs
    <3> QED  BY <1>2, <3>1, MsgsInFlight
  <2>3. \/ r.file = Written(a.file, a.w.off, blk, blk.len)
        \/ j.req.st = "started" /\ From(j) = a.w.off /\ j.buf[j.req.buf].msgs = b.msgs
    BY DEF WroteData
  <2> QED  BY <2>1, <2>2, <2>3
<1>8. Part(r.file, r.w, info) = Decoded(b.msgs, i.tmplts)
  BY <1>6, <1>7 DEF Part
<1>9. Decoded(b.msgs, i.tmplts) \in Seq(Outcomes)
  BY <1>3, DecodedTyped DEF BufferOK
<1>10. Buffered(a.w, ctx) = Decoded(b.msgs, i.tmplts)
  BY DEF Buffered
<1>11. info.ctx[1] \in DOMAIN r.w.sessions
  BY <1>2, <1>3 DEF After
<1>12. BlockIn(r.file, info.toff, "tmplts")
  BY <1>2, <1>5
<1> HIDE DEF i, j, b, blk
<1> QED  BY <1>7, <1>8, <1>9, <1>10, <1>11, <1>12 DEF Stored, info

\* Writing the buffer of a context moves its records into the table, behind those there.
LEMMA DataCarries ==
  ASSUME NEW a, AOK(a), a.ok, InStep(a.file, a.w), NEW ctx \in DOMAIN a.w.ctxs,
         a.w.ctxs[ctx].toff # 0, a.w.ctxs[ctx].req.st # "started",
         NEW r, After(a, r, ctx), WroteData(a, ctx, r), Main(r.w.ctxs[ctx]) = EmptyBuffer
  PROVE  Carries(a, r) /\ Emptied(a, r, ctx)
<1> DEFINE i == a.w.ctxs[ctx]
           j == r.w.ctxs[ctx]
           info == Entry(a, ctx)
<1>1. /\ FileOK(a.file) /\ WriterOK(a.w) /\ Placed(a.file, a.w) /\ AOK(r)
      /\ FileOK(r.file) /\ WriterOK(r.w) /\ Placed(r.file, r.w) /\ Kept(a.file, r.file)
  BY DEF AOK, After
<1>2. Part(r.file, r.w, info) = Buffered(a.w, ctx) /\ Stored(r.file, r.w, info)
  BY BlockFlushed
<1>3. /\ Extends(a.w, r.w, info) /\ r.w.table.sessions = a.w.table.sessions
  <2>1. a.w.table = [sessions |-> a.w.table.sessions, blocks |-> a.w.table.blocks]
    BY <1>1 DEF WriterOK, Contents
  <2>2. r.w.table = [a.w.table EXCEPT !.blocks = Append(a.w.table.blocks, info)]
    BY DEF WroteData
  <2> HIDE DEF info
  <2> QED  BY <2>1, <2>2 DEF Extends
<1>4. r.w.sessions = a.w.sessions /\ r.w.recs = a.w.recs /\ DOMAIN r.w.ctxs = DOMAIN a.w.ctxs
      /\ OthersSame(a.w, r.w, ctx)
  BY DEF After, OthersSame
<1>5. Follows(a.file, a.w, r.file, r.w)
  BY <1>1, <1>4 DEF Follows, Good
<1>6. ASSUME NEW c PROVE SameFlight(a.w, r.w, c)
  <2>1. CASE c = ctx
    BY <2>1 DEF SameFlight, Pending
  <2>2. CASE c # ctx
    BY <1>4, <2>2, OtherFlights
  <2> QED  BY <2>1, <2>2
<1>7. ASSUME NEW k \in 1..Len(a.w.table.blocks)
      PROVE  /\ Part(r.file, r.w, a.w.table.blocks[k]) = Part(a.file, a.w, a.w.table.blocks[k])
             /\ Stored(r.file, r.w, a.w.table.blocks[k])
  <2>1. Stored(a.file, a.w, a.w.table.blocks[k])
    BY <1>7 DEF InStep
  <2> QED  BY <1>5, <1>6, <2>1, PartKept
<1>8. info.ctx = ctx
  BY DEF Entry, DataInfo
<1>9. SessionsInStep(a.file, a.w) /\ AllStored(a.file, a.w)
  BY DEF InStep, AllStored
<1>10. SameTemplates(i, j) /\ j.toff = i.toff
  BY DEF WroteData
<1>11. Main(j).msgs = <<>> /\ Count(j) = 0
  BY EmptyBufferOK, EmptySeq DEF Count
<1>12. DefsOK(j.tmplts)
  BY <1>1, <1>4 DEF WriterOK, ContextOK, DefsOK
<1> HIDE DEF info
<1>13. Listed(a.file, a.w, r.file, r.w, info)
  BY <1>1, <1>2, <1>3, <1>7, <1>9 DEF Listed, Extends
<1>19. AllStored(r.file, r.w)
  BY <1>13, RecsAppended
<1>14. ASSUME NEW c
       PROVE  /\ ctx = c => Recs(r.file, r.w, c) = Recs(a.file, a.w, c) \o Buffered(a.w, ctx)
              /\ ctx # c => Recs(r.file, r.w, c) = Recs(a.file, a.w, c)
  <2>1. /\ info.ctx = c => Recs(r.file, r.w, c) = Recs(a.file, a.w, c) \o Part(r.file, r.w, info)
        /\ info.ctx # c => Recs(r.file, r.w, c) = Recs(a.file, a.w, c)
    BY <1>13, RecsAppended
  <2> QED  BY <1>2, <1>8, <2>1
<1>15. SessionsInStep(r.file, r.w)
  BY <1>1, <1>3, <1>4, <1>9, SessionsKept
<1>16. ASSUME NEW c \in DOMAIN r.w.ctxs PROVE CtxInStep(r.file, r.w.ctxs[c])
  <2>1. CtxInStep(a.file, a.w.ctxs[c])
    BY <1>4, <1>16 DEF InStep
  <2>2. CtxInStep(r.file, a.w.ctxs[c])
    BY <1>1, <2>1, CtxKept
  <2>3. CASE c = ctx
    <3>1. CtxInStep(r.file, i)
      BY <2>2, <2>3
    <3> HIDE DEF i, j
    <3>2. CtxInStep(r.file, j)
      BY <1>10, <1>11, <3>1 DEF CtxInStep, SameTemplates
    <3> QED  BY <2>3, <3>2 DEF j
  <2>4. CASE c # ctx
    BY <1>4, <1>16, <2>2, <2>4 DEF OthersSame
  <2> QED  BY <2>3, <2>4
<1>17. ASSUME NEW c PROVE Held(r.file, r.w, c) = Held(a.file, a.w, c)
  <2>1. CASE c = ctx
    <3>1. Buffered(r.w, ctx) = <<>>
      BY <1>4, <1>11, <1>12, DecodedNone DEF Buffered
    <3>2. Recs(a.file, a.w, ctx) \in Seq(Outcomes) /\ Buffered(a.w, ctx) \in Seq(Outcomes)
      <4>1. a.w.table \in Contents
        BY <1>1 DEF WriterOK
      <4> QED  BY <1>1, <1>2, <1>9, <4>1, PartsTyped DEF Stored
    <3>3. Recs(a.file, a.w, ctx) \o Buffered(a.w, ctx) \in Seq(Outcomes)
      BY <3>2, ConcatProperties
    <3>4. (Recs(a.file, a.w, ctx) \o Buffered(a.w, ctx)) \o <<>> = Recs(a.file, a.w, ctx) \o Buffered(a.w, ctx)
      BY <3>3, ConcatEmptySeq
    <3>5. Recs(r.file, r.w, ctx) = Recs(a.file, a.w, ctx) \o Buffered(a.w, ctx)
      BY <1>14
    <3>6. Held(r.file, r.w, ctx) = Recs(r.file, r.w, ctx) \o Buffered(r.w, ctx)
      BY HeldIs
    <3>7. Held(a.file, a.w, ctx) = Recs(a.file, a.w, ctx) \o Buffered(a.w, ctx)
      BY HeldIs
    <3> QED  BY <2>1, <3>1, <3>4, <3>5, <3>6, <3>7
  <2>2. CASE c # ctx
    <3>1. Buffered(r.w, c) = Buffered(a.w, c)
      BY <1>4, <2>2, OtherFlights
    <3>2. Recs(r.file, r.w, c) = Recs(a.file, a.w, c)
      BY <1>14, <2>2
    <3> QED  BY <3>1, <3>2, HeldSame
  <2> QED  BY <2>1, <2>2
<1>18. InStep(r.file, r.w)
  BY <1>19, <1>15, <1>16 DEF InStep, AllStored
<1> QED  BY <1>1, <1>4, <1>10, <1>11, <1>17, <1>18 DEF Carries, Emptied

\* Records are kept when nothing is done.
LEMMA CarriesItself ==
  ASSUME NEW a, AOK(a), InStep(a.file, a.w)
  PROVE  Carries(a, a)
BY DEF Carries, Kept

\* Records are kept by two operations in a row.
LEMMA CarriesOn ==
  ASSUME NEW a, NEW b, NEW r, Carries(a, b), Carries(b, r)
  PROVE  Carries(a, r)
<1>1. Kept(a.file, r.file)
  BY KeptTransitive DEF Carries
<1>2. \A c \in Ctxs : Held(r.file, r.w, c) = Held(a.file, a.w, c)
  BY DEF Carries
<1> QED  BY <1>1, <1>2 DEF Carries

\* A flush that succeeds moves the records of the buffer into the table.
LEMMA FlushCarries ==
  ASSUME NEW a, AOK(a), InStep(a.file, a.w), NEW ctx \in DOMAIN a.w.ctxs,
         NEW fault, fault.n \in Nat, ~Waits(a.w.ctxs[ctx]), Flush(a, ctx, fault).ok
  PROVE  LET r == Flush(a, ctx, fault)
         IN  a.ok /\ After(a, r, ctx) /\ Carries(a, r) /\ Emptied(a, r, ctx)
<1> DEFINE r == Flush(a, ctx, fault)
           i == a.w.ctxs[ctx]
<1>0. After(a, r, ctx) /\ a.ok
  <2>1. After(a, r, ctx)
    BY FlushKeeps
  <2> HIDE DEF r
  <2>2. r.ok
    BY DEF r
  <2> QED  BY <2>1, <2>2 DEF After
<1>1. BufferOK(Main(i))
  BY ContextFields DEF AOK, WriterOK
<1>2. CASE Count(i) = 0
  <2>1. r = a
    BY <1>2 DEF Flush
  <2>2. Main(i).msgs = <<>>
    BY <1>1, <1>2, EmptySeq DEF Count, BufferOK
  <2>3. Emptied(a, a, ctx)
    BY <2>2 DEF Emptied, SameTemplates
  <2> QED  BY <1>0, <2>1, <2>3, CarriesItself
<1>3. CASE Count(i) # 0
  <2> DEFINE b == FlushTemplates(a, ctx, fault)
  <2>1. r = IF b.ok THEN FlushData(b, ctx, fault) ELSE b
    BY <1>0, <1>3 DEF Flush, FlushBoth
  <2>2. b.ok
    BY <2>1
  <2>3. /\ Carries(a, b) /\ b.w.ctxs[ctx].toff # 0 /\ SameTemplates(i, b.w.ctxs[ctx])
    BY <1>0, <2>2, TemplatesCarry
  <2>4. /\ After(a, b, ctx) /\ b.w.ctxs[ctx].req = i.req
    BY <1>0, FlushTemplatesKeeps
  <2>5. i.req.st # "started"
    BY <1>3 DEF Waits
  <2> HIDE DEF b, r
  <2>6. AOK(b) /\ ctx \in DOMAIN b.w.ctxs /\ b.w.ctxs[ctx].req.st # "started" /\ InStep(b.file, b.w)
    BY <2>3, <2>4, <2>5 DEF After, Carries
  <2>7. r = FlushData(b, ctx, fault) /\ r.ok
    BY <2>1, <2>2 DEF r
  <2>8. After(b, r, ctx) /\ Main(r.w.ctxs[ctx]) = EmptyBuffer /\ WroteData(b, ctx, r)
    BY <2>2, <2>6, <2>7, FlushDataKeeps
  <2>9. Carries(b, r) /\ Emptied(b, r, ctx)
    BY <2>2, <2>3, <2>6, <2>8, DataCarries
  <2>10. Carries(a, r)
    BY <2>3, <2>9, CarriesOn
  <2>11. Emptied(a, r, ctx)
    BY <2>3, <2>9 DEF Emptied, SameTemplates
  <2> QED  BY <1>0, <2>10, <2>11 DEF r
<1> QED  BY <1>2, <1>3


-----------------------------------------------------------------------------
(* Counting records. *)

Pick(s) == CHOOSE x \in s : TRUE
SumStep(l, f, s) == IF s = {} THEN 0 ELSE Len(l[Pick(s)]) + f[s \ {Pick(s)}]
Small(S, n) == {s \in SUBSET S : Cardinality(s) <= n}
Sums(D, l, f) == f = [s \in D |-> SumStep(l, f, s)]

\* A part of a finite set, without the member picked, is smaller by one.
LEMMA PickOne ==
  ASSUME NEW S, IsFiniteSet(S), NEW s \in SUBSET S
  PROVE  /\ Cardinality(s) \in Nat
         /\ s # {} => /\ Pick(s) \in s /\ s \ {Pick(s)} \in SUBSET S
                      /\ Cardinality(s \ {Pick(s)}) = Cardinality(s) - 1
         /\ Cardinality(s) = 0 => s = {}
<1>1. IsFiniteSet(s)
  BY FS_Subset
<1>2. s # {} => Pick(s) \in s
  BY DEF Pick
<1> QED  BY <1>1, <1>2, FS_CardinalityType, FS_RemoveElement, FS_EmptySet

\* A sum over the parts of a finite set exists.
LEMMA SumExists ==
  ASSUME NEW S, IsFiniteSet(S), NEW l
  PROVE  \E f : Sums(SUBSET S, l, f)
<1> DEFINE Missing == {n \in Nat : \A f : ~Sums(Small(S, n), l, f)}
<1>1. Missing = {}
  <2> SUFFICES ASSUME Missing # {} PROVE FALSE
    OBVIOUS
  <2>1. PICK n \in Missing : \A y \in Missing : n <= y
    <3>1. Missing \in SUBSET Nat
      OBVIOUS
    <3> QED  BY <3>1, Minimum
  <2>2. CASE n = 0
    <3> DEFINE f == [s \in Small(S, 0) |-> 0]
    <3>1. ASSUME NEW s \in Small(S, 0) PROVE s = {}
      <4>1. s \in SUBSET S /\ Cardinality(s) <= 0
        BY DEF Small
      <4>2. Cardinality(s) \in Nat /\ (Cardinality(s) = 0 => s = {})
        BY <4>1, PickOne
      <4> QED  BY <4>1, <4>2
    <3>2. \A s \in Small(S, 0) : f[s] = SumStep(l, f, s)
      BY <3>1 DEF SumStep
    <3>3. f = [s \in Small(S, 0) |-> f[s]]
      OBVIOUS
    <3> HIDE DEF f
    <3>4. Sums(Small(S, 0), l, f)
      BY <3>2, <3>3 DEF Sums
    <3> QED  BY <2>1, <2>2, <3>4
  <2>3. CASE n # 0
    <3>1. n \in Nat /\ n - 1 \in Nat /\ n - 1 \notin Missing
      BY <2>1, <2>3
    <3>2. PICK g : Sums(Small(S, n - 1), l, g)
      BY <3>1
    <3> DEFINE f == [s \in Small(S, n) |-> SumStep(l, g, s)]
    <3>3. ASSUME NEW s \in Small(S, n) PROVE f[s] = SumStep(l, f, s)
      <4>1. f[s] = SumStep(l, g, s)
        OBVIOUS
      <4>2. CASE s = {}
        BY <4>1, <4>2 DEF SumStep
      <4>3. CASE s # {}
        <5> DEFINE t == s \ {Pick(s)}
        <5>1. t \in Small(S, n - 1) /\ t \in Small(S, n)
          <6>1. s \in SUBSET S /\ Cardinality(s) <= n
            BY DEF Small
          <6>2. t \in SUBSET S /\ Cardinality(t) = Cardinality(s) - 1 /\ Cardinality(s) \in Nat
            BY <4>3, <6>1, PickOne
          <6> HIDE DEF t
          <6>3. Cardinality(t) <= n - 1 /\ Cardinality(t) <= n
            BY <3>1, <6>1, <6>2
          <6> QED  BY <6>2, <6>3 DEF Small
        <5> HIDE DEF t
        <5>2. g[t] = SumStep(l, g, t)
          BY <3>2, <5>1 DEF Sums
        <5>3. f[t] = g[t]
          BY <5>1, <5>2
        <5> HIDE DEF f
        <5> QED  BY <4>1, <4>3, <5>3 DEF SumStep, t
      <4> QED  BY <4>2, <4>3
    <3>4. f = [s \in Small(S, n) |-> f[s]]
      OBVIOUS
    <3> HIDE DEF f
    <3>5. Sums(Small(S, n), l, f)
      BY <3>3, <3>4 DEF Sums
    <3> QED  BY <2>1, <3>5
  <2> QED  BY <2>2, <2>3
<1>2. Cardinality(S) \in Nat
  BY FS_CardinalityType
<1>3. Small(S, Cardinality(S)) = SUBSET S
  BY FS_Subset DEF Small
<1>4. \E f : Sums(Small(S, Cardinality(S)), l, f)
  BY <1>1, <1>2
<1> QED  BY <1>3, <1>4

\* There are finitely many sessions and ODIDs.
LEMMA KeysFinite == IsFiniteSet(Keys)
BY WriterAssumption, LengthsAssumption, FS_Product DEF Keys

\* The number of records logged is such a sum.
LEMMA TotalIs ==
  ASSUME NEW l
  PROVE  \E f : Sums(SUBSET Keys, l, f) /\ Total(l) = f[Keys]
<1> DEFINE iter[s \in SUBSET Keys] ==
             IF s = {} THEN 0
             ELSE LET x == CHOOSE y \in s : TRUE
                  IN  Len(l[x]) + iter[s \ {x}]
<1>1. Total(l) = iter[Keys]
  BY DEF Total, MapThenSumSet, MapThenFoldSet
<1>2. PICK f : Sums(SUBSET Keys, l, f)
  BY KeysFinite, SumExists
<1>3. f = [s \in SUBSET Keys |->
             IF s = {} THEN 0
             ELSE LET x == CHOOSE y \in s : TRUE
                  IN  Len(l[x]) + f[s \ {x}]]
  BY <1>2 DEF Sums, SumStep, Pick
<1>4. iter = [s \in SUBSET Keys |->
             IF s = {} THEN 0
             ELSE LET x == CHOOSE y \in s : TRUE
                  IN  Len(l[x]) + iter[s \ {x}]]
  BY <1>3
<1> HIDE DEF iter
<1>5. Sums(SUBSET Keys, l, iter)
  BY <1>4 DEF Sums, SumStep, Pick
<1> QED  BY <1>1, <1>5

\* Subsets are well founded: what every proper part has, a finite set has.
LEMMA SubsetClimb ==
  ASSUME NEW S, IsFiniteSet(S), NEW Fit,
         \A s \in SUBSET S : (s = {} \/ s \ {Pick(s)} \in Fit) => s \in Fit
  PROVE  S \in Fit
<1> DEFINE Bad == {s \in SUBSET S : s \notin Fit}
           Sizes == {Cardinality(s) : s \in Bad}
<1> SUFFICES ASSUME S \notin Fit PROVE FALSE
  OBVIOUS
<1>1. Sizes \in SUBSET Nat /\ Sizes # {}
  <2>1. \A s \in SUBSET S : Cardinality(s) \in Nat
    BY PickOne
  <2>2. S \in Bad
    OBVIOUS
  <2> QED  BY <2>1, <2>2
<1>2. PICK n \in Sizes : \A y \in Sizes : n <= y
  BY <1>1, Minimum
<1>3. PICK s \in Bad : Cardinality(s) = n
  OBVIOUS
<1>4. s # {}
  BY <1>3
<1> DEFINE t == s \ {Pick(s)}
<1>5. t \in SUBSET S /\ Cardinality(t) = Cardinality(s) - 1 /\ Cardinality(s) \in Nat
  BY <1>4, PickOne
<1>6. t \notin Bad
  <2> HIDE DEF t
  <2>1. ~(n <= Cardinality(t))
    BY <1>3, <1>5
  <2> QED  BY <1>2, <2>1
<1>7. t \in Fit
  BY <1>5, <1>6
<1> QED  BY <1>3, <1>7

\* Nothing was logged.
LEMMA TotalNone ==
  ASSUME NEW l, \A k \in Keys : l[k] = <<>>
  PROVE  Total(l) = 0
<1>1. PICK f : Sums(SUBSET Keys, l, f) /\ Total(l) = f[Keys]
  BY TotalIs
<1> DEFINE Good0 == {s \in SUBSET Keys : f[s] = 0}
<1>2. ASSUME NEW s \in SUBSET Keys, s = {} \/ s \ {Pick(s)} \in Good0 PROVE s \in Good0
  <2>1. f[s] = SumStep(l, f, s)
    BY <1>1 DEF Sums
  <2>2. CASE s = {}
    BY <2>1, <2>2 DEF SumStep
  <2>3. CASE s # {}
    <3>1. Pick(s) \in Keys
      BY <2>3, PickOne, KeysFinite
    <3>2. Len(l[Pick(s)]) = 0
      BY <3>1, EmptySeq
    <3>3. f[s \ {Pick(s)}] = 0
      BY <1>2, <2>3
    <3> QED  BY <2>1, <2>3, <3>2, <3>3 DEF SumStep
  <2> QED  BY <2>2, <2>3
<1>3. Keys \in Good0
  <2> HIDE DEF Good0
  <2> QED  BY <1>2, KeysFinite, SubsetClimb
<1> QED  BY <1>1, <1>3

\* One record more was logged.
LogGrew(l, m, key) ==
  /\ \A k \in Keys : Len(l[k]) \in Nat
  /\ \A k \in Keys : k # key => m[k] = l[k]
  /\ key \in Keys /\ Len(m[key]) = Len(l[key]) + 1

\* Then the number of records grows by one.
LEMMA TotalGrows ==
  ASSUME NEW l, NEW m, NEW key, LogGrew(l, m, key)
  PROVE  Total(m) = Total(l) + 1 /\ Total(l) \in Nat
<1>1. PICK f : Sums(SUBSET Keys, l, f) /\ Total(l) = f[Keys]
  BY TotalIs
<1>2. PICK g : Sums(SUBSET Keys, m, g) /\ Total(m) = g[Keys]
  BY TotalIs
<1> DEFINE More(s) == /\ f[s] \in Nat
                      /\ key \in s => g[s] = f[s] + 1
                      /\ key \notin s => g[s] = f[s]
           Good0 == {s \in SUBSET Keys : More(s)}
<1>3. ASSUME NEW s \in SUBSET Keys, s = {} \/ s \ {Pick(s)} \in Good0 PROVE s \in Good0
  <2>1. f[s] = SumStep(l, f, s) /\ g[s] = SumStep(m, g, s)
    BY <1>1, <1>2 DEF Sums
  <2>2. CASE s = {}
    BY <2>1, <2>2 DEF SumStep
  <2>3. CASE s # {}
    <3> DEFINE x == Pick(s)
               t == s \ {x}
    <3>1. x \in s /\ x \in Keys
      BY <2>3, PickOne, KeysFinite
    <3>2. More(t)
      BY <1>3, <2>3
    <3>3. f[s] = Len(l[x]) + f[t] /\ g[s] = Len(m[x]) + g[t]
      BY <2>1, <2>3 DEF SumStep
    <3>4. Len(l[x]) \in Nat /\ (key = x => Len(m[x]) = Len(l[x]) + 1)
          /\ (key # x => Len(m[x]) = Len(l[x]))
      BY <3>1 DEF LogGrew
    <3>5. key \in s <=> (key \in t \/ key = x)
      BY <3>1
    <3>6. ~(key \in t /\ key = x)
      OBVIOUS
    <3> DEFINE p == f[s]
               q == g[s]
               pt == f[t]
               qt == g[t]
               lx == Len(l[x])
               mx == Len(m[x])
    <3>7. p = lx + pt /\ q = mx + qt /\ lx \in Nat /\ pt \in Nat
          /\ (key = x => mx = lx + 1) /\ (key # x => mx = lx)
          /\ (key \in t => qt = pt + 1) /\ (key \notin t => qt = pt)
      BY <3>2, <3>3, <3>4
    <3> HIDE DEF p, q, pt, qt, lx, mx, x, t
    <3>8. p \in Nat /\ (key \in s => q = p + 1) /\ (key \notin s => q = p)
      BY <3>5, <3>6, <3>7
    <3> QED  BY <3>8 DEF p, q
  <2> QED  BY <2>2, <2>3
<1>4. Keys \in Good0
  <2> HIDE DEF Good0
  <2> QED  BY <1>3, KeysFinite, SubsetClimb
<1>5. key \in Keys
  BY DEF LogGrew
<1> QED  BY <1>1, <1>2, <1>4, <1>5

-----------------------------------------------------------------------------
(* Flushing all contexts. *)

\* Every context has its turn when all are flushed.
LEMMA CtxOrderCovers ==
  ASSUME NEW w, DOMAIN w.ctxs \in SUBSET Ctxs, NEW c \in DOMAIN w.ctxs
  PROVE  \E k \in 1..Len(CtxOrder(w)) : CtxOrder(w)[k] = c
<1> DEFINE D == DOMAIN w.ctxs
           N == Cardinality(D)
           order == [k \in 1..N |-> CHOOSE d \in D : Rank(D, d) = k]
           k == Rank(D, c)
<1>1. CtxOrder(w) = order
  BY DEF CtxOrder, Rank, Below, Le
<1>2. N \in Nat /\ IsFiniteSet(D) /\ \A j \in 1..N : \E d \in D : Rank(D, d) = j
  BY RanksHit, CtxsFinite, FS_Subset
<1>3. k \in 1..N
  <2>1. Below(D, c) \in SUBSET D /\ c \in Below(D, c)
    BY LeOrder DEF Below
  <2>2. IsFiniteSet(Below(D, c)) /\ Rank(D, c) <= N
    BY <1>2, <2>1, FS_Subset DEF Rank
  <2>3. Rank(D, c) \in Nat /\ Rank(D, c) # 0
    BY <2>1, <2>2, FS_CardinalityType, FS_EmptySet DEF Rank
  <2> QED  BY <1>2, <2>2, <2>3
<1>4. order[k] = c
  <2> DEFINE d == CHOOSE x \in D : Rank(D, x) = k
  <2>1. d \in D /\ Rank(D, d) = k
    BY <1>2, <1>3
  <2>2. d = c
    <3> HIDE DEF d
    <3> QED  BY <2>1, RanksDiffer
  <2> HIDE DEF k, N, D
  <2>3. order[k] = d
    BY <1>3
  <2> QED  BY <2>2, <2>3
<1>5. DOMAIN order = 1..Len(order)
  <2>1. \A j \in 1..N : order[j] \in D
    BY <1>2
  <2>2. order \in [1..N -> D]
    BY <2>1
  <2> HIDE DEF order
  <2>3. order \in Seq(D)
    BY <1>2, <2>2, SeqDef
  <2> QED  BY <2>3, LenProperties
<1>6. DOMAIN order = 1..N
  OBVIOUS
<1> HIDE DEF order, k, N
<1> QED  BY <1>1, <1>3, <1>4, <1>5, <1>6

\* ... up to the k-th one.
EmptiedUpTo(r, order, k) == \A j \in 1..k : Main(r.w.ctxs[order[j]]).msgs = <<>>
Carried(a, r) == AfterAll(a, r) /\ NoneWaits(r) /\ (r.ok => Carries(a, r))

\* Flushing one context keeps all records, empties it and leaves other contexts alone.
LEMMA CarriedOn ==
  ASSUME NEW a, NEW p, Carried(a, p), NEW c \in DOMAIN p.w.ctxs, NEW fault, fault.n \in Nat
  PROVE  LET r == Flush(p, c, fault)
         IN  /\ Carried(a, r) /\ DOMAIN r.w.ctxs = DOMAIN p.w.ctxs
             /\ r.ok => /\ p.ok /\ Main(r.w.ctxs[c]).msgs = <<>>
                        /\ \A d \in DOMAIN p.w.ctxs : d # c => r.w.ctxs[d] = p.w.ctxs[d]
<1> DEFINE r == Flush(p, c, fault)
<1>1. AOK(p) /\ ~Waits(p.w.ctxs[c])
  BY DEF Carried, AfterAll, NoneWaits
<1>2. After(p, r, c) /\ ~Waits(r.w.ctxs[c])
  BY <1>1, FlushKeeps
<1>3. r.ok /\ InStep(p.file, p.w) => Carries(p, r) /\ Emptied(p, r, c)
  BY <1>1, FlushCarries
<1> HIDE DEF r
<1>4. AfterAll(a, r)
  BY <1>2 DEF Carried, AfterAll, After, Kept
<1>5. NoneWaits(r)
  BY <1>2 DEF Carried, NoneWaits, After
<1>6. r.ok => p.ok
  BY <1>2 DEF After
<1>7. ASSUME r.ok PROVE Carries(a, r) /\ Main(r.w.ctxs[c]).msgs = <<>>
  <2>1. Carries(a, p)
    BY <1>6, <1>7 DEF Carried
  <2>2. InStep(p.file, p.w)
    BY <2>1 DEF Carries
  <2>3. Carries(p, r) /\ Emptied(p, r, c)
    BY <1>3, <1>7, <2>2
  <2> QED  BY <2>1, <2>3, CarriesOn DEF Emptied
<1> QED  BY <1>2, <1>4, <1>5, <1>6, <1>7 DEF Carried, After, r

\* Flushing all contexts keeps all records and leaves no buffer filled.
LEMMA FlushAllCarries ==
  ASSUME NEW a, AOK(a), InStep(a.file, a.w), NoneWaits(a), NEW fault, fault.n \in Nat,
         FlushAll(a, fault).ok
  PROVE  LET r == FlushAll(a, fault)
         IN  AfterAll(a, r) /\ Carries(a, r) /\ \A c \in DOMAIN r.w.ctxs : Main(r.w.ctxs[c]).msgs = <<>>
<1> DEFINE order == CtxOrder(a.w)
           n == Len(order)
<1>0. DOMAIN a.w.ctxs \in SUBSET Ctxs
  BY DEF AOK, WriterOK
<1>1. /\ n \in Nat
      /\ \A k \in 1..n : order[k] \in DOMAIN a.w.ctxs
  BY <1>0, CtxOrderHits
<1>2. PICK f : Chain(a, order, fault, f, n) /\ FlushAll(a, fault) = f[n]
  BY <1>1, FlushAllChain
<1>7. \A c \in DOMAIN a.w.ctxs : \E k \in 1..n : order[k] = c
  BY <1>0, CtxOrderCovers
<1> HIDE DEF order
<1> DEFINE Right(k) == Carried(a, f[k]) /\ (f[k].ok => EmptiedUpTo(f[k], order, k))
           Bad == {k \in 0..n : ~Right(k)}
<1>3. Bad = {}
  <2> SUFFICES ASSUME Bad # {} PROVE FALSE
    OBVIOUS
  <2>1. PICK k \in Bad : \A y \in Bad : k <= y
    <3>1. Bad \in SUBSET Nat
      BY <1>1
    <3> QED  BY <3>1, Minimum
  <2>2. k \in 0..n /\ ~Right(k) /\ f[k] = IF k = 0 THEN a ELSE Flush(f[k - 1], order[k], fault)
    BY <1>2, <2>1 DEF Chain
  <2>3. k # 0
    <3>1. ASSUME k = 0 PROVE FALSE
      <4>1. f[k] = a
        BY <2>2, <3>1
      <4>2. AfterAll(a, a) /\ Carries(a, a)
        BY CarriesItself DEF AfterAll, Kept
      <4>3. EmptiedUpTo(a, order, k)
        BY <3>1 DEF EmptiedUpTo
      <4> QED  BY <2>2, <4>1, <4>2, <4>3 DEF Carried
    <3> QED  BY <3>1
  <2>4. k - 1 \in 0..n /\ k - 1 \notin Bad /\ k \in 1..n
    BY <1>1, <2>1, <2>2, <2>3
  <2>5. Right(k - 1)
    BY <2>4
  <2> DEFINE p == f[k - 1]
             c == order[k]
             r == Flush(p, c, fault)
  <2>6. f[k] = r
    BY <2>2, <2>3
  <2>7. Carried(a, p) /\ c \in DOMAIN p.w.ctxs /\ DOMAIN p.w.ctxs = DOMAIN a.w.ctxs
    BY <1>1, <2>4, <2>5 DEF Carried, AfterAll
  <2>8. /\ Carried(a, r)
        /\ r.ok => /\ p.ok /\ Main(r.w.ctxs[c]).msgs = <<>>
                   /\ \A d \in DOMAIN p.w.ctxs : d # c => r.w.ctxs[d] = p.w.ctxs[d]
    <3> HIDE DEF p, c
    <3> QED  BY <2>7, CarriedOn
  <2>9. ASSUME r.ok, NEW j \in 1..k PROVE Main(r.w.ctxs[order[j]]).msgs = <<>>
    <3>1. CASE order[j] = c
      <4> HIDE DEF r
      <4> QED  BY <2>8, <2>9, <3>1
    <3>2. CASE order[j] # c
      <4>1. j \in 1..(k - 1) /\ j \in 1..n
        BY <1>1, <2>4, <3>2
      <4>2. p.ok
        BY <2>8, <2>9
      <4>3. Main(p.w.ctxs[order[j]]).msgs = <<>>
        BY <2>5, <4>1, <4>2 DEF EmptiedUpTo
      <4>4. order[j] \in DOMAIN p.w.ctxs
        BY <1>1, <2>7, <4>1
      <4> HIDE DEF r, p, c
      <4>5. r.w.ctxs[order[j]] = p.w.ctxs[order[j]]
        BY <2>8, <2>9, <3>2, <4>4
      <4> QED  BY <4>3, <4>5
    <3> QED  BY <3>1, <3>2
  <2> HIDE DEF r
  <2> QED  BY <2>2, <2>6, <2>8, <2>9 DEF EmptiedUpTo
<1>4. Right(n)
  BY <1>1, <1>3
<1> DEFINE r == FlushAll(a, fault)
<1>5. r = f[n] /\ r.ok
  BY <1>2
<1> HIDE DEF r
<1>6. AfterAll(a, r) /\ Carries(a, r) /\ EmptiedUpTo(r, order, n)
  BY <1>4, <1>5 DEF Carried
<1>8. \A c \in DOMAIN r.w.ctxs : Main(r.w.ctxs[c]).msgs = <<>>
  BY <1>6, <1>7 DEF AfterAll, EmptiedUpTo
<1> QED  BY <1>6, <1>8 DEF r

-----------------------------------------------------------------------------
(* Sessions. *)

\* Empty sequences, however many, make the empty one.
LEMMA FlattenNothing ==
  ASSUME NEW T, NEW s \in Seq(Seq(T)), \A i \in 1..Len(s) : s[i] = <<>>
  PROVE  FlattenSeq(s) = <<>>
<1>1. Len(s) \in Nat
  BY LenProperties
<1>2. CASE Len(s) = 0
  BY <1>2, EmptySeq, FlattenEmpty
<1>3. CASE Len(s) # 0
  <2>1. 1 \in 1..Len(s)
    BY <1>1, <1>3
  <2>2. FlattenSeq(s) = s[1]
    BY <2>1, FlattenOnly
  <2> QED  BY <2>1, <2>2
<1> QED  BY <1>2, <1>3

\* Only sessions of the file have records.
LEMMA RecsNone ==
  ASSUME NEW f, NEW w, w.table \in Contents, AllStored(f, w), NEW c, c[1] \notin DOMAIN w.sessions
  PROVE  Recs(f, w, c) = <<>>
<1>1. /\ Parts(f, w, c) \in Seq(Seq(Outcomes)) /\ Len(Parts(f, w, c)) = Len(w.table.blocks)
  BY PartsTyped
<1>2. \A k \in 1..Len(w.table.blocks) : Parts(f, w, c)[k] = <<>>
  BY DEF Parts, AllStored, Stored
<1> QED  BY <1>1, <1>2, FlattenNothing, RecsIs

\* A session was added.
SessionAdded(f, w, g, v, dsc) ==
  LET sid == Len(w.table.sessions) + 1
  IN  /\ \A s \in DOMAIN w.sessions : w.sessions[s] # dsc
      /\ v.sessions = [s \in DOMAIN w.sessions \cup {sid} |-> IF s = sid THEN dsc ELSE w.sessions[s]]
      /\ v.table.sessions = Append(w.table.sessions, SessionInfo(w.off, sid))
      /\ v.table.blocks = w.table.blocks /\ v.ctxs = w.ctxs
      /\ BlockIn(g, w.off, "session") /\ BlockAt(g, w.off) = SessionBlock(sid, dsc)

\* Sessions are in step again once one is added and its block is written.
LEMMA SessionsGrow ==
  ASSUME NEW f, NEW w, NEW g, NEW v, NEW dsc, FileOK(f), FileOK(g), Kept(f, g), w.table \in Contents,
         SessionsInStep(f, w), SessionAdded(f, w, g, v, dsc)
  PROVE  SessionsInStep(g, v)
<1> DEFINE n == Len(w.table.sessions)
           sid == n + 1
           s == w.table.sessions
           t == v.table.sessions
           x == SessionInfo(w.off, sid)
<1>1. n \in Nat /\ Len(t) = n + 1 /\ t[sid] = x /\ \A k \in 1..n : t[k] = s[k]
  <2> DEFINE T == [off : Nat, sid : 1..SidMax]
  <2>1. s \in Seq(T)
    BY DEF Contents
  <2>2. n \in Nat /\ s \in Seq(T \cup {x}) /\ x \in T \cup {x}
    <3> HIDE DEF T, x
    <3>1. T \subseteq T \cup {x}
      OBVIOUS
    <3> QED  BY <2>1, <3>1, LenProperties, SeqMonotonic
  <2>3. t = Append(s, x)
    BY DEF SessionAdded
  <2> HIDE DEF T, x, s, t
  <2> QED  BY <2>2, <2>3, AppendProperties DEF s
<1>2. DOMAIN w.sessions = 1..n /\ DOMAIN v.sessions = (1..n) \cup {sid}
  BY DEF SessionsInStep, SessionAdded
<1>3. DOMAIN v.sessions = 1..Len(t)
  <2>1. (1..n) \cup {n + 1} = 1..(n + 1)
    BY <1>1
  <2> QED  BY <1>1, <1>2, <2>1
<1>4. x.off = w.off /\ x.sid = sid
  BY DEF SessionInfo
<1>5. /\ v.sessions[sid] = dsc /\ \A k \in 1..n : v.sessions[k] = w.sessions[k] /\ k # sid
  <2>1. \A k \in 1..n : k # n + 1
    BY <1>1
  <2>2. v.sessions = [k \in (1..n) \cup {sid} |-> IF k = sid THEN dsc ELSE w.sessions[k]]
    BY <1>2 DEF SessionAdded
  <2> HIDE DEF n, sid
  <2> QED  BY <2>1, <2>2 DEF sid
<1>6. SessionIn(g, v, sid)
  <2>1. BlockIn(g, w.off, "session") /\ BlockAt(g, w.off) = SessionBlock(sid, dsc)
    BY DEF SessionAdded
  <2>2. SessionBlock(sid, dsc).sid = sid /\ SessionBlock(sid, dsc).dsc = dsc
    BY DEF SessionBlock
  <2> HIDE DEF sid, x
  <2> QED  BY <1>1, <1>4, <1>5, <2>1, <2>2 DEF SessionIn
<1>7. ASSUME NEW k \in 1..n PROVE SessionIn(g, v, k)
  <2>1. SessionIn(f, w, k)
    BY <1>2 DEF SessionsInStep
  <2> QED  BY <1>1, <1>5, <2>1, BlockKept DEF SessionIn
<1>8. \A k \in DOMAIN v.sessions : SessionIn(g, v, k)
  BY <1>2, <1>6, <1>7
<1>9. \A j, k \in DOMAIN v.sessions : v.sessions[j] = v.sessions[k] => j = k
  <2>1. \A j, k \in 1..n : w.sessions[j] = w.sessions[k] => j = k
    BY <1>2 DEF SessionsInStep
  <2>2. \A k \in 1..n : w.sessions[k] # dsc
    BY <1>2 DEF SessionAdded
  <2> HIDE DEF n, sid
  <2> QED  BY <1>2, <1>5, <2>1, <2>2
<1> QED  BY <1>3, <1>8, <1>9 DEF SessionsInStep

\* A context is logged under the description of its session.
LEMMA KeyIs ==
  ASSUME NEW w, NEW sid, NEW odid
  PROVE  KeyOf(w, <<sid, odid>>) = <<w.sessions[sid], odid>> /\ <<sid, odid>>[1] = sid
         /\ <<sid, odid>>[2] = odid
BY DEF KeyOf

\* A new session has no records, and takes none from other sessions.
LEMMA SessionCarried ==
  ASSUME NEW f, NEW w, NEW g, NEW v, NEW dsc \in Dscs, NEW l, Follows(f, w, g, v),
         InStep(f, w), LogInStep(f, w, l), SessionAdded(f, w, g, v, dsc)
  PROVE  InStep(g, v) /\ LogInStep(g, v, l)
<1> DEFINE new == Len(w.table.sessions) + 1
<1>1. FileOK(f) /\ FileOK(g) /\ Kept(f, g) /\ WriterOK(w) /\ w.table \in Contents
      /\ DOMAIN w.sessions \subseteq DOMAIN v.sessions
  BY DEF Follows, Good, WriterOK
<1>2. SessionsInStep(f, w) /\ AllStored(f, w)
  BY DEF InStep, AllStored
<1>3. SessionsInStep(g, v)
  BY <1>1, <1>2, SessionsGrow
<1>4. v.ctxs = w.ctxs /\ v.table.blocks = w.table.blocks
  BY DEF SessionAdded
<1>5. AllStored(g, v) /\ \A c : Recs(g, v, c) = Recs(f, w, c)
  <2>1. \A c : SameFlight(w, v, c)
    BY <1>4 DEF SameFlight, Pending
  <2> QED  BY <1>2, <1>4, <2>1, SameBlocks
<1>6. \A c \in DOMAIN v.ctxs : CtxInStep(g, v.ctxs[c])
  BY <1>1, <1>4, CtxKept DEF InStep
<1>7. InStep(g, v)
  BY <1>3, <1>5, <1>6 DEF InStep, AllStored
<1>8. \A c : Held(g, v, c) = Held(f, w, c)
  <2>1. \A c : Buffered(v, c) = Buffered(w, c)
    BY <1>4 DEF Buffered
  <2> QED  BY <1>5, <2>1, HeldSame
<1>9. DOMAIN v.sessions = DOMAIN w.sessions \cup {new} /\ v.sessions[new] = dsc
      /\ \A s \in DOMAIN w.sessions : s # new => v.sessions[s] = w.sessions[s]
  <2> HIDE DEF new
  <2>1. v.sessions = [s \in DOMAIN w.sessions \cup {new} |-> IF s = new THEN dsc ELSE w.sessions[s]]
    BY DEF SessionAdded, new
  <2> QED  BY <2>1
<1>10. new \notin DOMAIN w.sessions
  <2>1. Len(w.table.sessions) \in Nat
    BY <1>1, LenProperties DEF Contents
  <2> QED  BY <1>2, <2>1 DEF SessionsInStep
<1>11. \A s \in DOMAIN w.sessions : w.sessions[s] # dsc
  BY DEF SessionAdded
<1> HIDE DEF new
<1>12. ASSUME NEW sid \in DOMAIN v.sessions, NEW odid \in ODIDs
       PROVE  l[KeyOf(v, <<sid, odid>>)] = Held(g, v, <<sid, odid>>)
  <2>1. CASE sid # new
    <3>1. sid \in DOMAIN w.sessions /\ KeyOf(v, <<sid, odid>>) = KeyOf(w, <<sid, odid>>)
      BY <1>9, <2>1, KeyIs
    <3>2. l[KeyOf(w, <<sid, odid>>)] = Held(f, w, <<sid, odid>>)
      BY <3>1 DEF LogInStep
    <3> QED  BY <1>8, <3>1, <3>2
  <2>2. CASE sid = new
    <3>1. KeyOf(v, <<sid, odid>>) = <<dsc, odid>>
      BY <1>9, <2>2, KeyIs
    <3>2. <<dsc, odid>> \in Keys /\ <<dsc, odid>>[1] = dsc
      BY DEF Keys
    <3>3. l[<<dsc, odid>>] = <<>>
      BY <1>11, <3>2 DEF LogInStep
    <3> DEFINE c == <<sid, odid>>
    <3>4. c[1] \notin DOMAIN w.sessions
      BY <1>10, <2>2
    <3> HIDE DEF c
    <3>5. Recs(f, w, c) = <<>>
      BY <1>1, <1>2, <3>4, RecsNone
    <3>6. Buffered(w, c) = <<>>
      BY <1>1, <3>4 DEF WriterOK, Buffered
    <3>7. Held(f, w, c) = <<>> \o <<>>
      BY <3>5, <3>6, HeldIs
    <3>8. <<>> \o <<>> = <<>>
      BY EmptySeq, ConcatEmptySeq
    <3> QED  BY <1>8, <3>1, <3>3, <3>7, <3>8 DEF c
  <2> QED  BY <2>1, <2>2
<1>13. ASSUME NEW k \in Keys, \A sid \in DOMAIN v.sessions : v.sessions[sid] # k[1]
       PROVE  l[k] = <<>>
  <2>1. \A sid \in DOMAIN w.sessions : w.sessions[sid] # k[1]
    BY <1>9, <1>10, <1>13
  <2> QED  BY <2>1 DEF LogInStep
<1> QED  BY <1>7, <1>12, <1>13 DEF LogInStep

-----------------------------------------------------------------------------
(* Steps of an open handle. *)

\* What FInv says of a handle after a step.
LEMMA NextHandle ==
  ASSUME FInv', NEW h \in Handles, writers'[h].st # "closed"
  PROVE  FileOK(file') /\ WriterOK(writers'[h]) /\ Placed(file', writers'[h]) /\ lock' = h
BY DEF FInv

\* What Recorded says of a handle that is not closed.
LEMMA RecordedOpen ==
  ASSUME FInv, Recorded, ~lost, NEW h \in Handles, writers[h].st # "closed"
  PROVE  OpenInStep(file, writers[h], log) /\ writers[h].recs = Total(log)
BY DEF Recorded

\* Nothing is claimed once a write was lost.
LEMMA LostRecorded == lost' => Recorded'
BY DEF Recorded

\* Recorded is about these variables only.
LEMMA NothingRecorded ==
  ASSUME Recorded, file' = file, lock' = lock, writers' = writers, log' = log, lost' = lost
  PROVE  Recorded'
BY DEF Recorded

\* What a step of an open handle has to keep.
LEMMA StillOpen ==
  ASSUME FInv, NEW h \in Handles, writers[h].st # "closed", NEW v, WriterOK(v),
         writers' = [writers EXCEPT ![h] = v], lock' = lock,
         ~lost' => OpenInStep(file', v, log') /\ v.recs = Total(log')
  PROVE  Recorded'
<1>1. lock = h /\ (\A g \in Handles : g # h => writers[g] = NoWriter) /\ h # NoHandle
  BY OpenHandle, WriterAssumption
<1>2. writers = [g \in Handles |-> writers[g]]
  BY DEF FInv
<1>3. writers'[h] = v /\ \A g \in Handles : g # h => writers'[g] = NoWriter
  BY <1>1, <1>2
<1>4. NoWriter.st = "closed"
  BY DEF NoWriter
<1>5. ASSUME ~lost', NEW g \in Handles, writers'[g].st # "closed"
      PROVE  OpenInStep(file', writers'[g], log') /\ writers'[g].recs = Total(log')
  <2>1. g = h
    BY <1>3, <1>4, <1>5
  <2> QED  BY <1>3, <1>5, <2>1
<1> QED  BY <1>1, <1>5 DEF Recorded

\* The fields of a writer.
Shaped(w) ==
  w = [st |-> w.st, io |-> w.io, sessions |-> w.sessions, ctxs |-> w.ctxs, sel |-> w.sel,
       table |-> w.table, off |-> w.off, recs |-> w.recs]

\* The end of a call that did not fail.
LEMMA EndsWith ==
  ASSUME NEW h, NEW a, NEW code, Ends(h, a, code), code # "INTERNAL", Shaped(a.w)
  PROVE  /\ file' = a.file /\ lock' = lock /\ writers' = [writers EXCEPT ![h] = a.w]
         /\ lost' = (lost \/ FALSE)
<1> DEFINE w == a.w
           v == [w EXCEPT !.st = w.st]
<1>1. file' = a.file /\ lock' = lock /\ lost' = (lost \/ code = "INTERNAL")
      /\ writers' = [writers EXCEPT ![h] = v]
  BY DEF Ends
<1>2. w = [st |-> w.st, io |-> w.io, sessions |-> w.sessions, ctxs |-> w.ctxs, sel |-> w.sel,
           table |-> w.table, off |-> w.off, recs |-> w.recs]
  BY DEF Shaped
<1>3. v = [w EXCEPT !.st = w.st]
  OBVIOUS
<1> HIDE DEF w, v
<1>4. v = w
  BY <1>2, <1>3
<1> QED  BY <1>1, <1>4 DEF w

\* The log is in step while the records held stay the same.
LEMMA LogSame ==
  ASSUME NEW f, NEW w, NEW g, NEW v, NEW l, LogInStep(f, w, l), v.sessions = w.sessions,
         DOMAIN w.sessions \subseteq 1..SidMax,
         \A c \in Ctxs : Held(g, v, c) = Held(f, w, c)
  PROVE  LogInStep(g, v, l)
<1>1. ASSUME NEW sid \in DOMAIN v.sessions, NEW odid \in ODIDs
      PROVE  l[KeyOf(v, <<sid, odid>>)] = Held(g, v, <<sid, odid>>)
  <2>1. <<sid, odid>> \in Ctxs
    BY DEF Ctxs
  <2>2. KeyOf(v, <<sid, odid>>) = KeyOf(w, <<sid, odid>>)
    BY DEF KeyOf
  <2>3. l[KeyOf(w, <<sid, odid>>)] = Held(f, w, <<sid, odid>>)
    BY DEF LogInStep
  <2> QED  BY <2>1, <2>2, <2>3
<1> QED  BY <1>1 DEF LogInStep

\* fds_file_session_add(): a new session, or the one with this description.
LEMMA SessionAddRecorded ==
  ASSUME FInv, FInv', BlocksStay, Recorded, NEW h \in Handles, writers[h].st = "open",
         NEW dsc \in Dscs, SessionAdd(h, dsc)
  PROVE  Recorded'
<1> DEFINE w == writers[h]
           sid == Cardinality(DOMAIN w.sessions) + 1
           blk == SessionBlock(sid, dsc)
           sessions == [s \in DOMAIN w.sessions \cup {sid} |-> IF s = sid THEN dsc ELSE w.sessions[s]]
           table == [w.table EXCEPT !.sessions = Append(w.table.sessions, SessionInfo(w.off, sid))]
           off == w.off + blk.len
           done == [w EXCEPT !.sessions = sessions, !.table = table, !.off = off]
           g == Written(file, w.off, blk, blk.len)
           a == [file |-> g, w |-> done]
<1>1. /\ FileOK(file) /\ WriterOK(w) /\ Placed(file, w)
  BY OpenHandle
<1>2. CASE \E code : Returns(h, code)
  BY <1>2, NothingRecorded DEF Returns
<1>3. ASSUME NEW fault, Ends(h, [file |-> Partial(file, w.off, blk, fault), w |-> w], "INTERNAL")
      PROVE  Recorded'
  BY <1>3, LostRecorded DEF Ends
<1>4. ASSUME Ends(h, a, "OK"), log' = log, \A s \in DOMAIN w.sessions : w.sessions[s] # dsc
      PROVE  Recorded'
  <2>1. CASE lost
    BY <1>4, <2>1, LostRecorded DEF Ends
  <2>2. CASE ~lost
    <3>1. OpenInStep(file, w, log) /\ w.recs = Total(log)
      BY <2>2, RecordedOpen
    <3>2. SessionsInStep(file, w)
      BY <3>1 DEF OpenInStep, InStep
    <3>3. sid = Len(w.table.sessions) + 1
      <4>1. Len(w.table.sessions) \in Nat
        BY <1>1, LenProperties DEF WriterOK, Contents
      <4>2. DOMAIN w.sessions = 1..Len(w.table.sessions)
        BY <3>2 DEF SessionsInStep
      <4>3. Cardinality(1..Len(w.table.sessions)) = Len(w.table.sessions)
        BY <4>1, FS_Interval
      <4> QED  BY <4>2, <4>3
    <3>4. /\ done.st = w.st /\ done.io = w.io /\ done.sessions = sessions /\ done.ctxs = w.ctxs
          /\ done.sel = w.sel /\ done.table = table /\ done.off = off /\ done.recs = w.recs
          /\ done = [st |-> done.st, io |-> done.io, sessions |-> done.sessions, ctxs |-> done.ctxs,
                     sel |-> done.sel, table |-> done.table, off |-> done.off, recs |-> done.recs]
      <4>1. w = [st |-> w.st, io |-> w.io, sessions |-> w.sessions, ctxs |-> w.ctxs, sel |-> w.sel,
                 table |-> w.table, off |-> w.off, recs |-> w.recs]
        BY <1>1 DEF WriterOK
      <4>2. done = [w EXCEPT !.sessions = sessions, !.table = table, !.off = off]
        OBVIOUS
      <4> HIDE DEF w, sessions, table, off, done
      <4>3. done = [st |-> w.st, io |-> w.io, sessions |-> sessions, ctxs |-> w.ctxs, sel |-> w.sel,
                    table |-> table, off |-> off, recs |-> w.recs]
        BY <4>1, <4>2
      <4> QED  BY <4>3
    <3>5. table.sessions = Append(w.table.sessions, SessionInfo(w.off, sid)) /\ table.blocks = w.table.blocks
      <4> DEFINE t == w.table
                 x == Append(w.table.sessions, SessionInfo(w.off, sid))
      <4>1. t = [sessions |-> t.sessions, blocks |-> t.blocks]
        BY <1>1 DEF WriterOK, Contents
      <4>2. table = [t EXCEPT !.sessions = x]
        OBVIOUS
      <4> HIDE DEF t, x, table
      <4>3. table.sessions = x /\ table.blocks = t.blocks
        BY <4>1, <4>2
      <4> QED  BY <4>3 DEF t, x
    <3>6. /\ file' = a.file /\ lock' = lock /\ a.file = g /\ a.w = done
          /\ writers' = [writers EXCEPT ![h] = [done EXCEPT !.st = done.st]]
          /\ lost' = (lost \/ FALSE)
      BY <1>4 DEF Ends
    <3>7. [done EXCEPT !.st = done.st] = done
      <4> HIDE DEF done
      <4> QED  BY <3>4
    <3>8. writers = [x \in Handles |-> writers[x]]
      BY DEF FInv
    <3>9. writers'[h] = done
      BY <3>6, <3>7, <3>8
    <3>10. blk.len \in Nat \ {0} /\ BlockHdr <= blk.len /\ blk.type = "session"
      BY LengthsAssumption DEF SessionBlock
    <3> HIDE DEF done, table, sessions, off, g, a, blk, sid
    <3>11. FileOK(file') /\ WriterOK(done) /\ Placed(file', done) /\ file' = g
      <4>1. writers'[h].st # "closed"
        BY <3>4, <3>9
      <4> QED  BY <3>6, <3>9, <4>1, NextHandle
    <3>12. Wrote(file, w.off, blk, g)
      BY <1>1, <3>10, <3>11 DEF Wrote, g
    <3>13. BlockAt(g, w.off) = blk /\ g.ext # {}
      BY <3>12, WrittenThere
    <3>14. BlockIn(g, w.off, "session")
      <4>1. blk.type # "table"
        BY <3>10
      <4>2. BlockIn(g, w.off, blk.type)
        BY <3>10, <3>12, <4>1, WrittenBlock
      <4> QED  BY <3>10, <4>2
    <3>15. Kept(file, g)
      BY <3>11, <3>13 DEF BlocksStay
    <3>16. SessionAdded(file, w, g, done, dsc)
      BY <1>4, <3>3, <3>4, <3>5, <3>13, <3>14 DEF SessionAdded, blk, sessions
    <3>17. Follows(file, w, g, done)
      <4>1. DOMAIN w.sessions \subseteq DOMAIN done.sessions
        BY <3>4 DEF sessions
      <4> QED  BY <1>1, <3>11, <3>15, <4>1 DEF Follows, Good
    <3>18. InStep(g, done) /\ LogInStep(g, done, log)
      BY <3>1, <3>16, <3>17, SessionCarried DEF OpenInStep
    <3>19. OpenInStep(g, done, log) /\ done.recs = Total(log)
      BY <3>1, <3>4, <3>18 DEF OpenInStep
    <3>20. writers' = [writers EXCEPT ![h] = done]
      BY <3>6, <3>7
    <3> HIDE DEF w
    <3> QED  BY <1>4, <3>6, <3>11, <3>19, <3>20, StillOpen DEF w
  <2> QED  BY <2>1, <2>2
<1> QED  BY <1>2, <1>3, <1>4 DEF SessionAdd

\* The same records, in the same places.
Retold(f, w, g, v) ==
  /\ Follows(f, w, g, v) /\ v.table = w.table /\ v.sessions = w.sessions
  /\ \A c \in Ctxs : SameFlight(w, v, c) /\ Buffered(v, c) = Buffered(w, c)
  /\ \A c \in DOMAIN v.ctxs : CtxInStep(g, v.ctxs[c])

\* A retold writer is in step with the same log.
LEMMA Retells ==
  ASSUME NEW f, NEW w, NEW g, NEW v, NEW l, Retold(f, w, g, v), InStep(f, w), LogInStep(f, w, l)
  PROVE  InStep(g, v) /\ LogInStep(g, v, l)
<1>1. /\ Follows(f, w, g, v) /\ v.table = w.table /\ v.sessions = w.sessions
      /\ \A c \in Ctxs : SameFlight(w, v, c)
      /\ \A c \in DOMAIN v.ctxs : CtxInStep(g, v.ctxs[c])
  BY DEF Retold
<1>2. InStep(g, v) /\ \A c : Recs(g, v, c) = Recs(f, w, c)
  BY <1>1, SameTable
<1>3. \A c \in Ctxs : Held(g, v, c) = Held(f, w, c)
  BY <1>2, HeldSame DEF Retold
<1>4. DOMAIN w.sessions \subseteq 1..SidMax
  BY <1>1 DEF Follows, Good, WriterOK
<1>5. LogInStep(g, v, l)
  BY <1>1, <1>3, <1>4, LogSame
<1> QED  BY <1>2, <1>5

\* A step that leaves all records where they are.
LEMMA RetoldRecorded ==
  ASSUME FInv, Recorded, ~lost, NEW h \in Handles, writers[h].st # "closed", NEW v,
         Retold(file, writers[h], file', v), v.recs = writers[h].recs, v.st # "fatal",
         v.st = "closing" => TableStored(file', v),
         writers' = [writers EXCEPT ![h] = v], lock' = lock, log' = log
  PROVE  Recorded'
<1>1. OpenInStep(file, writers[h], log) /\ writers[h].recs = Total(log)
  BY RecordedOpen
<1>2. InStep(file, writers[h]) /\ LogInStep(file, writers[h], log)
  BY <1>1 DEF OpenInStep
<1>3. InStep(file', v) /\ LogInStep(file', v, log)
  BY <1>2, Retells
<1>4. OpenInStep(file', v, log')
  BY <1>3 DEF OpenInStep
<1>5. WriterOK(v)
  BY DEF Retold, Follows, Good
<1> QED  BY <1>1, <1>4, <1>5, StillOpen

\* A context of which only the Export Time or the last template changes.
SameRecords(i, j) ==
  j.toff = i.toff /\ j.tmplts = i.tmplts /\ j.buf = i.buf /\ j.main = i.main /\ j.req = i.req

\* Such a context is in step too.
LEMMA SameRecordsInStep ==
  ASSUME NEW f, NEW i, NEW j, SameRecords(i, j), CtxInStep(f, i), j.last \in {i.last, NoTmplt}
  PROVE  CtxInStep(f, j)
<1>1. Main(j) = Main(i) /\ Count(j) = Count(i)
  BY DEF SameRecords, Main, Count
<1> QED  BY <1>1 DEF CtxInStep, SameRecords

\* Another Export Time for the records to come changes none of those buffered.
LEMMA TimeChanged ==
  ASSUME NEW i, NEW off, ContextOK(i, off), NEW etime, NEW j, j = [i EXCEPT !.etime = etime]
  PROVE  SameRecords(i, j) /\ j.last = i.last
<1>1. i = [toff |-> i.toff, tmplts |-> i.tmplts, last |-> i.last, etime |-> i.etime,
           buf |-> i.buf, main |-> i.main, req |-> i.req]
  BY ContextFields
<1>2. j = [toff |-> i.toff, tmplts |-> i.tmplts, last |-> i.last, etime |-> etime,
           buf |-> i.buf, main |-> i.main, req |-> i.req]
  BY <1>1
<1> QED  BY <1>2 DEF SameRecords

\* Contexts that keep their records, and new ones without any.
NoRecords(i) ==
  i.toff = 0 /\ DefsOK(i.tmplts) /\ i.last = NoTmplt /\ Main(i).msgs = <<>> /\ i.req.st = "none"
SameContexts(w, v) ==
  /\ DOMAIN w.ctxs \subseteq DOMAIN v.ctxs
  /\ \A c \in DOMAIN w.ctxs : SameRecords(w.ctxs[c], v.ctxs[c])
                              /\ v.ctxs[c].last \in {w.ctxs[c].last, NoTmplt}
  /\ \A c \in DOMAIN v.ctxs : c \notin DOMAIN w.ctxs => NoRecords(v.ctxs[c])

\* An empty context without a Template Block is in step.
LEMMA NoRecordsInStep ==
  ASSUME NEW f, NEW i, NoRecords(i)
  PROVE  CtxInStep(f, i)
<1>1. Count(i) = 0
  BY EmptySeq DEF NoRecords, Count
<1> QED  BY <1>1 DEF NoRecords, CtxInStep

\* New empty contexts and a new selection change no record.
LEMMA SameContextsRetold ==
  ASSUME NEW f, NEW w, NEW v, Good(f, w), Good(f, v), InStep(f, w), SameContexts(w, v),
         v.table = w.table, v.sessions = w.sessions
  PROVE  Retold(f, w, f, v)
<1>1. Follows(f, w, f, v)
  BY DEF Follows, Kept
<1>2. ASSUME NEW c \in DOMAIN v.ctxs PROVE CtxInStep(f, v.ctxs[c])
  <2>1. CASE c \in DOMAIN w.ctxs
    <3>1. CtxInStep(f, w.ctxs[c]) /\ SameRecords(w.ctxs[c], v.ctxs[c])
          /\ v.ctxs[c].last \in {w.ctxs[c].last, NoTmplt}
      BY <2>1 DEF InStep, SameContexts
    <3> QED  BY <3>1, SameRecordsInStep
  <2>2. CASE c \notin DOMAIN w.ctxs
    BY <1>2, <2>2, NoRecordsInStep DEF SameContexts
  <2> QED  BY <2>1, <2>2
<1>3. ASSUME NEW c \in Ctxs PROVE SameFlight(w, v, c)
  BY DEF SameFlight, SameContexts, SameRecords, Pending, From, FlightMsgs
<1>4. ASSUME NEW c \in Ctxs PROVE Buffered(v, c) = Buffered(w, c)
  <2>1. CASE c \in DOMAIN w.ctxs
    <3>1. c \in DOMAIN v.ctxs /\ Main(v.ctxs[c]) = Main(w.ctxs[c]) /\ v.ctxs[c].tmplts = w.ctxs[c].tmplts
      BY <2>1 DEF SameContexts, SameRecords, Main
    <3> QED  BY <2>1, <3>1 DEF Buffered
  <2>2. CASE c \notin DOMAIN w.ctxs
    <3>1. CASE c \in DOMAIN v.ctxs
      <4>1. NoRecords(v.ctxs[c])
        BY <2>2, <3>1 DEF SameContexts
      <4>2. Decoded(<<>>, v.ctxs[c].tmplts) = <<>>
        BY <4>1, DecodedNone DEF NoRecords
      <4> QED  BY <2>2, <3>1, <4>1, <4>2 DEF Buffered, NoRecords
    <3>2. CASE c \notin DOMAIN v.ctxs
      BY <2>2, <3>2 DEF Buffered
    <3> QED  BY <3>1, <3>2
  <2> QED  BY <2>1, <2>2
<1> QED  BY <1>1, <1>2, <1>3, <1>4 DEF Retold

\* A new context is such a context.
LEMMA NewContextEmpty ==
  ASSUME NEW etime, NEW j, j = [NewContext EXCEPT !.etime = etime]
  PROVE  NoRecords(j)
<1>1. j = [toff |-> 0, tmplts |-> NoTemplates, last |-> NoTmplt, etime |-> etime,
           buf |-> <<EmptyBuffer, EmptyBuffer>>, main |-> 1, req |-> NoRequest]
  BY DEF NewContext
<1>2. /\ j.toff = 0 /\ j.tmplts = NoTemplates /\ j.last = NoTmplt /\ j.req = NoRequest
      /\ j.buf = <<EmptyBuffer, EmptyBuffer>> /\ j.main = 1
  BY <1>1
<1>3. Main(j).msgs = <<>>
  BY <1>2 DEF Main, EmptyBuffer
<1>4. DefsOK(NoTemplates)
  BY DEF DefsOK, NoTemplates
<1> QED  BY <1>2, <1>3, <1>4 DEF NoRecords, NoRequest

\* fds_file_write_ctx(): a context is found or made.
LEMMA SelectCtxRecorded ==
  ASSUME FInv, FInv', Recorded, NEW h \in Handles, writers[h].st = "open",
         NEW ctx \in Ctxs, NEW etime \in ETimes, SelectCtx(h, ctx, etime)
  PROVE  Recorded'
<1> DEFINE w == writers[h]
           ctxs == [c \in DOMAIN w.ctxs \cup {ctx} |->
                      [(IF c \in DOMAIN w.ctxs THEN w.ctxs[c] ELSE NewContext) EXCEPT
                         !.etime = IF c = ctx THEN etime ELSE @]]
           v == [w EXCEPT !.sel = ctx, !.ctxs = ctxs]
<1>1. FileOK(file) /\ WriterOK(w) /\ Placed(file, w)
  BY OpenHandle
<1>3. CASE \E code : Returns(h, code)
  BY <1>3, NothingRecorded DEF Returns
<1>4. CASE /\ writers' = [writers EXCEPT ![h] = v]
           /\ UNCHANGED <<file, lock, log, lost>>
  <2>1. ASSUME NEW c \in DOMAIN w.ctxs
        PROVE  SameRecords(w.ctxs[c], ctxs[c]) /\ ctxs[c].last = w.ctxs[c].last
    <3> DEFINE i == w.ctxs[c]
               e == IF c = ctx THEN etime ELSE i.etime
               j == [i EXCEPT !.etime = e]
    <3>1. ContextOK(i, w.off)
      BY <1>1 DEF WriterOK
    <3>2. ctxs[c] = j
      OBVIOUS
    <3> HIDE DEF e, ctxs, i
    <3>3. SameRecords(i, j) /\ j.last = i.last
      BY <3>1, TimeChanged
    <3> QED  BY <3>2, <3>3 DEF i
  <2>2. ASSUME NEW c \in DOMAIN ctxs, c \notin DOMAIN w.ctxs PROVE NoRecords(ctxs[c])
    <3> DEFINE i == [NewContext EXCEPT !.etime = etime]
    <3>1. ctxs[c] = i
      BY <2>2
    <3>2. NoRecords(i)
      BY NewContextEmpty
    <3> QED  BY <3>1, <3>2
  <2>3. DOMAIN w.ctxs \subseteq DOMAIN ctxs
    OBVIOUS
  <2> HIDE DEF ctxs
  <2>4. /\ v.st = w.st /\ v.sessions = w.sessions /\ v.ctxs = ctxs
        /\ v.table = w.table /\ v.recs = w.recs
    <3>1. w = [st |-> w.st, io |-> w.io, sessions |-> w.sessions, ctxs |-> w.ctxs, sel |-> w.sel,
               table |-> w.table, off |-> w.off, recs |-> w.recs]
      BY <1>1 DEF WriterOK
    <3>2. v = [w EXCEPT !.sel = ctx, !.ctxs = ctxs]
      OBVIOUS
    <3> HIDE DEF w, v
    <3> QED  BY <3>1, <3>2
  <2> HIDE DEF v
  <2>5. SameContexts(w, v)
    BY <2>1, <2>2, <2>3, <2>4 DEF SameContexts
  <2>6. CASE lost
    BY <1>4, <2>6, LostRecorded
  <2>7. CASE ~lost
    <3>1. InStep(file, w)
      BY <2>7, RecordedOpen DEF OpenInStep
    <3>2. writers'[h] = v
      BY <1>4 DEF FInv
    <3>3. Good(file, v)
      <4>1. writers'[h].st # "closed"
        BY <2>4, <3>2
      <4>2. file' = file
        BY <1>4
      <4> QED  BY <3>2, <4>1, <4>2, NextHandle DEF Good
    <3>4. Good(file, w)
      BY <1>1 DEF Good
    <3>5. Retold(file, w, file, v)
      <4> HIDE DEF w
      <4> QED  BY <2>4, <2>5, <3>1, <3>3, <3>4, SameContextsRetold
    <3>6. v.st = "open"
      BY <2>4
    <3>7. file' = file /\ lock' = lock /\ log' = log
      BY <1>4
    <3>8. Retold(file, writers[h], file', v)
      BY <3>5, <3>7
    <3> QED  BY <1>4, <2>4, <2>7, <3>6, <3>7, <3>8, RetoldRecorded
  <2> QED  BY <2>6, <2>7
<1>5. \/ \E code : Returns(h, code)
      \/ /\ writers' = [writers EXCEPT ![h] = v]
         /\ UNCHANGED <<file, lock, log, lost>>
  <2>1. CASE w.sel # ctx /\ ctx[1] \notin DOMAIN w.sessions /\ Returns(h, "NOTFOUND")
    BY <2>1
  <2>2. CASE ~ (w.sel # ctx /\ ctx[1] \notin DOMAIN w.sessions /\ Returns(h, "NOTFOUND"))
    BY <2>2, Zenon DEF SelectCtx
  <2> QED  BY <2>1, <2>2
<1> QED  BY <1>3, <1>4, <1>5

\* fds_file_set_iemgr(): definitions are set anew, records stay.
LEMMA SetIemgrRecorded ==
  ASSUME FInv, FInv', Recorded, NEW h \in Handles, writers[h].st = "open", SetIemgr(h)
  PROVE  Recorded'
<1> DEFINE w == writers[h]
           ctxs == [c \in DOMAIN w.ctxs |-> [w.ctxs[c] EXCEPT !.last = NoTmplt]]
           v == [w EXCEPT !.ctxs = ctxs]
<1>1. FileOK(file) /\ WriterOK(w) /\ Placed(file, w)
  BY OpenHandle
<1>2. writers' = [writers EXCEPT ![h] = v] /\ file' = file /\ lock' = lock /\ log' = log /\ lost' = lost
  BY DEF SetIemgr
<1>3. ASSUME NEW c \in DOMAIN w.ctxs
      PROVE  SameRecords(w.ctxs[c], ctxs[c]) /\ ctxs[c].last = NoTmplt
  <2> DEFINE i == w.ctxs[c]
             j == [i EXCEPT !.last = NoTmplt]
  <2>1. ContextOK(i, w.off)
    BY <1>1 DEF WriterOK
  <2>2. ctxs[c] = j
    OBVIOUS
  <2> HIDE DEF i
  <2>3. i = [toff |-> i.toff, tmplts |-> i.tmplts, last |-> i.last, etime |-> i.etime,
             buf |-> i.buf, main |-> i.main, req |-> i.req]
    BY <2>1, ContextFields
  <2>4. SameRecords(i, j) /\ j.last = NoTmplt
    BY <2>3 DEF SameRecords
  <2> HIDE DEF j, ctxs
  <2> QED  BY <2>2, <2>4 DEF i
<1>4. DOMAIN ctxs = DOMAIN w.ctxs
  OBVIOUS
<1> HIDE DEF ctxs
<1>5. /\ v.st = w.st /\ v.sessions = w.sessions /\ v.ctxs = ctxs
      /\ v.table = w.table /\ v.recs = w.recs
  <2>1. w = [st |-> w.st, io |-> w.io, sessions |-> w.sessions, ctxs |-> w.ctxs, sel |-> w.sel,
             table |-> w.table, off |-> w.off, recs |-> w.recs]
    BY <1>1 DEF WriterOK
  <2>2. v = [w EXCEPT !.ctxs = ctxs]
    OBVIOUS
  <2> HIDE DEF w, v
  <2> QED  BY <2>1, <2>2
<1> HIDE DEF v
<1>6. SameContexts(w, v)
  BY <1>3, <1>4, <1>5 DEF SameContexts
<1>7. CASE lost
  BY <1>2, <1>7, LostRecorded
<1>8. CASE ~lost
  <2>1. InStep(file, w)
    BY <1>8, RecordedOpen DEF OpenInStep
  <2>2. writers'[h] = v
    BY <1>2 DEF FInv
  <2>3. Good(file, v)
    <3>1. writers'[h].st # "closed"
      BY <1>5, <2>2
    <3> QED  BY <1>2, <2>2, <3>1, NextHandle DEF Good
  <2>4. Good(file, w)
    BY <1>1 DEF Good
  <2>5. Retold(file, w, file, v)
    <3> HIDE DEF w
    <3> QED  BY <1>5, <1>6, <2>1, <2>3, <2>4, SameContextsRetold
  <2>6. v.st = "open"
    BY <1>5
  <2>7. Retold(file, writers[h], file', v)
    BY <1>2, <2>5
  <2> QED  BY <1>2, <1>5, <1>8, <2>6, <2>7, RetoldRecorded
<1> QED  BY <1>7, <1>8

-----------------------------------------------------------------------------
(* Changes of the selected context. *)

\* A writer in which a context was changed.
WithContext(w, ctx, j, recs, v) ==
  /\ v.st = w.st /\ v.io = w.io /\ v.sessions = w.sessions /\ v.sel = w.sel /\ v.table = w.table
  /\ v.off = w.off /\ v.recs = recs /\ v.ctxs[ctx] = j
  /\ OthersSame(w, v, ctx) /\ Shaped(v)

\* An update of the selected context has this form.
LEMMA ContextChanged ==
  ASSUME NEW w, WriterOK(w), NEW ctx \in DOMAIN w.ctxs, NEW j
  PROVE  /\ WithContext(w, ctx, j, w.recs, [w EXCEPT !.ctxs[ctx] = j])
         /\ WithContext(w, ctx, j, w.recs + 1, [w EXCEPT !.ctxs[ctx] = j, !.recs = @ + 1])
<1> DEFINE cs == [w.ctxs EXCEPT ![ctx] = j]
           n == w.recs + 1
           u == [w EXCEPT !.ctxs[ctx] = j]
           v == [w EXCEPT !.ctxs[ctx] = j, !.recs = @ + 1]
<1>1. w = [st |-> w.st, io |-> w.io, sessions |-> w.sessions, ctxs |-> w.ctxs, sel |-> w.sel,
           table |-> w.table, off |-> w.off, recs |-> w.recs]
  BY DEF WriterOK
<1>2. w.ctxs = [c \in DOMAIN w.ctxs |-> w.ctxs[c]]
  BY DEF WriterOK
<1>3. cs[ctx] = j /\ DOMAIN cs = DOMAIN w.ctxs /\ \A d \in DOMAIN w.ctxs : d # ctx => cs[d] = w.ctxs[d]
  BY <1>2
<1>4. u = [w EXCEPT !.ctxs = cs] /\ v = [w EXCEPT !.ctxs = cs, !.recs = n]
  OBVIOUS
<1> HIDE DEF cs, n, u, v
<1>5. u = [st |-> w.st, io |-> w.io, sessions |-> w.sessions, ctxs |-> cs, sel |-> w.sel,
           table |-> w.table, off |-> w.off, recs |-> w.recs]
  BY <1>1, <1>4
<1>6. v = [st |-> w.st, io |-> w.io, sessions |-> w.sessions, ctxs |-> cs, sel |-> w.sel,
           table |-> w.table, off |-> w.off, recs |-> n]
  BY <1>1, <1>4
<1>7. WithContext(w, ctx, j, w.recs, u)
  BY <1>3, <1>5 DEF WithContext, OthersSame, Shaped
<1>8. WithContext(w, ctx, j, n, v)
  BY <1>3, <1>6 DEF WithContext, OthersSame, Shaped
<1> QED  BY <1>7, <1>8 DEF u, v, n

\* ... without a change of its records.
KeepsRecords(i, j) ==
  /\ j.req = i.req
  /\ j.req.st = "started" => FlightMsgs(j) = FlightMsgs(i)
  /\ Decoded(Main(j).msgs, j.tmplts) = Decoded(Main(i).msgs, i.tmplts)

\* A context that keeps its records may otherwise change.
LEMMA ContextRetold ==
  ASSUME NEW f, NEW w, NEW v, Good(f, w), Good(f, v), InStep(f, w), NEW ctx \in DOMAIN w.ctxs,
         NEW j, NEW recs, WithContext(w, ctx, j, recs, v),
         KeepsRecords(w.ctxs[ctx], j), CtxInStep(f, j)
  PROVE  Retold(f, w, f, v)
<1>0. /\ v.sessions = w.sessions /\ v.table = w.table /\ v.ctxs[ctx] = j /\ OthersSame(w, v, ctx)
  BY DEF WithContext
<1>1. Follows(f, w, f, v)
  BY <1>0 DEF Follows, Kept
<1>2. ASSUME NEW c \in DOMAIN v.ctxs PROVE CtxInStep(f, v.ctxs[c])
  BY <1>0, <1>2 DEF InStep, OthersSame
<1>3. ASSUME NEW c \in Ctxs PROVE SameFlight(w, v, c) /\ Buffered(v, c) = Buffered(w, c)
  <2>1. CASE c = ctx
    <3>1. ctx \in DOMAIN v.ctxs
      BY <1>0 DEF OthersSame
    <3>2. SameFlight(w, v, ctx)
      BY <1>0, <3>1 DEF SameFlight, KeepsRecords, Pending, From
    <3>3. Buffered(v, ctx) = Buffered(w, ctx)
      BY <1>0, <3>1 DEF Buffered, KeepsRecords
    <3> QED  BY <2>1, <3>2, <3>3
  <2>2. CASE c # ctx
    BY <1>0, <2>2, OtherFlights
  <2> QED  BY <2>1, <2>2
<1> QED  BY <1>0, <1>1, <1>2, <1>3 DEF Retold

\* A definition for an ID that has none: no record of the buffer is of it.
TmpltAdded(i, tid, def, j) ==
  /\ i.tmplts \in [TIDs -> Defs \cup {NoDef}] /\ i.tmplts[tid] = NoDef
  /\ j.tmplts = [i.tmplts EXCEPT ![tid] = def] /\ j.toff = 0 /\ j.last = i.last
  /\ j.buf = i.buf /\ j.main = i.main /\ j.req = i.req

\* A definition of an ID unknown so far decodes no buffered record.
LEMMA NewDefinition ==
  ASSUME NEW f, NEW i, CtxInStep(f, i), NEW tid \in TIDs, NEW def, NEW j, TmpltAdded(i, tid, def, j)
  PROVE  CtxInStep(f, j) /\ KeepsRecords(i, j)
<1>1. Main(j) = Main(i) /\ FlightMsgs(j) = FlightMsgs(i) /\ Count(j) = Count(i)
  BY DEF TmpltAdded, Main, FlightMsgs, Count
<1>2. \A t : i.tmplts[t] # NoDef => j.tmplts[t] = i.tmplts[t]
  BY DEF TmpltAdded
<1>3. \A m \in 1..Count(i) : Defined(Main(i).msgs[m], i.tmplts)
  BY DEF CtxInStep
<1>4. \A m \in 1..Count(i) : Defined(Main(i).msgs[m], j.tmplts)
  BY <1>2, <1>3 DEF Defined
<1>5. j.last # NoTmplt => j.last.def = j.tmplts[j.last.tid] /\ j.last.def # NoDef
  BY <1>2 DEF CtxInStep, TmpltAdded
<1>6. CtxInStep(f, j)
  BY <1>1, <1>4, <1>5 DEF CtxInStep, TmpltAdded
<1>7. Decoded(Main(i).msgs, i.tmplts) = Decoded(Main(i).msgs, j.tmplts)
  <2> DEFINE msgs == Main(i).msgs
  <2>1. \A m \in 1..Len(msgs) : \A k \in 1..Len(msgs[m].recs) :
           i.tmplts[msgs[m].recs[k].tid] = j.tmplts[msgs[m].recs[k].tid]
    BY <1>2, <1>3 DEF Defined, Count
  <2> HIDE DEF msgs
  <2>2. Decoded(msgs, i.tmplts) = Decoded(msgs, j.tmplts)
    BY <2>1, DecodedSame
  <2> QED  BY <2>2 DEF msgs
<1> QED  BY <1>1, <1>6, <1>7 DEF KeepsRecords, TmpltAdded

\* Any definition, once the buffer is empty.
Rewritten(i, j) ==
  /\ Main(i).msgs = <<>> /\ DefsOK(i.tmplts) /\ DefsOK(j.tmplts)
  /\ j.toff = 0 /\ j.last = NoTmplt
  /\ j.buf = i.buf /\ j.main = i.main /\ j.req = i.req

\* Definitions may change freely when no record is buffered.
LEMMA NoDefinitionsUsed ==
  ASSUME NEW f, NEW i, NEW j, Rewritten(i, j)
  PROVE  CtxInStep(f, j) /\ KeepsRecords(i, j)
<1>1. Main(j) = Main(i) /\ FlightMsgs(j) = FlightMsgs(i)
  BY DEF Rewritten, Main, FlightMsgs
<1>2. Count(j) = 0
  BY <1>1, EmptySeq DEF Rewritten, Count
<1>3. CtxInStep(f, j)
  BY <1>2 DEF CtxInStep, Rewritten
<1>4. Decoded(<<>>, i.tmplts) = <<>> /\ Decoded(<<>>, j.tmplts) = <<>>
  BY DecodedNone DEF Rewritten
<1> QED  BY <1>1, <1>3, <1>4 DEF KeepsRecords, Rewritten

\* A call that flushed its context and then left all records where they are.
LEMMA FlushedRecorded ==
  ASSUME FInv, Recorded, ~lost, NEW h \in Handles, writers[h].st = "open",
         NEW a, Carries(Start(h), a), NEW v, Retold(a.file, a.w, file', v),
         v.recs = a.w.recs, v.st = "open",
         writers' = [writers EXCEPT ![h] = v], lock' = lock, log' = log
  PROVE  Recorded'
<1>1. OpenInStep(file, writers[h], log) /\ writers[h].recs = Total(log)
  BY RecordedOpen
<1>2. Start(h).file = file /\ Start(h).w = writers[h]
  BY DEF Start
<1>3. /\ InStep(a.file, a.w) /\ a.w.sessions = writers[h].sessions /\ a.w.recs = writers[h].recs
      /\ \A c \in Ctxs : Held(a.file, a.w, c) = Held(file, writers[h], c)
  BY <1>2 DEF Carries
<1>4. DOMAIN writers[h].sessions \subseteq 1..SidMax /\ LogInStep(file, writers[h], log)
  BY <1>1, OpenHandle DEF WriterOK, OpenInStep
<1>5. LogInStep(a.file, a.w, log)
  BY <1>3, <1>4, LogSame
<1>6. InStep(file', v) /\ LogInStep(file', v, log)
  BY <1>3, <1>5, Retells
<1>7. OpenInStep(file', v, log')
  BY <1>6 DEF OpenInStep
<1>8. WriterOK(v)
  BY DEF Retold, Follows, Good
<1> QED  BY <1>1, <1>3, <1>7, <1>8, StillOpen

-----------------------------------------------------------------------------
(* Templates. *)

\* What FInv says of the handle that took the step.
LEMMA NextGood ==
  ASSUME FInv', NEW h \in Handles, NEW v, writers'[h] = v, v.st # "closed"
  PROVE  Good(file', v)
BY NextHandle DEF Good

\* fds_file_write_tmplt_add() of a new ID: the Template Block is to be written again.
LEMMA TmpltAddRecorded ==
  ASSUME FInv, FInv', Recorded, NEW h \in Handles, writers[h].st = "open", writers[h].sel # NoCtx,
         NEW tid \in TIDs, NEW def, Selected(h).tmplts[tid] = NoDef,
         writers' = [writers EXCEPT ![h].ctxs[writers[h].sel] = [@ EXCEPT !.tmplts[tid] = def, !.toff = 0]],
         UNCHANGED <<file, lock, log, lost>>
  PROVE  Recorded'
<1> DEFINE w == writers[h]
           ctx == w.sel
           i == w.ctxs[ctx]
           t == [i.tmplts EXCEPT ![tid] = def]
           j == [i EXCEPT !.tmplts[tid] = def, !.toff = 0]
           v == [w EXCEPT !.ctxs[ctx] = j]
<1>1. /\ FileOK(file) /\ WriterOK(w) /\ Placed(file, w)
  BY OpenHandle
<1>2. ctx \in DOMAIN w.ctxs /\ ContextOK(i, w.off)
  BY SelectedOK DEF Selected
<1>3. TmpltAdded(i, tid, def, j)
  <2>1. i = [toff |-> i.toff, tmplts |-> i.tmplts, last |-> i.last, etime |-> i.etime,
             buf |-> i.buf, main |-> i.main, req |-> i.req]
    BY <1>2, ContextFields
  <2>2. j = [i EXCEPT !.tmplts = t, !.toff = 0]
    OBVIOUS
  <2>3. i.tmplts \in [TIDs -> Defs \cup {NoDef}] /\ i.tmplts[tid] = NoDef
    BY <1>2 DEF ContextOK, Selected
  <2>4. t = [i.tmplts EXCEPT ![tid] = def]
    OBVIOUS
  <2> HIDE DEF i, j, t
  <2>5. j = [toff |-> 0, tmplts |-> t, last |-> i.last, etime |-> i.etime,
             buf |-> i.buf, main |-> i.main, req |-> i.req]
    BY <2>1, <2>2
  <2>6. j.tmplts = t /\ j.toff = 0 /\ j.last = i.last /\ j.buf = i.buf /\ j.main = i.main /\ j.req = i.req
    BY <2>5
  <2> QED  BY <2>3, <2>4, <2>6 DEF TmpltAdded
<1>4. writers' = [writers EXCEPT ![h] = v]
  OBVIOUS
<1>5. WithContext(w, ctx, j, w.recs, v)
  <2> HIDE DEF w, ctx, j
  <2> QED  BY <1>1, <1>2, ContextChanged
<1>6. CASE lost
  BY <1>6, LostRecorded
<1>7. CASE ~lost
  <2>1. InStep(file, w)
    BY <1>7, RecordedOpen DEF OpenInStep
  <2>2. CtxInStep(file, i)
    BY <1>2, <2>1 DEF InStep
  <2>3. CtxInStep(file, j) /\ KeepsRecords(i, j)
    <3> HIDE DEF i, j
    <3> QED  BY <1>3, <2>2, NewDefinition
  <2> HIDE DEF v, j
  <2>4. writers'[h] = v
    BY <1>4 DEF FInv
  <2>5. v.st = "open" /\ v.recs = w.recs
    BY <1>5 DEF WithContext
  <2>6. Good(file', v)
    BY <2>4, <2>5, NextGood
  <2>7. Good(file, w) /\ file' = file
    BY <1>1 DEF Good
  <2>8. Retold(file, w, file', v)
    <3> HIDE DEF w, ctx
    <3> QED  BY <1>2, <1>5, <2>1, <2>3, <2>6, <2>7, ContextRetold
  <2> QED  BY <1>4, <1>7, <2>5, <2>8, RetoldRecorded
<1> QED  BY <1>6, <1>7

\* A flush of the selected context that succeeds.
LEMMA FlushOfSelected ==
  ASSUME FInv, Recorded, ~lost, NEW h \in Handles, writers[h].st = "open", writers[h].sel # NoCtx,
         ~Waits(Selected(h)), NEW fault \in FlushFaults(h), Flush(Start(h), writers[h].sel, fault).ok
  PROVE  LET r == Flush(Start(h), writers[h].sel, fault)
         IN  /\ After(Start(h), r, writers[h].sel) /\ Carries(Start(h), r)
             /\ Emptied(Start(h), r, writers[h].sel)
<1> DEFINE a == Start(h)
           ctx == writers[h].sel
<1>1. fault.n \in Nat
  BY FaultsOK DEF FlushFaults
<1>2. AOK(a) /\ ctx \in DOMAIN a.w.ctxs /\ ~Waits(a.w.ctxs[ctx])
  BY SelectedOK DEF Selected
<1>3. InStep(a.file, a.w)
  BY RecordedOpen, SelectedOK DEF OpenInStep
<1> HIDE DEF a, ctx
<1>4. Flush(a, ctx, fault).ok
  BY DEF a, ctx
<1>5. LET r == Flush(a, ctx, fault)
      IN  a.ok /\ After(a, r, ctx) /\ Carries(a, r) /\ Emptied(a, r, ctx)
  BY <1>1, <1>2, <1>3, <1>4, FlushCarries
<1> QED  BY <1>5 DEF a, ctx

\* The context after a change of a definition.
RedefinedAs(b, r, j) ==
  /\ WithContext(b.w, b.w.sel, j, b.w.recs, r.w) /\ r.file = b.file
  /\ j.toff = 0 /\ j.last = NoTmplt /\ DefsOK(j.tmplts)
  /\ j.buf = b.w.ctxs[b.w.sel].buf /\ j.main = b.w.ctxs[b.w.sel].main
  /\ j.req = b.w.ctxs[b.w.sel].req
OnSelected(b) == AOK(b) /\ b.ok /\ b.w.sel \in DOMAIN b.w.ctxs

\* A change of definitions behind a flush has this form.
LEMMA RedefinedIs ==
  ASSUME NEW b, OnSelected(b), NEW tid \in TIDs, NEW def \in Defs \cup {NoDef}
  PROVE  \E j : RedefinedAs(b, Redefined(b, tid, def), j)
<1> DEFINE w == b.w
           ctx == w.sel
           i == w.ctxs[ctx]
           t == [i.tmplts EXCEPT ![tid] = def]
           j == [i EXCEPT !.tmplts[tid] = def, !.toff = 0, !.last = NoTmplt]
           v == [w EXCEPT !.ctxs[ctx] = j]
           r == Redefined(b, tid, def)
<1>0. AOK(b) /\ b.ok /\ b.w.sel \in DOMAIN b.w.ctxs
  BY DEF OnSelected
<1>1. b = [file |-> b.file, w |-> b.w, ok |-> b.ok] /\ WriterOK(w) /\ b.ok = TRUE
  BY <1>0 DEF AOK
<1>2. ContextOK(i, w.off)
  BY <1>0, <1>1 DEF WriterOK
<1>3. r = [b EXCEPT !.w.ctxs[b.w.sel] = j]
  BY <1>0 DEF Redefined
<1>4. r = [b EXCEPT !.w = v]
  BY <1>3
<1> HIDE DEF r
<1>5. r.file = b.file /\ r.w = v /\ r.ok = TRUE
  <2> HIDE DEF v
  <2> QED  BY <1>1, <1>4
<1>6. WithContext(w, ctx, j, w.recs, v)
  <2> HIDE DEF w, j
  <2> QED  BY <1>0, <1>1, ContextChanged DEF w
<1>7. /\ j.toff = 0 /\ j.last = NoTmplt /\ j.tmplts = t
      /\ j.buf = i.buf /\ j.main = i.main /\ j.req = i.req
  <2>1. i = [toff |-> i.toff, tmplts |-> i.tmplts, last |-> i.last, etime |-> i.etime,
             buf |-> i.buf, main |-> i.main, req |-> i.req]
    BY <1>2, ContextFields
  <2>2. j = [i EXCEPT !.tmplts = t, !.toff = 0, !.last = NoTmplt]
    OBVIOUS
  <2> HIDE DEF i, j, t
  <2>5. j = [toff |-> 0, tmplts |-> t, last |-> NoTmplt, etime |-> i.etime,
             buf |-> i.buf, main |-> i.main, req |-> i.req]
    BY <2>1, <2>2
  <2> QED  BY <2>5
<1>8. DefsOK(t)
  BY <1>2 DEF ContextOK, DefsOK
<1> QED  BY <1>5, <1>6, <1>7, <1>8 DEF r, RedefinedAs

\* A writer left alone is retold.
LEMMA RetoldItself ==
  ASSUME NEW f, NEW w, Good(f, w), InStep(f, w)
  PROVE  Retold(f, w, f, w)
BY DEF Retold, Follows, Kept, SameFlight, InStep

\* A call that ends with what its flush left.
LEMMA FlushEndsRecorded ==
  ASSUME FInv, Recorded, ~lost, NEW h \in Handles, writers[h].st = "open",
         NEW a, After(Start(h), a, writers[h].sel), Carries(Start(h), a),
         NEW code, Ends(h, a, code), code # "INTERNAL", log' = log
  PROVE  Recorded'
<1>1. Shaped(a.w) /\ Good(a.file, a.w)
  BY DEF After, AOK, WriterOK, Shaped, Good
<1>2. file' = a.file /\ lock' = lock /\ writers' = [writers EXCEPT ![h] = a.w]
  BY <1>1, EndsWith
<1>3. InStep(a.file, a.w)
  BY DEF Carries
<1>4. Retold(a.file, a.w, file', a.w)
  BY <1>1, <1>2, <1>3, RetoldItself
<1>5. a.w.st = "open"
  BY DEF After, Start
<1> QED  BY <1>2, <1>4, <1>5, FlushedRecorded

\* A call that changes a context after its flush, but none of its records.
LEMMA FlushChangedRecorded ==
  ASSUME FInv, FInv', Recorded, ~lost, NEW h \in Handles, writers[h].st = "open",
         NEW a, After(Start(h), a, writers[h].sel), Carries(Start(h), a),
         NEW ctx \in DOMAIN a.w.ctxs, NEW j, NEW r, r.file = a.file,
         WithContext(a.w, ctx, j, a.w.recs, r.w),
         KeepsRecords(a.w.ctxs[ctx], j), CtxInStep(a.file, j),
         NEW code, Ends(h, r, code), code # "INTERNAL", log' = log
  PROVE  Recorded'
<1>1. Good(a.file, a.w)
  BY DEF After, AOK, Good
<1>2. Shaped(r.w) /\ r.w.st = "open" /\ r.w.recs = a.w.recs
  BY DEF WithContext, After, Start
<1>3. file' = a.file /\ lock' = lock /\ writers' = [writers EXCEPT ![h] = r.w]
  BY <1>2, EndsWith
<1>4. writers'[h] = r.w
  BY <1>3 DEF FInv
<1>5. Good(a.file, r.w)
  <2>1. r.w.st # "closed"
    BY <1>2
  <2>2. Good(file', r.w)
    BY <1>4, <2>1, NextGood
  <2> QED  BY <1>3, <2>2
<1>6. InStep(a.file, a.w)
  BY DEF Carries
<1>7. Retold(a.file, a.w, a.file, r.w)
  BY <1>1, <1>5, <1>6, ContextRetold
<1>8. Retold(a.file, a.w, file', r.w)
  BY <1>3, <1>7
<1> QED  BY <1>2, <1>3, <1>8, FlushedRecorded

\* A definition is changed once the buffered records that use it are flushed.
LEMMA RedefiningRecorded ==
  ASSUME FInv, FInv', Recorded, NEW h \in Handles, writers[h].st = "open", writers[h].sel # NoCtx,
         NEW tid \in TIDs, NEW def \in Defs \cup {NoDef, Malformed}, Redefining(h, tid, def)
  PROVE  Recorded'
<1>1. PICK fault \in FlushFaults(h) :
        LET a == IF def = Malformed THEN Flush(Start(h), writers[h].sel, fault)
                 ELSE Redefine(Start(h), tid, def, fault)
        IN  /\ UNCHANGED log
            /\ Ends(h, a, IF ~a.ok THEN "INTERNAL" ELSE IF def = Malformed THEN "FORMAT" ELSE "OK")
  BY DEF Redefining
<1> DEFINE sel == writers[h].sel
           b == Flush(Start(h), sel, fault)
           a == IF def = Malformed THEN Flush(Start(h), writers[h].sel, fault)
                ELSE Redefine(Start(h), tid, def, fault)
           code == IF ~a.ok THEN "INTERNAL" ELSE IF def = Malformed THEN "FORMAT" ELSE "OK"
<1>2. ~Waits(Selected(h))
  BY DEF Redefining
<1>3. Start(h).w.sel = sel /\ log' = log
  BY <1>1, SelectedOK
<1>4. Ends(h, a, code)
  BY <1>1
<1>5. code = "INTERNAL" => lost'
  BY <1>4 DEF Ends
<1>6. lost' = (lost \/ code = "INTERNAL")
  BY <1>4 DEF Ends
<1>7. CASE lost'
  BY <1>7, LostRecorded
<1>8. ASSUME ~lost' PROVE Recorded'
  <2>1. ~lost /\ code # "INTERNAL"
    BY <1>6, <1>8
  <2>2. a.ok
    BY <2>1
  <2>3. a = IF def = Malformed THEN b ELSE Redefined(b, tid, def)
    BY <1>3 DEF Redefine
  <2>4. b.ok
    <3> HIDE DEF a, b
    <3> QED  BY <2>2, <2>3 DEF Redefined
  <2>5. After(Start(h), b, sel) /\ Carries(Start(h), b) /\ Emptied(Start(h), b, sel)
    <3>1. Flush(Start(h), writers[h].sel, fault).ok
      BY <2>4
    <3> QED  BY <1>2, <2>1, <3>1, FlushOfSelected
  <2> HIDE DEF a, b, code
  <2>6. CASE def = Malformed
    <3>1. Ends(h, b, code)
      BY <1>4, <2>3, <2>6
    <3> QED  BY <1>3, <2>1, <2>5, <3>1, FlushEndsRecorded
  <2>7. CASE def # Malformed
    <3>1. a = Redefined(b, tid, def) /\ def \in Defs \cup {NoDef}
      BY <2>3, <2>7
    <3>2. /\ AOK(b) /\ WriterOK(b.w) /\ b.w.sel = sel /\ b.w.sel \in DOMAIN b.w.ctxs
          /\ ContextOK(b.w.ctxs[b.w.sel], b.w.off)
      BY <2>5, FlushedContext
    <3>6. OnSelected(b)
      BY <2>4, <3>2 DEF OnSelected
    <3>7. PICK j : RedefinedAs(b, a, j)
      BY <3>1, <3>6, RedefinedIs
    <3>3. /\ WithContext(b.w, b.w.sel, j, b.w.recs, a.w) /\ a.file = b.file
          /\ j.toff = 0 /\ j.last = NoTmplt /\ DefsOK(j.tmplts)
          /\ j.buf = b.w.ctxs[b.w.sel].buf /\ j.main = b.w.ctxs[b.w.sel].main
          /\ j.req = b.w.ctxs[b.w.sel].req
      BY <3>7 DEF RedefinedAs
    <3>4. Rewritten(b.w.ctxs[b.w.sel], j)
      BY <2>5, <3>2, <3>3 DEF Rewritten, Emptied, ContextOK, DefsOK
    <3>5. CtxInStep(b.file, j) /\ KeepsRecords(b.w.ctxs[b.w.sel], j)
      BY <3>4, NoDefinitionsUsed
    <3> QED  BY <1>3, <1>4, <2>1, <2>5, <3>2, <3>3, <3>5, FlushChangedRecorded
  <2> QED  BY <2>6, <2>7
<1> QED  BY <1>7, <1>8

\* fds_file_write_tmplt_add() and _remove(), with all their outcomes.
LEMMA TemplateCallsRecorded ==
  ASSUME FInv, FInv', Recorded, NEW h \in Handles, writers[h].st = "open", NEW tid \in TIDs,
         TmpltRemove(h, tid) \/ \E def \in Defs \cup {Malformed} : TmpltAdd(h, tid, def)
  PROVE  Recorded'
<1>1. CASE \E code : Returns(h, code)
  BY <1>1, NothingRecorded DEF Returns
<1>2. ASSUME writers[h].sel # NoCtx, NEW def \in Defs \cup {NoDef, Malformed}, Redefining(h, tid, def)
      PROVE  Recorded'
  BY <1>2, RedefiningRecorded
<1>3. ASSUME TmpltRemove(h, tid) PROVE Recorded'
  BY <1>1, <1>2, <1>3 DEF TmpltRemove, NotSelected
<1>4. ASSUME NEW def \in Defs \cup {Malformed}, TmpltAdd(h, tid, def) PROVE Recorded'
  <2>1. CASE /\ writers[h].sel # NoCtx /\ Selected(h).tmplts[tid] = NoDef
             /\ writers' = [writers EXCEPT ![h].ctxs[writers[h].sel] =
                              [@ EXCEPT !.tmplts[tid] = def, !.toff = 0]]
             /\ UNCHANGED <<file, lock, log, lost>>
    BY <2>1, TmpltAddRecorded
  <2>2. CASE writers[h].sel # NoCtx /\ Redefining(h, tid, def)
    BY <1>2, <2>2
  <2> QED  BY <1>1, <1>4, <2>1, <2>2 DEF TmpltAdd, NotSelected
<1> QED  BY <1>3, <1>4

-----------------------------------------------------------------------------
(* Records. *)

AllDefined(msgs, defs) == \A m \in 1..Len(msgs) : Defined(msgs[m], defs)

\* Templates of a sequence of messages, message by message.
LEMMA AllDefinedAppend ==
  ASSUME NEW msgs \in Seq(Messages), NEW m \in Messages, NEW defs
  PROVE  AllDefined(Append(msgs, m), defs) <=> AllDefined(msgs, defs) /\ Defined(m, defs)
<1> DEFINE n == Len(msgs)
           t == Append(msgs, m)
<1>1. n \in Nat /\ Len(t) = n + 1 /\ t[n + 1] = m /\ \A i \in 1..n : t[i] = msgs[i]
  BY AppendProperties, LenProperties
<1> HIDE DEF t
<1>2. \A i \in 1..(n + 1) : i = n + 1 \/ i \in 1..n
  BY <1>1
<1>3. \A i \in 1..n : i \in 1..(n + 1)
  BY <1>1
<1>4. n + 1 \in 1..(n + 1)
  BY <1>1
<1> HIDE DEF n
<1>5. AllDefined(msgs, defs) <=> \A i \in 1..n : Defined(msgs[i], defs)
  BY DEF AllDefined, n
<1>6. AllDefined(t, defs) <=> \A i \in 1..(n + 1) : Defined(t[i], defs)
  BY <1>1 DEF AllDefined
<1> QED  BY <1>1, <1>2, <1>3, <1>4, <1>5, <1>6 DEF t

\* A record with a template may be added.
LEMMA LongerDefined ==
  ASSUME NEW msgs \in Seq(Messages), msgs # <<>>, NEW r \in Records, NEW defs,
         AllDefined(msgs, defs), defs[r.tid] # NoDef
  PROVE  AllDefined(Longer(msgs, r), defs)
<1>1. PICK front \in Seq(Messages), m \in Messages :
        /\ msgs = Append(front, m) /\ m = LastMsg([msgs |-> msgs])
        /\ Longer(msgs, r) = Append(front, [m EXCEPT !.recs = Append(@, r)])
        /\ [m EXCEPT !.recs = Append(@, r)] \in Messages
  BY LongerIs
<1> DEFINE q == [m EXCEPT !.recs = Append(@, r)]
<1>2. q.recs = Append(m.recs, r) /\ q \in Messages
  BY MessageGrows
<1>3. AllDefined(front, defs) /\ Defined(m, defs)
  BY <1>1, AllDefinedAppend
<1>4. Defined(q, defs)
  <2>1. m.recs \in Seq(Records)
    BY DEF Messages
  <2> DEFINE s == m.recs
             n == Len(s)
  <2> HIDE DEF q
  <2>2. /\ n \in Nat /\ Len(q.recs) = n + 1 /\ q.recs[n + 1] = r
        /\ \A k \in 1..n : q.recs[k] = s[k]
    BY <1>2, <2>1, AppendProperties, LenProperties
  <2>3. \A k \in 1..n : defs[s[k].tid] # NoDef
    BY <1>3 DEF Defined
  <2> HIDE DEF n, s
  <2>4. ASSUME NEW k \in 1..Len(q.recs) PROVE defs[q.recs[k].tid] # NoDef
    <3>1. CASE k = n + 1
      BY <2>2, <3>1
    <3>2. CASE k # n + 1
      <4>1. k \in 1..n
        BY <2>2, <3>2
      <4> QED  BY <2>2, <2>3, <4>1
    <3> QED  BY <3>1, <3>2
  <2>5. q.recs # <<>>
    <3>1. q.recs \in Seq(Records)
      BY <1>2 DEF Messages
    <3> QED  BY <2>2, <3>1, EmptySeq
  <2> QED  BY <2>4, <2>5 DEF Defined
<1>5. Longer(msgs, r) = Append(front, q)
  BY <1>1
<1> HIDE DEF q
<1>6. AllDefined(Append(front, q), defs)
  BY <1>2, <1>3, <1>4, AllDefinedAppend
<1> QED  BY <1>5, <1>6

\* What a record will be decoded as.
Outcome(rec, etime, defs) == [n |-> rec.n, def |-> defs[rec.tid], etime |-> etime]

Accepts(b, rec, etime, defs) ==
  /\ BufferOK(b) /\ rec \in Records /\ etime \in ETimes
  /\ DefsOK(defs) /\ AllDefined(b.msgs, defs) /\ defs[rec.tid] # NoDef

\* A record put into a buffer comes last, decoded by its template.
LEMMA RecordAdded ==
  ASSUME NEW b, NEW rec, NEW etime, NEW defs, Accepts(b, rec, etime, defs), NEW len
  PROVE  LET c == AddRecord(b, rec, etime, len)
         IN  /\ AllDefined(c.msgs, defs)
             /\ Decoded(c.msgs, defs) = Append(Decoded(b.msgs, defs), Outcome(rec, etime, defs))
<1> DEFINE c == AddRecord(b, rec, etime, len)
           x == Outcome(rec, etime, defs)
           D == Decoded(b.msgs, defs)
<1>1. /\ rec \in Records /\ etime \in ETimes /\ b.msgs \in Seq(Messages)
      /\ DefsOK(defs) /\ AllDefined(b.msgs, defs) /\ defs[rec.tid] # NoDef
      /\ b = [msgs |-> b.msgs, len |-> b.len, msg |-> b.msg, toff |-> b.toff]
  BY DEF Accepts, BufferOK
<1>2. D \in Seq(Outcomes)
  BY <1>1, DecodedTyped
<1>3. x \in Outcomes
  BY <1>1 DEF Outcome, Outcomes, DefsOK, Records
<1>4. CASE NewMessage(b, rec.tid, etime, len)
  <2> DEFINE m == [etime |-> etime, recs |-> <<rec>>]
             msgs == Append(b.msgs, m)
             l == b.len + MsgHdr + SetHdr + len
  <2>1. <<rec>> \in Seq(Records) /\ Len(<<rec>>) = 1 /\ <<rec>>[1] = rec /\ <<rec>> # <<>>
    BY <1>1
  <2>2. m \in Messages /\ m.recs = <<rec>> /\ m.etime = etime
    BY <1>1, <2>1 DEF Messages
  <2>3. c = [b EXCEPT !.msgs = msgs, !.msg = b.len, !.len = l]
    BY <1>4 DEF AddRecord
  <2>4. c.msgs = msgs
    <3> HIDE DEF c, msgs, l
    <3> QED  BY <1>1, <2>3
  <2>5. Defined(m, defs)
    <3> HIDE DEF m
    <3> QED  BY <1>1, <2>1, <2>2 DEF Defined
  <2>6. MsgOut(m, defs) = <<x>>
    <3> HIDE DEF m
    <3>1. MsgOut(m, defs) = [k \in 1..1 |-> RecOut(m, <<rec>>[k], defs)]
      BY <2>1, <2>2 DEF MsgOut
    <3>2. RecOut(m, <<rec>>[1], defs) = x
      BY <2>1, <2>2 DEF RecOut, Outcome
    <3> HIDE DEF x
    <3>3. \A k \in 1..1 : RecOut(m, <<rec>>[k], defs) = x
      BY <3>2
    <3>4. MsgOut(m, defs) = [k \in 1..1 |-> x]
      BY <3>1, <3>3
    <3>5. [k \in 1..1 |-> x] = <<x>>
      OBVIOUS
    <3> QED  BY <3>4, <3>5
  <2> HIDE DEF m, c, x
  <2>7. Decoded(msgs, defs) = D \o MsgOut(m, defs)
    BY <1>1, <2>2, DecodedAppend
  <2> HIDE DEF D
  <2>8. D \o <<x>> = Append(D, x)
    BY <1>2, <1>3, AppendIsConcat
  <2>9. AllDefined(msgs, defs)
    BY <1>1, <2>2, <2>5, AllDefinedAppend
  <2> QED  BY <2>4, <2>6, <2>7, <2>8, <2>9 DEF D, c, x
<1>5. CASE ~NewMessage(b, rec.tid, etime, len)
  <2> DEFINE msgs == Longer(b.msgs, rec)
             l == b.len + len + IF LastRec(b).tid = rec.tid THEN 0 ELSE SetHdr
  <2>1. b.msgs # <<>> /\ LastMsg(b).etime = etime
    BY <1>5 DEF NewMessage
  <2>2. c = [b EXCEPT !.msgs = msgs, !.len = l]
    BY <1>5 DEF AddRecord, Longer
  <2>3. c.msgs = msgs
    <3> HIDE DEF c, msgs, l
    <3> QED  BY <1>1, <2>2
  <2> HIDE DEF c
  <2>4. Decoded(msgs, defs) = Append(D, RecOut(LastMsg([msgs |-> b.msgs]), rec, defs))
    BY <1>1, <2>1, DecodedLonger
  <2>5. RecOut(LastMsg([msgs |-> b.msgs]), rec, defs) = x
    BY <2>1 DEF RecOut, Outcome, LastMsg
  <2>6. AllDefined(msgs, defs)
    BY <1>1, <2>1, LongerDefined
  <2> QED  BY <2>3, <2>4, <2>5, <2>6 DEF c
<1> QED  BY <1>4, <1>5

\* Appending to the second of two sequences appends to both.
LEMMA ConcatAppend ==
  ASSUME NEW T, NEW s \in Seq(T), NEW t \in Seq(T), NEW x \in T
  PROVE  s \o Append(t, x) = Append(s \o t, x)
<1>1. <<x>> \in Seq(T) /\ s \o t \in Seq(T)
  BY ConcatProperties
<1>2. Append(t, x) = t \o <<x>> /\ Append(s \o t, x) = (s \o t) \o <<x>>
  BY <1>1, AppendIsConcat
<1>3. (s \o t) \o <<x>> = s \o (t \o <<x>>)
  BY <1>1, ConcatAssociative
<1> QED  BY <1>2, <1>3

\* A record more in the buffer of a context.
Gains(i, j, x) ==
  /\ j.req = i.req
  /\ j.req.st = "started" => FlightMsgs(j) = FlightMsgs(i)
  /\ Decoded(Main(i).msgs, i.tmplts) \in Seq(Outcomes) /\ x \in Outcomes
  /\ Decoded(Main(j).msgs, j.tmplts) = Append(Decoded(Main(i).msgs, i.tmplts), x)

\* What a file and a writer hold before and after a record was accepted.
Gained(f, w, v, ctx, x) ==
  /\ v.sessions = w.sessions
  /\ Held(f, v, ctx) = Append(Held(f, w, ctx), x)
  /\ \A c \in Ctxs : c # ctx => Held(f, v, c) = Held(f, w, c)

\* A record gained by a buffer is gained by its context, and by no other one.
LEMMA ContextGains ==
  ASSUME NEW f, NEW w, NEW v, Good(f, w), Good(f, v), InStep(f, w), NEW ctx \in DOMAIN w.ctxs,
         NEW j, NEW recs, WithContext(w, ctx, j, recs, v), NEW x, Gains(w.ctxs[ctx], j, x), CtxInStep(f, j)
  PROVE  InStep(f, v) /\ Gained(f, w, v, ctx, x)
<1> DEFINE i == w.ctxs[ctx]
           D == Decoded(Main(i).msgs, i.tmplts)
<1>0. /\ v.sessions = w.sessions /\ v.table = w.table /\ v.ctxs[ctx] = j /\ OthersSame(w, v, ctx)
  BY DEF WithContext
<1>1. Follows(f, w, f, v)
  BY <1>0 DEF Follows, Kept
<1>2. \A c \in DOMAIN v.ctxs : CtxInStep(f, v.ctxs[c])
  BY <1>0 DEF InStep, OthersSame
<1>3. ctx \in DOMAIN v.ctxs /\ SameFlight(w, v, ctx)
  BY <1>0 DEF SameFlight, Gains, Pending, From, OthersSame
<1>4. ASSUME NEW c, c # ctx PROVE SameFlight(w, v, c) /\ Buffered(v, c) = Buffered(w, c)
  BY <1>0, <1>4, OtherFlights
<1>5. \A c \in Ctxs : SameFlight(w, v, c)
  BY <1>3, <1>4
<1>6. InStep(f, v) /\ \A c : Recs(f, v, c) = Recs(f, w, c)
  BY <1>0, <1>1, <1>2, <1>5, SameTable
<1>7. \A c \in Ctxs : c # ctx => Held(f, v, c) = Held(f, w, c)
  BY <1>4, <1>6, HeldSame
<1>8. Buffered(w, ctx) = D /\ Buffered(v, ctx) = Append(D, x) /\ D \in Seq(Outcomes) /\ x \in Outcomes
  <2>1. Buffered(w, ctx) = D
    BY DEF Buffered
  <2>2. Buffered(v, ctx) = Decoded(Main(j).msgs, j.tmplts)
    BY <1>0, <1>3 DEF Buffered
  <2> QED  BY <2>1, <2>2 DEF Gains
<1> HIDE DEF D
<1>9. Recs(f, w, ctx) \in Seq(Outcomes)
  BY PartsTyped DEF Good, WriterOK, InStep, AllStored
<1>10. Recs(f, w, ctx) \o Append(D, x) = Append(Recs(f, w, ctx) \o D, x)
  BY <1>8, <1>9, ConcatAppend
<1>11. Held(f, v, ctx) = Append(Held(f, w, ctx), x)
  BY <1>6, <1>8, <1>10, HeldIs
<1> QED  BY <1>0, <1>6, <1>7, <1>11 DEF Gained

\* ... and the history with it.
Logging(w, ctx, x, l, m) ==
  /\ l \in Logs /\ ctx \in Ctxs /\ ctx[1] \in DOMAIN w.sessions
  /\ DOMAIN w.sessions \subseteq 1..SidMax /\ w.sessions \in [DOMAIN w.sessions -> Dscs]
  /\ m = [l EXCEPT ![KeyOf(w, ctx)] = Append(@, x)]

\* The log grows with it, at its key only.
LEMMA LogGains ==
  ASSUME NEW f, NEW w, NEW v, NEW ctx, NEW x, NEW l, NEW m,
         SessionsInStep(f, w), LogInStep(f, w, l), Gained(f, w, v, ctx, x), Logging(w, ctx, x, l, m)
  PROVE  LogInStep(f, v, m) /\ LogGrew(l, m, KeyOf(w, ctx))
<1> DEFINE key == KeyOf(w, ctx)
           T == [n : Nat, def : Defs, etime : ETimes]
<1>1. /\ l \in Logs /\ ctx \in Ctxs /\ ctx[1] \in DOMAIN w.sessions
      /\ DOMAIN w.sessions \subseteq 1..SidMax /\ w.sessions \in [DOMAIN w.sessions -> Dscs]
      /\ m = [l EXCEPT ![key] = Append(l[key], x)]
  BY DEF Logging
<1>2. ctx = <<ctx[1], ctx[2]>> /\ ctx[2] \in ODIDs
  BY <1>1 DEF Ctxs
<1>3. key = <<w.sessions[ctx[1]], ctx[2]>>
  BY DEF KeyOf
<1>4. key \in Keys
  BY <1>1, <1>2, <1>3 DEF Keys
<1>5. \A k \in Keys : l[k] \in Seq(T)
  BY <1>1 DEF Logs
<1> HIDE DEF key, T
<1>6. m[key] = Append(l[key], x) /\ \A k \in Keys : k # key => m[k] = l[k]
  BY <1>1, <1>4 DEF Logs
<1>7. LogGrew(l, m, key)
  <2>1. \A k \in Keys : Len(l[k]) \in Nat
    BY <1>5, LenProperties
  <2>2. Len(m[key]) = Len(l[key]) + 1
    <3>1. l[key] \in Seq(T \cup {x}) /\ x \in T \cup {x}
      <4>1. T \subseteq T \cup {x}
        OBVIOUS
      <4> QED  BY <1>4, <1>5, <4>1, SeqMonotonic
    <3> QED  BY <1>6, <3>1, AppendProperties
  <2> QED  BY <1>4, <1>6, <2>1, <2>2 DEF LogGrew
<1>8. v.sessions = w.sessions /\ \A c : KeyOf(v, c) = KeyOf(w, c)
  BY DEF Gained, KeyOf
<1>9. ASSUME NEW sid \in DOMAIN v.sessions, NEW odid \in ODIDs
      PROVE  m[KeyOf(v, <<sid, odid>>)] = Held(f, v, <<sid, odid>>)
  <2> DEFINE c == <<sid, odid>>
  <2>1. c \in Ctxs /\ sid \in DOMAIN w.sessions
    BY <1>1, <1>8 DEF Ctxs
  <2>2. KeyOf(w, c) = <<w.sessions[sid], odid>>
    BY KeyIs
  <2>3. l[KeyOf(w, c)] = Held(f, w, c)
    BY <2>1 DEF LogInStep
  <2>4. KeyOf(w, c) \in Keys
    BY <1>1, <2>1, <2>2 DEF Keys
  <2>5. CASE c = ctx
    <3> HIDE DEF c
    <3>1. m[KeyOf(v, c)] = Held(f, v, c)
      BY <1>6, <1>8, <2>3, <2>5 DEF Gained, key
    <3> QED  BY <3>1 DEF c
  <2>6. CASE c # ctx
    <3>1. KeyOf(w, c) # key
      <4>1. \A j, k \in DOMAIN w.sessions : w.sessions[j] = w.sessions[k] => j = k
        BY DEF SessionsInStep
      <4>2. sid # ctx[1] \/ odid # ctx[2]
        BY <1>2, <2>6
      <4> QED  BY <1>1, <1>3, <2>1, <2>2, <4>1, <4>2
    <3> HIDE DEF c
    <3>2. m[KeyOf(v, c)] = Held(f, v, c)
      BY <1>6, <1>8, <2>1, <2>3, <2>4, <2>6, <3>1 DEF Gained
    <3> QED  BY <3>2 DEF c
  <2> QED  BY <2>5, <2>6
<1>10. ASSUME NEW k \in Keys, \A sid \in DOMAIN v.sessions : v.sessions[sid] # k[1]
       PROVE  m[k] = <<>>
  <2>1. k # key
    <3>1. key[1] = w.sessions[ctx[1]]
      BY <1>3
    <3> QED  BY <1>1, <1>8, <1>10, <3>1
  <2>2. l[k] = <<>>
    BY <1>8, <1>10 DEF LogInStep
  <2> QED  BY <1>6, <2>1, <2>2
<1> QED  BY <1>7, <1>9, <1>10 DEF LogInStep, key

\* The template a record is written with is that of its context.
RightTemplate(i, tid, tmplt) ==
  tmplt.tid = tid /\ tmplt.def = i.tmplts[tid] /\ tmplt.def # NoDef

\* The template found or remembered for a record is the one its ID has.
LEMMA TemplateIsRight ==
  ASSUME NEW f, NEW i, CtxInStep(f, i), NEW tid, TemplateOf(i, tid).def # NoDef
  PROVE  RightTemplate(i, tid, TemplateOf(i, tid))
<1>1. CASE i.last # NoTmplt /\ i.last.tid = tid
  BY <1>1 DEF TemplateOf, RightTemplate, CtxInStep
<1>2. CASE ~(i.last # NoTmplt /\ i.last.tid = tid)
  <2>1. TemplateOf(i, tid) = [tid |-> tid, def |-> i.tmplts[tid]]
    BY <1>2 DEF TemplateOf
  <2> QED  BY <2>1 DEF RightTemplate
<1> QED  BY <1>1, <1>2

\* The template used last is another one.
LEMMA LastIsRight ==
  ASSUME NEW i, NEW off, ContextOK(i, off), NEW tid, NEW tmplt, RightTemplate(i, tid, tmplt),
         NEW f, CtxInStep(f, i)
  PROVE  LET j == [i EXCEPT !.last = tmplt]
         IN  CtxInStep(f, j) /\ KeepsRecords(i, j)
<1> DEFINE j == [i EXCEPT !.last = tmplt]
<1>1. i = [toff |-> i.toff, tmplts |-> i.tmplts, last |-> i.last, etime |-> i.etime,
           buf |-> i.buf, main |-> i.main, req |-> i.req]
  BY ContextFields
<1>2. j.toff = i.toff /\ j.tmplts = i.tmplts /\ j.last = tmplt /\ j.buf = i.buf /\ j.main = i.main
      /\ j.req = i.req
  BY <1>1
<1> HIDE DEF j
<1>3. Main(j) = Main(i) /\ FlightMsgs(j) = FlightMsgs(i) /\ Count(j) = Count(i)
  BY <1>2 DEF Main, FlightMsgs, Count
<1>4. CtxInStep(f, j)
  BY <1>2, <1>3 DEF CtxInStep, RightTemplate
<1>5. KeepsRecords(i, j)
  BY <1>2, <1>3 DEF KeepsRecords
<1> QED  BY <1>4, <1>5 DEF j

\* A record in the buffer of a context.
Receives(f, i, off, tid, tmplt, n) ==
  ContextOK(i, off) /\ CtxInStep(f, i) /\ tid \in TIDs /\ n \in Nat /\ RightTemplate(i, tid, tmplt)
Received(i, tid, tmplt, n, len) ==
  [i EXCEPT !.last = tmplt, !.buf[i.main] = AddRecord(@, [tid |-> tid, n |-> n], i.etime, len)]

\* The buffer of a context gains the record it is given.
LEMMA BufferGains ==
  ASSUME NEW f, NEW i, NEW off, NEW tid, NEW tmplt, NEW n, Receives(f, i, off, tid, tmplt, n), NEW len
  PROVE  LET j == Received(i, tid, tmplt, n, len)
         IN  CtxInStep(f, j) /\ Gains(i, j, [n |-> n, def |-> tmplt.def, etime |-> i.etime])
<1> DEFINE rec == [tid |-> tid, n |-> n]
           x == [n |-> n, def |-> tmplt.def, etime |-> i.etime]
           b == AddRecord(Main(i), rec, i.etime, len)
           s == [i.buf EXCEPT ![i.main] = b]
           j == Received(i, tid, tmplt, n, len)
<1>0. ContextOK(i, off) /\ CtxInStep(f, i) /\ tid \in TIDs /\ n \in Nat /\ RightTemplate(i, tid, tmplt)
  BY DEF Receives
<1>1. /\ i = [toff |-> i.toff, tmplts |-> i.tmplts, last |-> i.last, etime |-> i.etime,
              buf |-> i.buf, main |-> i.main, req |-> i.req]
      /\ i.main \in {1, 2} /\ OtherBuffer(i) # i.main /\ i.buf = <<i.buf[1], i.buf[2]>>
      /\ OtherBuffer(i) \in {1, 2} /\ BufferOK(Main(i))
  BY <1>0, ContextFields
<1>2. DefsOK(i.tmplts) /\ i.etime \in ETimes /\ (i.req.st = "started" => i.req.buf = OtherBuffer(i))
  BY <1>0 DEF ContextOK, DefsOK
<1>3. j = [i EXCEPT !.last = tmplt, !.buf = s]
  BY DEF Received, Main
<1>4. s[i.main] = b /\ \A k \in {1, 2} : k # i.main => s[k] = i.buf[k]
  <2>1. DOMAIN i.buf = {1, 2}
    BY <1>1
  <2> HIDE DEF b
  <2> QED  BY <1>1, <2>1
<1>5. rec.tid = tid /\ rec.n = n /\ rec \in Records
  BY <1>0 DEF Records
<1>6. Outcome(rec, i.etime, i.tmplts) = x
  BY <1>0 DEF Outcome, RightTemplate
<1>11. x \in Outcomes
  BY <1>0, <1>2 DEF Outcomes, RightTemplate, DefsOK
<1> HIDE DEF s, j, rec, x
<1>7. /\ j.toff = i.toff /\ j.tmplts = i.tmplts /\ j.last = tmplt /\ j.buf = s /\ j.main = i.main
      /\ j.req = i.req
  BY <1>1, <1>3
<1>8. Accepts(Main(i), rec, i.etime, i.tmplts)
  BY <1>0, <1>1, <1>2, <1>5 DEF Accepts, AllDefined, CtxInStep, Count, RightTemplate
<1>9. /\ AllDefined(b.msgs, i.tmplts)
      /\ Decoded(b.msgs, i.tmplts) = Append(Decoded(Main(i).msgs, i.tmplts), x)
  BY <1>6, <1>8, RecordAdded
<1> HIDE DEF b
<1>10. Main(j) = b
  BY <1>4, <1>7 DEF Main
<1>12. CtxInStep(f, j)
  BY <1>0, <1>7, <1>9, <1>10 DEF CtxInStep, AllDefined, Count, RightTemplate
<1>13. j.req.st = "started" => FlightMsgs(j) = FlightMsgs(i)
  BY <1>1, <1>2, <1>4, <1>7 DEF FlightMsgs
<1>14. Decoded(Main(i).msgs, i.tmplts) \in Seq(Outcomes)
  BY <1>1, <1>2, DecodedTyped DEF BufferOK
<1>15. Gains(i, j, x)
  BY <1>7, <1>9, <1>10, <1>11, <1>13, <1>14 DEF Gains
<1> QED  BY <1>12, <1>15 DEF j, x

\* What the history says of a writer after a flush.
LEMMA CarriedLog ==
  ASSUME FInv, Recorded, ~lost, NEW h \in Handles, writers[h].st = "open", NEW a, Carries(Start(h), a)
  PROVE  /\ InStep(a.file, a.w) /\ LogInStep(a.file, a.w, log) /\ a.w.recs = Total(log)
         /\ DOMAIN a.w.sessions \subseteq 1..SidMax
<1>1. OpenInStep(file, writers[h], log) /\ writers[h].recs = Total(log)
  BY RecordedOpen
<1>2. Start(h).file = file /\ Start(h).w = writers[h]
  BY DEF Start
<1>3. /\ InStep(a.file, a.w) /\ a.w.sessions = writers[h].sessions /\ a.w.recs = writers[h].recs
      /\ \A c \in Ctxs : Held(a.file, a.w, c) = Held(file, writers[h], c)
  BY <1>2 DEF Carries
<1>4. DOMAIN writers[h].sessions \subseteq 1..SidMax /\ LogInStep(file, writers[h], log)
  BY <1>1, OpenHandle DEF WriterOK, OpenInStep
<1>5. LogInStep(a.file, a.w, log)
  BY <1>3, <1>4, LogSame
<1> QED  BY <1>1, <1>3, <1>4, <1>5

\* A record was accepted.
LEMMA AcceptedRecorded ==
  ASSUME FInv, FInv', Recorded, ~lost, NEW h \in Handles, writers[h].st = "open",
         NEW a, After(Start(h), a, writers[h].sel), Carries(Start(h), a),
         NEW ctx, ctx \in DOMAIN a.w.ctxs, ctx \in Ctxs, ctx[1] \in DOMAIN a.w.sessions,
         NEW j, NEW x, CtxInStep(a.file, j), Gains(a.w.ctxs[ctx], j, x),
         NEW r, r.file = a.file, WithContext(a.w, ctx, j, a.w.recs + 1, r.w),
         Ends(h, r, "OK"), log' = [log EXCEPT ![KeyOf(a.w, ctx)] = Append(@, x)]
  PROVE  Recorded'
<1>1. Good(a.file, a.w)
  BY DEF After, AOK, Good
<1>2. Shaped(r.w) /\ r.w.st = "open" /\ r.w.recs = a.w.recs + 1
  BY DEF WithContext, After, Start
<1>3. file' = a.file /\ lock' = lock /\ writers' = [writers EXCEPT ![h] = r.w]
  BY <1>2, EndsWith
<1>4. writers'[h] = r.w
  BY <1>3 DEF FInv
<1>5. Good(a.file, r.w)
  <2>1. r.w.st # "closed"
    BY <1>2
  <2>2. Good(file', r.w)
    BY <1>4, <2>1, NextGood
  <2> QED  BY <1>3, <2>2
<1>6. /\ InStep(a.file, a.w) /\ LogInStep(a.file, a.w, log) /\ a.w.recs = Total(log)
      /\ DOMAIN a.w.sessions \subseteq 1..SidMax
  BY CarriedLog
<1>7. InStep(a.file, r.w) /\ Gained(a.file, a.w, r.w, ctx, x)
  BY <1>1, <1>5, <1>6, ContextGains
<1>8. Logging(a.w, ctx, x, log, log')
  <2>1. log \in Logs /\ a.w.sessions \in [DOMAIN a.w.sessions -> Dscs]
    BY <1>1, OpenHandle DEF Good, WriterOK
  <2> QED  BY <1>6, <2>1 DEF Logging
<1>9. LogInStep(a.file, r.w, log') /\ LogGrew(log, log', KeyOf(a.w, ctx))
  BY <1>6, <1>7, <1>8, LogGains DEF InStep
<1>10. Total(log') = Total(log) + 1
  BY <1>9, TotalGrows
<1>11. OpenInStep(file', r.w, log') /\ r.w.recs = Total(log')
  BY <1>2, <1>3, <1>6, <1>7, <1>9, <1>10 DEF OpenInStep
<1> QED  BY <1>3, <1>5, <1>11, StillOpen DEF Good

\* A record is stored after what had to be flushed before.
LEMMA StoreRecorded ==
  ASSUME FInv, FInv', Recorded, ~lost, NEW h \in Handles, writers[h].st = "open", writers[h].sel # NoCtx,
         NEW a, After(Start(h), a, writers[h].sel), Carries(Start(h), a), a.ok,
         NEW tid \in TIDs, NEW def, NEW tmplt, RightTemplate(a.w.ctxs[a.w.sel], tid, tmplt),
         Store(h, a, tid, def, tmplt)
  PROVE  Recorded'
<1> DEFINE ctx == a.w.sel
           i == a.w.ctxs[ctx]
           key == KeyOf(a.w, ctx)
           n == Len(log[key]) + 1
<1>1. /\ AOK(a) /\ WriterOK(a.w) /\ ctx \in DOMAIN a.w.ctxs /\ ContextOK(i, a.w.off)
      /\ ctx \in Ctxs /\ ctx[1] \in DOMAIN a.w.sessions
      /\ a.w.sessions \in [DOMAIN a.w.sessions -> Dscs]
  BY FlushedContext
<1>2. CtxInStep(a.file, i)
  BY <1>1 DEF Carries, InStep
<1>3. a = [file |-> a.file, w |-> a.w, ok |-> a.ok]
  BY <1>1 DEF AOK
<1>4. ASSUME log' = log, Ends(h, [a EXCEPT !.w.ctxs[ctx].last = tmplt], "FORMAT") PROVE Recorded'
  <2> DEFINE j == [i EXCEPT !.last = tmplt]
             v == [a.w EXCEPT !.ctxs[ctx] = j]
             r == [a EXCEPT !.w.ctxs[ctx].last = tmplt]
  <2>1. r = [a EXCEPT !.w = v]
    OBVIOUS
  <2>2. Ends(h, r, "FORMAT")
    BY <1>4
  <2>3. CtxInStep(a.file, j) /\ KeepsRecords(i, j)
    <3> HIDE DEF i
    <3> QED  BY <1>1, <1>2, LastIsRight DEF i
  <2> HIDE DEF r, j
  <2>4. WithContext(a.w, ctx, j, a.w.recs, v)
    BY <1>1, ContextChanged
  <2>5. r.file = a.file /\ r.w = v
    <3> HIDE DEF v
    <3> QED  BY <1>3, <2>1
  <2> HIDE DEF v
  <2> QED  BY <1>1, <1>4, <2>2, <2>3, <2>4, <2>5, FlushChangedRecorded
<1>5. ASSUME Ends(h, [a EXCEPT
                !.w.ctxs[ctx] = [i EXCEPT !.last = tmplt,
                   !.buf[i.main] = AddRecord(@, [tid |-> tid, n |-> n], i.etime, RecLen[def])],
                !.w.recs = @ + 1], "OK"),
             log' = [log EXCEPT ![key] = Append(@, [n |-> n, def |-> tmplt.def, etime |-> i.etime])]
      PROVE  Recorded'
  <2> DEFINE j == Received(i, tid, tmplt, n, RecLen[def])
             x == [n |-> n, def |-> tmplt.def, etime |-> i.etime]
             v == [a.w EXCEPT !.ctxs[ctx] = j, !.recs = @ + 1]
             r == [a EXCEPT !.w.ctxs[ctx] = j, !.w.recs = @ + 1]
  <2>1. r = [a EXCEPT !.w = v]
    OBVIOUS
  <2>2. Ends(h, r, "OK")
    BY <1>5 DEF Received
  <2>3. n \in Nat
    <3>1. key \in Keys
      BY <1>1 DEF KeyOf, Keys, Ctxs
    <3>2. log[key] \in Seq([n : Nat, def : Defs, etime : ETimes])
      BY <3>1, OpenHandle DEF Logs
    <3> HIDE DEF key
    <3>3. Len(log[key]) \in Nat
      BY <3>2, LenProperties
    <3> QED  BY <3>3
  <2>4. CtxInStep(a.file, j) /\ Gains(i, j, x)
    <3> HIDE DEF i, n
    <3>1. Receives(a.file, i, a.w.off, tid, tmplt, n)
      BY <1>1, <1>2, <2>3 DEF Receives, i
    <3> QED  BY <3>1, BufferGains
  <2>5. log' = [log EXCEPT ![KeyOf(a.w, ctx)] = Append(@, x)]
    BY <1>5
  <2> HIDE DEF r, j, x
  <2>6. WithContext(a.w, ctx, j, a.w.recs + 1, v)
    BY <1>1, ContextChanged
  <2>7. r.file = a.file /\ r.w = v
    <3> HIDE DEF v
    <3> QED  BY <1>3, <2>1
  <2> HIDE DEF v, key, n
  <2> QED  BY <1>1, <2>2, <2>4, <2>5, <2>6, <2>7, AcceptedRecorded
<1> QED  BY <1>4, <1>5 DEF Store

\* ... after a flush, if one was due.
LEMMA WriteRecRecorded ==
  ASSUME FInv, FInv', Recorded, NEW h \in Handles, writers[h].st = "open",
         NEW tid \in TIDs, NEW def \in Defs, WriteRec(h, tid, def)
  PROVE  Recorded'
<1> DEFINE i == Selected(h)
           sel == writers[h].sel
           tmplt == TemplateOf(i, tid)
           full == RecLen[def] > Remains(Main(i))
           flushed(fault) == IF full THEN Flush(Start(h), sel, fault) ELSE Start(h)
<1>1. CASE \E code : Returns(h, code)
  BY <1>1, NothingRecorded DEF Returns
<1>2. ASSUME sel # NoCtx, tmplt.def # NoDef, ~(full /\ Waits(i)),
             NEW fault \in FlushFaults(h), Store(h, flushed(fault), tid, def, tmplt)
      PROVE  Recorded'
  <2> DEFINE a == flushed(fault)
             Seen(k) == RightTemplate(k, tid, tmplt)
  <2>1. /\ AOK(Start(h)) /\ Start(h).file = file /\ Start(h).w = writers[h] /\ Start(h).ok = TRUE
        /\ sel \in DOMAIN writers[h].ctxs
    BY <1>2, SelectedOK
  <2>2. CASE lost
    <3>1. lost'
      <4> HIDE DEF a
      <4> QED  BY <1>2, <2>2 DEF Store, Ends, a
    <3> QED  BY <3>1, LostRecorded
  <2>3. CASE ~a.ok
    <3>1. lost'
      <4>1. Store(h, a, tid, def, tmplt)
        BY <1>2
      <4> HIDE DEF a
      <4> QED  BY <2>3, <4>1 DEF Store, Ends
    <3> QED  BY <3>1, LostRecorded
  <2>4. CASE ~lost /\ a.ok
    <3>1. InStep(file, writers[h])
      BY <2>4, RecordedOpen DEF OpenInStep
    <3>2. CtxInStep(file, i)
      BY <2>1, <3>1 DEF InStep, Selected
    <3>3. Seen(i)
      BY <1>2, <3>2, TemplateIsRight
    <3>4. After(Start(h), a, sel) /\ Carries(Start(h), a) /\ Seen(a.w.ctxs[sel])
      <4>1. CASE full
        <5> DEFINE r == Flush(Start(h), sel, fault)
        <5>1. a = r
          BY <4>1
        <5>2. ~Waits(Selected(h)) /\ r.ok
          BY <1>2, <2>4, <4>1, <5>1
        <5>3. After(Start(h), r, sel) /\ Carries(Start(h), r) /\ Emptied(Start(h), r, sel)
          BY <1>2, <2>4, <5>2, FlushOfSelected
        <5>4. r.w.ctxs[sel].tmplts = i.tmplts
          BY <2>1, <5>3 DEF Emptied, SameTemplates, Selected
        <5>5. Seen(r.w.ctxs[sel])
          BY <3>3, <5>4 DEF RightTemplate
        <5> QED  BY <5>1, <5>3, <5>5
      <4>2. CASE ~full
        <5>1. a = Start(h)
          BY <4>2
        <5>2. Carries(Start(h), Start(h)) /\ After(Start(h), Start(h), sel)
          BY <2>1, <3>1, CarriesItself, AfterItself
        <5>3. Start(h).w.ctxs[sel] = i
          BY <2>1 DEF Selected
        <5> QED  BY <3>3, <5>1, <5>2, <5>3
      <4> QED  BY <4>1, <4>2
    <3>5. a.w.sel = sel
      <4> HIDE DEF a
      <4> QED  BY <2>1, <3>4 DEF After
    <3>6. Store(h, a, tid, def, tmplt)
      BY <1>2
    <3> HIDE DEF a, tmplt, i
    <3> QED  BY <1>2, <2>4, <3>4, <3>5, <3>6, StoreRecorded
  <2> QED  BY <2>2, <2>3, <2>4
<1> QED  BY <1>1, <1>2 DEF WriteRec, NotSelected

-----------------------------------------------------------------------------
(* Completion of a write. *)

\* The request of a context is over, nothing else of the writer changed.
Done(w, ctx, v) ==
  LET i == w.ctxs[ctx]
      j == v.ctxs[ctx]
  IN  /\ WithContext(w, ctx, j, w.recs, v)
      /\ j.toff = i.toff /\ j.tmplts = i.tmplts /\ j.last = i.last
      /\ j.buf = i.buf /\ j.main = i.main /\ j.req = NoRequest

\* A request that is complete leaves all else as it was.
LEMMA RequestDone ==
  ASSUME NEW w, WriterOK(w), NEW ctx \in DOMAIN w.ctxs, NEW v, v = [w EXCEPT !.ctxs[ctx].req = NoRequest]
  PROVE  Done(w, ctx, v)
<1> DEFINE i == w.ctxs[ctx]
           j == [i EXCEPT !.req = NoRequest]
<1>1. v = [w EXCEPT !.ctxs[ctx] = j]
  OBVIOUS
<1>2. ContextOK(i, w.off)
  BY DEF WriterOK
<1>3. /\ j.toff = i.toff /\ j.tmplts = i.tmplts /\ j.last = i.last
      /\ j.buf = i.buf /\ j.main = i.main /\ j.req = NoRequest
  <2> HIDE DEF i
  <2>1. i = [toff |-> i.toff, tmplts |-> i.tmplts, last |-> i.last, etime |-> i.etime,
             buf |-> i.buf, main |-> i.main, req |-> i.req]
    BY <1>2, ContextFields
  <2>2. j = [toff |-> i.toff, tmplts |-> i.tmplts, last |-> i.last, etime |-> i.etime,
             buf |-> i.buf, main |-> i.main, req |-> NoRequest]
    BY <2>1
  <2> HIDE DEF j
  <2> QED  BY <2>2
<1> HIDE DEF j
<1>6. WithContext(w, ctx, j, w.recs, [w EXCEPT !.ctxs[ctx] = j])
  BY ContextChanged
<1>4. WithContext(w, ctx, j, w.recs, v)
  BY <1>1, <1>6
<1>5. v.ctxs[ctx] = j
  BY <1>4 DEF WithContext
<1> QED  BY <1>3, <1>4, <1>5 DEF Done

\* The block of a running write got into the file.
Landed(f, w, g, v, ctx) ==
  /\ Good(f, w) /\ Good(g, v) /\ Kept(f, g) /\ ctx \in Pending(w) /\ Done(w, ctx, v)
  /\ BlockIn(g, From(w.ctxs[ctx]), "data")
  /\ BlockAt(g, From(w.ctxs[ctx])).msgs = FlightMsgs(w.ctxs[ctx])

\* Entries lead to the same records from the file as from the buffer in flight.
LEMMA LandedPart ==
  ASSUME NEW f, NEW w, NEW g, NEW v, NEW ctx, Landed(f, w, g, v, ctx), NEW info, Stored(f, w, info)
  PROVE  Stored(g, v, info) /\ Part(g, v, info) = Part(f, w, info)
<1>1. /\ FileOK(f) /\ WriterOK(w) /\ Placed(f, w) /\ FileOK(g) /\ WriterOK(v) /\ Placed(g, v) /\ Kept(f, g)
      /\ v.sessions = w.sessions /\ OthersSame(w, v, ctx)
  BY DEF Landed, Good, Done, WithContext
<1>2. Follows(f, w, g, v)
  BY <1>1 DEF Follows, Good
<1>3. CASE info.ctx # ctx
  <2>1. SameFlight(w, v, info.ctx)
    BY <1>1, <1>3, OtherFlights
  <2> QED  BY <1>2, <2>1, PartKept
<1>4. CASE info.ctx = ctx
  <2>1. BlockIn(f, info.toff, "tmplts")
    BY DEF Stored
  <2>2. BlockIn(g, info.toff, "tmplts") /\ BlockAt(g, info.toff) = BlockAt(f, info.toff)
    BY <1>1, <2>1, BlockKept
  <2>3. DefsFor(g, info) = DefsFor(f, info)
    BY <1>1, <2>1, <2>2, DefsInFile
  <2>4. /\ BlockIn(g, info.off, "data")
        /\ MsgsFor(g, info, InFlight(v, info.ctx)) = MsgsFor(f, info, InFlight(w, info.ctx))
    <3>1. CASE BlockIn(f, info.off, "data")
      <4>1. BlockIn(g, info.off, "data") /\ BlockAt(g, info.off) = BlockAt(f, info.off)
        BY <1>1, <3>1, BlockKept
      <4> QED  BY <1>1, <3>1, <4>1, MsgsInFile
    <3>2. CASE info.ctx \in Pending(w) /\ From(w.ctxs[info.ctx]) = info.off
      <4>1. BlockIn(g, info.off, "data") /\ BlockAt(g, info.off).msgs = FlightMsgs(w.ctxs[ctx])
        BY <1>4, <3>2 DEF Landed
      <4>2. MsgsFor(f, info, InFlight(w, info.ctx)) = FlightMsgs(w.ctxs[ctx])
        BY <1>4, <3>2, MsgsInFlight
      <4> QED  BY <1>1, <4>1, <4>2, MsgsInFile
    <3> QED  BY <3>1, <3>2 DEF Stored
  <2>5. Part(g, v, info) = Part(f, w, info)
    BY <2>3, <2>4 DEF Part
  <2> QED  BY <1>1, <2>2, <2>4, <2>5 DEF Stored
<1> QED  BY <1>3, <1>4

\* So the log is in step as before.
LEMMA LandedTells ==
  ASSUME NEW f, NEW w, NEW g, NEW v, NEW ctx, Landed(f, w, g, v, ctx), NEW l,
         InStep(f, w), LogInStep(f, w, l)
  PROVE  InStep(g, v) /\ LogInStep(g, v, l)
<1> DEFINE i == w.ctxs[ctx]
           j == v.ctxs[ctx]
<1>1. /\ FileOK(f) /\ WriterOK(w) /\ FileOK(g) /\ Kept(f, g) /\ v.table = w.table
      /\ v.sessions = w.sessions /\ OthersSame(w, v, ctx) /\ ctx \in DOMAIN w.ctxs
  BY DEF Landed, Good, Done, WithContext, Pending
<1>2. ASSUME NEW k \in 1..Len(w.table.blocks)
      PROVE  /\ Stored(g, v, w.table.blocks[k])
             /\ Part(g, v, w.table.blocks[k]) = Part(f, w, w.table.blocks[k])
  <2>1. Stored(f, w, w.table.blocks[k])
    BY DEF InStep
  <2> QED  BY <2>1, LandedPart
<1>3. SessionsInStep(g, v)
  BY <1>1, SessionsKept DEF InStep
<1>4. \A c : Recs(g, v, c) = Recs(f, w, c)
  BY <1>1, <1>2, RecsKept
<1>5. /\ j.toff = i.toff /\ j.tmplts = i.tmplts /\ j.last = i.last /\ Main(j) = Main(i) /\ Count(j) = Count(i)
  BY DEF Landed, Done, Main, Count
<1>6. ASSUME NEW c \in DOMAIN v.ctxs PROVE CtxInStep(g, v.ctxs[c])
  <2>1. c \in DOMAIN w.ctxs /\ (c # ctx => v.ctxs[c] = w.ctxs[c])
    BY <1>1 DEF OthersSame
  <2>2. CtxInStep(g, w.ctxs[c])
    BY <1>1, <2>1, CtxKept DEF InStep
  <2>3. CASE c = ctx
    BY <1>5, <2>2, <2>3 DEF CtxInStep
  <2> QED  BY <2>1, <2>2, <2>3
<1>7. ASSUME NEW c \in Ctxs PROVE Held(g, v, c) = Held(f, w, c)
  <2>1. Buffered(v, c) = Buffered(w, c)
    <3>1. CASE c = ctx
      BY <1>1, <1>5, <3>1 DEF Buffered, OthersSame
    <3>2. CASE c # ctx
      BY <1>1, <3>2, OtherFlights
    <3> QED  BY <3>1, <3>2
  <2> QED  BY <1>4, <2>1, HeldSame
<1>8. InStep(g, v)
  BY <1>1, <1>2, <1>3, <1>6 DEF InStep
<1>9. DOMAIN w.sessions \subseteq 1..SidMax
  BY <1>1 DEF WriterOK
<1>10. LogInStep(g, v, l)
  BY <1>1, <1>7, <1>9, LogSame
<1> QED  BY <1>8, <1>10

\* A table stored behind all that is being written stays there.
LEMMA TableStays ==
  ASSUME NEW f, NEW w, NEW g, NEW v, NEW ctx, Landed(f, w, g, v, ctx), TableStored(f, w),
         NEW blk, g = Written(f, From(w.ctxs[ctx]), blk, blk.len),
         blk.len = To(w.ctxs[ctx]) - From(w.ctxs[ctx]), g.hdr = f.hdr
  PROVE  TableStored(g, v)
<1> DEFINE a == From(w.ctxs[ctx])
           b == a + blk.len
           i == w.ctxs[ctx]
           j == v.ctxs[ctx]
<1>1. /\ FileOK(f) /\ WriterOK(w) /\ Placed(f, w) /\ ctx \in Pending(w) /\ v.off = w.off /\ v.recs = w.recs
      /\ v.table = w.table /\ OthersSame(w, v, ctx)
  BY DEF Landed, Good, Done, WithContext
<1>2. a \in Nat /\ To(i) \in Nat /\ a < To(i) /\ To(i) <= w.off
  BY <1>1, PendingPlace DEF Placed
<1>3. blk.len \in Nat \ {0} /\ b = To(i) /\ b \in Nat /\ a < b
  BY <1>2
<1>4. PICK e \in f.ext : e.off = w.off /\ e.lo = 0 /\ e.hi = e.blk.len /\ e.blk = TableBlock(w.table)
  BY DEF TableStored
<1>5. e \in g.ext
  <2>1. ExtentOK(e) /\ w.off \in Nat
    BY <1>1 DEF FileOK, WriterOK
  <2>2. b <= e.off + e.lo
    BY <1>2, <1>3, <1>4, <2>1
  <2> HIDE DEF b, a
  <2>3. e \in Outside(e, a, b)
    BY <1>2, <1>3, <2>1, <2>2, OutsideSame
  <2> DEFINE x == [off |-> a, lo |-> 0, hi |-> blk.len, blk |-> blk]
             all == (UNION {Outside(d, a, b) : d \in f.ext}) \cup {x}
  <2>4. g = [f EXCEPT !.ext = all]
    BY <1>3 DEF Written, a, b
  <2>5. f = [hdr |-> f.hdr, ext |-> f.ext]
    BY <1>1 DEF FileOK
  <2>6. e \in all
    BY <2>3
  <2> HIDE DEF all
  <2>7. g.ext = all
    BY <2>4, <2>5
  <2> QED  BY <2>6, <2>7
<1>6. Main(j) = Main(i)
  BY DEF Landed, Done, Main
<1>7. \A c \in DOMAIN v.ctxs : Main(v.ctxs[c]).msgs = <<>>
  BY <1>1, <1>6 DEF TableStored, OthersSame
<1> HIDE DEF a, b, i, j
<1> QED  BY <1>1, <1>4, <1>5, <1>7 DEF TableStored

\* An asynchronous write completes, or fails and is lost.
LEMMA CompleteRecorded ==
  ASSUME FInv, FInv', BlocksStay, Recorded, NEW h \in Handles, NEW ctx \in Ctxs, Complete(h, ctx)
  PROVE  Recorded'
<1> DEFINE w == writers[h]
           i == w.ctxs[ctx]
           b == i.buf[i.req.buf]
           blk == DataBlock(ctx, b.toff, b.msgs, b.len)
           v == [w EXCEPT !.ctxs[ctx].req = NoRequest]
<1>1. w.st # "closed" /\ ctx \in Pending(w)
  BY DEF Complete
<1>2. FileOK(file) /\ WriterOK(w) /\ Placed(file, w)
  BY <1>1, OpenHandle
<1>3. ctx \in DOMAIN w.ctxs /\ ContextOK(i, w.off) /\ From(i) \in Nat /\ i.req \in [st : {"started"}, off : Nat, buf : {1, 2}]
  BY <1>1, <1>2, PendingPlace
<1>4. PICK fault \in Faults({ctx}, {"aio"}) :
        IF fault = NoFault
        THEN /\ file' = Written(file, i.req.off, blk, blk.len)
             /\ writers' = [writers EXCEPT ![h].ctxs[ctx].req = NoRequest] /\ UNCHANGED lost
        ELSE lost' = TRUE
  BY DEF Complete
<1>5. CASE lost'
  BY <1>5, LostRecorded
<1>6. CASE ~lost'
  <2>1. /\ file' = Written(file, i.req.off, blk, blk.len) /\ ~lost
        /\ writers' = [writers EXCEPT ![h] = v] /\ lock' = lock /\ log' = log
    BY <1>4, <1>6 DEF Complete
  <2> HIDE DEF v
  <2>2. Done(w, ctx, v)
    <3> HIDE DEF w
    <3> QED  BY <1>2, <1>3, RequestDone DEF v
  <2>3. v.st = w.st /\ v.recs = w.recs
    BY <2>2 DEF Done, WithContext
  <2>4. writers'[h] = v
    BY <2>1 DEF FInv
  <2>5. Good(file', v) /\ FileOK(file')
    BY <1>1, <2>3, <2>4, NextGood DEF Good
  <2>6. /\ BufferOK(b) /\ blk.len = b.len /\ blk.type = "data" /\ blk.msgs = b.msgs
        /\ To(i) = From(i) + b.len
    BY <1>3 DEF ContextOK, DataBlock, To, From
  <2>7. blk.len \in Nat \ {0} /\ BlockHdr <= blk.len /\ blk.len = To(i) - From(i)
    <3>1. b.len \in Nat /\ DataHdr <= b.len /\ BlockHdr < DataHdr
      BY <2>6, LengthsAssumption DEF BufferOK
    <3>2. BlockHdr \in Nat \ {0} /\ DataHdr \in Nat
      BY Lengths
    <3> HIDE DEF b, blk, i
    <3> QED  BY <1>3, <2>6, <3>1, <3>2
  <2> DEFINE g == Written(file, From(i), blk, blk.len)
  <2>8. file' = g
    BY <2>1 DEF From
  <2> HIDE DEF g, blk
  <2>9. Wrote(file, From(i), blk, file')
    BY <1>2, <2>5, <2>7, <2>8 DEF Wrote, g
  <2>10. BlockAt(file', From(i)) = blk /\ file'.ext # {} /\ BlockIn(file', From(i), "data")
    <3>1. BlockAt(file', From(i)) = blk /\ file'.ext # {}
      BY <2>9, WrittenThere
    <3>2. blk.type # "table"
      BY <2>6
    <3>3. BlockIn(file', From(i), blk.type)
      BY <2>7, <2>9, <3>2, WrittenBlock
    <3> QED  BY <2>6, <3>1, <3>3
  <2>11. Landed(file, w, file', v, ctx)
    <3>1. Kept(file, file')
      BY <2>10 DEF BlocksStay
    <3>2. BlockAt(file', From(i)).msgs = FlightMsgs(i)
      BY <2>6, <2>10 DEF FlightMsgs
    <3> QED  BY <1>1, <1>2, <2>2, <2>5, <2>10, <3>1, <3>2 DEF Landed, Good
  <2>12. OpenInStep(file, w, log) /\ w.recs = Total(log)
    BY <1>1, <2>1, RecordedOpen
  <2>13. InStep(file', v) /\ LogInStep(file', v, log)
    BY <2>11, <2>12, LandedTells DEF OpenInStep
  <2>14. v.st = "closing" => TableStored(file', v)
    <3>1. ASSUME v.st = "closing" PROVE TableStored(file', v)
      <4>1. TableStored(file, w)
        BY <2>3, <2>12, <3>1 DEF OpenInStep
      <4>2. file'.hdr = file.hdr
        <5>1. file = [hdr |-> file.hdr, ext |-> file.ext]
          BY <1>2 DEF FileOK
        <5> HIDE DEF i
        <5> QED  BY <2>8, <5>1 DEF g, Written
      <4> HIDE DEF i
      <4>3. file' = Written(file, From(w.ctxs[ctx]), blk, blk.len)
            /\ blk.len = To(w.ctxs[ctx]) - From(w.ctxs[ctx])
        BY <2>7, <2>8 DEF g, i
      <4> HIDE DEF w
      <4> QED  BY <2>11, <4>1, <4>2, <4>3, TableStays
    <3> QED  BY <3>1
  <2>15. OpenInStep(file', v, log')
    BY <2>1, <2>3, <2>12, <2>13, <2>14 DEF OpenInStep
  <2>16. WriterOK(v)
    BY <2>5 DEF Good
  <2> QED  BY <1>1, <2>1, <2>3, <2>12, <2>15, <2>16, StillOpen
<1> QED  BY <1>5, <1>6

-----------------------------------------------------------------------------
(* Closing. *)

\* The end of a writer, if nothing failed: the table behind all blocks, and
\* the header that refers to it.
LEMMA FinishedIs ==
  ASSUME NEW a, AOK(a), a.file.hdr.table = 0, NEW fault, fault.n \in Nat, Finished(a, fault).ok
  PROVE  LET r == Finished(a, fault)
         IN  /\ a.ok /\ r.w = a.w /\ r.file.hdr = Header(a.w.off, a.w.recs)
             /\ FileOK(r.file) /\ Kept(a.file, r.file)
             /\ \E e \in r.file.ext : /\ e.off = a.w.off /\ e.lo = 0 /\ e.hi = e.blk.len
                                      /\ e.blk = TableBlock(a.w.table)
<1> DEFINE w == a.w
           r == Finished(a, fault)
           blk == TableBlock(w.table)
           f == Written(a.file, w.off, blk, blk.len)
<1>1. FileOK(r.file) /\ Kept(a.file, r.file) /\ r.w = a.w
  BY FinishedKeeps
<1>2. FileOK(a.file) /\ WriterOK(w) /\ Placed(a.file, w) /\ a = [file |-> a.file, w |-> a.w, ok |-> a.ok]
  BY DEF AOK
<1>3. a.ok /\ r = [a EXCEPT !.file = HeaderStored(f, w.off, w.recs)]
  <2>1. CASE ~a.ok
    BY <2>1 DEF Finished
  <2>2. CASE fault.at = FaultOf(NoCtx, "table") \/ fault.at = FaultOf(NoCtx, "header")
    <3>1. a.ok => r.ok = FALSE
      BY <1>2, <2>2 DEF Finished
    <3> QED  BY <2>1, <3>1
  <2>3. CASE a.ok /\ fault.at # FaultOf(NoCtx, "table") /\ fault.at # FaultOf(NoCtx, "header")
    BY <2>3 DEF Finished
  <2> QED  BY <2>1, <2>2, <2>3
<1>4. w.table \in Contents /\ w.off \in Nat /\ HeaderLen <= w.off
      /\ \A e \in a.file.ext : Whole(e) => End(e) <= w.off \/ w.off + blk.len <= e.off
  BY <1>2, RoomBehind DEF WriterOK
<1>5. BlockOK(blk) /\ blk.len \in Nat \ {0}
  BY <1>4, TableBlockOK DEF BlockOK
<1> HIDE DEF blk
<1>6. FileOK(f)
  <2>1. blk.len \in Nat /\ blk.len <= blk.len
    BY <1>5
  <2> HIDE DEF w
  <2> QED  BY <1>2, <1>4, <1>5, <2>1, WrittenKeeps
<1> HIDE DEF f, r
<1>7. r.file = HeaderStored(f, w.off, w.recs)
  BY <1>2, <1>3
<1>8. f = [hdr |-> f.hdr, ext |-> f.ext]
  BY <1>6 DEF FileOK
<1>9. r.file.hdr = Header(w.off, w.recs) /\ r.file.ext = f.ext
  BY <1>7, <1>8 DEF HeaderStored
<1>10. Wrote(a.file, w.off, blk, f)
  BY <1>2, <1>5, <1>6 DEF Wrote, f
<1>11. PICK e \in f.ext : e.off = w.off /\ e.lo = 0 /\ e.hi = blk.len /\ e.blk = blk
  BY <1>10, WrittenExtent
<1> QED  BY <1>1, <1>3, <1>9, <1>11 DEF blk, r

\* A handle that only changes its state and the file's blocks holds the same records.
LEMMA StatusRetold ==
  ASSUME NEW f, NEW w, NEW g, NEW v, NEW st, InStatus(v, w, st), Good(f, w), Good(g, v), Kept(f, g),
         InStep(f, w)
  PROVE  Retold(f, w, g, v) /\ v.recs = w.recs /\ v.off = w.off /\ v.table = w.table /\ v.ctxs = w.ctxs
<1>1. /\ v.sessions = w.sessions /\ v.ctxs = w.ctxs /\ v.table = w.table
      /\ v.off = w.off /\ v.recs = w.recs
  <2>1. w = [st |-> w.st, io |-> w.io, sessions |-> w.sessions, ctxs |-> w.ctxs, sel |-> w.sel,
             table |-> w.table, off |-> w.off, recs |-> w.recs]
    BY DEF InStatus, WriterOK
  <2>2. v = [w EXCEPT !.st = st]
    BY DEF InStatus
  <2> QED  BY <2>1, <2>2
<1>2. Follows(f, w, g, v)
  BY <1>1 DEF Follows
<1>3. \A c \in Ctxs : SameFlight(w, v, c) /\ Buffered(v, c) = Buffered(w, c)
  BY <1>1 DEF SameFlight, Pending, Buffered
<1>4. ASSUME NEW c \in DOMAIN v.ctxs PROVE CtxInStep(g, v.ctxs[c])
  BY <1>1, CtxKept DEF InStep, Good
<1> QED  BY <1>1, <1>2, <1>3, <1>4 DEF Retold

\* fds_file_close(): buffers are flushed, then table and header are written.
LEMMA CloseWriterRecorded ==
  ASSUME FInv, FInv', Recorded, NEW h \in Handles, CloseWriter(h)
  PROVE  Recorded'
<1>1. writers[h].st # "closed" /\ writers[h].st # "closing" /\ writers[h].st \in {"open", "fatal"}
  BY DEF CloseWriter
<1> DEFINE s == Start(h)
<1>2. /\ FileOK(file) /\ WriterOK(writers[h]) /\ Placed(file, writers[h])
      /\ log \in Logs /\ lost \in BOOLEAN /\ file.hdr.table = 0
  BY <1>1, OpenHandle
<1>3. AOK(s) /\ NoneWaits(s) /\ s.file = file /\ s.w = writers[h]
  BY <1>2 DEF AOK, Start, NoneWaits, CloseWriter
<1>4. PICK fault \in CloseFaults(h) :
        LET a == Finished(FlushAll(Start(h), fault), fault)
        IN  /\ file' = a.file
            /\ writers' = [writers EXCEPT ![h] = [a.w EXCEPT !.st = "closing"]]
            /\ lost' = (lost \/ ~a.ok) /\ lock' = lock /\ log' = log
  BY DEF CloseWriter
<1>5. fault.n \in Nat
  BY FaultsOK DEF CloseFaults
<1> DEFINE b == FlushAll(s, fault)
           a == Finished(b, fault)
           v == [a.w EXCEPT !.st = "closing"]
<1>6. AfterAll(s, b)
  <2> HIDE DEF s
  <2> QED  BY <1>3, <1>5, FlushAllKeeps
<1>7. /\ file' = a.file /\ writers' = [writers EXCEPT ![h] = v]
      /\ lost' = (lost \/ ~a.ok) /\ lock' = lock /\ log' = log
  BY <1>4
<1>8. CASE lost'
  BY <1>8, LostRecorded
<1>9. CASE ~lost'
  <2>1. ~lost /\ a.ok
    <3> HIDE DEF a
    <3> QED  BY <1>7, <1>9
  <2>2. InStep(file, writers[h]) /\ writers[h].st = "open"
    BY <1>1, <2>1, RecordedOpen DEF OpenInStep
  <2> HIDE DEF s
  <2>3. AOK(b) /\ b.file.hdr.table = 0
    <3> HIDE DEF b
    <3> QED  BY <1>2, <1>3, <1>6 DEF AfterAll
  <2> HIDE DEF b
  <2>4. /\ b.ok /\ a.w = b.w /\ a.file.hdr = Header(b.w.off, b.w.recs)
        /\ FileOK(a.file) /\ Kept(b.file, a.file)
        /\ \E e \in a.file.ext : /\ e.off = b.w.off /\ e.lo = 0 /\ e.hi = e.blk.len
                                 /\ e.blk = TableBlock(b.w.table)
    BY <1>5, <2>1, <2>3, FinishedIs
  <2>5. Carries(s, b) /\ \A c \in DOMAIN b.w.ctxs : Main(b.w.ctxs[c]).msgs = <<>>
    <3>1. InStep(s.file, s.w)
      BY <1>3, <2>2
    <3>2. FlushAll(s, fault).ok
      BY <2>4 DEF b
    <3> QED  BY <1>3, <1>5, <3>1, <3>2, FlushAllCarries DEF b
  <2> HIDE DEF a
  <2>6. Good(b.file, b.w)
    BY <2>3 DEF AOK, Good
  <2>7. InStatus(v, b.w, "closing")
    BY <2>4, <2>6 DEF InStatus, Good
  <2> HIDE DEF v
  <2>8. v.st = "closing"
    BY <2>7, StatusOK
  <2>9. writers'[h] = v
    BY <1>7 DEF FInv
  <2>10. Good(a.file, v)
    <3>1. Good(file', v)
      BY <2>8, <2>9, NextGood
    <3> QED  BY <1>7, <3>1
  <2>11. Carries(Start(h), b)
    BY <2>5 DEF s
  <2>12. InStep(b.file, b.w) /\ LogInStep(b.file, b.w, log) /\ b.w.recs = Total(log)
    BY <2>1, <2>2, <2>11, CarriedLog
  <2>13. /\ Retold(b.file, b.w, a.file, v) /\ v.recs = b.w.recs /\ v.off = b.w.off
         /\ v.table = b.w.table /\ v.ctxs = b.w.ctxs
    BY <2>4, <2>6, <2>7, <2>10, <2>12, StatusRetold
  <2>14. InStep(a.file, v) /\ LogInStep(a.file, v, log)
    BY <2>12, <2>13, Retells
  <2>15. TableStored(a.file, v)
    BY <2>4, <2>5, <2>13 DEF TableStored
  <2>16. OpenInStep(file', v, log')
    BY <1>7, <2>8, <2>14, <2>15 DEF OpenInStep
  <2>17. WriterOK(v)
    BY <2>10 DEF Good
  <2> QED  BY <1>1, <1>7, <2>12, <2>13, <2>16, <2>17, StillOpen
<1> QED  BY <1>8, <1>9

-----------------------------------------------------------------------------
(* Closed files. *)

\* A writer that holds no record, of a file with the same blocks.
Bare(f, w, g, v) ==
  /\ g.ext = f.ext /\ v.table = w.table /\ v.sessions = w.sessions
  /\ DOMAIN v.ctxs = {} /\ Pending(w) = {}
  /\ \A c \in DOMAIN w.ctxs : Main(w.ctxs[c]).msgs = <<>> /\ DefsOK(w.ctxs[c].tmplts)

\* What is found does not depend on the header.
LEMMA SameExtents ==
  ASSUME NEW f, NEW g, g.ext = f.ext
  PROVE  /\ \A off : BlockAt(g, off) = BlockAt(f, off)
         /\ \A off, type : /\ BlockIn(g, off, type) <=> BlockIn(f, off, type)
                           /\ HasBlock(g, off, type) <=> HasBlock(f, off, type)
<1>1. \A off : BlockAt(g, off) = BlockAt(f, off)
  BY DEF BlockAt
<1>2. \A off, type : BlockIn(g, off, type) <=> BlockIn(f, off, type)
  BY DEF BlockIn
<1>3. \A off, type : HasBlock(g, off, type) <=> HasBlock(f, off, type)
  BY DEF HasBlock, Starts
<1> QED  BY <1>1, <1>2, <1>3

\* A writer without buffered records and the file's table tell the same.
LEMMA BareTells ==
  ASSUME NEW f, NEW w, NEW g, NEW v, Bare(f, w, g, v), NEW l, InStep(f, w), LogInStep(f, w, l)
  PROVE  InStep(g, v) /\ LogInStep(g, v, l)
<1>1. /\ g.ext = f.ext /\ v.table = w.table /\ v.sessions = w.sessions
      /\ DOMAIN v.ctxs = {} /\ Pending(w) = {} /\ Pending(v) = {}
  BY DEF Bare, Pending
<1>2. /\ \A off : BlockAt(g, off) = BlockAt(f, off)
      /\ \A off, type : /\ BlockIn(g, off, type) <=> BlockIn(f, off, type)
                        /\ HasBlock(g, off, type) <=> HasBlock(f, off, type)
  BY <1>1, SameExtents
<1>3. ASSUME NEW info PROVE Part(g, v, info) = Part(f, w, info)
  <2>1. InFlight(v, info.ctx) = {} /\ InFlight(w, info.ctx) = {}
    BY <1>1, InFlightIs
  <2>2. MsgsFor(g, info, {}) = MsgsFor(f, info, {})
    BY <1>2 DEF MsgsFor
  <2>3. DefsFor(g, info) = DefsFor(f, info)
    BY <1>2 DEF DefsFor
  <2> QED  BY <2>1, <2>2, <2>3 DEF Part
<1>4. ASSUME NEW k \in 1..Len(w.table.blocks) PROVE Stored(g, v, w.table.blocks[k])
  <2>1. Stored(f, w, w.table.blocks[k])
    BY DEF InStep
  <2> QED  BY <1>1, <1>2, <1>3, <2>1 DEF Stored
<1>5. SessionsInStep(g, v)
  <2>1. SessionsInStep(f, w)
    BY DEF InStep
  <2>2. ASSUME NEW k \in DOMAIN v.sessions PROVE SessionIn(g, v, k)
    <3>1. SessionIn(f, w, k)
      BY <1>1, <2>1 DEF SessionsInStep
    <3> QED  BY <1>1, <1>2, <3>1 DEF SessionIn
  <2> QED  BY <1>1, <2>1, <2>2 DEF SessionsInStep
<1>6. InStep(g, v)
  BY <1>1, <1>4, <1>5 DEF InStep
<1>7. ASSUME NEW c PROVE Held(g, v, c) = Held(f, w, c)
  <2>1. Recs(g, v, c) = Recs(f, w, c)
    BY <1>1, <1>3, RecsKept
  <2>2. Buffered(v, c) = <<>>
    BY <1>1 DEF Buffered
  <2>3. Buffered(w, c) = <<>>
    <3>1. CASE c \in DOMAIN w.ctxs
      <4>1. Main(w.ctxs[c]).msgs = <<>> /\ DefsOK(w.ctxs[c].tmplts)
        BY <3>1 DEF Bare
      <4>2. Decoded(<<>>, w.ctxs[c].tmplts) = <<>>
        BY <4>1, DecodedNone
      <4> QED  BY <3>1, <4>1, <4>2 DEF Buffered
    <3>2. CASE c \notin DOMAIN w.ctxs
      BY <3>2 DEF Buffered
    <3> QED  BY <3>1, <3>2
  <2> QED  BY <2>1, <2>2, <2>3, HeldSame
<1>8. ASSUME NEW c PROVE KeyOf(v, c) = KeyOf(w, c)
  BY <1>1 DEF KeyOf
<1>9. LogInStep(g, v, l)
  BY <1>1, <1>7, <1>8 DEF LogInStep
<1> QED  BY <1>6, <1>9

\* The sessions an appender loads are those of the writer before.
LEMMA LoadedAgain ==
  ASSUME NEW f, NEW w, WriterOK(w), SessionsInStep(f, w)
  PROVE  SessionsLoaded(f, w.table) = w.sessions
<1> DEFINE s == w.table.sessions
           n == Len(s)
           T == [off : Nat, sid : 1..SidMax]
           sids == {x.sid : x \in Range(s)}
<1>1. s \in Seq(T) /\ n \in Nat
  BY LenProperties DEF WriterOK, Contents
<1>2. DOMAIN s = 1..n
  BY <1>1, LenProperties
<1>3. DOMAIN w.sessions = 1..n /\ \A k \in 1..n : SessionIn(f, w, k)
  BY DEF SessionsInStep
<1>4. Range(s) = {s[k] : k \in 1..n}
  BY <1>2 DEF Range
<1>5. \A k \in 1..n : s[k].sid = k
  BY <1>3 DEF SessionIn
<1> HIDE DEF s, n
<1>6. sids = 1..n
  <2>1. ASSUME NEW k \in 1..n PROVE k \in sids
    <3>1. s[k] \in Range(s) /\ s[k].sid = k
      BY <1>4, <1>5
    <3> QED  BY <3>1
  <2>2. ASSUME NEW k \in sids PROVE k \in 1..n
    <3>1. PICK x \in Range(s) : k = x.sid
      OBVIOUS
    <3>2. PICK m \in 1..n : x = s[m]
      BY <1>4
    <3> QED  BY <1>5, <3>1, <3>2
  <2> QED  BY <2>1, <2>2
<1>7. ASSUME NEW k \in 1..n PROVE (CHOOSE x \in Range(s) : x.sid = k) = s[k]
  <2>1. s[k] \in Range(s) /\ s[k].sid = k
    BY <1>4, <1>5
  <2>2. ASSUME NEW x \in Range(s), x.sid = k PROVE x = s[k]
    <3>1. PICK m \in 1..n : x = s[m]
      BY <1>4
    <3> QED  BY <1>5, <2>2, <3>1
  <2> QED  BY <2>1, <2>2
<1>8. \A k \in 1..n : BlockAt(f, s[k].off).dsc = w.sessions[k]
  BY <1>3 DEF SessionIn, s
<1> HIDE DEF sids
<1>9. SessionsLoaded(f, w.table) = [k \in sids |-> BlockAt(f, (CHOOSE x \in Range(s) : x.sid = k).off).dsc]
  BY DEF SessionsLoaded, s, sids
<1>10. w.sessions = [k \in 1..n |-> w.sessions[k]]
  BY <1>3 DEF WriterOK
<1> QED  BY <1>6, <1>7, <1>8, <1>9, <1>10

\* What is in the file once its table is.
LEMMA TableFound ==
  ASSUME NEW f, NEW w, Good(f, w), TableStored(f, w)
  PROVE  /\ f.hdr.table = w.off /\ f.hdr.recs = w.recs /\ w.off # 0
         /\ HasBlock(f, f.hdr.table, "table") /\ Table(f) = w.table
<1>1. FileOK(f) /\ w.table \in Contents /\ w.off \in Nat /\ HeaderLen <= w.off
  BY DEF Good, WriterOK
<1>2. f.hdr.table = w.off /\ f.hdr.recs = w.recs
  BY DEF TableStored, Header
<1>3. w.off # 0
  BY <1>1, Lengths
<1>4. PICK e \in f.ext : e.off = w.off /\ e.lo = 0 /\ e.hi = e.blk.len /\ e.blk = TableBlock(w.table)
  BY DEF TableStored
<1>5. TableBlock(w.table).len \in Nat /\ BlockHdr < TableBlock(w.table).len /\ TableBlock(w.table).type = "table"
  BY <1>1, TableLength, TableBlockOK
<1>6. BlockHdr <= e.hi
  BY <1>4, <1>5, Lengths
<1>7. BlockAt(f, w.off) = e.blk /\ HasBlock(f, w.off, "table")
  BY <1>1, <1>4, <1>5, <1>6, BlockAtIs
<1>8. TableBlock(w.table).content = w.table
  BY DEF TableBlock
<1> QED  BY <1>2, <1>3, <1>4, <1>7, <1>8 DEF Table

\* What an appender starts with: the table of the file and nothing else.
LEMMA ReopenedIs ==
  ASSUME NEW f, NEW io
  PROVE  LET v == Appender(io, f, Table(f))
         IN  /\ v.table = Table(f) /\ v.sessions = SessionsLoaded(f, Table(f)) /\ v.recs = f.hdr.recs
             /\ DOMAIN v.ctxs = {} /\ v.st = "open" /\ Pending(v) = {}
<1> DEFINE v == Appender(io, f, Table(f))
<1>1. v = [st |-> "open", io |-> io, sessions |-> SessionsLoaded(f, Table(f)), ctxs |-> <<>>,
           sel |-> NoCtx, table |-> Table(f), off |-> f.hdr.table, recs |-> f.hdr.recs]
  BY DEF Appender, Writer
<1> HIDE DEF v
<1>2. /\ v.table = Table(f) /\ v.sessions = SessionsLoaded(f, Table(f)) /\ v.recs = f.hdr.recs
      /\ v.ctxs = <<>> /\ v.st = "open"
  BY <1>1
<1>3. DOMAIN v.ctxs = {}
  BY <1>2
<1>4. Pending(v) = {}
  BY <1>3 DEF Pending
<1> QED  BY <1>2, <1>3, <1>4 DEF v

\* A file that is left closed is in step with the log of its writer.
LEMMA ClosedIs ==
  ASSUME NEW f, NEW w, Good(f, w), NEW l, InStep(f, w), LogInStep(f, w, l), TableStored(f, w),
         Pending(w) = {}
  PROVE  ClosedInStep(f, l) /\ f.hdr.recs = w.recs
<1> DEFINE v == Reopened(f)
<1>1. /\ f.hdr.table = w.off /\ f.hdr.recs = w.recs /\ w.off # 0
      /\ HasBlock(f, f.hdr.table, "table") /\ Table(f) = w.table
  BY TableFound
<1>2. v.table = Table(f) /\ v.sessions = SessionsLoaded(f, Table(f)) /\ DOMAIN v.ctxs = {}
  BY ReopenedIs DEF Reopened
<1>3. v.sessions = w.sessions
  BY <1>1, <1>2, LoadedAgain DEF Good, InStep
<1>4. \A c \in DOMAIN w.ctxs : Main(w.ctxs[c]).msgs = <<>> /\ DefsOK(w.ctxs[c].tmplts)
  BY DEF TableStored, Good, WriterOK, ContextOK, DefsOK
<1> HIDE DEF v
<1>5. Bare(f, w, f, v)
  BY <1>1, <1>2, <1>3, <1>4 DEF Bare
<1>6. InStep(f, v) /\ LogInStep(f, v, l)
  BY <1>5, BareTells
<1> QED  BY <1>1, <1>6 DEF ClosedInStep, v

\* The last writes are complete and the lock is released.
LEMMA CloseEndRecorded ==
  ASSUME FInv, Recorded, NEW h \in Handles, CloseEnd(h)
  PROVE  Recorded'
<1> DEFINE w == writers[h]
<1>1. w.st = "closing" /\ w.st # "closed" /\ Pending(w) = {}
  BY DEF CloseEnd
<1>2. /\ writers' = [writers EXCEPT ![h] = NoWriter] /\ lock' = (IF lock = h THEN NoHandle ELSE lock)
      /\ file' = file /\ log' = log /\ lost' = lost
  BY DEF CloseEnd, Gone
<1>3. CASE lost
  BY <1>2, <1>3, LostRecorded
<1>4. CASE ~lost
  <2>1. OpenInStep(file, w, log) /\ w.recs = Total(log)
    BY <1>1, <1>4, RecordedOpen
  <2>2. Good(file, w)
    BY <1>1, OpenHandle DEF Good
  <2> HIDE DEF w
  <2>3. ClosedInStep(file, log) /\ file.hdr.recs = w.recs
    BY <1>1, <2>1, <2>2, ClosedIs DEF OpenInStep
  <2>4. \A g \in Handles : writers'[g].st = "closed"
    <3>1. \A g \in Handles : g # h => writers[g] = NoWriter
      BY <1>1, OpenHandle DEF w
    <3>2. writers'[h] = NoWriter /\ \A g \in Handles : g # h => writers'[g] = writers[g]
      BY <1>2 DEF FInv
    <3> QED  BY <3>1, <3>2 DEF NoWriter
  <2>5. ClosedInStep(file', log') /\ file'.hdr.recs = Total(log')
    BY <1>2, <2>1, <2>3
  <2> QED  BY <2>4, <2>5 DEF Recorded
<1> QED  BY <1>3, <1>4

-----------------------------------------------------------------------------
(* Opening. *)

\* A handle opened when no other one is.
LEMMA OpenedRecorded ==
  ASSUME FInv, lock = NoHandle, NEW h \in Handles, NEW v, OpenInStep(file', v, log'), v.recs = Total(log'),
         writers' = [writers EXCEPT ![h] = v], lock' = h
  PROVE  Recorded'
<1>1. lock' # NoHandle
  BY WriterAssumption
<1>2. writers'[h] = v /\ \A g \in Handles : g # h => writers'[g] = NoWriter
  BY AllClosed DEF FInv
<1>3. NoWriter.st = "closed"
  BY DEF NoWriter
<1> QED  BY <1>1, <1>2, <1>3 DEF Recorded

\* An empty file holds no records.
LEMMA NewFileTells ==
  ASSUME NEW f, NEW io
  PROVE  LET v == Writer(io, NoContent, HeaderLen, 0, <<>>)
             l == [k \in Keys |-> <<>>]
         IN  OpenInStep(f, v, l) /\ v.recs = Total(l)
<1> DEFINE v == Writer(io, NoContent, HeaderLen, 0, <<>>)
           l == [k \in Keys |-> <<>>]
<1>1. v = [st |-> "open", io |-> io, sessions |-> <<>>, ctxs |-> <<>>, sel |-> NoCtx,
           table |-> NoContent, off |-> HeaderLen, recs |-> 0]
  BY DEF Writer
<1> HIDE DEF v
<1>2. /\ v.st = "open" /\ v.sessions = <<>> /\ v.ctxs = <<>> /\ v.table = NoContent /\ v.recs = 0
  BY <1>1
<1>3. DOMAIN v.sessions = {} /\ DOMAIN v.ctxs = {}
  BY <1>2
<1>4. Len(v.table.sessions) = 0 /\ Len(v.table.blocks) = 0
  <2>1. NoContent.sessions = <<>> /\ NoContent.blocks = <<>>
    BY DEF NoContent
  <2> QED  BY <1>2, <2>1, EmptySeq
<1>5. SessionsInStep(f, v)
  BY <1>3, <1>4 DEF SessionsInStep
<1>6. InStep(f, v)
  BY <1>3, <1>4, <1>5 DEF InStep
<1>7. \A k \in Keys : l[k] = <<>>
  OBVIOUS
<1> HIDE DEF l
<1>8. LogInStep(f, v, l)
  BY <1>3, <1>7 DEF LogInStep
<1>9. Total(l) = 0
  BY <1>7, TotalNone
<1> QED  BY <1>2, <1>6, <1>8, <1>9 DEF OpenInStep, v, l

\* A file opened for writing starts anew.
LEMMA OpenNewRecorded ==
  ASSUME FInv, lock = NoHandle, NEW h \in Handles, NEW io, NEW f, OpenNew(h, io, f)
  PROVE  Recorded'
<1> DEFINE v == Writer(io, NoContent, HeaderLen, 0, <<>>)
           l == [k \in Keys |-> <<>>]
<1>1. CASE lost'
  BY <1>1, LostRecorded
<1>2. CASE ~lost'
  <2>1. lock' = h /\ writers' = [writers EXCEPT ![h] = v] /\ log' = l
    BY <1>2 DEF OpenNew
  <2>2. OpenInStep(file', v, l) /\ v.recs = Total(l)
    BY NewFileTells
  <2> HIDE DEF v, l
  <2>3. OpenInStep(file', v, log') /\ v.recs = Total(log')
    BY <2>1, <2>2
  <2> QED  BY <2>1, <2>3, OpenedRecorded
<1> QED  BY <1>1, <1>2

\* Appending starts with what the file was closed with.
LEMMA OpenAppendRecorded ==
  ASSUME FInv, Recorded, lock = NoHandle, NEW h \in Handles, NEW io, OpenAppend(h, io)
  PROVE  Recorded'
<1> DEFINE v == Appender(io, file, Table(file))
           g == HeaderStored(file, 0, file.hdr.recs)
<1>1. CASE \E code : OpenFails(file, code) /\ UNCHANGED lost
  <2>1. file' = file /\ lock' = lock /\ writers' = writers /\ log' = log /\ lost' = lost
    BY <1>1 DEF OpenFails
  <2> QED  BY <2>1, NothingRecorded
<1>2. ASSUME file.hdr.magic, file' = g, lock' = h, UNCHANGED <<log, lost>>,
             writers' = [writers EXCEPT ![h] = v]
      PROVE  Recorded'
  <2>1. CASE lost
    BY <1>2, <2>1, LostRecorded
  <2>2. CASE ~lost
    <3>1. ClosedInStep(file, log) /\ file.hdr.recs = Total(log)
      BY <1>2, <2>2 DEF Recorded
    <3> DEFINE w == Reopened(file)
    <3>2. InStep(file, w) /\ LogInStep(file, w, log)
      BY <3>1 DEF ClosedInStep
    <3>3. /\ w.table = Table(file) /\ w.sessions = SessionsLoaded(file, Table(file))
          /\ DOMAIN w.ctxs = {} /\ Pending(w) = {}
      BY ReopenedIs DEF Reopened
    <3>4. /\ v.table = Table(file) /\ v.sessions = SessionsLoaded(file, Table(file))
          /\ v.recs = file.hdr.recs /\ DOMAIN v.ctxs = {} /\ v.st = "open"
      BY ReopenedIs
    <3>5. g.ext = file.ext
      <4>1. file = [hdr |-> file.hdr, ext |-> file.ext]
        BY DEF FInv, FileOK
      <4> QED  BY <4>1 DEF HeaderStored
    <3>6. file' = g /\ log' = log /\ writers' = [writers EXCEPT ![h] = v] /\ lock' = h
      BY <1>2
    <3> HIDE DEF v, w, g
    <3>7. Bare(file, w, g, v)
      BY <3>3, <3>4, <3>5 DEF Bare
    <3>8. InStep(g, v) /\ LogInStep(g, v, log)
      BY <3>2, <3>7, BareTells
    <3>9. OpenInStep(file', v, log') /\ v.recs = Total(log')
      BY <3>1, <3>4, <3>6, <3>8 DEF OpenInStep
    <3> QED  BY <3>6, <3>9, OpenedRecorded
  <2> QED  BY <2>1, <2>2
<1>3. \/ \E code : OpenFails(file, code) /\ UNCHANGED lost
      \/ /\ file.hdr.magic /\ file' = g /\ lock' = h /\ UNCHANGED <<log, lost>>
         /\ writers' = [writers EXCEPT ![h] = v]
  BY DEF OpenAppend, Table
<1> QED  BY <1>1, <1>2, <1>3

\* fds_file_open() for writing or appending, with all its outcomes.
LEMMA OpenWriterRecorded ==
  ASSUME FInv, Recorded, NEW h \in Handles, NEW mode, NEW io, OpenWriter(h, mode, io)
  PROVE  Recorded'
<1> DEFINE f == IF mode = "write" THEN EmptyFile ELSE file
<1>1. CASE OpenFails(f, "DENIED") /\ lost' = (lost \/ mode = "write")
  <2>1. CASE mode = "write"
    <3>1. lost'
      BY <1>1, <2>1
    <3> QED  BY <3>1, LostRecorded
  <2>2. CASE mode # "write"
    <3>1. f = file
      BY <2>2
    <3> HIDE DEF f
    <3>2. lost' = lost
      BY <1>1, <2>2 DEF FInv
    <3>3. file' = file /\ lock' = lock /\ writers' = writers /\ log' = log
      BY <1>1, <3>1 DEF OpenFails
    <3> QED  BY <3>2, <3>3, NothingRecorded
  <2> QED  BY <2>1, <2>2
<1>2. CASE lock = NoHandle /\ OpenNew(h, io, f)
  <2> HIDE DEF f
  <2> QED  BY <1>2, OpenNewRecorded
<1>3. CASE lock = NoHandle /\ OpenAppend(h, io)
  BY <1>3, OpenAppendRecorded
<1> QED  BY <1>1, <1>2, <1>3 DEF OpenWriter

-----------------------------------------------------------------------------
(* Every step keeps Recorded. *)

\* There are no records before the first open.
LEMMA InitRecorded == FInit => Recorded
<1> SUFFICES ASSUME FInit PROVE Recorded
  OBVIOUS
<1>1. ~file.hdr.magic
  BY DEF FInit, EmptyFile, NoHeader
<1>2. \A h \in Handles : writers[h].st = "closed"
  BY DEF FInit, NoWriter
<1> QED  BY <1>1, <1>2 DEF Recorded

\* Every call of an open handle keeps Recorded.
LEMMA CallRecorded ==
  ASSUME FInv, FInv', BlocksStay, Recorded, NEW h \in Handles, Call(h)
  PROVE  Recorded'
<1>0. writers[h].st = "open"
  BY DEF Call
<1>1. ASSUME NEW dsc \in Dscs, SessionAdd(h, dsc) PROVE Recorded'
  BY <1>0, <1>1, SessionAddRecorded
<1>2. ASSUME NEW ctx \in Ctxs, NEW etime \in ETimes, SelectCtx(h, ctx, etime) PROVE Recorded'
  BY <1>0, <1>2, SelectCtxRecorded
<1>3. ASSUME NEW tid \in TIDs, NEW def \in Defs, WriteRec(h, tid, def) PROVE Recorded'
  BY <1>0, <1>3, WriteRecRecorded
<1>4. ASSUME NEW tid \in TIDs, NEW def \in Defs \cup {Malformed}, TmpltAdd(h, tid, def) PROVE Recorded'
  BY <1>0, <1>4, TemplateCallsRecorded
<1>5. ASSUME NEW tid \in TIDs, TmpltRemove(h, tid) PROVE Recorded'
  BY <1>0, <1>5, TemplateCallsRecorded
<1>6. ASSUME SetIemgr(h) PROVE Recorded'
  BY <1>0, <1>6, SetIemgrRecorded
<1> QED  BY <1>1, <1>2, <1>3, <1>4, <1>5, <1>6 DEF Call

\* With FInv, Recorded is inductive: whatever is called, completes or fails,
\* in any order, the records of an open writer and of a closed file stay those
\* that were accepted.
THEOREM RecordedStep ==
  FInv /\ FInv' /\ BlocksStay /\ Recorded /\ [WriterNext]_fvars => Recorded'
<1> SUFFICES ASSUME FInv, FInv', BlocksStay, Recorded, [WriterNext]_fvars PROVE Recorded'
  OBVIOUS
<1>1. CASE UNCHANGED fvars
  BY <1>1, NothingRecorded DEF fvars
<1>2. ASSUME NEW h \in Handles, NEW mode \in Modes, NEW io \in Ios, OpenWriter(h, mode, io)
      PROVE  Recorded'
  BY <1>2, OpenWriterRecorded
<1>3. ASSUME NEW h \in Handles, Call(h) PROVE Recorded'
  BY <1>3, CallRecorded
<1>4. ASSUME NEW h \in Handles, FatalCall(h) PROVE Recorded'
  BY <1>4, NothingRecorded DEF FatalCall
<1>5. ASSUME NEW h \in Handles, NEW ctx \in Ctxs, Complete(h, ctx) PROVE Recorded'
  BY <1>5, CompleteRecorded
<1>6. ASSUME NEW h \in Handles, CloseWriter(h) PROVE Recorded'
  BY <1>6, CloseWriterRecorded
<1>7. ASSUME NEW h \in Handles, CloseEnd(h) PROVE Recorded'
  BY <1>7, CloseEndRecorded
<1>8. ASSUME NEW h \in Handles, Crash(h) PROVE Recorded'
  <2>1. lost'
    BY <1>8 DEF Crash
  <2> QED  BY <2>1, LostRecorded
<1> QED  BY <1>1, <1>2, <1>3, <1>4, <1>5, <1>6, <1>7, <1>8 DEF WriterNext

-----------------------------------------------------------------------------
(* What a closed file holds. *)

\* The records of a key as a reader of the file finds them: those of the
\* session with its description.
RecordsUnder(f, key) ==
  [i \in 1..Len(Table(f).sessions) |->
     LET s == Table(f).sessions[i]
     IN  IF BlockAt(f, s.off).dsc = key[1] THEN RecordsOf(f, Table(f), <<s.sid, key[2]>>, {})
         ELSE <<>>]

ClosedOK(f, l) == FileOK(f) /\ ClosedInStep(f, l)

\* What a closed file says, in terms of an appender's view of it.
LEMMA ClosedFacts ==
  ASSUME NEW f, NEW l, ClosedOK(f, l)
  PROVE  LET w == Reopened(f)
         IN  /\ w.table = Table(f) /\ w.table \in Contents /\ AllStored(f, w) /\ SessionsInStep(f, w)
             /\ LogInStep(f, w, l) /\ Len(Table(f).sessions) \in Nat
             /\ \A c : Held(f, w, c) = Recs(f, w, c) /\ Recs(f, w, c) \in Seq(Outcomes)
                       /\ Recs(f, w, c) = RecordsOf(f, Table(f), c, {})
<1> DEFINE w == Reopened(f)
<1>1. /\ FileOK(f) /\ HasBlock(f, f.hdr.table, "table") /\ InStep(f, w) /\ LogInStep(f, w, l)
  BY DEF ClosedOK, ClosedInStep
<1>2. w.table = Table(f) /\ DOMAIN w.ctxs = {} /\ Pending(w) = {}
  BY ReopenedIs DEF Reopened
<1> HIDE DEF w
<1>3. w.table \in Contents
  BY <1>1, <1>2, BlockFound DEF BlockOK, Table
<1>4. AllStored(f, w) /\ SessionsInStep(f, w)
  BY <1>1 DEF InStep, AllStored
<1>5. ASSUME NEW c
      PROVE  /\ Held(f, w, c) = Recs(f, w, c) /\ Recs(f, w, c) \in Seq(Outcomes)
             /\ Recs(f, w, c) = RecordsOf(f, Table(f), c, {})
  <2>1. Buffered(w, c) = <<>> /\ InFlight(w, c) = {}
    BY <1>2, InFlightIs DEF Buffered
  <2>2. Recs(f, w, c) \in Seq(Outcomes)
    BY <1>3, <1>4, PartsTyped
  <2>3. Held(f, w, c) = Recs(f, w, c)
    BY <2>1, <2>2, HeldIs, ConcatEmptySeq
  <2>4. Recs(f, w, c) = RecordsOf(f, Table(f), c, {})
    BY <1>2, <2>1 DEF Recs
  <2> QED  BY <2>2, <2>3, <2>4
<1>6. Len(w.table.sessions) \in Nat
  BY <1>3, LenProperties DEF Contents
<1> QED  BY <1>1, <1>2, <1>3, <1>4, <1>5, <1>6 DEF w

\* Whoever looks up a key finds the records logged under it, in order.
LEMMA ReadBack ==
  ASSUME NEW f, NEW l, ClosedOK(f, l), NEW key \in Keys
  PROVE  l[key] = FlattenSeq(RecordsUnder(f, key))
<1> DEFINE w == Reopened(f)
           n == Len(Table(f).sessions)
           s == RecordsUnder(f, key)
           d(i) == w.sessions[i]
           r(i) == Recs(f, w, <<i, key[2]>>)
<1>1. /\ w.table = Table(f) /\ SessionsInStep(f, w) /\ LogInStep(f, w, l) /\ n \in Nat
      /\ \A c : Held(f, w, c) = Recs(f, w, c) /\ Recs(f, w, c) \in Seq(Outcomes)
                /\ Recs(f, w, c) = RecordsOf(f, Table(f), c, {})
  BY ClosedFacts
<1> HIDE DEF w
<1>2. /\ DOMAIN w.sessions = 1..n /\ \A i \in 1..n : SessionIn(f, w, i)
      /\ \A i, j \in 1..n : w.sessions[i] = w.sessions[j] => i = j
  BY <1>1 DEF SessionsInStep
<1> HIDE DEF n
<1>3. \A i \in 1..n : Table(f).sessions[i].sid = i /\ BlockAt(f, Table(f).sessions[i].off).dsc = d(i)
  BY <1>1, <1>2 DEF SessionIn
<1>4. ASSUME NEW i \in 1..n PROVE s[i] = IF d(i) = key[1] THEN r(i) ELSE <<>>
  <2>1. Recs(f, w, <<i, key[2]>>) = RecordsOf(f, Table(f), <<i, key[2]>>, {})
    BY <1>1
  <2>2. s[i] = IF BlockAt(f, Table(f).sessions[i].off).dsc = key[1]
               THEN RecordsOf(f, Table(f), <<Table(f).sessions[i].sid, key[2]>>, {}) ELSE <<>>
    BY DEF RecordsUnder, n
  <2> QED  BY <1>3, <2>1, <2>2
<1>5. s \in Seq(Seq(Outcomes)) /\ Len(s) = n
  <2>1. ASSUME NEW i \in 1..n PROVE s[i] \in Seq(Outcomes)
    <3>1. r(i) \in Seq(Outcomes) /\ <<>> \in Seq(Outcomes)
      BY <1>1, EmptySeq
    <3> HIDE DEF r, d, s
    <3> QED  BY <1>4, <3>1
  <2>2. s = [i \in 1..n |-> s[i]]
    BY DEF RecordsUnder, n
  <2> HIDE DEF s
  <2>3. s \in Seq(Seq(Outcomes))
    BY <1>1, <2>1, <2>2, IsASeq
  <2>4. DOMAIN s = 1..n
    BY <2>2
  <2> QED  BY <1>1, <2>3, <2>4, LenProperties
<1>6. key[2] \in ODIDs /\ key = <<key[1], key[2]>>
  BY DEF Keys
<1> HIDE DEF s
<1>7. CASE \E i \in 1..n : d(i) = key[1]
  <2>1. PICK i \in 1..n : d(i) = key[1]
    BY <1>7
  <2>2. KeyOf(w, <<i, key[2]>>) = key
    BY <1>6, <2>1, KeyIs
  <2>3. l[KeyOf(w, <<i, key[2]>>)] = Held(f, w, <<i, key[2]>>)
    BY <1>1, <1>2, <1>6 DEF LogInStep
  <2>4. l[key] = r(i)
    BY <1>1, <2>2, <2>3
  <2>5. s[i] = r(i)
    BY <1>4, <2>1
  <2>6. ASSUME NEW j \in 1..Len(s), j # i PROVE s[j] = <<>>
    <3>1. j \in 1..n
      BY <1>5
    <3>2. d(j) # key[1]
      BY <1>2, <2>1, <2>6, <3>1
    <3> QED  BY <1>4, <3>1, <3>2
  <2>7. i \in 1..Len(s)
    BY <1>5
  <2>8. FlattenSeq(s) = s[i]
    BY <1>5, <2>6, <2>7, FlattenOnly
  <2> QED  BY <2>4, <2>5, <2>8 DEF s
<1>8. CASE \A i \in 1..n : d(i) # key[1]
  <2>1. l[key] = <<>>
    BY <1>1, <1>2, <1>8 DEF LogInStep
  <2>2. \A i \in 1..Len(s) : s[i] = <<>>
    BY <1>4, <1>5, <1>8
  <2>3. FlattenSeq(s) = <<>>
    BY <1>5, <2>2, FlattenNothing
  <2> QED  BY <2>1, <2>3 DEF s
<1> QED  BY <1>7, <1>8

\* Every entry of the table leads to the session of its number.
LEMMA SessionsFound ==
  ASSUME NEW f, NEW l, ClosedOK(f, l)
  PROVE  SessionsValid(f, Table(f))
<1> DEFINE w == Reopened(f)
           q == Table(f).sessions
           T == [off : Nat, sid : 1..SidMax]
<1>1. w.table = Table(f) /\ w.table \in Contents /\ SessionsInStep(f, w)
  BY ClosedFacts
<1> HIDE DEF w
<1>2. \A k \in 1..Len(q) : SessionIn(f, w, k)
  BY <1>1 DEF SessionsInStep
<1>3. q \in Seq(T)
  BY <1>1 DEF Contents
<1>4. DOMAIN q = 1..Len(q)
  <2> HIDE DEF q, T
  <2> QED  BY <1>3, LenProperties
<1>5. ASSUME NEW s \in Range(q) PROVE HasBlock(f, s.off, "session") /\ BlockAt(f, s.off).sid = s.sid
  <2>1. PICK k \in 1..Len(q) : s = q[k]
    BY <1>4 DEF Range
  <2>2. SessionIn(f, w, k)
    BY <1>2
  <2>3. s.sid = k /\ BlockIn(f, s.off, "session") /\ BlockAt(f, s.off).sid = k
    BY <1>1, <2>1, <2>2 DEF SessionIn
  <2>4. HasBlock(f, s.off, "session")
    BY <2>3, BlockInIs DEF ClosedOK
  <2> QED  BY <2>3, <2>4
<1> QED  BY <1>5 DEF SessionsValid

-----------------------------------------------------------------------------
(* Theorems. *)

\* The invariant the two properties below follow from.
THEOREM WriterRecords == FSpec => []Recorded
<1>1. FInv /\ FInv' /\ Recorded /\ [WriterNext]_fvars => Recorded'
  BY WriterStep, RecordedStep
<1> QED  BY InitRecorded, WriterInvariant, <1>1, PTL DEF FSpec

\* Every record an open writer accepted is in a Data Block of the file, in one
\* on its way there or in the buffer, once, in order, and decoded by the
\* template it was written with (write_rec(), flush(), store() and tmplt_add()
\* of File_writer.cpp and Block_data_writer.cpp), for any number of sessions,
\* contexts, templates and records.
THEOREM RecordsAccounted == FSpec => []Accounted
<1>1. ASSUME FInv, Recorded PROVE Accounted
  <2> SUFFICES ASSUME ~lost, NEW h \in Handles, writers[h].st = "open",
                      NEW sid \in DOMAIN writers[h].sessions, NEW odid \in ODIDs
               PROVE  log[KeyOf(writers[h], <<sid, odid>>)] =
                        RecordsOf(file, writers[h].table, <<sid, odid>>, InFlight(writers[h], <<sid, odid>>))
                          \o Buffered(writers[h], <<sid, odid>>)
    BY DEF Accounted
  <2>1. LogInStep(file, writers[h], log)
    BY <1>1, RecordedOpen DEF OpenInStep
  <2>2. log[KeyOf(writers[h], <<sid, odid>>)] = Held(file, writers[h], <<sid, odid>>)
    BY <2>1 DEF LogInStep
  <2> QED  BY <2>2 DEF Held
<1> QED  BY <1>1, WriterInvariant, WriterRecords, PTL

\* A file that every process closed, with no failed write, leads to exactly the
\* records that were accepted, under the descriptions of their sessions, and
\* counts them, however many times it was appended to (~File_writer(),
\* append_prepare() and stats_update() of File_writer.cpp).
THEOREM ClosedFilesComplete == FSpec => []ClosedComplete
<1>1. ASSUME FInv, Recorded PROVE ClosedComplete
  <2> SUFFICES ASSUME Closed
               PROVE  /\ file.hdr.recs = Accepted
                      /\ HasBlock(file, file.hdr.table, "table") /\ SessionsValid(file, Table(file))
                      /\ \A k \in Keys : log[k] = FlattenSeq(RecordsUnder(file, k))
    BY DEF ClosedComplete, RecordsUnder
  <2>1. ClosedInStep(file, log) /\ file.hdr.recs = Total(log)
    BY <1>1 DEF Recorded, Closed
  <2>2. ClosedOK(file, log)
    BY <1>1, <2>1 DEF ClosedOK, FInv
  <2>3. file.hdr.recs = Accepted
    BY <2>1 DEF Total, Accepted
  <2>4. HasBlock(file, file.hdr.table, "table")
    BY <2>1 DEF ClosedInStep
  <2>5. SessionsValid(file, Table(file))
    BY <2>2, SessionsFound
  <2>6. \A k \in Keys : log[k] = FlattenSeq(RecordsUnder(file, k))
    BY <2>2, ReadBack
  <2> QED  BY <2>3, <2>4, <2>5, <2>6
<1> QED  BY <1>1, WriterInvariant, WriterRecords, PTL
=============================================================================
