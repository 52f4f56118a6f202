---------------------------- MODULE MCFileStorage ----------------------------
(* Instances of FileStorage for TLC.  Lengths are scaled down so that their   *)
(* order is that of structure.h: a Data Block with one short record (6) is   *)
(* shorter than a Session Block (7), and a buffer takes two short records.   *)
EXTENDS FileStorage

CONSTANTS short, medium, long

MCRecLen == [def \in Defs |-> IF def = short THEN 1 ELSE IF def = medium THEN 2 ELSE 3]

\* The return code is only read by properties of steps.
MCView == <<file, lock, writers, log, lost, used, reader, out, pos, due, trust>>

\* Two parts of the behaviours, for one run: the file is opened again, and
\* Templates are redefined then; or one call or write fails, at two Export
\* Times.
CtxsOf(h) == IF writers[h].st = "closed" THEN {} ELSE Range(writers[h].ctxs)
Logged == UNION {Range(log[k]) : k \in Keys}
OnlyShort ==
  /\ \A r \in Logged : r.def = short
  /\ \A h \in Handles : \A c \in CtxsOf(h) : Range(c.tmplts) \subseteq {NoDef, short}
Reopened ==
  /\ used.faults = 0 /\ \A r \in Logged : r.etime = 0
  /\ \A h \in Handles : \A c \in CtxsOf(h) : c.etime = 0
  /\ used.opens = 2 \/ OnlyShort
Faulty == used.opens <= 1 /\ OnlyShort
EitherSpec == SInit /\ [][SNext /\ (Reopened' \/ Faulty')]_svars

\* The writers alone.
WriterSpec == SInit /\ [][WriterNext /\ UNCHANGED <<reader, out, history>>]_svars
=============================================================================
