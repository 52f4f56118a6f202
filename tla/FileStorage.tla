---------------------------- MODULE FileStorage ----------------------------
(***************************************************************************)
(* Writers and a reader of one FDS file, each in a process of its own.     *)
(*                                                                         *)
(* The history variables pos, due and trust relate what the reader gets to  *)
(* what the writers put in (log of FileWriter): with them the composition  *)
(* implements RecordLog.                                                   *)
(***************************************************************************)
EXTENDS FileWriter, FileReader

VARIABLES
  pos,     \* records of a key read since the file was rewound
  due,     \* records of a key the reader must not miss
  trust    \* "kept", or since the reader opened the file: "stale" (it was
           \* truncated) or "garbled" (the reader got what nobody wrote)

history == <<pos, due, trust>>
svars == <<file, lock, writers, log, lost, used, ret, reader, out, pos, due, trust>>

Nothing == [k \in Keys |-> 0]

SInit == FInit /\ RInit /\ pos = Nothing /\ due = Nothing /\ trust = "kept"

\* fds_file_open() has just truncated the file.
Truncated == used'.opens # used.opens /\ file'.ext = {} /\ <<file, log, lost>>' # <<file, log, lost>>

WriterStep ==
  /\ WriterNext /\ UNCHANGED <<reader, out, pos, due>>
  /\ trust' = IF Truncated /\ reader.st \in {"opening", "open"} /\ trust = "kept"
              THEN "stale" ELSE trust

ReaderStep ==
  /\ ReaderNext /\ UNCHANGED fvars
  /\ trust' = IF reader'.st = "closed" THEN "kept"
              ELSE IF out'.kind = "garbled" /\ trust = "kept" THEN "garbled" ELSE trust
  /\ due' = IF reader.st = "closed" /\ reader'.st = "opening" /\ Closed
            THEN [k \in Keys |-> Len(log[k])]
            ELSE IF reader'.st = "closed" THEN Nothing ELSE due
  /\ pos' = IF reader'.st = "closed" THEN Nothing
            ELSE IF trust' # "kept" \/ reader'.st # "open" \/ out'.kind = "eoc" THEN pos
            ELSE IF out'.kind = "rec" THEN [pos EXCEPT ![out'.key] = @ + 1]
            ELSE Nothing

SNext == WriterStep \/ ReaderStep
SSpec == SInit /\ [][SNext]_svars

-----------------------------------------------------------------------------
(* Refinement. *)

\* The keys that pass the filter of a reader.
Wanted(rd) ==
  IF rd.st # "open" THEN Keys
  ELSE {k \in Keys :
          \/ ~rd.filter.on \/ k[2] \in rd.filter.odids
          \/ \E sid \in DOMAIN rd.sess :
               /\ rd.sess[sid] = k[1]
               /\ sid \in rd.filter.sids \/ <<sid, k[2]>> \in rd.filter.combi}

Result ==
  CASE out.kind = "rec" -> <<"record", out.key, out.rec>>
    [] out.kind = "eoc" -> <<"end">>
    [] out = Error("INTERNAL") -> <<"failed">>
    [] OTHER -> <<"none">>

Log == INSTANCE RecordLog WITH
  Records <- [n : 1..MaxRecs, def : Defs, etime : ETimes],
  whole   <- Closed,
  failed  <- lost,
  reading <- IF reader.st = "closed" THEN "closed" ELSE IF trust # "kept" THEN trust
             ELSE IF reader.st = "fatal" THEN "failed" ELSE reader.st,
  wanted  <- IF trust = "kept" THEN Wanted(reader) ELSE Keys,
  result  <- IF trust = "kept" THEN Result ELSE <<"none">>

\* Records are read as they were written: of every session and ODID in order,
\* once, with the template and Export Time they had, from the first one on,
\* while writers work, append, fail or die; and none of a properly closed file
\* is missed (libfds/file.h:404 and 628).
LogSpec == Log!LSpec
=============================================================================
