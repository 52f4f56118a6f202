----------------------------- MODULE RecordLog -----------------------------
(***************************************************************************)
(* What libfds/file.h promises about the records of a file, without blocks *)
(* or tables.                                                              *)
(*                                                                         *)
(* The file is a log of records for every key, a Transport Session and an  *)
(* Observation Domain.  A reader gets the records of a key in the order    *)
(* they were written, each one once, from the first one on.  It need not   *)
(* see all of them: of a file that is being written, or whose writer       *)
(* failed, the last records may be missing.  But what was in the file when *)
(* it was closed properly is "due" to every reader opened since, whoever   *)
(* appends to the file meanwhile, before the reader may see its end.       *)
(*                                                                         *)
(* fds_file_open() for writing starts a new log.  Nothing is promised to   *)
(* a reader that still reads the old one.                                  *)
(***************************************************************************)
EXTENDS Naturals, Sequences

CONSTANTS Keys, Records

VARIABLES
  log,      \* Keys -> sequence of records
  whole,    \* the file was closed properly and is not open for writing
  failed,   \* a write failed or a writer died since the log was started
  reading,  \* "closed", "opening", "open", "failed"; "stale" if the log is another
            \* one now, "garbled" if the reader got what nobody wrote
  pos,      \* Keys -> number of records read since the file was rewound
  due,      \* Keys -> number of records the reader must not miss
  wanted,   \* keys the filter of the reader selects
  result    \* what the last call of the reader returned

lvars == <<log, whole, failed, reading, pos, due, wanted, result>>

NoLog == [k \in Keys |-> <<>>]
Zero == [k \in Keys |-> 0]
Lengths == [k \in Keys |-> Len(log[k])]

LInit ==
  /\ log = NoLog /\ whole = FALSE /\ failed = FALSE
  /\ reading = "closed" /\ pos = Zero /\ due = Zero /\ wanted = Keys /\ result = <<"none">>

\* A writer adds a record,
Put(k, r) ==
  /\ ~whole /\ log' = [log EXCEPT ![k] = Append(@, r)]
  /\ UNCHANGED <<whole, failed, reading, pos, due, wanted, result>>

\* opens the file for appending, or closes it,
OpenOrClose == whole' = ~whole /\ UNCHANGED <<log, failed, reading, pos, due, wanted, result>>

\* fails to write a part of it,
FailToWrite ==
  /\ failed' = TRUE /\ whole' = FALSE
  /\ UNCHANGED <<log, reading, pos, due, wanted, result>>

\* or truncates it.
Truncate ==
  /\ log' \in {log, NoLog} /\ whole' = FALSE /\ failed' \in BOOLEAN
  /\ reading' = IF reading \in {"opening", "open"} THEN "stale" ELSE reading
  /\ result' = IF reading' = "stale" THEN <<"none">> ELSE result
  /\ wanted' = IF reading' = "stale" THEN Keys ELSE wanted
  /\ UNCHANGED <<pos, due>>

\* A reader opens the file, in two steps: a writer may come between them.
Open ==
  /\ reading = "closed" /\ reading' = "opening"
  /\ due' = IF whole THEN Lengths ELSE Zero
  /\ result' = <<"none">> /\ UNCHANGED <<log, whole, failed, pos, wanted>>
Opened ==
  /\ reading = "opening" /\ reading' = "open"
  /\ UNCHANGED <<log, whole, failed, pos, due, wanted, result>>

\* It rewinds or sets the filter,
Restart ==
  /\ reading = "open" /\ pos' = Zero /\ wanted' \in SUBSET Keys
  /\ result' = <<"none">> /\ UNCHANGED <<log, whole, failed, reading, due>>

\* gets the next record of a key or is told that there is none,
Deliver(k) ==
  /\ reading = "open" /\ k \in wanted /\ pos[k] < Len(log[k])
  /\ pos' = [pos EXCEPT ![k] = @ + 1]
  /\ result' = <<"record", k, log[k][pos'[k]]>>
  /\ UNCHANGED <<log, whole, failed, reading, due, wanted>>
End ==
  /\ reading = "open" /\ \A k \in wanted : due[k] <= pos[k]
  /\ result' = <<"end">> /\ UNCHANGED <<log, whole, failed, reading, pos, due, wanted>>

\* or fails, but not once it has opened a file that was whole.
Fail ==
  /\ reading \in {"closed", "opening"} \/ (reading = "open" /\ due = Zero)
  /\ result' = <<"failed">> /\ reading' = "failed" /\ wanted' = Keys
  /\ UNCHANGED <<log, whole, failed, pos, due>>

\* A write that failed may have left a part of what it was to store.  A reader
\* that opened the file since may be given the rest as if it were there, and
\* nothing is promised to it from then on.
Garble ==
  /\ reading = "open" /\ failed /\ due = Zero
  /\ reading' = "garbled" /\ wanted' = Keys /\ result' = <<"none">>
  /\ UNCHANGED <<log, whole, failed, pos, due>>
Close ==
  /\ reading' = "closed" /\ pos' = Zero /\ due' = Zero /\ wanted' = Keys /\ result' = <<"none">>
  /\ UNCHANGED <<log, whole, failed>>

LNext ==
  \/ \E k \in Keys, r \in Records : Put(k, r)
  \/ OpenOrClose \/ FailToWrite \/ Truncate
  \/ Open \/ Opened \/ Restart \/ End \/ Fail \/ Garble \/ Close
  \/ \E k \in Keys : Deliver(k)

LSpec == LInit /\ [][LNext]_lvars
=============================================================================
