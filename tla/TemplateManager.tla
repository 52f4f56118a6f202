--------------------------- MODULE TemplateManager ---------------------------
(***************************************************************************)
(* The IPFIX template manager (src/template_mgr/template_manager.c): a     *)
(* list of snapshots of valid templates ordered by Export Time, in which   *)
(* the past can be edited, and the garbage that is handed to the user.     *)
(*                                                                         *)
(* One action per function of template_mgr.h; a function is an operator    *)
(* from manager to manager, so an action is the whole call.  Memory        *)
(* allocation never fails here (the header promises nothing after that).   *)
(*                                                                         *)
(* Export Times are unsigned integers modulo TimeMod (2^32 in the code)    *)
(* and are compared by the sign of their difference.                       *)
(***************************************************************************)
EXTENDS Integers, FiniteSets, SnapshotList

CONSTANTS
  Defs,         \* template definitions (the raw records)
  OptsDefs,     \* those that are Options Templates
  Keys,         \* flow keys, 0 is "no key"
  LongKeys,     \* keys with more bits than a template has fields
  IesSet,       \* IE managers that can be set
  Times,        \* Export Times of received messages
  TimeMod,      \* width of a time stamp
  Sessions,     \* session types, subset of {"TCP", "UDP", "SCTP", "FILE"}
  Ops,          \* session type -> API functions the user calls
  Lifetimes,    \* values given to set_udp_timeouts()
  SnapLifetimes,\* values given to set_snapshot_timeout()
  MaxSnaps, MaxHanded  \* bounds: list, garbage batches

ASSUME ParamsAssumption ==
  /\ TimeMod \in Nat \ {0} /\ TimeMod % 2 = 0
  /\ Times \subseteq 0..(TimeMod - 1)
  /\ IDs \subseteq Nat /\ IsFiniteSet(IDs)
  /\ Addrs \subseteq Nat /\ IsFiniteSet(Addrs)
  /\ OptsDefs \subseteq Defs /\ LongKeys \subseteq Keys
  /\ Sessions \subseteq {"TCP", "UDP", "SCTP", "FILE"}

VARIABLES
  mgr,   \* struct fds_tmgr, the templates it allocated, the garbage handed out
  ret,   \* return code of the last call
  hist   \* what was asked for each ID at each Export Time (history variable)

vars == <<mgr, ret, hist>>

-----------------------------------------------------------------------------
(* Configuration: fds_tmgr_create(). *)

HistoryAccess(m) == m.session # "TCP"
HistoryMod(m) == m.session # "TCP"
WithdrawRequired(m) == m.session \in {"TCP", "SCTP"}
WithdrawProhibited(m) == m.session = "UDP"

(* Time: mgr_time_cmp() and the TIME_xx macros. *)

LT(a, b) == a # b /\ (a - b) % TimeMod >= TimeMod \div 2
LE(a, b) == a = b \/ LT(a, b)
Plus(a, n) == (a + n) % TimeMod

-----------------------------------------------------------------------------
(* Templates.  tm maps the address of every live template to its content;  *)
(* "type" is fixed by the definition.                                      *)

TypeOf(def) == IF def \in OptsDefs THEN "opts" ELSE "data"
TypeMatches(type, def) == type = "any" \/ type = TypeOf(def)

\* SNAPSHOT_TF_TIMEOUT of a record; snapshot_rec.lifetime is x.eol.
TimesOut(x) == x.last # x.eol

Newest(m) == Len(m.snaps)
View(s) == [start |-> s.start, ref |-> [id \in IDs |-> s.recs[id].t]]
ViewRefs(v) == {v.ref[id] : id \in IDs} \ {NoTmplt}
NoGarbage == [own |-> {}, snaps |-> {}]
GarbageRefs(g) == UNION {ViewRefs(v) : v \in g.snaps}
ListRefs(m) == Refs(m.snaps)

\* An address malloc() can return: not live, and not referred to either, so
\* that a dangling reference stays visible.
Free(m) == Addrs \ (DOMAIN m.tm \cup ListRefs(m) \cup GarbageRefs(m.trash)
             \cup UNION {GarbageRefs(m.handed[b]) : b \in DOMAIN m.handed})
Fresh(m) == CHOOSE t \in Free(m) : \A u \in Free(m) : t <= u
Allocate(m, t, x) == [m EXCEPT !.tm = [u \in DOMAIN m.tm \cup {t} |-> IF u = t THEN x ELSE m.tm[u]]]
Destroy(m, T) == [m EXCEPT !.tm = [u \in DOMAIN m.tm \ T |-> m.tm[u]]]
Discard(m, own, snaps) ==
  [m EXCEPT !.trash = [own |-> @.own \cup own, snaps |-> @.snaps \cup snaps]]

\* Record that an assert() of the code would fail.
Assume(m, cond) == [m EXCEPT !.asserts = @ /\ cond]
\* ... and the one on the templates that get one flow key.
AssumeAlike(m, cond) == [m EXCEPT !.alike = @ /\ cond]

-----------------------------------------------------------------------------
(* Snapshots. *)

\* The same sequence, as a tuple: TLC keeps functions lazy, and a concatenation
\* with a lazy function loses the EXCEPTs applied to it.
Tuple(s) == SubSeq(s, 1, Len(s))

NewSnapshot(time) == [start |-> time, editable |-> TRUE, enabled |-> FALSE, minv |-> 0,
                      recs |-> [id \in IDs |-> NoRec]]

\* mgr_snap_create(): always the new oldest snapshot.
SnapCreate(m, time) ==
  Assume([m EXCEPT !.snaps = <<NewSnapshot(time)>> \o @,
                   !.cur = IF @ = 0 THEN 0 ELSE @ + 1],
         m.snaps # <<>> => LT(time, m.snaps[1].start))

Earliest(S) == CHOOSE x \in S : \A y \in S : LE(x, y)

\* mgr_snap_clone(): the copy is snapshot i + 1.
SnapClone(m, i, start) ==
  LET src     == m.snaps[i]
      timed   == {id \in IDs : Has(src, id) /\ TimesOut(m.tm[src.recs[id].t])}
      eol(id) == m.tm[src.recs[id].t].eol
      purge   == start # src.start /\ src.enabled /\ LE(src.minv, start)
      expired == IF purge THEN {id \in timed : LT(eol(id), start)} ELSE {}
      longest == Plus(start, IF m.limN > m.limO THEN m.limN ELSE m.limO)
      earliest == Earliest({longest} \cup {eol(id) : id \in timed \ expired})
  IN  Assume(
        [m EXCEPT !.cur = IF @ > i THEN @ + 1 ELSE @,
                  !.snaps = [Tuple(InsertClone(m.snaps, i, expired)) EXCEPT
                     ![i + 1].start = start,
                     ![i + 1].enabled = IF purge THEN timed # expired ELSE @,
                     ![i + 1].minv = IF purge THEN Plus(earliest, 1) ELSE @]],
        /\ ~src.editable /\ LE(src.start, start)
        /\ i < Newest(m) => LT(start, m.snaps[i + 1].start))

\* mgr_snap_edit(): snapshot i made editable is snapshot EditIdx of SnapEdit.
\* No caller gets here with a historical snapshot of a session whose history
\* is read-only (FDS_ERR_DENIED).
SnapEdit(m, i) ==
  IF m.snaps[i].editable THEN m
  ELSE Assume(SnapClone(m, i, m.snaps[i].start), i < Newest(m) => HistoryMod(m))
EditIdx(m, i) == IF m.snaps[i].editable THEN i ELSE i + 1

\* Hidden from seeking by a newer snapshot with the same start time.
Hidden(m, i) == i < Newest(m) /\ m.snaps[i + 1].start = m.snaps[i].start

\* mgr_snap_template_add_ref()
AddRef(m, i, id, t, c, d) ==
  LET s       == m.snaps[i]
      invalid == Plus(m.tm[t].eol, 1)
      minv    == IF s.enabled /\ ~LT(invalid, s.minv) THEN s.minv ELSE invalid
      m1      == Assume([m EXCEPT !.snaps = Tuple(SetRec(@, i, id, t, c, d))], ~Has(s, id))
  IN  IF TimesOut(m.tm[t])
      THEN Assume([m1 EXCEPT !.snaps[i].enabled = TRUE, !.snaps[i].minv = minv],
                  LT(m.tm[t].last, m.tm[t].eol) /\ LT(s.start, minv))
      ELSE m1

MoveTarget(m, i, id) == CHOOSE j \in 0..(i - 1) : IsMoveTarget(m.snaps, i, id, j)

\* mgr_snap_template_remove()
TemplateRemove(m, i, id) ==
  LET s   == m.snaps[i]
      rec == s.recs[id]
      to  == IF rec.d THEN MoveTarget(m, i, id) ELSE 0
      m1  == Assume([m EXCEPT !.snaps = [Tuple(DropRec(m.snaps, i, id, to)) EXCEPT
                       ![i].enabled = @ /\ Cardinality({x \in IDs : Has(s, x)}) # 1]],
                    s.editable)
  IN  IF ~rec.d \/ to # 0 THEN m1
      ELSE IF rec.c THEN Destroy(m1, {rec.t})
      ELSE Discard(m1, {rec.t}, {})

\* Mutant: the snapshot itself is freed at once.
SnapRemoveFrees(m, i) ==
  LET to == [id \in IDs |-> IF m.snaps[i].recs[id].d THEN MoveTarget(m, i, id) ELSE 0]
  IN  Discard([m EXCEPT !.snaps = Tuple(Unlink(@, i, to)),
                        !.cur = IF @ = i THEN 0 ELSE IF @ > i THEN @ - 1 ELSE @],
              LeaveWith(m.snaps, i, to), {})

\* mgr_snap_remove()
SnapRemove(m, i) ==
  LET to == [id \in IDs |-> IF m.snaps[i].recs[id].d THEN MoveTarget(m, i, id) ELSE 0]
  IN  Discard([m EXCEPT !.snaps = Tuple(Unlink(@, i, to)),
                        !.cur = IF @ = i THEN 0 ELSE IF @ > i THEN @ - 1 ELSE @],
              LeaveWith(m.snaps, i, to), {View(m.snaps[i])})

-----------------------------------------------------------------------------
(* Freezing and propagation of what was added to a historical snapshot. *)

\* Mutant: newer definitions of the ID do not stop the propagation.
StopsAtExpiry(m, id, t, j) == TimesOut(m.tm[t]) /\ LT(m.tm[t].eol, m.snaps[j].start)

\* A template stops at a snapshot that starts after it expired, or that has a
\* newer definition of the ID.
Stops(m, id, t, j) ==
  LET dsc == m.snaps[j]
  IN  \/ TimesOut(m.tm[t]) /\ LT(m.tm[t].eol, dsc.start)
      \/ Has(dsc, id) /\ LT(m.tm[t].last, m.tm[dsc.recs[id].t].last)

\* The loop of mgr_snap_freeze_cb(): carry template t of the ID to snapshot j
\* and newer ones; "at" is the last snapshot it was inserted into.
PropagationEnds(p) == p.j > Newest(p.m) \/ Stops(p.m, p.id, p.t, p.j)
PropagateTo(p) ==
  LET e  == EditIdx(p.m, p.j)
      m1 == SnapEdit(p.m, p.j)
      m2 == IF Has(p.m.snaps[p.j], p.id) THEN TemplateRemove(m1, e, p.id) ELSE m1
  IN  IF Hidden(p.m, p.j) THEN [p EXCEPT !.j = @ + 1]
      ELSE [p EXCEPT !.m = AddRef(m2, e, p.id, p.t, FALSE, FALSE), !.j = e + 1, !.at = e]
Propagation == INSTANCE Loop WITH Over <- PropagationEnds, Round <- PropagateTo
Propagate(m, i, id, t) ==
  Propagation!Repeat([m |-> m, id |-> id, t |-> t, j |-> i + 1, at |-> 0], Newest(m))

\* ... and the Delete flag follows it to snapshot "at" (0: it stays).
MoveOwner(m, i, id, at) ==
  IF at = 0 THEN m
  ELSE [m EXCEPT !.snaps[at].recs[id].d = TRUE, !.snaps[i].recs[id].d = FALSE]
Propagated(p, i, id) == MoveOwner(p.m, i, id, p.at)
PropagateRec(m, i, id) ==
  LET rec == m.snaps[i].recs[id]
  IN  IF ~Has(m.snaps[i], id) \/ ~rec.c THEN m
      ELSE Propagated(Propagate(Assume(m, rec.d /\ HistoryMod(m)), i, id, rec.t), i, id)

\* IDs in the order snapshot_rec_for() visits them.
Least(S) == CHOOSE x \in S : \A y \in S : x <= y
NoneLeft(f) == f.left = {}

FreezeRec(f) ==
  LET id == Least(f.left)
  IN  [f EXCEPT !.m = PropagateRec(@, f.i, id), !.left = @ \ {id}]
Freezing == INSTANCE Loop WITH Over <- NoneLeft, Round <- FreezeRec

\* mgr_snap_freeze()
SnapFreeze(m, i) ==
  LET m1 == [m EXCEPT !.snaps[i].editable = FALSE]
  IN  IF ~m.snaps[i].editable THEN m
      ELSE IF i = Newest(m) THEN m1
      ELSE Freezing!Repeat([m |-> m1, i |-> i, left |-> IDs], Cardinality(IDs)).m

-----------------------------------------------------------------------------
(* Seeking. *)

\* The loop of mgr_seek_forwards(): freeze what is passed.  Propagation may copy
\* each of the snapshots on the way once, hence the bound.
Arrived(f) ==
  f.i = Newest(f.m) \/ LT(f.time, f.m.snaps[f.i + 1].start)
NotAfter(m, i, time) == Assume(m, LE(m.snaps[i].start, time))

\* Mutant: what is passed stays editable.
PassUnfrozen(f) == [f EXCEPT !.m = NotAfter(@, f.i, f.time), !.i = @ + 1]

Pass(f) == [f EXCEPT !.m = SnapFreeze(NotAfter(@, f.i, f.time), f.i), !.i = @ + 1]
Passing == INSTANCE Loop WITH Over <- Arrived, Round <- Pass
Forwards(m, i, time) ==
  Passing!Repeat([m |-> m, i |-> i, time |-> time], 2 * Newest(m))

\* Mutant: expired templates stay in the snapshot found.
ArriveNoExpiry(m, i, time) ==
  [(IF m.snaps[i].start = time THEN m ELSE SnapFreeze(m, i)) EXCEPT !.cur = i]

\* Mutant: the snapshot found is not frozen.
ArriveUnfrozen(m, i, time) ==
  IF m.snaps[i].start # time /\ m.snaps[i].enabled /\ LE(m.snaps[i].minv, time)
  THEN [SnapClone(m, i, time) EXCEPT !.cur = i + 1]
  ELSE [m EXCEPT !.cur = i]

\* What mgr_seek_forwards() does with snapshot i it has found: freeze it
\* unless it starts at the very time, and leave expired templates behind.
Arrive(m, i, time) ==
  LET s == m.snaps[i]
  IN  IF s.start = time THEN [m EXCEPT !.cur = i]
      ELSE IF s.enabled /\ LE(s.minv, time)
      THEN [SnapClone(SnapFreeze(m, i), i, time) EXCEPT !.cur = i + 1]
      ELSE [SnapFreeze(m, i) EXCEPT !.cur = i]

\* mgr_seek_forwards()
ArriveFrom(f, time) == Arrive(NotAfter(Assume(f.m, Arrived(f)), f.i, time), f.i, time)
SeekForwards(m, time) == ArriveFrom(Forwards(m, m.cur, time), time)

\* mgr_seek_backwards(): nothing is frozen, older snapshots already are.
SeekBackwards(m, time) ==
  LET older == {j \in 1..(m.cur - 1) : LE(m.snaps[j].start, time)}
      i     == CHOOSE j \in older : \A k \in older : k <= j
      s     == m.snaps[i]
      m1    == Assume(m, \A j \in 1..(m.cur - 1) :
                           (\A k \in older : k <= j) => ~m.snaps[j].editable)
  IN  IF older = {} THEN [SnapCreate(m1, time) EXCEPT !.cur = 1]
      ELSE IF s.enabled /\ LE(s.minv, time)
      THEN [SnapClone(m1, i, time) EXCEPT !.cur = i + 1]
      ELSE [m1 EXCEPT !.cur = i]

\* fds_tmgr_set_time(): return code and the manager after the call.
TimeVerdict(m, t) ==
  IF LT(t, m.now) /\ m.snaps # <<>>
  THEN IF ~HistoryAccess(m) THEN "DENIED"
       ELSE IF LT(Plus(t, m.limS), m.newest) THEN "NOTFOUND" ELSE "OK"
  ELSE "OK"

SelectTime(m, t) ==
  LET newest == IF (LT(t, m.now) /\ m.snaps = <<>>) \/ LT(m.newest, t) THEN t ELSE m.newest
      m1     == [m EXCEPT !.now = t, !.newest = newest,
                          !.cur = IF @ = 0 /\ m.snaps # <<>> THEN 1 ELSE @]
  IN  IF m.snaps = <<>> THEN [SnapCreate(m1, t) EXCEPT !.cur = 1]
      ELSE IF LT(t, m1.snaps[m1.cur].start) THEN SeekBackwards(m1, t)
      ELSE SeekForwards(m1, t)

-----------------------------------------------------------------------------
(* Modification. *)

\* mgr_modify_prepare(): makes m.cur editable and start at m.now, or DENIED.
ReadOnly(m) == m.cur < Newest(m) /\ ~HistoryMod(m)
Prepare(m) ==
  LET s == m.snaps[m.cur]
  IN  IF s.start = m.now
      THEN [SnapEdit(m, m.cur) EXCEPT !.cur = EditIdx(m, m.cur)]
      ELSE [SnapClone(m, m.cur, m.now) EXCEPT !.cur = m.cur + 1]

\* mgr_snap_template_add() to the (prepared) current snapshot.  A refresh
\* copies the old template, which keeps its first_seen and flow key.
Refused(m, id, def) ==
  LET rec == m.snaps[m.cur].recs[id]
  IN  rec.t # NoTmplt /\ m.tm[rec.t].def # def /\ WithdrawRequired(m)

TemplateAdd(m, id, def) ==
  LET rec     == m.snaps[m.cur].recs[id]
      refresh == rec.t # NoTmplt /\ m.tm[rec.t].def = def
      t       == Fresh(m)
      x       == [def |-> def, last |-> m.now,
                  eol |-> Plus(m.now, IF TypeOf(def) = "data" THEN m.limN ELSE m.limO),
                  first |-> IF refresh THEN m.tm[rec.t].first ELSE m.now,
                  key |-> IF refresh THEN m.tm[rec.t].key ELSE 0,
                  ies |-> IF refresh THEN m.tm[rec.t].ies ELSE m.ies]
      m1      == Allocate(m, t, x)
      m2      == IF rec.t # NoTmplt THEN TemplateRemove(m1, m.cur, id) ELSE m1
  IN  AddRef(m2, m.cur, id, t, TRUE, TRUE)

\* The loop of mgr_snap_template_withdraw(), from snapshot j on.
WithdrawEnds(w) ==
  \/ w.j > Newest(w.m)
  \/ LET s == w.m.snaps[w.j]
     IN  Has(s, w.id) /\ LT(w.m.now, w.m.tm[s.recs[w.id].t].last)
WithdrawAt(w) ==
  LET e == EditIdx(w.m, w.j)
  IN  IF ~Has(w.m.snaps[w.j], w.id) \/ Hidden(w.m, w.j) THEN [w EXCEPT !.j = @ + 1]
      ELSE [w EXCEPT !.m = TemplateRemove(SnapEdit(@, w.j), e, w.id), !.j = e + 1]
Withdrawal == INSTANCE Loop WITH Over <- WithdrawEnds, Round <- WithdrawAt
WithdrawFrom(m, j, id) == Withdrawal!Repeat([m |-> m, j |-> j, id |-> id], Newest(m)).m

\* What it does with a snapshot it changed: only the newest stays editable.
Refreeze(m, i) ==
  IF ~HistoryMod(m) /\ i < Newest(m) THEN [m EXCEPT !.snaps[i].editable = FALSE] ELSE m

\* The loop of fds_tmgr_template_remove(), over the whole list.
RemovalEnds(r) == r.j > Newest(r.m)
RemoveAt(r) ==
  LET s  == r.m.snaps[r.j]
      e  == EditIdx(r.m, r.j)
      m1 == IF s.editable THEN r.m ELSE SnapClone(r.m, r.j, s.start)
  IN  IF \/ ~Has(s, r.id) \/ Hidden(r.m, r.j)
         \/ ~TypeMatches(r.type, r.m.tm[s.recs[r.id].t].def)
      THEN [r EXCEPT !.j = @ + 1]
      ELSE [r EXCEPT !.m = Refreeze(TemplateRemove(m1, e, r.id), e), !.j = e + 1]
Removal == INSTANCE Loop WITH Over <- RemovalEnds, Round <- RemoveAt
RemoveFrom(m, id, type) ==
  Removal!Repeat([m |-> m, j |-> 1, id |-> id, type |-> type], Newest(m)).m

\* The copy of a template shared by several snapshots is owned by the newest
\* of them: the previous owner loses the Delete flag.
Disown(m, i, id) ==
  Assume([m EXCEPT !.snaps[i].recs[id].d = FALSE], m.snaps[i].recs[id].d)

\* The loop of fds_tmgr_template_set_fkey(): "orig" is the template replaced
\* last (tmplt_orig), "new" its copy with the key, "at" the snapshot that owns
\* the copy.  The copy never gets the Create flag.
FkeyEnds(f) ==
  \/ f.j > Newest(f.m)
  \/ LET s == f.m.snaps[f.j]
     IN  Has(s, f.id) /\ LT(f.first, f.m.tm[s.recs[f.id].t].first)
FkeyAt(f) ==
  LET m    == f.m
      s    == m.snaps[f.j]
      old  == s.recs[f.id].t
      e    == EditIdx(m, f.j)
      same == old = f.orig
      t    == IF same THEN f.new ELSE Fresh(m)
      m1   == AssumeAlike(SnapEdit(m, f.j),
                f.new = NoTmplt \/ m.tm[f.new].def = m.tm[old].def)
      m2   == IF same THEN m1 ELSE Allocate(m1, t, [m.tm[old] EXCEPT !.key = f.key])
      m3   == AddRef(TemplateRemove(m2, e, f.id), e, f.id, t, FALSE, TRUE)
      m4   == IF same THEN Disown(m3, f.at, f.id) ELSE m3
  IN  IF ~Has(s, f.id) \/ Hidden(m, f.j) THEN [f EXCEPT !.j = @ + 1]
      ELSE [f EXCEPT !.m = m4, !.j = e + 1, !.orig = old, !.new = t, !.at = e]
Rekeying == INSTANCE Loop WITH Over <- FkeyEnds, Round <- FkeyAt
FkeyFrom(m, id, key, first) ==
  Rekeying!Repeat([m |-> m, j |-> m.cur, id |-> id, key |-> key, first |-> first,
                   orig |-> NoTmplt, new |-> NoTmplt, at |-> 0], Newest(m)).m

-----------------------------------------------------------------------------
(* Cleanup and replacement of the whole list. *)

\* The loop of mgr_cleanup(), from the oldest snapshot.
CleanupEnds(c) == c.i >= Newest(c.m)
CleanupAt(c) ==
  IF \/ Hidden(c.m, c.i)
     \/ LT(Plus(c.m.snaps[c.i + 1].start, c.m.limS - 1), c.m.snaps[Newest(c.m)].start)
  THEN [c EXCEPT !.m = SnapRemove(@, c.i)]
  ELSE [c EXCEPT !.i = @ + 1]
Sweep == INSTANCE Loop WITH Over <- CleanupEnds, Round <- CleanupAt

DiscardList(m, S) ==
  Discard(m, UNION {OwnedBy(m.snaps[i]) : i \in S}, {View(m.snaps[i]) : i \in S})

Cleanup(m) ==
  IF m.snaps = <<>> THEN m
  ELSE IF ~HistoryAccess(m) \/ m.limS = 0
  THEN [DiscardList(m, 1..(Newest(m) - 1)) EXCEPT !.snaps = <<m.snaps[Newest(m)]>>, !.cur = 0]
  ELSE [Sweep!Repeat([m |-> m, i |-> 1], Newest(m)).m EXCEPT !.cur = 0]

\* fds_tmgr_clear()
ClearAll(m) ==
  [DiscardList(m, DOMAIN m.snaps) EXCEPT !.snaps = <<>>, !.cur = 0, !.now = 0, !.newest = 0]

\* fds_tmgr_set_iemgr(): every template owned in the list gets a copy.
CopyAll(m, ies) ==
  LET owned  == Owned(m.snaps)
      copy   == CHOOSE f \in [owned -> Free(m)] : \A t, u \in owned : f[t] = f[u] => t = u
      copies == {copy[t] : t \in owned}
  IN  [ClearAll(m) EXCEPT
         !.ies = ies,
         !.tm = [t \in DOMAIN m.tm \cup copies |->
                   IF t \in copies
                   THEN [m.tm[CHOOSE o \in owned : copy[o] = t] EXCEPT !.ies = ies]
                   ELSE m.tm[t]],
         !.snaps = Tuple(ReplaceRefs(m.snaps, copy))]

-----------------------------------------------------------------------------
(* What was asked for, by Export Time. *)

\* Times the manager can be at: those of messages, and 0 when it is cleared.
Clock == Times \cup {0}
Nothing == [op |-> "none"]
Withdrawn == [op |-> "withdraw"]
Defined(x) == [op |-> "add", def |-> x.def, timed |-> TimesOut(x), eol |-> x.eol]

\* A bound: the call is not made when its result would not fit.
Fits(m) == Newest(m) <= MaxSnaps /\ Len(m.handed) <= MaxHanded
Room(m, n) == Cardinality(Free(m)) >= n

Done(m, code) == mgr' = m /\ ret' = code /\ Fits(m)
Fails(code) == ret' = code /\ UNCHANGED <<mgr, hist>>
Called(function) == function \in Ops[mgr.session]

Init ==
  /\ \E s \in Sessions, n \in Lifetimes, o \in Lifetimes, h \in SnapLifetimes :
       mgr = [session |-> s, limN |-> IF s = "UDP" THEN n ELSE 0,
              limO |-> IF s = "UDP" THEN o ELSE 0, limS |-> h,
              now |-> 0, newest |-> 0, snaps |-> <<>>, cur |-> 0, tm |-> <<>>,
              ies |-> CHOOSE g \in IesSet : TRUE, trash |-> NoGarbage,
              handed |-> <<>>, asserts |-> TRUE, alike |-> TRUE]
  /\ ret = "OK"
  /\ hist = [id \in IDs |-> [t \in Clock |-> Nothing]]

\* fds_tmgr_set_time()
SetTime(t) ==
  /\ Called("set_time")
  /\ \/ /\ TimeVerdict(mgr, t) = "OK"
        /\ Done(SelectTime(mgr, t), "OK")
        /\ UNCHANGED hist
     \/ /\ TimeVerdict(mgr, t) # "OK"
        /\ Fails(TimeVerdict(mgr, t))

\* Entry checks shared by the functions that modify the current snapshot.
NoContext == mgr.cur = 0 /\ Fails("ARG")

\* fds_tmgr_template_add()
Added(m, id) ==
  /\ Done(m, "OK")
  /\ hist' = [hist EXCEPT ![id][mgr.now] = Defined(m.tm[m.snaps[m.cur].recs[id].t])]
Add(id, def) ==
  /\ Called("add")
  /\ \/ NoContext
     \/ mgr.cur # 0 /\ ReadOnly(mgr) /\ Fails("DENIED")
     \/ /\ mgr.cur # 0 /\ ~ReadOnly(mgr) /\ Room(mgr, 1)
        /\ LET m == Prepare(mgr)
           IN  IF Refused(m, id, def)
               THEN Done(m, "DENIED") /\ UNCHANGED hist
               ELSE Added(TemplateAdd(m, id, def), id)

\* mgr_snap_template_withdraw() of the prepared current snapshot.
WithdrawCode(m, id, type) ==
  LET t == m.snaps[m.cur].recs[id].t
  IN  IF t = NoTmplt THEN "NOTFOUND"
      ELSE IF ~TypeMatches(type, m.tm[t].def) THEN "ARG" ELSE "OK"

\* fds_tmgr_template_withdraw()
Withdraw(id, type) ==
  /\ Called("withdraw")
  /\ \/ NoContext
     \/ mgr.cur # 0 /\ (WithdrawProhibited(mgr) \/ ReadOnly(mgr)) /\ Fails("DENIED")
     \/ /\ mgr.cur # 0 /\ ~WithdrawProhibited(mgr) /\ ~ReadOnly(mgr)
        /\ LET m    == Prepare(mgr)
               code == WithdrawCode(m, id, type)
           IN  IF code # "OK" THEN Done(m, code) /\ UNCHANGED hist
               ELSE /\ Done(WithdrawFrom(m, m.cur, id), "OK")
                    /\ hist' = [hist EXCEPT ![id][mgr.now] = Withdrawn]

\* fds_tmgr_template_withdraw_all()
WithdrawNext(f) ==
  LET id == Least(f.left)
  IN  [f EXCEPT !.m = WithdrawFrom(@, @.cur, id), !.left = @ \ {id}]
Withdrawals == INSTANCE Loop WITH Over <- NoneLeft, Round <- WithdrawNext
WithdrawAll(type) ==
  /\ Called("withdraw_all")
  /\ \/ NoContext
     \/ mgr.cur # 0 /\ (WithdrawProhibited(mgr) \/ ReadOnly(mgr)) /\ Fails("DENIED")
     \/ /\ mgr.cur # 0 /\ ~WithdrawProhibited(mgr) /\ ~ReadOnly(mgr)
        /\ LET m       == Prepare(mgr)
               all     == {id \in IDs : WithdrawCode(m, id, type) = "OK"}
           IN  /\ Done(Withdrawals!Repeat([m |-> m, left |-> all], Cardinality(IDs)).m, "OK")
               /\ hist' = [id \in IDs |-> IF id \in all
                                          THEN [hist[id] EXCEPT ![mgr.now] = Withdrawn]
                                          ELSE hist[id]]

\* fds_tmgr_template_remove(); ends with fds_tmgr_set_time() of the same time.
TemplateRemoveAll(id, type) ==
  /\ Called("remove")
  /\ Done(SelectTime([RemoveFrom(mgr, id, type) EXCEPT !.cur = 0], mgr.now), "OK")
  /\ hist' = [hist EXCEPT ![id] = [t \in Clock |->
                IF @[t].op = "add" /\ TypeMatches(type, @[t].def) THEN Nothing ELSE @[t]]]

\* fds_tmgr_template_set_fkey()
SetFkey(id, key) ==
  LET t == mgr.snaps[mgr.cur].recs[id].t
  IN  /\ Called("set_fkey")
      /\ \/ NoContext
         \/ mgr.cur # 0 /\ t = NoTmplt /\ Fails("NOTFOUND")
         \/ mgr.cur # 0 /\ t # NoTmplt /\ key \in LongKeys /\ Fails("ARG")
         \/ /\ mgr.cur # 0 /\ t # NoTmplt /\ key \notin LongKeys
            /\ mgr.tm[t].key = key /\ Fails("OK")
         \/ /\ mgr.cur # 0 /\ t # NoTmplt /\ key \notin LongKeys
            /\ mgr.tm[t].key # key /\ ReadOnly(mgr) /\ Fails("DENIED")
         \/ /\ mgr.cur # 0 /\ t # NoTmplt /\ key \notin LongKeys
            /\ mgr.tm[t].key # key /\ ~ReadOnly(mgr) /\ Room(mgr, Newest(mgr) + 1)
            /\ LET m == Prepare(mgr)
               IN  Done(FkeyFrom(m, id, key, mgr.tm[t].first), "OK")
            /\ UNCHANGED hist

\* fds_tmgr_snapshot_get() and fds_tmgr_template_get(): the current snapshot
\* is frozen before it is handed to the user.
SnapshotGet ==
  /\ Called("snapshot_get")
  /\ \/ NoContext
     \/ /\ mgr.cur # 0
        /\ Done(SnapFreeze(mgr, mgr.cur), "OK")
        /\ UNCHANGED hist

\* fds_tmgr_set_udp_timeouts()
SetUdpTimeouts(n, o) ==
  /\ Called("set_udp_timeouts")
  /\ \/ mgr.session # "UDP" /\ Fails("ARG")
     \/ /\ mgr.session = "UDP"
        /\ Done([mgr EXCEPT !.limN = n, !.limO = o], "OK")
        /\ UNCHANGED hist

\* fds_tmgr_set_snapshot_timeout()
SetSnapshotTimeout(h) ==
  /\ Called("set_snapshot_timeout")
  /\ Done([mgr EXCEPT !.limS = h], "OK")
  /\ UNCHANGED hist

\* fds_tmgr_set_iemgr()
SetIemgr(ies) ==
  LET m == Cleanup(mgr)
  IN  /\ Called("set_iemgr")
      /\ Room(m, Cardinality(ListRefs(m)))
      /\ Done(IF m.snaps = <<>> THEN [m EXCEPT !.ies = ies] ELSE CopyAll(m, ies), "OK")
      /\ UNCHANGED hist

\* fds_tmgr_clear()
Clear ==
  /\ Called("clear")
  /\ Done(ClearAll(mgr), "OK")
  /\ hist' = [id \in IDs |-> [t \in Clock |-> Nothing]]

\* fds_tmgr_garbage_get()
HandOut(m) ==
  IF m.trash = NoGarbage THEN m
  ELSE [m EXCEPT !.trash = NoGarbage, !.handed = Append(@, m.trash)]
GarbageGet ==
  /\ Called("garbage_get")
  /\ Done(HandOut(SelectTime(Cleanup(mgr), mgr.now)), "OK")
  /\ UNCHANGED hist

\* fds_tmgr_garbage_destroy(): the user destroys garbage in the order it was
\* handed out, once nothing refers to it any more.
GarbageDestroy ==
  /\ Called("garbage_get")
  /\ mgr.handed # <<>>
  /\ Done([Destroy(mgr, Head(mgr.handed).own) EXCEPT !.handed = Tail(@)], "OK")
  /\ UNCHANGED hist

Next ==
  \/ \E t \in Times : SetTime(t)
  \/ \E id \in IDs, def \in Defs : Add(id, def)
  \/ \E id \in IDs, type \in {"any", "data", "opts"} : Withdraw(id, type) \/ TemplateRemoveAll(id, type)
  \/ \E type \in {"any", "data", "opts"} : WithdrawAll(type)
  \/ \E id \in IDs, key \in Keys : SetFkey(id, key)
  \/ \E n, o \in Lifetimes : SetUdpTimeouts(n, o)
  \/ \E h \in SnapLifetimes : SetSnapshotTimeout(h)
  \/ \E ies \in IesSet : SetIemgr(ies)
  \/ SnapshotGet \/ Clear \/ GarbageGet \/ GarbageDestroy

Spec == Init /\ [][Next]_vars

-----------------------------------------------------------------------------
(* Properties. *)

Garbages(m) == <<m.trash>> \o m.handed

\* The state of TemplateOwnership at the end of a call.
Uses(g) == [own |-> g.own, refs |-> GarbageRefs(g)]
Own == INSTANCE TemplateOwnership WITH
  snaps  <- mgr.snaps,
  live   <- DOMAIN mgr.tm,
  trash  <- Uses(mgr.trash),
  handed <- [b \in DOMAIN mgr.handed |-> Uses(mgr.handed[b])]

\* Every allocated template is freed exactly once, and never while something
\* refers to it: the newest of the records that share it has the Delete flag,
\* or one piece of garbage owns it (snapshot_rec_flags in snapshot.h); no
\* snapshot that somebody can still reach, in the list or in garbage that is
\* not destroyed, refers to a freed template; garbage may be destroyed before
\* anything newer, and what mgr_snap_template_remove() may free at once is in
\* no garbage.
SingleOwner ==
  /\ ListInv(mgr.snaps) /\ Own!OwnersDisjoint /\ Own!NoLeak
  /\ Own!NoDangling /\ Own!GarbageUnused /\ Own!AddedIsUnseen

\* No assert() of template_manager.c on the order of snapshots, on times, on
\* what may be edited and on the flags of records fails, whatever the order of
\* the calls; the one of fds_tmgr_template_set_fkey() on the templates it meets
\* does, and is FkeyMeetsCopies.
OtherAssertsHold == mgr.asserts

\* "Just check if the templates are the same": a flow key propagates to copies
\* of one template only, as a definition with a later first_seen "must be also
\* different" and one with an earlier first_seen is no other definition
\* (the assert of fds_tmgr_template_set_fkey() on fds_template_cmp()).  It does
\* not hold for a definition that was added into history.
FkeyMeetsCopies == mgr.alike

\* The selected snapshot is the one valid at the selected Export Time, and no
\* template in it has expired (asserts of fds_tmgr_snapshot_get()).
CurrentIsValid ==
  mgr.cur # 0 =>
    /\ LE(mgr.snaps[mgr.cur].start, mgr.now)
    /\ mgr.cur < Newest(mgr) => LT(mgr.now, mgr.snaps[mgr.cur + 1].start)
    /\ \A t \in RefsOf(mgr.snaps[mgr.cur]) : TimesOut(mgr.tm[t]) => LE(mgr.now, mgr.tm[t].eol)

\* What is older than the selected time does not change any more: older
\* snapshots are frozen (assert of mgr_seek_backwards()), and so is the
\* selected one unless it starts at that very time (mgr_modify_prepare()
\* edits it in place only then).
PastIsFrozen ==
  mgr.cur # 0 =>
    /\ \A i \in 1..(mgr.cur - 1) : ~mgr.snaps[i].editable
    /\ mgr.snaps[mgr.cur].editable => mgr.snaps[mgr.cur].start = mgr.now

\* "All template management actions are sequenced using Export Time": the
\* definition seen at the selected time is the latest one asked for at or
\* before that time, whatever order the messages came in.
SeenAt(id) ==
  LET t == mgr.snaps[mgr.cur].recs[id].t
  IN  IF t = NoTmplt THEN "none" ELSE mgr.tm[t].def
AskedAt(id) ==
  LET past == {t \in Clock : hist[id][t].op # "none" /\ LE(t, mgr.now)}
      h    == hist[id][CHOOSE t \in past : \A u \in past : LE(u, t)]
  IN  IF past = {} THEN "none"
      ELSE IF h.op = "withdraw" \/ (h.timed /\ LT(h.eol, mgr.now)) THEN "none" ELSE h.def
SequencedByExportTime == mgr.cur # 0 => \A id \in IDs : SeenAt(id) = AskedAt(id)

\* After a change of IE manager no template of the list refers to the old one.
IesCurrent == \A t \in ListRefs(mgr) : mgr.tm[t].ies = mgr.ies

\* "If modification of history is disabled, only the newest snapshot can be
\* editable" (fds_tmgr_template_remove()).  It does not hold in a TCP session
\* after fds_tmgr_set_iemgr(), which forgets the current time.
OnlyNewestEditable ==
  ~HistoryMod(mgr) => \A i \in 1..(Newest(mgr) - 1) : ~mgr.snaps[i].editable

\* A snapshot that was frozen, hence perhaps handed out, is never changed: it
\* stays as it is in the list or in garbage, with the same templates.
Content(m, v) == [start |-> v.start,
                  def |-> [id \in IDs |-> IF v.ref[id] = NoTmplt THEN <<>>
                                          ELSE <<v.ref[id], m.tm[v.ref[id]]>>]]
Frozen(m) == {Content(m, View(m.snaps[i])) : i \in {j \in DOMAIN m.snaps : ~m.snaps[j].editable}}
Reachable(m) == Frozen(m) \cup UNION {{Content(m, v) : v \in Garbages(m)[b].snaps} :
                                       b \in DOMAIN Garbages(m)}
FrozenStays == [][Frozen(mgr) \subseteq Reachable(mgr')]_vars
=============================================================================
