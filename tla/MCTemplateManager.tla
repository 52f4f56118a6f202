-------------------------- MODULE MCTemplateManager --------------------------
(***************************************************************************)
(* Instances of the template manager for TLC.                              *)
(*                                                                         *)
(* Addresses of templates are interchangeable: a VIEW names a template by  *)
(* the place where the list first refers to it (the others are numbered),  *)
(* so that heaps that differ in addresses alone are one state.             *)
(***************************************************************************)
EXTENDS TemplateManager

Basic == {"set_time", "add"}
Collected == Basic \cup {"snapshot_get", "garbage_get"}
Withdrawing == Collected \cup {"withdraw", "withdraw_all"}

\* Messages of a UDP session.
UdpOps == [s \in {"UDP"} |-> Collected \cup {"clear"}]

\* Sessions of every kind, each with a part of the calls it allows.
ScopeOps ==
  [s \in {"TCP", "UDP", "SCTP", "FILE"} |->
     CASE s = "TCP"  -> Basic \cup {"snapshot_get", "remove", "set_iemgr"}
       [] s = "SCTP" -> Withdrawing
       [] s = "FILE" -> Collected \cup {"withdraw", "remove", "set_fkey"}
       [] s = "UDP"  -> Collected \cup {"set_iemgr", "set_udp_timeouts", "set_snapshot_timeout"}]

\* Addresses to allocate.
TenAddrs == 1..10

Place(t) ==
  IF t = NoTmplt THEN <<>>
  ELSE IF t \in ListRefs(mgr)
  THEN CHOOSE p \in (DOMAIN mgr.snaps) \X IDs :
         /\ mgr.snaps[p[1]].recs[p[2]].t = t
         /\ \A i \in 1..(p[1] - 1) : t \notin RefsOf(mgr.snaps[i])
  ELSE <<Cardinality({u \in 1..(t - 1) : u \notin ListRefs(mgr)})>>
PlacedRec(r) ==
  IF r.t = NoTmplt THEN <<>>
  ELSE <<Place(r.t), IF r.t \in DOMAIN mgr.tm THEN mgr.tm[r.t] ELSE <<>>, r.c, r.d>>
PlacedGarbage(g) ==
  [own |-> {Place(t) : t \in g.own},
   snaps |-> {[v EXCEPT !.ref = [id \in IDs |-> Place(v.ref[id])]] : v \in g.snaps}]

\* TLC evaluates functions lazily and a VIEW leaves them so in the state it
\* stores: the comparison makes it evaluate them.
Evaluated(view) == <<mgr = mgr, hist = hist, view>>

\* The list, for runs whose properties do not look at garbage.
ListOnly ==
  [mgr EXCEPT
     !.snaps = [i \in DOMAIN @ |-> [@[i] EXCEPT !.recs = [id \in IDs |-> PlacedRec(@[id])]]],
     !.tm = <<>>, !.trash = NoGarbage, !.handed = <<>>]
\* The list and garbage.  Nothing reads the content of a template that is
\* referred to by garbage alone.
Placed ==
  [ListOnly EXCEPT !.trash = PlacedGarbage(mgr.trash),
                   !.handed = [b \in DOMAIN mgr.handed |-> PlacedGarbage(mgr.handed[b])]]

\* Return codes decide no step and no property; the history variable is read
\* by SequencedByExportTime alone.
ListAndHistory == Evaluated(<<ListOnly, hist>>)
ListAndGarbage == Evaluated(Placed)
=============================================================================
