------------------------------ MODULE FactLog -------------------------------
(***************************************************************************)
(* What PointInTimeStore can promise its callers: a log of facts that only *)
(* grows. It compares what is written with what it holds of dates from its *)
(* horizon on: there a new row is news (its payload is not the fact's      *)
(* latest, its stamp not taken). What older dates say may be written again.*)
(* Where a row physically lives is not visible.                            *)
(***************************************************************************)
EXTENDS Readings

CONSTANT Row        \* the readings the sources can produce

VARIABLES facts, horizon

logVars == <<facts, horizon>>

\* Neither the latest word on its fact, nor a second one under its stamp.
News(r) == \A s \in Revisions(facts, r) :
    /\ s.fetched_at # r.fetched_at
    /\ IsLatest(facts, s) => s.payload # r.payload

LogInit == facts = {} /\ horizon \in Int

Record ==
    /\ facts \subseteq facts' /\ facts' \subseteq Row
    /\ \A r \in facts' \ facts : r.as_of >= horizon => News(r)
    /\ \A r, s \in facts' \ facts : SameStamp(r, s) => r = s
    /\ horizon' = horizon

Retire ==
    /\ horizon' \in Int /\ horizon =< horizon'
    /\ facts' = facts

LogSpec == LogInit /\ [][Record \/ Retire]_logVars
=============================================================================
