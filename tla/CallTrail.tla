----------------------------- MODULE CallTrail ------------------------------
(***************************************************************************)
(* What the audit trail promises the scorer (scoring/calls.py, the seal of *)
(* scoring/scorer.py): calls are only added, never edited or removed; a    *)
(* fund has at most one call of a night; and a call is added only while no *)
(* price dated after its night is known, so no call was made in hindsight. *)
(* How many processes log, and what made them run, is not visible.         *)
(***************************************************************************)
EXTENDS Integers

CONSTANTS Code, Call

VARIABLES
    bars,       \* per code, the dates whose price is known
    calls       \* the calls of record: [code, as_of, ...]

TrailInit == bars = [c \in Code |-> {}] /\ calls = {}

Learn ==
    /\ \A c \in Code : bars[c] \subseteq bars'[c]
    /\ UNCHANGED calls

Log(k) ==
    /\ \A j \in calls : j.code = k.code => j.as_of # k.as_of
    /\ \A d \in bars[k.code] : d =< k.as_of
    /\ calls' = calls \cup {k}
    /\ UNCHANGED bars

TrailNext == Learn \/ \E k \in Call : Log(k)

TrailSpec == TrailInit /\ [][TrailNext]_<<bars, calls>>
=============================================================================
