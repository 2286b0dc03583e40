------------------------------ MODULE Readings ------------------------------
(***************************************************************************)
(* What the point-in-time store computes over a set of stamped readings.   *)
(* A reading is a record [key, as_of, fetched_at, payload]; "key" stands   *)
(* for the (series, key) pair of the table, "as_of" and "fetched_at" are   *)
(* integers ordered as the ISO strings of the code are.                    *)
(***************************************************************************)
EXTENDS Integers

\* Two revisions of one fact: the (series, key, as_of) partition of append.
SameFact(r, s) == r.key = s.key /\ r.as_of = s.as_of

\* The stored revisions of the fact r states.
Revisions(rows, r) == {s \in rows : SameFact(s, r)}

\* s is the revision ROW_NUMBER() ... ORDER BY fetched_at DESC = 1 keeps.
IsLatest(rows, s) ==
    \A t \in Revisions(rows, s) : t.fetched_at =< s.fetched_at

\* Mutant: append without the content comparison (only the primary key dedups).
AcceptsOnKeyAlone(rows, r) ==
    \A s \in Revisions(rows, r) : s.fetched_at # r.fetched_at

\* The WHERE of append's INSERT: the payload differs from the latest stored
\* revision; ON CONFLICT DO NOTHING: the primary key is not taken.
Accepts(rows, r) ==
    /\ \A s \in Revisions(rows, r) : IsLatest(rows, s) => s.payload # r.payload
    /\ \A s \in Revisions(rows, r) : s.fetched_at # r.fetched_at

\* The table after append(batch), for a batch of one row per primary key.
AppendTo(rows, batch) == rows \cup {r \in batch : Accepts(rows, r)}

SameStamp(r, s) == SameFact(r, s) /\ r.fetched_at = s.fetched_at

\* The tables any batch can leave: every row is compared with what was there before, and
\* of those under one primary key ON CONFLICT DO NOTHING keeps one.
Appends(rows, batch) ==
    LET accepted == {r \in batch : Accepts(rows, r)}
    IN  {rows \cup kept : kept \in
            {k \in SUBSET accepted :
                /\ \A r, s \in k : SameStamp(r, s) => r = s
                /\ \A r \in accepted : \E s \in k : SameStamp(r, s)}}

\* ORDER BY as_of DESC, fetched_at DESC: s does not come before r.
NotBefore(s, r) ==
    \/ s.as_of < r.as_of
    \/ s.as_of = r.as_of /\ s.fetched_at =< r.fetched_at

\* Mutant: the per-key collapse without the as_of ceiling.
ReadUnceiled(rows, asOf) ==
    {r \in rows : \A s \in rows : s.key = r.key => NotBefore(s, r)}

\* Mutant: the oldest revision of the latest date wins (ORDER BY fetched_at ASC).
ReadOldest(rows, asOf) ==
    {r \in rows : r.as_of =< asOf
        /\ \A s \in rows : s.key = r.key /\ s.as_of =< asOf
             => s.as_of < r.as_of \/ (s.as_of = r.as_of /\ s.fetched_at >= r.fetched_at)}

\* read_as_of for every key at once. The rows tie only when the union holds two
\* payloads under one primary key; the code then returns any one of them.
ReadAsOf(rows, asOf) ==
    {r \in rows : r.as_of =< asOf
        /\ \A s \in rows : s.key = r.key /\ s.as_of =< asOf => NotBefore(s, r)}
=============================================================================
