------------------------------ MODULE Arrivals ------------------------------
(***************************************************************************)
(* What a server remembers of its traffic: the values written most         *)
(* recently, behind /_api/latest (latest.rs), and the reads and writes of  *)
(* each top-level namespace in hourly and daily buckets (activity.rs).     *)
(*                                                                         *)
(* The record of latest writes is the sequence of its entries, oldest      *)
(* first.  Activity maps a root to its two series, and a series maps the   *)
(* start of a bucket to its reads and writes.                              *)
(***************************************************************************)
EXTENDS Naturals, Integers, Sequences, SequencesExt, Functions, FiniteSets, TLC

CONSTANTS Capacity,      \* latest_writes; 0 switches the record off
          MaxLimit,      \* the most one request can return
          Hour, Day,     \* bucket widths
          HourlyBuckets, DailyBuckets,
          Nothing

Internal(ns) == ns = <<>> \/ ns[1] \in {"_all", "_shadow", "_config"}

(***************************************************************************)
(* The latest writes.                                                      *)
(***************************************************************************)

Trim(ring, capacity) ==
    IF Len(ring) > capacity
    THEN SubSeq(ring, Len(ring) - capacity + 1, Len(ring)) ELSE ring

\* A value written again moves to the front; it is never listed twice.
Push(ring, entry, capacity) ==
    Trim(Append(SelectSeq(ring, LAMBDA e : \/ e.ns # entry.ns
                                           \/ e.value # entry.value), entry),
         capacity)

RecordAt(ring, ns, value, written) ==
    IF Capacity = 0 \/ Internal(ns) THEN ring
    ELSE Push(ring, [ns |-> ns, value |-> value, written |-> written], Capacity)

\* Mutant: what was written in the second the client names is left out.
RecentAfter(ring, limit, since, prefix) ==
    LET most == IF limit < MaxLimit THEN limit ELSE MaxLimit
        newest == SelectSeq(Reverse(ring), LAMBDA e : since = Nothing \/ e.written > since)
    IN SubSeq(newest, 1, IF Len(newest) < most THEN Len(newest) ELSE most)

\* The newest first; the walk stops at the first entry older than `since'.
Recent(ring, limit, since, prefix) ==
    LET most == IF limit < MaxLimit THEN limit ELSE MaxLimit
        newest == Reverse(ring)
        older == {i \in DOMAIN newest : since # Nothing /\ newest[i].written < since}
        reached == {i \in DOMAIN newest : \A j \in older : i < j}
        under == SelectSeq(SubSeq(newest, 1, Cardinality(reached)),
                           LAMBDA e : IsPrefix(prefix, e.ns))
    IN SubSeq(under, 1, IF Len(under) < most THEN Len(under) ELSE most)

\* Exactly that namespace, not those below it.
ForgetNamespace(ring, ns) == SelectSeq(ring, LAMBDA e : e.ns # ns)

\* What a previous run saved, then what was recorded since startup.
Restore(saved, sinceStartup) ==
    FoldLeft(LAMBDA ring, e : Push(ring, e, Capacity), <<>>, saved \o sinceStartup)

(***************************************************************************)
(* Activity.                                                               *)
(***************************************************************************)

Quiet == [reads |-> 0, writes |-> 0]
NewSeries == [hourly |-> <<>>, daily |-> <<>>]

Add(a, b) == [reads |-> a.reads + b.reads, writes |-> a.writes + b.writes]

At(buckets, start) == IF start \in DOMAIN buckets THEN buckets[start] ELSE Quiet

\* Mutant: a bucket is dropped while it is still within the retention.
BumpShort(buckets, now, step, keep, counts) ==
    LET start == (now \div step) * step
        more == (start :> Add(At(buckets, start), counts)) @@ buckets
    IN IF start \in DOMAIN buckets THEN more
       ELSE Restrict(more, {b \in DOMAIN more : b > start - (keep - 1) * step})

\* The series outgrows its retention only when a bucket starts.
Bump(buckets, now, step, keep, counts) ==
    LET start == (now \div step) * step
        more == (start :> Add(At(buckets, start), counts)) @@ buckets
        oldest == start - (keep - 1) * step
    IN IF start \in DOMAIN buckets THEN more
       ELSE Restrict(more, {b \in DOMAIN more : b >= oldest})

RootOf(ns) == IF Internal(ns) THEN Nothing ELSE ns[1]

Series(activity, root) ==
    IF root \in DOMAIN activity THEN activity[root] ELSE NewSeries

RecordActivity(activity, ns, now, counts) ==
    LET root == RootOf(ns)
        old == Series(activity, root)
    IN IF root = Nothing THEN activity
       ELSE (root :> [hourly |-> Bump(old.hourly, now, Hour, HourlyBuckets, counts),
                      daily |-> Bump(old.daily, now, Day, DailyBuckets, counts)])
            @@ activity

RecordRead(activity, ns, now) ==
    RecordActivity(activity, ns, now, [reads |-> 1, writes |-> 0])

RecordWrite(activity, ns, now) ==
    RecordActivity(activity, ns, now, [reads |-> 0, writes |-> 1])

\* The buckets of a window ending with the one that holds `end', and the sums
\* of that window and of the one before, for the roots a key may read.
Report(activity, step, keep, end, buckets, visible) ==
    LET n == IF buckets < 1 THEN 1 ELSE IF buckets > keep THEN keep ELSE buckets
        start == (end \div step) * step - (n - 1) * step
        held(r) == IF step = Hour THEN activity[r].hourly ELSE activity[r].daily
        sum(r, from) == FoldFunctionOnSet(LAMBDA c, d : Add(c, d), Quiet, held(r),
                           {b \in DOMAIN held(r) : from <= b /\ b < from + n * step})
    IN [start |-> start,
        roots |-> [r \in DOMAIN activity \cap visible |->
            [reads    |-> [i \in 1..n |-> At(held(r), start + (i - 1) * step).reads],
             writes   |-> [i \in 1..n |-> At(held(r), start + (i - 1) * step).writes],
             total    |-> sum(r, start),
             previous |-> sum(r, start - n * step)]]]

\* Merged, so that what arrived before the restore is not lost.
RestoreActivity(activity, saved) ==
    LET merged(a, b) == [s \in DOMAIN a \cup DOMAIN b |-> Add(At(a, s), At(b, s))]
    IN [r \in DOMAIN activity \cup DOMAIN saved |->
           [hourly |-> merged(Series(activity, r).hourly, Series(saved, r).hourly),
            daily |-> merged(Series(activity, r).daily, Series(saved, r).daily)]]
=============================================================================
