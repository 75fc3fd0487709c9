------------------------------ MODULE RateLimiter -----------------------------
(***************************************************************************)
(* The rate limiter of the client registration                             *)
(* (internal/oauth/server/ratelimit.go): one token bucket per source       *)
(* address, in the memory of one replica.                                  *)
(*                                                                         *)
(* A mutex makes allow atomic, so what the limiter does is a function of   *)
(* the order of its events and of the buckets it evicts: it is defined on  *)
(* event sequences and compared with a window count over all of them up to *)
(* a bound.  A tick is the time in which a bucket gains a token.           *)
(***************************************************************************)
EXTENDS Naturals, Sequences, FiniteSets, SequencesExt

CONSTANTS
    Addresses,
    Burst,         \* 10 in the code
    MaxIPs,        \* 10000 in the code
    MaxEvents,     \* bound on the length of the sequences
    Ticking, Restarting

ASSUME LimiterAssumption ==
    /\ Burst \in Nat \ {0}
    /\ MaxIPs \in Nat \ {0}
    /\ MaxEvents \in Nat
    /\ {Ticking, Restarting} \cap Addresses = {}

Events == Addresses \cup {Ticking, Restarting}

\* The tokens in each bucket that the map holds.
Buckets == UNION { [held -> 0 .. Burst] : held \in SUBSET Addresses }

Lowest(a, b) == IF a < b THEN a ELSE b

\* Faulty: an empty bucket stays empty.
RefilledUnlessEmpty(buckets) ==
    [a \in DOMAIN buckets |-> IF buckets[a] = 0 THEN 0 ELSE Lowest(Burst, buckets[a] + 1)]

\* rate.Limiter: a token more, up to the burst.
Refilled(buckets) == [a \in DOMAIN buckets |-> Lowest(Burst, buckets[a] + 1)]

\* Faulty: a new address evicts a bucket even if there is room.
EvictAlways(buckets) == DOMAIN buckets

\* The buckets of which one is dropped to make room for a new one.
Evictable(buckets) == IF Cardinality(DOMAIN buckets) >= MaxIPs THEN DOMAIN buckets ELSE {}

\* The buckets that an address may find: its own, or a full one beside the others.
Found(buckets, a) ==
    IF a \in DOMAIN buckets THEN {buckets}
    ELSE LET kept == IF Evictable(buckets) = {} THEN {DOMAIN buckets}
                     ELSE { DOMAIN buckets \ {e} : e \in Evictable(buckets) } IN
         { [b \in held \cup {a} |-> IF b = a THEN Burst ELSE buckets[b]] : held \in kept }

\* Whether a request passes, and the buckets after it.
Allow(buckets, a) ==
    { [buckets |-> IF found[a] > 0 THEN [found EXCEPT ![a] = @ - 1] ELSE found,
       passed  |-> found[a] > 0] : found \in Found(buckets, a) }

\* The buckets, and whether a request passed, after one event.
After(buckets, e) ==
    IF e \in Addresses THEN Allow(buckets, e)
    ELSE { [buckets |-> IF e = Ticking THEN Refilled(buckets) ELSE << >>, passed |-> FALSE] }

\* The runs after one event more: what the buckets are, and which requests passed.
Extended(runs, e) ==
    UNION { { [buckets |-> o.buckets, log |-> Append(run.log, o.passed)] :
                o \in After(run.buckets, e) } : run \in runs }

\* The runs of a sequence of events, from the empty map.
Runs[s \in BoundedSeq(Events, MaxEvents)] ==
    IF s = << >> THEN { [buckets |-> << >>, log |-> << >>] }
    ELSE Extended(Runs[Front(s)], Last(s))
-------------------------------------------------------------------------------
(* What the limiter promises, over all sequences of MaxEvents events.      *)

Sequences == [1 .. MaxEvents -> Events]

Count(s, i, j, e) == Cardinality({ k \in i .. j : s[k] = e })
Passes(s, log, i, j, a) == Cardinality({ k \in i .. j : s[k] = a /\ log[k] })

\* The addresses that have come up to event j.
Seen(s, j) == Addresses \cap { s[k] : k \in 1 .. j }

\* A window without a restart, and with room for all addresses until its end.
Quiet(s, i, j) == Count(s, i, j, Restarting) = 0 /\ Cardinality(Seen(s, j)) <= MaxIPs

\* At most the burst and one for each tick, in any quiet window.
WindowsAreLimited ==
    \A s \in Sequences : \A run \in Runs[s] :
        /\ Cardinality(DOMAIN run.buckets) <= MaxIPs
        /\ \A a \in Addresses, i, j \in 1 .. MaxEvents :
              Quiet(s, i, j) => Passes(s, run.log, i, j, a) <= Burst + Count(s, i, j, Ticking)

\* A request that comes a tick, or more, after each earlier one of its address.
Patient(s, k) ==
    /\ s[k] \in Addresses
    /\ \A h \in 1 .. k - 1 : s[h] = s[k] => Count(s, h, k, Ticking) > 0

\* No refusal of a patient request.
PatienceIsRewarded ==
    \A s \in Sequences : \A run \in Runs[s], k \in 1 .. MaxEvents : Patient(s, k) => run.log[k]
===============================================================================
