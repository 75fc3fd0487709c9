--------------------------- MODULE RateLimiterProofs ---------------------------
(***************************************************************************)
(* Theorems about RateLimiter for any addresses, burst and cap of the map, *)
(* and for event sequences of any length.                                  *)
(*                                                                         *)
(* What holds of a run is shown for the sequences of n events, for all n,  *)
(* by the least n at which it would not hold; and first that the recursive *)
(* function Runs exists, and so satisfies the equation that defines it.    *)
(***************************************************************************)
EXTENDS RateLimiter, FiniteSetTheorems, SequenceTheorems, WellFoundedInduction, TLAPS

(* Induction over the naturals, for membership in a set.                   *)

\* A set of naturals that is not empty has a least member.
LEMMA LeastNat ==
  ASSUME NEW T, T \subseteq Nat, T # {}
  PROVE  \E n \in T : \A m \in T : n <= m
<1> DEFINE R == { ss \in Nat \X Nat : ss[1] < ss[2] }
<1>1. IsWellFoundedOn(R, Nat)
  BY NatLessThanWellFounded DEF OpToRel
<1> HIDE DEF R
<1>2. PICK x \in T : \A y \in T : ~(<<y, x>> \in R)
  BY <1>1, WFMin
<1>3. ASSUME NEW y \in T, y < x PROVE FALSE
  BY <1>2, <1>3 DEF R
<1> QED BY <1>2, <1>3

\* Induction: a set with 0, and with the successor of each member, has all naturals.
LEMMA NatInductive ==
  ASSUME NEW T, 0 \in T, \A n \in Nat : n \in T => n + 1 \in T
  PROVE  Nat \subseteq T
<1> SUFFICES ASSUME NEW k \in Nat, k \notin T PROVE FALSE
  OBVIOUS
<1>1. PICK n \in Nat \ T : \A m \in Nat \ T : n <= m
  BY LeastNat
<1>2. n # 0 /\ n - 1 \in Nat /\ n - 1 \in T
  BY <1>1
<1> QED BY <1>1, <1>2
-------------------------------------------------------------------------------
\* A sequence of events is empty, or its last event after a shorter one.
LEMMA FrontAndLast ==
  ASSUME NEW n \in Nat, NEW s \in [1 .. n + 1 -> Events]
  PROVE  /\ s # << >>
         /\ Front(s) \in [1 .. n -> Events]
         /\ Last(s) = s[n + 1]
         /\ \A k \in 1 .. n : Front(s)[k] = s[k]
<1>1. s \in Seq(Events) /\ Len(s) = n + 1 OBVIOUS
<1>2. Front(s) = SubSeq(s, 1, n) BY <1>1 DEF Front
<1>3. /\ SubSeq(s, 1, n) \in Seq(Events) /\ Len(SubSeq(s, 1, n)) = n
      /\ \A k \in 1 .. n : SubSeq(s, 1, n)[k] = s[k]
  <2>1. \A k \in 1 .. n : s[k] \in Events OBVIOUS
  <2>2. n = n - 1 + 1 /\ (1 <= n \/ n = 0) /\ \A k \in 1 .. n : 1 + k - 1 = k OBVIOUS
  <2> QED BY <2>1, <2>2, SubSeqProperties
<1>4. Front(s) \in [1 .. n -> Events] BY <1>2, <1>3, LenProperties
<1>5. s # << >> BY <1>1
<1>6. Last(s) = s[n + 1] BY <1>1 DEF Last
<1> QED BY <1>2, <1>3, <1>4, <1>5, <1>6

\* The bounded sequences are the functions from an initial segment.
LEMMA BoundedMembers ==
  ASSUME NEW n \in Nat
  PROVE  \A s : s \in BoundedSeq(Events, n) <=> \E m \in 0 .. n : s \in [1 .. m -> Events]
  BY DEF BoundedSeq, SeqOf

First == { [buckets |-> << >>, log |-> << >>] }

Defines(f, n) ==
  f = [s \in BoundedSeq(Events, n) |->
          IF s = << >> THEN First ELSE Extended(f[Front(s)], Last(s))]

\* There is a function with the equation of Runs, for each bound on the length.
LEMMA RunsExist == \A n \in Nat : \E f : Defines(f, n)
<1> DEFINE T == { n \in Nat : \E f : Defines(f, n) }
<1>1. 0 \in T
  <2> DEFINE f == [s \in BoundedSeq(Events, 0) |-> First]
  <2>1. \A s \in BoundedSeq(Events, 0) : s = << >> BY BoundedMembers
  <2>2. f = [s \in BoundedSeq(Events, 0) |->
                IF s = << >> THEN First ELSE Extended(f[Front(s)], Last(s))]
    BY <2>1
  <2>3. Defines(f, 0) BY <2>2 DEF Defines
  <2> QED BY <2>3
<1>2. ASSUME NEW n \in Nat, n \in T PROVE n + 1 \in T
  <2>1. PICK f : Defines(f, n) BY <1>2
  <2> DEFINE B == BoundedSeq(Events, n + 1)
             g == [s \in B |-> IF s = << >> THEN First ELSE Extended(f[Front(s)], Last(s))]
  <2>2. ASSUME NEW s \in B, s # << >> PROVE g[Front(s)] = f[Front(s)]
    <3>1. PICK m \in 0 .. n + 1 : s \in [1 .. m -> Events] BY BoundedMembers
    <3>2. m # 0 BY <2>2, <3>1
    <3>3. Front(s) \in [1 .. m - 1 -> Events]
      <4>1. m - 1 \in Nat /\ (m - 1) + 1 = m BY <3>2
      <4> HIDE DEF B
      <4> QED BY <3>1, <4>1, FrontAndLast
    <3>4. Front(s) \in BoundedSeq(Events, n) /\ Front(s) \in B
      BY <3>2, <3>3, BoundedMembers
    <3> QED BY <2>1, <3>4 DEF Defines
  <2>3. g = [s \in B |-> IF s = << >> THEN First ELSE Extended(g[Front(s)], Last(s))]
    BY <2>2
  <2>4. Defines(g, n + 1) BY <2>3 DEF Defines
  <2> QED BY <2>4
<1> HIDE DEF T
<1>3. Nat \subseteq T BY <1>1, <1>2, NatInductive
<1> QED BY <1>3 DEF T

\* Runs is what its definition says.
LEMMA RunsDefined == Defines(Runs, MaxEvents)
<1>1. \E f : Defines(f, MaxEvents) BY RunsExist, LimiterAssumption
<1>2. Runs = CHOOSE f : Defines(f, MaxEvents) BY DEF Runs, Defines, First
<1> QED BY <1>1, <1>2
-------------------------------------------------------------------------------
(* The buckets after an event.                                             *)

\* The tokens that an address finds.
Tokens(buckets, a) == IF a \in DOMAIN buckets THEN buckets[a] ELSE Burst

Kept(buckets) ==
    /\ buckets \in Buckets
    /\ IsFiniteSet(DOMAIN buckets)
    /\ Cardinality(DOMAIN buckets) <= MaxIPs

\* What an address finds: its own tokens, or the burst; the others have what they had,
\* and none is gone if all have room.
LEMMA FoundBuckets ==
  ASSUME NEW b, Kept(b), NEW a \in Addresses, NEW f \in Found(b, a)
  PROVE  /\ Kept(f)
         /\ a \in DOMAIN f /\ f[a] = Tokens(b, a)
         /\ \A c \in DOMAIN f \ {a} : c \in DOMAIN b /\ f[c] = b[c]
         /\ Cardinality(DOMAIN b \cup {a}) <= MaxIPs => DOMAIN b \subseteq DOMAIN f
<1> DEFINE D == DOMAIN b
<1>0. /\ D \subseteq Addresses /\ b \in [D -> 0 .. Burst] /\ IsFiniteSet(D)
      /\ Cardinality(D) \in Nat /\ Cardinality(D) <= MaxIPs
      /\ MaxIPs \in Nat \ {0} /\ Burst \in Nat \ {0}
  BY FS_CardinalityType, LimiterAssumption DEF Kept, Buckets
<1>1. CASE a \in D
  BY <1>0, <1>1 DEF Found, Tokens, Kept
<1>2. CASE a \notin D
  <2>1. PICK held : /\ f = [c \in held \cup {a} |-> IF c = a THEN Burst ELSE b[c]]
                    /\ \/ Evictable(b) = {} /\ held = D
                       \/ \E e \in Evictable(b) : held = D \ {e}
    BY <1>2 DEF Found
  <2>2. held \subseteq D /\ a \notin held /\ IsFiniteSet(held)
    <3>1. held \subseteq D BY <2>1
    <3> QED BY <1>0, <1>2, <3>1, FS_Subset
  <2>3. Cardinality(held) + 1 <= MaxIPs
    <3>1. CASE Evictable(b) = {}
      <4>1. held = D BY <2>1, <3>1
      <4>2. CASE Cardinality(D) >= MaxIPs
        <5>1. D = {} BY <3>1, <4>2 DEF Evictable
        <5> QED BY <1>0, <4>2, <5>1, FS_EmptySet
      <4>3. CASE ~(Cardinality(D) >= MaxIPs) BY <1>0, <4>1, <4>3
      <4> QED BY <4>2, <4>3
    <3>2. CASE Evictable(b) # {}
      <4>1. PICK e \in D : held = D \ {e} BY <2>1, <3>2 DEF Evictable
      <4>2. Cardinality(held) = Cardinality(D) - 1 BY <1>0, <4>1, FS_RemoveElement
      <4> QED BY <1>0, <4>2
    <3> QED BY <3>1, <3>2
  <2>4. IsFiniteSet(DOMAIN f) /\ Cardinality(DOMAIN f) <= MaxIPs
    <3>1. DOMAIN f = held \cup {a} BY <2>1
    <3>2. IsFiniteSet(held \cup {a}) /\ Cardinality(held \cup {a}) = Cardinality(held) + 1
      BY <2>2, FS_AddElement
    <3> QED BY <2>3, <3>1, <3>2
  <2>5. f \in Buckets
    <3>1. held \cup {a} \in SUBSET Addresses BY <1>0, <2>2
    <3>2. f \in [held \cup {a} -> 0 .. Burst] BY <1>0, <2>1, <2>2
    <3> QED BY <3>1, <3>2 DEF Buckets
  <2>6. Cardinality(D \cup {a}) <= MaxIPs => held = D
    <3>1. Cardinality(D \cup {a}) = Cardinality(D) + 1 BY <1>0, <1>2, FS_AddElement
    <3>2. Cardinality(D \cup {a}) <= MaxIPs => ~(Cardinality(D) >= MaxIPs) BY <1>0, <3>1
    <3> QED BY <2>1, <3>2 DEF Evictable
  <2>7. a \in DOMAIN f /\ f[a] = Burst /\ \A c \in DOMAIN f \ {a} : c \in D /\ f[c] = b[c]
    BY <2>1, <2>2
  <2> QED BY <1>2, <2>1, <2>4, <2>5, <2>6, <2>7 DEF Kept, Tokens
<1> QED BY <1>1, <1>2

\* What allow leaves: a token less if there was one.
LEMMA AllowedBuckets ==
  ASSUME NEW b, Kept(b), NEW a \in Addresses, NEW o \in Allow(b, a)
  PROVE  /\ Kept(o.buckets)
         /\ a \in DOMAIN o.buckets
         /\ o.passed \in BOOLEAN
         /\ o.passed => Tokens(b, a) > 0 /\ o.buckets[a] = Tokens(b, a) - 1
         /\ ~o.passed => Tokens(b, a) = 0 /\ o.buckets[a] = 0
         /\ \A c \in DOMAIN o.buckets \ {a} : c \in DOMAIN b /\ o.buckets[c] = b[c]
         /\ Cardinality(DOMAIN b \cup {a}) <= MaxIPs => DOMAIN b \subseteq DOMAIN o.buckets
<1>1. PICK f \in Found(b, a) :
          o = [buckets |-> IF f[a] > 0 THEN [f EXCEPT ![a] = @ - 1] ELSE f, passed |-> f[a] > 0]
  BY DEF Allow
<1>2. /\ Kept(f) /\ a \in DOMAIN f /\ f[a] = Tokens(b, a)
      /\ \A c \in DOMAIN f \ {a} : c \in DOMAIN b /\ f[c] = b[c]
      /\ Cardinality(DOMAIN b \cup {a}) <= MaxIPs => DOMAIN b \subseteq DOMAIN f
  BY FoundBuckets
<1>3. /\ f[a] > 0 => o = [buckets |-> [f EXCEPT ![a] = @ - 1], passed |-> TRUE]
      /\ ~(f[a] > 0) => o = [buckets |-> f, passed |-> FALSE]
  <2>1. CASE f[a] > 0
    <3>1. (f[a] > 0) = TRUE BY <2>1
    <3> QED BY <1>1, <2>1, <3>1
  <2>2. CASE ~(f[a] > 0)
    <3>1. (f[a] > 0) = FALSE BY <2>2
    <3> QED BY <1>1, <2>2, <3>1
  <2> QED BY <2>1, <2>2
<1>4. PICK D \in SUBSET Addresses : f \in [D -> 0 .. Burst] BY <1>2 DEF Kept, Buckets
<1>5. D = DOMAIN f /\ f[a] \in 0 .. Burst /\ Burst \in Nat
  <2>1. D = DOMAIN f BY <1>4
  <2> QED BY <1>2, <1>4, <2>1, LimiterAssumption
<1>6. o.buckets \in [D -> 0 .. Burst]
  <2>1. CASE f[a] > 0
    <3>1. f[a] - 1 \in 0 .. Burst BY <1>5, <2>1
    <3> QED BY <1>3, <1>4, <2>1, <3>1
  <2>2. CASE ~(f[a] > 0) BY <1>3, <1>4, <2>2
  <2> QED BY <2>1, <2>2
<1>7. Kept(o.buckets) BY <1>2, <1>4, <1>5, <1>6 DEF Kept, Buckets
<1>8. DOMAIN o.buckets = D BY <1>6
<1>9. /\ o.buckets[a] = IF f[a] > 0 THEN f[a] - 1 ELSE f[a]
      /\ \A c \in D \ {a} : o.buckets[c] = f[c]
  BY <1>2, <1>3, <1>5
<1>10. /\ o.passed \in BOOLEAN
       /\ o.passed => f[a] > 0 /\ o.buckets[a] = f[a] - 1
       /\ ~o.passed => f[a] = 0 /\ o.buckets[a] = 0
  <2>1. CASE f[a] > 0
    <3>1. o.passed = TRUE BY <1>3, <2>1
    <3> QED BY <1>9, <2>1, <3>1
  <2>2. CASE ~(f[a] > 0)
    <3>1. f[a] = 0 BY <1>5, <2>2
    <3>2. o.passed = FALSE BY <1>3, <2>2
    <3> QED BY <1>9, <2>2, <3>1, <3>2
  <2> QED BY <2>1, <2>2
<1> QED BY <1>2, <1>5, <1>7, <1>8, <1>9, <1>10

\* After a tick no bucket is empty, and each has at most one token more.
LEMMA RefilledBuckets ==
  ASSUME NEW b, Kept(b)
  PROVE  /\ Kept(Refilled(b))
         /\ DOMAIN Refilled(b) = DOMAIN b
         /\ \A a \in DOMAIN b : Refilled(b)[a] > 0 /\ Refilled(b)[a] <= b[a] + 1
<1>1. PICK D \in SUBSET Addresses : b \in [D -> 0 .. Burst] BY DEF Kept, Buckets
<1>2. Burst \in Nat \ {0} BY LimiterAssumption
<1>3. \A a \in D : /\ Lowest(Burst, b[a] + 1) \in 0 .. Burst
                   /\ Lowest(Burst, b[a] + 1) > 0 /\ Lowest(Burst, b[a] + 1) <= b[a] + 1
  BY <1>1, <1>2 DEF Lowest
<1>4. Refilled(b) \in [D -> 0 .. Burst] /\ DOMAIN b = D BY <1>1, <1>3 DEF Refilled
<1>5. Kept(Refilled(b)) BY <1>4 DEF Kept, Buckets
<1> QED BY <1>3, <1>4, <1>5 DEF Refilled
-------------------------------------------------------------------------------
(* What an event adds to the counts.                                       *)

\* The part of an interval has a number of elements.
LEMMA SubsetCardinality ==
  ASSUME NEW i \in Int, NEW j \in Int, NEW S \in SUBSET (i .. j)
  PROVE  Cardinality(S) \in Nat
<1>1. IsFiniteSet(i .. j) BY FS_Interval
<1> QED BY <1>1, FS_Subset, FS_CardinalityType

\* A count of events is a natural number.
LEMMA CountType ==
  ASSUME NEW s, NEW i \in Int, NEW j \in Int, NEW e
  PROVE  Count(s, i, j, e) \in Nat
<1>1. { k \in i .. j : s[k] = e } \in SUBSET (i .. j) OBVIOUS
<1> QED BY <1>1, SubsetCardinality DEF Count

\* A count of passes is a natural number.
LEMMA PassesType ==
  ASSUME NEW s, NEW log, NEW i \in Int, NEW j \in Int, NEW a
  PROVE  Passes(s, log, i, j, a) \in Nat
<1>1. { k \in i .. j : s[k] = a /\ log[k] } \in SUBSET (i .. j) OBVIOUS
<1> QED BY <1>1, SubsetCardinality DEF Passes

\* Two sequences with the same events up to n.
Agree(s, t, n) == \A k \in 1 .. n : t[k] = s[k]

\* Sequences that agree up to n have the same counts up to n.
LEMMA SameCounts ==
  ASSUME NEW n \in Nat, NEW s, NEW t, Agree(s, t, n),
         NEW i \in Nat \ {0}, NEW j \in Nat, j <= n
  PROVE  /\ \A e : Count(s, i, j, e) = Count(t, i, j, e)
         /\ \A log, old, a : Agree(log, old, n) =>
                               Passes(s, log, i, j, a) = Passes(t, old, i, j, a)
         /\ Seen(s, j) = Seen(t, j)
<1>1. /\ \A k \in i .. j : t[k] = s[k]
      /\ \A log, old : Agree(log, old, n) => \A k \in i .. j : old[k] = log[k]
  BY DEF Agree
<1>2. \A k \in 1 .. j : t[k] = s[k] BY DEF Agree
<1> QED BY <1>1, <1>2 DEF Count, Passes, Seen

\* What the event n + 1 adds to the counts of a window.
LEMMA OneMoreEvent ==
  ASSUME NEW n \in Nat, NEW s, NEW i \in Nat \ {0}, i <= n + 1
  PROVE  /\ \A e : Count(s, i, n + 1, e) =
                      Count(s, i, n, e) + IF s[n + 1] = e THEN 1 ELSE 0
         /\ \A log, a : Passes(s, log, i, n + 1, a) =
                           Passes(s, log, i, n, a) + IF s[n + 1] = a /\ log[n + 1] THEN 1 ELSE 0
<1>1. i .. n + 1 = (i .. n) \cup {n + 1} /\ n + 1 \notin i .. n OBVIOUS
<1>2. ASSUME NEW S \in SUBSET (i .. n)
      PROVE  Cardinality(S) \in Nat /\ Cardinality(S \cup {n + 1}) = Cardinality(S) + 1
  <2>1. IsFiniteSet(S)
    <3>1. IsFiniteSet(i .. n) BY FS_Interval
    <3> QED BY <3>1, FS_Subset
  <2>2. n + 1 \notin S BY <1>1
  <2> QED BY <2>1, <2>2, FS_AddElement, FS_CardinalityType
<1>3. ASSUME NEW e
      PROVE  Count(s, i, n + 1, e) = Count(s, i, n, e) + IF s[n + 1] = e THEN 1 ELSE 0
  <2> DEFINE S == { k \in i .. n : s[k] = e }
  <2>1. { k \in i .. n + 1 : s[k] = e } = IF s[n + 1] = e THEN S \cup {n + 1} ELSE S
    BY <1>1
  <2>2. Cardinality(S) \in Nat /\ Cardinality(S \cup {n + 1}) = Cardinality(S) + 1 BY <1>2
  <2> QED BY <2>1, <2>2 DEF Count
<1>4. ASSUME NEW log, NEW a
      PROVE  Passes(s, log, i, n + 1, a) =
             Passes(s, log, i, n, a) + IF s[n + 1] = a /\ log[n + 1] THEN 1 ELSE 0
  <2> DEFINE S == { k \in i .. n : s[k] = a /\ log[k] }
  <2>1. { k \in i .. n + 1 : s[k] = a /\ log[k] } =
        IF s[n + 1] = a /\ log[n + 1] THEN S \cup {n + 1} ELSE S
    BY <1>1
  <2>2. Cardinality(S) \in Nat /\ Cardinality(S \cup {n + 1}) = Cardinality(S) + 1 BY <1>2
  <2> QED BY <2>1, <2>2 DEF Passes
<1> QED BY <1>3, <1>4

\* An empty window counts nothing.
LEMMA EmptyWindow ==
  ASSUME NEW s, NEW i \in Int, NEW j \in Int, i > j
  PROVE  (\A e : Count(s, i, j, e) = 0) /\ \A log, a : Passes(s, log, i, j, a) = 0
<1>1. i .. j = {} OBVIOUS
<1> QED BY <1>1, FS_EmptySet DEF Count, Passes

\* The log after one entry more.
LEMMA LogAfter ==
  ASSUME NEW n \in Nat, NEW log \in [1 .. n -> BOOLEAN], NEW p \in BOOLEAN
  PROVE  /\ Append(log, p) \in [1 .. n + 1 -> BOOLEAN]
         /\ Append(log, p)[n + 1] = p
         /\ \A k \in 1 .. n : Append(log, p)[k] = log[k]
<1>1. log \in Seq(BOOLEAN) /\ Len(log) = n OBVIOUS
<1>2. Append(log, p) \in Seq(BOOLEAN) /\ Len(Append(log, p)) = n + 1 BY <1>1, AppendProperties
<1>3. Append(log, p) \in [1 .. n + 1 -> BOOLEAN] BY <1>2, LenProperties
<1>4. Append(log, p)[n + 1] = p /\ \A k \in 1 .. n : Append(log, p)[k] = log[k]
  BY <1>1, AppendProperties
<1> QED BY <1>3, <1>4
-------------------------------------------------------------------------------
(* The invariant of the runs.                                              *)

\* The buckets are those of addresses that came.
Known(s, n, r) ==
    /\ Kept(r.buckets)
    /\ r.log \in [1 .. n -> BOOLEAN]
    /\ IsFiniteSet(Seen(s, n))
    /\ DOMAIN r.buckets \subseteq Seen(s, n)

\* What an address has had in a window that is still open, and may have at once.
OpenWindows(s, n, r) ==
    \A a \in Addresses, i \in 1 .. n + 1 :
        Quiet(s, i, n) =>
            Passes(s, r.log, i, n, a) + Tokens(r.buckets, a) <= Burst + Count(s, i, n, Ticking)

ClosedWindows(s, n, r) ==
    \A a \in Addresses, i, j \in 1 .. n :
        Quiet(s, i, j) => Passes(s, r.log, i, j, a) <= Burst + Count(s, i, j, Ticking)

\* A bucket is empty only since the last tick.
EmptiedLately(s, n, r) ==
    \A a \in DOMAIN r.buckets :
        r.buckets[a] = 0 => \E h \in 1 .. n : s[h] = a /\ Count(s, h, n, Ticking) = 0

PatiencePaid(s, n, r) == \A k \in 1 .. n : Patient(s, k) => r.log[k]

RunInv(s, n, r) ==
    /\ Known(s, n, r) /\ OpenWindows(s, n, r) /\ ClosedWindows(s, n, r)
    /\ EmptiedLately(s, n, r) /\ PatiencePaid(s, n, r)

\* The invariant holds of the run of no events.
LEMMA FirstRun == \A s \in [1 .. 0 -> Events], r \in First : RunInv(s, 0, r)
<1> SUFFICES ASSUME NEW s \in [1 .. 0 -> Events], NEW r \in First PROVE RunInv(s, 0, r)
  OBVIOUS
<1>1. r.buckets = << >> /\ r.log = << >> BY DEF First
<1>2. DOMAIN r.buckets = {} /\ Seen(s, 0) = {} BY <1>1 DEF Seen
<1>3. Kept(r.buckets)
  <2>1. r.buckets \in [{} -> 0 .. Burst] BY <1>1
  <2>2. r.buckets \in Buckets BY <2>1 DEF Buckets
  <2> QED BY <1>2, <2>2, FS_EmptySet, LimiterAssumption DEF Kept
<1>4. Known(s, 0, r)
  <2>1. r.log \in [1 .. 0 -> BOOLEAN] BY <1>1
  <2>2. IsFiniteSet({}) BY FS_EmptySet
  <2> QED BY <1>2, <1>3, <2>1, <2>2 DEF Known
<1>5. OpenWindows(s, 0, r)
  <2> SUFFICES ASSUME NEW a \in Addresses
               PROVE  Passes(s, r.log, 1, 0, a) + Tokens(r.buckets, a)
                      <= Burst + Count(s, 1, 0, Ticking)
    BY DEF OpenWindows
  <2>1. Tokens(r.buckets, a) = Burst BY <1>2 DEF Tokens
  <2> QED BY <2>1, EmptyWindow, LimiterAssumption
<1> QED BY <1>2, <1>4, <1>5 DEF RunInv, ClosedWindows, EmptiedLately, PatiencePaid
-------------------------------------------------------------------------------
(* One event more, after a run r of the events t, with the outcome o.      *)

OneMore(n, s, t, r, o) ==
    /\ n \in Nat
    /\ s \in [1 .. n + 1 -> Events] /\ t \in [1 .. n -> Events] /\ Agree(s, t, n)
    /\ RunInv(t, n, r)
    /\ o \in After(r.buckets, s[n + 1])

Continued(r, o) == [buckets |-> o.buckets, log |-> Append(r.log, o.passed)]

\* What the event n + 1 may be, and what it does to the buckets.
LEMMA Outcomes ==
  ASSUME NEW n, NEW s, NEW t, NEW r, NEW o, OneMore(n, s, t, r, o)
  PROVE  /\ Kept(r.buckets) /\ Kept(o.buckets) /\ o.passed \in BOOLEAN
         /\ s[n + 1] \in Addresses =>
              o \in Allow(r.buckets, s[n + 1]) /\ s[n + 1] # Ticking /\ s[n + 1] # Restarting
         /\ s[n + 1] \notin Addresses =>
              \/ s[n + 1] = Ticking /\ o.buckets = Refilled(r.buckets)
              \/ s[n + 1] = Restarting /\ o.buckets = << >>
<1> DEFINE x == s[n + 1]
           b == r.buckets
<1>1. n \in Nat /\ x \in Events /\ Kept(b) /\ o \in After(b, x)
  BY DEF OneMore, RunInv, Known
<1>2. CASE x \in Addresses
  <2>1. o \in Allow(b, x) BY <1>1, <1>2 DEF After
  <2>2. x # Ticking /\ x # Restarting BY <1>2, LimiterAssumption
  <2>3. Kept(o.buckets) /\ o.passed \in BOOLEAN BY <1>1, <1>2, <2>1, AllowedBuckets
  <2> QED BY <1>1, <1>2, <2>1, <2>2, <2>3
<1>3. CASE x \notin Addresses
  <2>1. o = [buckets |-> IF x = Ticking THEN Refilled(b) ELSE << >>, passed |-> FALSE]
    BY <1>1, <1>3 DEF After
  <2>2. CASE x = Ticking
    <3>1. o.buckets = Refilled(b) /\ o.passed = FALSE BY <2>1, <2>2
    <3>2. Kept(o.buckets) BY <1>1, <3>1, RefilledBuckets
    <3> QED BY <1>1, <1>3, <2>2, <3>1, <3>2
  <2>3. CASE x # Ticking
    <3>1. x = Restarting BY <1>1, <1>3, <2>3 DEF Events
    <3>2. o.buckets = << >> /\ o.passed = FALSE BY <2>1, <2>3
    <3>3. Kept(o.buckets)
      <4>1. o.buckets \in [{} -> 0 .. Burst] /\ DOMAIN o.buckets = {} BY <3>2
      <4>2. o.buckets \in Buckets BY <4>1 DEF Buckets
      <4> QED BY <4>1, <4>2, FS_EmptySet, LimiterAssumption DEF Kept
    <3> QED BY <1>1, <1>3, <3>1, <3>2, <3>3
  <2> QED BY <2>2, <2>3
<1> QED BY <1>2, <1>3

\* The log keeps what it had, and its last entry is the outcome.
LEMMA LogsAgree ==
  ASSUME NEW n, NEW s, NEW t, NEW r, NEW o, OneMore(n, s, t, r, o)
  PROVE  /\ Continued(r, o).buckets = o.buckets
         /\ Continued(r, o).log \in [1 .. n + 1 -> BOOLEAN]
         /\ Continued(r, o).log[n + 1] = o.passed
         /\ Agree(Continued(r, o).log, r.log, n)
<1>1. n \in Nat /\ r.log \in [1 .. n -> BOOLEAN] /\ o.passed \in BOOLEAN
  BY Outcomes DEF OneMore, RunInv, Known
<1>2. Continued(r, o).buckets = o.buckets /\ Continued(r, o).log = Append(r.log, o.passed) BY DEF Continued
<1> QED BY <1>1, <1>2, LogAfter DEF Agree

\* The addresses seen, among them those of the buckets, only grow.
LEMMA SeenGrows ==
  ASSUME NEW n, NEW s, NEW t, NEW r, NEW o, OneMore(n, s, t, r, o)
  PROVE  /\ IsFiniteSet(Seen(s, n + 1))
         /\ DOMAIN r.buckets \cup (Addresses \cap {s[n + 1]}) \subseteq Seen(s, n + 1)
         /\ Cardinality(Seen(t, n)) <= Cardinality(Seen(s, n + 1))
<1>1. /\ n \in Nat /\ Agree(s, t, n)
      /\ IsFiniteSet(Seen(t, n)) /\ DOMAIN r.buckets \subseteq Seen(t, n)
  BY DEF OneMore, RunInv, Known
<1>2. 1 .. n + 1 = (1 .. n) \cup {n + 1} BY <1>1
<1>3. Seen(s, n + 1) = Seen(t, n) \cup (Addresses \cap {s[n + 1]})
  BY <1>1, <1>2 DEF Seen, Agree
<1>4. IsFiniteSet(Seen(s, n + 1))
  <2>1. CASE s[n + 1] \in Addresses
    <3>1. Seen(s, n + 1) = Seen(t, n) \cup {s[n + 1]} BY <1>3, <2>1
    <3> QED BY <1>1, <3>1, FS_AddElement
  <2>2. CASE s[n + 1] \notin Addresses
    <3>1. Seen(s, n + 1) = Seen(t, n) BY <1>3, <2>2
    <3> QED BY <1>1, <3>1
  <2> QED BY <2>1, <2>2
<1>5. Cardinality(Seen(t, n)) <= Cardinality(Seen(s, n + 1)) BY <1>3, <1>4, FS_Subset
<1> QED BY <1>1, <1>3, <1>4, <1>5

\* The invariant, part by part, after one event more.
LEMMA KnownAfter ==
  ASSUME NEW n, NEW s, NEW t, NEW r, NEW o, OneMore(n, s, t, r, o)
  PROVE  Known(s, n + 1, Continued(r, o))
<1> DEFINE x == s[n + 1]
<1>1. /\ Kept(r.buckets) /\ Kept(o.buckets)
      /\ x \in Addresses => o \in Allow(r.buckets, x)
      /\ x \notin Addresses => o.buckets = Refilled(r.buckets) \/ o.buckets = << >>
  BY Outcomes
<1>2. DOMAIN o.buckets \subseteq DOMAIN r.buckets \cup (Addresses \cap {x})
  <2>1. CASE x \in Addresses
    <3>1. o \in Allow(r.buckets, x) /\ Kept(r.buckets) BY <1>1, <2>1
    <3>2. \A c \in DOMAIN o.buckets \ {x} :
             c \in DOMAIN r.buckets /\ o.buckets[c] = r.buckets[c]
      BY <2>1, <3>1, AllowedBuckets
    <3> QED BY <2>1, <3>2
  <2>2. CASE o.buckets = Refilled(r.buckets) BY <1>1, <2>2, RefilledBuckets
  <2>3. CASE o.buckets = << >> BY <2>3
  <2> QED BY <1>1, <2>1, <2>2, <2>3
<1> QED BY <1>1, <1>2, LogsAgree, SeenGrows DEF Known

\* A quiet window is quiet without its last event.
LEMMA QuietBefore ==
  ASSUME NEW n, NEW s, NEW t, NEW r, NEW o, OneMore(n, s, t, r, o),
         NEW i \in 1 .. n + 1, Quiet(s, i, n + 1)
  PROVE  Quiet(t, i, n) /\ s[n + 1] # Restarting
<1>1. n \in Nat /\ Agree(s, t, n) /\ i \in Nat \ {0} /\ i <= n + 1 BY DEF OneMore
<1>2. Count(s, i, n, Restarting) \in Nat BY <1>1, CountType
<1>3. Count(s, i, n + 1, Restarting) = Count(s, i, n, Restarting) +
                                         IF s[n + 1] = Restarting THEN 1 ELSE 0
  BY <1>1, OneMoreEvent
<1>4. Count(s, i, n, Restarting) = 0 /\ s[n + 1] # Restarting BY <1>2, <1>3 DEF Quiet
<1>5. Count(t, i, n, Restarting) = 0 BY <1>1, <1>4, SameCounts
<1>6. Cardinality(Seen(t, n)) <= MaxIPs
  <2>1. Cardinality(Seen(s, n + 1)) <= MaxIPs BY DEF Quiet
  <2>2. Cardinality(Seen(t, n)) <= Cardinality(Seen(s, n + 1)) BY SeenGrows
  <2>3. Cardinality(Seen(s, n + 1)) \in Nat BY SeenGrows, FS_CardinalityType
  <2>4. Cardinality(Seen(t, n)) \in Nat
    BY FS_CardinalityType DEF OneMore, RunInv, Known
  <2>5. MaxIPs \in Nat BY LimiterAssumption
  <2> QED BY <2>1, <2>2, <2>3, <2>4, <2>5
<1> QED BY <1>4, <1>5, <1>6 DEF Quiet

\* The tokens that an address finds are at most the burst.
LEMMA TokensType ==
  ASSUME NEW b, Kept(b), NEW a
  PROVE  Tokens(b, a) \in 0 .. Burst /\ Burst \in Nat \ {0}
<1>1. PICK D \in SUBSET Addresses : b \in [D -> 0 .. Burst] BY DEF Kept, Buckets
<1>2. Burst \in Nat \ {0} BY LimiterAssumption
<1> QED BY <1>1, <1>2 DEF Tokens

\* A pass takes the token that it counts, a tick adds at most the one that it allows; and
\* in a quiet window no bucket is evicted, so that none is filled anew.
LEMMA OpenWindowsAfter ==
  ASSUME NEW n, NEW s, NEW t, NEW r, NEW o, OneMore(n, s, t, r, o)
  PROVE  OpenWindows(s, n + 1, Continued(r, o))
<1> DEFINE x == s[n + 1]
           b == r.buckets
           log == Continued(r, o).log
<1> SUFFICES ASSUME NEW a \in Addresses, NEW i \in 1 .. (n + 1) + 1, Quiet(s, i, n + 1)
             PROVE  Passes(s, log, i, n + 1, a) + Tokens(o.buckets, a)
                    <= Burst + Count(s, i, n + 1, Ticking)
  BY LogsAgree DEF OpenWindows
<1>1. n \in Nat /\ Agree(s, t, n) /\ OpenWindows(t, n, r) BY DEF OneMore, RunInv
<1>2. Kept(b) /\ Kept(o.buckets) BY Outcomes
<1>3. Tokens(o.buckets, a) \in 0 .. Burst /\ Tokens(b, a) \in 0 .. Burst /\ Burst \in Nat \ {0}
  BY <1>2, TokensType
<1>4. CASE i = n + 2
  <2>1. Passes(s, log, i, n + 1, a) = 0 /\ Count(s, i, n + 1, Ticking) = 0
    <3>1. i \in Int /\ n + 1 \in Int /\ i > n + 1 BY <1>1, <1>4
    <3> QED BY <3>1, EmptyWindow
  <2> QED BY <1>3, <2>1
<1>5. CASE i # n + 2
  <2>1. i \in 1 .. n + 1 /\ i \in Nat \ {0} /\ i <= n + 1 BY <1>1, <1>5
  <2>2. Quiet(t, i, n) /\ x # Restarting BY <2>1, QuietBefore
  <2> DEFINE P == Passes(s, log, i, n, a)
             C == Count(s, i, n, Ticking)
  <2>3. P \in Nat /\ C \in Nat BY <1>1, <2>1, CountType, PassesType
  <2>4. P + Tokens(b, a) <= Burst + C
    <3>1. Passes(t, r.log, i, n, a) + Tokens(b, a) <= Burst + Count(t, i, n, Ticking)
      BY <1>1, <2>1, <2>2 DEF OpenWindows
    <3>2. P = Passes(t, r.log, i, n, a) /\ C = Count(t, i, n, Ticking)
      BY <1>1, <2>1, LogsAgree, SameCounts
    <3> QED BY <3>1, <3>2
  <2>5. /\ Passes(s, log, i, n + 1, a) = P + IF x = a /\ o.passed THEN 1 ELSE 0
        /\ Count(s, i, n + 1, Ticking) = C + IF x = Ticking THEN 1 ELSE 0
    <3>1. log[n + 1] = o.passed BY LogsAgree
    <3> HIDE DEF log
    <3> QED BY <1>1, <2>1, <3>1, OneMoreEvent
  <2> HIDE DEF P, C
  <2>6. CASE x \in Addresses
    <3>0. o \in Allow(b, x) /\ x # Ticking BY <2>6, Outcomes
    <3>1. Cardinality(DOMAIN b \cup {x}) <= MaxIPs
      <4>1. DOMAIN b \cup {x} \subseteq Seen(s, n + 1) /\ IsFiniteSet(Seen(s, n + 1))
        BY <2>6, SeenGrows
      <4>2. Cardinality(DOMAIN b \cup {x}) <= Cardinality(Seen(s, n + 1)) BY <4>1, FS_Subset
      <4>3. IsFiniteSet(DOMAIN b \cup {x}) BY <4>1, FS_Subset
      <4>4. Cardinality(Seen(s, n + 1)) \in Nat /\ Cardinality(DOMAIN b \cup {x}) \in Nat
        BY <4>1, <4>3, FS_CardinalityType
      <4>5. Cardinality(Seen(s, n + 1)) <= MaxIPs BY DEF Quiet
      <4>6. MaxIPs \in Nat BY LimiterAssumption
      <4> QED BY <4>2, <4>4, <4>5, <4>6
    <3>2. /\ x \in DOMAIN o.buckets
          /\ o.passed => Tokens(b, x) > 0 /\ o.buckets[x] = Tokens(b, x) - 1
          /\ ~o.passed => Tokens(b, x) = 0 /\ o.buckets[x] = 0
          /\ \A c \in DOMAIN o.buckets \ {x} : c \in DOMAIN b /\ o.buckets[c] = b[c]
          /\ DOMAIN b \subseteq DOMAIN o.buckets
      BY <1>2, <2>6, <3>0, <3>1, AllowedBuckets
    <3>3. CASE x = a
      <4>1. Tokens(o.buckets, a) = o.buckets[a] BY <3>2, <3>3 DEF Tokens
      <4>2. CASE o.passed BY <1>3, <2>3, <2>4, <2>5, <3>0, <3>2, <3>3, <4>1, <4>2
      <4>3. CASE ~o.passed BY <1>3, <2>3, <2>4, <2>5, <3>0, <3>2, <3>3, <4>1, <4>3
      <4> QED BY <4>2, <4>3
    <3>4. CASE x # a
      <4>1. Tokens(o.buckets, a) = Tokens(b, a) BY <3>2, <3>4 DEF Tokens
      <4> QED BY <1>3, <2>3, <2>4, <2>5, <3>0, <3>4, <4>1
    <3> QED BY <3>3, <3>4
  <2>7. CASE x \notin Addresses
    <3>1. x = Ticking /\ o.buckets = Refilled(b) /\ x # a BY <2>2, <2>7, Outcomes
    <3>2. Tokens(o.buckets, a) <= Tokens(b, a) + 1
      BY <1>2, <1>3, <3>1, RefilledBuckets DEF Tokens
    <3> QED BY <1>3, <2>3, <2>4, <2>5, <3>1, <3>2
  <2> QED BY <2>6, <2>7
<1> QED BY <1>4, <1>5

\* A window that ends with the new event was open until now.
LEMMA ClosedWindowsAfter ==
  ASSUME NEW n, NEW s, NEW t, NEW r, NEW o, OneMore(n, s, t, r, o)
  PROVE  ClosedWindows(s, n + 1, Continued(r, o))
<1> DEFINE log == Continued(r, o).log
<1> SUFFICES ASSUME NEW a \in Addresses, NEW i \in 1 .. n + 1, NEW j \in 1 .. n + 1,
                    Quiet(s, i, j)
             PROVE  Passes(s, log, i, j, a) <= Burst + Count(s, i, j, Ticking)
  BY DEF ClosedWindows
<1>1. n \in Nat /\ Agree(s, t, n) /\ ClosedWindows(t, n, r) BY DEF OneMore, RunInv
<1>2. /\ Passes(s, log, i, j, a) \in Nat /\ Count(s, i, j, Ticking) \in Nat
      /\ Burst \in Nat
  BY CountType, PassesType, LimiterAssumption
<1>3. CASE i > j
  <2>1. Passes(s, log, i, j, a) = 0 BY <1>1, <1>3, EmptyWindow
  <2> QED BY <1>2, <2>1
<1>4. CASE i <= j /\ j <= n
  <2>1. i \in 1 .. n /\ j \in 1 .. n /\ i \in Nat \ {0} /\ j \in Nat BY <1>1, <1>4
  <2>2. /\ Passes(s, log, i, j, a) = Passes(t, r.log, i, j, a)
        /\ \A e : Count(s, i, j, e) = Count(t, i, j, e)
        /\ Seen(s, j) = Seen(t, j)
    BY <1>1, <1>4, <2>1, LogsAgree, SameCounts
  <2>3. Quiet(t, i, j) BY <2>2 DEF Quiet
  <2> QED BY <1>1, <2>1, <2>2, <2>3 DEF ClosedWindows
<1>5. CASE j = n + 1
  <2>1. i \in 1 .. (n + 1) + 1 BY <1>1
  <2>2. Passes(s, log, i, j, a) + Tokens(o.buckets, a) <= Burst + Count(s, i, j, Ticking)
    BY <1>5, <2>1, OpenWindowsAfter, LogsAgree DEF OpenWindows
  <2>3. Tokens(o.buckets, a) \in 0 .. Burst BY Outcomes, TokensType
  <2> QED BY <1>2, <2>2, <2>3
<1> QED BY <1>1, <1>3, <1>4, <1>5

\* A pass may empty its own bucket only, and a tick leaves none empty.
LEMMA EmptiedLatelyAfter ==
  ASSUME NEW n, NEW s, NEW t, NEW r, NEW o, OneMore(n, s, t, r, o)
  PROVE  EmptiedLately(s, n + 1, Continued(r, o))
<1> DEFINE x == s[n + 1]
           b == r.buckets
<1> SUFFICES ASSUME NEW a \in DOMAIN o.buckets, o.buckets[a] = 0
             PROVE  \E h \in 1 .. n + 1 : s[h] = a /\ Count(s, h, n + 1, Ticking) = 0
  BY LogsAgree DEF EmptiedLately
<1>1. n \in Nat /\ Agree(s, t, n) /\ EmptiedLately(t, n, r) BY DEF OneMore, RunInv
<1>2. Kept(b) BY Outcomes
<1>3. \A h \in 1 .. n + 1 : /\ Count(s, h, n, Ticking) \in Nat
                            /\ Count(s, h, n + 1, Ticking) =
                                 Count(s, h, n, Ticking) + IF x = Ticking THEN 1 ELSE 0
  BY <1>1, CountType, OneMoreEvent
<1>4. CASE x \in Addresses
  <2>0. o \in Allow(b, x) /\ x # Ticking BY <1>4, Outcomes
  <2>1. CASE a = x
    <3>1. Count(s, n + 1, n, Ticking) = 0 BY <1>1, EmptyWindow
    <3>2. Count(s, n + 1, n + 1, Ticking) = 0 BY <1>1, <1>3, <2>0, <3>1
    <3>3. n + 1 \in 1 .. n + 1 BY <1>1
    <3> QED BY <2>1, <3>2, <3>3
  <2>2. CASE a # x
    <3>1. a \in DOMAIN b /\ b[a] = 0
      <4>1. \A c \in DOMAIN o.buckets \ {x} : c \in DOMAIN b /\ o.buckets[c] = b[c]
        BY <1>2, <1>4, <2>0, AllowedBuckets
      <4> QED BY <2>2, <4>1
    <3>2. PICK h \in 1 .. n : t[h] = a /\ Count(t, h, n, Ticking) = 0
      BY <1>1, <3>1 DEF EmptiedLately
    <3>3. Count(s, h, n, Ticking) = 0
      <4>1. h \in Nat \ {0} BY <1>1
      <4> QED BY <1>1, <3>2, <4>1, SameCounts
    <3>4. s[h] = a /\ h \in 1 .. n + 1 BY <1>1, <3>2 DEF Agree
    <3>5. Count(s, h, n + 1, Ticking) = 0 BY <1>3, <2>0, <3>3, <3>4
    <3> QED BY <3>4, <3>5
  <2> QED BY <2>1, <2>2
<1>5. CASE o.buckets = Refilled(b)
  <2>1. a \in DOMAIN b /\ Refilled(b)[a] > 0 BY <1>2, <1>5, RefilledBuckets
  <2> QED BY <1>5, <2>1
<1>6. CASE o.buckets = << >> BY <1>6
<1> QED BY <1>4, <1>5, <1>6, Outcomes

\* A refused address has an empty bucket: it came since the last tick, and is not patient.
LEMMA PatiencePaidAfter ==
  ASSUME NEW n, NEW s, NEW t, NEW r, NEW o, OneMore(n, s, t, r, o)
  PROVE  PatiencePaid(s, n + 1, Continued(r, o))
<1> DEFINE x == s[n + 1]
           b == r.buckets
           log == Continued(r, o).log
<1> SUFFICES ASSUME NEW k \in 1 .. n + 1, Patient(s, k)
             PROVE  log[k]
  BY DEF PatiencePaid
<1>1. n \in Nat /\ Agree(s, t, n) /\ EmptiedLately(t, n, r) /\ PatiencePaid(t, n, r)
  BY DEF OneMore, RunInv
<1>2. Kept(b) BY Outcomes
<1>4. s[k] \in Addresses /\ \A h \in 1 .. k - 1 : s[h] = s[k] => Count(s, h, k, Ticking) > 0
  BY DEF Patient
<1>5. CASE k <= n
  <2>1. k \in 1 .. n /\ t[k] = s[k] BY <1>1, <1>5 DEF Agree
  <2>2. ASSUME NEW h \in 1 .. k - 1, t[h] = t[k] PROVE Count(t, h, k, Ticking) > 0
    <3>1. h \in Nat \ {0} /\ k \in Nat /\ h \in 1 .. n BY <1>1, <2>1
    <3>2. s[h] = s[k] BY <1>1, <2>1, <2>2, <3>1 DEF Agree
    <3>3. Count(s, h, k, Ticking) = Count(t, h, k, Ticking) BY <1>1, <1>5, <3>1, SameCounts
    <3> QED BY <1>4, <3>2, <3>3
  <2>3. Patient(t, k) BY <1>4, <2>1, <2>2 DEF Patient
  <2>4. r.log[k] BY <1>1, <2>1, <2>3 DEF PatiencePaid
  <2>5. log[k] = r.log[k] BY <2>1, LogsAgree DEF Agree
  <2> QED BY <2>4, <2>5
<1>6. CASE k = n + 1
  <2>1. x \in Addresses /\ o \in Allow(b, x) /\ x # Ticking BY <1>4, <1>6, Outcomes
  <2>2. log[n + 1] = o.passed BY LogsAgree
  <2>3. ASSUME Tokens(b, x) = 0 PROVE FALSE
    <3>1. x \in DOMAIN b /\ b[x] = 0 BY <2>3, LimiterAssumption DEF Tokens
    <3>2. PICK h \in 1 .. n : t[h] = x /\ Count(t, h, n, Ticking) = 0
      BY <1>1, <3>1 DEF EmptiedLately
    <3>3. h \in Nat \ {0} /\ h <= n + 1 /\ h \in 1 .. k - 1 BY <1>1, <1>6
    <3>4. s[h] = s[k] BY <1>1, <1>6, <3>2 DEF Agree
    <3>5. Count(s, h, n, Ticking) = 0 BY <1>1, <3>2, <3>3, SameCounts
    <3>6. Count(s, h, n + 1, Ticking) = 0 BY <1>1, <2>1, <3>3, <3>5, OneMoreEvent
    <3> QED BY <1>4, <1>6, <3>3, <3>4, <3>6
  <2>4. o.passed BY <1>2, <2>1, <2>3, AllowedBuckets
  <2> QED BY <1>6, <2>2, <2>4
<1> QED BY <1>1, <1>5, <1>6

\* The invariant is kept by every event.
LEMMA RunContinued ==
  ASSUME NEW n, NEW s, NEW t, NEW r, NEW o, OneMore(n, s, t, r, o)
  PROVE  RunInv(s, n + 1, Continued(r, o))
BY KnownAfter, OpenWindowsAfter, ClosedWindowsAfter, EmptiedLatelyAfter, PatiencePaidAfter DEF RunInv
-------------------------------------------------------------------------------
\* The invariant holds of all runs of all sequences.
LEMMA EveryRun ==
  \A n \in 0 .. MaxEvents : \A s \in [1 .. n -> Events] : \A r \in Runs[s] : RunInv(s, n, r)
<1> DEFINE T == { n \in Nat : n <= MaxEvents =>
                      \A s \in [1 .. n -> Events] : \A r \in Runs[s] : RunInv(s, n, r) }
<1>0. MaxEvents \in Nat BY LimiterAssumption
<1>1. \A s \in BoundedSeq(Events, MaxEvents) :
         Runs[s] = IF s = << >> THEN First ELSE Extended(Runs[Front(s)], Last(s))
  BY RunsDefined DEF Defines
<1>2. 0 \in T
  <2>1. \A s \in [1 .. 0 -> Events] : s \in BoundedSeq(Events, MaxEvents) /\ s = << >>
    <3>1. 0 \in 0 .. MaxEvents BY <1>0
    <3>2. \A s \in [1 .. 0 -> Events] : s \in BoundedSeq(Events, MaxEvents)
      BY <1>0, <3>1, BoundedMembers
    <3>3. \A s \in [1 .. 0 -> Events] : s = << >> OBVIOUS
    <3> QED BY <3>2, <3>3
  <2>2. \A s \in [1 .. 0 -> Events] : Runs[s] = First BY <1>1, <2>1
  <2> QED BY <2>2, FirstRun
<1>3. ASSUME NEW n \in Nat, n \in T PROVE n + 1 \in T
  <2> SUFFICES ASSUME n + 1 <= MaxEvents, NEW s \in [1 .. n + 1 -> Events], NEW q \in Runs[s]
               PROVE  RunInv(s, n + 1, q)
    OBVIOUS
  <2>1. /\ s # << >> /\ Front(s) \in [1 .. n -> Events] /\ Last(s) = s[n + 1]
        /\ Agree(s, Front(s), n)
    BY FrontAndLast DEF Agree
  <2>2. s \in BoundedSeq(Events, MaxEvents)
    <3>1. n + 1 \in 0 .. MaxEvents BY <1>0
    <3> QED BY <1>0, <3>1, BoundedMembers
  <2>3. q \in Extended(Runs[Front(s)], s[n + 1]) BY <1>1, <2>1, <2>2
  <2>4. PICK r \in Runs[Front(s)] : \E o \in After(r.buckets, s[n + 1]) : q = Continued(r, o)
    BY <2>3 DEF Extended, Continued
  <2>5. PICK o \in After(r.buckets, s[n + 1]) : q = Continued(r, o) BY <2>4
  <2>6. RunInv(Front(s), n, r) BY <1>0, <1>3, <2>1
  <2>7. OneMore(n, s, Front(s), r, o) BY <2>1, <2>5, <2>6 DEF OneMore
  <2> QED BY <2>5, <2>7, RunContinued
<1> HIDE DEF T
<1>4. Nat \subseteq T BY <1>2, <1>3, NatInductive
<1> QED BY <1>0, <1>4 DEF T

\* Whatever comes in which order, and whichever buckets are evicted (ratelimit.go:34-80),
\* the map stays within its cap, and in a window without a restart and with room for all
\* an address passes at most the burst and one for each tick of the window.
THEOREM WindowsLimited == WindowsAreLimited
<1> SUFFICES ASSUME NEW s \in Sequences, NEW run \in Runs[s]
             PROVE  /\ Cardinality(DOMAIN run.buckets) <= MaxIPs
                    /\ \A a \in Addresses, i, j \in 1 .. MaxEvents :
                         Quiet(s, i, j) =>
                             Passes(s, run.log, i, j, a) <= Burst + Count(s, i, j, Ticking)
  BY DEF WindowsAreLimited
<1>1. MaxEvents \in 0 .. MaxEvents BY LimiterAssumption
<1>2. RunInv(s, MaxEvents, run) BY <1>1, EveryRun DEF Sequences
<1> QED BY <1>2 DEF RunInv, Known, Kept, ClosedWindows

\* An address that waits for a tick between its requests is never refused, even if its
\* bucket is evicted for others in between (ratelimit.go:34-80).
THEOREM PatienceRewarded == PatienceIsRewarded
<1> SUFFICES ASSUME NEW s \in Sequences, NEW run \in Runs[s], NEW k \in 1 .. MaxEvents,
                    Patient(s, k)
             PROVE  run.log[k]
  BY DEF PatienceIsRewarded
<1>1. MaxEvents \in 0 .. MaxEvents BY LimiterAssumption
<1>2. RunInv(s, MaxEvents, run) BY <1>1, EveryRun DEF Sequences
<1> QED BY <1>2 DEF RunInv, PatiencePaid
===============================================================================
