--------------------------- MODULE HistoryTheorems ---------------------------
(***************************************************************************)
(* Theorems about the data of a history: the rows of a page, the time from *)
(* which a caller resumes, and the windows between settlements.  What they *)
(* say of First, Last, Newest and Oldest is what the proofs about the      *)
(* adapters' walks rest on.                                                *)
(***************************************************************************)
EXTENDS ResumeTime, FundingIntervals, FiniteSetTheorems, TLAPS

-----------------------------------------------------------------------------
(* First and last rows.                                                    *)

\* A non-empty set of times has a first one.
LEMMA FirstExists ==
    ASSUME NEW S, S \subseteq Nat, S # {}
    PROVE  First(S) \in S /\ \A u \in S : First(S) <= u
<1>1. PICK t \in S : \A u \in S : ~ (<<u, t>> \in OpToRel(<, Nat))
  BY NatLessThanWellFounded, WFMin
<1>2. ASSUME NEW u \in S  PROVE t <= u
  <2>1. u \in Nat /\ t \in Nat
    OBVIOUS
  <2>2. u < t => <<u, t>> \in OpToRel(<, Nat)
    BY <2>1, Zenon DEF OpToRel
  <2>3. ~ (<<u, t>> \in OpToRel(<, Nat))
    BY <1>1, Zenon
  <2>4. ~ (u < t)
    BY <2>2, <2>3, Zenon
  <2>5. QED  BY <2>1, <2>4
<1>3. QED
  BY <1>2 DEF First

\* A non-empty set of times up to a bound has a last one.
LEMMA LastExists ==
    ASSUME NEW bound \in Nat, NEW S, S \subseteq 0 .. bound, S # {}
    PROVE  Last(S) \in S /\ \A u \in S : u <= Last(S)
<1> DEFINE back == {bound - t : t \in S}
<1>1. back \subseteq Nat /\ back # {}
  <2>1. \A t \in S : bound - t \in Nat
    OBVIOUS
  <2>2. QED  BY <2>1
<1>2. First(back) \in back /\ \A u \in back : First(back) <= u
  BY <1>1, FirstExists
<1>3. PICK t \in S : First(back) = bound - t
  BY <1>2
<1>4. \A u \in S : bound - t <= bound - u
  BY <1>2, <1>3
<1>5. \A u \in S : u <= t
  BY <1>4
<1>6. QED
  BY <1>5 DEF Last

-----------------------------------------------------------------------------
(* The rows of a page.                                                     *)

Newer(S, t) == {u \in S : u > t}
Older(S, t) == {u \in S : u < t}

\* Rows up to some time are finitely many.
LEMMA RowsFinite ==
    ASSUME NEW bound \in Nat, NEW S, S \subseteq 0 .. bound
    PROVE  IsFiniteSet(S) /\ Cardinality(S) \in Nat
<1>1. S \in SUBSET Nat /\ \A t \in S : t <= bound
  OBVIOUS
<1>2. IsFiniteSet(S)
  BY <1>1, FS_BoundedSetOfNaturals
<1>3. QED
  BY <1>2, FS_CardinalityType

\* Newer rows than a newer row are fewer.
LEMMA FewerAreNewer ==
    ASSUME NEW bound \in Nat, NEW S, S \subseteq 0 .. bound,
           NEW t \in S, NEW u \in S, t <= u
    PROVE  /\ IsFiniteSet(Newer(S, t)) /\ Cardinality(Newer(S, t)) \in Nat
           /\ Cardinality(Newer(S, u)) \in Nat
           /\ Cardinality(Newer(S, u)) <= Cardinality(Newer(S, t))
<1>1. Newer(S, u) \subseteq Newer(S, t) /\ Newer(S, t) \subseteq 0 .. bound
           /\ Newer(S, u) \subseteq 0 .. bound
  <2>1. ASSUME NEW v \in Newer(S, u)  PROVE v \in Newer(S, t)
    <3>1. v \in S /\ v > u
      BY DEF Newer
    <3>2. t \in Int /\ u \in Int /\ v \in Int
      BY <3>1
    <3>3. v > t
      BY <3>1, <3>2
    <3>4. QED  BY <3>1, <3>3 DEF Newer
  <2>2. Newer(S, t) \subseteq S /\ Newer(S, u) \subseteq S
    BY DEF Newer
  <2>3. QED  BY <2>1, <2>2
<1>2. /\ IsFiniteSet(Newer(S, t)) /\ Cardinality(Newer(S, t)) \in Nat
      /\ Cardinality(Newer(S, u)) \in Nat
  BY <1>1, RowsFinite
<1>3. Cardinality(Newer(S, u)) <= Cardinality(Newer(S, t))
  BY <1>1, <1>2, FS_Subset
<1>4. QED
  BY <1>2, <1>3

\* Older rows than an older row are fewer.
LEMMA FewerAreOlder ==
    ASSUME NEW bound \in Nat, NEW S, S \subseteq 0 .. bound,
           NEW t \in S, NEW u \in S, u <= t
    PROVE  /\ Cardinality(Older(S, t)) \in Nat /\ Cardinality(Older(S, u)) \in Nat
           /\ Cardinality(Older(S, u)) <= Cardinality(Older(S, t))
<1>1. Older(S, u) \subseteq Older(S, t) /\ Older(S, t) \subseteq 0 .. bound
           /\ Older(S, u) \subseteq 0 .. bound
  <2>1. ASSUME NEW v \in Older(S, u)  PROVE v \in Older(S, t)
    <3>1. v \in S /\ v < u
      BY DEF Older
    <3>2. t \in Int /\ u \in Int /\ v \in Int
      BY <3>1
    <3>3. v < t
      BY <3>1, <3>2
    <3>4. QED  BY <3>1, <3>3 DEF Older
  <2>2. Older(S, t) \subseteq S /\ Older(S, u) \subseteq S
    BY DEF Older
  <2>3. QED  BY <2>1, <2>2
<1>2. /\ IsFiniteSet(Older(S, t)) /\ Cardinality(Older(S, t)) \in Nat
      /\ Cardinality(Older(S, u)) \in Nat
  BY <1>1, RowsFinite
<1>3. Cardinality(Older(S, u)) <= Cardinality(Older(S, t))
  BY <1>1, <1>2, FS_Subset
<1>4. QED
  BY <1>2, <1>3

\* The newest rows of a set are all its rows from some time on, at least one if
\* there is one; and all of them if they are fewer than were asked for.
LEMMA NewestRows ==
    ASSUME NEW bound \in Nat, NEW S, S \subseteq 0 .. bound, NEW k \in Nat \ {0}
    PROVE  /\ Newest(k, S) \subseteq S
           /\ \A t \in Newest(k, S) : \A u \in S : t <= u => u \in Newest(k, S)
           /\ S # {} => Newest(k, S) # {}
           /\ Cardinality(Newest(k, S)) < k => Newest(k, S) = S
<1> DEFINE N == Newest(k, S)
<1>1. N = {t \in S : Cardinality(Newer(S, t)) < k}
  BY DEF Newest, Newer
<1>2. ASSUME NEW t \in N, NEW u \in S, t <= u
      PROVE  u \in N
  <2>1. t \in S /\ Cardinality(Newer(S, t)) < k
    BY <1>1
  <2>2. /\ Cardinality(Newer(S, t)) \in Nat /\ Cardinality(Newer(S, u)) \in Nat
        /\ Cardinality(Newer(S, u)) <= Cardinality(Newer(S, t))
    BY <1>2, <2>1, FewerAreNewer
  <2>3. QED  BY <1>1, <2>1, <2>2
<1>3. ASSUME S # {}  PROVE N # {}
  <2> DEFINE m == Last(S)
  <2>1. m \in S /\ \A u \in S : u <= m
    BY <1>3, LastExists
  <2> HIDE DEF m
  <2>2. Newer(S, m) = {}
    <3>1. ASSUME NEW v \in Newer(S, m)  PROVE FALSE
      <4>1. v \in S /\ v > m
        BY DEF Newer
      <4>2. v \in Int /\ m \in Int /\ v <= m
        BY <2>1, <4>1
      <4>3. QED  BY <4>1, <4>2
    <3>2. QED  BY <3>1
  <2>3. QED  BY <1>1, <2>1, <2>2, FS_EmptySet
<1>4. ASSUME Cardinality(N) < k  PROVE N = S
  <2>1. SUFFICES ASSUME S \ N # {}  PROVE FALSE
    BY <1>1
  <2> DEFINE x == Last(S \ N)
  <2>2. x \in S \ N /\ \A u \in S \ N : u <= x
    BY <2>1, LastExists
  <2>3. Newer(S, x) \subseteq N
    <3>1. ASSUME NEW v \in Newer(S, x), v \notin N  PROVE FALSE
      <4>1. v \in S \ N /\ v > x
        BY <3>1 DEF Newer
      <4> HIDE DEF x, N
      <4>2. v \in Int /\ x \in Int /\ v <= x
        BY <2>2, <4>1
      <4>3. QED  BY <4>1, <4>2
    <3>2. QED  BY <3>1
  <2>4. IsFiniteSet(N) /\ Cardinality(N) \in Nat
    <3>1. N \subseteq 0 .. bound
      BY <1>1
    <3> HIDE DEF N
    <3>2. QED  BY <3>1, RowsFinite
  <2> HIDE DEF N, x
  <2>5. Cardinality(Newer(S, x)) <= Cardinality(N) /\ Cardinality(Newer(S, x)) \in Nat
    <3>1. IsFiniteSet(Newer(S, x)) /\ Cardinality(Newer(S, x)) <= Cardinality(N)
      BY <2>3, <2>4, FS_Subset
    <3>2. QED  BY <3>1, FS_CardinalityType
  <2>6. x \in N
    BY <1>1, <1>4, <2>2, <2>4, <2>5
  <2>7. QED  BY <2>2, <2>6
<1>5. QED
  BY <1>1, <1>2, <1>3, <1>4

\* The oldest rows of a set are all its rows up to some time, at least one if there
\* is one; and all of them if they are fewer than were asked for.
LEMMA OldestRows ==
    ASSUME NEW bound \in Nat, NEW S, S \subseteq 0 .. bound, NEW k \in Nat \ {0}
    PROVE  /\ Oldest(k, S) \subseteq S
           /\ \A t \in Oldest(k, S) : \A u \in S : u <= t => u \in Oldest(k, S)
           /\ S # {} => Oldest(k, S) # {}
           /\ Cardinality(Oldest(k, S)) < k => Oldest(k, S) = S
<1> DEFINE N == Oldest(k, S)
<1>1. N = {t \in S : Cardinality(Older(S, t)) < k}
  BY DEF Oldest, Older
<1>2. ASSUME NEW t \in N, NEW u \in S, u <= t
      PROVE  u \in N
  <2>1. t \in S /\ Cardinality(Older(S, t)) < k
    BY <1>1
  <2>2. /\ Cardinality(Older(S, t)) \in Nat /\ Cardinality(Older(S, u)) \in Nat
        /\ Cardinality(Older(S, u)) <= Cardinality(Older(S, t))
    BY <1>2, <2>1, FewerAreOlder
  <2>3. QED  BY <1>1, <2>1, <2>2
<1>3. ASSUME S # {}  PROVE N # {}
  <2> DEFINE m == First(S)
  <2>1. m \in S /\ \A u \in S : m <= u
    <3>1. S \subseteq Nat
      OBVIOUS
    <3>2. QED  BY <1>3, <3>1, FirstExists
  <2> HIDE DEF m
  <2>2. Older(S, m) = {}
    <3>1. ASSUME NEW v \in Older(S, m)  PROVE FALSE
      <4>1. v \in S /\ v < m
        BY DEF Older
      <4>2. v \in Int /\ m \in Int /\ m <= v
        BY <2>1, <4>1
      <4>3. QED  BY <4>1, <4>2
    <3>2. QED  BY <3>1
  <2>3. QED  BY <1>1, <2>1, <2>2, FS_EmptySet
<1>4. ASSUME Cardinality(N) < k  PROVE N = S
  <2>1. SUFFICES ASSUME S \ N # {}  PROVE FALSE
    BY <1>1
  <2> DEFINE x == First(S \ N)
  <2>2. x \in S \ N /\ \A u \in S \ N : x <= u
    <3> HIDE DEF N
    <3>1. S \ N \subseteq Nat
      BY S \subseteq 0 .. bound, 0 .. bound \subseteq Nat, Zenon
    <3>2. QED  BY <2>1, <3>1, FirstExists
  <2>3. Older(S, x) \subseteq N
    <3>1. ASSUME NEW v \in Older(S, x), v \notin N  PROVE FALSE
      <4>1. v \in S \ N /\ v < x
        BY <3>1 DEF Older
      <4> HIDE DEF x, N
      <4>2. v \in Int /\ x \in Int /\ x <= v
        BY <2>2, <4>1
      <4>3. QED  BY <4>1, <4>2
    <3>2. QED  BY <3>1
  <2>4. IsFiniteSet(N) /\ Cardinality(N) \in Nat
    <3>1. N \subseteq 0 .. bound
      BY <1>1
    <3> HIDE DEF N
    <3>2. QED  BY <3>1, RowsFinite
  <2> HIDE DEF N, x
  <2>5. Cardinality(Older(S, x)) <= Cardinality(N) /\ Cardinality(Older(S, x)) \in Nat
    <3>1. IsFiniteSet(Older(S, x)) /\ Cardinality(Older(S, x)) <= Cardinality(N)
      BY <2>3, <2>4, FS_Subset
    <3>2. QED  BY <3>1, FS_CardinalityType
  <2>6. x \in N
    BY <1>1, <1>4, <2>2, <2>4, <2>5
  <2>7. QED  BY <2>2, <2>6
<1>5. QED
  BY <1>1, <1>2, <1>3, <1>4

-----------------------------------------------------------------------------
(* Numbered pages: blocks of the newest rows.                              *)

\* The k newest rows are at most k, and all rows if there are no more than k.
LEMMA NewestCount ==
    ASSUME NEW bound \in Nat, NEW S, S \subseteq 0 .. bound, NEW k \in Nat
    PROVE  /\ Newest(k, S) \subseteq S /\ Cardinality(Newest(k, S)) \in Nat
           /\ Cardinality(Newest(k, S)) <= k
           /\ Cardinality(S) <= k => Newest(k, S) = S
<1> DEFINE N == Newest(k, S)
<1>1. N = {t \in S : Cardinality(Newer(S, t)) < k}
  BY DEF Newest, Newer
<1>2. /\ N \subseteq S /\ N \subseteq 0 .. bound /\ N \subseteq Nat
      /\ IsFiniteSet(N) /\ Cardinality(N) \in Nat
      /\ IsFiniteSet(S) /\ Cardinality(S) \in Nat
  <2>1. N \subseteq S /\ N \subseteq 0 .. bound
    BY <1>1
  <2> HIDE DEF N
  <2>2. N \subseteq Nat
    BY <2>1, 0 .. bound \subseteq Nat, Zenon
  <2>3. QED  BY <2>1, <2>2, RowsFinite
<1>3. Cardinality(N) <= k
  <2>1. CASE N = {}
    BY <2>1, FS_EmptySet
  <2>2. CASE N # {}
    <3> DEFINE m    == First(N)
               rest == Newer(S, m)
    <3>1. m \in N /\ \A u \in N : m <= u
      BY <1>2, <2>2, FirstExists
    <3>2. m \in S /\ Cardinality(rest) < k
      BY <1>1, <3>1
    <3> HIDE DEF m
    <3>3. rest \subseteq S
      BY DEF Newer
    <3>4. IsFiniteSet(rest) /\ Cardinality(rest) \in Nat
      BY <1>2, <3>3, FS_Subset, FS_CardinalityType
    <3>5. N \subseteq rest \cup {m}
      <4>1. ASSUME NEW v \in N, v # m  PROVE v \in rest
        <5>1. v \in S /\ v \in Int /\ m \in Int /\ m <= v
          BY <1>2, <3>1, <4>1
        <5>2. v > m
          BY <4>1, <5>1
        <5>3. QED  BY <5>1, <5>2 DEF Newer
      <4>2. QED  BY <4>1
    <3> HIDE DEF rest, N
    <3>6. IsFiniteSet(rest \cup {m}) /\ Cardinality(rest \cup {m}) <= Cardinality(rest) + 1
          /\ Cardinality(rest \cup {m}) \in Nat
      <4>1. /\ IsFiniteSet(rest \cup {m})
            /\ Cardinality(rest \cup {m}) = IF m \in rest THEN Cardinality(rest)
                                            ELSE Cardinality(rest) + 1
        BY <3>4, FS_AddElement
      <4>2. QED  BY <3>4, <4>1
    <3>7. Cardinality(N) <= Cardinality(rest \cup {m})
      <4>1. N \in SUBSET (rest \cup {m})
        BY <3>5
      <4>2. QED  BY <3>6, <4>1, FS_Subset
    <3>8. QED  BY <1>2, <3>2, <3>4, <3>6, <3>7
  <2>3. QED  BY <2>1, <2>2
<1>4. ASSUME Cardinality(S) <= k, NEW t \in S  PROVE t \in N
  <2> DEFINE rest == Newer(S, t)
  <2>1. rest \subseteq S /\ t \notin rest
    BY DEF Newer
  <2> HIDE DEF rest
  <2>2. IsFiniteSet(rest) /\ Cardinality(rest) \in Nat
        /\ Cardinality(rest) <= Cardinality(S) /\ Cardinality(S) # Cardinality(rest)
    BY <1>2, <1>4, <2>1, FS_Subset, FS_CardinalityType
  <2>3. Cardinality(rest) < k
    BY <1>2, <1>4, <2>2
  <2>4. QED  BY <1>1, <2>3 DEF rest
<1>5. QED
  BY <1>2, <1>3, <1>4

\* Rows that are added make the newest ones of the others fewer, and asking for more
\* rows returns those that fewer would.
LEMMA NewestShrinks ==
    ASSUME NEW bound \in Nat, NEW S, NEW R, S \subseteq R, R \subseteq 0 .. bound,
           NEW k \in Nat, NEW n \in Nat, k <= n
    PROVE  Newest(k, R) \cap S \subseteq Newest(n, S)
<1> SUFFICES ASSUME NEW t \in Newest(k, R), t \in S  PROVE t \in Newest(n, S)
  OBVIOUS
<1>1. Cardinality(Newer(R, t)) < k
  BY DEF Newest, Newer
<1>2. Newer(S, t) \subseteq Newer(R, t) /\ Newer(R, t) \subseteq 0 .. bound
  BY DEF Newer
<1>3. IsFiniteSet(Newer(R, t)) /\ Cardinality(Newer(R, t)) \in Nat
  BY <1>2, RowsFinite
<1>4. /\ Cardinality(Newer(S, t)) <= Cardinality(Newer(R, t))
      /\ Cardinality(Newer(S, t)) \in Nat
  BY <1>2, <1>3, FS_Subset, FS_CardinalityType
<1>5. Cardinality(Newer(S, t)) < n
  BY <1>1, <1>3, <1>4
<1>6. QED
  BY <1>5 DEF Newest, Newer

\* A numbered page holds the rows between two counts of newest rows; if it is not
\* full, there are no older ones.
LEMMA NumberedPage ==
    ASSUME NEW bound \in Nat, NEW S, S \subseteq 0 .. bound,
           NEW k \in Nat, NEW size \in Nat \ {0}
    PROVE  LET found == Newest(k + size, S) \ Newest(k, S)
           IN  /\ Newest(k + size, S) = found \cup Newest(k, S)
               /\ Cardinality(found) < size => Newest(k + size, S) = S
<1> DEFINE more  == Newest(k + size, S)
           fewer == Newest(k, S)
           found == more \ fewer
<1> SUFFICES /\ more = found \cup fewer
             /\ Cardinality(found) < size => more = S
  OBVIOUS
<1>1. k + size \in Nat \ {0} /\ k <= k + size
  OBVIOUS
<1>2. fewer \subseteq more
  <2>1. Newest(k, S) \cap S \subseteq Newest(k + size, S)
    BY <1>1, S \subseteq S, NewestShrinks
  <2>2. Newest(k, S) \subseteq S
    BY DEF Newest
  <2>3. QED  BY <2>1, <2>2
<1>3. /\ fewer \subseteq S /\ Cardinality(fewer) \in Nat /\ Cardinality(fewer) <= k
      /\ more \subseteq S /\ Cardinality(more) \in Nat
  BY <1>1, NewestCount
<1>4. Cardinality(more) < k + size => more = S
  BY <1>1, NewestRows
<1>5. IsFiniteSet(more)
  <2>1. more \subseteq 0 .. bound
    BY <1>3
  <2> HIDE DEF more
  <2>2. QED  BY <2>1, RowsFinite
<1> HIDE DEF more, fewer, found
<1>6. Cardinality(found) = Cardinality(more) - Cardinality(fewer)
  <2>1. more \cap fewer = fewer
    BY <1>2
  <2>2. Cardinality(more \ fewer) = Cardinality(more) - Cardinality(more \cap fewer)
    BY <1>5, FS_Difference
  <2>3. QED  BY <2>1, <2>2 DEF found
<1>7. Cardinality(found) < size => more = S
  BY <1>3, <1>4, <1>6
<1>8. more = found \cup fewer
  BY <1>2 DEF found
<1>9. QED
  BY <1>7, <1>8

-----------------------------------------------------------------------------
(* A caller that keeps the rows up to the time resumed from misses nothing *)
(* and repeats as little as possible.                                      *)

\* find_resume_time returns the floor or a row, has no gap before it, and stands
\* right before the first gap or at the end: resuming from an earlier time would
\* fetch again what is stored, from a later one would leave rows out for ever.
THEOREM ResumesAtFirstGap ==
    ASSUME NEW bound \in Nat, NEW rows, rows \subseteq 0 .. bound,
           NEW floor \in Nat, NEW interval \in Nat \ {0}
    PROVE  LET S      == Ordered(rows, floor)
               resume == ResumeTime(rows, floor, interval)
           IN  /\ resume \in S \cup {floor}
               /\ Gapless(S, floor, interval, resume)
               /\ GapFollows(S, interval, resume)
<1> DEFINE S      == Ordered(rows, floor)
           resume == ResumeTime(rows, floor, interval)
           gaps   == BeforeGap(S, interval)
<1>1. S \subseteq 0 .. bound /\ S \subseteq Nat /\ \A t \in S : t >= floor
  <2>1. S \subseteq rows /\ \A t \in S : t >= floor
    BY DEF Ordered
  <2>2. 0 .. bound \subseteq Nat
    OBVIOUS
  <2>3. QED  BY <2>1, <2>2
<1>2. CASE S = {}
  BY <1>2 DEF ResumeTime, Gapless, GapFollows
<1>3. CASE S # {}
  <2>1. First(S) \in S /\ \A u \in S : First(S) <= u
    BY <1>1, <1>3, FirstExists
  <2>2. CASE First(S) - floor > interval
    <3>1. resume = floor
      BY <1>3, <2>2 DEF ResumeTime
    <3>2. \A u \in S : u - floor > interval
      BY <1>1, <2>1, <2>2
    <3>3. QED  BY <1>1, <3>1, <3>2 DEF Gapless, GapFollows
  \* A row that no gap follows, and that is not the last, has a near successor.
  <2>3. ASSUME NEW t \in S, t \notin gaps, NEW v \in S, t < v
        PROVE  \E u \in S : t < u /\ u - t <= interval /\ u <= v
    <3>1. PICK u \in S : t < u /\ ~ (u - t > interval)
      BY <2>3 DEF BeforeGap
    <3>2. CASE u <= v
      BY <1>1, <3>1, <3>2
    <3>3. CASE v < u
      BY <1>1, <2>3, <3>1, <3>3
    <3>4. QED  BY <1>1, <3>2, <3>3
  <2>4. CASE First(S) - floor <= interval
    <3>1. ASSUME NEW v \in S, floor < v
          PROVE  \E u \in S : u <= v /\ u - floor <= interval /\ floor <= u
      BY <1>1, <2>1, <2>4
    <3>2. CASE gaps # {}
      <4>1. gaps \subseteq Nat /\ gaps \subseteq S
        BY <1>1 DEF BeforeGap
      <4>2. First(gaps) \in gaps /\ \A u \in gaps : First(gaps) <= u
        BY <3>2, <4>1, FirstExists
      <4>3. resume = First(gaps)
        BY <1>1, <1>3, <2>1, <2>4, <3>2 DEF ResumeTime
      <4>4. GapFollows(S, interval, resume)
        BY <4>2, <4>3 DEF GapFollows, BeforeGap
      <4>5. \A t \in S : t < resume => t \notin gaps
        BY <1>1, <4>1, <4>2, <4>3
      <4>6. resume \in S
        BY <4>1, <4>2, <4>3
      <4>7. ASSUME floor < resume
            PROVE  \E u \in S : floor < u /\ u - floor <= interval /\ u <= resume
        <5>1. CASE First(S) > floor
          BY <1>1, <2>1, <2>4, <4>6, <5>1
        <5>2. CASE First(S) = floor
          BY <2>1, <2>3, <4>5, <4>6, <4>7, <5>2
        <5>3. QED  BY <1>1, <2>1, <5>1, <5>2
      <4>8. Gapless(S, floor, interval, resume)
        BY <2>3, <4>5, <4>6, <4>7 DEF Gapless
      <4>9. QED  BY <4>4, <4>6, <4>8
    <3>3. CASE gaps = {}
      <4>1. Last(S) \in S /\ \A u \in S : u <= Last(S)
        BY <1>1, <1>3, LastExists
      <4>2. resume = Last(S)
        BY <1>1, <1>3, <2>1, <2>4, <3>3 DEF ResumeTime
      <4>3. GapFollows(S, interval, resume)
        BY <1>1, <4>1, <4>2 DEF GapFollows
      <4>4. ASSUME floor < resume
            PROVE  \E u \in S : floor < u /\ u - floor <= interval /\ u <= resume
        <5>1. CASE First(S) > floor
          BY <1>1, <2>1, <2>4, <4>1, <4>2, <5>1
        <5>2. CASE First(S) = floor
          BY <2>1, <2>3, <3>3, <4>1, <4>2, <4>4, <5>2
        <5>3. QED  BY <1>1, <2>1, <5>1, <5>2
      <4>5. Gapless(S, floor, interval, resume)
        BY <2>3, <3>3, <4>1, <4>2, <4>4 DEF Gapless
      <4>6. QED  BY <4>1, <4>2, <4>3, <4>5
    <3>4. QED  BY <3>2, <3>3
  <2>5. QED  BY <1>1, <2>1, <2>2, <2>4
<1>4. QED
  BY <1>2, <1>3

-----------------------------------------------------------------------------
(* What they promise.  The division is kept out of the provers' way: each  *)
(* statement names the second a stamp belongs to.                          *)

\* A stamp that is nominal lies within the tolerance of exactly the whole second
\* it is taken for, on either side of it.
LEMMA BoundaryIsNearestSecond ==
    ASSUME NEW t \in Int, Nominal(t)
    PROVE  /\ NominalBoundary(t) \in Int
           /\ Whole(NominalBoundary(t))
           /\ NominalBoundary(t) - t \in -Tolerance .. Tolerance
<1>1. t % Second \in 0 .. 999 /\ t = Second * (t \div Second) + (t % Second)
  BY DEF Second
<1>2. CASE t % Second <= Tolerance
  BY <1>1, <1>2 DEF NominalBoundary, Whole, Second, Tolerance
<1>3. CASE t % Second > Tolerance
  <2>1. NominalBoundary(t) = Second * (t \div Second + 1)
    BY <1>1, <1>3 DEF NominalBoundary, Second, Tolerance
  <2>2. Whole(NominalBoundary(t))
    BY <1>1, <2>1 DEF Whole, Second
  <2>3. QED  BY <1>1, <1>3, <2>2 DEF Nominal, NominalBoundary, Second, Tolerance
<1>4. QED
  BY <1>1, <1>2, <1>3 DEF Second, Tolerance

\* Stamps within the tolerance of a whole second are taken for that second.
LEMMA JitterIsRemoved ==
    ASSUME NEW n \in Int, NEW jitter \in -Tolerance .. Tolerance
    PROVE  /\ Nominal(Second * n + jitter)
           /\ NominalBoundary(Second * n + jitter) = Second * n
<1> DEFINE t == Second * n + jitter
<1>1. CASE jitter >= 0
  <2>1. t % Second = jitter
    BY <1>1 DEF Second, Tolerance
  <2>2. QED  BY <1>1, <2>1 DEF Nominal, NominalBoundary, Second, Tolerance
<1>2. CASE jitter < 0
  <2>1. t % Second = Second + jitter
    BY <1>2 DEF Second, Tolerance
  <2>2. QED  BY <1>2, <2>1 DEF Nominal, NominalBoundary, Second, Tolerance
<1>3. QED
  BY <1>1, <1>2 DEF Tolerance

\* Whichever side of their seconds two settlements are stamped on, within the
\* tolerance, their window is valid and has its true duration
\* (funding_window_duration_seconds, both branches).
THEOREM JitterKeepsDuration ==
    ASSUME NEW m \in Int, NEW n \in Int, m < n,
           NEW early \in -Tolerance .. Tolerance, NEW late \in -Tolerance .. Tolerance
    PROVE  /\ ValidWindow(Second * m + early, Second * n + late)
           /\ Duration(Second * m + early, Second * n + late) = n - m
<1> DEFINE start == Second * m + early
           end   == Second * n + late
<1>1. /\ Nominal(start) /\ NominalBoundary(start) = Second * m
      /\ Nominal(end) /\ NominalBoundary(end) = Second * n
  BY JitterIsRemoved
<1>2. end > start
  BY DEF Second, Tolerance
<1>3. Second * n - Second * m = Second * (n - m) /\ Second * n > Second * m
  BY DEF Second
<1>4. Whole(Second * (n - m)) /\ (Second * (n - m)) \div Second = n - m
  BY DEF Whole, Second
<1>5. Whole(end - start) => end - start = Second * (n - m)
  BY DEF Whole, Second, Tolerance
<1>6. QED
  BY <1>1, <1>2, <1>3, <1>4, <1>5 DEF ValidWindow, Duration

\* A window that is accepted has a positive duration, and the duration times a
\* second differs from the distance of the stamps by no more than the jitter of
\* both: nothing is merged, split or invented.
THEOREM DurationIsDistance ==
    ASSUME NEW start \in Int, NEW end \in Int, ValidWindow(start, end)
    PROVE  /\ Duration(start, end) \in Nat \ {0}
           /\ Second * Duration(start, end) - (end - start) \in -2 * Tolerance .. 2 * Tolerance
<1>1. CASE Whole(end - start)
  <2>1. end - start = Second * ((end - start) \div Second)
    BY <1>1 DEF Whole, Second
  <2>2. (end - start) \div Second \in Nat \ {0}
    BY <2>1 DEF ValidWindow, Second
  <2>3. QED  BY <1>1, <2>1, <2>2 DEF Duration, Second, Tolerance
<1>2. CASE ~ Whole(end - start)
  <2> DEFINE s == NominalBoundary(start)
             e == NominalBoundary(end)
  <2>1. /\ Nominal(start) /\ Nominal(end) /\ e > s /\ Whole(e - s)
    BY <1>2 DEF ValidWindow
  <2>2. /\ s \in Int /\ s - start \in -Tolerance .. Tolerance
        /\ e \in Int /\ e - end \in -Tolerance .. Tolerance
    BY <2>1, BoundaryIsNearestSecond
  <2>3. /\ e - s = Second * ((e - s) \div Second)
        /\ (e - s) \div Second \in Nat \ {0}
    BY <2>1, <2>2 DEF Whole, Second
  <2>4. QED  BY <1>2, <2>2, <2>3 DEF Duration, Second, Tolerance
<1>3. QED
  BY <1>1, <1>2

\* Two windows with a common boundary have the duration of the window they make
\* together, whichever branch measured each: the observed windows of a history
\* add up to the time it covers, if the outer window is measured at all.
THEOREM WindowsAddUp ==
    ASSUME NEW start \in Int, NEW mid \in Int, NEW end \in Int,
           ValidWindow(start, mid), ValidWindow(mid, end), ValidWindow(start, end)
    PROVE  Duration(start, end) = Duration(start, mid) + Duration(mid, end)
<1>1. /\ Duration(start, mid) \in Int
      /\ Second * Duration(start, mid) - (mid - start) \in -2 * Tolerance .. 2 * Tolerance
  BY DurationIsDistance
<1>2. /\ Duration(mid, end) \in Int
      /\ Second * Duration(mid, end) - (end - mid) \in -2 * Tolerance .. 2 * Tolerance
  BY DurationIsDistance
<1>3. /\ Duration(start, end) \in Int
      /\ Second * Duration(start, end) - (end - start) \in -2 * Tolerance .. 2 * Tolerance
  BY DurationIsDistance
<1>4. QED
  BY <1>1, <1>2, <1>3 DEF Second, Tolerance

\* A history keeps its settlement times, and each window it derives begins at the
\* settlement before and ends, within the jitter, at its own
\* (preserve_observed_intervals).
THEOREM WindowsChain ==
    ASSUME NEW n \in Nat, NEW Intervals,
           NEW rows \in [1 .. n -> [time : Int, interval : Intervals]], AllValid(rows),
           NEW i \in 1 .. n
    PROVE  /\ Preserved(rows)[i].time = rows[i].time
           /\ Observed(rows, i) =>
                  LET window == Preserved(rows)[i].interval
                  IN  /\ window[1] = rows[i - 1].time
                      /\ Second * window[2] - (rows[i].time - window[1])
                             \in -2 * Tolerance .. 2 * Tolerance
<1>1. DOMAIN rows = 1 .. n /\ rows[i].time \in Int
  OBVIOUS
<1>2. CASE ~ Observed(rows, i)
  BY <1>1, <1>2 DEF Preserved
<1>3. CASE Observed(rows, i)
  <2>1. i - 1 \in 1 .. n /\ rows[i - 1].time \in Int
    BY <1>3 DEF Observed
  <2>2. ValidWindow(rows[i - 1].time, rows[i].time)
    BY <1>1, <1>3 DEF AllValid
  <2>3. /\ Duration(rows[i - 1].time, rows[i].time) \in Nat \ {0}
        /\ Second * Duration(rows[i - 1].time, rows[i].time)
               - (rows[i].time - rows[i - 1].time) \in -2 * Tolerance .. 2 * Tolerance
    BY <1>1, <2>1, <2>2, DurationIsDistance
  <2>4. /\ Preserved(rows)[i].time = rows[i].time
        /\ Preserved(rows)[i].interval
               = <<rows[i - 1].time, Duration(rows[i - 1].time, rows[i].time)>>
    BY <1>1, <1>3 DEF Preserved
  <2>5. QED  BY <2>3, <2>4
<1>4. QED
  BY <1>2, <1>3

=============================================================================
