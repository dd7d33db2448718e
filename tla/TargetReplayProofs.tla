-------------------------- MODULE TargetReplayProofs --------------------------
(***************************************************************************)
(* What holds of target selection for any cells, scores, scans and faults. *)
(*                                                                         *)
(* What an engine holds is a recursive function of what it was fed.  The   *)
(* first part gets from that definition the three facts the rest needs: an *)
(* engine fed nothing holds what it held, one more scan is one more call   *)
(* of select, and two engines fed the same cells hold the same.  They are  *)
(* proved by induction over the scans, with a principle stated over sets.  *)
(*                                                                         *)
(* The invariant says of the list the tab steps through that it is an      *)
(* increasing list of stored scans.  A stored scan is never written again, *)
(* so what the engine saw of it is what a replay will see; and the list is *)
(* not longer than the scans there are, so one that did not grow, read in  *)
(* the collection of the run, is whole.                                    *)
(***************************************************************************)
EXTENDS TargetReplay, FiniteSetTheorems, SequenceTheorems, WellFoundedInduction, TLAPS

(***************************************************************************)
(* Induction                                                               *)
(***************************************************************************)
(* A set of naturals has a least member.                                    *)
LEMMA LeastOfNaturals ==
  ASSUME NEW S, S \subseteq Nat, S # {}
  PROVE  \E m \in S : \A k \in S : m <= k
<1> DEFINE R == OpToRel(<, Nat)
<1>1. IsWellFoundedOn(R, Nat)
  BY NatLessThanWellFounded
<1>2. PICK x \in S : \A y \in S : ~ (<<y, x>> \in R)
  <2> HIDE DEF R
  <2> QED
    BY <1>1, WFMin
<1>3. \A y \in S : <<y, x>> \in R <=> y < x
  BY DEF OpToRel
<1> HIDE DEF R
<1>4. ASSUME NEW k \in S PROVE x <= k
  <2>1. ~ (k < x) /\ k \in Nat /\ x \in Nat
    BY <1>2, <1>3
  <2> QED
    BY <2>1
<1> QED
  BY <1>4

(* Induction over the naturals, the property being membership of a set.     *)
LEMMA SetInduction ==
  ASSUME NEW S, 0 \in S, \A n \in Nat : n \in S => n + 1 \in S
  PROVE  Nat \subseteq S
<1> SUFFICES ASSUME Nat \ S # {} PROVE FALSE
  OBVIOUS
<1>1. PICK m \in Nat \ S : \A k \in Nat \ S : m <= k
  BY LeastOfNaturals
<1>2. m # 0 /\ m - 1 \in Nat /\ ~(m <= m - 1) /\ (m - 1) + 1 = m
  BY <1>1
<1>3. m - 1 \in S
  BY <1>1, <1>2
<1> QED
  BY <1>1, <1>2, <1>3

(***************************************************************************)
(* Feeding an engine                                                       *)
(***************************************************************************)
\* What an engine that holds cur holds after the k-th scan of a list.
After(d, cur, ts, k) == Select(cur, SnapshotAt(d, ts[k]), ts[k]).target

\* f[k] is what the engine holds after k scans.
IsFeed(d, cur, ts, n, f) ==
    f = [k \in 0..n |-> IF k = 0 THEN cur ELSE After(d, f[k - 1], ts, k)]

LEMMA FeedExists ==
  ASSUME NEW d, NEW cur, NEW ts, NEW n \in Nat
  PROVE  \E f : IsFeed(d, cur, ts, n, f)
<1> DEFINE S == {i \in Nat : \E f : IsFeed(d, cur, ts, i, f)}
<1>1. 0 \in S
  <2> DEFINE f == [k \in 0..0 |-> cur]
  <2>1. IsFeed(d, cur, ts, 0, f)
    BY DEF IsFeed
  <2> QED
    BY <2>1
<1>2. ASSUME NEW i \in Nat, i \in S PROVE i + 1 \in S
  <2>1. PICK f : IsFeed(d, cur, ts, i, f)
    BY <1>2
  <2> DEFINE g == [k \in 0..(i + 1) |-> IF k = i + 1 THEN After(d, f[i], ts, i + 1) ELSE f[k]]
             h == [k \in 0..(i + 1) |-> IF k = 0 THEN cur ELSE After(d, g[k - 1], ts, k)]
  <2>2. \A k \in 0..i : f[k] = IF k = 0 THEN cur ELSE After(d, f[k - 1], ts, k)
    BY <2>1 DEF IsFeed
  <2>3. ASSUME NEW k \in 0..(i + 1) PROVE g[k] = h[k]
    <3>1. CASE k = i + 1
      <4>1. k # 0 /\ k - 1 = i /\ i \in 0..(i + 1) /\ i # i + 1
        BY <3>1
      <4> QED
        BY <3>1, <4>1
    <3>2. CASE k # i + 1
      <4>1. k \in 0..i
        BY <3>2
      <4>2. CASE k = 0
        BY <2>2, <3>2, <4>1, <4>2
      <4>3. CASE k # 0
        <5>1. k - 1 \in 0..(i + 1) /\ k - 1 # i + 1
          BY <4>1, <4>3
        <5>2. g[k - 1] = f[k - 1]
          BY <5>1
        <5>3. h[k] = After(d, f[k - 1], ts, k)
          BY <4>3, <5>2
        <5> HIDE DEF h
        <5> QED
          BY <2>2, <3>2, <4>1, <4>3, <5>3
      <4> QED
        BY <4>2, <4>3
    <3> QED
      BY <3>1, <3>2
  <2>4. g = h
    BY <2>3
  <2>5. IsFeed(d, cur, ts, i + 1, g)
    BY <2>4 DEF IsFeed
  <2>6. i + 1 \in Nat
    OBVIOUS
  <2> HIDE DEF g, h
  <2> QED
    BY <2>5, <2>6
<1> HIDE DEF S
<1>3. n \in S
  BY <1>1, <1>2, SetInduction
<1> QED
  BY <1>3 DEF S

LEMMA FedIsFeed ==
  ASSUME NEW d, NEW cur, NEW ts, NEW n \in Nat
  PROVE  \E f : IsFeed(d, cur, ts, n, f) /\ Fed(d, cur, ts, n) = f[n]
<1> DEFINE f == CHOOSE g : IsFeed(d, cur, ts, n, g)
<1>1. IsFeed(d, cur, ts, n, f)
  BY FeedExists
<1>2. Fed(d, cur, ts, n) = f[n]
  BY DEF Fed, IsFeed, After
<1> QED
  BY <1>1, <1>2

(* Two feeds of the same cells agree.                                       *)
LEMMA FeedsAgree ==
  ASSUME NEW d, NEW e, NEW cur, NEW ts, NEW us, NEW n \in Nat, NEW m \in Nat,
         NEW f, NEW g, IsFeed(d, cur, ts, n, f), IsFeed(e, cur, us, m, g),
         NEW j \in Nat, j <= n, j <= m,
         \A k \in 1..j : ts[k] = us[k] /\ SnapshotAt(d, ts[k]) = SnapshotAt(e, us[k])
  PROVE  f[j] = g[j]
<1> DEFINE S == {i \in Nat : i <= j => f[i] = g[i]}
<1>1. \A k \in 0..n : f[k] = IF k = 0 THEN cur ELSE After(d, f[k - 1], ts, k)
  BY DEF IsFeed
<1>2. \A k \in 0..m : g[k] = IF k = 0 THEN cur ELSE After(e, g[k - 1], us, k)
  BY DEF IsFeed
<1>3. 0 \in S
  BY <1>1, <1>2
<1>4. ASSUME NEW i \in Nat, i \in S PROVE i + 1 \in S
  <2> SUFFICES ASSUME i + 1 <= j PROVE f[i + 1] = g[i + 1]
    OBVIOUS
  <2>1. i + 1 \in 1..j /\ i + 1 \in 0..n /\ i + 1 \in 0..m /\ i + 1 # 0
        /\ (i + 1) - 1 = i /\ i <= j
    OBVIOUS
  <2>2. f[i + 1] = After(d, f[i], ts, i + 1) /\ g[i + 1] = After(e, g[i], us, i + 1)
    BY <1>1, <1>2, <2>1
  <2>3. f[i] = g[i]
    BY <1>4, <2>1
  <2>4. After(d, f[i], ts, i + 1) = After(e, f[i], us, i + 1)
    BY <2>1 DEF After
  <2> QED
    BY <2>2, <2>3, <2>4
<1> HIDE DEF S
<1>5. j \in S
  BY <1>3, <1>4, SetInduction
<1> QED
  BY <1>5 DEF S

LEMMA FedSame ==
  ASSUME NEW d, NEW e, NEW cur, NEW ts, NEW us, NEW n \in Nat,
         \A k \in 1..n : ts[k] = us[k] /\ SnapshotAt(d, ts[k]) = SnapshotAt(e, us[k])
  PROVE  Fed(d, cur, ts, n) = Fed(e, cur, us, n)
<1>1. PICK f : IsFeed(d, cur, ts, n, f) /\ Fed(d, cur, ts, n) = f[n]
  BY FedIsFeed
<1>2. PICK g : IsFeed(e, cur, us, n, g) /\ Fed(e, cur, us, n) = g[n]
  BY FedIsFeed
<1>3. n <= n
  OBVIOUS
<1>4. f[n] = g[n]
  BY <1>1, <1>2, <1>3, FeedsAgree
<1> QED
  BY <1>1, <1>2, <1>4

LEMMA FedNothing ==
  ASSUME NEW d, NEW cur, NEW ts
  PROVE  Fed(d, cur, ts, 0) = cur
<1>1. PICK f : IsFeed(d, cur, ts, 0, f) /\ Fed(d, cur, ts, 0) = f[0]
  BY FedIsFeed
<1> QED
  BY <1>1 DEF IsFeed

LEMMA FedOneMore ==
  ASSUME NEW d, NEW cur, NEW ts, NEW n \in Nat
  PROVE  Fed(d, cur, ts, n + 1) = After(d, Fed(d, cur, ts, n), ts, n + 1)
<1>1. PICK f : IsFeed(d, cur, ts, n, f) /\ Fed(d, cur, ts, n) = f[n]
  BY FedIsFeed
<1>2. n + 1 \in Nat
  OBVIOUS
<1>3. PICK g : IsFeed(d, cur, ts, n + 1, g) /\ Fed(d, cur, ts, n + 1) = g[n + 1]
  BY <1>2, FedIsFeed
<1>4. n <= n /\ n <= n + 1
  OBVIOUS
<1>5. f[n] = g[n]
  BY <1>1, <1>2, <1>3, <1>4, FeedsAgree
<1>6. g[n + 1] = After(d, g[n], ts, n + 1)
  <2>1. n + 1 \in 0..(n + 1) /\ n + 1 # 0 /\ (n + 1) - 1 = n
    OBVIOUS
  <2> QED
    BY <1>3, <2>1 DEF IsFeed
<1> QED
  BY <1>1, <1>3, <1>5, <1>6

(* The snapshot at the time of a stored scan is that scan.                  *)
LEMMA SnapshotIsTheScan ==
  ASSUME NEW d, NEW t \in StoredIn(d)
  PROVE  SnapshotAt(d, t) = d[t]
<1> DEFINE S == {s \in StoredIn(d) : s <= t}
<1>1. t \in S /\ \A s \in S : s \in Nat /\ s <= t /\ t \in Nat
  BY DEF StoredIn, Times
<1>2. \A s \in S : t >= s
  BY <1>1
<1> HIDE DEF S
<1>3. Max(S) \in S /\ \A s \in S : Max(S) >= s
  <2>1. \E x \in S : \A y \in S : x >= y
    BY <1>1, <1>2
  <2> QED
    BY <2>1 DEF Max
<1>4. Max(S) = t
  <2>1. Max(S) >= t /\ Max(S) <= t /\ Max(S) \in Nat /\ t \in Nat
    BY <1>1, <1>3
  <2> QED
    BY <2>1
<1> QED
  BY <1>4 DEF SnapshotAt, S

(***************************************************************************)
(* Lists of scans                                                          *)
(***************************************************************************)
Increasing(ts, n) == \A i, j \in 1..n : i < j => ts[i] < ts[j]

(* A finite set of times can be listed in order.                            *)
LEMMA SetsAreListed ==
  ASSUME NEW m \in Nat, NEW S \in SUBSET (1..m)
  PROVE  \E ts \in [1..Cardinality(S) -> S] : Increasing(ts, Cardinality(S))
<1> DEFINE Listable(T) ==
             \E ts \in [1..Cardinality(T) -> T] : Increasing(ts, Cardinality(T))
           P == {n \in Nat : \A T \in SUBSET (1..n) : Listable(T)}
<1>1. 0 \in P
  <2>1. 1..0 = {}
    OBVIOUS
  <2>2. Listable({})
    <3>1. Cardinality({}) = 0
      BY FS_EmptySet
    <3>2. [i \in 1..0 |-> 0] \in [1..0 -> {}]
      BY <2>1
    <3>3. \A ts : Increasing(ts, 0)
      BY DEF Increasing
    <3> QED
      BY <3>1, <3>2, <3>3
  <2> HIDE DEF Listable
  <2> QED
    BY <2>1, <2>2
<1>2. ASSUME NEW n \in Nat, n \in P PROVE n + 1 \in P
  <2> HIDE DEF Listable
  <2>0. n + 1 \in Nat /\ \A T \in SUBSET (1..n) : Listable(T)
    BY <1>2
  <2> SUFFICES ASSUME NEW T \in SUBSET (1..(n + 1)) PROVE Listable(T)
    BY <2>0
  <2>1. CASE n + 1 \notin T
    <3>1. T \in SUBSET (1..n)
      BY <2>1
    <3> QED
      BY <2>0, <3>1
  <2>2. CASE n + 1 \in T
    <3> DEFINE R == T \ {n + 1}
               c == Cardinality(R)
    <3>1. R \in SUBSET (1..n)
      OBVIOUS
    <3>2. IsFiniteSet(T) /\ IsFiniteSet(R) /\ c \in Nat /\ Cardinality(T) = c + 1
      <4>1. IsFiniteSet(1..(n + 1))
        BY FS_Interval
      <4>2. IsFiniteSet(T)
        BY <4>1, FS_Subset
      <4>3. IsFiniteSet(R) /\ Cardinality(R) = Cardinality(T) - 1
        BY <2>2, <4>2, FS_RemoveElement
      <4>4. Cardinality(R) \in Nat /\ Cardinality(T) \in Nat
        BY <4>2, <4>3, FS_CardinalityType
      <4> QED
        BY <4>2, <4>3, <4>4
    <3>3. PICK ts \in [1..c -> R] : Increasing(ts, c)
      BY <2>0, <3>1 DEF Listable
    <3> HIDE DEF c
    <3> DEFINE us == [i \in 1..(c + 1) |-> IF i = c + 1 THEN n + 1 ELSE ts[i]]
    <3>4. \A i \in 1..(c + 1) : i # c + 1 => i \in 1..c
      BY <3>2
    <3>5. us \in [1..(c + 1) -> T]
      BY <2>2, <3>3, <3>4
    <3>6. ASSUME NEW i \in 1..(c + 1), NEW j \in 1..(c + 1), i < j
          PROVE  us[i] < us[j]
      <4>1. i # c + 1 /\ i \in 1..c /\ us[i] = ts[i] /\ ts[i] \in 1..n
        <5>1. i # c + 1 /\ i \in 1..c
          BY <3>2, <3>6
        <5>2. us[i] = ts[i] /\ ts[i] \in R
          BY <3>3, <5>1
        <5> QED
          BY <3>1, <5>1, <5>2
      <4>2. CASE j = c + 1
        BY <4>1, <4>2
      <4>3. CASE j # c + 1
        <5>1. j \in 1..c /\ us[j] = ts[j]
          BY <3>4, <4>3
        <5> HIDE DEF us
        <5> QED
          BY <3>3, <3>6, <4>1, <5>1 DEF Increasing
      <4> QED
        BY <4>2, <4>3
    <3>7. Increasing(us, c + 1)
      <4> HIDE DEF us
      <4> QED
        BY <3>6 DEF Increasing
    <3> HIDE DEF us, R
    <3> QED
      BY <3>2, <3>5, <3>7 DEF Listable
  <2> QED
    BY <2>1, <2>2
<1> HIDE DEF P
<1>3. m \in P
  BY <1>1, <1>2, SetInduction
<1> QED
  BY <1>3 DEF P

LEMMA StoredAreTimes ==
  /\ StoredScans \in SUBSET Times /\ IsFiniteSet(StoredScans)
  /\ Cardinality(StoredScans) \in Nat
<1>1. StoredScans \in SUBSET Times
  BY DEF StoredScans, StoredIn
<1>2. IsFiniteSet(Times)
  <2>1. 1 \in Int /\ MaxTime \in Int
    BY ReplayConstants
  <2> QED
    BY <2>1, FS_Interval DEF Times
<1> QED
  BY <1>1, <1>2, FS_Subset, FS_CardinalityType

(* _run_scan_times lists the stored scans in order.                         *)
LEMMA ScanTimesList ==
  /\ ScanTimes \in Seq(Times) /\ Len(ScanTimes) = Cardinality(StoredScans)
  /\ \A i \in 1..Len(ScanTimes) : ScanTimes[i] \in StoredScans
  /\ Increasing(ScanTimes, Len(ScanTimes))
<1> DEFINE c == Cardinality(StoredScans)
           Listing(ts) == \A i, j \in DOMAIN ts : i < j => ts[i] < ts[j]
<1>1. c \in Nat /\ StoredScans \in SUBSET Times
  BY StoredAreTimes
<1>2. \E ts \in [1..c -> StoredScans] : Listing(ts)
  <2>1. MaxTime \in Nat /\ StoredScans \in SUBSET (1..MaxTime)
    BY <1>1, ReplayConstants DEF Times
  <2>2. PICK ts \in [1..c -> StoredScans] : Increasing(ts, c)
    BY <2>1, SetsAreListed
  <2>3. DOMAIN ts = 1..c
    BY <2>2
  <2>4. Listing(ts)
    BY <2>2, <2>3 DEF Increasing
  <2> HIDE DEF Listing
  <2> QED
    BY <2>2, <2>4
<1>3. ScanTimes = CHOOSE ts \in [1..c -> StoredScans] : Listing(ts)
  BY DEF ScanTimes
<1>4. ScanTimes \in [1..c -> StoredScans] /\ Listing(ScanTimes)
  <2> HIDE DEF Listing, c
  <2> QED
    BY <1>2, <1>3
<1> HIDE DEF c
<1>5. ScanTimes \in [1..c -> Times] /\ DOMAIN ScanTimes = 1..c
  BY <1>1, <1>4
<1>6. ScanTimes \in Seq(Times) /\ Len(ScanTimes) = c
  BY <1>1, <1>5
<1> QED
  BY <1>4, <1>5, <1>6 DEF Increasing, c

(* A list of distinct stored scans is not longer than the scans there are.  *)
LEMMA ListNotLonger ==
  ASSUME NEW ts \in Seq(Times), Increasing(ts, Len(ts)),
         \A i \in 1..Len(ts) : ts[i] \in StoredScans
  PROVE  Len(ts) <= Cardinality(StoredScans)
<1>1. Len(ts) \in Nat /\ ts \in [1..Len(ts) -> Times] /\ DOMAIN ts = 1..Len(ts)
  BY LenProperties
<1>2. IsFiniteSet(StoredScans) /\ Cardinality(StoredScans) \in Nat
  BY StoredAreTimes
<1>3. IsFiniteSet(1..Len(ts)) /\ Cardinality(1..Len(ts)) = Len(ts)
  <2>1. 1 \in Int /\ Len(ts) \in Int
    BY <1>1
  <2>2. IsFiniteSet(1..Len(ts))
        /\ Cardinality(1..Len(ts)) = IF 1 > Len(ts) THEN 0 ELSE Len(ts) - 1 + 1
    BY <2>1, FS_Interval
  <2> QED
    BY <1>1, <2>2
<1> SUFFICES ASSUME Cardinality(StoredScans) < Cardinality(1..Len(ts)) PROVE FALSE
  BY <1>1, <1>2, <1>3
<1>4. ts \in [1..Len(ts) -> StoredScans]
  BY <1>1
<1>5. PICK x, y \in 1..Len(ts) : x # y /\ ts[x] = ts[y]
  BY <1>2, <1>3, <1>4, FS_PigeonHole
<1>6. ts[x] \in Nat /\ ts[y] \in Nat /\ (x < y \/ y < x)
  BY <1>1, <1>5 DEF Times
<1> QED
  BY <1>5, <1>6 DEF Increasing

(***************************************************************************)
(* The engine                                                              *)
(***************************************************************************)
Scan == Contents \cup {NoCells}
Held == Targets \cup {NoTarget}

Beats(scan, u, v) ==
    \/ Score[scan[u]] > Score[scan[v]]
    \/ Score[scan[u]] = Score[scan[v]] /\ u < v

LEMMA CandidateScores ==
  ASSUME NEW scan, NEW u \in Candidates(scan)
  PROVE  u \in Nat /\ u \in Uids /\ Score[scan[u]] \in Int
<1>1. Score \in [DOMAIN Score -> Int] /\ Uids \subseteq Nat
  BY ReplayConstants
<1>2. u \in Uids /\ scan[u] \in DOMAIN Score
  BY DEF Candidates, IsCandidate
<1> QED
  BY <1>1, <1>2

LEMMA BeatsIsAnOrder ==
  ASSUME NEW scan, NEW u \in Candidates(scan), NEW v \in Candidates(scan),
         NEW w \in Candidates(scan)
  PROVE  /\ u # v => Beats(scan, u, v) \/ Beats(scan, v, u)
         /\ Beats(scan, u, v) /\ Beats(scan, v, w) => Beats(scan, u, w)
<1>1. /\ u \in Nat /\ v \in Nat /\ w \in Nat
      /\ Score[scan[u]] \in Int /\ Score[scan[v]] \in Int /\ Score[scan[w]] \in Int
  BY CandidateScores
<1> QED
  BY <1>1 DEF Beats

(* select_best finds a candidate among the candidates it is given.          *)
LEMMA BestIsOneOfThem ==
  ASSUME NEW scan, NEW S \in SUBSET Candidates(scan), S # {}
  PROVE  Best(scan, S) \in S
<1> DEFINE Led(T) == \E u \in T : \A v \in T \ {u} : Beats(scan, u, v)
           P == {n \in Nat : \A T \in SUBSET S :
                               IsFiniteSet(T) /\ Cardinality(T) = n /\ T # {} => Led(T)}
<1>1. 0 \in P
  BY FS_EmptySet
<1>2. ASSUME NEW n \in Nat, n \in P PROVE n + 1 \in P
  <2> HIDE DEF Led
  <2>1. n + 1 \in Nat
    OBVIOUS
  <2> SUFFICES ASSUME NEW T \in SUBSET S, IsFiniteSet(T), Cardinality(T) = n + 1, T # {}
               PROVE  Led(T)
    BY <2>1
  <2>2. PICK x \in T : TRUE
    OBVIOUS
  <2> DEFINE R == T \ {x}
  <2>3. IsFiniteSet(R) /\ Cardinality(R) = n
    <3>1. IsFiniteSet(R) /\ Cardinality(R) = Cardinality(T) - 1
      BY <2>2, FS_RemoveElement
    <3> QED
      BY <3>1
  <2>4. CASE R = {}
    <3>1. T \ {x} = {}
      BY <2>4
    <3> QED
      BY <2>2, <3>1 DEF Led
  <2>5. CASE R # {}
    <3>1. Led(R)
      <4>1. R \in SUBSET S
        OBVIOUS
      <4> HIDE DEF R
      <4> QED
        BY <1>2, <2>3, <2>5, <4>1
    <3>2. PICK b \in R : \A v \in R \ {b} : Beats(scan, b, v)
      BY <3>1 DEF Led
    <3>3. x \in Candidates(scan) /\ b \in Candidates(scan) /\ x # b /\ b \in T
          /\ \A v \in T : v \in Candidates(scan)
      BY <2>2, <3>2
    <3>4. CASE Beats(scan, b, x)
      <4>1. \A v \in T \ {b} : Beats(scan, b, v)
        BY <3>2, <3>4
      <4> QED
        BY <3>3, <4>1 DEF Led
    <3>5. CASE Beats(scan, x, b)
      <4>1. ASSUME NEW v \in T \ {x} PROVE Beats(scan, x, v)
        <5>1. v = b \/ (v \in R \ {b} /\ Beats(scan, b, v))
          BY <3>2, <4>1
        <5> QED
          BY <3>3, <3>5, <5>1, BeatsIsAnOrder
      <4> QED
        BY <2>2, <4>1 DEF Led
    <3> QED
      BY <3>3, <3>4, <3>5, BeatsIsAnOrder
  <2> QED
    BY <2>4, <2>5
<1> HIDE DEF P
<1>3. IsFiniteSet(S) /\ Cardinality(S) \in Nat
  <2>1. S \in SUBSET Uids /\ IsFiniteSet(Uids)
    BY ReplayConstants DEF Candidates
  <2> QED
    BY <2>1, FS_Subset, FS_CardinalityType
<1>4. Cardinality(S) \in P
  BY <1>1, <1>2, <1>3, SetInduction
<1>5. \E u \in S : \A v \in S \ {u} : Beats(scan, u, v)
  BY <1>3, <1>4 DEF P
<1> QED
  BY <1>5 DEF Best, Beats

\* What select answers: a window that is open, for a cell of the run.
LEMMA StartsNew ==
  ASSUME NEW scan, NEW now \in Times, NEW exclude
  PROVE  /\ StartNew(scan, now, exclude).target \in Held
         /\ StartNew(scan, now, exclude).at = now
         /\ StartNew(scan, now, exclude).reason \in {"none", "new"}
         /\ StartNew(scan, now, exclude).target # NoTarget =>
               StartNew(scan, now, exclude).target.since = now
         /\ DOMAIN StartNew(scan, now, exclude) = {"reason", "target", "at"}
<1> DEFINE eligible == Candidates(scan) \ exclude
<1>1. CASE eligible = {}
  BY <1>1 DEF StartNew, Decision, Held
<1>2. CASE eligible # {}
  <2>1. Best(scan, eligible) \in Uids
    <3>1. eligible \in SUBSET Candidates(scan)
      OBVIOUS
    <3>2. Best(scan, eligible) \in eligible
      <4> HIDE DEF eligible
      <4> QED
        BY <1>2, <3>1, BestIsOneOfThem
    <3> QED
      BY <3>2 DEF Candidates
  <2>2. StartNew(scan, now, exclude) =
           [reason |-> "new", target |-> [uid |-> Best(scan, eligible), since |-> now],
            at |-> now]
    BY <1>2 DEF StartNew, Decision
  <2> HIDE DEF eligible
  <2> QED
    BY <2>1, <2>2 DEF Held, Targets
<1> QED
  BY <1>1, <1>2

LEMMA SelectDecides ==
  ASSUME NEW scan, NEW now \in Times, NEW current \in Held
  PROVE  /\ Select(current, scan, now).target \in Held
         /\ Select(current, scan, now).at = now
         /\ Select(current, scan, now).reason \in {"none", "new", "continue", "switch"}
         /\ DOMAIN Select(current, scan, now) = {"reason", "target", "at"}
         /\ Select(current, scan, now).target # NoTarget =>
               now < Select(current, scan, now).target.since + MaxObs
<1> DEFINE d == Select(current, scan, now)
<1>0. now \in Nat /\ MaxObs \in Nat /\ now < now + MaxObs
  BY ReplayConstants DEF Times
<1>1. ASSUME NEW exclude, d = StartNew(scan, now, exclude)
      PROVE  /\ d.target \in Held /\ d.at = now
             /\ d.reason \in {"none", "new", "continue", "switch"}
             /\ DOMAIN d = {"reason", "target", "at"}
             /\ d.target # NoTarget => now < d.target.since + MaxObs
  <2> HIDE DEF d
  <2> QED
    BY <1>0, <1>1, StartsNew
<1>2. CASE current = NoTarget
  <2>1. d = StartNew(scan, now, {})
    BY <1>2 DEF Select
  <2> QED
    BY <1>1, <2>1
<1>3. CASE current # NoTarget /\ StopReason(current, scan, now) # "none"
  <2>1. \E exclude : d = StartNew(scan, now, exclude)
    BY <1>3 DEF Select
  <2> HIDE DEF d
  <2>2. PICK exclude : d = StartNew(scan, now, exclude)
    BY <2>1
  <2> QED
    BY <1>1, <2>2 DEF d
<1>4. CASE current # NoTarget /\ StopReason(current, scan, now) = "none"
  <2>1. d = ContinueOrSwitch(current, scan, now)
    BY <1>4 DEF Select
  <2>2. current \in Targets /\ current.since \in Times /\ current.since \in Nat
    BY <1>4 DEF Held, Targets, Times
  <2>3. now < current.since + MaxObs
    <3>1. ~(now - current.since >= MaxObs)
      <4> DEFINE look == scan[current.uid]
                 late == now - current.since >= MaxObs
      <4>1. ~IsCandidate("gone")
        <5>1. DOMAIN Score \cap {"gone", "poor"} = {}
          BY ReplayConstants
        <5> QED
          BY <5>1 DEF IsCandidate
      <4>2. StopReason(current, scan, now) =
              CASE look = "gone" -> "lost"
                [] look # "gone" /\ ~IsCandidate(look) -> "dropped"
                [] IsCandidate(look) /\ late -> "duration"
                [] OTHER -> "none"
        BY DEF StopReason
      <4> HIDE DEF look, late
      <4>3. CASE look = "gone"
        BY <1>4, <4>1, <4>2, <4>3
      <4>4. CASE look # "gone" /\ ~IsCandidate(look)
        BY <1>4, <4>2, <4>4
      <4>5. CASE look # "gone" /\ IsCandidate(look)
        <5>1. late => StopReason(current, scan, now) = "duration"
          BY <4>2, <4>5
        <5> QED
          BY <1>4, <5>1 DEF late
      <4> QED
        BY <4>3, <4>4, <4>5
    <3> QED
      BY <1>0, <2>2, <3>1
  <2>4. CASE d = Decision("continue", current, now)
    <3>1. Select(current, scan, now) =
             [reason |-> "continue", target |-> current, at |-> now]
      BY <2>4 DEF Decision
    <3> QED
      BY <2>2, <2>3, <3>1
  <2>5. ASSUME NEW u \in Uids, d = Decision("switch", [uid |-> u, since |-> now], now)
        PROVE  /\ d.target \in Held /\ d.at = now
               /\ d.reason \in {"none", "new", "continue", "switch"}
               /\ DOMAIN d = {"reason", "target", "at"}
               /\ d.target # NoTarget => now < d.target.since + MaxObs
    <3> HIDE DEF d
    <3> QED
      BY <1>0, <2>5 DEF Decision, Held, Targets
  <2>6. \/ d = Decision("continue", current, now)
        \/ \E u \in Uids : d = Decision("switch", [uid |-> u, since |-> now], now)
    <3> DEFINE challengers == Candidates(scan) \ {current.uid}
    <3>1. challengers # {} => Best(scan, challengers) \in Uids
      <4>1. challengers \in SUBSET Candidates(scan)
        OBVIOUS
      <4>2. challengers # {} => Best(scan, challengers) \in challengers
        <5> HIDE DEF challengers
        <5> QED
          BY <4>1, BestIsOneOfThem
      <4> QED
        BY <4>2 DEF Candidates
    <3> HIDE DEF d
    <3> QED
      BY <2>1, <3>1 DEF ContinueOrSwitch
  <2> HIDE DEF d
  <2> QED
    BY <2>4, <2>5, <2>6 DEF d
<1> QED
  BY <1>2, <1>3, <1>4

(* A replay of n scans holds a target of the run, or none.                  *)
LEMMA FedHolds ==
  ASSUME NEW d, NEW ts, NEW n \in Nat, \A k \in 1..n : ts[k] \in Times
  PROVE  Fed(d, NoTarget, ts, n) \in Held
<1> DEFINE S == {i \in Nat : i <= n => Fed(d, NoTarget, ts, i) \in Held}
<1>1. 0 \in S
  BY FedNothing DEF Held
<1>2. ASSUME NEW i \in Nat, i \in S PROVE i + 1 \in S
  <2> SUFFICES ASSUME i + 1 <= n PROVE Fed(d, NoTarget, ts, i + 1) \in Held
    OBVIOUS
  <2>1. Fed(d, NoTarget, ts, i) \in Held
    BY <1>2
  <2>2. ts[i + 1] \in Times
    BY <1>2
  <2>3. After(d, Fed(d, NoTarget, ts, i), ts, i + 1) \in Held
    BY <2>1, <2>2, SelectDecides DEF After
  <2> QED
    BY <2>3, FedOneMore
<1> HIDE DEF S
<1>3. n \in S
  BY <1>1, <1>2, SetInduction
<1> QED
  BY <1>3 DEF S

(***************************************************************************)
(* The invariant                                                           *)
(***************************************************************************)
Flags ==
    /\ over \in BOOLEAN /\ home \in BOOLEAN /\ session \in BOOLEAN
    /\ running \in BOOLEAN /\ pending \in BOOLEAN /\ asking \in BOOLEAN
    /\ done \in BOOLEAN /\ misled \in BOOLEAN /\ overtaken \in BOOLEAN
    /\ skewed \in BOOLEAN

Shown == [reason : {"none", "new", "continue", "switch"}, target : Held, at : 0..MaxTime]

Values ==
    /\ data \in [Times -> Scan]
    /\ target \in Held /\ shown \in Shown /\ fails \in 0..MaxFails

\* What the tab steps through is an increasing list of stored scans.
Listed ==
    /\ times \in Seq(Times) /\ index \in 0..Len(times)
    /\ Increasing(times, Len(times))
    /\ \A i \in 1..Len(times) : times[i] \in StoredScans

\* A replay that asks whether it is done has shown what there is, and one that
\* said so has nothing more to come, unless it was misled or overtaken; asking
\* in another collection is to be misled.
Verdict ==
    /\ asking => ~pending
    /\ done => ~asking /\ ~pending
    /\ asking => home \/ misled
    /\ asking /\ ~misled /\ ~overtaken => index = Cardinality(StoredScans)
    /\ DoneShowsAll

ReplayInv ==
    /\ Flags /\ Values /\ Listed /\ Verdict
    /\ EngineIsReplay /\ WindowOpen

LEMMA FlagsNext == Flags /\ [Next]_vars => Flags'
<1> SUFFICES ASSUME Flags, [Next]_vars PROVE Flags'
  OBVIOUS
<1>1. ASSUME NEW t \in Times, NEW scan \in Contents, ScanStored(t, scan) PROVE Flags'
  BY <1>1 DEF ScanStored, Flags, controlVars
<1>2. CASE RunEnds \/ RunBegins \/ CollectionChanged
  BY <1>2 DEF RunEnds, RunBegins, CollectionChanged, Flags, controlVars, verdictVars,
              storeVars
<1>3. CASE PlayPressed
  BY <1>3 DEF PlayPressed, Pause, NewSession, NothingSaid, Flags, storeVars
<1>4. CASE StepScan
  BY <1>4 DEF StepScan, Pause, Flags, storeVars, verdictVars
<1>5. CASE GoLiveTimes
  BY <1>5 DEF GoLiveTimes, Pause, Flags, storeVars, controlVars
<1>6. CASE GoLiveStatus
  BY <1>6 DEF GoLiveStatus, Pause, NothingSaid, Flags, storeVars
<1>7. ASSUME NEW d \in {-1, 1}, StepManual(d) PROVE Flags'
  BY <1>7 DEF StepManual, Seek, Pause, NothingSaid, Flags, storeVars
<1>8. CASE Reset
  BY <1>8 DEF Reset, Pause, NothingSaid, Flags, storeVars
<1>9. CASE UNCHANGED vars
  BY <1>9 DEF vars, Flags, storeVars, controlVars, verdictVars
<1> QED
  BY <1>1, <1>2, <1>3, <1>4, <1>5, <1>6, <1>7, <1>8, <1>9
     DEF Next, Pipeline, Replay, User

LEMMA FailsCounted ==
  ASSUME fails \in 0..MaxFails, MayFail \/ NoFault \/ ProcessFails
  PROVE  fails' \in 0..MaxFails
BY ReplayConstants DEF MayFail, NoFault, ProcessFails

\* What select answers may be shown.
LEMMA SelectShows ==
  ASSUME NEW scan, NEW now \in Times, NEW current \in Held,
         shown' = Select(current, scan, now)
  PROVE  shown' \in Shown /\ WindowOpen' /\ shown'.target \in Held
<1> DEFINE d == Select(current, scan, now)
<1>1. /\ d.target \in Held /\ d.at = now
      /\ d.reason \in {"none", "new", "continue", "switch"}
      /\ DOMAIN d = {"reason", "target", "at"}
      /\ d.target # NoTarget => now < d.target.since + MaxObs
  BY SelectDecides
<1>2. now \in 0..MaxTime
  BY DEF Times
<1>3. d \in Shown
  <2>1. d = [reason |-> d.reason, target |-> d.target, at |-> d.at]
    <3>1. d = [x \in DOMAIN d |-> d[x]]
      BY DEF Select, StartNew, ContinueOrSwitch, Decision
    <3> HIDE DEF d
    <3> QED
      BY <1>1, <3>1
  <2> HIDE DEF d
  <2> QED
    BY <1>1, <1>2, <2>1 DEF Shown
<1>4. shown' = d
  OBVIOUS
<1> HIDE DEF d
<1> QED
  BY <1>1, <1>3, <1>4 DEF WindowOpen

\* A decision goes to the engine and to the screen.
LEMMA ProcessDecides ==
  ASSUME target \in Held, NEW i, times[i] \in Times, Process(i)
  PROVE  target' \in Held /\ shown' \in Shown /\ WindowOpen'
<1>1. /\ shown' = Select(target, SnapshotAt(data, times[i]), times[i])
      /\ target' = shown'.target
  BY DEF Process
<1> QED
  BY <1>1, SelectShows

(***************************************************************************)
(* Action by action                                                        *)
(***************************************************************************)
LEMMA ReplayInit == Init => ReplayInv
<1> SUFFICES ASSUME Init PROVE ReplayInv
  OBVIOUS
<1>1. Flags
  BY DEF Init, Flags
<1>2. Values
  BY ReplayConstants DEF Init, Values, Scan, Held, Shown, NoDecision
<1>3. Listed
  BY EmptySeq DEF Init, Listed, Increasing
<1>4. Verdict /\ EngineIsReplay /\ WindowOpen
  BY DEF Init, Verdict, DoneShowsAll, EngineIsReplay, WindowOpen, NoDecision
<1> QED
  BY <1>1, <1>2, <1>3, <1>4 DEF ReplayInv

\* A stored scan is never written again.
LEMMA StoredStay ==
  ASSUME ReplayInv, NEW t \in Times, NEW scan \in Contents, ScanStored(t, scan)
  PROVE  /\ \A s \in StoredScans : s \in StoredIn(data') /\ data'[s] = data[s]
         /\ data' \in [Times -> Scan]
<1>1. data \in [Times -> Scan] /\ data' = [data EXCEPT ![t] = scan] /\ data[t] = NoCells
  BY DEF ReplayInv, Values, ScanStored
<1> QED
  BY <1>1 DEF StoredScans, StoredIn, Scan

LEMMA ScanStoredReplay ==
  ASSUME ReplayInv, NEW t \in Times, NEW scan \in Contents, ScanStored(t, scan)
  PROVE  ReplayInv'
<1>1. /\ over' = over /\ home' = home /\ session' = session /\ target' = target
      /\ times' = times /\ index' = index /\ pending' = pending /\ asking' = asking
      /\ shown' = shown /\ fails' = fails /\ done' = done /\ misled' = misled
      /\ skewed' = skewed /\ (overtaken' <=> overtaken \/ asking \/ done)
  BY DEF ScanStored, controlVars, ReplayInv, Flags
<1>2. Flags'
  <2>1. [Next]_vars
    BY DEF Next, Pipeline
  <2> QED
    BY <2>1, FlagsNext DEF ReplayInv
<1>3. \A s \in StoredScans : s \in StoredIn(data') /\ data'[s] = data[s]
  BY StoredStay
<1>4. Values' /\ WindowOpen'
  BY <1>1, StoredStay DEF ReplayInv, Values, WindowOpen
<1>5. Listed'
  BY <1>1, <1>3 DEF ReplayInv, Listed, StoredScans
<1>6. Verdict'
  BY <1>1 DEF ReplayInv, Verdict, DoneShowsAll
<1>7. EngineIsReplay'
  <2>1. index \in Nat /\ \A k \in 1..index : times[k] \in StoredScans
    BY LenProperties DEF ReplayInv, Listed
  <2>2. \A k \in 1..index : SnapshotAt(data, times[k]) = SnapshotAt(data', times[k])
    BY <1>3, <2>1, SnapshotIsTheScan DEF StoredScans
  <2>3. Fed(data, NoTarget, times, index) = Fed(data', NoTarget, times, index)
    BY <2>1, <2>2, FedSame
  <2> QED
    BY <1>1, <2>3 DEF ReplayInv, EngineIsReplay, Replayed
<1> QED
  BY <1>2, <1>4, <1>5, <1>6, <1>7 DEF ReplayInv

\* What a callback leaves alone.
LEMMA ReplayStill ==
  ASSUME ReplayInv,
         UNCHANGED <<data, session, target, times, index, shown, skewed>>
  PROVE  Listed' /\ EngineIsReplay' /\ WindowOpen'
BY DEF ReplayInv, Listed, EngineIsReplay, WindowOpen, StoredScans

\* The run ends or is resumed, or the toolbar shows another collection.
LEMMA AroundTheReplay ==
  ASSUME ReplayInv, RunEnds \/ RunBegins \/ CollectionChanged
  PROVE  ReplayInv'
<1>1. /\ data' = data /\ session' = session /\ target' = target /\ times' = times
      /\ index' = index /\ pending' = pending /\ asking' = asking /\ shown' = shown
      /\ fails' = fails /\ done' = done /\ skewed' = skewed /\ misled' = misled
  BY DEF RunEnds, RunBegins, CollectionChanged, controlVars, verdictVars, storeVars
<1>2. \/ over' /\ home' = home /\ overtaken' = overtaken
      \/ home' = home /\ (overtaken' <=> overtaken \/ done)
      \/ ~asking /\ over' = over /\ overtaken' = overtaken
  BY DEF RunEnds, RunBegins, CollectionChanged, verdictVars, storeVars, ReplayInv, Flags
<1>3. Flags'
  <2>1. [Next]_vars
    BY DEF Next, Pipeline, User
  <2> QED
    BY <2>1, FlagsNext DEF ReplayInv
<1>4. Values'
  BY <1>1 DEF ReplayInv, Values
<1>5. Listed' /\ EngineIsReplay' /\ WindowOpen'
  BY <1>1, ReplayStill
<1>6. Verdict'
  BY <1>1, <1>2 DEF ReplayInv, Verdict, DoneShowsAll, StoredScans
<1> QED
  BY <1>3, <1>4, <1>5, <1>6 DEF ReplayInv

\* A fresh engine over a list of stored scans.
LEMMA FreshSession ==
  ASSUME ReplayInv, target' = NoTarget, index' = 0, data' = data,
         times' = ScanTimes \/ times' = << >>
  PROVE  Listed' /\ EngineIsReplay'
<1>1. Fed(data', NoTarget, times', 0) = NoTarget
  BY FedNothing
<1>2. times' = << >> => Listed'
  BY EmptySeq DEF Listed, Increasing
<1>3. times' = ScanTimes => Listed'
  <2>1. Len(ScanTimes) \in Nat
    BY ScanTimesList, LenProperties
  <2> QED
    BY <2>1, ScanTimesList DEF Listed, StoredScans
<1> QED
  BY <1>1, <1>2, <1>3 DEF EngineIsReplay, Replayed

LEMMA PlayPressedReplay ==
  ASSUME ReplayInv, PlayPressed
  PROVE  ReplayInv'
<1>1. data' = data /\ shown' = shown /\ fails' = fails /\ asking' = asking /\ ~asking
      /\ ~done'
  BY DEF PlayPressed, NothingSaid, storeVars
<1>2. Flags'
  <2>1. [Next]_vars
    BY DEF Next, User
  <2> QED
    BY <2>1, FlagsNext DEF ReplayInv
<1>3. CASE UNCHANGED <<session, target, times, index, skewed>>
  <2>1. Listed' /\ EngineIsReplay' /\ WindowOpen'
    BY <1>1, <1>3, ReplayStill
  <2> QED
    BY <1>1, <1>2, <1>3, <2>1 DEF ReplayInv, Values, Verdict, DoneShowsAll
<1>4. CASE NewSession
  <2>1. target' = NoTarget /\ index' = 0 /\ times' = ScanTimes
    BY <1>4 DEF NewSession
  <2>2. Listed' /\ EngineIsReplay'
    BY <1>1, <2>1, FreshSession
  <2>3. Values' /\ WindowOpen'
    BY <1>1, <2>1 DEF ReplayInv, Values, Held, WindowOpen
  <2> QED
    BY <1>1, <1>2, <2>2, <2>3 DEF ReplayInv, Verdict, DoneShowsAll
<1> QED
  BY <1>3, <1>4 DEF PlayPressed

LEMMA ResetReplay ==
  ASSUME ReplayInv, Reset
  PROVE  ReplayInv'
<1>1. /\ data' = data /\ fails' = fails /\ asking' = asking /\ ~asking /\ ~done'
      /\ target' = NoTarget /\ times' = << >> /\ index' = 0 /\ shown' = NoDecision
  BY DEF Reset, NothingSaid, storeVars
<1>2. Flags'
  <2>1. [Next]_vars
    BY DEF Next, User
  <2> QED
    BY <2>1, FlagsNext DEF ReplayInv
<1>3. Listed' /\ EngineIsReplay'
  BY <1>1, FreshSession
<1>4. Values' /\ WindowOpen'
  BY <1>1, ReplayConstants DEF ReplayInv, Values, Held, Shown, NoDecision, WindowOpen
<1> QED
  BY <1>1, <1>2, <1>3, <1>4 DEF ReplayInv, Verdict, DoneShowsAll

LEMMA StepScanReplay ==
  ASSUME ReplayInv, StepScan
  PROVE  ReplayInv'
<1>1. /\ data' = data /\ over' = over /\ session' = session /\ times' = times
      /\ asking' = asking /\ done' = done /\ misled' = misled /\ skewed' = skewed
      /\ index < Len(times) /\ ~asking /\ ~done
  BY DEF StepScan, storeVars, verdictVars, ReplayInv, Verdict
<1>2. Flags'
  <2>1. [Next]_vars
    BY DEF Next, Replay
  <2> QED
    BY <2>1, FlagsNext DEF ReplayInv
<1>3. Verdict'
  BY <1>1 DEF Verdict, DoneShowsAll
<1>4. fails' \in 0..MaxFails
  BY FailsCounted DEF StepScan, ReplayInv, Values
<1>5. CASE Process(index + 1) /\ index' = index + 1
  <2>1. /\ times \in Seq(Times) /\ Len(times) \in Nat /\ index \in Nat
        /\ index + 1 \in 1..Len(times) /\ index' \in 0..Len(times)
    BY <1>1, <1>5, LenProperties DEF ReplayInv, Listed
  <2>2. times[index + 1] \in Times
    BY <2>1, ElementOfSeq
  <2>3. target' \in Held /\ shown' \in Shown /\ WindowOpen'
    BY <1>5, <2>2, ProcessDecides DEF ReplayInv, Values
  <2>4. Listed'
    BY <1>1, <2>1 DEF ReplayInv, Listed, StoredScans
  <2>5. EngineIsReplay'
    <3>1. target' = After(data, target, times, index + 1)
      BY <1>5 DEF Process, After
    <3>2. Fed(data, NoTarget, times, index + 1) =
             After(data, Fed(data, NoTarget, times, index), times, index + 1)
      BY <2>1, FedOneMore
    <3> QED
      BY <1>1, <1>5, <3>1, <3>2 DEF ReplayInv, EngineIsReplay, Replayed
  <2>6. Values'
    BY <1>1, <1>4, <2>3 DEF ReplayInv, Values
  <2> QED
    BY <1>2, <1>3, <2>3, <2>4, <2>5, <2>6 DEF ReplayInv
<1>6. CASE UNCHANGED <<target, shown, index>>
  <2>1. Listed' /\ EngineIsReplay' /\ WindowOpen'
    BY <1>1, <1>6, ReplayStill
  <2> QED
    BY <1>1, <1>2, <1>3, <1>4, <1>6, <2>1 DEF ReplayInv, Values
<1> QED
  BY <1>5, <1>6 DEF StepScan

LEMMA GoLiveTimesReplay ==
  ASSUME ReplayInv, GoLiveTimes
  PROVE  ReplayInv'
<1>1. /\ data' = data /\ over' = over /\ home' = home /\ session' = session
      /\ target' = target /\ index' = index /\ shown' = shown /\ done' = done
      /\ index >= Len(times) /\ pending /\ ~asking /\ ~done
  BY DEF GoLiveTimes, storeVars, ReplayInv, Verdict
<1>2. Flags'
  <2>1. [Next]_vars
    BY DEF Next, Replay
  <2> QED
    BY <2>1, FlagsNext DEF ReplayInv
<1>3. Values' /\ WindowOpen'
  <2>1. fails' \in 0..MaxFails
    BY FailsCounted DEF GoLiveTimes, ReplayInv, Values
  <2> QED
    BY <1>1, <2>1 DEF ReplayInv, Values, WindowOpen
<1>4. /\ times \in Seq(Times) /\ Len(times) \in Nat /\ index \in 0..Len(times)
      /\ Len(ScanTimes) = Cardinality(StoredScans) /\ Len(ScanTimes) \in Nat
      /\ Len(times) <= Cardinality(StoredScans)
  BY LenProperties, ScanTimesList, ListNotLonger DEF ReplayInv, Listed
<1>10. Grown(ListRead) => home /\ ListRead = ScanTimes
  BY <1>4, EmptySeq DEF Grown, ListRead
<1>5. CASE /\ Grown(ListRead) /\ times' = ListRead
           /\ skewed' = (skewed \/ \E k \in 1..index : times'[k] # times[k])
           /\ asking' = asking
  <2>1. Listed'
    <3>1. index' \in 0..Len(times')
      BY <1>1, <1>4, <1>5, <1>10 DEF Grown
    <3> QED
      BY <1>1, <1>5, <1>10, <3>1, ScanTimesList DEF Listed, StoredScans
  <2>2. EngineIsReplay'
    <3>1. CASE session /\ ~skewed /\ \A k \in 1..index : times'[k] = times[k]
      <4>1. target = Fed(data, NoTarget, times, index)
        BY <3>1 DEF ReplayInv, EngineIsReplay, Replayed
      <4>2. Fed(data, NoTarget, times, index) = Fed(data, NoTarget, times', index)
        <5>1. index \in Nat
          BY <1>4
        <5> QED
          BY <3>1, <5>1, FedSame
      <4> QED
        BY <1>1, <4>1, <4>2 DEF EngineIsReplay, Replayed
    <3>2. CASE ~(session /\ ~skewed /\ \A k \in 1..index : times'[k] = times[k])
      <4>1. ~session' \/ skewed'
        BY <1>1, <1>5, <3>2
      <4> QED
        BY <4>1 DEF EngineIsReplay
    <3> QED
      BY <3>1, <3>2
  <2>3. Verdict'
    BY <1>1, <1>5 DEF Verdict, DoneShowsAll
  <2> QED
    BY <1>2, <1>3, <2>1, <2>2, <2>3 DEF ReplayInv
<1>6. ASSUME UNCHANGED <<times, skewed>>, Verdict' PROVE ReplayInv'
  <2>1. Listed' /\ EngineIsReplay'
    BY <1>1, <1>6, ReplayStill
  <2> QED
    BY <1>2, <1>3, <1>6, <2>1 DEF ReplayInv
<1>7. CASE Pause /\ UNCHANGED <<times, skewed, asking, misled>>
  <2>1. Verdict'
    BY <1>1, <1>7 DEF Verdict, DoneShowsAll
  <2> QED
    BY <1>6, <1>7, <2>1
<1>8. CASE /\ pending' = FALSE /\ UNCHANGED <<times, skewed>>
           /\ (~Grown(ListRead) /\ misled' = ~home) \/ misled' = TRUE
  <2>1. home /\ ~Grown(ListRead) => index = Cardinality(StoredScans)
    BY <1>1, <1>4 DEF Grown, ListRead
  <2>2. Verdict'
    BY <1>1, <1>8, <2>1 DEF Verdict, DoneShowsAll, StoredScans
  <2> QED
    BY <1>6, <1>8, <2>2
<1> QED
  BY <1>5, <1>7, <1>8 DEF GoLiveTimes, controlVars

LEMMA GoLiveStatusReplay ==
  ASSUME ReplayInv, GoLiveStatus
  PROVE  ReplayInv'
<1>1. /\ data' = data /\ over' = over /\ session' = session /\ target' = target
      /\ times' = times /\ index' = index /\ shown' = shown /\ skewed' = skewed
      /\ asking /\ ~asking' /\ ~done
  BY DEF GoLiveStatus, storeVars, ReplayInv, Verdict
<1>2. Flags'
  <2>1. [Next]_vars
    BY DEF Next, Replay
  <2> QED
    BY <2>1, FlagsNext DEF ReplayInv
<1>3. Values'
  <2>1. fails' \in 0..MaxFails
    BY FailsCounted DEF GoLiveStatus, ReplayInv, Values
  <2> QED
    BY <1>1, <2>1 DEF ReplayInv, Values
<1>4. Listed' /\ EngineIsReplay' /\ WindowOpen'
  BY <1>1, ReplayStill
<1>5. Verdict'
  <2>1. \/ ~done'
        \/ (~home \/ over) /\ ~pending' /\ misled' = misled /\ overtaken' = overtaken
        \/ ~pending' /\ misled'
    BY <1>1 DEF GoLiveStatus, NothingSaid, Pause
  <2> QED
    BY <1>1, <2>1 DEF ReplayInv, Verdict, DoneShowsAll, StoredScans
<1> QED
  BY <1>2, <1>3, <1>4, <1>5 DEF ReplayInv

LEMMA WithinTheList ==
  ASSUME NEW a \in Int, NEW b \in Nat
  PROVE  Max({0, Min({a, b})}) \in 0..b
<1>1. Min({a, b}) \in {a, b} /\ Min({a, b}) <= b
  <2>1. \E x \in {a, b} : \A y \in {a, b} : x =< y
    <3>1. a <= b \/ b <= a
      OBVIOUS
    <3> QED
      BY <3>1
  <2> QED
    BY <2>1 DEF Min
<1> DEFINE m == Min({a, b})
<1>2. m \in Int /\ m <= b
  BY <1>1
<1> HIDE DEF m
<1>3. Max({0, m}) \in {0, m} /\ Max({0, m}) >= 0
  <2>1. \E x \in {0, m} : \A y \in {0, m} : x >= y
    <3>1. 0 >= m \/ m >= 0
      BY <1>2
    <3> QED
      BY <1>2, <3>1
  <2> QED
    BY <2>1 DEF Max
<1> QED
  BY <1>2, <1>3 DEF m

LEMMA StepManualReplay ==
  ASSUME ReplayInv, NEW d \in {-1, 1}, StepManual(d)
  PROVE  ReplayInv'
<1> DEFINE ts == IF session THEN times ELSE ScanTimes
           i == IF session THEN index ELSE 0
           n == Max({0, Min({i + d, Len(ts)})})
<1>1. /\ data' = data /\ over' = over /\ asking' = asking /\ ~asking /\ ~done' /\ session'
      /\ Seek(ts, n) /\ times' = ts
  BY DEF StepManual, NothingSaid, storeVars
<1>2. Flags'
  <2>1. [Next]_vars
    BY DEF Next, User
  <2> QED
    BY <2>1, FlagsNext DEF ReplayInv
<1>3. /\ ts \in Seq(Times) /\ Len(ts) \in Nat /\ Increasing(ts, Len(ts))
      /\ \A k \in 1..Len(ts) : ts[k] \in StoredScans
      /\ i \in Nat
  <2>1. CASE session
    BY <2>1, LenProperties DEF ReplayInv, Listed
  <2>2. CASE ~session
    BY <2>2, ScanTimesList, LenProperties
  <2> QED
    BY <2>1, <2>2
<1>4. n \in 0..Len(ts)
  <2>1. i + d \in Int
    BY <1>3
  <2> HIDE DEF i, ts
  <2> QED
    BY <1>3, <2>1, WithinTheList
<1> HIDE DEF ts, i, n
<1>5. \A k \in 1..Len(ts) : ts[k] \in Times
  BY <1>3, ElementOfSeq
<1>6. Listed'
  BY <1>1, <1>3, <1>4 DEF Listed, Seek, StoredScans
<1>7. fails' \in 0..MaxFails
  BY <1>1, FailsCounted DEF Seek, ReplayInv, Values
<1>8. NoDecision \in Shown /\ NoDecision.target = NoTarget
  BY ReplayConstants DEF NoDecision, Shown, Held
<1>9. target' \in Held /\ shown' \in Shown /\ WindowOpen' /\ EngineIsReplay'
  <2>1. CASE /\ target' = Replayed(data, ts, n)
             /\ shown' = IF n = 0 THEN NoDecision
                         ELSE Select(Replayed(data, ts, n - 1),
                                     SnapshotAt(data, ts[n]), ts[n])
    <3>1. target' \in Held
      <4>1. n \in Nat /\ \A k \in 1..n : ts[k] \in Times
        BY <1>3, <1>4, <1>5
      <4> QED
        BY <2>1, <4>1, FedHolds DEF Replayed
    <3>2. shown' \in Shown /\ WindowOpen'
      <4>1. CASE n = 0
        BY <1>8, <2>1, <4>1 DEF WindowOpen
      <4>2. CASE n # 0
        <5>1. n - 1 \in Nat /\ ts[n] \in Times /\ \A k \in 1..(n - 1) : ts[k] \in Times
          BY <1>3, <1>4, <1>5, <4>2
        <5>2. Replayed(data, ts, n - 1) \in Held
          BY <5>1, FedHolds DEF Replayed
        <5>3. shown' = Select(Replayed(data, ts, n - 1), SnapshotAt(data, ts[n]), ts[n])
          BY <2>1, <4>2
        <5> QED
          BY <5>1, <5>2, <5>3, SelectShows
      <4> QED
        BY <4>1, <4>2
    <3>3. EngineIsReplay'
      BY <1>1, <2>1 DEF EngineIsReplay, Seek
    <3> QED
      BY <3>1, <3>2, <3>3
  <2>2. ASSUME NEW k \in 0..(n - 1), target' = Replayed(data, ts, k), skewed' = TRUE,
               shown' = NoDecision
        PROVE  target' \in Held /\ shown' \in Shown /\ WindowOpen' /\ EngineIsReplay'
    <3>1. k \in Nat /\ \A j \in 1..k : ts[j] \in Times
      BY <1>3, <1>4, <1>5
    <3>2. target' \in Held
      BY <2>2, <3>1, FedHolds DEF Replayed
    <3> QED
      BY <1>8, <2>2, <3>2 DEF WindowOpen, EngineIsReplay
  <2> QED
    BY <1>1, <2>1, <2>2 DEF Seek
<1>10. Verdict'
  BY <1>1 DEF Verdict, DoneShowsAll
<1> QED
  BY <1>1, <1>2, <1>6, <1>7, <1>9, <1>10 DEF ReplayInv, Values

LEMMA ReplayNext == ReplayInv /\ [Next]_vars => ReplayInv'
<1> SUFFICES ASSUME ReplayInv, [Next]_vars PROVE ReplayInv'
  OBVIOUS
<1>1. CASE Pipeline
  BY <1>1, AroundTheReplay, ScanStoredReplay DEF Pipeline
<1>2. CASE Replay
  BY <1>2, StepScanReplay, GoLiveTimesReplay, GoLiveStatusReplay DEF Replay
<1>3. CASE User
  BY <1>3, PlayPressedReplay, ResetReplay, AroundTheReplay, StepManualReplay DEF User
<1>4. CASE UNCHANGED vars
  <2>1. Flags'
    BY FlagsNext DEF ReplayInv
  <2>2. Listed' /\ EngineIsReplay' /\ WindowOpen'
    BY <1>4, ReplayStill DEF vars, storeVars
  <2>3. Values' /\ Verdict'
    BY <1>4 DEF vars, storeVars, controlVars, verdictVars, ReplayInv, Values, Verdict,
                DoneShowsAll, StoredScans
  <2> QED
    BY <2>1, <2>2, <2>3 DEF ReplayInv
<1> QED
  BY <1>1, <1>2, <1>3, <1>4 DEF Next

(* The inductive invariant of the tab: types, a list of stored scans, what a *)
(* verdict rests on, and the three properties.                               *)
(* (_tse_view.py _step, _go_live, _seek)                                     *)
THEOREM ReplayInvariant == Spec => []ReplayInv
<1>1. Init => ReplayInv
  BY ReplayInit
<1>2. ReplayInv /\ [Next]_vars => ReplayInv'
  BY ReplayNext
<1> QED
  BY <1>1, <1>2, PTL DEF Spec

(* Every variable of the tab keeps its type.                                 *)
THEOREM ReplayTypes == Spec => []TypeOK
<1>1. ReplayInv => TypeOK
  BY DEF ReplayInv, Flags, Values, Listed, Scan, Held, Shown, TypeOK
<1> QED
  BY <1>1, ReplayInvariant, PTL

(* What the engine holds is what a fresh engine would hold that was fed the  *)
(* scans shown so far, for any cells, scores, margins and orders of arrival: *)
(* playing, stepping, seeking and following live agree with a movie.         *)
(* (_tse_view.py _step, _seek, _go_live, movie_source; engine.py select)     *)
THEOREM EngineIsReplayHolds == Spec => []EngineIsReplay
<1>1. ReplayInv => EngineIsReplay
  BY DEF ReplayInv
<1> QED
  BY <1>1, ReplayInvariant, PTL

(* A decision for a target opens an observation window that is not empty.    *)
(* (engine.py _selection, rules.py should_stop)                              *)
THEOREM WindowOpenHolds == Spec => []WindowOpen
<1>1. ReplayInv => WindowOpen
  BY DEF ReplayInv
<1> QED
  BY <1>1, ReplayInvariant, PTL

(* A replay that ends by itself with "Done" has shown every stored scan of   *)
(* its run, and no run of its collection runs, unless a read it was decided  *)
(* on failed or was of another collection, or the store moved on since: a    *)
(* scan was stored after the times were read, or a run was resumed.          *)
(* (_tse_view.py _go_live)                                                   *)
THEOREM DoneShowsAllHolds == Spec => []DoneShowsAll
<1>1. ReplayInv => DoneShowsAll
  BY DEF ReplayInv, Verdict
<1> QED
  BY <1>1, ReplayInvariant, PTL
=============================================================================
