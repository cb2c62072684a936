----------------------------- MODULE EppProofs ------------------------------
(***************************************************************************)
(* TLAPS proofs about EppPath, for any number of addresses, any thresholds *)
(* and any configurations of the breaker.                                  *)
(*                                                                         *)
(* The breaker judges a ring buffer, its properties speak of the latest    *)
(* calls: RingIsRecent says where in the ring each of them is, so that the *)
(* errors in both are the same number.  A failover is earned because only  *)
(* the active address counts failures (FailsCounted), and comes to an end  *)
(* no sooner than it should because the time left of a cooldown and the    *)
(* time since the failover always make up a whole one (CooldownLasts).     *)
(***************************************************************************)
EXTENDS EppPath, Sequences, FiniteSetTheorems, WellFoundedInduction, TLAPS

\* Where in a ring of size w, with n results and the next index i, the k-th
\* of the latest n results is.
Place(w, n, i, k) == IF i - n + k - 1 < 0 THEN i - n + k - 1 + w ELSE i - n + k - 1

\* The ring holds the results of rec.
Mirrors(w, n, i, ring, rec) ==
    /\ w \in Nat \ {0} /\ n \in 0 .. w /\ i \in 0 .. w - 1
    /\ ring \in [0 .. w - 1 -> BOOLEAN]
    /\ rec \in Seq(BOOLEAN) /\ Len(rec) = n
    /\ n < w => i = n
    /\ \A k \in 1 .. n : rec[k] = ring[Place(w, n, i, k)]

RingIsRecent == Mirrors(breakerConf.windowSize, count, idx, results, recent)

\* Only the active address counts failures, as many as it has had in a row.
FailsCounted ==
    \A a \in Addrs : consecFail[a] <= failRun[a] /\ (a # active => consecFail[a] = 0)

\* The cooldown of an address lasts as long as it should.
CooldownLasts == \A a \in Addrs : cool[a] + sinceFailover[a] >= Cooldown

\* The invariant: of the breaker, of the runtime and of the path.
BInv == BR!TypeOK /\ RingIsRecent /\ TripsInTime
RInv == TypeOK /\ FailsCounted /\ CooldownLasts
PathInv == BInv /\ RInv /\ called \in BOOLEAN

-----------------------------------------------------------------------------
(* Numbers.                                                                *)

\* A set of numbers has a least one.
LEMMA Least ==
    ASSUME NEW S \in SUBSET Nat, S # {}
    PROVE  \E x \in S : \A y \in S : x <= y
<1> DEFINE R == {ss \in Nat \X Nat : ss[1] < ss[2]}
<1>1. IsWellFoundedOn(R, Nat)
  BY NatLessThanWellFounded DEF OpToRel
<1>2. PICK x \in S : \A y \in S : ~(<<y, x>> \in R)
  <2> HIDE DEF R
  <2> QED
    BY <1>1, WFMin
<1>3. \A y \in S : x <= y
  <2> TAKE y \in S
  <2>1. x \in Nat /\ y \in Nat /\ ~(<<y, x>> \in R)
    BY <1>2
  <2> QED
    BY <2>1
<1> QED
  BY <1>3

\* Min is one of its set.
LEMMA MinIn ==
    ASSUME NEW S \in SUBSET Nat, S # {}
    PROVE  Min(S) \in S /\ \A y \in S : Min(S) <= y
  BY Least DEF Min

\* Nearest is one of its set.
LEMMA NearestIn ==
    ASSUME NEW S \in SUBSET Addrs, S # {}, active \in Addrs
    PROVE  Nearest(S) \in S
<1> DEFINE Dist(a) == (a - active + N) % N
           D == {Dist(a) : a \in S}
<1>1. \A a \in S : Dist(a) \in Nat
  BY EppRuntimeAssumption DEF Addrs
<1>2. D \in SUBSET Nat /\ D # {}
  BY <1>1
<1>3. PICK x \in D : \A y \in D : x <= y
  <2> HIDE DEF D
  <2> QED
    BY <1>2, Least
<1>4. PICK a \in S : \A b \in S : Dist(a) <= Dist(b)
  BY <1>3
<1> QED
  BY <1>4 DEF Nearest

\* The next index of a ring.
LEMMA NextIndex ==
    ASSUME NEW w \in Nat \ {0}, NEW i \in 0 .. w - 1
    PROVE  (i + 1) % w = IF i + 1 = w THEN 0 ELSE i + 1
  OBVIOUS

-----------------------------------------------------------------------------
(* The ring.                                                               *)

\* The ring and the latest calls have the same number of errors.
LEMMA SameErrors ==
    ASSUME NEW w, NEW n, NEW i, NEW ring, NEW rec, Mirrors(w, n, i, ring, rec)
    PROVE  Cardinality({k \in DOMAIN rec : ~rec[k]})
             = Cardinality({j \in 0 .. n - 1 : ~ring[j]})
<1> DEFINE S == {k \in DOMAIN rec : ~rec[k]}
           T == {j \in 0 .. n - 1 : ~ring[j]}
           f == [k \in S |-> Place(w, n, i, k)]
<1>1. /\ w \in Nat \ {0} /\ n \in 0 .. w /\ i \in 0 .. w - 1 /\ (n < w => i = n)
      /\ DOMAIN rec = 1 .. n
      /\ \A k \in 1 .. n : rec[k] = ring[Place(w, n, i, k)]
  BY DEF Mirrors
<1>2. IsFiniteSet(S)
  <2>1. IsFiniteSet(1 .. n) /\ S \subseteq 1 .. n
    BY <1>1, FS_Interval
  <2> QED
    BY <2>1, FS_Subset
<1>3. \A k \in 1 .. n : Place(w, n, i, k) \in 0 .. n - 1
  BY <1>1 DEF Place
<1>4. \A k, m \in 1 .. n : Place(w, n, i, k) = Place(w, n, i, m) => k = m
  BY <1>1 DEF Place
<1>5. \A j \in 0 .. n - 1 : \E k \in 1 .. n : Place(w, n, i, k) = j
  <2> TAKE j \in 0 .. n - 1
  <2> DEFINE k == IF j < i THEN j - i + n + 1 ELSE j - i + n + 1 - w
  <2>1. k \in 1 .. n /\ Place(w, n, i, k) = j
    BY <1>1 DEF Place
  <2> QED
    BY <2>1
<1>6. f \in [S -> T]
  BY <1>1, <1>3
<1>7. \A k, m \in S : f[k] = f[m] => k = m
  BY <1>1, <1>4
<1>8. \A j \in T : \E k \in S : f[k] = j
  BY <1>1, <1>5
<1>9. f \in Bijection(S, T)
  BY <1>6, <1>7, <1>8 DEF Bijection, Injection, Surjection, IsInjective
<1>10. ExistsBijection(S, T)
  BY <1>9 DEF ExistsBijection
<1> HIDE DEF S, T, f
<1>11. Cardinality(T) = Cardinality(S)
  BY <1>2, <1>10, FS_Bijection
<1> QED
  BY <1>11 DEF S, T

\* The window of the latest results, with one more.
Latest(w, rec, ok) ==
    LET r == Append(rec, ok) IN IF Len(r) > w THEN Tail(r) ELSE r

\* record keeps the ring and the latest calls in step.
LEMMA RingStep ==
    ASSUME NEW w, NEW n, NEW i, NEW ring, NEW rec, Mirrors(w, n, i, ring, rec),
           NEW ok \in BOOLEAN
    PROVE  Mirrors(w, IF n < w THEN n + 1 ELSE n, (i + 1) % w,
                   [ring EXCEPT ![i] = ok], Latest(w, rec, ok))
<1>1. /\ w \in Nat \ {0} /\ n \in 0 .. w /\ i \in 0 .. w - 1 /\ (n < w => i = n)
      /\ ring \in [0 .. w - 1 -> BOOLEAN] /\ rec \in Seq(BOOLEAN) /\ Len(rec) = n
      /\ \A k \in 1 .. n : rec[k] = ring[Place(w, n, i, k)]
  BY DEF Mirrors
<1>2. (i + 1) % w = IF i + 1 = w THEN 0 ELSE i + 1
  BY <1>1, NextIndex
<1>3. [ring EXCEPT ![i] = ok] \in [0 .. w - 1 -> BOOLEAN]
  BY <1>1
<1>4. CASE n < w
  <2>1. /\ Latest(w, rec, ok) = Append(rec, ok)
        /\ Append(rec, ok) \in Seq(BOOLEAN) /\ Len(Append(rec, ok)) = n + 1
    BY <1>1, <1>4 DEF Latest
  <2>2. \A k \in 1 .. n + 1 : Append(rec, ok)[k] = IF k = n + 1 THEN ok ELSE rec[k]
    BY <1>1
  <2>3. \A k \in 1 .. n + 1 : Place(w, n + 1, (i + 1) % w, k) = k - 1
    BY <1>1, <1>2, <1>4 DEF Place
  <2>4. \A k \in 1 .. n : Place(w, n, i, k) = k - 1
    BY <1>1, <1>4 DEF Place
  <2>5. \A k \in 1 .. n + 1 : Append(rec, ok)[k] = [ring EXCEPT ![i] = ok][k - 1]
    <3> TAKE k \in 1 .. n + 1
    <3>1. CASE k = n + 1
      BY <1>1, <1>4, <2>2, <3>1
    <3>2. CASE k # n + 1
      <4>1. k \in 1 .. n /\ k - 1 \in 0 .. w - 1 /\ k - 1 # i
        BY <1>1, <1>4, <3>2
      <4>2. Append(rec, ok)[k] = ring[k - 1]
        <5>1. Append(rec, ok)[k] = rec[k]
          BY <2>2, <3>2
        <5>2. rec[k] = ring[Place(w, n, i, k)] /\ Place(w, n, i, k) = k - 1
          BY <1>1, <2>4, <4>1
        <5> QED
          BY <5>1, <5>2
      <4> QED
        BY <1>1, <4>1, <4>2
    <3> QED
      BY <3>1, <3>2
  <2>6. n + 1 < w => (i + 1) % w = n + 1
    BY <1>1, <1>2, <1>4
  <2>7. (i + 1) % w \in 0 .. w - 1 /\ n + 1 \in 0 .. w
    BY <1>1, <1>2, <1>4
  <2> QED
    BY <1>1, <1>3, <1>4, <2>1, <2>3, <2>5, <2>6, <2>7 DEF Mirrors
<1>5. CASE n = w
  <2> DEFINE r == Append(rec, ok)
  <2>1. r \in Seq(BOOLEAN) /\ Len(r) = w + 1
    BY <1>1, <1>5
  <2>2. \A k \in 1 .. w + 1 : r[k] = IF k = w + 1 THEN ok ELSE rec[k]
    BY <1>1, <1>5
  <2> HIDE DEF r
  <2>3. /\ Latest(w, rec, ok) = Tail(r) /\ Tail(r) \in Seq(BOOLEAN) /\ Len(Tail(r)) = w
        /\ \A k \in 1 .. w : Tail(r)[k] = r[k + 1]
    BY <1>1, <2>1 DEF Latest, r
  <2>4. \A k \in 1 .. w : Tail(r)[k] = IF k = w THEN ok ELSE ring[Place(w, w, i, k + 1)]
    BY <1>1, <1>5, <2>2, <2>3
  <2>5. \A k \in 1 .. w - 1 : /\ Place(w, w, (i + 1) % w, k) = Place(w, w, i, k + 1)
                              /\ Place(w, w, i, k + 1) # i
                              /\ Place(w, w, i, k + 1) \in 0 .. w - 1
    <3> TAKE k \in 1 .. w - 1
    <3>1. Place(w, w, i, k + 1) = IF i + k < w THEN i + k ELSE i + k - w
      BY <1>1 DEF Place
    <3>2. Place(w, w, (i + 1) % w, k) = IF i + k < w THEN i + k ELSE i + k - w
      <4>1. CASE i + 1 = w
        BY <1>1, <1>2, <4>1 DEF Place
      <4>2. CASE i + 1 # w
        <5>1. (i + 1) % w = i + 1
          BY <1>2, <4>2
        <5>2. Place(w, w, i + 1, k) = IF i + k < w THEN i + k ELSE i + k - w
          BY <1>1 DEF Place
        <5> QED
          BY <5>1, <5>2
      <4> QED
        BY <4>1, <4>2
    <3> QED
      BY <1>1, <3>1, <3>2
  <2>6. Place(w, w, (i + 1) % w, w) = i
    BY <1>1, <1>2 DEF Place
  <2>7. \A k \in 1 .. w : Tail(r)[k] = [ring EXCEPT ![i] = ok][Place(w, w, (i + 1) % w, k)]
    <3> TAKE k \in 1 .. w
    <3>1. CASE k = w
      BY <1>1, <2>4, <2>6, <3>1
    <3>2. CASE k # w
      <4>1. k \in 1 .. w - 1
        BY <1>1, <3>2
      <4> QED
        BY <1>1, <2>4, <2>5, <4>1, <3>2
    <3> QED
      BY <3>1, <3>2
  <2>8. (i + 1) % w \in 0 .. w - 1
    BY <1>1, <1>2
  <2> QED
    BY <1>1, <1>3, <1>5, <2>3, <2>7, <2>8 DEF Mirrors
<1> QED
  BY <1>1, <1>4, <1>5

\* An empty window.
LEMMA EmptyRing ==
    ASSUME NEW c \in BreakerConfs
    PROVE  Mirrors(c.windowSize, 0, 0, BR!EmptyRing(c), <<>>)
<1>1. c.windowSize \in Nat \ {0}
  BY EppPathAssumption
<1>2. BR!EmptyRing(c) \in [0 .. c.windowSize - 1 -> BOOLEAN]
  BY DEF BR!EmptyRing
<1>3. <<>> \in Seq(BOOLEAN) /\ Len(<<>>) = 0
  OBVIOUS
<1> QED
  BY <1>1, <1>2, <1>3 DEF Mirrors

-----------------------------------------------------------------------------
(* The breaker.                                                            *)

\* The instance counts as this module does.
LEMMA SameCount == ASSUME NEW S PROVE BR!Cardinality(S) = Cardinality(S)
  BY DEF Cardinality, BR!Cardinality

\* TooManyErrors, in terms of the ring.
LEMMA RingErrors ==
    /\ RingIsRecent => BR!RecentErrors = BR!Errors(results, count)
    /\ RingIsRecent' => BR!RecentErrors' = BR!Errors(results', count')
<1>1. ASSUME RingIsRecent PROVE BR!RecentErrors = BR!Errors(results, count)
  <2>1. Mirrors(breakerConf.windowSize, count, idx, results, recent)
    BY <1>1 DEF RingIsRecent
  <2>2. Cardinality({k \in DOMAIN recent : ~recent[k]})
          = Cardinality({j \in 0 .. count - 1 : ~results[j]})
    BY <2>1, SameErrors
  <2>3. BR!RecentErrors = Cardinality({k \in DOMAIN recent : ~recent[k]})
    BY SameCount DEF BR!RecentErrors
  <2>4. BR!Errors(results, count) = Cardinality({j \in 0 .. count - 1 : ~results[j]})
    BY SameCount DEF BR!Errors
  <2> QED
    BY <2>2, <2>3, <2>4, Zenon
<1>2. ASSUME RingIsRecent' PROVE BR!RecentErrors' = BR!Errors(results', count')
  <2>1. Mirrors(breakerConf'.windowSize, count', idx', results', recent')
    BY <1>2 DEF RingIsRecent
  <2>2. Cardinality({k \in DOMAIN recent' : ~recent'[k]})
          = Cardinality({j \in 0 .. count' - 1 : ~results'[j]})
    BY <2>1, SameErrors
  <2>3. BR!RecentErrors' = Cardinality({k \in DOMAIN recent' : ~recent'[k]})
    BY SameCount DEF BR!RecentErrors
  <2>4. BR!Errors(results', count') = Cardinality({j \in 0 .. count' - 1 : ~results'[j]})
    BY SameCount DEF BR!Errors
  <2> QED
    BY <2>2, <2>3, <2>4, Zenon
<1> QED
  BY <1>1, <1>2

\* An empty window has too few results.
LEMMA NotYet ==
    ASSUME breakerConf' \in BreakerConfs, recent' = <<>>
    PROVE  ~BR!TooManyErrors'
<1>1. breakerConf'.minVolume \in Nat \ {0}
  BY EppPathAssumption
<1>2. Len(recent') = 0
  OBVIOUS
<1> QED
  BY <1>1, <1>2 DEF BR!TooManyErrors

\* A step that does not touch the window and does not close the breaker.
LEMMA WindowKept ==
    ASSUME BInv, UNCHANGED <<breakerConf, results, count, idx, recent>>,
           state' = "closed" => state = "closed",
           state' \in {"closed", "open", "halfOpen"},
           present' \in BOOLEAN, cooled' \in BOOLEAN, inflight' \in BOOLEAN,
           req' \in {"none", "calling", "callingOld"}
    PROVE  BInv'
<1>1. BR!TypeOK'
  BY DEF BInv, BR!TypeOK
<1>2. RingIsRecent'
  BY DEF BInv, RingIsRecent
<1>3. TripsInTime'
  BY DEF BInv, TripsInTime, BR!TripsInTime, BR!TooManyErrors, BR!RecentErrors
<1> QED
  BY <1>1, <1>2, <1>3 DEF BInv

\* A step after which the window is empty.
LEMMA WindowEmptied ==
    ASSUME NEW c \in BreakerConfs, breakerConf' = c, results' = BR!EmptyRing(c),
           count' = 0, idx' = 0, recent' = <<>>,
           state' \in {"closed", "open", "halfOpen"},
           present' \in BOOLEAN, cooled' \in BOOLEAN, inflight' \in BOOLEAN,
           req' \in {"none", "calling", "callingOld"}
    PROVE  BInv'
<1>1. RingIsRecent'
  BY EmptyRing DEF RingIsRecent
<1>2. BR!TypeOK'
  BY <1>1 DEF BR!TypeOK, RingIsRecent, Mirrors
<1>3. TripsInTime'
  BY NotYet DEF TripsInTime, BR!TripsInTime
<1> QED
  BY <1>1, <1>2, <1>3 DEF BInv

\* record in the closed state opens the breaker exactly when the latest calls
\* have too many errors.
LEMMA RecordedClosed ==
    ASSUME BInv, UNCHANGED <<breakerConf, present>>, req' = "none",
           NEW ok \in BOOLEAN, BR!RecordClosed(ok)
    PROVE  BInv' /\ (state' # "closed" => BR!TooManyErrors')
<1> DEFINE w == breakerConf.windowSize
           n == IF count < w THEN count + 1 ELSE count
           ring == [results EXCEPT ![idx] = ok]
<1>1. /\ results' = ring /\ count' = n /\ idx' = (idx + 1) % w
      /\ state' = IF BR!Trips(ring, n) THEN "open" ELSE "closed"
      /\ cooled' = FALSE /\ inflight' = inflight /\ recent' = Latest(w, recent, ok)
  BY DEF BR!RecordClosed, Latest
<1>2. RingIsRecent'
  <2>1. Mirrors(w, n, (idx + 1) % w, ring, Latest(w, recent, ok))
    BY RingStep DEF BInv, RingIsRecent
  <2>2. w = breakerConf'.windowSize
    OBVIOUS
  <2> HIDE DEF w, n, ring
  <2> QED
    BY <1>1, <2>1, <2>2 DEF RingIsRecent
<1>3. BR!TypeOK'
  <2>1. Mirrors(breakerConf'.windowSize, count', idx', results', recent')
    BY <1>2 DEF RingIsRecent
  <2>2. /\ present' \in BOOLEAN /\ breakerConf' \in BreakerConfs /\ inflight' \in BOOLEAN
    BY <1>1 DEF BInv, BR!TypeOK
  <2> HIDE DEF n, ring
  <2> QED
    BY <1>1, <2>1, <2>2 DEF BR!TypeOK, Mirrors
<1>4. BR!TooManyErrors' <=> BR!Trips(ring, n)
  <2>1. BR!RecentErrors' = BR!Errors(ring, n) /\ Len(recent') = n
    BY <1>1, <1>2, RingErrors DEF RingIsRecent, Mirrors
  <2> HIDE DEF w, n, ring
  <2> QED
    BY <2>1 DEF BR!TooManyErrors, BR!Trips
<1> HIDE DEF w, n, ring
<1>5. TripsInTime'
  BY <1>1, <1>4 DEF TripsInTime, BR!TripsInTime
<1> QED
  BY <1>1, <1>2, <1>3, <1>4, <1>5 DEF BInv

\* Every step keeps the invariant of the breaker, and it opens for a reason.
LEMMA BreakerStep ==
    ASSUME BInv, [PathNext]_pathVars
    PROVE  BInv' /\ (state = "closed" /\ state' # "closed" => BR!TooManyErrors')
<1> USE DEF BInv
<1>1. ASSUME UNCHANGED <<breakerVars, req>> PROVE BInv' /\ state' = state
  BY <1>1, WindowKept DEF breakerVars, BR!TypeOK
<1>2. CASE Allow
  <2>1. /\ UNCHANGED <<present, breakerConf, results, count, idx, cooled, recent>>
        /\ state = "closed" <=> state' = "closed"
        /\ state' \in {"closed", "open", "halfOpen"}
        /\ inflight' \in BOOLEAN /\ req' = "calling"
    BY <1>2 DEF Allow, BR!allow, BR!window, BR!TypeOK
  <2> QED
    BY <2>1, WindowKept DEF BR!TypeOK
<1>3. CASE Record
  <2>1. BR!record
    BY <1>3 DEF Record
  <2>2. CASE UNCHANGED <<state, BR!window, cooled, inflight, recent>>
    <3>1. UNCHANGED <<present, breakerConf, results, count, idx, state, cooled, inflight, recent>>
      BY <2>1, <2>2 DEF BR!record, BR!window
    <3>2. req' = "none"
      BY <2>1 DEF BR!record
    <3> QED
      BY <3>1, <3>2, WindowKept DEF BR!TypeOK
  <2>3. CASE BR!RecordClosed(answer = "decision")
    BY <2>1, <2>3, RecordedClosed DEF BR!record
  <2>4. CASE state = "halfOpen" /\ BR!RecordHalfOpen(answer = "decision")
    <3>1. /\ UNCHANGED <<present, breakerConf, results>> /\ req' = "none"
          /\ inflight' = FALSE /\ cooled' = FALSE
      BY <2>1, <2>4 DEF BR!record, BR!RecordHalfOpen
    <3>2. CASE answer = "decision"
      <4>1. state' = "closed" /\ count' = 0 /\ idx' = 0 /\ recent' = <<>>
        BY <2>4, <3>2 DEF BR!RecordHalfOpen, BR!Close
      <4>2. RingIsRecent'
        <5>1. /\ breakerConf'.windowSize \in Nat \ {0}
              /\ results' \in [0 .. breakerConf'.windowSize - 1 -> BOOLEAN]
          BY <3>1 DEF RingIsRecent, Mirrors
        <5>2. <<>> \in Seq(BOOLEAN) /\ Len(<<>>) = 0
          OBVIOUS
        <5> QED
          BY <4>1, <5>1, <5>2 DEF RingIsRecent, Mirrors
      <4>3. BR!TypeOK'
        BY <3>1, <4>1, <4>2 DEF BR!TypeOK, RingIsRecent, Mirrors
      <4>4. breakerConf' \in BreakerConfs
        BY <3>1 DEF BR!TypeOK
      <4> QED
        BY <2>4, <4>1, <4>2, <4>3, <4>4, NotYet DEF TripsInTime, BR!TripsInTime
    <3>3. CASE answer # "decision"
      <4>1. state' = "open" /\ UNCHANGED <<count, idx, recent>>
        BY <2>4, <3>3 DEF BR!RecordHalfOpen
      <4> QED
        BY <2>4, <3>1, <4>1, WindowKept DEF BR!TypeOK
    <3> QED
      BY <3>2, <3>3
  <2> QED
    BY <2>1, <2>2, <2>3, <2>4 DEF BR!record
<1>4. CASE InitBreaker \/ InitEPP
  <2>1. BR!initEPP
    BY <1>4 DEF InitBreaker, InitEPP
  <2>2. PICK c \in BreakerConfs : BR!initEPP!(c)
    BY <2>1 DEF BR!initEPP
  <2>3. /\ breakerConf' = c /\ results' = BR!EmptyRing(c) /\ count' = 0 /\ idx' = 0
        /\ recent' = <<>> /\ present' = TRUE /\ req' = req
        /\ state' = "closed" \/ state' = state
        /\ cooled' \in BOOLEAN /\ inflight' \in BOOLEAN
    BY <2>2 DEF BR!Emptied, BR!Fresh, BR!TypeOK
  <2>4. state = "closed" => state' = "closed"
    BY <2>3
  <2> QED
    BY <2>3, <2>4, WindowEmptied DEF BR!TypeOK
<1>5. CASE CloseEPP
  <2>1. /\ breakerConf' = breakerConf /\ results' = BR!EmptyRing(breakerConf)
        /\ count' = 0 /\ idx' = 0 /\ recent' = <<>> /\ present' = FALSE
        /\ state' = "closed" /\ cooled' = FALSE /\ inflight' = FALSE
        /\ req' \in {"none", "calling", "callingOld"}
    BY <1>5 DEF CloseEPP, BR!closeEPP, BR!Fresh, BR!TypeOK
  <2> QED
    BY <2>1, WindowEmptied DEF BR!TypeOK
<1>6. CASE OpenTimeout
  <2>1. /\ UNCHANGED <<present, breakerConf, results, count, idx, state, inflight, recent, req>>
        /\ cooled' = TRUE
    BY <1>6 DEF OpenTimeout, BR!Timeout, BR!window
  <2> QED
    BY <2>1, WindowKept DEF BR!TypeOK
<1>7. CASE Call \/ InitRuntime \/ HealthRound \/ Serving \/ UNCHANGED pathVars
  BY <1>1, <1>7 DEF Call, InitRuntime, HealthRound, Serving, pathVars
<1> QED
  BY <1>2, <1>3, <1>4, <1>5, <1>6, <1>7 DEF PathNext

-----------------------------------------------------------------------------
(* The runtime.                                                            *)

\* A round of the health check keeps the invariant of the runtime; it moves to
\* a worse address only from one that has failed often enough, and only to one
\* that is not in its cooldown.
LEMMA RoundStep ==
    ASSUME RInv, NEW d \in Elapsed, CheckRound(d)
    PROVE  /\ RInv'
           /\ active' > active => failRun'[active] >= conf.failThreshold
           /\ active' # active => sinceFailover'[active'] >= Cooldown
<1> DEFINE over == FailsOver(up)
           left == [Passed(d) EXCEPT ![active] = IF over THEN Cooldown ELSE @]
           act == IF over THEN pickFailover(up, left) ELSE active
           back == FailbackTo(act, up, left)
           watched == {a \in 0 .. act - 1 : left[a] = 0 /\ a <= back}
<1>1. /\ up \subseteq Addrs /\ active \in Addrs
      /\ consecFail \in [Addrs -> 0 .. MaxRun] /\ consecSuccess \in [Addrs -> 0 .. MaxRun]
      /\ cool \in [Addrs -> 0 .. Cooldown] /\ failRun \in [Addrs -> 0 .. MaxRun]
      /\ okRun \in [Addrs -> 0 .. MaxRun] /\ sinceFailover \in [Addrs -> 0 .. Cooldown]
  BY DEF RInv, TypeOK
<1>2. /\ conf.failThreshold \in 1 .. MaxRun /\ conf.successThreshold \in 1 .. MaxRun
      /\ MaxRun \in Nat /\ Cooldown \in Nat \ {0} /\ d \in Nat \ {0} /\ N \in Nat \ {0}
  BY EppRuntimeAssumption DEF RInv, TypeOK
<1>3. /\ left \in [Addrs -> 0 .. Cooldown]
      /\ \A a \in Addrs : left[a] = IF a = active /\ over THEN Cooldown
                                    ELSE IF cool[a] > d THEN cool[a] - d ELSE 0
  BY <1>1, <1>2 DEF Passed
<1>4. over => active \notin up /\ consecFail[active] + 1 >= conf.failThreshold
  BY DEF FailsOver
<1>5. ~over => active \in up \/ consecFail[active] + 1 < conf.failThreshold
  BY <1>1, <1>2 DEF FailsOver
<1> HIDE DEF over, left
<1>6. act \in Addrs /\ (act # active => over /\ left[act] = 0)
  <2>1. CASE over /\ FailoverTargets(up, left) # {}
    <3>1. FailoverTargets(up, left) \in SUBSET Addrs
      BY <1>1 DEF FailoverTargets
    <3>2. Nearest(FailoverTargets(up, left)) \in FailoverTargets(up, left)
      BY <1>1, <2>1, <3>1, NearestIn
    <3> QED
      BY <2>1, <3>1, <3>2 DEF pickFailover, FailoverTargets
  <2>2. CASE ~(over /\ FailoverTargets(up, left) # {})
    BY <1>1, <2>2 DEF pickFailover
  <2> QED
    BY <2>1, <2>2
<1> HIDE DEF act
<1>7. /\ back \in Addrs /\ back <= act /\ (back # act => left[back] = 0)
      /\ back = act => \A a \in 0 .. act - 1 :
            left[a] = 0 /\ a \in up => consecSuccess[a] + 1 < conf.successThreshold
  <2> DEFINE ready == {a \in 0 .. act - 1 : /\ left[a] = 0 /\ a \in up
                                            /\ consecSuccess[a] + 1 >= conf.successThreshold}
  <2>1. act \in Nat /\ act < N /\ 0 .. act - 1 \subseteq Addrs /\ 0 .. act - 1 \subseteq Nat
    BY <1>2, <1>6 DEF Addrs
  <2>2. CASE ready = {}
    <3>1. back = act
      BY <2>2 DEF FailbackTo
    <3>2. \A a \in 0 .. act - 1 : consecSuccess[a] + 1 \in Int
      BY <1>1, <1>2, <2>1
    <3>3. \A a \in 0 .. act - 1 :
            left[a] = 0 /\ a \in up => consecSuccess[a] + 1 < conf.successThreshold
      BY <1>2, <2>2, <3>2
    <3> QED
      BY <1>6, <2>1, <3>1, <3>3
  <2>3. CASE ready # {}
    <3>1. back = Min(ready)
      BY <2>3 DEF FailbackTo
    <3>2. ready \in SUBSET Nat
      BY <2>1
    <3>3. Min(ready) \in ready
      BY <2>3, <3>2, MinIn
    <3>4. back \in 0 .. act - 1 /\ left[back] = 0
      BY <3>1, <3>3
    <3> QED
      BY <2>1, <3>4
  <2> QED
    BY <2>2, <2>3
<1> HIDE DEF back
<1>8. watched \subseteq Addrs
  BY <1>2, <1>6 DEF Addrs
<1>9. /\ active' = back /\ lastOK' = up
      /\ consecFail' = IF back # act THEN Zero
                       ELSE [consecFail EXCEPT ![active] =
                               IF active \in up \/ over THEN 0 ELSE @ + 1]
      /\ consecSuccess' = IF back # act THEN Zero ELSE ConsecSuccessAfter(up, watched)
      /\ cool' = [a \in Addrs |-> IF a \in watched \ up THEN Cooldown ELSE left[a]]
      /\ failRun' = [a \in Addrs |-> IF a \in up THEN 0
                                     ELSE Capped(failRun[a] + 1, MaxRun)]
      /\ okRun' = [a \in Addrs |-> IF a \notin up THEN 0
                                   ELSE Capped(okRun[a] + 1, MaxRun)]
      /\ sinceFailover' =
           [a \in Addrs |-> IF over /\ a = active /\ act # active THEN 0
                            ELSE Capped(sinceFailover[a] + d, Cooldown)]
      /\ UNCHANGED <<up, conf, answer>>
  BY DEF CheckRound, over, left, act, back
<1>10. \A a \in Addrs : cool'[a] \in 0 .. Cooldown /\ (cool'[a] = Cooldown \/ cool'[a] = left[a])
  BY <1>2, <1>3, <1>9
<1>11. \A a \in Addrs :
         /\ consecFail'[a] \in 0 .. MaxRun /\ consecSuccess'[a] \in 0 .. MaxRun
         /\ failRun'[a] \in 0 .. MaxRun /\ okRun'[a] \in 0 .. MaxRun
         /\ sinceFailover'[a] \in 0 .. Cooldown
  <2> TAKE a \in Addrs
  <2>1. consecFail'[a] \in 0 .. MaxRun
    BY <1>1, <1>2, <1>5, <1>9 DEF Zero
  <2>2. consecSuccess'[a] \in 0 .. MaxRun
    <3>1. CASE back # act
      BY <1>2, <1>9, <3>1 DEF Zero
    <3>2. CASE back = act
      BY <1>1, <1>2, <1>7, <1>9, <3>2 DEF ConsecSuccessAfter
    <3> QED
      BY <3>1, <3>2
  <2>3. failRun'[a] \in 0 .. MaxRun /\ okRun'[a] \in 0 .. MaxRun
    BY <1>1, <1>2, <1>9 DEF Capped
  <2>4. sinceFailover'[a] \in 0 .. Cooldown
    BY <1>1, <1>2, <1>9 DEF Capped
  <2> QED
    BY <2>1, <2>2, <2>3, <2>4
<1>12. TypeOK'
  <2>1. /\ consecFail' \in [Addrs -> 0 .. MaxRun]
        /\ failRun' \in [Addrs -> 0 .. MaxRun] /\ okRun' \in [Addrs -> 0 .. MaxRun]
        /\ sinceFailover' \in [Addrs -> 0 .. Cooldown]
        /\ cool' \in [Addrs -> 0 .. Cooldown]
    BY <1>1, <1>9, <1>10, <1>11 DEF Zero
  <2>2. consecSuccess' \in [Addrs -> 0 .. MaxRun]
    BY <1>1, <1>9, <1>11 DEF Zero, ConsecSuccessAfter
  <2>3. active' \in Addrs /\ up' \subseteq Addrs /\ lastOK' \subseteq Addrs
    BY <1>1, <1>7, <1>9
  <2> QED
    BY <1>9, <2>1, <2>2, <2>3 DEF RInv, TypeOK
<1>13. \A a \in Addrs : consecFail[a] <= failRun[a] /\ (a # active => consecFail[a] = 0)
  BY DEF RInv, FailsCounted
<1>14. FailsCounted'
  <2> SUFFICES ASSUME NEW a \in Addrs
               PROVE  consecFail'[a] <= failRun'[a] /\ (a # active' => consecFail'[a] = 0)
    BY DEF FailsCounted
  <2>1. CASE back # act
    BY <1>2, <1>9, <1>11, <2>1 DEF Zero
  <2>2. CASE back = act /\ a # active
    <3>1. consecFail' = [consecFail EXCEPT ![active] =
                           IF active \in up \/ over THEN 0 ELSE @ + 1]
      BY <1>9, <2>2
    <3>2. consecFail'[a] = consecFail[a]
      BY <1>1, <2>2, <3>1
    <3>3. consecFail'[a] = 0
      BY <1>13, <2>2, <3>2
    <3> QED
      BY <1>11, <3>3
  <2>3. CASE back = act /\ a = active /\ (active \in up \/ over)
    BY <1>1, <1>2, <1>9, <1>11, <2>3, SMTT(30)
  <2>4. CASE back = act /\ a = active /\ ~(active \in up \/ over)
    <3>1. act = active /\ consecFail'[a] = consecFail[a] + 1
      BY <1>1, <1>6, <1>9, <2>4
    <3>2. failRun'[a] = Capped(failRun[a] + 1, MaxRun)
      BY <1>9, <2>4
    <3> QED
      BY <1>1, <1>2, <1>5, <1>9, <1>13, <2>4, <3>1, <3>2 DEF Capped
  <2> QED
    BY <2>1, <2>2, <2>3, <2>4
<1>15. \A a \in Addrs : cool[a] + sinceFailover[a] >= Cooldown
  BY DEF RInv, CooldownLasts
<1>16. ASSUME NEW a \in Addrs, ~(over /\ a = active /\ act # active)
       PROVE  left[a] + sinceFailover'[a] >= Cooldown
  BY <1>1, <1>2, <1>3, <1>9, <1>15, <1>16 DEF Capped
<1>17. CooldownLasts'
  <2> SUFFICES ASSUME NEW a \in Addrs PROVE cool'[a] + sinceFailover'[a] >= Cooldown
    BY DEF CooldownLasts
  <2>1. CASE over /\ a = active /\ act # active
    BY <1>2, <1>3, <1>10, <1>11, <2>1
  <2>2. CASE ~(over /\ a = active /\ act # active)
    <3>1. left[a] + sinceFailover'[a] >= Cooldown /\ left[a] \in 0 .. Cooldown
      BY <1>3, <1>16, <2>2
    <3> QED
      BY <1>2, <1>10, <1>11, <3>1
  <2> QED
    BY <2>1, <2>2
<1>18. ASSUME active' > active PROVE failRun'[active] >= conf.failThreshold
  <2>1. over
    BY <1>1, <1>2, <1>6, <1>7, <1>9, <1>18 DEF Addrs
  <2>2. active \notin up /\ consecFail[active] + 1 >= conf.failThreshold
    BY <1>4, <2>1
  <2>3. failRun'[active] = Capped(failRun[active] + 1, MaxRun)
    BY <1>1, <1>9, <2>2
  <2> QED
    BY <1>1, <1>2, <1>13, <2>2, <2>3 DEF Capped
<1>19. ASSUME active' # active PROVE sinceFailover'[active'] >= Cooldown
  <2>1. left[active'] = 0
    BY <1>6, <1>7, <1>9, <1>19
  <2>2. left[active'] + sinceFailover'[active'] >= Cooldown
    BY <1>7, <1>9, <1>16, <1>19
  <2> QED
    BY <1>2, <1>7, <1>9, <1>11, <2>1, <2>2, SMTT(30)
<1> QED
  BY <1>12, <1>14, <1>17, <1>18, <1>19 DEF RInv

\* A new runtime.
LEMMA FreshRuntime ==
    ASSUME RInv, Fresh, failRun' = Zero, okRun' = Zero,
           sinceFailover' = [a \in Addrs |-> Cooldown],
           up' \subseteq Addrs, conf' = conf, answer' \in Answers
    PROVE  RInv' /\ active' <= active /\ sinceFailover'[active'] >= Cooldown
<1>1. 0 \in Addrs /\ active \in Addrs /\ Cooldown \in Nat /\ MaxRun \in Nat
  BY EppRuntimeAssumption DEF Addrs, RInv, TypeOK
<1>2. Zero \in [Addrs -> 0 .. MaxRun] /\ Zero \in [Addrs -> 0 .. Cooldown]
  BY <1>1 DEF Zero
<1>3. TypeOK'
  BY <1>1, <1>2 DEF Fresh, RInv, TypeOK
<1>4. FailsCounted' /\ CooldownLasts'
  BY <1>1 DEF Fresh, FailsCounted, CooldownLasts, Zero
<1> QED
  BY <1>1, <1>3, <1>4 DEF Fresh, RInv, Addrs

\* A step that leaves the runtime and its history alone.
LEMMA RuntimeKept ==
    ASSUME RInv, UNCHANGED <<active, health, history>>, up' \subseteq Addrs,
           conf' \in Confs, answer' \in Answers
    PROVE  RInv'
<1>1. TypeOK'
  BY DEF RInv, TypeOK, health, history, Confs
<1>2. FailsCounted' /\ CooldownLasts'
  BY DEF RInv, FailsCounted, CooldownLasts, health, history
<1> QED
  BY <1>1, <1>2 DEF RInv

\* Every step keeps the invariant of the runtime.
LEMMA RuntimeStep ==
    ASSUME RInv, [PathNext]_pathVars
    PROVE  /\ RInv'
           /\ active' > active => failRun'[active] >= conf.failThreshold
           /\ active' # active => sinceFailover'[active'] >= Cooldown
<1>1. /\ active \in Addrs /\ up \subseteq Addrs /\ answer \in Answers /\ conf \in Confs
      /\ active \in Int
  BY DEF RInv, TypeOK, Confs, Addrs
<1>2. ASSUME UNCHANGED <<active, health, history>>, up' \subseteq Addrs,
             conf' \in Confs, answer' \in Answers
      PROVE  RInv' /\ active' = active /\ ~(active' > active)
  BY <1>1, <1>2, RuntimeKept
<1>3. CASE Allow \/ Record \/ InitBreaker \/ InitEPP \/ OpenTimeout
  BY <1>1, <1>2, <1>3 DEF Allow, Record, InitBreaker, InitEPP, OpenTimeout, runtimeVars
<1>4. CASE Call
  BY <1>1, <1>2, <1>4 DEF Call, runtimeVars, chooseBackendFromEPP, Answers
<1>5. CASE Serving
  <2>1. up' \subseteq Addrs
    BY <1>1, <1>5 DEF Serving, ServingChanges
  <2> QED
    BY <1>1, <1>2, <1>5, <2>1 DEF Serving, ServingChanges
<1>6. CASE InitRuntime
  <2>1. CASE ReloadConf
    <3>1. UNCHANGED <<active, health, history, up, answer>> /\ conf' \in Confs
      BY <2>1 DEF ReloadConf, inheritState
    <3> QED
      BY <1>1, <1>2, <3>1
  <2>2. CASE ReloadAddrs
    <3>1. RInv' /\ active' <= active /\ sinceFailover'[active'] >= Cooldown /\ active' \in Int
      BY <1>1, <2>2, FreshRuntime DEF ReloadAddrs, Fresh
    <3> QED
      BY <1>1, <3>1
  <2> QED
    BY <1>6, <2>1, <2>2 DEF InitRuntime
<1>7. CASE CloseEPP
  <2>1. RInv' /\ active' <= active /\ sinceFailover'[active'] >= Cooldown /\ active' \in Int
    BY <1>1, <1>7, FreshRuntime DEF CloseEPP, Fresh
  <2> QED
    BY <1>1, <2>1
<1>8. CASE HealthRound
  BY <1>8, RoundStep DEF HealthRound, Round
<1>9. CASE UNCHANGED pathVars
  BY <1>1, <1>2, <1>9 DEF pathVars, vars
<1> QED
  BY <1>3, <1>4, <1>5, <1>6, <1>7, <1>8, <1>9 DEF PathNext

-----------------------------------------------------------------------------
(* The theorems.                                                           *)

\* The invariant holds at first.
LEMMA InitInv == PathInit => PathInv
<1> SUFFICES ASSUME PathInit PROVE PathInv
  OBVIOUS
<1>1. 0 \in Addrs /\ Cooldown \in Nat /\ MaxRun \in Nat
  BY EppRuntimeAssumption DEF Addrs
<1>2. Zero \in [Addrs -> 0 .. MaxRun] /\ Zero \in [Addrs -> 0 .. Cooldown]
  BY <1>1 DEF Zero
<1>3. TypeOK
  BY <1>1, <1>2 DEF PathInit, Init, TypeOK, Answers, Confs
<1>4. FailsCounted /\ CooldownLasts
  BY <1>1 DEF PathInit, Init, FailsCounted, CooldownLasts, Zero
<1>5. breakerConf \in BreakerConfs /\ breakerConf.windowSize \in Nat \ {0}
      /\ breakerConf.minVolume \in Nat \ {0}
  BY EppPathAssumption DEF PathInit, BR!Init
<1>6. RingIsRecent
  BY <1>5, EmptyRing DEF RingIsRecent, PathInit, BR!Init
<1>7. recent = <<>> /\ <<>> \in Seq(BOOLEAN) /\ Len(<<>>) = 0
  BY DEF PathInit, BR!Init
<1>8. BR!EmptyRing(breakerConf) \in [0 .. breakerConf.windowSize - 1 -> BOOLEAN]
  BY DEF BR!EmptyRing
<1>9. BR!TypeOK
  BY <1>5, <1>7, <1>8 DEF PathInit, BR!Init, BR!TypeOK
<1>10. TripsInTime
  BY <1>5, <1>7 DEF TripsInTime, BR!TripsInTime, BR!TooManyErrors
<1> QED
  BY <1>3, <1>4, <1>6, <1>9, <1>10 DEF PathInv, BInv, RInv, PathInit

\* Every step keeps it.
LEMMA Inductive == PathInv /\ [PathNext]_pathVars => PathInv'
<1> SUFFICES ASSUME PathInv, [PathNext]_pathVars PROVE PathInv'
  OBVIOUS
<1>1. BInv' /\ RInv'
  BY BreakerStep, RuntimeStep DEF PathInv
<1>2. called' \in BOOLEAN
  BY DEF PathInv, PathNext, Allow, Call, Record, InitBreaker, InitRuntime, InitEPP,
         CloseEPP, HealthRound, Serving, OpenTimeout, pathVars
<1> QED
  BY <1>1, <1>2 DEF PathInv

\* The breaker (newEppBreaker, allow, record, updateConf) and the runtime
\* (runCheck, inheritState, a new runtime) stay well-formed: the ring keeps
\* its indices, and no counter exceeds what its threshold asks for.
THEOREM TypeCorrect == PathSpec => []PathTypeOK
<1>1. PathInv => PathTypeOK
  BY DEF PathInv, BInv, RInv, PathTypeOK
<1> QED
  BY InitInv, Inductive, <1>1, PTL DEF PathSpec

\* The breaker of BalanceEpp is not closed when the latest calls have reached
\* the error rate: record trips it in the very call that reaches the rate,
\* for every window size, minimal volume and rate, and reloads (updateConf)
\* and closings (setStateLocked) never leave results of another window.
THEOREM TripsOnTime == PathSpec => []TripsInTime
<1>1. PathInv => TripsInTime
  BY DEF PathInv, BInv
<1> QED
  BY InitInv, Inductive, <1>1, PTL DEF PathSpec

\* The path reacts for cause only: allow and record leave the closed state
\* only because of the latest calls, runCheck moves to a worse address only
\* after enough failed probes in a row, and to no address in its cooldown.
THEOREM ReactionsHaveCause == PathSpec => ReactsForCause
<1>1. PathInv /\ [PathNext]_pathVars
        => [state = "closed" /\ state' # "closed" => BR!TooManyErrors']_BR!vars
  BY BreakerStep DEF PathInv
<1>2. PathInv /\ [PathNext]_pathVars
        => [active' > active => failRun'[active] >= conf.failThreshold]_vars
  BY RuntimeStep DEF PathInv
<1>3. PathInv /\ [PathNext]_pathVars
        => [active' # active /\ ~ReloadAddrs => sinceFailover'[active'] >= Cooldown]_vars
  BY RuntimeStep DEF PathInv
<1> QED
  BY InitInv, Inductive, <1>1, <1>2, <1>3, PTL
  DEF PathSpec, ReactsForCause, BR!OpensForReason, FailoverEarned, CooldownRespected

\* BalanceEpp and SetGslbBasic use the breaker as EppBreaker says it is used:
\* one call at a time, each allowed before and recorded after, by the breaker
\* that allowed it or not at all.  What holds of EppBreaker for any outcomes of
\* calls holds for those of chooseBackendFromEPP.
THEOREM PathUsesBreaker == PathSpec => BR!Spec
<1>1. PathInit => BR!Init
  BY DEF PathInit
<1>2. ASSUME [PathNext]_pathVars PROVE [BR!Next]_BR!vars
  <2>1. ASSUME UNCHANGED <<breakerVars, req>> PROVE [BR!Next]_BR!vars
    <3>1. CASE (answer' = "decision") = (answer = "decision")
      BY <2>1, <3>1 DEF breakerVars, BR!vars, BR!window
    <3>2. CASE (answer' = "decision") # (answer = "decision")
      <4>1. (answer' = "decision") = ~(answer = "decision")
        BY <3>2
      <4> QED
        BY <2>1, <4>1 DEF breakerVars, BR!Next, BR!OutcomeChanges, BR!window
    <3> QED
      BY <3>1, <3>2
  <2>2. CASE Allow
    BY <2>2 DEF Allow, BR!Next
  <2>3. CASE Call
    BY <2>1, <2>3 DEF Call
  <2>4. CASE Record
    BY <2>4 DEF Record, BR!Next
  <2>5. CASE InitBreaker \/ InitEPP
    BY <2>5 DEF InitBreaker, InitEPP, BR!Next
  <2>6. CASE InitRuntime \/ HealthRound \/ Serving
    BY <2>1, <2>6 DEF InitRuntime, HealthRound, Serving
  <2>7. CASE CloseEPP
    BY <2>7 DEF CloseEPP, BR!Next
  <2>8. CASE OpenTimeout
    BY <2>8 DEF OpenTimeout, BR!Next
  <2>9. CASE UNCHANGED pathVars
    BY <2>1, <2>9 DEF pathVars
  <2> QED
    BY <1>2, <2>2, <2>3, <2>4, <2>5, <2>6, <2>7, <2>8, <2>9 DEF PathNext
<1> QED
  BY <1>1, <1>2, PTL DEF PathSpec, BR!Spec
=============================================================================
