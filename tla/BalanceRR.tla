----------------------------- MODULE BalanceRR -----------------------------
(***************************************************************************)
(* The balancer of one sub-cluster: bfe_balance/bal_slb/bal_rr.go and      *)
(* backend_rr.go.  It keeps a list of backends with a configured weight    *)
(* and a running weight ("current"), picks a backend by smooth weighted    *)
(* round robin, by least connections or by the hash of a session key, ramps *)
(* the weight of a backend that has just come up (slow start), and takes a *)
(* new list from the configuration while it runs.                          *)
(*                                                                         *)
(* All operations run under the lock of the cluster's BalanceGslb, so each *)
(* is one action.  Backends are numbers in the order of their addresses.   *)
(* Definitions named Bad... are plausible slips, used by the sensitivity   *)
(* checks only.                                                            *)
(***************************************************************************)
EXTENDS Integers, SequencesExt

CONSTANTS
    Backends,   \* backends any configuration may name
    Confs,      \* configurations: functions from backends to weights
    Scale,      \* the factor 100 between configured and running weights
    SSTimes,    \* slow start times a reload may set, in ticks; 0 is off
    MaxConns,   \* bound: connections of a backend
    Keys,       \* hashes of session keys
    MaxCurrent, \* bound: running weight of a backend, either way
    Algors      \* the algorithms the cluster is configured for, over time

ASSUME RRAssumption ==
    /\ Backends \subseteq Nat
    /\ Confs # {}
    /\ \A k \in Confs : DOMAIN k \in SUBSET Backends /\ k \in [DOMAIN k -> Nat]
    /\ Scale \in Nat \ {0} /\ SSTimes \subseteq Nat /\ MaxConns \in Nat
    /\ MaxCurrent \in Nat
    /\ Keys \subseteq Nat
    /\ Algors \subseteq {"WrrSmooth", "WlcSmooth", "WrrSticky"}

VARIABLES
    list,       \* brr.backends
    sorted,     \* brr.sorted
    rr,         \* the BackendRR of every backend of the list
    avail,      \* backend.Avail()
    restarted,  \* backend.GetRestart()
    connNum,    \* backend.ConnNum()
    ssTime,     \* brr.slowStartTime
    conf        \* the configuration applied last

\* History variable, read by no guard: the picks since a backend was last
\* picked or became eligible.
VARIABLE waited

vars == <<list, sorted, rr, avail, restarted, connNum, ssTime, conf, waited>>

Nobody == 0

\* bound: time since the beginning of a slow start.
MaxAge == 1 + CHOOSE t \in SSTimes : \A u \in SSTimes : u <= t

\* A BackendRR outside the list.
NoRR == [weight |-> 0, current |-> 0, final |-> 0, inSlowStart |-> FALSE,
         slowStartTime |-> 0, age |-> 0]

\* BackendRR.Init; age is the time since weightSS.startTime.
NewRR(w) == [weight |-> Scale * w, current |-> Scale * w, final |-> Scale * w,
             inSlowStart |-> FALSE, slowStartTime |-> 0, age |-> 0]

Members == ToSet(list)

TypeOK ==
    /\ list \in Seq(Backends)
    /\ \A i, j \in DOMAIN list : list[i] = list[j] => i = j
    /\ sorted \in BOOLEAN
    /\ \A b \in Backends :
         /\ rr[b].weight \in Nat /\ rr[b].current \in Int
         /\ rr[b].age \in 0 .. MaxAge
    /\ avail \in [Backends -> BOOLEAN]
    /\ restarted \in [Backends -> BOOLEAN]
    /\ connNum \in [Backends -> 0 .. MaxConns]
    /\ ssTime \in SSTimes
    /\ conf \in Confs
    /\ Members = DOMAIN conf

\* BalanceRR.Init
Init ==
    /\ conf \in Confs
    /\ list \in SetToSeqs(DOMAIN conf)
    /\ sorted = FALSE
    /\ rr = [b \in Backends |-> IF b \in DOMAIN conf THEN NewRR(conf[b])
                                                     ELSE NoRR]
    /\ avail = [b \in Backends |-> TRUE]
    /\ restarted = [b \in Backends |-> FALSE]
    /\ connNum = [b \in Backends |-> 0]
    /\ ssTime \in SSTimes
    /\ waited = [b \in Backends |-> 0]

-----------------------------------------------------------------------------
(* Slow start.                                                             *)

initSlowStart(x) ==
    IF ssTime = 0 THEN [x EXCEPT !.slowStartTime = 0, !.inSlowStart = FALSE]
    ELSE [x EXCEPT !.slowStartTime = ssTime, !.inSlowStart = TRUE, !.age = 0,
                   !.weight = 1, !.current = 1]

\* The weight final * elapsed / slowStartTime.
Ramped(x) ==
    IF x.slowStartTime # 0 THEN (x.final * x.age) \div x.slowStartTime
                           ELSE x.final

BadUpdateSlowStart(x) ==
    IF ~x.inSlowStart THEN x
    ELSE [x EXCEPT !.weight = Ramped(x), !.inSlowStart = Ramped(x) < x.final]

updateSlowStart(x) ==
    IF ~x.inSlowStart THEN x
    ELSE IF Ramped(x) >= x.final
      THEN [x EXCEPT !.weight = x.final, !.inSlowStart = FALSE, !.age = 0]
    ELSE [x EXCEPT !.weight = Ramped(x)]

\* checkSlowStart, run by Balance for every algorithm but the sticky one.
checkSlowStart ==
    [b \in Backends |->
       IF ssTime > 0 /\ b \in Members
         THEN updateSlowStart(IF restarted[b] THEN initSlowStart(rr[b])
                                              ELSE rr[b])
         ELSE rr[b]]

restartedAfterCheck ==
    [b \in Backends |-> restarted[b] /\ ~(ssTime > 0 /\ b \in Members)]

-----------------------------------------------------------------------------
(* Picking a backend, given the BackendRRs f after checkSlowStart.         *)

EligibleIn(f, b) == avail[b] /\ f[b].weight > 0

\* The eligible backends in list order.
Candidates(f) == SelectSeq(list, LAMBDA b : EligibleIn(f, b))

BadBest(f, cands) ==
    cands[SelectInSeq(cands, LAMBDA b :
            \A c \in ToSet(cands) : f[c].weight <= f[b].weight)]

\* The first of the candidates with the greatest current weight.
Best(f, cands) ==
    cands[SelectInSeq(cands, LAMBDA b :
            \A c \in ToSet(cands) : f[c].current <= f[b].current)]

\* What the chosen one pays: the weights of all candidates.
Total(f, cands) ==
    FoldLeft(LAMBDA acc, b : acc + f[b].weight, 0, cands)

BadSmoothed(f, cands) ==
    [b \in DOMAIN f |->
       IF b \notin ToSet(cands) THEN f[b]
       ELSE IF b = Best(f, cands) THEN [f[b] EXCEPT !.current = 0]
       ELSE [f[b] EXCEPT !.current = @ + f[b].weight]]

\* The currents smoothBalance leaves: each candidate gains its weight, the
\* chosen one pays for all.
Paid(f, S, best, total) ==
    [b \in DOMAIN f |->
       IF b \notin S THEN f[b]
       ELSE [f[b] EXCEPT !.current =
               @ + f[b].weight - IF b = best THEN total ELSE 0]]
Smoothed(f, cands) == Paid(f, ToSet(cands), Best(f, cands), Total(f, cands))

\* compLCWeight(a, b) > 0, = 0: more connections per weight, or as many.
LCDiff(f, a, b) == connNum[a] * f[b].weight - connNum[b] * f[a].weight

BadLeastConns(f) ==
    FoldLeft(LAMBDA acc, b :
               IF acc = <<>> \/ connNum[b] < connNum[acc[1]] THEN <<b>>
               ELSE IF connNum[b] = connNum[acc[1]] THEN Append(acc, b)
               ELSE acc,
             <<>>, Candidates(f))

\* leastConnsBalance: one pass over the list that keeps the best so far.
LeastConns(f) ==
    FoldLeft(LAMBDA acc, b :
               IF acc = <<>> \/ LCDiff(f, acc[1], b) > 0 THEN <<b>>
               ELSE IF LCDiff(f, acc[1], b) = 0 THEN Append(acc, b)
               ELSE acc,
             <<>>, Candidates(f))

\* The list after ensureSortedUnlocked.
SortedList == IF sorted THEN list ELSE SortSeq(list, LAMBDA a, b : a < b)

\* stickyBalance on the list l: the candidate in whose share the hash falls.
StickyChoice(l, key) ==
    LET cands == SelectSeq(l, LAMBDA b : EligibleIn(rr, b))
        Share(i) == Total(rr, SubSeq(cands, 1, i))
        value == key % Total(rr, cands)
        hits == {i \in 1 .. Len(cands) : value < Share(i)}
    IN  IF cands = <<>> THEN Nobody
        ELSE cands[CHOOSE i \in hits : \A j \in hits : i <= j]

\* The running weights stay within the bound.  They do by themselves unless
\* reloads or slow start add credit.
InBound == \A b \in Backends : rr'[b].current \in -MaxCurrent .. MaxCurrent

\* Book-keeping of a pick.
Waiting(f, b) ==
    [c \in Backends |-> IF c = b \/ ~EligibleIn(f, c) THEN 0
                        ELSE waited[c] + 1]

-----------------------------------------------------------------------------
(* Operations.                                                             *)

\* Balance(WrrSmooth)
SmoothBalance ==
    LET f == checkSlowStart
        cands == Candidates(f)
    IN  /\ "WrrSmooth" \in Algors
        /\ restarted' = restartedAfterCheck
        /\ \/ /\ cands = <<>>
              /\ rr' = f
              /\ UNCHANGED waited
           \/ /\ cands # <<>>
              /\ rr' = Smoothed(f, cands)
              /\ InBound
              /\ waited' = Waiting(f, Best(f, cands))
        /\ UNCHANGED <<list, sorted, avail, connNum, ssTime, conf>>

\* Balance(WlcSmooth): smooth round robin among the least loaded, which is
\* not run when there is only one.
LeastConnsBalance ==
    LET f == checkSlowStart
        least == LeastConns(f)
    IN  /\ "WlcSmooth" \in Algors
        /\ restarted' = restartedAfterCheck
        /\ \/ least = <<>> /\ rr' = f /\ UNCHANGED waited
           \/ /\ Len(least) = 1
              /\ rr' = f
              /\ waited' = [waited EXCEPT ![least[1]] = 0]
           \/ /\ Len(least) > 1
              /\ rr' = Smoothed(f, least)
              /\ InBound
              /\ waited' = [waited EXCEPT ![Best(f, least)] = 0]
        /\ UNCHANGED <<list, sorted, avail, connNum, ssTime, conf>>

\* Balance(WrrSticky): sorts the list, no slow start.  StickyChoice is what it
\* returns.
StickyBalance ==
    /\ "WrrSticky" \in Algors
    /\ list' = SortedList
    /\ sorted' = TRUE
    /\ UNCHANGED <<rr, avail, restarted, connNum, ssTime, conf, waited>>

\* BackendRR.UpdateWeight
UpdateWeight(x, w) ==
    [x EXCEPT !.weight = Scale * w,
              !.current = IF w <= 0 THEN 0 ELSE x.current]

BadSortedAfterUpdate == sorted

\* brr.sorted = false
SortedAfterUpdate == FALSE

BadAdded(k) == DOMAIN k

\* The entries of the configuration that are left in confMap after the walk
\* over the old list.
Added(k) == DOMAIN k \ Members

\* Update: known backends keep their state and their place, removed ones are
\* released, new ones follow in any order and are marked as restarted.
Update ==
    \E k \in Confs \ {conf} :
      \E added \in SetToSeqs(Added(k)) :
        /\ conf' = k
        /\ list' = SelectSeq(list, LAMBDA b : b \in DOMAIN k) \o added
        /\ sorted' = SortedAfterUpdate
        /\ rr' = [b \in Backends |->
                    CASE b \notin DOMAIN k -> NoRR
                      [] b \in Members \cap DOMAIN k -> UpdateWeight(rr[b], k[b])
                      [] OTHER -> NewRR(k[b])]
        /\ avail' = [b \in Backends |-> avail[b] \/ b \notin Members \cap DOMAIN k]
        /\ restarted' = [b \in Backends |->
                           IF b \in DOMAIN k \ Members THEN TRUE
                           ELSE restarted[b] /\ b \in DOMAIN k]
        /\ connNum' = [b \in Backends |->
                         IF b \in Members \cap DOMAIN k THEN connNum[b] ELSE 0]
        /\ waited' = [b \in Backends |-> 0]
        /\ UNCHANGED ssTime

\* SetSlowStart
SetSlowStart ==
    /\ ssTime' \in SSTimes \ {ssTime}
    /\ UNCHANGED <<list, sorted, rr, avail, restarted, connNum, conf,
                   waited>>

\* Health check: a backend goes down, or comes up and is marked.
AvailChanges ==
    \E b \in Members :
        /\ avail' = [avail EXCEPT ![b] = ~@]
        /\ restarted' = [restarted EXCEPT ![b] = @ \/ ~avail[b]]
        /\ waited' = [waited EXCEPT ![b] = 0]
        /\ UNCHANGED <<list, sorted, rr, connNum, ssTime, conf>>

\* Requests begin and end on backends.
ConnNumChanges ==
    \E b \in Members, n \in 0 .. MaxConns :
        /\ n # connNum[b]
        /\ connNum' = [connNum EXCEPT ![b] = n]
        /\ UNCHANGED <<list, sorted, rr, avail, restarted, ssTime,
                       conf, waited>>

\* Time passes for the backends in slow start.
Tick ==
    /\ \E b \in Members : rr[b].inSlowStart /\ rr[b].age < MaxAge
    /\ rr' = [b \in Backends |->
                IF rr[b].inSlowStart /\ rr[b].age < MaxAge
                  THEN [rr[b] EXCEPT !.age = @ + 1] ELSE rr[b]]
    /\ UNCHANGED <<list, sorted, avail, restarted, connNum, ssTime, conf,
                   waited>>

Next == SmoothBalance \/ LeastConnsBalance \/ StickyBalance \/ Update
        \/ SetSlowStart \/ AvailChanges \/ ConnNumChanges \/ Tick

Spec == Init /\ [][Next]_vars

-----------------------------------------------------------------------------
(* Properties.                                                             *)

SumOver(g) == MapThenSumSet(LAMBDA b : g[b], Backends)

\* Smooth balancing neither creates nor loses credit: however backends come
\* and go between picks, the running weights of a configuration add up to
\* its weights.
CreditConserved ==
    SumOver([b \in Backends |-> rr[b].current])
        = SumOver([b \in Backends |-> rr[b].weight])

\* A backend that stays eligible is not starved by the others, whatever
\* they do: it waits for at most its share of picks, and one round more.  Picks
\* by least connections in between count as its picks, not as its waiting.
NotStarved ==
    \A b \in Members :
        rr[b].weight > 0 =>
            waited[b] * rr[b].weight
                <= 2 * SumOver([c \in Backends |-> rr[c].weight])

WeightBelow(b) ==
    SumOver([c \in Backends |-> IF c < b /\ EligibleIn(rr, c) THEN rr[c].weight
                                ELSE 0])

\* A session sticks: the backend of a key is a function of the eligible
\* backends and their weights alone.  It depends neither on the order in which
\* reloads brought the backends into the list nor on what was picked before.
StickyByMembership ==
    \A key \in Keys :
        LET els == {b \in Members : EligibleIn(rr, b)}
            value == key % SumOver([b \in Backends |->
                                      IF b \in els THEN rr[b].weight ELSE 0])
            b == StickyChoice(SortedList, key)
        IN  els # {} => /\ b \in els
                        /\ WeightBelow(b) <= value
                        /\ value < WeightBelow(b) + rr[b].weight

\* The one-pass search of leastConnsBalance finds all backends with the
\* fewest connections per weight, whatever the order of the list.
LeastConnsExact ==
    LET els == {b \in Members : EligibleIn(rr, b)}
    IN  ToSet(LeastConns(rr)) =
            {b \in els : \A c \in els :
                connNum[b] * rr[c].weight <= connNum[c] * rr[b].weight}

\* Slow start never gives a backend more than its configured weight: however
\* late the pick that ends the ramp comes, and whatever reloads of the list or
\* of the slow start time happened since it began.  (Of configurations that do
\* not change the weight of a backend.)
NoOvershoot == \A b \in Members : rr[b].weight <= Scale * conf[b]

\* backend_rr.go, initSlowStart: "set weight/current to 1, to avoid no traffic
\* allowed at the beginning of start".  A pick finds a backend if one is up
\* and has a weight in the configuration.
TrafficAtStart ==
    [][SmoothBalance /\ Candidates(checkSlowStart) = <<>>
         => \A b \in Members : ~avail[b] \/ conf[b] = 0]_vars
=============================================================================
