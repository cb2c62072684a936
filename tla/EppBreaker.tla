----------------------------- MODULE EppBreaker -----------------------------
(***************************************************************************)
(* The circuit breaker of a cluster's EPP path: eppBreaker in              *)
(* bfe_balance/bal_gslb/epp_breaker.go, as BalanceEpp uses it and as       *)
(* SetGslbBasic configures it.                                             *)
(*                                                                         *)
(* BalanceEpp holds the lock of the BalanceGslb during its EPP call, so    *)
(* there is at most one call at a time; allow and record are separate      *)
(* steps.  SetGslbBasic releases that lock before initEPP, so a reload may *)
(* come between the two.  Definitions named Bad... are plausible slips,    *)
(* used by the sensitivity checks only.                                    *)
(***************************************************************************)
EXTENDS Integers, Sequences, FiniteSets

CONSTANT Confs  \* configurations: [disabled, windowSize, minVolume, rate]

VARIABLES
    present,    \* bal.eppBreaker # nil
    conf,       \* b.conf
    state,      \* b.state
    results,    \* b.results
    count,      \* b.count
    idx,        \* b.idx
    cooled,     \* openTimeout has passed since b.openedAt
    inflight,   \* b.halfOpenInflight
    req,        \* the request in BalanceEpp: none, or calling EPP with this
                \* breaker or with one that was dropped meanwhile
    eppUp       \* the outcome of an EPP call

\* History variable, read by no guard: the outcomes recorded since the window
\* was last emptied, at most windowSize.
VARIABLE recent

window == <<results, count, idx>>
vars == <<present, conf, state, window, cooled, inflight, req, eppUp, recent>>

EmptyRing(c) == [i \in 0 .. c.windowSize - 1 |-> FALSE]

TypeOK ==
    /\ present \in BOOLEAN /\ cooled \in BOOLEAN /\ inflight \in BOOLEAN
    /\ eppUp \in BOOLEAN
    /\ conf \in Confs
    /\ state \in {"closed", "open", "halfOpen"}
    /\ results \in [0 .. conf.windowSize - 1 -> BOOLEAN]
    /\ count \in 0 .. conf.windowSize
    /\ idx \in 0 .. conf.windowSize - 1
    /\ req \in {"none", "calling", "callingOld"}
    /\ recent \in Seq(BOOLEAN)

\* newEppBreaker
Fresh(c) ==
    /\ conf' = c
    /\ state' = "closed"
    /\ results' = EmptyRing(c) /\ count' = 0 /\ idx' = 0
    /\ cooled' = FALSE /\ inflight' = FALSE
    /\ recent' = <<>>

Init ==
    /\ present = TRUE
    /\ conf \in Confs
    /\ state = "closed"
    /\ results = EmptyRing(conf) /\ count = 0 /\ idx = 0
    /\ cooled = FALSE /\ inflight = FALSE
    /\ req = "none"
    /\ eppUp \in BOOLEAN
    /\ recent = <<>>

-----------------------------------------------------------------------------
(* BalanceEpp.                                                             *)

\* allow returns TRUE; if it returns FALSE, the request falls back to the
\* local balancer and nothing changes.
allow ==
    /\ present /\ req = "none"
    /\ \/ /\ conf.disabled \/ state = "closed"
          /\ UNCHANGED <<state, inflight>>
       \/ /\ ~conf.disabled /\ state = "open" /\ cooled
          /\ state' = "halfOpen" /\ inflight' = TRUE
       \/ /\ ~conf.disabled /\ state = "halfOpen" /\ ~inflight
          /\ inflight' = TRUE /\ UNCHANGED state
    /\ req' = "calling"
    /\ UNCHANGED <<present, conf, window, cooled, eppUp, recent>>

Errors(ring, n) == Cardinality({i \in 0 .. n - 1 : ~ring[i]})

BadTrips(ring, n) == n >= conf.minVolume /\ Errors(ring, n) * 100 > conf.rate * n

\* The window of n results opens the breaker.
Trips(ring, n) == n >= conf.minVolume /\ Errors(ring, n) * 100 >= conf.rate * n

BadClose == count' = 0 /\ UNCHANGED idx

\* setStateLocked(eppBreakerClosed) empties the window.
Close == count' = 0 /\ idx' = 0

\* record in the closed state: the ring takes the result.
RecordClosed(ok) ==
    LET n == IF count < conf.windowSize THEN count + 1 ELSE count
        ring == [results EXCEPT ![idx] = ok]
    IN  /\ results' = ring
        /\ count' = n
        /\ idx' = (idx + 1) % conf.windowSize
        /\ state' = IF Trips(ring, n) THEN "open" ELSE "closed"
        /\ cooled' = FALSE
        /\ recent' = LET r == Append(recent, ok)
                     IN  IF Len(r) > conf.windowSize THEN Tail(r) ELSE r
        /\ UNCHANGED inflight

BadRecordHalfOpen(ok) ==
    /\ state' = IF ok THEN "closed" ELSE "halfOpen"
    /\ cooled' = FALSE
    /\ IF ok THEN Close /\ recent' = <<>> ELSE UNCHANGED <<count, idx, recent>>
    /\ UNCHANGED <<inflight, results>>

\* record in the half-open state: the result of the probe decides.
RecordHalfOpen(ok) ==
    /\ inflight' = FALSE
    /\ state' = IF ok THEN "closed" ELSE "open"
    /\ cooled' = FALSE
    /\ IF ok THEN Close /\ recent' = <<>> ELSE UNCHANGED <<count, idx, recent>>
    /\ UNCHANGED results

\* record: ignored while disabled, and in the open state.
record ==
    /\ req # "none"
    /\ req' = "none"
    /\ \/ /\ req = "callingOld" \/ conf.disabled \/ state = "open"
          /\ UNCHANGED <<state, window, cooled, inflight, recent>>
       \/ /\ req = "calling" /\ ~conf.disabled /\ state = "closed"
          /\ RecordClosed(eppUp)
       \/ /\ req = "calling" /\ ~conf.disabled /\ state = "halfOpen"
          /\ RecordHalfOpen(eppUp)
    /\ UNCHANGED <<present, conf, eppUp>>

-----------------------------------------------------------------------------
(* Reloads, and the environment.                                           *)

BadEmptied(c) == UNCHANGED window

\* updateConf makes a new window.
Emptied(c) == results' = EmptyRing(c) /\ count' = 0 /\ idx' = 0

\* initEPP with a configuration that differs: updateConf, or a new breaker.
initEPP ==
    \E c \in Confs :
        /\ \/ /\ present /\ c # conf
              /\ conf' = c
              /\ Emptied(c)
              /\ recent' = <<>>
              /\ UNCHANGED <<state, cooled, inflight>>
           \/ ~present /\ Fresh(c)
        /\ present' = TRUE
        /\ UNCHANGED <<req, eppUp>>

\* The cluster leaves EPP mode; a call in progress keeps the old breaker.
closeEPP ==
    /\ present
    /\ present' = FALSE
    /\ Fresh(conf)
    /\ req' = IF req = "calling" THEN "callingOld" ELSE req
    /\ UNCHANGED eppUp

\* openTimeout passes.
Timeout ==
    /\ state = "open" /\ ~cooled
    /\ cooled' = TRUE
    /\ UNCHANGED <<present, conf, state, window, inflight, req, eppUp, recent>>

\* A call turns out otherwise than the last one.
OutcomeChanges ==
    /\ eppUp' = ~eppUp
    /\ UNCHANGED <<present, conf, state, window, cooled, inflight, req, recent>>

Next == allow \/ record \/ initEPP \/ closeEPP \/ Timeout \/ OutcomeChanges

Spec == Init /\ [][Next]_vars

-----------------------------------------------------------------------------
(* Properties.                                                             *)

RecentErrors == Cardinality({k \in DOMAIN recent : ~recent[k]})

\* Too many errors among the latest calls: by the calls themselves, not by
\* the ring buffer.
TooManyErrors ==
    Len(recent) >= conf.minVolume /\ RecentErrors * 100 >= conf.rate * Len(recent)

\* The breaker is not closed when the latest calls have reached the error
\* rate, across reopening, reloads and overwritten ring entries.
TripsInTime == ~(state = "closed" /\ TooManyErrors)

\* It leaves the closed state only because of the latest calls.
OpensForReason == [][state = "closed" /\ state' # "closed" => TooManyErrors']_vars

\* epp_breaker.go, halfOpenInflight: "a half-open probe request is in flight".
ProbeInFlight == inflight => req = "calling"
=============================================================================
