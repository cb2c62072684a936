--------------------------- MODULE ClusterInvoke ---------------------------
(***************************************************************************)
(* Forwarding a request to a cluster: ReverseProxy.clusterInvoke with its  *)
(* retry loop (bfe_server/reverseproxy.go), the choice of a backend by     *)
(* BalanceGslb.Balance and BalanceEpp (bfe_balance/bal_gslb/bal_gslb.go)   *)
(* and the connection counters of the backends they keep                   *)
(* (bfe_balance/backend/bfe_backend.go).  The AI gateway invokes a cluster *)
(* more than once for one request: with another key, or after              *)
(* resetRequestForRetry in another cluster; both re-entries are modelled.  *)
(*                                                                         *)
(* Many requests run at once and share the backends.  Each lock section on *)
(* the balancer or on a backend is one action.  Which of the eligible      *)
(* backends the round robin returns, and what the hash of a request is,    *)
(* are left open; whether a backend is available changes at any time (see  *)
(* BackendHealth).  Definitions named Bad... are plausible slips, used by  *)
(* the sensitivity checks only.                                            *)
(***************************************************************************)
EXTENDS Integers, FiniteSets

CONSTANTS
    Requests,
    Backends,
    SubClusters,      \* the sub-clusters with backends
    Blackhole,        \* the sub-cluster of type TypeGslbBlackhole
    SubOf,            \* the sub-cluster of each backend
    Weight,           \* the weight of each sub-cluster in the gslb conf
    GslbBasics,       \* values of [retryMax, crossRetry] a reload may set
    LoopLimit,        \* the 20 of the loop in clusterInvoke
    MaxReinvokes,     \* bound: re-entries of clusterInvoke by the AI path
    None,             \* no backend (a nil pointer)
    Temp,             \* a backend made up for an address EPP returned
    EppMode,          \* BalanceMode is EPP
    Fcgi,             \* the cluster speaks FastCGI
    ForwardMayFinish  \* a HandleForward callback may return Finish

AllSubs == SubClusters \cup {Blackhole}

ASSUME InvokeAssumption ==
    /\ IsFiniteSet(Requests)
    /\ None \notin Backends /\ Temp \notin Backends /\ None # Temp
    /\ SubOf \in [Backends -> SubClusters]
    /\ Weight \in [AllSubs -> Int]
    /\ \A g \in GslbBasics : g.retryMax \in Nat /\ g.crossRetry \in Nat
    /\ GslbBasics # {}
    /\ LoopLimit \in Nat \ {0} /\ MaxReinvokes \in Nat
    /\ EppMode \in BOOLEAN /\ Fcgi \in BOOLEAN /\ ForwardMayFinish \in BOOLEAN

VARIABLES
    avail,      \* avail of each backend
    connNum,    \* connNum of each backend
    gslb,       \* bal.retryMax and bal.crossRetry
    pc,         \* where each request is
    iter,       \* i of the loop
    retryTime,  \* request.RetryTime
    trans,      \* request.Trans.Backend
    chosen,     \* clusterBackend
    sticky,     \* the backend in the request's context, or None
    resendable, \* checkAllowRetry: RetryLevel and a GET without body
    err,        \* the error clusterInvoke is about to return
    res,        \* a response was obtained
    eppCtx,     \* request context holds an EPP stream
    reinvokes   \* re-entries so far

\* History variables, read by no guard.
VARIABLES
    sent,       \* round trips that may have reached a backend, not reset
    tries,      \* round trips of this clusterInvoke
    bodies,     \* response bodies received and not closed
    streams,    \* EPP streams opened and not closed
    mishap      \* a callback finished a request before its round trip, or a
                \* round trip panicked

reqVars  == <<pc, iter, retryTime, trans, chosen, sticky, resendable, err, res,
              eppCtx, reinvokes>>
histVars == <<sent, tries, bodies, streams, mishap>>
vars == <<avail, connNum, gslb, reqVars, histVars>>

PCs == {"idle", "loop", "switch", "forward", "roundtrip", "returned", "done",
        "panicked"}
NoErr == "nil"

(***************************************************************************)
(* What RoundTrip may return.  AfterSend stands for the errors after which *)
(* the backend may have seen the request: WriteRequestError,               *)
(* ReadRespHeaderError, RespHeaderTimeoutError, TransportBrokenError.      *)
(***************************************************************************)
TransportErrs == {"Connect", "BodyProcess", "AfterSend"}

Errs == {NoErr, "RetryTooMany", "NoSubCluster", "Blackhole", "NoBackend",
         "NoSubClusterCross", "CrossRetryBalance"} \cup TransportErrs

TypeOK ==
    /\ avail \in [Backends -> BOOLEAN]
    /\ connNum \in [Backends -> Int]
    /\ gslb \in GslbBasics
    /\ pc \in [Requests -> PCs]
    /\ iter \in [Requests -> 0 .. LoopLimit]
    /\ retryTime \in [Requests -> Nat]
    /\ trans \in [Requests -> Backends \cup {None, Temp}]
    /\ chosen \in [Requests -> Backends \cup {None, Temp}]
    /\ sticky \in [Requests -> Backends \cup {None}]
    /\ resendable \in [Requests -> BOOLEAN]
    /\ err \in [Requests -> Errs]
    /\ res \in [Requests -> BOOLEAN]
    /\ eppCtx \in [Requests -> BOOLEAN]
    /\ reinvokes \in [Requests -> 0 .. MaxReinvokes]
    /\ sent \in [Requests -> Nat]
    /\ tries \in [Requests -> 0 .. LoopLimit]
    /\ bodies \in [Requests -> Nat]
    /\ streams \in [Requests -> Nat]
    /\ mishap \in BOOLEAN

Init ==
    /\ avail = [b \in Backends |-> TRUE]
    /\ connNum = [b \in Backends |-> 0]
    /\ gslb \in GslbBasics
    /\ pc = [r \in Requests |-> "idle"]
    /\ iter = [r \in Requests |-> 0]
    /\ retryTime = [r \in Requests |-> 0]
    /\ trans = [r \in Requests |-> None]
    /\ chosen = [r \in Requests |-> None]
    /\ sticky = [r \in Requests |-> None]
    /\ resendable = [r \in Requests |-> FALSE]
    /\ err = [r \in Requests |-> NoErr]
    /\ res = [r \in Requests |-> FALSE]
    /\ eppCtx = [r \in Requests |-> FALSE]
    /\ reinvokes = [r \in Requests |-> 0]
    /\ sent = [r \in Requests |-> 0]
    /\ tries = [r \in Requests |-> 0]
    /\ bodies = [r \in Requests |-> 0]
    /\ streams = [r \in Requests |-> 0]
    /\ mishap = FALSE

-----------------------------------------------------------------------------
(* Choosing a backend.  The outcome of Balance is a record: the backend or *)
(* an error, and the value it leaves in request.RetryTime.                 *)

\* sub-clusters the hash of a request can fall into: subClusterBalance.
Hashable == {s \in AllSubs : Weight[s] > 0}

\* what SubCluster.balance can return; backends have positive weight.
Eligible(s) == {b \in Backends : SubOf[b] = s /\ avail[b]}

\* randomSelectExclude
CrossTargets(current) ==
    {s \in AllSubs \ {current, Blackhole} : Weight[s] >= 0}

Picked(b, rt) == [backend |-> b, err |-> NoErr, retryTime |-> rt]
Failed(e, rt) == [backend |-> None, err |-> e, retryTime |-> rt]

\* The second half of Balance: try another sub-cluster.
CrossSelect(current, rt) ==
    CASE gslb.crossRetry <= 0 -> {Failed("NoBackend", rt)}
      [] gslb.crossRetry > 0 /\ CrossTargets(current) = {} ->
           {Failed("NoSubClusterCross", rt)}
      [] OTHER ->
           UNION {IF Eligible(s) = {}
                    THEN {Failed("CrossRetryBalance", rt)}
                    ELSE {Picked(b, rt) : b \in Eligible(s)}
                  : s \in CrossTargets(current)}

\* The first half, once the sub-cluster of the request is known: when none
\* of its backends is up the in-cluster tries count as used.
InSubCluster(current, rt) ==
    IF current = Blackhole THEN {Failed("Blackhole", rt)}
    ELSE IF rt > gslb.retryMax THEN CrossSelect(current, rt)
    ELSE IF Eligible(current) = {} THEN CrossSelect(current, gslb.retryMax)
    ELSE {Picked(b, rt) : b \in Eligible(current)}

BadTooManyRetries(rt) == FALSE

TooManyRetries(rt) == rt > gslb.retryMax + gslb.crossRetry

\* LookupStickyBackend
StickyUsable(b) == b # None /\ Weight[SubOf[b]] > 0 /\ avail[b]

Balance(rt, stickyBackend) ==
    IF TooManyRetries(rt) THEN {Failed("RetryTooMany", rt)}
    ELSE IF StickyUsable(stickyBackend)
      THEN {Picked(stickyBackend, rt)}
    ELSE IF Hashable = {} THEN {Failed("NoSubCluster", rt)}
    ELSE UNION {InSubCluster(s, rt) : s \in Hashable}

\* BalanceEpp: EPP names the address of a local backend that is up, or of
\* one the balancer does not know, or gives no decision.
BalanceEpp(rt) ==
    IF rt > gslb.retryMax THEN {None}
    ELSE {b \in Backends : avail[b]} \cup {Temp, None}

-----------------------------------------------------------------------------
(* clusterInvoke.                                                          *)

\* Trans.Backend.DecConnNum() / IncConnNum(); only known backends matter.
Dec(b) == IF b \in Backends THEN [connNum EXCEPT ![b] = @ - 1] ELSE connNum
Inc(b) == IF b \in Backends THEN [connNum EXCEPT ![b] = @ + 1] ELSE connNum

\* A request reaches clusterInvoke.
Start(r) ==
    /\ pc[r] = "idle"
    /\ pc' = [pc EXCEPT ![r] = "loop"]
    /\ sticky' \in {[sticky EXCEPT ![r] = b] : b \in Backends \cup {None}}
    /\ resendable' \in {[resendable EXCEPT ![r] = x] : x \in BOOLEAN}
    /\ UNCHANGED <<avail, connNum, gslb, iter, retryTime, trans, chosen, err,
                   res, eppCtx, reinvokes, histVars>>

BadCloseOldStream(r) == streams[r]

\* The top of the loop closes the EPP stream of the previous try.
CloseOldStream(r) == IF eppCtx[r] THEN streams[r] - 1 ELSE streams[r]

\* The outcome o of the balancer: forward, try once more, or give up.
Decide(r, o) ==
    /\ err' = [err EXCEPT ![r] = o.err]
    /\ chosen' = [chosen EXCEPT ![r] = o.backend]
    /\ \/ /\ o.err = NoErr
          /\ pc' = [pc EXCEPT ![r] = "switch"]
          /\ retryTime' = [retryTime EXCEPT ![r] = o.retryTime]
          /\ UNCHANGED iter
       \/ /\ o.err = "CrossRetryBalance"
          /\ pc' = [pc EXCEPT ![r] = "loop"]
          /\ retryTime' = [retryTime EXCEPT ![r] = o.retryTime + 1]
          /\ iter' = [iter EXCEPT ![r] = @ + 1]
       \/ /\ o.err \notin {NoErr, "CrossRetryBalance"}
          /\ pc' = [pc EXCEPT ![r] = "returned"]
          /\ retryTime' = [retryTime EXCEPT ![r] = o.retryTime]
          /\ UNCHANGED iter

\* One pass through the top of the loop: close the old EPP stream, ask EPP,
\* and ask the local balancer if EPP named no backend.
Choose(r) ==
    /\ pc[r] = "loop"
    /\ iter[r] < LoopLimit
    /\ \E e \in IF EppMode THEN BalanceEpp(retryTime[r]) ELSE {None} :
         /\ eppCtx' = [eppCtx EXCEPT ![r] = e # None]
         /\ streams' = [streams EXCEPT ![r] =
                          CloseOldStream(r) + IF e # None THEN 1 ELSE 0]
         /\ \E o \in IF e # None THEN {Picked(e, retryTime[r])}
                     ELSE Balance(retryTime[r], sticky[r]) : Decide(r, o)
    /\ UNCHANGED <<avail, connNum, gslb, trans, sticky, resendable, res,
                   reinvokes, sent, tries, bodies,
                   mishap>>

\* The loop has run LoopLimit times.
LoopEnds(r) ==
    /\ pc[r] = "loop"
    /\ iter[r] = LoopLimit
    /\ pc' = [pc EXCEPT ![r] = "returned"]
    /\ UNCHANGED <<avail, connNum, gslb, iter, retryTime, trans, chosen,
                   sticky, resendable, err, res, eppCtx, reinvokes, histVars>>

BadReleaseOld(r) == connNum

\* The backend of the previous try loses this request.
ReleaseOld(r) == Dec(trans[r])

\* Leave the old backend, SetRequestTransport with the new one.
Switch(r) ==
    /\ pc[r] = "switch"
    /\ connNum' = ReleaseOld(r)
    /\ trans' = [trans EXCEPT ![r] = chosen[r]]
    /\ chosen' = [chosen EXCEPT ![r] = None]
    /\ pc' = [pc EXCEPT ![r] = "forward"]
    /\ UNCHANGED <<avail, gslb, iter, retryTime, sticky, resendable,
                   err, res, eppCtx, reinvokes, histVars>>

\* The HandleForward callbacks, then IncConnNum and the round trip.
Forward(r) ==
    /\ pc[r] = "forward"
    /\ connNum' = Inc(trans[r])
    /\ pc' = [pc EXCEPT ![r] = "roundtrip"]
    /\ tries' = [tries EXCEPT ![r] = @ + 1]
    /\ UNCHANGED <<avail, gslb, iter, retryTime, trans, chosen, sticky,
                   resendable, err, res, eppCtx, reinvokes, sent, bodies,
                   streams, mishap>>

\* A HandleForward callback returns BfeHandlerFinish.
ForwardFinish(r) ==
    /\ pc[r] = "forward"
    /\ ForwardMayFinish
    /\ pc' = [pc EXCEPT ![r] = "returned"]
    /\ mishap' = TRUE
    /\ UNCHANGED <<avail, connNum, gslb, iter, retryTime, trans, chosen,
                   sticky, resendable, err, res, eppCtx, reinvokes, sent, tries,
                   bodies, streams>>

\* RoundTrip returns a response.
RoundTripOK(r) ==
    /\ pc[r] = "roundtrip"
    /\ err' = [err EXCEPT ![r] = NoErr]
    /\ res' = [res EXCEPT ![r] = TRUE]
    /\ pc' = [pc EXCEPT ![r] = "returned"]
    /\ sent' = [sent EXCEPT ![r] = @ + 1]
    /\ bodies' = [bodies EXCEPT ![r] = @ + 1]
    /\ UNCHANGED <<avail, connNum, gslb, iter, retryTime, trans, chosen,
                   sticky, resendable, eppCtx, reinvokes, tries, streams, mishap>>

BadAllowRetry(r, e) == e # "BodyProcess"

\* The classification of round trip errors: a request that never left is
\* retried; one that may have been processed only if it can be repeated.
AllowRetry(r, e) == e = "Connect" \/ (e # "BodyProcess" /\ resendable[r])

\* RoundTrip fails.
RoundTripFails(r) ==
    /\ pc[r] = "roundtrip"
    /\ \E e \in TransportErrs :
         /\ err' = [err EXCEPT ![r] = e]
         /\ sent' = [sent EXCEPT ![r] = IF e = "Connect" THEN @ ELSE @ + 1]
         /\ IF AllowRetry(r, e)
              THEN /\ retryTime' = [retryTime EXCEPT ![r] = @ + 1]
                   /\ iter' = [iter EXCEPT ![r] = @ + 1]
                   /\ pc' = [pc EXCEPT ![r] = "loop"]
              ELSE /\ pc' = [pc EXCEPT ![r] = "returned"]
                   /\ UNCHANGED <<retryTime, iter>>
    /\ res' = [res EXCEPT ![r] = FALSE]
    /\ UNCHANGED <<avail, connNum, gslb, trans, chosen, sticky, resendable,
                   eppCtx, reinvokes, tries, bodies,
                   streams, mishap>>

\* err.(bfe_http.WriteRequestError) panics on a bfe_fcgi.WriteRequestError;
\* conn.serve recovers and closes the connection, FinishReq is not reached.
FcgiWritePanics(r) ==
    /\ pc[r] = "roundtrip"
    /\ Fcgi
    /\ pc' = [pc EXCEPT ![r] = "panicked"]
    /\ mishap' = TRUE
    /\ UNCHANGED <<avail, connNum, gslb, iter, retryTime, trans, chosen,
                   sticky, resendable, err, res, eppCtx, reinvokes, sent, tries,
                   bodies, streams>>

-----------------------------------------------------------------------------
(* What happens to a request after clusterInvoke has returned.             *)

\* ServeHTTP sends the response and closes its body and the EPP stream (or
\* closes the stream when there is no response); then FinishReq.  The request
\* is garbage afterwards.
Finish(r) ==
    /\ pc[r] = "returned"
    /\ connNum' = Dec(trans[r])
    /\ pc' = [pc EXCEPT ![r] = "done"]
    /\ bodies' = [bodies EXCEPT ![r] = IF res[r] THEN @ - 1 ELSE @]
    /\ streams' = [streams EXCEPT ![r] = IF eppCtx[r] THEN @ - 1 ELSE @]
    /\ eppCtx' = [eppCtx EXCEPT ![r] = FALSE]
    /\ iter' = [iter EXCEPT ![r] = 0]
    /\ retryTime' = [retryTime EXCEPT ![r] = 0]
    /\ trans' = [trans EXCEPT ![r] = None]
    /\ chosen' = [chosen EXCEPT ![r] = None]
    /\ sticky' = [sticky EXCEPT ![r] = None]
    /\ resendable' = [resendable EXCEPT ![r] = FALSE]
    /\ err' = [err EXCEPT ![r] = NoErr]
    /\ res' = [res EXCEPT ![r] = FALSE]
    /\ reinvokes' = [reinvokes EXCEPT ![r] = 0]
    /\ sent' = [sent EXCEPT ![r] = 0]
    /\ tries' = [tries EXCEPT ![r] = 0]
    /\ UNCHANGED <<avail, gslb, mishap>>

BadNextInvoke(r) == reinvokes[r]

\* The count of the key-level retries and of the fallback clusters.
NextInvoke(r) == reinvokes[r] + 1

\* aiClusterInvoke tries again after an error status or a failure other than
\* a rejected body, with another key or the same one: the request keeps its
\* RetryTime and its backend, the response is dropped.
KeyRetry(r) ==
    /\ pc[r] = "returned"
    /\ err[r] # "BodyProcess"
    /\ reinvokes[r] < MaxReinvokes
    /\ reinvokes' = [reinvokes EXCEPT ![r] = NextInvoke(r)]
    /\ pc' = [pc EXCEPT ![r] = "loop"]
    /\ iter' = [iter EXCEPT ![r] = 0]
    /\ err' = [err EXCEPT ![r] = NoErr]
    /\ res' = [res EXCEPT ![r] = FALSE]
    /\ tries' = [tries EXCEPT ![r] = 0]
    /\ UNCHANGED <<avail, connNum, gslb, retryTime, trans, chosen, sticky,
                   resendable, eppCtx, sent, bodies, streams,
                   mishap>>

BadResetTrans(r) == trans

\* resetRequestForRetry forgets the backend it has just left.
ResetTrans(r) == [trans EXCEPT ![r] = None]

BadCloseBody(r) == [bodies EXCEPT ![r] = @ - 1]

\* if res != nil { res.Body.Close() }
CloseBody(r) == [bodies EXCEPT ![r] = IF res[r] THEN @ - 1 ELSE @]

\* ServeHTTPForAI falls back to another cluster: it closes the body, then
\* resetRequestForRetry.
ClusterFallback(r) ==
    /\ pc[r] = "returned"
    /\ reinvokes[r] < MaxReinvokes
    /\ connNum' = Dec(trans[r])
    /\ trans' = ResetTrans(r)
    /\ retryTime' = [retryTime EXCEPT ![r] = 0]
    /\ reinvokes' = [reinvokes EXCEPT ![r] = NextInvoke(r)]
    /\ pc' = [pc EXCEPT ![r] = "loop"]
    /\ iter' = [iter EXCEPT ![r] = 0]
    /\ err' = [err EXCEPT ![r] = NoErr]
    /\ res' = [res EXCEPT ![r] = FALSE]
    /\ tries' = [tries EXCEPT ![r] = 0]
    /\ bodies' = CloseBody(r)
    /\ UNCHANGED <<avail, gslb, chosen, sticky, resendable, eppCtx, sent,
                   streams, mishap>>

-----------------------------------------------------------------------------

\* Health checks take backends down and bring them up.
AvailChanges ==
    /\ \E b \in Backends : avail' = [avail EXCEPT ![b] = ~@]
    /\ UNCHANGED <<connNum, gslb, reqVars, histVars>>

\* BalanceGslb.SetGslbBasic
SetGslbBasic ==
    /\ gslb' \in GslbBasics \ {gslb}
    /\ UNCHANGED <<avail, connNum, reqVars, histVars>>

Step(r) ==
    \/ Start(r) \/ Choose(r) \/ LoopEnds(r) \/ Switch(r) \/ Forward(r)
    \/ ForwardFinish(r) \/ RoundTripOK(r) \/ RoundTripFails(r)
    \/ FcgiWritePanics(r) \/ Finish(r) \/ KeyRetry(r) \/ ClusterFallback(r)

Next ==
    \/ \E r \in Requests : Step(r)
    \/ AvailChanges
    \/ SetGslbBasic

Spec == Init /\ [][Next]_vars

(***************************************************************************)
(* A request that has been started is scheduled, and a round trip ends:    *)
(* the transport has connect, write and response header timeouts.          *)
(***************************************************************************)
Fairness == \A r \in Requests : WF_vars(pc[r] # "idle" /\ Step(r))
FairSpec == Spec /\ Fairness

-----------------------------------------------------------------------------
(* Properties.                                                             *)

\* The requests a backend is serving.
Serving(b) ==
    {r \in Requests : trans[r] = b /\
                      pc[r] \in {"loop", "switch", "roundtrip", "returned"}}

\* connNum is, at every moment, the number of requests that have the backend as
\* the target of their current or last try, through retries, key changes and
\* cluster fallbacks; least-connection balancing relies on it.  Requests that
\* a callback finished early or that panicked are out of its scope.
ConnNumExact ==
    mishap \/ \A b \in Backends : connNum[b] = Cardinality(Serving(b))

\* A request that may already have been processed by a backend is sent again
\* only if it is a repeatable one: whatever the order of failures, retries,
\* sub-cluster changes and reloads.
NoDuplicateDelivery ==
    \A r \in Requests :
        sent[r] > 1 => resendable[r] \/ reinvokes[r] > 0

\* One clusterInvoke makes no more round trips than the retry limits allow,
\* and under reloads that change the limits never more than the loop does.
RetryBounded ==
    \A r \in Requests : \E g \in GslbBasics :
        tries[r] <= g.retryMax + g.crossRetry + 1

EppStreamClosed ==
    \A r \in Requests : /\ streams[r] = (IF eppCtx[r] THEN 1 ELSE 0)
                        /\ pc[r] = "done" => streams[r] = 0

\* What a request takes it gives back once, however often the AI path enters
\* clusterInvoke again with another key or cluster: the connection counters
\* are exact, and it never has two EPP streams, and none once it is done.
GivesBack == ConnNumExact /\ EppStreamClosed

\* reverseproxy.go, aiClusterInvoke: "keep current key selected for next retry
\* (with backoff)".  A key-level retry forwards the request again: it does not end, before any
\* try, on the limit that the tries with the previous key used up.
KeyRetryReachesBackend ==
    \A r \in Requests :
        pc[r] = "returned" /\ err[r] = "RetryTooMany" => tries[r] > 0

\* Every request that is started comes to an end.
RequestEnds ==
    \A r \in Requests : pc[r] = "loop" ~> pc[r] \in {"done", "panicked"}
=============================================================================
