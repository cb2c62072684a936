------------------------ MODULE ClusterInvokeProofs ------------------------
(***************************************************************************)
(* TLAPS proofs about ClusterInvoke, for any number of requests, backends  *)
(* and sub-clusters, any weights and retry limits, and any sequence of     *)
(* reloads and of changes of availability.                                 *)
(*                                                                         *)
(* The counters of the backends are exact because of what each program     *)
(* point of a request says about its backend (Placed); the retry limits    *)
(* and the single delivery follow from what each program point says about  *)
(* the tries made so far (Budgeted, Delivered); a request holds an EPP     *)
(* stream exactly while its context does (EppStreamClosed).                *)
(***************************************************************************)
EXTENDS ClusterInvoke, FiniteSetTheorems, TLAPS

\* A request that is not in clusterInvoke has no backend.
Placed == \A r \in Requests : pc[r] \in {"idle", "done"} => trans[r] = None

\* A response that has been obtained has a body that is still open.
BodyOpen == \A r \in Requests : res[r] => bodies[r] >= 1

\* The tries made so far, against the loop and against RetryTime.
Budgeted ==
    \A r \in Requests :
      /\ pc[r] \in {"loop", "switch", "forward"}
           => tries[r] <= iter[r] /\ tries[r] <= retryTime[r]
      /\ pc[r] = "roundtrip" => tries[r] <= iter[r] + 1
                                /\ tries[r] <= retryTime[r] + 1
      /\ pc[r] \in {"switch", "forward", "roundtrip"} => iter[r] < LoopLimit
      /\ pc[r] \in {"idle"} => tries[r] = 0
      /\ pc[r] \in {"switch", "forward"} =>
           \E g \in GslbBasics : retryTime[r] <= g.retryMax + g.crossRetry

\* What may have reached a backend when the request must not be repeated.
Delivered ==
    \A r \in Requests :
      /\ pc[r] = "idle" => sent[r] = 0
      /\ reinvokes[r] = 0 /\ ~resendable[r] =>
           /\ sent[r] <= 1
           /\ pc[r] \in {"loop", "switch", "forward", "roundtrip"}
                => sent[r] = 0

IInv ==
    /\ TypeOK
    /\ Placed
    /\ BodyOpen
    /\ EppStreamClosed
    /\ Budgeted
    /\ Delivered
    /\ RetryBounded
    /\ ConnNumExact

-----------------------------------------------------------------------------
(* What the balancer returns.                                              *)

\* What a try may be given: a backend or an error, and a RetryTime that has
\* not decreased and, with a backend, is within the current limits.
Outcome(o, rt) ==
    /\ o.backend \in Backends \cup {None, Temp}
    /\ o.err \in Errs
    /\ o.retryTime \in Nat /\ o.retryTime >= rt
    /\ o.err = NoErr => o.retryTime <= gslb.retryMax + gslb.crossRetry

\* CrossSelect leaves RetryTime alone.
LEMMA CrossOutcome ==
    ASSUME TypeOK, NEW s, NEW rt \in Nat,
           rt <= gslb.retryMax + gslb.crossRetry,
           NEW o \in CrossSelect(s, rt)
    PROVE  Outcome(o, rt)
<1>1. gslb.retryMax \in Nat /\ gslb.crossRetry \in Nat
  BY InvokeAssumption DEF TypeOK
<1>2. \/ \E e \in Errs \ {NoErr} : o = Failed(e, rt)
      \/ \E b \in Backends : o = Picked(b, rt)
  <2>1. CASE gslb.crossRetry <= 0
    BY <2>1, <1>1 DEF CrossSelect, Errs, NoErr
  <2>2. CASE gslb.crossRetry > 0 /\ CrossTargets(s) = {}
    BY <2>2, <1>1 DEF CrossSelect, Errs, NoErr
  <2>3. CASE gslb.crossRetry > 0 /\ CrossTargets(s) # {}
    <3>1. o \in UNION {IF Eligible(t) = {}
                         THEN {Failed("CrossRetryBalance", rt)}
                         ELSE {Picked(b, rt) : b \in Eligible(t)}
                       : t \in CrossTargets(s)}
      BY <2>3, <1>1 DEF CrossSelect
    <3> QED
      BY <3>1 DEF Eligible, Errs, NoErr
  <2> QED
    BY <2>1, <2>2, <2>3, <1>1
<1> QED
  BY <1>1, <1>2 DEF Outcome, Failed, Picked, Errs, NoErr

\* Balance gives back a RetryTime between the one it was given and the limits.
LEMMA BalanceOutcome ==
    ASSUME TypeOK, NEW rt \in Nat, NEW b \in Backends \cup {None},
           NEW o \in Balance(rt, b)
    PROVE  Outcome(o, rt)
<1>1. gslb.retryMax \in Nat /\ gslb.crossRetry \in Nat
  BY InvokeAssumption DEF TypeOK
<1>2. CASE TooManyRetries(rt)
  BY <1>2 DEF Balance, Outcome, Failed, Errs, NoErr
<1>3. CASE ~TooManyRetries(rt) /\ StickyUsable(b)
  <2>1. o = Picked(b, rt) /\ b \in Backends
    BY <1>3 DEF Balance, StickyUsable
  <2> QED
    BY <2>1, <1>1, <1>3 DEF Outcome, Picked, TooManyRetries, Errs
<1>4. CASE ~TooManyRetries(rt) /\ ~StickyUsable(b) /\ Hashable = {}
  BY <1>4 DEF Balance, Outcome, Failed, Errs, NoErr
<1>5. CASE ~TooManyRetries(rt) /\ ~StickyUsable(b) /\ Hashable # {}
  <2>1. PICK s \in Hashable : o \in InSubCluster(s, rt)
    BY <1>5 DEF Balance
  <2>2. CASE s = Blackhole
    BY <2>1, <2>2 DEF InSubCluster, Outcome, Failed, Errs, NoErr
  <2>3. CASE s # Blackhole /\ rt > gslb.retryMax
    BY <2>1, <2>3, <1>1, <1>5, CrossOutcome DEF InSubCluster, TooManyRetries
  <2>4. CASE s # Blackhole /\ ~(rt > gslb.retryMax) /\ Eligible(s) = {}
    <3>1. Outcome(o, gslb.retryMax)
      BY <2>1, <2>4, <1>1, CrossOutcome DEF InSubCluster
    <3> QED
      BY <3>1, <2>4, <1>1 DEF Outcome
  <2>5. CASE s # Blackhole /\ ~(rt > gslb.retryMax) /\ Eligible(s) # {}
    <3>1. \E c \in Backends : o = Picked(c, rt)
      BY <2>1, <2>5 DEF InSubCluster, Eligible
    <3> QED
      BY <3>1, <2>5, <1>1 DEF Outcome, Picked, Errs, NoErr
  <2> QED
    BY <2>2, <2>3, <2>4, <2>5
<1> QED
  BY <1>2, <1>3, <1>4, <1>5

\* The same for a try that asks EPP first.
LEMMA TryOutcome ==
    ASSUME TypeOK, NEW r \in Requests,
           NEW e \in IF EppMode THEN BalanceEpp(retryTime[r]) ELSE {None},
           NEW o \in IF e # None THEN {Picked(e, retryTime[r])}
                     ELSE Balance(retryTime[r], sticky[r])
    PROVE  Outcome(o, retryTime[r])
<1>1. gslb.retryMax \in Nat /\ gslb.crossRetry \in Nat
  BY InvokeAssumption DEF TypeOK
<1>2. retryTime[r] \in Nat /\ sticky[r] \in Backends \cup {None}
  BY DEF TypeOK
<1>3. CASE e = None
  BY <1>2, <1>3, BalanceOutcome
<1>4. CASE e # None
  <2>1. ~(retryTime[r] > gslb.retryMax) /\ e \in Backends \cup {Temp}
    BY <1>4 DEF BalanceEpp
  <2> QED
    BY <2>1, <1>1, <1>2, <1>4 DEF Outcome, Picked, Errs, NoErr
<1> QED
  BY <1>3, <1>4

-----------------------------------------------------------------------------
(* One step of a request.                                                  *)

\* A pass through the top of the loop, by what the balancer returns.
LEMMA ChooseStep ==
    ASSUME TypeOK, NEW r \in Requests, Choose(r)
    PROVE  \E e, o :
             /\ eppCtx' = [eppCtx EXCEPT ![r] = e # None]
             /\ streams' = [streams EXCEPT ![r] =
                              CloseOldStream(r) + IF e # None THEN 1 ELSE 0]
             /\ Outcome(o, retryTime[r])
             /\ Decide(r, o)
<1>1. PICK e \in IF EppMode THEN BalanceEpp(retryTime[r]) ELSE {None} :
        /\ eppCtx' = [eppCtx EXCEPT ![r] = e # None]
        /\ streams' = [streams EXCEPT ![r] =
                         CloseOldStream(r) + IF e # None THEN 1 ELSE 0]
        /\ \E o \in IF e # None THEN {Picked(e, retryTime[r])}
                    ELSE Balance(retryTime[r], sticky[r]) : Decide(r, o)
  BY Zenon DEF Choose
<1>2. PICK o \in IF e # None THEN {Picked(e, retryTime[r])}
                 ELSE Balance(retryTime[r], sticky[r]) : Decide(r, o)
  BY <1>1, Zenon
<1>3. Outcome(o, retryTime[r])
  BY TryOutcome
<1> QED
  BY <1>1, <1>2, <1>3, Zenon

\* A request's step keeps the types, the bodies and the streams.
LEMMA TypeStep ==
    ASSUME TypeOK, BodyOpen, EppStreamClosed, Budgeted,
           NEW r \in Requests, Step(r)
    PROVE  TypeOK' /\ BodyOpen' /\ EppStreamClosed'
<1> USE DEF TypeOK, BodyOpen, EppStreamClosed, PCs
<1>0. NoErr \in Errs /\ TransportErrs \subseteq Errs /\ LoopLimit \in Nat
      /\ MaxReinvokes \in Nat
  BY InvokeAssumption DEF Errs
<1>1. CASE Start(r)
  BY <1>1, <1>0 DEF Start, histVars
<1>2. CASE Choose(r)
  <2>1. PICK e, o :
             /\ eppCtx' = [eppCtx EXCEPT ![r] = e # None]
             /\ streams' = [streams EXCEPT ![r] =
                              CloseOldStream(r) + IF e # None THEN 1 ELSE 0]
             /\ Outcome(o, retryTime[r])
             /\ Decide(r, o)
    BY <1>2, ChooseStep, Zenon
  <2>2. /\ UNCHANGED <<avail, connNum, gslb, trans, sticky, resendable, res,
                       reinvokes, sent, tries, bodies, mishap>>
        /\ pc[r] = "loop" /\ iter[r] < LoopLimit
    BY <1>2 DEF Choose
  <2>3. /\ pc' \in [Requests -> PCs] /\ iter' \in [Requests -> 0 .. LoopLimit]
        /\ retryTime' \in [Requests -> Nat] /\ err' \in [Requests -> Errs]
        /\ chosen' \in [Requests -> Backends \cup {None, Temp}]
        /\ pc'[r] # "done" /\ \A q \in Requests \ {r} : pc'[q] = pc[q]
    BY <2>1, <2>2, <1>0 DEF Decide, Outcome
  <2>4. /\ eppCtx' \in [Requests -> BOOLEAN]
        /\ eppCtx'[r] = (e # None)
        /\ \A q \in Requests \ {r} : eppCtx'[q] = eppCtx[q]
    BY <2>1
  <2>5. CloseOldStream(r) = 0
    BY DEF CloseOldStream
  <2>6. /\ streams' \in [Requests -> Nat]
        /\ streams'[r] = (IF e # None THEN 1 ELSE 0)
        /\ \A q \in Requests \ {r} : streams'[q] = streams[q]
    BY <2>1, <2>5
  <2> QED
    BY <2>2, <2>3, <2>4, <2>6
<1>3. CASE LoopEnds(r)
  BY <1>3, <1>0 DEF LoopEnds, histVars
<1>4. CASE Switch(r)
  BY <1>4, <1>0 DEF Switch, ReleaseOld, Dec, histVars
<1>5. CASE Forward(r)
  BY <1>5, <1>0 DEF Forward, Inc, histVars, Budgeted
<1>6. CASE ForwardFinish(r)
  BY <1>6, <1>0 DEF ForwardFinish, histVars
<1>7. CASE RoundTripOK(r)
  BY <1>7, <1>0 DEF RoundTripOK, histVars
<1>8. CASE RoundTripFails(r)
  BY <1>8, <1>0 DEF RoundTripFails, AllowRetry, TransportErrs, histVars, Budgeted
<1>9. CASE FcgiWritePanics(r)
  BY <1>9, <1>0 DEF FcgiWritePanics, histVars
<1>10. CASE Finish(r)
  BY <1>10, <1>0 DEF Finish, Dec, histVars
<1>11. CASE KeyRetry(r)
  BY <1>11, <1>0 DEF KeyRetry, NextInvoke, histVars
<1>12. CASE ClusterFallback(r)
  BY <1>12, <1>0 DEF ClusterFallback, Dec, NextInvoke, ResetTrans, CloseBody, histVars
<1> QED
  BY <1>1, <1>2, <1>3, <1>4, <1>5, <1>6, <1>7, <1>8, <1>9, <1>10, <1>11, <1>12 DEF Step

\* A request's step keeps its backend in place.
LEMMA PlacedStep ==
    ASSUME TypeOK, Placed,
           NEW r \in Requests, Step(r)
    PROVE  Placed'
<1> USE DEF TypeOK, Placed
<1>1. CASE Start(r)
  BY <1>1 DEF Start, histVars
<1>2. CASE Choose(r)
  <2>1. PICK o : Outcome(o, retryTime[r]) /\ Decide(r, o)
    BY <1>2, ChooseStep, Zenon
  <2> QED
    BY <2>1, <1>2 DEF Choose, Decide
<1>3. CASE LoopEnds(r)
  BY <1>3 DEF LoopEnds, histVars
<1>4. CASE Switch(r)
  BY <1>4 DEF Switch, ReleaseOld, Dec, histVars
<1>5. CASE Forward(r)
  BY <1>5 DEF Forward, Inc, histVars
<1>6. CASE ForwardFinish(r)
  BY <1>6 DEF ForwardFinish, histVars
<1>7. CASE RoundTripOK(r)
  BY <1>7 DEF RoundTripOK, histVars
<1>8. CASE RoundTripFails(r)
  BY <1>8 DEF RoundTripFails, AllowRetry, TransportErrs, histVars
<1>9. CASE FcgiWritePanics(r)
  BY <1>9 DEF FcgiWritePanics, histVars
<1>10. CASE Finish(r)
  BY <1>10 DEF Finish, Dec, histVars
<1>11. CASE KeyRetry(r)
  BY <1>11 DEF KeyRetry, NextInvoke, histVars
<1>12. CASE ClusterFallback(r)
  BY <1>12 DEF ClusterFallback, Dec, NextInvoke, ResetTrans, CloseBody, histVars
<1> QED
  BY <1>1, <1>2, <1>3, <1>4, <1>5, <1>6, <1>7, <1>8, <1>9, <1>10, <1>11, <1>12 DEF Step

\* A request's step keeps its tries within the loop and the limits.
LEMMA BudgetStep ==
    ASSUME TypeOK, Budgeted,
           NEW r \in Requests, Step(r)
    PROVE  Budgeted'
<1> USE DEF TypeOK, Budgeted
<1>0. gslb \in GslbBasics /\ gslb.retryMax \in Nat /\ gslb.crossRetry \in Nat
      /\ LoopLimit \in Nat
  BY InvokeAssumption
<1>1. CASE Start(r)
  BY <1>1 DEF Start, histVars
<1>2. CASE Choose(r)
  <2>1. PICK o : Outcome(o, retryTime[r]) /\ Decide(r, o)
    BY <1>2, ChooseStep, Zenon
  <2>2. /\ pc[r] = "loop" /\ iter[r] < LoopLimit
        /\ UNCHANGED <<tries, gslb>>
    BY <1>2 DEF Choose
  <2>3. o.err = NoErr => \E g \in GslbBasics :
                           o.retryTime <= g.retryMax + g.crossRetry
    BY <2>1, <1>0 DEF Outcome
  <2>4. \A q \in Requests \ {r} : /\ pc'[q] = pc[q] /\ tries'[q] = tries[q]
                                  /\ iter'[q] = iter[q]
                                  /\ retryTime'[q] = retryTime[q]
    BY <2>1, <2>2 DEF Decide
  <2>5. CASE o.err = NoErr
    <3>1. /\ pc'[r] = "switch" /\ retryTime'[r] = o.retryTime
          /\ iter'[r] = iter[r] /\ tries'[r] = tries[r]
      BY <2>1, <2>2, <2>5 DEF Decide, NoErr
    <3> QED
      BY <3>1, <2>1, <2>2, <2>3, <2>4, <2>5, <1>0 DEF Outcome
  <2>6. CASE o.err = "CrossRetryBalance"
    <3>1. /\ pc'[r] = "loop" /\ retryTime'[r] = o.retryTime + 1
          /\ iter'[r] = iter[r] + 1 /\ tries'[r] = tries[r]
      BY <2>1, <2>2, <2>6 DEF Decide, NoErr
    <3> QED
      BY <3>1, <2>1, <2>2, <2>4, <1>0 DEF Outcome
  <2>7. CASE o.err \notin {NoErr, "CrossRetryBalance"}
    <3>1. pc'[r] = "returned"
      BY <2>1, <2>7 DEF Decide
    <3> QED
      BY <3>1, <2>4
  <2> QED
    BY <2>5, <2>6, <2>7
<1>3. CASE LoopEnds(r)
  BY <1>3 DEF LoopEnds, histVars
<1>4. CASE Switch(r)
  BY <1>4 DEF Switch, ReleaseOld, Dec, histVars
<1>5. CASE Forward(r)
  BY <1>5 DEF Forward, Inc, histVars
<1>6. CASE ForwardFinish(r)
  BY <1>6 DEF ForwardFinish, histVars
<1>7. CASE RoundTripOK(r)
  BY <1>7 DEF RoundTripOK, histVars
<1>8. CASE RoundTripFails(r)
  BY <1>8 DEF RoundTripFails, AllowRetry, TransportErrs, histVars
<1>9. CASE FcgiWritePanics(r)
  BY <1>9 DEF FcgiWritePanics, histVars
<1>10. CASE Finish(r)
  BY <1>10 DEF Finish, Dec, histVars
<1>11. CASE KeyRetry(r)
  BY <1>11 DEF KeyRetry, NextInvoke, histVars
<1>12. CASE ClusterFallback(r)
  BY <1>12 DEF ClusterFallback, Dec, NextInvoke, ResetTrans, CloseBody, histVars
<1> QED
  BY <1>1, <1>2, <1>3, <1>4, <1>5, <1>6, <1>7, <1>8, <1>9, <1>10, <1>11, <1>12 DEF Step

\* A request's step does not send what may not be repeated.
LEMMA DeliveredStep ==
    ASSUME TypeOK, Delivered,
           NEW r \in Requests, Step(r)
    PROVE  Delivered'
<1> USE DEF TypeOK, Delivered
<1>1. CASE Start(r)
  BY <1>1 DEF Start, histVars
<1>2. CASE Choose(r)
  <2>1. PICK o : Outcome(o, retryTime[r]) /\ Decide(r, o)
    BY <1>2, ChooseStep, Zenon
  <2> QED
    BY <2>1, <1>2 DEF Choose, Decide
<1>3. CASE LoopEnds(r)
  BY <1>3 DEF LoopEnds, histVars
<1>4. CASE Switch(r)
  BY <1>4 DEF Switch, ReleaseOld, Dec, histVars
<1>5. CASE Forward(r)
  BY <1>5 DEF Forward, Inc, histVars
<1>6. CASE ForwardFinish(r)
  BY <1>6 DEF ForwardFinish, histVars
<1>7. CASE RoundTripOK(r)
  BY <1>7 DEF RoundTripOK, histVars
<1>8. CASE RoundTripFails(r)
  BY <1>8 DEF RoundTripFails, AllowRetry, TransportErrs, histVars
<1>9. CASE FcgiWritePanics(r)
  BY <1>9 DEF FcgiWritePanics, histVars
<1>10. CASE Finish(r)
  BY <1>10 DEF Finish, Dec, histVars
<1>11. CASE KeyRetry(r)
  BY <1>11 DEF KeyRetry, NextInvoke, histVars
<1>12. CASE ClusterFallback(r)
  BY <1>12 DEF ClusterFallback, Dec, NextInvoke, ResetTrans, CloseBody, histVars
<1> QED
  BY <1>1, <1>2, <1>3, <1>4, <1>5, <1>6, <1>7, <1>8, <1>9, <1>10, <1>11, <1>12 DEF Step

\* A request's step keeps its tries within some limits.
LEMMA BoundedStep ==
    ASSUME TypeOK, Budgeted, RetryBounded,
           NEW r \in Requests, Step(r)
    PROVE  RetryBounded'
<1> USE DEF TypeOK, Budgeted, RetryBounded
<1>1. CASE Start(r)
  BY <1>1 DEF Start, histVars
<1>2. CASE Choose(r)
  <2>1. PICK o : Outcome(o, retryTime[r]) /\ Decide(r, o)
    BY <1>2, ChooseStep, Zenon
  <2> QED
    BY <2>1, <1>2 DEF Choose, Decide
<1>3. CASE LoopEnds(r)
  BY <1>3 DEF LoopEnds, histVars
<1>4. CASE Switch(r)
  BY <1>4 DEF Switch, ReleaseOld, Dec, histVars
<1>5. CASE Forward(r)
  <2>1. PICK g \in GslbBasics : retryTime[r] <= g.retryMax + g.crossRetry
    BY <1>5 DEF Forward
  <2>2. g.retryMax \in Nat /\ g.crossRetry \in Nat
    BY InvokeAssumption
  <2>3. /\ tries'[r] = tries[r] + 1 /\ tries[r] <= retryTime[r]
        /\ \A q \in Requests \ {r} : tries'[q] = tries[q]
    BY <1>5 DEF Forward
  <2>4. tries'[r] <= g.retryMax + g.crossRetry + 1
    BY <2>1, <2>2, <2>3
  <2> QED
    BY <2>3, <2>4
<1>6. CASE ForwardFinish(r)
  BY <1>6 DEF ForwardFinish, histVars
<1>7. CASE RoundTripOK(r)
  BY <1>7 DEF RoundTripOK, histVars
<1>8. CASE RoundTripFails(r)
  BY <1>8 DEF RoundTripFails, AllowRetry, TransportErrs, histVars
<1>9. CASE FcgiWritePanics(r)
  BY <1>9 DEF FcgiWritePanics, histVars
<1>10. CASE Finish(r)
  <2>1. PICK g \in GslbBasics : g.retryMax \in Nat /\ g.crossRetry \in Nat
    BY InvokeAssumption
  <2>2. /\ tries'[r] = 0
        /\ \A q \in Requests \ {r} : tries'[q] = tries[q]
    BY <1>10 DEF Finish
  <2>3. tries'[r] <= g.retryMax + g.crossRetry + 1
    BY <2>1, <2>2
  <2> QED
    BY <2>2, <2>3
<1>11. CASE KeyRetry(r)
  <2>1. PICK g \in GslbBasics : g.retryMax \in Nat /\ g.crossRetry \in Nat
    BY InvokeAssumption
  <2>2. /\ tries'[r] = 0
        /\ \A q \in Requests \ {r} : tries'[q] = tries[q]
    BY <1>11 DEF KeyRetry
  <2>3. tries'[r] <= g.retryMax + g.crossRetry + 1
    BY <2>1, <2>2
  <2> QED
    BY <2>2, <2>3
<1>12. CASE ClusterFallback(r)
  <2>1. PICK g \in GslbBasics : g.retryMax \in Nat /\ g.crossRetry \in Nat
    BY InvokeAssumption
  <2>2. /\ tries'[r] = 0
        /\ \A q \in Requests \ {r} : tries'[q] = tries[q]
    BY <1>12 DEF ClusterFallback
  <2>3. tries'[r] <= g.retryMax + g.crossRetry + 1
    BY <2>1, <2>2
  <2> QED
    BY <2>2, <2>3
<1> QED
  BY <1>1, <1>2, <1>3, <1>4, <1>5, <1>6, <1>7, <1>8, <1>9, <1>10, <1>11, <1>12 DEF Step

-----------------------------------------------------------------------------
(* The connection counters.                                                *)

\* The request counts for backend b.
CountsFor(r, b) ==
    trans[r] = b /\ pc[r] \in {"loop", "switch", "roundtrip", "returned"}

\* A step of one request keeps the counters exact if it adds to a counter, or
\* takes from it, what the request begins or ceases to count for.
LEMMA Recount ==
    ASSUME TypeOK, ConnNumExact, NEW r \in Requests,
           mishap => mishap',
           \A q \in Requests \ {r} : trans'[q] = trans[q] /\ pc'[q] = pc[q],
           mishap' \/ \A b \in Backends :
             connNum'[b] = connNum[b] + (IF CountsFor(r, b)' THEN 1 ELSE 0)
                                      - (IF CountsFor(r, b) THEN 1 ELSE 0)
    PROVE  ConnNumExact'
<1> SUFFICES ASSUME ~mishap', NEW b \in Backends
             PROVE  connNum'[b] = Cardinality(Serving(b)')
  BY DEF ConnNumExact
<1> DEFINE rest == {q \in Requests \ {r} : CountsFor(q, b)}
<1>1. connNum[b] = Cardinality(Serving(b))
  BY DEF ConnNumExact
<1>2. connNum'[b] = connNum[b] + (IF CountsFor(r, b)' THEN 1 ELSE 0)
                               - (IF CountsFor(r, b) THEN 1 ELSE 0)
  OBVIOUS
<1>3. IsFiniteSet(rest)
  BY InvokeAssumption, FS_Subset, IsFiniteSet(Requests), rest \in SUBSET Requests
<1>4. Cardinality(rest) \in Nat
  BY <1>3, FS_CardinalityType
<1>5. Serving(b) = IF CountsFor(r, b) THEN rest \cup {r} ELSE rest
  BY DEF Serving, CountsFor
<1>6. Serving(b)' = IF CountsFor(r, b)' THEN rest \cup {r} ELSE rest
  BY DEF Serving, CountsFor
<1>7. Cardinality(rest \cup {r}) = Cardinality(rest) + 1
  BY <1>3, FS_AddElement
<1> HIDE DEF rest
<1> QED
  BY <1>1, <1>2, <1>4, <1>5, <1>6, <1>7

\* A request's step keeps the counters of the backends exact.
LEMMA CountStep ==
    ASSUME TypeOK, Placed, ConnNumExact, NEW r \in Requests, Step(r)
    PROVE  ConnNumExact'
<1> USE DEF TypeOK, CountsFor
<1>0. /\ \A b \in Backends : connNum[b] \in Int /\ b # None
      /\ trans[r] \in Backends \cup {None, Temp}
  BY InvokeAssumption
<1>1. CASE Start(r)
  <2>1. /\ mishap => mishap'
        /\ \A q \in Requests \ {r} : trans'[q] = trans[q] /\ pc'[q] = pc[q]
    BY <1>1 DEF Start, histVars
  <2>2. mishap' \/ \A b \in Backends :
          connNum'[b] = connNum[b] + (IF CountsFor(r, b)' THEN 1 ELSE 0)
                                   - (IF CountsFor(r, b) THEN 1 ELSE 0)
    BY <1>1, <1>0 DEF Start, histVars, Placed
  <2> QED
    BY <2>1, <2>2, Recount
<1>2. CASE Choose(r)
  <2>1. PICK o : Decide(r, o)
    BY <1>2, ChooseStep, Zenon
  <2>2. pc'[r] \in {"loop", "switch", "returned"} /\ pc[r] = "loop"
    BY <2>1, <1>2 DEF Choose, Decide
  <2>3. /\ UNCHANGED <<mishap, connNum, trans>>
        /\ \A q \in Requests \ {r} : pc'[q] = pc[q]
    BY <2>1, <1>2 DEF Choose, Decide
  <2>4. \A b \in Backends : CountsFor(r, b)' = CountsFor(r, b)
    BY <2>2, <2>3
  <2>5. \A b \in Backends :
          connNum'[b] = connNum[b] + (IF CountsFor(r, b)' THEN 1 ELSE 0)
                                   - (IF CountsFor(r, b) THEN 1 ELSE 0)
    BY <2>3, <2>4, <1>0
  <2> QED
    BY <2>3, <2>5, Recount
<1>3. CASE LoopEnds(r)
  <2>1. /\ mishap => mishap'
        /\ \A q \in Requests \ {r} : trans'[q] = trans[q] /\ pc'[q] = pc[q]
    BY <1>3 DEF LoopEnds, histVars
  <2>2. mishap' \/ \A b \in Backends :
          connNum'[b] = connNum[b] + (IF CountsFor(r, b)' THEN 1 ELSE 0)
                                   - (IF CountsFor(r, b) THEN 1 ELSE 0)
    BY <1>3, <1>0 DEF LoopEnds, histVars
  <2> QED
    BY <2>1, <2>2, Recount
<1>4. CASE Switch(r)
  <2>1. /\ mishap => mishap'
        /\ \A q \in Requests \ {r} : trans'[q] = trans[q] /\ pc'[q] = pc[q]
    BY <1>4 DEF Switch, ReleaseOld, Dec, histVars
  <2>2. mishap' \/ \A b \in Backends :
          connNum'[b] = connNum[b] + (IF CountsFor(r, b)' THEN 1 ELSE 0)
                                   - (IF CountsFor(r, b) THEN 1 ELSE 0)
    BY <1>4, <1>0 DEF Switch, ReleaseOld, Dec, histVars
  <2> QED
    BY <2>1, <2>2, Recount
<1>5. CASE Forward(r)
  <2>1. /\ mishap => mishap'
        /\ \A q \in Requests \ {r} : trans'[q] = trans[q] /\ pc'[q] = pc[q]
    BY <1>5 DEF Forward, Inc, histVars
  <2>2. mishap' \/ \A b \in Backends :
          connNum'[b] = connNum[b] + (IF CountsFor(r, b)' THEN 1 ELSE 0)
                                   - (IF CountsFor(r, b) THEN 1 ELSE 0)
    BY <1>5, <1>0 DEF Forward, Inc, histVars
  <2> QED
    BY <2>1, <2>2, Recount
<1>6. CASE ForwardFinish(r)
  <2>1. /\ mishap => mishap'
        /\ \A q \in Requests \ {r} : trans'[q] = trans[q] /\ pc'[q] = pc[q]
    BY <1>6 DEF ForwardFinish, histVars
  <2>2. mishap' \/ \A b \in Backends :
          connNum'[b] = connNum[b] + (IF CountsFor(r, b)' THEN 1 ELSE 0)
                                   - (IF CountsFor(r, b) THEN 1 ELSE 0)
    BY <1>6, <1>0 DEF ForwardFinish, histVars
  <2> QED
    BY <2>1, <2>2, Recount
<1>7. CASE RoundTripOK(r)
  <2>1. /\ mishap => mishap'
        /\ \A q \in Requests \ {r} : trans'[q] = trans[q] /\ pc'[q] = pc[q]
    BY <1>7 DEF RoundTripOK, histVars
  <2>2. mishap' \/ \A b \in Backends :
          connNum'[b] = connNum[b] + (IF CountsFor(r, b)' THEN 1 ELSE 0)
                                   - (IF CountsFor(r, b) THEN 1 ELSE 0)
    BY <1>7, <1>0 DEF RoundTripOK, histVars
  <2> QED
    BY <2>1, <2>2, Recount
<1>8. CASE RoundTripFails(r)
  <2>1. /\ mishap => mishap'
        /\ \A q \in Requests \ {r} : trans'[q] = trans[q] /\ pc'[q] = pc[q]
    BY <1>8 DEF RoundTripFails, AllowRetry, TransportErrs, histVars
  <2>2. mishap' \/ \A b \in Backends :
          connNum'[b] = connNum[b] + (IF CountsFor(r, b)' THEN 1 ELSE 0)
                                   - (IF CountsFor(r, b) THEN 1 ELSE 0)
    BY <1>8, <1>0 DEF RoundTripFails, AllowRetry, TransportErrs, histVars
  <2> QED
    BY <2>1, <2>2, Recount
<1>9. CASE FcgiWritePanics(r)
  <2>1. /\ mishap => mishap'
        /\ \A q \in Requests \ {r} : trans'[q] = trans[q] /\ pc'[q] = pc[q]
    BY <1>9 DEF FcgiWritePanics, histVars
  <2>2. mishap' \/ \A b \in Backends :
          connNum'[b] = connNum[b] + (IF CountsFor(r, b)' THEN 1 ELSE 0)
                                   - (IF CountsFor(r, b) THEN 1 ELSE 0)
    BY <1>9, <1>0 DEF FcgiWritePanics, histVars
  <2> QED
    BY <2>1, <2>2, Recount
<1>10. CASE Finish(r)
  <2>1. /\ mishap => mishap'
        /\ \A q \in Requests \ {r} : trans'[q] = trans[q] /\ pc'[q] = pc[q]
    BY <1>10 DEF Finish, Dec, histVars
  <2>2. mishap' \/ \A b \in Backends :
          connNum'[b] = connNum[b] + (IF CountsFor(r, b)' THEN 1 ELSE 0)
                                   - (IF CountsFor(r, b) THEN 1 ELSE 0)
    BY <1>10, <1>0 DEF Finish, Dec, histVars
  <2> QED
    BY <2>1, <2>2, Recount
<1>11. CASE KeyRetry(r)
  <2>1. /\ mishap => mishap'
        /\ \A q \in Requests \ {r} : trans'[q] = trans[q] /\ pc'[q] = pc[q]
    BY <1>11 DEF KeyRetry, histVars
  <2>2. mishap' \/ \A b \in Backends :
          connNum'[b] = connNum[b] + (IF CountsFor(r, b)' THEN 1 ELSE 0)
                                   - (IF CountsFor(r, b) THEN 1 ELSE 0)
    BY <1>11, <1>0 DEF KeyRetry, histVars
  <2> QED
    BY <2>1, <2>2, Recount
<1>12. CASE ClusterFallback(r)
  <2>1. /\ mishap => mishap'
        /\ \A q \in Requests \ {r} : trans'[q] = trans[q] /\ pc'[q] = pc[q]
    BY <1>12 DEF ClusterFallback, Dec, ResetTrans, histVars
  <2>2. mishap' \/ \A b \in Backends :
          connNum'[b] = connNum[b] + (IF CountsFor(r, b)' THEN 1 ELSE 0)
                                   - (IF CountsFor(r, b) THEN 1 ELSE 0)
    BY <1>12, <1>0 DEF ClusterFallback, Dec, ResetTrans, histVars
  <2> QED
    BY <2>1, <2>2, Recount
<1> QED
  BY <1>1, <1>2, <1>3, <1>4, <1>5, <1>6, <1>7, <1>8, <1>9, <1>10, <1>11, <1>12 DEF Step

-----------------------------------------------------------------------------
(* The theorems.                                                           *)

\* Initially every request is idle and every counter zero.
LEMMA InitIInv == Init => IInv
<1> SUFFICES ASSUME Init PROVE IInv
  OBVIOUS
<1> USE DEF Init
<1>1. TypeOK
  <2>1. 0 \in 0 .. LoopLimit /\ 0 \in 0 .. MaxReinvokes /\ NoErr \in Errs
    BY InvokeAssumption DEF Errs
  <2>2. /\ avail \in [Backends -> BOOLEAN]
        /\ resendable \in [Requests -> BOOLEAN]
        /\ res \in [Requests -> BOOLEAN]
        /\ eppCtx \in [Requests -> BOOLEAN]
        /\ mishap \in BOOLEAN
    BY Zenon
  <2>3. /\ connNum \in [Backends -> Int]
        /\ gslb \in GslbBasics
        /\ pc \in [Requests -> PCs]
        /\ iter \in [Requests -> 0 .. LoopLimit]
        /\ retryTime \in [Requests -> Nat]
        /\ err \in [Requests -> Errs]
    BY <2>1, SMT DEF PCs
  <2>4. /\ trans \in [Requests -> Backends \cup {None, Temp}]
        /\ chosen \in [Requests -> Backends \cup {None, Temp}]
        /\ sticky \in [Requests -> Backends \cup {None}]
    BY SMT
  <2>5. /\ reinvokes \in [Requests -> 0 .. MaxReinvokes]
        /\ sent \in [Requests -> Nat]
        /\ tries \in [Requests -> 0 .. LoopLimit]
        /\ bodies \in [Requests -> Nat]
        /\ streams \in [Requests -> Nat]
    BY <2>1, SMT
  <2> QED
    BY <2>2, <2>3, <2>4, <2>5 DEF TypeOK
<1>2. Placed /\ BodyOpen /\ EppStreamClosed /\ Budgeted /\ Delivered
  BY DEF Placed, BodyOpen, EppStreamClosed, Budgeted, Delivered
<1>3. RetryBounded
  <2>1. PICK g \in GslbBasics : g.retryMax \in Nat /\ g.crossRetry \in Nat
    BY InvokeAssumption
  <2>2. 0 <= g.retryMax + g.crossRetry + 1
    BY <2>1
  <2> QED
    BY <2>2 DEF RetryBounded
<1>4. ConnNumExact
  <2>1. \A b \in Backends : Serving(b) = {}
    BY DEF Serving
  <2> QED
    BY <2>1, FS_EmptySet DEF ConnNumExact
<1> QED
  BY <1>1, <1>2, <1>3, <1>4 DEF IInv

\* Every step, of a request, of a health check or of a reload, keeps IInv.
LEMMA StepIInv == IInv /\ [Next]_vars => IInv'
<1> SUFFICES ASSUME IInv, [Next]_vars PROVE IInv'
  OBVIOUS
<1> USE DEF IInv
<1>1. ASSUME NEW r \in Requests, Step(r) PROVE IInv'
  BY <1>1, TypeStep, PlacedStep, BudgetStep, DeliveredStep, BoundedStep,
     CountStep
<1>2. CASE AvailChanges \/ SetGslbBasic \/ UNCHANGED vars
  <2>1. /\ UNCHANGED <<connNum, reqVars, histVars>>
        /\ gslb' \in GslbBasics /\ avail' \in [Backends -> BOOLEAN]
    BY <1>2 DEF AvailChanges, SetGslbBasic, vars, TypeOK
  <2>2. TypeOK' /\ Placed' /\ BodyOpen' /\ EppStreamClosed'
    BY <2>1 DEF TypeOK, Placed, BodyOpen, EppStreamClosed, reqVars, histVars
  <2>3. Budgeted' /\ Delivered' /\ RetryBounded'
    BY <2>1 DEF Budgeted, Delivered, RetryBounded, reqVars, histVars
  <2>4. ConnNumExact'
    BY <2>1 DEF ConnNumExact, Serving, reqVars, histVars
  <2> QED
    BY <2>2, <2>3, <2>4
<1> QED
  BY <1>1, <1>2 DEF Next

\* The invariant that all the theorems below follow from.
LEMMA Invariant == Spec => []IInv
<1> QED
  BY InitIInv, StepIInv, PTL DEF Spec

\* Every variable keeps its type; in particular the loop of clusterInvoke never
\* makes more than LoopLimit round trips.
THEOREM TypeCorrect == Spec => []TypeOK
<1>1. IInv => TypeOK
  BY DEF IInv
<1> QED
  BY <1>1, Invariant, PTL

\* connNum of a backend is the number of requests that have it as the target of
\* their current or last try, through retries, key changes, cluster fallbacks
\* and reloads.
THEOREM CountersExact == Spec => []ConnNumExact
<1>1. IInv => ConnNumExact
  BY DEF IInv
<1> QED
  BY <1>1, Invariant, PTL

\* A request that may have been processed is sent again by clusterInvoke only
\* if checkAllowRetry lets it be repeated.
THEOREM DeliveredOnce == Spec => []NoDuplicateDelivery
<1>1. IInv => NoDuplicateDelivery
  BY DEF IInv, TypeOK, Delivered, NoDuplicateDelivery
<1> QED
  BY <1>1, Invariant, PTL

\* One clusterInvoke makes no more round trips than retryMax + crossRetry + 1
\* of some configuration in force, whatever is reloaded meanwhile.
THEOREM TriesBounded == Spec => []RetryBounded
<1>1. IInv => RetryBounded
  BY DEF IInv
<1> QED
  BY <1>1, Invariant, PTL

\* A request gives back once what it takes: connections and EPP streams, also
\* when the AI path enters clusterInvoke again.
THEOREM GivenBack == Spec => []GivesBack
<1>1. IInv => GivesBack
  BY DEF IInv, GivesBack
<1> QED
  BY <1>1, Invariant, PTL
=============================================================================
