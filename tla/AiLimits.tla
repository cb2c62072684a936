------------------------------ MODULE AiLimits ------------------------------
(***************************************************************************)
(* mod_ai_rate_limit: the policies bound to an API key, checked once per   *)
(* request when its target model is known and settled when it finishes.    *)
(* Counters live in Redis, shared by all gateways; one action is one run   *)
(* of a Redis script, or one read of the tables that a reload replaces.    *)
(*                                                                         *)
(* A window of the token limit is one bucket (window_minutes = 1), and the *)
(* tokens of a request are known when it finishes: Convert sets the        *)
(* reserved part to 0.                                                     *)
(***************************************************************************)
EXTENDS Integers, Sequences, FiniteSets, FiniteSetsExt, SequencesExt

CONSTANTS
    LReqs,
    Tables,        \* policies that a version of the rules binds to the key, in order
    MaxConcurrency, MaxRequests, TokenLimit,   \* per policy; -1 if not configured
    UsedQuotas,    \* tokens a request may turn out to use
    LimitActions,  \* hit_action: "FINISH", "CLOSE", "PASS"
    RejectOnRedisError,
    Gateways,      \* instances of BFE; only one of them is reloaded
    GatewayOf,
    MaxEpochs      \* windows of time

LPolicies == UNION {Range(t) : t \in Tables}

ASSUME LimitsAssumption ==
    /\ \A t \in Tables : t \in Seq(Range(t)) /\ IsInjective(t)
    /\ IsFiniteSet(LReqs)
    /\ UsedQuotas \subseteq Nat
    /\ RejectOnRedisError \in BOOLEAN /\ MaxEpochs \in Nat

VARIABLES
    ltable,       \* productTable
    limiters,     \* policies of limiterManager
    con,          \* Redis: concurrency counter of a policy
    expired,      \* con was reset by its TTL while requests held slots
    rpm, tpm,     \* Redis: requests and tokens in the window
    epoch,
    up,           \* gateways that run
    lreq,
    lost          \* slots nobody will give back

limTables == <<ltable, limiters>>
limRedis == <<con, expired, rpm, tpm, epoch>>
limVars == <<limTables, limRedis, up, lreq, lost>>

\* ids: policies still to check; held: ConLimiters; data: TpmLimiterDataList
\* with the window of the check; used: the tokens of the request
IdleReq == [pc |-> "idle", ids |-> <<>>, held |-> <<>>, data |-> <<>>, used |-> 0]

LReqRec == [pc : {"idle", "policy", "limiter", "con", "rpm", "tpm", "serve", "settle", "release", "gone"},
            ids : Seq(LPolicies), held : Seq(LPolicies), data : Seq(LPolicies \X (0..MaxEpochs)), used : Nat]

LimTypeOK ==
    /\ ltable \in Tables /\ limiters \in {Range(t) : t \in Tables}
    /\ con \in [LPolicies -> Nat] /\ expired \in [LPolicies -> BOOLEAN]
    /\ rpm \in [LPolicies -> Nat] /\ tpm \in [LPolicies -> Nat]
    /\ epoch \in 0..MaxEpochs /\ up \subseteq Gateways
    /\ lost \in [LPolicies -> Nat]
    /\ lreq \in [LReqs -> LReqRec]

LimInit ==
    /\ ltable \in Tables /\ limiters = Range(ltable)
    /\ con = [p \in LPolicies |-> 0] /\ expired = [p \in LPolicies |-> FALSE]
    /\ rpm = [p \in LPolicies |-> 0] /\ tpm = [p \in LPolicies |-> 0]
    /\ epoch = 0 /\ up = Gateways
    /\ lreq = [r \in LReqs |-> IdleReq]
    /\ lost = [p \in LPolicies |-> 0]

-----------------------------------------------------------------------------
(* The check.                                                              *)

LPolicy(r) == Head(lreq[r].ids)
LStep(r, at) == lreq' = [lreq EXCEPT ![r].pc = at]
LRuns(r) == GatewayOf[r] \in up

\* The next policy, or the request goes on.
NextPolicy(q) ==
    IF Len(q.ids) > 1 THEN [q EXCEPT !.ids = Tail(@), !.pc = "policy"]
                      ELSE [q EXCEPT !.ids = <<>>, !.pc = "serve"]

\* executePolicyAction: FINISH and CLOSE end the request, which still
\* finishes; PASS skips the policies that are left.
LimitHit(q) ==
    {[q EXCEPT !.ids = <<>>, !.pc = IF a = "PASS" THEN "serve" ELSE "settle"] : a \in LimitActions}

\* After an error of Redis.
OnRedisError(q, next) == IF RejectOnRedisError THEN LimitHit(q) ELSE {next}

\* targetModelCheckHandler runs once per request: a retry with another key
\* or cluster finds the context.  The policies of the key are read once.
targetModelCheckHandler(r) ==
    /\ lreq[r].pc = "idle" /\ LRuns(r)
    /\ lreq' = [lreq EXCEPT ![r].pc = IF ltable = <<>> THEN "serve" ELSE "policy",
                            ![r].ids = ltable]
    /\ UNCHANGED <<limTables, limRedis, up, lost>>

\* getPolicy; a policy that a reload removed is skipped.
getLPolicy(r) ==
    /\ lreq[r].pc = "policy" /\ LRuns(r)
    /\ lreq' = [lreq EXCEPT ![r] = IF LPolicy(r) \in Range(ltable) THEN [@ EXCEPT !.pc = "limiter"]
                                                                 ELSE NextPolicy(@)]
    /\ UNCHANGED <<limTables, limRedis, up, lost>>

\* getLimiterPolicySet returns nil for a policy that updateLimiters has not
\* installed yet: the panic ends the connection, and the request never
\* finishes.
getLimiterPolicySet(r) ==
    /\ lreq[r].pc = "limiter" /\ LRuns(r)
    /\ IF LPolicy(r) \in limiters
       THEN LStep(r, IF MaxConcurrency[LPolicy(r)] > 0 THEN "con" ELSE "rpm") /\ UNCHANGED lost
       ELSE /\ lreq' = [lreq EXCEPT ![r] = [IdleReq EXCEPT !.pc = "gone"]]
            /\ lost' = [p \in LPolicies |-> lost[p] + (IF p \in Range(lreq[r].held) THEN 1 ELSE 0)]
    /\ UNCHANGED <<limTables, limRedis, up>>

\* The scripts of the limits: a slot is free, the window has room for one more
\* request, the window has not used up its tokens.
ConFree(p) == con[p] < MaxConcurrency[p]
RpmFree(p) == MaxRequests[p] < 0 \/ rpm[p] < MaxRequests[p]
TpmFree(p) == TokenLimit[p] < 0 \/ (TokenLimit[p] > 0 /\ tpm[p] <= TokenLimit[p])

\* checkConcurrency.  The script that acquires a slot runs even if its reply
\* is lost.
ConnAcquire(r) ==
    LET p == LPolicy(r)
        free == ConFree(p)
        q == [lreq[r] EXCEPT !.pc = "rpm"]
    IN  /\ lreq[r].pc = "con" /\ LRuns(r)
        /\ \/ /\ free
              /\ con' = [con EXCEPT ![p] = @ + 1]
              /\ \/ lreq' = [lreq EXCEPT ![r] = [q EXCEPT !.held = Append(@, p)]] /\ UNCHANGED lost
                 \/ /\ \E n \in OnRedisError(lreq[r], q) : lreq' = [lreq EXCEPT ![r] = n]
                    /\ lost' = [lost EXCEPT ![p] = @ + 1]
           \/ /\ ~free
              /\ \E n \in LimitHit(lreq[r]) : lreq' = [lreq EXCEPT ![r] = n]
              /\ UNCHANGED <<con, lost>>
           \/ /\ \E n \in OnRedisError(lreq[r], q) : lreq' = [lreq EXCEPT ![r] = n]
              /\ UNCHANGED <<con, lost>>
        /\ UNCHANGED <<limTables, expired, rpm, tpm, epoch, up>>

\* checkRPM, a sliding window.
QpmCheck(r) ==
    LET p == LPolicy(r)
        q == [lreq[r] EXCEPT !.pc = "tpm"]
        free == RpmFree(p)
    IN  /\ lreq[r].pc = "rpm" /\ LRuns(r)
        /\ \E n \in IF free THEN {q} ELSE LimitHit(lreq[r]) : lreq' = [lreq EXCEPT ![r] = n]
        /\ rpm' = IF free /\ MaxRequests[p] >= 0 THEN [rpm EXCEPT ![p] = @ + 1] ELSE rpm
        /\ UNCHANGED <<limTables, con, expired, tpm, epoch, up, lost>>

\* checkTPM consumes nothing yet; what is allowed is settled at the end.
CheckAndConsumeToken(r) ==
    LET p == LPolicy(r)
        free == TpmFree(p)
        q == [lreq[r] EXCEPT !.data = IF TokenLimit[p] < 0 THEN @ ELSE Append(@, <<p, epoch>>)]
    IN  /\ lreq[r].pc = "tpm" /\ LRuns(r)
        /\ IF free
           THEN lreq' = [lreq EXCEPT ![r] = NextPolicy(q)]
           ELSE \E n \in LimitHit(lreq[r]) : lreq' = [lreq EXCEPT ![r] = n]
        /\ UNCHANGED <<limTables, limRedis, up, lost>>

-----------------------------------------------------------------------------
(* The end of a request.                                                   *)

\* The request is served: UsedQuota is what the response says, or nothing.
served(r) ==
    /\ lreq[r].pc = "serve" /\ LRuns(r)
    /\ \E n \in UsedQuotas : lreq' = [lreq EXCEPT ![r].pc = "settle", ![r].used = n]
    /\ UNCHANGED <<limTables, limRedis, up, lost>>

\* The script of UpdateTokenUsage: a bucket that left the window is gone.
TokensAdded(d, used) == IF d[2] = epoch THEN [tpm EXCEPT ![d[1]] = @ + used] ELSE tpm

\* limitRequestFinishHandler: UpdateTokenUsage adds to the bucket of the
\* check.
UpdateTokenUsage(r) ==
    LET d == Head(lreq[r].data)
    IN  /\ lreq[r].pc = "settle" /\ LRuns(r)
        /\ IF lreq[r].data = <<>>
           THEN LStep(r, "release") /\ UNCHANGED tpm
           ELSE /\ tpm' = TokensAdded(d, lreq[r].used)
                /\ lreq' = [lreq EXCEPT ![r].data = Tail(@)]
        /\ UNCHANGED <<limTables, con, expired, rpm, epoch, up, lost>>

\* A release without the floor at 0:
BadReleased(n) == n - 1

\* The script of ConnRelease leaves a counter alone that its TTL has reset.
ConReleased(n) == IF n <= 0 THEN n ELSE n - 1

\* ConnRelease of every slot held; an error of Redis is only logged.
ConnRelease(r) ==
    LET p == Head(lreq[r].held)
    IN  /\ lreq[r].pc = "release" /\ LRuns(r)
        /\ IF lreq[r].held = <<>>
           THEN lreq' = [lreq EXCEPT ![r] = [IdleReq EXCEPT !.pc = "gone"]] /\ UNCHANGED <<con, lost>>
           ELSE /\ \/ con' = [con EXCEPT ![p] = ConReleased(@)] /\ UNCHANGED lost
                   \/ lost' = [lost EXCEPT ![p] = @ + 1] /\ UNCHANGED con
                /\ lreq' = [lreq EXCEPT ![r].held = Tail(@)]
        /\ UNCHANGED <<limTables, expired, rpm, tpm, epoch, up>>

-----------------------------------------------------------------------------
(* Reload, crash and time.                                                 *)

\* loadProductRuleTable installs the rules first, the limiters after them.
loadProductRuleTable ==
    /\ limiters = Range(ltable)
    /\ ltable' \in Tables \ {ltable}
    /\ UNCHANGED <<limiters, limRedis, up, lreq, lost>>

\* The limiters that a version of the rules needs: those it keeps are kept.
newPolicyLimiterSet(table) == Range(table)

updateLimiters ==
    /\ limiters # Range(ltable)
    /\ limiters' = newPolicyLimiterSet(ltable)
    /\ UNCHANGED <<ltable, limRedis, up, lreq, lost>>

\* A gateway stops; the slots of its requests stay in Redis.
crash(g) ==
    /\ g \in up /\ up' = up \ {g}
    /\ lreq' = [r \in LReqs |-> IF GatewayOf[r] = g THEN [IdleReq EXCEPT !.pc = "gone"] ELSE lreq[r]]
    /\ lost' = [p \in LPolicies |-> lost[p]
                  + Cardinality({r \in LReqs : GatewayOf[r] = g /\ p \in Range(lreq[r].held)})]
    /\ UNCHANGED <<limTables, limRedis>>

\* External: the TTL of the counter, refreshed by every acquire and release,
\* runs out; the window moves on.
conExpires(p) ==
    /\ con[p] > 0
    /\ con' = [con EXCEPT ![p] = 0]
    /\ expired' = [expired EXCEPT ![p] = \E r \in LReqs : p \in Range(lreq[r].held)]
    /\ lost' = [lost EXCEPT ![p] = 0]
    /\ UNCHANGED <<limTables, rpm, tpm, epoch, up, lreq>>

windowMoves ==
    /\ epoch < MaxEpochs
    /\ epoch' = epoch + 1
    /\ rpm' = [p \in LPolicies |-> 0] /\ tpm' = [p \in LPolicies |-> 0]
    /\ UNCHANGED <<limTables, con, expired, up, lreq, lost>>

LimNext ==
    \/ \E r \in LReqs :
          \/ targetModelCheckHandler(r) \/ getLPolicy(r) \/ getLimiterPolicySet(r)
          \/ ConnAcquire(r) \/ QpmCheck(r) \/ CheckAndConsumeToken(r)
          \/ served(r) \/ UpdateTokenUsage(r) \/ ConnRelease(r)
    \/ loadProductRuleTable \/ updateLimiters
    \/ \E g \in Gateways : crash(g)
    \/ \E p \in LPolicies : conExpires(p)
    \/ windowMoves

LimSpec == LimInit /\ [][LimNext]_limVars

-----------------------------------------------------------------------------
(* Properties.                                                             *)

LHolders(p) == {r \in LReqs : p \in Range(lreq[r].held)}

\* The counter of a policy is the number of its requests under way and of the
\* slots lost to a panic, a crash or a lost reply: whatever limit is hit in
\* whichever policy, every slot taken is given back once.  Only a counter
\* reset by its TTL under way counts fewer, and never less than none.
SlotsCounted ==
    \A p \in LPolicies :
        /\ con[p] >= 0 /\ con[p] <= Cardinality(LHolders(p)) + lost[p]
        /\ ~expired[p] => con[p] = Cardinality(LHolders(p)) + lost[p]
=============================================================================
