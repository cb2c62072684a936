------------------------------ MODULE Sessions ------------------------------
(***************************************************************************)
(* Two request modules that remember clients.  mod_session_sticky sends a  *)
(* client back to the backend that served it: the backend is kept in a     *)
(* masked cookie, which is renewed before it ends, or under an id in a     *)
(* cache.  mod_prison counts the accesses of a client and refuses it for a *)
(* while when they are too many; its counters are shared by concurrent     *)
(* requests without a lock.                                                *)
(***************************************************************************)
EXTENDS Integers, Sequences, SequencesExt, FiniteSets, FiniteSetsExt

CONSTANTS StickyClients,    \* clients of mod_session_sticky, one request at a time each
          StickyBackends,
          StickyFiles,      \* the rules that a reload may bring, see stickyRuleCheck
          DefaultMask, DefaultStandby, DefaultAge,
          StickyCacheSize,  \* capacity of the LRU cache
          MaxStickyTime, MaxStickyReloads,   \* bounds
          PrisonReqs,       \* requests with the same access sign
          Thresholds, CheckPeriod, StayPeriod,
          MaxPrisonTime, MaxPrisonReloads,   \* bounds
          NoValue

VARIABLES ssRule,      \* the rule in force
          ssCookie,    \* per client: the cookie it holds, NoValue for none
          ssCache,     \* the LRU cache, most recent first: [id, backend]
          ssReq,       \* per client: step, rule taken, cookie sent, backend decoded, backend chosen
          ssUp,        \* the backends that may be chosen
          ssNow, ssReloads,
          prRule,      \* prisonRule in force: threshold
          prReq,       \* per request: step, rule, counter, its clock
          prAccess,    \* accessDict: the counter of the sign, named by the request that made it
          prCounters,  \* per request: the counter that it made: [count, start]
          prJail,      \* prisonDict: [free, by], NoValue for none
          prMade,      \* history: accesses counted
          prNow, prReloads

\* A cookie of a session, as a rule of a file makes it.
Cookies ==
    [mask : {f.mask : f \in StickyFiles} \cup {DefaultMask}, backend : StickyBackends,
     window : Int, age : Int, renew : Int \cup {NoValue}, expires : Int \cup {NoValue}]

\* Ages and windows are numbers; an absent value is none and no cookie.
ASSUME StickyAssumption ==
    /\ \A f \in StickyFiles : f.maxAge \in Int \cup {NoValue} /\ f.renew \in Int \cup {NoValue}
    /\ DefaultAge \in Nat /\ NoValue \notin Int /\ NoValue \notin Cookies
ASSUME PrisonAssumption == Thresholds \in SUBSET Nat

stickyVars == <<ssRule, ssCookie, ssCache, ssReq, ssUp, ssNow, ssReloads>>
prisonVars == <<prRule, prReq, prAccess, prCounters, prJail, prMade, prNow, prReloads>>

-----------------------------------------------------------------------------
(* mod_session_sticky: the rules.                                          *)

OrDefault(v, default) == IF v = NoValue THEN default ELSE v
\* MaskCode and StandbyMaskCode are long enough, an age is not negative, and a
\* rule by id names its cookie.
stickyRuleCheck(f) ==
    /\ "short" \notin {f.mask, f.standby} /\ f.type \in {NoValue, "Cookie", "Sticky"}
    /\ f.maxAge # NoValue => f.maxAge >= 0
    /\ f.type = "Sticky" => f.key # NoValue
StickyConvert(f) ==
    LET age == OrDefault(f.maxAge, DefaultAge)
    IN  [mask |-> OrDefault(f.mask, DefaultMask), standby |-> OrDefault(f.standby, DefaultStandby),
         type |-> OrDefault(f.type, "Cookie"), maxAge |-> age,
         window |-> IF f.renew = NoValue THEN age \div 2 ELSE f.renew]
\* loadConfData: a file that does not pass the check leaves the rule in force.
StickyReload(f) ==
    /\ ssReloads < MaxStickyReloads
    /\ ssRule' = IF stickyRuleCheck(f) THEN StickyConvert(f) ELSE ssRule
    /\ ssReloads' = ssReloads + 1
    /\ UNCHANGED <<ssCookie, ssCache, ssReq, ssUp, ssNow>>

-----------------------------------------------------------------------------
(* mod_session_sticky: a request.                                          *)

\* The decoding of base64 never depends on the mask, so the standby mask is
\* not tried when the text was written with another one.
doDecode(cookie, mask) == [ok |-> TRUE, val |-> IF cookie.mask = mask THEN cookie ELSE NoValue]
getStickyBackend(val) == val
getBackendFromCache(id) ==
    LET at == SelectInSeq(ssCache, LAMBDA e : e.id = id)
    IN  IF at = 0 THEN NoValue ELSE [backend |-> ssCache[at].backend, renew |-> NoValue]
processDecode(c, rule) ==
    IF rule.type = "Sticky" THEN getBackendFromCache(c)
    ELSE IF ssCookie[c] = NoValue THEN NoValue
    ELSE LET first == doDecode(ssCookie[c], rule.mask)
             d == IF first.ok THEN first ELSE doDecode(ssCookie[c], rule.standby)
         IN  IF d.ok THEN getStickyBackend(d.val) ELSE NoValue
decodeHandler(c) ==
    /\ ssReq[c].st = "idle"
    /\ ssReq' = [ssReq EXCEPT ![c] = [st |-> "decoded", rule |-> ssRule, sent |-> ssCookie[c],
                                      bk |-> processDecode(c, ssRule), to |-> NoValue]]
    /\ UNCHANGED <<ssRule, ssCookie, ssCache, ssUp, ssNow, ssReloads>>
\* Balance: the backend of the session while it is up, any other one otherwise.
LookupStickyBackend(c) ==
    /\ ssReq[c].st = "decoded"
    /\ LET bk == ssReq[c].bk
       IN  \E b \in IF bk # NoValue /\ bk.backend \in ssUp THEN {bk.backend} ELSE ssUp :
               ssReq' = [ssReq EXCEPT ![c].st = "sent", ![c].to = b]
    /\ UNCHANGED <<ssRule, ssCookie, ssCache, ssUp, ssNow, ssReloads>>
setBackendToCache(id, b) ==
    LET rest == SelectSeq(ssCache, LAMBDA e : e.id # id)
        all == <<[id |-> id, backend |-> b]>> \o rest
    IN  SubSeq(all, 1, Min({Len(all), StickyCacheSize}))
\* The cookie is set when the request had none, came to another backend, or
\* when its time to be renewed has come.
NeedSetCookie(r) ==
    \/ r.bk = NoValue \/ r.bk.backend # r.to
    \/ r.bk.renew # NoValue /\ ssNow >= r.bk.renew
BadNewCookie(r) ==
    [mask |-> r.rule.mask, backend |-> r.to, window |-> r.rule.window, age |-> r.rule.maxAge,
     renew |-> IF r.rule.window > 0 /\ r.rule.maxAge > 0 THEN ssNow + r.rule.maxAge ELSE NoValue,
     expires |-> IF r.rule.maxAge > 0 THEN ssNow + r.rule.maxAge ELSE NoValue]
NewCookie(r) ==
    [mask |-> r.rule.mask, backend |-> r.to, window |-> r.rule.window, age |-> r.rule.maxAge,
     renew |-> IF r.rule.window > 0 /\ r.rule.maxAge > 0 THEN ssNow + r.rule.maxAge - r.rule.window ELSE NoValue,
     expires |-> IF r.rule.maxAge > 0 THEN ssNow + r.rule.maxAge ELSE NoValue]
encodeHandler(c) ==
    LET r == ssReq[c]
    IN  /\ r.st = "sent"
        /\ IF r.rule.type = "Sticky"
           THEN ssCache' = setBackendToCache(c, r.to) /\ UNCHANGED ssCookie
           ELSE /\ ssCookie' = [ssCookie EXCEPT ![c] = IF NeedSetCookie(r) THEN NewCookie(r) ELSE @]
                /\ UNCHANGED ssCache
        /\ ssReq' = [ssReq EXCEPT ![c] = [st |-> "idle", rule |-> ssRule, sent |-> NoValue, bk |-> NoValue, to |-> NoValue]]
        /\ UNCHANGED <<ssRule, ssUp, ssNow, ssReloads>>
\* A client forgets a cookie whose age has passed.
Expired(k) == k # NoValue /\ k.expires # NoValue /\ k.expires <= ssNow + 1
StickyTick ==
    /\ ssNow < MaxStickyTime /\ ssNow' = ssNow + 1
    /\ ssCookie' = [c \in StickyClients |-> IF Expired(ssCookie[c]) THEN NoValue ELSE ssCookie[c]]
    /\ UNCHANGED <<ssRule, ssCache, ssReq, ssUp, ssReloads>>
StickyFlip(b) ==
    /\ ssUp' = IF b \in ssUp THEN ssUp \ {b} ELSE ssUp \cup {b}
    /\ ssUp' # {}
    /\ UNCHANGED <<ssRule, ssCookie, ssCache, ssReq, ssNow, ssReloads>>

StickyInit ==
    /\ \E f \in {g \in StickyFiles : stickyRuleCheck(g)} :
          /\ ssRule = StickyConvert(f)
          /\ ssReq = [c \in StickyClients |-> [st |-> "idle", rule |-> ssRule, sent |-> NoValue, bk |-> NoValue, to |-> NoValue]]
    /\ ssCookie = [c \in StickyClients |-> NoValue] /\ ssCache = <<>> /\ ssUp = StickyBackends
    /\ ssNow = 0 /\ ssReloads = 0
StickyNext ==
    \/ \E c \in StickyClients : decodeHandler(c) \/ LookupStickyBackend(c) \/ encodeHandler(c)
    \/ \E f \in StickyFiles : StickyReload(f)
    \/ \E b \in StickyBackends : StickyFlip(b)
    \/ StickyTick
StickySpec == StickyInit /\ [][StickyNext]_stickyVars

\* A client that was just answered under a rule by cookie holds a session that
\* lasts at least the renewal window the cookie was made with, or its whole age
\* when that is shorter, whatever was reloaded between request and response: a
\* client that comes back once in every window never loses its session
\* (processEncode, "need renew").
RenewedInTime ==
    [][\A c \in StickyClients :
          ssReq[c].st = "sent" /\ ssReq'[c].st = "idle" /\ ssReq[c].rule.type = "Cookie"
          /\ ssReq[c].sent = ssCookie[c] =>
             LET k == ssCookie'[c]
             IN  k # NoValue /\ (k.renew # NoValue => k.expires - ssNow >= Min({k.window, k.age}))]_stickyVars

\* A session whose cookie was written with the standby mask of the rule is sent
\* to its backend while that is up, so that the mask can be changed without
\* interrupting sessions (StandbyMaskCode).
StandbyHonoured ==
    [][\A c \in StickyClients :
          LET r == ssReq[c]
          IN  r.st = "decoded" /\ ssReq'[c].st = "sent" /\ r.rule.type = "Cookie" /\ r.sent # NoValue =>
                 (r.sent.mask \in {r.rule.mask, r.rule.standby} /\ r.sent.backend \in ssUp
                     => ssReq'[c].to = r.sent.backend)]_stickyVars

-----------------------------------------------------------------------------
(* mod_prison: the rules.                                                  *)

\* The periods and the sizes are positive and the threshold is not negative.
PrisonRuleCheck(t) == t >= 0 /\ CheckPeriod > 0 /\ StayPeriod >= 0
\* A reload keeps the dictionaries of a rule with the same name.
initDict(t) == prRule' = [threshold |-> t] /\ UNCHANGED <<prAccess, prCounters, prJail>>
PrisonReload(t) ==
    /\ prReloads < MaxPrisonReloads /\ PrisonRuleCheck(t)
    /\ initDict(t) /\ prReloads' = prReloads + 1
    /\ UNCHANGED <<prReq, prMade, prNow>>

-----------------------------------------------------------------------------
(* mod_prison: recordAndCheck, one step for each access to shared state.   *)

\* What a request knew of its counter is of no use once it has been judged.
StepOf(q, st) ==
    prReq' = [prReq EXCEPT ![q] = IF st \in {"recheck", "pass", "deny", "drop"}
                                  THEN [st |-> st, rule |-> [threshold |-> 0], ctr |-> NoValue, now |-> 0]
                                  ELSE [prReq[q] EXCEPT !.st = st]]
\* A request that cannot be signed is not counted.
processRules(q) ==
    /\ prReq[q].st = "start"
    /\ \/ prReq' = [prReq EXCEPT ![q].st = "check", ![q].rule = prRule]
       \/ StepOf(q, "pass")
    /\ UNCHANGED <<prRule, prAccess, prCounters, prJail, prMade, prNow, prReloads>>
\* The prison is looked up before the access is recorded and after it.
shouldDeny(q) ==
    /\ prReq[q].st \in {"check", "recheck"}
    /\ LET next == IF prReq[q].st = "check" THEN "record" ELSE "pass"
       IN  StepOf(q, IF prJail = NoValue THEN next
                     ELSE IF prNow < prJail.free THEN "deny"
                     ELSE IF next = "record" THEN "release" ELSE "rerelease")
    /\ UNCHANGED <<prRule, prAccess, prCounters, prJail, prMade, prNow, prReloads>>
PrisonRelease(q) ==
    /\ prReq[q].st \in {"release", "rerelease"}
    /\ prJail' = NoValue
    /\ StepOf(q, IF prReq[q].st = "release" THEN "record" ELSE "pass")
    /\ UNCHANGED <<prRule, prAccess, prCounters, prMade, prNow, prReloads>>
recordAccess(q) ==
    /\ prReq[q].st = "record"
    /\ IF prAccess = NoValue
       THEN /\ prCounters' = [prCounters EXCEPT ![q] = [count |-> 0, start |-> prNow]]
            /\ prReq' = [prReq EXCEPT ![q].st = "add", ![q].ctr = q, ![q].now = prNow]
       ELSE /\ prReq' = [prReq EXCEPT ![q].st = "load", ![q].ctr = prAccess, ![q].now = prNow]
            /\ UNCHANGED prCounters
    /\ UNCHANGED <<prRule, prAccess, prJail, prMade, prNow, prReloads>>
addCounter(q) ==
    /\ prReq[q].st = "add"
    /\ prAccess' = prReq[q].ctr
    /\ StepOf(q, "load")
    /\ UNCHANGED <<prRule, prCounters, prJail, prMade, prNow, prReloads>>
\* A counter whose period has ended is reset, in two stores.
IncAndCheck(q) ==
    LET r == prReq[q]
    IN  /\ \/ /\ r.st = "load"
              /\ prReq' = [prReq EXCEPT ![q].now = prNow,
                              ![q].st = IF prCounters[r.ctr].start + CheckPeriod < prNow THEN "reset" ELSE "inc"]
              /\ UNCHANGED prCounters
           \/ /\ r.st = "reset"
              /\ prCounters' = [prCounters EXCEPT ![r.ctr].count = 0] /\ StepOf(q, "restart")
           \/ /\ r.st = "restart"
              /\ prCounters' = [prCounters EXCEPT ![r.ctr].start = prNow] /\ StepOf(q, "inc")
        /\ UNCHANGED <<prRule, prAccess, prJail, prMade, prNow, prReloads>>
BadOver(count, rule) == count >= rule.threshold
Over(count, rule) == count > rule.threshold
incAndDecide(q) ==
    LET r == prReq[q]
        count == prCounters[r.ctr].count + 1
    IN  /\ r.st = "inc"
        /\ prCounters' = [prCounters EXCEPT ![r.ctr].count = count]
        /\ prMade' = prMade + 1
        /\ StepOf(q, IF Over(count, r.rule) THEN "jail" ELSE "recheck")
        /\ UNCHANGED <<prRule, prAccess, prJail, prNow, prReloads>>
jail(q) ==
    LET r == prReq[q]
    IN  /\ r.st = "jail"
        /\ prJail' = [free |-> StayPeriod + (prCounters[r.ctr].start + CheckPeriod - r.now) + prNow, by |-> r.rule.threshold]
        /\ StepOf(q, "drop")
        /\ UNCHANGED <<prRule, prAccess, prCounters, prMade, prNow, prReloads>>
dropCounter(q) ==
    /\ prReq[q].st = "drop" /\ prAccess' = NoValue /\ StepOf(q, "recheck")
    /\ UNCHANGED <<prRule, prCounters, prJail, prMade, prNow, prReloads>>
PrisonTick ==
    /\ prNow < MaxPrisonTime /\ prNow' = prNow + 1
    /\ UNCHANGED <<prRule, prReq, prAccess, prCounters, prJail, prMade, prReloads>>

PrisonInit ==
    /\ \E t \in Thresholds : prRule = [threshold |-> t]
    /\ prReq = [q \in PrisonReqs |-> [st |-> "start", rule |-> prRule, ctr |-> NoValue, now |-> 0]]
    /\ prAccess = NoValue /\ prCounters = [q \in PrisonReqs |-> [count |-> 0, start |-> 0]] /\ prJail = NoValue /\ prMade = 0 /\ prNow = 0 /\ prReloads = 0
PrisonNext ==
    \/ \E q \in PrisonReqs :
          \/ processRules(q) \/ shouldDeny(q) \/ PrisonRelease(q) \/ recordAccess(q) \/ addCounter(q)
          \/ IncAndCheck(q) \/ incAndDecide(q) \/ jail(q) \/ dropCounter(q)
    \/ \E t \in Thresholds : PrisonReload(t)
    \/ PrisonTick
PrisonSpec == PrisonInit /\ [][PrisonNext]_prisonVars

\* A client is in prison only for more accesses than the threshold it was judged
\* by allows, and nobody is refused who has never been over a threshold, although
\* counters are reset, replaced and dropped by concurrent requests and the
\* threshold is reloaded between the lookup and the judgement (recordAccess).
DeniedForCause ==
    /\ prJail # NoValue => prMade > prJail.by
    /\ (\E q \in PrisonReqs : prReq[q].st = "deny") => prMade > Min(Thresholds)

\* Sessions: a request is denied only for accesses that were counted
\* (mod_prison), and a cookie is renewed in time (mod_session_sticky).
SessionsSound == []DeniedForCause /\ RenewedInTime
=============================================================================
