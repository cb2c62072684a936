------------------------------ MODULE AiCaches ------------------------------
(***************************************************************************)
(* What the AI modules remember between requests.  mod_ai_cache keeps      *)
(* answers in redis, by tenant and question, and in a vector store, where  *)
(* a near question of the same tenant finds them too; the answer is taken  *)
(* from the response while it passes and written when the response is      *)
(* closed.  mod_ai_intent asks a decision service what a request is about  *)
(* and keeps its answers in an LRU cache, behind a breaker.  An answer is  *)
(* the sequence of the parts it comes in.                                  *)
(***************************************************************************)
EXTENDS Integers, Sequences, SequencesExt, FiniteSets

CONSTANTS CacheReqs,      \* requests of mod_ai_cache: functions to their tenant,
          CacheKinds,     \*   question, stream flag: the kinds a request may be of
          UpstreamAnswers,   \* the answers that a provider gives
          MaxValue,       \* maxValueBytes of the rule; a part of a stream costs two
          IntentReqs,     \* requests of mod_ai_intent
          IntentKinds,    \*   and their kinds: key, text, the answers of the header
          IntentCapacity, \* CacheSize
          IntentFails, ProbeInterval,  \* FailureThreshold, ProbeIntervalMs in ticks
          MaxVersions     \* bound: versions of the questions

ASSUME CachesAssumption ==
    /\ UpstreamAnswers \subseteq Seq(STRING) /\ MaxValue \in Nat
    /\ IntentCapacity \in Nat \ {0} /\ IntentFails \in Nat \ {0} /\ ProbeInterval \in Nat

VARIABLES acReq,       \* per request: kind, step, context, value it got from the cache
          acRedis,     \* the entries: [tenant, question, value]
          acVector,    \* the entries of the vector store
          acWhole,     \* history: [tenant, question, value] of answers read to their end
          inReq,       \* per request: kind, step, version of the questions, answers
          inCache,     \* IntentCache, most recently used first: [key, answers]
          inVersion,   \* QuestionsConf.current
          inBreaker,   \* intentBreaker: openedAt as a stamp (0: closed) with its age, failures
          inProbe      \* history: ticks since the last probe went out

cacheVars == <<acReq, acRedis, acVector, acWhole>>
intentVars == <<inReq, inCache, inVersion, inBreaker, inProbe>>

-----------------------------------------------------------------------------
(* mod_ai_cache.                                                           *)

NoAnswer == <<"none">>
tenantOf(k) == k.tenant
\* The part of the key that tells requests apart; the model asked for and
\* whether the answer streams are not in it.
buildCacheKey(k) == [tenant |-> tenantOf(k), question |-> k.question]
KeyOf(e) == [tenant |-> e.tenant, question |-> e.question]

\* Get: at most one entry has a key; an error of redis is a miss.
CacheGet(k) == {e.value : e \in {f \in acRedis : KeyOf(f) = buildCacheKey(k)}}
\* Query: the store filters by tenant; an error of it is a miss.
Query(k) == {e \in acVector : e.tenant = tenantOf(k)}
\* The best result has to be near enough; every question of the model is.
Lookup(k) == {e.value : e \in {f \in Query(k) : k.semantic}}

\* cacheRequestHandler.  A request that asks not to be cached, has no rule, no
\* JSON, no whole body or no question goes on without a context.
cacheRequestHandler(r) ==
    LET k == acReq[r].kind
    IN  /\ acReq[r].st = "start"
        /\ \/ k.skip /\ acReq' = [acReq EXCEPT ![r].st = "end"]
           \/ /\ ~k.skip
              /\ \E v \in CacheGet(k) : acReq' = [acReq EXCEPT ![r].st = "end", ![r].got = v]
           \/ /\ ~k.skip /\ CacheGet(k) = {}
              /\ \E v \in Lookup(k) : acReq' = [acReq EXCEPT ![r].st = "end", ![r].got = v]
           \/ /\ ~k.skip                       \* nothing there, or redis and the store failed
              /\ acReq' = [acReq EXCEPT ![r].st = "miss"]
        /\ UNCHANGED <<acRedis, acVector, acWhole>>

\* cacheCaptureBody: the first MaxValue bytes that passed.  A plain answer is one
\* JSON text; the events of a stream have a frame around every part.
captured(k, parts) ==
    LET room == IF k.stream THEN MaxValue \div 2 ELSE MaxValue
    IN  SubSeq(parts, 1, IF room < Len(parts) THEN room ELSE Len(parts))
\* A cut JSON text is no JSON; of a stream the events that are whole count.
extractStreamAnswer(buf) == buf
extractAnswer(k, buf, parts) ==
    IF k.stream THEN extractStreamAnswer(buf) ELSE IF buf = parts THEN buf ELSE <<>>

BadWriteBack(r, parts, n, complete) ==
    LET k == acReq[r].kind
        value == extractAnswer(k, captured(k, SubSeq(parts, 1, n)), parts)
        entry == [tenant |-> k.tenant, question |-> k.question, value |-> value]
        fits == value # <<>> /\ Len(value) <= MaxValue
    IN  /\ acRedis' = IF fits THEN {e \in acRedis : KeyOf(e) # buildCacheKey(k)} \cup {entry} ELSE acRedis
        /\ acReq' = [acReq EXCEPT ![r].st = IF fits /\ k.semantic THEN "upload" ELSE "end", ![r].val = IF fits THEN value ELSE NoAnswer]
\* Only a response that was read to its end is kept.
writeBack(r, parts, n, complete) ==
    LET k == acReq[r].kind
        value == extractAnswer(k, captured(k, SubSeq(parts, 1, n)), parts)
        entry == [tenant |-> k.tenant, question |-> k.question, value |-> value]
        fits == complete /\ value # <<>> /\ Len(value) <= MaxValue
    IN  /\ acRedis' = IF fits THEN {e \in acRedis : KeyOf(e) # buildCacheKey(k)} \cup {entry} ELSE acRedis
        /\ acReq' = [acReq EXCEPT ![r].st = IF fits /\ k.semantic THEN "upload" ELSE "end", ![r].val = IF fits THEN value ELSE NoAnswer]

\* The provider answers, the client reads n parts of it and the body is closed.
cacheResponseHandler(r) ==
    /\ acReq[r].st = "miss"
    /\ \/ \E parts \in UpstreamAnswers : \E n \in 0..Len(parts) : \E eof \in {n = Len(parts), FALSE} :
             /\ writeBack(r, parts, n, eof)
             /\ acWhole' = IF eof THEN acWhole \cup {[tenant |-> acReq[r].kind.tenant, question |-> acReq[r].kind.question, value |-> parts]}
                           ELSE acWhole
       \/ acReq' = [acReq EXCEPT ![r].st = "end"] /\ UNCHANGED <<acRedis, acWhole>>     \* no 200
    /\ UNCHANGED acVector
\* The goroutine that writeBack leaves behind; its failure is only counted.
Upload(r) ==
    /\ acReq[r].st = "upload"
    /\ LET k == acReq[r].kind
           entry == [tenant |-> k.tenant, question |-> k.question, value |-> acReq[r].val]
       IN  \/ acVector' = {e \in acVector : KeyOf(e) # buildCacheKey(k)} \cup {entry}
           \/ UNCHANGED acVector
    /\ acReq' = [acReq EXCEPT ![r].st = "end", ![r].val = NoAnswer]
    /\ UNCHANGED <<acRedis, acWhole>>
\* The lifetime of an entry ends.
Expire ==
    /\ \/ \E e \in acRedis : acRedis' = acRedis \ {e} /\ UNCHANGED acVector
       \/ \E e \in acVector : acVector' = acVector \ {e} /\ UNCHANGED acRedis
    /\ UNCHANGED <<acReq, acWhole>>

CacheInit ==
    /\ acReq \in [CacheReqs -> {[kind |-> k, st |-> "start", got |-> NoAnswer, val |-> NoAnswer] : k \in CacheKinds}]
    /\ acRedis = {} /\ acVector = {} /\ acWhole = {}
CacheNext ==
    Expire \/ \E r \in CacheReqs : cacheRequestHandler(r) \/ cacheResponseHandler(r) \/ Upload(r)

CacheSpec == CacheInit /\ [][CacheNext]_cacheVars

-----------------------------------------------------------------------------
(* mod_ai_intent.                                                          *)

\* The questions of a version: a later version asks one more.
QuestionsOf(v) == IF v = 0 THEN {} ELSE IF v = 1 THEN {"a"} ELSE {"a", "b"}
\* validateQuestionsFile passed; a file of the version in use changes nothing.
LoadQuestions ==
    /\ inVersion < MaxVersions /\ inVersion' = inVersion + 1
    /\ UNCHANGED <<inReq, inCache, inBreaker, inProbe>>

cacheKey(k, v) == [key |-> k.key, version |-> v, text |-> k.text]
\* The answers that the client gives itself, to questions there are.
resolveExplicitHeader(k, v) == [q \in (k.header \cap QuestionsOf(v)) |-> "header"]
mergeAnswers(dst, src) == [q \in DOMAIN dst \cup DOMAIN src |-> IF q \in DOMAIN src THEN src[q] ELSE dst[q]]
fillUnknown(ans, v) == [q \in DOMAIN ans \cup QuestionsOf(v) |-> IF q \in DOMAIN ans THEN ans[q] ELSE "unknown"]

IntentGet(key) == SelectInSeq(inCache, LAMBDA e : e.key = key)
MoveToFront(i) == <<inCache[i]>> \o RemoveAt(inCache, i)
\* An entry of the key is replaced and moves to the front; a new one goes there
\* after the oldest entries have made room.
IntentSet(key, ans) ==
    LET i == IntentGet(key)
        rest == IF i # 0 THEN RemoveAt(inCache, i)
                ELSE IF Len(inCache) < IntentCapacity THEN inCache
                ELSE SubSeq(inCache, 1, IntentCapacity - 1)
    IN  <<[key |-> key, answers |-> ans]>> \o rest

Ended(r, ans) == inReq' = [inReq EXCEPT ![r].st = "end", ![r].answers = ans]
\* Resolve up to the breaker: header, text, cache.
Resolve(r) ==
    LET k == inReq[r].kind
        v == inVersion
        head == resolveExplicitHeader(k, v)
        i == IntentGet(cacheKey(k, v))
    IN  /\ inReq[r].st = "start"
        /\ \/ /\ DOMAIN head = QuestionsOf(v)
              /\ inReq' = [inReq EXCEPT ![r].st = "end", ![r].version = v, ![r].answers = head] /\ UNCHANGED inCache
           \/ /\ DOMAIN head # QuestionsOf(v) /\ k.text = "none"
              /\ inReq' = [inReq EXCEPT ![r].st = "end", ![r].version = v, ![r].answers = fillUnknown(head, v)] /\ UNCHANGED inCache
           \/ /\ DOMAIN head # QuestionsOf(v) /\ k.text # "none" /\ i # 0
              /\ inReq' = [inReq EXCEPT ![r].st = "end", ![r].version = v, ![r].answers = mergeAnswers(inCache[i].answers, head)]
              /\ inCache' = MoveToFront(i)
           \/ /\ DOMAIN head # QuestionsOf(v) /\ k.text # "none" /\ i = 0
              /\ inReq' = [inReq EXCEPT ![r].st = "load", ![r].version = v] /\ UNCHANGED inCache
        /\ UNCHANGED <<inVersion, inBreaker, inProbe>>

\* allow, up to the swap: closed lets the call through, open before the next
\* probe is due refuses it.
allowLoad(r) ==
    /\ inReq[r].st = "load"
    /\ inReq' = [inReq EXCEPT ![r].seen = inBreaker.stamp,
                              ![r].st = IF inBreaker.stamp = 0 THEN "call" ELSE IF inBreaker.age >= ProbeInterval THEN "swap" ELSE "refused"]
    /\ UNCHANGED <<inCache, inVersion, inBreaker, inProbe>>
\* time.Now().UnixNano(): a stamp that was never there before.
Stamped(b) == [b EXCEPT !.stamp = b.last + 1, !.last = b.last + 1, !.age = 0]
BadAllowSwap(r) ==
    /\ inReq[r].st = "swap"
    /\ inReq' = [inReq EXCEPT ![r].st = "call"]
    /\ inBreaker' = Stamped(inBreaker)
    /\ inProbe' = 0
    /\ UNCHANGED <<inCache, inVersion>>
\* CompareAndSwap: one of those that saw the probe due gets it.
allowSwap(r) ==
    /\ inReq[r].st = "swap"
    /\ IF inBreaker.stamp = inReq[r].seen
       THEN /\ inReq' = [inReq EXCEPT ![r].st = "call"]
            /\ inBreaker' = Stamped(inBreaker)
            /\ inProbe' = 0
       ELSE /\ inReq' = [inReq EXCEPT ![r].st = "refused"]
            /\ UNCHANGED <<inBreaker, inProbe>>
    /\ UNCHANGED <<inCache, inVersion>>
ResolveRefused(r) ==
    /\ inReq[r].st = "refused"
    /\ Ended(r, fillUnknown(resolveExplicitHeader(inReq[r].kind, inReq[r].version), inReq[r].version))
    /\ UNCHANGED <<inCache, inVersion, inBreaker, inProbe>>

record(ok) ==
    LET n == inBreaker.fails + 1
    IN  inBreaker' = IF ok THEN [inBreaker EXCEPT !.stamp = 0, !.age = 0, !.fails = 0]
                     ELSE IF n >= IntentFails THEN [Stamped(inBreaker) EXCEPT !.fails = IntentFails]
                     ELSE [inBreaker EXCEPT !.fails = n]
\* Classify answers some of the questions it was asked; parseDecisionAnswers
\* keeps those, the others are unknown.
parseDecisionAnswers(v) == {[q \in s |-> "model"] : s \in SUBSET QuestionsOf(v)}
BadKeep(k, v, ans, head) == IntentSet(cacheKey(k, v), mergeAnswers(ans, head))
\* What is kept is what the service said, under the questions it was asked.
KeepAnswers(k, v, ans, head) == IntentSet(cacheKey(k, v), ans)
Classify(r) ==
    LET k == inReq[r].kind
        v == inReq[r].version
        head == resolveExplicitHeader(k, v)
    IN  /\ inReq[r].st = "call"
        /\ \/ \E said \in parseDecisionAnswers(v) :
                 LET ans == fillUnknown(said, v)
                 IN  /\ said # <<>> /\ record(TRUE)
                     /\ inCache' = KeepAnswers(k, v, ans, head)
                     /\ Ended(r, mergeAnswers(ans, head))
           \/ /\ record(FALSE)
              /\ Ended(r, fillUnknown(head, v)) /\ UNCHANGED inCache
        /\ UNCHANGED <<inVersion, inProbe>>
IntentExpire ==
    /\ inCache # <<>> /\ inCache' = SubSeq(inCache, 1, Len(inCache) - 1)
    /\ UNCHANGED <<inReq, inVersion, inBreaker, inProbe>>
IntentTick ==
    /\ inBreaker.stamp # 0 /\ inBreaker.age < ProbeInterval
    /\ inBreaker' = [inBreaker EXCEPT !.age = @ + 1]
    /\ inProbe' = IF inProbe < ProbeInterval THEN inProbe + 1 ELSE inProbe
    /\ UNCHANGED <<inReq, inCache, inVersion>>

IntentInit ==
    /\ inReq \in [IntentReqs -> {[kind |-> k, st |-> "start", version |-> 0, seen |-> 0, answers |-> <<>>] : k \in IntentKinds}]
    /\ inCache = <<>> /\ inVersion = 1 /\ inProbe = ProbeInterval
    /\ inBreaker = [stamp |-> 0, last |-> 0, age |-> 0, fails |-> 0]
IntentNext ==
    \/ LoadQuestions \/ IntentExpire \/ IntentTick
    \/ \E r \in IntentReqs : Resolve(r) \/ allowLoad(r) \/ allowSwap(r) \/ ResolveRefused(r) \/ Classify(r)

IntentSpec == IntentInit /\ [][IntentNext]_intentVars

-----------------------------------------------------------------------------

\* A tenant gets from the cache only what a provider sent, to its end, to a
\* request of the same tenant, and as the answer to the same question unless the
\* near question of another request of it was taken (buildCacheKey, Lookup,
\* writeBack).
CacheOwned ==
    \A r \in CacheReqs : acReq[r].got # NoAnswer =>
        \E w \in acWhole :
            /\ w.tenant = acReq[r].kind.tenant
            /\ acReq[r].kind.semantic \/ w.question = acReq[r].kind.question
            /\ IsPrefix(acReq[r].got, w.value)

\* "A truncated upstream response must not poison the cache": what redis holds is
\* an answer as a whole (writeBack, cacheCaptureBody).
CachedWhole ==
    \A e \in acRedis : \E w \in acWhole : e = w

\* An answer that a client gave itself in its header serves that request alone:
\* what is kept for others is what the decision service said; and a request's
\* answers are those of one version of the questions, whatever was loaded
\* meanwhile (Resolve, cloneIntent, mergeAnswers).
IntentClean ==
    /\ \A i \in DOMAIN inCache : /\ \A q \in DOMAIN inCache[i].answers : inCache[i].answers[q] # "header"
                                 /\ DOMAIN inCache[i].answers = QuestionsOf(inCache[i].key.version)
    /\ Len(inCache) <= IntentCapacity
    /\ \A r \in IntentReqs : inReq[r].st = "end" => DOMAIN inReq[r].answers = QuestionsOf(inReq[r].version)

\* "Every probeInterval one probe call is allowed": two requests that both find
\* the probe due do not both get it (intentBreaker.allow).
OneProbe ==
    [][\A r \in IntentReqs :
          inReq[r].st = "swap" /\ inReq'[r].st = "call" => inProbe >= ProbeInterval]_intentVars

\* Caches: an answer goes only to the tenant and question it was given for
\* (mod_ai_cache), cached intents are of the questions in force, and the
\* breaker lets one probe out per interval (mod_ai_intent).
CachesSound == []CacheOwned /\ []IntentClean /\ OneProbe
=============================================================================
