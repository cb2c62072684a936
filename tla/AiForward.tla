----------------------------- MODULE AiForward -----------------------------
(***************************************************************************)
(* The AI forward loop of ReverseProxy: ServeHTTPForAI walks the clusters  *)
(* of a route (target, then fallbacks), aiClusterInvoke walks the keys of  *)
(* a cluster, chooseAIKeyWithAffinity chooses a key with the bindings and  *)
(* penalties that all requests share in Redis.  One action is one Redis    *)
(* round trip, or a forward with what it answers.                          *)
(*                                                                         *)
(* A set of key indices (usedSet, deadSet) is kept as the code keeps it:   *)
(* positions in the list that chooseNextAIKey was given.                   *)
(***************************************************************************)
EXTENDS Integers, Sequences, FiniteSets, SequencesExt

CONSTANTS
    AiReqs,
    AiBatch,      \* requests of mode file or batch
    SessionOf,    \* clientKeySessionID; NoAi if there is none
    Attempts,     \* the clusters of the route: target, then fallbacks
    KeysOf,       \* AIConf.Keys of a cluster
    KeyWeight,
    BatchBound,   \* keys an earlier request may have bound to the batch
    AiPolicies,   \* KeyPolicy: [affinity, penalty, retries]
    NoAi

ASSUME AiAssumption ==
    /\ AiBatch \subseteq AiReqs
    /\ Attempts # <<>> /\ Attempts \in Seq(Range(Attempts))
    /\ BatchBound \subseteq Range(KeysOf[Attempts[1]])
    /\ \A c \in Range(Attempts) : KeysOf[c] \in Seq(DOMAIN KeyWeight)
    /\ \A p \in AiPolicies : p.retries \in Nat

AiSessions == Range(SessionOf) \ {NoAi}
AiClusters == Range(Attempts)
AiKeys == DOMAIN KeyWeight

VARIABLES
    policy,
    binding,    \* Redis: key bound to a session, per cluster
    penalty,    \* Redis: "none", "short" (429: 60 s, 404: 60 s) or "long" (3600 s)
    batchKey,   \* Redis: key bound to the batch, per cluster
    areq,       \* a request in ServeHTTPForAI
    usedSet, deadSet,
    refused     \* keys that answered 401, 402 or 403 in this aiClusterInvoke

aiRedis == <<binding, penalty, batchKey>>
aiVars == <<policy, aiRedis, areq, usedSet, deadSet, refused>>

\* att: index in Attempts; left: key retries that are left; key: the key
\* chosen; pos: its index; cand: candidateKeys; keep: keepKey
NewReq == [pc |-> "enter", att |-> 1, left |-> 0, key |-> NoAi, pos |-> 0,
           bound |-> NoAi, cand |-> <<>>, keep |-> FALSE, last |-> "none"]

Answers == {"ok", "429", "quota", "auth", "5xx", "400", "404", "local", "bodyrejected"}

AiTypeOK ==
    /\ policy \in AiPolicies
    /\ binding \in [AiClusters \X AiSessions -> AiKeys \cup {NoAi}]
    /\ penalty \in [AiClusters \X AiKeys -> {"none", "short", "long"}]
    /\ batchKey \in [AiClusters -> AiKeys \cup {NoAi}]
    /\ \A r \in AiReqs :
          /\ areq[r].pc \in {"enter", "select", "pick", "bind", "forward", "rebind", "unbind",
                             "retry", "settle", "done"}
          /\ areq[r].att \in 1..Len(Attempts)
          /\ areq[r].key \in AiKeys \cup {NoAi} /\ areq[r].bound \in AiKeys \cup {NoAi}
          /\ areq[r].last \in Answers \cup {"none", "error", "nokey"}
          /\ usedSet[r] \cup deadSet[r] \subseteq 1..Len(KeysOf[Attempts[areq[r].att]])
          /\ refused[r] \subseteq AiKeys

AiInit ==
    /\ policy \in AiPolicies
    /\ binding = [x \in AiClusters \X AiSessions |-> NoAi]
    /\ penalty = [x \in AiClusters \X AiKeys |-> "none"]
    /\ \E k \in BatchBound \cup {NoAi} : batchKey = [c \in AiClusters |-> IF c = Attempts[1] THEN k ELSE NoAi]
    /\ areq = [r \in AiReqs |-> NewReq]
    /\ usedSet = [r \in AiReqs |-> {}]
    /\ deadSet = [r \in AiReqs |-> {}]
    /\ refused = [r \in AiReqs |-> {}]

Here(r) == Attempts[areq[r].att]
Keys(r) == KeysOf[Here(r)]
Penalized(r, k) == penalty[<<Here(r), k>>] # "none"
reqLocal == <<policy, aiRedis>>
To(r, at) == areq' = [areq EXCEPT ![r].pc = at]

-----------------------------------------------------------------------------
(* aiClusterInvoke up to its loop.                                         *)

\* Lookup of the cluster fails, or the loop over the keys starts with a fresh
\* aiKeyAttemptState.  No key-level retry for a batch, nor for a body that
\* prepareRequestBodyForRetry cannot buffer.
enterCluster(r) ==
    /\ areq[r].pc = "enter"
    /\ \/ areq' = [areq EXCEPT ![r].pc = "settle", ![r].last = "error"]
       \/ \E rewindable \in BOOLEAN :
             areq' = [areq EXCEPT
                ![r] = [NewReq EXCEPT
                          !.att = areq[r].att,
                          !.pc = IF Keys(r) = <<>> THEN "forward" ELSE "select",
                          !.left = IF r \notin AiBatch /\ rewindable THEN policy.retries ELSE 0]]
    /\ UNCHANGED <<reqLocal, usedSet, deadSet, refused>>

\* chooseAIKeyWithAffinity does not ask Redis without a session or a batch.
NoRedis(r) == r \notin AiBatch /\ (SessionOf[r] = NoAi \/ ~policy.affinity)

\* filterPenaltyKeys drops the keys without weight and the penalized ones.
filterPenaltyKeys(r) ==
    SelectSeq(Keys(r), LAMBDA k : KeyWeight[k] > 0 /\ ~Penalized(r, k))

\* The first part of chooseAIKeyWithAffinity: the candidates.
selectKeys(r) ==
    /\ areq[r].pc = "select"
    /\ areq' = [areq EXCEPT
          ![r].pc = "pick", ![r].bound = NoAi,
          ![r].cand = IF ~NoRedis(r) /\ policy.penalty THEN filterPenaltyKeys(r) ELSE Keys(r)]
    /\ UNCHANGED <<reqLocal, usedSet, deadSet, refused>>

-----------------------------------------------------------------------------
(* Choosing a key.                                                         *)

\* isKeyAlive; without the dead keys:
BadKeyAlive(r, i) == KeyWeight[Keys(r)[i]] > 0

isKeyAlive(r, i) == KeyWeight[Keys(r)[i]] > 0 /\ i \notin deadSet[r]

\* A binding is used if its key is configured, alive and not penalized.
KeyUsable(r, k) ==
    \E i \in DOMAIN Keys(r) :
        /\ Keys(r)[i] = k /\ isKeyAlive(r, i) /\ ~Penalized(r, k)
        /\ \A j \in 1..(i - 1) : Keys(r)[j] # k

IndexOf(s, k) == CHOOSE i \in DOMAIN s : s[i] = k /\ \A j \in 1..(i - 1) : s[j] # k

take(r, i, k, bound, at) ==
    areq' = [areq EXCEPT ![r].pc = at, ![r].key = k, ![r].pos = i,
                         ![r].bound = bound, ![r].cand = <<>>]

\* chooseNextAIKey: an alive key that is not used up; when all are, they are
\* all tried again.  The synthetic 429 if every key is dead.
chooseNextAIKey(r, bound, at) ==
    LET cand == areq[r].cand
        eligible == {i \in DOMAIN cand : KeyWeight[cand[i]] > 0 /\ i \notin deadSet[r]}
        fresh == eligible \ usedSet[r]
    IN  IF eligible = {}
        THEN /\ areq' = [areq EXCEPT ![r].pc = "settle", ![r].last = "nokey"]
             /\ UNCHANGED usedSet
        ELSE /\ usedSet' = IF fresh = {} THEN [usedSet EXCEPT ![r] = {}] ELSE usedSet
             /\ \E i \in (IF fresh = {} THEN eligible ELSE fresh) : take(r, i, cand[i], bound, at)

\* The rest of chooseAIKeyWithAffinity: the only key, the key of the batch,
\* the key of the session, or the next one.  Reading the binding of the
\* session may fail.
chooseAIKeyWithAffinity(r) ==
    LET keys == Keys(r)
        bk == batchKey[Here(r)]
        sticky == policy.affinity /\ SessionOf[r] # NoAi
        sk == IF sticky THEN binding[<<Here(r), SessionOf[r]>>] ELSE NoAi
    IN  /\ areq[r].pc = "pick"
        /\ CASE NoRedis(r) -> chooseNextAIKey(r, NoAi, "forward")
             [] ~NoRedis(r) /\ Len(keys) = 1 /\ KeyWeight[keys[1]] > 0 ->
                    take(r, 1, keys[1], keys[1], "forward") /\ UNCHANGED usedSet
             [] OTHER ->
                    IF r \in AiBatch /\ KeyUsable(r, bk)
                    THEN take(r, IndexOf(keys, bk), bk, bk, "forward") /\ UNCHANGED usedSet
                    ELSE \/ chooseNextAIKey(r, NoAi, "forward")
                         \/ /\ sticky /\ KeyUsable(r, sk)
                            /\ take(r, IndexOf(keys, sk), sk, sk, "forward")
                            /\ UNCHANGED usedSet
                         \/ /\ sticky /\ ~KeyUsable(r, sk)
                            /\ chooseNextAIKey(r, sk, "bind")
        /\ UNCHANGED <<reqLocal, deadSet, refused>>

\* redisSetBinding, when a key was chosen anew and, from rebind, after its
\* success if it is not the bound one.
redisSetBinding(r) ==
    /\ areq[r].pc \in {"bind", "rebind"}
    /\ binding' = [binding EXCEPT ![<<Here(r), SessionOf[r]>>] = areq[r].key]
    /\ To(r, IF areq[r].pc = "bind" THEN "forward" ELSE "settle")
    /\ UNCHANGED <<policy, penalty, batchKey, usedSet, deadSet, refused>>

-----------------------------------------------------------------------------
(* doSingleAIForward and the classification of what it returns.            *)

ended(r, a) ==
    /\ areq' = [areq EXCEPT ![r].pc = "settle", ![r].last = a]
    /\ UNCHANGED <<usedSet, deadSet, refused>>

\* Success ends the loop.  mod_ai_batch binds the key to a new batch (SET NX).
forwardOK(r) ==
    LET rebind == /\ policy.affinity /\ SessionOf[r] # NoAi
                  /\ Keys(r) # <<>> /\ areq[r].key # areq[r].bound
    IN  /\ areq[r].pc = "forward"
        /\ areq' = [areq EXCEPT ![r].pc = IF rebind THEN "rebind" ELSE "settle", ![r].last = "ok"]
        /\ batchKey' = IF r \in AiBatch /\ batchKey[Here(r)] = NoAi
                       THEN [batchKey EXCEPT ![Here(r)] = areq[r].key] ELSE batchKey
        /\ UNCHANGED <<policy, binding, penalty, usedSet, deadSet, refused>>

\* A callback of HandleAfterAITargetModel answers instead of the backend:
\* the rate limiter (ErrAiRateLimit), the model check (400), the reservation
\* of a batch (429, see forwardRefused).  Or the body is rejected by
\* mod_body_process, or the status ends the loop: 400, 404 and the like.
forwardStops(r) ==
    /\ areq[r].pc = "forward"
    /\ \E a \in {"local", "bodyrejected", "400", "404"} :
          /\ a = "404" => r \notin AiBatch \/ Keys(r) = <<>>
          /\ ended(r, a)
    /\ UNCHANGED reqLocal

\* Without keys the answer of the only forward stands.
forwardKeyless(r) ==
    /\ areq[r].pc = "forward" /\ Keys(r) = <<>>
    /\ \E a \in {"429", "auth", "5xx"} : ended(r, a)
    /\ UNCHANGED reqLocal

\* 404 of a batch: its bindings are dropped and the key penalized.
forwardNotFound(r) ==
    /\ areq[r].pc = "forward" /\ r \in AiBatch /\ Keys(r) # <<>>
    /\ batchKey' = [batchKey EXCEPT ![Here(r)] = NoAi]
    /\ penalty' = IF policy.penalty THEN [penalty EXCEPT ![<<Here(r), areq[r].key>>] = "short"] ELSE penalty
    /\ ended(r, "404")
    /\ UNCHANGED <<policy, binding>>

Penalizes == policy.affinity /\ policy.penalty

\* 429 marks the key as used, and 401, 402 and 403 as dead, by its index.  The 429
\* may be that of mod_ai_batch.
forwardRefused(r, a) ==
    LET c == Here(r)
        k == areq[r].key
    IN  /\ areq[r].pc = "forward" /\ Keys(r) # <<>>
        /\ areq' = [areq EXCEPT ![r].pc = IF Penalizes /\ SessionOf[r] # NoAi THEN "unbind" ELSE "retry",
                                ![r].last = a]
        /\ \/ /\ a \in {"429", "quota"}
              /\ a = "quota" => r \in AiBatch
              /\ usedSet' = [usedSet EXCEPT ![r] = @ \cup {areq[r].pos}]
              /\ UNCHANGED <<deadSet, refused>>
           \/ /\ a = "auth"
              /\ deadSet' = [deadSet EXCEPT ![r] = @ \cup {areq[r].pos}]
              /\ refused' = [refused EXCEPT ![r] = @ \cup {k}]
              /\ UNCHANGED usedSet
        /\ penalty' = IF Penalizes
                      THEN [penalty EXCEPT ![<<c, k>>] = IF a = "auth" THEN "long" ELSE "short"]
                      ELSE penalty
        /\ UNCHANGED <<policy, binding, batchKey>>

\* redisDeleteBinding after a penalty.
redisDeleteBinding(r) ==
    /\ areq[r].pc = "unbind"
    /\ binding' = [binding EXCEPT ![<<Here(r), SessionOf[r]>>] = NoAi]
    /\ To(r, "retry")
    /\ UNCHANGED <<policy, penalty, batchKey, usedSet, deadSet, refused>>

\* 5xx or an error of the connection: the same key again.
forwardTransient(r) ==
    /\ areq[r].pc = "forward" /\ Keys(r) # <<>>
    /\ areq' = [areq EXCEPT ![r].pc = "retry", ![r].keep = TRUE, ![r].last = "5xx"]
    /\ UNCHANGED <<reqLocal, usedSet, deadSet, refused>>

\* The head of the loop over the keys; it ends early if the body cannot be
\* rewound.
nextKey(r) ==
    /\ areq[r].pc = "retry"
    /\ \/ To(r, "settle")
       \/ /\ areq[r].left > 0
          /\ areq' = [areq EXCEPT ![r].pc = IF areq[r].keep THEN "forward" ELSE "select",
                                  ![r].left = @ - 1, ![r].keep = FALSE]
    /\ UNCHANGED <<reqLocal, usedSet, deadSet, refused>>

-----------------------------------------------------------------------------
(* The loop over the clusters in ServeHTTPForAI.                           *)

\* shouldTriggerFallback, of the result of an attempt.
shouldTriggerFallback(a) ==
    a \in {"error", "nokey", "429", "auth", "5xx", "400", "quota", "bodyrejected"}

\* A batch, or a body that cannot be rewound, is not sent to a second cluster.
fallback(r) ==
    /\ areq[r].pc = "settle"
    /\ \/ /\ areq' = [areq EXCEPT ![r].pc = "enter", ![r].att = @ + 1]
          /\ r \notin AiBatch /\ areq[r].att < Len(Attempts)
          /\ shouldTriggerFallback(areq[r].last)
       \/ areq' = [areq EXCEPT ![r] = [NewReq EXCEPT !.pc = "done", !.last = areq[r].last,
                                                     !.att = areq[r].att]]
    /\ usedSet' = [usedSet EXCEPT ![r] = {}]
    /\ deadSet' = [deadSet EXCEPT ![r] = {}]
    /\ refused' = [refused EXCEPT ![r] = {}]
    /\ UNCHANGED reqLocal

\* External: a key of Redis reaches its TTL.  A penalty of an hour outlives
\* the requests that are under way.
expire ==
    /\ \/ \E x \in DOMAIN binding :
             binding[x] # NoAi /\ binding' = [binding EXCEPT ![x] = NoAi] /\ UNCHANGED penalty
       \/ \E x \in DOMAIN penalty :
             penalty[x] = "short" /\ penalty' = [penalty EXCEPT ![x] = "none"] /\ UNCHANGED binding
    /\ UNCHANGED <<policy, batchKey, areq, usedSet, deadSet, refused>>

AiNext ==
    \/ \E r \in AiReqs :
          \/ enterCluster(r) \/ selectKeys(r) \/ chooseAIKeyWithAffinity(r)
          \/ redisSetBinding(r) \/ redisDeleteBinding(r)
          \/ forwardOK(r) \/ forwardStops(r) \/ forwardKeyless(r) \/ forwardNotFound(r)
          \/ \E a \in {"429", "quota", "auth"} : forwardRefused(r, a)
          \/ forwardTransient(r) \/ nextKey(r) \/ fallback(r)
    \/ expire

AiSpec == AiInit /\ [][AiNext]_aiVars

-----------------------------------------------------------------------------
(* Properties.                                                             *)

\* A key that refused this request (401, 402, 403) is not tried again for it,
\* even if another request of the session binds the session to it meanwhile:
\* the list of keys is the same in every round unless penalties change it.  The
\* only key of a cluster is excepted, with affinity it is taken unasked, and so
\* is a cluster that lists a key twice: the dead one is known by its index.
DeadNotReused ==
    \A r \in AiReqs :
        /\ areq[r].pc \in {"bind", "forward"} /\ ~policy.penalty
        /\ Len(Keys(r)) > 1 /\ IsInjective(Keys(r))
        => areq[r].key \notin refused[r]

\* What the comment on the synthetic 429 says: it is sent when no usable key
\* is left, every key is penalized, without weight or dead.
ExhaustedOnly ==
    \A r \in AiReqs :
        areq[r].pc = "settle" /\ areq[r].last = "nokey" =>
            \A k \in Range(Keys(r)) :
                KeyWeight[k] = 0 \/ Penalized(r, k) \/ k \in refused[r]

\* What aiClusterInvoke says of a local rejection: it is not a problem of the
\* key of the provider and leaves no penalty on it.
NoLocalPenalty ==
    [][\A r \in AiReqs : areq'[r].last = "quota" /\ areq[r].pc = "forward" => penalty' = penalty]_aiVars
=============================================================================
