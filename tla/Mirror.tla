------------------------------- MODULE Mirror -------------------------------
(***************************************************************************)
(* mod_traffic_mirror: the request path builds a copy of a request and     *)
(* puts it into a bounded queue without waiting; workers take the copies,  *)
(* ask the breaker of the mirror cluster, send and read the answer away.   *)
(* The handler runs at HandleForward, so once for every attempt that the   *)
(* forwarding of an AI request makes.  Bodies keep a size and what their   *)
(* "model" field holds.                                                     *)
(***************************************************************************)
EXTENDS Integers, Sequences, SequencesExt, FiniteSets

CONSTANTS MReqs,            \* the requests
          MWorkers,         \* the workers, MaxConcurrent of them
          QueueCapacity,    \* at least 1: ConfModTrafficMirrorCheck
          MaxMirrorBody,    \* MaxMirrorBodyBytes
          FailThreshold, Cooldown,   \* CircuitBreakerFailThreshold, ..CooldownSec in ticks
          MirrorFiles,      \* the rule files: sequences of rules
          MirrorBodies,     \* the bodies of requests
          MAttempts         \* bound: attempts of a request

\* ConfModTrafficMirrorCheck.
ASSUME MirrorAssumption ==
    /\ FailThreshold \in Nat \ {0} /\ Cooldown \in Nat \ {0}
    /\ MAttempts \in [MReqs -> Nat] /\ "none" \notin MReqs

VARIABLES mTable,     \* mirrorRuleTable: the rules of the product
          mReq,       \* per request: its body, attempts left, marked (CtxMirrored), copies built
          mQueue,     \* mirrorSender.queue
          mWorker,    \* per worker: the step of exec and the task in hand
          mBreaker,   \* circuitState of the cluster: fails, open, age of openedAt
          mSeen       \* history: failures since the last success, and the age of the last one

mirrorVars == <<mTable, mReq, mQueue, mWorker, mBreaker, mSeen>>

Idle == [st |-> "idle", task |-> [req |-> "none", model |-> "none"]]

-----------------------------------------------------------------------------
(* The files.                                                              *)

\* setDefaults, Check and Convert: no condition is a condition that holds, no
\* percentage is all of them.
setDefaults(r) ==
    [r EXCEPT !.cond = IF @ = "nil" THEN "" ELSE @, !.percentage = IF @ = -1 THEN 100 ELSE @]
MirrorRuleCheck(r) ==
    /\ r.cluster # "" /\ r.percentage \in 0..100 /\ r.cond # "bad" /\ r.rewrite \in {"none", "model"}
MirrorRulesCheck(rs) ==
    /\ \A i \in DOMAIN rs : MirrorRuleCheck(rs[i])
    /\ \A i, j \in DOMAIN rs : i # j => rs[i].cond # rs[j].cond
MirrorRuleConfLoad(file) ==
    LET rs == [i \in DOMAIN file |-> setDefaults(file[i])]
    IN  [ok |-> MirrorRulesCheck(rs), rules |-> rs]

loadMirrorRuleTable(file) ==
    /\ MirrorRuleConfLoad(file).ok
    /\ mTable # MirrorRuleConfLoad(file).rules
    /\ mTable' = MirrorRuleConfLoad(file).rules
    /\ UNCHANGED <<mReq, mQueue, mWorker, mBreaker, mSeen>>

-----------------------------------------------------------------------------
(* The request path.                                                       *)

\* The first rule whose condition holds; "chat" holds for the bodies that have
\* a model.
MirrorMatch(rules, body) ==
    LET i == SelectInSeq(rules, LAMBDA r : r.cond = "" \/ (r.cond = "chat" /\ body.model # "missing"))
    IN  IF i = 0 THEN <<>> ELSE <<rules[i]>>
\* The outcomes of the draw.
sampleHit(p) == IF p >= 100 THEN {TRUE} ELSE IF p <= 0 THEN {FALSE} ELSE {TRUE, FALSE}

\* The field is set only where it is; a body that is no JSON, has no such field,
\* or already has the value, goes out as it came.
rewriteMirrorBody(body, rule) ==
    IF rule.rewrite = "none" \/ body.model \in {"invalid", "missing", rule.value} THEN body.model ELSE rule.value

\* A copy of the request as it is now, or none: the body must be here whole.
buildMirrorTask(r, rule) ==
    LET body == mReq[r].body
    IN  IF ~body.all \/ body.len > MaxMirrorBody THEN <<>>
        ELSE <<[req |-> r, model |-> rewriteMirrorBody(body, rule)]>>

\* The queue takes a task when it has room; otherwise the copy is dropped.
Submit(task) ==
    /\ mQueue' = IF Len(mQueue) < QueueCapacity THEN Append(mQueue, task) ELSE mQueue
    /\ UNCHANGED mWorker

BadMirrorHandler(r) ==
    /\ mReq[r].left > 0
    /\ LET rule == MirrorMatch(mTable, mReq[r].body)
       IN  \/ /\ rule # <<>> /\ ~mReq[r].mirrored
              /\ \E hit \in sampleHit(rule[1].percentage) :
                    LET task == IF hit THEN buildMirrorTask(r, rule[1]) ELSE <<>>
                    IN  /\ mReq' = [mReq EXCEPT ![r].left = @ - 1,
                                       ![r].mirrored = task # <<>> /\ Len(mQueue) < QueueCapacity,
                                       ![r].copies = IF task # <<>> THEN @ + 1 ELSE @]
                        /\ IF task # <<>> THEN Submit(task[1]) ELSE UNCHANGED <<mQueue, mWorker>>
           \/ /\ rule = <<>> \/ mReq[r].mirrored
              /\ mReq' = [mReq EXCEPT ![r].left = @ - 1]
              /\ UNCHANGED <<mQueue, mWorker>>
    /\ UNCHANGED <<mTable, mBreaker, mSeen>>
mirrorHandler(r) ==
    /\ mReq[r].left > 0
    /\ LET rule == MirrorMatch(mTable, mReq[r].body)
       IN  \/ /\ rule # <<>> /\ ~mReq[r].mirrored
              /\ \E hit \in sampleHit(rule[1].percentage) :
                    LET task == IF hit THEN buildMirrorTask(r, rule[1]) ELSE <<>>
                    IN  /\ mReq' = [mReq EXCEPT ![r].left = @ - 1, ![r].mirrored = task # <<>>,
                                                ![r].copies = IF task # <<>> THEN @ + 1 ELSE @]
                        /\ IF task # <<>> THEN Submit(task[1]) ELSE UNCHANGED <<mQueue, mWorker>>
           \/ /\ rule = <<>> \/ mReq[r].mirrored
              /\ mReq' = [mReq EXCEPT ![r].left = @ - 1]
              /\ UNCHANGED <<mQueue, mWorker>>
    /\ UNCHANGED <<mTable, mBreaker, mSeen>>

-----------------------------------------------------------------------------
(* The workers.                                                            *)

\* Past the cooldown everyone passes until a result is in.
Open == mBreaker.open /\ mBreaker.age < Cooldown
BadOnFail ==
    LET n == mBreaker.fails + 1
    IN  mBreaker' = IF n >= FailThreshold /\ ~mBreaker.open THEN [fails |-> FailThreshold, open |-> TRUE, age |-> 0]
                    ELSE [mBreaker EXCEPT !.fails = IF n > FailThreshold THEN FailThreshold ELSE n]
\* The count is capped at the threshold: past it only ">=" is asked.
OnFail ==
    LET n == mBreaker.fails + 1
    IN  mBreaker' = IF n >= FailThreshold THEN [fails |-> FailThreshold, open |-> TRUE, age |-> 0]
                    ELSE [mBreaker EXCEPT !.fails = n]
OnSuccess == mBreaker' = [fails |-> 0, open |-> FALSE, age |-> 0]

Failed == mSeen' = [streak |-> IF mSeen.streak < FailThreshold THEN mSeen.streak + 1 ELSE mSeen.streak, age |-> 0]
Answered == mSeen' = [streak |-> 0, age |-> 0]

\* for task := range s.queue
Take(w) ==
    /\ mWorker[w].st = "idle" /\ mQueue # <<>>
    /\ mWorker' = [mWorker EXCEPT ![w] = [st |-> "exec", task |-> Head(mQueue)]]
    /\ mQueue' = Tail(mQueue)
    /\ UNCHANGED <<mTable, mReq, mBreaker, mSeen>>
\* exec: the breaker, then a backend of the cluster; no cluster or no backend is
\* a failure like any other.
execStart(w) ==
    /\ mWorker[w].st = "exec"
    /\ \/ /\ Open
          /\ mWorker' = [mWorker EXCEPT ![w] = Idle]
          /\ UNCHANGED <<mBreaker, mSeen>>
       \/ /\ ~Open                                   \* resolveTarget finds a backend
          /\ mWorker' = [mWorker EXCEPT ![w].st = "send"]
          /\ UNCHANGED <<mBreaker, mSeen>>
       \/ /\ ~Open                                   \* resolveTarget fails
          /\ OnFail /\ Failed
          /\ mWorker' = [mWorker EXCEPT ![w] = Idle]
    /\ UNCHANGED <<mTable, mReq, mQueue>>
\* doWithLayeredTimeout ends: with the head of an answer, or because the
\* connection, the wait for the first byte or the whole took too long.  The
\* success is reported before the body is read.
sendEnds(w) ==
    /\ mWorker[w].st = "send"
    /\ \/ OnSuccess /\ Answered /\ mWorker' = [mWorker EXCEPT ![w].st = "drain"]
       \/ OnFail /\ Failed /\ mWorker' = [mWorker EXCEPT ![w] = Idle]
    /\ UNCHANGED <<mTable, mReq, mQueue>>

\* The answer is read away, up to MaxResponseBodyBytes, and counted.
drainEnds(w) ==
    /\ mWorker[w].st = "drain"
    /\ mWorker' = [mWorker EXCEPT ![w] = Idle]
    /\ UNCHANGED <<mTable, mReq, mQueue, mBreaker, mSeen>>

\* Time passes.
MirrorTick ==
    /\ (mBreaker.open /\ mBreaker.age < Cooldown) \/ (mSeen.streak > 0 /\ mSeen.age < Cooldown)
    /\ mBreaker' = IF mBreaker.open /\ mBreaker.age < Cooldown THEN [mBreaker EXCEPT !.age = @ + 1] ELSE mBreaker
    /\ mSeen' = IF mSeen.streak > 0 /\ mSeen.age < Cooldown THEN [mSeen EXCEPT !.age = @ + 1] ELSE mSeen
    /\ UNCHANGED <<mTable, mReq, mQueue, mWorker>>

MirrorInit ==
    /\ mTable \in {MirrorRuleConfLoad(f).rules : f \in {g \in MirrorFiles : MirrorRuleConfLoad(g).ok}}
    /\ \E body \in [MReqs -> MirrorBodies] :
          mReq = [r \in MReqs |-> [body |-> body[r], left |-> MAttempts[r], mirrored |-> FALSE, copies |-> 0]]
    /\ mQueue = <<>> /\ mWorker = [w \in MWorkers |-> Idle]
    /\ mBreaker = [fails |-> 0, open |-> FALSE, age |-> 0]
    /\ mSeen = [streak |-> 0, age |-> 0]
MirrorNext ==
    \/ \E f \in MirrorFiles : loadMirrorRuleTable(f)
    \/ \E r \in MReqs : mirrorHandler(r)
    \/ \E w \in MWorkers : Take(w) \/ execStart(w) \/ sendEnds(w) \/ drainEnds(w)
    \/ MirrorTick
MirrorSpec == MirrorInit /\ [][MirrorNext]_mirrorVars

-----------------------------------------------------------------------------

\* However often the forwarding of a request is tried again, and whether or not
\* the queue took the copy, at most one copy of it is built (mirrorHandler marks
\* the request before Submit); and no copy is on its way twice.
MirroredOnce ==
    \A r \in MReqs :
        /\ mReq[r].copies <= 1
        /\ Cardinality({i \in DOMAIN mQueue : mQueue[i].req = r})
           + Cardinality({w \in MWorkers : mWorker[w].task.req = r}) <= 1

\* After FailThreshold failures in a row, with sends of other workers still on
\* their way, no worker starts a send before a whole cooldown has passed since
\* the last failure, unless one of the late sends succeeded (Open, OnFail).
BreakerShields ==
    [][\A w \in MWorkers :
          mWorker[w].st = "exec" /\ mWorker'[w].st = "send"
             => mSeen.streak < FailThreshold \/ mSeen.age >= Cooldown]_mirrorVars

\* The traffic mirror: each request is mirrored at most once, however often it is
\* forwarded, and the mirror's breaker keeps sends away from a failing cluster for
\* its cooldown (mod_traffic_mirror).
MirrorSound == []MirroredOnce /\ BreakerShields
=============================================================================
