------------------------------ MODULE AiBatch -------------------------------
(***************************************************************************)
(* Quota of an API key: mod_ai_token_auth checks the balance before a      *)
(* request and deducts its cost when it finishes; mod_ai_batch reserves    *)
(* quota when a batch is created, and when the output is downloaded or the *)
(* batch ends without output has it settled or released.  Balance, reserve *)
(* and claims live in Redis: one action is one command or script, so that  *)
(* requests, of any gateway, interleave between them.                      *)
(*                                                                         *)
(* There is one quota plan; a cost is counted in units of the plan.        *)
(***************************************************************************)
EXTENDS Integers, FiniteSets, FiniteSetsExt, Functions

CONSTANTS
    BReqs, Batches,
    Quota,        \* the balance at the start
    ChatCost,     \* calcCostUnits of a chat request
    BatchCost,    \* cost of a batch by the usage in its output
    ReserveUnits, \* estLines * ReservePerLineMicros
    NoBatch,
    RedisErrors   \* commands may fail

ASSUME BatchAssumption ==
    /\ Quota \in Nat /\ ChatCost \in Nat /\ BatchCost \in Nat /\ ReserveUnits \in Nat
    /\ NoBatch \notin Batches /\ RedisErrors \in BOOLEAN

VARIABLES
    provider,   \* the status of a batch at the provider
    balance, mirror,
    reserve,    \* BATCH_RESERVE_BATCH: units, 0 if there is no record
    settledKeys,\* BATCH_SETTLED: by batch, or by its output file
    fileOf,     \* BATCH_FILE of the output of a batch has its batch_id
    active,     \* BATCH_ACTIVE
    breq,
    deducts     \* deductions by settle key

batRedis == <<balance, mirror, reserve, settledKeys, fileOf, active>>
batVars == <<provider, batRedis, breq, deducts>>

SettleKeys == Batches \X {"batch", "file"}
NewBReq == [pc |-> "idle", op |-> "none", batch |-> NoBatch, key |-> "none", units |-> 0]

BatPcs == {"idle", "precheck", "premirror", "owner", "forward", "reserve", "record", "activeadd", "bind",
           "inactive", "claim", "deduct", "read", "giveback", "drop", "mark", "finished", "done"}
BReqRec == [pc : BatPcs, op : {"none", "chat", "create", "get", "cancel", "download"},
            batch : Batches \cup {NoBatch}, key : {"none", "batch", "file"}, units : Nat]

BatTypeOK ==
    /\ provider \in [Batches -> {"none", "running", "completed", "cancelled"}]
    /\ balance \in 0..Quota /\ mirror \in Nat
    /\ reserve \in [Batches -> {0, ReserveUnits}]
    /\ settledKeys \subseteq SettleKeys /\ fileOf \subseteq Batches /\ active \subseteq Batches
    /\ deducts \in [SettleKeys -> Nat]
    /\ breq \in [BReqs -> BReqRec]

BatInit ==
    /\ provider = [b \in Batches |-> "none"]
    /\ balance = Quota /\ mirror = 0
    /\ reserve = [b \in Batches |-> 0]
    /\ settledKeys = {} /\ fileOf = {} /\ active = {}
    /\ breq = [r \in BReqs |-> NewBReq]
    /\ deducts = [k \in SettleKeys |-> 0]

BatAt(r, pc) == breq[r].pc = pc
BatGoto(r, pc) == breq' = [breq EXCEPT ![r].pc = pc]
BatEnds(r) == breq' = [breq EXCEPT ![r] = [NewBReq EXCEPT !.pc = "done"]]
BatFails(r) == RedisErrors /\ BatEnds(r)

-----------------------------------------------------------------------------
(* Before the request is forwarded.                                        *)

\* tokenFoundProductHandler: ValidateUserTokenByReq rejects a key whose plan
\* has no balance, and on an error of Redis.
HasBalance(r) ==
    /\ BatAt(r, "idle")
    /\ \/ BatFails(r)
       \/ balance <= 0 /\ BatEnds(r)
       \/ /\ balance > 0
          /\ \E op \in {"chat", "create", "get", "cancel", "download"}, b \in Batches :
                breq' = [breq EXCEPT ![r].op = op,
                           ![r].batch = IF op = "chat" THEN NoBatch ELSE b,
                           ![r].pc = CASE op = "create" -> "precheck"
                                       [] op = "download" -> "owner"
                                       [] OTHER -> "forward"]
    /\ UNCHANGED <<provider, batRedis, deducts>>

\* BatchPreCheck reads the balance, then the mirror.
BatchPreCheck(r) ==
    /\ \/ /\ BatAt(r, "precheck")
          /\ \/ balance <= 0 /\ BatEnds(r)
             \/ balance > 0 /\ breq' = [breq EXCEPT ![r].pc = "premirror", ![r].units = balance]
             \/ BatFails(r)
       \/ /\ BatAt(r, "premirror")
          /\ IF breq[r].units - mirror < ReserveUnits
             THEN BatEnds(r)
             ELSE breq' = [breq EXCEPT ![r].pc = "forward", ![r].units = 0]
    /\ UNCHANGED <<provider, batRedis, deducts>>

\* preCheckDownload: the binding of the file says which batch it belongs to.
\* A miss, or an error, leaves the file as the key of the settlement: the
\* policy "deny" is only counted.
preCheckDownload(r) ==
    /\ BatAt(r, "owner")
    /\ \E k \in {"batch", "file"} :
          /\ k = "batch" => breq[r].batch \in fileOf
          /\ k = "file" => breq[r].batch \notin fileOf \/ RedisErrors
          /\ breq' = [breq EXCEPT ![r].pc = "forward", ![r].key = k]
    /\ UNCHANGED <<provider, batRedis, deducts>>

-----------------------------------------------------------------------------
(* The answer of the provider, captured by mod_ai_batch.                   *)

\* What finishes after the answer: finishSmallJSON and usageScanBody.finalize
\* run when the body has been read, the finish handlers after them.
forwarded(r) ==
    LET b == breq[r].batch
        op == breq[r].op
        to(pc) == BatGoto(r, pc) /\ UNCHANGED provider
    IN  /\ BatAt(r, "forward")
        /\ \/ BatEnds(r) /\ UNCHANGED provider                 \* not 200, or aborted
           \/ op = "chat" /\ to("deduct")
           \/ /\ op = "create" /\ provider[b] = "none"
              /\ provider' = [provider EXCEPT ![b] = "running"]
              /\ BatGoto(r, "reserve")
           \/ op = "get" /\ provider[b] # "none" /\ to(IF provider[b] = "running" THEN "finished"
                                                       ELSE IF provider[b] = "completed" THEN "bind"
                                                       ELSE "inactive")
           \/ /\ op = "cancel" /\ provider[b] # "none"
              /\ provider' = IF provider[b] = "running" THEN [provider EXCEPT ![b] = "cancelled"] ELSE provider
              /\ BatGoto(r, "inactive")
           \/ op = "download" /\ provider[b] = "completed" /\ to("claim")
        /\ UNCHANGED <<batRedis, deducts>>

\* finishCreate: BatchReserve adds to the mirror, records the units, and the
\* batch is counted as active.
BatchReserve(r) ==
    LET b == breq[r].batch
    IN  /\ \/ /\ BatAt(r, "reserve")
              /\ \/ mirror' = mirror + ReserveUnits /\ BatGoto(r, "record")
                 \/ RedisErrors /\ BatGoto(r, "activeadd") /\ UNCHANGED mirror
              /\ UNCHANGED <<reserve, active>>
           \/ /\ BatAt(r, "record")
              /\ reserve' = [reserve EXCEPT ![b] = ReserveUnits]
              /\ BatGoto(r, "activeadd")
              /\ UNCHANGED <<mirror, active>>
           \/ /\ BatAt(r, "activeadd")
              /\ active' = active \cup {b}
              /\ BatGoto(r, "finished")
              /\ UNCHANGED <<mirror, reserve>>
        /\ UNCHANGED <<provider, balance, settledKeys, fileOf, deducts>>

\* finishGet binds the output file to the batch.
writeOutputFileBinding(r) ==
    /\ BatAt(r, "bind")
    /\ \/ fileOf' = fileOf \cup {breq[r].batch}
       \/ RedisErrors /\ UNCHANGED fileOf
    /\ BatGoto(r, "finished")
    /\ UNCHANGED <<provider, balance, mirror, reserve, settledKeys, active, deducts>>

\* markRelease, of finishGet and finishCancel.
markRelease(r) ==
    /\ BatAt(r, "inactive")
    /\ active' = active \ {breq[r].batch}
    /\ breq' = [breq EXCEPT ![r].pc = "read", ![r].key = "batch"]
    /\ UNCHANGED <<provider, balance, mirror, reserve, settledKeys, fileOf, deducts>>

-----------------------------------------------------------------------------
(* tokenRequestFinishHandler.                                              *)

\* QuotaPlan.Deduct takes what there is, never more than the balance.
Deducted(bal, cost) == bal - Min({bal, cost})

\* The claim of a settlement; without SET NX:
BadBatFree(r) == TRUE

BatFree(r) == <<breq[r].batch, breq[r].key>> \notin settledKeys

\* batchSettle claims the settlement; only who wins it deducts.
batchSettle(r) ==
    /\ BatAt(r, "claim")
    /\ \/ BatFails(r) /\ UNCHANGED settledKeys
       \/ ~BatFree(r) /\ BatEnds(r) /\ UNCHANGED settledKeys
       \/ /\ BatFree(r)
          /\ settledKeys' = settledKeys \cup {<<breq[r].batch, breq[r].key>>}
          /\ BatGoto(r, "deduct")
    /\ UNCHANGED <<provider, balance, mirror, reserve, fileOf, active, deducts>>

\* A deduction that fails is counted and not repeated.
Deduct(r) ==
    LET chat == breq[r].op = "chat"
    IN  /\ BatAt(r, "deduct")
        /\ \/ /\ balance' = Deducted(balance, IF chat THEN ChatCost ELSE BatchCost)
              /\ deducts' = IF chat THEN deducts
                            ELSE [deducts EXCEPT ![<<breq[r].batch, breq[r].key>>] = @ + 1]
           \/ RedisErrors /\ UNCHANGED <<balance, deducts>>
        /\ IF chat THEN BatEnds(r) ELSE BatGoto(r, "read")
        /\ UNCHANGED <<provider, mirror, reserve, settledKeys, fileOf, active>>

\* BatchRelease reads the record, gives the units back to the mirror, drops
\* the record and occupies the claim.  The settlement of a file whose batch
\* is unknown finds no record.
BatchRelease(r) ==
    LET b == breq[r].batch
    IN  /\ \/ /\ BatAt(r, "read")
              /\ IF breq[r].key = "file" \/ reserve[b] = 0
                 THEN BatGoto(r, "finished")
                 ELSE breq' = [breq EXCEPT ![r].pc = "giveback", ![r].units = reserve[b]]
              /\ UNCHANGED <<mirror, reserve, settledKeys>>
           \/ /\ BatAt(r, "giveback")
              /\ mirror' = mirror - Min({mirror, breq[r].units})
              /\ breq' = [breq EXCEPT ![r].pc = "drop", ![r].units = 0]
              /\ UNCHANGED <<reserve, settledKeys>>
           \/ /\ BatAt(r, "drop")
              /\ reserve' = [reserve EXCEPT ![b] = 0]
              /\ BatGoto(r, "mark")
              /\ UNCHANGED <<mirror, settledKeys>>
           \/ /\ BatAt(r, "mark")
              /\ settledKeys' = settledKeys \cup {<<b, "batch">>}
              /\ BatGoto(r, "finished")
              /\ UNCHANGED <<mirror, reserve>>
        /\ UNCHANGED <<provider, balance, fileOf, active, deducts>>

batFinished(r) ==
    /\ BatAt(r, "finished") /\ BatEnds(r)
    /\ UNCHANGED <<provider, batRedis, deducts>>

\* External: the provider completes a batch, or it expires there.
providerEnds(b) ==
    /\ provider[b] = "running"
    /\ provider' \in {[provider EXCEPT ![b] = s] : s \in {"completed", "cancelled"}}
    /\ UNCHANGED <<batRedis, breq, deducts>>

BatNext ==
    \/ \E r \in BReqs :
          \/ HasBalance(r) \/ BatchPreCheck(r) \/ preCheckDownload(r) \/ forwarded(r)
          \/ BatchReserve(r) \/ writeOutputFileBinding(r) \/ markRelease(r)
          \/ batchSettle(r) \/ Deduct(r) \/ BatchRelease(r) \/ batFinished(r)
    \/ \E b \in Batches : providerEnds(b)

BatSpec == BatInit /\ [][BatNext]_batVars

-----------------------------------------------------------------------------
(* Properties.                                                             *)

\* However downloads of the output, polls and cancels interleave, and
\* whatever fails, a settlement is deducted at most once, and only under the
\* claim that also keeps a released batch from being settled.
SettledOnce ==
    \A k \in SettleKeys : deducts[k] <= 1 /\ (deducts[k] > 0 => k \in settledKeys)

\* What BatchRelease says of itself: it is safe to call it several times.
\* When no request is under way the mirror is the sum of the reserves.
MirrorExact ==
    (\A r \in BReqs : breq[r].pc \in {"idle", "done"}) => mirror = SumFunction(reserve)
=============================================================================
