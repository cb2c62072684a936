---------------------------- MODULE GatewayProofs ----------------------------
(***************************************************************************)
(* TLAPS proofs about what treats a request between client and backend,    *)
(* for any number of requests, gateways, batches, policies, keys, clients  *)
(* and workers.  First the state that AI requests share in Redis: the      *)
(* settlement of batches (AiBatch), the slots of the rate limiter          *)
(* (AiLimits) and the choice of keys (AiForward); then the answer cache    *)
(* and the intent service (AiCaches), the traffic mirror (Mirror), sticky  *)
(* sessions and the prison (Sessions), and bodies kept for another attempt *)
(* (BodyBuffer).                                                           *)
(***************************************************************************)
EXTENDS AiForward, AiLimits, AiBatch, AiCaches, Mirror, Sessions, BodyBuffer,
        FiniteSetTheorems, SequenceTheorems, WellFoundedInduction, TLAPS

-----------------------------------------------------------------------------
(* Batches.                                                                *)

BatKey(r) == <<breq[r].batch, breq[r].key>>

\* r has won a claim and has not deducted yet.
Paying(q) == q.pc = "deduct" /\ q.op # "chat"

\* What the program point of a request says about its operation, its batch
\* and the key of its settlement.
Placed(q) ==
    /\ q.op = "chat" => q.pc \in {"forward", "deduct"}
    /\ q.op \notin {"none", "chat"} => q.batch \in Batches
    /\ q.pc \notin {"idle", "done"} => q.op # "none"
    /\ q.pc \in {"precheck", "premirror"} => q.op = "create"
    /\ (q.pc = "claim" \/ (q.pc = "forward" /\ q.op = "download")) => q.key # "none"

AllPlaced == \A r \in BReqs : Placed(breq[r])

\* Who is about to deduct holds the claim, and nothing has been deducted
\* under it.
Paid ==
    \A r \in BReqs :
        Paying(breq[r]) => BatKey(r) \in settledKeys /\ deducts[BatKey(r)] = 0

\* No two requests are about to deduct under one claim.
Alone ==
    \A r, s \in BReqs :
        Paying(breq[r]) /\ Paying(breq[s]) /\ BatKey(r) = BatKey(s) => r = s

BatIInv == BatTypeOK /\ AllPlaced /\ Paid /\ Alone /\ SettledOnce

\* At the start nothing is claimed and nothing deducted.
LEMMA BatInitial == BatInit => BatIInv
<1> SUFFICES ASSUME BatInit PROVE BatIInv
  OBVIOUS
<1>1. NewBReq \in BReqRec
  BY DEF NewBReq, BReqRec, BatPcs
<1>2. BatTypeOK
  BY <1>1, BatchAssumption DEF BatInit, BatTypeOK
<1>3. \A r \in BReqs : breq[r] = NewBReq
  BY DEF BatInit
<1>4. AllPlaced /\ Paid /\ Alone
  BY <1>3 DEF AllPlaced, Placed, Paid, Alone, Paying, NewBReq
<1>5. SettledOnce
  BY DEF BatInit, SettledOnce
<1> QED
  BY <1>2, <1>4, <1>5 DEF BatIInv

\* A request moves on without winning a claim and without deducting.
LEMMA MovesOn ==
    ASSUME BatIInv, NEW r \in BReqs, NEW q \in BReqRec, Placed(q), ~Paying(q),
           breq' = [breq EXCEPT ![r] = q],
           settledKeys \subseteq settledKeys', deducts' = deducts
    PROVE  AllPlaced' /\ Paid' /\ Alone' /\ SettledOnce' /\ breq' \in [BReqs -> BReqRec]
<1>1. breq \in [BReqs -> BReqRec] /\ deducts \in [SettleKeys -> Nat]
  BY DEF BatIInv, BatTypeOK
<1>2. breq'[r] = q /\ \A s \in BReqs \ {r} : breq'[s] = breq[s]
  BY <1>1
<1>3. AllPlaced'
  BY <1>2 DEF AllPlaced, BatIInv
<1>4. Paid'
  BY <1>2 DEF Paid, BatIInv, BatKey
<1>5. Alone'
  BY <1>2 DEF Alone, BatIInv, BatKey
<1>6. SettledOnce'
  BY DEF SettledOnce, BatIInv
<1> QED
  BY <1>1, <1>3, <1>4, <1>5, <1>6

\* A request ends.
LEMMA Ends ==
    ASSUME BatIInv, NEW r \in BReqs, BatEnds(r),
           settledKeys \subseteq settledKeys', deducts' = deducts
    PROVE  AllPlaced' /\ Paid' /\ Alone' /\ SettledOnce' /\ breq' \in [BReqs -> BReqRec]
<1> DEFINE q == [NewBReq EXCEPT !.pc = "done"]
<1>1. q \in BReqRec /\ Placed(q) /\ ~Paying(q)
  BY DEF NewBReq, BReqRec, BatPcs, Placed, Paying
<1>2. breq' = [breq EXCEPT ![r] = q]
  BY DEF BatEnds
<1> QED
  BY <1>1, <1>2, MovesOn

\* A request goes to a program point at which it does not deduct.
LEMMA Goes ==
    ASSUME BatIInv, NEW r \in BReqs, NEW at \in BatPcs \ {"deduct", "claim", "forward", "precheck", "premirror"},
           breq[r].op \notin {"none", "chat"}, BatGoto(r, at),
           settledKeys \subseteq settledKeys', deducts' = deducts
    PROVE  AllPlaced' /\ Paid' /\ Alone' /\ SettledOnce' /\ breq' \in [BReqs -> BReqRec]
<1> DEFINE q == [breq[r] EXCEPT !.pc = at]
<1>1. breq[r] \in BReqRec /\ breq \in [BReqs -> BReqRec]
  BY DEF BatIInv, BatTypeOK
<1>2. q \in BReqRec /\ q.pc = at /\ q.op = breq[r].op /\ q.batch = breq[r].batch
  BY <1>1 DEF BReqRec
<1>3. Placed(breq[r])
  BY DEF BatIInv, AllPlaced
<1>4. Placed(q) /\ ~Paying(q)
  BY <1>2, <1>3 DEF Placed, Paying
<1>5. breq' = [breq EXCEPT ![r] = q]
  BY <1>1 DEF BatGoto
<1> HIDE DEF q
<1> QED
  BY <1>2, <1>4, <1>5, MovesOn

\* The lesser of two numbers.
LEMMA MinOfTwo ==
    ASSUME NEW a \in Nat, NEW b \in Nat
    PROVE  Min({a, b}) \in {a, b} /\ Min({a, b}) <= a /\ Min({a, b}) <= b
<1>1. \E x \in {a, b} : \A y \in {a, b} : x =< y
  OBVIOUS
<1> QED
  BY <1>1 DEF Min

\* Every step of a request or of the provider preserves the invariant.
LEMMA BatStep == BatIInv /\ [BatNext]_batVars => BatIInv'
<1> SUFFICES ASSUME BatIInv, [BatNext]_batVars PROVE BatIInv'
  OBVIOUS
<1> USE BatchAssumption
<1>t. /\ breq \in [BReqs -> BReqRec] /\ deducts \in [SettleKeys -> Nat]
      /\ settledKeys \subseteq SettleKeys /\ provider \in [Batches -> {"none", "running", "completed", "cancelled"}]
      /\ reserve \in [Batches -> {0, ReserveUnits}] /\ mirror \in Nat /\ balance \in 0..Quota
      /\ fileOf \subseteq Batches /\ active \subseteq Batches
  BY DEF BatIInv, BatTypeOK
<1>p. \A r \in BReqs : Placed(breq[r]) /\ breq[r] \in BReqRec
  BY <1>t DEF BatIInv, AllPlaced
<1>1. ASSUME NEW r \in BReqs, HasBalance(r) PROVE BatIInv'
  <2>1. UNCHANGED <<provider, balance, mirror, reserve, settledKeys, fileOf, active, deducts>>
    BY <1>1 DEF HasBalance, batRedis
  <2>2. CASE BatEnds(r)
    BY <2>1, <2>2, <1>t, Ends DEF BatIInv, BatTypeOK
  <2>3. ASSUME NEW op \in {"chat", "create", "get", "cancel", "download"}, NEW b \in Batches,
               breq' = [breq EXCEPT ![r].op = op,
                           ![r].batch = IF op = "chat" THEN NoBatch ELSE b,
                           ![r].pc = CASE op = "create" -> "precheck"
                                       [] op = "download" -> "owner"
                                       [] OTHER -> "forward"]
        PROVE  BatIInv'
    <3> DEFINE at == CASE op = "create" -> "precheck" [] op = "download" -> "owner" [] OTHER -> "forward"
               bt == IF op = "chat" THEN NoBatch ELSE b
               q == [breq[r] EXCEPT !.op = op, !.batch = bt, !.pc = at]
    <3>1. at \in {"precheck", "owner", "forward"} /\ bt \in Batches \cup {NoBatch}
      OBVIOUS
    <3>2. /\ (op = "chat" => at = "forward") /\ (op # "chat" => bt \in Batches)
          /\ (at = "forward" => op # "download") /\ (at = "precheck" => op = "create")
      OBVIOUS
    <3> HIDE DEF at, bt
    <3>3. q \in BReqRec /\ q.op = op /\ q.batch = bt /\ q.pc = at
      BY <1>p, <3>1 DEF BReqRec, BatPcs
    <3>4. Placed(q) /\ ~Paying(q)
      BY <3>1, <3>2, <3>3 DEF Placed, Paying
    <3>5. breq' = [breq EXCEPT ![r] = q]
      BY <2>3, <1>t DEF at, bt
    <3> HIDE DEF q
    <3> QED
      BY <2>1, <3>3, <3>4, <3>5, <1>t, MovesOn DEF BatIInv, BatTypeOK
  <2>4. \/ BatEnds(r)
        \/ \E op \in {"chat", "create", "get", "cancel", "download"}, b \in Batches :
              breq' = [breq EXCEPT ![r].op = op,
                         ![r].batch = IF op = "chat" THEN NoBatch ELSE b,
                         ![r].pc = CASE op = "create" -> "precheck"
                                     [] op = "download" -> "owner"
                                     [] OTHER -> "forward"]
    BY <1>1, Zenon DEF HasBalance, BatFails
  <2>5. CASE \E op \in {"chat", "create", "get", "cancel", "download"}, b \in Batches :
              breq' = [breq EXCEPT ![r].op = op,
                         ![r].batch = IF op = "chat" THEN NoBatch ELSE b,
                         ![r].pc = CASE op = "create" -> "precheck"
                                     [] op = "download" -> "owner"
                                     [] OTHER -> "forward"]
    BY <2>3, <2>5, ZenonT(60)
  <2> QED
    BY <2>2, <2>4, <2>5
<1>2. ASSUME NEW r \in BReqs, BatchPreCheck(r) PROVE BatIInv'
  <2>1. UNCHANGED <<provider, balance, mirror, reserve, settledKeys, fileOf, active, deducts>>
    BY <1>2 DEF BatchPreCheck, batRedis
  <2>2. CASE BatEnds(r)
    BY <2>1, <2>2, <1>t, Ends DEF BatIInv, BatTypeOK
  <2>3. CASE BatAt(r, "precheck") /\ breq' = [breq EXCEPT ![r].pc = "premirror", ![r].units = balance]
    <3> DEFINE q == [breq[r] EXCEPT !.pc = "premirror", !.units = balance]
    <3>a. balance \in Nat
      BY <1>t
    <3>0. q \in BReqRec /\ q.pc = "premirror" /\ q.op = breq[r].op /\ q.batch = breq[r].batch
      BY <1>p, <3>a DEF BReqRec, BatPcs
    <3>1. Placed(q) /\ ~Paying(q)
      BY <2>3, <3>0, <1>p DEF Placed, Paying, BatAt
    <3>2. breq' = [breq EXCEPT ![r] = q]
      BY <2>3, <1>t
    <3> HIDE DEF q
    <3> QED
      BY <2>1, <3>0, <3>1, <3>2, <1>t, MovesOn DEF BatIInv, BatTypeOK
  <2>4. CASE BatAt(r, "premirror") /\ breq' = [breq EXCEPT ![r].pc = "forward", ![r].units = 0]
    <3> DEFINE q == [breq[r] EXCEPT !.pc = "forward", !.units = 0]
    <3>1. q \in BReqRec /\ q.pc = "forward" /\ q.op = breq[r].op /\ q.batch = breq[r].batch
      BY <1>p DEF BReqRec, BatPcs
    <3>2. breq' = [breq EXCEPT ![r] = q]
      BY <2>4, <1>t
    <3>3. Placed(q) /\ ~Paying(q)
      BY <2>4, <3>1, <1>p DEF Placed, Paying, BatAt
    <3> HIDE DEF q
    <3> QED
      BY <2>1, <3>1, <3>2, <3>3, <1>t, MovesOn DEF BatIInv, BatTypeOK
  <2> QED
    BY <1>2, <2>2, <2>3, <2>4 DEF BatchPreCheck, BatFails
<1>3. ASSUME NEW r \in BReqs, preCheckDownload(r) PROVE BatIInv'
  <2>1. UNCHANGED <<provider, balance, mirror, reserve, settledKeys, fileOf, active, deducts>>
    BY <1>3 DEF preCheckDownload, batRedis
  <2>2. PICK k \in {"batch", "file"} : breq' = [breq EXCEPT ![r].pc = "forward", ![r].key = k]
    BY <1>3 DEF preCheckDownload
  <2> DEFINE q == [breq[r] EXCEPT !.pc = "forward", !.key = k]
  <2>3. q \in BReqRec /\ Placed(q) /\ ~Paying(q)
    BY <1>3, <1>p DEF preCheckDownload, BReqRec, BatPcs, Placed, Paying, BatAt
  <2>4. breq' = [breq EXCEPT ![r] = q]
    BY <2>2, <1>t
  <2> HIDE DEF q
  <2> QED
    BY <2>1, <2>3, <2>4, <1>t, MovesOn DEF BatIInv, BatTypeOK
<1>4. ASSUME NEW r \in BReqs, forwarded(r) PROVE BatIInv'
  <2>1. UNCHANGED <<balance, mirror, reserve, settledKeys, fileOf, active, deducts>>
    BY <1>4 DEF forwarded, batRedis
  <2>2. provider' \in [Batches -> {"none", "running", "completed", "cancelled"}]
    BY <1>4, <1>t DEF forwarded
  <2>3. CASE BatEnds(r)
    BY <2>1, <2>2, <2>3, <1>t, Ends DEF BatIInv, BatTypeOK
  <2>4. CASE breq[r].op = "chat" /\ BatAt(r, "forward") /\ BatGoto(r, "deduct")
    <3> DEFINE q == [breq[r] EXCEPT !.pc = "deduct"]
    <3>1. q \in BReqRec /\ q.pc = "deduct" /\ q.op = "chat"
      BY <2>4, <1>p DEF BReqRec, BatPcs
    <3>2. Placed(q) /\ ~Paying(q)
      BY <3>1 DEF Placed, Paying
    <3>3. breq' = [breq EXCEPT ![r] = q]
      BY <2>4, <1>t DEF BatGoto
    <3> HIDE DEF q
    <3> QED
      BY <2>1, <2>2, <3>1, <3>2, <3>3, <1>t, MovesOn DEF BatIInv, BatTypeOK
  <2>5. CASE breq[r].op = "download" /\ BatAt(r, "forward") /\ BatGoto(r, "claim")
    <3> DEFINE q == [breq[r] EXCEPT !.pc = "claim"]
    <3>1. /\ q \in BReqRec /\ q.pc = "claim" /\ q.op = "download"
          /\ q.batch = breq[r].batch /\ q.key = breq[r].key
      BY <2>5, <1>p DEF BReqRec, BatPcs
    <3>2. Placed(q) /\ ~Paying(q)
      BY <3>1, <2>5, <1>p DEF Placed, Paying, BatAt
    <3>3. breq' = [breq EXCEPT ![r] = q]
      BY <2>5, <1>t DEF BatGoto
    <3> HIDE DEF q
    <3> QED
      BY <2>1, <2>2, <3>1, <3>2, <3>3, <1>t, MovesOn DEF BatIInv, BatTypeOK
  <2>6. ASSUME NEW at \in {"reserve", "finished", "bind", "inactive"}, breq[r].op \in {"create", "get", "cancel"},
               BatGoto(r, at)
        PROVE  BatIInv'
    <3>1. at \in BatPcs \ {"deduct", "claim", "forward", "precheck", "premirror"}
      BY DEF BatPcs
    <3> QED
      BY <2>1, <2>2, <2>6, <3>1, <1>t, Goes DEF BatIInv, BatTypeOK
  <2>7. \/ BatEnds(r)
        \/ breq[r].op = "chat" /\ BatGoto(r, "deduct")
        \/ breq[r].op = "download" /\ BatGoto(r, "claim")
        \/ \E at \in {"reserve", "finished", "bind", "inactive"} :
              breq[r].op \in {"create", "get", "cancel"} /\ BatGoto(r, at)
    BY <1>4 DEF forwarded
  <2>8. BatAt(r, "forward")
    BY <1>4 DEF forwarded
  <2> QED
    BY <2>3, <2>4, <2>5, <2>6, <2>7, <2>8
<1>5. ASSUME NEW r \in BReqs, BatchReserve(r) PROVE BatIInv'
  <2>1. UNCHANGED <<provider, balance, settledKeys, fileOf, deducts>>
    BY <1>5 DEF BatchReserve
  <2>2. breq[r].pc \in {"reserve", "record", "activeadd"}
    BY <1>5 DEF BatchReserve, BatAt
  <2>3. breq[r].op \notin {"none", "chat"} /\ breq[r].batch \in Batches
    BY <2>2, <1>p DEF Placed
  <2>4. mirror' \in Nat /\ reserve' \in [Batches -> {0, ReserveUnits}] /\ active' \subseteq Batches
    BY <1>5, <1>t, <2>3 DEF BatchReserve
  <2>5. \E at \in {"record", "activeadd", "finished"} : BatGoto(r, at)
    BY <1>5 DEF BatchReserve
  <2>6. PICK at \in {"record", "activeadd", "finished"} : BatGoto(r, at)
    BY <2>5
  <2>7. at \in BatPcs \ {"deduct", "claim", "forward", "precheck", "premirror"}
    BY DEF BatPcs
  <2> QED
    BY <2>1, <2>3, <2>4, <2>6, <2>7, <1>t, Goes DEF BatIInv, BatTypeOK
<1>6. ASSUME NEW r \in BReqs, writeOutputFileBinding(r) PROVE BatIInv'
  <2>1. UNCHANGED <<provider, balance, mirror, reserve, settledKeys, active, deducts>> /\ BatGoto(r, "finished")
    BY <1>6 DEF writeOutputFileBinding
  <2>2. breq[r].op \notin {"none", "chat"} /\ breq[r].batch \in Batches
    BY <1>6, <1>p DEF Placed, writeOutputFileBinding, BatAt
  <2>3. fileOf' \subseteq Batches
    BY <1>6, <1>t, <2>2 DEF writeOutputFileBinding
  <2>4. "finished" \in BatPcs \ {"deduct", "claim", "forward", "precheck", "premirror"}
    BY DEF BatPcs
  <2> QED
    BY <2>1, <2>2, <2>3, <2>4, <1>t, Goes DEF BatIInv, BatTypeOK
<1>7. ASSUME NEW r \in BReqs, markRelease(r) PROVE BatIInv'
  <2>1. UNCHANGED <<provider, balance, mirror, reserve, settledKeys, fileOf, deducts>> /\ active' \subseteq Batches
    BY <1>7, <1>t DEF markRelease
  <2>2. breq[r].pc = "inactive" /\ breq' = [breq EXCEPT ![r].pc = "read", ![r].key = "batch"]
    BY <1>7 DEF markRelease, BatAt
  <2> DEFINE q == [breq[r] EXCEPT !.pc = "read", !.key = "batch"]
  <2>3. q \in BReqRec /\ q.pc = "read" /\ q.op = breq[r].op /\ q.batch = breq[r].batch
    BY <1>p DEF BReqRec, BatPcs
  <2>4. Placed(q) /\ ~Paying(q)
    BY <2>2, <2>3, <1>p DEF Placed, Paying
  <2>5. breq' = [breq EXCEPT ![r] = q]
    BY <2>2, <1>t
  <2> HIDE DEF q
  <2> QED
    BY <2>1, <2>3, <2>4, <2>5, <1>t, MovesOn DEF BatIInv, BatTypeOK
<1>8. ASSUME NEW r \in BReqs, batchSettle(r) PROVE BatIInv'
  <2>1. UNCHANGED <<provider, balance, mirror, reserve, fileOf, active, deducts>>
    BY <1>8 DEF batchSettle
  <2>2. CASE BatEnds(r) /\ settledKeys' = settledKeys
    BY <2>1, <2>2, <1>t, Ends DEF BatIInv, BatTypeOK
  <2>3. CASE /\ BatKey(r) \notin settledKeys
             /\ settledKeys' = settledKeys \cup {BatKey(r)}
             /\ BatGoto(r, "deduct")
    <3>1. breq[r].op \notin {"none", "chat"} /\ breq[r].batch \in Batches /\ breq[r].key # "none"
      BY <1>8, <1>p DEF batchSettle, BatAt, Placed
    <3>2. BatKey(r) \in SettleKeys
      BY <3>1, <1>p DEF BatKey, SettleKeys, BReqRec
    <3> DEFINE q == [breq[r] EXCEPT !.pc = "deduct"]
    <3>3. /\ q \in BReqRec /\ q.pc = "deduct" /\ q.op = breq[r].op
          /\ q.batch = breq[r].batch /\ q.key = breq[r].key
      BY <1>p DEF BReqRec, BatPcs
    <3>4. Placed(q)
      BY <3>1, <3>3 DEF Placed
    <3>5. breq' = [breq EXCEPT ![r] = q]
      BY <2>3, <1>t DEF BatGoto
    <3> HIDE DEF q
    <3>6. breq'[r] = q /\ \A s \in BReqs \ {r} : breq'[s] = breq[s]
      BY <3>5, <1>t
    <3>7. BatKey(r)' = BatKey(r) /\ \A s \in BReqs \ {r} : BatKey(s)' = BatKey(s)
      BY <3>3, <3>6 DEF BatKey
    <3>8. BatTypeOK'
      BY <1>t, <2>1, <2>3, <3>2, <3>3, <3>5 DEF BatTypeOK
    <3>9. AllPlaced'
      BY <3>4, <3>6, <1>p DEF AllPlaced
    <3>10. deducts[BatKey(r)] = 0
      BY <2>3, <3>2, <1>t DEF BatIInv, SettledOnce
    <3>11. Paid'
      BY <3>6, <3>7, <3>10, <2>1, <2>3 DEF Paid, BatIInv
    <3>12. \A s \in BReqs \ {r} : Paying(breq[s]) => BatKey(s) # BatKey(r)
      BY <2>3 DEF BatIInv, Paid
    <3>13. Alone'
      BY <3>6, <3>7, <3>12 DEF Alone, BatIInv
    <3>14. SettledOnce'
      BY <2>1, <2>3 DEF SettledOnce, BatIInv
    <3> QED
      BY <3>8, <3>9, <3>11, <3>13, <3>14 DEF BatIInv
  <2> QED
    BY <1>8, <2>2, <2>3 DEF batchSettle, BatFails, BatFree, BatKey
<1>9. ASSUME NEW r \in BReqs, Deduct(r) PROVE BatIInv'
  <2>1. UNCHANGED <<provider, mirror, reserve, settledKeys, fileOf, active>> /\ breq[r].pc = "deduct"
    BY <1>9 DEF Deduct, BatAt
  <2>2. balance' \in 0..Quota
    <3>1. \A c \in Nat : Deducted(balance, c) \in 0..Quota
      BY <1>t, MinOfTwo DEF Deducted
    <3> QED
      BY <1>9, <1>t, <3>1 DEF Deduct
  <2>3. CASE breq[r].op = "chat"
    BY <1>9, <2>1, <2>2, <2>3, <1>t, Ends DEF Deduct, BatIInv, BatTypeOK
  <2>4. CASE breq[r].op # "chat" /\ deducts' = deducts
    <3>1. BatGoto(r, "read") /\ breq[r].op \notin {"none", "chat"}
      BY <1>9, <2>1, <2>4, <1>p DEF Deduct, Placed
    <3>2. "read" \in BatPcs \ {"deduct", "claim", "forward", "precheck", "premirror"}
      BY DEF BatPcs
    <3> QED
      BY <2>1, <2>2, <2>4, <3>1, <3>2, <1>t, Goes DEF BatIInv, BatTypeOK
  <2>5. CASE breq[r].op # "chat" /\ deducts' = [deducts EXCEPT ![BatKey(r)] = @ + 1]
    <3>1. BatGoto(r, "read") /\ Paying(breq[r])
      BY <1>9, <2>1, <2>5 DEF Deduct, Paying
    <3>2. BatKey(r) \in settledKeys /\ BatKey(r) \in SettleKeys /\ deducts[BatKey(r)] = 0
      BY <3>1, <1>t DEF BatIInv, Paid
    <3>3. /\ deducts' \in [SettleKeys -> Nat] /\ deducts'[BatKey(r)] = 1
          /\ \A k \in SettleKeys \ {BatKey(r)} : deducts'[k] = deducts[k]
      BY <2>5, <3>2, <1>t
    <3> DEFINE q == [breq[r] EXCEPT !.pc = "read"]
    <3>4. q \in BReqRec /\ q.pc = "read" /\ q.op = breq[r].op /\ q.batch = breq[r].batch
      BY <1>p DEF BReqRec, BatPcs
    <3>5. Placed(q) /\ ~Paying(q)
      BY <2>1, <3>1, <3>4, <1>p DEF Placed, Paying
    <3>6. breq' = [breq EXCEPT ![r] = q]
      BY <3>1, <1>t DEF BatGoto
    <3> HIDE DEF q
    <3>7. breq'[r] = q /\ \A s \in BReqs \ {r} : breq'[s] = breq[s]
      BY <3>6, <1>t
    <3>8. BatTypeOK'
      BY <1>t, <2>1, <2>2, <3>3, <3>4, <3>6 DEF BatTypeOK
    <3>9. AllPlaced'
      BY <3>5, <3>7, <1>p DEF AllPlaced
    <3>10. \A s \in BReqs \ {r} : BatKey(s)' = BatKey(s)
      BY <3>7 DEF BatKey
    <3>11. \A s \in BReqs \ {r} : Paying(breq[s]) => BatKey(s) # BatKey(r) /\ BatKey(s) \in SettleKeys
      BY <3>1, <1>t DEF BatIInv, Alone, Paid
    <3>12. Paid'
      BY <3>3, <3>5, <3>7, <3>10, <3>11, <2>1 DEF Paid, BatIInv
    <3>13. Alone'
      BY <3>5, <3>7, <3>10 DEF Alone, BatIInv
    <3>14. SettledOnce'
      BY <3>2, <3>3, <2>1 DEF SettledOnce, BatIInv
    <3> QED
      BY <3>8, <3>9, <3>12, <3>13, <3>14 DEF BatIInv
  <2> QED
    BY <1>9, <2>3, <2>4, <2>5 DEF Deduct, BatKey
<1>10. ASSUME NEW r \in BReqs, BatchRelease(r) PROVE BatIInv'
  <2>1. UNCHANGED <<provider, balance, fileOf, active, deducts>>
    BY <1>10 DEF BatchRelease
  <2>2. breq[r].pc \in {"read", "giveback", "drop", "mark"}
    BY <1>10 DEF BatchRelease, BatAt
  <2>3. breq[r].op \notin {"none", "chat"} /\ breq[r].batch \in Batches /\ breq[r].units \in Nat
    BY <2>2, <1>p DEF Placed, BReqRec
  <2>4. reserve' \in [Batches -> {0, ReserveUnits}]
    BY <1>10, <1>t, <2>3 DEF BatchRelease
  <2>5. mirror' \in Nat
    <3>1. mirror - Min({mirror, breq[r].units}) \in Nat
      BY <1>t, <2>3, MinOfTwo
    <3> QED
      BY <1>10, <1>t, <3>1 DEF BatchRelease
  <2>6. settledKeys \subseteq settledKeys' /\ settledKeys' \subseteq SettleKeys
    BY <1>10, <1>t, <2>3 DEF BatchRelease, SettleKeys
  <2>7. CASE \E at \in {"finished", "mark"} : BatGoto(r, at)
    <3>1. PICK at \in {"finished", "mark"} : BatGoto(r, at)
      BY <2>7
    <3>2. at \in BatPcs \ {"deduct", "claim", "forward", "precheck", "premirror"}
      BY DEF BatPcs
    <3> QED
      BY <2>1, <2>3, <2>4, <2>5, <2>6, <3>1, <3>2, <1>t, Goes DEF BatIInv, BatTypeOK
  <2>8. ASSUME NEW at \in {"giveback", "drop"}, NEW n \in Nat,
               breq' = [breq EXCEPT ![r].pc = at, ![r].units = n]
        PROVE  BatIInv'
    <3> DEFINE q == [breq[r] EXCEPT !.pc = at, !.units = n]
    <3>1. q \in BReqRec /\ q.pc = at /\ q.op = breq[r].op /\ q.batch = breq[r].batch
      BY <1>p DEF BReqRec, BatPcs
    <3>2. Placed(q) /\ ~Paying(q)
      BY <2>2, <2>3, <3>1, <1>p DEF Placed, Paying
    <3>3. breq' = [breq EXCEPT ![r] = q]
      BY <2>8, <1>t
    <3> HIDE DEF q
    <3> QED
      BY <2>1, <2>4, <2>5, <2>6, <3>1, <3>2, <3>3, <1>t, MovesOn DEF BatIInv, BatTypeOK
  <2>9. \/ \E at \in {"finished", "mark"} : BatGoto(r, at)
        \/ \E at \in {"giveback", "drop"}, n \in Nat : breq' = [breq EXCEPT ![r].pc = at, ![r].units = n]
    BY <1>10, <1>t, <2>3 DEF BatchRelease
  <2> QED
    BY <2>7, <2>8, <2>9
<1>11. ASSUME NEW r \in BReqs, batFinished(r) PROVE BatIInv'
  BY <1>11, <1>t, Ends DEF batFinished, batRedis, BatIInv, BatTypeOK
<1>12. ASSUME NEW b \in Batches, providerEnds(b) PROVE BatIInv'
  <2>1. UNCHANGED <<breq, deducts, balance, mirror, reserve, settledKeys, fileOf, active>>
    BY <1>12 DEF providerEnds, batRedis
  <2>2. provider' \in [Batches -> {"none", "running", "completed", "cancelled"}]
    BY <1>12, <1>t DEF providerEnds
  <2> QED
    BY <2>1, <2>2, <1>t
       DEF BatIInv, BatTypeOK, AllPlaced, Placed, Paid, Paying, Alone, BatKey,
           SettledOnce
<1>13. CASE UNCHANGED batVars
  BY <1>13
     DEF batVars, batRedis, BatIInv, BatTypeOK, AllPlaced, Placed, Paid, Paying, Alone,
         BatKey, SettledOnce
<1> QED
  BY <1>1, <1>2, <1>3, <1>4, <1>5, <1>6, <1>7, <1>8, <1>9, <1>10, <1>11, <1>12, <1>13
     DEF BatNext

\* The types of the quota's state in Redis and of the requests that work on
\* it are kept: in particular balance and mirror never become negative, as
\* the scripts that deduct and release take no more than there is.
THEOREM BatTypeCorrect == BatSpec => []BatTypeOK
<1>1. BatIInv => BatTypeOK
  BY DEF BatIInv
<1> QED
  BY <1>1, BatInitial, BatStep, PTL DEF BatSpec

\* Whatever downloads, polls, cancels and failures of Redis interleave, on
\* any number of gateways: batchSettle lets a settlement be deducted at most
\* once, under a claim that stays.
THEOREM BatchesSettledOnce == BatSpec => []SettledOnce
<1>1. BatIInv => SettledOnce
  BY DEF BatIInv
<1> QED
  BY <1>1, BatInitial, BatStep, PTL DEF BatSpec

-----------------------------------------------------------------------------
(* Slots of the rate limiter.                                              *)

\* A request checks one policy after the other and takes a slot of each at
\* most once: the policies it has still to check are distinct, and it holds
\* no slot of them, but for the first while the rest of its limits is checked.
InTurn(q) ==
    /\ q.pc \in {"policy", "limiter", "con", "rpm", "tpm"} => q.ids # <<>>
    /\ \A i, j \in DOMAIN q.ids : q.ids[i] = q.ids[j] => i = j
    /\ \A i, j \in DOMAIN q.held : q.held[i] = q.held[j] => i = j
    /\ \A i \in DOMAIN q.ids, j \in DOMAIN q.held :
          q.ids[i] = q.held[j] => i = 1 /\ q.pc \in {"rpm", "tpm"}
    /\ q.pc = "idle" => q.held = <<>>

AllInTurn == \A r \in LReqs : InTurn(lreq[r])

LimIInv == LimTypeOK /\ AllInTurn /\ SlotsCounted

\* The policies of a table are policies, each once.
LEMMA TablePolicies ==
    ASSUME NEW t \in Tables
    PROVE  /\ t \in Seq(LPolicies) /\ Range(t) \subseteq LPolicies
           /\ \A i, j \in DOMAIN t : t[i] = t[j] => i = j
<1>1. Range(t) \subseteq LPolicies
  BY DEF LPolicies
<1>2. t \in Seq(Range(t)) /\ IsInjective(t)
  BY LimitsAssumption
<1>3. t \in Seq(LPolicies)
  BY <1>1, <1>2
<1> QED
  BY <1>1, <1>2, <1>3 DEF IsInjective

\* At the start no request holds a slot.
LEMMA LimInitial == LimInit => LimIInv
<1> SUFFICES ASSUME LimInit PROVE LimIInv
  OBVIOUS
<1>1. IdleReq \in LReqRec /\ InTurn(IdleReq)
  BY DEF IdleReq, LReqRec, InTurn
<1>2. LimTypeOK
  BY <1>1, LimitsAssumption DEF LimInit, LimTypeOK
<1>3. \A r \in LReqs : lreq[r] = IdleReq
  BY DEF LimInit
<1>4. AllInTurn
  BY <1>1, <1>3 DEF AllInTurn
<1>5. \A p \in LPolicies : LHolders(p) = {}
  BY <1>3 DEF LHolders, IdleReq, Range
<1>6. SlotsCounted
  BY <1>5, FS_EmptySet DEF SlotsCounted, LimInit
<1> QED
  BY <1>2, <1>4, <1>6 DEF LimIInv

\* Sets of requests are finite.
LEMMA HoldersFinite ==
    ASSUME NEW p
    PROVE  IsFiniteSet(LHolders(p)) /\ Cardinality(LHolders(p)) \in Nat
<1>1. LHolders(p) \in SUBSET LReqs
  BY DEF LHolders
<1> QED
  BY <1>1, LimitsAssumption, FS_Subset, FS_CardinalityType

\* A request moves on with the slots it has.
LEMMA KeepsSlots ==
    ASSUME LimIInv, NEW r \in LReqs, NEW q \in LReqRec, InTurn(q), q.held = lreq[r].held,
           lreq' = [lreq EXCEPT ![r] = q], UNCHANGED <<con, expired, lost>>
    PROVE  AllInTurn' /\ SlotsCounted' /\ lreq' \in [LReqs -> LReqRec]
<1>1. lreq \in [LReqs -> LReqRec]
  BY DEF LimIInv, LimTypeOK
<1>2. lreq'[r] = q /\ \A s \in LReqs \ {r} : lreq'[s] = lreq[s]
  BY <1>1
<1>3. \A p : LHolders(p)' = LHolders(p)
  BY <1>2 DEF LHolders
<1>4. AllInTurn'
  BY <1>2 DEF AllInTurn, LimIInv
<1>5. SlotsCounted'
  BY <1>3 DEF SlotsCounted, LimIInv
<1> QED
  BY <1>1, <1>4, <1>5

\* A limit that is hit leaves the slots taken so far to the end of the request.
LEMMA HitKeeps ==
    ASSUME NEW q \in LReqRec, InTurn(q), NEW n \in LimitHit(q)
    PROVE  n \in LReqRec /\ InTurn(n) /\ n.held = q.held
<1>1. PICK at \in {"serve", "settle"} : n = [q EXCEPT !.ids = <<>>, !.pc = at]
  BY DEF LimitHit
<1>a. <<>> \in Seq(LPolicies)
  OBVIOUS
<1>2. n \in LReqRec /\ n.pc = at /\ n.held = q.held /\ n.ids = <<>>
  BY <1>1, <1>a DEF LReqRec
<1> QED
  BY <1>2 DEF InTurn

\* So does the step to the next policy.
LEMMA NextKeeps ==
    ASSUME NEW q \in LReqRec, InTurn(q), q.pc \in {"policy", "tpm"}
    PROVE  NextPolicy(q) \in LReqRec /\ InTurn(NextPolicy(q)) /\ NextPolicy(q).held = q.held
<1>1. q.ids \in Seq(LPolicies) /\ q.ids # <<>> /\ q.held \in Seq(LPolicies)
  BY DEF InTurn, LReqRec
<1>2. CASE Len(q.ids) > 1
  <2> DEFINE n == [q EXCEPT !.ids = Tail(@), !.pc = "policy"]
  <2>1. Tail(q.ids) \in Seq(LPolicies) /\ Len(Tail(q.ids)) = Len(q.ids) - 1
        /\ \A i \in DOMAIN Tail(q.ids) : Tail(q.ids)[i] = q.ids[i + 1] /\ i + 1 \in DOMAIN q.ids /\ i \in Nat
    BY <1>1
  <2>2. n \in LReqRec /\ n.ids = Tail(q.ids) /\ n.pc = "policy" /\ n.held = q.held
    BY <2>1 DEF LReqRec
  <2>3. \A i, j \in DOMAIN n.ids : n.ids[i] = n.ids[j] => i = j
    <3>1. ASSUME NEW i \in DOMAIN n.ids, NEW j \in DOMAIN n.ids, n.ids[i] = n.ids[j] PROVE i = j
      <4>1. i + 1 = j + 1
        BY <2>1, <2>2, <3>1 DEF InTurn
      <4> QED
        BY <4>1, <2>1, <2>2
    <3> QED
      BY <3>1
  <2>4. \A i \in DOMAIN n.ids, j \in DOMAIN n.held : n.ids[i] # n.held[j]
    <3>1. ASSUME NEW i \in DOMAIN n.ids, NEW j \in DOMAIN n.held, n.ids[i] = n.held[j] PROVE FALSE
      <4>1. i + 1 = 1
        BY <2>1, <2>2, <3>1 DEF InTurn
      <4> QED
        BY <4>1, <2>1, <2>2, <1>1
    <3> QED
      BY <3>1
  <2>5. n.ids # <<>>
    BY <2>1, <2>2, <1>2, <1>1
  <2>6. NextPolicy(q) = n
    BY <1>2 DEF NextPolicy
  <2> HIDE DEF n
  <2>7. InTurn(n)
    BY <2>2, <2>3, <2>4, <2>5 DEF InTurn
  <2> QED
    BY <2>2, <2>6, <2>7
<1>3. CASE ~(Len(q.ids) > 1)
  <2> DEFINE n == [q EXCEPT !.ids = <<>>, !.pc = "serve"]
  <2>a. <<>> \in Seq(LPolicies)
    OBVIOUS
  <2>1. n \in LReqRec /\ n.ids = <<>> /\ n.pc = "serve" /\ n.held = q.held
    BY <2>a DEF LReqRec
  <2>2. NextPolicy(q) = n
    BY <1>3 DEF NextPolicy
  <2> HIDE DEF n
  <2>3. InTurn(n)
    BY <2>1 DEF InTurn
  <2> QED
    BY <2>1, <2>2, <2>3
<1> QED
  BY <1>2, <1>3

\* A request that is gone holds nothing.
LEMMA GoneReq ==
    LET q == [IdleReq EXCEPT !.pc = "gone"]
    IN  q \in LReqRec /\ q.held = <<>> /\ InTurn(q)
<1> DEFINE q == [IdleReq EXCEPT !.pc = "gone"]
<1>1. q = [pc |-> "gone", ids |-> <<>>, held |-> <<>>, data |-> <<>>, used |-> 0]
  BY DEF IdleReq
<1>2. <<>> \in Seq(LPolicies) /\ <<>> \in Seq(LPolicies \X (0..MaxEpochs))
  OBVIOUS
<1> HIDE DEF q
<1>3. q \in LReqRec
  BY <1>1, <1>2 DEF LReqRec
<1>4. InTurn(q)
  BY <1>1 DEF InTurn
<1> QED
  BY <1>1, <1>3, <1>4 DEF q

\* Every step of a request, a reload, a crash and the passing of time preserve
\* the invariant.
LEMMA LimStep == LimIInv /\ [LimNext]_limVars => LimIInv'
<1> SUFFICES ASSUME LimIInv, [LimNext]_limVars PROVE LimIInv'
  OBVIOUS
<1>t. /\ ltable \in Tables /\ limiters \in {Range(t) : t \in Tables}
      /\ con \in [LPolicies -> Nat] /\ expired \in [LPolicies -> BOOLEAN]
      /\ rpm \in [LPolicies -> Nat] /\ tpm \in [LPolicies -> Nat]
      /\ epoch \in 0..MaxEpochs /\ up \subseteq Gateways
      /\ lost \in [LPolicies -> Nat]
      /\ lreq \in [LReqs -> LReqRec]
  BY DEF LimIInv, LimTypeOK
<1>q. \A r \in LReqs : lreq[r] \in LReqRec /\ InTurn(lreq[r])
  BY <1>t DEF LimIInv, AllInTurn
<1>h. \A r \in LReqs : lreq[r].pc \in {"policy", "limiter", "con", "rpm", "tpm"} =>
          /\ LPolicy(r) \in LPolicies /\ LPolicy(r) = lreq[r].ids[1] /\ 1 \in DOMAIN lreq[r].ids
          /\ lreq[r].pc = "con" => \A j \in DOMAIN lreq[r].held : lreq[r].held[j] # LPolicy(r)
  <2> SUFFICES ASSUME NEW r \in LReqs, lreq[r].pc \in {"policy", "limiter", "con", "rpm", "tpm"}
               PROVE  /\ LPolicy(r) \in LPolicies /\ LPolicy(r) = lreq[r].ids[1] /\ 1 \in DOMAIN lreq[r].ids
                      /\ lreq[r].pc = "con" => \A j \in DOMAIN lreq[r].held : lreq[r].held[j] # LPolicy(r)
    OBVIOUS
  <2>1. lreq[r].ids \in Seq(LPolicies) /\ lreq[r].ids # <<>>
    BY <1>q DEF LReqRec, InTurn
  <2>2. LPolicy(r) \in LPolicies /\ LPolicy(r) = lreq[r].ids[1] /\ 1 \in DOMAIN lreq[r].ids
    BY <2>1 DEF LPolicy
  <2> QED
    BY <2>2, <1>q DEF InTurn
<1>1. ASSUME NEW r \in LReqs, targetModelCheckHandler(r) PROVE LimIInv'
  <2>1. UNCHANGED <<ltable, limiters, con, expired, rpm, tpm, epoch, up, lost>>
    BY <1>1 DEF targetModelCheckHandler, limTables, limRedis
  <2>2. PICK at \in {"serve", "policy"} :
           /\ lreq' = [lreq EXCEPT ![r].pc = at, ![r].ids = ltable]
           /\ at = "policy" => ltable # <<>>
    BY <1>1 DEF targetModelCheckHandler
  <2>3. /\ ltable \in Seq(LPolicies)
        /\ \A i, j \in DOMAIN ltable : ltable[i] = ltable[j] => i = j
    BY <1>t, TablePolicies
  <2>4. lreq[r].held = <<>>
    BY <1>1, <1>q DEF targetModelCheckHandler, InTurn
  <2> DEFINE q == [lreq[r] EXCEPT !.pc = at, !.ids = ltable]
  <2>5. q \in LReqRec /\ q.pc = at /\ q.ids = ltable /\ q.held = lreq[r].held
    BY <1>q, <2>3 DEF LReqRec
  <2>6. lreq' = [lreq EXCEPT ![r] = q]
    BY <2>2, <1>t
  <2> HIDE DEF q
  <2>7. InTurn(q)
    BY <2>2, <2>3, <2>4, <2>5 DEF InTurn
  <2> QED
    BY <2>1, <2>5, <2>6, <2>7, <1>t, KeepsSlots DEF LimIInv, LimTypeOK
<1>2. ASSUME NEW r \in LReqs, getLPolicy(r) PROVE LimIInv'
  <2>1. UNCHANGED <<ltable, limiters, con, expired, rpm, tpm, epoch, up, lost>> /\ lreq[r].pc = "policy"
    BY <1>2 DEF getLPolicy, limTables, limRedis
  <2>2. CASE lreq' = [lreq EXCEPT ![r] = [lreq[r] EXCEPT !.pc = "limiter"]]
    <3> DEFINE q == [lreq[r] EXCEPT !.pc = "limiter"]
    <3>1. q \in LReqRec /\ q.pc = "limiter" /\ q.ids = lreq[r].ids /\ q.held = lreq[r].held
      BY <1>q DEF LReqRec
    <3>2. lreq' = [lreq EXCEPT ![r] = q]
      BY <2>2
    <3> HIDE DEF q
    <3>3. InTurn(q)
      BY <1>q, <2>1, <3>1 DEF InTurn
    <3> QED
      BY <2>1, <3>1, <3>2, <3>3, <1>t, KeepsSlots DEF LimIInv, LimTypeOK
  <2>3. CASE lreq' = [lreq EXCEPT ![r] = NextPolicy(lreq[r])]
    BY <2>1, <2>3, <1>t, <1>q, KeepsSlots, NextKeeps DEF LimIInv, LimTypeOK
  <2> QED
    BY <1>2, <2>2, <2>3, <1>t DEF getLPolicy
<1>3. ASSUME NEW r \in LReqs, getLimiterPolicySet(r) PROVE LimIInv'
  <2>1. UNCHANGED <<ltable, limiters, con, expired, rpm, tpm, epoch, up>> /\ lreq[r].pc = "limiter"
    BY <1>3 DEF getLimiterPolicySet, limTables, limRedis
  <2>2. CASE lost' = lost /\ \E at \in {"con", "rpm"} : LStep(r, at)
    <3>1. PICK at \in {"con", "rpm"} : LStep(r, at)
      BY <2>2
    <3> DEFINE q == [lreq[r] EXCEPT !.pc = at]
    <3>2. q \in LReqRec /\ q.pc = at /\ q.ids = lreq[r].ids /\ q.held = lreq[r].held
      BY <1>q DEF LReqRec
    <3>3. lreq' = [lreq EXCEPT ![r] = q]
      BY <3>1, <1>t DEF LStep
    <3> HIDE DEF q
    <3>4. InTurn(q)
      BY <1>q, <2>1, <3>2 DEF InTurn
    <3> QED
      BY <2>1, <2>2, <3>2, <3>3, <3>4, <1>t, KeepsSlots DEF LimIInv, LimTypeOK
  <2>3. CASE /\ lreq' = [lreq EXCEPT ![r] = [IdleReq EXCEPT !.pc = "gone"]]
             /\ lost' = [p \in LPolicies |-> lost[p] + (IF p \in Range(lreq[r].held) THEN 1 ELSE 0)]
    <3> DEFINE q == [IdleReq EXCEPT !.pc = "gone"]
    <3>1. q \in LReqRec /\ q.held = <<>> /\ InTurn(q)
      BY GoneReq
    <3>2. lreq'[r] = q /\ (\A s \in LReqs \ {r} : lreq'[s] = lreq[s]) /\ lreq' \in [LReqs -> LReqRec]
      BY <2>3, <3>1, <1>t
    <3>3. lost' \in [LPolicies -> Nat]
      BY <2>3, <1>t
    <3> HIDE DEF q
    <3>4. LimTypeOK'
      BY <2>1, <3>2, <3>3, <1>t DEF LimTypeOK
    <3>5. AllInTurn'
      BY <3>1, <3>2, <1>q DEF AllInTurn
    <3>6. ASSUME NEW p \in LPolicies
          PROVE  Cardinality(LHolders(p)') + lost'[p] = Cardinality(LHolders(p)) + lost[p]
      <4>1. LHolders(p)' = LHolders(p) \ {r}
        BY <3>1, <3>2 DEF LHolders, Range
      <4>2. r \in LHolders(p) <=> p \in Range(lreq[r].held)
        BY DEF LHolders
      <4>3. Cardinality(LHolders(p) \ {r}) = IF r \in LHolders(p) THEN Cardinality(LHolders(p)) - 1
                                                                  ELSE Cardinality(LHolders(p))
        BY HoldersFinite, FS_RemoveElement
      <4>4. lost[p] \in Nat /\ lost'[p] = lost[p] + (IF p \in Range(lreq[r].held) THEN 1 ELSE 0)
        BY <2>3, <1>t
      <4> QED
        BY <4>1, <4>2, <4>3, <4>4, HoldersFinite
    <3>7. SlotsCounted'
      BY <2>1, <3>6 DEF SlotsCounted, LimIInv
    <3> QED
      BY <3>4, <3>5, <3>7 DEF LimIInv
  <2> QED
    BY <1>3, <2>2, <2>3 DEF getLimiterPolicySet
<1>4. ASSUME NEW r \in LReqs, ConnAcquire(r) PROVE LimIInv'
  <2>1. UNCHANGED <<ltable, limiters, expired, rpm, tpm, epoch, up>> /\ lreq[r].pc = "con"
    BY <1>4 DEF ConnAcquire, limTables
  <2>2. PICK p \in LPolicies : /\ p = LPolicy(r) /\ p = lreq[r].ids[1] /\ 1 \in DOMAIN lreq[r].ids
                               /\ \A j \in DOMAIN lreq[r].held : lreq[r].held[j] # p
    BY <2>1, <1>h
  <2> DEFINE q == [lreq[r] EXCEPT !.pc = "rpm"]
  <2>3. q \in LReqRec /\ q.pc = "rpm" /\ q.ids = lreq[r].ids /\ q.held = lreq[r].held
    BY <1>q DEF LReqRec
  <2>4. InTurn(q)
    BY <2>1, <2>3, <1>q DEF InTurn
  <2>5. \A n \in OnRedisError(lreq[r], q) \cup LimitHit(lreq[r]) :
            n \in LReqRec /\ InTurn(n) /\ n.held = lreq[r].held
    BY <1>q, <2>3, <2>4, HitKeeps DEF OnRedisError
  <2>6. ASSUME NEW n \in OnRedisError(lreq[r], q) \cup LimitHit(lreq[r]),
               lreq' = [lreq EXCEPT ![r] = n], UNCHANGED <<con, lost>>
        PROVE  LimIInv'
    BY <2>1, <2>5, <2>6, <1>t, KeepsSlots DEF LimIInv, LimTypeOK
  <2>7. ASSUME NEW n \in OnRedisError(lreq[r], q), lreq' = [lreq EXCEPT ![r] = n],
               con' = [con EXCEPT ![p] = @ + 1], lost' = [lost EXCEPT ![p] = @ + 1]
        PROVE  LimIInv'
    <3>1. n \in LReqRec /\ InTurn(n) /\ n.held = lreq[r].held
      BY <2>5
    <3>2. lreq'[r] = n /\ (\A s \in LReqs \ {r} : lreq'[s] = lreq[s]) /\ lreq' \in [LReqs -> LReqRec]
      BY <2>7, <3>1, <1>t
    <3>3. LimTypeOK'
      BY <2>1, <2>7, <3>2, <1>t DEF LimTypeOK
    <3>4. AllInTurn'
      BY <3>1, <3>2, <1>q DEF AllInTurn
    <3>5. \A x : LHolders(x)' = LHolders(x)
      BY <3>1, <3>2 DEF LHolders
    <3>6. ASSUME NEW x \in LPolicies
          PROVE  /\ con'[x] >= 0 /\ con'[x] <= Cardinality(LHolders(x)') + lost'[x]
                 /\ ~expired'[x] => con'[x] = Cardinality(LHolders(x)') + lost'[x]
      <4>1. /\ con[x] \in Nat /\ lost[x] \in Nat /\ con[x] <= Cardinality(LHolders(x)) + lost[x]
            /\ ~expired[x] => con[x] = Cardinality(LHolders(x)) + lost[x]
        BY <1>t DEF LimIInv, SlotsCounted
      <4>2. \/ con'[x] = con[x] + 1 /\ lost'[x] = lost[x] + 1
            \/ con'[x] = con[x] /\ lost'[x] = lost[x]
        BY <2>7, <1>t
      <4> QED
        BY <4>1, <4>2, <3>5, <2>1, HoldersFinite
    <3>7. SlotsCounted'
      BY <3>6 DEF SlotsCounted
    <3> QED
      BY <3>3, <3>4, <3>7 DEF LimIInv
  <2>8. CASE /\ con' = [con EXCEPT ![p] = @ + 1] /\ lost' = lost
             /\ lreq' = [lreq EXCEPT ![r] = [q EXCEPT !.held = Append(@, p)]]
    <3> DEFINE n == [q EXCEPT !.held = Append(@, p)]
    <3>1. lreq[r].held \in Seq(LPolicies)
      BY <1>q DEF LReqRec
    <3>2. Append(lreq[r].held, p) \in Seq(LPolicies)
      BY <3>1
    <3>3. n \in LReqRec /\ n.pc = "rpm" /\ n.ids = lreq[r].ids /\ n.held = Append(lreq[r].held, p)
      BY <2>3, <3>2 DEF LReqRec
    <3> HIDE DEF n, q
    <3>4. \A j \in DOMAIN n.held : IF j = Len(lreq[r].held) + 1 THEN n.held[j] = p
                                   ELSE j \in DOMAIN lreq[r].held /\ n.held[j] = lreq[r].held[j]
      BY <3>1, <3>3
    <3>5. \A i, j \in DOMAIN n.held : n.held[i] = n.held[j] => i = j
      BY <3>4, <2>2, <1>q DEF InTurn
    <3>6. \A i \in DOMAIN n.ids, j \in DOMAIN n.held : n.ids[i] = n.held[j] => i = 1
      BY <3>3, <3>4, <2>1, <2>2, <1>q DEF InTurn
    <3>7. InTurn(n)
      BY <3>3, <3>5, <3>6, <2>1, <1>q DEF InTurn
    <3>8. lreq'[r] = n /\ (\A s \in LReqs \ {r} : lreq'[s] = lreq[s]) /\ lreq' \in [LReqs -> LReqRec]
      BY <2>8, <3>3, <1>t DEF n
    <3>9. LimTypeOK'
      BY <2>1, <2>8, <3>8, <1>t DEF LimTypeOK
    <3>10. AllInTurn'
      BY <3>7, <3>8, <1>q DEF AllInTurn
    <3>11. Range(n.held) = Range(lreq[r].held) \cup {p} /\ p \notin Range(lreq[r].held)
      <4>1. \A j \in DOMAIN lreq[r].held : j \in DOMAIN n.held /\ n.held[j] = lreq[r].held[j]
        BY <3>1, <3>3
      <4>2. Len(lreq[r].held) + 1 \in DOMAIN n.held
        BY <3>1, <3>3
      <4> QED
        BY <4>1, <4>2, <3>4, <2>2 DEF Range
    <3>12. ASSUME NEW x \in LPolicies
           PROVE  /\ con'[x] >= 0 /\ con'[x] <= Cardinality(LHolders(x)') + lost'[x]
                  /\ ~expired'[x] => con'[x] = Cardinality(LHolders(x)') + lost'[x]
      <4>1. /\ con[x] \in Nat /\ lost[x] \in Nat /\ con[x] <= Cardinality(LHolders(x)) + lost[x]
            /\ ~expired[x] => con[x] = Cardinality(LHolders(x)) + lost[x]
        BY <1>t DEF LimIInv, SlotsCounted
      <4>2. CASE x # p
        <5>1. LHolders(x)' = LHolders(x)
          BY <3>8, <3>11, <4>2 DEF LHolders
        <5>2. con'[x] = con[x]
          BY <2>8, <4>2, <1>t
        <5> QED
          BY <4>1, <5>1, <5>2, <2>1, <2>8
      <4>3. CASE x = p
        <5>1. LHolders(x)' = LHolders(x) \cup {r} /\ r \notin LHolders(x)
          BY <3>8, <3>11, <4>3 DEF LHolders
        <5>2. Cardinality(LHolders(x) \cup {r}) = Cardinality(LHolders(x)) + 1
          BY <5>1, HoldersFinite, FS_AddElement
        <5>3. con'[x] = con[x] + 1
          BY <2>8, <4>3, <1>t
        <5> QED
          BY <4>1, <5>1, <5>2, <5>3, <2>1, <2>8, HoldersFinite
      <4> QED
        BY <4>2, <4>3
    <3>13. SlotsCounted'
      BY <3>12 DEF SlotsCounted
    <3> QED
      BY <3>9, <3>10, <3>13 DEF LimIInv
  <2>9. \/ /\ con' = [con EXCEPT ![p] = @ + 1] /\ lost' = lost
           /\ lreq' = [lreq EXCEPT ![r] = [q EXCEPT !.held = Append(@, p)]]
        \/ /\ con' = [con EXCEPT ![p] = @ + 1] /\ lost' = [lost EXCEPT ![p] = @ + 1]
           /\ \E n \in OnRedisError(lreq[r], q) : lreq' = [lreq EXCEPT ![r] = n]
        \/ /\ UNCHANGED <<con, lost>>
           /\ \E n \in OnRedisError(lreq[r], q) \cup LimitHit(lreq[r]) : lreq' = [lreq EXCEPT ![r] = n]
    BY <1>4, <2>2 DEF ConnAcquire
  <2> HIDE DEF q
  <2> QED
    BY <2>6, <2>7, <2>8, <2>9
<1>5. ASSUME NEW r \in LReqs, QpmCheck(r) PROVE LimIInv'
  <2>1. UNCHANGED <<ltable, limiters, con, expired, tpm, epoch, up, lost>> /\ lreq[r].pc = "rpm"
    BY <1>5 DEF QpmCheck, limTables
  <2>2. LPolicy(r) \in LPolicies
    BY <2>1, <1>h
  <2>3. rpm' \in [LPolicies -> Nat]
    BY <1>5, <2>2, <1>t DEF QpmCheck
  <2> DEFINE q == [lreq[r] EXCEPT !.pc = "tpm"]
  <2>4. q \in LReqRec /\ q.pc = "tpm" /\ q.ids = lreq[r].ids /\ q.held = lreq[r].held
    BY <1>q DEF LReqRec
  <2>5. InTurn(q)
    BY <2>1, <2>4, <1>q DEF InTurn
  <2>6. \E n \in {q} \cup LimitHit(lreq[r]) : lreq' = [lreq EXCEPT ![r] = n]
    BY <1>5 DEF QpmCheck
  <2> HIDE DEF q
  <2>7. PICK n \in {q} \cup LimitHit(lreq[r]) : lreq' = [lreq EXCEPT ![r] = n]
    BY <2>6
  <2>8. n \in LReqRec /\ InTurn(n) /\ n.held = lreq[r].held
    BY <1>q, <2>4, <2>5, HitKeeps
  <2> QED
    BY <2>1, <2>3, <2>7, <2>8, <1>t, KeepsSlots DEF LimIInv, LimTypeOK
<1>6. ASSUME NEW r \in LReqs, CheckAndConsumeToken(r) PROVE LimIInv'
  <2>1. UNCHANGED <<ltable, limiters, con, expired, rpm, tpm, epoch, up, lost>> /\ lreq[r].pc = "tpm"
    BY <1>6 DEF CheckAndConsumeToken, limTables, limRedis
  <2>2. LPolicy(r) \in LPolicies
    BY <2>1, <1>h
  <2> DEFINE d == IF TokenLimit[LPolicy(r)] < 0 THEN lreq[r].data
                  ELSE Append(lreq[r].data, <<LPolicy(r), epoch>>)
             q == [lreq[r] EXCEPT !.data = d]
  <2>3. d \in Seq(LPolicies \X (0..MaxEpochs))
    <3>1. lreq[r].data \in Seq(LPolicies \X (0..MaxEpochs))
      BY <1>q DEF LReqRec
    <3>2. <<LPolicy(r), epoch>> \in LPolicies \X (0..MaxEpochs)
      BY <2>2, <1>t
    <3> QED
      BY <3>1, <3>2
  <2>4. \/ lreq' = [lreq EXCEPT ![r] = NextPolicy(q)]
        \/ \E n \in LimitHit(lreq[r]) : lreq' = [lreq EXCEPT ![r] = n]
    BY <1>6, <1>t DEF CheckAndConsumeToken
  <2> HIDE DEF d
  <2>5. q \in LReqRec /\ q.pc = "tpm" /\ q.ids = lreq[r].ids /\ q.held = lreq[r].held
    BY <1>q, <2>1, <2>3 DEF LReqRec
  <2> HIDE DEF q
  <2>6. InTurn(q)
    BY <2>1, <2>5, <1>q DEF InTurn
  <2>7. CASE lreq' = [lreq EXCEPT ![r] = NextPolicy(q)]
    BY <2>1, <2>5, <2>6, <2>7, <1>t, NextKeeps, KeepsSlots DEF LimIInv, LimTypeOK
  <2>8. CASE \E n \in LimitHit(lreq[r]) : lreq' = [lreq EXCEPT ![r] = n]
    BY <2>1, <2>8, <1>t, <1>q, HitKeeps, KeepsSlots DEF LimIInv, LimTypeOK
  <2> QED
    BY <2>4, <2>7, <2>8
<1>7. ASSUME NEW r \in LReqs, served(r) PROVE LimIInv'
  <2>1. UNCHANGED <<ltable, limiters, con, expired, rpm, tpm, epoch, up, lost>> /\ lreq[r].pc = "serve"
    BY <1>7 DEF served, limTables, limRedis
  <2>2. PICK n \in UsedQuotas : lreq' = [lreq EXCEPT ![r].pc = "settle", ![r].used = n]
    BY <1>7 DEF served
  <2> DEFINE q == [lreq[r] EXCEPT !.pc = "settle", !.used = n]
  <2>3. q \in LReqRec /\ q.pc = "settle" /\ q.ids = lreq[r].ids /\ q.held = lreq[r].held
    BY <1>q, LimitsAssumption DEF LReqRec
  <2>4. lreq' = [lreq EXCEPT ![r] = q]
    BY <2>2, <1>t
  <2> HIDE DEF q
  <2>5. InTurn(q)
    BY <2>1, <2>3, <1>q DEF InTurn
  <2> QED
    BY <2>1, <2>3, <2>4, <2>5, <1>t, KeepsSlots DEF LimIInv, LimTypeOK
<1>8. ASSUME NEW r \in LReqs, UpdateTokenUsage(r) PROVE LimIInv'
  <2>1. UNCHANGED <<ltable, limiters, con, expired, rpm, epoch, up, lost>> /\ lreq[r].pc = "settle"
    BY <1>8 DEF UpdateTokenUsage, limTables
  <2>2. lreq[r].data \in Seq(LPolicies \X (0..MaxEpochs)) /\ lreq[r].used \in Nat
    BY <1>q DEF LReqRec
  <2>3. CASE lreq[r].data = <<>>
    <3> DEFINE q == [lreq[r] EXCEPT !.pc = "release"]
    <3>1. q \in LReqRec /\ q.pc = "release" /\ q.ids = lreq[r].ids /\ q.held = lreq[r].held
      BY <1>q DEF LReqRec
    <3>2. lreq' = [lreq EXCEPT ![r] = q] /\ tpm' = tpm
      BY <1>8, <2>3, <1>t DEF UpdateTokenUsage, LStep
    <3> HIDE DEF q
    <3>3. InTurn(q)
      BY <2>1, <3>1, <1>q DEF InTurn
    <3> QED
      BY <2>1, <3>1, <3>2, <3>3, <1>t, KeepsSlots DEF LimIInv, LimTypeOK
  <2>4. CASE lreq[r].data # <<>>
    <3>1. Head(lreq[r].data) \in LPolicies \X (0..MaxEpochs)
          /\ Tail(lreq[r].data) \in Seq(LPolicies \X (0..MaxEpochs))
      BY <2>2, <2>4
    <3>2. Head(lreq[r].data)[1] \in LPolicies
      BY <3>1
    <3>a. PICK x \in LPolicies : x = Head(lreq[r].data)[1]
      BY <3>2
    <3>b. tpm' = tpm \/ tpm' = [tpm EXCEPT ![x] = @ + lreq[r].used]
      BY <1>8, <2>4, <3>a DEF UpdateTokenUsage, TokensAdded
    <3>c. tpm[x] + lreq[r].used \in Nat /\ tpm \in [LPolicies -> Nat]
      BY <2>2, <1>t
    <3>3. tpm' \in [LPolicies -> Nat]
      BY <3>b, <3>c
    <3> DEFINE q == [lreq[r] EXCEPT !.data = Tail(@)]
    <3>4. q \in LReqRec /\ q.pc = "settle" /\ q.ids = lreq[r].ids /\ q.held = lreq[r].held
      BY <2>1, <3>1, <1>q DEF LReqRec
    <3>5. lreq' = [lreq EXCEPT ![r] = q]
      BY <1>8, <2>4, <1>t DEF UpdateTokenUsage
    <3> HIDE DEF q
    <3>6. InTurn(q)
      BY <2>1, <3>4, <1>q DEF InTurn
    <3> QED
      BY <2>1, <3>3, <3>4, <3>5, <3>6, <1>t, KeepsSlots DEF LimIInv, LimTypeOK
  <2> QED
    BY <2>3, <2>4
<1>9. ASSUME NEW r \in LReqs, ConnRelease(r) PROVE LimIInv'
  <2>1. UNCHANGED <<ltable, limiters, expired, rpm, tpm, epoch, up>> /\ lreq[r].pc = "release"
    BY <1>9 DEF ConnRelease, limTables
  <2>2. CASE lreq[r].held = <<>>
    <3> DEFINE q == [IdleReq EXCEPT !.pc = "gone"]
    <3>1. lreq' = [lreq EXCEPT ![r] = q] /\ con' = con /\ lost' = lost
      BY <1>9, <2>2 DEF ConnRelease
    <3>2. q \in LReqRec /\ InTurn(q) /\ q.held = lreq[r].held
      BY <2>2, GoneReq
    <3> HIDE DEF q
    <3> QED
      BY <2>1, <3>1, <3>2, <1>t, KeepsSlots DEF LimIInv, LimTypeOK
  <2>3. CASE lreq[r].held # <<>>
    <3>1. lreq[r].held \in Seq(LPolicies)
      BY <1>q DEF LReqRec
    <3>2. PICK p \in LPolicies : p = Head(lreq[r].held) /\ p = lreq[r].held[1]
      BY <3>1, <2>3
    <3>3. /\ Tail(lreq[r].held) \in Seq(LPolicies)
          /\ \A i \in DOMAIN Tail(lreq[r].held) :
                i \in Nat /\ i # 0 /\ i + 1 \in DOMAIN lreq[r].held /\ Tail(lreq[r].held)[i] = lreq[r].held[i + 1]
          /\ \A i \in DOMAIN lreq[r].held \ {1} :
                i - 1 \in DOMAIN Tail(lreq[r].held) /\ Tail(lreq[r].held)[i - 1] = lreq[r].held[i]
          /\ 1 \in DOMAIN lreq[r].held
      BY <3>1, <2>3
    <3> DEFINE q == [lreq[r] EXCEPT !.held = Tail(@)]
    <3>4. q \in LReqRec /\ q.pc = "release" /\ q.ids = lreq[r].ids /\ q.held = Tail(lreq[r].held)
      BY <2>1, <3>3, <1>q DEF LReqRec
    <3>5. lreq' = [lreq EXCEPT ![r] = q]
      BY <1>9, <2>3, <1>t DEF ConnRelease
    <3> HIDE DEF q
    <3>6. \A i, j \in DOMAIN q.held : q.held[i] = q.held[j] => i = j
      <4>1. ASSUME NEW i \in DOMAIN q.held, NEW j \in DOMAIN q.held, q.held[i] = q.held[j] PROVE i = j
        <5>1. i + 1 = j + 1
          BY <4>1, <3>3, <3>4, <1>q DEF InTurn
        <5> QED
          BY <5>1, <3>3, <3>4
      <4> QED
        BY <4>1
    <3>7. InTurn(q)
      <4>1. \A i \in DOMAIN q.ids, j \in DOMAIN q.held : q.ids[i] # q.held[j]
        BY <3>3, <3>4, <2>1, <1>q DEF InTurn
      <4> QED
        BY <3>4, <3>6, <4>1, <2>1, <1>q DEF InTurn
    <3>8. lreq'[r] = q /\ (\A s \in LReqs \ {r} : lreq'[s] = lreq[s]) /\ lreq' \in [LReqs -> LReqRec]
      BY <3>4, <3>5, <1>t
    <3>9. AllInTurn'
      BY <3>7, <3>8, <1>q DEF AllInTurn
    <3>10. Range(q.held) = Range(lreq[r].held) \ {p} /\ p \in Range(lreq[r].held)
      <4>1. p \in Range(lreq[r].held)
        BY <3>2, <3>3 DEF Range
      <4>2. ASSUME NEW x \in Range(q.held) PROVE x \in Range(lreq[r].held) \ {p}
        <5>1. PICK i \in DOMAIN q.held : x = q.held[i]
          BY <4>2 DEF Range
        <5>2. i \in Nat /\ i # 0 /\ i + 1 \in DOMAIN lreq[r].held /\ x = lreq[r].held[i + 1]
          BY <5>1, <3>3, <3>4
        <5>3. x # p
          BY <5>2, <3>2, <3>3, <1>q DEF InTurn
        <5> QED
          BY <5>2, <5>3 DEF Range
      <4>3. ASSUME NEW x \in Range(lreq[r].held) \ {p} PROVE x \in Range(q.held)
        <5>1. PICK i \in DOMAIN lreq[r].held : x = lreq[r].held[i]
          BY <4>3 DEF Range
        <5>2. i # 1
          BY <5>1, <3>2, <4>3
        <5> QED
          BY <5>1, <5>2, <3>3, <3>4 DEF Range
      <4> QED
        BY <4>1, <4>2, <4>3
    <3>11. \/ con' = [con EXCEPT ![p] = ConReleased(@)] /\ lost' = lost
           \/ lost' = [lost EXCEPT ![p] = @ + 1] /\ con' = con
      BY <1>9, <2>3, <3>2 DEF ConnRelease
    <3>12. LimTypeOK'
      <4>1. con' \in [LPolicies -> Nat] /\ lost' \in [LPolicies -> Nat]
        BY <3>11, <1>t DEF ConReleased
      <4> QED
        BY <2>1, <3>8, <4>1, <1>t DEF LimTypeOK
    <3>13. ASSUME NEW x \in LPolicies
           PROVE  /\ con'[x] >= 0 /\ con'[x] <= Cardinality(LHolders(x)') + lost'[x]
                  /\ ~expired'[x] => con'[x] = Cardinality(LHolders(x)') + lost'[x]
      <4>1. /\ con[x] \in Nat /\ lost[x] \in Nat /\ con[x] <= Cardinality(LHolders(x)) + lost[x]
            /\ ~expired[x] => con[x] = Cardinality(LHolders(x)) + lost[x]
        BY <1>t DEF LimIInv, SlotsCounted
      <4>2. CASE x # p
        <5>1. LHolders(x)' = LHolders(x)
          BY <3>8, <3>10, <4>2 DEF LHolders
        <5>2. con'[x] = con[x] /\ lost'[x] = lost[x]
          BY <3>11, <4>2, <1>t
        <5> QED
          BY <4>1, <5>1, <5>2, <2>1
      <4>3. CASE x = p
        <5>1. LHolders(x)' = LHolders(x) \ {r} /\ r \in LHolders(x)
          BY <3>8, <3>10, <4>3 DEF LHolders
        <5>2. Cardinality(LHolders(x) \ {r}) = Cardinality(LHolders(x)) - 1
          BY <5>1, HoldersFinite, FS_RemoveElement
        <5>3. IsFiniteSet(LHolders(x) \ {r})
          BY HoldersFinite, FS_RemoveElement
        <5>4. Cardinality(LHolders(x) \ {r}) \in Nat
          BY <5>3, FS_CardinalityType
        <5>5. \/ con'[x] = (IF con[x] <= 0 THEN con[x] ELSE con[x] - 1) /\ lost'[x] = lost[x]
              \/ con'[x] = con[x] /\ lost'[x] = lost[x] + 1
          BY <3>11, <4>3, <1>t DEF ConReleased
        <5>6. Cardinality(LHolders(x)) \in Nat
          BY HoldersFinite
        <5> QED
          BY <4>1, <5>1, <5>2, <5>4, <5>5, <5>6, <2>1
      <4> QED
        BY <4>2, <4>3
    <3>14. SlotsCounted'
      BY <3>13 DEF SlotsCounted
    <3> QED
      BY <3>9, <3>12, <3>14 DEF LimIInv
  <2> QED
    BY <2>2, <2>3
<1>10. CASE loadProductRuleTable
  <2>1. UNCHANGED <<limiters, con, expired, rpm, tpm, epoch, up, lreq, lost>> /\ ltable' \in Tables
    BY <1>10 DEF loadProductRuleTable, limRedis
  <2> QED
    BY <2>1 DEF LimIInv, LimTypeOK, AllInTurn, SlotsCounted, LHolders
<1>11. CASE updateLimiters
  <2>1. UNCHANGED <<ltable, con, expired, rpm, tpm, epoch, up, lreq, lost>> /\ limiters' = Range(ltable)
    BY <1>11 DEF updateLimiters, newPolicyLimiterSet, limRedis
  <2> QED
    BY <2>1 DEF LimIInv, LimTypeOK, AllInTurn, SlotsCounted, LHolders
<1>12. ASSUME NEW g \in Gateways, crash(g) PROVE LimIInv'
  <2>1. UNCHANGED <<ltable, limiters, con, expired, rpm, tpm, epoch>> /\ up' \subseteq Gateways
    BY <1>12, <1>t DEF crash, limTables, limRedis
  <2> DEFINE q == [IdleReq EXCEPT !.pc = "gone"]
  <2>2. q \in LReqRec /\ q.held = <<>> /\ InTurn(q)
    BY GoneReq
  <2>3. lreq' = [s \in LReqs |-> IF GatewayOf[s] = g THEN q ELSE lreq[s]]
    BY <1>12 DEF crash
  <2> HIDE DEF q
  <2>4. AllInTurn' /\ lreq' \in [LReqs -> LReqRec]
    BY <2>2, <2>3, <1>q DEF AllInTurn
  <2> DEFINE Cut(p) == {s \in LReqs : GatewayOf[s] = g /\ p \in Range(lreq[s].held)}
  <2>5. lost' = [p \in LPolicies |-> lost[p] + Cardinality(Cut(p))]
    BY <1>12 DEF crash
  <2>6. \A p : Cut(p) \subseteq LHolders(p) /\ LHolders(p)' = LHolders(p) \ Cut(p)
    BY <2>2, <2>3 DEF LHolders, Range
  <2>7. \A p : Cardinality(Cut(p)) \in Nat
    BY <2>6, HoldersFinite, FS_Subset, FS_CardinalityType
  <2> HIDE DEF Cut
  <2>8. lost' \in [LPolicies -> Nat]
    BY <2>5, <2>7, <1>t
  <2>9. ASSUME NEW p \in LPolicies
        PROVE  Cardinality(LHolders(p)') + lost'[p] = Cardinality(LHolders(p)) + lost[p]
    <3>1. LHolders(p) \cap Cut(p) = Cut(p)
      BY <2>6
    <3>2. Cardinality(LHolders(p) \ Cut(p)) = Cardinality(LHolders(p)) - Cardinality(Cut(p))
      BY <3>1, HoldersFinite, FS_Difference
    <3>3. lost'[p] = lost[p] + Cardinality(Cut(p)) /\ lost[p] \in Nat
      BY <2>5, <1>t
    <3>4. LHolders(p)' = LHolders(p) \ Cut(p) /\ Cardinality(Cut(p)) \in Nat
      BY <2>6, <2>7
    <3>5. Cardinality(LHolders(p)) \in Nat
      BY HoldersFinite
    <3>6. Cardinality(LHolders(p)') = Cardinality(LHolders(p)) - Cardinality(Cut(p))
      BY <3>2, <3>4
    <3> QED
      BY <3>3, <3>4, <3>5, <3>6
  <2>10. SlotsCounted'
    BY <2>1, <2>9 DEF SlotsCounted, LimIInv
  <2>11. LimTypeOK'
    BY <2>1, <2>4, <2>8, <1>t DEF LimTypeOK
  <2> QED
    BY <2>4, <2>10, <2>11 DEF LimIInv
<1>13. ASSUME NEW p \in LPolicies, conExpires(p) PROVE LimIInv'
  <2>1. UNCHANGED <<ltable, limiters, rpm, tpm, epoch, up, lreq>>
    BY <1>13 DEF conExpires, limTables
  <2>2. con' \in [LPolicies -> Nat] /\ lost' \in [LPolicies -> Nat] /\ expired' \in [LPolicies -> BOOLEAN]
    BY <1>13, <1>t DEF conExpires
  <2>3. \A x : LHolders(x)' = LHolders(x)
    BY <2>1 DEF LHolders
  <2>4. con'[p] = 0 /\ lost'[p] = 0 /\ (~expired'[p] => LHolders(p) = {})
    BY <1>13, <1>t DEF conExpires, LHolders
  <2>5. \A x \in LPolicies \ {p} : con'[x] = con[x] /\ lost'[x] = lost[x] /\ expired'[x] = expired[x]
    BY <1>13, <1>t DEF conExpires
  <2>6. SlotsCounted'
    BY <2>3, <2>4, <2>5, HoldersFinite, FS_EmptySet DEF SlotsCounted, LimIInv
  <2> QED
    BY <2>1, <2>2, <2>6 DEF LimIInv, LimTypeOK, AllInTurn
<1>14. CASE windowMoves
  <2>1. UNCHANGED <<ltable, limiters, con, expired, up, lreq, lost>>
    BY <1>14 DEF windowMoves, limTables
  <2>2. epoch' \in 0..MaxEpochs /\ rpm' \in [LPolicies -> Nat] /\ tpm' \in [LPolicies -> Nat]
    BY <1>14, <1>t, LimitsAssumption DEF windowMoves
  <2> QED
    BY <2>1, <2>2 DEF LimIInv, LimTypeOK, AllInTurn, SlotsCounted, LHolders
<1>15. CASE UNCHANGED limVars
  BY <1>15
     DEF limVars, limTables, limRedis, LimIInv, LimTypeOK, AllInTurn, SlotsCounted,
         LHolders
<1> QED
  BY <1>1, <1>2, <1>3, <1>4, <1>5, <1>6, <1>7, <1>8, <1>9, <1>10, <1>11, <1>12, <1>13,
     <1>14, <1>15
     DEF LimNext

\* The types of the limiter's tables, of its counters in Redis and of the
\* requests are kept: in particular no counter becomes negative.
THEOREM LimTypeCorrect == LimSpec => []LimTypeOK
<1>1. LimIInv => LimTypeOK
  BY DEF LimIInv
<1> QED
  BY <1>1, LimInitial, LimStep, PTL DEF LimSpec

\* Whichever limit of whichever policy is hit, however replies are lost,
\* gateways crash, counters expire and rules are reloaded: the counter of a
\* policy in Redis is the number of its requests under way and of the slots
\* that nobody can give back any more.
THEOREM EverySlotCounted == LimSpec => []SlotsCounted
<1>1. LimIInv => SlotsCounted
  BY DEF LimIInv
<1> QED
  BY <1>1, LimInitial, LimStep, PTL DEF LimSpec

-----------------------------------------------------------------------------
(* Keys.                                                                   *)

\* A request in ServeHTTPForAI; a key, a list of keys or an index may be
\* anything (S), as filterPenaltyKeys leaves an arbitrary list.
AReq(S) == [pc : S, att : 1..Len(Attempts), left : S, key : S, pos : S, bound : S, cand : S,
            keep : BOOLEAN, last : S]

\* What the program point of request q says about its key and the keys that
\* have refused it: without penalties the indices of deadSet are those of the
\* keys of the cluster, and no key is chosen, or kept for a retry, whose index
\* is dead.
KeyOk(pen, q, dead, ref, keys) ==
    /\ q.pc = "enter" => dead = {} /\ ref = {}
    /\ q.pc \in {"select", "pick", "bind", "forward", "unbind"} => ~q.keep
    /\ ~pen /\ Len(keys) > 1 =>
          /\ q.pc = "pick" => q.cand = keys
          /\ dead \subseteq DOMAIN keys
          /\ ref = {keys[i] : i \in dead}
          /\ (q.pc \in {"bind", "forward"} \/ (q.pc = "retry" /\ q.keep)) =>
                q.pos \in DOMAIN keys /\ q.key = keys[q.pos] /\ q.pos \notin dead

AiIInv ==
    /\ \E S : areq \in [AiReqs -> AReq(S)]
    /\ deadSet = [r \in AiReqs |-> deadSet[r]]
    /\ refused = [r \in AiReqs |-> refused[r]]
    /\ \A r \in AiReqs : KeyOk(policy.penalty, areq[r], deadSet[r], refused[r], Keys(r))

\* A request that is new has the shape of one.
LEMMA NewInShape == (\E S : NewReq \in AReq(S)) /\ NewReq.keep = FALSE /\ NewReq.pc = "enter"
<1>1. Len(Attempts) \in Nat /\ Len(Attempts) >= 1
  BY AiAssumption
<1> DEFINE S == {"enter", 1, 0, NoAi, <<>>, FALSE, "none"}
<1>2. NewReq \in AReq(S)
  BY <1>1 DEF NewReq, AReq
<1> HIDE DEF S
<1> QED
  BY <1>2 DEF NewReq

\* At the start no key has refused a request.
LEMMA AiInitial == AiInit => AiIInv
<1> SUFFICES ASSUME AiInit PROVE AiIInv
  OBVIOUS
<1>1. areq = [r \in AiReqs |-> NewReq]
  BY DEF AiInit
<1>4. \E T : areq \in [AiReqs -> AReq(T)]
  BY <1>1, NewInShape
<1>5. \A r \in AiReqs : areq[r].pc = "enter" /\ deadSet[r] = {} /\ refused[r] = {}
  BY <1>1, NewInShape DEF AiInit
<1>6. \A r \in AiReqs : KeyOk(policy.penalty, areq[r], deadSet[r], refused[r], Keys(r))
  BY <1>5 DEF KeyOk
<1>7. deadSet = [r \in AiReqs |-> deadSet[r]] /\ refused = [r \in AiReqs |-> refused[r]]
  BY DEF AiInit
<1> QED
  BY <1>4, <1>6, <1>7 DEF AiIInv

\* A step of request r, which changes no other.
MovesTo(r, q, dead, ref) ==
    /\ areq' = [areq EXCEPT ![r] = q] /\ policy' = policy
    /\ deadSet' = [deadSet EXCEPT ![r] = dead] /\ refused' = [refused EXCEPT ![r] = ref]

\* Such a step preserves the invariant if its new state is in order.
LEMMA AiMoves ==
    ASSUME AiIInv, NEW r \in AiReqs, NEW T, NEW q \in AReq(T), NEW dead, NEW ref,
           MovesTo(r, q, dead, ref), KeyOk(policy.penalty, q, dead, ref, KeysOf[Attempts[q.att]])
    PROVE  AiIInv'
<1>1. PICK S : areq \in [AiReqs -> AReq(S)]
  BY DEF AiIInv
<1>2. AReq(S) \subseteq AReq(S \cup T) /\ AReq(T) \subseteq AReq(S \cup T)
  BY DEF AReq
<1>3. areq' \in [AiReqs -> AReq(S \cup T)]
  BY <1>1, <1>2 DEF MovesTo
<1>4. areq'[r] = q /\ \A s \in AiReqs \ {r} : areq'[s] = areq[s]
  BY <1>1 DEF MovesTo
<1>5. /\ deadSet' = [s \in AiReqs |-> deadSet'[s]] /\ deadSet'[r] = dead
      /\ \A s \in AiReqs \ {r} : deadSet'[s] = deadSet[s]
  BY DEF AiIInv, MovesTo
<1>6. /\ refused' = [s \in AiReqs |-> refused'[s]] /\ refused'[r] = ref
      /\ \A s \in AiReqs \ {r} : refused'[s] = refused[s]
  BY DEF AiIInv, MovesTo
<1>7. KeyOk(policy.penalty, areq[r], deadSet[r], refused[r], Keys(r))'
  BY <1>4, <1>5, <1>6 DEF Keys, Here, MovesTo
<1>8. ASSUME NEW s \in AiReqs \ {r} PROVE KeyOk(policy.penalty, areq[s], deadSet[s], refused[s], Keys(s))'
  <2>1. Keys(s)' = Keys(s)
    BY <1>4 DEF Keys, Here
  <2>2. areq'[s] = areq[s] /\ deadSet'[s] = deadSet[s] /\ refused'[s] = refused[s]
    BY <1>4, <1>5, <1>6
  <2>3. KeyOk(policy.penalty, areq[s], deadSet[s], refused[s], Keys(s))
    BY DEF AiIInv
  <2> QED
    BY <2>1, <2>2, <2>3 DEF MovesTo
<1> QED
  BY <1>3, <1>5, <1>6, <1>7, <1>8 DEF AiIInv

\* A step that changes the request only.
LEMMA AiGoes ==
    ASSUME AiIInv, NEW r \in AiReqs, NEW T, NEW q \in AReq(T), areq' = [areq EXCEPT ![r] = q],
           UNCHANGED <<policy, deadSet, refused>>, q.att = areq[r].att,
           KeyOk(policy.penalty, q, deadSet[r], refused[r], Keys(r))
    PROVE  AiIInv'
<1>1. PICK dead, ref : dead = deadSet[r] /\ ref = refused[r]
  OBVIOUS
<1>2. deadSet' = [deadSet EXCEPT ![r] = dead]
  BY <1>1 DEF AiIInv
<1>3. refused' = [refused EXCEPT ![r] = ref]
  BY <1>1 DEF AiIInv
<1>4. KeyOk(policy.penalty, q, dead, ref, KeysOf[Attempts[q.att]])
  BY <1>1 DEF Keys, Here
<1>5. MovesTo(r, q, dead, ref)
  BY <1>2, <1>3 DEF MovesTo
<1> QED
  BY <1>4, <1>5, AiMoves

\* The key of a binding that is usable is alive, and IndexOf finds it.
LEMMA UsableAlive ==
    ASSUME NEW r \in AiReqs, NEW k, KeyUsable(r, k), Keys(r) \in Seq(AiKeys)
    PROVE  /\ IndexOf(Keys(r), k) \in DOMAIN Keys(r)
           /\ Keys(r)[IndexOf(Keys(r), k)] = k
           /\ IndexOf(Keys(r), k) \notin deadSet[r]
<1> DEFINE First(i) == Keys(r)[i] = k /\ \A j \in 1..(i - 1) : Keys(r)[j] # k
<1>1. PICK i \in DOMAIN Keys(r) : First(i) /\ i \notin deadSet[r]
  BY DEF KeyUsable, isKeyAlive
<1>2. PICK n \in DOMAIN Keys(r) : n = IndexOf(Keys(r), k) /\ First(n)
  BY <1>1 DEF IndexOf
<1>3. n = i
  BY <1>1, <1>2
<1> QED
  BY <1>1, <1>2, <1>3

\* A request leaves the loop over the keys, or is about to ask for another one.
LEMMA AiLeaves ==
    ASSUME AiIInv, NEW r \in AiReqs, NEW at \in {"settle", "rebind", "unbind", "retry"}, NEW a,
           areq' = [areq EXCEPT ![r].pc = at, ![r].last = a],
           UNCHANGED <<policy, deadSet, refused>>,
           at \in {"unbind", "retry"} => areq[r].pc \in {"forward", "unbind"}
    PROVE  AiIInv'
<1>1. PICK S : areq \in [AiReqs -> AReq(S)]
  BY DEF AiIInv
<1> DEFINE q == [areq[r] EXCEPT !.pc = at, !.last = a]
<1>2. /\ q \in AReq(S \cup {at, a}) /\ q.pc = at /\ q.att = areq[r].att /\ q.keep = areq[r].keep
  BY <1>1 DEF AReq
<1>3. areq' = [areq EXCEPT ![r] = q]
  BY <1>1
<1> HIDE DEF q
<1>4. KeyOk(policy.penalty, areq[r], deadSet[r], refused[r], Keys(r))
  BY DEF AiIInv
<1>5. KeyOk(policy.penalty, q, deadSet[r], refused[r], Keys(r))
  BY <1>2, <1>4 DEF KeyOk
<1> QED
  BY <1>2, <1>3, <1>5, AiGoes

\* What a key that is taken must be.
Takes(r, i, k) ==
    ~policy.penalty /\ Len(Keys(r)) > 1 =>
        i \in DOMAIN Keys(r) /\ k = Keys(r)[i] /\ i \notin deadSet[r]

\* A request goes on with a key that is alive.
LEMMA AiTakes ==
    ASSUME AiIInv, NEW r \in AiReqs, areq[r].pc = "pick", NEW at \in {"forward", "bind"},
           NEW i, NEW k, NEW b, take(r, i, k, b, at), Takes(r, i, k),
           UNCHANGED <<policy, deadSet, refused>>
    PROVE  AiIInv'
<1>1. PICK S : areq \in [AiReqs -> AReq(S)]
  BY DEF AiIInv
<1> DEFINE q == [areq[r] EXCEPT !.pc = at, !.key = k, !.pos = i, !.bound = b, !.cand = <<>>]
<1>2. /\ q \in AReq(S \cup {at, k, i, b, <<>>}) /\ q.pc = at /\ q.att = areq[r].att
      /\ q.keep = areq[r].keep /\ q.key = k /\ q.pos = i
  BY <1>1 DEF AReq
<1>3. areq' = [areq EXCEPT ![r] = q]
  BY <1>1 DEF take
<1> HIDE DEF q
<1>4. KeyOk(policy.penalty, areq[r], deadSet[r], refused[r], Keys(r))
  BY DEF AiIInv
<1>5. KeyOk(policy.penalty, q, deadSet[r], refused[r], Keys(r))
  BY <1>2, <1>4 DEF KeyOk, Takes
<1> QED
  BY <1>2, <1>3, <1>5, AiGoes

\* chooseNextAIKey takes a key that is alive, or none is left.
LEMMA NextAlive ==
    ASSUME AiIInv, NEW r \in AiReqs, areq[r].pc = "pick", NEW b, NEW at \in {"forward", "bind"},
           chooseNextAIKey(r, b, at), UNCHANGED <<policy, deadSet, refused>>
    PROVE  AiIInv'
<1>1. KeyOk(policy.penalty, areq[r], deadSet[r], refused[r], Keys(r))
  BY DEF AiIInv
<1>2. ~policy.penalty /\ Len(Keys(r)) > 1 => areq[r].cand = Keys(r)
  BY <1>1 DEF KeyOk
<1>3. CASE areq' = [areq EXCEPT ![r].pc = "settle", ![r].last = "nokey"]
  BY <1>3, AiLeaves
<1>4. CASE \E i \in {j \in DOMAIN areq[r].cand : j \notin deadSet[r]} :
              take(r, i, areq[r].cand[i], b, at)
  <2>1. PICK i \in DOMAIN areq[r].cand : i \notin deadSet[r] /\ take(r, i, areq[r].cand[i], b, at)
    BY <1>4
  <2>2. PICK k : k = areq[r].cand[i]
    OBVIOUS
  <2>3. Takes(r, i, k)
    BY <1>2, <2>1, <2>2 DEF Takes
  <2>4. take(r, i, k, b, at)
    BY <2>1, <2>2
  <2> QED
    BY <2>3, <2>4, AiTakes
<1> QED
  BY <1>3, <1>4 DEF chooseNextAIKey

\* Every step of a request and the expiry of keys of Redis preserve the
\* invariant.
LEMMA AiStep == AiIInv /\ [AiNext]_aiVars => AiIInv'
<1> SUFFICES ASSUME AiIInv, [AiNext]_aiVars PROVE AiIInv'
  OBVIOUS
<1>s. PICK S : areq \in [AiReqs -> AReq(S)]
  BY DEF AiIInv
<1>k. \A r \in AiReqs : /\ KeyOk(policy.penalty, areq[r], deadSet[r], refused[r], Keys(r))
                        /\ areq[r] \in AReq(S) /\ areq[r].att \in 1..Len(Attempts)
                        /\ Keys(r) \in Seq(AiKeys)
  <2> SUFFICES ASSUME NEW r \in AiReqs
               PROVE  /\ KeyOk(policy.penalty, areq[r], deadSet[r], refused[r], Keys(r))
                      /\ areq[r] \in AReq(S) /\ areq[r].att \in 1..Len(Attempts)
                      /\ Keys(r) \in Seq(AiKeys)
    OBVIOUS
  <2>1. areq[r] \in AReq(S) /\ areq[r].att \in 1..Len(Attempts)
    BY <1>s DEF AReq
  <2>2. Attempts[areq[r].att] \in Range(Attempts)
    BY <2>1, AiAssumption DEF Range
  <2>3. Keys(r) \in Seq(AiKeys)
    BY <2>2, AiAssumption DEF Keys, Here, AiKeys
  <2> QED
    BY <2>1, <2>3 DEF AiIInv
<1>1. ASSUME NEW r \in AiReqs, enterCluster(r) PROVE AiIInv'
  <2>1. UNCHANGED <<policy, deadSet, refused>> /\ areq[r].pc = "enter"
    BY <1>1 DEF enterCluster, reqLocal
  <2>2. CASE areq' = [areq EXCEPT ![r].pc = "settle", ![r].last = "error"]
    BY <2>1, <2>2, AiLeaves
  <2>3. ASSUME NEW at \in {"forward", "select"}, NEW n, at = "forward" => Keys(r) = <<>>,
               areq' = [areq EXCEPT ![r] = [NewReq EXCEPT !.att = areq[r].att, !.pc = at, !.left = n]]
        PROVE  AiIInv'
    <3> DEFINE q == [NewReq EXCEPT !.att = areq[r].att, !.pc = at, !.left = n]
    <3>1. PICK T : NewReq \in AReq(T) /\ NewReq.keep = FALSE
      BY NewInShape
    <3>2. areq' = [areq EXCEPT ![r] = q]
      BY <2>3
    <3>3. /\ q \in AReq(T \cup {at, n}) /\ q.pc = at /\ q.att = areq[r].att
          /\ q.keep = FALSE
      BY <3>1, <1>k DEF AReq
    <3> HIDE DEF q
    <3>4. at = "forward" => ~(Len(Keys(r)) > 1)
      BY <2>3, <1>k
    <3>5. KeyOk(policy.penalty, q, deadSet[r], refused[r], Keys(r))
      BY <3>3, <3>4, <2>1, <1>k DEF KeyOk
    <3> QED
      BY <2>1, <3>2, <3>3, <3>5, AiGoes
  <2>4. \/ areq' = [areq EXCEPT ![r].pc = "settle", ![r].last = "error"]
        \/ \E n : \E at \in {"forward", "select"} :
              /\ at = "forward" => Keys(r) = <<>>
              /\ areq' = [areq EXCEPT ![r] = [NewReq EXCEPT !.att = areq[r].att, !.pc = at, !.left = n]]
    BY <1>1 DEF enterCluster
  <2> QED
    BY <2>2, <2>3, <2>4
<1>2. ASSUME NEW r \in AiReqs, selectKeys(r) PROVE AiIInv'
  <2>1. UNCHANGED <<policy, deadSet, refused>> /\ areq[r].pc = "select"
    BY <1>2 DEF selectKeys, reqLocal
  <2>2. PICK c : /\ areq' = [areq EXCEPT ![r].pc = "pick", ![r].bound = NoAi, ![r].cand = c]
                 /\ ~policy.penalty => c = Keys(r)
    BY <1>2 DEF selectKeys
  <2> DEFINE q == [areq[r] EXCEPT !.pc = "pick", !.bound = NoAi, !.cand = c]
             T == S \cup {"pick", NoAi, c}
  <2>3. /\ q \in AReq(T) /\ q.pc = "pick" /\ q.cand = c /\ q.att = areq[r].att /\ q.keep = areq[r].keep
    BY <1>k DEF AReq
  <2>4. areq' = [areq EXCEPT ![r] = q]
    BY <2>2, <1>s
  <2> HIDE DEF q, T
  <2>5. KeyOk(policy.penalty, q, deadSet[r], refused[r], Keys(r))
    BY <2>1, <2>2, <2>3, <1>k DEF KeyOk
  <2> QED
    BY <2>1, <2>3, <2>4, <2>5, AiGoes
<1>3. ASSUME NEW r \in AiReqs, chooseAIKeyWithAffinity(r) PROVE AiIInv'
  <2>1. UNCHANGED <<policy, deadSet, refused>> /\ areq[r].pc = "pick"
    BY <1>3 DEF chooseAIKeyWithAffinity, reqLocal
  <2>2. ASSUME NEW b, NEW at \in {"forward", "bind"}, chooseNextAIKey(r, b, at) PROVE AiIInv'
    BY <2>1, <2>2, NextAlive
  <2>3. ASSUME NEW k, KeyUsable(r, k), take(r, IndexOf(Keys(r), k), k, k, "forward") PROVE AiIInv'
    <3>1. PICK i : i = IndexOf(Keys(r), k)
      OBVIOUS
    <3>2. Takes(r, i, k)
      BY <2>3, <3>1, <1>k, UsableAlive DEF Takes
    <3> QED
      BY <2>1, <2>3, <3>1, <3>2, AiTakes
  <2>4. CASE Len(Keys(r)) = 1 /\ take(r, 1, Keys(r)[1], Keys(r)[1], "forward")
    <3>1. PICK k : k = Keys(r)[1]
      OBVIOUS
    <3>2. Takes(r, 1, k)
      BY <2>4 DEF Takes
    <3> QED
      BY <2>1, <2>4, <3>1, <3>2, AiTakes
  <2>5. \/ \E b : \E at \in {"forward", "bind"} : chooseNextAIKey(r, b, at)
        \/ \E k : KeyUsable(r, k) /\ take(r, IndexOf(Keys(r), k), k, k, "forward")
        \/ Len(Keys(r)) = 1 /\ take(r, 1, Keys(r)[1], Keys(r)[1], "forward")
    BY <1>3 DEF chooseAIKeyWithAffinity
  <2> QED
    BY <2>2, <2>3, <2>4, <2>5
<1>4. ASSUME NEW r \in AiReqs, redisSetBinding(r) PROVE AiIInv'
  <2>1. UNCHANGED <<policy, deadSet, refused>>
    BY <1>4 DEF redisSetBinding
  <2>2. PICK at \in {"forward", "settle"} :
           areq' = [areq EXCEPT ![r].pc = at] /\ (at = "forward" => areq[r].pc = "bind")
    BY <1>4 DEF redisSetBinding, To
  <2> DEFINE q == [areq[r] EXCEPT !.pc = at]
  <2>3. /\ q \in AReq(S \cup {at}) /\ q.pc = at /\ q.att = areq[r].att /\ q.keep = areq[r].keep
        /\ q.key = areq[r].key /\ q.pos = areq[r].pos
    BY <1>k DEF AReq
  <2>4. areq' = [areq EXCEPT ![r] = q]
    BY <2>2, <1>s
  <2> HIDE DEF q
  <2>5. KeyOk(policy.penalty, q, deadSet[r], refused[r], Keys(r))
    BY <2>2, <2>3, <1>k DEF KeyOk
  <2> QED
    BY <2>1, <2>3, <2>4, <2>5, AiGoes
<1>5. ASSUME NEW r \in AiReqs, redisDeleteBinding(r) PROVE AiIInv'
  <2>1. UNCHANGED <<policy, deadSet, refused>> /\ areq[r].pc = "unbind" /\ areq' = [areq EXCEPT ![r].pc = "retry"]
    BY <1>5 DEF redisDeleteBinding, To
  <2> DEFINE q == [areq[r] EXCEPT !.pc = "retry"]
  <2>2. q \in AReq(S \cup {"retry"}) /\ q.pc = "retry" /\ q.att = areq[r].att /\ q.keep = areq[r].keep
    BY <1>k DEF AReq
  <2>3. areq' = [areq EXCEPT ![r] = q]
    BY <2>1, <1>s
  <2> HIDE DEF q
  <2>4. KeyOk(policy.penalty, q, deadSet[r], refused[r], Keys(r))
    BY <2>1, <2>2, <1>k DEF KeyOk
  <2> QED
    BY <2>1, <2>2, <2>3, <2>4, AiGoes
<1>6. ASSUME NEW r \in AiReqs, forwardOK(r) PROVE AiIInv'
  <2>1. UNCHANGED <<policy, deadSet, refused>>
    BY <1>6 DEF forwardOK
  <2>2. PICK at \in {"rebind", "settle"} : areq' = [areq EXCEPT ![r].pc = at, ![r].last = "ok"]
    BY <1>6 DEF forwardOK
  <2> QED
    BY <2>1, <2>2, AiLeaves
<1>7. ASSUME NEW r \in AiReqs, NEW a, ended(r, a), policy' = policy PROVE AiIInv'
  <2>1. UNCHANGED <<policy, deadSet, refused>> /\ areq' = [areq EXCEPT ![r].pc = "settle", ![r].last = a]
    BY <1>7 DEF ended
  <2> QED
    BY <2>1, AiLeaves
<1>8. ASSUME NEW r \in AiReqs, forwardStops(r) \/ forwardKeyless(r) \/ forwardNotFound(r) PROVE AiIInv'
  <2>1. (\E a : ended(r, a)) /\ policy' = policy
    BY <1>8 DEF forwardStops, forwardKeyless, forwardNotFound, reqLocal
  <2> QED
    BY <2>1, <1>7
<1>9. ASSUME NEW r \in AiReqs, NEW a \in {"429", "quota", "auth"}, forwardRefused(r, a) PROVE AiIInv'
  <2>1. policy' = policy /\ areq[r].pc = "forward"
    BY <1>9 DEF forwardRefused
  <2>2. PICK at \in {"unbind", "retry"} : areq' = [areq EXCEPT ![r].pc = at, ![r].last = a]
    BY <1>9 DEF forwardRefused
  <2>3. CASE UNCHANGED <<deadSet, refused>>
    BY <2>1, <2>2, <2>3, AiLeaves
  <2>4. CASE /\ deadSet' = [deadSet EXCEPT ![r] = @ \cup {areq[r].pos}]
             /\ refused' = [refused EXCEPT ![r] = @ \cup {areq[r].key}]
    <3> DEFINE q == [areq[r] EXCEPT !.pc = at, !.last = a]
    <3>1. q \in AReq(S \cup {at, a}) /\ q.pc = at /\ q.att = areq[r].att /\ q.keep = areq[r].keep
      BY <1>k DEF AReq
    <3>2. areq' = [areq EXCEPT ![r] = q]
      BY <2>2, <1>s
    <3> HIDE DEF q
    <3>3. PICK dead, ref : dead = deadSet[r] \cup {areq[r].pos} /\ ref = refused[r] \cup {areq[r].key}
      OBVIOUS
    <3>4. MovesTo(r, q, dead, ref)
      BY <2>1, <2>4, <3>2, <3>3 DEF MovesTo
    <3>5. ~areq[r].keep
      BY <2>1, <1>k DEF KeyOk
    <3>6. ASSUME ~policy.penalty, Len(Keys(r)) > 1
          PROVE  dead \subseteq DOMAIN Keys(r) /\ ref = {Keys(r)[i] : i \in dead}
      <4>1. /\ deadSet[r] \subseteq DOMAIN Keys(r) /\ refused[r] = {Keys(r)[i] : i \in deadSet[r]}
            /\ areq[r].pos \in DOMAIN Keys(r) /\ areq[r].key = Keys(r)[areq[r].pos]
        BY <2>1, <3>6, <1>k DEF KeyOk
      <4> QED
        BY <4>1, <3>3
    <3>7. KeyOk(policy.penalty, q, dead, ref, Keys(r))
      BY <3>1, <3>5, <3>6 DEF KeyOk
    <3>8. Keys(r) = KeysOf[Attempts[q.att]]
      BY <3>1 DEF Keys, Here
    <3> QED
      BY <3>1, <3>4, <3>7, <3>8, AiMoves
  <2> QED
    BY <1>9, <2>3, <2>4 DEF forwardRefused
<1>10. ASSUME NEW r \in AiReqs, forwardTransient(r) PROVE AiIInv'
  <2>1. UNCHANGED <<policy, deadSet, refused>> /\ areq[r].pc = "forward"
        /\ areq' = [areq EXCEPT ![r].pc = "retry", ![r].keep = TRUE, ![r].last = "5xx"]
    BY <1>10 DEF forwardTransient, reqLocal
  <2> DEFINE q == [areq[r] EXCEPT !.pc = "retry", !.keep = TRUE, !.last = "5xx"]
  <2>2. /\ q \in AReq(S \cup {"retry", "5xx"}) /\ q.pc = "retry" /\ q.att = areq[r].att
        /\ q.key = areq[r].key /\ q.pos = areq[r].pos
    BY <1>k DEF AReq
  <2>3. areq' = [areq EXCEPT ![r] = q]
    BY <2>1, <1>s
  <2> HIDE DEF q
  <2>4. KeyOk(policy.penalty, q, deadSet[r], refused[r], Keys(r))
    BY <2>1, <2>2, <1>k DEF KeyOk
  <2> QED
    BY <2>1, <2>2, <2>3, <2>4, AiGoes
<1>11. ASSUME NEW r \in AiReqs, nextKey(r) PROVE AiIInv'
  <2>1. UNCHANGED <<policy, deadSet, refused>> /\ areq[r].pc = "retry"
    BY <1>11 DEF nextKey, reqLocal
  <2>2. CASE areq' = [areq EXCEPT ![r].pc = "settle"]
    <3> DEFINE q == [areq[r] EXCEPT !.pc = "settle"]
    <3>1. q \in AReq(S \cup {"settle"}) /\ q.pc = "settle" /\ q.att = areq[r].att
      BY <1>k DEF AReq
    <3>2. areq' = [areq EXCEPT ![r] = q]
      BY <2>2, <1>s
    <3> HIDE DEF q
    <3>3. KeyOk(policy.penalty, q, deadSet[r], refused[r], Keys(r))
      BY <3>1, <1>k DEF KeyOk
    <3> QED
      BY <2>1, <3>1, <3>2, <3>3, AiGoes
  <2>3. CASE areq' = [areq EXCEPT ![r].pc = IF areq[r].keep THEN "forward" ELSE "select",
                                  ![r].left = @ - 1, ![r].keep = FALSE]
    <3>1. PICK at \in {"forward", "select"}, n \in {areq[r].left - 1} :
             /\ areq' = [areq EXCEPT ![r].pc = at, ![r].left = n, ![r].keep = FALSE]
             /\ at = "forward" => areq[r].keep
      BY <2>3, <1>s
    <3> DEFINE q == [areq[r] EXCEPT !.pc = at, !.left = n, !.keep = FALSE]
    <3>2. /\ q \in AReq(S \cup {at, n}) /\ q.pc = at /\ q.att = areq[r].att /\ q.keep = FALSE
          /\ q.key = areq[r].key /\ q.pos = areq[r].pos
      BY <1>k DEF AReq
    <3>3. areq' = [areq EXCEPT ![r] = q]
      BY <3>1, <1>s
    <3> HIDE DEF q
    <3>4. KeyOk(policy.penalty, q, deadSet[r], refused[r], Keys(r))
      BY <2>1, <3>1, <3>2, <1>k DEF KeyOk
    <3> QED
      BY <2>1, <3>2, <3>3, <3>4, AiGoes
  <2> QED
    BY <1>11, <2>2, <2>3 DEF nextKey, To
<1>12. ASSUME NEW r \in AiReqs, fallback(r) PROVE AiIInv'
  <2>1. policy' = policy /\ deadSet' = [deadSet EXCEPT ![r] = {}] /\ refused' = [refused EXCEPT ![r] = {}]
    BY <1>12 DEF fallback, reqLocal
  <2>2. ASSUME NEW T, NEW q \in AReq(T), q.pc \in {"enter", "done"}, areq' = [areq EXCEPT ![r] = q]
        PROVE  AiIInv'
    <3>1. MovesTo(r, q, {}, {})
      BY <2>1, <2>2 DEF MovesTo
    <3>2. KeyOk(policy.penalty, q, {}, {}, KeysOf[Attempts[q.att]])
      BY <2>2 DEF KeyOk
    <3> QED
      BY <3>1, <3>2, AiMoves
  <2>3. CASE /\ areq' = [areq EXCEPT ![r].pc = "enter", ![r].att = @ + 1]
             /\ areq[r].att < Len(Attempts)
    <3> DEFINE q == [areq[r] EXCEPT !.pc = "enter", !.att = @ + 1]
    <3>1. areq[r].att + 1 \in 1..Len(Attempts)
      BY <2>3, <1>k, AiAssumption
    <3>2. q \in AReq(S \cup {"enter"}) /\ q.pc = "enter"
      BY <3>1, <1>k DEF AReq
    <3>3. areq' = [areq EXCEPT ![r] = q]
      BY <2>3, <1>s
    <3> HIDE DEF q
    <3> QED
      BY <2>2, <3>2, <3>3
  <2>4. CASE areq' = [areq EXCEPT ![r] = [NewReq EXCEPT !.pc = "done", !.last = areq[r].last, !.att = areq[r].att]]
    <3> DEFINE q == [NewReq EXCEPT !.pc = "done", !.last = areq[r].last, !.att = areq[r].att]
    <3>1. PICK T : NewReq \in AReq(T)
      BY NewInShape
    <3>2. q \in AReq(T \cup {"done", areq[r].last}) /\ q.pc = "done"
      BY <3>1, <1>k DEF AReq
    <3>3. areq' = [areq EXCEPT ![r] = q]
      BY <2>4
    <3> HIDE DEF q
    <3> QED
      BY <2>2, <3>2, <3>3
  <2> QED
    BY <1>12, <2>3, <2>4 DEF fallback
<1>13. CASE expire \/ UNCHANGED aiVars
  <2>1. UNCHANGED <<policy, areq, deadSet, refused>>
    BY <1>13 DEF expire, aiVars
  <2> QED
    BY <2>1 DEF AiIInv, Keys, Here
<1> QED
  BY <1>1, <1>2, <1>3, <1>4, <1>5, <1>6, <1>8, <1>9, <1>10, <1>11, <1>12, <1>13 DEF AiNext

\* Whatever bindings and penalties other requests put into Redis meanwhile: a
\* key that refused a request is not chosen for it again by aiClusterInvoke,
\* in a cluster with several different keys and without penalties.
THEOREM DeadKeysStayDead == AiSpec => []DeadNotReused
<1>1. ASSUME AiIInv PROVE DeadNotReused
  <2> SUFFICES ASSUME NEW r \in AiReqs, areq[r].pc \in {"bind", "forward"}, ~policy.penalty,
                      Len(Keys(r)) > 1, IsInjective(Keys(r)), areq[r].key \in refused[r]
               PROVE  FALSE
    BY DEF DeadNotReused
  <2>1. /\ refused[r] = {Keys(r)[i] : i \in deadSet[r]} /\ deadSet[r] \subseteq DOMAIN Keys(r)
        /\ areq[r].pos \in DOMAIN Keys(r) /\ areq[r].key = Keys(r)[areq[r].pos]
        /\ areq[r].pos \notin deadSet[r]
    BY <1>1 DEF AiIInv, KeyOk
  <2>2. PICK i \in deadSet[r] : areq[r].key = Keys(r)[i]
    BY <2>1
  <2>3. i = areq[r].pos
    BY <2>1, <2>2 DEF IsInjective
  <2> QED
    BY <2>1, <2>2, <2>3
<1> QED
  BY <1>1, AiInitial, AiStep, PTL DEF AiSpec

-----------------------------------------------------------------------------
(* mod_ai_cache.                                                           *)

\* The value was given to the tenant for the question, and came to its end.
Backed(t, q, v) ==
    /\ v \in Seq(STRING)
    /\ \E w \in acWhole : w.tenant = t /\ w.question = q /\ IsPrefix(v, w.value)

CacheStates == {"start", "miss", "upload", "end"}
CacheValues == Seq(STRING) \cup {NoAnswer}
CacheTyped ==
    acReq \in [CacheReqs -> [kind : CacheKinds, st : CacheStates,
                             got : CacheValues, val : CacheValues]]
StoresBacked ==
    /\ \A e \in acRedis : Backed(e.tenant, e.question, e.value)
    /\ \A e \in acVector : Backed(e.tenant, e.question, e.value)
UploadsBacked ==
    \A r \in CacheReqs : acReq[r].st = "upload" =>
        Backed(acReq[r].kind.tenant, acReq[r].kind.question, acReq[r].val)
CacheInv == CacheTyped /\ StoresBacked /\ UploadsBacked /\ CacheOwned

\* What is captured of an answer, and what is taken from that, is a prefix of it.
LEMMA PrefixOfPrefix ==
    ASSUME NEW p \in Seq(STRING), NEW m \in 0 .. Len(p)
    PROVE  /\ SubSeq(p, 1, m) \in Seq(STRING) /\ Len(SubSeq(p, 1, m)) = m
           /\ IsPrefix(SubSeq(p, 1, m), p)
<1>1. SubSeq(p, 1, m) \in Seq(STRING) /\ Len(SubSeq(p, 1, m)) = m
  OBVIOUS
<1>2. SubSeq(SubSeq(p, 1, m), 1, m) = SubSeq(p, 1, m)
  BY <1>1
<1> QED
  BY <1>1, <1>2 DEF IsPrefix

LEMMA CapturedPrefix ==
    ASSUME NEW k, NEW p \in Seq(STRING)
    PROVE  /\ extractAnswer(k, captured(k, SubSeq(p, 1, Len(p))), p) \in Seq(STRING)
           /\ IsPrefix(extractAnswer(k, captured(k, SubSeq(p, 1, Len(p))), p), p)
<1>1. SubSeq(p, 1, Len(p)) = p
  OBVIOUS
<1>2. MaxValue \in Nat /\ MaxValue \div 2 \in Nat
  BY CachesAssumption
<1>3. PICK m \in 0 .. Len(p) : captured(k, p) = SubSeq(p, 1, m)
  BY <1>2 DEF captured
<1>4. <<>> \in Seq(STRING) /\ IsPrefix(<<>>, p)
  BY DEF IsPrefix
<1>5. captured(k, p) \in Seq(STRING) /\ IsPrefix(captured(k, p), p)
  BY <1>3, PrefixOfPrefix
<1> QED
  BY <1>1, <1>4, <1>5 DEF extractAnswer, extractStreamAnswer

\* A set of answers read to their end only grows.
LEMMA BackedGrows ==
    ASSUME NEW t, NEW q, NEW v, acWhole \subseteq acWhole', Backed(t, q, v)
    PROVE  Backed(t, q, v)'
  BY DEF Backed

LEMMA CacheInitInv == CacheInit => CacheInv
<1> SUFFICES ASSUME CacheInit PROVE CacheInv
  OBVIOUS
<1>1. NoAnswer \in CacheValues
  BY DEF CacheValues
<1>2. CacheTyped
  <2>1. \A k \in CacheKinds : [kind |-> k, st |-> "start", got |-> NoAnswer, val |-> NoAnswer]
            \in [kind : CacheKinds, st : CacheStates, got : CacheValues, val : CacheValues]
    BY <1>1 DEF CacheStates
  <2> QED
    BY <2>1 DEF CacheInit, CacheTyped
<1>3. \A r \in CacheReqs : acReq[r].st = "start" /\ acReq[r].got = NoAnswer
  BY DEF CacheInit
<1> QED
  BY <1>2, <1>3 DEF CacheInit, CacheInv, StoresBacked, UploadsBacked, CacheOwned

LEMMA CacheStep == CacheInv /\ [CacheNext]_cacheVars => CacheInv'
<1> SUFFICES ASSUME CacheInv, [CacheNext]_cacheVars PROVE CacheInv'
  OBVIOUS
<1>t. CacheTyped /\ StoresBacked /\ UploadsBacked /\ CacheOwned
  BY DEF CacheInv
<1>n. NoAnswer \in CacheValues
  BY DEF CacheValues
<1>1. CASE UNCHANGED cacheVars
  BY <1>1 DEF CacheInv, CacheTyped, StoresBacked, UploadsBacked, CacheOwned, cacheVars, Backed
<1>2. CASE Expire
  <2>1. /\ acRedis' \subseteq acRedis /\ acVector' \subseteq acVector
        /\ acReq' = acReq /\ acWhole' = acWhole
    BY <1>2 DEF Expire
  <2> QED
    BY <2>1, <1>t DEF CacheInv, CacheTyped, StoresBacked, UploadsBacked, CacheOwned, Backed
<1>3. ASSUME NEW r \in CacheReqs, cacheRequestHandler(r) PROVE CacheInv'
  <2> DEFINE k == acReq[r].kind
  <2>0. /\ acRedis' = acRedis /\ acVector' = acVector /\ acWhole' = acWhole
        /\ acReq[r].st = "start"
    BY <1>3 DEF cacheRequestHandler
  <2>1. \E v, s : /\ acReq' = [acReq EXCEPT ![r].st = s, ![r].got = v]
                  /\ s \in {"end", "miss"}
                  /\ v \in CacheValues
                  /\ \/ v = acReq[r].got
                     \/ \E e \in acRedis : v = e.value /\ e.tenant = k.tenant /\ e.question = k.question
                     \/ \E e \in acVector : v = e.value /\ e.tenant = k.tenant /\ k.semantic
    <3>0. acReq[r].got \in CacheValues
      BY <1>t DEF CacheTyped
    <3>1. CASE k.skip /\ acReq' = [acReq EXCEPT ![r].st = "end"]
      <4>1. acReq' = [acReq EXCEPT ![r].st = "end", ![r].got = acReq[r].got]
        BY <3>1, <1>t DEF CacheTyped
      <4> QED
        BY <4>1, <3>0
    <3>2. CASE \E v \in CacheGet(k) : acReq' = [acReq EXCEPT ![r].st = "end", ![r].got = v]
      <4>1. PICK v \in CacheGet(k) : acReq' = [acReq EXCEPT ![r].st = "end", ![r].got = v]
        BY <3>2
      <4>2. PICK e \in acRedis : v = e.value /\ e.tenant = k.tenant /\ e.question = k.question
        BY <4>1 DEF CacheGet, KeyOf, buildCacheKey, tenantOf
      <4>3. v \in CacheValues
        BY <4>2, <1>t DEF StoresBacked, Backed, CacheValues
      <4> QED
        BY <4>1, <4>2, <4>3
    <3>3. CASE \E v \in Lookup(k) : acReq' = [acReq EXCEPT ![r].st = "end", ![r].got = v]
      <4>1. PICK v \in Lookup(k) : acReq' = [acReq EXCEPT ![r].st = "end", ![r].got = v]
        BY <3>3
      <4>2. PICK e \in acVector : v = e.value /\ e.tenant = k.tenant /\ k.semantic
        BY <4>1 DEF Lookup, Query, tenantOf
      <4>3. v \in CacheValues
        BY <4>2, <1>t DEF StoresBacked, Backed, CacheValues
      <4> QED
        BY <4>1, <4>2, <4>3
    <3>4. CASE acReq' = [acReq EXCEPT ![r].st = "miss"]
      <4>1. acReq' = [acReq EXCEPT ![r].st = "miss", ![r].got = acReq[r].got]
        BY <3>4, <1>t DEF CacheTyped
      <4> QED
        BY <4>1, <3>0
    <3> QED
      BY <1>3, <3>1, <3>2, <3>3, <3>4 DEF cacheRequestHandler
  <2>2. PICK v, s : /\ acReq' = [acReq EXCEPT ![r].st = s, ![r].got = v]
                    /\ s \in {"end", "miss"}
                    /\ v \in CacheValues
                    /\ \/ v = acReq[r].got
                       \/ \E e \in acRedis : v = e.value /\ e.tenant = k.tenant /\ e.question = k.question
                       \/ \E e \in acVector : v = e.value /\ e.tenant = k.tenant /\ k.semantic
    BY <2>1
  <2>3. CacheTyped'
    BY <2>2, <1>t DEF CacheTyped, CacheStates
  <2>4. StoresBacked' /\ (UploadsBacked)'
    BY <2>0, <2>2, <1>t DEF StoresBacked, UploadsBacked, Backed, CacheTyped
  <2>5. /\ acReq'[r].got = v /\ acReq'[r].kind = k
        /\ \A q \in CacheReqs \ {r} : acReq'[q] = acReq[q]
    BY <2>2, <1>t DEF CacheTyped
  <2>6. v # NoAnswer => \E w \in acWhole : /\ w.tenant = k.tenant
                                           /\ k.semantic \/ w.question = k.question
                                           /\ IsPrefix(v, w.value)
    BY <2>2, <1>t DEF CacheOwned, StoresBacked, Backed
  <2>7. CacheOwned'
    BY <2>0, <2>5, <2>6, <1>t DEF CacheOwned
  <2> QED
    BY <2>3, <2>4, <2>7 DEF CacheInv
<1>4. ASSUME NEW r \in CacheReqs, cacheResponseHandler(r) PROVE CacheInv'
  <2>k. PICK k : k = acReq[r].kind
    OBVIOUS
  <2>0. acVector' = acVector /\ acReq[r].st = "miss"
    BY <1>4 DEF cacheResponseHandler
  <2>1. CASE acReq' = [acReq EXCEPT ![r].st = "end"] /\ UNCHANGED <<acRedis, acWhole>>
    <3>1. CacheTyped'
      BY <2>1, <1>t DEF CacheTyped, CacheStates
    <3> QED
      BY <3>1, <2>0, <2>1, <1>t
         DEF CacheInv, CacheTyped, StoresBacked, UploadsBacked, CacheOwned, Backed
  <2>2. CASE \E parts \in UpstreamAnswers : \E n \in 0..Len(parts) : \E eof \in {n = Len(parts), FALSE} :
             /\ writeBack(r, parts, n, eof)
             /\ acWhole' = IF eof THEN acWhole \cup {[tenant |-> acReq[r].kind.tenant, question |-> acReq[r].kind.question, value |-> parts]}
                           ELSE acWhole
    <3>a. PICK parts \in UpstreamAnswers : \E n \in 0 .. Len(parts) : \E eof \in {n = Len(parts), FALSE} :
             /\ writeBack(r, parts, n, eof)
             /\ acWhole' = IF eof THEN acWhole \cup {[tenant |-> k.tenant, question |-> k.question, value |-> parts]}
                           ELSE acWhole
      BY <2>2, <2>k
    <3>b. PICK n \in 0 .. Len(parts) : \E eof \in {n = Len(parts), FALSE} :
             /\ writeBack(r, parts, n, eof)
             /\ acWhole' = IF eof THEN acWhole \cup {[tenant |-> k.tenant, question |-> k.question, value |-> parts]}
                           ELSE acWhole
      BY <3>a
    <3>1. PICK eof \in {n = Len(parts), FALSE} :
             /\ writeBack(r, parts, n, eof)
             /\ acWhole' = IF eof THEN acWhole \cup {[tenant |-> k.tenant, question |-> k.question, value |-> parts]}
                           ELSE acWhole
      BY <3>b
    <3>2. parts \in Seq(STRING) /\ eof \in BOOLEAN /\ (eof => n = Len(parts))
      BY CachesAssumption
    <3>3. PICK value : value = extractAnswer(k, captured(k, SubSeq(parts, 1, n)), parts)
      OBVIOUS
    <3>4. eof => value \in Seq(STRING) /\ IsPrefix(value, parts)
      BY <3>2, <3>3, CapturedPrefix
    <3>5. PICK fits \in BOOLEAN : fits = (eof /\ value # <<>> /\ Len(value) <= MaxValue)
      OBVIOUS
    <3>6. /\ acRedis' = IF fits THEN {e \in acRedis : KeyOf(e) # buildCacheKey(k)}
                                        \cup {[tenant |-> k.tenant, question |-> k.question, value |-> value]}
                        ELSE acRedis
          /\ acReq' = [acReq EXCEPT ![r].st = IF fits /\ k.semantic THEN "upload" ELSE "end",
                                   ![r].val = IF fits THEN value ELSE NoAnswer]
      BY <3>1, <3>3, <3>5, <2>k DEF writeBack
    <3>7. acWhole \subseteq acWhole'
      BY <3>1
    <3>8. ASSUME fits PROVE Backed(k.tenant, k.question, value)'
      <4>1. [tenant |-> k.tenant, question |-> k.question, value |-> parts] \in acWhole'
        BY <3>8, <3>1, <3>5
      <4> QED
        BY <4>1, <3>8, <3>4, <3>5 DEF Backed
    <3>14. (IF fits THEN value ELSE NoAnswer) \in CacheValues
      BY <3>4, <3>5, <1>n DEF CacheValues
    <3>9. CacheTyped'
      <4>1. PICK s \in CacheStates : s = IF fits /\ k.semantic THEN "upload" ELSE "end"
        BY DEF CacheStates
      <4>2. PICK v \in CacheValues : v = IF fits THEN value ELSE NoAnswer
        BY <3>14
      <4>3. acReq' = [acReq EXCEPT ![r].st = s, ![r].val = v]
        BY <3>6, <4>1, <4>2, Zenon
      <4> QED
        BY <4>1, <4>2, <4>3, <1>t DEF CacheTyped
    <3>10. StoresBacked'
      <4>1. \A e \in acRedis \cup acVector : Backed(e.tenant, e.question, e.value)'
        BY <3>7, <1>t DEF StoresBacked, Backed
      <4>2. \A e \in acRedis' : e \in acRedis \/ (fits /\ e = [tenant |-> k.tenant, question |-> k.question, value |-> value])
        BY <3>6
      <4>3. \A e \in acRedis' : Backed(e.tenant, e.question, e.value)'
        BY <4>1, <4>2, <3>8
      <4> QED
        BY <4>1, <4>3, <2>0 DEF StoresBacked
    <3>11. /\ acReq'[r].got = acReq[r].got /\ acReq'[r].kind = k
           /\ acReq'[r].st = "upload" => fits
           /\ fits => acReq'[r].val = value
           /\ \A q \in CacheReqs \ {r} : acReq'[q] = acReq[q]
      BY <3>6, <2>k, <1>t DEF CacheTyped
    <3>12. UploadsBacked'
      BY <3>11, <3>7, <3>8, <1>t, BackedGrows DEF UploadsBacked
    <3>13. CacheOwned'
      BY <3>11, <3>7, <2>k, <1>t DEF CacheOwned
    <3> QED
      BY <3>9, <3>10, <3>12, <3>13 DEF CacheInv
  <2> QED
    BY <1>4, <2>1, <2>2 DEF cacheResponseHandler
<1>5. ASSUME NEW r \in CacheReqs, Upload(r) PROVE CacheInv'
  <2>k. PICK k : k = acReq[r].kind
    OBVIOUS
  <2>1. /\ acReq[r].st = "upload" /\ acRedis' = acRedis /\ acWhole' = acWhole
        /\ acReq' = [acReq EXCEPT ![r].st = "end", ![r].val = NoAnswer]
        /\ \A e \in acVector' : e \in acVector
               \/ e = [tenant |-> k.tenant, question |-> k.question, value |-> acReq[r].val]
    BY <1>5, <2>k DEF Upload
  <2>2. CacheTyped'
    BY <2>1, <1>t, <1>n DEF CacheTyped, CacheStates
  <2>3. Backed(k.tenant, k.question, acReq[r].val)
    BY <2>1, <2>k, <1>t DEF UploadsBacked
  <2>4. StoresBacked'
    BY <2>1, <2>3, <1>t DEF StoresBacked, Backed
  <2>5. /\ acReq'[r].got = acReq[r].got /\ acReq'[r].kind = k /\ acReq'[r].st = "end"
        /\ \A q \in CacheReqs \ {r} : acReq'[q] = acReq[q]
    BY <2>1, <2>k, <1>t DEF CacheTyped
  <2>6. UploadsBacked'
    <3>1. \A q \in CacheReqs : acReq'[q].st = "upload" => q # r /\ acReq'[q] = acReq[q]
      BY <2>5
    <3>2. acWhole \subseteq acWhole'
      BY <2>1
    <3> QED
      BY <3>1, <3>2, <1>t, BackedGrows DEF UploadsBacked
  <2>7. CacheOwned'
    <3>1. \A q \in CacheReqs : acReq'[q].got = acReq[q].got /\ acReq'[q].kind = acReq[q].kind
      BY <2>5, <2>k
    <3> QED
      BY <3>1, <2>1, <1>t DEF CacheOwned
  <2> QED
    BY <2>2, <2>4, <2>6, <2>7 DEF CacheInv
<1> QED
  BY <1>1, <1>2, <1>3, <1>4, <1>5 DEF CacheNext
-----------------------------------------------------------------------------
(* mod_ai_intent.                                                          *)

IntentStates == {"start", "load", "swap", "call", "refused", "end"}
\* What the service said about the questions of a version.
Said(v) == [QuestionsOf(v) -> {"model", "unknown"}]
CleanEntries ==
    {e \in [key : [key : {k.key : k \in IntentKinds}, version : Nat, text : {k.text : k \in IntentKinds}],
            answers : UNION {Said(v) : v \in Nat}] : e.answers \in Said(e.key.version)}

RequestTyped(q) ==
    /\ DOMAIN q = {"kind", "st", "version", "seen", "answers"}
    /\ q.kind \in IntentKinds /\ q.st \in IntentStates /\ q.version \in Nat /\ q.seen \in Nat
    /\ q.st = "end" => DOMAIN q.answers = QuestionsOf(q.version)
RequestsTyped == DOMAIN inReq = IntentReqs /\ \A r \in IntentReqs : RequestTyped(inReq[r])
CacheClean == inCache \in Seq(CleanEntries) /\ Len(inCache) <= IntentCapacity
\* Who saw the probe due still sees it due, unless the stamp has changed; and the
\* last probe is as old as the stamp.
SawItDue(q) ==
    /\ q.seen <= inBreaker.last
    /\ q.st = "swap" => q.seen # 0 /\ (q.seen = inBreaker.stamp => inBreaker.age >= ProbeInterval)
ProbesApart ==
    /\ inBreaker \in [stamp : Nat, last : Nat, age : Nat, fails : Nat] /\ inProbe \in Nat
    /\ inBreaker.stamp <= inBreaker.last
    /\ inBreaker.stamp # 0 => inProbe >= inBreaker.age
    /\ \A r \in IntentReqs : SawItDue(inReq[r])
IntentInv == RequestsTyped /\ CacheClean /\ ProbesApart /\ inVersion \in Nat

\* A set of numbers has a least one.
LEMMA Least ==
    ASSUME NEW S \in SUBSET Nat, S # {}
    PROVE  Min(S) \in S /\ \A y \in S : Min(S) <= y
<1> DEFINE R == {ss \in Nat \X Nat : ss[1] < ss[2]}
<1>1. IsWellFoundedOn(R, Nat)
  BY NatLessThanWellFounded DEF OpToRel
<1>2. PICK x \in S : \A y \in S : ~(<<y, x>> \in R)
  <2> HIDE DEF R
  <2> QED
    BY <1>1, WFMin
<1>3. \A y \in S : x <= y
  <2> TAKE y \in S
  <2>1. x \in Nat /\ y \in Nat /\ ~(<<y, x>> \in R)
    BY <1>2
  <2> QED
    BY <2>1
<1> QED
  BY <1>3 DEF Min

\* Removing an element, or keeping the first ones, leaves a sequence of the rest.
LEMMA RemoveAtSeq ==
    ASSUME NEW S, NEW s \in Seq(S), NEW i \in 1 .. Len(s)
    PROVE  RemoveAt(s, i) \in Seq(S) /\ Len(RemoveAt(s, i)) = Len(s) - 1
<1>1. SubSeq(s, 1, i - 1) \in Seq(S) /\ Len(SubSeq(s, 1, i - 1)) = i - 1
  OBVIOUS
<1>2. SubSeq(s, i + 1, Len(s)) \in Seq(S) /\ Len(SubSeq(s, i + 1, Len(s))) = Len(s) - i
  OBVIOUS
<1>3. \A a, b \in Seq(S) : a \o b \in Seq(S) /\ Len(a \o b) = Len(a) + Len(b)
  OBVIOUS
<1>4. PICK a \in Seq(S) : a = SubSeq(s, 1, i - 1) /\ Len(a) = i - 1
  BY <1>1
<1>5. PICK b \in Seq(S) : b = SubSeq(s, i + 1, Len(s)) /\ Len(b) = Len(s) - i
  BY <1>2
<1>6. a \o b \in Seq(S) /\ Len(a \o b) = Len(a) + Len(b)
  BY <1>3
<1>7. Len(a) + Len(b) = Len(s) - 1
  <2>1. Len(s) \in Nat /\ i \in Nat
    OBVIOUS
  <2>2. Len(a) = i - 1 /\ Len(b) = Len(s) - i
    BY <1>4, <1>5
  <2>3. \A x, y, j, n \in Int : x = j - 1 /\ y = n - j => x + y = n - 1
    OBVIOUS
  <2>4. Len(a) \in Int /\ Len(b) \in Int
    OBVIOUS
  <2> QED
    BY <2>1, <2>2, <2>3, <2>4
<1> QED
  BY <1>4, <1>5, <1>6, <1>7 DEF RemoveAt
LEMMA ConsSeq ==
    ASSUME NEW S, NEW s \in Seq(S), NEW e \in S
    PROVE  <<e>> \o s \in Seq(S) /\ Len(<<e>> \o s) = Len(s) + 1
  OBVIOUS
LEMMA FirstSeq ==
    ASSUME NEW S, NEW s \in Seq(S), NEW n \in 0 .. Len(s)
    PROVE  SubSeq(s, 1, n) \in Seq(S) /\ Len(SubSeq(s, 1, n)) = n
  OBVIOUS

LEMMA IntentGetFinds ==
    ASSUME NEW key, NEW S, inCache \in Seq(S)
    PROVE  \/ IntentGet(key) = 0
           \/ IntentGet(key) \in 1 .. Len(inCache) /\ inCache[IntentGet(key)].key = key
<1> DEFINE I == {i \in 1 .. Len(inCache) : inCache[i].key = key}
<1>1. IntentGet(key) = IF I # {} THEN Min(I) ELSE 0
  BY DEF IntentGet, SelectInSeq
<1>2. CASE I = {}
  BY <1>1, <1>2
<1>3. CASE I # {}
  <2>1. I \in SUBSET Nat
    OBVIOUS
  <2>2. Min(I) \in I
    BY <2>1, <1>3, Least
  <2> QED
    BY <2>2, <1>1, <1>3
<1> QED
  BY <1>2, <1>3

LEMMA IntentSetClean ==
    ASSUME NEW key, NEW ans, CacheClean, [key |-> key, answers |-> ans] \in CleanEntries
    PROVE  /\ IntentSet(key, ans) \in Seq(CleanEntries)
           /\ Len(IntentSet(key, ans)) <= IntentCapacity
<1>0. inCache \in Seq(CleanEntries) /\ Len(inCache) <= IntentCapacity
  BY DEF CacheClean
<1>1. IntentCapacity \in Nat \ {0}
  BY CachesAssumption
<1>2. PICK i : i = IntentGet(key)
  OBVIOUS
<1>3. i = 0 \/ i \in 1 .. Len(inCache)
  BY <1>0, <1>2, IntentGetFinds
<1>4. PICK rest : rest = IF i # 0 THEN RemoveAt(inCache, i)
                         ELSE IF Len(inCache) < IntentCapacity THEN inCache
                         ELSE SubSeq(inCache, 1, IntentCapacity - 1)
  OBVIOUS
<1>5. rest \in Seq(CleanEntries) /\ Len(rest) <= IntentCapacity - 1
  <2>1. CASE i # 0
    <3>1. RemoveAt(inCache, i) \in Seq(CleanEntries) /\ Len(RemoveAt(inCache, i)) = Len(inCache) - 1
      BY <2>1, <1>0, <1>3, RemoveAtSeq
    <3> QED
      BY <3>1, <2>1, <1>0, <1>1, <1>4
  <2>2. CASE i = 0 /\ Len(inCache) < IntentCapacity
    BY <2>2, <1>0, <1>1, <1>4
  <2>3. CASE i = 0 /\ ~(Len(inCache) < IntentCapacity)
    <3>1. IntentCapacity - 1 \in 0 .. Len(inCache)
      BY <2>3, <1>0, <1>1
    <3>2. /\ SubSeq(inCache, 1, IntentCapacity - 1) \in Seq(CleanEntries)
          /\ Len(SubSeq(inCache, 1, IntentCapacity - 1)) = IntentCapacity - 1
      BY <3>1, <1>0, FirstSeq
    <3> QED
      BY <3>2, <2>3, <1>1, <1>4
  <2> QED
    BY <2>1, <2>2, <2>3
<1>6. IntentSet(key, ans) = <<[key |-> key, answers |-> ans]>> \o rest
  BY <1>2, <1>4 DEF IntentSet
<1>7. /\ <<[key |-> key, answers |-> ans]>> \o rest \in Seq(CleanEntries)
      /\ Len(<<[key |-> key, answers |-> ans]>> \o rest) = Len(rest) + 1
  BY <1>5, ConsSeq
<1> QED
  BY <1>5, <1>6, <1>7, <1>1

\* The answers that come out of a request are those of its questions.
LEMMA AnswerDomains ==
    ASSUME NEW k, NEW v
    PROVE  /\ DOMAIN fillUnknown(resolveExplicitHeader(k, v), v) = QuestionsOf(v)
           /\ \A a : DOMAIN a = QuestionsOf(v) =>
                 DOMAIN mergeAnswers(a, resolveExplicitHeader(k, v)) = QuestionsOf(v)
           /\ \A said \in parseDecisionAnswers(v) : fillUnknown(said, v) \in Said(v)
<1>1. DOMAIN resolveExplicitHeader(k, v) \subseteq QuestionsOf(v)
  BY DEF resolveExplicitHeader
<1>2. ASSUME NEW s \in SUBSET QuestionsOf(v)
      PROVE  fillUnknown([q \in s |-> "model"], v) \in Said(v)
  BY <1>2 DEF fillUnknown, Said
<1> QED
  BY <1>1, <1>2 DEF fillUnknown, mergeAnswers, parseDecisionAnswers

LEMMA IntentInitInv == IntentInit => IntentInv
<1> SUFFICES ASSUME IntentInit PROVE IntentInv
  OBVIOUS
<1>1. \A r \in IntentReqs : \E k \in IntentKinds :
         inReq[r] = [kind |-> k, st |-> "start", version |-> 0, seen |-> 0, answers |-> <<>>]
  BY DEF IntentInit
<1>2. RequestsTyped
  BY <1>1 DEF IntentInit, RequestsTyped, RequestTyped, IntentStates
<1>3. CacheClean
  BY CachesAssumption DEF IntentInit, CacheClean
<1>4. ProbesApart
  BY <1>1, CachesAssumption DEF IntentInit, ProbesApart, SawItDue
<1> QED
  BY <1>2, <1>3, <1>4 DEF IntentInv, IntentInit
\* A request that is given a new state, answers, version or stamp.
LEMMA RequestsStep ==
    ASSUME RequestsTyped, NEW r \in IntentReqs, NEW q, RequestTyped(q),
           inReq' = [inReq EXCEPT ![r] = q]
    PROVE  /\ RequestsTyped' /\ inReq'[r] = q
           /\ \A p \in IntentReqs : p # r => inReq'[p] = inReq[p]
<1>1. DOMAIN inReq' = IntentReqs /\ \A p \in IntentReqs : inReq'[p] = IF p = r THEN q ELSE inReq[p]
  BY DEF RequestsTyped
<1> QED
  BY <1>1 DEF RequestsTyped, RequestTyped

LEMMA StampedFields ==
    ASSUME NEW b \in [stamp : Nat, last : Nat, age : Nat, fails : Nat]
    PROVE  /\ Stamped(b).stamp = b.last + 1 /\ Stamped(b).last = b.last + 1 /\ Stamped(b).age = 0
           /\ Stamped(b) \in [stamp : Nat, last : Nat, age : Nat, fails : Nat]
<1>1. b.last + 1 \in Nat
  OBVIOUS
<1>2. PICK n \in Nat : n = b.last + 1
  BY <1>1
<1>3. Stamped(b) = [b EXCEPT !.stamp = n, !.last = n, !.age = 0]
  BY <1>2, Zenon DEF Stamped
<1>4. Stamped(b) = [stamp |-> n, last |-> n, age |-> 0, fails |-> b.fails]
  BY <1>3
<1> QED
  BY <1>2, <1>4

LEMMA IntentStep == IntentInv /\ [IntentNext]_intentVars => IntentInv'
<1> SUFFICES ASSUME IntentInv, [IntentNext]_intentVars PROVE IntentInv'
  OBVIOUS
<1>t. RequestsTyped /\ CacheClean /\ ProbesApart /\ inVersion \in Nat
  BY DEF IntentInv
<1>b. /\ inBreaker \in [stamp : Nat, last : Nat, age : Nat, fails : Nat] /\ inProbe \in Nat
      /\ inBreaker.stamp <= inBreaker.last
      /\ inBreaker.stamp # 0 => inProbe >= inBreaker.age
      /\ \A r \in IntentReqs : SawItDue(inReq[r])
  BY <1>t DEF ProbesApart
<1>p. ProbeInterval \in Nat
  BY CachesAssumption
<1>1. CASE UNCHANGED intentVars
  BY <1>1, <1>t DEF IntentInv, RequestsTyped, CacheClean, ProbesApart, SawItDue, intentVars
<1>2. CASE LoadQuestions
  BY <1>2, <1>t DEF LoadQuestions, IntentInv, RequestsTyped, CacheClean, ProbesApart, SawItDue
<1>3. CASE IntentExpire
  <2>1. inCache \in Seq(CleanEntries) /\ Len(inCache) <= IntentCapacity /\ inCache # <<>>
    BY <1>3, <1>t DEF CacheClean, IntentExpire
  <2>2. Len(inCache) - 1 \in 0 .. Len(inCache)
    BY <2>1
  <2>3. inCache' \in Seq(CleanEntries) /\ Len(inCache') = Len(inCache) - 1
    BY <1>3, <2>1, <2>2, FirstSeq DEF IntentExpire
  <2>4. CacheClean'
    BY <2>1, <2>3, CachesAssumption DEF CacheClean
  <2> QED
    BY <1>3, <2>4, <1>t DEF IntentExpire, IntentInv, RequestsTyped, ProbesApart, SawItDue
<1>4. CASE IntentTick
  <2>1. /\ inBreaker.stamp # 0 /\ inBreaker.age < ProbeInterval
        /\ inBreaker' = [inBreaker EXCEPT !.age = inBreaker.age + 1]
        /\ inProbe' = IF inProbe < ProbeInterval THEN inProbe + 1 ELSE inProbe
        /\ inReq' = inReq /\ inCache' = inCache /\ inVersion' = inVersion
    BY <1>4 DEF IntentTick
  <2>2. /\ inBreaker'.stamp = inBreaker.stamp /\ inBreaker'.last = inBreaker.last
        /\ inBreaker'.age = inBreaker.age + 1
        /\ inBreaker' \in [stamp : Nat, last : Nat, age : Nat, fails : Nat] /\ inProbe' \in Nat
    BY <2>1, <1>b
  <2>3. \A r \in IntentReqs : inReq[r].seen \in Nat
    BY <1>t DEF RequestsTyped, RequestTyped
  <2>4. \A r \in IntentReqs : SawItDue(inReq[r])'
    BY <2>1, <2>2, <2>3, <1>b, <1>p DEF SawItDue
  <2>5. inProbe' >= inBreaker'.age
    BY <2>1, <2>2, <1>b, <1>p
  <2>6. ProbesApart'
    BY <2>1, <2>2, <2>4, <2>5, <1>b DEF ProbesApart
  <2> QED
    BY <2>1, <2>6, <1>t DEF IntentInv, RequestsTyped, CacheClean
<1>5. ASSUME NEW r \in IntentReqs,
             Resolve(r) \/ allowLoad(r) \/ allowSwap(r) \/ ResolveRefused(r) \/ Classify(r)
      PROVE  IntentInv'
  <2>k. PICK k : k = inReq[r].kind
    OBVIOUS
  <2>q. /\ DOMAIN inReq = IntentReqs
        /\ DOMAIN inReq[r] = {"kind", "st", "version", "seen", "answers"}
        /\ k \in IntentKinds /\ inReq[r].st \in IntentStates
        /\ inReq[r].version \in Nat /\ inReq[r].seen \in Nat
    BY <1>t, <2>k DEF RequestsTyped, RequestTyped
  <2>s. inReq[r].seen <= inBreaker.last
    BY <1>b DEF SawItDue
  <2>1. CASE Resolve(r)
    <3>1. PICK v \in Nat : v = inVersion
      BY <1>t
    <3>2. PICK i : i = IntentGet(cacheKey(k, v))
      OBVIOUS
    <3>3. PICK head : head = resolveExplicitHeader(k, v)
      OBVIOUS
    <3>4. inCache \in Seq(CleanEntries) /\ Len(inCache) <= IntentCapacity
      BY <1>t DEF CacheClean
    <3>5. i # 0 => i \in 1 .. Len(inCache) /\ inCache[i].key = cacheKey(k, v)
      BY <3>2, <3>4, IntentGetFinds
    <3>6. i # 0 => DOMAIN inCache[i].answers = QuestionsOf(v)
      BY <3>4, <3>5 DEF CleanEntries, Said, cacheKey
    <3>7. \E s, a : /\ inReq' = [inReq EXCEPT ![r].st = s, ![r].version = v, ![r].answers = a]
                    /\ s \in {"end", "load"} /\ (s = "end" => DOMAIN a = QuestionsOf(v))
      <4>1. CASE /\ DOMAIN head = QuestionsOf(v)
                 /\ inReq' = [inReq EXCEPT ![r].st = "end", ![r].version = v, ![r].answers = head]
        BY <4>1
      <4>2. CASE inReq' = [inReq EXCEPT ![r].st = "end", ![r].version = v, ![r].answers = fillUnknown(head, v)]
        BY <4>2, <3>3, AnswerDomains
      <4>3. CASE i # 0 /\ inReq' = [inReq EXCEPT ![r].st = "end", ![r].version = v, ![r].answers = mergeAnswers(inCache[i].answers, head)]
        BY <4>3, <3>3, <3>6, AnswerDomains
      <4>4. CASE inReq' = [inReq EXCEPT ![r].st = "load", ![r].version = v]
        <5>1. inReq' = [inReq EXCEPT ![r].st = "load", ![r].version = v, ![r].answers = inReq[r].answers]
          BY <4>4, <2>q
        <5>2. "load" \in {"end", "load"} /\ "load" # "end"
          OBVIOUS
        <5> QED
          BY <5>1, <5>2, Zenon
      <4> QED
        BY <2>1, <2>k, <3>1, <3>2, <3>3, <4>1, <4>2, <4>3, <4>4 DEF Resolve
    <3>8. PICK s, a : /\ inReq' = [inReq EXCEPT ![r].st = s, ![r].version = v, ![r].answers = a]
                      /\ s \in {"end", "load"} /\ (s = "end" => DOMAIN a = QuestionsOf(v))
      BY <3>7
    <3>9. PICK q : q = [inReq[r] EXCEPT !.st = s, !.version = v, !.answers = a]
      OBVIOUS
    <3>10. inReq' = [inReq EXCEPT ![r] = q]
      BY <3>8, <3>9
    <3>11. q.st = s /\ q.seen = inReq[r].seen /\ RequestTyped(q)
      BY <3>8, <3>9, <2>q, <2>k DEF RequestTyped, IntentStates
    <3>12. /\ RequestsTyped' /\ inReq'[r] = q
           /\ \A p \in IntentReqs : p # r => inReq'[p] = inReq[p]
      BY <3>10, <3>11, <1>t, RequestsStep
    <3>13. inBreaker' = inBreaker /\ inProbe' = inProbe /\ inVersion' = inVersion
      BY <2>1 DEF Resolve
    <3>14. ProbesApart'
      BY <3>8, <3>11, <3>12, <3>13, <2>s, <1>b DEF ProbesApart, SawItDue
    <3>15. inCache' = inCache \/ (i # 0 /\ inCache' = MoveToFront(i))
      BY <2>1, <2>k, <3>1, <3>2 DEF Resolve
    <3>16. i # 0 => MoveToFront(i) \in Seq(CleanEntries) /\ Len(MoveToFront(i)) = Len(inCache)
      <4> SUFFICES ASSUME i # 0 PROVE MoveToFront(i) \in Seq(CleanEntries) /\ Len(MoveToFront(i)) = Len(inCache)
        OBVIOUS
      <4>1. inCache[i] \in CleanEntries
        BY <3>4, <3>5
      <4>2. RemoveAt(inCache, i) \in Seq(CleanEntries) /\ Len(RemoveAt(inCache, i)) = Len(inCache) - 1
        BY <3>4, <3>5, RemoveAtSeq
      <4>3. /\ <<inCache[i]>> \o RemoveAt(inCache, i) \in Seq(CleanEntries)
            /\ Len(<<inCache[i]>> \o RemoveAt(inCache, i)) = Len(RemoveAt(inCache, i)) + 1
        BY <4>1, <4>2, ConsSeq
      <4> QED
        BY <4>2, <4>3, <3>4 DEF MoveToFront
    <3>17. CacheClean'
      BY <3>4, <3>15, <3>16 DEF CacheClean
    <3> QED
      BY <3>12, <3>13, <3>14, <3>17, <1>t DEF IntentInv
  <2>2. CASE allowLoad(r)
    <3>1. PICK s : s = IF inBreaker.stamp = 0 THEN "call" ELSE IF inBreaker.age >= ProbeInterval THEN "swap" ELSE "refused"
      OBVIOUS
    <3>2. PICK q : q = [inReq[r] EXCEPT !.seen = inBreaker.stamp, !.st = s]
      OBVIOUS
    <3>3. /\ inReq' = [inReq EXCEPT ![r] = q]
          /\ inCache' = inCache /\ inVersion' = inVersion /\ inBreaker' = inBreaker /\ inProbe' = inProbe
      BY <2>2, <3>1, <3>2 DEF allowLoad
    <3>4. s \in {"call", "swap", "refused"} /\ inBreaker.stamp \in Nat
          /\ (s = "swap" => inBreaker.stamp # 0 /\ inBreaker.age >= ProbeInterval)
      BY <3>1, <1>b
    <3>5. q.st = s /\ q.seen = inBreaker.stamp /\ RequestTyped(q)
      BY <3>2, <3>4, <2>q, <2>k DEF RequestTyped, IntentStates
    <3>6. /\ RequestsTyped' /\ inReq'[r] = q
          /\ \A p \in IntentReqs : p # r => inReq'[p] = inReq[p]
      BY <3>3, <3>5, <1>t, RequestsStep
    <3>7. ProbesApart'
      BY <3>3, <3>4, <3>5, <3>6, <1>b DEF ProbesApart, SawItDue
    <3> QED
      BY <3>3, <3>6, <3>7, <1>t DEF IntentInv, CacheClean
  <2>3. CASE allowSwap(r)
    <3>1. PICK s : /\ s \in {"call", "refused"} /\ inReq' = [inReq EXCEPT ![r].st = s]
                   /\ \/ inBreaker' = Stamped(inBreaker) /\ inProbe' = 0
                      \/ inBreaker' = inBreaker /\ inProbe' = inProbe
      BY <2>3 DEF allowSwap
    <3>2. PICK q : q = [inReq[r] EXCEPT !.st = s]
      OBVIOUS
    <3>3. inReq' = [inReq EXCEPT ![r] = q]
      BY <3>1, <3>2
    <3>4. q.st = s /\ q.seen = inReq[r].seen /\ RequestTyped(q)
      BY <3>1, <3>2, <2>q, <2>k DEF RequestTyped, IntentStates
    <3>5. /\ RequestsTyped' /\ inReq'[r] = q
          /\ \A p \in IntentReqs : p # r => inReq'[p] = inReq[p]
      BY <3>3, <3>4, <1>t, RequestsStep
    <3>6. \A p \in IntentReqs : inReq'[p].seen <= inBreaker.last /\ inReq'[p].seen \in Nat
                                 /\ (inReq'[p].st = "swap" => SawItDue(inReq[p]) /\ inReq'[p] = inReq[p])
      BY <3>1, <3>4, <3>5, <2>q, <2>s, <1>b, <1>t DEF SawItDue, RequestsTyped, RequestTyped
    <3>7. ASSUME inBreaker' = Stamped(inBreaker), inProbe' = 0 PROVE ProbesApart'
      <4>1. /\ inBreaker'.stamp = inBreaker.last + 1 /\ inBreaker'.last = inBreaker.last + 1
            /\ inBreaker'.age = 0 /\ inBreaker' \in [stamp : Nat, last : Nat, age : Nat, fails : Nat]
        BY <3>7, <1>b, StampedFields
      <4>2. \A p \in IntentReqs : SawItDue(inReq[p])'
        BY <4>1, <3>6, <1>b DEF SawItDue
      <4>3. inBreaker'.stamp <= inBreaker'.last /\ inProbe' >= inBreaker'.age /\ inProbe' \in Nat
        BY <4>1, <3>7, <1>b
      <4> QED
        BY <4>1, <4>2, <4>3 DEF ProbesApart
    <3>8. ASSUME inBreaker' = inBreaker, inProbe' = inProbe PROVE ProbesApart'
      <4>1. \A p \in IntentReqs : SawItDue(inReq[p])'
        BY <3>6, <3>8 DEF SawItDue
      <4> QED
        BY <4>1, <3>8, <1>b DEF ProbesApart
    <3>9. ProbesApart'
      BY <3>1, <3>7, <3>8
    <3>10. inCache' = inCache /\ inVersion' = inVersion
      BY <2>3 DEF allowSwap
    <3> QED
      BY <3>5, <3>9, <3>10, <1>t DEF IntentInv, CacheClean
  <2>4. CASE ResolveRefused(r)
    <3>1. PICK a : /\ DOMAIN a = QuestionsOf(inReq[r].version)
                   /\ inReq' = [inReq EXCEPT ![r].st = "end", ![r].answers = a]
      BY <2>4, AnswerDomains DEF ResolveRefused, Ended
    <3>2. PICK q : q = [inReq[r] EXCEPT !.st = "end", !.answers = a]
      OBVIOUS
    <3>3. /\ inReq' = [inReq EXCEPT ![r] = q]
          /\ inCache' = inCache /\ inVersion' = inVersion /\ inBreaker' = inBreaker /\ inProbe' = inProbe
      BY <2>4, <3>1, <3>2 DEF ResolveRefused
    <3>5. q.st = "end" /\ q.seen = inReq[r].seen /\ RequestTyped(q)
      BY <3>1, <3>2, <2>q, <2>k DEF RequestTyped, IntentStates
    <3>6. /\ RequestsTyped' /\ inReq'[r] = q
          /\ \A p \in IntentReqs : p # r => inReq'[p] = inReq[p]
      BY <3>3, <3>5, <1>t, RequestsStep
    <3>7. ProbesApart'
      BY <3>3, <3>5, <3>6, <2>s, <1>b DEF ProbesApart, SawItDue
    <3> QED
      BY <3>3, <3>6, <3>7, <1>t DEF IntentInv, CacheClean
  <2>5. CASE Classify(r)
    <3>1. PICK v \in Nat : v = inReq[r].version
      BY <2>q
    <3>2. PICK a : DOMAIN a = QuestionsOf(v) /\ inReq' = [inReq EXCEPT ![r].st = "end", ![r].answers = a]
      <4>1. \A said \in parseDecisionAnswers(v) : DOMAIN fillUnknown(said, v) = QuestionsOf(v)
        BY AnswerDomains DEF Said
      <4>2. PICK head : head = resolveExplicitHeader(k, v)
        OBVIOUS
      <4>3. \/ \E said \in parseDecisionAnswers(v) : Ended(r, mergeAnswers(fillUnknown(said, v), head))
            \/ Ended(r, fillUnknown(head, v))
        BY <2>5, <3>1, <2>k, <4>2 DEF Classify
      <4>4. DOMAIN fillUnknown(head, v) = QuestionsOf(v)
        BY <4>2, AnswerDomains
      <4>5. \A said \in parseDecisionAnswers(v) : DOMAIN mergeAnswers(fillUnknown(said, v), head) = QuestionsOf(v)
        BY <4>1, <4>2, AnswerDomains
      <4> QED
        BY <4>3, <4>4, <4>5 DEF Ended
    <3>3. PICK q : q = [inReq[r] EXCEPT !.st = "end", !.answers = a]
      OBVIOUS
    <3>4. inReq' = [inReq EXCEPT ![r] = q]
      BY <3>2, <3>3
    <3>5. q.st = "end" /\ q.seen = inReq[r].seen /\ RequestTyped(q)
      BY <3>1, <3>2, <3>3, <2>q, <2>k DEF RequestTyped, IntentStates
    <3>6. /\ RequestsTyped' /\ inReq'[r] = q
          /\ \A p \in IntentReqs : p # r => inReq'[p] = inReq[p]
      BY <3>4, <3>5, <1>t, RequestsStep
    <3>7. \A p \in IntentReqs : inReq'[p].seen <= inBreaker.last /\ inReq'[p].seen \in Nat
                                 /\ (inReq'[p].st = "swap" => SawItDue(inReq[p]) /\ inReq'[p] = inReq[p])
      BY <3>5, <3>6, <2>q, <2>s, <1>b, <1>t DEF SawItDue, RequestsTyped, RequestTyped
    <3>8. inProbe' = inProbe /\ inVersion' = inVersion
      BY <2>5 DEF Classify
    <3>9. record(TRUE) \/ record(FALSE)
      BY <2>5 DEF Classify
    <3>10. /\ inBreaker' \in [stamp : Nat, last : Nat, age : Nat, fails : Nat]
           /\ \/ inBreaker'.stamp = 0 /\ inBreaker'.last = inBreaker.last
              \/ /\ inBreaker'.stamp = inBreaker.last + 1 /\ inBreaker'.last = inBreaker.last + 1
                 /\ inBreaker'.age = 0
              \/ /\ inBreaker'.stamp = inBreaker.stamp /\ inBreaker'.last = inBreaker.last
                 /\ inBreaker'.age = inBreaker.age
      <4>1. /\ inBreaker.fails + 1 \in Nat /\ IntentFails \in Nat
            /\ inBreaker = [stamp |-> inBreaker.stamp, last |-> inBreaker.last,
                            age |-> inBreaker.age, fails |-> inBreaker.fails]
        BY <1>b, CachesAssumption
      <4>2. CASE inBreaker' = [inBreaker EXCEPT !.stamp = 0, !.age = 0, !.fails = 0]
        BY <4>2, <1>b
      <4>3. CASE inBreaker' = [Stamped(inBreaker) EXCEPT !.fails = IntentFails]
        <5>1. PICK b : b = Stamped(inBreaker)
          OBVIOUS
        <5>2. /\ b.stamp = inBreaker.last + 1 /\ b.last = inBreaker.last + 1
              /\ b.age = 0 /\ b \in [stamp : Nat, last : Nat, age : Nat, fails : Nat]
          BY <5>1, <1>b, StampedFields
        <5> QED
          BY <4>1, <4>3, <5>1, <5>2
      <4>4. CASE inBreaker' = [inBreaker EXCEPT !.fails = inBreaker.fails + 1]
        BY <4>4, <4>1, <1>b
      <4> QED
        BY <3>9, <4>2, <4>3, <4>4 DEF record
    <3>11. \A p \in IntentReqs : SawItDue(inReq[p])'
      BY <3>7, <3>10, <1>b DEF SawItDue
    <3>12. ProbesApart'
      BY <3>8, <3>10, <3>11, <1>b DEF ProbesApart
    <3>13. CacheClean'
      <4>1. inCache' = inCache \/ \E said \in parseDecisionAnswers(v) :
                inCache' = IntentSet(cacheKey(k, v), fillUnknown(said, v))
        BY <2>5, <3>1, <2>k DEF Classify, KeepAnswers
      <4>2. ASSUME NEW said \in parseDecisionAnswers(v), inCache' = IntentSet(cacheKey(k, v), fillUnknown(said, v))
            PROVE  CacheClean'
        <5>1. fillUnknown(said, v) \in Said(v)
          BY AnswerDomains
        <5>2. [key |-> cacheKey(k, v), answers |-> fillUnknown(said, v)] \in CleanEntries
          BY <5>1, <3>1, <2>q DEF cacheKey, CleanEntries
        <5> QED
          BY <5>2, <4>2, <1>t, IntentSetClean DEF CacheClean
      <4> QED
        BY <4>1, <4>2, <1>t DEF CacheClean
    <3> QED
      BY <3>6, <3>8, <3>12, <3>13, <1>t DEF IntentInv
  <2> QED
    BY <1>5, <2>1, <2>2, <2>3, <2>4, <2>5
<1> QED
  BY <1>1, <1>2, <1>3, <1>4, <1>5 DEF IntentNext

LEMMA OneProbeStep ==
    ASSUME IntentInv, [IntentNext]_intentVars, NEW r \in IntentReqs,
           inReq[r].st = "swap", inReq'[r].st = "call"
    PROVE  inProbe >= ProbeInterval
<1>t. RequestsTyped /\ ProbesApart
  BY DEF IntentInv
<1>b. /\ inBreaker \in [stamp : Nat, last : Nat, age : Nat, fails : Nat] /\ inProbe \in Nat
      /\ inBreaker.stamp # 0 => inProbe >= inBreaker.age
      /\ SawItDue(inReq[r])
  BY <1>t DEF ProbesApart
<1>q. /\ DOMAIN inReq = IntentReqs
      /\ \A p \in IntentReqs : DOMAIN inReq[p] = {"kind", "st", "version", "seen", "answers"}
  BY <1>t DEF RequestsTyped, RequestTyped
<1>1. inReq' # inReq
  OBVIOUS
<1>2. PICK p \in IntentReqs : Resolve(p) \/ allowLoad(p) \/ allowSwap(p) \/ ResolveRefused(p) \/ Classify(p)
  BY <1>1 DEF IntentNext, intentVars, LoadQuestions, IntentExpire, IntentTick
<1>3. CASE allowSwap(p) /\ p = r
  <2>1. inBreaker.stamp = inReq[r].seen
    BY <1>3, <1>q DEF allowSwap
  <2> QED
    BY <2>1, <1>b, CachesAssumption DEF SawItDue
<1>4. CASE p # r
  <2>1. inReq'[r] = inReq[r]
    BY <1>2, <1>4, <1>q DEF Resolve, allowLoad, allowSwap, ResolveRefused, Classify, Ended
  <2> QED
    BY <2>1
<1>5. CASE p = r /\ ~allowSwap(p)
  <2>1. inReq[r].st # "swap"
    BY <1>2, <1>5 DEF Resolve, allowLoad, ResolveRefused, Classify
  <2> QED
    BY <2>1
<1> QED
  BY <1>3, <1>4, <1>5

\* An answer of mod_ai_cache goes only to the tenant and question it was given
\* for; cached intents are of the questions they were asked with; the breaker of
\* mod_ai_intent lets one probe out per interval (writeBack, Lookup, Resolve,
\* intentBreaker.allow).
THEOREM CachesAreSound == CacheSpec /\ IntentSpec => CachesSound
<1>1. CacheSpec => []CacheInv
  BY CacheInitInv, CacheStep, PTL DEF CacheSpec
<1>2. CacheInv => CacheOwned
  BY DEF CacheInv
<1>3. IntentSpec => []IntentInv
  BY IntentInitInv, IntentStep, PTL DEF IntentSpec
<1>4. IntentInv => IntentClean
  <2> SUFFICES ASSUME IntentInv PROVE IntentClean
    OBVIOUS
  <2>1. inCache \in Seq(CleanEntries) /\ Len(inCache) <= IntentCapacity
    BY DEF IntentInv, CacheClean
  <2>2. \A i \in DOMAIN inCache : inCache[i].answers \in Said(inCache[i].key.version)
    BY <2>1 DEF CleanEntries
  <2>3. \A i \in DOMAIN inCache : \A q \in DOMAIN inCache[i].answers : inCache[i].answers[q] \in {"model", "unknown"}
    BY <2>2 DEF Said
  <2>4. \A i \in DOMAIN inCache : DOMAIN inCache[i].answers = QuestionsOf(inCache[i].key.version)
    BY <2>2 DEF Said
  <2>5. \A r \in IntentReqs : inReq[r].st = "end" => DOMAIN inReq[r].answers = QuestionsOf(inReq[r].version)
    BY DEF IntentInv, RequestsTyped, RequestTyped
  <2> QED
    BY <2>1, <2>3, <2>4, <2>5 DEF IntentClean
<1>5. IntentInv /\ [IntentNext]_intentVars
         => [\A r \in IntentReqs :
               inReq[r].st = "swap" /\ inReq'[r].st = "call" => inProbe >= ProbeInterval]_intentVars
  BY OneProbeStep
<1>6. IntentSpec => OneProbe
  BY <1>3, <1>5, PTL DEF IntentSpec, OneProbe
<1> QED
  BY <1>1, <1>2, <1>3, <1>4, <1>6, PTL DEF CachesSound

-----------------------------------------------------------------------------
(* mod_traffic_mirror.                                                     *)

MirrorReqTyped ==
    /\ DOMAIN mReq = MReqs
    /\ \A r \in MReqs : /\ DOMAIN mReq[r] = {"body", "left", "mirrored", "copies"}
                         /\ mReq[r].left \in Int /\ mReq[r].copies \in 0 .. 1
MirrorWorkersTyped ==
    /\ DOMAIN mWorker = MWorkers
    /\ \A w \in MWorkers :
          /\ DOMAIN mWorker[w] = {"st", "task"}
          /\ mWorker[w].st = "idle" => mWorker[w] = Idle
\* Who holds a copy of which request.
QueuedReq(i) == mQueue[i].req
HeldReq(w) == mWorker[w].task.req
\* A request without a mark has no copy; every copy is of a request with one.
CopiesMarked ==
    /\ \A r \in MReqs : ~mReq[r].mirrored => mReq[r].copies = 0
    /\ \A i \in 1 .. Len(mQueue) : QueuedReq(i) \in MReqs /\ mReq[QueuedReq(i)].mirrored
    /\ \A w \in MWorkers : HeldReq(w) = "none" \/ (HeldReq(w) \in MReqs /\ mReq[HeldReq(w)].mirrored)
CopiesApart ==
    /\ \A i, j \in 1 .. Len(mQueue) : QueuedReq(i) = QueuedReq(j) => i = j
    /\ \A v, w \in MWorkers : HeldReq(v) = HeldReq(w) /\ HeldReq(v) # "none" => v = w
    /\ \A i \in 1 .. Len(mQueue), w \in MWorkers : QueuedReq(i) # HeldReq(w)
QueueTyped == \E T : mQueue \in Seq(T)
CopiesInv == MirrorReqTyped /\ MirrorWorkersTyped /\ QueueTyped /\ CopiesMarked /\ CopiesApart

\* The breaker's count is that of the failures in a row, and it is as old as the
\* last of them once it is open.
BreakerFollows ==
    /\ mBreaker \in [fails : 0 .. FailThreshold, open : BOOLEAN, age : Nat]
    /\ mSeen \in [streak : 0 .. FailThreshold, age : Nat]
    /\ mBreaker.fails = mSeen.streak
    /\ mBreaker.open <=> mBreaker.fails >= FailThreshold
    /\ mBreaker.open => mBreaker.age = mSeen.age

LEMMA MirrorInitInv == MirrorInit => CopiesInv /\ BreakerFollows
<1> SUFFICES ASSUME MirrorInit PROVE CopiesInv /\ BreakerFollows
  OBVIOUS
<1>1. MirrorReqTyped
  <2>1. PICK body \in [MReqs -> MirrorBodies] :
          mReq = [r \in MReqs |-> [body |-> body[r], left |-> MAttempts[r], mirrored |-> FALSE, copies |-> 0]]
    BY DEF MirrorInit
  <2>2. \A r \in MReqs : MAttempts[r] \in Int /\ body[r] \in MirrorBodies
    BY MirrorAssumption
  <2> QED
    BY <2>1, <2>2 DEF MirrorReqTyped
<1>2. MirrorWorkersTyped
  BY DEF MirrorInit, MirrorWorkersTyped, Idle
<1>3. mQueue = <<>> /\ Len(mQueue) = 0
  BY DEF MirrorInit
<1>4. QueueTyped
  <2>1. mQueue \in Seq({})
    BY <1>3
  <2> QED
    BY <2>1 DEF QueueTyped
<1>5. /\ \A r \in MReqs : mReq[r].copies = 0
      /\ \A w \in MWorkers : HeldReq(w) = "none"
  BY DEF MirrorInit, HeldReq, Idle
<1>6. CopiesMarked /\ CopiesApart
  BY <1>3, <1>5 DEF CopiesMarked, CopiesApart
<1>7. BreakerFollows
  BY MirrorAssumption DEF MirrorInit, BreakerFollows
<1> QED
  BY <1>1, <1>2, <1>4, <1>6, <1>7 DEF CopiesInv

\* A request that went by without a copy.
Passed(x, q) ==
    /\ DOMAIN x = {"body", "left", "mirrored", "copies"} /\ x.left \in Int
    /\ x.mirrored <=> q.mirrored
    /\ x.copies = q.copies

\* What the handler does to a request and the queue.
LEMMA HandlerEffect ==
    ASSUME NEW r \in MReqs, mirrorHandler(r), MirrorReqTyped
    PROVE  \/ /\ ~mReq[r].mirrored
              /\ mReq' = [mReq EXCEPT ![r] = [mReq[r] EXCEPT !.left = mReq[r].left - 1, !.mirrored = TRUE, !.copies = mReq[r].copies + 1]]
              /\ \E m : mQueue' = IF Len(mQueue) < QueueCapacity THEN Append(mQueue, [req |-> r, model |-> m]) ELSE mQueue
              /\ mWorker' = mWorker
           \/ \E x : /\ mReq' = [mReq EXCEPT ![r] = x] /\ Passed(x, mReq[r])
                     /\ mQueue' = mQueue /\ mWorker' = mWorker
<1> DEFINE rule == MirrorMatch(mTable, mReq[r].body)
           Marked == [mReq[r] EXCEPT !.left = mReq[r].left - 1, !.mirrored = TRUE, !.copies = mReq[r].copies + 1]
<1>0. DOMAIN mReq[r] = {"body", "left", "mirrored", "copies"} /\ mReq[r].left \in Int /\ mReq[r].copies \in 0 .. 1
  BY DEF MirrorReqTyped
<1>1. CASE rule = <<>> \/ mReq[r].mirrored
  <2>1. PICK x : x = [mReq[r] EXCEPT !.left = mReq[r].left - 1]
    OBVIOUS
  <2>2. mReq' = [mReq EXCEPT ![r] = x] /\ mQueue' = mQueue /\ mWorker' = mWorker
    BY <1>1, <2>1 DEF mirrorHandler
  <2>3. Passed(x, mReq[r])
    BY <1>0, <2>1 DEF Passed
  <2> QED
    BY <2>2, <2>3
<1>2. CASE rule # <<>> /\ ~mReq[r].mirrored
  <2>a. PICK hit \in sampleHit(rule[1].percentage) :
          LET task == IF hit THEN buildMirrorTask(r, rule[1]) ELSE <<>>
          IN  /\ mReq' = [mReq EXCEPT ![r].left = @ - 1, ![r].mirrored = task # <<>>,
                                      ![r].copies = IF task # <<>> THEN @ + 1 ELSE @]
              /\ IF task # <<>> THEN Submit(task[1]) ELSE UNCHANGED <<mQueue, mWorker>>
    BY <1>2 DEF mirrorHandler
  <2>b. PICK task : task = IF hit THEN buildMirrorTask(r, rule[1]) ELSE <<>>
    OBVIOUS
  <2>1. /\ mReq' = [mReq EXCEPT ![r].left = @ - 1, ![r].mirrored = task # <<>>,
                                ![r].copies = IF task # <<>> THEN @ + 1 ELSE @]
        /\ IF task # <<>> THEN Submit(task[1]) ELSE UNCHANGED <<mQueue, mWorker>>
    BY <2>a, <2>b
  <2>2. task = <<>> \/ \E m : task = <<[req |-> r, model |-> m]>>
    BY <2>b DEF buildMirrorTask
  <2>3. CASE task = <<>>
    <3>1. PICK x : x = [mReq[r] EXCEPT !.left = mReq[r].left - 1, !.mirrored = FALSE, !.copies = mReq[r].copies]
      OBVIOUS
    <3>2. mReq' = [mReq EXCEPT ![r] = x]
      BY <2>1, <2>3, <3>1
    <3>3. Passed(x, mReq[r])
      BY <3>1, <1>0, <1>2 DEF Passed
    <3> QED
      BY <2>1, <2>3, <3>2, <3>3
  <2>4. ASSUME NEW m, task = <<[req |-> r, model |-> m]>>
        PROVE  /\ mReq' = [mReq EXCEPT ![r] = Marked]
               /\ mQueue' = IF Len(mQueue) < QueueCapacity THEN Append(mQueue, [req |-> r, model |-> m]) ELSE mQueue
               /\ mWorker' = mWorker
    <3>1. task # <<>> /\ task[1] = [req |-> r, model |-> m]
      BY <2>4
    <3> QED
      BY <2>1, <3>1 DEF Submit
  <2> QED
    BY <1>2, <2>2, <2>3, <2>4
<1> QED
  BY <1>1, <1>2

LEMMA CopiesStep == CopiesInv /\ [MirrorNext]_mirrorVars => CopiesInv'
<1> SUFFICES ASSUME CopiesInv, [MirrorNext]_mirrorVars PROVE CopiesInv'
  OBVIOUS
<1>t. MirrorReqTyped /\ MirrorWorkersTyped /\ QueueTyped /\ CopiesMarked /\ CopiesApart
  BY DEF CopiesInv
<1>1. CASE mReq' = mReq /\ mQueue' = mQueue /\ mWorker' = mWorker
  BY <1>1, <1>t DEF CopiesInv, MirrorReqTyped, MirrorWorkersTyped, QueueTyped, CopiesMarked,
                    CopiesApart, QueuedReq, HeldReq
<1>2. ASSUME NEW r \in MReqs, mirrorHandler(r) PROVE CopiesInv'
  <2>w. mWorker' = mWorker
    BY <1>2, <1>t, HandlerEffect
  <2>0. DOMAIN mReq[r] = {"body", "left", "mirrored", "copies"} /\ mReq[r].left \in Int /\ mReq[r].copies \in 0 .. 1
    BY <1>t DEF MirrorReqTyped
  <2>1. ASSUME NEW x, mReq' = [mReq EXCEPT ![r] = x], Passed(x, mReq[r]), mQueue' = mQueue
        PROVE  CopiesInv'
    <3>1. /\ MirrorReqTyped'
          /\ \A q \in MReqs : (mReq'[q].mirrored <=> mReq[q].mirrored) /\ mReq'[q].copies = mReq[q].copies
      BY <2>0, <2>1, <1>t DEF MirrorReqTyped, Passed
    <3> QED
      BY <3>1, <2>1, <2>w, <1>t DEF CopiesInv, MirrorWorkersTyped, QueueTyped, CopiesMarked,
                                CopiesApart, QueuedReq, HeldReq
  <2>2. CASE /\ ~mReq[r].mirrored
             /\ mReq' = [mReq EXCEPT ![r] = [mReq[r] EXCEPT !.left = mReq[r].left - 1, !.mirrored = TRUE, !.copies = mReq[r].copies + 1]]
             /\ \E m : mQueue' = IF Len(mQueue) < QueueCapacity THEN Append(mQueue, [req |-> r, model |-> m]) ELSE mQueue
    <3>0. mReq[r].copies = 0
      BY <2>2, <1>t DEF CopiesMarked
    <3>1. /\ MirrorReqTyped'
          /\ mReq'[r].mirrored
          /\ \A q \in MReqs \ {r} : mReq'[q] = mReq[q]
      <4>1. mReq[r].copies + 1 = 1 /\ mReq[r].left - 1 \in Int
        BY <2>0, <3>0
      <4>2. PICK l \in Int : l = mReq[r].left - 1
        BY <4>1
      <4>3. mReq' = [mReq EXCEPT ![r] = [mReq[r] EXCEPT !.left = l, !.mirrored = TRUE, !.copies = 1]]
        BY <4>1, <4>2, <2>2
      <4>4. PICK x : x = [mReq[r] EXCEPT !.left = l, !.mirrored = TRUE, !.copies = 1]
        OBVIOUS
      <4>5. x.mirrored = TRUE /\ x.left = l /\ x.copies = 1 /\ x.body = mReq[r].body
        BY <2>0, <4>4
      <4>6. DOMAIN x = {"body", "left", "mirrored", "copies"}
        BY <2>0, <4>4
      <4>7. mReq' = [mReq EXCEPT ![r] = x]
        BY <4>3, <4>4
      <4> QED
        BY <4>5, <4>6, <4>7, <1>t DEF MirrorReqTyped
    <3>2. PICK T : mQueue \in Seq(T)
      BY <1>t DEF QueueTyped
    <3>3. MirrorWorkersTyped'
      BY <2>w, <1>t DEF MirrorWorkersTyped
    <3>4. CASE mQueue' = mQueue
      BY <3>1, <3>3, <3>4, <2>w, <1>t DEF CopiesInv, QueueTyped, CopiesMarked, CopiesApart, QueuedReq, HeldReq
    <3>5. ASSUME NEW m, mQueue' = Append(mQueue, [req |-> r, model |-> m]) PROVE CopiesInv'
      <4>0. [req |-> r, model |-> m].req = r
        OBVIOUS
      <4>1. PICK e : e = [req |-> r, model |-> m] /\ e.req = r
        BY <4>0
      <4>2. mQueue \in Seq(T \cup {e}) /\ e \in T \cup {e}
        BY <3>2
      <4>3. /\ mQueue' \in Seq(T \cup {e}) /\ Len(mQueue') = Len(mQueue) + 1
            /\ mQueue'[Len(mQueue) + 1] = e
            /\ \A i \in 1 .. Len(mQueue) : mQueue'[i] = mQueue[i]
        BY <3>5, <4>1, <4>2
      <4>4. QueueTyped'
        BY <4>3 DEF QueueTyped
      <4>5. Len(mQueue) \in Nat /\ \A i \in 1 .. Len(mQueue') : i \in 1 .. Len(mQueue) \/ i = Len(mQueue) + 1
        BY <3>2, <4>3
      <4>6. \A i \in 1 .. Len(mQueue') : QueuedReq(i)' = IF i \in 1 .. Len(mQueue) THEN QueuedReq(i) ELSE r
        BY <4>1, <4>3, <4>5 DEF QueuedReq
      <4>7. \A w \in MWorkers : HeldReq(w)' = HeldReq(w)
        BY <2>w DEF HeldReq
      <4>8. /\ \A i \in 1 .. Len(mQueue) : QueuedReq(i) # r
            /\ \A w \in MWorkers : HeldReq(w) # r
        BY <2>2, <1>t, MirrorAssumption DEF CopiesMarked
      <4>9. CopiesMarked'
        BY <4>5, <4>6, <4>7, <3>1, <1>t DEF CopiesMarked
      <4>10. CopiesApart'
        BY <4>5, <4>6, <4>7, <4>8, <1>t DEF CopiesApart
      <4> QED
        BY <3>1, <3>3, <4>4, <4>9, <4>10 DEF CopiesInv
    <3> QED
      BY <2>2, <3>4, <3>5
  <2> QED
    BY <1>2, <1>t, <2>1, <2>2, HandlerEffect
<1>3. ASSUME NEW w \in MWorkers, Take(w) PROVE CopiesInv'
  <2>1. /\ mWorker[w].st = "idle" /\ mQueue # <<>>
        /\ mWorker' = [mWorker EXCEPT ![w] = [st |-> "exec", task |-> Head(mQueue)]]
        /\ mQueue' = Tail(mQueue) /\ mReq' = mReq
    BY <1>3 DEF Take
  <2>2. PICK T : mQueue \in Seq(T)
    BY <1>t DEF QueueTyped
  <2>3. /\ mQueue' \in Seq(T) /\ Len(mQueue) \in Nat /\ Len(mQueue') \in Nat
        /\ Len(mQueue) = Len(mQueue') + 1
        /\ \A i \in 1 .. Len(mQueue') : mQueue'[i] = mQueue[i + 1]
        /\ Head(mQueue) = mQueue[1]
    BY <2>1, <2>2
  <2>4. QueueTyped' /\ MirrorReqTyped'
    BY <2>1, <2>3, <1>t DEF QueueTyped, MirrorReqTyped
  <2>5. MirrorWorkersTyped'
    BY <2>1, <1>t DEF MirrorWorkersTyped
  <2>6. \A v \in MWorkers : HeldReq(v)' = IF v = w THEN QueuedReq(1) ELSE HeldReq(v)
    BY <2>1, <2>3, <1>t DEF HeldReq, QueuedReq, MirrorWorkersTyped
  <2>7. \A i \in 1 .. Len(mQueue') : /\ i + 1 \in 1 .. Len(mQueue) /\ i + 1 # 1
                                      /\ QueuedReq(i)' = QueuedReq(i + 1)
    BY <2>3 DEF QueuedReq
  <2>8. 1 \in 1 .. Len(mQueue)
    BY <2>3
  <2>9. CopiesMarked'
    BY <2>1, <2>6, <2>7, <2>8, <1>t DEF CopiesMarked
  <2>10. CopiesApart'
    <3>1. \A i, j \in 1 .. Len(mQueue') : i \in Int /\ j \in Int /\ (i + 1 = j + 1 => i = j)
      OBVIOUS
    <3> QED
      BY <2>6, <2>7, <2>8, <3>1, <1>t DEF CopiesApart
  <2> QED
    BY <2>4, <2>5, <2>9, <2>10 DEF CopiesInv
<1>4. ASSUME NEW w \in MWorkers, execStart(w) \/ sendEnds(w) \/ drainEnds(w) PROVE CopiesInv'
  <2>1. /\ mReq' = mReq /\ mQueue' = mQueue
        /\ \/ mWorker' = [mWorker EXCEPT ![w] = Idle]
           \/ mWorker' = [mWorker EXCEPT ![w].st = "send"]
           \/ mWorker' = [mWorker EXCEPT ![w].st = "drain"]
    BY <1>4 DEF execStart, sendEnds, drainEnds
  <2>2. MirrorWorkersTyped'
    BY <2>1, <1>t DEF MirrorWorkersTyped, Idle
  <2>3. \A v \in MWorkers : HeldReq(v)' = HeldReq(v) \/ HeldReq(v)' = "none"
    BY <2>1, <1>t DEF HeldReq, MirrorWorkersTyped, Idle
  <2>4. \A i \in 1 .. Len(mQueue) : QueuedReq(i)' = QueuedReq(i)
    BY <2>1 DEF QueuedReq
  <2>5. CopiesMarked' /\ QueueTyped' /\ MirrorReqTyped'
    BY <2>1, <2>3, <2>4, <1>t DEF CopiesMarked, QueueTyped, MirrorReqTyped
  <2>6. CopiesApart'
    <3>1. \A i \in 1 .. Len(mQueue) : QueuedReq(i) # "none"
      BY <1>t, MirrorAssumption DEF CopiesMarked
    <3> QED
      BY <2>1, <2>3, <2>4, <3>1, <1>t DEF CopiesApart
  <2> QED
    BY <2>2, <2>5, <2>6 DEF CopiesInv
<1> QED
  BY <1>1, <1>2, <1>3, <1>4 DEF MirrorNext, mirrorVars, loadMirrorRuleTable, MirrorTick

LEMMA BreakerStep == BreakerFollows /\ [MirrorNext]_mirrorVars => BreakerFollows'
<1> SUFFICES ASSUME BreakerFollows, [MirrorNext]_mirrorVars PROVE BreakerFollows'
  OBVIOUS
<1>a. FailThreshold \in Nat \ {0} /\ Cooldown \in Nat
  BY MirrorAssumption
<1>b. /\ mBreaker \in [fails : 0 .. FailThreshold, open : BOOLEAN, age : Nat]
      /\ mSeen \in [streak : 0 .. FailThreshold, age : Nat]
      /\ mBreaker.fails = mSeen.streak
      /\ mBreaker.open <=> mBreaker.fails >= FailThreshold
      /\ mBreaker.open => mBreaker.age = mSeen.age
  BY DEF BreakerFollows
<1>1. CASE mBreaker' = mBreaker /\ mSeen' = mSeen
  BY <1>1 DEF BreakerFollows
<1>2. CASE OnSuccess /\ Answered
  BY <1>2, <1>a DEF OnSuccess, Answered, BreakerFollows
<1>3. CASE OnFail /\ Failed
  <2>1. PICK n \in Nat : n = mBreaker.fails + 1
    BY <1>b
  <2>2. CASE n >= FailThreshold
    <3>1. mBreaker' = [fails |-> FailThreshold, open |-> TRUE, age |-> 0]
      BY <1>3, <2>1, <2>2 DEF OnFail
    <3>2. mSeen' = [streak |-> FailThreshold, age |-> 0]
      BY <1>3, <2>1, <2>2, <1>b, <1>a DEF Failed
    <3> QED
      BY <3>1, <3>2, <1>a DEF BreakerFollows
  <2>3. CASE ~(n >= FailThreshold)
    <3>1. mBreaker' = [fails |-> n, open |-> mBreaker.open, age |-> mBreaker.age] /\ ~mBreaker.open
      BY <1>3, <2>1, <2>3, <1>b, <1>a DEF OnFail
    <3>2. mSeen' = [streak |-> n, age |-> 0]
      BY <1>3, <2>1, <2>3, <1>b, <1>a DEF Failed
    <3> QED
      BY <3>1, <3>2, <2>3, <1>b, <1>a DEF BreakerFollows
  <2> QED
    BY <2>2, <2>3
<1>4. CASE MirrorTick
  <2>1. CASE mBreaker.open
    <3>1. mBreaker' = [mBreaker EXCEPT !.age = mBreaker.age + 1] /\ mSeen' = [mSeen EXCEPT !.age = mSeen.age + 1]
      BY <1>4, <2>1, <1>a, <1>b DEF MirrorTick
    <3> QED
      BY <3>1, <2>1, <1>b DEF BreakerFollows
  <2>2. CASE ~mBreaker.open
    <3>1. mBreaker' = mBreaker /\ mSeen' \in [streak : 0 .. FailThreshold, age : Nat] /\ mSeen'.streak = mSeen.streak
      BY <1>4, <2>2, <1>a, <1>b DEF MirrorTick
    <3> QED
      BY <3>1, <2>2, <1>b DEF BreakerFollows
  <2> QED
    BY <2>1, <2>2
<1> QED
  BY <1>1, <1>2, <1>3, <1>4 DEF MirrorNext, mirrorVars, loadMirrorRuleTable, mirrorHandler,
                               Take, execStart, sendEnds, drainEnds

LEMMA ShieldStep ==
    ASSUME CopiesInv, BreakerFollows, [MirrorNext]_mirrorVars, NEW w \in MWorkers,
           mWorker[w].st = "exec", mWorker'[w].st = "send"
    PROVE  mSeen.streak < FailThreshold \/ mSeen.age >= Cooldown
<1>t. MirrorWorkersTyped
  BY DEF CopiesInv
<1>1. mWorker' # mWorker
  OBVIOUS
<1>2. \A r \in MReqs : ~mirrorHandler(r)
  BY <1>1, HandlerEffect DEF CopiesInv
<1>3. PICK v \in MWorkers : Take(v) \/ execStart(v) \/ sendEnds(v) \/ drainEnds(v)
  BY <1>1, <1>2 DEF MirrorNext, mirrorVars, loadMirrorRuleTable, MirrorTick
<1>4. v = w
  BY <1>3, <1>t DEF Take, execStart, sendEnds, drainEnds, MirrorWorkersTyped
<1>5. ~Open
  BY <1>3, <1>4, <1>t DEF Take, execStart, sendEnds, drainEnds, MirrorWorkersTyped, Idle
<1> QED
  BY <1>5, MirrorAssumption DEF Open, BreakerFollows

\* A set whose members are all the same has at most one.
LEMMA AtMostOne ==
    ASSUME NEW S, \A x, y \in S : x = y
    PROVE  Cardinality(S) \in 0 .. 1 /\ (S = {} => Cardinality(S) = 0)
<1>1. CASE S = {}
  BY <1>1, FS_EmptySet
<1>2. CASE S # {}
  <2>1. PICK x : S = {x}
    BY <1>2
  <2>2. Cardinality({x}) = 1
    BY FS_Singleton
  <2> QED
    BY <2>1, <2>2
<1> QED
  BY <1>1, <1>2

LEMMA CopiesOnce == CopiesInv => MirroredOnce
<1> SUFFICES ASSUME CopiesInv, NEW r \in MReqs
             PROVE  /\ mReq[r].copies <= 1
                    /\ Cardinality({i \in DOMAIN mQueue : mQueue[i].req = r})
                       + Cardinality({w \in MWorkers : mWorker[w].task.req = r}) <= 1
  BY DEF MirroredOnce
<1>1. mReq[r].copies <= 1
  BY DEF CopiesInv, MirrorReqTyped
<1>2. DOMAIN mQueue = 1 .. Len(mQueue)
  BY DEF CopiesInv, QueueTyped
<1> DEFINE Q == {i \in DOMAIN mQueue : mQueue[i].req = r}
           W == {w \in MWorkers : mWorker[w].task.req = r}
<1>3. /\ \A x, y \in Q : x = y
      /\ \A x, y \in W : x = y
      /\ Q = {} \/ W = {}
  BY <1>2, MirrorAssumption DEF CopiesInv, CopiesApart, QueuedReq, HeldReq
<1> HIDE DEF Q, W
<1>4. /\ Cardinality(Q) \in 0 .. 1 /\ (Q = {} => Cardinality(Q) = 0)
      /\ Cardinality(W) \in 0 .. 1 /\ (W = {} => Cardinality(W) = 0)
  BY <1>3, AtMostOne
<1>5. Cardinality(Q) + Cardinality(W) <= 1
  BY <1>3, <1>4
<1> QED
  BY <1>1, <1>5 DEF Q, W

\* However often a request is forwarded, one copy of it at most is built and on
\* its way; and no send starts at a failing cluster before a whole cooldown has
\* passed since its last failure (mirrorHandler, mirrorCircuitBreaker).
THEOREM MirrorIsSound == MirrorSpec => MirrorSound
<1>1. MirrorSpec => []CopiesInv /\ []BreakerFollows
  BY MirrorInitInv, CopiesStep, BreakerStep, PTL DEF MirrorSpec
<1>2. CopiesInv => MirroredOnce
  BY CopiesOnce
<1>3. CopiesInv /\ BreakerFollows /\ [MirrorNext]_mirrorVars
         => [\A w \in MWorkers :
               mWorker[w].st = "exec" /\ mWorker'[w].st = "send"
                  => mSeen.streak < FailThreshold \/ mSeen.age >= Cooldown]_mirrorVars
  BY ShieldStep
<1>4. MirrorSpec => BreakerShields
  BY <1>1, <1>3, PTL DEF MirrorSpec, BreakerShields
<1> QED
  BY <1>1, <1>2, <1>4, PTL DEF MirrorSound

-----------------------------------------------------------------------------
(* mod_session_sticky.                                                     *)

Masks == {f.mask : f \in StickyFiles} \cup {DefaultMask}
RuleTyped(r) == r.mask \in Masks /\ r.maxAge \in Int /\ r.window \in Int
\* A cookie is due for renewal a window before it ends.
CookieTyped(k) == k = NoValue \/ (k \in Cookies /\ (k.renew # NoValue => k.renew \in Int /\ k.expires = k.renew + k.window))
StickyReqTyped(r) ==
    /\ DOMAIN r = {"st", "rule", "sent", "bk", "to"}
    /\ RuleTyped(r.rule)
    /\ r.st = "sent" => r.to \in StickyBackends
    /\ r.st \in {"decoded", "sent"} /\ r.rule.type = "Cookie" => r.bk \in {NoValue, r.sent}
StickyInv ==
    /\ RuleTyped(ssRule) /\ ssNow \in Nat /\ ssUp \subseteq StickyBackends
    /\ DOMAIN ssCookie = StickyClients /\ \A c \in StickyClients : CookieTyped(ssCookie[c])
    /\ DOMAIN ssReq = StickyClients /\ \A c \in StickyClients : StickyReqTyped(ssReq[c])

LEMMA ConvertTyped ==
    ASSUME NEW f \in StickyFiles
    PROVE  RuleTyped(StickyConvert(f))
<1>1. PICK age \in Int : age = OrDefault(f.maxAge, DefaultAge)
  BY StickyAssumption DEF OrDefault
<1>2. (IF f.renew = NoValue THEN age \div 2 ELSE f.renew) \in Int
  BY StickyAssumption
<1>3. OrDefault(f.mask, DefaultMask) \in Masks
  BY DEF OrDefault, Masks
<1> QED
  BY <1>1, <1>2, <1>3 DEF StickyConvert, RuleTyped

LEMMA NewCookieTyped ==
    ASSUME NEW r, RuleTyped(r.rule), r.to \in StickyBackends, ssNow \in Nat
    PROVE  /\ CookieTyped(NewCookie(r)) /\ NewCookie(r) # NoValue
           /\ NewCookie(r).renew # NoValue =>
                 /\ NewCookie(r).window = r.rule.window /\ NewCookie(r).age = r.rule.maxAge
                 /\ NewCookie(r).expires - ssNow = r.rule.maxAge
<1>1. PICK w \in Int, a \in Int : w = r.rule.window /\ a = r.rule.maxAge
  BY DEF RuleTyped
<1>2. ssNow + a - w \in Int /\ ssNow + a \in Int
  BY <1>1
<1>3. PICK n, e : /\ n = IF w > 0 /\ a > 0 THEN ssNow + a - w ELSE NoValue
                  /\ e = IF a > 0 THEN ssNow + a ELSE NoValue
  OBVIOUS
<1>4. n \in Int \cup {NoValue} /\ e \in Int \cup {NoValue}
  BY <1>2, <1>3
<1>5. n # NoValue => n \in Int /\ e = n + w /\ e - ssNow = a
  BY <1>1, <1>2, <1>3
<1>6. NewCookie(r) = [mask |-> r.rule.mask, backend |-> r.to, window |-> w, age |-> a, renew |-> n, expires |-> e]
  BY <1>1, <1>3 DEF NewCookie
<1>7. NewCookie(r) \in Cookies
  BY <1>6, <1>4 DEF Cookies, RuleTyped, Masks
<1> QED
  BY <1>1, <1>5, <1>6, <1>7, StickyAssumption DEF CookieTyped

LEMMA StickyInitInv == StickyInit => StickyInv
<1> SUFFICES ASSUME StickyInit PROVE StickyInv
  OBVIOUS
<1>1. RuleTyped(ssRule)
  BY ConvertTyped DEF StickyInit
<1>2. \A c \in StickyClients : ssReq[c] = [st |-> "idle", rule |-> ssRule, sent |-> NoValue, bk |-> NoValue, to |-> NoValue]
  BY DEF StickyInit
<1>3. \A c \in StickyClients : StickyReqTyped(ssReq[c])
  BY <1>1, <1>2 DEF StickyReqTyped
<1> QED
  BY <1>1, <1>3 DEF StickyInit, StickyInv, CookieTyped

LEMMA StickyStep == StickyInv /\ [StickyNext]_stickyVars => StickyInv'
<1> SUFFICES ASSUME StickyInv, [StickyNext]_stickyVars PROVE StickyInv'
  OBVIOUS
<1>t. /\ RuleTyped(ssRule) /\ ssNow \in Nat /\ ssUp \subseteq StickyBackends
      /\ DOMAIN ssCookie = StickyClients /\ \A c \in StickyClients : CookieTyped(ssCookie[c])
      /\ DOMAIN ssReq = StickyClients /\ \A c \in StickyClients : StickyReqTyped(ssReq[c])
  BY DEF StickyInv
<1>1. CASE UNCHANGED stickyVars
  BY <1>1 DEF StickyInv, stickyVars
<1>2. ASSUME NEW c \in StickyClients, decodeHandler(c) PROVE StickyInv'
  <2>1. PICK q : q = [st |-> "decoded", rule |-> ssRule, sent |-> ssCookie[c],
                      bk |-> processDecode(c, ssRule), to |-> NoValue]
    OBVIOUS
  <2>2. /\ ssReq' = [ssReq EXCEPT ![c] = q]
        /\ ssRule' = ssRule /\ ssCookie' = ssCookie /\ ssUp' = ssUp /\ ssNow' = ssNow
    BY <1>2, <2>1 DEF decodeHandler
  <2>3. ssRule.type = "Cookie" => processDecode(c, ssRule) \in {NoValue, ssCookie[c]}
    BY DEF processDecode, doDecode, getStickyBackend
  <2>4. StickyReqTyped(q)
    BY <2>1, <2>3, <1>t DEF StickyReqTyped
  <2>5. DOMAIN ssReq' = StickyClients /\ \A d \in StickyClients : ssReq'[d] = IF d = c THEN q ELSE ssReq[d]
    BY <2>2, <1>t
  <2> QED
    BY <2>2, <2>4, <2>5, <1>t DEF StickyInv
<1>3. ASSUME NEW c \in StickyClients, LookupStickyBackend(c) PROVE StickyInv'
  <2>1. PICK b \in StickyBackends : ssReq' = [ssReq EXCEPT ![c].st = "sent", ![c].to = b]
    <3>1. PICK b \in IF ssReq[c].bk # NoValue /\ ssReq[c].bk.backend \in ssUp THEN {ssReq[c].bk.backend} ELSE ssUp :
             ssReq' = [ssReq EXCEPT ![c].st = "sent", ![c].to = b]
      BY <1>3 DEF LookupStickyBackend
    <3>2. b \in StickyBackends
      BY <1>t
    <3> QED
      BY <3>1, <3>2
  <2>2. PICK q : q = [ssReq[c] EXCEPT !.st = "sent", !.to = b]
    OBVIOUS
  <2>3. StickyReqTyped(q)
    <3>1. StickyReqTyped(ssReq[c]) /\ ssReq[c].st = "decoded"
      BY <1>t, <1>3 DEF LookupStickyBackend
    <3>2. /\ DOMAIN q = {"st", "rule", "sent", "bk", "to"} /\ q.st = "sent" /\ q.to = b
          /\ q.rule = ssReq[c].rule /\ q.bk = ssReq[c].bk /\ q.sent = ssReq[c].sent
      BY <2>2, <3>1 DEF StickyReqTyped
    <3> QED
      BY <3>1, <3>2 DEF StickyReqTyped
  <2>4. /\ ssReq' = [ssReq EXCEPT ![c] = q]
        /\ ssRule' = ssRule /\ ssCookie' = ssCookie /\ ssUp' = ssUp /\ ssNow' = ssNow
    BY <1>3, <2>1, <2>2 DEF LookupStickyBackend
  <2>5. DOMAIN ssReq' = StickyClients /\ \A d \in StickyClients : ssReq'[d] = IF d = c THEN q ELSE ssReq[d]
    BY <2>4, <1>t
  <2> QED
    BY <2>3, <2>4, <2>5, <1>t DEF StickyInv
<1>4. ASSUME NEW c \in StickyClients, encodeHandler(c) PROVE StickyInv'
  <2>1. PICK q : q = [st |-> "idle", rule |-> ssRule, sent |-> NoValue, bk |-> NoValue, to |-> NoValue]
    OBVIOUS
  <2>2. /\ ssReq' = [ssReq EXCEPT ![c] = q] /\ ssReq[c].st = "sent"
        /\ ssRule' = ssRule /\ ssUp' = ssUp /\ ssNow' = ssNow
    BY <1>4, <2>1 DEF encodeHandler
  <2>3. StickyReqTyped(q)
    BY <2>1, <1>t DEF StickyReqTyped
  <2>4. DOMAIN ssReq' = StickyClients /\ \A d \in StickyClients : ssReq'[d] = IF d = c THEN q ELSE ssReq[d]
    BY <2>2, <1>t
  <2>5. CookieTyped(NewCookie(ssReq[c]))
    BY <2>2, <1>t, NewCookieTyped DEF StickyReqTyped
  <2>6. /\ DOMAIN ssCookie' = StickyClients
        /\ \A d \in StickyClients : ssCookie'[d] = ssCookie[d] \/ ssCookie'[d] = NewCookie(ssReq[c])
    BY <1>4, <1>t DEF encodeHandler
  <2>7. \A d \in StickyClients : CookieTyped(ssCookie'[d])
    BY <2>5, <2>6, <1>t
  <2> QED
    BY <2>2, <2>3, <2>4, <2>6, <2>7, <1>t DEF StickyInv
<1>5. ASSUME NEW f \in StickyFiles, StickyReload(f) PROVE StickyInv'
  BY <1>5, <1>t, ConvertTyped DEF StickyReload, StickyInv
<1>6. ASSUME NEW b \in StickyBackends, StickyFlip(b) PROVE StickyInv'
  BY <1>6, <1>t DEF StickyFlip, StickyInv
<1>7. CASE StickyTick
  <2>1. /\ DOMAIN ssCookie' = StickyClients
        /\ \A d \in StickyClients : ssCookie'[d] = ssCookie[d] \/ ssCookie'[d] = NoValue
    BY <1>7 DEF StickyTick
  <2>2. \A d \in StickyClients : CookieTyped(ssCookie'[d])
    BY <2>1, <1>t DEF CookieTyped
  <2> QED
    BY <2>1, <2>2, <1>7, <1>t DEF StickyTick, StickyInv
<1> QED
  BY <1>1, <1>2, <1>3, <1>4, <1>5, <1>6, <1>7 DEF StickyNext

\* The smaller of two numbers is at most each of them.
LEMMA EarlierOf ==
    ASSUME NEW a \in Int, NEW b \in Int
    PROVE  Min({a, b}) \in Int /\ Min({a, b}) <= a /\ Min({a, b}) <= b
<1>1. \E x \in {a, b} : \A y \in {a, b} : x =< y
  BY a <= b \/ b <= a
<1>2. Min({a, b}) \in {a, b} /\ \A y \in {a, b} : Min({a, b}) =< y
  BY <1>1 DEF Min
<1> QED
  BY <1>2

LEMMA RenewStep ==
    ASSUME StickyInv, [StickyNext]_stickyVars, NEW c \in StickyClients,
           ssReq[c].st = "sent", ssReq'[c].st = "idle", ssReq[c].rule.type = "Cookie",
           ssReq[c].sent = ssCookie[c]
    PROVE  /\ ssCookie'[c] # NoValue
           /\ ssCookie'[c].renew # NoValue =>
                 ssCookie'[c].expires - ssNow >= Min({ssCookie'[c].window, ssCookie'[c].age})
<1>t. /\ RuleTyped(ssRule) /\ ssNow \in Nat
      /\ DOMAIN ssCookie = StickyClients /\ CookieTyped(ssCookie[c])
      /\ DOMAIN ssReq = StickyClients /\ StickyReqTyped(ssReq[c])
      /\ \A d \in StickyClients : DOMAIN ssReq[d] = {"st", "rule", "sent", "bk", "to"}
  BY DEF StickyInv, StickyReqTyped
<1>1. ssReq' # ssReq
  OBVIOUS
<1>2. PICK d \in StickyClients : decodeHandler(d) \/ LookupStickyBackend(d) \/ encodeHandler(d)
  BY <1>1 DEF StickyNext, stickyVars, StickyReload, StickyFlip, StickyTick
<1>3. d = c
  BY <1>2, <1>t DEF decodeHandler, LookupStickyBackend, encodeHandler
<1>4. encodeHandler(c)
  BY <1>2, <1>3 DEF decodeHandler, LookupStickyBackend
<1>5. ssCookie'[c] = IF NeedSetCookie(ssReq[c]) THEN NewCookie(ssReq[c]) ELSE ssCookie[c]
  BY <1>4, <1>t DEF encodeHandler
<1>6. CASE NeedSetCookie(ssReq[c])
  <2>1. PICK k : k = NewCookie(ssReq[c])
    OBVIOUS
  <2>2. PICK w \in Int, a \in Int : w = ssReq[c].rule.window /\ a = ssReq[c].rule.maxAge
    BY <1>t DEF StickyReqTyped, RuleTyped
  <2>3. k # NoValue /\ (k.renew # NoValue => k.window = w /\ k.age = a /\ k.expires - ssNow = a)
    BY <2>1, <2>2, <1>t, NewCookieTyped DEF StickyReqTyped
  <2>4. Min({w, a}) <= a /\ Min({w, a}) \in Int
    BY EarlierOf
  <2>5. ssCookie'[c] = k
    BY <1>5, <1>6, <2>1
  <2> QED
    BY <2>3, <2>4, <2>5
<1>7. CASE ~NeedSetCookie(ssReq[c])
  <2>1. PICK k : k = ssCookie[c]
    OBVIOUS
  <2>2. ssReq[c].bk = k /\ k # NoValue
    BY <1>7, <1>t, <2>1 DEF NeedSetCookie, StickyReqTyped
  <2>3. k.renew # NoValue => /\ ~(ssNow >= k.renew) /\ k.renew \in Int
                         /\ k.window \in Int /\ k.age \in Int /\ k.expires = k.renew + k.window
    BY <1>7, <2>1, <2>2, <1>t DEF NeedSetCookie, CookieTyped, Cookies
  <2>4. ASSUME k.renew # NoValue PROVE k.expires - ssNow >= Min({k.window, k.age})
    <3>1. PICK n \in Int, w \in Int, a \in Int : n = k.renew /\ w = k.window /\ a = k.age
      BY <2>3, <2>4
    <3>2. Min({w, a}) <= w /\ Min({w, a}) \in Int
      BY EarlierOf
    <3>3. n > ssNow /\ k.expires = n + w
      BY <3>1, <2>3, <2>4, <1>t
    <3>4. (n + w) - ssNow >= Min({w, a})
      BY <3>2, <3>3, <1>t
    <3> QED
      BY <3>1, <3>3, <3>4
  <2>5. ssCookie'[c] = k
    BY <1>5, <1>7, <2>1
  <2> QED
    BY <2>2, <2>4, <2>5
<1> QED
  BY <1>6, <1>7

-----------------------------------------------------------------------------
(* mod_prison.                                                             *)

\* The steps of a request that has a counter, and those before its judgement.
Counting == {"add", "load", "reset", "restart", "inc", "jail"}
Judging == {"check", "record", "release"} \cup Counting
\* Nobody is judged by more than the accesses there were.
PrisonReqTyped(r) ==
    /\ DOMAIN r = {"st", "rule", "ctr", "now"}
    /\ r.st \in Judging => r.rule.threshold \in Thresholds
    /\ r.st \in Counting => r.ctr \in PrisonReqs
    /\ r.st = "jail" => prMade > r.rule.threshold
    /\ r.st = "deny" => prMade > Min(Thresholds)
CountersBacked ==
    /\ DOMAIN prCounters = PrisonReqs
    /\ \A q \in PrisonReqs : /\ DOMAIN prCounters[q] = {"count", "start"}
                             /\ prCounters[q].count \in Nat /\ prCounters[q].count <= prMade
PrisonInv ==
    /\ prMade \in Nat /\ prRule.threshold \in Thresholds
    /\ CountersBacked
    /\ prAccess \in PrisonReqs \cup {NoValue}
    /\ prJail # NoValue => prJail.by \in Thresholds /\ prMade > prJail.by
    /\ DOMAIN prReq = PrisonReqs /\ \A q \in PrisonReqs : PrisonReqTyped(prReq[q])

LEMMA PrisonInitInv == PrisonInit => PrisonInv
<1> SUFFICES ASSUME PrisonInit PROVE PrisonInv
  OBVIOUS
<1>1. \A q \in PrisonReqs : prReq[q] = [st |-> "start", rule |-> prRule, ctr |-> NoValue, now |-> 0]
  BY DEF PrisonInit
<1>2. \A q \in PrisonReqs : PrisonReqTyped(prReq[q])
  BY <1>1 DEF PrisonReqTyped, Judging, Counting
<1> QED
  BY <1>2 DEF PrisonInit, PrisonInv, CountersBacked

\* A request that goes on; accesses only add up.
LEMMA PrisonReqStep ==
    ASSUME PrisonInv, NEW q \in PrisonReqs, NEW x, prReq' = [prReq EXCEPT ![q] = x],
           prMade' \in Nat, prMade <= prMade', PrisonReqTyped(x)'
    PROVE  DOMAIN prReq' = PrisonReqs /\ \A p \in PrisonReqs : PrisonReqTyped(prReq[p])'
<1>1. DOMAIN prReq' = PrisonReqs /\ \A p \in PrisonReqs : prReq'[p] = IF p = q THEN x ELSE prReq[p]
  BY DEF PrisonInv
<1>2. ASSUME NEW p \in PrisonReqs, p # q PROVE PrisonReqTyped(prReq[p])'
  <2>1. PICK y : y = prReq[p]
    OBVIOUS
  <2>2. PrisonReqTyped(y) /\ prMade \in Nat
    BY <2>1 DEF PrisonInv
  <2>3. y.st = "jail" => y.rule.threshold \in Nat
    BY <2>2, PrisonAssumption DEF PrisonReqTyped, Judging, Counting
  <2>4. Thresholds # {} => Min(Thresholds) \in Nat
    BY Least, PrisonAssumption
  <2>5. Thresholds # {}
    BY DEF PrisonInv
  <2>6. PrisonReqTyped(y)'
    BY <2>2, <2>3, <2>4, <2>5 DEF PrisonReqTyped
  <2> QED
    BY <1>1, <1>2, <2>1, <2>6
<1> QED
  BY <1>1, <1>2
LEMMA PrisonStep == PrisonInv /\ [PrisonNext]_prisonVars => PrisonInv'
<1> SUFFICES ASSUME PrisonInv, [PrisonNext]_prisonVars PROVE PrisonInv'
  OBVIOUS
<1>t. /\ prMade \in Nat /\ prRule.threshold \in Thresholds
      /\ CountersBacked
      /\ prAccess \in PrisonReqs \cup {NoValue}
      /\ prJail # NoValue => prJail.by \in Thresholds /\ prMade > prJail.by
      /\ DOMAIN prReq = PrisonReqs /\ \A q \in PrisonReqs : PrisonReqTyped(prReq[q])
  BY DEF PrisonInv
<1>m. Thresholds \in SUBSET Nat /\ Min(Thresholds) \in Nat /\ \A t \in Thresholds : Min(Thresholds) <= t
  BY <1>t, PrisonAssumption, Least
<1>j. prJail # NoValue => prMade > Min(Thresholds)
  <2> SUFFICES ASSUME prJail # NoValue PROVE prMade > Min(Thresholds)
    OBVIOUS
  <2>1. PICK b \in Thresholds : prMade > b
    BY <1>t
  <2>2. PICK m : m = Min(Thresholds)
    OBVIOUS
  <2>3. b \in Nat /\ m \in Nat /\ m <= b /\ prMade \in Nat
    BY <1>m, <1>t, <2>2
  <2>4. prMade > m
    BY <2>1, <2>3
  <2> QED
    BY <2>2, <2>4
<1>1. CASE UNCHANGED prisonVars
  BY <1>1 DEF PrisonInv, prisonVars, PrisonReqTyped, CountersBacked
<1>2. ASSUME NEW t \in Thresholds, PrisonReload(t) PROVE PrisonInv'
  BY <1>2, <1>t DEF PrisonReload, initDict, PrisonInv, PrisonReqTyped, CountersBacked
<1>3. CASE PrisonTick
  BY <1>3, <1>t DEF PrisonTick, PrisonInv, PrisonReqTyped, CountersBacked
<1>4. ASSUME NEW q \in PrisonReqs,
             \/ processRules(q) \/ shouldDeny(q) \/ PrisonRelease(q) \/ recordAccess(q) \/ addCounter(q)
             \/ IncAndCheck(q) \/ incAndDecide(q) \/ jail(q) \/ dropCounter(q)
      PROVE  PrisonInv'
  <2>r. PrisonReqTyped(prReq[q]) /\ DOMAIN prReq[q] = {"st", "rule", "ctr", "now"}
    BY <1>t DEF PrisonReqTyped
  <2>s. \A s : s \in {"recheck", "pass", "deny", "drop"} /\ StepOf(q, s)
          => prReq' = [prReq EXCEPT ![q] = [st |-> s, rule |-> [threshold |-> 0], ctr |-> NoValue, now |-> 0]]
    BY DEF StepOf
  <2>u. \A s : s \notin {"recheck", "pass", "deny", "drop"} /\ StepOf(q, s)
          => prReq' = [prReq EXCEPT ![q] = [prReq[q] EXCEPT !.st = s]]
    BY DEF StepOf
  \* a step that neither counts nor imprisons
  <2>g. ASSUME NEW x, prReq' = [prReq EXCEPT ![q] = x], PrisonReqTyped(x)',
               prRule' = prRule, prMade' = prMade, CountersBacked',
               prAccess' \in PrisonReqs \cup {NoValue}, prJail' \in {prJail, NoValue}
        PROVE  PrisonInv'
    <3>1. prMade' \in Nat /\ prMade <= prMade'
      BY <2>g, <1>t
    <3>2. DOMAIN prReq' = PrisonReqs /\ \A p \in PrisonReqs : PrisonReqTyped(prReq[p])'
      BY <3>1, <2>g, PrisonReqStep
    <3> QED
      BY <3>1, <3>2, <2>g, <1>t DEF PrisonInv
  <2>c. prCounters' = prCounters /\ prMade' = prMade => CountersBacked'
    BY <1>t DEF CountersBacked
  <2>1. CASE processRules(q)
    <3>1. /\ prRule' = prRule /\ prMade' = prMade /\ prCounters' = prCounters
          /\ prAccess' = prAccess /\ prJail' = prJail
      BY <2>1 DEF processRules
    <3>2. CASE prReq' = [prReq EXCEPT ![q].st = "check", ![q].rule = prRule]
      <4>1. PICK x : x = [prReq[q] EXCEPT !.st = "check", !.rule = prRule]
        OBVIOUS
      <4>2. PrisonReqTyped(x)'
        BY <4>1, <2>r, <1>t DEF PrisonReqTyped, Judging, Counting
      <4> QED
        BY <3>1, <3>2, <4>1, <4>2, <2>c, <2>g, <1>t
    <3>3. CASE StepOf(q, "pass")
      <4>1. PICK x : x = [st |-> "pass", rule |-> [threshold |-> 0], ctr |-> NoValue, now |-> 0]
        OBVIOUS
      <4>2. PrisonReqTyped(x)'
        BY <4>1 DEF PrisonReqTyped, Judging, Counting
      <4>3. prReq' = [prReq EXCEPT ![q] = x]
        BY <3>3, <4>1, <2>s
      <4> QED
        BY <3>1, <4>2, <4>3, <2>c, <2>g, <1>t
    <3> QED
      BY <2>1, <3>2, <3>3 DEF processRules
  <2>2. CASE shouldDeny(q)
    <3>1. /\ prRule' = prRule /\ prMade' = prMade /\ prCounters' = prCounters
          /\ prAccess' = prAccess /\ prJail' = prJail
      BY <2>2 DEF shouldDeny
    <3>2. PICK s : /\ StepOf(q, s) /\ s \in {"record", "pass", "deny", "release", "rerelease"}
                   /\ s = "deny" => prJail # NoValue
                   /\ s \in {"record", "release"} => prReq[q].st = "check"
      BY <2>2 DEF shouldDeny
    <3>3. CASE s \in {"pass", "deny"}
      <4>1. PICK x : x = [st |-> s, rule |-> [threshold |-> 0], ctr |-> NoValue, now |-> 0]
        OBVIOUS
      <4>2. s = "deny" => prMade > Min(Thresholds)
        <5>1. s = "deny" => prJail # NoValue
          BY <3>2
        <5>2. prJail # NoValue => prMade > Min(Thresholds)
          BY <1>j
        <5> QED
          BY <5>1, <5>2
      <4>3. PrisonReqTyped(x)'
        BY <4>1, <4>2, <3>1, <3>3 DEF PrisonReqTyped, Judging, Counting
      <4>4. prReq' = [prReq EXCEPT ![q] = x]
        BY <3>2, <3>3, <4>1, <2>s
      <4> QED
        BY <3>1, <4>3, <4>4, <2>c, <2>g, <1>t
    <3>4. CASE s \in {"record", "release", "rerelease"}
      <4>1. PICK x : x = [prReq[q] EXCEPT !.st = s]
        OBVIOUS
      <4>2. PrisonReqTyped(x)'
        BY <4>1, <3>2, <3>4, <2>r DEF PrisonReqTyped, Judging, Counting
      <4>3. prReq' = [prReq EXCEPT ![q] = x]
        BY <3>2, <3>4, <4>1, <2>u
      <4> QED
        BY <3>1, <4>2, <4>3, <2>c, <2>g, <1>t
    <3> QED
      BY <3>2, <3>3, <3>4
  <2>3. CASE PrisonRelease(q)
    <3>1. /\ prRule' = prRule /\ prMade' = prMade /\ prCounters' = prCounters
          /\ prAccess' = prAccess /\ prJail' = NoValue
      BY <2>3 DEF PrisonRelease
    <3>2. CASE prReq[q].st = "release" /\ StepOf(q, "record")
      <4>1. PICK x : x = [prReq[q] EXCEPT !.st = "record"]
        OBVIOUS
      <4>2. PrisonReqTyped(x)'
        BY <4>1, <3>2, <2>r DEF PrisonReqTyped, Judging, Counting
      <4>3. prReq' = [prReq EXCEPT ![q] = x]
        BY <3>2, <4>1, <2>u
      <4> QED
        BY <3>1, <4>2, <4>3, <2>c, <2>g, <1>t
    <3>3. CASE StepOf(q, "pass")
      <4>1. PICK x : x = [st |-> "pass", rule |-> [threshold |-> 0], ctr |-> NoValue, now |-> 0]
        OBVIOUS
      <4>2. PrisonReqTyped(x)'
        BY <4>1 DEF PrisonReqTyped, Judging, Counting
      <4>3. prReq' = [prReq EXCEPT ![q] = x]
        BY <3>3, <4>1, <2>s
      <4> QED
        BY <3>1, <4>2, <4>3, <2>c, <2>g, <1>t
    <3> QED
      BY <2>3, <3>2, <3>3 DEF PrisonRelease
  <2>4. CASE recordAccess(q)
    <3>1. /\ prRule' = prRule /\ prMade' = prMade /\ prAccess' = prAccess /\ prJail' = prJail
          /\ prReq[q].st = "record"
      BY <2>4 DEF recordAccess
    <3>2. CASE prAccess = NoValue
      <4>1. PICK x : x = [prReq[q] EXCEPT !.st = "add", !.ctr = q, !.now = prNow]
        OBVIOUS
      <4>2. /\ prReq' = [prReq EXCEPT ![q] = x]
            /\ prCounters' = [prCounters EXCEPT ![q] = [count |-> 0, start |-> prNow]]
        BY <2>4, <3>2, <4>1 DEF recordAccess
      <4>3. PrisonReqTyped(x)'
        BY <4>1, <3>1, <2>r DEF PrisonReqTyped, Judging, Counting
      <4>4. CountersBacked'
        BY <4>2, <3>1, <1>t DEF CountersBacked
      <4> QED
        BY <3>1, <4>2, <4>3, <4>4, <2>g, <1>t
    <3>3. CASE prAccess # NoValue
      <4>1. PICK x : x = [prReq[q] EXCEPT !.st = "load", !.ctr = prAccess, !.now = prNow]
        OBVIOUS
      <4>2. prReq' = [prReq EXCEPT ![q] = x] /\ prCounters' = prCounters
        BY <2>4, <3>3, <4>1 DEF recordAccess
      <4>3. PrisonReqTyped(x)'
        BY <4>1, <3>1, <3>3, <2>r, <1>t DEF PrisonReqTyped, Judging, Counting
      <4> QED
        BY <3>1, <4>2, <4>3, <2>c, <2>g, <1>t
    <3> QED
      BY <3>2, <3>3
  <2>5. CASE addCounter(q)
    <3>1. /\ prRule' = prRule /\ prMade' = prMade /\ prCounters' = prCounters
          /\ prAccess' = prReq[q].ctr /\ prJail' = prJail /\ prReq[q].st = "add" /\ StepOf(q, "load")
      BY <2>5 DEF addCounter
    <3>2. PICK x : x = [prReq[q] EXCEPT !.st = "load"]
      OBVIOUS
    <3>3. PrisonReqTyped(x)' /\ prReq[q].ctr \in PrisonReqs
      BY <3>1, <3>2, <2>r DEF PrisonReqTyped, Judging, Counting
    <3>4. prReq' = [prReq EXCEPT ![q] = x]
      BY <3>1, <3>2, <2>u
    <3> QED
      BY <3>1, <3>3, <3>4, <2>c, <2>g, <1>t
  <2>6. CASE IncAndCheck(q)
    <3>1. /\ prRule' = prRule /\ prMade' = prMade /\ prAccess' = prAccess /\ prJail' = prJail
          /\ prReq[q].st \in {"load", "reset", "restart"}
      BY <2>6 DEF IncAndCheck
    <3>2. prReq[q].ctr \in PrisonReqs
      BY <3>1, <2>r DEF PrisonReqTyped, Counting
    <3>3. PICK x : /\ prReq' = [prReq EXCEPT ![q] = x]
                   /\ DOMAIN x = {"st", "rule", "ctr", "now"} /\ x.st \in {"reset", "restart", "inc"}
                   /\ x.rule = prReq[q].rule /\ x.ctr = prReq[q].ctr
      <4>1. CASE prReq[q].st = "load"
        <5>1. PICK s : s = IF prCounters[prReq[q].ctr].start + CheckPeriod < prNow THEN "reset" ELSE "inc"
          OBVIOUS
        <5>2. PICK y : y = [prReq[q] EXCEPT !.now = prNow, !.st = s]
          OBVIOUS
        <5>3. prReq' = [prReq EXCEPT ![q] = y]
          BY <2>6, <4>1, <5>1, <5>2 DEF IncAndCheck
        <5>4. /\ DOMAIN y = {"st", "rule", "ctr", "now"} /\ y.st \in {"reset", "restart", "inc"}
              /\ y.rule = prReq[q].rule /\ y.ctr = prReq[q].ctr
          BY <5>1, <5>2, <2>r
        <5> QED
          BY <5>3, <5>4
      <4>2. CASE prReq[q].st # "load"
        <5>1. PICK s \in {"restart", "inc"} : StepOf(q, s)
          BY <2>6, <4>2 DEF IncAndCheck
        <5>2. PICK y : y = [prReq[q] EXCEPT !.st = s]
          OBVIOUS
        <5>3. prReq' = [prReq EXCEPT ![q] = y]
          BY <5>1, <5>2, <2>u
        <5>4. /\ DOMAIN y = {"st", "rule", "ctr", "now"} /\ y.st \in {"reset", "restart", "inc"}
              /\ y.rule = prReq[q].rule /\ y.ctr = prReq[q].ctr
          BY <5>1, <5>2, <2>r
        <5> QED
          BY <5>3, <5>4
      <4> QED
        BY <4>1, <4>2
    <3>5. PrisonReqTyped(x)'
      BY <3>1, <3>3, <2>r DEF PrisonReqTyped, Judging, Counting
    <3>6. CountersBacked'
      <4>1. \/ prCounters' = prCounters
            \/ prCounters' = [prCounters EXCEPT ![prReq[q].ctr].count = 0]
            \/ prCounters' = [prCounters EXCEPT ![prReq[q].ctr].start = prNow]
        BY <2>6 DEF IncAndCheck
      <4> QED
        BY <4>1, <3>1, <3>2, <1>t DEF CountersBacked
    <3> QED
      BY <3>1, <3>3, <3>5, <3>6, <2>g, <1>t
  <2>7. CASE incAndDecide(q)
    <3>1. PICK r, n : r = prReq[q] /\ n = prCounters[r.ctr].count + 1
      OBVIOUS
    <3>2. /\ r.st = "inc" /\ prCounters' = [prCounters EXCEPT ![r.ctr].count = n] /\ prMade' = prMade + 1
          /\ StepOf(q, IF Over(n, r.rule) THEN "jail" ELSE "recheck")
          /\ prRule' = prRule /\ prAccess' = prAccess /\ prJail' = prJail
      BY <2>7, <3>1 DEF incAndDecide
    <3>3. r.ctr \in PrisonReqs /\ r.rule.threshold \in Nat
      BY <3>1, <3>2, <2>r, <1>m DEF PrisonReqTyped, Judging, Counting
    <3>4. n \in Nat /\ n <= prMade' /\ prMade' \in Nat /\ prMade <= prMade'
      BY <3>1, <3>2, <3>3, <1>t DEF CountersBacked
    <3>5. CountersBacked'
      <4>1. \A p \in PrisonReqs : prCounters[p].count \in Nat /\ prCounters[p].count <= prMade'
        BY <3>2, <1>t DEF CountersBacked
      <4> QED
        BY <4>1, <3>2, <3>3, <3>4, <1>t DEF CountersBacked
    <3>6. PICK x : x = IF Over(n, r.rule) THEN [prReq[q] EXCEPT !.st = "jail"]
                       ELSE [st |-> "recheck", rule |-> [threshold |-> 0], ctr |-> NoValue, now |-> 0]
      OBVIOUS
    <3>7. PrisonReqTyped(x)'
      <4>1. CASE Over(n, r.rule)
        <5>1. prMade' > r.rule.threshold
          BY <4>1, <3>3, <3>4 DEF Over
        <5> QED
          BY <4>1, <5>1, <3>6, <3>1, <3>2, <2>r DEF PrisonReqTyped, Judging, Counting
      <4>2. CASE ~Over(n, r.rule)
        BY <4>2, <3>6 DEF PrisonReqTyped, Judging, Counting
      <4> QED
        BY <4>1, <4>2
    <3>8. prReq' = [prReq EXCEPT ![q] = x]
      BY <3>2, <3>6, <2>s, <2>u
    <3>9. DOMAIN prReq' = PrisonReqs /\ \A p \in PrisonReqs : PrisonReqTyped(prReq[p])'
      BY <3>4, <3>7, <3>8, PrisonReqStep
    <3>10. prJail' # NoValue => prJail'.by \in Thresholds /\ prMade' > prJail'.by
      BY <3>2, <3>4, <1>t, <1>m
    <3> QED
      BY <3>2, <3>4, <3>5, <3>9, <3>10, <1>t DEF PrisonInv
  <2>8. CASE jail(q)
    <3>1. /\ prReq[q].st = "jail" /\ prJail'.by = prReq[q].rule.threshold /\ StepOf(q, "drop")
          /\ prRule' = prRule /\ prMade' = prMade /\ prCounters' = prCounters /\ prAccess' = prAccess
      BY <2>8 DEF jail
    <3>2. prJail'.by \in Thresholds /\ prMade' > prJail'.by
      BY <3>1, <2>r DEF PrisonReqTyped, Judging, Counting
    <3>3. PICK x : x = [st |-> "drop", rule |-> [threshold |-> 0], ctr |-> NoValue, now |-> 0]
      OBVIOUS
    <3>4. PrisonReqTyped(x)'
      BY <3>3 DEF PrisonReqTyped, Judging, Counting
    <3>5. prReq' = [prReq EXCEPT ![q] = x]
      BY <3>1, <3>3, <2>s
    <3>6. prMade' \in Nat /\ prMade <= prMade'
      BY <3>1, <1>t
    <3>7. DOMAIN prReq' = PrisonReqs /\ \A p \in PrisonReqs : PrisonReqTyped(prReq[p])'
      BY <3>4, <3>5, <3>6, PrisonReqStep
    <3> QED
      BY <3>1, <3>2, <3>6, <3>7, <2>c, <1>t DEF PrisonInv
  <2>9. CASE dropCounter(q)
    <3>1. /\ prRule' = prRule /\ prMade' = prMade /\ prCounters' = prCounters
          /\ prAccess' = NoValue /\ prJail' = prJail /\ StepOf(q, "recheck")
      BY <2>9 DEF dropCounter
    <3>2. PICK x : x = [st |-> "recheck", rule |-> [threshold |-> 0], ctr |-> NoValue, now |-> 0]
      OBVIOUS
    <3>3. PrisonReqTyped(x)'
      BY <3>2 DEF PrisonReqTyped, Judging, Counting
    <3>4. prReq' = [prReq EXCEPT ![q] = x]
      BY <3>1, <3>2, <2>s
    <3> QED
      BY <3>1, <3>3, <3>4, <2>c, <2>g, <1>t
  <2> QED
    BY <1>4, <2>1, <2>2, <2>3, <2>4, <2>5, <2>6, <2>7, <2>8, <2>9
<1> QED
  BY <1>1, <1>2, <1>3, <1>4 DEF PrisonNext

\* A client is refused only after accesses over a threshold were counted, and a
\* session by cookie lasts at least a window after every answer (recordAccess,
\* shouldDeny, processEncode).
THEOREM SessionsAreSound == StickySpec /\ PrisonSpec => SessionsSound
<1>1. StickySpec => []StickyInv
  BY StickyInitInv, StickyStep, PTL DEF StickySpec
<1>2. StickyInv /\ [StickyNext]_stickyVars
         => [\A c \in StickyClients :
               ssReq[c].st = "sent" /\ ssReq'[c].st = "idle" /\ ssReq[c].rule.type = "Cookie"
               /\ ssReq[c].sent = ssCookie[c] =>
                  LET k == ssCookie'[c]
                  IN  k # NoValue /\ (k.renew # NoValue => k.expires - ssNow >= Min({k.window, k.age}))]_stickyVars
  BY RenewStep
<1>3. StickySpec => RenewedInTime
  BY <1>1, <1>2, PTL DEF StickySpec, RenewedInTime
<1>4. PrisonSpec => []PrisonInv
  BY PrisonInitInv, PrisonStep, PTL DEF PrisonSpec
<1>5. PrisonInv => DeniedForCause
  BY DEF PrisonInv, PrisonReqTyped, DeniedForCause
<1> QED
  BY <1>3, <1>4, <1>5, PTL DEF SessionsSound

-----------------------------------------------------------------------------
(* BodyBuffer: bodies kept for another attempt.                            *)

BodyShape == {"at", "src", "taken", "kept", "buf", "all", "srcClosed", "released", "pos", "started",
              "sent", "eof", "tries"}
BodyTyped(b) ==
    /\ DOMAIN b = BodyShape
    /\ b.src \in Seq(Nat) /\ b.buf \in Seq(Nat)
    /\ b.taken \in 0 .. Len(b.src) /\ b.kept \in 0 .. b.taken /\ b.pos \in 0 .. Len(b.buf)
    /\ b.all \in BOOLEAN /\ b.started \in BOOLEAN /\ b.eof \in BOOLEAN

\* A body that is not in memory yet has not been read from.
BodyUntouched(b) ==
    b.at # "held" => /\ b.taken = 0 /\ b.pos = 0 /\ ~b.started /\ ~b.eof /\ ~b.all
                     /\ b.buf = <<>> /\ b.sent = <<>>

\* Where the reader stands: of the source no more is taken than the buffer was
\* made of until the buffer is used up, and nothing at all when it is all there
\* is.  What was sent is what lies before the reader.
ReaderStands(b) ==
    /\ b.started => b.pos = Len(b.buf)
    /\ ~b.started => b.taken = b.kept
    /\ b.all => b.taken = b.kept /\ b.kept = Len(b.src)
    /\ b.eof => b.pos = Len(b.buf) /\ b.taken = Len(b.src)
    /\ b.sent = SubSeq(b.buf, 1, b.pos) \o SubSeq(b.src, b.kept + 1, b.taken)

BodyOK(b) == BodyTyped(b) /\ BodyUntouched(b) /\ ReaderStands(b)
BodyInv == DOMAIN bodies = BodyReqs /\ \A q \in BodyReqs : BodyOK(bodies[q])

\* A piece of a sequence that is one longer ends in the element it has more,
\* and a piece without elements is the empty sequence.
LEMMA PieceGrows ==
    ASSUME NEW s \in Seq(Nat), NEW i \in Nat \ {0}, NEW j \in Nat, i <= j + 1, j < Len(s)
    PROVE  SubSeq(s, i, j + 1) = SubSeq(s, i, j) \o <<s[j + 1]>>
<1>1. PICK n \in Nat : n = j + 1 /\ n - 1 = j
  OBVIOUS
<1>2. i \in 1 .. Len(s) /\ n \in i .. Len(s)
  BY <1>1
<1>3. SubSeq(s, i, n) = SubSeq(s, i, n - 1) \o <<s[n]>>
  BY <1>2, SubSeqRecursiveSecond, Zenon
<1> QED
  BY <1>1, <1>3, Zenon

LEMMA NoPiece ==
    ASSUME NEW s \in Seq(Nat), NEW i \in Nat
    PROVE  SubSeq(s, i + 1, i) = <<>>
OBVIOUS

LEMMA NoPieces == <<>> \o <<>> = <<>> /\ Len(<<>>) = 0
OBVIOUS

LEMMA WholePiece ==
    ASSUME NEW s \in Seq(Nat)
    PROVE  SubSeq(s, 1, Len(s)) = s
OBVIOUS

LEMMA PieceTyped ==
    ASSUME NEW s \in Seq(Nat), NEW i \in Nat \ {0}, NEW j \in 0 .. Len(s)
    PROVE  SubSeq(s, i, j) \in Seq(Nat)
OBVIOUS

\* What was sent is what lies before the reader, also after the next byte of
\* the buffer or of the source.
LEMMA ReaderMoves ==
    ASSUME NEW b, BodyTyped(b), ReaderStands(b)
    PROVE  /\ b.pos < Len(b.buf) /\ b.taken = b.kept =>
                b.sent \o <<b.buf[b.pos + 1]>>
                    = SubSeq(b.buf, 1, b.pos + 1) \o SubSeq(b.src, b.kept + 1, b.taken)
           /\ b.taken < Len(b.src) =>
                b.sent \o <<b.src[b.taken + 1]>>
                    = SubSeq(b.buf, 1, b.pos) \o SubSeq(b.src, b.kept + 1, b.taken + 1)
           /\ b.sent \o <<>> = b.sent
<1>1. PICK buf \in Seq(Nat), src \in Seq(Nat), pos \in Nat, taken \in Nat, i \in Nat \ {0} :
         /\ b.buf = buf /\ b.src = src /\ b.pos = pos /\ b.taken = taken /\ b.kept + 1 = i
         /\ pos <= Len(buf) /\ taken <= Len(src) /\ i <= taken + 1
         /\ b.taken = b.kept => i = taken + 1
  <2>1. /\ b.pos \in Nat /\ b.taken \in Nat /\ b.kept + 1 \in Nat \ {0} /\ b.pos <= Len(b.buf)
        /\ b.taken <= Len(b.src) /\ b.kept + 1 <= b.taken + 1 /\ (b.taken = b.kept => b.kept + 1 = b.taken + 1)
    BY DEF BodyTyped
  <2>2. b.buf \in Seq(Nat) /\ b.src \in Seq(Nat)
    BY DEF BodyTyped
  <2> QED
    BY <2>1, <2>2, Zenon
<1>2. PICK x \in Seq(Nat), y \in Seq(Nat) :
         /\ x = SubSeq(buf, 1, pos) /\ y = SubSeq(src, i, taken) /\ b.sent = x \o y
  <2>1. SubSeq(buf, 1, pos) \in Seq(Nat) /\ SubSeq(src, i, taken) \in Seq(Nat)
    <3>1. 1 \in Nat \ {0} /\ pos \in 0 .. Len(buf) /\ taken \in 0 .. Len(src)
      BY <1>1
    <3>2. SubSeq(buf, 1, pos) \in Seq(Nat)
      BY <1>1, <3>1, PieceTyped, Zenon
    <3>3. SubSeq(src, i, taken) \in Seq(Nat)
      BY <1>1, <3>1, PieceTyped, Zenon
    <3> QED
      BY <3>2, <3>3
  <2>2. b.sent = SubSeq(buf, 1, pos) \o SubSeq(src, i, taken)
    BY <1>1, Zenon DEF ReaderStands
  <2> QED
    BY <2>1, <2>2
<1>3. ASSUME pos < Len(buf), b.taken = b.kept
      PROVE  b.sent \o <<buf[pos + 1]>> = SubSeq(buf, 1, pos + 1) \o SubSeq(src, i, taken)
  <2>1. PICK e \in Nat : e = buf[pos + 1]
    BY <1>1, <1>3
  <2>2. SubSeq(buf, 1, pos + 1) = x \o <<e>>
    <3>1. PICK j \in Nat \ {0} : j = 1 /\ j <= pos + 1
      BY <1>1
    <3>2. SubSeq(buf, j, pos + 1) = SubSeq(buf, j, pos) \o <<buf[pos + 1]>>
      BY <1>1, <1>3, <3>1, PieceGrows, ZenonT(30)
    <3> QED
      BY <1>2, <2>1, <3>1, <3>2, Zenon
  <2>3. y = <<>>
    BY <1>1, <1>2, <1>3, NoPiece
  <2>4. (x \o <<>>) \o <<e>> = (x \o <<e>>) \o <<>>
    BY <1>2, <2>1
  <2> QED
    BY <1>2, <2>1, <2>2, <2>3, <2>4, Zenon
<1>4. ASSUME taken < Len(src)
      PROVE  b.sent \o <<src[taken + 1]>> = SubSeq(buf, 1, pos) \o SubSeq(src, i, taken + 1)
  <2>1. PICK e \in Nat : e = src[taken + 1]
    BY <1>1, <1>4
  <2>2. SubSeq(src, i, taken + 1) = y \o <<e>>
    <3>1. SubSeq(src, i, taken + 1) = SubSeq(src, i, taken) \o <<src[taken + 1]>>
      BY <1>1, <1>4, PieceGrows, Zenon
    <3> QED
      BY <1>2, <2>1, <3>1, Zenon
  <2>3. PICK z : z = <<e>>
    OBVIOUS
  <2>4. (x \o y) \o z = x \o (y \o z)
    <3>1. z \in Seq(Nat)
      BY <2>1, <2>3
    <3>2. x \in Seq(Nat) /\ y \in Seq(Nat)
      BY <1>2, Zenon
    <3> QED
      BY <3>1, <3>2
  <2> QED
    BY <1>2, <2>1, <2>2, <2>3, <2>4, Zenon
<1>5. b.sent \o <<>> = b.sent
  BY <1>2
<1> QED
  BY <1>1, <1>3, <1>4, <1>5, Zenon

LEMMA BodyInvInit == BodyInit => BodyInv
<1> SUFFICES ASSUME BodyInit, NEW q \in BodyReqs PROVE BodyOK(bodies[q])
  BY DEF BodyInit, BodyInv
<1>1. PICK n \in BodyLens : bodies[q] = NewBody(n)
  BY DEF BodyInit
<1>2. n \in Nat
  BY BodyAssumption
<1>3. [i \in 1 .. n |-> i] \in Seq(Nat)
  BY <1>2
<1>4. <<>> \in Seq(Nat) /\ Len(<<>>) = 0
  OBVIOUS
<1>5. DOMAIN NewBody(n) = BodyShape
  BY DEF NewBody, BodyShape
<1> DEFINE b == bodies[q]
<1>6. /\ b.at = "raw" /\ b.src = [i \in 1 .. n |-> i] /\ b.taken = 0 /\ b.kept = 0
      /\ b.buf = <<>> /\ b.pos = 0 /\ b.sent = <<>>
  BY <1>1 DEF NewBody
<1>7. b.all = FALSE /\ b.started = FALSE /\ b.eof = FALSE /\ DOMAIN b = BodyShape
  BY <1>1, <1>5 DEF NewBody
<1>8. b.src \in Seq(Nat) /\ b.buf \in Seq(Nat)
  BY <1>3, <1>4, <1>6, Zenon
<1> HIDE DEF b
<1>9. /\ b.taken \in 0 .. Len(b.src) /\ b.kept \in 0 .. b.taken /\ b.pos \in 0 .. Len(b.buf)
      /\ b.pos = Len(b.buf)
  <2>1. Len(b.src) \in Nat
    BY <1>8
  <2>2. Len(b.buf) = 0
    BY <1>6, NoPieces, Zenon
  <2>3. b.taken = 0 /\ b.kept = 0 /\ b.pos = 0
    BY <1>6, Zenon
  <2> QED
    BY <2>1, <2>2, <2>3
<1>10. SubSeq(b.buf, 1, b.pos) = <<>> /\ SubSeq(b.src, b.kept + 1, b.taken) = <<>>
  BY <1>6, <1>8, NoPiece
<1>11. b.sent = SubSeq(b.buf, 1, b.pos) \o SubSeq(b.src, b.kept + 1, b.taken)
  BY <1>6, <1>10, NoPieces
<1>12. BodyTyped(b) /\ BodyUntouched(b)
  BY <1>6, <1>7, <1>8, <1>9, Zenon DEF BodyTyped, BodyUntouched
<1>13. ReaderStands(b)
  BY <1>6, <1>7, <1>9, <1>11, Zenon DEF ReaderStands
<1> QED
  BY <1>12, <1>13 DEF BodyOK, b

\* A step that changes one body is right when it leaves that one right.
LEMMA OneBodyMoves ==
    ASSUME BodyInv, NEW q \in BodyReqs, NEW b, BodyOK(b), bodies' = [bodies EXCEPT ![q] = b]
    PROVE  BodyInv'
BY DEF BodyInv

\* The body goes on towards the buffer, or past it.
LEMMA BodyIsPlaced ==
    ASSUME NEW b, NEW p, BodyOK(b), b.at # "held", p # "held"
    PROVE  BodyOK([b EXCEPT !.at = p])
BY DEF BodyOK, BodyTyped, BodyUntouched, ReaderStands, BodyShape

\* The start of the body is read into the buffer.
LEMMA BodyIsBuffered ==
    ASSUME NEW b, BodyOK(b), b.at = "checked"
    PROVE  BodyOK(newBytesBody(b))
<1> DEFINE n == IF Len(b.src) < Accessible THEN Len(b.src) ELSE Accessible
           c == newBytesBody(b)
<1>1. b.src \in Seq(Nat) /\ Len(b.src) \in Nat /\ n \in 0 .. Len(b.src)
  BY BodyAssumption DEF BodyOK, BodyTyped
<1>2. /\ c.at = "held" /\ c.src = b.src /\ c.taken = n /\ c.kept = n /\ c.buf = SubSeq(b.src, 1, n)
      /\ c.pos = 0 /\ ~c.started /\ c.sent = <<>> /\ ~c.eof
      /\ c.started \in BOOLEAN /\ c.eof \in BOOLEAN /\ DOMAIN c = BodyShape
  BY DEF newBytesBody, BodyOK, BodyTyped, BodyUntouched, BodyShape
<1>b. c.all \in BOOLEAN /\ (c.all => n < Accessible)
  <2>1. CASE n < Accessible
    BY <2>1 DEF newBytesBody, BodyOK, BodyTyped, BodyShape
  <2>2. CASE ~(n < Accessible)
    <3>1. (n < Accessible) = FALSE
      BY <2>2, <1>1, BodyAssumption
    <3>2. c = [b EXCEPT !.at = "held", !.buf = SubSeq(b.src, 1, n), !.all = FALSE, !.taken = n, !.kept = n]
      BY <3>1, Zenon DEF newBytesBody
    <3> QED
      BY <3>2 DEF BodyOK, BodyTyped, BodyShape
  <2> QED
    BY <2>1, <2>2
<1>3. c.buf \in Seq(Nat) /\ Len(c.buf) = n
  BY <1>1, <1>2
<1>4. SubSeq(c.buf, 1, 0) = <<>> /\ SubSeq(c.src, n + 1, n) = <<>>
  BY <1>1, <1>2, <1>3, NoPiece
<1>5. c.all => n = Len(b.src)
  <2>2. n < Accessible => n = Len(b.src)
    BY <1>1, BodyAssumption
  <2> QED
    BY <1>b, <2>2
<1>6. c.sent = SubSeq(c.buf, 1, c.pos) \o SubSeq(c.src, c.kept + 1, c.taken)
  BY <1>2, <1>4, NoPieces
<1>7. /\ c.src \in Seq(Nat) /\ c.taken \in 0 .. Len(c.src) /\ c.kept \in 0 .. c.taken
      /\ c.pos \in 0 .. Len(c.buf)
  BY <1>1, <1>2, <1>3
<1> HIDE DEF c, n
<1>9. ReaderStands(c)
  BY <1>2, <1>5, <1>6, Zenon DEF ReaderStands
<1>10. BodyTyped(c) /\ BodyUntouched(c)
  BY <1>b, <1>2, <1>3, <1>7, Zenon DEF BodyTyped, BodyUntouched
<1> QED
  BY <1>9, <1>10 DEF BodyOK, c

\* A reader is put before a buffer, the old one or another: nothing of the
\* source beyond the buffer may be gone.
LEMMA BodyIsReset ==
    ASSUME NEW b, BodyOK(b), b.at = "held", NEW new \in Seq(Nat), b.taken = b.kept
    PROVE  BodyOK(SetBytes(b, new, b.all)) /\ BodyOK(SetBytes(b, new, FALSE))
<1> SUFFICES ASSUME NEW a \in {b.all, FALSE} PROVE BodyOK(SetBytes(b, new, a))
  OBVIOUS
<1> DEFINE c == SetBytes(b, new, a)
<1>1. /\ c.at = "held" /\ c.src = b.src /\ c.taken = b.taken /\ c.kept = b.kept /\ c.buf = new
      /\ (c.all <=> b.all) /\ c.pos = 0 /\ ~c.started /\ c.sent = <<>> /\ ~c.eof
      /\ c.all \in BOOLEAN /\ c.started \in BOOLEAN /\ c.eof \in BOOLEAN /\ DOMAIN c = BodyShape
  BY DEF SetBytes, BodyOK, BodyTyped, BodyShape
<1>2. /\ b.src \in Seq(Nat) /\ b.taken \in 0 .. Len(b.src) /\ b.kept \in 0 .. b.taken
      /\ b.all => b.taken = b.kept /\ b.kept = Len(b.src)
  BY DEF BodyOK, BodyTyped, ReaderStands
<1> HIDE DEF c
<1>3. SubSeq(c.buf, 1, c.pos) = <<>> /\ SubSeq(c.src, c.kept + 1, c.taken) = <<>>
  BY <1>1, <1>2, NoPiece
<1>4. c.sent = SubSeq(c.buf, 1, c.pos) \o SubSeq(c.src, c.kept + 1, c.taken)
  BY <1>1, <1>3, NoPieces
<1>5. c.pos \in 0 .. Len(c.buf)
  BY <1>1
<1>6. ReaderStands(c)
  BY <1>1, <1>2, <1>4, Zenon DEF ReaderStands
<1>7. BodyTyped(c) /\ BodyUntouched(c)
  BY <1>1, <1>2, <1>5, Zenon DEF BodyTyped, BodyUntouched
<1> QED
  BY <1>6, <1>7 DEF BodyOK, c

\* What SetBytes and the transport need of a body that may be rewound.
LEMMA RewindableKept ==
    ASSUME NEW b, BodyOK(b), Rewindable(b)
    PROVE  b.taken = b.kept
BY DEF BodyOK, BodyTyped, ReaderStands, Rewindable

LEMMA ReadKeeps ==
    ASSUME BodyInv, NEW q \in BodyReqs, ReadByte(q)
    PROVE  BodyInv'
<1> DEFINE b == bodies[q]
           next == IF b.pos < Len(b.buf) THEN <<b.buf[b.pos + 1]>>
                   ELSE IF b.all \/ b.taken = Len(b.src) THEN <<>> ELSE <<b.src[b.taken + 1]>>
           c == [b EXCEPT !.pos = IF b.pos < Len(b.buf) THEN @ + 1 ELSE @,
                          !.started = b.pos = Len(b.buf),
                          !.taken = IF b.pos = Len(b.buf) /\ next # <<>> THEN @ + 1 ELSE @,
                          !.sent = @ \o next, !.eof = next = <<>>]
<1>1. BodyOK(b) /\ b.at = "held" /\ ~b.eof
  BY DEF BodyInv, ReadByte
<1>2. BodyOK(c) => BodyInv'
  <2>1. bodies' = [bodies EXCEPT ![q] = c]
    BY ZenonT(60) DEF ReadByte, BodyInv
  <2> QED
    BY <2>1, OneBodyMoves
<1>3. /\ DOMAIN b = BodyShape /\ b.src \in Seq(Nat) /\ b.buf \in Seq(Nat)
      /\ b.taken \in 0 .. Len(b.src) /\ b.kept \in 0 .. b.taken /\ b.pos \in 0 .. Len(b.buf)
      /\ b.all \in BOOLEAN
      /\ Len(b.src) \in Nat /\ Len(b.buf) \in Nat
  BY <1>1 DEF BodyOK, BodyTyped
<1>4. ReaderStands(b)
  BY <1>1 DEF BodyOK
<1>5. /\ c.at = "held" /\ c.src = b.src /\ c.kept = b.kept /\ c.buf = b.buf /\ c.all = b.all
      /\ c.pos = (IF b.pos < Len(b.buf) THEN b.pos + 1 ELSE b.pos)
      /\ c.taken = (IF b.pos = Len(b.buf) /\ next # <<>> THEN b.taken + 1 ELSE b.taken)
      /\ c.sent = b.sent \o next /\ DOMAIN c = BodyShape
      /\ (c.started <=> b.pos = Len(b.buf)) /\ (c.eof <=> next = <<>>)
      /\ c.all \in BOOLEAN /\ c.started \in BOOLEAN /\ c.eof \in BOOLEAN
  BY <1>1, <1>3 DEF BodyShape
<1>n. next = IF b.pos < Len(b.buf) THEN <<b.buf[b.pos + 1]>>
             ELSE IF b.all \/ b.taken = Len(b.src) THEN <<>> ELSE <<b.src[b.taken + 1]>>
  OBVIOUS
<1> HIDE DEF b, c, next
<1>m. /\ b.pos < Len(b.buf) /\ b.taken = b.kept =>
           b.sent \o <<b.buf[b.pos + 1]>> = SubSeq(b.buf, 1, b.pos + 1) \o SubSeq(b.src, b.kept + 1, b.taken)
      /\ b.taken < Len(b.src) =>
           b.sent \o <<b.src[b.taken + 1]>> = SubSeq(b.buf, 1, b.pos) \o SubSeq(b.src, b.kept + 1, b.taken + 1)
      /\ b.sent \o <<>> = b.sent
  BY <1>1, ReaderMoves, Zenon DEF BodyOK
<1>6. CASE b.pos < Len(b.buf)
  <2>1. next = <<b.buf[b.pos + 1]>> /\ next # <<>>
    BY <1>n, <1>6
  <2>2. c.pos = b.pos + 1 /\ ~c.started /\ c.taken = b.taken /\ ~c.eof /\ ~b.started
    BY <1>3, <1>4, <1>5, <1>6, <2>1 DEF ReaderStands
  <2>3. b.taken = b.kept
    BY <1>4, <2>2 DEF ReaderStands
  <2>4. c.sent = SubSeq(c.buf, 1, c.pos) \o SubSeq(c.src, c.kept + 1, c.taken)
    BY <1>m, <1>5, <1>6, <2>1, <2>2, <2>3
  <2>5. ReaderStands(c)
    BY <1>4, <1>5, <2>2, <2>3, <2>4 DEF ReaderStands
  <2>6. c.pos \in 0 .. Len(c.buf)
    BY <1>3, <1>5, <1>6, <2>2
  <2>7. BodyTyped(c) /\ BodyUntouched(c)
    BY <1>3, <1>5, <2>2, <2>6 DEF BodyTyped, BodyUntouched
  <2> QED
    BY <1>2, <2>5, <2>7 DEF BodyOK
<1>7. CASE b.pos = Len(b.buf) /\ (b.all \/ b.taken = Len(b.src))
  <2>1. next = <<>>
    BY <1>n, <1>3, <1>7
  <2>2. c.pos = b.pos /\ c.started /\ c.taken = b.taken /\ c.eof
    BY <1>3, <1>5, <1>7, <2>1
  <2>3. b.taken = Len(b.src)
    BY <1>4, <1>7 DEF ReaderStands
  <2>4. c.sent = b.sent
    BY <1>m, <1>5, <2>1
  <2>5. ReaderStands(c)
    BY <1>4, <1>5, <1>7, <2>2, <2>3, <2>4 DEF ReaderStands
  <2>6. BodyTyped(c) /\ BodyUntouched(c)
    BY <1>3, <1>5, <2>2 DEF BodyTyped, BodyUntouched
  <2> QED
    BY <1>2, <2>5, <2>6 DEF BodyOK
<1>8. CASE b.pos = Len(b.buf) /\ ~b.all /\ b.taken # Len(b.src)
  <2>1. next = <<b.src[b.taken + 1]>> /\ next # <<>>
    BY <1>n, <1>3, <1>8
  <2>2. c.pos = b.pos /\ c.started /\ c.taken = b.taken + 1 /\ ~c.eof
    BY <1>3, <1>5, <1>8, <2>1
  <2>3. b.taken < Len(b.src) /\ c.taken \in 0 .. Len(c.src) /\ c.kept \in 0 .. c.taken
    BY <1>3, <1>5, <1>8, <2>2
  <2>4. c.sent = SubSeq(c.buf, 1, c.pos) \o SubSeq(c.src, c.kept + 1, c.taken)
    BY <1>m, <1>5, <2>1, <2>2, <2>3
  <2>5. ReaderStands(c)
    BY <1>5, <1>8, <2>2, <2>4 DEF ReaderStands
  <2>6. BodyTyped(c) /\ BodyUntouched(c)
    BY <1>3, <1>5, <2>2, <2>3 DEF BodyTyped, BodyUntouched
  <2> QED
    BY <1>2, <2>5, <2>6 DEF BodyOK
<1> QED
  BY <1>3, <1>6, <1>7, <1>8

LEMMA BodyInvStep == BodyInv /\ [BodyNext]_bodyVars => BodyInv'
<1> SUFFICES ASSUME BodyInv, [BodyNext]_bodyVars PROVE BodyInv'
  OBVIOUS
<1>1. CASE UNCHANGED bodyVars
  BY <1>1 DEF BodyInv, bodyVars
<1>2. CASE BodyNext
  <2>0. PICK q \in BodyReqs :
          \/ prepareRequestBodyForRetry(q) \/ AccessBody(q) \/ GetBodyAccessor(q)
          \/ (\E n \in {1, 2} : RewriteBody(q, n))
          \/ ReadByte(q) \/ CloseBody(q) \/ rewindRequestBody(q)
    BY <1>2 DEF BodyNext
  <2> DEFINE b == bodies[q]
  <2>1. BodyOK(b)
    BY DEF BodyInv
  <2>2. CASE prepareRequestBodyForRetry(q)
    <3>1. PICK p : p # "held" /\ bodies' = [bodies EXCEPT ![q] = [b EXCEPT !.at = p]]
      <4> DEFINE w == IF bufferLimit > 0 /\ held >= bufferLimit THEN "passed" ELSE "checked"
      <4>1. bodies' = [bodies EXCEPT ![q] = [b EXCEPT !.at = w]]
        BY <2>2 DEF prepareRequestBodyForRetry, BodyInv
      <4>2. w # "held"
        OBVIOUS
      <4> QED
        BY <4>1, <4>2
    <3>2. b.at # "held"
      BY <2>2 DEF prepareRequestBodyForRetry
    <3> QED
      BY <2>1, <3>1, <3>2, BodyIsPlaced, OneBodyMoves
  <2>3. CASE AccessBody(q)
    <3>1. b.at # "held" /\ bodies' = [bodies EXCEPT ![q] = [b EXCEPT !.at = "checked"]]
      BY <2>3 DEF AccessBody, BodyInv
    <3> QED
      BY <2>1, <3>1, BodyIsPlaced, OneBodyMoves
  <2>4. CASE GetBodyAccessor(q)
    <3>1. b.at = "checked" /\ bodies' = [bodies EXCEPT ![q] = newBytesBody(b)]
      BY <2>4 DEF GetBodyAccessor, BodyInv
    <3> QED
      BY <2>1, <3>1, BodyIsBuffered, OneBodyMoves
  <2>5. CASE \E n \in {1, 2} : RewriteBody(q, n)
    <3>1. PICK n \in {1, 2} : RewriteBody(q, n)
      BY <2>5
    <3>2. [i \in 1 .. n |-> 0] \in Seq(Nat)
      OBVIOUS
    <3>3. b.at = "held" /\ ~b.started /\ bodies' = [bodies EXCEPT ![q] = SetBytes(b, [i \in 1 .. n |-> 0], FALSE)]
      BY <3>1 DEF RewriteBody, BodyInv
    <3>4. b.taken = b.kept
      BY <2>1, <3>3 DEF BodyOK, ReaderStands
    <3>5. BodyOK(SetBytes(b, [i \in 1 .. n |-> 0], FALSE))
      BY <2>1, <3>2, <3>3, <3>4, BodyIsReset
    <3> QED
      BY <3>3, <3>5, OneBodyMoves
  <2>6. CASE ReadByte(q)
    BY <2>6, ReadKeeps
  <2>7. CASE CloseBody(q)
    <3> DEFINE c == [b EXCEPT !.srcClosed = TRUE, !.released = TRUE]
    <3>1. bodies' = [bodies EXCEPT ![q] = c]
      BY <2>7 DEF CloseBody, BodyInv
    <3>2. BodyOK(c)
      BY <2>1 DEF BodyOK, BodyTyped, BodyUntouched, ReaderStands, BodyShape
    <3> QED
      BY <3>1, <3>2, OneBodyMoves
  <2>8. CASE rewindRequestBody(q)
    <3> DEFINE s == SetBytes(b, b.buf, b.all)
               c == [s EXCEPT !.tries = @ + 1]
    <3>1. b.at = "held" /\ Rewindable(b) /\ bodies' = [bodies EXCEPT ![q] = c]
      BY <2>8 DEF rewindRequestBody, BodyInv
    <3>2. b.taken = b.kept /\ b.buf \in Seq(Nat)
      BY <2>1, <3>1, RewindableKept DEF BodyOK, BodyTyped
    <3>3. BodyOK(s)
      BY <2>1, <3>1, <3>2, BodyIsReset
    <3> HIDE DEF s
    <3>4. BodyOK(c)
      BY <3>3 DEF BodyOK, BodyTyped, BodyUntouched, ReaderStands, BodyShape
    <3> QED
      BY <3>1, <3>4, OneBodyMoves
  <2> QED
    BY <2>0, <2>2, <2>3, <2>4, <2>5, <2>6, <2>7, <2>8
<1> QED
  BY <1>1, <1>2

LEMMA BodyInvGives == BodyInv => BodyResent
<1> SUFFICES ASSUME BodyInv, NEW q \in BodyReqs, bodies[q].eof
             PROVE  bodies[q].sent = bodies[q].buf
                                     \o SubSeq(bodies[q].src, bodies[q].kept + 1, Len(bodies[q].src))
  BY DEF BodyResent
<1>1. BodyTyped(bodies[q]) /\ ReaderStands(bodies[q])
  BY DEF BodyInv, BodyOK
<1>2. SubSeq(bodies[q].buf, 1, bodies[q].pos) = bodies[q].buf
  BY <1>1, WholePiece DEF BodyTyped, ReaderStands
<1> QED
  BY <1>1, <1>2 DEF ReaderStands

\* A body that an attempt has read to the end was sent whole, from its first
\* byte, whatever was buffered, rewritten, closed or rewound before
\* (bytes_body.Rewind, SetBytes and bodyReader.Read).
THEOREM BodiesSentWhole == BodySpec => []BodyResent
<1>1. BodySpec => []BodyInv
  BY BodyInvInit, BodyInvStep, PTL DEF BodySpec
<1> QED
  BY <1>1, BodyInvGives, PTL
=============================================================================
