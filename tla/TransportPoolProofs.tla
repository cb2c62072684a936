------------------------ MODULE TransportPoolProofs ------------------------
(***************************************************************************)
(* TLAPS proofs about TransportPool, for any number of callers and any     *)
(* limits.                                                                 *)
(*                                                                         *)
(* A connection is passed from hand to hand: from the dial to its caller,  *)
(* from the caller to the request channel of readLoop, from readLoop to    *)
(* the reader of the body or to the idle list, and to the next caller.     *)
(* Exclusive says that it is never in two hands; that a caller uses one    *)
(* connection alone, and that close gives a slot back once, follow.        *)
(***************************************************************************)
EXTENDS TransportPool, FiniteSetTheorems, TLAPS

-----------------------------------------------------------------------------
(* The hands a connection may be in.                                       *)

Has(s, x) == \E i \in DOMAIN s : s[i] = x
Distinct(s) == \A i, j \in DOMAIN s : s[i] = s[j] => i = j

Dialled(c) == dialc[c] = "ready"
Idle(c) == Has(pool.idle, c)
Owns(r, c) == call[r].on = c /\ call[r].at \in {"got", "body", "late"}
Owned(c) == \E r \in Callers : Owns(r, c)
Asked(c) == reqch[c] # <<>>
Returning(c) == loop[c] = "put"
Answering(c) == loop[c] = "deliver" /\ answer[c].resp.body

\* A connection is in one hand at most, and once.
Exclusive ==
    /\ \A c \in PConns :
         /\ Dialled(c) => ~Idle(c) /\ ~Owned(c) /\ ~Asked(c) /\ ~Returning(c) /\ ~Answering(c)
         /\ Idle(c) => ~Owned(c) /\ ~Asked(c) /\ ~Returning(c) /\ ~Answering(c)
         /\ Owned(c) => ~Asked(c) /\ ~Returning(c) /\ ~Answering(c)
         /\ Asked(c) => ~Returning(c) /\ ~Answering(c)
         /\ \A r, q \in Callers : Owns(r, c) /\ Owns(q, c) => r = q
    /\ Distinct(pool.idle)

\* Only a connection that has been made is in a hand, or closed.
Made ==
    \A c \in PConns :
        /\ Dialled(c) => loop[c] # "off"
        /\ Idle(c) => loop[c] # "off"
        /\ Owned(c) => loop[c] # "off"
        /\ Asked(c) => loop[c] # "off"
        /\ c \in pool.closed => loop[c] # "off"

\* A caller that uses a connection has one.
Attached ==
    \A r \in Callers :
        call[r].at \in AwaitsAnswer \cup {"got", "body", "late"} => call[r].on \in PConns

\* A caller dials once, and before its connection is made.
Dialling ==
    \A c \in PConns :
        /\ dialc[c] \in {"count", "dialing"} => loop[c] = "off"
        /\ call[c].at = "new" => dialc[c] = "none" /\ loop[c] = "off"

\* A caller that waits for an answer is the one whose request is in reqch, or
\* the one that readLoop is about to answer.
Waits(r, c) == call[r].on = c /\ call[r].at \in AwaitsAnswer
Asks(c, r) == reqch[c] = <<r>>
Answers(c, r) == answer[c].to = r /\ loop[c] \in {"put", "deliver"}
Awaited == \A r \in Callers, c \in PConns : Waits(r, c) => Asks(c, r) \/ Answers(c, r)

\* What readLoop has in hand, at each of its program points.
ReadLoop ==
    \A c \in PConns :
        /\ Asked(c) => \E r \in Callers : Asks(c, r)
        /\ loop[c] \in {"put", "deliver", "end"} => answer[c].to \in Callers
        /\ loop[c] = "put" => ~answer[c].resp.body
        /\ loop[c] \in {"check", "read"} /\ answer[c].ok => wire[c] # <<>>
        /\ expected[c] = (IF Asked(c) THEN 1 ELSE 0)
                       + (IF loop[c] \in {"put", "deliver"} THEN 1 ELSE 0)

IInv ==
    /\ PoolTypeOK
    /\ Exclusive
    /\ Attached
    /\ Made
    /\ Dialling
    /\ Awaited
    /\ ReadLoop
    /\ SlotsExact

-----------------------------------------------------------------------------
(* Lists.                                                                  *)

\* A list with one more element at its end.
LEMMA Appended ==
    ASSUME NEW S, NEW s \in Seq(S), NEW c \in S
    PROVE  /\ Append(s, c) \in Seq(S)
           /\ \A x : Has(Append(s, c), x) <=> x = c \/ Has(s, x)
           /\ Distinct(s) /\ ~Has(s, c) => Distinct(Append(s, c))
<1> DEFINE t == Append(s, c)
<1>1. /\ t \in Seq(S) /\ DOMAIN s = 1 .. Len(s) /\ Len(s) \in Nat
      /\ DOMAIN t = 1 .. (Len(s) + 1)
      /\ \A i \in 1 .. Len(s) : t[i] = s[i]
      /\ t[Len(s) + 1] = c
  OBVIOUS
<1> HIDE DEF t
<1>2. ASSUME NEW x PROVE Has(t, x) <=> x = c \/ Has(s, x)
  BY <1>1 DEF Has
<1>3. Distinct(s) /\ ~Has(s, c) => Distinct(t)
  BY <1>1 DEF Has, Distinct
<1> QED
  BY <1>1, <1>2, <1>3 DEF t

\* A list without its first element.
LEMMA Tailed ==
    ASSUME NEW S, NEW s \in Seq(S), s # <<>>
    PROVE  /\ Tail(s) \in Seq(S) /\ Head(s) \in S /\ Has(s, Head(s))
           /\ \A x : Has(Tail(s), x) => Has(s, x)
           /\ Distinct(s) => Distinct(Tail(s))
<1> DEFINE t == Tail(s)
<1>1. /\ t \in Seq(S) /\ DOMAIN s = 1 .. Len(s) /\ Len(s) \in Nat \ {0}
      /\ DOMAIN t = 1 .. (Len(s) - 1)
      /\ \A i \in 1 .. (Len(s) - 1) : t[i] = s[i + 1]
      /\ Head(s) = s[1] /\ s[1] \in S
  OBVIOUS
<1> HIDE DEF t
<1>2. Has(s, Head(s))
  BY <1>1 DEF Has
<1>3. ASSUME NEW x, Has(t, x) PROVE Has(s, x)
  <2>1. PICK i \in DOMAIN t : t[i] = x
    BY <1>3 DEF Has
  <2>2. i + 1 \in DOMAIN s /\ s[i + 1] = x
    BY <1>1, <2>1
  <2> QED
    BY <2>2 DEF Has
<1>4. Distinct(s) => Distinct(t)
  <2> SUFFICES ASSUME Distinct(s), NEW i \in DOMAIN t, NEW j \in DOMAIN t,
                      t[i] = t[j]
               PROVE  i = j
    BY DEF Distinct
  <2>1. i + 1 \in DOMAIN s /\ j + 1 \in DOMAIN s /\ s[i + 1] = s[j + 1]
    BY <1>1
  <2> QED
    BY <2>1, <1>1 DEF Distinct
<1> QED
  BY <1>1, <1>2, <1>3, <1>4 DEF t

\* A list up to, and without, its n-th element.
LEMMA Shortened ==
    ASSUME NEW S, NEW s \in Seq(S), NEW n \in DOMAIN s
    PROVE  /\ SubSeq(s, 1, n - 1) \in Seq(S) /\ s[n] \in S /\ Has(s, s[n])
           /\ \A x : Has(SubSeq(s, 1, n - 1), x) => Has(s, x)
           /\ Distinct(s) => /\ ~Has(SubSeq(s, 1, n - 1), s[n])
                             /\ Distinct(SubSeq(s, 1, n - 1))
<1> DEFINE t == SubSeq(s, 1, n - 1)
<1>1. /\ t \in Seq(S) /\ DOMAIN s = 1 .. Len(s) /\ Len(s) \in Nat /\ n \in Nat
      /\ DOMAIN t = 1 .. (n - 1)
      /\ \A i \in 1 .. (n - 1) : t[i] = s[i]
      /\ s[n] \in S
  OBVIOUS
<1> HIDE DEF t
<1>2. ASSUME NEW x, Has(t, x) PROVE Has(s, x)
  BY <1>1, <1>2 DEF Has
<1>3. Distinct(s) => Distinct(t) /\ ~Has(t, s[n])
  BY <1>1 DEF Has, Distinct
<1> QED
  BY <1>1, <1>2, <1>3 DEF t, Has

-----------------------------------------------------------------------------
(* Operations on the pool.                                                 *)

\* From p to q one connection of S at most is closed, and its slot is free.
Closes(p, q, S) ==
    \/ q.closed = p.closed /\ q.cnt = p.cnt
    \/ \E x \in S \ p.closed : q.closed = p.closed \cup {x} /\ q.cnt = p.cnt - 1

\* closeLocked frees the slot of a connection at the first call only.
LEMMA CloseFacts ==
    ASSUME NEW p \in PoolRec, NEW c \in PConns
    PROVE  /\ closeLocked(p, c) \in PoolRec
           /\ closeLocked(p, c).idle = p.idle
           /\ Closes(p, closeLocked(p, c), {c})
<1>1. CASE c \in p.closed
  BY <1>1 DEF closeLocked, Closes
<1>2. CASE c \notin p.closed
  <2> DEFINE q == closeLocked(p, c)
  <2>1. q = [p EXCEPT !.broken = @ \cup {c}, !.closed = @ \cup {c}, !.cnt = @ - 1]
    BY <1>2 DEF closeLocked
  <2> HIDE DEF q
  <2>2. q \in PoolRec
    <3>1. /\ p.broken \cup {c} \in SUBSET PConns
          /\ p.closed \cup {c} \in SUBSET PConns
          /\ p.cnt - 1 \in Int
      BY DEF PoolRec
    <3> QED
      BY <2>1, <3>1 DEF PoolRec
  <2>3. q.idle = p.idle /\ q.closed = p.closed \cup {c} /\ q.cnt = p.cnt - 1
    BY <2>1 DEF PoolRec
  <2>4. Closes(p, q, {c})
    BY <1>2, <2>3 DEF Closes
  <2> QED
    BY <2>2, <2>3, <2>4 DEF q
<1> QED
  BY <1>1, <1>2

\* Pooled keeps the list within its bound by closing the oldest.
LEMMA PooledFacts ==
    ASSUME NEW p \in PoolRec, NEW c \in PConns, maxIdle \in Nat, maxIdle > 0
    PROVE  /\ Pooled(p, c) \in PoolRec
           /\ Closes(p, Pooled(p, c), {x \in PConns : Has(p.idle, x)})
           /\ \A x : Has(Pooled(p, c).idle, x) => x = c \/ Has(p.idle, x)
           /\ Distinct(p.idle) /\ ~Has(p.idle, c) => Distinct(Pooled(p, c).idle)
<1>0. p.idle \in Seq(PConns)
  BY DEF PoolRec
<1>1. CASE Len(p.idle) >= maxIdle
  <2> DEFINE q == [p EXCEPT !.idle = Append(Tail(@), c), !.onCh = {}]
  <2>1. p.idle # <<>> /\ Len(p.idle) \in Nat
    BY <1>0, <1>1
  <2>2. /\ Tail(p.idle) \in Seq(PConns) /\ Head(p.idle) \in PConns
        /\ Has(p.idle, Head(p.idle))
        /\ \A x : Has(Tail(p.idle), x) => Has(p.idle, x)
        /\ Distinct(p.idle) => Distinct(Tail(p.idle))
    BY <1>0, <2>1, Tailed
  <2>3. /\ Append(Tail(p.idle), c) \in Seq(PConns)
        /\ \A x : Has(Append(Tail(p.idle), c), x) <=> x = c \/ Has(Tail(p.idle), x)
        /\ Distinct(Tail(p.idle)) /\ ~Has(Tail(p.idle), c)
             => Distinct(Append(Tail(p.idle), c))
    BY <2>2, Appended
  <2>4. /\ q \in PoolRec /\ q.idle = Append(Tail(p.idle), c)
        /\ q.closed = p.closed /\ q.cnt = p.cnt
    BY <2>3 DEF PoolRec
  <2>5. Pooled(p, c) = closeLocked(q, Head(p.idle))
    BY <1>1 DEF Pooled
  <2> HIDE DEF q
  <2>6. /\ Pooled(p, c) \in PoolRec /\ Pooled(p, c).idle = q.idle
        /\ Closes(q, Pooled(p, c), {Head(p.idle)})
    BY <2>2, <2>4, <2>5, CloseFacts
  <2>7. Closes(p, Pooled(p, c), {x \in PConns : Has(p.idle, x)})
    BY <2>2, <2>4, <2>6 DEF Closes
  <2> QED
    BY <2>2, <2>3, <2>4, <2>6, <2>7
<1>2. CASE ~(Len(p.idle) >= maxIdle)
  <2> DEFINE q == [p EXCEPT !.idle = Append(@, c), !.onCh = {}]
  <2>1. /\ Append(p.idle, c) \in Seq(PConns)
        /\ \A x : Has(Append(p.idle, c), x) <=> x = c \/ Has(p.idle, x)
        /\ Distinct(p.idle) /\ ~Has(p.idle, c) => Distinct(Append(p.idle, c))
    BY <1>0, Appended
  <2>2. /\ q \in PoolRec /\ q.idle = Append(p.idle, c)
        /\ q.closed = p.closed /\ q.cnt = p.cnt
    BY <2>1 DEF PoolRec
  <2>3. Pooled(p, c) = q
    BY <1>2 DEF Pooled
  <2> HIDE DEF q
  <2> QED
    BY <2>1, <2>2, <2>3 DEF Closes
<1> QED
  BY <1>1, <1>2

\* What putIdleConn may do with c: drop it, give it to a caller that waits in
\* its select, or append it to the idle list.
Dropped(c, callNow) == call' = callNow /\ pool'.idle = pool.idle
Given(c, callNow) ==
    /\ pool'.idle = pool.idle
    /\ \E r \in Callers : call[r].at = "select"
                          /\ call' = [callNow EXCEPT ![r] = At("got", c)]
Listed(c, callNow) ==
    /\ call' = callNow
    /\ \A x : Has(pool'.idle, x) => x = c \/ Has(pool.idle, x)
    /\ Distinct(pool.idle) /\ ~Has(pool.idle, c) => Distinct(pool'.idle)

\* putIdleConn puts a connection into the idle list, hands it to a waiting
\* caller, or closes it; nothing else gets it.
LEMMA PutIdleFacts ==
    ASSUME PoolTypeOK, NEW c \in PConns, NEW kept \in BOOLEAN, NEW callNow,
           putIdleConn(c, kept, callNow)
    PROVE  /\ pool' \in PoolRec
           /\ Closes(pool, pool', {c} \cup {x \in PConns : Has(pool.idle, x)})
           /\ Dropped(c, callNow) \/ Given(c, callNow) \/ Listed(c, callNow)
<1>0. maxIdle \in Nat /\ pool \in PoolRec
  BY PoolAssumption DEF PoolTypeOK
<1>1. CASE maxIdle = 0 /\ pool' = closeLocked(pool, c) /\ call' = callNow
  BY <1>0, <1>1, CloseFacts DEF Closes, Dropped
<1>2. CASE UNCHANGED pool /\ call' = callNow
  BY <1>0, <1>2 DEF Closes, Dropped
<1>3. CASE \E r \in Receivers :
             /\ pool' = [pool EXCEPT !.onCh = @ \ {r}]
             /\ call' = [callNow EXCEPT ![r] = At("got", c)]
  <2>1. PICK r \in Receivers :
             /\ pool' = [pool EXCEPT !.onCh = @ \ {r}]
             /\ call' = [callNow EXCEPT ![r] = At("got", c)]
    BY <1>3
  <2>2. r \in Callers /\ call[r].at = "select"
    BY <1>0 DEF Receivers, PoolRec
  <2>3. /\ pool' \in PoolRec /\ pool'.idle = pool.idle
        /\ pool'.closed = pool.closed /\ pool'.cnt = pool.cnt
    BY <1>0, <2>1 DEF PoolRec
  <2> QED
    BY <2>1, <2>2, <2>3 DEF Given, Closes
<1>4. CASE maxIdle > 0 /\ pool' = Pooled(pool, c) /\ call' = callNow
  BY <1>0, <1>4, PooledFacts DEF Closes, Listed
<1> QED
  BY <1>1, <1>2, <1>3, <1>4 DEF putIdleConn

-----------------------------------------------------------------------------
(* The steps.                                                              *)

Step(r) ==
    \/ getIdleConn(r) \/ getIdleConnCh(r) \/ checkAndIncConnCnt(r)
    \/ dialFailed(r) \/ dialConn(r) \/ dialWins(r) \/ giveAway(r)
    \/ roundTrip(r) \/ roundTripFails(r)
    \/ bodyEOF(r) \/ bodyAbandoned(r) \/ writeTimer(r)
    \/ startWrite(r) \/ endWrite(r)
    \/ peek(r) \/ checkExpected(r) \/ readResponse(r) \/ putBack(r)
    \/ deliver(r) \/ endResponse(r)

\* A caller that moves to another place keeps or drops its connection.
LEMMA CallTyped ==
    ASSUME call \in [Callers -> CallRec], NEW r \in Callers
    PROVE  /\ \A pc \in {"new", "miss", "select", "got", "wait", "written", "unwritten",
                        "body", "late", "done"} :
                /\ [call EXCEPT ![r].at = pc] \in [Callers -> CallRec]
                /\ \A c \in PConns : [call EXCEPT ![r] = At(pc, c)] \in [Callers -> CallRec]
           /\ [call EXCEPT ![r] = Done] \in [Callers -> CallRec]
  BY DEF CallRec, At, Done

\* The pool with one of its fields changed is a pool.
LEMMA PoolTyped ==
    ASSUME NEW p \in PoolRec
    PROVE  /\ \A s \in Seq(PConns) : [p EXCEPT !.idle = s] \in PoolRec
           /\ \A S \in SUBSET Callers : [p EXCEPT !.onCh = S] \in PoolRec
           /\ \A n \in Int : [p EXCEPT !.cnt = n] \in PoolRec
           /\ \A S \in SUBSET PConns : [p EXCEPT !.broken = S] \in PoolRec
           /\ \A S \in SUBSET PConns : [p EXCEPT !.cut = S] \in PoolRec
           /\ p.idle \in Seq(PConns) /\ p.onCh \in SUBSET Callers /\ p.cnt \in Int
           /\ p.broken \in SUBSET PConns /\ p.cut \in SUBSET PConns
           /\ p.closed \in SUBSET PConns
  BY DEF PoolRec

\* A connection given to a caller.
LEMMA GivenTyped ==
    ASSUME NEW now \in [Callers -> CallRec], NEW c \in PConns, Given(c, now)
    PROVE  call' \in [Callers -> CallRec]
  BY DEF Given, At, CallRec

\* What readLoop may have in hand.
LEMMA ReplyTyped ==
    /\ \A ok \in BOOLEAN : [NoReply EXCEPT !.ok = ok] \in Replies
    /\ NoReply \in Replies
    /\ \A q \in Callers : [to |-> q, ok |-> FALSE, resp |-> NoResponse] \in Replies
    /\ \A q \in Callers, e \in Responses : [to |-> q, ok |-> TRUE, resp |-> e] \in Replies
    /\ \A a \in Replies, b \in BOOLEAN : [a EXCEPT !.resp.last = b] \in Replies
  BY DEF NoReply, NoResponse, Replies, Responses

\* Every step keeps the types.
LEMMA TypeStep ==
    ASSUME PoolTypeOK, Attached, ReadLoop,
           PoolNext
    PROVE  PoolTypeOK'
<1> SUFFICES ASSUME NEW r \in Callers, Step(r) PROVE PoolTypeOK'
  BY DEF PoolNext, Step
<1>m. maxIdle \in MaxIdles
  BY DEF PoolTypeOK
<1>pool. pool \in PoolRec
  BY DEF PoolTypeOK
<1>call. call \in [Callers -> CallRec]
  BY DEF PoolTypeOK
<1>dialc. dialc \in [Callers -> {"none", "count", "dialing", "ready", "failed"}]
  BY DEF PoolTypeOK
<1>reqConn. reqConn \in [Handles -> PConns \cup {NoCaller}]
  BY DEF PoolTypeOK
<1>expected. expected \in [PConns -> Nat]
  BY DEF PoolTypeOK
<1>writech. writech \in [PConns -> Seq(Callers)]
  BY DEF PoolTypeOK
<1>reqch. reqch \in [PConns -> Seq(Callers)]
  BY DEF PoolTypeOK
<1>writing. writing \in [PConns -> Callers \cup {NoCaller}]
  BY DEF PoolTypeOK
<1>wire. wire \in [PConns -> Seq(Callers)]
  BY DEF PoolTypeOK
<1>loop. loop \in [PConns -> {"off", "peek", "check", "read", "put",
                       "deliver", "end", "exit"}]
  BY DEF PoolTypeOK
<1>answer. answer \in [PConns -> Replies]
  BY DEF PoolTypeOK
<1>bodyRead. bodyRead \in [PConns -> {"none", "again", "stop"}]
  BY DEF PoolTypeOK
<1>1. CASE getIdleConn(r)
  <2>11. pool' \in PoolRec
    <3>1. pool.idle \in Seq(PConns)
      BY <1>pool, PoolTyped
    <3>2. CASE pool' = [pool EXCEPT !.idle = <<>>]
      <4>1. <<>> \in Seq(PConns)
        OBVIOUS
      <4> QED
        BY <3>2, <4>1, <1>pool, PoolTyped
    <3>3. CASE \E i \in DOMAIN pool.idle :
                 pool' = [pool EXCEPT !.idle = SubSeq(@, 1, i - 1)]
      <4>1. PICK i \in DOMAIN pool.idle :
              pool' = [pool EXCEPT !.idle = SubSeq(@, 1, i - 1)]
        BY <3>3
      <4>2. SubSeq(pool.idle, 1, i - 1) \in Seq(PConns)
        BY <3>1, Shortened
      <4> QED
        BY <4>1, <4>2, <1>pool, PoolTyped
    <3> QED
      BY <1>1, <3>2, <3>3 DEF getIdleConn
  <2>12. call' \in [Callers -> CallRec]
    <3>1. \A i \in DOMAIN pool.idle : pool.idle[i] \in PConns
      BY <1>pool DEF PoolRec
    <3>2. \/ call' = [call EXCEPT ![r].at = "miss"]
          \/ \E i \in DOMAIN pool.idle : call' = [call EXCEPT ![r] = At("got", pool.idle[i])]
      BY <1>1 DEF getIdleConn
    <3>3. CASE call' = [call EXCEPT ![r].at = "miss"]
      BY <3>3, <1>call, CallTyped
    <3>4. ASSUME NEW i \in DOMAIN pool.idle, call' = [call EXCEPT ![r] = At("got", pool.idle[i])]
          PROVE  call' \in [Callers -> CallRec]
      <4>1. pool.idle[i] \in PConns
        BY <3>1
      <4> HIDE <3>1
      <4> QED
        BY <4>1, <3>4, <1>call DEF At, CallRec
    <3> QED
      BY <3>2, <3>3, <3>4
  <2>13. dialc' \in [Callers -> {"none", "count", "dialing", "ready", "failed"}]
    BY <1>1, <1>dialc DEF getIdleConn, PConns
  <2> QED
    BY <1>1, <2>11, <2>12, <2>13, <1>m, <1>reqConn, <1>expected, <1>writech, <1>reqch,
       <1>writing, <1>wire, <1>loop, <1>answer, <1>bodyRead
       DEF getIdleConn, connVars, PoolTypeOK
<1>2. CASE getIdleConnCh(r)
  <2>11. pool' \in PoolRec
    BY <1>2, <1>pool, PoolTyped DEF getIdleConnCh, PConns
  <2>12. call' \in [Callers -> CallRec]
    BY <1>2, <1>call, CallTyped DEF getIdleConnCh, PConns
  <2> QED
    BY <1>2, <2>11, <2>12, <1>m, <1>dialc, <1>reqConn, <1>expected, <1>writech,
       <1>reqch, <1>writing, <1>wire, <1>loop, <1>answer, <1>bodyRead
       DEF getIdleConnCh, connVars, PoolTypeOK
<1>3. CASE checkAndIncConnCnt(r)
  <2>11. pool' \in PoolRec
    <3>1. pool' = pool \/ pool' = [pool EXCEPT !.cnt = pool.cnt + 1]
      BY <1>3 DEF checkAndIncConnCnt
    <3>2. pool.cnt + 1 \in Int
      BY <1>pool, PoolTyped
    <3> QED
      BY <3>1, <3>2, <1>pool, PoolTyped
  <2>12. dialc' \in [Callers -> {"none", "count", "dialing", "ready", "failed"}]
    BY <1>3, <1>dialc DEF checkAndIncConnCnt, PConns
  <2> QED
    BY <1>3, <2>11, <2>12, <1>m, <1>call, <1>reqConn, <1>expected, <1>writech, <1>reqch,
       <1>writing, <1>wire, <1>loop, <1>answer, <1>bodyRead
       DEF checkAndIncConnCnt, connVars, PoolTypeOK
<1>4. CASE dialFailed(r)
  <2>11. pool' \in PoolRec
    BY <1>4, <1>pool, PoolTyped DEF dialFailed, PConns
  <2>12. dialc' \in [Callers -> {"none", "count", "dialing", "ready", "failed"}]
    BY <1>4, <1>dialc DEF dialFailed, PConns
  <2> QED
    BY <1>4, <2>11, <2>12, <1>m, <1>call, <1>reqConn, <1>expected, <1>writech, <1>reqch,
       <1>writing, <1>wire, <1>loop, <1>answer, <1>bodyRead
       DEF dialFailed, connVars, PoolTypeOK
<1>5. CASE dialConn(r)
  <2>11. dialc' \in [Callers -> {"none", "count", "dialing", "ready", "failed"}]
    BY <1>5, <1>dialc DEF dialConn, PConns
  <2>12. loop' \in [PConns -> {"off", "peek", "check", "read", "put",
                         "deliver", "end", "exit"}]
    BY <1>5, <1>loop DEF dialConn, PConns
  <2> QED
    BY <1>5, <2>11, <2>12, <1>m, <1>pool, <1>call, <1>reqConn, <1>expected, <1>writech,
       <1>reqch, <1>writing, <1>wire, <1>answer, <1>bodyRead
       DEF dialConn, PoolTypeOK
<1>6. CASE dialWins(r)
  <2>11. pool' \in PoolRec
    BY <1>6, <1>pool, PoolTyped DEF dialWins, PConns
  <2>12. call' \in [Callers -> CallRec]
    <3>1. At("got", r) \in CallRec /\ Done \in CallRec
      BY DEF At, Done, CallRec, PConns
    <3> QED
      BY <1>6, <3>1, <1>call DEF dialWins
  <2>13. dialc' \in [Callers -> {"none", "count", "dialing", "ready", "failed"}]
    BY <1>6, <1>dialc DEF dialWins, PConns
  <2> QED
    BY <1>6, <2>11, <2>12, <2>13, <1>m, <1>reqConn, <1>expected, <1>writech, <1>reqch,
       <1>writing, <1>wire, <1>loop, <1>answer, <1>bodyRead
       DEF dialWins, connVars, PoolTypeOK
<1>7. CASE giveAway(r)
  <2>11. pool' \in PoolRec /\ call' \in [Callers -> CallRec]
    <3>1. CASE dialc[r] = "ready"
      <4>1. PICK kept \in BOOLEAN : putIdleConn(r, kept, call)
        BY <1>7, <3>1 DEF giveAway
      <4>2. /\ pool' \in PoolRec
            /\ Dropped(r, call) \/ Given(r, call) \/ Listed(r, call)
        BY <4>1, PutIdleFacts DEF PConns
      <4> QED
        BY <4>2, <1>call, GivenTyped DEF Dropped, Listed, PConns
    <3>2. CASE dialc[r] # "ready"
      BY <1>7, <3>2, <1>pool, <1>call DEF giveAway
    <3> QED
      BY <3>1, <3>2
  <2>12. dialc' \in [Callers -> {"none", "count", "dialing", "ready", "failed"}]
    BY <1>7, <1>dialc DEF giveAway, PConns
  <2> QED
    BY <1>7, <2>11, <2>12, <1>m, <1>reqConn, <1>expected, <1>writech, <1>reqch,
       <1>writing, <1>wire, <1>loop, <1>answer, <1>bodyRead
       DEF giveAway, connVars, PoolTypeOK
<1>8. CASE roundTrip(r)
  <2>0. call[r].on \in PConns
    BY <1>8 DEF roundTrip, Attached, AwaitsAnswer
  <2>11. call' \in [Callers -> CallRec]
    BY <1>8, <1>call, <2>0, CallTyped DEF roundTrip, PConns
  <2>12. reqConn' \in [Handles -> PConns \cup {NoCaller}]
    BY <1>8, <1>reqConn, <2>0 DEF roundTrip, Handles, PConns
  <2>13. expected' \in [PConns -> Nat]
    BY <1>8, <1>expected, <2>0 DEF roundTrip, PConns
  <2>14. writech' \in [PConns -> Seq(Callers)]
    BY <1>8, <1>writech, <2>0 DEF roundTrip, PConns
  <2>15. reqch' \in [PConns -> Seq(Callers)]
    BY <1>8, <1>reqch, <2>0 DEF roundTrip, PConns
  <2> QED
    BY <1>8, <2>11, <2>12, <2>13, <2>14, <2>15, <1>m, <1>pool, <1>dialc, <1>writing,
       <1>wire, <1>loop, <1>answer, <1>bodyRead
       DEF roundTrip, PoolTypeOK
<1>9. CASE roundTripFails(r)
  <2>0. call[r].on \in PConns
    BY <1>9 DEF roundTripFails, Attached, AwaitsAnswer
  <2>11. pool' \in PoolRec
    <3>1. closeLocked(pool, call[r].on) \in PoolRec
      BY CloseFacts, <1>pool, <2>0 DEF PConns
    <3> QED
      BY <1>9, <1>pool, <3>1 DEF roundTripFails
  <2>12. call' \in [Callers -> CallRec]
    BY <1>9, <1>call, <2>0, CallTyped DEF roundTripFails, PConns
  <2>13. reqConn' \in [Handles -> PConns \cup {NoCaller}]
    BY <1>9, <1>reqConn, <2>0 DEF roundTripFails, Handles, PConns
  <2> QED
    BY <1>9, <2>11, <2>12, <2>13, <1>m, <1>dialc, <1>expected, <1>writech, <1>reqch,
       <1>writing, <1>wire, <1>loop, <1>answer, <1>bodyRead
       DEF roundTripFails, connVars, PoolTypeOK
<1>10. CASE bodyEOF(r)
  <2>0. call[r].on \in PConns
    BY <1>10 DEF bodyEOF, Attached, AwaitsAnswer
  <2> DEFINE c == call[r].on
             callNow == [call EXCEPT ![r] = Done]
  <2>1. PICK kept \in BOOLEAN :
          /\ bodyRead' = [bodyRead EXCEPT ![c] = IF kept THEN "again" ELSE "stop"]
          /\ IF answer[c].resp.last
             THEN ~kept /\ pool' = closeLocked(pool, c) /\ call' = callNow
             ELSE putIdleConn(c, kept, callNow)
    BY <1>10 DEF bodyEOF
  <2>2. callNow \in [Callers -> CallRec]
    BY <1>call, CallTyped
  <2> HIDE DEF c, callNow
  <2>11. pool' \in PoolRec /\ call' \in [Callers -> CallRec]
    <3>0. c \in PConns
      BY <2>0 DEF c
    <3>1. CASE answer[c].resp.last
      BY <3>0, <2>1, <2>2, <3>1, <1>pool, CloseFacts
    <3>2. CASE ~answer[c].resp.last
      <4>1. /\ pool' \in PoolRec
            /\ Dropped(c, callNow) \/ Given(c, callNow) \/ Listed(c, callNow)
        BY <3>0, <2>1, <3>2, PutIdleFacts
      <4> QED
        BY <3>0, <2>2, <4>1, GivenTyped DEF Dropped, Listed
    <3> QED
      BY <3>1, <3>2
  <2>12. bodyRead' \in [PConns -> {"none", "again", "stop"}]
    BY <2>1, <1>bodyRead
  <2> QED
    BY <1>10, <2>11, <2>12, <1>m, <1>dialc, <1>reqConn, <1>expected, <1>writech,
       <1>reqch, <1>writing, <1>wire, <1>loop, <1>answer
       DEF bodyEOF, PoolTypeOK
<1>11. CASE bodyAbandoned(r)
  <2>0. call[r].on \in PConns
    BY <1>11 DEF bodyAbandoned, Attached, AwaitsAnswer
  <2>11. pool' \in PoolRec
    <3>1. closeLocked(pool, call[r].on) \in PoolRec
      BY CloseFacts, <1>pool, <2>0 DEF PConns
    <3> QED
      BY <1>11, <1>pool, <3>1 DEF bodyAbandoned
  <2>12. call' \in [Callers -> CallRec]
    BY <1>11, <1>call, <2>0, CallTyped DEF bodyAbandoned, PConns
  <2>13. bodyRead' \in [PConns -> {"none", "again", "stop"}]
    BY <1>11, <1>bodyRead, <2>0 DEF bodyAbandoned, PConns
  <2> QED
    BY <1>11, <2>11, <2>12, <2>13, <1>m, <1>dialc, <1>reqConn, <1>expected, <1>writech,
       <1>reqch, <1>writing, <1>wire, <1>loop, <1>answer
       DEF bodyAbandoned, PoolTypeOK
<1>12. CASE writeTimer(r)
  <2>11. pool' \in PoolRec
    <3> DEFINE c == reqConn[<<r, "req">>]
    <3>1. c \in PConns \cup {NoCaller}
      BY <1>reqConn DEF Handles
    <3>2. pool' = pool \/ (c # NoCaller /\ pool' = [pool EXCEPT !.cut = pool.cut \cup {c}])
      BY <1>12 DEF writeTimer
    <3> HIDE DEF c
    <3>3. c # NoCaller => pool.cut \cup {c} \in SUBSET PConns
      BY <3>1, <1>pool, PoolTyped
    <3> QED
      BY <3>2, <3>3, <1>pool, PoolTyped
  <2>12. call' \in [Callers -> CallRec]
    BY <1>12, <1>call, CallTyped DEF writeTimer, PConns
  <2> QED
    BY <1>12, <2>11, <2>12, <1>m, <1>dialc, <1>reqConn, <1>expected, <1>writech,
       <1>reqch, <1>writing, <1>wire, <1>loop, <1>answer, <1>bodyRead
       DEF writeTimer, connVars, PoolTypeOK
<1>13. CASE startWrite(r)
  <2>0. Head(writech[r]) \in Callers
    BY <1>13, <1>writech DEF startWrite, PConns
  <2>11. call' \in [Callers -> CallRec]
    <3>1. call' = call \/ call' = [call EXCEPT ![Head(writech[r])].at = "unwritten"]
      BY <1>13 DEF startWrite, reportWrite
    <3> QED
      BY <3>1, <2>0, <1>call DEF CallRec
  <2>12. writech' \in [PConns -> Seq(Callers)]
    BY <1>13, <1>writech, <2>0 DEF startWrite, PConns
  <2>13. writing' \in [PConns -> Callers \cup {NoCaller}]
    BY <1>13, <1>writing, <2>0 DEF startWrite, PConns
  <2>14. wire' \in [PConns -> Seq(Callers)]
    <3>1. Append(wire[r], Head(writech[r])) \in Seq(Callers)
      BY <2>0, <1>wire DEF PConns
    <3>2. wire' = wire \/ wire' = [wire EXCEPT ![r] = Append(wire[r], Head(writech[r]))]
      BY <1>13 DEF startWrite
    <3> QED
      BY <3>1, <3>2, <1>wire
  <2> QED
    BY <1>13, <2>11, <2>12, <2>13, <2>14, <1>m, <1>pool, <1>dialc, <1>reqConn,
       <1>expected, <1>reqch, <1>loop, <1>answer, <1>bodyRead
       DEF startWrite, PoolTypeOK
<1>14. CASE endWrite(r)
  <2>11. pool' \in PoolRec
    BY <1>14, <1>pool, PoolTyped, SMTT(30) DEF endWrite, PConns
  <2>12. call' \in [Callers -> CallRec]
    <3>1. writing[r] \in Callers
      BY <1>14, <1>writing DEF endWrite, PConns
    <3>2. \/ call' = call
          \/ call' = [call EXCEPT ![writing[r]].at = "written"]
          \/ call' = [call EXCEPT ![writing[r]].at = "unwritten"]
      BY <1>14 DEF endWrite, reportWrite
    <3> QED
      BY <3>1, <3>2, <1>call DEF CallRec
  <2>13. writing' \in [PConns -> Callers \cup {NoCaller}]
    BY <1>14, <1>writing DEF endWrite, PConns
  <2> QED
    BY <1>14, <2>11, <2>12, <2>13, <1>m, <1>dialc, <1>reqConn, <1>expected, <1>writech,
       <1>reqch, <1>wire, <1>loop, <1>answer, <1>bodyRead
       DEF endWrite, PoolTypeOK
<1>15. CASE peek(r)
  <2>11. loop' \in [PConns -> {"off", "peek", "check", "read", "put",
                         "deliver", "end", "exit"}]
    BY <1>15, <1>loop DEF peek, PConns
  <2>12. answer' \in [PConns -> Replies]
    BY <1>15, <1>answer, ReplyTyped DEF peek, PConns
  <2> QED
    BY <1>15, <2>11, <2>12, <1>m, <1>pool, <1>call, <1>dialc, <1>reqConn, <1>expected,
       <1>writech, <1>reqch, <1>writing, <1>wire, <1>bodyRead
       DEF peek, loopVars, PoolTypeOK
<1>16. CASE checkExpected(r)
  <2>11. pool' \in PoolRec
    <3>1. closeLocked(pool, r) \in PoolRec
      BY CloseFacts, <1>pool DEF PConns
    <3> QED
      BY <1>16, <1>pool, <3>1 DEF checkExpected
  <2>12. loop' \in [PConns -> {"off", "peek", "check", "read", "put",
                         "deliver", "end", "exit"}]
    BY <1>16, <1>loop DEF checkExpected, PConns
  <2> QED
    BY <1>16, <2>11, <2>12, <1>m, <1>call, <1>dialc, <1>reqConn, <1>expected,
       <1>writech, <1>reqch, <1>writing, <1>wire, <1>answer, <1>bodyRead
       DEF checkExpected, loopVars, PoolTypeOK
<1>17. CASE readResponse(r)
  <2>0. Head(reqch[r]) \in Callers /\ (answer[r].ok => wire[r] # <<>>)
    BY <1>17, <1>reqch DEF readResponse, ReadLoop, Asked, PConns
  <2>11. pool' \in PoolRec
    <3>1. closeLocked(pool, r) \in PoolRec
      BY CloseFacts, <1>pool DEF PConns
    <3> QED
      BY <1>17, <1>pool, <3>1 DEF readResponse
  <2>12. reqch' \in [PConns -> Seq(Callers)]
    BY <1>17, <1>reqch, <2>0 DEF readResponse, PConns
  <2>13. wire' \in [PConns -> Seq(Callers)]
    <3>1. wire[r] # <<>> => Tail(wire[r]) \in Seq(Callers)
      BY <1>wire DEF PConns
    <3>2. wire' = wire \/ (answer[r].ok /\ wire' = [wire EXCEPT ![r] = Tail(wire[r])])
      BY <1>17 DEF readResponse
    <3> QED
      BY <2>0, <3>1, <3>2, <1>wire
  <2>14. loop' \in [PConns -> {"off", "peek", "check", "read", "put",
                         "deliver", "end", "exit"}]
    BY <1>17, <1>loop, <2>0 DEF readResponse, PConns
  <2>15. answer' \in [PConns -> Replies]
    BY <1>17, <1>answer, <2>0, ReplyTyped DEF readResponse, PConns
  <2> QED
    BY <1>17, <2>11, <2>12, <2>13, <2>14, <2>15, <1>m, <1>call, <1>dialc, <1>reqConn,
       <1>expected, <1>writech, <1>writing, <1>bodyRead
       DEF readResponse, loopVars, PoolTypeOK
<1>18. CASE putBack(r)
  <2>1. PICK kept \in BOOLEAN :
          /\ putIdleConn(r, kept, call)
          /\ answer' = [answer EXCEPT ![r].resp.last = ~kept]
    BY <1>18 DEF putBack
  <2>11. pool' \in PoolRec /\ call' \in [Callers -> CallRec]
    <3>1. /\ pool' \in PoolRec
          /\ Dropped(r, call) \/ Given(r, call) \/ Listed(r, call)
      BY <2>1, PutIdleFacts DEF PConns
    <3> QED
      BY <3>1, <1>call, GivenTyped DEF Dropped, Listed, PConns
  <2>12. loop' \in [PConns -> {"off", "peek", "check", "read", "put",
                         "deliver", "end", "exit"}]
    BY <1>18, <1>loop DEF putBack, PConns
  <2>13. answer' \in [PConns -> Replies]
    BY <2>1, <1>answer, ReplyTyped DEF PConns
  <2> QED
    BY <1>18, <2>11, <2>12, <2>13, <1>m, <1>dialc, <1>reqConn, <1>expected, <1>writech,
       <1>reqch, <1>writing, <1>wire, <1>bodyRead
       DEF putBack, loopVars, PoolTypeOK
<1>19. CASE deliver(r)
  <2>0. answer[r].to \in Callers /\ expected[r] - 1 \in Nat
    BY <1>19, <1>expected DEF deliver, ReadLoop, PConns
  <2>11. call' \in [Callers -> CallRec]
    <3>1. At("body", r) \in CallRec /\ Done \in CallRec
      BY DEF At, Done, CallRec, PConns
    <3> QED
      BY <1>19, <3>1, <1>call DEF deliver
  <2>12. expected' \in [PConns -> Nat]
    BY <1>19, <1>expected, <2>0 DEF deliver, PConns
  <2>13. loop' \in [PConns -> {"off", "peek", "check", "read", "put",
                         "deliver", "end", "exit"}]
    BY <1>19, <1>loop, <2>0 DEF deliver, PConns
  <2> QED
    BY <1>19, <2>11, <2>12, <2>13, <1>m, <1>pool, <1>dialc, <1>reqConn, <1>writech,
       <1>reqch, <1>writing, <1>wire, <1>answer, <1>bodyRead
       DEF deliver, loopVars, PoolTypeOK
<1>20. CASE endResponse(r)
  <2>0. answer[r].to \in Callers
    BY <1>20 DEF endResponse, ReadLoop, PConns
  <2>11. pool' \in PoolRec
    <3>1. closeLocked(pool, r) \in PoolRec
      BY CloseFacts, <1>pool DEF PConns
    <3> QED
      BY <1>20, <1>pool, <3>1 DEF endResponse
  <2>12. reqConn' \in [Handles -> PConns \cup {NoCaller}]
    BY <1>20, <1>reqConn, <2>0 DEF endResponse, Handles, PConns
  <2>13. loop' \in [PConns -> {"off", "peek", "check", "read", "put",
                         "deliver", "end", "exit"}]
    BY <1>20, <1>loop, <2>0 DEF endResponse, PConns
  <2>14. answer' \in [PConns -> Replies]
    BY <1>20, <1>answer, <2>0, ReplyTyped DEF endResponse, PConns
  <2>15. bodyRead' \in [PConns -> {"none", "again", "stop"}]
    BY <1>20, <1>bodyRead, <2>0 DEF endResponse, PConns
  <2> QED
    BY <1>20, <2>11, <2>12, <2>13, <2>14, <2>15, <1>m, <1>call, <1>dialc, <1>expected,
       <1>writech, <1>reqch, <1>writing, <1>wire
       DEF endResponse, loopVars, PoolTypeOK
<1> QED
  BY <1>1, <1>2, <1>3, <1>4, <1>5, <1>6, <1>7, <1>8, <1>9, <1>10, <1>11,
     <1>12, <1>13, <1>14, <1>15, <1>16, <1>17, <1>18, <1>19, <1>20 DEF Step

-----------------------------------------------------------------------------
(* The hands.  A step that gains no connection for a hand keeps Exclusive; *)
(* the other steps move one connection from one hand to another.           *)

NoGain(c) ==
    /\ Dialled(c)' => Dialled(c)
    /\ Idle(c)' => Idle(c)
    /\ \A r \in Callers : Owns(r, c)' => Owns(r, c)
    /\ Asked(c)' => Asked(c)
    /\ Returning(c)' => Returning(c)
    /\ Answering(c)' => Answering(c)

\* What Exclusive says of one connection.
OneHand(c) ==
    /\ Dialled(c) => ~Idle(c) /\ ~Owned(c) /\ ~Asked(c) /\ ~Returning(c) /\ ~Answering(c)
    /\ Idle(c) => ~Owned(c) /\ ~Asked(c) /\ ~Returning(c) /\ ~Answering(c)
    /\ Owned(c) => ~Asked(c) /\ ~Returning(c) /\ ~Answering(c)
    /\ Asked(c) => ~Returning(c) /\ ~Answering(c)
    /\ \A r, q \in Callers : Owns(r, c) /\ Owns(q, c) => r = q

\* A connection that no hand gains stays in one hand at most.
LEMMA HandsKept ==
    ASSUME NEW c \in PConns, OneHand(c), NoGain(c)
    PROVE  OneHand(c)'
  BY DEF OneHand, NoGain, Owned

\* Exclusive, connection by connection.
LEMMA ByConnection ==
    /\ Exclusive <=> Distinct(pool.idle) /\ \A c \in PConns : OneHand(c)
    /\ Exclusive' <=> Distinct(pool'.idle) /\ \A c \in PConns : OneHand(c)'
  BY DEF Exclusive, OneHand

\* A step after which no hand has a connection that it had not before, no
\* loop is stopped before it has begun, and only made connections are closed.
LEMMA NothingGained ==
    ASSUME Exclusive, Made, Distinct(pool'.idle),
           \A c \in PConns : NoGain(c),
           \A c \in PConns : loop[c] # "off" => loop'[c] # "off",
           \A c \in pool'.closed : c \in pool.closed \/ loop[c] # "off"
    PROVE  Exclusive' /\ Made'
<1>1. Exclusive'
  BY HandsKept, ByConnection
<1>2. Made'
  <2> SUFFICES ASSUME NEW c \in PConns
               PROVE  /\ Dialled(c)' => loop'[c] # "off"
                      /\ Idle(c)' => loop'[c] # "off"
                      /\ Owned(c)' => loop'[c] # "off"
                      /\ Asked(c)' => loop'[c] # "off"
                      /\ c \in pool'.closed => loop'[c] # "off"
    BY DEF Made
  <2>1. NoGain(c)
    OBVIOUS
  <2> QED
    BY <2>1 DEF NoGain, Made, Owned
<1> QED
  BY <1>1, <1>2

\* A caller that waits still has its request in a channel or in readLoop's hand.
LEMMA AwaitedKept ==
    ASSUME Awaited,
           \A q \in Callers, c \in PConns : Waits(q, c)' => Waits(q, c),
           \A q \in Callers, c \in PConns : Asks(c, q) => Asks(c, q)',
           \A q \in Callers, c \in PConns : Answers(c, q) => Answers(c, q)'
    PROVE  Awaited'
  BY DEF Awaited

\* The part of the invariant that is about the hands.
Hands == Attached /\ Dialling /\ ReadLoop /\ Awaited /\ Made /\ Exclusive

\* getIdleConnCh moves its caller to the select.
LEMMA getIdleConnChHands ==
    ASSUME IInv, NEW r \in Callers, getIdleConnCh(r)
    PROVE  Hands'
<1>i. Attached /\ Dialling /\ ReadLoop /\ Awaited /\ Made /\ Exclusive
  BY DEF IInv
<1>tcall. call \in [Callers -> CallRec]
  BY DEF IInv, PoolTypeOK
<1>tpool. pool \in PoolRec
  BY DEF IInv, PoolTypeOK
<1>1. /\ call'[r].at = "select"
      /\ call'[r].on = call[r].on
      /\ \A x \in Callers : x # r => call'[x] = call[x]
  BY <1>tcall DEF getIdleConnCh, CallRec
<1>2. /\ pool'.idle = pool.idle
      /\ pool'.closed = pool.closed
  BY <1>tpool DEF getIdleConnCh, PoolRec
<1>3. UNCHANGED <<dialc, reqch, wire, loop, answer, expected>>
  BY DEF getIdleConnCh, connVars
<1>4. Attached'
  BY <1>i, <1>1, <1>2, <1>3 DEF Attached, AwaitsAnswer, PConns
<1>5. Dialling'
  BY <1>i, <1>1, <1>2, <1>3 DEF Dialling, PConns
<1>6. ReadLoop'
  BY <1>i, <1>1, <1>2, <1>3 DEF ReadLoop, Asked, Asks, PConns
<1>7. Awaited'
  <2>1. \A q \in Callers, c \in PConns : Waits(q, c)' => Waits(q, c)
    BY <1>1, <1>2, <1>3 DEF Waits, AwaitsAnswer, PConns
  <2>2. \A q \in Callers, c \in PConns : Asks(c, q) => Asks(c, q)'
    BY <1>1, <1>2, <1>3 DEF Asks
  <2>3. \A q \in Callers, c \in PConns : Answers(c, q) => Answers(c, q)'
    BY <1>1, <1>2, <1>3 DEF Answers, PConns
  <2> QED
    BY <1>i, <2>1, <2>2, <2>3, AwaitedKept
<1>8. Exclusive' /\ Made'
  <2>1. \A c \in PConns : NoGain(c)
    BY <1>1, <1>2, <1>3
       DEF NoGain, Dialled, Idle, Owns, Asked, Returning, Answering, PConns
  <2>2. \A c \in PConns : loop[c] # "off" => loop'[c] # "off"
    BY <1>1, <1>2, <1>3 DEF PConns
  <2>3. \A c \in pool'.closed : c \in pool.closed \/ loop[c] # "off"
    BY <1>1, <1>2, <1>3
  <2>4. Distinct(pool'.idle)
    BY <1>i, <1>1, <1>2, <1>3 DEF Exclusive
  <2> QED
    BY <1>i, <2>1, <2>2, <2>3, <2>4, NothingGained
<1> QED
  BY <1>4, <1>5, <1>6, <1>7, <1>8 DEF Hands

\* checkAndIncConnCnt lets the dial go on, or refuses it.
LEMMA checkAndIncConnCntHands ==
    ASSUME IInv, NEW r \in Callers, checkAndIncConnCnt(r)
    PROVE  Hands'
<1>i. Attached /\ Dialling /\ ReadLoop /\ Awaited /\ Made /\ Exclusive
  BY DEF IInv
<1>tpool. pool \in PoolRec
  BY DEF IInv, PoolTypeOK
<1>tdialc. dialc \in [Callers -> {"none", "count", "dialing", "ready", "failed"}]
  BY DEF IInv, PoolTypeOK
<1>2. /\ pool'.idle = pool.idle
      /\ pool'.closed = pool.closed
  BY <1>tpool DEF checkAndIncConnCnt, PoolRec
<1>3. /\ dialc[r] = "count"
      /\ dialc'[r] \in {"failed", "dialing"}
      /\ \A x \in Callers : x # r => dialc'[x] = dialc[x]
      /\ UNCHANGED <<call, reqch, wire, loop, answer, expected>>
  BY <1>tdialc DEF checkAndIncConnCnt, connVars
<1>4. Attached'
  BY <1>i, <1>2, <1>3 DEF Attached, AwaitsAnswer, PConns
<1>5. Dialling'
  BY <1>i, <1>2, <1>3 DEF Dialling, PConns
<1>6. ReadLoop'
  BY <1>i, <1>2, <1>3 DEF ReadLoop, Asked, Asks, PConns
<1>7. Awaited'
  <2>1. \A q \in Callers, c \in PConns : Waits(q, c)' => Waits(q, c)
    BY <1>2, <1>3 DEF Waits, AwaitsAnswer, PConns
  <2>2. \A q \in Callers, c \in PConns : Asks(c, q) => Asks(c, q)'
    BY <1>2, <1>3 DEF Asks
  <2>3. \A q \in Callers, c \in PConns : Answers(c, q) => Answers(c, q)'
    BY <1>2, <1>3 DEF Answers, PConns
  <2> QED
    BY <1>i, <2>1, <2>2, <2>3, AwaitedKept
<1>8. Exclusive' /\ Made'
  <2>1. \A c \in PConns : NoGain(c)
    BY <1>2, <1>3 DEF NoGain, Dialled, Idle, Owns, Asked, Returning, Answering, PConns
  <2>2. \A c \in PConns : loop[c] # "off" => loop'[c] # "off"
    BY <1>2, <1>3 DEF PConns
  <2>3. \A c \in pool'.closed : c \in pool.closed \/ loop[c] # "off"
    BY <1>2, <1>3
  <2>4. Distinct(pool'.idle)
    BY <1>i, <1>2, <1>3 DEF Exclusive
  <2> QED
    BY <1>i, <2>1, <2>2, <2>3, <2>4, NothingGained
<1> QED
  BY <1>4, <1>5, <1>6, <1>7, <1>8 DEF Hands

\* A dial that fails has no connection.
LEMMA dialFailedHands ==
    ASSUME IInv, NEW r \in Callers, dialFailed(r)
    PROVE  Hands'
<1>i. Attached /\ Dialling /\ ReadLoop /\ Awaited /\ Made /\ Exclusive
  BY DEF IInv
<1>tpool. pool \in PoolRec
  BY DEF IInv, PoolTypeOK
<1>tdialc. dialc \in [Callers -> {"none", "count", "dialing", "ready", "failed"}]
  BY DEF IInv, PoolTypeOK
<1>2. /\ pool'.idle = pool.idle
      /\ pool'.closed = pool.closed
  BY <1>tpool DEF dialFailed, PoolRec
<1>3. /\ dialc[r] = "dialing"
      /\ dialc'[r] = "failed"
      /\ \A x \in Callers : x # r => dialc'[x] = dialc[x]
      /\ UNCHANGED <<call, reqch, wire, loop, answer, expected>>
  BY <1>tdialc DEF dialFailed, connVars
<1>4. Attached'
  BY <1>i, <1>2, <1>3 DEF Attached, AwaitsAnswer, PConns
<1>5. Dialling'
  BY <1>i, <1>2, <1>3 DEF Dialling, PConns
<1>6. ReadLoop'
  BY <1>i, <1>2, <1>3 DEF ReadLoop, Asked, Asks, PConns
<1>7. Awaited'
  <2>1. \A q \in Callers, c \in PConns : Waits(q, c)' => Waits(q, c)
    BY <1>2, <1>3 DEF Waits, AwaitsAnswer, PConns
  <2>2. \A q \in Callers, c \in PConns : Asks(c, q) => Asks(c, q)'
    BY <1>2, <1>3 DEF Asks
  <2>3. \A q \in Callers, c \in PConns : Answers(c, q) => Answers(c, q)'
    BY <1>2, <1>3 DEF Answers, PConns
  <2> QED
    BY <1>i, <2>1, <2>2, <2>3, AwaitedKept
<1>8. Exclusive' /\ Made'
  <2>1. \A c \in PConns : NoGain(c)
    BY <1>2, <1>3 DEF NoGain, Dialled, Idle, Owns, Asked, Returning, Answering, PConns
  <2>2. \A c \in PConns : loop[c] # "off" => loop'[c] # "off"
    BY <1>2, <1>3 DEF PConns
  <2>3. \A c \in pool'.closed : c \in pool.closed \/ loop[c] # "off"
    BY <1>2, <1>3
  <2>4. Distinct(pool'.idle)
    BY <1>i, <1>2, <1>3 DEF Exclusive
  <2> QED
    BY <1>i, <2>1, <2>2, <2>3, <2>4, NothingGained
<1> QED
  BY <1>4, <1>5, <1>6, <1>7, <1>8 DEF Hands

\* The write timer of ServeHTTP leaves the connection to the reader of the body.
LEMMA writeTimerHands ==
    ASSUME IInv, NEW r \in Callers, writeTimer(r)
    PROVE  Hands'
<1>i. Attached /\ Dialling /\ ReadLoop /\ Awaited /\ Made /\ Exclusive
  BY DEF IInv
<1>tcall. call \in [Callers -> CallRec]
  BY DEF IInv, PoolTypeOK
<1>tpool. pool \in PoolRec
  BY DEF IInv, PoolTypeOK
<1>1. /\ call[r].at = "body"
      /\ call'[r].at = "late"
      /\ call'[r].on = call[r].on
      /\ \A x \in Callers : x # r => call'[x] = call[x]
  BY <1>tcall DEF writeTimer, CallRec
<1>2. /\ pool'.idle = pool.idle
      /\ pool'.closed = pool.closed
  BY <1>tpool DEF writeTimer, PoolRec
<1>3. UNCHANGED <<dialc, reqch, wire, loop, answer, expected>>
  BY DEF writeTimer, connVars
<1>4. Attached'
  BY <1>i, <1>1, <1>2, <1>3 DEF Attached, AwaitsAnswer, PConns
<1>5. Dialling'
  BY <1>i, <1>1, <1>2, <1>3 DEF Dialling, PConns
<1>6. ReadLoop'
  BY <1>i, <1>1, <1>2, <1>3 DEF ReadLoop, Asked, Asks, PConns
<1>7. Awaited'
  <2>1. \A q \in Callers, c \in PConns : Waits(q, c)' => Waits(q, c)
    BY <1>1, <1>2, <1>3 DEF Waits, AwaitsAnswer, PConns
  <2>2. \A q \in Callers, c \in PConns : Asks(c, q) => Asks(c, q)'
    BY <1>1, <1>2, <1>3 DEF Asks
  <2>3. \A q \in Callers, c \in PConns : Answers(c, q) => Answers(c, q)'
    BY <1>1, <1>2, <1>3 DEF Answers, PConns
  <2> QED
    BY <1>i, <2>1, <2>2, <2>3, AwaitedKept
<1>8. Exclusive' /\ Made'
  <2>1. \A c \in PConns : NoGain(c)
    BY <1>1, <1>2, <1>3
       DEF NoGain, Dialled, Idle, Owns, Asked, Returning, Answering, PConns
  <2>2. \A c \in PConns : loop[c] # "off" => loop'[c] # "off"
    BY <1>1, <1>2, <1>3 DEF PConns
  <2>3. \A c \in pool'.closed : c \in pool.closed \/ loop[c] # "off"
    BY <1>1, <1>2, <1>3
  <2>4. Distinct(pool'.idle)
    BY <1>i, <1>1, <1>2, <1>3 DEF Exclusive
  <2> QED
    BY <1>i, <2>1, <2>2, <2>3, <2>4, NothingGained
<1> QED
  BY <1>4, <1>5, <1>6, <1>7, <1>8 DEF Hands

\* The caller gives up; readLoop has the connection.
LEMMA roundTripFailsHands ==
    ASSUME IInv, NEW r \in Callers, roundTripFails(r)
    PROVE  Hands'
<1>i. Attached /\ Dialling /\ ReadLoop /\ Awaited /\ Made /\ Exclusive
  BY DEF IInv
<1>tcall. call \in [Callers -> CallRec]
  BY DEF IInv, PoolTypeOK
<1>tpool. pool \in PoolRec
  BY DEF IInv, PoolTypeOK
<1>0. call[r].on \in PConns
  BY <1>i DEF roundTripFails, Attached, AwaitsAnswer
<1>1. /\ call[r].at \in AwaitsAnswer
      /\ call'[r].at = "done"
      /\ \A x \in Callers : x # r => call'[x] = call[x]
  BY <1>tcall, <1>0 DEF roundTripFails, CallRec, Done, At
<1>2. /\ pool'.idle = pool.idle
      /\ \A x \in pool'.closed : x \in pool.closed \/ x = call[r].on
  <2>1. pool' = pool \/ pool' = closeLocked(pool, call[r].on)
    BY DEF roundTripFails
  <2> QED
    BY <2>1, <1>tpool, CloseFacts, <1>0 DEF Closes
<1>3. UNCHANGED <<dialc, reqch, wire, loop, answer, expected>>
  BY <1>0 DEF roundTripFails, connVars
<1>4. Attached'
  BY <1>i, <1>1, <1>2, <1>3, <1>0 DEF Attached, AwaitsAnswer, PConns
<1>5. Dialling'
  BY <1>i, <1>1, <1>2, <1>3, <1>0 DEF Dialling, PConns
<1>6. ReadLoop'
  BY <1>i, <1>1, <1>2, <1>3, <1>0 DEF ReadLoop, Asked, Asks, PConns
<1>7. Awaited'
  <2>1. \A q \in Callers, c \in PConns : Waits(q, c)' => Waits(q, c)
    BY <1>1, <1>2, <1>3, <1>0 DEF Waits, AwaitsAnswer, PConns
  <2>2. \A q \in Callers, c \in PConns : Asks(c, q) => Asks(c, q)'
    BY <1>1, <1>2, <1>3 DEF Asks
  <2>3. \A q \in Callers, c \in PConns : Answers(c, q) => Answers(c, q)'
    BY <1>1, <1>2, <1>3 DEF Answers, PConns
  <2> QED
    BY <1>i, <2>1, <2>2, <2>3, AwaitedKept
<1>8. Exclusive' /\ Made'
  <2>1. \A c \in PConns : NoGain(c)
    BY <1>1, <1>2, <1>3, <1>0
       DEF NoGain, Dialled, Idle, Owns, Asked, Returning, Answering, PConns
  <2>2. \A c \in PConns : loop[c] # "off" => loop'[c] # "off"
    BY <1>1, <1>2, <1>3 DEF PConns
  <2>3. \A c \in pool'.closed : c \in pool.closed \/ loop[c] # "off"
    <3>1. loop[call[r].on] # "off"
      BY <1>i, <1>0, <1>1 DEF Awaited, Waits, Asks, Answers, Made, Asked
    <3> QED
      BY <1>2, <3>1
  <2>4. Distinct(pool'.idle)
    BY <1>i, <1>1, <1>2, <1>3 DEF Exclusive
  <2> QED
    BY <1>i, <2>1, <2>2, <2>3, <2>4, NothingGained
<1> QED
  BY <1>4, <1>5, <1>6, <1>7, <1>8 DEF Hands

\* The caller drops the connection with the rest of its body.
LEMMA bodyAbandonedHands ==
    ASSUME IInv, NEW r \in Callers, bodyAbandoned(r)
    PROVE  Hands'
<1>i. Attached /\ Dialling /\ ReadLoop /\ Awaited /\ Made /\ Exclusive
  BY DEF IInv
<1>tcall. call \in [Callers -> CallRec]
  BY DEF IInv, PoolTypeOK
<1>tpool. pool \in PoolRec
  BY DEF IInv, PoolTypeOK
<1>0. call[r].on \in PConns
  BY <1>i DEF bodyAbandoned, Attached, AwaitsAnswer
<1>1. /\ call[r].at \in {"body", "late"}
      /\ call'[r].at = "done"
      /\ \A x \in Callers : x # r => call'[x] = call[x]
  BY <1>tcall, <1>0 DEF bodyAbandoned, CallRec, Done, At
<1>2. /\ pool'.idle = pool.idle
      /\ \A x \in pool'.closed : x \in pool.closed \/ x = call[r].on
  <2>1. pool' = pool \/ pool' = closeLocked(pool, call[r].on)
    BY DEF bodyAbandoned
  <2> QED
    BY <2>1, <1>tpool, CloseFacts, <1>0 DEF Closes
<1>3. UNCHANGED <<dialc, reqch, wire, loop, answer, expected>>
  BY <1>0 DEF bodyAbandoned
<1>4. Attached'
  BY <1>i, <1>1, <1>2, <1>3, <1>0 DEF Attached, AwaitsAnswer, PConns
<1>5. Dialling'
  BY <1>i, <1>1, <1>2, <1>3, <1>0 DEF Dialling, PConns
<1>6. ReadLoop'
  BY <1>i, <1>1, <1>2, <1>3, <1>0 DEF ReadLoop, Asked, Asks, PConns
<1>7. Awaited'
  <2>1. \A q \in Callers, c \in PConns : Waits(q, c)' => Waits(q, c)
    BY <1>1, <1>2, <1>3, <1>0 DEF Waits, AwaitsAnswer, PConns
  <2>2. \A q \in Callers, c \in PConns : Asks(c, q) => Asks(c, q)'
    BY <1>1, <1>2, <1>3 DEF Asks
  <2>3. \A q \in Callers, c \in PConns : Answers(c, q) => Answers(c, q)'
    BY <1>1, <1>2, <1>3 DEF Answers, PConns
  <2> QED
    BY <1>i, <2>1, <2>2, <2>3, AwaitedKept
<1>8. Exclusive' /\ Made'
  <2>1. \A c \in PConns : NoGain(c)
    BY <1>1, <1>2, <1>3, <1>0
       DEF NoGain, Dialled, Idle, Owns, Asked, Returning, Answering, PConns
  <2>2. \A c \in PConns : loop[c] # "off" => loop'[c] # "off"
    BY <1>1, <1>2, <1>3 DEF PConns
  <2>3. \A c \in pool'.closed : c \in pool.closed \/ loop[c] # "off"
    <3>1. loop[call[r].on] # "off"
      BY <1>i, <1>0, <1>1 DEF Made, Owned, Owns
    <3> QED
      BY <1>2, <3>1
  <2>4. Distinct(pool'.idle)
    BY <1>i, <1>1, <1>2, <1>3 DEF Exclusive
  <2> QED
    BY <1>i, <2>1, <2>2, <2>3, <2>4, NothingGained
<1> QED
  BY <1>4, <1>5, <1>6, <1>7, <1>8 DEF Hands

\* writeLoop takes a request.
LEMMA startWriteHands ==
    ASSUME IInv, NEW r \in Callers, startWrite(r)
    PROVE  Hands'
<1>i. Attached /\ Dialling /\ ReadLoop /\ Awaited /\ Made /\ Exclusive
  BY DEF IInv
<1>tcall. call \in [Callers -> CallRec]
  BY DEF IInv, PoolTypeOK
<1>twritech. writech \in [PConns -> Seq(Callers)]
  BY DEF IInv, PoolTypeOK
<1>twire. wire \in [PConns -> Seq(Callers)]
  BY DEF IInv, PoolTypeOK
<1>0. Head(writech[r]) \in Callers
  BY <1>twritech DEF startWrite, PConns
<1>1. /\ \A x \in Callers : call'[x].on = call[x].on
      /\ \A x \in Callers : call'[x].at = call[x].at \/ (call[x].at = "wait" /\ call'[x].at \in {"written", "unwritten"})
  <2>1. \/ call' = call
        \/ call' = [call EXCEPT ![Head(writech[r])].at = "unwritten"] /\ call[Head(writech[r])].at = "wait"
    BY DEF startWrite, reportWrite
  <2> QED
    BY <2>1, <1>0, <1>tcall DEF CallRec, AwaitsAnswer
<1>3. /\ \A x \in Callers : wire[x] # <<>> => wire'[x] # <<>>
      /\ UNCHANGED <<pool, dialc, reqch, loop, answer, expected>>
  BY <1>twritech, <1>twire, <1>0 DEF startWrite, PConns
<1>4. Attached'
  BY <1>i, <1>1, <1>3, <1>0 DEF Attached, AwaitsAnswer, PConns
<1>5. Dialling'
  BY <1>i, <1>1, <1>3, <1>0 DEF Dialling, PConns
<1>6. ReadLoop'
  BY <1>i, <1>1, <1>3, <1>0 DEF ReadLoop, Asked, Asks, PConns
<1>7. Awaited'
  <2>1. \A q \in Callers, c \in PConns : Waits(q, c)' => Waits(q, c)
    BY <1>1, <1>3, <1>0 DEF Waits, AwaitsAnswer, PConns
  <2>2. \A q \in Callers, c \in PConns : Asks(c, q) => Asks(c, q)'
    BY <1>1, <1>3 DEF Asks
  <2>3. \A q \in Callers, c \in PConns : Answers(c, q) => Answers(c, q)'
    BY <1>1, <1>3 DEF Answers, PConns
  <2> QED
    BY <1>i, <2>1, <2>2, <2>3, AwaitedKept
<1>8. Exclusive' /\ Made'
  <2>1. \A c \in PConns : NoGain(c)
    BY <1>1, <1>3, <1>0
       DEF NoGain, Dialled, Idle, Owns, Asked, Returning, Answering, PConns
  <2>2. \A c \in PConns : loop[c] # "off" => loop'[c] # "off"
    BY <1>1, <1>3 DEF PConns
  <2>3. \A c \in pool'.closed : c \in pool.closed \/ loop[c] # "off"
    BY <1>1, <1>3
  <2>4. Distinct(pool'.idle)
    BY <1>i, <1>1, <1>3 DEF Exclusive
  <2> QED
    BY <1>i, <2>1, <2>2, <2>3, <2>4, NothingGained
<1> QED
  BY <1>4, <1>5, <1>6, <1>7, <1>8 DEF Hands

\* writeLoop has written a request, or has failed to.
LEMMA endWriteHands ==
    ASSUME IInv, NEW r \in Callers, endWrite(r)
    PROVE  Hands'
<1>i. Attached /\ Dialling /\ ReadLoop /\ Awaited /\ Made /\ Exclusive
  BY DEF IInv
<1>tcall. call \in [Callers -> CallRec]
  BY DEF IInv, PoolTypeOK
<1>tpool. pool \in PoolRec
  BY DEF IInv, PoolTypeOK
<1>twriting. writing \in [PConns -> Callers \cup {NoCaller}]
  BY DEF IInv, PoolTypeOK
<1>0. writing[r] \in Callers
  BY <1>twriting DEF endWrite, PConns
<1>1. /\ \A x \in Callers : call'[x].on = call[x].on
      /\ \A x \in Callers : call'[x].at = call[x].at \/ (call[x].at = "wait" /\ call'[x].at \in {"written", "unwritten"})
  <2>1. \/ call' = call
        \/ call' = [call EXCEPT ![writing[r]].at = "written"] /\ call[writing[r]].at = "wait"
        \/ call' = [call EXCEPT ![writing[r]].at = "unwritten"] /\ call[writing[r]].at = "wait"
    BY DEF endWrite, reportWrite
  <2> QED
    BY <2>1, <1>0, <1>tcall DEF CallRec, AwaitsAnswer
<1>2. /\ pool'.idle = pool.idle
      /\ pool'.closed = pool.closed
  BY <1>tpool, <1>0 DEF endWrite, PoolRec
<1>3. UNCHANGED <<dialc, reqch, wire, loop, answer, expected>>
  BY <1>twriting, <1>0 DEF endWrite
<1>4. Attached'
  BY <1>i, <1>1, <1>2, <1>3, <1>0 DEF Attached, AwaitsAnswer, PConns
<1>5. Dialling'
  BY <1>i, <1>1, <1>2, <1>3, <1>0 DEF Dialling, PConns
<1>6. ReadLoop'
  BY <1>i, <1>1, <1>2, <1>3, <1>0 DEF ReadLoop, Asked, Asks, PConns
<1>7. Awaited'
  <2>1. \A q \in Callers, c \in PConns : Waits(q, c)' => Waits(q, c)
    BY <1>1, <1>2, <1>3, <1>0 DEF Waits, AwaitsAnswer, PConns
  <2>2. \A q \in Callers, c \in PConns : Asks(c, q) => Asks(c, q)'
    BY <1>1, <1>2, <1>3 DEF Asks
  <2>3. \A q \in Callers, c \in PConns : Answers(c, q) => Answers(c, q)'
    BY <1>1, <1>2, <1>3 DEF Answers, PConns
  <2> QED
    BY <1>i, <2>1, <2>2, <2>3, AwaitedKept
<1>8. Exclusive' /\ Made'
  <2>1. \A c \in PConns : NoGain(c)
    BY <1>1, <1>2, <1>3, <1>0
       DEF NoGain, Dialled, Idle, Owns, Asked, Returning, Answering, PConns
  <2>2. \A c \in PConns : loop[c] # "off" => loop'[c] # "off"
    BY <1>1, <1>2, <1>3 DEF PConns
  <2>3. \A c \in pool'.closed : c \in pool.closed \/ loop[c] # "off"
    BY <1>1, <1>2, <1>3
  <2>4. Distinct(pool'.idle)
    BY <1>i, <1>1, <1>2, <1>3 DEF Exclusive
  <2> QED
    BY <1>i, <2>1, <2>2, <2>3, <2>4, NothingGained
<1> QED
  BY <1>4, <1>5, <1>6, <1>7, <1>8 DEF Hands

\* readLoop waits for an answer.
LEMMA peekHands ==
    ASSUME IInv, NEW r \in Callers, peek(r)
    PROVE  Hands'
<1>i. Attached /\ Dialling /\ ReadLoop /\ Awaited /\ Made /\ Exclusive
  BY DEF IInv
<1>tloop. loop \in [PConns -> {"off", "peek", "check", "read", "put", "deliver", "end", "exit"}]
  BY DEF IInv, PoolTypeOK
<1>tanswer. answer \in [PConns -> Replies]
  BY DEF IInv, PoolTypeOK
<1>twire. wire \in [PConns -> Seq(Callers)]
  BY DEF IInv, PoolTypeOK
<1>3. /\ loop[r] = "peek"
      /\ loop'[r] = "check"
      /\ \A x \in Callers : x # r => loop'[x] = loop[x]
      /\ answer'[r].ok => wire[r] # <<>>
      /\ \A x \in Callers : x # r => answer'[x] = answer[x]
      /\ UNCHANGED <<pool, call, dialc, reqch, wire, expected>>
  BY <1>tloop, <1>tanswer, <1>twire DEF peek, loopVars, NoReply, NoResponse, PConns
<1>4. Attached'
  BY <1>i, <1>3 DEF Attached, AwaitsAnswer, PConns
<1>5. Dialling'
  BY <1>i, <1>3 DEF Dialling, PConns
<1>6. ReadLoop'
  BY <1>i, <1>3 DEF ReadLoop, Asked, Asks, PConns
<1>7. Awaited'
  <2>1. \A q \in Callers, c \in PConns : Waits(q, c)' => Waits(q, c)
    BY <1>3 DEF Waits, AwaitsAnswer, PConns
  <2>2. \A q \in Callers, c \in PConns : Asks(c, q) => Asks(c, q)'
    BY <1>3 DEF Asks
  <2>3. \A q \in Callers, c \in PConns : Answers(c, q) => Answers(c, q)'
    BY <1>3 DEF Answers, PConns
  <2> QED
    BY <1>i, <2>1, <2>2, <2>3, AwaitedKept
<1>8. Exclusive' /\ Made'
  <2>1. \A c \in PConns : NoGain(c)
    BY <1>3 DEF NoGain, Dialled, Idle, Owns, Asked, Returning, Answering, PConns
  <2>2. \A c \in PConns : loop[c] # "off" => loop'[c] # "off"
    BY <1>3 DEF PConns
  <2>3. \A c \in pool'.closed : c \in pool.closed \/ loop[c] # "off"
    BY <1>3
  <2>4. Distinct(pool'.idle)
    BY <1>i, <1>3 DEF Exclusive
  <2> QED
    BY <1>i, <2>1, <2>2, <2>3, <2>4, NothingGained
<1> QED
  BY <1>4, <1>5, <1>6, <1>7, <1>8 DEF Hands

\* readLoop looks whether an answer is expected.
LEMMA checkExpectedHands ==
    ASSUME IInv, NEW r \in Callers, checkExpected(r)
    PROVE  Hands'
<1>i. Attached /\ Dialling /\ ReadLoop /\ Awaited /\ Made /\ Exclusive
  BY DEF IInv
<1>tloop. loop \in [PConns -> {"off", "peek", "check", "read", "put", "deliver", "end", "exit"}]
  BY DEF IInv, PoolTypeOK
<1>tpool. pool \in PoolRec
  BY DEF IInv, PoolTypeOK
<1>2. /\ pool'.idle = pool.idle
      /\ \A x \in pool'.closed : x \in pool.closed \/ x = r
  <2>1. pool' = pool \/ pool' = closeLocked(pool, r)
    BY DEF checkExpected
  <2> QED
    BY <2>1, <1>tpool, CloseFacts DEF Closes, PConns
<1>3. /\ loop[r] = "check"
      /\ loop'[r] \in {"exit", "read"}
      /\ \A x \in Callers : x # r => loop'[x] = loop[x]
      /\ UNCHANGED <<call, dialc, reqch, wire, answer, expected>>
  BY <1>tloop DEF checkExpected, loopVars, PConns
<1>4. Attached'
  BY <1>i, <1>2, <1>3 DEF Attached, AwaitsAnswer, PConns
<1>5. Dialling'
  BY <1>i, <1>2, <1>3 DEF Dialling, PConns
<1>6. ReadLoop'
  BY <1>i, <1>2, <1>3 DEF ReadLoop, Asked, Asks, PConns
<1>7. Awaited'
  <2>1. \A q \in Callers, c \in PConns : Waits(q, c)' => Waits(q, c)
    BY <1>2, <1>3 DEF Waits, AwaitsAnswer, PConns
  <2>2. \A q \in Callers, c \in PConns : Asks(c, q) => Asks(c, q)'
    BY <1>2, <1>3 DEF Asks
  <2>3. \A q \in Callers, c \in PConns : Answers(c, q) => Answers(c, q)'
    BY <1>2, <1>3 DEF Answers, PConns
  <2> QED
    BY <1>i, <2>1, <2>2, <2>3, AwaitedKept
<1>8. Exclusive' /\ Made'
  <2>1. \A c \in PConns : NoGain(c)
    BY <1>2, <1>3 DEF NoGain, Dialled, Idle, Owns, Asked, Returning, Answering, PConns
  <2>2. \A c \in PConns : loop[c] # "off" => loop'[c] # "off"
    BY <1>2, <1>3 DEF PConns
  <2>3. \A c \in pool'.closed : c \in pool.closed \/ loop[c] # "off"
    BY <1>2, <1>3
  <2>4. Distinct(pool'.idle)
    BY <1>i, <1>2, <1>3 DEF Exclusive
  <2> QED
    BY <1>i, <2>1, <2>2, <2>3, <2>4, NothingGained
<1> QED
  BY <1>4, <1>5, <1>6, <1>7, <1>8 DEF Hands

\* readLoop goes on with the next answer, or ends.
LEMMA endResponseHands ==
    ASSUME IInv, NEW r \in Callers, endResponse(r)
    PROVE  Hands'
<1>i. Attached /\ Dialling /\ ReadLoop /\ Awaited /\ Made /\ Exclusive
  BY DEF IInv
<1>tloop. loop \in [PConns -> {"off", "peek", "check", "read", "put", "deliver", "end", "exit"}]
  BY DEF IInv, PoolTypeOK
<1>tpool. pool \in PoolRec
  BY DEF IInv, PoolTypeOK
<1>tanswer. answer \in [PConns -> Replies]
  BY DEF IInv, PoolTypeOK
<1>2. /\ pool'.idle = pool.idle
      /\ \A x \in pool'.closed : x \in pool.closed \/ x = r
  <2>1. pool' = pool \/ pool' = closeLocked(pool, r)
    BY DEF endResponse
  <2> QED
    BY <2>1, <1>tpool, CloseFacts DEF Closes, PConns
<1>3. /\ loop[r] = "end"
      /\ loop'[r] \in {"peek", "exit"}
      /\ \A x \in Callers : x # r => loop'[x] = loop[x]
      /\ \A x \in Callers : x # r => answer'[x] = answer[x]
      /\ UNCHANGED <<call, dialc, reqch, wire, expected>>
  BY <1>tloop, <1>tanswer DEF endResponse, loopVars, PConns
<1>4. Attached'
  BY <1>i, <1>2, <1>3 DEF Attached, AwaitsAnswer, PConns
<1>5. Dialling'
  BY <1>i, <1>2, <1>3 DEF Dialling, PConns
<1>6. ReadLoop'
  BY <1>i, <1>2, <1>3 DEF ReadLoop, Asked, Asks, PConns
<1>7. Awaited'
  <2>1. \A q \in Callers, c \in PConns : Waits(q, c)' => Waits(q, c)
    BY <1>2, <1>3 DEF Waits, AwaitsAnswer, PConns
  <2>2. \A q \in Callers, c \in PConns : Asks(c, q) => Asks(c, q)'
    BY <1>2, <1>3 DEF Asks
  <2>3. \A q \in Callers, c \in PConns : Answers(c, q) => Answers(c, q)'
    BY <1>2, <1>3 DEF Answers, PConns
  <2> QED
    BY <1>i, <2>1, <2>2, <2>3, AwaitedKept
<1>8. Exclusive' /\ Made'
  <2>1. \A c \in PConns : NoGain(c)
    BY <1>2, <1>3 DEF NoGain, Dialled, Idle, Owns, Asked, Returning, Answering, PConns
  <2>2. \A c \in PConns : loop[c] # "off" => loop'[c] # "off"
    BY <1>2, <1>3 DEF PConns
  <2>3. \A c \in pool'.closed : c \in pool.closed \/ loop[c] # "off"
    BY <1>2, <1>3
  <2>4. Distinct(pool'.idle)
    BY <1>i, <1>2, <1>3 DEF Exclusive
  <2> QED
    BY <1>i, <2>1, <2>2, <2>3, <2>4, NothingGained
<1> QED
  BY <1>4, <1>5, <1>6, <1>7, <1>8 DEF Hands

\* The steps that move a connection.  Only c changes hands, and afterwards it
\* is in one hand at most.
LEMMA OneMoved ==
    ASSUME Exclusive, Made, Distinct(pool'.idle), NEW d \in PConns,
           \A c \in PConns : c # d => NoGain(c),
           \A c \in PConns : loop[c] # "off" => loop'[c] # "off",
           \A c \in pool'.closed : c \in pool.closed \/ loop[c] # "off",
           OneHand(d)', loop'[d] # "off"
    PROVE  Exclusive' /\ Made'
<1>1. \A c \in PConns : OneHand(c)'
  <2> TAKE c \in PConns
  <2>1. CASE c = d
    BY <2>1
  <2>2. CASE c # d
    BY <2>2, HandsKept, ByConnection
  <2> QED
    BY <2>1, <2>2
<1>2. Made'
  <2> SUFFICES ASSUME NEW c \in PConns, c # d
               PROVE  /\ Dialled(c)' => loop'[c] # "off"
                      /\ Idle(c)' => loop'[c] # "off"
                      /\ Owned(c)' => loop'[c] # "off"
                      /\ Asked(c)' => loop'[c] # "off"
                      /\ c \in pool'.closed => loop'[c] # "off"
    BY DEF Made
  <2>1. NoGain(c)
    OBVIOUS
  <2> QED
    BY <2>1 DEF NoGain, Made, Owned
<1> QED
  BY <1>1, <1>2, ByConnection

\* putIdleConn with a connection that is in no other hand: it goes to the idle
\* list, or to one caller that waits in its select.
LEMMA PutHands ==
    ASSUME PoolTypeOK, Exclusive, NEW c \in PConns, NEW kept \in BOOLEAN,
           NEW callNow \in [Callers -> CallRec], putIdleConn(c, kept, callNow), ~Idle(c),
           \A q \in Callers : callNow[q] = call[q] \/ callNow[q].at = "done",
           \A q \in Callers : callNow[q].on = c => callNow[q].at \notin {"got", "body", "late"}
    PROVE  /\ \A x \in PConns : x # c => (Idle(x)' => Idle(x))
           /\ \A x \in PConns : x # c => \A q \in Callers : Owns(q, x)' => Owns(q, x)
           /\ ~(Idle(c)' /\ Owned(c)')
           /\ \A q, p \in Callers : Owns(q, c)' /\ Owns(p, c)' => q = p
           /\ Distinct(pool'.idle)
           /\ \A x \in pool'.closed : x \in pool.closed \/ x = c \/ Idle(x)
           /\ \A q \in Callers : \/ call'[q] = call[q] \/ call'[q].at = "done"
                                 \/ call'[q].at = "got" /\ call'[q].on = c
<1>1. /\ Closes(pool, pool', {c} \cup {x \in PConns : Has(pool.idle, x)})
      /\ Dropped(c, callNow) \/ Given(c, callNow) \/ Listed(c, callNow)
  BY PutIdleFacts
<1>2. \A x \in pool'.closed : x \in pool.closed \/ x = c \/ Idle(x)
  BY <1>1 DEF Closes, Idle
<1>3. Distinct(pool.idle)
  BY DEF Exclusive
<1>4. CASE Dropped(c, callNow)
  <2>1. call' = callNow /\ pool'.idle = pool.idle
    BY <1>4 DEF Dropped
  <2> QED
    BY <1>2, <1>3, <2>1 DEF Idle, Owns, Owned
<1>5. CASE Given(c, callNow)
  <2>1. PICK r \in Callers : call' = [callNow EXCEPT ![r] = At("got", c)]
    BY <1>5 DEF Given
  <2>2. /\ call'[r].at = "got" /\ call'[r].on = c
        /\ \A q \in Callers : q # r => call'[q] = callNow[q]
    BY <2>1 DEF At
  <2>3. pool'.idle = pool.idle
    BY <1>5 DEF Given
  <2> QED
    BY <1>2, <1>3, <2>2, <2>3 DEF Idle, Owns, Owned
<1>6. CASE Listed(c, callNow)
  <2>1. /\ call' = callNow
        /\ \A x : Has(pool'.idle, x) => x = c \/ Has(pool.idle, x)
        /\ Distinct(pool'.idle)
    BY <1>3, <1>6 DEF Listed, Idle
  <2> QED
    BY <1>2, <2>1 DEF Idle, Owns, Owned
<1> QED
  BY <1>1, <1>4, <1>5, <1>6

\* A connection is made and is in the hand of the dial.
LEMMA dialConnHands ==
    ASSUME IInv, NEW r \in Callers, dialConn(r)
    PROVE  Hands'
<1>i. Attached /\ Dialling /\ ReadLoop /\ Awaited /\ Made /\ Exclusive
  BY DEF IInv
<1>tdialc. dialc \in [Callers -> {"none", "count", "dialing", "ready", "failed"}]
  BY DEF IInv, PoolTypeOK
<1>tloop. loop \in [PConns -> {"off", "peek", "check", "read", "put", "deliver", "end", "exit"}]
  BY DEF IInv, PoolTypeOK
<1>0. r \in PConns
  BY DEF PConns
<1>1. /\ dialc[r] = "dialing"
      /\ dialc'[r] = "ready"
      /\ \A x \in Callers : x # r => dialc'[x] = dialc[x]
      /\ loop'[r] = "peek"
      /\ \A x \in Callers : x # r => loop'[x] = loop[x]
      /\ UNCHANGED <<pool, call, reqch, wire, answer, expected>>
  BY <1>tdialc, <1>tloop DEF dialConn, PConns
<1>2. loop[r] = "off"
  BY <1>i, <1>1 DEF Dialling, PConns
<1>4. Attached'
  BY <1>i, <1>1 DEF Attached, AwaitsAnswer, PConns
<1>5. Dialling'
  BY <1>i, <1>1 DEF Dialling, PConns
<1>6. ReadLoop'
  BY <1>i, <1>1, <1>2 DEF ReadLoop, Asked, Asks, PConns
<1>7. Awaited'
  <2>1. \A q \in Callers, c \in PConns : Waits(q, c)' => Waits(q, c)
    BY <1>1, <1>2 DEF Waits, AwaitsAnswer, PConns
  <2>2. \A q \in Callers, c \in PConns : Asks(c, q) => Asks(c, q)'
    BY <1>1, <1>2 DEF Asks
  <2>3. \A q \in Callers, c \in PConns : Answers(c, q) => Answers(c, q)'
    BY <1>1, <1>2 DEF Answers, PConns
  <2> QED
    BY <1>i, <2>1, <2>2, <2>3, AwaitedKept
<1>8. Exclusive' /\ Made'
  <2>0. OneHand(r)
    BY <1>i, <1>0, ByConnection DEF PConns
  <2>1. \A c \in PConns : c # r => NoGain(c)
    BY <1>1 DEF NoGain, Dialled, Idle, Owns, Asked, Returning, Answering, PConns
  <2>2. \A c \in PConns : loop[c] # "off" => loop'[c] # "off"
    BY <1>1 DEF PConns
  <2>3. \A c \in pool'.closed : c \in pool.closed \/ loop[c] # "off"
    BY <1>1
  <2>4. Distinct(pool'.idle)
    BY <1>i, <1>1 DEF Exclusive
  <2>5. OneHand(r)'
    <3>1. ~Idle(r) /\ ~Owned(r) /\ ~Asked(r) /\ ~Returning(r) /\ ~Answering(r)
      BY <1>i, <1>2, <1>0 DEF Made, Returning, Answering
    <3> QED
      BY <1>1, <3>1
         DEF OneHand, Owned, Owns, Dialled, Idle, Asked, Returning, Answering, PConns
  <2>6. loop'[r] # "off"
    BY <1>1
  <2> QED
    BY <1>i, <1>0, <2>1, <2>2, <2>3, <2>4, <2>5, <2>6, OneMoved DEF PConns
<1> QED
  BY <1>4, <1>5, <1>6, <1>7, <1>8 DEF Hands

\* A connection goes from the idle list to the caller, or the caller dials.
LEMMA getIdleConnHands ==
    ASSUME IInv, NEW r \in Callers, getIdleConn(r)
    PROVE  Hands'
<1>i. Attached /\ Dialling /\ ReadLoop /\ Awaited /\ Made /\ Exclusive
  BY DEF IInv
<1>tcall. call \in [Callers -> CallRec]
  BY DEF IInv, PoolTypeOK
<1>tpool. pool \in PoolRec
  BY DEF IInv, PoolTypeOK
<1>tdialc. dialc \in [Callers -> {"none", "count", "dialing", "ready", "failed"}]
  BY DEF IInv, PoolTypeOK
<1>1. UNCHANGED <<reqch, wire, loop, answer, expected>> /\ call[r].at = "new"
  BY DEF getIdleConn, connVars
<1>h. ASSUME NEW i \in DOMAIN pool.idle,
             call' = [call EXCEPT ![r] = At("got", pool.idle[i])],
             pool' = [pool EXCEPT !.idle = SubSeq(@, 1, i - 1)],
             UNCHANGED dialc
      PROVE  Hands'
  <2>1. pool.idle \in Seq(PConns)
    BY <1>tpool, PoolTyped
  <2>c. PICK c \in PConns : pool.idle[i] = c
    BY <2>1
  <2>2. /\ pool'.idle = SubSeq(pool.idle, 1, i - 1)
        /\ pool'.closed = pool.closed
    BY <1>tpool, <1>h DEF PoolRec
  <2>3. /\ call'[r].at = "got" /\ call'[r].on = c
        /\ \A x \in Callers : x # r => call'[x] = call[x]
    BY <1>tcall, <1>h, <2>c DEF At
  <2>4. /\ Has(pool.idle, c)
        /\ \A x : Has(pool'.idle, x) => Has(pool.idle, x)
        /\ Distinct(pool'.idle) /\ ~Has(pool'.idle, c)
    BY <1>i, <2>1, <2>2, <2>c, Shortened DEF Exclusive
  <2>5. Attached' /\ Dialling' /\ ReadLoop' /\ Awaited'
    <3>1. Attached'
      BY <1>i, <2>3, <2>4 DEF Attached, AwaitsAnswer
    <3>2. Dialling'
      BY <1>i, <1>1, <1>h, <2>3 DEF Dialling, PConns
    <3>3. ReadLoop'
      BY <1>i, <1>1 DEF ReadLoop, Asked, Asks
    <3>4. Awaited'
      BY <1>i, <1>1, <2>3, SMTT(30) DEF Awaited, Waits, AwaitsAnswer, Asks, Answers
    <3> QED
      BY <3>1, <3>2, <3>3, <3>4
  <2>6. /\ \A x \in PConns : x # c => NoGain(x)
        /\ OneHand(c)'
    <3>1. \A x \in PConns : x # c => NoGain(x)
      BY <1>1, <1>h, <2>3, <2>4
         DEF NoGain, Dialled, Idle, Owns, Asked, Returning, Answering, PConns
    <3>2. OneHand(c) /\ Idle(c)
      BY <1>i, <2>4, ByConnection DEF Idle
    <3>3. ~Dialled(c) /\ ~Owned(c) /\ ~Asked(c) /\ ~Returning(c) /\ ~Answering(c)
      BY <3>2 DEF OneHand
    <3>4. ~Dialled(c)' /\ ~Idle(c)' /\ ~Asked(c)' /\ ~Returning(c)' /\ ~Answering(c)'
      BY <1>1, <1>h, <2>4, <3>3 DEF Dialled, Idle, Asked, Returning, Answering
    <3>5. \A q \in Callers : Owns(q, c)' => q = r
      BY <2>3, <3>3 DEF Owned, Owns
    <3> QED
      BY <3>1, <3>4, <3>5 DEF OneHand
  <2>7. loop'[c] # "off"
    BY <1>i, <1>1, <2>4 DEF Made, Idle
  <2>8. Exclusive' /\ Made'
    <3>1. /\ \A x \in PConns : loop[x] # "off" => loop'[x] # "off"
          /\ \A x \in pool'.closed : x \in pool.closed \/ loop[x] # "off"
      BY <1>1, <2>2
    <3> QED
      BY <1>i, <2>4, <2>6, <2>7, <3>1, OneMoved
  <2> QED
    BY <2>5, <2>8 DEF Hands
<1>m. ASSUME call' = [call EXCEPT ![r].at = "miss"],
             pool' = [pool EXCEPT !.idle = <<>>],
             dialc' = [dialc EXCEPT ![r] = "count"]
      PROVE  Hands'
  <2>1. /\ pool'.idle = <<>> /\ pool'.closed = pool.closed
        /\ Distinct(pool'.idle) /\ \A x : ~Has(pool'.idle, x)
    BY <1>tpool, <1>m DEF PoolRec, Distinct, Has
  <2>2. /\ call'[r].at = "miss" /\ call'[r].on = call[r].on
        /\ \A x \in Callers : x # r => call'[x] = call[x]
    BY <1>tcall, <1>m DEF CallRec
  <2>3. dialc'[r] = "count" /\ \A x \in Callers : x # r => dialc'[x] = dialc[x]
    BY <1>tdialc, <1>m
  <2>4. Attached'
    BY <1>i, <2>2 DEF Attached, AwaitsAnswer
  <2>5. Dialling'
    BY <1>i, <1>1, <2>2, <2>3 DEF Dialling, PConns
  <2>6. ReadLoop'
    BY <1>i, <1>1 DEF ReadLoop, Asked, Asks
  <2>7. Awaited'
    BY <1>i, <1>1, <2>2 DEF Awaited, Waits, AwaitsAnswer, Asks, Answers
  <2>8. \A c \in PConns : NoGain(c)
    BY <1>1, <2>1, <2>2, <2>3
       DEF NoGain, Dialled, Idle, Owns, Asked, Returning, Answering, PConns
  <2>9. Exclusive' /\ Made'
    BY <1>i, <1>1, <2>1, <2>8, NothingGained
  <2> QED
    BY <2>4, <2>5, <2>6, <2>7, <2>9 DEF Hands
<1> QED
  BY <1>h, <1>m DEF getIdleConn

\* The connection goes from the dial to its caller.
LEMMA dialWinsHands ==
    ASSUME IInv, NEW r \in Callers, dialWins(r)
    PROVE  Hands'
<1>i. Attached /\ Dialling /\ ReadLoop /\ Awaited /\ Made /\ Exclusive
  BY DEF IInv
<1>tcall. call \in [Callers -> CallRec]
  BY DEF IInv, PoolTypeOK
<1>tpool. pool \in PoolRec
  BY DEF IInv, PoolTypeOK
<1>tdialc. dialc \in [Callers -> {"none", "count", "dialing", "ready", "failed"}]
  BY DEF IInv, PoolTypeOK
<1>0. r \in PConns
  BY DEF PConns
<1>1. /\ UNCHANGED <<reqch, wire, loop, answer, expected>>
      /\ call[r].at = "select" /\ dialc[r] \in {"ready", "failed"}
  BY DEF dialWins, connVars
<1>2. pool'.idle = pool.idle /\ pool'.closed = pool.closed
  BY <1>tpool DEF dialWins, PoolRec
<1>3. dialc'[r] = "none" /\ \A x \in Callers : x # r => dialc'[x] = dialc[x]
  BY <1>tdialc DEF dialWins
<1>a. /\ \/ dialc[r] = "ready" /\ call'[r].at = "got" /\ call'[r].on = r
         \/ dialc[r] # "ready" /\ call'[r].at = "done"
      /\ \A x \in Callers : x # r => call'[x] = call[x]
  BY <1>tcall DEF dialWins, At, Done
<1>4. Attached'
  BY <1>i, <1>0, <1>1, <1>2, <1>3, <1>a DEF Attached, AwaitsAnswer, PConns
<1>5. Dialling'
  BY <1>i, <1>1, <1>2, <1>3, <1>a DEF Dialling, PConns
<1>6. ReadLoop'
  BY <1>i, <1>1, <1>2, <1>3, <1>a DEF ReadLoop, Asked, Asks, PConns
<1>7. Awaited'
  <2>1. \A q \in Callers, c \in PConns : Waits(q, c)' => Waits(q, c)
    BY <1>1, <1>2, <1>3, <1>a DEF Waits, AwaitsAnswer, PConns
  <2>2. \A q \in Callers, c \in PConns : Asks(c, q) => Asks(c, q)'
    BY <1>1, <1>2, <1>3, <1>a DEF Asks
  <2>3. \A q \in Callers, c \in PConns : Answers(c, q) => Answers(c, q)'
    BY <1>1, <1>2, <1>3, <1>a DEF Answers, PConns
  <2> QED
    BY <1>i, <2>1, <2>2, <2>3, AwaitedKept
<1>8. Exclusive' /\ Made'
  <2>0. OneHand(r)
    BY <1>i, <1>0, ByConnection
  <2>1. \A c \in PConns : c # r => NoGain(c)
    BY <1>1, <1>2, <1>3, <1>a
       DEF NoGain, Dialled, Idle, Owns, Asked, Returning, Answering, PConns
  <2>2. CASE dialc[r] = "ready"
    <3>1. loop'[r] # "off"
      BY <1>i, <1>0, <1>1, <2>2 DEF Made, Dialled
    <3>2. ~Idle(r) /\ ~Owned(r) /\ ~Asked(r) /\ ~Returning(r) /\ ~Answering(r)
      BY <2>0, <2>2 DEF OneHand, Dialled
    <3>3. OneHand(r)'
      BY <1>1, <1>2, <1>3, <1>a, <3>2
         DEF OneHand, Owned, Owns, Dialled, Idle, Asked, Returning, Answering, PConns
    <3> QED
      BY <1>i, <1>0, <1>1, <1>2, <2>1, <3>1, <3>3, OneMoved DEF Exclusive
  <2>3. CASE dialc[r] # "ready"
    <3>1. NoGain(r)
      BY <1>1, <1>2, <1>3, <1>a, <2>3
         DEF NoGain, Dialled, Idle, Owns, Asked, Returning, Answering, PConns
    <3> QED
      BY <1>i, <1>1, <1>2, <2>1, <3>1, NothingGained DEF Exclusive
  <2> QED
    BY <2>2, <2>3
<1> QED
  BY <1>4, <1>5, <1>6, <1>7, <1>8 DEF Hands

\* A connection nobody waits for goes from the dial to the pool.
LEMMA giveAwayHands ==
    ASSUME IInv, NEW r \in Callers, giveAway(r)
    PROVE  Hands'
<1>i. Attached /\ Dialling /\ ReadLoop /\ Awaited /\ Made /\ Exclusive
  BY DEF IInv
<1>ty. PoolTypeOK'
  BY TypeStep DEF IInv, PoolNext
<1>tcall. call \in [Callers -> CallRec]
  BY DEF IInv, PoolTypeOK
<1>tpool. pool \in PoolRec
  BY DEF IInv, PoolTypeOK
<1>tdialc. dialc \in [Callers -> {"none", "count", "dialing", "ready", "failed"}]
  BY DEF IInv, PoolTypeOK
<1>0. r \in PConns
  BY DEF PConns
<1>1. /\ UNCHANGED <<reqch, wire, loop, answer, expected>>
      /\ dialc[r] \in {"ready", "failed"}
  BY DEF giveAway, connVars
<1>2. dialc'[r] = "none" /\ \A x \in Callers : x # r => dialc'[x] = dialc[x]
  BY <1>tdialc DEF giveAway
<1>3. CASE dialc[r] = "ready"
  <2>0. OneHand(r)
    BY <1>i, <1>0, ByConnection
  <2>1. ~Idle(r) /\ ~Owned(r) /\ ~Asked(r) /\ ~Returning(r) /\ ~Answering(r)
    BY <2>0, <1>3 DEF OneHand, Dialled
  <2>2. PICK kept \in BOOLEAN : putIdleConn(r, kept, call)
    BY <1>3 DEF giveAway
  <2>3. \A q \in Callers : call[q].on = r => call[q].at \notin {"got", "body", "late"}
    BY <2>1 DEF Owned, Owns
  <2>put. /\ \A x \in PConns : x # r => (Idle(x)' => Idle(x))
          /\ \A x \in PConns : x # r => \A q \in Callers : Owns(q, x)' => Owns(q, x)
          /\ ~(Idle(r)' /\ Owned(r)')
          /\ \A q, p \in Callers : Owns(q, r)' /\ Owns(p, r)' => q = p
          /\ Distinct(pool'.idle)
          /\ \A x \in pool'.closed : x \in pool.closed \/ x = r \/ Idle(x)
          /\ \A q \in Callers : \/ call'[q] = call[q] \/ call'[q].at = "done"
                                \/ call'[q].at = "got" /\ call'[q].on = r
    BY <1>0, <1>i, <1>tcall, <2>1, <2>2, <2>3, PutHands DEF IInv
  <2>pc. pool'.closed \subseteq PConns
    BY <1>ty DEF PoolTypeOK, PoolRec
  <2>5. Attached'
    BY <1>i, <1>0, <2>put DEF Attached, AwaitsAnswer
  <2>6. Dialling'
    BY <1>i, <1>1, <1>2, <2>put DEF Dialling, PConns
  <2>7. ReadLoop'
    BY <1>i, <1>1 DEF ReadLoop, Asked, Asks
  <2>8. Awaited'
    <3>1. \A q \in Callers, c \in PConns : Waits(q, c)' => Waits(q, c)
      BY <2>put DEF Waits, AwaitsAnswer
    <3>2. \A q \in Callers, c \in PConns : Asks(c, q) => Asks(c, q)'
      BY <1>1 DEF Asks
    <3>3. \A q \in Callers, c \in PConns : Answers(c, q) => Answers(c, q)'
      BY <1>1 DEF Answers
    <3> QED
      BY <1>i, <3>1, <3>2, <3>3, AwaitedKept
  <2>9. \A c \in PConns : c # r => NoGain(c)
    BY <1>1, <1>2, <2>put DEF NoGain, Dialled, Asked, Returning, Answering, PConns
  <2>10. OneHand(r)'
    <3>1. ~Dialled(r)' /\ ~Asked(r)' /\ ~Returning(r)' /\ ~Answering(r)'
      BY <1>1, <1>2, <2>1 DEF Dialled, Asked, Returning, Answering
    <3> QED
      BY <2>put, <3>1 DEF OneHand
  <2>11. loop'[r] # "off"
    BY <1>i, <1>0, <1>1, <1>3 DEF Made, Dialled
  <2>12. \A c \in pool'.closed : c \in pool.closed \/ loop[c] # "off"
    BY <1>i, <1>1, <2>11, <2>put, <2>pc DEF Made
  <2>13. Exclusive' /\ Made'
    BY <1>i, <1>0, <1>1, <2>put, <2>9, <2>10, <2>11, <2>12, OneMoved
  <2> QED
    BY <2>5, <2>6, <2>7, <2>8, <2>13 DEF Hands
<1>4. CASE dialc[r] # "ready"
  <2>1. UNCHANGED <<pool, call>>
    BY <1>4 DEF giveAway
  <2>2. Attached'
    BY <1>i, <2>1 DEF Attached
  <2>3. Dialling'
    BY <1>i, <1>1, <1>2, <2>1 DEF Dialling, PConns
  <2>4. ReadLoop'
    BY <1>i, <1>1 DEF ReadLoop, Asked, Asks
  <2>5. Awaited'
    BY <1>i, <1>1, <2>1 DEF Awaited, Waits, Asks, Answers
  <2>6. \A c \in PConns : NoGain(c)
    BY <1>1, <1>2, <2>1
       DEF NoGain, Dialled, Idle, Owns, Asked, Returning, Answering, PConns
  <2>7. Exclusive' /\ Made'
    BY <1>i, <1>1, <2>1, <2>6, NothingGained DEF Exclusive
  <2> QED
    BY <2>2, <2>3, <2>4, <2>5, <2>7 DEF Hands
<1> QED
  BY <1>3, <1>4

\* The connection goes from its caller to the request channel.
LEMMA roundTripHands ==
    ASSUME IInv, NEW r \in Callers, roundTrip(r)
    PROVE  Hands'
<1>i. Attached /\ Dialling /\ ReadLoop /\ Awaited /\ Made /\ Exclusive
  BY DEF IInv
<1>tcall. call \in [Callers -> CallRec]
  BY DEF IInv, PoolTypeOK
<1>treqch. reqch \in [PConns -> Seq(Callers)]
  BY DEF IInv, PoolTypeOK
<1>texpected. expected \in [PConns -> Nat]
  BY DEF IInv, PoolTypeOK
<1>0. call[r].on \in PConns
  BY <1>i DEF roundTrip, Attached, AwaitsAnswer
<1>d. PICK d \in PConns : call[r].on = d
  BY <1>0
<1>1. /\ call[r].at = "got"
      /\ reqch[d] = <<>>
      /\ UNCHANGED <<pool, dialc, wire, loop, answer>>
  BY <1>d DEF roundTrip
<1>2. /\ call'[r].at = "wait"
      /\ call'[r].on = d
      /\ \A x \in Callers : x # r => call'[x] = call[x]
  BY <1>tcall, <1>d DEF roundTrip, CallRec
<1>3. /\ reqch'[d] = <<r>> /\ reqch'[d] # <<>>
      /\ \A x \in PConns : x # d => reqch'[x] = reqch[x]
  BY <1>treqch, <1>d DEF roundTrip
<1>e. /\ expected'[d] = expected[d] + 1
      /\ \A x \in PConns : x # d => expected'[x] = expected[x]
  BY <1>texpected, <1>d DEF roundTrip
<1>g. Owns(r, d)
  BY <1>1, <1>d DEF Owns
<1>h. ~Dialled(d) /\ ~Idle(d) /\ ~Asked(d) /\ ~Returning(d) /\ ~Answering(d) /\ loop[d] # "off"
  BY <1>g, <1>i, <1>d, ByConnection DEF OneHand, Owned, Made
<1>o. \A q \in Callers : ~Owns(q, d)'
  <2>1. \A q \in Callers : Owns(q, d) => q = r
    BY <1>g, <1>d, <1>i, ByConnection DEF OneHand
  <2> QED
    BY <2>1, <1>2 DEF Owns
<1>4. Attached'
  BY <1>i, <1>2, <1>d DEF Attached, AwaitsAnswer
<1>5. Dialling'
  BY <1>i, <1>1, <1>2 DEF Dialling, PConns
<1>6. ReadLoop'
  <2> SUFFICES ASSUME NEW c \in PConns
               PROVE  /\ Asked(c)' => \E k \in Callers : Asks(c, k)'
                      /\ loop'[c] \in {"put", "deliver", "end"} => answer'[c].to \in Callers
                      /\ loop'[c] = "put" => ~answer'[c].resp.body
                      /\ loop'[c] \in {"check", "read"} /\ answer'[c].ok => wire'[c] # <<>>
                      /\ expected'[c] = (IF Asked(c)' THEN 1 ELSE 0)
                             + (IF loop'[c] \in {"put", "deliver"} THEN 1 ELSE 0)
    BY DEF ReadLoop
  <2>1. CASE c = d
    <3>1. Asks(d, r)' /\ Asked(d)' /\ ~Asked(d)
      BY <1>1, <1>3 DEF Asks, Asked
    <3> QED
      BY <1>i, <1>1, <1>e, <1>d, <2>1, <3>1 DEF ReadLoop
  <2>2. CASE c # d
    BY <1>i, <1>1, <1>3, <1>e, <2>2 DEF ReadLoop, Asks, Asked
  <2> QED
    BY <2>1, <2>2
<1>7. Awaited'
  <2> SUFFICES ASSUME NEW q \in Callers, NEW c \in PConns, Waits(q, c)'
               PROVE  Asks(c, q)' \/ Answers(c, q)'
    BY DEF Awaited
  <2>1. CASE q = r
    BY <1>2, <1>3, <2>1 DEF Waits, Asks
  <2>2. CASE q # r
    <3>1. Asks(c, q) \/ Answers(c, q)
      BY <1>i, <1>2, <2>2 DEF Awaited, Waits
    <3>2. c = d => ~Asks(c, q)
      <4>1. <<q>> # <<>>
        OBVIOUS
      <4> QED
        BY <1>1, <4>1 DEF Asks
    <3> QED
      BY <1>1, <1>3, <3>1, <3>2 DEF Asks, Answers
  <2> QED
    BY <2>1, <2>2
<1>8. Exclusive' /\ Made'
  <2>1. \A c \in PConns : c # d => NoGain(c)
    BY <1>1, <1>2, <1>3 DEF NoGain, Dialled, Idle, Owns, Asked, Returning, Answering
  <2>2. OneHand(d)'
    <3>1. ~Dialled(d)' /\ ~Idle(d)' /\ ~Returning(d)' /\ ~Answering(d)'
      BY <1>1, <1>h DEF Dialled, Idle, Returning, Answering
    <3> QED
      BY <1>o, <3>1 DEF OneHand, Owned
  <2>3. /\ \A c \in PConns : loop[c] # "off" => loop'[c] # "off"
        /\ \A c \in pool'.closed : c \in pool.closed \/ loop[c] # "off"
        /\ loop'[d] # "off" /\ Distinct(pool'.idle)
    BY <1>i, <1>1, <1>h DEF Exclusive
  <2> QED
    BY <1>i, <1>d, <2>1, <2>2, <2>3, OneMoved
<1> QED
  BY <1>4, <1>5, <1>6, <1>7, <1>8 DEF Hands

\* The connection goes from the request channel to readLoop.
LEMMA readResponseHands ==
    ASSUME IInv, NEW r \in Callers, readResponse(r)
    PROVE  Hands'
<1>i. Attached /\ Dialling /\ ReadLoop /\ Awaited /\ Made /\ Exclusive
  BY DEF IInv
<1>tpool. pool \in PoolRec
  BY DEF IInv, PoolTypeOK
<1>treqch. reqch \in [PConns -> Seq(Callers)]
  BY DEF IInv, PoolTypeOK
<1>tanswer. answer \in [PConns -> Replies]
  BY DEF IInv, PoolTypeOK
<1>tloop. loop \in [PConns -> {"off", "peek", "check", "read", "put", "deliver", "end", "exit"}]
  BY DEF IInv, PoolTypeOK
<1>twire. wire \in [PConns -> Seq(Callers)]
  BY DEF IInv, PoolTypeOK
<1>0. r \in PConns
  BY DEF PConns
<1>q. PICK q \in Callers : reqch[r] = <<q>>
  BY <1>i, <1>0 DEF readResponse, ReadLoop, Asked, Asks
<1>1. /\ loop[r] = "read" /\ reqch[r] # <<>> /\ Head(reqch[r]) = q
      /\ UNCHANGED <<call, dialc, expected>>
  BY <1>q DEF readResponse, loopVars
<1>2. reqch'[r] = <<>> /\ \A x \in PConns : x # r => reqch'[x] = reqch[x]
  BY <1>treqch, <1>0 DEF readResponse
<1>3. /\ \A x \in PConns : x # r => loop'[x] = loop[x] /\ answer'[x] = answer[x] /\ wire'[x] = wire[x]
      /\ answer'[r].to = q
      /\ loop'[r] = "deliver" \/ (loop'[r] = "put" /\ ~answer'[r].resp.body)
  <2>1. CASE /\ answer' = [answer EXCEPT ![r] = [to |-> q, ok |-> FALSE, resp |-> NoResponse]]
             /\ loop' = [loop EXCEPT ![r] = "deliver"]
             /\ UNCHANGED wire
    BY <2>1, <1>0, <1>tanswer, <1>tloop
  <2>2. CASE \E resp \in Responses :
             /\ answer' = [answer EXCEPT ![r] = [to |-> q, ok |-> TRUE, resp |-> resp]]
             /\ wire' = [wire EXCEPT ![r] = Tail(@)]
             /\ loop' = [loop EXCEPT ![r] = IF PutsBack(resp) THEN "put" ELSE "deliver"]
    <3>1. PICK resp \in Responses :
             /\ answer' = [answer EXCEPT ![r] = [to |-> q, ok |-> TRUE, resp |-> resp]]
             /\ wire' = [wire EXCEPT ![r] = Tail(@)]
             /\ loop' = [loop EXCEPT ![r] = IF PutsBack(resp) THEN "put" ELSE "deliver"]
      BY <2>2
    <3>2. /\ answer'[r].to = q /\ answer'[r].resp = resp
          /\ \A x \in PConns : x # r => answer'[x] = answer[x] /\ wire'[x] = wire[x]
      BY <3>1, <1>0, <1>tanswer, <1>twire
    <3>3. /\ loop'[r] = IF PutsBack(resp) THEN "put" ELSE "deliver"
          /\ \A x \in PConns : x # r => loop'[x] = loop[x]
      BY <3>1, <1>0, <1>tloop
    <3> QED
      BY <3>2, <3>3 DEF PutsBack
  <2> QED
    BY <1>1, <2>1, <2>2 DEF readResponse
<1>p. /\ pool'.idle = pool.idle
      /\ \A x \in pool'.closed : x \in pool.closed \/ x = r
  <2>1. pool' = pool \/ pool' = closeLocked(pool, r)
    BY DEF readResponse
  <2> QED
    BY <2>1, <1>tpool, CloseFacts DEF Closes, PConns
<1>h. Asked(r) /\ ~Dialled(r) /\ ~Idle(r) /\ ~Owned(r) /\ loop[r] # "off"
  <2>1. Asked(r)
    BY <1>1 DEF Asked
  <2> QED
    BY <2>1, <1>0, <1>i, ByConnection DEF OneHand, Made
<1>4. Attached'
  BY <1>i, <1>1 DEF Attached
<1>5. Dialling'
  BY <1>i, <1>1, <1>3 DEF Dialling, PConns
<1>6. ReadLoop'
  <2> SUFFICES ASSUME NEW c \in PConns
               PROVE  /\ Asked(c)' => \E k \in Callers : Asks(c, k)'
                      /\ loop'[c] \in {"put", "deliver", "end"} => answer'[c].to \in Callers
                      /\ loop'[c] = "put" => ~answer'[c].resp.body
                      /\ loop'[c] \in {"check", "read"} /\ answer'[c].ok => wire'[c] # <<>>
                      /\ expected'[c] = (IF Asked(c)' THEN 1 ELSE 0)
                             + (IF loop'[c] \in {"put", "deliver"} THEN 1 ELSE 0)
    BY DEF ReadLoop
  <2>1. CASE c = r
    <3>1. ~Asked(r)' /\ Asked(r)
      BY <1>2, <1>h DEF Asked
    <3> QED
      BY <1>i, <1>0, <1>1, <1>3, <2>1, <3>1 DEF ReadLoop
  <2>2. CASE c # r
    BY <1>i, <1>1, <1>2, <1>3, <2>2 DEF ReadLoop, Asks, Asked
  <2> QED
    BY <2>1, <2>2
<1>7. Awaited'
  <2> SUFFICES ASSUME NEW k \in Callers, NEW c \in PConns, Waits(k, c)'
               PROVE  Asks(c, k)' \/ Answers(c, k)'
    BY DEF Awaited
  <2>0. Asks(c, k) \/ Answers(c, k)
    BY <1>i, <1>1 DEF Awaited, Waits
  <2>1. CASE c = r
    <3>1. k = q
      BY <2>0, <2>1, <1>1, <1>q DEF Asks, Answers
    <3> QED
      BY <1>3, <2>1, <3>1 DEF Answers
  <2>2. CASE c # r
    BY <1>2, <1>3, <2>0, <2>2 DEF Asks, Answers
  <2> QED
    BY <2>1, <2>2
<1>8. Exclusive' /\ Made'
  <2>1. \A c \in PConns : c # r => NoGain(c)
    BY <1>1, <1>2, <1>3, <1>p DEF NoGain, Dialled, Idle, Owns, Asked, Returning, Answering
  <2>2. OneHand(r)'
    <3>1. ~Dialled(r)' /\ ~Idle(r)' /\ ~Owned(r)' /\ ~Asked(r)'
      BY <1>1, <1>2, <1>p, <1>h DEF Dialled, Idle, Owned, Owns, Asked
    <3> QED
      BY <3>1 DEF OneHand, Owned
  <2>3. /\ \A c \in PConns : loop[c] # "off" => loop'[c] # "off"
        /\ \A c \in pool'.closed : c \in pool.closed \/ loop[c] # "off"
        /\ loop'[r] # "off" /\ Distinct(pool'.idle)
    BY <1>i, <1>1, <1>3, <1>p DEF Exclusive
  <2> QED
    BY <1>i, <1>0, <2>1, <2>2, <2>3, OneMoved
<1> QED
  BY <1>4, <1>5, <1>6, <1>7, <1>8 DEF Hands

\* readLoop hands the response, and with it the connection, to the caller.
LEMMA deliverHands ==
    ASSUME IInv, NEW r \in Callers, deliver(r)
    PROVE  Hands'
<1>i. Attached /\ Dialling /\ ReadLoop /\ Awaited /\ Made /\ Exclusive
  BY DEF IInv
<1>tcall. call \in [Callers -> CallRec]
  BY DEF IInv, PoolTypeOK
<1>tloop. loop \in [PConns -> {"off", "peek", "check", "read", "put", "deliver", "end", "exit"}]
  BY DEF IInv, PoolTypeOK
<1>texpected. expected \in [PConns -> Nat]
  BY DEF IInv, PoolTypeOK
<1>0. r \in PConns
  BY DEF PConns
<1> DEFINE q == answer[r].to
<1>1. /\ loop[r] = "deliver" /\ q \in Callers
      /\ UNCHANGED <<pool, dialc, reqch, wire, answer>>
  BY <1>i, <1>0 DEF deliver, loopVars, ReadLoop
<1>2. /\ loop'[r] = "end" /\ \A x \in PConns : x # r => loop'[x] = loop[x]
      /\ expected'[r] = expected[r] - 1
      /\ \A x \in PConns : x # r => expected'[x] = expected[x]
  BY <1>0, <1>tloop, <1>texpected DEF deliver
<1>3. /\ \A x \in Callers : x # q => call'[x] = call[x]
      /\ \/ call[q].at \notin AwaitsAnswer /\ call'[q] = call[q]
         \/ /\ answer[r].resp.body
            /\ call'[q].at = "body" /\ call'[q].on = r
         \/ call'[q].at = "done"
  <2>1. CASE call[q].at \notin AwaitsAnswer
    <3>1. call' = call
      BY <2>1 DEF deliver
    <3> QED
      BY <2>1, <3>1
  <2>2. CASE call[q].at \in AwaitsAnswer /\ answer[r].ok /\ answer[r].resp.body
    <3>1. call' = [call EXCEPT ![q] = At("body", r)]
      BY <2>2 DEF deliver
    <3> QED
      BY <1>1, <1>tcall, <2>2, <3>1 DEF At
  <2>3. CASE call[q].at \in AwaitsAnswer /\ ~(answer[r].ok /\ answer[r].resp.body)
    <3>1. call' = [call EXCEPT ![q] = Done]
      BY <2>3 DEF deliver
    <3> QED
      BY <1>1, <1>tcall, <3>1 DEF At, Done
  <2> QED
    BY <2>1, <2>2, <2>3
<1>q. answer[r].to = q
  OBVIOUS
<1> HIDE DEF q
<1>4. Attached'
  BY <1>i, <1>0, <1>1, <1>3 DEF Attached, AwaitsAnswer
<1>5. Dialling'
  BY <1>i, <1>1, <1>2, <1>3 DEF Dialling, PConns
<1>6. ReadLoop'
  <2> SUFFICES ASSUME NEW c \in PConns
               PROVE  /\ Asked(c)' => \E k \in Callers : Asks(c, k)'
                      /\ loop'[c] \in {"put", "deliver", "end"} => answer'[c].to \in Callers
                      /\ loop'[c] = "put" => ~answer'[c].resp.body
                      /\ loop'[c] \in {"check", "read"} /\ answer'[c].ok => wire'[c] # <<>>
                      /\ expected'[c] = (IF Asked(c)' THEN 1 ELSE 0)
                             + (IF loop'[c] \in {"put", "deliver"} THEN 1 ELSE 0)
    BY DEF ReadLoop
  <2>1. CASE c = r
    BY <1>i, <1>0, <1>1, <1>2, <2>1, <1>texpected DEF ReadLoop, Asks, Asked
  <2>2. CASE c # r
    BY <1>i, <1>1, <1>2, <2>2 DEF ReadLoop, Asks, Asked
  <2> QED
    BY <2>1, <2>2
<1>7. Awaited'
  <2> SUFFICES ASSUME NEW k \in Callers, NEW c \in PConns, Waits(k, c)'
               PROVE  Asks(c, k)' \/ Answers(c, k)'
    BY DEF Awaited
  <2>0. k # q /\ Waits(k, c)
    BY <1>3 DEF Waits, AwaitsAnswer
  <2>1. Asks(c, k) \/ Answers(c, k)
    BY <1>i, <2>0 DEF Awaited
  <2> QED
    BY <1>1, <1>2, <1>q, <2>0, <2>1 DEF Asks, Answers
<1>8. Exclusive' /\ Made'
  <2>1. \A c \in PConns : c # r => NoGain(c)
    BY <1>1, <1>2, <1>3 DEF NoGain, Dialled, Idle, Owns, Asked, Returning, Answering
  <2>2. OneHand(r)'
    <3>0. OneHand(r)
      BY <1>i, <1>0, ByConnection
    <3>r. ~Returning(r)' /\ ~Answering(r)'
      BY <1>2 DEF Returning, Answering
    <3>1. CASE answer[r].resp.body
      <4>1. ~Dialled(r) /\ ~Idle(r) /\ ~Owned(r) /\ ~Asked(r)
        BY <1>1, <3>0, <3>1 DEF OneHand, Answering
      <4>2. ~Dialled(r)' /\ ~Idle(r)' /\ ~Asked(r)'
        BY <1>1, <4>1 DEF Dialled, Idle, Asked
      <4>3. \A k \in Callers : Owns(k, r)' => k = q
        BY <1>3, <4>1 DEF Owned, Owns
      <4> QED
        BY <3>r, <4>2, <4>3 DEF OneHand
    <3>2. CASE ~answer[r].resp.body
      <4>1. NoGain(r)
        BY <1>1, <1>3, <3>2, <3>r DEF NoGain, Dialled, Idle, Owns, Asked
      <4> QED
        BY <1>0, <3>0, <4>1, HandsKept
    <3> QED
      BY <3>1, <3>2
  <2>3. /\ \A c \in PConns : loop[c] # "off" => loop'[c] # "off"
        /\ \A c \in pool'.closed : c \in pool.closed \/ loop[c] # "off"
        /\ loop'[r] # "off" /\ Distinct(pool'.idle)
    BY <1>i, <1>1, <1>2 DEF Exclusive
  <2> QED
    BY <1>i, <1>0, <2>1, <2>2, <2>3, OneMoved
<1> QED
  BY <1>4, <1>5, <1>6, <1>7, <1>8 DEF Hands

\* The connection goes from readLoop to the pool.
LEMMA putBackHands ==
    ASSUME IInv, NEW r \in Callers, putBack(r)
    PROVE  Hands'
<1>i. Attached /\ Dialling /\ ReadLoop /\ Awaited /\ Made /\ Exclusive
  BY DEF IInv
<1>ty. PoolTypeOK'
  BY TypeStep DEF IInv, PoolNext
<1>tcall. call \in [Callers -> CallRec]
  BY DEF IInv, PoolTypeOK
<1>tpool. pool \in PoolRec
  BY DEF IInv, PoolTypeOK
<1>tloop. loop \in [PConns -> {"off", "peek", "check", "read", "put", "deliver", "end", "exit"}]
  BY DEF IInv, PoolTypeOK
<1>tanswer. answer \in [PConns -> Replies]
  BY DEF IInv, PoolTypeOK
<1>0. r \in PConns
  BY DEF PConns
<1>1. UNCHANGED <<dialc, reqch, wire, expected>> /\ loop[r] = "put"
  BY DEF putBack, loopVars
<1>2. loop'[r] = "deliver" /\ \A x \in PConns : x # r => loop'[x] = loop[x]
  BY <1>tloop, <1>0 DEF putBack
<1>p. PICK kept \in BOOLEAN :
        putIdleConn(r, kept, call) /\ answer' = [answer EXCEPT ![r].resp.last = ~kept]
  BY DEF putBack
<1>3. /\ answer'[r].to = answer[r].to /\ ~answer'[r].resp.body
      /\ \A x \in PConns : x # r => answer'[x] = answer[x]
  <2>1. ~answer[r].resp.body
    BY <1>i, <1>0, <1>1 DEF ReadLoop
  <2> QED
    BY <1>p, <1>tanswer, <1>0, <2>1 DEF Replies, Responses
<1>8. Hands'
  <2>0. OneHand(r)
    BY <1>i, <1>0, ByConnection
  <2>1. ~Dialled(r) /\ ~Idle(r) /\ ~Owned(r) /\ ~Asked(r)
    BY <2>0, <1>1 DEF OneHand, Returning
  <2>3. \A q \in Callers : call[q].on = r => call[q].at \notin {"got", "body", "late"}
    BY <2>1 DEF Owned, Owns
  <2>put. /\ \A x \in PConns : x # r => (Idle(x)' => Idle(x))
          /\ \A x \in PConns : x # r => \A q \in Callers : Owns(q, x)' => Owns(q, x)
          /\ ~(Idle(r)' /\ Owned(r)')
          /\ \A q, p \in Callers : Owns(q, r)' /\ Owns(p, r)' => q = p
          /\ Distinct(pool'.idle)
          /\ \A x \in pool'.closed : x \in pool.closed \/ x = r \/ Idle(x)
          /\ \A q \in Callers : \/ call'[q] = call[q] \/ call'[q].at = "done"
                                \/ call'[q].at = "got" /\ call'[q].on = r
    BY <1>0, <1>i, <1>p, <1>tcall, <2>1, <2>3, PutHands DEF IInv
  <2>pc. pool'.closed \subseteq PConns
    BY <1>ty DEF PoolTypeOK, PoolRec
  <2>5. Attached'
    BY <1>i, <1>0, <2>put DEF Attached, AwaitsAnswer
  <2>6. Dialling'
    BY <1>i, <1>1, <1>2, <2>put DEF Dialling, PConns
  <2>7. ReadLoop'
    BY <1>i, <1>1, <1>2, <1>3 DEF ReadLoop, Asked, Asks
  <2>8. Awaited'
    <3>1. \A q \in Callers, c \in PConns : Waits(q, c)' => Waits(q, c)
      BY <2>put DEF Waits, AwaitsAnswer
    <3>2. \A q \in Callers, c \in PConns : Asks(c, q) => Asks(c, q)'
      BY <1>1 DEF Asks
    <3>3. \A q \in Callers, c \in PConns : Answers(c, q) => Answers(c, q)'
      BY <1>1, <1>2, <1>3 DEF Answers, PConns
    <3> QED
      BY <1>i, <3>1, <3>2, <3>3, AwaitedKept
  <2>9. \A c \in PConns : c # r => NoGain(c)
    BY <1>1, <1>2, <1>3, <2>put DEF NoGain, Dialled, Asked, Returning, Answering, PConns
  <2>10. OneHand(r)'
    <3>1. ~Dialled(r)' /\ ~Asked(r)' /\ ~Returning(r)' /\ ~Answering(r)'
      BY <1>1, <1>2, <1>3, <2>1 DEF Dialled, Asked, Returning, Answering
    <3> QED
      BY <2>put, <3>1 DEF OneHand
  <2>11. /\ loop[r] # "off" /\ loop'[r] # "off"
         /\ \A c \in PConns : loop[c] # "off" => loop'[c] # "off"
    BY <1>1, <1>2
  <2>12. \A c \in pool'.closed : c \in pool.closed \/ loop[c] # "off"
    BY <1>i, <2>11, <2>put, <2>pc DEF Made
  <2>13. Exclusive' /\ Made'
    BY <1>i, <1>0, <2>put, <2>9, <2>10, <2>11, <2>12, OneMoved
  <2> QED
    BY <2>5, <2>6, <2>7, <2>8, <2>13 DEF Hands
<1> QED
  BY <1>8

\* At the end of the body the connection goes from its reader to the pool.
LEMMA bodyEOFHands ==
    ASSUME IInv, NEW r \in Callers, bodyEOF(r)
    PROVE  Hands'
<1>i. Attached /\ Dialling /\ ReadLoop /\ Awaited /\ Made /\ Exclusive
  BY DEF IInv
<1>ty. PoolTypeOK'
  BY TypeStep DEF IInv, PoolNext
<1>tcall. call \in [Callers -> CallRec]
  BY DEF IInv, PoolTypeOK
<1>tpool. pool \in PoolRec
  BY DEF IInv, PoolTypeOK
<1>0. call[r].on \in PConns
  BY <1>i DEF bodyEOF, Attached, AwaitsAnswer
<1>d. PICK d \in PConns : call[r].on = d
  BY <1>0
<1> DEFINE callNow == [call EXCEPT ![r] = Done]
<1>1. /\ UNCHANGED <<dialc, reqch, wire, loop, answer, expected>>
      /\ call[r].at \in {"body", "late"}
  BY DEF bodyEOF
<1>2. /\ callNow \in [Callers -> CallRec] /\ callNow[r].at = "done"
      /\ \A q \in Callers : q # r => callNow[q] = call[q]
  BY <1>tcall DEF CallRec, Done, At
<1>3. \/ pool' = closeLocked(pool, d) /\ call' = callNow
      \/ \E kept \in BOOLEAN : putIdleConn(d, kept, callNow)
  BY <1>d DEF bodyEOF
<1> HIDE DEF callNow
<1>g. Owns(r, d)
  BY <1>1, <1>d DEF Owns
<1>h. /\ ~Dialled(d) /\ ~Idle(d) /\ ~Asked(d) /\ ~Returning(d) /\ ~Answering(d) /\ loop[d] # "off"
      /\ \A q \in Callers : Owns(q, d) => q = r
  BY <1>g, <1>i, <1>d, ByConnection DEF OneHand, Owned, Made
<1>4. CASE pool' = closeLocked(pool, d) /\ call' = callNow
  <2>1. /\ pool'.idle = pool.idle
        /\ \A x \in pool'.closed : x \in pool.closed \/ x = d
    BY <1>4, <1>tpool, CloseFacts DEF Closes
  <2>2. \A q \in Callers : call'[q] = call[q] \/ call'[q].at = "done"
    BY <1>2, <1>4
  <2>3. Attached'
    BY <1>i, <2>2 DEF Attached, AwaitsAnswer
  <2>4. Dialling'
    BY <1>i, <1>1, <2>2 DEF Dialling, PConns
  <2>5. ReadLoop'
    BY <1>i, <1>1 DEF ReadLoop, Asked, Asks
  <2>6. Awaited'
    <3>1. \A q \in Callers, c \in PConns : Waits(q, c)' => Waits(q, c)
      BY <2>2 DEF Waits, AwaitsAnswer
    <3>2. \A q \in Callers, c \in PConns : Asks(c, q) => Asks(c, q)'
      BY <1>1 DEF Asks
    <3>3. \A q \in Callers, c \in PConns : Answers(c, q) => Answers(c, q)'
      BY <1>1 DEF Answers, PConns
    <3> QED
      BY <1>i, <3>1, <3>2, <3>3, AwaitedKept
  <2>7. \A c \in PConns : NoGain(c)
    BY <1>1, <2>1, <2>2 DEF NoGain, Dialled, Idle, Owns, Asked, Returning, Answering
  <2>8. /\ \A c \in PConns : loop[c] # "off" => loop'[c] # "off"
        /\ \A c \in pool'.closed : c \in pool.closed \/ loop[c] # "off"
        /\ Distinct(pool'.idle)
    BY <1>i, <1>1, <1>h, <2>1 DEF Exclusive
  <2>9. Exclusive' /\ Made'
    BY <1>i, <2>7, <2>8, NothingGained
  <2> QED
    BY <2>3, <2>4, <2>5, <2>6, <2>9 DEF Hands
<1>5. CASE \E kept \in BOOLEAN : putIdleConn(d, kept, callNow)
  <2>1. PICK kept \in BOOLEAN : putIdleConn(d, kept, callNow)
    BY <1>5
  <2>2. \A q \in Callers : callNow[q] = call[q] \/ callNow[q].at = "done"
    BY <1>2
  <2>3. \A q \in Callers : callNow[q].on = d => callNow[q].at \notin {"got", "body", "late"}
    BY <1>2, <1>h DEF Owns
  <2>put. /\ \A x \in PConns : x # d => (Idle(x)' => Idle(x))
          /\ \A x \in PConns : x # d => \A q \in Callers : Owns(q, x)' => Owns(q, x)
          /\ ~(Idle(d)' /\ Owned(d)')
          /\ \A q, p \in Callers : Owns(q, d)' /\ Owns(p, d)' => q = p
          /\ Distinct(pool'.idle)
          /\ \A x \in pool'.closed : x \in pool.closed \/ x = d \/ Idle(x)
          /\ \A q \in Callers : \/ call'[q] = call[q] \/ call'[q].at = "done"
                                \/ call'[q].at = "got" /\ call'[q].on = d
    BY <1>h, <1>i, <1>2, <2>1, <2>2, <2>3, PutHands DEF IInv
  <2>pc. pool'.closed \subseteq PConns
    BY <1>ty DEF PoolTypeOK, PoolRec
  <2>5. Attached'
    BY <1>i, <2>put DEF Attached, AwaitsAnswer
  <2>6. Dialling'
    BY <1>i, <1>1, <2>put DEF Dialling, PConns
  <2>7. ReadLoop'
    BY <1>i, <1>1 DEF ReadLoop, Asked, Asks
  <2>8. Awaited'
    <3>1. \A q \in Callers, c \in PConns : Waits(q, c)' => Waits(q, c)
      BY <2>put DEF Waits, AwaitsAnswer
    <3>2. \A q \in Callers, c \in PConns : Asks(c, q) => Asks(c, q)'
      BY <1>1 DEF Asks
    <3>3. \A q \in Callers, c \in PConns : Answers(c, q) => Answers(c, q)'
      BY <1>1 DEF Answers, PConns
    <3> QED
      BY <1>i, <3>1, <3>2, <3>3, AwaitedKept
  <2>9. \A c \in PConns : c # d => NoGain(c)
    BY <1>1, <2>put DEF NoGain, Dialled, Asked, Returning, Answering, PConns
  <2>10. OneHand(d)'
    <3>1. ~Dialled(d)' /\ ~Asked(d)' /\ ~Returning(d)' /\ ~Answering(d)'
      BY <1>1, <1>h DEF Dialled, Asked, Returning, Answering
    <3> QED
      BY <2>put, <3>1 DEF OneHand
  <2>11. /\ loop'[d] # "off"
         /\ \A c \in PConns : loop[c] # "off" => loop'[c] # "off"
    BY <1>1, <1>h
  <2>12. \A c \in pool'.closed : c \in pool.closed \/ loop[c] # "off"
    BY <1>i, <1>h, <2>put, <2>pc DEF Made
  <2>13. Exclusive' /\ Made'
    BY <1>i, <2>put, <2>9, <2>10, <2>11, <2>12, OneMoved
  <2> QED
    BY <2>5, <2>6, <2>7, <2>8, <2>13 DEF Hands
<1> QED
  BY <1>3, <1>4, <1>5

-----------------------------------------------------------------------------
(* The slots.                                                              *)

Dials == {r \in Callers : dialc[r] = "dialing"}
Loops == {c \in PConns : loop[c] # "off"}

\* A step that neither begins nor ends a dial: it closes at most one of the
\* connections that have been made.
Steady == Dials' = Dials /\ Loops' = Loops /\ Closes(pool, pool', Loops)

\* There are finitely many connections, one at most per dial of a caller.
LEMMA FiniteConns ==
    /\ IsFiniteSet(Dials) /\ IsFiniteSet(OpenConns)
    /\ Cardinality(Dials) \in Nat /\ Cardinality(OpenConns) \in Nat
<1>1. Dials \subseteq Callers /\ OpenConns \subseteq Callers
  BY DEF Dials, OpenConns, PConns
<1> QED
  BY <1>1, PoolAssumption, FS_Subset, FS_CardinalityType

\* A step that starts no dial, makes no connection and closes only connections
\* that were made keeps the count exact.
LEMMA SteadySlots ==
    ASSUME SlotsExact, pool \in PoolRec, Steady
    PROVE  SlotsExact'
<1>0. /\ pool.cnt = Cardinality(Dials) + Cardinality(OpenConns)
      /\ pool.cnt <= MaxConnsPerHost /\ pool.cnt \in Int /\ MaxConnsPerHost \in Nat
  BY PoolAssumption DEF SlotsExact, Dials, PoolRec
<1>1. CASE pool'.closed = pool.closed /\ pool'.cnt = pool.cnt
  <2>1. OpenConns' = OpenConns
    BY <1>1 DEF Steady, OpenConns, Loops
  <2> QED
    BY <1>0, <1>1, <2>1 DEF Steady, SlotsExact, Dials
<1>2. ASSUME NEW x \in Loops \ pool.closed,
             pool'.closed = pool.closed \cup {x}, pool'.cnt = pool.cnt - 1
      PROVE  SlotsExact'
  <2>1. x \in OpenConns /\ OpenConns' = OpenConns \ {x}
    BY <1>2 DEF Steady, OpenConns, Loops
  <2>2. Cardinality(OpenConns') = Cardinality(OpenConns) - 1
    BY <2>1, FiniteConns, FS_RemoveElement
  <2>3. /\ pool'.cnt = Cardinality(Dials) + Cardinality(OpenConns')
        /\ pool'.cnt <= MaxConnsPerHost
    BY <1>0, <1>2, <2>2, FiniteConns
  <2> QED
    BY <2>3 DEF Steady, SlotsExact, Dials
<1> QED
  BY <1>1, <1>2 DEF Steady, Closes

\* checkAndIncConnCnt takes a slot for a dial within the limit.
LEMMA CountedDial ==
    ASSUME IInv, NEW r \in Callers, checkAndIncConnCnt(r)
    PROVE  SlotsExact'
<1>0. /\ SlotsExact /\ pool \in PoolRec
      /\ dialc \in [Callers -> {"none", "count", "dialing", "ready", "failed"}]
  BY DEF IInv, PoolTypeOK
<1>1. dialc[r] = "count" /\ UNCHANGED loop
  BY DEF checkAndIncConnCnt, connVars
<1>2. CASE pool.cnt >= MaxConnsPerHost
  <2>1. UNCHANGED pool /\ dialc' = [dialc EXCEPT ![r] = "failed"]
    BY <1>2 DEF checkAndIncConnCnt
  <2>2. Steady
    BY <1>0, <1>1, <2>1 DEF Steady, Dials, Loops, Closes
  <2> QED
    BY <1>0, <2>2, SteadySlots
<1>3. CASE ~(pool.cnt >= MaxConnsPerHost)
  <2>1. pool' = [pool EXCEPT !.cnt = @ + 1] /\ dialc' = [dialc EXCEPT ![r] = "dialing"]
    BY <1>3 DEF checkAndIncConnCnt
  <2>2. pool'.cnt = pool.cnt + 1 /\ pool'.closed = pool.closed /\ pool.cnt \in Int
    BY <1>0, <2>1 DEF PoolRec
  <2>3. r \notin Dials /\ Dials' = Dials \cup {r} /\ OpenConns' = OpenConns
    BY <1>0, <1>1, <2>1, <2>2 DEF Dials, OpenConns
  <2>4. Cardinality(Dials') = Cardinality(Dials) + 1
    BY <2>3, FiniteConns, FS_AddElement
  <2>5. /\ pool'.cnt = Cardinality(Dials') + Cardinality(OpenConns')
        /\ pool'.cnt <= MaxConnsPerHost
    BY <1>0, <1>3, <2>2, <2>3, <2>4, FiniteConns, PoolAssumption DEF SlotsExact, Dials
  <2> QED
    BY <2>5 DEF SlotsExact, Dials
<1> QED
  BY <1>2, <1>3

\* A dial that fails gives its slot back.
LEMMA FailedDial ==
    ASSUME IInv, NEW r \in Callers, dialFailed(r)
    PROVE  SlotsExact'
<1>0. /\ SlotsExact /\ pool \in PoolRec
      /\ dialc \in [Callers -> {"none", "count", "dialing", "ready", "failed"}]
  BY DEF IInv, PoolTypeOK
<1>1. /\ dialc[r] = "dialing" /\ UNCHANGED loop
      /\ pool' = [pool EXCEPT !.cnt = @ - 1] /\ dialc' = [dialc EXCEPT ![r] = "failed"]
  BY DEF dialFailed, connVars
<1>2. pool'.cnt = pool.cnt - 1 /\ pool'.closed = pool.closed /\ pool.cnt \in Int
  BY <1>0, <1>1 DEF PoolRec
<1>3. r \in Dials /\ Dials' = Dials \ {r} /\ OpenConns' = OpenConns
  BY <1>0, <1>1, <1>2 DEF Dials, OpenConns
<1>4. Cardinality(Dials') = Cardinality(Dials) - 1
  BY <1>3, FiniteConns, FS_RemoveElement
<1>5. /\ pool'.cnt = Cardinality(Dials') + Cardinality(OpenConns')
      /\ pool'.cnt <= MaxConnsPerHost
  BY <1>0, <1>2, <1>3, <1>4, FiniteConns, PoolAssumption DEF SlotsExact, Dials
<1> QED
  BY <1>5 DEF SlotsExact, Dials

\* The slot of the dial becomes the slot of the connection.
LEMMA MadeConn ==
    ASSUME IInv, NEW r \in Callers, dialConn(r)
    PROVE  SlotsExact'
<1>0. /\ SlotsExact /\ Dialling /\ Made
      /\ dialc \in [Callers -> {"none", "count", "dialing", "ready", "failed"}]
      /\ loop \in [PConns -> {"off", "peek", "check", "read", "put", "deliver", "end", "exit"}]
  BY DEF IInv, PoolTypeOK
<1>1. /\ dialc[r] = "dialing" /\ UNCHANGED pool
      /\ dialc' = [dialc EXCEPT ![r] = "ready"] /\ loop' = [loop EXCEPT ![r] = "peek"]
  BY DEF dialConn
<1>2. loop[r] = "off" /\ r \notin pool.closed
  BY <1>0, <1>1 DEF Dialling, Made, PConns
<1>3. /\ r \in Dials /\ Dials' = Dials \ {r}
      /\ r \notin OpenConns /\ OpenConns' = OpenConns \cup {r}
  BY <1>0, <1>1, <1>2 DEF Dials, OpenConns, PConns
<1>4. /\ Cardinality(Dials') = Cardinality(Dials) - 1
      /\ Cardinality(OpenConns') = Cardinality(OpenConns) + 1
  BY <1>3, FiniteConns, FS_RemoveElement, FS_AddElement
<1>5. /\ pool'.cnt = Cardinality(Dials') + Cardinality(OpenConns')
      /\ pool'.cnt <= MaxConnsPerHost
  BY <1>0, <1>1, <1>4, FiniteConns DEF SlotsExact, Dials
<1> QED
  BY <1>5 DEF SlotsExact, Dials

\* Every other step is steady.
LEMMA SlotsStep ==
    ASSUME IInv, PoolNext
    PROVE  SlotsExact'
<1> SUFFICES ASSUME NEW r \in Callers, Step(r) PROVE SlotsExact'
  BY DEF PoolNext, Step
<1>i. SlotsExact /\ Dialling /\ Attached /\ Made /\ Awaited /\ Exclusive /\ PoolTypeOK
  BY DEF IInv
<1>pool. pool \in PoolRec
  BY DEF IInv, PoolTypeOK
<1>dialc. dialc \in [Callers -> {"none", "count", "dialing", "ready", "failed"}]
  BY DEF IInv, PoolTypeOK
<1>loop. loop \in [PConns -> {"off", "peek", "check", "read", "put", "deliver", "end", "exit"}]
  BY DEF IInv, PoolTypeOK
<1>call. call \in [Callers -> CallRec]
  BY DEF IInv, PoolTypeOK
<1>r. r \in PConns
  BY DEF PConns
<1>c. ASSUME NEW c \in PConns, loop[c] # "off", pool' = pool \/ pool' = closeLocked(pool, c)
      PROVE  Closes(pool, pool', Loops)
  BY <1>c, <1>pool, CloseFacts DEF Closes, Loops
<1>p. ASSUME NEW c \in PConns, loop[c] # "off", NEW kept \in BOOLEAN, NEW callNow,
             putIdleConn(c, kept, callNow)
      PROVE  Closes(pool, pool', Loops)
  <2>1. Closes(pool, pool', {c} \cup {x \in PConns : Has(pool.idle, x)})
    BY <1>i, <1>p, PutIdleFacts
  <2>2. \A x \in PConns : Has(pool.idle, x) => loop[x] # "off"
    BY <1>i DEF Made, Idle
  <2> QED
    BY <1>p, <2>1, <2>2 DEF Closes, Loops
<1>s. Steady => SlotsExact'
  BY <1>i, <1>pool, SteadySlots
<1>1. CASE getIdleConn(r)
  <2>11. Dials' = Dials
    BY <1>1, <1>dialc, <1>i DEF getIdleConn, Dials, Dialling, PConns
  <2>12. Loops' = Loops
    BY <1>1 DEF getIdleConn, Loops, connVars
  <2>13. Closes(pool, pool', Loops)
    BY <1>1, <1>pool DEF getIdleConn, Closes, PoolRec
  <2> QED
    BY <2>11, <2>12, <2>13, <1>s DEF Steady
<1>2. CASE getIdleConnCh(r)
  <2>11. Dials' = Dials
    BY <1>2 DEF getIdleConnCh, Dials, connVars
  <2>12. Loops' = Loops
    BY <1>2 DEF getIdleConnCh, Loops, connVars
  <2>13. Closes(pool, pool', Loops)
    BY <1>2, <1>pool DEF getIdleConnCh, Closes, PoolRec
  <2> QED
    BY <2>11, <2>12, <2>13, <1>s DEF Steady
<1>3. CASE checkAndIncConnCnt(r)
  BY <1>3, CountedDial
<1>4. CASE dialFailed(r)
  BY <1>4, FailedDial
<1>5. CASE dialConn(r)
  BY <1>5, MadeConn
<1>6. CASE dialWins(r)
  <2>11. Dials' = Dials
    BY <1>6, <1>dialc DEF dialWins, Dials
  <2>12. Loops' = Loops
    BY <1>6 DEF dialWins, Loops, connVars
  <2>13. Closes(pool, pool', Loops)
    BY <1>6, <1>pool DEF dialWins, Closes, PoolRec
  <2> QED
    BY <2>11, <2>12, <2>13, <1>s DEF Steady
<1>7. CASE giveAway(r)
  <2>11. Dials' = Dials
    BY <1>7, <1>dialc DEF giveAway, Dials
  <2>12. Loops' = Loops
    BY <1>7 DEF giveAway, Loops, connVars
  <2>13. Closes(pool, pool', Loops)
    <3>1. CASE dialc[r] = "ready"
      <4>1. loop[r] # "off"
        BY <1>i, <1>r, <3>1 DEF Made, Dialled
      <4> QED
        BY <1>7, <1>p, <1>r, <3>1, <4>1 DEF giveAway
    <3>2. CASE dialc[r] # "ready"
      BY <1>7, <3>2 DEF giveAway, Closes
    <3> QED
      BY <3>1, <3>2
  <2> QED
    BY <2>11, <2>12, <2>13, <1>s DEF Steady
<1>8. CASE roundTrip(r)
  <2>11. Dials' = Dials
    BY <1>8 DEF roundTrip, Dials
  <2>12. Loops' = Loops
    BY <1>8 DEF roundTrip, Loops
  <2>13. Closes(pool, pool', Loops)
    BY <1>8 DEF roundTrip, Closes
  <2> QED
    BY <2>11, <2>12, <2>13, <1>s DEF Steady
<1>9. CASE roundTripFails(r)
  <2>11. Dials' = Dials
    BY <1>9 DEF roundTripFails, Dials, connVars
  <2>12. Loops' = Loops
    BY <1>9 DEF roundTripFails, Loops, connVars
  <2>13. Closes(pool, pool', Loops)
    <3>1. call[r].on \in PConns /\ Waits(r, call[r].on)
      BY <1>9, <1>i DEF roundTripFails, Attached, AwaitsAnswer, Waits
    <3>2. loop[call[r].on] # "off"
      BY <1>i, <3>1 DEF Awaited, Made, Asks, Asked, Answers
    <3> QED
      BY <1>9, <1>c, <3>1, <3>2 DEF roundTripFails
  <2> QED
    BY <2>11, <2>12, <2>13, <1>s DEF Steady
<1>10. CASE bodyEOF(r)
  <2>11. Dials' = Dials
    BY <1>10 DEF bodyEOF, Dials
  <2>12. Loops' = Loops
    BY <1>10 DEF bodyEOF, Loops
  <2>13. Closes(pool, pool', Loops)
    <3>1. call[r].on \in PConns
      BY <1>10, <1>i DEF bodyEOF, Attached
    <3>2. loop[call[r].on] # "off"
      BY <1>10, <1>i, <3>1 DEF bodyEOF, Made, Owned, Owns
    <3> QED
      BY <1>10, <1>c, <1>p, <3>1, <3>2 DEF bodyEOF
  <2> QED
    BY <2>11, <2>12, <2>13, <1>s DEF Steady
<1>11. CASE bodyAbandoned(r)
  <2>11. Dials' = Dials
    BY <1>11 DEF bodyAbandoned, Dials
  <2>12. Loops' = Loops
    BY <1>11 DEF bodyAbandoned, Loops
  <2>13. Closes(pool, pool', Loops)
    <3>1. call[r].on \in PConns
      BY <1>11, <1>i DEF bodyAbandoned, Attached
    <3>2. loop[call[r].on] # "off"
      BY <1>11, <1>i, <3>1 DEF bodyAbandoned, Made, Owned, Owns
    <3> QED
      BY <1>11, <1>c, <3>1, <3>2 DEF bodyAbandoned
  <2> QED
    BY <2>11, <2>12, <2>13, <1>s DEF Steady
<1>12. CASE writeTimer(r)
  <2>11. Dials' = Dials
    BY <1>12 DEF writeTimer, Dials, connVars
  <2>12. Loops' = Loops
    BY <1>12 DEF writeTimer, Loops, connVars
  <2>13. Closes(pool, pool', Loops)
    BY <1>12, <1>pool DEF writeTimer, Closes, PoolRec
  <2> QED
    BY <2>11, <2>12, <2>13, <1>s DEF Steady
<1>13. CASE startWrite(r)
  <2>11. Dials' = Dials
    BY <1>13 DEF startWrite, Dials
  <2>12. Loops' = Loops
    BY <1>13 DEF startWrite, Loops
  <2>13. Closes(pool, pool', Loops)
    BY <1>13 DEF startWrite, Closes
  <2> QED
    BY <2>11, <2>12, <2>13, <1>s DEF Steady
<1>14. CASE endWrite(r)
  <2>11. Dials' = Dials
    BY <1>14 DEF endWrite, Dials
  <2>12. Loops' = Loops
    BY <1>14 DEF endWrite, Loops
  <2>13. Closes(pool, pool', Loops)
    BY <1>14, <1>pool DEF endWrite, Closes, PoolRec
  <2> QED
    BY <2>11, <2>12, <2>13, <1>s DEF Steady
<1>15. CASE peek(r)
  <2>11. Dials' = Dials
    BY <1>15 DEF peek, Dials, loopVars
  <2>12. Loops' = Loops
    BY <1>15, <1>loop, <1>r DEF peek, Loops
  <2>13. Closes(pool, pool', Loops)
    BY <1>15 DEF peek, Closes, loopVars
  <2> QED
    BY <2>11, <2>12, <2>13, <1>s DEF Steady
<1>16. CASE checkExpected(r)
  <2>11. Dials' = Dials
    BY <1>16 DEF checkExpected, Dials, loopVars
  <2>12. Loops' = Loops
    BY <1>16, <1>loop, <1>r DEF checkExpected, Loops
  <2>13. Closes(pool, pool', Loops)
    BY <1>16, <1>c, <1>r DEF checkExpected
  <2> QED
    BY <2>11, <2>12, <2>13, <1>s DEF Steady
<1>17. CASE readResponse(r)
  <2>11. Dials' = Dials
    BY <1>17 DEF readResponse, Dials, loopVars
  <2>12. Loops' = Loops
    BY <1>17, <1>loop, <1>r DEF readResponse, Loops
  <2>13. Closes(pool, pool', Loops)
    BY <1>17, <1>c, <1>r DEF readResponse
  <2> QED
    BY <2>11, <2>12, <2>13, <1>s DEF Steady
<1>18. CASE putBack(r)
  <2>11. Dials' = Dials
    BY <1>18 DEF putBack, Dials, loopVars
  <2>12. Loops' = Loops
    BY <1>18, <1>loop, <1>r DEF putBack, Loops
  <2>13. Closes(pool, pool', Loops)
    BY <1>18, <1>p, <1>r DEF putBack
  <2> QED
    BY <2>11, <2>12, <2>13, <1>s DEF Steady
<1>19. CASE deliver(r)
  <2>11. Dials' = Dials
    BY <1>19 DEF deliver, Dials, loopVars
  <2>12. Loops' = Loops
    BY <1>19, <1>loop, <1>r DEF deliver, Loops
  <2>13. Closes(pool, pool', Loops)
    BY <1>19 DEF deliver, Closes, loopVars
  <2> QED
    BY <2>11, <2>12, <2>13, <1>s DEF Steady
<1>20. CASE endResponse(r)
  <2>11. Dials' = Dials
    BY <1>20 DEF endResponse, Dials, loopVars
  <2>12. Loops' = Loops
    BY <1>20, <1>loop, <1>r DEF endResponse, Loops
  <2>13. Closes(pool, pool', Loops)
    BY <1>20, <1>c, <1>r DEF endResponse
  <2> QED
    BY <2>11, <2>12, <2>13, <1>s DEF Steady
<1> QED
  BY <1>1, <1>2, <1>3, <1>4, <1>5, <1>6, <1>7, <1>8, <1>9, <1>10, <1>11,
     <1>12, <1>13, <1>14, <1>15, <1>16, <1>17, <1>18, <1>19, <1>20 DEF Step

-----------------------------------------------------------------------------
(* The theorems.                                                           *)

\* At the start no connection has been made.
LEMMA InitInv ==
    ASSUME PoolInit
    PROVE  IInv
<1>1. PoolTypeOK
  <2>1. /\ maxIdle \in MaxIdles /\ pool \in PoolRec
        /\ reqConn \in [Handles -> PConns \cup {NoCaller}]
    BY DEF PoolInit, PoolRec
  <2>2. call \in [Callers -> CallRec]
    BY DEF PoolInit, CallRec, At
  <2>3. /\ writech \in [PConns -> Seq(Callers)] /\ reqch \in [PConns -> Seq(Callers)]
        /\ wire \in [PConns -> Seq(Callers)] /\ expected \in [PConns -> Nat]
        /\ writing \in [PConns -> Callers \cup {NoCaller}]
    BY DEF PoolInit
  <2>4. /\ dialc \in [Callers -> {"none", "count", "dialing", "ready", "failed"}]
        /\ loop \in [PConns -> {"off", "peek", "check", "read", "put", "deliver", "end", "exit"}]
        /\ bodyRead \in [PConns -> {"none", "again", "stop"}]
    BY DEF PoolInit
  <2>5. answer \in [PConns -> Replies]
    BY ReplyTyped DEF PoolInit
  <2> QED
    BY <2>1, <2>2, <2>3, <2>4, <2>5 DEF PoolTypeOK
<1>2. /\ pool.idle = <<>> /\ pool.closed = {} /\ pool.cnt = 0
      /\ \A c \in PConns : loop[c] = "off" /\ dialc[c] = "none" /\ reqch[c] = <<>> /\ expected[c] = 0
      /\ \A r \in Callers : call[r].at = "new"
  BY DEF PoolInit, At, PConns
<1>3. \A c : ~Has(pool.idle, c)
  BY <1>2 DEF Has
<1>4. Distinct(pool.idle)
  BY <1>2 DEF Distinct
<1>5. Exclusive
  BY <1>2, <1>3, <1>4
     DEF Exclusive, Dialled, Idle, Owned, Owns, Asked, Returning, Answering
<1>6. Attached /\ Dialling /\ Awaited
  BY <1>2 DEF Attached, Dialling, Awaited, Waits, AwaitsAnswer, PConns
<1>7. Made
  BY <1>2, <1>3 DEF Made, Dialled, Idle, Owned, Owns, Asked
<1>8. ReadLoop
  BY <1>2 DEF ReadLoop, Asked
<1>9. SlotsExact
  <2>1. {r \in Callers : dialc[r] = "dialing"} = {} /\ OpenConns = {}
    BY <1>2 DEF OpenConns, PConns
  <2>2. Cardinality({}) = 0
    BY FS_EmptySet
  <2> QED
    <3>1. /\ Cardinality({r \in Callers : dialc[r] = "dialing"}) = 0
          /\ Cardinality(OpenConns) = 0
      BY <2>1, <2>2
    <3> QED
      BY <1>2, <3>1, PoolAssumption DEF SlotsExact
<1> QED
  BY <1>1, <1>5, <1>6, <1>7, <1>8, <1>9 DEF IInv

\* Every step of a caller, a dial, readLoop and writeLoop keeps IInv.
LEMMA Inductive ==
    ASSUME IInv, [PoolNext]_poolVars
    PROVE  IInv'
<1>1. CASE UNCHANGED poolVars
  <2> USE <1>1 DEF poolVars
  <2>1. PoolTypeOK'
    BY DEF IInv, PoolTypeOK
  <2>2. Exclusive'
    BY DEF IInv, Exclusive, Dialled, Idle, Owned, Owns, Asked, Returning, Answering
  <2>3. Made'
    BY DEF IInv, Made, Dialled, Idle, Owned, Owns, Asked
  <2>4. Attached' /\ Dialling'
    BY DEF IInv, Attached, Dialling
  <2>5. Awaited'
    BY DEF IInv, Awaited, Waits, Asks, Answers
  <2>6. ReadLoop'
    BY DEF IInv, ReadLoop, Asked, Asks
  <2>7. SlotsExact'
    BY DEF IInv, SlotsExact, OpenConns
  <2> QED
    BY <2>1, <2>2, <2>3, <2>4, <2>5, <2>6, <2>7 DEF IInv
<1>2. CASE PoolNext
  <2>1. PoolTypeOK'
    BY <1>2, TypeStep DEF IInv
  <2>2. SlotsExact'
    BY <1>2, SlotsStep
  <2>3. PICK r \in Callers : Step(r)
    BY <1>2 DEF PoolNext, Step
  <2>4. Hands'
    BY <2>3, getIdleConnHands, getIdleConnChHands, checkAndIncConnCntHands,
       dialFailedHands, dialConnHands, dialWinsHands, giveAwayHands,
       roundTripHands, roundTripFailsHands, bodyEOFHands,
       bodyAbandonedHands, writeTimerHands, startWriteHands, endWriteHands,
       peekHands, checkExpectedHands, readResponseHands, putBackHands,
       deliverHands, endResponseHands DEF Step
  <2> QED
    BY <2>1, <2>2, <2>4 DEF IInv, Hands
<1> QED
  BY <1>1, <1>2

\* Who has a connection in hand, for every step of getConn, of the dial it
\* races with, of roundTrip and of the two loops of a persistConn.
THEOREM Invariant == PoolSpec => []IInv
<1>1. PoolInit => IInv
  BY InitInv
<1>2. IInv /\ [PoolNext]_poolVars => IInv'
  BY Inductive
<1> QED
  BY <1>1, <1>2, PTL DEF PoolSpec

\* The Transport's fields, its channels and its goroutines keep their types.
THEOREM TypeCorrect == PoolSpec => []PoolTypeOK
<1>1. IInv => PoolTypeOK
  BY DEF IInv
<1> QED
  BY <1>1, Invariant, PTL

\* A set whose elements are all the same has one at most.
LEMMA AtMostOne ==
    ASSUME NEW S, \A x, y \in S : x = y
    PROVE  Cardinality(S) \in {0, 1} /\ (S = {} => Cardinality(S) = 0)
<1>1. CASE S = {}
  BY <1>1, FS_EmptySet
<1>2. CASE S # {}
  <2>1. PICK x \in S : S = {x}
    BY <1>2
  <2> QED
    BY <1>2, <2>1, FS_Singleton
<1> QED
  BY <1>1, <1>2

\* Who uses a connection has it in hand, or has asked for an answer on it.
LEMMA UserHasIt ==
    ASSUME IInv, NEW c \in PConns, NEW r \in Callers, Uses(r, c)
    PROVE  Owns(r, c) \/ Asks(c, r) \/ (Answering(c) /\ answer[c].to = r)
<1>1. CASE call[r].at \in {"got", "body", "late"}
  BY <1>1 DEF Uses, Owns
<1>2. CASE call[r].at \in AwaitsAnswer /\ ~(answer[c].to = r /\ ~answer[c].resp.body)
  <2>1. Asks(c, r) \/ Answers(c, r)
    BY <1>2 DEF IInv, Awaited, Waits, Uses
  <2>2. ASSUME Answers(c, r) PROVE Answering(c) /\ answer[c].to = r
    BY <1>2, <2>2 DEF IInv, ReadLoop, Answers, Answering
  <2> QED
    BY <2>1, <2>2
<1> QED
  BY <1>1, <1>2 DEF Uses

\* The pool of the Transport: its count of connections is exact, and within
\* MaxConnsPerHost, and a connection serves one request at a time and is in
\* the idle list only when it serves none (getIdleConn, putIdleConn, the dial
\* race of getConn, readLoop, bodyEOFSignal, closeLocked).
THEOREM PoolIsSound == PoolSpec => []PoolSound
<1>1. ASSUME IInv PROVE PoolSound
  <2>1. SlotsExact
    BY <1>1 DEF IInv
  <2>2. InUseOnce
    <3> SUFFICES ASSUME NEW c \in PConns
                 PROVE  Cardinality({r \in Callers : Uses(r, c)})
                          + Cardinality({i \in DOMAIN pool.idle : pool.idle[i] = c}) <= 1
      BY DEF InUseOnce
    <3> DEFINE U == {r \in Callers : Uses(r, c)}
               I == {i \in DOMAIN pool.idle : pool.idle[i] = c}
    <3>0. OneHand(c) /\ Distinct(pool.idle)
      BY <1>1, ByConnection DEF IInv
    <3>1. \A i, j \in I : i = j
      BY <3>0 DEF Distinct
    <3>2. \A r, q \in U : r = q
      <4> SUFFICES ASSUME NEW r \in Callers, NEW q \in Callers, Uses(r, c), Uses(q, c)
                   PROVE  r = q
        OBVIOUS
      <4>1. Owns(r, c) \/ Asks(c, r) \/ (Answering(c) /\ answer[c].to = r)
        BY <1>1, UserHasIt
      <4>2. Owns(q, c) \/ Asks(c, q) \/ (Answering(c) /\ answer[c].to = q)
        BY <1>1, UserHasIt
      <4>3. (Asks(c, r) => Asked(c)) /\ (Asks(c, q) => Asked(c))
        BY DEF Asks, Asked
      <4>4. Asks(c, r) /\ Asks(c, q) => r = q
        BY DEF Asks
      <4> QED
        BY <3>0, <4>1, <4>2, <4>3, <4>4 DEF OneHand, Owned
    <3>3. I # {} => U = {}
      <4> SUFFICES ASSUME Idle(c), NEW r \in Callers, Uses(r, c) PROVE FALSE
        BY DEF Idle, Has
      <4>1. Owns(r, c) \/ Asks(c, r) \/ Answering(c)
        BY <1>1, UserHasIt
      <4>2. Asks(c, r) => Asked(c)
        BY DEF Asks, Asked
      <4> QED
        BY <3>0, <4>1, <4>2 DEF OneHand, Owned
    <3> HIDE DEF U, I
    <3>4. Cardinality(U) + Cardinality(I) <= 1
      BY <3>1, <3>2, <3>3, AtMostOne
    <3> QED
      BY <3>4 DEF U, I
  <2> QED
    BY <2>1, <2>2 DEF PoolSound
<1> QED
  BY <1>1, Invariant, PTL
=============================================================================
