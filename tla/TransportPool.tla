--------------------------- MODULE TransportPool ---------------------------
(***************************************************************************)
(* bfe_http.Transport for one backend address: the idle pool, the race of  *)
(* a dial against a connection that becomes free, the count against        *)
(* MaxConnsPerHost, and the goroutines of a persistConn (readLoop,         *)
(* writeLoop) beside the callers of RoundTrip.  An action is one critical  *)
(* section, or one operation on a channel.                                 *)
(*                                                                         *)
(* A caller dials at most once, so a connection is named by the caller     *)
(* whose dial made it.  What a server sends is chosen when it is read: an  *)
(* answer to the oldest request written, or the end of the stream.         *)
(***************************************************************************)
EXTENDS Integers, Sequences, FiniteSets, FiniteSetsExt

CONSTANTS
    Callers,    \* goroutines in ReverseProxy.ServeHTTP
    NoCaller,
    MaxConnsPerHost,   \* MaxConnsPerHost
    MaxIdles    \* values of MaxIdleConnsPerHost; 0 means DisableKeepAlives

ASSUME PoolAssumption ==
    /\ IsFiniteSet(Callers) /\ NoCaller \notin Callers
    /\ MaxConnsPerHost \in Nat \ {0}
    /\ MaxIdles \subseteq Nat

PConns == Callers

VARIABLES
    maxIdle,
    pool,       \* of the Transport: see PoolRec
    call,       \* where a caller is, and the connection it has
    dialc,      \* the goroutine that dials for it
    reqConn,    \* reqConn[h]: the connection registered for a request
    expected,   \* numExpectedResponses
    writech, reqch, writing, wire,
    loop,       \* where readLoop is
    answer,     \* the response readLoop has in hand
    bodyRead    \* waitForBodyRead

poolVars == <<maxIdle, pool, call, dialc, reqConn, expected, writech, reqch,
              writing, wire, loop, answer, bodyRead>>

\* idle: the free connections, oldest first; onCh: the callers that hold the
\* channel in idleConnCh; cnt: connCnt; closed implies broken.
PoolRec == [idle : Seq(PConns), onCh : SUBSET Callers, cnt : Int,
            broken : SUBSET PConns, closed : SUBSET PConns, cut : SUBSET PConns]

\* A Request is registered by its address: ServeHTTP has the client's request
\* and the copy of it that it sends.
Handles == Callers \X {"req", "outreq"}
Responses == [body : BOOLEAN, last : BOOLEAN]
At(pc, c) == [at |-> pc, on |-> c]
AwaitsAnswer == {"wait", "written", "unwritten"}
Done == At("done", NoCaller)
NoResponse == [body |-> FALSE, last |-> TRUE]
NoReply == [to |-> NoCaller, ok |-> FALSE, resp |-> NoResponse]

CallRec == [at : {"new", "miss", "select", "got", "wait", "written", "unwritten",
                  "body", "late", "done"},
            on : PConns \cup {NoCaller}]
Replies == [to : Callers \cup {NoCaller}, ok : BOOLEAN, resp : Responses]

PoolTypeOK ==
    /\ maxIdle \in MaxIdles
    /\ pool \in PoolRec
    /\ call \in [Callers -> CallRec]
    /\ dialc \in [Callers -> {"none", "count", "dialing", "ready", "failed"}]
    /\ reqConn \in [Handles -> PConns \cup {NoCaller}]
    /\ expected \in [PConns -> Nat]
    /\ writech \in [PConns -> Seq(Callers)]
    /\ reqch \in [PConns -> Seq(Callers)]
    /\ writing \in [PConns -> Callers \cup {NoCaller}]
    /\ wire \in [PConns -> Seq(Callers)]
    /\ loop \in [PConns -> {"off", "peek", "check", "read", "put", "deliver", "end", "exit"}]
    /\ answer \in [PConns -> Replies]
    /\ bodyRead \in [PConns -> {"none", "again", "stop"}]

PoolInit ==
    /\ maxIdle \in MaxIdles
    /\ pool = [idle |-> <<>>, onCh |-> {}, cnt |-> 0, broken |-> {}, closed |-> {}, cut |-> {}]
    /\ call = [r \in Callers |-> At("new", NoCaller)]
    /\ dialc = [r \in Callers |-> "none"]
    /\ reqConn = [h \in Handles |-> NoCaller]
    /\ expected = [c \in PConns |-> 0]
    /\ writech = [c \in PConns |-> <<>>]
    /\ reqch = [c \in PConns |-> <<>>]
    /\ writing = [c \in PConns |-> NoCaller]
    /\ wire = [c \in PConns |-> <<>>]
    /\ loop = [c \in PConns |-> "off"]
    /\ answer = [c \in PConns |-> NoReply]
    /\ bodyRead = [c \in PConns |-> "none"]

connVars == <<expected, writech, reqch, writing, wire, loop, answer, bodyRead>>

-----------------------------------------------------------------------------
(* Operations on the pool.                                                 *)

\* closeLocked: close() is called from many places, the count is given back
\* by the first of them.  Without the test for closed:
BadCloseLocked(p, c) ==
    [p EXCEPT !.broken = @ \cup {c}, !.closed = @ \cup {c}, !.cnt = @ - 1]

closeLocked(p, c) ==
    IF c \in p.closed THEN p
    ELSE [p EXCEPT !.broken = @ \cup {c}, !.closed = @ \cup {c}, !.cnt = @ - 1]

\* The end of putIdleConn: the oldest connection makes room.
Pooled(p, c) ==
    IF Len(p.idle) >= maxIdle
    THEN closeLocked([p EXCEPT !.idle = Append(Tail(@), c), !.onCh = {}], Head(p.idle))
    ELSE [p EXCEPT !.idle = Append(@, c), !.onCh = {}]

\* Callers blocked in the select of getConn on the channel of the map.  When
\* there is none the channel is dropped, which orphans whoever holds it and
\* is not in its select yet.
Receivers == {r \in pool.onCh : call[r].at = "select"}

\* putIdleConn hands c to a caller that is still dialing, or pools it; kept
\* is its result.
putIdleConn(c, kept, callNow) ==
    \/ /\ maxIdle = 0 /\ ~kept
       /\ pool' = closeLocked(pool, c)
       /\ call' = callNow
    \/ /\ maxIdle > 0 /\ c \in pool.broken /\ ~kept
       /\ call' = callNow
       /\ UNCHANGED pool
    \/ /\ maxIdle > 0 /\ c \notin pool.broken /\ kept
       /\ \/ \E r \in Receivers :
                /\ pool' = [pool EXCEPT !.onCh = @ \ {r}]
                /\ call' = [callNow EXCEPT ![r] = At("got", c)]
          \/ /\ Receivers = {}
             /\ pool' = Pooled(pool, c)
             /\ call' = callNow

-----------------------------------------------------------------------------
(* getConn.                                                                *)

\* getIdleConn pops from the end of the list; broken connections on the way
\* are dropped.  On a miss getConn starts a goroutine that dials.
getIdleConn(r) ==
    LET good == {i \in DOMAIN pool.idle : pool.idle[i] \notin pool.broken}
    IN  /\ call[r].at = "new"
        /\ \/ \E i \in good :
                /\ \A j \in good : j <= i
                /\ call' = [call EXCEPT ![r] = At("got", pool.idle[i])]
                /\ pool' = [pool EXCEPT !.idle = SubSeq(@, 1, i - 1)]
                /\ UNCHANGED dialc
           \/ /\ good = {}
              /\ call' = [call EXCEPT ![r].at = "miss"]
              /\ pool' = [pool EXCEPT !.idle = <<>>]
              /\ dialc' = [dialc EXCEPT ![r] = "count"]
        /\ UNCHANGED <<maxIdle, reqConn, connVars>>

\* getIdleConnCh; with DisableKeepAlives it returns a nil channel.
getIdleConnCh(r) ==
    /\ call[r].at = "miss"
    /\ call' = [call EXCEPT ![r].at = "select"]
    /\ pool' = IF maxIdle = 0 THEN pool ELSE [pool EXCEPT !.onCh = @ \cup {r}]
    /\ UNCHANGED <<maxIdle, dialc, reqConn, connVars>>

\* checkAndIncConnCnt
checkAndIncConnCnt(r) ==
    /\ dialc[r] = "count"
    /\ IF pool.cnt >= MaxConnsPerHost
       THEN /\ dialc' = [dialc EXCEPT ![r] = "failed"]
            /\ UNCHANGED pool
       ELSE /\ dialc' = [dialc EXCEPT ![r] = "dialing"]
            /\ pool' = [pool EXCEPT !.cnt = @ + 1]
    /\ UNCHANGED <<maxIdle, call, reqConn, connVars>>

\* A dial that fails, in TCP, TLS or the check of the certificate, gives its
\* place back.
dialFailed(r) ==
    /\ dialc[r] = "dialing"
    /\ dialc' = [dialc EXCEPT ![r] = "failed"]
    /\ pool' = [pool EXCEPT !.cnt = @ - 1]
    /\ UNCHANGED <<maxIdle, call, reqConn, connVars>>

\* dialConn starts the goroutines of the new connection before anybody has it.
dialConn(r) ==
    /\ dialc[r] = "dialing"
    /\ dialc' = [dialc EXCEPT ![r] = "ready"]
    /\ loop' = [loop EXCEPT ![r] = "peek"]
    /\ UNCHANGED <<maxIdle, pool, call, reqConn, expected, writech, reqch, writing,
                   wire, answer, bodyRead>>

\* The dial wins the select.
dialWins(r) ==
    /\ call[r].at = "select"
    /\ dialc[r] \in {"ready", "failed"}
    /\ dialc' = [dialc EXCEPT ![r] = "none"]
    /\ pool' = [pool EXCEPT !.onCh = @ \ {r}]
    /\ call' = [call EXCEPT ![r] = IF dialc[r] = "ready" THEN At("got", r) ELSE Done]
    /\ UNCHANGED <<maxIdle, reqConn, connVars>>

\* The dial lost: the connection is given away when it is there.
giveAway(r) ==
    /\ call[r].at \notin {"new", "miss", "select"}
    /\ dialc[r] \in {"ready", "failed"}
    /\ dialc' = [dialc EXCEPT ![r] = "none"]
    /\ IF dialc[r] = "ready" THEN \E kept \in BOOLEAN : putIdleConn(r, kept, call)
                             ELSE UNCHANGED <<pool, call>>
    /\ UNCHANGED <<maxIdle, reqConn, connVars>>

-----------------------------------------------------------------------------
(* roundTrip and the body of the response.                                 *)

\* Neither channel can be full: a connection changes hands after its request
\* has been written and its answer read.
roundTrip(r) ==
    LET c == call[r].on
    IN  /\ call[r].at = "got" /\ writech[c] = <<>> /\ reqch[c] = <<>>
        /\ call' = [call EXCEPT ![r].at = "wait"]
        /\ reqConn' = [reqConn EXCEPT ![<<r, "outreq">>] = c]
        /\ expected' = [expected EXCEPT ![c] = @ + 1]
        /\ writech' = [writech EXCEPT ![c] = <<r>>]
        /\ reqch' = [reqch EXCEPT ![c] = <<r>>]
        /\ UNCHANGED <<maxIdle, pool, dialc, writing, wire, loop, answer,
                       bodyRead>>

\* roundTrip returns an error: the write failed, no header in time, or
\* closech was closed and no response came within 100 ms.
roundTripFails(r) ==
    LET c == call[r].on
    IN  /\ call[r].at \in AwaitsAnswer
        /\ call' = [call EXCEPT ![r] = Done]
        /\ \/ call[r].at \in {"written", "unwritten"} /\ pool' = closeLocked(pool, c)
           \/ loop[c] = "exit" /\ UNCHANGED pool
        /\ reqConn' = [reqConn EXCEPT ![<<r, "outreq">>] = NoCaller]
        /\ UNCHANGED <<maxIdle, dialc, connVars>>

\* bodyEOFSignal at the end of the body: fn puts the connection back.
bodyEOF(r) ==
    LET c == call[r].on
    IN  /\ call[r].at \in {"body", "late"}
        /\ \E kept \in BOOLEAN :
              /\ bodyRead' = [bodyRead EXCEPT ![c] = IF kept THEN "again" ELSE "stop"]
              /\ IF answer[c].resp.last
                 THEN /\ ~kept
                      /\ pool' = closeLocked(pool, c)
                      /\ call' = [call EXCEPT ![r] = Done]
                 ELSE putIdleConn(c, kept, [call EXCEPT ![r] = Done])
        /\ UNCHANGED <<maxIdle, dialc, reqConn, expected, writech, reqch, writing,
                       wire, loop, answer>>

\* A read of the body fails (fn closes), or the caller closes the body before
\* its end (earlyCloseFn).
bodyAbandoned(r) ==
    LET c == call[r].on
    IN  /\ call[r].at \in {"body", "late"}
        /\ call' = [call EXCEPT ![r] = Done]
        /\ bodyRead' = [bodyRead EXCEPT ![c] = "stop"]
        /\ pool' \in {pool, closeLocked(pool, c)}
        /\ UNCHANGED <<maxIdle, dialc, reqConn, expected, writech, reqch, writing,
                       wire, loop, answer>>

\* The write timer of ServeHTTP: CancelRequest(req) closes the connection
\* registered for the request, if there is one.
writeTimer(r) ==
    LET c == reqConn[<<r, "req">>]
    IN  /\ call[r].at = "body"
        /\ call' = [call EXCEPT ![r].at = "late"]
        /\ pool' = IF c = NoCaller THEN pool ELSE [pool EXCEPT !.cut = @ \cup {c}]
        /\ UNCHANGED <<maxIdle, dialc, reqConn, connVars>>

-----------------------------------------------------------------------------
(* writeLoop.                                                              *)

\* writeErrCh; nobody reads it when roundTrip is over.
reportWrite(r, res) ==
    call' = IF call[r].at = "wait" THEN [call EXCEPT ![r].at = res] ELSE call

startWrite(c) ==
    LET r == Head(writech[c])
    IN  /\ writech[c] # <<>> /\ writing[c] = NoCaller
        /\ writech' = [writech EXCEPT ![c] = <<>>]
        /\ \/ /\ loop[c] = "exit"  \* the select may take closech instead
              /\ UNCHANGED <<call, writing, wire>>
           \/ /\ c \in pool.broken
              /\ reportWrite(r, "unwritten")
              /\ UNCHANGED <<writing, wire>>
           \/ /\ c \notin pool.broken
              /\ writing' = [writing EXCEPT ![c] = r]
              /\ wire' = [wire EXCEPT ![c] = Append(@, r)]
              /\ UNCHANGED call
        /\ UNCHANGED <<maxIdle, pool, dialc, reqConn, expected, reqch, loop,
                       answer, bodyRead>>

\* The request is written, or reading its body from the client or writing it
\* to the server fails: markBroken leaves the closing to the other goroutines.
endWrite(c) ==
    LET r == writing[c]
    IN  /\ r # NoCaller
        /\ writing' = [writing EXCEPT ![c] = NoCaller]
        /\ \/ /\ c \notin pool.closed
              /\ reportWrite(r, "written")
              /\ UNCHANGED pool
           \/ /\ reportWrite(r, "unwritten")
              /\ pool' = [pool EXCEPT !.broken = @ \cup {c}]
        /\ UNCHANGED <<maxIdle, dialc, reqConn, expected, writech, reqch, wire,
                       loop, answer, bodyRead>>

-----------------------------------------------------------------------------
(* readLoop.                                                               *)

loopVars == <<maxIdle, dialc, writech, writing>>

\* Peek returns: the first byte of an answer, or the connection is finished.
peek(c) ==
    /\ loop[c] = "peek"
    /\ loop' = [loop EXCEPT ![c] = "check"]
    /\ \E ok \in BOOLEAN :
          /\ ok => wire[c] # <<>> /\ c \notin pool.closed \cup pool.cut
          /\ answer' = [answer EXCEPT ![c] = [NoReply EXCEPT !.ok = ok]]
    /\ UNCHANGED <<loopVars, pool, call, reqConn, expected, reqch, wire, bodyRead>>

\* Something arrived although no response is expected: close and stop.
checkExpected(c) ==
    /\ loop[c] = "check"
    /\ IF expected[c] = 0
       THEN /\ loop' = [loop EXCEPT ![c] = "exit"]
            /\ pool' = closeLocked(pool, c)
       ELSE /\ loop' = [loop EXCEPT ![c] = "read"]
            /\ UNCHANGED pool
    /\ UNCHANGED <<loopVars, call, reqConn, expected, reqch, wire, answer, bodyRead>>

\* A connection is put back here only if there is no body to be read.
BadPutsBack(resp) == ~resp.last

PutsBack(resp) == ~resp.last /\ ~resp.body

\* ReadResponse for the request that is next in reqch.
readResponse(c) ==
    LET r == Head(reqch[c])
    IN  /\ loop[c] = "read" /\ reqch[c] # <<>>
        /\ reqch' = [reqch EXCEPT ![c] = <<>>]
        /\ \/ /\ answer' = [answer EXCEPT ![c] = [to |-> r, ok |-> FALSE, resp |-> NoResponse]]
              /\ pool' = closeLocked(pool, c)
              /\ loop' = [loop EXCEPT ![c] = "deliver"]
              /\ UNCHANGED wire
           \/ \E resp \in Responses :
              /\ answer[c].ok
              /\ answer' = [answer EXCEPT ![c] = [to |-> r, ok |-> TRUE, resp |-> resp]]
              /\ wire' = [wire EXCEPT ![c] = Tail(@)]
              /\ loop' = [loop EXCEPT ![c] = IF PutsBack(resp) THEN "put" ELSE "deliver"]
              /\ UNCHANGED pool
        /\ UNCHANGED <<loopVars, call, reqConn, expected, bodyRead>>

\* A response without a body: the connection is free before its caller has
\* the response.
putBack(c) ==
    /\ loop[c] = "put"
    /\ loop' = [loop EXCEPT ![c] = "deliver"]
    /\ \E kept \in BOOLEAN :
          /\ putIdleConn(c, kept, call)
          /\ answer' = [answer EXCEPT ![c].resp.last = ~kept]
    /\ UNCHANGED <<loopVars, reqConn, expected, reqch, wire, bodyRead>>

\* The response goes to the caller.  If that has given up, nobody will read
\* the body, and readLoop waits for ever.
deliver(c) ==
    LET r == answer[c].to
    IN  /\ loop[c] = "deliver"
        /\ loop' = [loop EXCEPT ![c] = "end"]
        /\ expected' = [expected EXCEPT ![c] = @ - 1]
        /\ call' = IF call[r].at \notin AwaitsAnswer THEN call
                   ELSE [call EXCEPT ![r] = IF answer[c].ok /\ answer[c].resp.body
                                            THEN At("body", c) ELSE Done]
        /\ UNCHANGED <<loopVars, pool, reqConn, reqch, wire, answer, bodyRead>>

\* Wait for the body to be read, then go on or close.
endResponse(c) ==
    LET wait == answer[c].ok /\ answer[c].resp.body
        alive == IF wait THEN bodyRead[c] = "again" ELSE ~answer[c].resp.last
    IN  /\ loop[c] = "end"
        /\ wait => bodyRead[c] # "none"
        /\ reqConn' = [reqConn EXCEPT ![<<answer[c].to, "outreq">>] = NoCaller]
        /\ IF alive THEN /\ loop' = [loop EXCEPT ![c] = "peek"]
                         /\ UNCHANGED pool
                    ELSE /\ loop' = [loop EXCEPT ![c] = "exit"]
                         /\ pool' = closeLocked(pool, c)
        /\ answer' = [answer EXCEPT ![c] = NoReply]
        /\ bodyRead' = [bodyRead EXCEPT ![c] = "none"]
        /\ UNCHANGED <<loopVars, call, expected, reqch, wire>>

-----------------------------------------------------------------------------

PoolNext ==
    \E r \in Callers :
        \/ getIdleConn(r) \/ getIdleConnCh(r) \/ checkAndIncConnCnt(r)
        \/ dialFailed(r) \/ dialConn(r) \/ dialWins(r) \/ giveAway(r)
        \/ roundTrip(r) \/ roundTripFails(r)
        \/ bodyEOF(r) \/ bodyAbandoned(r) \/ writeTimer(r)
        \/ startWrite(r) \/ endWrite(r)
        \/ peek(r) \/ checkExpected(r) \/ readResponse(r) \/ putBack(r)
        \/ deliver(r) \/ endResponse(r)

PoolSpec == PoolInit /\ [][PoolNext]_poolVars

-----------------------------------------------------------------------------
(* Properties.                                                             *)

OpenConns == {c \in PConns : loop[c] # "off"} \ pool.closed

\* connCnt is exactly the dials under way and the connections not closed,
\* through failed dials, lost races, evictions and the many callers of close,
\* and never exceeds MaxConnsPerHost.
SlotsExact ==
    /\ pool.cnt = Cardinality({r \in Callers : dialc[r] = "dialing"}) + Cardinality(OpenConns)
    /\ pool.cnt <= MaxConnsPerHost

\* A request uses its connection from roundTrip until the end of its response
\* has been read.
Uses(r, c) ==
    /\ call[r].on = c
    /\ \/ call[r].at \in {"got", "body", "late"}
       \/ call[r].at \in AwaitsAnswer /\ ~(answer[c].to = r /\ ~answer[c].resp.body)

\* A connection in use is in use by one request and not in the idle pool,
\* where the next request would find it and read the rest of a response that
\* is not its own; no connection is in the pool twice.
InUseOnce ==
    \A c \in PConns :
        Cardinality({r \in Callers : Uses(r, c)})
            + Cardinality({i \in DOMAIN pool.idle : pool.idle[i] = c}) <= 1

\* The connection pool (transport.go): connCnt is exactly the connections that
\* are dialled or open and stays within its limit, so no slot leaks or is
\* freed twice whatever dials, errors, cancellations and closes overlap, and a
\* connection serves one caller at a time.
PoolSound == SlotsExact /\ InUseOnce

\* What getConn promises: the connection a caller gets is ready to write its
\* request, nobody else's request is being written to it.
ReadyToWrite ==
    \A r \in Callers : call[r].at = "got" => writing[call[r].on] = NoCaller

\* What ServeHTTP says of its write timer: when it fires, the connection to
\* the backend is cut off, so that the copy of the body ends.
TimeoutCutsBackend ==
    \A r \in Callers : call[r].at = "late" => call[r].on \in pool.cut \cup pool.closed
=============================================================================
