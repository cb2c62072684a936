----------------------------- MODULE ClientConn ------------------------------
(***************************************************************************)
(* The client connections of the server and its graceful shutdown: accept, *)
(* the TLS handshake, the protocol the connection is handed to, the loop   *)
(* that serves HTTP/1 requests one after another, the gauges of open       *)
(* connections and active requests, and what a shutdown waits for.         *)
(***************************************************************************)
EXTENDS Integers, FiniteSets

CONSTANTS
    CConns,         \* connections
    CKinds,         \* [c \in CConns -> "http" | "https"]
    CRequests       \* requests a client sends on one HTTP/1 connection
                    \* and streams of a multiplexed one

ASSUME ClientConnAssumption ==
    /\ IsFiniteSet(CConns)
    /\ CKinds \in [CConns -> {"http", "https"}]
    /\ CRequests \in Nat

VARIABLES
    cc,             \* a record for each connection; its requests are numbered,
                    \* left is the next one and active those being served
    gauge,          \* ClientConnActive per protocol, ClientReqActive, connWaitGroup
    srvState        \* "up", "notified", "closed" (listeners), "success" or "timeout" (exited)

connVars == <<cc, gauge, srvState>>

Protos == {"http", "https", "h2", "stream", "ws"}
Pcs == {"none", "accepted", "handshake", "first", "read", "request", "keep", "close", "proto",
        "finish", "closed"}
Exited == srvState \in {"success", "timeout"}

Connections ==
    [pc : Pcs, proto : Protos \cup {"none"}, left : 0 .. CRequests, first : BOOLEAN,
     active : SUBSET (1 .. CRequests), finished : Nat, late : Nat]

ConnTypeOK ==
    /\ cc \in [CConns -> Connections]
    /\ gauge \in [conns : [Protos -> Nat], reqs : Nat, wg : Nat]
    /\ srvState \in {"up", "notified", "closed", "success", "timeout"}

ConnInit ==
    /\ cc = [c \in CConns |-> [pc |-> "none", proto |-> "none", left |-> CRequests, first |-> TRUE,
                               active |-> {}, finished |-> 0, late |-> 0]]
    /\ gauge = [conns |-> [p \in Protos |-> 0], reqs |-> 0, wg |-> 0]
    /\ srvState = "up"

Goto(c, pc) == cc' = [cc EXCEPT ![c].pc = pc]

\* Serve: accept, and a goroutine for the connection; once the listeners are
\* closed no connection is accepted.
Accept(c) ==
    /\ cc[c].pc = "none" /\ srvState \in {"up", "notified"}
    /\ Goto(c, "accepted") /\ UNCHANGED <<gauge, srvState>>

\* conn.serve begins: the goroutine adds itself to connWaitGroup, and the
\* callbacks of HandleAccept may close the connection.
ServeStart(c) ==
    /\ cc[c].pc = "accepted" /\ ~Exited
    /\ \E close \in BOOLEAN :
        Goto(c, IF close THEN "finish" ELSE IF CKinds[c] = "https" THEN "handshake" ELSE "first")
    /\ gauge' = [gauge EXCEPT !.wg = @ + 1] /\ UNCHANGED srvState

\* The protocol of the session, which the gauge of active connections counts.
Counted(c, p) ==
    [gauge EXCEPT !.conns = [q \in Protos |->
        @[q] + (IF q = p THEN 1 ELSE 0) - (IF q = cc[c].proto THEN 1 ELSE 0)]]

\* Handshake, the callbacks of HandleHandshake, and the choice of the
\* protocol: a negotiated or mandatory one has its own handler, or none.
Handshake(c) ==
    /\ cc[c].pc = "handshake" /\ ~Exited /\ UNCHANGED srvState
    /\ \/ Goto(c, "finish") /\ UNCHANGED gauge
       \/ \E p \in {"h2", "stream"} :
            /\ cc' = [cc EXCEPT ![c] = [cc[c] EXCEPT !.pc = "proto", !.proto = p]]
            /\ gauge' = Counted(c, p)
       \/ Goto(c, "first") /\ UNCHANGED gauge

\* The loop of HTTP/1 requests begins.
BeginLoop(c) ==
    /\ cc[c].pc = "first" /\ ~Exited /\ UNCHANGED srvState
    /\ cc' = [cc EXCEPT ![c] = [cc[c] EXCEPT !.pc = "read", !.proto = CKinds[c]]]
    /\ gauge' = Counted(c, CKinds[c])

\* readRequest: no request, a refused one (413, 414, 400 and a bad Expect end
\* the loop), an upgrade to WebSocket, which only the first request may ask
\* for, or a request to serve.
readRequest(c) ==
    /\ cc[c].pc = "read" /\ ~Exited /\ UNCHANGED srvState
    /\ \/ Goto(c, "finish") /\ UNCHANGED gauge
       \/ /\ cc[c].first
          /\ cc' = [cc EXCEPT ![c] = [cc[c] EXCEPT !.pc = "proto", !.proto = "ws"]]
          /\ gauge' = Counted(c, "ws")
       \/ /\ cc[c].left > 0
          /\ cc' = [cc EXCEPT ![c] = [cc[c] EXCEPT
                 !.pc = "request", !.first = FALSE, !.left = cc[c].left - 1,
                 !.active = cc[c].active \cup {cc[c].left},
                 !.late = cc[c].late + (IF srvState = "up" THEN 0 ELSE 1)]]
          /\ gauge' = [gauge EXCEPT !.reqs = @ + 1]

\* WriteHeader: once the shutdown has begun it says close to the client.
BadSaysClose == FALSE
SaysClose == srvState # "up"
WriteHeader(c) ==
    /\ cc[c].pc = "request" /\ ~Exited /\ UNCHANGED <<gauge, srvState>>
    /\ \E verdict \in {"keep", "close"} : Goto(c, IF SaysClose THEN "close" ELSE verdict)

\* The end of serveRequest; a panic skips FinishReq and what follows.
serveRequest(c) ==
    /\ cc[c].pc \in {"keep", "close"} /\ ~Exited /\ UNCHANGED srvState
    /\ \/ /\ cc' = [cc EXCEPT ![c] = [cc[c] EXCEPT !.pc = IF cc[c].pc = "keep" THEN "read" ELSE "finish",
                                           !.active = cc[c].active \ {cc[c].left + 1}]]
          /\ gauge' = [gauge EXCEPT !.reqs = @ - 1]
       \/ Goto(c, "finish") /\ UNCHANGED gauge

\* A multiplexed protocol serves its streams in goroutines of their own, which
\* may outlive the connection; the stream and WebSocket proxies do not count
\* requests.
StreamStarts(c) ==
    /\ cc[c].pc = "proto" /\ cc[c].proto = "h2" /\ cc[c].left > 0 /\ ~Exited
    /\ cc' = [cc EXCEPT ![c] = [cc[c] EXCEPT !.left = cc[c].left - 1,
                                           !.active = cc[c].active \cup {cc[c].left}]]
    /\ gauge' = [gauge EXCEPT !.reqs = @ + 1] /\ UNCHANGED srvState
StreamEnds(c) ==
    /\ cc[c].proto = "h2" /\ ~Exited /\ UNCHANGED srvState
    /\ \E i \in cc[c].active : cc' = [cc EXCEPT ![c].active = @ \ {i}]
    /\ gauge' = [gauge EXCEPT !.reqs = @ - 1]
ProtoEnds(c) == cc[c].pc = "proto" /\ ~Exited /\ Goto(c, "finish") /\ UNCHANGED <<gauge, srvState>>

\* The deferred calls of serve: HandleFinish, close, the gauges, and last the
\* wait group.
BadFinish(c) ==
    /\ cc[c].pc = "finish" /\ ~Exited /\ UNCHANGED srvState
    /\ cc' = [cc EXCEPT ![c] = [cc[c] EXCEPT !.pc = "closed", !.finished = cc[c].finished + 1]]
    /\ gauge' = [Counted(c, cc[c].proto) EXCEPT !.wg = @ - 1]
finish(c) ==
    /\ cc[c].pc = "finish" /\ ~Exited /\ UNCHANGED srvState
    /\ cc' = [cc EXCEPT ![c] = [cc[c] EXCEPT !.pc = "closed", !.finished = cc[c].finished + 1]]
    /\ gauge' = [Counted(c, "none") EXCEPT !.wg = @ - 1]

\* ShutdownHandler: the channel is closed, then the listeners, then it waits
\* for the wait group or the timer, and the process exits.
ShutdownHandler ==
    /\ UNCHANGED <<cc, gauge>>
    /\ \/ srvState = "up" /\ srvState' = "notified"
       \/ srvState = "notified" /\ srvState' = "closed"
       \/ srvState = "closed" /\ gauge.wg = 0 /\ srvState' = "success"
       \/ srvState = "closed" /\ srvState' = "timeout"

ConnNext ==
    \/ ShutdownHandler
    \/ \E c \in CConns : \/ Accept(c) \/ ServeStart(c) \/ Handshake(c) \/ BeginLoop(c) \/ readRequest(c)
                         \/ WriteHeader(c) \/ serveRequest(c) \/ StreamStarts(c) \/ StreamEnds(c) \/ ProtoEnds(c) \/ finish(c)

ConnSpec == ConnInit /\ [][ConnNext]_connVars

-----------------------------------------------------------------------------
Open == {c \in CConns : cc[c].pc \notin {"none", "accepted", "closed"}}
OpenAs(p) == {c \in Open : cc[c].proto = p}
Running == {x \in CConns \X (1 .. CRequests) : x[2] \in cc[x[1]].active}

\* The gauges tell the truth at every step of every connection: each protocol
\* counts its open connections, the wait group the goroutines that serve, the
\* active requests are those running and those a panic lost, and every
\* connection is finished once.
GaugesExact ==
    /\ \A p \in Protos : gauge.conns[p] = Cardinality(OpenAs(p))
    /\ gauge.wg = Cardinality(Open)
    /\ gauge.reqs = Cardinality(Running)
    /\ \A c \in CConns : cc[c].finished = IF cc[c].pc = "closed" THEN 1 ELSE 0

\* Once the shutdown has begun an HTTP/1.1 connection serves at most one more
\* request, whatever it was doing then: reading, serving, or sending a response
\* whose header still promised to keep the connection.
DrainsConnections == \A c \in CConns : cc[c].late <= 1

\* Connections of the server (bfe_server/http_conn.go): the gauges are the
\* connections and requests there are, and a shutdown lets no keep-alive
\* connection linger.
ConnectionsSound == GaugesExact /\ DrainsConnections

\* What ShutdownHandler says of connFinCh: it waits for the server's
\* connections to finish.  When it reports success no connection is open.
ShutdownWaits == srvState = "success" => \A c \in CConns : cc[c].pc \in {"none", "closed"}
=============================================================================
