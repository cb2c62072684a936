------------------------------ MODULE MCClient ------------------------------
(***************************************************************************)
(* The side of the client, for TLC: HTTP/2 and SPDY connections, TLS        *)
(* handshakes, the life of connections in the server, which share no       *)
(* state, and the functions that read, write and route messages.  A        *)
(* behaviour is one of one part, chosen at the start; the variables of the *)
(* others keep a fixed value without meaning.                              *)
(***************************************************************************)
EXTENDS Http2, ClientConn, TlsHandshake, Sample, TLC

CONSTANTS SpdyStreams, SpdyMaxStreams, SpdyW, SpdyWindow, SpdyMaxFrame, SpdyWindows, SpdyIncrements,
          SpdyChunk, SpdyClients,
          MaxOps, TableLimit, MaxPlain, InitPlain, Threshold, BlockSize, MaxEmpty,
          BufSize, MaxPostRead, PeekLines, CopySize, DisableSanitize,
          FullRate, DefaultBodySize, MaxBodySize, DrawRange, HashBuckets, DaySeconds, AdvancedMode

CONSTANTS k1, k2

VARIABLES sp, spBudget, part

Spdy2 == INSTANCE Spdy
Wire == INSTANCE Http2Wire
TWire == INSTANCE TlsWire
Http1 == INSTANCE HttpMessage
STls == INSTANCE ServerTls
Pipe == INSTANCE Pipeline
Cond == INSTANCE Conditions
Route == INSTANCE Routing

-----------------------------------------------------------------------------
(* Http2: connections with two streams and few frames, each of some kinds  *)
(* of frames and events, so that all of them meet in small groups.         *)
MCStreamIds == 1..2
Peer(n, frames, kinds) == [streams |-> n, frames |-> frames, kinds |-> kinds]
MCPeers == { Peer(2, 4, {"chunk", "window", "settings"}),
             Peer(2, 3, {"chunk", "reset", "window", "timeout"}),
             Peer(1, 3, {"body", "expect", "reset"}),
             Peer(1, 3, {"body", "malformed", "timeout", "shutdown", "gone"}),
             Peer(2, 3, {"panic", "ping", "reset"}) }

(* Spdy: the same, with a third stream that is one too many.               *)
MCSpdyStreams == 1..3
MCSpdyPeers == { Peer(2, 3, {"window", "settings"}), Peer(1, 4, {"window", "settings"}),
                 Peer(2, 3, {"reset", "window", "timeout"}),
                 Peer(1, 5, {"body", "timeout", "malformed"}),
                 Peer(1, 3, {"body", "reset", "shutdown", "fin"}),
                 Peer(3, 3, {"panic", "ping", "reset", "overload", "gone"}) }

(* TlsHandshake: configurations that differ in what a resumed session may   *)
(* not inherit, and clients that differ in what they offer.                *)
Conf ==
    [minVersion |-> 0, maxVersion |-> 3, suites |-> <<"gcm", "ecdheCbc", "rsaCbc", "rc4">>, priority |-> <<>>,
     preferServer |-> TRUE, curves |-> <<"p256", "p384">>, tickets |-> TRUE, ticketKey |-> 1, cache |-> TRUE,
     auth |-> 0, ruleAuth |-> FALSE, clientCAs |-> {"ca"}, crl |-> {}, grade |-> "C", poodleProofed |-> FALSE,
     chacha |-> FALSE, cert |-> "rsa", ocsp |-> FALSE, protos |-> <<"h2", "http/1.1">>]
Good == [serial |-> 1, ca |-> "ca"]
MCTlsConfs ==
    { Conf, [Conf EXCEPT !.ruleAuth = TRUE], [Conf EXCEPT !.ruleAuth = TRUE, !.crl = {Good}],
      [Conf EXCEPT !.ruleAuth = TRUE, !.clientCAs = {"other"}],
      [Conf EXCEPT !.auth = 1], [Conf EXCEPT !.auth = 2, !.ticketKey = 2], [Conf EXCEPT !.tickets = FALSE],
      [Conf EXCEPT !.maxVersion = 1, !.grade = "B"],
      [Conf EXCEPT !.minVersion = 3, !.grade = "A+", !.ocsp = TRUE],
      [Conf EXCEPT !.grade = "B", !.minVersion = 1, !.suites = <<"rc4", "rsaCbc">>, !.preferServer = FALSE],
      [Conf EXCEPT !.suites = <<"chacha", "gcm", "rsaCbc">>, !.priority = <<1, 1, 2>>, !.chacha = TRUE],
      [Conf EXCEPT !.suites = <<"chacha", "gcm", "rsaCbc">>, !.priority = <<1, 1, 2>>],
      [Conf EXCEPT !.cert = "ecdsa", !.suites = <<"ecdsa", "gcm">>] }
Hello ==
    [minVersion |-> 1, maxVersion |-> 3, suites |-> <<"chacha", "gcm", "ecdsa", "ecdheCbc", "rsaCbc", "rc4">>,
     curves |-> <<"p384", "p256">>, points |-> {0}, alpn |-> <<>>, npn |-> <<>>, tickets |-> TRUE,
     cert |-> <<Good>>, session |-> Nil, count |-> 0]
MCTlsClients ==
    { Hello, [Hello EXCEPT !.alpn = <<"h2", "http/1.1">>], [Hello EXCEPT !.npn = <<"http/1.1">>, !.tickets = FALSE],
      [Hello EXCEPT !.cert = <<>>, !.maxVersion = 2, !.alpn = <<"h2", "http/1.1">>],
      [Hello EXCEPT !.curves = <<>>, !.points = {}, !.suites = <<"gcm", "ecdheCbc">>],
      [Hello EXCEPT !.suites = <<"rc4", "rsaCbc", "fallback">>, !.maxVersion = 1, !.tickets = FALSE],
      [Hello EXCEPT !.curves = <<"x">>, !.suites = <<"gcm">>], [Hello EXCEPT !.minVersion = 2] }

(* ClientConn: one plain and one encrypted connection.                     *)
MCKinds == (k1 :> "http") @@ (k2 :> "https")

-----------------------------------------------------------------------------
Parts == {"h2", "spdy", "tls", "conn", "frames", "hello", "records", "spdy frames", "response",
          "messages", "server", "pipeline", "conditions", "routes"}

MCInit ==
    /\ part \in Parts
    /\ IF part = "h2" THEN H2Init ELSE c = 0 /\ budget = 0
    /\ IF part = "spdy" THEN Spdy2!SpdyInit ELSE sp = 0 /\ spBudget = 0
    /\ TlsInit /\ (part # "tls" => tlsConf = Conf /\ tlsMine = Hello)
    /\ ConnInit
    /\ input = NoInput

spdyVars == <<sp, spBudget>>
clientVars == <<part, h2Vars, spdyVars, tlsVars, connVars, input>>

(* One input of a part that is functions alone.                            *)
Draw(p, inputs) ==
    part = p /\ input = NoInput /\ input' \in inputs /\ UNCHANGED <<h2Vars, spdyVars, tlsVars, connVars>>

MCNext ==
    /\ UNCHANGED part
    /\ \/ /\ part = "h2" /\ H2Next
          /\ UNCHANGED <<spdyVars, tlsVars, connVars, input>>
       \/ /\ part = "spdy" /\ Spdy2!SpdyNext
          /\ UNCHANGED <<h2Vars, tlsVars, connVars, input>>
       \/ /\ part = "tls" /\ TlsNext
          /\ UNCHANGED <<h2Vars, spdyVars, connVars, input>>
       \/ /\ part = "conn" /\ ConnNext
          /\ UNCHANGED <<h2Vars, spdyVars, tlsVars, input>>
       \/ Draw("frames", Wire!Http2WireInputs)
       \/ Draw("hello", TWire!TlsMessageInputs)
       \/ Draw("records", TWire!TlsRecordInputs)
       \/ Draw("spdy frames", Spdy2!SpdyFrameInputs)
       \/ Draw("response", Http1!HttpResponseInputs)
       \/ Draw("messages", Http1!HttpMessageInputs)
       \/ Draw("server", STls!ServerTlsInputs)
       \/ Draw("pipeline", Pipe!PipelineInputs)
       \/ Draw("conditions", Cond!ConditionInputs)
       \/ Draw("routes", Route!RoutingInputs)

MCSpec == MCInit /\ [][MCNext]_clientVars

-----------------------------------------------------------------------------
(* Properties.                                                             *)

\* A connection of HTTP/2 (bfe_http2/server.go, flow.go): what is sent stays
\* within what the client granted although settings take credit back, nobody
\* waits for a frame that is gone, the serve loop never meets a state it calls
\* impossible, and what is received is bounded by the window.
Http2Sound == part = "h2" => WithinCredit /\ NoLostWaiter /\ InternalErrors /\ ReceiveBounded

\* A connection of SPDY (bfe_spdy/server_conn.go): windows are what was granted
\* less what was used in both directions, and every waiting handler is told.
SpdySound == part = "spdy" => Spdy2!WindowsKept /\ Spdy2!WaitersTold

\* Frames, records and messages of TLS, HTTP/2 and SPDY: what one end writes
\* the other reads, in order and whole, and compression state stays in step.
WireSound ==
    /\ Wire!HpackInSync /\ Wire!FramesWhole /\ Wire!PriorityAcyclic
    /\ TWire!MessagesReadBack /\ TWire!RecordsInOrder /\ Spdy2!SpdyFramesReadBack

\* Messages of HTTP/1 (bfe_http, bfe_server/response.go): the next message
\* starts where this one ends, for the reader and the writer of each.
FramingSound == Http1!ResponseFramed /\ Http1!MessageInSync

\* The way of a request: an accepted configuration of routes and certificates
\* resolves every request, conditions mean what their text says, and a request
\* gives back what it took and is answered once.
RoutingSound ==
    Route!RoutesResolve /\ Cond!ConditionMeans /\ Pipe!RequestAccounted /\ STls!AcceptedServes
=============================================================================
