---------------------------- MODULE TlsHandshake ----------------------------
(***************************************************************************)
(* bfe_tls: handshakes of one client with one server, one after the other, *)
(* while the server's configuration is replaced in between.  A step is a   *)
(* flight: all that one side does from reading what the other one sent to  *)
(* the next read.  A message is a record; the transcript that the Finished *)
(* messages and the certificate signature cover is the sequence of         *)
(* messages; a secret is named by what it is derived from.  Versions are 0 *)
(* (SSL 3.0) to 3 (TLS 1.2).                                               *)
(***************************************************************************)
EXTENDS Naturals, Sequences, FiniteSets

CONSTANTS
    TlsClients,     \* configurations of clients
    TlsConfs,       \* configurations of the server
    MaxHandshakes,  \* bound: handshakes of the client
    Nil             \* a nil pointer

VARIABLES
    tlsConf,        \* the server's configuration, with the rule of the product
    tlsSessions,    \* ServerSessionCache
    tlsMine,        \* the client: its configuration and its cached session
    srv,            \* the server's end of the connection
    cli,            \* the client's end
    flight          \* messages sent and not yet read

tlsVars == <<tlsConf, tlsSessions, tlsMine, srv, cli, flight>>

-----------------------------------------------------------------------------
(* Cipher suites.                                                          *)

\* A suite of each class in the table cipherSuites.
Flags == [gcm |-> {"ecdhe", "tls12"}, ecdsa |-> {"ecdhe", "ecdsa", "tls12"}, chacha |-> {"ecdhe", "tls12", "chacha"},
          ecdheCbc |-> {"ecdhe"}, rsaCbc |-> {}, rc4 |-> {"rc4"}]
Scsv == "fallback"
CheckSuiteECDHE(id) == id # Scsv /\ "ecdhe" \in Flags[id]
checkCipherSuiteHttp2Accepted(id) == "tls12" \in Flags[id]
CertKey(id) == IF "ecdsa" \in Flags[id] THEN "ecdsa" ELSE "rsa"

Elems(s) == {s[i] : i \in DOMAIN s}
\* The first element of s that is in S.
FirstIn(s, S) ==
    IF Elems(s) \cap S = {} THEN Nil
    ELSE s[CHOOSE i \in DOMAIN s : s[i] \in S /\ \A j \in DOMAIN s : s[j] \in S => i <= j]

\* Versions are ordered and there are four; nil is none of them.
ASSUME TlsAssumption ==
    /\ \A f \in TlsConfs : /\ f.minVersion \in 0..3 /\ f.maxVersion \in 0..3
                           /\ f.suites \in Seq(DOMAIN Flags)
    /\ \A k \in TlsClients : /\ k.maxVersion \in 0..3 /\ k.suites \in Seq(DOMAIN Flags \cup {Scsv})
                             /\ DOMAIN k = {"minVersion", "maxVersion", "suites", "curves", "points", "alpn", "npn",
                                           "tickets", "cert", "session", "count"}
    /\ Nil \notin Nat

mutualVersion(conf, vers) ==
    IF vers < conf.minVersion THEN Nil
    ELSE IF vers > conf.maxVersion THEN conf.maxVersion ELSE vers

checkVersionGrade(vers, grade) == ~(grade = "A" /\ vers < 1) /\ ~(grade = "A+" /\ vers < 3)

checkCipherGrade(conf, vers) ==
    CASE conf.grade \in {"A+", "A"} -> "disable"
      [] conf.grade = "B" -> IF vers >= 1 THEN "disable" ELSE "only"
      [] conf.grade = "C" -> IF conf.poodleProofed /\ vers = 0 THEN "only" ELSE "enable"

\* The suites of `supported` that tryCipherSuite accepts for a server in
\* state h, a record with ellipticOk and the rest of what it looks at.
tryCipherSuite(h, conf, supported, vers) ==
    {id \in Elems(supported) \ {Scsv} :
        /\ "ecdhe" \in Flags[id] => h.ellipticOk
        /\ ("ecdsa" \in Flags[id]) = (conf.cert = "ecdsa")
        /\ vers < 3 => "tls12" \notin Flags[id]
        /\ "chacha" \in Flags[id] => conf.chacha
        /\ "rc4" \in Flags[id] => h.useRC4 # "disable"
        /\ "rc4" \notin Flags[id] => h.useRC4 # "only"}

\* Of the server's suites of the best priority that has a usable one, the
\* one the client likes best.
negotiateEquivalentCipherSuites(usable, conf, hello) ==
    LET at == {i \in DOMAIN conf.suites : conf.suites[i] \in usable}
        best == {i \in at : \A j \in at : conf.priority[i] <= conf.priority[j]}
    IN  FirstIn(hello.suites, {conf.suites[i] : i \in best})

\* A client that leaves the extensions out may still do elliptic curves.
checkEllipticMayOk(h, hello, vers) ==
    /\ vers > 0
    /\ \/ h.curve /\ hello.points = {}
       \/ h.point /\ hello.curves = <<>>
       \/ hello.curves = <<>> /\ hello.points = {}

Preferred(usable, conf, hello) ==
    IF conf.preferServer /\ Len(conf.priority) = Len(conf.suites)
    THEN negotiateEquivalentCipherSuites(usable, conf, hello)
    ELSE FirstIn(IF conf.preferServer THEN conf.suites ELSE hello.suites, usable)

\* The suite of a full handshake; Nil if the two have none in common.
pickSuite(h, conf, hello, vers) ==
    LET both(x) == tryCipherSuite(x, conf, conf.suites, vers) \cap Elems(hello.suites)
        ecdhe == {id \in both([h EXCEPT !.ellipticOk = TRUE]) : CheckSuiteECDHE(id)}
        order == IF conf.preferServer THEN conf.suites ELSE hello.suites
    IN  IF both(h) # {} THEN Preferred(both(h), conf, hello)
        ELSE IF checkEllipticMayOk(h, hello, vers) THEN FirstIn(order, ecdhe) ELSE Nil

-----------------------------------------------------------------------------
(* Secrets, sessions and tickets.                                          *)

masterFromPreMasterSecret(vers, pre, hello, shello) == <<"master", vers, pre, hello.random, shello.random>>
clientSum(secret, transcript) == <<"client finished", secret, transcript>>
serverSum(secret, transcript) == <<"server finished", secret, transcript>>

sessionState(vers, suite, secret, certs) == [vers |-> vers, suite |-> suite, secret |-> secret, certs |-> certs]
encryptTicket(conf, s) == [key |-> conf.ticketKey, state |-> s]
decryptTicket(conf, t) == IF t.key = conf.ticketKey THEN t.state ELSE Nil
NoTicket == <<>>

\* The session a client hello asks for, if the server still has it.
AskedFor(conf, hello) ==
    IF conf.tickets /\ hello.ticketSupported /\ hello.ticket # NoTicket THEN decryptTicket(conf, hello.ticket)
    ELSE IF hello.sessionId = Nil \/ ~conf.cache \/ {e \in tlsSessions : e.id = hello.sessionId} = {} THEN Nil
    ELSE (CHOOSE e \in tlsSessions : e.id = hello.sessionId).state

-----------------------------------------------------------------------------
(* The server.                                                             *)

RequestClientCert == 1
RequireAnyClientCert == 2
VerifyClientCertIfGiven == 3
RequireAndVerifyClientCert == 4

clientAuth(conf) == IF conf.ruleAuth THEN RequireAndVerifyClientCert ELSE conf.auth
NeedsCert(conf) == clientAuth(conf) \in {RequireAnyClientCert, RequireAndVerifyClientCert}

\* Which certificate chains processCertsFromClient lets through; a chain is
\* <<>> or one certificate: a serial number and the CA that signed it.
processCertsFromClient(conf, certs) ==
    \A i \in DOMAIN certs :
        /\ conf.ruleAuth => certs[i] \notin conf.crl
        /\ clientAuth(conf) >= VerifyClientCertIfGiven => certs[i].ca \in conf.clientCAs

\* The suite for resuming session s, or Nil if it is not resumed.
BadCheckForResumption(h, conf, hello, s) ==
    IF \/ s = Nil \/ s.vers > hello.vers \/ mutualVersion(conf, s.vers) # s.vers
       \/ s.suite \notin Elems(hello.suites)
       \/ s.suite \notin tryCipherSuite(h, conf, conf.suites, s.vers)
       \/ s.certs # <<>> /\ clientAuth(conf) = 0
    THEN Nil ELSE s.suite
checkForResumption(h, conf, hello, s) ==
    IF \/ s = Nil
       \/ s.vers > hello.vers
       \/ mutualVersion(conf, s.vers) # s.vers
       \/ s.suite \notin Elems(hello.suites)
       \/ s.suite \notin tryCipherSuite(h, conf, conf.suites, s.vers)
       \/ (NeedsCert(conf) /\ s.certs = <<>>)
       \/ s.certs # <<>> /\ clientAuth(conf) = 0
    THEN Nil ELSE s.suite

\* HTTP/2 only over TLS 1.2 with a suite it accepts.
validateHttp2Accepted(alpn, suite, vers) ==
    IF alpn = "h2" /\ (~checkCipherSuiteHttp2Accepted(suite) \/ vers < 3) THEN "http/1.1" ELSE alpn

\* A protocol of server and client (the client's own first one is the
\* fallback).
mutualProtocol(mine, theirs) == FirstIn(theirs, Elems(mine))
checkAndRemoveH2(protos) == SelectSeq(protos, LAMBDA p : p # "h2")

Alert(side) == side' = [pc |-> "failed"]

\* What readClientHello finds out before it picks a suite.
Negotiated(conf, hello) ==
    LET vers == mutualVersion(conf, hello.vers)
        curve == FirstIn(hello.curves, Elems(conf.curves)) # Nil
        point == 0 \in hello.points
        alpn == IF hello.alpn = <<>> THEN Nil ELSE mutualProtocol(hello.alpn, conf.protos)
        npn == IF hello.alpn = <<>> /\ hello.npn THEN checkAndRemoveH2(conf.protos) ELSE <<>>
    IN  [vers |-> vers, curve |-> curve, point |-> point, ellipticOk |-> curve /\ point,
         useRC4 |-> IF vers = Nil THEN "disable" ELSE checkCipherGrade(conf, vers), alpn |-> alpn, npn |-> npn]

\* The hello of the server, in both kinds of handshake.
ServerHelloMsg(h, hello, suite, id, ticket) ==
    [type |-> "serverHello", vers |-> h.vers, random |-> hello.random, suite |-> suite, sessionId |-> id,
     ticketSupported |-> ticket, alpn |-> validateHttp2Accepted(h.alpn, suite, h.vers), npn |-> h.npn]

Finished(data) == [type |-> "finished", data |-> data]
ChangeCipherSpec == [type |-> "changeCipherSpec"]
Msg(type, body) == [type |-> type, body |-> body]

\* doResumeHandshake, establishKeys and sendFinished.
ResumeFlight(h, hello, s, suite) ==
    LET sh == ServerHelloMsg(h, hello, suite, hello.sessionId, FALSE)
        log == <<hello, sh>>
        fin == Finished(serverSum(s.secret, log))
    IN  IF ~processCertsFromClient(tlsConf, s.certs) THEN Alert(srv) /\ flight' = <<sh, Msg("alert", Nil)>>
        ELSE /\ flight' = <<sh, ChangeCipherSpec, fin>>
             /\ srv' = [pc |-> "finishing", resumed |-> TRUE, vers |-> h.vers, suite |-> suite, secret |-> s.secret,
                        proto |-> sh.alpn, npn |-> h.npn # <<>>, certs |-> s.certs, log |-> log \o <<fin>>,
                        hello |-> hello, sh |-> sh]

\* The curve of generateServerKeyExchange; a client that named none gets
\* P-256.
KeyExchange(conf, hello, suite) ==
    IF "ecdhe" \notin Flags[suite] THEN "rsa"
    ELSE FirstIn(conf.curves, IF hello.curves = <<>> THEN {"p256"} ELSE Elems(hello.curves))

\* The first half of doFullHandshake.
FullFlight(h, hello, suite) ==
    LET conf == tlsConf
        ticket == hello.ticketSupported /\ conf.tickets
        id == IF ~ticket /\ conf.cache THEN <<"id", hello.random>> ELSE Nil
        sh == ServerHelloMsg(h, hello, suite, id, ticket)
        kx == KeyExchange(conf, hello, suite)
        asks == clientAuth(conf) >= RequestClientCert
        msgs == <<sh, Msg("certificate", conf.cert)>>
                \o (IF hello.ocsp /\ conf.ocsp THEN <<Msg("certificateStatus", "ocsp")>> ELSE <<>>)
                \o (IF kx = "rsa" THEN <<>> ELSE <<Msg("serverKeyExchange", <<kx, conf.cert, hello.random, h.vers>>)>>)
                \o (IF asks THEN <<Msg("certificateRequest", conf.clientCAs)>> ELSE <<>>)
                \o <<Msg("serverHelloDone", Nil)>>
    IN  IF kx = Nil THEN Alert(srv) /\ flight' = <<Msg("alert", Nil)>>
        ELSE /\ flight' = msgs
             /\ srv' = [pc |-> "exchanging", resumed |-> FALSE, vers |-> h.vers, suite |-> suite, secret |-> Nil,
                        proto |-> sh.alpn, npn |-> h.npn # <<>>, certs |-> <<>>, log |-> <<hello>> \o msgs,
                        hello |-> hello, sh |-> sh]

\* serverHandshake up to its first read after the client hello.
ReadClientHello ==
    LET hello == Head(flight)
        conf == tlsConf
        h == Negotiated(conf, hello)
        s == AskedFor(conf, hello)
        resume == checkForResumption(h, conf, hello, s)
        suite == pickSuite(h, conf, hello, h.vers)
    IN  /\ srv.pc = "start" /\ flight # <<>>
        /\ IF h.vers = Nil \/ ~checkVersionGrade(h.vers, conf.grade)
           THEN Alert(srv) /\ flight' = <<Msg("alert", Nil)>>
           ELSE IF resume # Nil THEN ResumeFlight(h, hello, s, resume)
           ELSE IF suite = Nil \/ (Scsv \in Elems(hello.suites) /\ hello.vers < conf.maxVersion)
           THEN Alert(srv) /\ flight' = <<Msg("alert", Nil)>>
           ELSE FullFlight(h, hello, suite)
        /\ UNCHANGED <<tlsConf, tlsSessions, tlsMine, cli>>

\* The messages of a client's flight by type; Nil if it is not there.
Sent(type) == IF \E i \in DOMAIN flight : flight[i].type = type
              THEN flight[CHOOSE i \in DOMAIN flight : flight[i].type = type] ELSE Nil

\* readFinished: the log the client's Finished must cover, given the log so
\* far.
NextProtoSeen(log) == IF srv.npn THEN log \o <<Sent("nextProtocol")>> ELSE log
readFinished_server(secret, log) ==
    Sent("finished") # Nil /\ Sent("finished").data = clientSum(secret, NextProtoSeen(log))
BadChosenProto == srv.proto
ChosenProto == IF srv.npn THEN Sent("nextProtocol").body ELSE srv.proto

\* The end of a resumed handshake.
FinishResumed ==
    /\ srv.pc = "finishing" /\ cli.pc = "complete"
    /\ IF readFinished_server(srv.secret, srv.log)
       THEN srv' = [srv EXCEPT !.pc = "complete", !.proto = ChosenProto, !.log = <<>>]
       ELSE Alert(srv)
    /\ flight' = <<>>
    /\ UNCHANGED <<tlsConf, tlsSessions, tlsMine, cli>>

\* The second half of doFullHandshake: the client's certificate and its
\* signature; Nil if one of them is refused.
ClientCerts ==
    IF clientAuth(tlsConf) < RequestClientCert THEN <<>>
    ELSE IF Sent("certificate") = Nil THEN Nil
    ELSE LET certs == Sent("certificate").body
         IN  IF (NeedsCert(tlsConf) /\ certs = <<>>) \/ ~processCertsFromClient(tlsConf, certs) THEN Nil ELSE certs
Signed(certs, log) == certs # <<>> => Sent("certificateVerify") # Nil /\ Sent("certificateVerify").body = <<certs[1], log>>

\* A session that was given an id goes into the cache, if there is one.
Remembered(state) ==
    IF tlsConf.cache /\ srv.sh.sessionId # Nil
    THEN tlsSessions \cup {[id |-> srv.sh.sessionId, state |-> state]} ELSE tlsSessions

\* The rest of a full handshake: the client's flight, the ticket or the
\* cached session, and the server's Finished.
FinishFull ==
    LET certs == ClientCerts
        ckx == Sent("clientKeyExchange")
        upTo(type) == srv.log \o SelectSeq(flight, LAMBDA m : m.type \in type)
        beforeVerify == upTo({"certificate", "clientKeyExchange"})
        log == upTo({"certificate", "clientKeyExchange", "certificateVerify"})
        secret == masterFromPreMasterSecret(srv.vers, ckx.body, srv.hello, srv.sh)
        state == sessionState(srv.vers, srv.suite, secret, certs)
        ticket == IF srv.sh.ticketSupported THEN <<Msg("newSessionTicket", encryptTicket(tlsConf, state))>> ELSE <<>>
        all == NextProtoSeen(log) \o <<Sent("finished")>> \o ticket
    IN  /\ srv.pc = "exchanging" /\ cli.pc = "sent"
        /\ IF certs = Nil \/ ckx = Nil \/ ~Signed(certs, beforeVerify) \/ ~readFinished_server(secret, log)
           THEN Alert(srv) /\ flight' = <<Msg("alert", Nil)>> /\ UNCHANGED tlsSessions
           ELSE /\ srv' = [srv EXCEPT !.pc = "complete", !.secret = secret, !.certs = certs, !.proto = ChosenProto,
                                      !.log = <<>>]
                /\ flight' = ticket \o <<ChangeCipherSpec, Finished(serverSum(secret, all))>>
                /\ tlsSessions' = Remembered(state)
        /\ UNCHANGED <<tlsConf, tlsMine, cli>>

-----------------------------------------------------------------------------
(* The client.                                                             *)

\* The cached session, if the client may still offer it.
Offered(c) ==
    IF c.session # Nil /\ c.session.vers >= c.minVersion /\ c.session.vers <= c.maxVersion
       /\ c.session.suite \in Elems(c.suites) THEN c.session ELSE Nil

\* The suites that the highest version of the client may use, at their places in
\* its list.
HelloSuites(c) ==
    [i \in {j \in DOMAIN c.suites : c.suites[j] = Scsv \/ c.maxVersion = 3 \/ "tls12" \notin Flags[c.suites[j]]}
        |-> c.suites[i]]

\* clientHandshake up to the server's hello.  A client with a session of the
\* server's cache names it by its id; one with a ticket invents an id.
ClientHello ==
    LET c == tlsMine
        s == Offered(c)
        hello == [type |-> "clientHello", vers |-> c.maxVersion, random |-> c.count,
                  suites |-> HelloSuites(c),
                  curves |-> c.curves, points |-> c.points, alpn |-> c.alpn, npn |-> c.npn # <<>>, ocsp |-> TRUE,
                  ticketSupported |-> c.tickets,
                  ticket |-> IF s = Nil \/ ~c.tickets THEN NoTicket ELSE s.ticket,
                  sessionId |-> IF s = Nil THEN Nil ELSE IF c.tickets THEN <<"made up", c.count>> ELSE s.ticket]
    IN  /\ cli.pc = "start" /\ srv.pc = "start" /\ flight = <<>> /\ c.count < MaxHandshakes
        /\ cli' = [pc |-> "hello", hello |-> hello, session |-> s, resumed |-> FALSE]
        /\ flight' = <<hello>>
        /\ UNCHANGED <<tlsConf, tlsSessions, tlsMine, srv>>

\* What the client takes from the server's hello, and whether it is one it
\* can go on with.
ServerHello == Head(flight)
Acceptable(sh) ==
    /\ sh.type = "serverHello"
    /\ mutualVersion(tlsMine, sh.vers) = sh.vers /\ sh.vers >= 1
    /\ sh.suite \in Elems(tlsMine.suites)
    /\ sh.npn # <<>> => cli.hello.npn
serverResumedSession(sh) == cli.session # Nil /\ cli.hello.sessionId # Nil /\ sh.sessionId = cli.hello.sessionId

\* sendFinished of the client, after the messages `sent`.
NextProto(sh) ==
    IF sh.npn = <<>> THEN <<>>
    ELSE <<Msg("nextProtocol", IF mutualProtocol(tlsMine.npn, sh.npn) = Nil THEN tlsMine.npn[1]
                               ELSE mutualProtocol(tlsMine.npn, sh.npn))>>

Reply(sh, secret, log, sent, resumed, pc) ==
    LET covered == log \o sent \o NextProto(sh)
        fin == Finished(clientSum(secret, covered))
    IN  /\ flight' = sent \o <<ChangeCipherSpec>> \o NextProto(sh) \o <<fin>>
        /\ cli' = [pc |-> pc, hello |-> cli.hello, session |-> cli.session, sh |-> sh, vers |-> sh.vers, suite |-> sh.suite,
                   secret |-> secret, resumed |-> resumed, log |-> IF pc = "complete" THEN <<>> ELSE covered \o <<fin>>,
                   proto |-> IF sh.npn = <<>> THEN sh.alpn ELSE NextProto(sh)[1].body]

\* readFinished of a resumed handshake, then the client's own.
ResumeReply(sh) ==
    LET fin == Sent("finished")
        secret == cli.session.secret
        log == <<cli.hello, sh>>
    IN  IF fin # Nil /\ fin.data = serverSum(secret, log)
        THEN Reply(sh, secret, log \o <<fin>>, <<>>, TRUE, "complete")
        ELSE Alert(cli) /\ flight' = <<Msg("alert", Nil)>>

\* The chain a client sends when it is asked for one: its own, if one of the
\* named CAs signed it.
ChainToSend(req) == IF tlsMine.cert # <<>> /\ (req.body = {} \/ tlsMine.cert[1].ca \in req.body) THEN tlsMine.cert ELSE <<>>

\* doFullHandshake, establishKeys and sendFinished of the client.
FullReply(sh) ==
    LET skx == Sent("serverKeyExchange")
        req == Sent("certificateRequest")
        kx == IF skx = Nil THEN "rsa" ELSE skx.body[1]
        certs == IF req = Nil THEN <<>> ELSE ChainToSend(req)
        log == <<cli.hello>> \o flight
        keyed == (IF req = Nil THEN <<>> ELSE <<Msg("certificate", certs)>>) \o <<Msg("clientKeyExchange", kx)>>
        verify == IF certs = <<>> THEN <<>> ELSE <<Msg("certificateVerify", <<certs[1], log \o keyed>>)>>
    IN  IF \/ Sent("certificate") = Nil \/ Sent("serverHelloDone") = Nil
           \/ (skx = Nil) # ("ecdhe" \notin Flags[sh.suite])
           \/ skx # Nil /\ skx.body # <<kx, CertKey(sh.suite), cli.hello.random, sh.vers>>
        THEN Alert(cli) /\ flight' = <<Msg("alert", Nil)>>
        ELSE Reply(sh, masterFromPreMasterSecret(sh.vers, kx, cli.hello, sh), log, keyed \o verify, FALSE, "sent")

ReadServerHello ==
    /\ cli.pc = "hello" /\ srv.pc # "start" /\ flight # <<>>
    /\ IF ~Acceptable(ServerHello) THEN Alert(cli) /\ flight' = <<Msg("alert", Nil)>>
       ELSE IF serverResumedSession(ServerHello) THEN ResumeReply(ServerHello)
       ELSE FullReply(ServerHello)
    /\ UNCHANGED <<tlsConf, tlsSessions, tlsMine, srv>>

\* readSessionTicket, readFinished and the client's session cache.  A client
\* that keeps sessions by id remembers the one of the hello.
FinishClient ==
    LET t == Sent("newSessionTicket")
        log == IF t = Nil THEN cli.log ELSE cli.log \o <<t>>
        kept == IF t # Nil THEN t.body ELSE IF tlsMine.tickets THEN Nil ELSE cli.sh.sessionId
    IN  /\ cli.pc = "sent" /\ srv.pc \in {"complete", "failed"} /\ flight # <<>>
        /\ IF Sent("finished") = Nil \/ Sent("finished").data # serverSum(cli.secret, log) THEN Alert(cli) /\ UNCHANGED tlsMine
           ELSE /\ cli' = [cli EXCEPT !.pc = "complete", !.log = <<>>]
                /\ tlsMine' = IF kept = Nil THEN tlsMine
                              ELSE [tlsMine EXCEPT !.session = [ticket |-> kept, vers |-> cli.vers, suite |-> cli.suite,
                                                                secret |-> cli.secret]]
        /\ flight' = <<>>
        /\ UNCHANGED <<tlsConf, tlsSessions, srv>>

-----------------------------------------------------------------------------
NewConn == [pc |-> "start"]

TlsInit ==
    /\ tlsConf \in TlsConfs /\ tlsSessions = {}
    /\ tlsMine \in {[c EXCEPT !.session = Nil, !.count = 0] : c \in TlsClients}
    /\ srv = NewConn /\ cli = NewConn /\ flight = <<>>

\* The connection ends, and the client may start another one; the server's
\* configuration may have been replaced by then.
ConnOver == cli.pc \in {"complete", "failed"} /\ srv.pc \in {"complete", "failed"}
Reconnect ==
    /\ ConnOver /\ tlsMine.count + 1 < MaxHandshakes
    /\ tlsConf' \in TlsConfs
    /\ \E c \in TlsClients : /\ c.tickets = tlsMine.tickets
                            /\ tlsMine' = [c EXCEPT !.session = tlsMine.session, !.count = tlsMine.count + 1]
    /\ srv' = NewConn /\ cli' = NewConn /\ flight' = <<>>
    /\ UNCHANGED tlsSessions

\* An end that reads an alert, or nothing any more, gives up.
GiveUp ==
    /\ \/ srv.pc \notin {"start", "complete", "failed"} /\ cli.pc = "failed" /\ Alert(srv) /\ UNCHANGED cli
       \/ cli.pc \notin {"start", "complete", "failed"} /\ srv.pc = "failed" /\ Alert(cli) /\ UNCHANGED srv
    /\ flight' = <<>>
    /\ UNCHANGED <<tlsConf, tlsSessions, tlsMine>>

TlsNext ==
    \/ ClientHello \/ ReadServerHello \/ FinishClient
    \/ ReadClientHello \/ FinishResumed \/ FinishFull
    \/ GiveUp \/ Reconnect

TlsSpec == TlsInit /\ [][TlsNext]_tlsVars

-----------------------------------------------------------------------------
\* What the configuration in force says of a finished handshake, whether or
\* not it resumed a session: checkForResumption repeats every test of a full
\* handshake that a reload may have changed the answer of.
Lawful ==
    LET conf == tlsConf
    IN  /\ srv.suite \in Elems(conf.suites)
        /\ srv.vers < 3 => "tls12" \notin Flags[srv.suite]
        /\ "chacha" \in Flags[srv.suite] => conf.chacha
        /\ "rc4" \in Flags[srv.suite] => checkCipherGrade(conf, srv.vers) # "disable"
        /\ NeedsCert(conf) => srv.certs # <<>>
        /\ \A i \in DOMAIN srv.certs : conf.ruleAuth => srv.certs[i] \notin conf.crl /\ srv.certs[i].ca \in conf.clientCAs
        /\ srv.proto = "h2" /\ ~srv.npn => srv.vers = 3 /\ checkCipherSuiteHttp2Accepted(srv.suite)

\* A handshake the server completes is lawful under the configuration it was
\* made with, be it a full one or a session resumed from a ticket or from the
\* cache that an earlier configuration issued (handshake_server.go,
\* checkForResumption and doResumeHandshake).
ResumedAsFresh == srv.pc = "complete" => Lawful

\* When both ends of a connection have finished, they agree on version,
\* suite, secret, protocol and on whether the session was resumed.
EndsAgree ==
    cli.pc = "complete" /\ srv.pc = "complete" =>
        /\ cli.vers = srv.vers /\ cli.suite = srv.suite /\ cli.secret = srv.secret
        /\ cli.proto = srv.proto /\ cli.resumed = srv.resumed

\* Handshakes (bfe_tls): a resumed session has what a full handshake under the
\* configuration in force would allow, and both ends agree on the outcome.
TlsSound == ResumedAsFresh /\ EndsAgree
=============================================================================
