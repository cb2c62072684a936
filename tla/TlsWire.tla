------------------------------- MODULE TlsWire -------------------------------
(***************************************************************************)
(* bfe_tls on the wire.  First the handshake messages, as they are put     *)
(* there and read back: a message is a sequence of cells; a cell stands    *)
(* for a number of the width the field has (a version, a suite, a curve, a *)
(* length prefix), or for one byte of an opaque string; the common header  *)
(* is the type and the length of the rest.                                 *)
(*                                                                         *)
(* Then the record layer (conn.go): what Write puts on the wire and what   *)
(* Read makes of it when the network delivers the records as they were     *)
(* sent, loses one, repeats one, swaps two or alters one.  A byte is a     *)
(* number; a MAC is the tuple of what it covers.                           *)
(***************************************************************************)
EXTENDS Sample, Naturals, Sequences, FiniteSets, SequencesExt

CONSTANTS
    MaxPlain,     \* maxPlaintext
    InitPlain,    \* initPlaintext
    Threshold,    \* bytesThreshold
    BlockSize,    \* of a block cipher, in bytes
    MaxEmpty      \* maxConsecutiveEmptyRecords

Cells == Seq(Nat)
Vec(s) == <<Len(s)>> \o s
VecOf(ss) == FlattenSeq([i \in DOMAIN ss |-> Vec(ss[i])])
Opt(present, s) == IF present THEN s ELSE <<>>
Msg(type, body) == <<type>> \o Vec(body)

\* What a parser has of its input: the rest of it, and whether it is still
\* well formed.
Bad == [ok |-> FALSE, v |-> <<>>, rest |-> <<>>]
Cut(p) ==
    IF p = <<>> \/ Len(p) < 1 + p[1] THEN Bad
    ELSE [ok |-> TRUE, v |-> SubSeq(p, 2, 1 + p[1]), rest |-> SubSeq(p, 2 + p[1], Len(p))]
From(p, i) == SubSeq(p, i, Len(p))

\* All vectors of p, in order; ok only if nothing is left over.
Vectors[p \in Cells] ==
    IF p = <<>> THEN [ok |-> TRUE, v |-> <<>>]
    ELSE LET c == Cut(p)
             more == Vectors[c.rest]
         IN  IF ~c.ok THEN [ok |-> FALSE, v |-> <<>>]
             ELSE [ok |-> more.ok, v |-> <<c.v>> \o more.v]

-----------------------------------------------------------------------------
(* Extensions: their numbers, in the order clientHelloMsg.marshal writes   *)
(* them.                                                                   *)
Npn == 1
Sni == 2
Ocsp == 3
Curves == 4
Points == 5
Ticket == 6
SigAlgs == 7
Reneg == 8
Alpn == 9

Ext(id, body) == <<id>> \o Vec(body)
Extensions(es) == IF es = <<>> THEN <<>> ELSE Vec(es)

\* The extensions of a hello in the order they come: pairs of a number and a
\* body.
ExtList[p \in Cells] ==
    IF p = <<>> THEN [ok |-> TRUE, v |-> <<>>]
    ELSE LET c == Cut(Tail(p))
             more == ExtList[c.rest]
         IN  IF ~c.ok THEN [ok |-> FALSE, v |-> <<>>]
             ELSE [ok |-> more.ok, v |-> <<[id |-> p[1], body |-> c.v]>> \o more.v]

\* A vector that fills its extension.
Whole(b) == Cut(b).ok /\ Cut(b).rest = <<>>

ClientExtensions(m) ==
    Opt(m.nextProtoNeg, Ext(Npn, <<>>))
    \o Opt(m.serverName # <<>>, Ext(Sni, <<Len(m.serverName) + 3, 0>> \o Vec(m.serverName)))
    \o Opt(m.ocspStapling, Ext(Ocsp, <<1, 0, 0>>))
    \o Opt(m.supportedCurves # <<>>, Ext(Curves, Vec(m.supportedCurves)))
    \o Opt(m.supportedPoints # <<>>, Ext(Points, Vec(m.supportedPoints)))
    \o Opt(m.ticketSupported, Ext(Ticket, m.sessionTicket))
    \o Opt(m.signatureAndHashes # <<>>, Ext(SigAlgs, Vec(m.signatureAndHashes)))
    \o Opt(m.secureRenegotiation, Ext(Reneg, <<0>>))
    \o Opt(m.alpnProtocols # <<>>, Ext(Alpn, Vec(VecOf(m.alpnProtocols))))

clientHello_marshal(m) ==
    Msg(1, <<m.vers, m.random>> \o Vec(m.sessionId) \o Vec(m.cipherSuites) \o Vec(m.compressionMethods)
           \o Extensions(ClientExtensions(m)))

\* The name of type 0, which is the only one a client sends.
SniName(b) == IF Len(b) < 2 THEN Bad ELSE Cut(From(b, 3))

\* One extension of a client hello; e.ok falls when its body is malformed.
ClientExt(m, e) ==
    LET b == e.body
        alpn == Vectors[Cut(b).v]
        fail == [m EXCEPT !.ok = FALSE]
    IN  CASE ~m.ok -> m
          [] m.ok /\ e.id = Npn -> IF b # <<>> THEN fail ELSE [m EXCEPT !.nextProtoNeg = TRUE]
          [] m.ok /\ e.id = Sni -> IF ~SniName(b).ok THEN fail ELSE [m EXCEPT !.serverName = SniName(b).v]
          [] m.ok /\ e.id = Ocsp -> [m EXCEPT !.ocspStapling = b # <<>> /\ b[1] = 1]
          [] m.ok /\ e.id = Curves -> IF ~Whole(b) THEN fail ELSE [m EXCEPT !.supportedCurves = Cut(b).v]
          [] m.ok /\ e.id = Points -> IF ~Whole(b) THEN fail ELSE [m EXCEPT !.supportedPoints = Cut(b).v]
          [] m.ok /\ e.id = Ticket -> [m EXCEPT !.ticketSupported = TRUE, !.sessionTicket = b]
          [] m.ok /\ e.id = SigAlgs -> IF ~Whole(b) THEN fail ELSE [m EXCEPT !.signatureAndHashes = Cut(b).v]
          [] m.ok /\ e.id = Reneg -> IF b # <<0>> THEN fail ELSE [m EXCEPT !.secureRenegotiation = TRUE]
          [] m.ok /\ e.id = Alpn -> IF ~Whole(b) \/ ~alpn.ok \/ <<>> \in Range(alpn.v) THEN fail
                                    ELSE [m EXCEPT !.alpnProtocols = alpn.v]
          [] OTHER -> m

EmptyHello ==
    [ok |-> TRUE, vers |-> 0, random |-> 0, sessionId |-> <<>>, cipherSuites |-> <<>>, compressionMethods |-> <<>>,
     nextProtoNeg |-> FALSE, serverName |-> <<>>, ocspStapling |-> FALSE, supportedCurves |-> <<>>,
     supportedPoints |-> <<>>, ticketSupported |-> FALSE, sessionTicket |-> <<>>, signatureAndHashes |-> <<>>,
     secureRenegotiation |-> FALSE, alpnProtocols |-> <<>>]

\* Extensions fill the rest of a hello, or are absent.
HelloExts(p) ==
    LET all == Cut(p)
    IN  IF p = <<>> THEN [ok |-> TRUE, v |-> <<>>]
        ELSE IF ~all.ok \/ all.rest # <<>> THEN [ok |-> FALSE, v |-> <<>>] ELSE ExtList[all.v]

scsvRenegotiation == 7
clientHello_unmarshal(data) ==
    LET p == From(data, 3)
        sid == Cut(From(p, 3))
        suites == Cut(sid.rest)
        comp == Cut(suites.rest)
        exts == HelloExts(comp.rest)
        fixed == [EmptyHello EXCEPT !.vers = p[1], !.random = p[2], !.sessionId = sid.v, !.cipherSuites = suites.v,
                    !.compressionMethods = comp.v, !.secureRenegotiation = scsvRenegotiation \in Range(suites.v)]
    IN  IF Len(data) < 5 \/ ~sid.ok \/ ~suites.ok \/ ~comp.ok \/ ~exts.ok THEN [EmptyHello EXCEPT !.ok = FALSE]
        ELSE FoldLeft(ClientExt, fixed, exts.v)

-----------------------------------------------------------------------------
BadServerHello_marshal(m) ==
    Msg(2, <<m.vers, m.random>> \o Vec(m.sessionId) \o <<m.cipherSuite>>
           \o Extensions(
                Opt(m.nextProtoNeg, Ext(Npn, VecOf(m.nextProtos)))
                \o Opt(m.ticketSupported, Ext(Ticket, <<>>))
                \o Opt(m.secureRenegotiation, Ext(Reneg, <<0>>))
                \o Opt(m.alpnProtocol # <<>>, Ext(Alpn, Vec(m.alpnProtocol)))))
serverHello_marshal(m) ==
    Msg(2, <<m.vers, m.random>> \o Vec(m.sessionId) \o <<m.cipherSuite>>
           \o Extensions(
                Opt(m.nextProtoNeg, Ext(Npn, VecOf(m.nextProtos)))
                \o Opt(m.ocspStapling, Ext(Ocsp, <<>>))
                \o Opt(m.ticketSupported, Ext(Ticket, <<>>))
                \o Opt(m.secureRenegotiation, Ext(Reneg, <<0>>))
                \o Opt(m.alpnProtocol # <<>>, Ext(Alpn, Vec(Vec(m.alpnProtocol))))))

ServerExt(m, e) ==
    LET b == e.body
        protos == Vectors[b]
        fail == [m EXCEPT !.ok = FALSE]
    IN  CASE ~m.ok -> m
          [] m.ok /\ e.id = Npn -> IF ~protos.ok \/ <<>> \in Range(protos.v) THEN fail
                                   ELSE [m EXCEPT !.nextProtoNeg = TRUE, !.nextProtos = protos.v]
          [] m.ok /\ e.id = Ocsp -> IF b # <<>> THEN fail ELSE [m EXCEPT !.ocspStapling = TRUE]
          [] m.ok /\ e.id = Ticket -> IF b # <<>> THEN fail ELSE [m EXCEPT !.ticketSupported = TRUE]
          [] m.ok /\ e.id = Reneg -> IF b # <<0>> THEN fail ELSE [m EXCEPT !.secureRenegotiation = TRUE]
          [] m.ok /\ e.id = Alpn -> IF Len(b) < 2 \/ ~Whole(b) \/ ~Whole(Cut(b).v) THEN fail
                                    ELSE [m EXCEPT !.alpnProtocol = Cut(Cut(b).v).v]
          [] OTHER -> m

EmptyServerHello ==
    [ok |-> TRUE, vers |-> 0, random |-> 0, sessionId |-> <<>>, cipherSuite |-> 0, nextProtoNeg |-> FALSE,
     nextProtos |-> <<>>, ocspStapling |-> FALSE, ticketSupported |-> FALSE, secureRenegotiation |-> FALSE,
     alpnProtocol |-> <<>>]
serverHello_unmarshal(data) ==
    LET p == From(data, 3)
        sid == Cut(From(p, 3))
        exts == HelloExts(From(sid.rest, 2))
        fixed == [EmptyServerHello EXCEPT !.vers = p[1], !.random = p[2], !.sessionId = sid.v, !.cipherSuite = sid.rest[1]]
    IN  IF Len(data) < 6 \/ ~sid.ok \/ sid.rest = <<>> \/ ~exts.ok THEN [EmptyServerHello EXCEPT !.ok = FALSE]
        ELSE FoldLeft(ServerExt, fixed, exts.v)

-----------------------------------------------------------------------------
(* The other messages: marshal, and unmarshal as the parsed value or Bad.  *)
Ok(v) == [ok |-> TRUE, v |-> v]
No == [ok |-> FALSE, v |-> <<>>]

certificate_marshal(certs) == Msg(11, Vec(VecOf(certs)))
certificate_unmarshal(data) ==
    LET all == Cut(From(data, 3))
    IN  IF Len(data) < 3 \/ ~all.ok \/ all.rest # <<>> \/ ~Vectors[all.v].ok THEN No ELSE Ok(Vectors[all.v].v)

\* The messages whose body is opaque: serverKeyExchange, clientKeyExchange,
\* finished.  Only clientKeyExchange compares the length in its header.
opaque_marshal(type, body) == Msg(type, body)
opaque_unmarshal(data, checked) ==
    IF Len(data) < 2 \/ (checked /\ data[2] # Len(data) - 2) THEN No ELSE Ok(From(data, 3))

certificateStatus_marshal(resp) == Msg(22, <<1>> \o Vec(resp))
certificateStatus_unmarshal(data) ==
    IF Len(data) < 3 THEN No
    ELSE IF data[3] # 1 THEN Ok(<<>>)
    ELSE IF ~Whole(From(data, 4)) THEN No ELSE Ok(Cut(From(data, 4)).v)

\* The padding makes the whole a multiple of the block, here of 4 cells.
nextProto_marshal(proto) ==
    LET pad == 4 - ((Len(proto) + 2) % 4) IN Msg(67, Vec(proto) \o Vec([i \in 1..pad |-> 0]))
nextProto_unmarshal(data) ==
    LET proto == Cut(From(data, 3))
    IN  IF Len(data) < 3 \/ ~proto.ok \/ ~Whole(proto.rest) THEN No ELSE Ok(proto.v)

certificateRequest_marshal(m) ==
    Msg(13, Vec(m.types) \o Opt(m.has, Vec(m.sigs)) \o Vec(VecOf(m.cas)))
certificateRequest_unmarshal(data, has) ==
    LET types == Cut(From(data, 3))
        sigs == IF has THEN Cut(types.rest) ELSE [ok |-> TRUE, v |-> <<>>, rest |-> types.rest]
        cas == Cut(sigs.rest)
    IN  IF Len(data) < 3 \/ data[2] # Len(data) - 2 \/ ~types.ok \/ types.v = <<>> \/ ~sigs.ok
           \/ ~cas.ok \/ cas.rest # <<>> \/ ~Vectors[cas.v].ok THEN No
        ELSE Ok([types |-> types.v, has |-> has, sigs |-> sigs.v, cas |-> Vectors[cas.v].v])

certificateVerify_marshal(m) == Msg(15, Opt(m.has, <<m.alg>>) \o Vec(m.sig))
certificateVerify_unmarshal(data, has) ==
    LET p == From(data, IF has THEN 4 ELSE 3)
    IN  IF Len(data) < 3 \/ data[2] # Len(data) - 2 \/ ~Whole(p) THEN No
        ELSE Ok([has |-> has, alg |-> IF has THEN data[3] ELSE 0, sig |-> Cut(p).v])

newSessionTicket_marshal(ticket) == Msg(4, <<0>> \o Vec(ticket))
newSessionTicket_unmarshal(data) ==
    IF Len(data) < 4 \/ data[2] # Len(data) - 2 \/ ~Whole(From(data, 4)) THEN No ELSE Ok(Cut(From(data, 4)).v)

-----------------------------------------------------------------------------
Strs == {<<>>, <<5>>, <<0, 9>>}
Lists == {<<>>, <<<<5>>>>, <<<<1, 2>>, <<3>>>>}
TlsMessageInputs ==
    [of : {"clientHello"},
     m : [ok : {TRUE}, vers : {3}, random : {8}, sessionId : {<<>>, <<1, 2>>}, cipherSuites : {<<4, 5>>, <<7>>},
          compressionMethods : {<<0>>}, nextProtoNeg : BOOLEAN, serverName : Strs, ocspStapling : BOOLEAN,
          supportedCurves : Strs, supportedPoints : {<<>>, <<0>>}, ticketSupported : BOOLEAN, sessionTicket : Strs,
          signatureAndHashes : {<<>>, <<4, 1>>}, secureRenegotiation : BOOLEAN, alpnProtocols : Lists]]
    \cup [of : {"serverHello"},
     m : [ok : {TRUE}, vers : {3}, random : {8}, sessionId : {<<>>, <<1>>}, cipherSuite : {4}, nextProtoNeg : BOOLEAN,
          nextProtos : Lists, ocspStapling : BOOLEAN, ticketSupported : BOOLEAN, secureRenegotiation : BOOLEAN,
          alpnProtocol : Strs]]
    \cup [of : {"tlsOther"}, s : Strs, list : Lists \cup {<<<<>>>>}, types : {<<1>>, <<1, 64>>}, has : BOOLEAN, alg : {0, 4}]

Shorter(d) == {SubSeq(d, 1, k) : k \in 0..Len(d) - 1}

\* Every message the code writes is read back with every field as it was
\* (where a field is only sent in the company of another, that one decides),
\* and no part of it is taken for the whole.
MessagesReadBack ==
    /\ Given("clientHello") =>
          LET m == input.m
              d == clientHello_marshal(m)
              sent == [m EXCEPT !.secureRenegotiation = @ \/ scsvRenegotiation \in Range(m.cipherSuites),
                                !.sessionTicket = IF m.ticketSupported THEN @ ELSE <<>>]
          IN  clientHello_unmarshal(d) = sent /\ d[2] = Len(d) - 2
    /\ Given("serverHello") =>
          LET m == input.m
              sent == [m EXCEPT !.nextProtos = IF m.nextProtoNeg THEN @ ELSE <<>>]
          IN  serverHello_unmarshal(serverHello_marshal(m)) = sent
    /\ Given("tlsOther") =>
          LET req == [types |-> input.types, has |-> input.has, sigs |-> IF input.has THEN <<4, 1>> ELSE <<>>, cas |-> input.list]
              ver == [has |-> input.has, alg |-> IF input.has THEN input.alg ELSE 0, sig |-> input.s]
              certs == certificate_marshal(input.list)
          IN  /\ certificate_unmarshal(certs) = Ok(input.list)
              /\ \A p \in Shorter(certs) : ~certificate_unmarshal(p).ok
              /\ opaque_unmarshal(opaque_marshal(16, input.s), TRUE) = Ok(input.s)
              /\ certificateStatus_unmarshal(certificateStatus_marshal(input.s)) = Ok(input.s)
              /\ nextProto_unmarshal(nextProto_marshal(input.s)) = Ok(input.s)
              /\ Len(nextProto_marshal(input.s)) % 4 = 2
              /\ certificateRequest_unmarshal(certificateRequest_marshal(req), input.has) = Ok(req)
              /\ certificateVerify_unmarshal(certificateVerify_marshal(ver), input.has) = Ok(ver)
              /\ newSessionTicket_unmarshal(newSessionTicket_marshal(input.s)) = Ok(input.s)
              /\ \A p \in Shorter(newSessionTicket_marshal(input.s)) : ~newSessionTicket_unmarshal(p).ok

-----------------------------------------------------------------------------
(* The record layer.                                                       *)

Modes == {"stream", "cbc", "aead"}
Rest(s, i) == SubSeq(s, i, Len(s))

-----------------------------------------------------------------------------
(* One record.  hc is a half connection: mode, version and sequence number *)
(* (which incSeq raises).                                                  *)

MacOf(hc, typ, data) == <<"mac", hc.seq, typ, hc.vers, data>>
\* The MAC is one cell longer than the data; an explicit IV fills a block.
explicitIVLen(hc) == IF hc.mode = "cbc" /\ hc.vers >= 2 THEN BlockSize ELSE IF hc.mode = "aead" THEN 1 ELSE 0
IV(hc) == [i \in 1 .. explicitIVLen(hc) |-> <<"iv", hc.seq>>]

padToBlockSize(payload) ==
    LET padding == BlockSize - (Len(payload) % BlockSize)
    IN  payload \o [i \in 1 .. padding |-> <<"pad", padding - 1>>]

encrypt(hc, typ, data) ==
    LET sealed == data \o <<MacOf(hc, typ, data)>>
    IN  IV(hc) \o (IF hc.mode = "cbc" THEN padToBlockSize(sealed) ELSE sealed)

\* The padding a payload ends in; ok only if all of it is there (SSL 3.0
\* looks at its last byte only).
IsPad(x) == x[1] = "pad"
removePaddingSSL30(p) ==
    IF p = <<>> \/ ~IsPad(Last(p)) \/ Last(p)[2] + 1 > Len(p) THEN [ok |-> FALSE, v |-> p]
    ELSE [ok |-> TRUE, v |-> SubSeq(p, 1, Len(p) - (Last(p)[2] + 1))]
AllPadding(p, cut) == IF cut.ok /\ \A i \in Len(cut.v) + 1 .. Len(p) : p[i] = Last(p) THEN cut ELSE [ok |-> FALSE, v |-> p]
removePadding(p) == AllPadding(p, removePaddingSSL30(p))

\* The data of a record, or that it is refused (alertBadRecordMAC).
Refused == [ok |-> FALSE, v |-> <<>>]
Short(hc, body, n) == Len(body) < n \/ (hc.mode = "cbc" /\ (Len(body) % BlockSize # 0 \/ Len(body) < n + BlockSize))
Unpadded(hc, open) ==
    IF hc.mode # "cbc" THEN [ok |-> TRUE, v |-> open] ELSE IF hc.vers = 0 THEN removePaddingSSL30(open) ELSE removePadding(open)
Authentic(hc, typ, p) ==
    IF ~p.ok \/ p.v = <<>> \/ Last(p.v) # MacOf(hc, typ, Front(p.v)) THEN Refused ELSE [ok |-> TRUE, v |-> Front(p.v)]
decrypt(hc, rec) ==
    IF Short(hc, rec.body, explicitIVLen(hc)) THEN Refused
    ELSE Authentic(hc, rec.typ, Unpadded(hc, Rest(rec.body, explicitIVLen(hc) + 1)))

-----------------------------------------------------------------------------
(* Writing.                                                                *)

\* With dynamic records the first bytes, and those after a pause, go in
\* small records.
choosePlaintextSize(out) ==
    IF ~out.dynamic \/ out.byteOut < Threshold THEN InitPlain
    ELSE IF ~out.idle THEN MaxPlain ELSE InitPlain
byteOutAfter(out) == IF out.dynamic /\ out.byteOut >= Threshold /\ out.idle THEN 0 ELSE out.byteOut

PlainSize(out, typ) == IF typ = "data" THEN choosePlaintextSize(out) ELSE MaxPlain

\* The records of one writeRecord call, appended to out.wire.
RECURSIVE Fragments(_, _, _, _)
Fragments(out, typ, data, size) ==
    IF data = <<>> THEN out
    ELSE LET part == SubSeq(data, 1, IF Len(data) < size THEN Len(data) ELSE size)
             rec == [typ |-> typ, vers |-> out.hc.vers, body |-> encrypt(out.hc, typ, part)]
         IN  Fragments([out EXCEPT !.wire = Append(@, rec), !.hc.seq = @ + 1], typ, Rest(data, Len(part) + 1), size)

writeRecord(out, typ, data) ==
    LET sent == Fragments(out, typ, data, PlainSize(out, typ))
    IN  IF typ = "data" THEN [sent EXCEPT !.byteOut = byteOutAfter(out) + Len(data)] ELSE sent

\* Before TLS 1.1 a block cipher's first byte goes in a record of its own.
Write(out, b) ==
    IF Len(b) > 1 /\ out.hc.vers <= 1 /\ out.hc.mode = "cbc"
    THEN writeRecord(writeRecord(out, "data", SubSeq(b, 1, 1)), "data", Rest(b, 2))
    ELSE writeRecord(out, "data", b)

\* Close ends a connection with a warning alert.
CloseNotify(out) == writeRecord(out, "alert", <<1, 0>>)

-----------------------------------------------------------------------------
(* Reading.                                                                *)

\* One record, when application data is wanted: what is delivered, and the
\* error that stays (c.in.err).
Opened(in, rec, data) ==
    CASE Len(data) > MaxPlain -> [in EXCEPT !.err = "recordOverflow"]
      [] rec.typ = "data" /\ data = <<>> -> [in EXCEPT !.empty = @ + 1, !.err = IF in.empty >= MaxEmpty THEN "noProgress" ELSE @]
      [] rec.typ = "data" -> [in EXCEPT !.got = @ \o data, !.empty = 0]
      [] rec.typ = "alert" /\ data = <<1, 0>> -> [in EXCEPT !.err = "EOF"]
      [] rec.typ = "alert" /\ Len(data) = 2 /\ data[1] = 1 -> in
      [] rec.typ = "alert" /\ Len(data) = 2 /\ data[1] = 2 -> [in EXCEPT !.err = "remote error"]
      [] rec.typ = "handshake" -> [in EXCEPT !.err = "noRenegotiation"]
      [] OTHER -> [in EXCEPT !.err = "unexpectedMessage"]
Decrypted(in, rec, d) ==
    IF d.ok THEN Opened([in EXCEPT !.hc.seq = @ + 1], rec, d.v) ELSE [in EXCEPT !.err = "badRecordMAC"]
BadReadRecord(in, rec) ==
    IF ~decrypt(in.hc, rec).ok THEN [in EXCEPT !.hc.seq = @ + 1] ELSE Decrypted(in, rec, decrypt(in.hc, rec))
readRecord(in, rec) ==
    CASE rec.vers # in.hc.vers -> [in EXCEPT !.err = "version"]
      [] Len(rec.body) > MaxPlain + 3 * BlockSize -> [in EXCEPT !.err = "oversized"]
      [] OTHER -> Decrypted(in, rec, decrypt(in.hc, rec))

\* Read until an error: nothing is read after one.
Read(in, wire) == FoldLeft(LAMBDA x, rec : IF x.err = "" THEN readRecord(x, rec) ELSE x, in, wire)

\* The data of handshake records while a handshake message is wanted
\* (c.hand).
Collected(x, rec, d) == IF rec.typ = "handshake" /\ d.ok THEN [x EXCEPT !.got = @ \o d.v, !.hc.seq = @ + 1] ELSE x
Hand(in, wire) == FoldLeft(LAMBDA x, rec : Collected(x, rec, decrypt(x.hc, rec)), in, wire).got

\* readHandshake: messages reassembled from the data of handshake records; a
\* message is its type, the length of its body and the body.
RECURSIVE readHandshake(_)
readHandshake(hand) ==
    IF Len(hand) < 2 \/ Len(hand) < 2 + hand[2] THEN <<>>
    ELSE <<SubSeq(hand, 1, 2 + hand[2])>> \o readHandshake(Rest(hand, 3 + hand[2]))

\* An SSLv2 hello is turned into the hello of a client that offers those of
\* its three-byte cipher specs that start with 0.
convertSSLv2ClientHello(v2) ==
    IF v2.msgLength < 12 \/ v2.type # 1 \/ v2.specs = <<>> \/ v2.idLen \notin {0, 16} THEN [ok |-> FALSE]
    ELSE [ok |-> TRUE, vers |-> v2.vers, sessionId |-> <<0>>,
          suites |-> LET new == SelectSeq(v2.specs, LAMBDA s : s[1] = 0) IN [i \in DOMAIN new |-> new[i][2]]]

-----------------------------------------------------------------------------
(* Bounded inputs: two writes of a sender and a fault of the network.      *)

Faults == {"none", "drop", "duplicate", "swap", "alter", "cut"}
TlsRecordInputs ==
    [of : {"records"}, mode : Modes, vers : 0 .. 3, dynamic : BOOLEAN, idle : BOOLEAN, lens : {<<n, k>> : n \in 0 .. 4, k \in 0 .. 3},
     fault : Faults, at : 1 .. 3, extra : {"none", "warning", "handshake"}]
    \cup [of : {"handshake"}, mode : Modes, vers : {1, 3}, dynamic : {FALSE}, lens : {<<0, 2>>, <<3, 1>>, <<2, 2>>}]
    \cup {[of |-> "sslv2", v2 |-> [msgLength |-> n, type |-> t, vers |-> 1, idLen |-> 0, specs |-> s]] :
            n \in {11, 12}, t \in {1, 2}, s \in {<<>>, << <<0, 5>> >>, << <<7, 1>>, <<0, 9>>, <<0, 5>> >>}}

Payload(from, n) == [i \in 1 .. n |-> from + i]
NewOut(i) == [hc |-> [mode |-> i.mode, vers |-> i.vers, seq |-> 0], dynamic |-> i.dynamic, idle |-> FALSE, byteOut |-> 0, wire |-> <<>>]
NewIn(i) == [hc |-> [mode |-> i.mode, vers |-> i.vers, seq |-> 0], got |-> <<>>, err |-> "", empty |-> 0]

SentData(i) == Payload(0, i.lens[1]) \o Payload(10, i.lens[2])
Between(i, out) ==
    IF i.extra = "none" THEN out
    ELSE writeRecord(out, IF i.extra = "warning" THEN "alert" ELSE "handshake", IF i.extra = "warning" THEN <<1, 9>> ELSE <<1, 0>>)
SentWire(i) ==
    CloseNotify(Write([Between(i, Write(NewOut(i), Payload(0, i.lens[1]))) EXCEPT !.idle = i.idle], Payload(10, i.lens[2]))).wire

\* What the network makes of the records.
Delivered(i, w, k) ==
    CASE k > Len(w) \/ i.fault = "none" -> w
      [] i.fault = "drop" -> RemoveAt(w, k)
      [] i.fault = "duplicate" -> InsertAt(w, k, w[k])
      [] i.fault = "swap" /\ k < Len(w) -> [w EXCEPT ![k] = w[k + 1], ![k + 1] = w[k]]
      [] i.fault = "alter" -> [w EXCEPT ![k].body = [@ EXCEPT ![1 + explicitIVLen(NewOut(i).hc)] = 99]]
      [] OTHER -> SubSeq(w, 1, k - 1)
InOrder(i, r) ==
    /\ IsPrefix(r.got, SentData(i))
    /\ r.err = "EOF" => r.got = SentData(i)
    /\ i.fault = "none" /\ i.extra # "handshake" => r.err = "EOF"
SameMessages(i, msgs) == readHandshake(Hand(NewIn(i), writeRecord(NewOut(i), "handshake", FlattenSeq(msgs)).wire)) = msgs
SuitesKept(v2, hello) == hello.ok => \A i \in DOMAIN v2.specs : v2.specs[i][1] = 0 <=> v2.specs[i][2] \in ToSet(hello.suites)

\* Whatever happens to the records, the reader gets a prefix of what was
\* written, and all of it when it sees the end of the stream (EOF) of an
\* undisturbed connection: readRecord keeps the first error, and the
\* sequence number is part of every MAC.  Handshake messages are put together
\* again whatever records they came in, and an SSLv2 hello keeps its v3
\* suites.
RecordsInOrder ==
    /\ Given("records") => InOrder(input, Read(NewIn(input), Delivered(input, SentWire(input), input.at)))
    /\ Given("handshake") => SameMessages(input, [i \in 1 .. 2 |-> <<i, input.lens[i]>> \o Payload(0, input.lens[i])])
    /\ Given("sslv2") => SuitesKept(input.v2, convertSSLv2ClientHello(input.v2))
=============================================================================
