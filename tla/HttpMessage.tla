----------------------------- MODULE HttpMessage -----------------------------
(***************************************************************************)
(* HTTP/1 messages: how a request or a response is read from a connection  *)
(* (the lines of the header, the length of the body, chunks and trailer),  *)
(* how it is written to the next, and how the response to the client is    *)
(* framed.  Pure.  A value of the header is a sequence of words, a comma   *)
(* one of them; the body on the wire is a sequence of bytes "a", "b",      *)
(* sizes of chunks "0:", "1:", "2:", "crlf" and lines of a trailer "T".    *)
(***************************************************************************)
EXTENDS Integers, Sequences, SequencesExt, FiniteSets, TLC, Sample

CONSTANTS PeekLines,    \* lines of a trailer that the buffer of the reader holds
          DisableSanitize,  \* cookies are taken as they come: InitHttp sets it
          CopySize,     \* the pieces in which io.Copy moves a body
          BufSize,      \* bufferBeforeChunkingSize
          MaxPostRead   \* maxPostHandlerReadBytes

-----------------------------------------------------------------------------
(* The header.                                                             *)

\* The names as they may be spelt; one with a byte that no token has is left
\* as it stands and is another name.
Spelling == "content-length" :> "Content-Length" @@ "transfer-encoding" :> "Transfer-Encoding" @@
            "connection" :> "Connection" @@ "trailer" :> "Trailer" @@ "host" :> "Host" @@ "pragma" :> "Pragma"
canonicalMIMEHeaderKey(k) == IF k \in DOMAIN Spelling THEN Spelling[k] ELSE k

HeaderGet(h, k) == IF k \in DOMAIN h /\ h[k] # <<>> THEN h[k][1] ELSE <<>>
HeaderAdd(h, k, v) == IF k \in DOMAIN h THEN [h EXCEPT ![k] = Append(@, v)] ELSE h @@ (k :> <<v>>)
HeaderDel(h, k) == [x \in DOMAIN h \ {k} |-> h[x]]
HeaderSet(h, k, v) == HeaderAdd(HeaderDel(h, k), k, v)

\* A line that starts with a space continues the one before.
readContinuedLineSlice(lines) ==
    FoldLeft(LAMBDA acc, l :
                IF l.key = "more" /\ acc # <<>>
                THEN [acc EXCEPT ![Len(acc)].val = @ \o l.val] ELSE Append(acc, l), <<>>, lines)

\* The lines up to the empty one; a line without a colon ends the reading
\* with an error, a line without a name is skipped.
ReadMIMEHeader(lines) ==
    LET whole == readContinuedLineSlice(lines)
        good == SelectSeq(whole, LAMBDA l : l.key \notin {"", "more"})
    IN  [ok |-> \A i \in DOMAIN whole : whole[i].key \notin {"junk", "more"},
         header |-> FoldLeft(LAMBDA h, l : HeaderAdd(h, canonicalMIMEHeaderKey(l.key), l.val),
                             [k \in {} |-> <<>>], good)]

\* Pragma: no-cache stands for the Cache-Control of the same name.
fixPragmaCacheControl(h) ==
    IF HeaderGet(h, "Pragma") = <<"no-cache">> /\ "Cache-Control" \notin DOMAIN h
    THEN HeaderSet(h, "Cache-Control", <<"no-cache">>) ELSE h

\* A word between boundaries, in any case.
HasToken(v, token) == \E i \in DOMAIN v : v[i] = token

-----------------------------------------------------------------------------
(* The length of a body.                                                   *)

Numbers == <<"0">> :> 0 @@ <<"1">> :> 1 @@ <<"2">> :> 2
Split(v) == FoldLeft(LAMBDA acc, w : IF w = "," THEN Append(acc, <<>>)
                                     ELSE [acc EXCEPT ![Len(acc)] = Append(@, w)], <<<<>>>>, v)
chunked(te) == te # <<>> /\ te[1] = <<"chunked">>
noBodyExpected(method) == method = "HEAD"
bodyAllowedForStatus(s) == ~(s \in 100..199 \/ s \in {204, 304})

\* -1 for an empty value, -2 for one that is no length.
parseContentLength(v) == IF v = <<>> THEN -1 ELSE IF v \in DOMAIN Numbers THEN Numbers[v] ELSE -2

\* Only the first value counts, and in it what stands before "identity"; a
\* chunked body makes Content-Length void.
fixTransferEncoding(h) ==
    IF "Transfer-Encoding" \notin DOMAIN h THEN [ok |-> TRUE, te |-> <<>>, header |-> h]
    ELSE LET all == Split(HeaderGet(h, "Transfer-Encoding"))
             stop == SelectInSeq(all, LAMBDA e : e = <<"identity">>)
             te == IF stop = 0 THEN all ELSE SubSeq(all, 1, stop - 1)
             rest == HeaderDel(h, "Transfer-Encoding")
         IN  [ok |-> Range(te) \subseteq {<<"chunked">>} /\ Len(te) <= 1, te |-> te,
              header |-> IF te # <<>> THEN HeaderDel(rest, "Content-Length") ELSE rest]

\* The length that the header gives the body: -1 up to the end of the chunks or
\* of the connection, -2 an error.
fixLength(isResponse, status, method, h, te) ==
    LET cls == IF "Content-Length" \in DOMAIN h THEN h["Content-Length"] ELSE <<>>
        v == HeaderGet(h, "Content-Length")
    IN  CASE \E i \in DOMAIN cls : cls[i] # v -> -2
          [] (\A i \in DOMAIN cls : cls[i] = v) /\ noBodyExpected(method) ->
                IF ~isResponse /\ cls # <<>> /\ v # <<"0">> THEN -2 ELSE 0
          [] OTHER -> IF status \div 100 = 1 \/ status \in {204, 304} THEN 0
                      ELSE IF chunked(te) THEN -1
                      ELSE IF v # <<>> THEN parseContentLength(v)
                      ELSE IF isResponse THEN -1 ELSE 0

shouldClose(minor, h) ==
    IF minor = 0 THEN ~HasToken(HeaderGet(h, "Connection"), "keep-alive")
    ELSE HeaderGet(h, "Connection") = <<"close">>

\* The names announced are checked and forgotten: the trailer that is read
\* after the chunks is taken as it comes.
fixTrailer(h) ==
    LET keys == Split(HeaderGet(h, "Trailer"))
    IN  \A i \in DOMAIN keys : keys[i] \notin {<<"Transfer-Encoding">>, <<"Trailer">>, <<"Content-Length">>}

\* What readTransfer makes of a header: the kind of the body and its length.
Kind(method, te, len, close) ==
    CASE chunked(te) -> IF noBodyExpected(method) THEN "none" ELSE "chunked"
      [] ~chunked(te) /\ len > 0 -> "limited"
      [] OTHER -> IF len # 0 /\ close THEN "eof" ELSE "none"
\* Of several Content-Length with one value, one is left; a response loses its
\* Connection, and every message the names of its trailer.
OneLength(h) == IF "Content-Length" \in DOMAIN h /\ Len(h["Content-Length"]) > 1
                THEN HeaderSet(h, "Content-Length", HeaderGet(h, "Content-Length")) ELSE h
Cleared(isResponse, minor, h, said) ==
    HeaderDel(IF isResponse /\ minor = 1 /\ said THEN HeaderDel(OneLength(h), "Connection") ELSE OneLength(h), "Trailer")
Framed(t, q, len, shown, said, close) ==
    [ok |-> t.ok /\ len # -2 /\ shown # -2 /\ q.trailer, te |-> t.te, len |-> shown, close |-> close,
     header |-> Cleared(q.isResponse, q.minor, t.header, said), kind |-> Kind(q.method, t.te, len, close), limit |-> len]
FramedBy(t, q, len, said) ==
    Framed(t, q, len,
           IF q.isResponse /\ q.method = "HEAD" THEN parseContentLength(HeaderGet(t.header, "Content-Length")) ELSE len,
           said, q.isResponse /\ (said \/ (len = -1 /\ ~chunked(t.te) /\ bodyAllowedForStatus(q.status))))
TransferOf(t, q) ==
    FramedBy(t, q, fixLength(q.isResponse, q.status, q.method, t.header, t.te), shouldClose(q.minor, t.header))
readTransfer(isResponse, status, method, minor, h) ==
    TransferOf(fixTransferEncoding(h), [isResponse |-> isResponse, status |-> status, method |-> method, minor |-> minor,
                                        trailer |-> fixTrailer(h)])

-----------------------------------------------------------------------------
(* The bytes of a body.                                                    *)

ChunkSize == "0:" :> 0 @@ "1:" :> 1 @@ "2:" :> 2
Broken == [ok |-> FALSE, data |-> <<>>, rest |-> <<>>]

\* An empty line ends the body; a trailer must be seen whole in the buffer.
BadReadTrailer(wire) ==
    IF wire = <<>> THEN Broken ELSE [ok |-> TRUE, data |-> <<>>, rest |-> wire]
readTrailer(wire) ==
    LET end == SelectInSeq(wire, LAMBDA t : t = "crlf")
    IN  IF end = 0 \/ end > PeekLines + 1 \/ \E i \in 1..(end - 1) : wire[i] # "T" THEN Broken
        ELSE [ok |-> TRUE, data |-> <<>>, rest |-> SubSeq(wire, end + 1, Len(wire))]

RECURSIVE chunkedReader(_)
chunkedReader(wire) ==
    IF wire = <<>> \/ wire[1] \notin DOMAIN ChunkSize THEN Broken
    ELSE LET n == ChunkSize[wire[1]]
         IN  IF n = 0 THEN readTrailer(Tail(wire))
             ELSE IF Len(wire) < n + 2 \/ wire[n + 2] # "crlf" THEN Broken
             ELSE LET more == chunkedReader(SubSeq(wire, n + 3, Len(wire)))
                  IN  [more EXCEPT !.data = SubSeq(wire, 2, n + 1) \o @]

\* A body that ends before its length is an error.
ReadBody(t, wire) ==
    CASE t.kind = "none" -> [ok |-> TRUE, data |-> <<>>, rest |-> wire]
      [] t.kind = "chunked" -> chunkedReader(wire)
      [] t.kind = "limited" ->
            IF Len(wire) < t.limit THEN Broken
            ELSE [ok |-> TRUE, data |-> SubSeq(wire, 1, t.limit), rest |-> SubSeq(wire, t.limit + 1, Len(wire))]
      [] OTHER -> [ok |-> TRUE, data |-> wire, rest |-> <<>>]

\* The request line, the version and the size of the URI; the host of the URI
\* goes before that of the header.
parseRequestLine(words) == Len(words) >= 3
ParseHTTPVersion(v) == IF v = "HTTP/1.1" THEN 1 ELSE IF v = "HTTP/1.0" THEN 0 ELSE -1
Message(m, host, ok, t, b) ==
    [ok |-> ok /\ ParseHTTPVersion(m.proto) >= 0 /\ t.ok /\ b.ok, method |-> m.method, host |-> host,
     t |-> t, data |-> b.data, rest |-> b.rest, minor |-> ParseHTTPVersion(m.proto)]
MessageWith(m, host, ok, t) == Message(m, host, ok, t, ReadBody(t, m.wire))
RequestWith(m, h, ok) ==
    MessageWith(m, IF m.urlHost # <<>> THEN m.urlHost ELSE HeaderGet(h, "Host"), ok,
                readTransfer(FALSE, 200, m.method, ParseHTTPVersion(m.proto), HeaderDel(h, "Host")))
RequestOf(m, mime) == RequestWith(m, fixPragmaCacheControl(mime.header), mime.ok /\ parseRequestLine(m.line))
ReadRequest(m) == RequestOf(m, ReadMIMEHeader(m.lines))
ResponseOf(m, mime) ==
    MessageWith(m, <<>>, mime.ok /\ Len(m.line) >= 2,
                readTransfer(TRUE, m.status, m.method, ParseHTTPVersion(m.proto), fixPragmaCacheControl(mime.header)))
ReadResponse(m) == ResponseOf(m, ReadMIMEHeader(m.lines))

-----------------------------------------------------------------------------
(* Writing a message.                                                      *)

\* A request of unknown length, or with a byte where none was announced, is
\* sent in chunks.
newTransferWriter(isResponse, r, minor) ==
    LET some == r.data # <<>>
        len == IF ~isResponse /\ r.t.te = <<>> /\ minor = 1 /\ r.t.len = 0 /\ some THEN -1 ELSE r.t.len
        body == some \/ isResponse \/ len # 0 \/ r.t.te # <<>>
        te == IF ~isResponse /\ r.t.te = <<>> /\ minor = 1 /\ len < 0 THEN <<<<"chunked">>>> ELSE r.t.te
        head == isResponse /\ noBodyExpected(r.method)
        te2 == IF ~head /\ (minor = 0 \/ ~body) THEN <<>> ELSE te
    IN  [head |-> head, body |-> body /\ ~head, te |-> te2,
         len |-> IF chunked(te2) THEN -1 ELSE IF ~head /\ ~body THEN 0 ELSE len,
         close |-> isResponse /\ r.t.close, method |-> r.method, header |-> r.t.header]

shouldSendContentLength(w) ==
    /\ ~chunked(w.te)
    /\ w.len > 0 \/ (w.len = 0 /\ HeaderGet(w.header, "Content-Length") # <<>> /\ w.method \notin {"GET", "HEAD"})
Decimal(n) == CHOOSE v \in DOMAIN Numbers : Numbers[v] = n
Line(k, v) == [key |-> k, val |-> v]
WriteHeader(w) ==
    (IF w.close THEN <<Line("Connection", <<"close">>)>> ELSE <<>>)
    \o (IF shouldSendContentLength(w) THEN <<Line("Content-Length", Decimal(w.len))>>
        ELSE IF chunked(w.te) THEN <<Line("Transfer-Encoding", <<"chunked">>)>> ELSE <<>>)

\* The other fields, in the order of their names, without those that the
\* writer of the body has set.
WriteSubset(h) ==
    LET keys == SetToSeq(DOMAIN h \ {"Host", "Content-Length", "Transfer-Encoding", "Trailer"})
    IN  FlattenSeq([i \in DOMAIN keys |-> [j \in DOMAIN h[keys[i]] |-> Line(keys[i], h[keys[i]][j])]])

RECURSIVE chunkedWriter(_)
chunkedWriter(data) ==
    IF data = <<>> THEN <<"0:">>
    ELSE LET n == IF Len(data) < CopySize THEN Len(data) ELSE CopySize
         IN  <<CHOOSE s \in DOMAIN ChunkSize : ChunkSize[s] = n>> \o SubSeq(data, 1, n) \o <<"crlf">>
             \o chunkedWriter(SubSeq(data, n + 1, Len(data)))

\* A body whose length is not the announced one is an error.
WriteBody(w, data) ==
    [ok |-> w.head \/ w.len = -1 \/ w.len = Len(IF w.body THEN data ELSE <<>>),
     wire |-> CASE ~w.body -> IF chunked(w.te) THEN <<"crlf">> ELSE <<>>
                [] w.body /\ chunked(w.te) -> chunkedWriter(data) \o <<"crlf">>
                [] OTHER -> IF w.len = -1 THEN data
                            ELSE SubSeq(data, 1, IF w.len < Len(data) THEN w.len ELSE Len(data))]

\* The request for the backend is always HTTP/1.1.
WriteRequest(r) ==
    LET w == newTransferWriter(FALSE, r, 1)
        b == WriteBody(w, r.data)
    IN  [ok |-> b.ok, method |-> r.method, line |-> <<"m", "u", "p">>, proto |-> "HTTP/1.1", urlHost |-> <<>>,
         lines |-> <<Line("Host", r.host)>> \o WriteHeader(w) \o WriteSubset(r.t.header), wire |-> b.wire]

-----------------------------------------------------------------------------
(* Cookies.  A value is a sequence of bytes: "a", "q" the quote, "," and    *)
(* " " which only some places allow.                                       *)

unquoteCookieValue(v) == IF Len(v) > 1 /\ v[1] = "q" /\ Last(v) = "q" THEN SubSeq(v, 2, Len(v) - 1) ELSE v
CookieBytes == {"a"}
parseCookieValueUsing(v, valid) ==
    LET u == unquoteCookieValue(v)
    IN  [ok |-> Range(u) \subseteq valid, v |-> u]
parseCookieValue(v) == IF DisableSanitize THEN [ok |-> TRUE, v |-> v] ELSE parseCookieValueUsing(v, CookieBytes)
sanitize(v, valid) == SelectSeq(v, LAMBDA b : b \in valid)
sanitizeCookieValue(v) == IF DisableSanitize THEN v ELSE sanitize(v, CookieBytes)

\* The cookies of a request: those with a bad name or value are left out, and of
\* two with the same name the first counts.
readCookies(parts) ==
    LET good == SelectSeq(parts, LAMBDA c : c.name # "bad" /\ parseCookieValue(c.value).ok)
    IN  [i \in DOMAIN good |-> [good[i] EXCEPT !.value = parseCookieValue(@).v]]
CookieMapGet(cookies) ==
    [n \in {cookies[i].name : i \in DOMAIN cookies} |->
        cookies[SelectInSeq(cookies, LAMBDA c : c.name = n)].value]

NoAttrs == [path |-> <<>>, domain |-> "", maxAge |-> 0, expires |-> "", secure |-> FALSE, httpOnly |-> FALSE,
            sameSite |-> "", unparsed |-> <<>>]
\* One attribute of a Set-Cookie; what cannot be read is kept aside.
SetAttr(c, a) ==
    LET v == IF a.k = "expires" THEN parseCookieValueUsing(a.v, CookieBytes \cup {",", " "}) ELSE parseCookieValue(a.v)
        aside == [c EXCEPT !.unparsed = Append(@, a)]
    IN  CASE ~v.ok -> aside
          [] v.ok /\ a.k = "secure" -> [c EXCEPT !.secure = TRUE]
          [] v.ok /\ a.k = "httponly" -> [c EXCEPT !.httpOnly = TRUE]
          [] v.ok /\ a.k = "path" -> [c EXCEPT !.path = v.v]
          [] v.ok /\ a.k = "domain" -> [c EXCEPT !.domain = a.w]
          [] v.ok /\ a.k = "samesite" ->
                [c EXCEPT !.sameSite = IF a.w \in {"Lax", "Strict", "None"} THEN a.w ELSE "Default"]
          [] v.ok /\ a.k = "max-age" ->
                IF a.n < -1 THEN aside ELSE [c EXCEPT !.maxAge = IF a.n <= 0 THEN -1 ELSE a.n]
          [] v.ok /\ a.k = "expires" -> IF a.w = "bad" THEN aside ELSE [c EXCEPT !.expires = a.w]
          [] OTHER -> aside
readSetCookies(line) ==
    LET v == parseCookieValue(line.value)
    IN  IF line.name = "bad" \/ ~v.ok THEN <<>>
        ELSE <<[name |-> line.name, value |-> v.v,
                attrs |-> FoldLeft(SetAttr, NoAttrs, line.attrs)]>>

Attr(k, v, w, n) == [k |-> k, v |-> v, w |-> w, n |-> n]
validCookieDomain(d) == d \notin {"", "bad"}
isCookieDomainName(d) == IF d = ".x" THEN "x" ELSE d
\* The cookie as a Set-Cookie says it: a domain that is none is left out, and
\* loses its leading dot.
CookieString(c) ==
    LET a == c.attrs
        put(cond, at) == IF cond THEN <<at>> ELSE <<>>
    IN  [name |-> c.name, value |-> sanitizeCookieValue(c.value),
         attrs |-> put(a.path # <<>>, Attr("path", sanitize(a.path, {"a", ",", " ", "q"}), "", 0))
                   \o put(validCookieDomain(a.domain), Attr("domain", <<>>, isCookieDomainName(a.domain), 0))
                   \o put(a.expires \notin {"", "1600"}, Attr("expires", <<",", " ">>, a.expires, 0))
                   \o put(a.maxAge # 0, Attr("max-age", <<>>, "", IF a.maxAge < 0 THEN 0 ELSE a.maxAge))
                   \o put(a.httpOnly, Attr("httponly", <<>>, "", 0))
                   \o put(a.secure, Attr("secure", <<>>, "", 0))
                   \o put(a.sameSite # "", Attr("samesite", <<>>, IF a.sameSite = "Default" THEN "" ELSE a.sameSite, 0))]

-----------------------------------------------------------------------------
(* What is checked.                                                        *)

\* A response as a server sends it: with its length, in chunks, or up to the
\* end of the connection.
Sent(q) ==
    LET bodyless == q.method = "HEAD" \/ ~bodyAllowedForStatus(q.status)
        n == Decimal(Len(q.data))
        body == CASE bodyless -> <<>>
                  [] ~bodyless /\ q.how = "chunks" -> chunkedWriter(q.data) \o <<"crlf">>
                  [] OTHER -> q.data
    IN  [method |-> q.method, status |-> q.status, proto |-> q.proto, line |-> <<"p", "s">>,
         lines |-> CASE q.how = "length" -> <<Line("content-length", n)>>
                     [] q.how = "twice" -> <<Line("Content-Length", n), Line("Content-Length", n)>>
                     [] q.how = "chunks" -> <<Line("Transfer-Encoding", <<"chunked">>), Line("Content-Length", <<"1">>)>>
                     [] OTHER -> <<Line("Connection", <<"close">>)>>,
         wire |-> body \o (IF q.how = "close" /\ ~bodyless THEN <<>> ELSE <<"next">>)]

ClLists == {<<>>, <<Line("content-length", <<"1">>)>>, <<Line("Content-Length", <<"2">>)>>, <<Line("Content-Length", <<"0">>)>>,
            <<Line("Content-Length", <<"x">>)>>, <<Line("Content-Length", <<"1">>), Line("content-length", <<"1">>)>>,
            <<Line("Content-Length", <<"1">>), Line("Content-Length", <<"2">>)>>,
            <<Line("Content-Length", <<"1">>), Line("more", <<"2">>)>>, <<Line("junk", <<>>)>>}
TeLists == {<<>>} \cup {<<Line("transfer-encoding", v)>> : v \in
                {<<"chunked">>, <<"identity">>, <<"gzip">>, <<"chunked", ",", "chunked">>, <<"chunked", ",", "identity">>}}
Wires == {<<>>, <<"a">>, <<"a", "b">>, <<"0:", "crlf">>, <<"1:", "a", "crlf", "0:", "crlf">>,
          <<"1:", "a", "crlf", "2:", "b", "a", "crlf", "0:", "T", "crlf">>, <<"2:", "a", "b", "crlf", "0:", "T", "T", "crlf">>,
          <<"1:", "a", "crlf">>, <<"2:", "a", "crlf">>, <<"1:", "a", "b">>}
HttpMessageInputs ==
    {[of |-> "message", method |-> m, line |-> <<"m", "u", "p">>, proto |-> p, urlHost |-> u,
      lines |-> cl \o te \o tr \o <<Line("host", <<"h">>), Line("Pragma", <<"no-cache">>)>>, wire |-> w \o <<"next">>] :
        m \in {"GET", "POST", "HEAD"}, p \in {"HTTP/1.1", "HTTP/1.0", "bad"}, u \in {<<>>, <<"k">>}, cl \in ClLists,
        te \in TeLists, tr \in {<<>>, <<Line("Trailer", <<"T">>)>>, <<Line("Trailer", <<"Trailer">>)>>}, w \in Wires}
    \cup {[of |-> "answer", method |-> m, status |-> s, proto |-> p, how |-> how, data |-> d] :
        m \in {"GET", "POST", "HEAD"}, s \in {100, 200, 204, 304, 500}, p \in {"HTTP/1.1", "HTTP/1.0"},
        how \in {"length", "twice", "chunks", "close"}, d \in {<<>>, <<"a">>, <<"a", "b">>}}
    \cup {[of |-> "cookie", name |-> n, value |-> v, attrs |-> a \o b] :
        n \in {"n", "bad"}, v \in {<<"a">>, <<"q", "a", "q">>, <<"a", ",">>},
        a \in {<<>>} \cup {<<Attr("path", p, "", 0)>> : p \in {<<"a">>, <<",">>}}
              \cup {<<Attr("domain", <<>>, d, 0)>> : d \in {"x", ".x", "bad"}} \cup {<<Attr("max-age", <<>>, "", k)>> : k \in -2..2},
        b \in {<<>>, <<Attr("secure", <<>>, "", 0)>>, <<Attr("httponly", <<>>, "", 0)>>, <<Attr("other", <<>>, "", 0)>>}
              \cup {<<Attr("samesite", <<>>, w, 0)>> : w \in {"", "Lax", "odd"}}
              \cup {<<Attr("expires", <<",", " ">>, w, 0)>> : w \in {"2030", "bad", "1600"}}}

SameRequest(r, w, again) == w.ok /\ again.ok /\ again.data = r.data /\ again.rest = <<"next">> /\ again.host = r.host
ReadAgain(r, w) == SameRequest(r, w, ReadRequest([w EXCEPT !.wire = @ \o <<"next">>]))
RequestInSync(q, r) == r.ok /\ ~(q.method = "HEAD" /\ chunked(r.t.te)) => ReadAgain(r, WriteRequest(r))
ResponseInSync(q, r) ==
    LET bodyless == q.method = "HEAD" \/ ~bodyAllowedForStatus(q.status)
    IN  /\ r.ok /\ r.data = IF bodyless THEN <<>> ELSE q.data
        /\ r.rest = IF q.how = "close" /\ ~bodyless THEN <<>> ELSE <<"next">>
        /\ q.how = "close" => r.t.close
CookieInSync(c, sent) ==
    /\ CookieMapGet(readCookies(<<[name |-> c.name, value |-> sent.value], [name |-> c.name, value |-> <<"a", "a">>]>>))[c.name] = c.value
    /\ readSetCookies(sent) = <<[c EXCEPT !.attrs.unparsed = <<>>,
                                  !.attrs.domain = IF @ = "bad" THEN "" ELSE isCookieDomainName(@),
                                  !.attrs.expires = IF @ = "1600" THEN "" ELSE @]>>

(* A request that is read, changed for the backend and written again is    *)
(* read by the backend with the same body, and the next message starts     *)
(* where this one ends; so does the one behind a response, whatever framed *)
(* its body; and a cookie that was read and written again is the same      *)
(* cookie (ReadRequest, Request.write, ReadResponse, Cookie.String).  Left *)
(* out: a HEAD request in chunks, whose body is never read, and a 1xx, 204 *)
(* or 304 that names the chunked coding, whose body is awaited.            *)
MessageInSync ==
    /\ Given("message") => RequestInSync(input, ReadRequest(input))
    /\ Given("answer") => (bodyAllowedForStatus(input.status) \/ input.how # "chunks" => ResponseInSync(input, ReadResponse(Sent(input))))
    /\ Given("cookie") => \A c \in Range(readSetCookies(input)) : CookieInSync(c, CookieString(c))

-----------------------------------------------------------------------------
(* The response to the client: the handler's header and writes go through   *)
(* a buffer to the chunk writer, which decides on the first write, or when  *)
(* the handler is done, between Content-Length, chunks and the end of the   *)
(* connection.                                                              *)

\* WriteHeader with the header of the handler: a length that does not parse is
\* dropped, and a shutdown adds close for an HTTP/1.1 client.
ResponseWriteHeader(q, h) ==
    [cl |-> IF h.cl \in Nat THEN h.cl ELSE -1,
     te |-> h.te,
     close |-> h.conn = "close" \/ (q.shutdown /\ q.proto = 11),
     kept |-> h.conn = "keep-alive" /\ ~(q.shutdown /\ q.proto = 11)]

bodyAllowed(status) == status # 304

\* What the writes of the handler bring to the chunk writer: the sizes that
\* leave the buffer while the handler runs, and what is left when it is done.
\* A write beyond the declared length is refused as a whole; a flush empties
\* the buffer, even one that is empty.
write(st, op, cl, allowed) ==
    IF op = -1 THEN [st EXCEPT !.out = Append(@, st.buf), !.buf = 0]
    ELSE CASE op = 0 \/ ~allowed -> st
           [] op > 0 /\ allowed /\ cl # -1 /\ st.n + op > cl -> [st EXCEPT !.n = @ + op]
           [] op > 0 /\ allowed /\ st.buf + op <= BufSize -> [st EXCEPT !.n = @ + op, !.buf = @ + op]
           [] OTHER -> [st EXCEPT !.n = @ + op, !.out = Append(@, IF st.buf = 0 THEN op ELSE BufSize),
                                  !.buf = IF st.buf = 0 THEN 0 ELSE @ + op - BufSize]
Writes(q) == FoldLeft(LAMBDA st, op : write(st, op, ResponseWriteHeader(q, q.h).cl, bodyAllowed(q.status)),
                      [out |-> <<>>, buf |-> 0, n |-> 0], q.ops)

WantsHttp10KeepAlive(q) == q.proto = 10 /\ q.conn = "keep-alive"
WantsClose(q) == q.conn = "close"

\* closeAfterReply, before the body of the request is looked at.
MustClose(q, hd, cl) ==
    LET asked == WantsHttp10KeepAlive(q) /\ (q.method = "HEAD" \/ cl # -1)
    IN  \/ ~asked /\ (q.proto = 10 \/ WantsClose(q))
        \/ hd.close \/ ~q.keepAlives
        \/ q.expect /\ q.body > 0

\* The rest of a request's body is read, up to a bound, so that the next
\* request can be found after it; beyond the bound the connection is closed.
Drained(q, closing) ==
    IF closing \/ q.expect \/ q.body = 0 THEN [close |-> closing, left |-> q.body]
    ELSE LET n == IF q.body > MaxPostRead THEN MaxPostRead + 1 ELSE q.body
         IN  [close |-> n >= MaxPostRead, left |-> q.body - n]

\* writeHeader of the chunk writer, with the bytes p it is called for.
\* cl is the length it knows, bare that the length cannot be said, open that a
\* body may follow, d what is done with the request's body.
LengthOf(q, hd, p, done) == IF done /\ q.status # 304 /\ hd.cl = -1 /\ (q.method # "HEAD" \/ p > 0) THEN p ELSE hd.cl
Silent(q) == q.method = "HEAD" \/ q.status = 304
HeaderOf(q, cl, bare, open, d) ==
    [close |-> d.close \/ (open /\ bare /\ q.proto = 10), left |-> d.left, cl |-> cl,
     chunking |-> open /\ bare /\ q.proto = 11,
     said |-> IF (open /\ bare /\ q.proto = 11) \/ q.status = 304 \/ (cl # -1 /\ bare) THEN -1 ELSE cl]
HeaderFor(q, hd, cl) ==
    HeaderOf(q, cl, cl = -1 \/ hd.te \notin {"none", "identity"}, ~Silent(q) /\ q.status # 204, Drained(q, MustClose(q, hd, cl)))
BadWriteHeader(q, hd, p, done) ==
    [HeaderFor(q, hd, LengthOf(q, hd, p, done)) EXCEPT !.said = LengthOf(q, hd, p, done)]
writeHeader(q, hd, p, done) == HeaderFor(q, hd, LengthOf(q, hd, p, done))

\* The response on the wire: what the header says and the sizes written after
\* it, of which HEAD has none; and finishRequest, which closes a connection
\* whose response was not of the declared length.
Sizes(q, w) ==
    IF q.method = "HEAD" THEN <<>> ELSE SelectSeq(IF w.buf > 0 THEN Append(w.out, w.buf) ELSE w.out, LAMBDA n : n > 0)
finishRequest(q, w, head, cl) ==
    [said |-> head.said, chunked |-> head.chunking, left |-> head.left, sizes |-> Sizes(q, w),
     close |-> head.close \/ (q.method # "HEAD" /\ cl # -1 /\ bodyAllowed(q.status) /\ cl # w.n)]
Finished(q, w, head) == finishRequest(q, w, head, head.cl)
Response(q, hd, w) ==
    IF w.out # <<>> THEN finishRequest(q, w, writeHeader(q, hd, w.out[1], FALSE), hd.cl)
    ELSE Finished(q, w, writeHeader(q, hd, w.buf, TRUE))

-----------------------------------------------------------------------------
(* The expectation of 100 Continue: the reader of the body and the writer of *)
(* the response, each a step of its own, in any order.                       *)

\* tryWriteContinue asks and then sends, under the lock; write forbids it.
tryWriteContinue(s) == IF s.can THEN [s EXCEPT !.wire = Append(@, "100"), !.can = FALSE] ELSE s
Answered(s) == [s EXCEPT !.can = FALSE, !.wire = Append(@, "final")]
Continued(order) ==
    FoldLeft(LAMBDA s, who : IF who = "read" THEN tryWriteContinue(s) ELSE Answered(s),
             [can |-> TRUE, wire |-> <<>>], order)

-----------------------------------------------------------------------------
ResponseHeaders ==
    [cl : {-1, 0, 2, 3}, te : {"none", "chunked", "identity"}, conn : {"none", "close", "keep-alive"}]
ResponseOps == {<<>>, <<1>>, <<2>>, <<3>>, <<1, 2>>, <<-1>>, <<-1, 2>>, <<1, -1, 1>>, <<2, 3>>}
HttpResponseInputs ==
    [of : {"response"}, method : {"GET", "HEAD"}, proto : {10, 11}, conn : {"none", "close", "keep-alive"}, status : {200, 304},
     h : ResponseHeaders, ops : ResponseOps, shutdown : BOOLEAN, keepAlives : {TRUE}, expect : BOOLEAN, body : {0, 1, MaxPostRead + 2}]
    \cup [of : {"continue"}, order : UNION {[1..n -> {"read", "write"}] : n \in 0..3}]

FramedAs(q, r) ==
    /\ ~(r.chunked /\ r.said # -1)
    /\ r.chunked => q.proto = 11 /\ ~Silent(q)
    /\ r.said # -1 /\ ~r.close /\ ~Silent(q) => FoldLeft(+, 0, r.sizes) = r.said
    /\ r.sizes # <<>> => ~Silent(q) /\ (r.chunked \/ r.said # -1 \/ r.close)
    /\ ~r.close => r.left = 0
InTurn(wire) == \A i, j \in DOMAIN wire : wire[i] = "100" /\ wire[j] = "final" => i < j

\* A client that keeps the connection can tell where the response ends and the
\* next one begins, and the server where the next request begins: the response
\* says its length or is chunked, never both, the bytes that follow are as many
\* as it says, an HTTP/1.0 client never gets chunks, and the request's body has
\* been consumed.  A 100 Continue never follows the response it precedes.
ResponseFramed ==
    /\ Given("response") => FramedAs(input, Response(input, ResponseWriteHeader(input, input.h), Writes(input)))
    /\ Given("continue") => InTurn(Continued(input.order).wire)
=============================================================================
