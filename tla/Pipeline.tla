------------------------------ MODULE Pipeline -------------------------------
(***************************************************************************)
(* The life of a request inside the proxy: the callback points and the     *)
(* handlers of the modules at each, the lookups between them, the attempts *)
(* of the AI gateway, the response, and what has to be released at the     *)
(* end.  Pure: what a request meets is the input.                          *)
(***************************************************************************)
EXTENDS Integers, Sequences, SequencesExt, FiniteSets, Sample

CONSTANT DrawRange     \* the draws of SelectTarget, 100 in the code

-----------------------------------------------------------------------------
(* The module framework.                                                   *)

Points == {"Accept", "Handshake", "BeforeLocation", "FoundProduct", "AfterLocation", "AfterAITargetModel",
           "Forward", "ReadResponse", "RequestFinish", "Finish"}
HandlerTypes == {"accept", "request", "forward", "response", "finish"}

\* The type of the handlers at each callback point.
NewBfeCallbacks ==
    [p \in Points |->
        IF p \in {"Accept", "Handshake"} THEN "accept"
        ELSE IF p = "Forward" THEN "forward"
        ELSE IF p \in {"ReadResponse", "RequestFinish"} THEN "response"
        ELSE IF p = "Finish" THEN "finish" ELSE "request"]

\* A handler is added at the end of the list of its point; one of another type
\* than the point's is refused.
AddFilter(cbs, point, f) ==
    IF point \notin Points \/ f.type # NewBfeCallbacks[point] THEN [cbs |-> cbs, ok |-> FALSE]
    ELSE [cbs |-> [cbs EXCEPT ![point] = Append(@, f)], ok |-> TRUE]

\* The modules named in the configuration, initialised in the order in which
\* they are built in; the first that fails ends the start-up.
RegisterModule(all, names) == [ok |-> Range(names) \subseteq Range(all), work |-> Range(names) \cap Range(all)]
InitModules(all, work, filters, fails) ==
    LET run == SelectSeq(all, LAMBDA n : n \in work)
        done == SelectInSeq(run, LAMBDA n : n \in fails)
        inited == IF done = 0 THEN run ELSE SubSeq(run, 1, done - 1)
    IN  [ok |-> done = 0, enabled |-> inited,
         cbs |-> FoldLeft(LAMBDA cbs, n : AddFilter(cbs, filters[n].point, filters[n]).cbs,
                          [p \in Points |-> <<>>], inited)]

\* The handlers of a list run until one does not say GoOn; the verdict is its.
BadFilterRequest(hs) == [verdict |-> IF hs = <<>> THEN "goon" ELSE Last(hs), called |-> Len(hs)]
FilterRequest(hs) ==
    LET i == SelectInSeq(hs, LAMBDA v : v # "goon")
    IN  [verdict |-> IF i = 0 THEN "goon" ELSE hs[i], called |-> IF i = 0 THEN Len(hs) ELSE i]
FilterResponse(hs) == FilterRequest(hs)
FilterAccept(hs) == FilterRequest(hs)
FilterForward(hs) == FilterRequest(hs)
FilterFinish(hs) == FilterRequest(hs)

-----------------------------------------------------------------------------
(* One request.                                                            *)

\* r: where the request is ("go", "got" the response, "send", "end"), the
\* action for the connection, the response in hand and what was done.
Start == [at |-> "go", action |-> "keepAlive", res |-> "none", answers |-> 0, status |-> 0, open |-> {},
          epp |-> "none", conns |-> 0, ran |-> {}, timer |-> "none", closed |-> FALSE,
          tries |-> 0, whole |-> TRUE]

\* The verdict of the handlers of a point before the request is forwarded.
Ran(r, point, f) == [r EXCEPT !.ran = @ \cup {<<point, k>> : k \in 1..f.called}]
Decided(r, verdict, given) ==
    CASE verdict = "close" -> [r EXCEPT !.at = "end", !.action = "closeDirectly", !.res = "none"]
      [] verdict = "finish" -> [r EXCEPT !.at = "send", !.action = "closeAfterReply", !.status = 500, !.res = given]
      [] verdict = "redirect" -> [r EXCEPT !.at = "send", !.answers = 1, !.res = "redirect"]
      [] verdict = "response" -> [r EXCEPT !.at = "got", !.res = "module"]
      [] OTHER -> [r EXCEPT !.res = "none"]
PointDone(r, point, f, given) == Decided(Ran(r, point, f), f.verdict, given)
RequestPoint(r, point, hs, given) == IF r.at # "go" THEN r ELSE PointDone(r, point, FilterRequest(hs), given)

\* A lookup that fails is answered with an error of the gateway.
Lookup(r, found, action) ==
    IF r.at # "go" \/ found THEN r ELSE [r EXCEPT !.at = "got", !.res = "error", !.action = action]

\* Which timeouts hold for the client once the cluster is known; a stream of
\* events has none.
setTimeout(r, q, stage) ==
    IF r.at = "end" THEN r
    ELSE [r EXCEPT !.timer = CASE stage = "EndRequest" -> "again"
                               [] stage = "ReadReqBody" -> IF q.sse THEN "none" ELSE "read"
                               [] OTHER -> IF q.sse \/ (r.res = "backend" /\ q.resSse) THEN "none" ELSE "write"]

\* clusterInvoke as the caller sees it: a backend is held when it ends, its
\* response is open, and the EPP stream of the choice may still be.
Invoke(r, i) ==
    IF r.at # "go" THEN r
    ELSE [r EXCEPT !.conns = IF i.out = "nobackend" THEN 0 ELSE 1,
                   !.epp = IF i.epp THEN "open" ELSE "none",
                   !.action = IF i.out = "abort" THEN "closeDirectly" ELSE @,
                   !.res = IF i.out = "ok" THEN "backend" ELSE "none",
                   !.open = IF i.out = "ok" THEN {"backend"} ELSE {}]

\* No response: the EPP stream is closed and the gateway answers for itself.
Failed(r, status) ==
    IF r.at # "go" \/ r.res # "none" THEN r
    ELSE [r EXCEPT !.at = "got", !.res = "error", !.status = status,
                   !.epp = IF @ = "open" THEN "closed" ELSE @]

\* What the read-response handlers decide.
Replaced(r, verdict) ==
    CASE verdict = "finish" -> [r EXCEPT !.at = "send", !.action = "closeAfterReply", !.status = 500]
      [] verdict = "redirect" -> [r EXCEPT !.at = "send", !.answers = 1, !.res = "redirect"]
      [] OTHER -> [r EXCEPT !.at = "send"]
ReadDone(r, f) == Replaced(Ran(r, "ReadResponse", f), f.verdict)

\* response_got: an EPP stream that is still open is handed to the body of the
\* response and ends with it; the read-response handlers may replace the
\* answer; then the response is sent and, at the end, closed.
Got(r, q) ==
    IF r.at \in {"send", "end"} THEN r
    ELSE ReadDone(setTimeout([r EXCEPT !.epp = IF @ = "open" THEN "body" ELSE @, !.closed = TRUE], q, "WriteClient"),
                  FilterResponse(q.read))

\* sendResponse copies the header and the body and closes the body, also when
\* the client is gone; a connection that is not multiplexed is then given up.
sendResponse(r, q) ==
    IF r.at # "send" THEN r
    ELSE IF r.res \in {"redirect", "none"} THEN [r EXCEPT !.at = "end"]
    ELSE [r EXCEPT !.at = "end", !.answers = @ + 1, !.whole = r.res # "backend" \/ r.open # {}, !.open = {},
                   !.epp = IF @ = "body" THEN "closed" ELSE @,
                   !.action = IF q.sendErr /\ ~q.multiplex THEN "closeAfterReply" ELSE @]

\* The deferred calls of ServeHTTP, for a request that got as far as a response.
Deferred(r, q) ==
    IF ~r.closed THEN r
    ELSE setTimeout([r EXCEPT !.open = {}, !.epp = IF @ = "body" THEN "closed" ELSE @, !.at = "done"], q, "EndRequest")

\* FinishReq: the handlers of the last point run for every request, and the
\* backend in hand is given back.
GivenBack(r, verdict) ==
    [r EXCEPT !.conns = 0, !.action = IF verdict = "finish" /\ @ = "keepAlive" THEN "closeAfterReply" ELSE @]
FinishDone(r, f) == GivenBack(Ran(r, "RequestFinish", f), f.verdict)
FinishReq(r, q) == FinishDone(r, FilterResponse(q.finish))

ReadTimed(r, q) == IF r.at = "go" THEN setTimeout(r, q, "ReadReqBody") ELSE r
ServeHTTP(q) ==
    LET before == RequestPoint(Start, "BeforeLocation", q.before, q.given)
        product == Lookup(before, q.product, "closeAfterReply")
        found == RequestPoint(product, "FoundProduct", q.found, q.given)
        location == Lookup(Lookup(found, q.location, "closeAfterReply"), q.cluster, "closeAfterReply")
        after == RequestPoint(ReadTimed(location, q), "AfterLocation", q.after, q.given)
        invoked == Failed(Invoke(after, q.invokes[1]), 500)
    IN  Deferred(sendResponse(Got(invoked, q), q), q)

\* The attempts of the AI gateway: the target and then the fallbacks, while the
\* answer calls for another and the body of the request can be sent again; the
\* response of an attempt that is given up is closed and its backend released.
\* An answer of 400 and more is kept when it is the last.
Attempt(r, q, i) ==
    LET a == q.invokes[i]
        more == i = 1 \/ (LET p == q.invokes[i - 1] IN p.out # "ok" /\ ~p.limited /\ (p.out = "refused" => p.fallback))
    IN  CASE r.at # "go" \/ r.tries # i - 1 \/ ~more \/ (i > 1 /\ (q.passthrough \/ q.rewinds = "no")) -> r
          [] OTHER ->
                LET given == IF i = 1 THEN r ELSE [r EXCEPT !.conns = 0, !.open = {}]
                IN  IF i > 1 /\ q.rewinds = "late" THEN given
                    ELSE [Invoke(given, [a EXCEPT !.out = IF @ = "refused" THEN "ok" ELSE @]) EXCEPT !.tries = i]
ServeHTTPForAI(q) ==
    LET before == RequestPoint(Start, "BeforeLocation", q.before, q.given)
        product == Lookup(before, q.product, "keepAlive")
        found == RequestPoint(product, "FoundProduct", q.found, q.given)
        route == Lookup(found, q.location, "keepAlive")
        after == RequestPoint(route, "AfterLocation", q.after, q.given)
        tried == FoldLeft(LAMBDA r, i : Attempt(r, q, i), after, [i \in 1..Len(q.invokes) |-> i])
    IN  Deferred(sendResponse(Got(Failed(tried, 502), q), q), q)

\* serveRequest of the connection: the request, its end, and what it means for
\* the connection.
Ended(r) == [r EXCEPT !.at = IF r.action = "keepAlive" THEN "next" ELSE "close"]
serveRequest(q) == Ended(FinishReq(IF q.ai THEN ServeHTTPForAI(q) ELSE ServeHTTP(q), q))

-----------------------------------------------------------------------------
(* The client's address, the redirect and the request for the backend.     *)

\* A trusted peer may say whose request it forwards, in the header of its own
\* or in the first entry of X-Forwarded-For; anyone else is the client.
setClientAddr(q) ==
    IF ~q.trusted THEN [ip |-> q.remote, port |-> 0]
    ELSE LET own == q.realIp # "none"
             ip == IF own THEN q.realIp ELSE q.forwarded
             port == IF own THEN q.realPort ELSE q.forwardedPort
         IN  IF ip \in {"none", "junk"} THEN [ip |-> "none", port |-> 0]
             ELSE [ip |-> ip, port |-> IF port \in Nat THEN port ELSE 0]

HopHeaders == {"Connection", "Keep-Alive", "Proxy-Authenticate", "Proxy-Authorization", "Te", "Trailers",
               "Transfer-Encoding", "Upgrade"}
\* The header for the backend is a copy when a field has to go, so that the
\* request of the client keeps its own.
hopByHopHeaderRemove(h) ==
    LET gone == {k \in HopHeaders \cap DOMAIN h : ~(k = "Te" /\ h[k] = "trailers")}
    IN  [k \in DOMAIN h \ gone |-> h[k]]

\* A relative redirect is resolved against the directory of the request.
Redirect(path, url) ==
    LET dir == SubSeq(path, 1, CHOOSE n \in 0..Len(path) :
                        (n = 0 \/ path[n] = "/") /\ \A k \in (n + 1)..Len(path) : path[k] # "/")
    IN  IF url # <<>> /\ url[1] \in {"/", "http:"} THEN url ELSE (IF path = <<>> THEN <<"/">> ELSE dir) \o url

\* The path the provider of the cluster expects: its base before an endpoint of
\* the protocol; anything else goes through as it came.
rewriteUpstreamPath(path, style, base) ==
    CASE base = "none" -> path
      [] base # "none" /\ style = "anthropic" -> IF path[1] = "v1" THEN <<base>> \o path ELSE path
      [] OTHER -> LET rest == IF path[1] = "v1" THEN Tail(path) ELSE path
                  IN  IF path = <<"v1">> THEN <<base>>
                      ELSE IF rest[1] \in {"chat", "embeddings"} THEN <<base>> \o rest ELSE path

\* The weighted choice of a target, for the draw n.
SelectTarget(weights, n) ==
    IF Len(weights) = 1 THEN 1
    ELSE LET upTo(k) == FoldLeft(+, 0, SubSeq(weights, 1, k))
             hit == {k \in DOMAIN weights : n < upTo(k)}
         IN  IF hit = {} THEN Len(weights) ELSE CHOOSE k \in hit : \A j \in hit : k <= j

\* The model the provider is asked for.
computeTargetModel(client, attempt, conf) ==
    LET wanted == IF attempt # <<>> THEN attempt ELSE client
        bare == IF conf.strip /\ Len(wanted) > 1 /\ wanted[1] = conf.prefix THEN Tail(wanted) ELSE wanted
    IN  IF bare \in DOMAIN conf.mapping THEN conf.mapping[bare] ELSE bare

\* Whether the body's model is rewritten: not for files and batches, and not
\* in a body that says it is something else than JSON.
shouldRewriteBodyModel(mode, ctype, target, body) ==
    target # <<>> /\ target # body /\ mode \notin {"file", "batch"} /\ ctype \in {"none", "invalid", "json", "+json"}
-----------------------------------------------------------------------------
Verdicts == {"finish", "redirect", "response", "close"}
HandlerLists == {<<>>} \cup {<<v, "goon">> : v \in Verdicts} \cup {<<"goon", v, "redirect">> : v \in Verdicts \cup {"goon"}}
Invokes == [out : {"ok", "nobackend", "failed", "abort"}, epp : BOOLEAN, limited : {FALSE}, fallback : {FALSE}]
AiInvokes == [out : {"ok", "failed"}, epp : BOOLEAN, limited : {FALSE}, fallback : {FALSE}]
             \cup [out : {"refused"}, epp : {FALSE}, limited : BOOLEAN, fallback : BOOLEAN]
Quiet == [of |-> "request", before |-> <<"goon">>, found |-> <<>>, after |-> <<>>, read |-> <<>>, finish |-> <<>>, given |-> "none",
          product |-> TRUE, location |-> TRUE, cluster |-> TRUE, sse |-> FALSE, resSse |-> FALSE, multiplex |-> FALSE,
          sendErr |-> FALSE, ai |-> FALSE, passthrough |-> FALSE, rewinds |-> "yes",
          invokes |-> <<[out |-> "ok", epp |-> TRUE, limited |-> FALSE, fallback |-> FALSE]>>]
PipelineInputs ==
    \* the handlers of each point, for both entries
    UNION {{[Quiet EXCEPT !.before = h, !.given = g, !.ai = ai, !.finish = f], [Quiet EXCEPT !.found = h, !.given = g, !.ai = ai, !.finish = f],
            [Quiet EXCEPT !.after = h, !.given = g, !.ai = ai, !.finish = f], [Quiet EXCEPT !.read = h, !.ai = ai, !.finish = f]} :
                h \in HandlerLists, g \in {"none", "module"}, ai \in BOOLEAN, f \in {<<>>, <<"goon", "finish", "goon">>}}
    \* the lookups, the backend and the client
    \cup {[Quiet EXCEPT !.product = p, !.location = l, !.cluster = c, !.read = h, !.invokes = <<i>>, !.sse = s, !.sendErr = e, !.multiplex = x] :
            p \in BOOLEAN, l \in BOOLEAN, c \in BOOLEAN, h \in {<<>>, <<"redirect">>, <<"finish">>}, i \in Invokes,
            s \in BOOLEAN, e \in BOOLEAN, x \in BOOLEAN}
    \* the attempts of the AI gateway
    \cup {[Quiet EXCEPT !.ai = TRUE, !.invokes = is, !.passthrough = t, !.rewinds = w, !.read = h] :
            is \in UNION {[1..n -> AiInvokes] : n \in 1..3}, t \in BOOLEAN, w \in {"yes", "no", "late"}, h \in {<<>>, <<"redirect">>}}
    \cup {[of |-> "client", trusted |-> t, remote |-> "peer", realIp |-> a, realPort |-> b, forwarded |-> c, forwardedPort |-> d] :
            t \in BOOLEAN, a \in {"none", "junk", "ip1"}, b \in {-1, 7}, c \in {"none", "junk", "ip2"}, d \in {-1, 8}}
    \cup {[of |-> "hop", h |-> h] : h \in UNION {[K -> {"trailers", "other"}] : K \in SUBSET {"Te", "Upgrade", "Host"}}}
    \cup {[of |-> "redirect", path |-> p, url |-> u] : p \in {<<>>, <<"/">>, <<"/", "a">>, <<"/", "a", "/">>, <<"/", "a", "/", "b">>},
            u \in {<<>>, <<"c">>, <<"/", "c">>, <<"http:", "c">>}}
    \cup {[of |-> "target", weights |-> w] : w \in UNION {[1..n -> 0..DrawRange] : n \in 1..3}}
    \cup {[of |-> "path", path |-> p, style |-> s, base |-> b] :
            p \in {<<"v1">>, <<"v1", "chat">>, <<"v1", "other">>, <<"chat">>, <<"other">>}, s \in {"openai", "anthropic"}, b \in {"none", "base"}}
    \cup {[of |-> "model", client |-> c, attempt |-> a, mode |-> m, ctype |-> t, conf |-> [strip |-> s, prefix |-> "p", mapping |-> f]] :
            c \in {<<>>, <<"p">>, <<"p", "x">>, <<"x">>}, a \in {<<>>, <<"p", "y">>}, m \in {"chat", "file", "batch"},
            t \in {"none", "json", "text"}, s \in BOOLEAN, f \in {<<>>, <<"x">> :> <<"z">>}}
    \cup {[of |-> "modules", all |-> <<"m1", "m2", "m3">>, names |-> n, fails |-> f,
           filters |-> [m \in {"m1", "m2", "m3"} |-> [name |-> m, point |-> p, type |-> t]]] :
            n \in {<<"m3", "m1">>, <<"m2", "m3", "m1">>, <<"m4">>}, f \in SUBSET {"m2", "m3"}, p \in {"FoundProduct", "Forward"},
            t \in HandlerTypes}

Listed(q, p) == [BeforeLocation |-> q.before, FoundProduct |-> q.found, AfterLocation |-> q.after,
                 ReadResponse |-> q.read, RequestFinish |-> q.finish][p]
\* What a request took is given back: the backend's connection count, the body
\* of its response and the stream of the endpoint picker.
Released(r) == r.conns = 0 /\ r.open = {} /\ r.epp \in {"none", "closed"}
\* The client has one answer, whole unless a retry could not rewind the body
\* after the answer was closed; none only when a handler closed the connection
\* or ended the request without a response.
AnsweredOnce(q, r) ==
    /\ r.answers <= 1
    /\ r.answers = 0 => r.action # "keepAlive" /\ (q.given = "none" \/ r.action = "closeDirectly")
    /\ ~r.whole => q.rewinds = "late"
\* A handler runs only when every handler before it, at its point and at the
\* earlier points, let the request go on; the handlers of the end always run.
HandlersStop(q, r) ==
    LET order == <<"BeforeLocation", "FoundProduct", "AfterLocation">>
    IN  /\ \A h \in r.ran : \A k \in 1..(h[2] - 1) : Listed(q, h[1])[k] = "goon"
        /\ \A i, j \in DOMAIN order : i < j /\ (\E h \in r.ran : h[1] = order[j])
                => \A v \in Range(Listed(q, order[i])) : v = "goon"
        /\ q.finish # <<>> => <<"RequestFinish", 1>> \in r.ran
Accounted(q, r) == Released(r) /\ AnsweredOnce(q, r) /\ HandlersStop(q, r)

\* The life of a request in ServeHTTP and ServeHTTPForAI: what it took is
\* released on every path, it is answered once and no handler runs after the
\* one that decided; only a trusted peer speaks for another client, hop-by-hop
\* fields stay behind, targets are drawn in proportion to their weights, a
\* file or a batch keeps its body, and the handlers of a point run in the
\* order in which the modules are built in, whatever the configuration says.
RequestAccounted ==
    /\ Given("request") => Accounted(input, serveRequest(input))
    /\ Given("client") => (setClientAddr(input).ip # "peer" <=> input.trusted) /\ setClientAddr(input).ip # "junk"
    /\ Given("hop") => LET out == hopByHopHeaderRemove(input.h)
                       IN  /\ DOMAIN out \cap HopHeaders \subseteq {"Te"}
                           /\ "Host" \in DOMAIN input.h => "Host" \in DOMAIN out
    /\ Given("redirect") => LET u == Redirect(input.path, input.url) IN u # <<>> => u[1] \in {"/", "http:"}
    /\ Given("target") /\ FoldLeft(+, 0, input.weights) = DrawRange =>
        \A k \in DOMAIN input.weights :
            Cardinality({n \in 0..(DrawRange - 1) : SelectTarget(input.weights, n) = k}) = input.weights[k]
    /\ Given("path") => LET p == rewriteUpstreamPath(input.path, input.style, input.base)
                        IN  p = input.path \/ (p[1] = input.base /\ Cardinality({i \in DOMAIN p : p[i] = "v1"}) <= 1)
    /\ Given("model") => LET t == computeTargetModel(input.client, input.attempt, input.conf)
                         IN  shouldRewriteBodyModel(input.mode, input.ctype, t, input.client)
                                => input.mode = "chat" /\ input.ctype # "text" /\ t # <<>>
    /\ Given("modules") => LET m == InitModules(input.all, RegisterModule(input.all, input.names).work, input.filters, input.fails)
                           IN  \A p \in Points : \A i, j \in DOMAIN m.cbs[p] :
                                 i < j => IndexFirstSubSeq(<<m.cbs[p][i].name>>, input.all) < IndexFirstSubSeq(<<m.cbs[p][j].name>>, input.all)
=============================================================================
