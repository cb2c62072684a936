----------------------------- MODULE ContentRules -----------------------------
(***************************************************************************)
(* The modules that change a request or a response: mod_rewrite (with the  *)
(* actions of bfe_basic/action), mod_header, mod_redirect, mod_errors,     *)
(* mod_compress, mod_static, mod_markdown, mod_tag and mod_trace.  Pure.   *)
(* A condition is "yes", "no" or one that does not build.  A path is a     *)
(* sequence of characters, a query a sequence of pairs, headers a function *)
(* from names to sequences of values.                                      *)
(***************************************************************************)
EXTENDS Integers, Sequences, SequencesExt, FiniteSets, FiniteSetsExt, TLC, Sample

CONSTANTS MaxPage,         \* the largest page that mod_errors or mod_markdown takes
          FlushSize        \* what a compressing body reads at a time

Matches(cond) == cond = "yes"
Builds(cond) == cond \in {"yes", "no"}
\* The rules of a file are taken when every one of them is sound.
LoadRules(file, sound) ==
    [ok |-> file.whole /\ \A i \in DOMAIN file.rules : file.rules[i] \in sound /\ Builds(file.rules[i].cond),
     rules |-> file.rules]
\* The first rule that matches, 0 for none.
FirstOf(rs) == LET hits == {i \in DOMAIN rs : Matches(rs[i].cond)} IN IF hits = {} THEN 0 ELSE Min(hits)
\* Every rule that matches, up to the first one that is the last.
UpToLast(rs) ==
    LET ends == {i \in DOMAIN rs : Matches(rs[i].cond) /\ rs[i].last}
        upTo == IF ends = {} THEN Len(rs) ELSE Min(ends)
    IN  SelectSeq(SubSeq(rs, 1, upTo), LAMBDA r : Matches(r.cond))

-----------------------------------------------------------------------------
(* The actions on host, path and query.                                    *)

\* How many parameters a command takes, -1 for any number.
ParamsOf(cmd) ==
    CASE cmd \in {"CLOSE", "HOST_SET_FROM_PATH_PREFIX"} -> 0
      [] cmd \in {"REQ_HEADER_ADD", "QUERY_ADD", "QUERY_RENAME"} -> 2
      [] cmd \in {"QUERY_DEL", "QUERY_DEL_ALL_EXCEPT"} -> -1
      [] OTHER -> 1
\* HOST_SUFFIX_REPLACE is an action of mod_rewrite, but this check refuses it.
KnownActions ==
    {"CLOSE", "REQ_HEADER_ADD", "HOST_SET", "HOST_SET_FROM_PATH_PREFIX", "PATH_SET", "PATH_PREFIX_ADD",
     "PATH_PREFIX_TRIM", "QUERY_ADD", "QUERY_RENAME", "QUERY_DEL", "QUERY_DEL_ALL_EXCEPT"}
ActionFileCheck(a) ==
    /\ a.cmd \in KnownActions
    /\ ParamsOf(a.cmd) \in {-1, Len(a.params)}
    /\ \A i \in DOMAIN a.params : a.params[i] # <<>>
allowActions == (KnownActions \ {"CLOSE", "REQ_HEADER_ADD"}) \cup {"HOST_SUFFIX_REPLACE"}

HasPrefix(s, p) == Len(p) <= Len(s) /\ SubSeq(s, 1, Len(p)) = p
TrimPrefix(s, p) == IF HasPrefix(s, p) THEN SubSeq(s, Len(p) + 1, Len(s)) ELSE s
Rooted(path) == IF HasPrefix(path, <<"/">>) THEN path ELSE <<"/">> \o path
ReqPathSet(u, path) == [u EXCEPT !.path = path]
ReqPathPrefixAdd(u, prefix) == [u EXCEPT !.path = Rooted(prefix \o TrimPrefix(@, <<"/">>))]
ReqPathPrefixTrim(u, prefix) == [u EXCEPT !.path = Rooted(TrimPrefix(@, prefix))]
ReqHostSet(u, host) == [u EXCEPT !.host = host]
\* "/host/rest" becomes "/rest" of that host; "/host" alone is left.
ReqHostSetFromFirstPathSegment(u) ==
    LET slashes == {i \in DOMAIN u.path : u.path[i] = "/"}
        second == Min(slashes \ {Min(slashes)})
    IN  IF Cardinality(slashes) < 2 THEN u
        ELSE [u EXCEPT !.host = SubSeq(u.path, Min(slashes) + 1, second - 1), !.path = SubSeq(u.path, second, Len(u.path))]

\* The raw query and what was parsed of it change together.  Parsed, a query
\* is the bag of its pairs; in the raw one only "key=" is looked for.
Parsed(raw) == [k \in {raw[i].key : i \in DOMAIN raw} |-> SelectSeq(raw, LAMBDA p : p.key = k)]
ValuesOf(q, key) == IF key \in DOMAIN q THEN q[key] ELSE <<>>
Put(q, key, vs) == [k \in DOMAIN q \cup {key} |-> IF k = key THEN vs ELSE q[k]]
Drop(q, keys) == [k \in DOMAIN q \ keys |-> q[k]]
Pair(key, val) == [key |-> key, val |-> val, eq |-> TRUE]
ReqQueryAdd(u, key, val) ==
    LET old == ValuesOf(u.query, key)
        new == <<Pair(key, val)>>
    IN  [u EXCEPT !.raw = @ \o new,
                  !.query = Put(@, key, IF old = <<>> \/ old[1].val = <<>> THEN new ELSE old \o new)]
ReqQueryRename(u, from, to) ==
    LET renamed(p) == IF p.key = from /\ p.eq THEN [p EXCEPT !.key = to] ELSE p
    IN  IF from \notin DOMAIN u.query THEN u
        ELSE [u EXCEPT !.raw = [i \in DOMAIN @ |-> renamed(@[i])],
                       !.query = Put(Drop(@, {from}), to, [i \in DOMAIN @[from] |-> [@[from][i] EXCEPT !.key = to]])]
BadCut(raw, keys) ==
    LET hit == {i \in DOMAIN raw : raw[i].key \in keys /\ raw[i].eq}
    IN  IF hit = {} THEN raw ELSE RemoveAt(raw, Min(hit))
Cut(raw, keys) == SelectSeq(raw, LAMBDA p : ~(p.key \in keys /\ p.eq))
ReqQueryDel(u, keys) == [u EXCEPT !.raw = Cut(@, keys), !.query = Drop(@, keys)]
ReqQueryDelAllExcept(u, keys) ==
    LET gone == DOMAIN u.query \ keys IN [u EXCEPT !.raw = Cut(@, gone), !.query = Drop(@, gone)]

Do(u, a) ==
    CASE a.cmd = "HOST_SET" -> ReqHostSet(u, a.params[1])
      [] a.cmd = "HOST_SET_FROM_PATH_PREFIX" -> ReqHostSetFromFirstPathSegment(u)
      [] a.cmd = "PATH_SET" -> ReqPathSet(u, a.params[1])
      [] a.cmd = "PATH_PREFIX_ADD" -> ReqPathPrefixAdd(u, a.params[1])
      [] a.cmd = "PATH_PREFIX_TRIM" -> ReqPathPrefixTrim(u, a.params[1])
      [] a.cmd = "QUERY_ADD" -> ReqQueryAdd(u, a.params[1], a.params[2])
      [] a.cmd = "QUERY_RENAME" -> ReqQueryRename(u, a.params[1], a.params[2])
      [] a.cmd = "QUERY_DEL" -> ReqQueryDel(u, ToSet(a.params))
      [] a.cmd = "QUERY_DEL_ALL_EXCEPT" -> ReqQueryDelAllExcept(u, ToSet(a.params))
      [] OTHER -> u
ReWriteRuleCheck(r) == \A i \in DOMAIN r.actions : ActionFileCheck(r.actions[i]) /\ r.actions[i].cmd \in allowActions
ReWriteConfLoad(f) == LoadRules(f, {r \in ToSet(f.rules) : ReWriteRuleCheck(r)})
reWriteActionsDo(u, actions) == FoldLeft(Do, u, actions)
ReqReWrite(u, rules) == FoldLeft(LAMBDA v, r : reWriteActionsDo(v, r.actions), u, UpToLast(rules))

-----------------------------------------------------------------------------
(* mod_header.                                                             *)

\* A value of an action: "%name" is replaced, "%%" is a percent sign.
Variables == {<<"v">>}
VariableCharset == {"v", "w"}
NextAt(s, from, P(_)) == LET at == {k \in from..Len(s) : P(s[k])} IN IF at = {} THEN Len(s) + 1 ELSE Min(at)
expectPercent(s, from) == NextAt(s, from, LAMBDA ch : ch = "%")
expectVariableParam(s, from) == NextAt(s, from, LAMBDA ch : ch \notin VariableCharset)
splitParam(s) ==
    LET ends(i) == IF s[i] # "%" THEN expectPercent(s, i + 1)
                   ELSE IF i = Len(s) THEN i + 1
                   ELSE IF s[i + 1] = "%" THEN expectPercent(s, i + 2) ELSE expectVariableParam(s, i + 1)
        parts[i \in 1..(Len(s) + 1)] ==
            IF i > Len(s) THEN <<>> ELSE <<SubSeq(s, i, ends(i) - 1)>> \o parts[ends(i)]
    IN  parts[1]
IsVariable(p) == HasPrefix(p, <<"%">>) /\ ~HasPrefix(p, <<"%", "%">>)
preProcessParams(s) ==
    LET parts == splitParam(s)
    IN  [ok |-> \A i \in DOMAIN parts : IsVariable(parts[i]) => Tail(parts[i]) \in Variables, params |-> parts]
\* A variable of which the connection has nothing (no TLS, no certificate, no
\* place known) is empty; conn is the connection, by what it knows.
VariableHandlers(name, conn) == IF name \in conn.known THEN conn.value ELSE <<>>
getHeaderValue(parts, conn) ==
    FlattenSeq([i \in DOMAIN parts |->
        IF HasPrefix(parts[i], <<"%">>)
        THEN IF Tail(parts[i]) \in Variables THEN VariableHandlers(Tail(parts[i]), conn) ELSE Tail(parts[i])
        ELSE parts[i]])

Get(h, key) == IF key \in DOMAIN h /\ h[key] # <<>> THEN h[key][1] ELSE <<>>
headerSet(h, key, v) == Put(h, key, <<v>>)
headerAdd(h, key, v) == Put(h, key, ValuesOf(h, key) \o <<v>>)
headerDel(h, key) == Drop(h, {key})
\* Only the first value takes the new name.
headerRename(h, from, to) == headerDel(headerSet(h, to, Get(h, from)), from)
setScheme(uri, scheme) == IF uri.scheme = "" THEN uri ELSE [uri EXCEPT !.scheme = scheme]
addQuery(uri, key, val) == IF uri.bad THEN uri ELSE [uri EXCEPT !.raw = @ \o <<Pair(key, val)>>]
checkHeaderModParams(a) ==
    a.key \in {"Referer", "Location"} /\ ((a.mod = "SCHEME_SET" /\ a.arg \in {"http", "https"}) \/ a.mod = "QUERY_ADD")
modHeaderValue(uri, a) == IF a.mod = "SCHEME_SET" THEN setScheme(uri, a.arg) ELSE addQuery(uri, <<a.arg>>, <<"v">>)
headerActionCheck(a) ==
    /\ a.cmd \in {"SET", "ADD", "DEL", "RENAME"} /\ (a.cmd # "DEL" => a.value # <<>>)
    /\ a.cmd \in {"SET", "ADD"} => preProcessParams(a.value).ok
processHeader(h, a, conn) ==
    CASE a.cmd = "RENAME" -> IF Get(h, a.key) = <<>> \/ Get(h, a.value) # <<>> THEN h ELSE headerRename(h, a.key, a.value)
      [] a.cmd = "SET" -> headerSet(h, a.key, getHeaderValue(splitParam(a.value), conn))
      [] a.cmd = "ADD" -> headerAdd(h, a.key, getHeaderValue(splitParam(a.value), conn))
      [] OTHER -> headerDel(h, a.key)
\* The rules are split by side: a rule keeps its condition and its Last on each.
classifyRules(rules, side) ==
    SelectSeq([i \in DOMAIN rules |->
                  [rules[i] EXCEPT !.actions = SelectSeq(@, LAMBDA a : a.side = side)]],
              LAMBDA r : r.actions # <<>>)
HeaderRuleCheck(r) == r.actions # <<>> /\ \A i \in DOMAIN r.actions : headerActionCheck(r.actions[i])
HeaderConfLoad(f) == LoadRules(f, {r \in ToSet(f.rules) : HeaderRuleCheck(r)})
HeaderActionsDo(h, actions, conn) == FoldLeft(LAMBDA g, a : processHeader(g, a, conn), h, actions)
DoHeader(h, rules, conn) == FoldLeft(LAMBDA g, r : HeaderActionsDo(g, r.actions, conn), h, UpToLast(rules))
\* First the rules of all products, then those of the product.
headerHandler(h, global, rules, side, conn) ==
    DoHeader(DoHeader(h, classifyRules(global, side), conn), classifyRules(rules, side), conn)

\* Cookies.  A response's cookie is looked for by name and place, and then
\* replaced or deleted by name.
reqSetCookie(cs, c) ==
    IF \A i \in DOMAIN cs : cs[i].name # c.name THEN Append(cs, c)
    ELSE [i \in DOMAIN cs |-> IF cs[i].name = c.name THEN [cs[i] EXCEPT !.value = c.value] ELSE cs[i]]
reqDelCookie(cs, c) == SelectSeq(cs, LAMBDA d : d.name # c.name)
isRspCookieExist(cs, c) == \E i \in DOMAIN cs : cs[i].name = c.name /\ cs[i].place = c.place
rspSetCookie(cs, c) ==
    IF ~isRspCookieExist(cs, c) THEN Append(cs, c)
    ELSE [i \in DOMAIN cs |-> IF cs[i].name = c.name THEN c ELSE cs[i]]
rspDelCookie(cs, c) == IF isRspCookieExist(cs, c) THEN reqDelCookie(cs, c) ELSE cs
buildCookie(a) ==
    [name |-> a.name, value |-> IF a.cmd = "DEL" THEN "" ELSE a.value, place |-> IF a.side = "req" THEN "" ELSE a.place]
processCookie(cs, a) ==
    LET c == buildCookie(a)
    IN  CASE a.side = "req" /\ a.cmd = "SET" -> reqSetCookie(cs, c)
          [] a.side = "req" -> reqDelCookie(cs, c)
          [] a.cmd = "SET" -> rspSetCookie(cs, c)
          [] OTHER -> rspDelCookie(cs, c)

-----------------------------------------------------------------------------
(* mod_redirect, mod_tag and mod_trace.                                    *)

redirectActionCheck(a) ==
    /\ a.cmd \in {"URL_SET", "URL_FROM_QUERY", "URL_PREFIX_ADD", "SCHEME_SET"}
    /\ a.cmd = "SCHEME_SET" => a.param \in {"http", "https"}
redirectRuleCheck(r) == Len(r.actions) = 1 /\ redirectActionCheck(r.actions[1]) /\ r.status # 0
redirectConfLoad(f) == LoadRules(f, {r \in ToSet(f.rules) : redirectRuleCheck(r)})
\* Where the client is sent: what the rule says, a value of the query, or the
\* request's own address behind a prefix or under a scheme.
redirectActionsDo(a, req) ==
    CASE a.cmd = "URL_SET" -> <<a.param>>
      [] a.cmd = "URL_FROM_QUERY" -> <<IF a.param = req.queryKey THEN req.queryVal ELSE "">>
      [] a.cmd = "URL_PREFIX_ADD" -> <<a.param, req.uri>>
      [] OTHER -> <<a.param, "://", IF req.urlHost = "" THEN req.host ELSE req.urlHost, req.uri>>
PrepareReqRedirect(rules, req) ==
    LET i == FirstOf(rules)
    IN  IF i = 0 THEN [code |-> 0, url |-> <<>>]
        ELSE [code |-> rules[i].status, url |-> redirectActionsDo(rules[i].actions[1], req)]

TagRuleFileLoad(f) == LoadRules(f, {r \in ToSet(f.rules) : r.tag # ""})
tagHandler(rules) == LET said == UpToLast(rules) IN [i \in DOMAIN said |-> said[i].tag]
\* A span is started by the first enabled rule that matches, and finished once.
TraceRuleFileLoad(f) == LoadRules(f, ToSet(f.rules))
startTrace(rules) == IF \E i \in DOMAIN rules : Matches(rules[i].cond) /\ rules[i].enable THEN 1 ELSE 0
finishTrace(span) == span

-----------------------------------------------------------------------------
(* mod_errors, mod_compress, mod_static and mod_markdown: another body.    *)

errorsActionCheck(a) ==
    CASE a.cmd = "RETURN" -> a.code \div 100 \in {2, 4, 5} /\ a.code # 299 /\ Len(a.page) <= MaxPage
      [] OTHER -> a.cmd = "REDIRECT"
ErrorsConfLoad(f) == LoadRules(f, {r \in ToSet(f.rules) : errorsActionCheck(r.action)})
\* The body of the backend is closed, and its headers and trailers go with it.
prepareResponse(res) == [res EXCEPT !.closed = @ + 1, !.encoding = "", !.length = -1, !.chunked = FALSE]
doReturn(res, a) == [prepareResponse(res) EXCEPT !.code = a.code, !.body = a.page, !.length = Len(a.page)]
doRedirect(res) == [prepareResponse(res) EXCEPT !.code = 302, !.body = <<>>, !.length = -1]
errorsHandler(rules, res) ==
    LET i == FirstOf(rules)
    IN  IF i = 0 THEN res
        ELSE IF rules[i].action.cmd = "RETURN" THEN doReturn(res, rules[i].action) ELSE doRedirect(res)

compressActionCheck(a) ==
    CASE a.cmd = "GZIP" -> a.quality \in (-2)..9
      [] a.cmd = "BROTLI" -> a.quality \in 0..11
      [] OTHER -> FALSE
compressConfLoad(f) == LoadRules(f, {r \in ToSet(f.rules) : compressActionCheck(r.action)})
\* A compressing body reads a portion and flushes; when nothing is left it
\* closes its writer, once.  What it hands out decodes to what it has read.
FilterRead(f) ==
    LET n == Min({FlushSize, Len(f.src)})
        got == SubSeq(f.src, 1, n)
    IN  IF f.breaks /\ n = Len(f.src) /\ n < FlushSize THEN [f EXCEPT !.failed = TRUE]
        ELSE IF n > 0 THEN [f EXCEPT !.src = SubSeq(@, n + 1, Len(@)), !.out = @ \o got]
        ELSE [f EXCEPT !.ends = IF f.closed THEN @ ELSE @ + 1, !.closed = TRUE]
FilterWhole(src, breaks) ==
    FoldLeft(LAMBDA f, k : IF f.failed THEN f ELSE FilterRead(f),
             [src |-> src, out |-> <<>>, closed |-> FALSE, ends |-> 0, breaks |-> breaks, failed |-> FALSE],
             [k \in 1..(Len(src) + 2) |-> k])
EncodingOf(cmd) == IF cmd = "GZIP" THEN "gzip" ELSE "br"
compressHandler(rules, accept, res) ==
    LET i == FirstOf(rules)
    IN  IF accept = {} \/ res.encoding \notin {"", "identity"} \/ i = 0 THEN res
        ELSE IF EncodingOf(rules[i].action.cmd) \notin accept THEN res
        ELSE [res EXCEPT !.encoding = EncodingOf(rules[i].action.cmd), !.length = -1,
                         !.body = FilterWhole(@, FALSE).out]

\* The files are names; the one with the encoding's extension is preferred.
StaticConfLoad(f) == LoadRules(f, {r \in ToSet(f.rules) : r.dir # "none" /\ r.default # "lost"})
CheckAcceptEncoding(accept) == SelectSeq(<<"gzip", "br">>, LAMBDA e : e \in accept)
newStaticFile(disk, name, encodings) ==
    LET ready == SelectSeq(encodings, LAMBDA e : <<name, e>> \in disk.files)
        found == IF ready = <<>> THEN <<name, "">> ELSE <<name, ready[1]>>
    IN  IF found \in disk.files THEN [err |-> "none", encoding |-> found[2], name |-> name]
        ELSE [err |-> IF name \in disk.dirs THEN "dir" ELSE "lost", encoding |-> "", name |-> name]
openStaticFile(disk, name, default, encodings) ==
    LET file == newStaticFile(disk, name, encodings)
    IN  IF file.err = "none" \/ default = "" THEN file ELSE newStaticFile(disk, default, encodings)
errorStatusCode(err) == IF err = "lost" THEN 404 ELSE 500
createRespFromStaticFile(method, file) ==
    IF method \notin {"GET", "HEAD"} THEN [code |-> 405, encoding |-> "", opened |-> 0]
    ELSE IF file.err # "none" THEN [code |-> errorStatusCode(file.err), encoding |-> "", opened |-> 0]
    ELSE [code |-> 200, encoding |-> file.encoding, opened |-> IF method = "HEAD" THEN 0 ELSE 1]

checkResponse(res) == res.markdown /\ ~res.chunked /\ res.length \in 1..MaxPage
Render(body) == <<"<">> \o body
renderMarkDownHandler(rules, res) ==
    IF FirstOf(rules) = 0 \/ ~checkResponse(res) THEN res
    ELSE [res EXCEPT !.body = Render(@), !.length = Len(Render(res.body)), !.closed = @ + 1, !.markdown = FALSE]

-----------------------------------------------------------------------------
(* The inputs and the properties.                                          *)

Act(cmd, params) == [cmd |-> cmd, params |-> params]
RewriteActions ==
    {Act(cmd, ps) : cmd \in {"PATH_SET", "PATH_PREFIX_ADD", "PATH_PREFIX_TRIM", "HOST_SET"},
                    ps \in {<<<<"/", "b">>>>, <<<<"/">>>>, <<<<>>>>}}
    \cup {Act("HOST_SET_FROM_PATH_PREFIX", <<>>), Act("CLOSE", <<>>), Act("HOST_SUFFIX_REPLACE", <<<<"a">>, <<"b">>>>)}
    \cup {Act(cmd, <<<<"k">>, <<"m">>>>) : cmd \in {"QUERY_ADD", "QUERY_RENAME", "QUERY_DEL", "QUERY_DEL_ALL_EXCEPT"}}
Pairs == [key : {<<"k">>, <<"l">>}, val : {<<>>, <<"x">>}, eq : {TRUE}]
RewriteRules == [cond : {"yes", "no", "bad"}, last : BOOLEAN, actions : {<<a>> : a \in RewriteActions}]
Urls == [host : {<<"h">>}, path : {<<"/">>, <<"/", "b">>, <<"/", "b", "/", "c">>}, raw : BoundedSeq(Pairs, 2)]
WholeUrl(u) == [host |-> u.host, path |-> u.path, raw |-> u.raw, query |-> Parsed(u.raw)]
HeaderActs ==
    [side : {"req", "rsp"}, cmd : {"SET", "ADD", "RENAME"}, key : {<<"A">>}, value : {<<"v">>, <<"%", "v">>}]
    \cup [side : {"req"}, cmd : {"DEL"}, key : {<<"A">>}, value : {<<>>}]
HeaderRules == [cond : {"yes", "no"}, last : BOOLEAN,
                actions : {<<>>} \cup {<<a>> : a \in HeaderActs} \cup {<<a, b>> : a \in HeaderActs, b \in HeaderActs}]
CookieActs == [side : {"req", "rsp"}, cmd : {"SET", "DEL"}, name : {"a"}, value : {"1"}, place : {"/", "/p"}]
Cookies == [name : {"a", "b"}, value : {"1", "2"}, place : {"", "/p"}]
Bodies == {<<>>, <<"1">>, <<"1", "2">>, <<"1", "2", "3">>}
Responses == [code : {200, 500}, body : Bodies, length : {-1, 0, 2}, chunked : BOOLEAN, encoding : {"", "identity", "gzip"},
              closed : {0}, markdown : BOOLEAN]
ErrorActs == [cmd : {"RETURN"}, code : {200, 299, 302, 404}, page : Bodies] \cup [cmd : {"REDIRECT"}, code : {0}, page : {<<>>}]
CompressActs == [cmd : {"GZIP", "BROTLI", "ZIP"}, quality : {-3, -2, 0, 10}]
RedirectActs == [cmd : {"URL_SET", "URL_FROM_QUERY", "URL_PREFIX_ADD", "SCHEME_SET"}, param : {"k", "http"}]
OneOf(cond, Acts) == {[whole |-> w, rules |-> <<[cond |-> c, action |-> a]>>] : w \in {TRUE}, c \in cond, a \in Acts}
ContentInputs ==
    [of : {"rewrite"}, url : Urls, rules : {<<r>> : r \in RewriteRules}]
    \cup [of : {"rewrite"}, url : [host : {<<"h">>}, path : {<<"/", "b", "/", "c">>}, raw : {<<Pair(<<"k">>, <<>>)>>}],
          rules : {<<r, s>> : r \in RewriteRules, s \in RewriteRules}]
    \cup [of : {"header"}, rules : {<<r>> : r \in HeaderRules}, first : {<<>>, <<<<"x">>>>, <<<<"x">>, <<"y">>>>},
          known : {{}, Variables}]
    \cup [of : {"param"}, text : BoundedSeq({"%", "v", "w", "."}, 5)]
    \cup [of : {"cookies"}, cookies : BoundedSeq(Cookies, 2), act : CookieActs]
    \cup [of : {"sent"}, rules : {<<[cond |-> c, status |-> s, actions |-> <<a>>]>> :
                                    c \in {"yes", "no"}, s \in {0, 302}, a \in RedirectActs},
          req : [queryKey : {"k"}, queryVal : {"q"}, uri : {"/u"}, host : {"h"}, urlHost : {"", "g"}]]
    \cup [of : {"tags"}, rules : UNION {[1..n -> [cond : {"yes", "no"}, last : BOOLEAN, tag : {"s", "t"}, enable : BOOLEAN]] : n \in 0..2}]
    \cup [of : {"page"}, res : Responses, file : OneOf({"yes", "no"}, ErrorActs)]
    \cup [of : {"small"}, res : Responses, file : OneOf({"yes"}, CompressActs), accept : SUBSET {"gzip", "br"}, breaks : BOOLEAN]
    \cup [of : {"disk"}, files : SUBSET {<<"f", "">>, <<"f", "gzip">>, <<"f", "br">>, <<"d", "">>}, default : {"", "d", "lost"},
          accept : SUBSET {"gzip", "br"}, method : {"GET", "HEAD", "PUT"}, name : {"f", "x"}]
    \cup [of : {"mark"}, res : Responses, cond : {"yes", "no"}]

\* The raw query that the backend will see says what the parsed query says, when
\* every pair of it has its equals sign; a path is rooted; Last ends the rules.
RewriteMeans ==
    Given("rewrite") =>
        LET load == ReWriteConfLoad([whole |-> TRUE, rules |-> input.rules])
            u == WholeUrl(input.url)
            v == ReqReWrite(u, load.rules)
            adds == \E i \in DOMAIN load.rules : load.rules[i].actions[1].cmd = "QUERY_ADD"
        IN  load.ok =>
            /\ DOMAIN v.query = DOMAIN Parsed(v.raw)
            /\ ~adds => v.query = Parsed(v.raw)
            /\ HasPrefix(v.path, <<"/">>)
            /\ Len(input.rules) = 2 /\ Matches(input.rules[1].cond) /\ input.rules[1].last =>
                  v = ReqReWrite(u, <<load.rules[1]>>)
\* A percent sign that is doubled stands for itself, any other starts a variable.
ParamMeans ==
    Given("param") =>
        LET pre == preProcessParams(input.text)
            said == getHeaderValue(pre.params, [known |-> Variables, value |-> <<"!">>])
        IN  /\ FlattenSeq(pre.params) = input.text
            /\ pre.ok => Len(SelectSeq(said, LAMBDA ch : ch = "!")) =
                         Cardinality({i \in DOMAIN pre.params : IsVariable(pre.params[i])})
            /\ pre.ok /\ "%" \notin ToSet(input.text) => said = input.text
HeaderMeans ==
    /\ Given("header") =>
          LET load == HeaderConfLoad([whole |-> TRUE, rules |-> input.rules])
              h == IF input.first = <<>> THEN << >> ELSE (<<"A">> :> input.first)
              out(side) == headerHandler(h, <<>>, load.rules, side, [known |-> input.known, value |-> <<"z">>])
              r == input.rules[1]
              renames == {i \in DOMAIN r.actions : r.actions[i].cmd = "RENAME"}
          IN  load.ok =>
              \* the rules of one side never touch the other, and a rule that does not match changes nothing
              /\ \A side \in {"req", "rsp"} :
                    (~Matches(r.cond) \/ \A i \in DOMAIN r.actions : r.actions[i].side # side) => out(side) = h
              \* what is renamed is kept under one name or the other
              /\ renames = DOMAIN r.actions /\ h # << >> =>
                    \A side \in {"req", "rsp"} : \E k \in DOMAIN out(side) : Get(out(side), k) = <<"x">>
    /\ Given("cookies") =>
          LET a == input.act
              after == processCookie(input.cookies, a)
              others(cs) == SelectSeq(cs, LAMBDA c : c.name # a.name)
          IN  /\ others(after) = others(input.cookies)
              /\ a.cmd = "SET" => \E i \in DOMAIN after : after[i].name = a.name /\ after[i].value = a.value
              /\ a.side = "req" /\ a.cmd = "DEL" => after = others(input.cookies)
    /\ (Given("header") /\ input.first # <<>>) =>
          \A bad \in BOOLEAN, m \in [mod : {"SCHEME_SET", "QUERY_ADD"}, key : {"Referer", "Host"}, arg : {"http", "ftp"}] :
              LET uri == [scheme |-> "https", raw |-> <<>>, bad |-> bad]
              IN  checkHeaderModParams(m) => modHeaderValue(uri, m).scheme \in {"http", "https"}
RedirectMeans ==
    /\ Given("sent") =>
          LET load == redirectConfLoad([whole |-> TRUE, rules |-> input.rules])
              to == PrepareReqRedirect(load.rules, input.req)
          IN  load.ok => /\ (to.code # 0) = (input.rules[1].cond = "yes")
                         /\ to.code # 0 /\ input.rules[1].actions[1].cmd = "SCHEME_SET" =>
                               to.url[1] \in {"http", "https"} /\ "" \notin ToSet(to.url)
    /\ Given("tags") =>
          LET load == TagRuleFileLoad([whole |-> TRUE, rules |-> input.rules])
              said == tagHandler(load.rules)
              span == startTrace(TraceRuleFileLoad([whole |-> TRUE, rules |-> input.rules]).rules)
          IN  load.ok => /\ (said # <<>>) = (\E i \in DOMAIN input.rules : Matches(input.rules[i].cond))
                         /\ finishTrace(span) = span /\ (span = 1 => said # <<>> \/ input.rules[1].last)
\* Whatever is put in place of a body, the length that is told is that of the
\* body, and nothing is told of an encoding that the body does not have.
BodyMeans ==
    /\ Given("page") =>
          LET load == ErrorsConfLoad(input.file)
              res == errorsHandler(load.rules, input.res)
          IN  load.ok /\ res # input.res => res.length \in {-1, Len(res.body)} /\ res.encoding = "" /\ res.closed = 1
    /\ Given("small") =>
          LET load == compressConfLoad(input.file)
              res == compressHandler(load.rules, input.accept, input.res)
              f == FilterWhole(input.res.body, input.breaks)
          IN  /\ load.ok /\ res # input.res => res.length = -1 /\ res.encoding \in input.accept /\ res.body = input.res.body
              /\ f.failed = input.breaks /\ (~f.failed => f.ends = 1 /\ f.out = input.res.body)
    /\ Given("disk") =>
          LET load == StaticConfLoad([whole |-> TRUE, rules |-> <<[cond |-> "yes", dir |-> "root",
                                        default |-> IF input.default = "lost" THEN "lost" ELSE input.default]>>])
              disk == [files |-> input.files, dirs |-> {"x"}]
              file == openStaticFile(disk, input.name, input.default, CheckAcceptEncoding(input.accept))
              res == createRespFromStaticFile(input.method, file)
          IN  load.ok => /\ res.encoding \in input.accept \cup {""}
                         /\ res.code = 200 => <<file.name, res.encoding>> \in input.files
                         /\ res.opened = 1 => res.code = 200
    /\ Given("mark") =>
          LET res == renderMarkDownHandler(<<[cond |-> input.cond]>>, input.res)
          IN  res # input.res => res.length = Len(res.body) /\ res.closed = 1

\* Every rule file that these modules accept acts as it is written: a rewritten
\* query is the same raw and parsed (ReqQueryDel and its kin cut the raw text),
\* a path stays rooted, percent signs in header values are expanded once, a
\* renamed header is never lost, other cookies are left, and a response whose
\* body was replaced, compressed or rendered tells the length and the encoding
\* of the body it now has.
ContentActsAsWritten == RewriteMeans /\ ParamMeans /\ HeaderMeans /\ RedirectMeans /\ BodyMeans
=============================================================================
