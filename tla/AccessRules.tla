----------------------------- MODULE AccessRules -----------------------------
(***************************************************************************)
(* The modules that let a request pass or refuse it: mod_block,            *)
(* mod_auth_basic, mod_auth_jwt, mod_auth_request, mod_secure_link,        *)
(* mod_trust_clientip with its dictionary of addresses, mod_waf, mod_cors  *)
(* and mod_userid.  Each reads a file of rules, keeps the old rules when   *)
(* the file is refused, and asks the first rule whose condition matches.   *)
(* Pure.  A condition is "yes", "no" or one that does not build; an        *)
(* address is a number, a text a sequence of the characters that matter.   *)
(***************************************************************************)
EXTENDS Integers, Sequences, SequencesExt, FiniteSets, FiniteSetsExt, Sample

CONSTANTS Addresses        \* the addresses, numbers above NoAddr

NoAddr == 0
Matches(cond) == cond = "yes"
Builds(cond) == cond \in {"yes", "no"}
AllBuild(rs) == \A i \in DOMAIN rs : Builds(rs[i].cond)
\* The first rule that matches, 0 for none.
FirstRule(rs) == LET hits == {i \in DOMAIN rs : Matches(rs[i].cond)} IN IF hits = {} THEN 0 ELSE Min(hits)
\* A file is whole when it decodes and names a version and a list for every product.
Loaded(ok, rs) == [ok |-> ok, rules |-> rs]
Kept(old, load) == IF load.ok THEN load.rules ELSE old

-----------------------------------------------------------------------------
(* mod_block: a list of rules for every product, after the list of all.    *)

ActionFileCheck(r) == r.cmd \in {"CLOSE", "ALLOW"} /\ r.params = 0
blockRuleListCheck(rs) ==
    /\ \A i \in DOMAIN rs : rs[i].cond # "" /\ rs[i].name # "" /\ ActionFileCheck(rs[i])
    /\ \A i, j \in DOMAIN rs : i # j => rs[i].name # rs[j].name
BlockConfLoad(f) == Loaded(f.whole /\ blockRuleListCheck(f.rules) /\ AllBuild(f.rules), f.rules)
loadProductRuleConf(old, f) == Kept(old, BlockConfLoad(f))
\* What the first rule says; a rule with another command would be passed over.
productRulesProcess(rs) ==
    LET said == {i \in DOMAIN rs : Matches(rs[i].cond) /\ rs[i].cmd \in {"ALLOW", "CLOSE"}}
    IN  IF said = {} THEN "none" ELSE rs[Min(said)].cmd
\* A product without rules is neither accepted nor refused in the counters.
productBlockHandler(global, rules) ==
    LET g == productRulesProcess(global)
        p == productRulesProcess(rules)
        by == IF g # "none" THEN g ELSE p
    IN  [ret |-> IF by = "CLOSE" THEN "close" ELSE "goon",
         accepted |-> IF by = "CLOSE" \/ (by = "none" /\ rules = <<>>) THEN 0 ELSE 1,
         refused |-> IF by = "CLOSE" THEN 1 ELSE 0]

-----------------------------------------------------------------------------
(* mod_auth_basic and mod_auth_jwt.                                        *)

\* The users of a file; a line with a # is passed over, a later line wins.
readUserFile(lines) ==
    LET said == SelectSeq(lines, LAMBDA l : l.kind = "entry")
    IN  [ok |-> \A i \in DOMAIN said : said[i].parts \in {2, 3},
         users |-> [u \in {said[i].user : i \in DOMAIN said} |->
                       said[Max({i \in DOMAIN said : said[i].user = u})].hash]]
AuthBasicConfCheck(f) == f.whole /\ \A i \in DOMAIN f.rules : f.rules[i].cond # "" /\ f.rules[i].file # "none"
AuthBasicConfLoad(f) ==
    Loaded(/\ AuthBasicConfCheck(f) /\ AllBuild(f.rules)
           /\ \A i \in DOMAIN f.rules : f.rules[i].file = "given" /\ readUserFile(f.rules[i].lines).ok,
           [i \in DOMAIN f.rules |-> [cond |-> f.rules[i].cond, users |-> readUserFile(f.rules[i].lines).users]])
checkAuthCredentials(users, cred) ==
    IF cred.user = "" THEN "challenge"
    ELSE IF cred.user \in DOMAIN users /\ users[cred.user] = cred.pass THEN "success" ELSE "failure"
authBasicHandler(rules, cred) ==
    LET i == FirstRule(rules)
    IN  IF i = 0 \/ checkAuthCredentials(rules[i].users, cred) = "success" THEN "goon" ELSE "401"

readKeyFile(r) == [ok |-> r.file = "given", keys |-> r.keys]
AuthJWTConfLoad(f) ==
    Loaded(/\ f.whole /\ \A i \in DOMAIN f.rules : f.rules[i].cond # "" /\ f.rules[i].file # "none"
           /\ AllBuild(f.rules) /\ \A i \in DOMAIN f.rules : readKeyFile(f.rules[i]).ok,
           [i \in DOMAIN f.rules |-> [cond |-> f.rules[i].cond, keys |-> readKeyFile(f.rules[i]).keys]])
\* "Bearer <token>", in exactly two words.
getToken(header) == IF Len(header) = 2 /\ header[1] = "Bearer" THEN header[2] ELSE "none"
\* Some key of the rule verifies the signature and the claims hold now.
validateToken(keys, token, expired) == ~expired /\ \E i \in DOMAIN keys : keys[i] = token
authJWTHandler(rules, req) ==
    LET i == FirstRule(rules)
        token == getToken(req.header)
    IN  IF i = 0 \/ (token # "none" /\ validateToken(rules[i].keys, token, req.expired)) THEN "goon" ELSE "401"

-----------------------------------------------------------------------------
(* mod_auth_request: another service says whether the request may pass.    *)

AuthRequestRuleFileLoad(f) == Loaded(f.whole /\ AllBuild(f.rules), f.rules)
\* The headers of the request without those of its hop; its method and its
\* address are told unless an earlier proxy told them.
createAuthRequest(req) ==
    [headers |-> req.headers \ {"Connection", "Content-Length"},
     method |-> IF "X-Forwarded-Method" \in req.headers THEN "forwarded" ELSE "own",
     uri |-> IF "X-Forwarded-Uri" \in req.headers THEN "forwarded" ELSE "own"]
\* 401 and 403 refuse; 2xx passes, and so does every other answer and an error.
genAuthForbiddenResp(answer) == IF answer \in {401, 403} THEN answer ELSE 0
\* Every enabled rule that matches asks the service again.
authRequestHandler(rules, answers) ==
    LET refusing == {i \in DOMAIN rules : /\ rules[i].enable /\ Matches(rules[i].cond)
                                          /\ genAuthForbiddenResp(answers[i]) # 0}
    IN  IF refusing = {} THEN "goon" ELSE IF answers[Min(refusing)] = 401 THEN "401" ELSE "403"

-----------------------------------------------------------------------------
(* mod_secure_link: a sum over parts of the request, and a time.           *)

NewNode(n, req) ==
    CASE n.type = "label" -> n.param
      [] n.type = "query" -> IF n.param = <<"expires">> /\ req.expires > 0 THEN <<req.expires>> ELSE <<>>
      [] n.type = "uri" -> req.uri
      [] OTHER -> <<>>
NodeTypes == {"label", "query", "header", "host", "uri", "remote_addr"}
NewRule(r) ==
    Builds(r.cond) /\ r.sumKey # "empty" /\ r.listed
    /\ \A i \in DOMAIN r.nodes : r.nodes[i].type \in NodeTypes
SecureLinkLoad(f) == Loaded(f.whole /\ \A i \in DOMAIN f.rules : NewRule(f.rules[i]), f.rules)
\* The digest is modelled by what it digests: the values, one after another.
ExpressionValue(nodes, req) == FlattenSeq([i \in DOMAIN nodes |-> NewNode(nodes[i], req)])
SecureLinkCheck(r, req) ==
    IF r.expiresKey /\ req.expires = -1 THEN "without expires"
    ELSE IF r.expiresKey /\ req.expires = 0 THEN "invalid expires"
    ELSE IF r.expiresKey /\ req.now > req.expires THEN "expired"
    ELSE IF req.sum = <<"none">> THEN "without checksum"
    ELSE IF req.sum = ExpressionValue(r.nodes, req) THEN "accept" ELSE "invalid checksum"
validateHandler(rules, req) ==
    LET i == FirstRule(rules) IN IF i = 0 \/ SecureLinkCheck(rules[i], req) = "accept" THEN "goon" ELSE "403"

-----------------------------------------------------------------------------
(* The dictionary of addresses: single ones, and ranges that are sorted by *)
(* their first address, the largest first, and merged.                     *)

ZeroPair == [start |-> NoAddr, end |-> NoAddr]
checkIPPair(p) == p.start \in Addresses /\ p.end \in Addresses /\ p.start <= p.end
\* Item j, which starts below item i, is taken into it when they meet, and so
\* is every item between them.
BadCheckMerge(items, i, j) ==
    IF items[j].end < items[i].start THEN items
    ELSE [k \in DOMAIN items |-> IF k = i THEN [start |-> items[j].start, end |-> items[i].end]
                                 ELSE IF k \in (i + 1)..j THEN ZeroPair ELSE items[k]]
checkMerge(items, i, j) ==
    IF items[j].end < items[i].start THEN items
    ELSE [k \in DOMAIN items |->
             IF k = i THEN [start |-> items[j].start, end |-> Max({items[i].end, items[j].end})]
             ELSE IF k \in (i + 1)..j THEN ZeroPair ELSE items[k]]
mergeItems(items) ==
    LET n == Len(items)
        \* the pairs of positions in the order in which they are compared
        at(k) == <<((k - 1) \div n) + 1, ((k - 1) % n) + 1>>
        step(acc, k) ==
            LET i == at(k)[1]
                j == at(k)[2]
            IN  IF i >= j \/ acc[i] = ZeroPair \/ acc[j] = ZeroPair THEN acc ELSE checkMerge(acc, i, j)
    IN  FoldLeft(step, items, [k \in 1..(n * n) |-> k])
Descending(items) == SortSeq(items, LAMBDA p, q : p.start > q.start)
\* Sort, merge, sort again, and cut off what the merge has emptied.
SortItems(items) ==
    LET merged == mergeItems(Descending(items))
        kept == Len(items) - Cardinality({k \in DOMAIN merged : merged[k] = ZeroPair})
    IN  SubSeq(Descending(merged), 1, kept)
IPTableSearch(table, ip) ==
    LET below == {i \in DOMAIN table.items : table.items[i].start <= ip}
    IN  ip \in table.singles \/ (below # {} /\ table.items[Min(below)].end >= ip)

\* The lines of a file of addresses: a range, one address, or a comment that
\* may tell how many of each there are.
checkLine(l) == l.kind # "bad"
getFileInfo(f) ==
    IF f.meta # <<>> THEN [ok |-> TRUE, singles |-> f.meta[1], pairs |-> f.meta[2]]
    ELSE [ok |-> \A i \in DOMAIN f.lines : checkLine(f.lines[i]),
          singles |-> Len(SelectSeq(f.lines, LAMBDA l : l.start = l.end)),
          pairs |-> Len(SelectSeq(f.lines, LAMBDA l : l.start # l.end))]
CheckAndLoad(f) ==
    LET info == getFileInfo(f)
        one == SelectSeq(f.lines, LAMBDA l : l.start = l.end)
        pair == SelectSeq(f.lines, LAMBDA l : l.start # l.end)
    IN  [ok |-> /\ info.ok /\ \A i \in DOMAIN f.lines : checkLine(f.lines[i])
                /\ \A i \in DOMAIN pair : checkIPPair(pair[i])
                /\ Len(one) <= info.singles /\ Len(pair) <= info.pairs,
         rules |-> [singles |-> {one[i].start : i \in DOMAIN one},
                    items |-> IF \A i \in DOMAIN pair : checkIPPair(pair[i]) THEN SortItems(pair) ELSE <<>>]]
globalBlockHandler(table, ip) == IF IPTableSearch(table, ip) THEN "close" ELSE "goon"

\* mod_trust_clientip: the same dictionary from a file of scopes.
TrustIPConfLoad(f) == f.whole /\ \A i \in DOMAIN f.scopes : NoAddr \notin {f.scopes[i].start, f.scopes[i].end}
ipItemsMake(f) ==
    LET pair == SelectSeq(f.scopes, LAMBDA s : s.start # s.end)
    IN  [ok |-> TrustIPConfLoad(f) /\ \A i \in DOMAIN pair : checkIPPair(pair[i]),
         rules |-> [singles |-> {f.scopes[i].start : i \in {k \in DOMAIN f.scopes : f.scopes[k].start = f.scopes[k].end}},
                    items |-> IF \A i \in DOMAIN pair : checkIPPair(pair[i]) THEN SortItems(pair) ELSE <<>>]]
acceptHandler(table, ip) == IPTableSearch(table, ip)

-----------------------------------------------------------------------------
(* mod_waf: the only rule there is finds "() { ... } ;" in a header.       *)

IsValidRule(r) == r = "RuleBashCmd"
SkipBlanks(v) == SelectInSeq(v, LAMBDA ch : ch # " ")
\* The position behind the next character when it is c, 0 otherwise.
checkSpecificChar(v, from, c) ==
    LET rest == SubSeq(v, from, Len(v))
        i == SkipBlanks(rest)
    IN  IF i # 0 /\ rest[i] = c THEN from + i ELSE 0
checkHeaderValue(v) ==
    LET open == checkSpecificChar(v, 1, "(")
        close == IF open = 0 THEN 0 ELSE checkSpecificChar(v, open, ")")
        body == IF close = 0 THEN 0 ELSE checkSpecificChar(v, close, "{")
        ends == {k \in body..Len(v) : v[k] = "}"}
    IN  body # 0 /\ ends # {} /\ checkSpecificChar(v, Min(ends) + 1, ";") # 0
wafRuleFileCheck(r) ==
    /\ r.cond # "" /\ (r.block # {} \/ r.check # {})
    /\ \A x \in r.block \cup r.check : IsValidRule(x)
ProductWafRuleConfLoad(f) ==
    Loaded(f.whole /\ (\A i \in DOMAIN f.rules : wafRuleFileCheck(f.rules[i])) /\ AllBuild(f.rules), f.rules)
\* A hit of a block rule finishes the request, a hit of a check rule is counted.
handleWaf(rules, value) ==
    LET i == FirstRule(rules)
        hit == checkHeaderValue(value)
    IN  [ret |-> IF i # 0 /\ hit /\ rules[i].block # {} THEN "finish" ELSE "goon",
         hits |-> IF i # 0 /\ hit /\ rules[i].block = {} THEN Cardinality(rules[i].check) ELSE 0]

-----------------------------------------------------------------------------
(* mod_cors and mod_userid.                                                *)

\* A star stands alone; what may follow "%" is only "origin".
OnlyStar(vs) == "x*" \notin Range(vs) /\ ("*" \in Range(vs) => Len(vs) = 1)
CorsRuleConvert(r) ==
    /\ Builds(r.cond) /\ r.origins # <<>> /\ "%other" \notin Range(r.origins) /\ OnlyStar(r.origins)
    /\ "*" \in Range(r.origins) => ~r.credentials
    /\ "null" \in Range(r.origins) => Len(r.origins) = 1
    /\ OnlyStar(r.headers) /\ OnlyStar(r.methods) /\ "FETCH" \notin Range(r.methods) /\ r.maxAge >= -1
CorsRuleFileLoad(f) == Loaded(f.whole /\ \A i \in DOMAIN f.rules : CorsRuleConvert(f.rules[i]), f.rules)
addVaryHeader(vary) ==
    IF vary = <<>> THEN <<"Origin">>
    ELSE IF vary = <<"*">> \/ "Origin" \in Range(vary) THEN vary ELSE Append(vary, "Origin")
matchOriginAllowed(origin, r) ==
    IF "%origin" \in Range(r.origins) THEN origin
    ELSE IF "*" \in Range(r.origins) THEN "*"
    ELSE IF origin \in Range(r.origins) THEN origin ELSE ""
\* What the response says; nothing is said of an origin that is not allowed.
CorsHeaders(r, origin, vary) ==
    LET to == matchOriginAllowed(origin, r)
    IN  IF to = "" THEN [to |-> "", credentials |-> FALSE, vary |-> vary]
        ELSE [to |-> to, credentials |-> r.credentials, vary |-> addVaryHeader(vary)]
checkCorsPreflight(req) == req.method = "OPTIONS" /\ req.origin # "" /\ req.asks = "GET"
\* A preflight is answered before it is forwarded, by a response of its own.
corsPreflightHandler(rules, req) ==
    LET i == FirstRule(rules)
    IN  IF checkCorsPreflight(req) /\ i # 0 THEN <<CorsHeaders(rules[i], req.origin, <<>>)>> ELSE <<>>
corsHandler(rules, req, vary) ==
    LET i == FirstRule(rules)
    IN  IF req.origin = "" \/ checkCorsPreflight(req) \/ i = 0
        THEN [to |-> "", credentials |-> FALSE, vary |-> vary] ELSE CorsHeaders(rules[i], req.origin, vary)

\* The rules of the product, or those of all when it has none.
UseridLoad(f) == Loaded(\A i \in DOMAIN f.rules : Builds(f.rules[i].cond) /\ f.rules[i].name # "none", f.rules)
reqSetUid(global, rules, cookies) ==
    LET rs == IF rules = <<>> THEN global ELSE rules
        i == FirstRule(rs)
    IN  IF i = 0 \/ rs[i].name \in cookies THEN <<>> ELSE <<rs[i].name>>
\* The response sets the cookie that the request was given.
rspSetUid(uid) == uid

-----------------------------------------------------------------------------
(* The inputs and the properties.                                          *)

Lists(R) == {<<>>} \cup {<<r>> : r \in R} \cup {<<r, s>> : r \in R, s \in R}
Files(R) == [whole : BOOLEAN, rules : Lists(R)]
BlockRules == [cond : {"yes", "no", "bad"}, name : {"a", "b"}, cmd : {"CLOSE", "ALLOW"}, params : {0}]
Accepts == {<<>>, <<[cond |-> "yes", name |-> "a", cmd |-> "CLOSE", params |-> 0]>>,
            <<[cond |-> "yes", name |-> "a", cmd |-> "ALLOW", params |-> 0]>>}
UserLines == {<<>>, <<[kind |-> "entry", parts |-> 2, user |-> "u", hash |-> "h"]>>,
              <<[kind |-> "entry", parts |-> 1, user |-> "u", hash |-> "h"]>>,
              <<[kind |-> "entry", parts |-> 3, user |-> "u", hash |-> "g"], [kind |-> "comment"],
                [kind |-> "entry", parts |-> 2, user |-> "u", hash |-> "h"]>>}
BasicRules == [cond : {"yes", "no", "bad"}, file : {"given", "none", "lost"}, lines : UserLines]
Creds == {[user |-> "", pass |-> ""]} \cup [user : {"u", "v"}, pass : {"h", "g"}]
JwtRules == [cond : {"yes", "no", "bad"}, file : {"given", "lost"}, keys : {<<>>, <<"k1">>, <<"k2", "k1">>}]
JwtReqs == [header : {<<"">>, <<"Bearer", "k1">>, <<"Basic", "k1">>, <<"Bearer", "k1", "x">>, <<"Bearer", "k3">>},
            expired : BOOLEAN]
Scopes == [start : Addresses \cup {NoAddr}, end : Addresses]
LinkNodes == {<<>>, <<[type |-> "label", param |-> <<"k">>], [type |-> "query", param |-> <<"expires">>]>>,
              <<[type |-> "uri", param |-> <<>>]>>, <<[type |-> "hash", param |-> <<>>]>>}
LinkRules == [cond : {"yes", "no"}, sumKey : {"md5", "empty"}, expiresKey : BOOLEAN, listed : {TRUE}, nodes : LinkNodes]
             \cup [cond : {"yes"}, sumKey : {"md5"}, expiresKey : {TRUE}, listed : {FALSE}, nodes : {<<>>}]
LinkReqs == [expires : {-1, 0, 1, 2}, now : {2}, uri : {<<"/a">>},
             sum : {<<"none">>, <<>>, <<"k", 1>>, <<"k", 2>>, <<"/a">>}]
WafRules == [cond : {"yes", "no"}, block : {{}, {"RuleBashCmd"}, {"other"}}, check : {{}, {"RuleBashCmd"}}]
Texts == BoundedSeq({"(", ")", "{", "}", ";", " "}, 4)
CorsRules == [cond : {"yes"}, credentials : {FALSE}, headers : {<<"*", "h">>}, origins : {<<"o">>},
              methods : {<<"GET">>, <<"FETCH">>}, maxAge : {-2, 0}]
        \cup [cond : {"yes", "no"}, credentials : BOOLEAN, headers : {<<"*">>},
              origins : {<<>>, <<"*">>, <<"%origin">>, <<"o">>, <<"p", "o">>, <<"*", "o">>, <<"%other">>},
              methods : {<<"GET">>}, maxAge : {0}]
CorsReqs == [method : {"OPTIONS", "GET"}, origin : {"", "o"}, asks : {"", "GET"}]
UidRules == [cond : {"yes", "no"}, name : {"c", "d", "none"}]
AccessInputs ==
    [of : {"block"}, file : Files(BlockRules), old : Accepts, global : Accepts]
    \cup [of : {"user"}, file : Files(BasicRules), cred : Creds]
    \cup [of : {"jwt"}, file : Files(JwtRules), req : JwtReqs]
    \cup [of : {"authreq"}, file : Files([cond : {"yes", "no"}, enable : BOOLEAN]),
          answers : [1..2 -> {200, 401, 403, 500, -1}],
          headers : SUBSET {"Connection", "X-Forwarded-Method", "X-Forwarded-Uri"}]
    \cup [of : {"link"}, file : Files(LinkRules), req : LinkReqs]
    \cup [of : {"dict"}, lines : UNION {[1..n -> Scopes] : n \in 0..3}]
    \cup [of : {"waf"}, rules : Lists(WafRules), value : {<<"(", ")", "{", "}", " ", ";">>, <<"(", ")", "{", ";">>}]
    \cup [of : {"waf"}, rules : Lists([cond : {"yes"}, block : {{"RuleBashCmd"}}, check : {{}}]), value : Texts]
    \cup [of : {"waf"}, rules : {<<[cond |-> "yes", block |-> {"RuleBashCmd"}, check |-> {}]>>},
          value : {<<"(", ")", "{">> \o t : t \in Texts}]
    \cup [of : {"cors"}, file : [whole : {TRUE}, rules : Lists(CorsRules)], req : CorsReqs, vary : {<<"*">>, <<"Accept">>}]
    \cup [of : {"uid"}, rules : Lists(UidRules), global : Lists(UidRules), cookies : {{}, {"c"}}]

\* The declarative meaning of each module, for a file that is whole and sound.
Firsts(rs) == {i \in DOMAIN rs : Matches(rs[i].cond) /\ \A j \in 1..(i - 1) : ~Matches(rs[j].cond)}
BlockMeans ==
    Given("block") =>
        LET table == loadProductRuleConf(input.old, input.file)
            all == input.global \o table
            d == productBlockHandler(input.global, table)
        IN  /\ (d.ret = "close") = (\E i \in Firsts(all) : all[i].cmd = "CLOSE")
            /\ d.accepted + d.refused <= 1
CredentialsMean ==
    /\ Given("user") =>
          LET load == AuthBasicConfLoad(input.file)
              rs == load.rules
          IN  load.ok => ((authBasicHandler(rs, input.cred) = "goon") =
                (\A i \in Firsts(rs) : <<input.cred.user, input.cred.pass>> \in
                    {<<u, rs[i].users[u]>> : u \in DOMAIN rs[i].users}))
    /\ Given("jwt") =>
          LET load == AuthJWTConfLoad(input.file)
          IN  load.ok /\ authJWTHandler(load.rules, input.req) = "goon" =>
                \A i \in Firsts(load.rules) : ~input.req.expired /\ input.req.header[2] \in Range(load.rules[i].keys)
    /\ Given("authreq") =>
          LET load == AuthRequestRuleFileLoad(input.file)
              asked == createAuthRequest(input)
          IN  /\ asked.headers \cap {"Connection", "Content-Length"} = {}
              /\ (asked.method = "own") = ("X-Forwarded-Method" \notin asked.headers)
              /\ (asked.uri = "own") = ("X-Forwarded-Uri" \notin asked.headers)
              /\ load.ok /\ authRequestHandler(load.rules, input.answers) = "goon" =>
                \A i \in DOMAIN load.rules :
                    load.rules[i].cond = "yes" /\ load.rules[i].enable => input.answers[i] \notin {401, 403}
    /\ Given("link") =>
          LET load == SecureLinkLoad(input.file)
              rs == load.rules
          IN  load.ok /\ validateHandler(rs, input.req) = "goon" =>
                \A i \in Firsts(rs) : /\ input.req.sum = ExpressionValue(rs[i].nodes, input.req)
                                      /\ rs[i].expiresKey => input.req.expires >= input.req.now
\* An address is found exactly when some line of the file holds it.
AddressesMean ==
    Given("dict") =>
        LET load == ipItemsMake([whole |-> TRUE, scopes |-> input.lines])
            text == CheckAndLoad([meta |-> <<>>, lines |-> [i \in DOMAIN input.lines |->
                        [kind |-> IF input.lines[i].start = NoAddr THEN "bad" ELSE "range",
                         start |-> input.lines[i].start, end |-> input.lines[i].end]]])
            held(ip) == \E i \in DOMAIN input.lines : ip \in input.lines[i].start..input.lines[i].end
        IN  /\ load.ok = text.ok
            /\ load.ok => \A ip \in Addresses : /\ acceptHandler(load.rules, ip) = held(ip)
                                                /\ (globalBlockHandler(text.rules, ip) = "close") = held(ip)
\* The shape "() {", a first "}" and then ";", with blanks anywhere between.
Shape(v) ==
    LET w == SelectSeq(v, LAMBDA ch : ch # " ")
    IN  /\ Len(w) >= 5 /\ SubSeq(w, 1, 3) = <<"(", ")", "{">>
        /\ \E k \in 4..(Len(w) - 1) : /\ w[k] = "}" /\ w[k + 1] = ";" /\ \A j \in 4..(k - 1) : w[j] # "}"
FirewallMeans ==
    Given("waf") =>
        LET load == ProductWafRuleConfLoad([whole |-> TRUE, rules |-> input.rules])
        IN  load.ok => ((handleWaf(load.rules, input.value).ret = "finish") =
                (Shape(input.value) /\ \E i \in Firsts(load.rules) : load.rules[i].block # {}))
\* Credentials are never granted to everyone, an origin is granted only when a
\* rule names it, and a cache is told that the answer depends on the origin.
CorsMeans ==
    Given("cors") =>
        LET load == CorsRuleFileLoad(input.file)
            rs == load.rules
            pre == corsPreflightHandler(rs, input.req)
            said == Range(pre) \cup {corsHandler(rs, input.req, input.vary)}
        IN  load.ok => /\ \A h \in said : /\ h.to = "*" => ~h.credentials
                                          /\ h.to \notin {"", "*"} => h.to = input.req.origin /\ Range(h.vary) \cap {"Origin", "*"} # {}
                                          /\ h.to # "" => \E i \in Firsts(rs) : Range(rs[i].origins) \cap {h.to, "%origin"} # {}
                       /\ pre # <<>> => corsHandler(rs, input.req, input.vary).to = ""
UidMeans ==
    Given("uid") =>
        LET uid == rspSetUid(reqSetUid(input.global, input.rules, input.cookies))
        IN  UseridLoad([rules |-> input.rules]).ok /\ UseridLoad([rules |-> input.global]).ok =>
                \A i \in DOMAIN uid : uid[i] \notin input.cookies /\ "none" \notin Range(uid)

\* Whatever file the operator reloads, each access module decides as its rules
\* say: a refused file leaves the rules in force (mod_block), the first rule that
\* matches decides, credentials, tokens, sums and times are all required, an
\* address is blocked or trusted exactly when a line of the file holds it
\* although the ranges are sorted, merged and searched by halves (ipdict.Sort,
\* IPTable.Search), a request is finished by mod_waf exactly on the shape its
\* rule looks for, and no accepted CORS rule grants credentials to every origin.
AccessDecided ==
    BlockMeans /\ CredentialsMean /\ AddressesMean /\ FirewallMeans /\ CorsMeans /\ UidMeans
=============================================================================
