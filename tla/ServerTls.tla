------------------------------ MODULE ServerTls ------------------------------
(***************************************************************************)
(* The configuration of the server and of TLS: how the files are checked,  *)
(* and which certificate, rule and protocols a connection gets from them.  *)
(* Pure.  A host name is a sequence of labels; a certificate is the set of *)
(* its names.                                                              *)
(***************************************************************************)
EXTENDS Integers, Sequences, SequencesExt, FiniteSets, Sample

CONSTANTS FullRate,      \* the rate of a protocol that everyone is offered, 100
          DefaultBodySize, MaxBodySize    \* DefaultAccessibleBodySize, MaxAccessibleBodySize

-----------------------------------------------------------------------------
(* The protocols of a rule.                                                *)

ValidProtos == {"http/1.1", "h2", "spdy/3.1", "stream"}
DefaultNextProtos == <<"http/1.1">>
Optional == 0
Mandatory == 2

\* "proto;level=..;mcs=..;isw=..;rate=..;pp=..": what is not given has its
\* default, an unknown or repeated parameter is an error.
ParseNextProto(p) ==
    LET given(k, def) == IF k \in DOMAIN p.params THEN p.params[k] ELSE def
    IN  [ok |-> DOMAIN p.params \subseteq {"level", "rate", "pp"}, proto |-> p.proto,
         level |-> given("level", Optional), rate |-> given("rate", FullRate), pp |-> given("pp", 0)]
CheckValidProto(p) ==
    LET q == ParseNextProto(p)
    IN  /\ q.ok /\ q.level \in Optional..Mandatory /\ q.rate \in 0..FullRate /\ q.pp \in 0..2
        /\ q.level > Optional => q.rate = FullRate
        /\ q.proto = "http/1.1" => q.rate = FullRate
        /\ q.pp # 0 => q.proto = "stream"
        /\ q.proto \in ValidProtos
checkMandatory(ps) == \E i \in DOMAIN ps : ParseNextProto(ps[i]).level = Mandatory
checkContainHTTP(ps) == \E i \in DOMAIN ps : ps[i].proto = "http/1.1"
BadCheckNextProtos(ps) ==
    \/ ps = <<>>
    \/ (\A i \in DOMAIN ps : CheckValidProto(ps[i])) /\ (checkMandatory(ps) => Len(ps) = 1)
checkNextProtos(ps) ==
    \/ ps = <<>>
    \/ /\ \A i \in DOMAIN ps : CheckValidProto(ps[i])
       /\ \A i, j \in DOMAIN ps : i # j => ps[i] # ps[j]
       /\ IF checkMandatory(ps) THEN Len(ps) = 1 ELSE checkContainHTTP(ps)

-----------------------------------------------------------------------------
(* The rules and the certificates.                                         *)

\* A star stands for one whole label.
MatchHostnames(pattern, host) ==
    /\ pattern # <<>> /\ host # <<>> /\ Len(pattern) = Len(host)
    /\ \A i \in DOMAIN pattern : pattern[i] \in {"*", host[i]}
MatchCertNames(names, host) == \E n \in names : MatchHostnames(n, host)

TlsRuleConfCheck(r) ==
    /\ r.cert # "" /\ checkNextProtos(r.protos) /\ r.grade \in {"", "A+", "A", "B", "C"}
    /\ r.clientAuth => r.ca # ""
    /\ "bad" \notin r.vips
checkVip(rules) == \A p, q \in DOMAIN rules : p # q => rules[p].vips \cap rules[q].vips = {}
checkSniConf(rules) == \A p, q \in DOMAIN rules : p # q => rules[p].snis \cap rules[q].snis = {}
BfeTlsRuleConfCheck(c) ==
    /\ \A p \in DOMAIN c.rules : TlsRuleConfCheck(c.rules[p])
    /\ checkVip(c.rules) /\ checkSniConf(c.rules) /\ checkNextProtos(c.defaultProtos)

\* The certificates are named, their files exist, and one of them is the default.
ServerCertCheck(c) == "BFE_DEFAULT_CERT" \notin DOMAIN c.certs /\ c.default \in DOMAIN c.certs
\* A pair that cannot be read fails the load; a bad OCSP answer is left out.
ServerCertParse(c) ==
    [ok |-> \A n \in DOMAIN c.certs : c.certs[n].readable,
     staple |-> {n \in DOMAIN c.certs : c.certs[n].ocsp = "good"}]
GetNamesForCert(cert) == cert.names
\* The authorities of the rules that ask for a client certificate.
ClientCALoad(c) == \A p \in DOMAIN c.rules : c.rules[p].clientAuth => c.rules[p].ca \in c.cas
ClientCRLLoad(c) == c.crlDir /\ "badcrl" \notin {c.rules[p].ca : p \in {q \in DOMAIN c.rules : c.rules[q].clientAuth}}
CheckTlsConf(c) ==
    \A p \in DOMAIN c.rules :
        /\ c.rules[p].cert \in DOMAIN c.certs
        /\ \A n \in c.rules[p].snis : MatchCertNames(GetNamesForCert(c.certs[c.rules[p].cert]), n)

\* A load either passes every check and replaces the tables, or changes nothing.
tlsConfLoad(c) ==
    ServerCertCheck(c) /\ ServerCertParse(c).ok /\ BfeTlsRuleConfCheck(c) /\ ClientCALoad(c) /\ ClientCRLLoad(c)
    /\ CheckTlsConf(c)

\* The certificate by the name that the client asks for: the name itself in
\* lower case, or one of the patterns, in no fixed order.
lower(n) == [i \in DOMAIN n |-> IF n[i] = "A" THEN "a" ELSE n[i]]
NameCertGet(c, name) ==
    LET n == lower(name)
        exact == {x \in DOMAIN c.certs : n \in GetNamesForCert(c.certs[x]) /\ "*" \notin Range(n)}
        wild == {x \in DOMAIN c.certs :
                    \E w \in GetNamesForCert(c.certs[x]) : "*" \in Range(w) /\ MatchHostnames(w, n)}
    IN  IF exact # {} THEN exact ELSE wild
\* By the address that the client came to, by the name, or the default.
MultiCertGet(c, conn) ==
    LET byVip == {c.rules[p].cert : p \in {q \in DOMAIN c.rules : conn.vip \in c.rules[q].vips}}
        byName == IF conn.sni = <<>> THEN {} ELSE NameCertGet(c, conn.sni)
    IN  IF byVip # {} THEN byVip ELSE IF byName # {} THEN byName ELSE {c.default}

\* What a rule says of a connection; the parameters of h2 and of a stream come
\* from the protocols of the rule and never from the default ones.
createServerRule(c, p) ==
    LET r == c.rules[p]
    IN  [protos |-> IF r.protos # <<>> THEN r.protos ELSE c.defaultProtos,
         grade |-> IF r.grade # "" THEN r.grade ELSE "C", clientAuth |-> r.clientAuth, by |-> p,
         degrade |-> ~\E i \in DOMAIN r.protos : r.protos[i].proto = "h2" /\ ParseNextProto(r.protos[i]).level > Optional]
getDefaultRule(c) == [protos |-> c.defaultProtos, grade |-> "C", clientAuth |-> FALSE, by |-> "none", degrade |-> TRUE]
getRule(c, conn) ==
    LET byVip == {p \in DOMAIN c.rules : conn.vip \in c.rules[p].vips}
        bySni == {p \in DOMAIN c.rules : conn.sni \in c.rules[p].snis}
    IN  IF byVip # {} THEN createServerRule(c, CHOOSE p \in byVip : TRUE)
        ELSE IF bySni # {} THEN createServerRule(c, CHOOSE p \in bySni : TRUE)
        ELSE getDefaultRule(c)

\* The protocols offered: an optional one only to a share of the clients, and
\* not while it is switched off.
enableTLSNextProto(on, said) ==
    IF said \in {"+h2", "h2"} THEN on \cup {"h2"} ELSE IF said = "-h2" THEN on \ {"h2"}
    ELSE IF said \in {"+spdy", "spdy"} THEN on \cup {"spdy/3.1"} ELSE IF said = "-spdy" THEN on \ {"spdy/3.1"} ELSE on
NextProtosGet(rule, conn, on) ==
    LET ps == SelectSeq(rule.protos, LAMBDA p :
                LET q == ParseNextProto(p)
                IN  q.level = Optional => conn.hash < q.rate /\ (q.proto \in {"h2", "spdy/3.1"} => q.proto \in on))
    IN  IF ps = <<>> THEN DefaultNextProtos ELSE [i \in DOMAIN ps |-> ps[i].proto]
NextProtosMandatory(rule) ==
    IF Len(rule.protos) = 1 /\ ParseNextProto(rule.protos[1]).level = Mandatory THEN rule.protos[1].proto ELSE "none"

-----------------------------------------------------------------------------
(* The server.                                                             *)

Versions == <<"SSL30", "TLS10", "TLS11", "TLS12">>
Rank(v) == SelectInSeq(Versions, LAMBDA x : x = v)
tlsVersionCheck(h) ==
    LET max == IF h.max = "" THEN "TLS12" ELSE h.max
        min == IF h.min = "" THEN "SSL30" ELSE h.min
    IN  [ok |-> Rank(max) > 0 /\ Rank(min) > 0 /\ Rank(max) >= Rank(min), max |-> max, min |-> min]
\* Suites that one group names are as good as each other.
GetCipherSuites(groups) ==
    LET flat == FlattenSeq([i \in DOMAIN groups |-> [j \in DOMAIN groups[i] |-> [suite |-> groups[i][j], pri |-> i]]])
    IN  flat
cipherSuitesCheck(groups) == \A i \in DOMAIN groups : \A j \in DOMAIN groups[i] : groups[i][j] # "bad"

\* The values that a configuration ends with, or "refused".
basicConfCheck(b) ==
    LET accept == IF b.acceptNum = 0 THEN 1 ELSE b.acceptNum
        monitor == IF b.monitor <= 0 THEN 20 ELSE IF b.monitor > 60 THEN 60 ELSE b.monitor
        body == IF b.bodySize <= 0 THEN DefaultBodySize ELSE b.bodySize
    IN  [ok |-> /\ b.port \in 1..65535 /\ b.acceptNum >= 0
                /\ b.handshake \in 1..1200 /\ b.read > 0 /\ b.shutdown \in 1..300
                /\ 60 % monitor = 0 /\ monitor >= 20
                /\ b.uri > 0 /\ body <= MaxBodySize /\ b.layer4 \in {"", "PROXY", "NONE"},
         accept |-> accept, monitor |-> monitor, body |-> body,
         layer4 |-> IF b.layer4 = "" THEN "NONE" ELSE b.layer4]
InitConfig(b) == [read |-> b.read, handshake |-> b.handshake, shutdown |-> b.shutdown, uri |-> b.uri]

-----------------------------------------------------------------------------
(* What is checked.                                                        *)

P(proto, params) == [proto |-> proto, params |-> params]
NoParams == [k \in {} |-> 0]
Level(n) == [k \in {"level"} |-> n]
Rate(n) == [k \in {"rate"} |-> n]
ProtoLists == {<<>>, <<P("http/1.1", NoParams)>>, <<P("h2", NoParams), P("http/1.1", NoParams)>>,
               <<P("h2", Rate(1)), P("http/1.1", NoParams)>>, <<P("h2", Level(1)), P("http/1.1", NoParams)>>,
               <<P("spdy/3.1", NoParams), P("h2", Rate(0)), P("http/1.1", Level(1))>>, <<P("stream", Level(2))>>,
               <<P("stream", Level(2)), P("http/1.1", NoParams)>>, <<P("h2", NoParams)>>, <<P("http/1.1", Rate(1))>>,
               <<P("h2", [k \in {"pp"} |-> 1]), P("http/1.1", NoParams)>>, <<P("odd", Level(2))>>}
CertNames == {{<<"a", "x">>}, {<<"*", "x">>}, {<<"b", "x">>, <<"*", "y">>}}
RuleOf(ps, sni, vip, cert, auth) ==
    [cert |-> cert, protos |-> ps, grade |-> "", clientAuth |-> auth, ca |-> IF auth THEN "ca" ELSE "",
     vips |-> vip, snis |-> sni]
\* The files that an input stands for: two rules and two certificates.
TlsConf(i) ==
    [rules |-> [p \in {"p1", "p2"} |-> IF p = "p1" THEN RuleOf(i.protos, i.snis, i.vips, "c1", TRUE)
                                       ELSE RuleOf(<<>>, {<<"b", "x">>}, {"v2"}, "c2", FALSE)],
     certs |-> [n \in {"c1", "c2"} |-> [names |-> IF n = "c1" THEN i.names ELSE {<<"b", "x">>, <<"c", "x">>},
                                        readable |-> TRUE, ocsp |-> "good"]],
     default |-> "c1", defaultProtos |-> i.defaultProtos, cas |-> {"ca"}, crlDir |-> TRUE]
ServerTlsInputs ==
    {[of |-> "tls", protos |-> ps, snis |-> s1, vips |-> v1, names |-> n1, defaultProtos |-> dp,
      conn |-> [vip |-> v, sni |-> s, hash |-> h], said |-> said] :
        ps \in ProtoLists, s1 \in {{<<"a", "x">>}, {<<"a", "x">>, <<"d", "x">>}, {<<"b", "x">>}}, v1 \in {{"v1"}, {"v1", "v2"}},
        n1 \in CertNames, dp \in {<<>>, <<P("h2", Rate(1)), P("http/1.1", NoParams)>>},
        v \in {"none", "v1"}, s \in {<<>>, <<"a", "x">>, <<"A", "x">>, <<"d", "x">>}, h \in {0, 1}, said \in {"", "-h2"}}
    \cup {[of |-> "server", port |-> p, acceptNum |-> a, handshake |-> hs, read |-> r, shutdown |-> sd, monitor |-> mo,
           uri |-> u, bodySize |-> bs, layer4 |-> l, max |-> max, min |-> min, groups |-> g] :
        p \in {80}, a \in {-1, 0, 2}, hs \in {1200}, r \in {0, 60}, sd \in {300, 301}, mo \in {-1, 7, 20, 25, 30, 61},
        u \in {1}, bs \in {0, MaxBodySize, MaxBodySize + 1}, l \in {""}, max \in {"", "TLS11"},
        min \in {"", "TLS12", "odd"}, g \in {<<<<"s1", "s2">>, <<"s3">>>>}}

(* A configuration that passes the checks serves every connection: one     *)
(* that has a rule by its address gets the certificate of that rule, one   *)
(* that has it by its name gets a certificate that covers the name; some   *)
(* protocol is always offered, the mandatory one alone where there is one  *)
(* and HTTP/1.1 everywhere else; and the basic values are ones the server  *)
(* can run with (tlsConfLoad, MultiCertMap.Get, NextProtosConf.Get).       *)
AcceptedServes ==
    /\ Given("tls") =>
        LET c == TlsConf(input)
            rule == getRule(c, input.conn)
            on == enableTLSNextProto({"h2", "spdy/3.1"}, input.said)
            protos == NextProtosGet(rule, input.conn, on)
            must == NextProtosMandatory(rule)
        IN  tlsConfLoad(c) =>
            /\ \A n \in MultiCertGet(c, input.conn) :
                 rule.by # "none" => IF input.conn.vip \in c.rules[rule.by].vips THEN n = c.rules[rule.by].cert
                                     ELSE MatchCertNames(c.certs[n].names, input.conn.sni)
            /\ IF must # "none" THEN protos = <<must>> ELSE "http/1.1" \in Range(protos)
    /\ Given("server") =>
        LET b == basicConfCheck(input)
            v == tlsVersionCheck(input)
            suites == GetCipherSuites(input.groups)
        IN  /\ b.ok => b.accept > 0 /\ b.monitor \in {20, 30, 60} /\ b.body \in 1..MaxBodySize
                       /\ \A k \in DOMAIN InitConfig(input) : InitConfig(input)[k] > 0
            /\ v.ok => Rank(v.min) \in 1..Rank(v.max)
            /\ cipherSuitesCheck(input.groups) => \A i \in 1..(Len(suites) - 1) : suites[i].pri <= suites[i + 1].pri
=============================================================================
