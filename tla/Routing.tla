------------------------------- MODULE Routing -------------------------------
(***************************************************************************)
(* From a request to its product and its cluster: the host table (a trie   *)
(* of host labels), the virtual addresses, the tree of basic rules, the    *)
(* list of advanced rules, and the checks made when the files are loaded.  *)
(* A host is its labels from the last to the first, "*" the wildcard; a    *)
(* path is its elements, "*" at the end the wildcard.                      *)
(***************************************************************************)
EXTENDS Integers, Sequences, SequencesExt, FiniteSets, Sample

CONSTANT AdvancedMode      \* the cluster name that sends a request to the advanced rules

-----------------------------------------------------------------------------
(* The trie of hosts.                                                      *)

\* The rules of a node: its own entry and the one of the wildcard below it,
\* for every prefix of the hosts that were set.
Trie(rules) ==
    LET hosts == DOMAIN rules
        nodes == UNION {{SubSeq(h, 1, n) : n \in 0..Len(h)} : h \in hosts}
    IN  [p \in nodes |-> [entry |-> IF p \in hosts THEN {rules[p]} ELSE {},
                          splat |-> IF Append(p, "*") \in hosts THEN {rules[Append(p, "*")]} ELSE {}]]

\* Get from the node at depth n: the entry at the end of the host, else the
\* wildcard nearest to it.
BadTrieGet(trie, host) ==
    LET get[n \in 0..Len(host)] ==
            LET node == trie[SubSeq(host, 1, n)]
            IN  IF SubSeq(host, 1, n) \notin DOMAIN trie THEN {}
                ELSE IF n = Len(host) THEN node.entry
                ELSE IF node.splat # {} THEN node.splat ELSE get[n + 1]
    IN  get[0]
TrieGet(trie, host) ==
    LET get[n \in 0..Len(host)] ==
            IF SubSeq(host, 1, n) \notin DOMAIN trie THEN {}
            ELSE LET node == trie[SubSeq(host, 1, n)]
                 IN  IF n = Len(host) THEN node.entry
                     ELSE IF get[n + 1] # {} THEN get[n + 1] ELSE node.splat
    IN  get[0]

-----------------------------------------------------------------------------
(* The host table.                                                         *)

\* HostTableConfCheck, then HostRuleConfLoad: every tag of a host belongs to a
\* product, the default product has tags, no host is named twice.
HostTableConfCheck(f) ==
    /\ f.version /\ \A t \in DOMAIN f.hosts : \E p \in DOMAIN f.tags : t \in Range(f.tags[p])
    /\ f.default # "none" => f.default \in DOMAIN f.tags
Places(f) == UNION {{<<t, i>> : i \in DOMAIN f.hosts[t]} : t \in DOMAIN f.hosts}
HostRuleConfLoad(f) ==
    LET names(x) == f.hosts[x[1]][x[2]]
    IN  [ok |-> HostTableConfCheck(f) /\ \A x, y \in Places(f) : x # y => names(x) # names(y),
         hosts |-> {<<names(x), x[1]>> : x \in Places(f)},
         products |-> [t \in UNION {Range(f.tags[p]) : p \in DOMAIN f.tags} |-> {p \in DOMAIN f.tags : t \in Range(f.tags[p])}],
         default |-> f.default]

\* VipTableConfCheck and VipRuleConfLoad: an address that does not parse
\* refuses the file; the same address is written in one form.
VipRuleConfLoad(f) ==
    [ok |-> f.version /\ \A p \in DOMAIN f.vips : "junk" \notin Range(f.vips[p]),
     vips |-> [v \in UNION {Range(f.vips[p]) : p \in DOMAIN f.vips} |-> {p \in DOMAIN f.vips : v \in Range(f.vips[p])}]]

buildHostRoute(conf) ==
    Trie([h \in {x[1] : x \in conf.hosts} |-> CHOOSE p \in conf.products[CHOOSE t \in {x[2] : x \in conf.hosts} : <<h, t>> \in conf.hosts] : TRUE])
findHostRoute(conf, host) == TrieGet(buildHostRoute(conf), host)
findVipRoute(vip, v) == IF v \in DOMAIN vip THEN {CHOOSE p \in vip[v] : TRUE} ELSE {}

\* The product of a request: by its host, by the address it came to, else the
\* default product.
LookupHostTagAndProduct(conf, vip, q) ==
    LET host == findHostRoute(conf, q.host)
        addr == IF q.vip = "none" THEN {} ELSE findVipRoute(vip, q.vip)
    IN  IF host # {} THEN host ELSE IF addr # {} THEN addr
        ELSE IF conf.default # "none" THEN {conf.default} ELSE {}

-----------------------------------------------------------------------------
(* The basic rules.                                                        *)

checkHostInBasicRule(h) ==
    h # <<>> /\ \A i \in DOMAIN h : h[i] = "*" => i = Len(h)
checkPathInBasicRule(p) ==
    p # <<>> /\ \A i \in DOMAIN p : p[i] = "*" => i = Len(p)

\* A host is kept in the exact tree or, without its star, in the wildcard tree.
hostKey(h) == IF Last(h) = "*" THEN <<"wild", Front(h)>> ELSE <<"exact", h>>
pathKey(p) == IF Last(p) = "*" THEN <<"wild", Front(p)>> ELSE <<"exact", p>>
hostsOf(r) == IF r.hosts = <<>> THEN {<<"*">>} ELSE Range(r.hosts)
pathsOf(r) == IF r.paths = <<>> THEN {<<"*">>} ELSE Range(r.paths)
\* The tree of the rules; a path given twice for a host refuses them.
Insert(rules) ==
    LET leaves == UNION {{<<hostKey(h), pathKey(p), i>> : h \in hostsOf(rules[i]), p \in pathsOf(rules[i])} : i \in DOMAIN rules}
    IN  [ok |-> \A x, y \in leaves : x[1] = y[1] /\ x[2] = y[2] => x = y,
         leaf |-> {<<x[1], x[2], rules[x[3]].cluster>> : x \in leaves}]

LongestOf(S) == CHOOSE s \in S : \A t \in S : Len(t) <= Len(s)
\* The host's node: the exact host; else the longest wildcard it ends with, if
\* one label is left for the star; else the rule for every host.
hostGet(tree, host) ==
    LET keys == {x[1] : x \in tree.leaf}
        wild == {k[2] : k \in {k \in keys : k[1] = "wild" /\ IsPrefix(k[2], host) /\ (k[2] = <<>> \/ Len(k[2]) < Len(host))}}
    IN  IF <<"exact", host>> \in keys THEN {<<"exact", host>>}
        ELSE IF wild = {} THEN {}
        ELSE IF Len(host) - Len(LongestOf(wild)) <= 1 THEN {<<"wild", LongestOf(wild)>>}
        ELSE IF <<>> \in wild THEN {<<"wild", <<>>>>} ELSE {}
\* The path's leaf: the exact path, else the longest prefix by elements.
pathGet(tree, node, path) ==
    LET leaves == {x \in tree.leaf : x[1] = node}
        wild == {x[2][2] : x \in {x \in leaves : x[2][1] = "wild" /\ IsPrefix(x[2][2], path)}}
        key == IF \E x \in leaves : x[2] = <<"exact", path>> THEN {<<"exact", path>>}
               ELSE IF wild = {} THEN {} ELSE {<<"wild", LongestOf(wild)>>}
    IN  {x[3] : x \in {x \in leaves : x[2] \in key}}
BasicGet(tree, host, path) ==
    LET node == hostGet(tree, host)
    IN  IF node = {} THEN {} ELSE pathGet(tree, CHOOSE n \in node : TRUE, path)

\* Convert: the rules of every product, basic and advanced.
convertBasicRule(rules) ==
    [ok |-> /\ \A i \in DOMAIN rules : /\ rules[i].cluster # "none" /\ ~(rules[i].hosts = <<>> /\ rules[i].paths = <<>>)
                                       /\ \A h \in Range(rules[i].hosts) : checkHostInBasicRule(h)
                                       /\ \A p \in Range(rules[i].paths) : checkPathInBasicRule(p)
            /\ Insert(rules).ok,
     tree |-> Insert(rules)]
convertAdvancedRule(rules) == \A i \in DOMAIN rules : rules[i].cluster # "none" /\ rules[i].cond # "unbuildable"

\* LookupCluster: the basic rules, unless they find none or the advanced mode;
\* then the first advanced rule whose condition holds.
LookupCluster(tables, product, q) ==
    LET basic == IF product \in DOMAIN tables.basic THEN BasicGet(convertBasicRule(tables.basic[product]).tree, q.host, q.path) ELSE {}
        hits(rs) == {i \in DOMAIN rs : rs[i].cond \in q.true}
    IN  IF basic # {} /\ basic # {AdvancedMode} THEN basic
        ELSE IF product \notin DOMAIN tables.advanced \/ hits(tables.advanced[product]) = {} THEN {}
        ELSE LET rs == tables.advanced[product]
             IN  {rs[CHOOSE i \in hits(rs) : \A j \in hits(rs) : i <= j].cluster}

\* check of the whole configuration: the products of the rules have hosts, and
\* their clusters exist.
check(host, tables, clusters) ==
    LET products == UNION {host.products[t] : t \in DOMAIN host.products}
    IN  /\ DOMAIN tables.basic \cup DOMAIN tables.advanced \subseteq products
        /\ \A p \in DOMAIN tables.advanced : \A i \in DOMAIN tables.advanced[p] : tables.advanced[p][i].cluster \in clusters
        /\ \A p \in DOMAIN tables.basic : \A i \in DOMAIN tables.basic[p] :
                tables.basic[p][i].cluster = AdvancedMode \/ tables.basic[p][i].cluster \in clusters
LoadServerDataConf(f) ==
    /\ HostRuleConfLoad(f.host).ok /\ VipRuleConfLoad(f.vip).ok
    /\ \A p \in DOMAIN f.tables.basic : convertBasicRule(f.tables.basic[p]).ok
    /\ \A p \in DOMAIN f.tables.advanced : convertAdvancedRule(f.tables.advanced[p])
    /\ check(HostRuleConfLoad(f.host), f.tables, f.clusters)

-----------------------------------------------------------------------------
Labels == {"com", "x", "y"}
Hosts == UNION {[1..n -> Labels] : n \in 1..3}
HostRules == {<<"com">>, <<"com", "x">>, <<"com", "*">>, <<"com", "x", "*">>, <<"*">>, <<"com", "x", "y">>}
Elements == {"", "a", "b"}
ReqPaths == UNION {[1..n -> {"a", "b"}] : n \in 0..2}
PathRules == {<<"a">>, <<"a", "*">>, <<"*">>, <<"a", "b", "*">>, <<"*", "a">>}
BasicRule(hs, ps, c) == [hosts |-> hs, paths |-> ps, cluster |-> c]
RoutingInputs ==
    {[of |-> "trie", rules |-> [h \in H |-> h], host |-> q] : H \in SUBSET HostRules, q \in Hosts}
    \cup {[of |-> "basic", rules |-> <<BasicRule(<<h1>>, <<p1>>, "c1"), BasicRule(h2, <<p2>>, "c2"), BasicRule(<<<<"*">>>>, <<>>, "c3")>>,
           host |-> q, path |-> p] :
            h1 \in HostRules, p1 \in PathRules, h2 \in {<<>>, <<<<"com", "*">>>>, <<<<"com", "x">>>>}, p2 \in PathRules,
            q \in {<<"com", "x">>, <<"com", "y">>, <<"com", "x", "y">>, <<"x">>}, p \in ReqPaths}
    \cup {[of |-> "conf", clusters |-> cs, true |-> tr, host |-> q, path |-> p, vip |-> v,
           f |-> [clusters |-> cs,
                  host |-> [version |-> TRUE, default |-> d, hosts |-> [t1 |-> <<<<"com">>>>, t2 |-> <<h>>], tags |-> tg],
                  vip |-> [version |-> TRUE, vips |-> [P2 |-> <<va>>]],
                  tables |-> [basic |-> [P1 |-> <<BasicRule(<<<<"com">>>>, <<>>, c1), BasicRule(<<>>, <<<<"a">>>>, "k2")>>],
                              advanced |-> [P1 |-> <<[cluster |-> "k1", cond |-> "u"], [cluster |-> c2, cond |-> "w"]>>]]]] :
            cs \in {{"k1", "k2"}, {"k1", "k2", "k3"}}, tr \in SUBSET {"u", "w"}, q \in {<<"com">>, <<"com", "x">>, <<"y">>},
            p \in {<<>>, <<"a">>}, v \in {"none", "v1"}, d \in {"none", "P1", "P9"}, h \in {<<"com">>, <<"com", "*">>},
            tg \in {[P1 |-> <<"t1">>, P2 |-> <<"t2">>], [P1 |-> <<"t1", "t2">>], [P2 |-> <<"t1">>]}, va \in {"v1", "junk"},
            c1 \in {AdvancedMode, "k1"}, c2 \in {"k3", "none"}}

\* How specific a rule of hosts is for a host, -1 when it does not cover it.
Covers(r, host) ==
    IF Last(r) # "*" THEN (IF r = host THEN 10 ELSE -1)
    ELSE IF IsPrefix(Front(r), host) /\ Len(host) >= Len(r) THEN Len(r) ELSE -1
\* A host rule of the basic table: one label stands for the star, except in the
\* rule of every host.
CoversOne(r, host) ==
    IF Covers(r, host) = -1 \/ (Last(r) = "*" /\ r # <<"*">> /\ Len(host) # Len(r)) THEN -1 ELSE Covers(r, host)
CoversPath(r, path) ==
    IF Last(r) # "*" THEN (IF r = path THEN 10 ELSE -1) ELSE IF IsPrefix(Front(r), path) THEN Len(r) ELSE -1

\* Routing finds the most specific rule: the trie the host rule that covers a
\* host most closely, the basic rules the host first and then the path within
\* it, without another host's rules when the path fits none; and in a
\* configuration that was accepted every request that finds a cluster finds
\* one that exists, with a product that was configured.
RoutesResolve ==
    /\ Given("trie") =>
        LET found == TrieGet(Trie(input.rules), input.host)
            best == {r \in DOMAIN input.rules : /\ Covers(r, input.host) # -1
                                                /\ \A s \in DOMAIN input.rules : Covers(s, input.host) <= Covers(r, input.host)}
        IN  found = best
    /\ Given("basic") /\ convertBasicRule(input.rules).ok =>
        LET rs == input.rules
            hs == {h \in UNION {hostsOf(rs[i]) : i \in DOMAIN rs} : CoversOne(h, input.host) # -1}
            h == CHOOSE h \in hs : \A g \in hs : CoversOne(g, input.host) <= CoversOne(h, input.host)
            of(i) == {p \in pathsOf(rs[i]) : h \in hostsOf(rs[i]) /\ CoversPath(p, input.path) # -1}
            ps == UNION {of(i) : i \in DOMAIN rs}
            p == CHOOSE p \in ps : \A g \in ps : CoversPath(g, input.path) <= CoversPath(p, input.path)
        IN  BasicGet(convertBasicRule(rs).tree, input.host, input.path)
                = IF hs = {} \/ ps = {} THEN {} ELSE {rs[i].cluster : i \in {i \in DOMAIN rs : p \in of(i)}}
    /\ Given("conf") /\ LoadServerDataConf(input.f) =>
        LET host == HostRuleConfLoad(input.f.host)
            product == LookupHostTagAndProduct(host, VipRuleConfLoad(input.f.vip).vips, input)
            cluster == LookupCluster(input.f.tables, CHOOSE p \in product : TRUE, input)
        IN  product # {} => /\ cluster \subseteq input.clusters
                            /\ input.vip = "none" => product \subseteq DOMAIN input.f.host.tags
=============================================================================
