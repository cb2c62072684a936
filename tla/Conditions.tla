----------------------------- MODULE Conditions ------------------------------
(***************************************************************************)
(* The condition language of the rules: the grammar, the check of the      *)
(* primitives' prototypes, and what each primitive fetches from a request  *)
(* and matches.  A letter is a number, its upper case ten more; 0 is "/".  *)
(***************************************************************************)
EXTENDS Integers, Sequences, SequencesExt, FiniteSets, Sample

CONSTANTS
    HashBuckets,    \* HashMatcherBucketSize
    DaySeconds      \* the seconds of a day

-----------------------------------------------------------------------------
(* The grammar.                                                            *)

\* The tokens: names of primitives, the operators and the parentheses.
Operands == {"a", "b", "c"}
\* %left LAND, then %left LOR, then %right NOT: a later line binds tighter.
Precedence == ("&&" :> 1) @@ ("||" :> 2) @@ ("!" :> 3)

Leaf(t) == [op |-> t, x |-> <<>>]
IsExpr(e) == e.op \notin {"(", ")"} /\ (e.op \in Operands \/ e.x # <<>>)
\* The reductions the parser makes before it shifts a token of precedence p.
RECURSIVE Reduce(_, _)
Reduce(st, p) ==
    LET n == Len(st)
    IN  IF n >= 3 /\ IsExpr(st[n]) /\ st[n - 1].x = <<>> /\ st[n - 1].op \in {"&&", "||"} /\ IsExpr(st[n - 2])
           /\ Precedence[st[n - 1].op] >= p
        THEN Reduce(Append(SubSeq(st, 1, n - 3), [op |-> st[n - 1].op, x |-> <<st[n - 2], st[n]>>]), p)
        ELSE IF n >= 2 /\ IsExpr(st[n]) /\ st[n - 1].op = "!" /\ st[n - 1].x = <<>> /\ 3 >= p
        THEN Reduce(Append(SubSeq(st, 1, n - 2), [op |-> "!", x |-> <<st[n]>>]), p)
        ELSE st

\* One token of the input; a state that cannot take it is an error.
Closing(s, st, n) ==
    IF n >= 2 /\ st[n - 1].op = "(" THEN [s EXCEPT !.st = Append(SubSeq(st, 1, n - 2), [op |-> "()", x |-> <<st[n]>>])]
    ELSE [s EXCEPT !.err = TRUE]
Reduced(s, st) == Closing(s, st, Len(st))
Taken(s, t, ends) ==
    CASE t \in Operands \cup {"!", "("} -> [s EXCEPT !.err = @ \/ ends, !.st = Append(@, Leaf(t))]
      [] t \in {"&&", "||"} /\ ends -> [s EXCEPT !.st = Append(Reduce(@, Precedence[t]), Leaf(t))]
      [] t = ")" /\ ends -> Reduced(s, Reduce(s.st, 0))
      [] OTHER -> [s EXCEPT !.err = TRUE]
condParse(s, t) == Taken(s, t, s.st # <<>> /\ IsExpr(Last(s.st)))
Accepted(err, end) == [ok |-> ~err /\ Len(end) = 1 /\ IsExpr(end[1]), ast |-> end]
ParseEnd(s) == Accepted(s.err, Reduce(s.st, 0))
Parse(tokens) == ParseEnd(FoldLeft(condParse, [st |-> <<>>, err |-> FALSE], tokens))

\* Match of a composite condition for the truth of its primitives.
RECURSIVE MatchNode(_, _)
MatchNode(e, true) ==
    CASE e.op = "!" -> ~MatchNode(e.x[1], true)
      [] e.op = "&&" -> MatchNode(e.x[1], true) /\ MatchNode(e.x[2], true)
      [] e.op = "||" -> MatchNode(e.x[1], true) \/ MatchNode(e.x[2], true)
      [] e.op = "()" -> MatchNode(e.x[1], true)
      [] OTHER -> e.op \in true

\* What an expression means when the operators low, the loosest, and high are
\* read from left to right: the last operator outside parentheses that binds
\* loosest is applied last.
Depth(t, i) == Cardinality({j \in 1..i : t[j] = "("}) - Cardinality({j \in 1..i : t[j] = ")"})
\* The place of the last op outside parentheses, 0 if there is none.
LastOf(t, op) == FoldLeft(LAMBDA at, i : IF t[i] = op /\ Depth(t, i) = 0 THEN i ELSE at, 0, [i \in 1..Len(t) |-> i])
RECURSIVE Means(_, _, _)
Applied(op, x, y) == IF op = "&&" THEN x /\ y ELSE x \/ y
MeansAt(t, true, loose, i, k) ==
    IF i > 0 \/ k > 0
    THEN LET m == IF i > 0 THEN i ELSE k
         IN  Applied(t[m], Means(SubSeq(t, 1, m - 1), true, loose), Means(SubSeq(t, m + 1, Len(t)), true, loose))
    ELSE CASE t[1] = "!" -> ~Means(Tail(t), true, loose)
           [] t[1] = "(" -> Means(SubSeq(t, 2, Len(t) - 1), true, loose)
           [] OTHER -> t[1] \in true
Means(t, true, loose) ==
    MeansAt(t, true, loose, LastOf(t, loose), LastOf(t, IF loose = "&&" THEN "||" ELSE "&&"))
MeansSame(t, r, loose) == r.ok => \A true \in SUBSET Operands : MatchNode(r.ast[1], true) = Means(t, true, loose)

-----------------------------------------------------------------------------
(* The matchers.                                                           *)

ToUpper(w) == [i \in DOMAIN w |-> IF w[i] \in 1..9 THEN w[i] + 10 ELSE w[i]]
Before(v, w) ==
    \E n \in 0..Len(v) : n < Len(w) /\ SubSeq(v, 1, n) = SubSeq(w, 1, n) /\ (n = Len(v) \/ v[n + 1] < w[n + 1])
Folded(patterns, fold) == IF fold THEN [i \in DOMAIN patterns |-> ToUpper(patterns[i])] ELSE patterns

\* The patterns of the matchers, made ready once: folded, sorted where they are
\* searched by bisection, ended by a slash where path elements are compared.
BadNewInMatcher(patterns, fold) == Folded(patterns, fold)
NewInMatcher(patterns, fold) == SortSeq(Folded(patterns, fold), Before)
NewPrefixInMatcher(patterns, fold) == Folded(patterns, fold)
NewSuffixInMatcher(patterns, fold) == Folded(patterns, fold)
NewContainMatcher(patterns, fold) == Folded(patterns, fold)
Slashed(w) == IF w # <<>> /\ Last(w) = 0 THEN w ELSE Append(w, 0)
NewPathElementPrefixMatcher(patterns, fold) == Folded([i \in DOMAIN patterns |-> Slashed(patterns[i])], fold)

\* sort.SearchStrings: the place where v is or would be.
RECURSIVE SearchStrings(_, _, _, _)
SearchStrings(p, v, lo, hi) ==
    IF lo >= hi THEN lo
    ELSE LET mid == (lo + hi) \div 2
         IN  IF Before(p[mid + 1], v) THEN SearchStrings(p, v, mid + 1, hi) ELSE SearchStrings(p, v, lo, mid)
IsAt(v, p, i) == i < Len(p) /\ p[i + 1] = v
in(v, p) == IsAt(v, p, SearchStrings(p, v, 0, Len(p)))
prefixIn(v, p) == \E i \in DOMAIN p : IsPrefix(p[i], v)
suffixIn(v, p) == \E i \in DOMAIN p : IsSuffix(p[i], v)
contain(v, p) == \E i \in DOMAIN p : \E k \in 0..Len(v) : IsPrefix(p[i], SubSeq(v, k + 1, Len(v)))

InMatcher(v, patterns, fold) == in(IF fold THEN ToUpper(v) ELSE v, NewInMatcher(patterns, fold))
PrefixInMatcher(v, patterns, fold) == prefixIn(IF fold THEN ToUpper(v) ELSE v, NewPrefixInMatcher(patterns, fold))
SuffixInMatcher(v, patterns, fold) == suffixIn(IF fold THEN ToUpper(v) ELSE v, NewSuffixInMatcher(patterns, fold))
ContainMatcher(v, patterns, fold) == contain(IF fold THEN ToUpper(v) ELSE v, NewContainMatcher(patterns, fold))
PathElementPrefixMatcher(v, patterns, fold) ==
    prefixIn(IF fold THEN ToUpper(Slashed(v)) ELSE Slashed(v), NewPathElementPrefixMatcher(patterns, fold))

\* Sections of buckets, each a number or a range; one that is out of bounds or
\* backwards refuses the whole condition.
NewHashMatcher(sections) ==
    [ok |-> \A i \in DOMAIN sections : sections[i].lo <= sections[i].hi /\ {sections[i].lo, sections[i].hi} \subseteq 0..(HashBuckets - 1),
     buckets |-> UNION {sections[i].lo..sections[i].hi : i \in DOMAIN sections}]
HashValueMatcher(m, hash) == (hash % HashBuckets) \in m.buckets

\* Addresses of four bytes are compared in their sixteen-byte form.
To16(ip) == IF ip.v = 4 THEN 100 + ip.n ELSE ip.n
NewIPMatcher(s, e) == [ok |-> s.v = e.v /\ To16(s) <= To16(e), lo |-> To16(s), hi |-> To16(e)]
IPMatcher(m, ip) == m.lo <= To16(ip) /\ To16(ip) <= m.hi
IpInMatcher(patterns, ip) == \E i \in DOMAIN patterns : To16(patterns[i]) = To16(ip)

\* Times: one range, a range of every day in a zone, days of the week in a zone.
NewTimeMatcher(s, e) == [ok |-> s <= e, lo |-> s, hi |-> e]
TimeMatcher(m, t) == m.lo <= t /\ t <= m.hi
NewPeriodicTimeMatcher(s, e, offS, offE, period) == [ok |-> ~period /\ s <= e /\ offS = offE, lo |-> s, hi |-> e, off |-> offS]
PeriodicTimeMatcher(m, t) == LET s == (t + m.off) % DaySeconds IN m.lo <= s /\ s <= m.hi
NewWeekdayMatcher(days, off) == [ok |-> days # <<>> /\ Range(days) \subseteq 0..6, days |-> Range(days), off |-> off]
WeekdayMatcher(m, t) == (((t + m.off) \div DaySeconds) % 7) \in m.days

-----------------------------------------------------------------------------
(* The primitives: what is fetched, how it is matched, and from which of its *)
(* arguments the key, the patterns and the case come.                        *)

Valued == {"query_value", "cookie_value", "header_value"}
Strings == ({"path"} \X {"in", "prefix_in", "suffix_in", "contain", "element_prefix_in"})
           \cup (Valued \X {"in", "prefix_in", "suffix_in", "contain"})
           \cup {<<"body_json", "in">>, <<"body_json", "prefix_in">>, <<"context_value", "in">>, <<"res_header_value", "in">>}
Keyed(p) == p[1] \in Valued \cup {"body_json", "context_value", "res_header_value"}
Fixed == {<<"host", "in">>, <<"host_tag", "in">>, <<"host", "suffix_in">>, <<"proto", "match">>, <<"port", "in">>, <<"method", "in">>,
          <<"res_code", "in">>, <<"sni", "in">>, <<"client_ca", "in">>}
FoldsAlways == {<<"host", "in">>, <<"host_tag", "in">>, <<"host", "suffix_in">>, <<"proto", "match">>, <<"method", "in">>, <<"sni", "in">>}
Regexes == ({"host", "path", "url", "ua"} \cup {"query_value", "header_value"}) \X {"regmatch"}
Hashes == (Valued \cup {"cip"}) \X {"hash_in"}
Ranges == {"vip", "cip", "sip", "time", "periodic_time"} \X {"range"}
KeysIn == {<<"query_key", "in">>, <<"query_key", "prefix_in">>, <<"cookie_key", "in">>, <<"header_key", "in">>, <<"res_header_key", "in">>,
           <<"vip", "in">>}
Bare == {"default_t", "cip_trusted", "proto_secure", "query_exist", "tls_client_auth"} \X {"is"}
Others == {<<"tag", "match">>, <<"weekday", "in">>, <<"body", "larger_than">>, <<"body", "less_than">>, <<"ai_intent", "in">>}
Primitives == Strings \cup Fixed \cup Regexes \cup Hashes \cup Ranges \cup KeysIn \cup Bare \cup Others

\* funcProtos: the kinds of the arguments, and the two whose last may be left out.
funcProtos(p) ==
    CASE p \in Strings -> IF Keyed(p) THEN <<"s", "s", "b">> ELSE <<"s", "b">>
      [] p \in Hashes -> IF p[1] = "cip" THEN <<"s">> ELSE <<"s", "s", "b">>
      [] p \in Regexes -> IF p[1] \in Valued THEN <<"s", "s">> ELSE <<"s">>
      [] p \in Ranges -> IF p[1] = "periodic_time" THEN <<"s", "s", "s">> ELSE <<"s", "s">>
      [] p \in Fixed \cup KeysIn -> <<"s">>
      [] p \in Bare -> <<>>
      [] p[1] = "body" -> <<"i">>
      [] p[1] = "ai_intent" -> <<"s", "s", "f">>
      [] OTHER -> <<"s", "s">>
optionalLastArg == {<<"ai_intent", "in">>, <<"weekday", "in">>}
prototypeCheck(p, args) ==
    LET proto == funcProtos(p)
    IN  /\ Len(args) = Len(proto) \/ (p \in optionalLastArg /\ Len(args) = Len(proto) - 1)
        /\ \A i \in DOMAIN args : args[i] = proto[i]

\* buildPrimitive: the arguments it takes without asking how many there are.
buildPrimitive(p, args) ==
    CASE p \in Strings -> IF Keyed(p) THEN {1, 2, 3} ELSE {1, 2}
      [] p \in Hashes -> IF p[1] = "cip" THEN {1} ELSE {1, 2, 3}
      [] p \in Regexes -> IF p[1] \in Valued THEN {1, 2} ELSE {1}
      [] p \in Ranges -> IF p[1] = "periodic_time" THEN {1, 2, 3} ELSE {1, 2}
      [] p \in Fixed \cup KeysIn \/ p[1] = "body" -> {1}
      [] p \in Bare -> {}
      [] p[1] = "ai_intent" -> {1, 2} \cup (IF Len(args) = 3 THEN {3} ELSE {})
      [] p[1] = "weekday" -> {1} \cup (IF Len(args) = 2 THEN {2} ELSE {})
      [] OTHER -> {1, 2}

\* What a fetcher finds in a request: nothing when the part is absent, except
\* for a query or a header, which are then the empty string.
Fetch(p, r) ==
    CASE p[1] \in {"query_value", "header_value"} -> [ok |-> TRUE, v |-> IF r.present THEN r.v ELSE <<>>]
      [] p[1] = "res_header_value" -> [ok |-> r.response, v |-> IF r.present THEN r.v ELSE <<>>]
      [] p[1] = "sni" -> [ok |-> r.secure /\ r.present /\ r.v # <<>>, v |-> r.v]
      [] OTHER -> [ok |-> r.present, v |-> r.v]
MatchWith(p, v, patterns, fold) ==
    CASE p[2] \in {"in", "match"} -> InMatcher(v, patterns, fold)
      [] p[2] = "prefix_in" -> PrefixInMatcher(v, patterns, fold)
      [] p[2] = "suffix_in" -> SuffixInMatcher(v, patterns, fold)
      [] p[2] = "contain" -> ContainMatcher(v, patterns, fold)
      [] OTHER -> PathElementPrefixMatcher(v, patterns, fold)
\* Match of a primitive: what cannot be fetched does not match.
MatchFound(p, f, patterns, fold) == f.ok /\ MatchWith(p, f.v, patterns, fold)
Match(p, r, patterns, arg) == MatchFound(p, Fetch(p, r), patterns, IF p \in Strings THEN arg ELSE p \in FoldsAlways)

-----------------------------------------------------------------------------
Letters == {0, 1, 11}
Words == UNION {[1..n -> Letters] : n \in 0..2}
Args == UNION {[1..n -> {"s", "b", "i", "f"}] : n \in 0..3}
IPs == [v : {4}, n : 0..2] \cup [v : {6}, n : {0, 101, 300}]
\* The operands of a form, each with a name of its own as far as there are.
Named(t) == [i \in DOMAIN t |-> IF t[i] # "x" THEN t[i]
                                ELSE CASE Cardinality({j \in 1..i : t[j] = "x"}) = 1 -> "a"
                                       [] Cardinality({j \in 1..i : t[j] = "x"}) = 2 -> "b" [] OTHER -> "c"]
Forms == UNION {[1..n -> {"x", "!", "&&", "||", "(", ")"}] : n \in 1..5}
LongForms == {<<"(", "x", o, "x", ")", q, "x">> : o \in {"&&", "||"}, q \in {"&&", "||"}}
             \cup {<<"!", "x", o, "!", "x", q, "x">> : o \in {"&&", "||"}, q \in {"&&", "||"}}
ConditionInputs ==
    {[of |-> "tokens", t |-> Named(t)] : t \in LongForms}
    \cup [of : {"tokens"}, t : {Named(t) : t \in Forms}]
    \cup [of : {"call"}, p : Primitives, args : Args]
    \cup [of : {"match"}, r : [present : BOOLEAN, v : Words, response : BOOLEAN, secure : {TRUE}], fold : BOOLEAN,
           p : {<<"path", "in">>, <<"path", "element_prefix_in">>, <<"path", "suffix_in">>, <<"cookie_value", "prefix_in">>,
                <<"header_value", "contain">>, <<"port", "in">>, <<"res_header_value", "in">>},
           patterns : {<<w>> : w \in Words} \cup {<<<<1>>, w>> : w \in Words} \cup {<<<<1, 1>>, <<11>>, w>> : w \in Words}]
    \cup [of : {"hash"}, hash : 0..(2 * HashBuckets),
           sections : UNION {[1..n -> [lo : -1..HashBuckets, hi : 0..HashBuckets]] : n \in 1..2}]
    \cup [of : {"ip"}, s : IPs, e : IPs, ip : IPs]
    \cup [of : {"time"}, s : 0..(DaySeconds - 1), e : 0..(DaySeconds - 1), t : DaySeconds..(2 * DaySeconds), off : {-1, 0, 1},
           days : {<<>>, <<1>>, <<1, 2>>, <<7>>}]

Same(v, w, fold) == IF fold THEN ToUpper(v) = ToUpper(w) ELSE v = w
\* What a primitive's name says of the value v and one pattern w.
Says(p, v, w, fold) ==
    LET cut(i, j) == SubSeq(v, i, j)
    IN  CASE p[2] = "in" -> Same(v, w, fold)
          [] p[2] = "prefix_in" -> Len(w) <= Len(v) /\ Same(cut(1, Len(w)), w, fold)
          [] p[2] = "suffix_in" -> Len(w) <= Len(v) /\ Same(cut(Len(v) - Len(w) + 1, Len(v)), w, fold)
          [] p[2] = "contain" -> \E i \in 1..(Len(v) + 1) : i + Len(w) - 1 <= Len(v) /\ Same(cut(i, i + Len(w) - 1), w, fold)
          [] OTHER -> LET b == Slashed(w) IN Len(b) <= Len(Slashed(v)) /\ Same(SubSeq(Slashed(v), 1, Len(b)), b, fold)

\* What a fetcher must find for p to hold of a request r, and where.
There(p, r) == IF p[1] = "res_header_value" THEN r.response ELSE p[1] = "header_value" \/ r.present
SaidOf(i, v) == \E k \in DOMAIN i.patterns : Says(i.p, v, i.patterns[k], i.fold /\ i.p[1] # "port")
InSections(i, m) ==
    m.ok => (HashValueMatcher(m, i.hash)
             <=> \E s \in DOMAIN i.sections : \E k \in 0..2 : i.hash - k * HashBuckets \in i.sections[s].lo..i.sections[s].hi)
OutOfRange(i, m) == m.ok /\ i.s.v = 4 /\ i.ip = [v |-> 6, n |-> 300] => ~IPMatcher(m, i.ip)
InPeriod(i, m, local) == m.ok => (PeriodicTimeMatcher(m, i.t) <=> \E day \in 0..3 : local - day * DaySeconds \in i.s..i.e)
OnDay(i, w, local) == w.ok => (WeekdayMatcher(w, i.t) <=> \E k \in DOMAIN i.days : local \div DaySeconds = i.days[k])

\* A condition means what the grammar and the primitives' names say: an
\* accepted expression has the value its operators give it, || binding tighter
\* than &&, a call that passed the prototype check has every argument build
\* takes, a string primitive holds exactly when its part is there and one of
\* the patterns matches, in the case the rule asks for, and ranges of hashes,
\* addresses and times include both their ends.
ConditionMeans ==
    /\ Given("tokens") => MeansSame(input.t, Parse(input.t), "&&")
    /\ Given("call") => (prototypeCheck(input.p, input.args) => buildPrimitive(input.p, input.args) \subseteq DOMAIN input.args)
    /\ Given("match") => (Match(input.p, input.r, input.patterns, input.fold)
                          <=> There(input.p, input.r) /\ SaidOf(input, IF input.r.present THEN input.r.v ELSE <<>>))
    /\ Given("hash") => InSections(input, NewHashMatcher(input.sections))
    /\ Given("ip") => OutOfRange(input, NewIPMatcher(input.s, input.e))
    /\ Given("time") => /\ InPeriod(input, NewPeriodicTimeMatcher(input.s, input.e, input.off, input.off, FALSE), input.t + input.off)
                        /\ OnDay(input, NewWeekdayMatcher(input.days, input.off), input.t + input.off)

\* What the documentation of the grammar says of the operators: && binds
\* tighter than ||, as in C.
PrecedenceAsDocumented == Given("tokens") => MeansSame(input.t, Parse(input.t), "||")
=============================================================================
