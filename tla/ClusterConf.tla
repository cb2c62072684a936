---------------------------- MODULE ClusterConf -----------------------------
(***************************************************************************)
(* The checks of cluster_conf: what a load of the file refuses, and the    *)
(* values it fills in.  A field that the file leaves out is Nil.  Times of *)
(* day are minutes of a short day.                                         *)
(***************************************************************************)
EXTENDS Sample, Integers, Sequences, FiniteSets, SequencesExt

CONSTANTS MinutesOfDay, Weekdays, Nil

ASSUME ClusterConfAssumption == MinutesOfDay \in Nat /\ Weekdays # {}

Or(v, d) == IF v = Nil THEN d ELSE v
Refused == [error |-> TRUE]
Ok(c) == c # Refused

\* strings.ToLower, of the spellings that occur.
Lower(s) == CASE s = "HTTP" -> "http" [] s = "5XX" -> "5xx" [] OTHER -> s

-----------------------------------------------------------------------------
(* Sections of a cluster.                                                  *)

BackendBasicCheck(c) ==
    LET protocol == Lower(Or(c.Protocol, "http"))
    IN  IF protocol \notin {"http", "tcp", "ws", "fcgi", "h2c", "https"} THEN Refused
        ELSE [c EXCEPT !.Protocol = protocol,
                       !.MaxConnsPerHost = IF @ = Nil \/ @ = -1 THEN 0 ELSE @,
                       !.RetryLevel = Or(@, 0),
                       !.OutlierDetectionHttpCode = Lower(Or(@, "")),
                       !.SlowStartTime = Or(@, 0)]

\* 100..599 is a code, 1..31 a set of classes, 0 any.
checkStatusCode(code) == code \in 100..599 \cup 0..31

\* A range is a sequence of patterns; a pattern is three digits, x and X.
PatternChars == {"0", "1", "2", "3", "4", "5", "6", "7", "8", "9", "x", "X"}
checkStatusCodeRange(range) ==
    range = Nil \/ \A i \in 1..Len(range) : Range(range[i]) \subseteq PatternChars /\ Len(range[i]) = 3

\* The code as its digits; only the small x is replaced by a class of digits.
MatchStatusCodeRange(digits, range) ==
    \/ range = Nil \/ range = <<>>
    \/ \E i \in 1..Len(range) : \A k \in 1..3 : range[i][k] \in {"x", digits[k]}

BadMatchStatusCode(got, expect) ==
    \/ expect \in 100..599 /\ got = expect
    \/ expect = 0
    \/ expect \in 1..31 /\ (expect \div 2 ^ (got \div 100)) % 2 = 1

MatchStatusCode(got, expect) ==
    \/ expect \in 100..599 /\ got = expect
    \/ expect = 0
    \/ expect \in 1..31 /\ (expect \div 2 ^ (got \div 100 - 1)) % 2 = 1

BackendCheckCheck(c) ==
    LET schem == Or(c.Schem, "http")
        code == Or(c.StatusCode, 0)
    IN  IF \/ schem \notin {"http", "https", "tls", "tcp"}
           \/ /\ schem \in {"http", "https"}
              /\ ~(checkStatusCode(code) /\ checkStatusCodeRange(c.StatusCodeRange))
           \/ Or(c.SuccNum, 1) < 1
        THEN Refused
        ELSE [c EXCEPT !.Schem = schem, !.StatusCode = code, !.SuccNum = Or(@, 1), !.FailNum = Or(@, 5)]

\* A duration that does not parse is 0.
Positive(d) == d > 0

EPPCheckConfCheck(c) ==
    LET n == [c EXCEPT !.CheckInterval = Or(@, 2000), !.FailThreshold = Or(@, 3),
                       !.Cooldown = Or(@, 45000), !.SuccessThreshold = Or(@, 2)]
    IN  IF Positive(n.CheckInterval) /\ Positive(n.Cooldown)
           /\ n.FailThreshold >= 1 /\ n.SuccessThreshold >= 1 THEN n ELSE Refused

EPPTimeoutConfCheck(c) ==
    LET n == [c EXCEPT !.Connect = Or(@, 500), !.Call = Or(@, 3000)]
    IN  IF Positive(n.Connect) /\ Positive(n.Call) THEN n ELSE Refused

EPPBreakerConfCheck(c) ==
    LET n == [c EXCEPT !.WindowSize = Or(@, 100), !.MinVolume = Or(@, 20),
                       !.ErrorRatePercent = Or(@, 50), !.OpenTimeout = Or(@, 30000)]
    IN  IF /\ n.WindowSize >= 1 /\ n.MinVolume \in 1..n.WindowSize
           /\ n.ErrorRatePercent \in 1..100 /\ Positive(n.OpenTimeout) THEN n ELSE Refused

\* The CA file is read only when it is needed.
EPPTLSConfCheck(c, readable) ==
    /\ ~(c.Plaintext /\ (c.Insecure \/ c.CAFile # ""))
    /\ c.Plaintext \/ c.Insecure \/ (c.CAFile # "" /\ readable)

\* An address is [host, port]; "" is missing.
checkEPPAddrs(addrs) ==
    (\A i \in 1..Len(addrs) : addrs[i].host # "" /\ addrs[i].port # "") /\ IsInjective(addrs)

HashConfCheck(c) ==
    LET strategy == Or(c.HashStrategy, "ClientIpOnly")
    IN  /\ strategy \in {"ClientIdOnly", "ClientIpOnly", "ClientIdPreferred", "RequestURI"}
        /\ strategy \in {"ClientIdOnly", "ClientIdPreferred"}
              => c.HashHeader \notin {Nil, "", "Cookie:"}

GslbBasicConfCheck(c) ==
    LET mode == Or(c.BalanceMode, "WRR")
    IN  /\ HashConfCheck(c.HashConf)
        /\ mode \in {"WRR", "WLC", "EPP"}
        /\ mode = "EPP" =>
              /\ c.EPPAddr \notin {Nil, <<>>} /\ checkEPPAddrs(c.EPPAddr)
              /\ Ok(EPPCheckConfCheck(c.EPPCheck)) /\ Ok(EPPTimeoutConfCheck(c.EPPTimeout))
              /\ Ok(EPPBreakerConfCheck(c.EPPBreaker)) /\ EPPTLSConfCheck(c.EPPTLS, c.readable)

-----------------------------------------------------------------------------
(* AIConf.                                                                 *)

AIKeyPolicyCheck(p) == p.SessionAffinityTTL >= 0 /\ p.RetryBackoffInitial >= 0 /\ p.RetryBackoffMax >= 0

\* A range of time is [Weekdays, Start, End]; no weekdays means all of them.
Shared(a, b) == a.Weekdays = {} \/ b.Weekdays = {} \/ a.Weekdays \cap b.Weekdays # {}

timeRangesOverlap(a, b) == Shared(a, b) /\ a.Start < b.End /\ b.Start < a.End

validateTimeRanges(ranges) ==
    /\ ranges # <<>>
    /\ \A i \in 1..Len(ranges) :
          /\ ranges[i].Weekdays \subseteq Weekdays
          /\ ranges[i].Start \in 0..(MinutesOfDay - 1) /\ ranges[i].End \in 0..(MinutesOfDay - 1)
          /\ ranges[i].Start < ranges[i].End
          /\ \A j \in 1..(i - 1) : ~timeRangesOverlap(ranges[i], ranges[j])

\* The prices of a model are a function on the configured keys.
ModelTableCheck(table) ==
    /\ table.Currency = "RMB"
    /\ \A tier \in Range(table.Tiers) : tier.Name = "peak" /\ validateTimeRanges(tier.TimeRanges)
    /\ \A p \in Range(table.Models) :
          /\ p.Model # "" /\ p.Mode # ""
          /\ \A k \in DOMAIN p.Prices : p.Prices[k] >= 0
          /\ DOMAIN p.TierPrices \subseteq {"peak"}
          /\ \A t \in DOMAIN p.TierPrices : \A k \in DOMAIN p.TierPrices[t] : p.TierPrices[t][k] >= 0
    /\ \A i, j \in 1..Len(table.Models) :
          i # j => <<table.Models[i].Model, table.Models[i].Mode>> # <<table.Models[j].Model, table.Models[j].Mode>>

ActiveTierName(table, weekday, minute) ==
    IF \E tier \in Range(table.Tiers) : \E r \in Range(tier.TimeRanges) :
          (r.Weekdays = {} \/ weekday \in r.Weekdays) /\ minute \in r.Start..(r.End - 1)
    THEN "peak" ELSE ""

AIConfCheck(c) ==
    /\ c.UnrecognizedAction \in {"", "passthrough", "rewrite_generic"}
    /\ c.MaxBodyBytes \in 0..4194304
    /\ ModelTableCheck(c.ModelTable)
    /\ c.StripPrefix => c.MatchPrefix = "dir/"
    /\ AIKeyPolicyCheck(c.KeyPolicy)

-----------------------------------------------------------------------------
(* Prices.                                                                 *)

HasPrice(p, tier, key) == (tier \in DOMAIN p.TierPrices /\ key \in DOMAIN p.TierPrices[tier]) \/ key \in DOMAIN p.Prices

GetPrice(p, tier, key) ==
    IF tier \in DOMAIN p.TierPrices /\ key \in DOMAIN p.TierPrices[tier] THEN p.TierPrices[tier][key]
    ELSE IF key \in DOMAIN p.Prices THEN p.Prices[key] ELSE 0

\* The length tiers of a price: those of its keys that are configured, by
\* their threshold; -1 is a price of the tier that is not.
LengthKeys == <<[threshold |-> 1, in |-> "input_above_1", out |-> "output_above_1"],
                [threshold |-> 2, in |-> "input_above_2", out |-> "output_above_2"]>>
lengthTiers(p) == SelectSeq(LengthKeys, LAMBDA k : {k.in, k.out} \cap DOMAIN p.Prices # {})

\* The last tier whose threshold the prompt exceeds.
GetLengthTierPrice(p, tier, prompt) ==
    LET over == SelectSeq(lengthTiers(p), LAMBDA k : prompt > k.threshold)
        price(key) == IF HasPrice(p, tier, key) THEN GetPrice(p, tier, key) ELSE -1
    IN  IF over = <<>> THEN [in |-> -1, out |-> -1]
        ELSE [in |-> price(Last(over).in), out |-> price(Last(over).out)]

LookupModelPrice(table, model, mode) ==
    SelectSeq(table.Models, LAMBDA p : p.Model = model /\ p.Mode = mode)

-----------------------------------------------------------------------------
(* The file.                                                               *)

\* ClusterConfCheck runs the checks of the sections in this order; the load
\* checks the HTTPS section of every cluster after them.
ClusterConfCheck(c) ==
    /\ Ok(BackendBasicCheck(c.BackendConf)) /\ Ok(BackendCheckCheck(c.CheckConf))
    /\ GslbBasicConfCheck(c.GslbBasic)
    /\ c.AIConf = Nil \/ AIConfCheck(c.AIConf)

-----------------------------------------------------------------------------
(* Inputs and properties.                                                  *)

TimeRanges == [Weekdays : SUBSET Weekdays, Start : 0..(MinutesOfDay - 1), End : 0..MinutesOfDay]
CodesGot == {100, 200, 204, 301, 404, 503}

\* Sections of a cluster; a range of codes in capitals is accepted and never
\* matches, so the inputs spell it with a small x.
Backends == [Protocol : {Nil, "HTTP", "h2c", "gopher"}, MaxConnsPerHost : {Nil, -1, 2}, RetryLevel : {Nil, 1},
             OutlierDetectionHttpCode : {Nil, "5XX"}, SlowStartTime : {Nil}]
Checks == [Schem : {Nil, "tcp", "udp"}, StatusCode : {Nil, 2, 99, 200}, SuccNum : {Nil, 0, 1}, FailNum : {Nil},
           StatusCodeRange : {Nil, <<<<"2", "x", "x">>>>, <<<<"2", "x">>>>}]
Breakers == [WindowSize : {Nil, 1, 15}, MinVolume : {Nil, 1, 16}, ErrorRatePercent : {Nil, 0, 100}, OpenTimeout : {Nil}]
Gslbs == [HashConf : [HashStrategy : {Nil, "ClientIdOnly"}, HashHeader : {Nil, "Cookie:ID"}],
          BalanceMode : {Nil, "EPP", "RR"}, EPPAddr : {Nil, <<>>, <<[host |-> "h", port |-> "1"]>>},
          EPPCheck : [CheckInterval : {Nil, 0}, FailThreshold : {Nil}, Cooldown : {Nil}, SuccessThreshold : {Nil, 0}],
          EPPTimeout : [Connect : {Nil}, Call : {Nil}], EPPBreaker : Breakers,
          EPPTLS : [Plaintext : BOOLEAN, Insecure : {FALSE}, CAFile : {"", "ca"}], readable : BOOLEAN]
Usual == [BackendConf |-> CHOOSE b \in Backends : b.Protocol = "h2c", CheckConf |-> CHOOSE c \in Checks : c.Schem = Nil /\ c.StatusCode = 2 /\ c.SuccNum = 1 /\ c.StatusCodeRange = Nil,
          GslbBasic |-> CHOOSE g \in Gslbs : g.BalanceMode = Nil /\ g.HashConf.HashStrategy = Nil, AIConf |-> Nil]

ConfInputs ==
    [of : {"ranges"}, ranges : {<<a, b>> : a \in TimeRanges, b \in TimeRanges}]
    \cup [of : {"code"}, expect : 0..31 \cup {99, 100, 503, 599, 600}]
    \cup [of : {"cluster"}, conf : {[Usual EXCEPT !.BackendConf = b, !.CheckConf = c] : b \in Backends, c \in Checks}
                                   \cup {[Usual EXCEPT !.GslbBasic = g] : g \in Gslbs}]

\* What the balancer, the health check and the EPP breaker take for granted of
\* a cluster that was loaded.
Usable(c) ==
    LET b == BackendBasicCheck(c.BackendConf)
        k == BackendCheckCheck(c.CheckConf)
        brk == EPPBreakerConfCheck(c.GslbBasic.EPPBreaker)
    IN  /\ b.Protocol = Lower(b.Protocol) /\ b.MaxConnsPerHost >= 0
        /\ k.SuccNum >= 1
        /\ k.Schem = "http" => /\ \E got \in CodesGot : MatchStatusCode(got, k.StatusCode)
                               /\ MatchStatusCodeRange(<<"2", "0", "4">>, k.StatusCodeRange)
        /\ c.GslbBasic.BalanceMode = "EPP" => c.GslbBasic.EPPAddr # <<>> /\ brk.MinVolume <= brk.WindowSize

\* A time is in at most one range of time of a tier, which is refused exactly
\* if two of its ranges meet on some weekday, however weekdays and their
\* absence combine; and a status code is matched by exactly the classes that
\* the mask of a health check names; and of a cluster that is accepted some
\* answer makes a backend healthy again, and the breaker of its EPP can trip.
ConfSound ==
    /\ Given("cluster") /\ ClusterConfCheck(input.conf) => Usable(input.conf)
    /\ Given("ranges") =>
          LET r == input.ranges
              holds(i) == {<<d, m>> \in Weekdays \X (0..(MinutesOfDay - 1)) :
                             (r[i].Weekdays = {} \/ d \in r[i].Weekdays) /\ m \in r[i].Start..(r[i].End - 1)}
          IN  validateTimeRanges(r)
                <=> /\ \A i \in {1, 2} : r[i].End < MinutesOfDay /\ r[i].Start < r[i].End
                    /\ holds(1) \cap holds(2) = {}
    /\ Given("code") /\ checkStatusCode(input.expect) =>
          \A got \in CodesGot :
             MatchStatusCode(got, input.expect)
                <=> \/ input.expect \in {0, got}
                    \/ \E classes \in SUBSET (1..5) :
                          /\ input.expect = (IF 1 \in classes THEN 1 ELSE 0) + (IF 2 \in classes THEN 2 ELSE 0)
                               + (IF 3 \in classes THEN 4 ELSE 0) + (IF 4 \in classes THEN 8 ELSE 0)
                               + (IF 5 \in classes THEN 16 ELSE 0)
                          /\ got \div 100 \in classes
=============================================================================
