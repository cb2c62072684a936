----------------------------- MODULE MCGateway -----------------------------
(***************************************************************************)
(* The parts of the gateway that treat a request between client and        *)
(* backend, for TLC: the AI modules, request bodies, traffic mirror, caches *)
(* and sessions, which share no state, and the functions of request        *)
(* modules and billing.  A behaviour is one of one part, chosen at the     *)
(* start; the variables of the others keep a fixed initial value.          *)
(***************************************************************************)
EXTENDS AiForward, AiLimits, AiBatch, BodyBuffer, AiBilling, Mirror, AiCaches, Sessions, TLC

CONSTANTS Streams,
          Addresses, MaxPage, FlushSize,
          ImageTokens, CharsPerToken, DefaultWindow, MinReserve, MaxReserve

CONSTANTS r1, r2, r3, r4, s1, c1, c2, c3, k1, k2, p1, p2, g1, g2

VARIABLES src, raw, pending, sawTerm, hit, eof, done, truncated, got, reader, body, part

Stream == INSTANCE AiStream
Access == INSTANCE AccessRules
Content == INSTANCE ContentRules
Process == INSTANCE BodyProcess
Context == INSTANCE AiContext

-----------------------------------------------------------------------------
(* AiForward: two requests of one session, one of them a batch, a cluster  *)
(* with two keys, a fallback with one and a last one with none.            *)
MCSession == (r1 :> s1) @@ (r2 :> s1)
MCAttempts == <<c1, c2, c3>>
MCKeys == (c1 :> <<k1, k2>>) @@ (c2 :> <<k1>>) @@ (c3 :> <<>>)
MCKeyWeight == (k1 :> 1) @@ (k2 :> 1)
Policy(a, p, n) == [affinity |-> a, penalty |-> p, retries |-> n]
MCPolicies == {Policy(FALSE, FALSE, 2), Policy(TRUE, FALSE, 1), Policy(TRUE, TRUE, 0)}

(* AiLimits: two gateways, a policy with one slot and a token limit, and    *)
(* one that bounds the requests of a window.                               *)
MCGatewayOf == (r1 :> g1) @@ (r2 :> g2)
MCTables == {<<p1>>, <<p1, p2>>}
MCMaxConcurrency == (p1 :> 1) @@ (p2 :> -1)
MCMaxRequests == (p1 :> -1) @@ (p2 :> 1)
MCTokenLimit == (p1 :> 1) @@ (p2 :> -1)

(* AiStream: bodies with and without terminator, with both line ends, and   *)
(* with an error event in the middle.                                      *)
MCStreams == { <<"t", "n", "n", "d", "n", "n">>,
               <<"t", "r", "n", "r", "n", "e", "r", "n", "r", "n">>,
               <<"t", "t", "n", "n", "e", "n", "n", "d">>,
               <<"t", "n", "n", "n", "n", "e", "t", "n", "n", "d", "n", "n">> }

(* Mirror: a sampled rule that rewrites, one that takes all, and two files *)
(* that are refused; the first request is forwarded twice.                 *)
Rule(cond, p, rw) ==
    [cond |-> cond, percentage |-> p, cluster |-> "c", rewrite |-> rw, value |-> "m2"]
MCMirrorFiles == { <<Rule("chat", 50, "model")>>, <<Rule("nil", -1, "none")>>,
                   <<Rule("chat", -1, "none"), Rule("chat", 100, "none")>>,
                   <<Rule("nil", 200, "none")>> }
MCMAttempts == [r \in MReqs |-> IF r = r1 THEN 2 ELSE 1]
MCMirrorBodies == { [model |-> "m1", len |-> 1, all |-> TRUE],
                    [model |-> "missing", len |-> 2, all |-> TRUE] }

(* AiCaches: two tenants, a repeated question, streams, and a request that *)
(* asks to skip the cache.                                                 *)
Asks(t, q, s, sem, skip) ==
    [tenant |-> t, question |-> q, stream |-> s, semantic |-> sem, skip |-> skip]
MCCacheKinds == { Asks("t1", "q1", FALSE, FALSE, TRUE), Asks("t1", "q1", FALSE, FALSE, FALSE),
                  Asks("t1", "q2", TRUE, TRUE, FALSE), Asks("t2", "q1", TRUE, FALSE, FALSE) }
MCAnswers == {<<"x">>, <<"x", "y">>, <<"x", "y", "z">>}
Intent(k, t, h) == [key |-> k, text |-> t, header |-> h]
MCIntentKinds == { Intent("k1", "x", {"a"}), Intent("k1", "none", {}), Intent("k2", "x", {"b"}) }

(* Sessions: a reload that turns the mask code into the standby one, a      *)
(* standby code that is too short, and a sticky key.                       *)
File(m, s, t, a, w, k) ==
    [mask |-> m, standby |-> s, type |-> t, maxAge |-> a, renew |-> w, key |-> k]
MCStickyFiles == { File("m1", NoValue, NoValue, NoValue, NoValue, NoValue), File("m2", "m1", "Cookie", 3, 3, NoValue),
                   File("m2", "short", NoValue, 2, NoValue, NoValue), File(NoValue, NoValue, "Sticky", 0, NoValue, "id") }

-----------------------------------------------------------------------------
Parts == {"keys", "limits", "batch", "body", "stream", "mirror", "cache", "intent",
          "sticky", "prison", "input"}

PureInputs ==
    ConfInputs \cup BillingInputs \cup Access!AccessInputs \cup Content!ContentInputs
        \cup Process!BodyProcessInputs \cup Context!AiContextInputs

MCInit ==
    /\ part \in Parts
    /\ AiInit /\ (part # "keys" => policy = Policy(FALSE, FALSE, 2) /\ batchKey[c1] = NoAi)
    /\ LimInit /\ (part # "limits" => ltable = <<p1>>)
    /\ BatInit
    /\ IF part = "body" THEN BodyInit
       ELSE bodies = 0 /\ held = 0 /\ bufferLimit = 0
    /\ IF part = "stream" THEN Stream!StrInit
       ELSE src = 0 /\ raw = 0 /\ pending = 0 /\ sawTerm = 0 /\ hit = 0 /\ eof = 0 /\ done = 0
            /\ truncated = 0 /\ got = 0 /\ reader = 0 /\ body = 0
    /\ MirrorInit /\ (part # "mirror" => /\ mTable = MirrorRuleConfLoad(<<Rule("chat", 50, "model")>>).rules
                                         /\ \A r \in MReqs : mReq[r].body.model = "m1")
    /\ CacheInit /\ (part # "cache" => \A r \in CacheReqs : acReq[r].kind = Asks("t1", "q1", FALSE, FALSE, FALSE))
    /\ IntentInit /\ (part # "intent" => \A r \in IntentReqs : inReq[r].kind = Intent("k2", "x", {"b"}))
    /\ StickyInit /\ (part # "sticky" => ssRule.mask = "m1")
    /\ PrisonInit /\ (part # "prison" => prRule.threshold = 0)
    /\ IF part = "input" THEN input \in PureInputs ELSE input = NoInput

-----------------------------------------------------------------------------
streamVars == <<src, raw, pending, sawTerm, hit, eof, done, truncated, got, reader, body>>

(* The variables of some parts, to be left alone by the others.            *)
early == <<aiVars, limVars, batVars>>
bodily == <<bodyVars, streamVars, mirrorVars>>
late == <<cacheVars, intentVars, stickyVars, prisonVars, input>>
gatewayVars == <<part, early, bodily, late>>

MCNext ==
    /\ UNCHANGED part
    /\ \/ /\ part = "keys" /\ AiNext
          /\ UNCHANGED <<limVars, batVars, bodily, late>>
       \/ /\ part = "limits" /\ LimNext
          /\ UNCHANGED <<aiVars, batVars, bodily, late>>
       \/ /\ part = "batch" /\ BatNext
          /\ UNCHANGED <<aiVars, limVars, bodily, late>>
       \/ /\ part = "body" /\ BodyNext
          /\ UNCHANGED <<early, streamVars, mirrorVars, late>>
       \/ /\ part = "stream" /\ Stream!StrNext
          /\ UNCHANGED <<early, bodyVars, mirrorVars, late>>
       \/ /\ part = "mirror" /\ MirrorNext
          /\ UNCHANGED <<early, bodyVars, streamVars, late>>
       \/ /\ part = "cache" /\ CacheNext
          /\ UNCHANGED <<early, bodily, intentVars, stickyVars, prisonVars, input>>
       \/ /\ part = "intent" /\ IntentNext
          /\ UNCHANGED <<early, bodily, cacheVars, stickyVars, prisonVars, input>>
       \/ /\ part = "sticky" /\ StickyNext
          /\ UNCHANGED <<early, bodily, cacheVars, intentVars, prisonVars, input>>
       \/ /\ part = "prison" /\ PrisonNext
          /\ UNCHANGED <<early, bodily, cacheVars, intentVars, stickyVars, input>>
       \/ /\ part = "input" /\ input # NoInput /\ input' = NoInput
          /\ UNCHANGED <<early, bodily, cacheVars, intentVars, stickyVars, prisonVars>>

MCSpec == MCInit /\ [][MCNext]_gatewayVars

-----------------------------------------------------------------------------
(* Properties.                                                             *)

\* Bodies: what a client reads of a filtered event stream is a prefix of what
\* it is owed (reverseproxy_ai_error.go), and what a retry sends of a request
\* body is what the client sent (transfer.go).
BodiesSound ==
    /\ part = "stream" => Stream!PrefixDelivered
    /\ part = "body" => BodyResent

\* Request modules do what their files say: access rules decide as the
\* merged tables mean, content rules act on what they name and nothing else,
\* and body processors deliver every byte once.  So do settings and accounts:
\* an accepted cluster configuration can be served, a request is billed once
\* for each token, and a compressed conversation is still a legal one.
RulesSound ==
    part = "input" =>
        /\ Access!AccessDecided /\ Content!ContentActsAsWritten /\ Process!BodyProcessed
        /\ ConfSound /\ BilledOnce /\ Context!ContextLegal
=============================================================================
