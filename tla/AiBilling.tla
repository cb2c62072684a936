----------------------------- MODULE AiBilling ------------------------------
(***************************************************************************)
(* mod_ai_token_auth: who may use an API key, what is taken from the plans *)
(* of the key when a request finishes, and what the usage costs.           *)
(*                                                                         *)
(* A usage is a record of token counts.  Prices are those of ClusterConf.  *)
(***************************************************************************)
EXTENDS ClusterConf, FiniteSetsExt

CONSTANT MaxTokens   \* tokens of a kind in a usage

NoUsage == [prompt |-> 0, completion |-> 0, read |-> 0, write |-> 0, write1h |-> 0,
            audioIn |-> 0, audioOut |-> 0, imageIn |-> 0, images |-> 0, videos |-> 0]
noBillableTokens(u) == \A f \in DOMAIN u : u[f] = 0

-----------------------------------------------------------------------------
(* Before the request.                                                     *)

\* ValidateUserTokenByReq: the first check that fails.  A plan whose balance
\* cannot be read fails the request.
ValidateUserTokenByReq(key) ==
    LET plans == IF key.UnlimitedQuota THEN <<>>
                 ELSE SelectSeq(key.QuotaPlans, LAMBDA p : ~p.Unlimited /\ ~p.PassNoQuota)
        bad == {i \in 1..Len(plans) : plans[i].expired \/ plans[i].balance # "left"}
        first == plans[Min(bad)]
    IN  CASE ~key.known -> "invalid_api_key"
          [] ~key.Enabled -> "key_disabled"
          [] key.expired -> "key_expired"
          [] bad # {} -> (IF first.expired THEN "quota_expired"
                          ELSE IF first.balance = "error" THEN "internal_error" ELSE "quota_exhausted")
          [] ~key.inSubnet -> "subnet_not_allowed"
          [] OTHER -> "ok"

\* ValidateTargetModel: the blocked models, then the allowed ones if there
\* are any.
ValidateTargetModel(key, model) ==
    \/ key.Models = {} /\ key.BlockModels = {}
    \/ /\ model # "" /\ model \notin key.BlockModels
       /\ key.Models = {} \/ model \in key.Models

-----------------------------------------------------------------------------
(* The answer.                                                             *)

\* UpdateCtxByUsage: the count of images or videos of the request stands if
\* the answer has none; a usage without a total counts its parts.
UpdateCtxByUsage(old, fields) ==
    LET u == IF fields.u.images = 0 /\ fields.u.videos = 0
             THEN [fields.u EXCEPT !.images = old.u.images, !.videos = old.u.videos] ELSE fields.u
        total == CASE fields.quota # 0 -> fields.quota
                   [] fields.quota = 0 /\ u.images > 0 -> u.images
                   [] fields.quota = 0 /\ u.images <= 0 /\ u.videos > 0 -> u.videos
                   [] OTHER -> u.prompt + u.completion
    IN  [u |-> u, quota |-> total]

\* tokenReadResponseHandler, of an answer with a complete body: its usage, or
\* an estimate by its length if that is allowed.
tokenReadResponseHandler(ctx, res) ==
    IF res.status # 200 \/ ~res.complete THEN ctx
    ELSE IF res.usage # Nil
         THEN [ctx EXCEPT !.usage = UpdateCtxByUsage(@, res.usage), !.final = TRUE, !.completed = TRUE]
         ELSE IF ctx.estimate
              THEN [ctx EXCEPT !.usage.u.completion = res.length \div 4, !.completed = TRUE,
                               !.usage.quota = ctx.usage.u.prompt + res.length \div 4]
              ELSE [ctx EXCEPT !.completed = TRUE]

-----------------------------------------------------------------------------
(* The cost.                                                               *)

Clamp(n, max) == IF n < 0 THEN 0 ELSE IF n > max THEN (IF max < 0 THEN 0 ELSE max) ELSE n

BadNormalInput(prompt, read, write, split) == prompt - (IF split THEN read ELSE 0)

\* Tokens billed at the normal price, once cached ones have a price of theirs.
NormalInput(prompt, read, write, split) == IF split THEN Clamp(prompt - read - write, prompt) ELSE prompt

\* Tokens with a price of their own leave the normal ones; without, they stay.
calcChatCost(p, u, tier) ==
    LET price(k) == GetPrice(p, tier, k)
        long == GetLengthTierPrice(p, tier, u.prompt)
        input0 == IF long.in >= 0 THEN long.in ELSE price("input")
        output0 == IF long.out >= 0 THEN long.out ELSE price("output")
        read == Clamp(u.read, u.read)
        write == Clamp(u.write, u.write)
        normal == NormalInput(u.prompt, read, write, price("cache_read") > 0 \/ price("cache_write") > 0)
        image == IF price("image_in") > 0 THEN Clamp(u.imageIn, normal) ELSE 0
        audio == IF price("audio_in") > 0
                 THEN Clamp(Clamp(u.audioIn, u.prompt - read - write), normal - image) ELSE 0
        audioOut == IF price("audio_out") > 0 THEN Clamp(u.audioOut, u.completion) ELSE 0
        hour == IF price("cache_write_1h") > 0 THEN Clamp(u.write1h, write) ELSE 0
    IN  (normal - image - audio) * input0 + read * price("cache_read")
          + (write - hour) * price("cache_write") + hour * price("cache_write_1h")
          + audio * price("audio_in") + image * price("image_in")
          + (u.completion - audioOut) * output0 + audioOut * price("audio_out")

calcVideoGenerationCost(p, u, tier) ==
    IF HasPrice(p, tier, "video") THEN Clamp(u.videos, u.videos) * GetPrice(p, tier, "video")
                                  ELSE calcChatCost(p, u, tier)

calcImageGenerationCost(p, u, tier) ==
    IF HasPrice(p, tier, "image")
    THEN Clamp(u.images, u.images) * GetPrice(p, tier, "image") + u.imageIn * GetPrice(p, tier, "image_in")
    ELSE calcChatCost(p, u, tier)

\* calcCostUnits: the price of the mode, or of chat; without a price, or for
\* requests that manage batches, nothing is charged.
calcCostUnits(table, model, mode, u, tier) ==
    LET found == LookupModelPrice(table, model, mode)
        entry == IF found = <<>> THEN LookupModelPrice(table, model, "chat") ELSE found
    IN  IF mode \in {"file", "batch"} \/ entry = <<>> THEN 0
        ELSE CASE mode = "image" -> calcImageGenerationCost(Head(entry), u, tier)
               [] mode = "video" -> calcVideoGenerationCost(Head(entry), u, tier)
               [] OTHER -> calcChatCost(Head(entry), u, tier)

-----------------------------------------------------------------------------
(* The end of the request.                                                 *)

\* dropUnbilledEstimate: a request that did not succeed keeps no estimate.
dropUnbilledEstimate(ctx) == IF ctx.final THEN ctx.usage ELSE [u |-> NoUsage, quota |-> 0]

\* tokenRequestFinishHandler: the tokens and the cost that are deducted.  An
\* aborted request is billed only if its final usage was seen; an answer
\* without usage only if an estimate of a complete answer is allowed.
tokenRequestFinishHandler(ctx, end, table) ==
    LET estimated == ctx.estimate /\ ctx.completed
        usage == IF ctx.final \/ estimated THEN ctx.usage ELSE [u |-> NoUsage, quota |-> 0]
        tokens == IF usage.quota <= 0 /\ ~ctx.final /\ estimated
                  THEN usage.u.prompt + usage.u.completion ELSE usage.quota
    IN  IF end.status # 200 \/ end.countTokens \/ end.cacheHit \/ (end.aborted /\ ~ctx.final)
        THEN [tokens |-> 0, cost |-> 0]
        ELSE [tokens |-> tokens, cost |-> calcCostUnits(table, end.model, end.mode, usage.u, end.tier)]

-----------------------------------------------------------------------------
(* Inputs and properties.                                                  *)

PriceOf == [k \in {"input", "output", "cache_read", "cache_write", "cache_write_1h", "audio_in", "audio_out",
                   "image_in", "input_above_1", "output_above_2"} |->
    CASE k = "input" -> 1 [] k = "output" -> 2 [] k = "cache_read" -> 4 [] k = "cache_write" -> 8
      [] k = "cache_write_1h" -> 16 [] k = "audio_in" -> 32 [] k = "audio_out" -> 64 [] k = "image_in" -> 128
      [] k = "input_above_1" -> 256 [] OTHER -> 512]
Priced == {{"input", "output"} \cup c : c \in SUBSET (DOMAIN PriceOf \ {"input", "output"})}

\* Usages whose parts fit their totals.
Usages == {u \in [prompt : 0..MaxTokens, completion : 0..1, read : 0..1, write : 0..2, write1h : 0..1,
                  audioIn : 0..1, audioOut : 0..1, imageIn : 0..1, images : {0}, videos : {0}] :
              /\ u.read + u.write + u.audioIn + u.imageIn <= u.prompt
              /\ u.write1h <= u.write /\ u.audioOut <= u.completion}

BillingInputs == [of : {"bill"}, priced : Priced, usage : Usages, aborted : BOOLEAN, final : BOOLEAN]

\* Prices of cached tokens come together, and that of an hour with them.
PricesPaired(k) ==
    /\ "cache_read" \in k <=> "cache_write" \in k
    /\ "cache_write_1h" \in k => "cache_write" \in k

\* Each token of a usage at the price of its kind, or at the normal price of
\* its side, or of its length, if the kind has none.
ByToken(k, u) ==
    LET in == IF u.prompt > 1 /\ "input_above_1" \in k /\ ~(u.prompt > 2 /\ "output_above_2" \in k)
              THEN PriceOf["input_above_1"] ELSE PriceOf["input"]
        out == IF u.prompt > 2 /\ "output_above_2" \in k THEN PriceOf["output_above_2"] ELSE PriceOf["output"]
        price(kind, side) == IF kind \in k THEN PriceOf[kind] ELSE side
        hour == price("cache_write_1h", price("cache_write", in))
    IN  (u.prompt - u.read - u.write - u.audioIn - u.imageIn) * in + u.read * price("cache_read", in)
          + (u.write - u.write1h) * price("cache_write", in) + u.write1h * hour
          + u.audioIn * price("audio_in", in) + u.imageIn * price("image_in", in)
          + (u.completion - u.audioOut) * out + u.audioOut * price("audio_out", out)

\* With prices of cached tokens that come in pairs, a request that finishes is
\* charged for every token of its final usage exactly once, at the price of
\* the token's kind; one aborted before its usage was seen is not charged.
\* Only the highest tier of length that the prompt exceeds counts, and the
\* side that it does not price has its normal price.
BilledOnce ==
    Given("bill") /\ PricesPaired(input.priced) =>
        LET entry == [Model |-> "m", Mode |-> "chat", Prices |-> [k \in input.priced |-> PriceOf[k]],
                      TierPrices |-> <<>>]
            table == [Currency |-> "RMB", Tiers |-> <<>>, Models |-> <<entry>>]
            ctx == [final |-> FALSE, estimate |-> FALSE, completed |-> FALSE, usage |-> [u |-> NoUsage, quota |-> 0]]
            seen == IF input.final
                    THEN tokenReadResponseHandler(ctx, [status |-> 200, complete |-> TRUE, length |-> 0,
                                                        usage |-> [u |-> input.usage, quota |-> 0]])
                    ELSE ctx
            end == [status |-> 200, countTokens |-> FALSE, cacheHit |-> FALSE, aborted |-> input.aborted,
                    model |-> "m", mode |-> "responses", tier |-> ""]
            bill == tokenRequestFinishHandler(seen, end, table)
        IN  bill = IF input.final
                   THEN [tokens |-> input.usage.prompt + input.usage.completion, cost |-> ByToken(input.priced, input.usage)]
                   ELSE [tokens |-> 0, cost |-> 0]
=============================================================================
