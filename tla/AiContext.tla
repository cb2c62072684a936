----------------------------- MODULE AiContext -----------------------------
(***************************************************************************)
(* mod_ai_context: the conversation of a chat request is cut until it fits *)
(* the window of the target model: long tool results, old images and old   *)
(* thoughts are trimmed, then the wording is rewritten, and what is left   *)
(* is repaired into a legal conversation.  Pure.  A message keeps its role,*)
(* the calls it makes, the call it answers and the parts of its content; a *)
(* part is named by what the trimming tells apart.                         *)
(***************************************************************************)
EXTENDS Integers, Sequences, SequencesExt, FiniteSets, Functions, Folds, Sample

CONSTANTS ImageTokens, CharsPerToken,    \* imageTokenEstimate, charsPerToken
          DefaultWindow, MinReserve, MaxReserve   \* 128000, 256, 16000

-----------------------------------------------------------------------------
(* The rule file.                                                          *)

ContextModes == {"off", "conservative", "balanced", "aggressive"}
\* Percentages; -1 is a field that is not given.
ContextDefaultsSet(d) ==
    [trigger |-> IF d.trigger = -1 THEN 70 ELSE d.trigger, keep |-> IF d.keep = -1 THEN 2 ELSE d.keep,
     survival |-> IF d.survival = -1 THEN 95 ELSE d.survival]
ContextDefaultsCheck(d) == d.trigger \in 1..100 /\ d.keep >= 0
RewriteCheck(d) == d.survival \in 1..100
ContextRuleSet(r) == [r EXCEPT !.max = IF @ = -1 THEN 0 ELSE @]
ContextRuleCheck(r) == r.cond \notin {"", "bad"} /\ r.mode \in ContextModes /\ r.max >= 0
ContextRulesCheck(rs) ==
    /\ \A i \in DOMAIN rs : ContextRuleCheck(rs[i])
    /\ \A i, j \in DOMAIN rs : i # j => rs[i].cond # rs[j].cond
\* A file without defaults has all of them; unknown fields are counted and
\* nothing more.
parseDefaultsFile(f) ==
    LET d == ContextDefaultsSet(IF f.hasDefaults THEN f.defaults ELSE [trigger |-> -1, keep |-> -1, survival |-> -1])
    IN  [ok |-> ContextDefaultsCheck(d) /\ RewriteCheck(d), defaults |-> d]
ContextRuleConfLoad(f) ==
    LET rs == [i \in DOMAIN f.rules |-> ContextRuleSet(f.rules[i])]
    IN  [ok |-> parseDefaultsFile(f).ok /\ ContextRulesCheck(rs), rules |-> rs, defaults |-> parseDefaultsFile(f).defaults]
ContextMatch(conf, holds) ==
    LET i == SelectInSeq(conf.rules, LAMBDA r : r.cond \in holds)
    IN  IF i = 0 THEN <<>> ELSE <<conf.rules[i]>>

-----------------------------------------------------------------------------
(* Messages: what is read is written back, a field nobody knows included.  *)

KnownFields == {"role", "content", "name"}
UnmarshalMessage(f) ==
    [known |-> [k \in KnownFields |-> IF k \in DOMAIN f THEN f[k] ELSE ""],
     extra |-> Restrict(f, DOMAIN f \ KnownFields)]
\* An empty field is left out, but for the role.
MarshalMessage(m) ==
    LET given == {k \in KnownFields : k = "role" \/ m.known[k] # ""}
    IN  [k \in given \cup DOMAIN m.extra |-> IF k \in given THEN m.known[k] ELSE m.extra[k]]

lastIndexOfRole(ms, role) == SelectLastInSeq(ms, LAMBDA m : m.role = role)
setContentParts(m, ps) == [m EXCEPT !.parts = ps, !.form = IF ps = <<>> THEN "null" ELSE "parts"]
isThinkingPart(p) == p = "think"

-----------------------------------------------------------------------------
(* The estimate.                                                           *)

CharsOf(p) == IF p = "long" THEN 6 ELSE IF p \in {"cut", "filler", "dense"} THEN 4 ELSE 2
estimateMessage(m) ==
    LET chars == FoldLeft(LAMBDA n, p : IF p = "image" THEN n ELSE n + CharsOf(p), 1, m.parts)
        images == Len(SelectSeq(m.parts, LAMBDA p : p = "image"))
    IN  (chars + CharsPerToken - 1) \div CharsPerToken + images * ImageTokens
EstimateMessages(ms) == FoldLeft(LAMBDA n, m : n + estimateMessage(m), 0, ms)

-----------------------------------------------------------------------------
(* Trimming.                                                               *)

truncateMessageContent(m) ==
    [m EXCEPT !.parts = [i \in DOMAIN m.parts |-> IF m.parts[i] = "long" THEN "cut" ELSE m.parts[i]]]
trimToolResults(ms) == [i \in DOMAIN ms |-> IF ms[i].role = "tool" THEN truncateMessageContent(ms[i]) ELSE ms[i]]
\* Of the images outside the protected message the newest ones stay.
trimOldImages(ms, keep, prot) ==
    LET images == {ij \in (DOMAIN ms \ {prot}) \X (1..2) :
                      ms[ij[1]].form = "parts" /\ ij[2] <= Len(ms[ij[1]].parts) /\ ms[ij[1]].parts[ij[2]] = "image"}
        newer(ij) == {kl \in images : kl[1] > ij[1] \/ (kl[1] = ij[1] /\ kl[2] > ij[2])}
        gone == {ij \in images : Cardinality(newer(ij)) >= keep}
    IN  IF keep <= 0 THEN ms
        ELSE [i \in DOMAIN ms |-> [ms[i] EXCEPT !.parts =
                [j \in DOMAIN ms[i].parts |-> IF <<i, j>> \in gone THEN "gone" ELSE ms[i].parts[j]]]]
\* The thoughts of every assistant message but the last.
trimThinkingBlocks(ms, policy) ==
    LET last == lastIndexOfRole(ms, "assistant")
        without(m) == IF m.form = "parts" /\ \E i \in DOMAIN m.parts : isThinkingPart(m.parts[i])
                      THEN setContentParts(m, SelectSeq(m.parts, LAMBDA p : ~isThinkingPart(p))) ELSE m
    IN  IF policy = "keep" THEN ms
        ELSE [i \in DOMAIN ms |-> IF ms[i].role = "assistant" /\ i # last THEN without(ms[i]) ELSE ms[i]]

-----------------------------------------------------------------------------
(* Rewriting.                                                              *)

\* "filler" has wording to drop and nothing to protect; "dense" loses what it
\* had to protect.
rewriteMessage(m) ==
    IF \E i \in DOMAIN m.parts : m.parts[i] = "marker" THEN m
    ELSE IF ~\E i \in DOMAIN m.parts : m.parts[i] \in {"filler", "dense"} THEN m
    ELSE [m EXCEPT !.parts = Append([i \in DOMAIN @ |-> IF @[i] \in {"filler", "dense"} THEN "short" ELSE @[i]], "marker")]
rewriteConversation(ms, prot) ==
    LET at == {i \in DOMAIN ms : i # prot /\ ms[i].role # "system"}
        lost == {i \in at : "dense" \in Range(ms[i].parts) /\ "marker" \notin Range(ms[i].parts)}
    IN  [msgs |-> [i \in DOMAIN ms |-> IF i \in at THEN rewriteMessage(ms[i]) ELSE ms[i]],
         survived |-> 0, total |-> Cardinality(lost)]
FidelityPass(survived, total, rate) == total <= 0 \/ survived * 100 >= total * rate

\* The text of one fragment: a sequence of words.  The patterns are tried one
\* after the other, each on what the earlier ones left; every match becomes a
\* sentinel of its own, so the key of a JSON field whose name holds a version
\* number is a span around a sentinel.
Sentinels == <<"s1", "s2", "s3", "s4">>
SpanTokens(ws) == FoldLeft(LAMBDA n, w : n + (IF w = "code" THEN 20 ELSE 1), 0, ws)
\* One pass: every word of the pattern is a match.
maskWords(t, pat) ==
    FoldLeft(LAMBDA a, w : IF w # pat THEN [a EXCEPT !.text = Append(@, w)]
                           ELSE [text |-> Append(a.text, Sentinels[Len(a.spans) + 1]), spans |-> Append(a.spans, <<w>>)],
             [text |-> <<>>, spans |-> t.spans], t.text)
\* The pass for keys: a quote, one word, and a quote with a colon.
maskKey(t) ==
    LET i == SelectInSubSeq(t.text, 1, Len(t.text) - 2, LAMBDA w : w = "quote")
    IN  IF i = 0 \/ t.text[i + 2] # "colon" THEN t
        ELSE [text |-> SubSeq(t.text, 1, i - 1) \o <<Sentinels[Len(t.spans) + 1]>> \o SubSeq(t.text, i + 3, Len(t.text)),
              spans |-> Append(t.spans, SubSeq(t.text, i, i + 2))]
protectText(text) == maskKey(maskWords(maskWords([text |-> text, spans |-> <<>>], "code"), "version"))
applyRewriteRules(text) == SelectSeq(text, LAMBDA w : w # "please")
restoreText(text, spans) ==
    FoldLeft(LAMBDA a, k : LET i == SelectInSeq(a.text, LAMBDA w : w = Sentinels[k])
                           IN  IF i = 0 THEN a
                               ELSE [text |-> SubSeq(a.text, 1, i - 1) \o spans[k] \o SubSeq(a.text, i + 1, Len(a.text)),
                                     survived |-> a.survived + SpanTokens(spans[k])],
             [text |-> text, survived |-> 0], [k \in DOMAIN spans |-> k])
totalSpanTokens(spans) == FoldLeft(LAMBDA n, s : n + SpanTokens(s), 0, spans)
rewriteText(text) ==
    LET p == protectText(text)
        r == restoreText(applyRewriteRules(p.text), p.spans)
    IN  [text |-> r.text, survived |-> r.survived, total |-> totalSpanTokens(p.spans)]

-----------------------------------------------------------------------------
(* Repair.                                                                 *)

BadHasAnsweringAssistant(ms, i) == ms[i].id # "" /\ \E j \in DOMAIN ms : ms[j].role = "assistant" /\ ms[i].id \in ms[j].calls
hasAnsweringAssistant(ms, i) == ms[i].id # "" /\ \E j \in 1..(i - 1) : ms[j].role = "assistant" /\ ms[i].id \in ms[j].calls
hasToolResponse(ms, i, id) == id # "" /\ \E j \in (i + 1)..Len(ms) : ms[j].role = "tool" /\ ms[j].id = id
Keep(ms, ok(_)) == LET at == SelectSeq([i \in DOMAIN ms |-> i], ok) IN [k \in DOMAIN at |-> ms[at[k]]]
stripOrphanToolMessages(ms) == Keep(ms, LAMBDA i : ms[i].role # "tool" \/ hasAnsweringAssistant(ms, i))
stripDanglingToolCalls(ms) ==
    [i \in DOMAIN ms |-> IF ms[i].role # "assistant" THEN ms[i]
                         ELSE [ms[i] EXCEPT !.calls = {id \in @ : hasToolResponse(ms, i, id)}]]
emptyContent(m) == m.form \in {"nil", "null"} \/ m.parts = <<>>
dropEmptyMessages(ms) ==
    LET prot == lastIndexOfRole(ms, "user")
    IN  Keep(ms, LAMBDA i : i = prot \/ ms[i].role = "system" \/ ~emptyContent(ms[i]) \/ ms[i].calls # {} \/ ms[i].id # "")
RepairPass(ms) == dropEmptyMessages(stripDanglingToolCalls(stripOrphanToolMessages(ms)))
\* At most five passes, until nothing changes.
repairMessages(ms) == FoldLeft(LAMBDA a, k : RepairPass(a), ms, <<1, 2, 3, 4, 5>>)
validateMessages(ms) ==
    /\ ms # <<>>
    /\ \A i \in DOMAIN ms :
        /\ ms[i].role \in {"system", "developer", "user", "assistant", "tool"}
        /\ ms[i].role = "tool" => hasAnsweringAssistant(ms, i)
        /\ \A id \in ms[i].calls : hasToolResponse(ms, i, id)
        /\ ~(ms[i].form = "parts" /\ ms[i].parts = <<>>)

-----------------------------------------------------------------------------
(* The pipeline and the handlers.                                          *)

Staged(ms, stage, fell) == [msgs |-> ms, stage |-> stage, fell |-> fell]
\* One stage after the other until the budget is met.
RewriteStage(ms, prot) ==
    LET out == rewriteConversation(ms, prot)
    IN  IF FidelityPass(out.survived, out.total, 95) THEN Staged(out.msgs, "rewrite", FALSE) ELSE Staged(ms, "trim", TRUE)
ThoughtStage(ms, q, budget, prot) ==
    IF EstimateMessages(ms) <= budget \/ q.mode = "conservative" THEN Staged(ms, "trim", FALSE) ELSE RewriteStage(ms, prot)
ImageStage(ms, q, budget, prot) ==
    IF EstimateMessages(ms) <= budget THEN Staged(ms, "trim", FALSE)
    ELSE ThoughtStage(trimThinkingBlocks(ms, q.policy), q, budget, prot)
ToolStage(ms, q, budget, prot) ==
    IF EstimateMessages(ms) <= budget THEN Staged(ms, "trim", FALSE)
    ELSE ImageStage(trimOldImages(ms, q.keep, prot), q, budget, prot)
finish(r) == [r EXCEPT !.msgs = repairMessages(@)]
PipelineRun(ms, q, budget) == finish(ToolStage(trimToolResults(ms), q, budget, lastIndexOfRole(ms, "user")))

isOpenAIChat(q) == q.chat
modelContextWindow(model) == IF model = "known" THEN 2 * DefaultWindow ELSE DefaultWindow
Clamp(v, lo, hi) == IF v < lo THEN lo ELSE IF v > hi THEN hi ELSE v
\* Compressed at most once: a retried attempt sends the body that the first one
\* left.  Every early return forwards the body as it is.
AsIs(q, status) == [status |-> status, msgs |-> q.msgs]
Window(q, known) == IF q.max > 0 /\ q.max < known THEN q.max ELSE known
Reserve(q, window) == IF q.reserve <= 0 THEN Clamp((window * 15) \div 100, MinReserve, MaxReserve) ELSE q.reserve
Budget(q, window) == window - Reserve(q, window)
Compressed(q, r) == IF validateMessages(r.msgs) THEN [status |-> r.stage, msgs |-> r.msgs] ELSE AsIs(q, "rollback")
WithinBudget(q, budget) ==
    IF budget <= 0 THEN AsIs(q, "skip_no_rule")
    ELSE IF EstimateMessages(q.msgs) * 100 <= budget * 70 THEN AsIs(q, "skip_under")
    ELSE Compressed(q, PipelineRun(q.msgs, q, budget))
contextCompressHandler(q) ==
    IF q.status # "" THEN AsIs(q, q.status)
    ELSE IF q.mode = "off" THEN AsIs(q, "skip_no_rule")
    ELSE IF ~isOpenAIChat(q) THEN AsIs(q, "skip_protocol")
    ELSE IF ~q.all THEN AsIs(q, "skip_body")
    ELSE IF q.msgs = <<>> THEN AsIs(q, "skip_parse")
    ELSE WithinBudget(q, Budget(q, Window(q, modelContextWindow(q.model))))
responseAnnotated(status) == status \in {"trim", "rewrite"}

-----------------------------------------------------------------------------
(* Samples.                                                                *)

M(role, calls, id, form, parts) == [role |-> role, calls |-> calls, id |-> id, form |-> form, parts |-> parts]
ContextMessages ==
    {M("user", {}, "", "str", <<"filler">>), M("user", {}, "", "parts", <<"image", "image">>), M("user", {}, "", "parts", <<>>),
     M("system", {}, "", "str", <<"filler">>), M("assistant", {"x"}, "", "nil", <<>>),
     M("assistant", {"x", "y"}, "", "parts", <<"think">>), M("assistant", {}, "", "parts", <<"think", "dense">>),
     M("tool", {}, "x", "str", <<"long">>), M("tool", {}, "y", "nil", <<>>), M("tool", {}, "", "str", <<"short">>),
     M("other", {}, "", "str", <<"filler">>)}
ContextTalk == UNION {[1..n -> ContextMessages] : n \in 0..3} \cup [1..2 -> {M("assistant", {"x"}, "", "nil", <<>>), M("user", {}, "", "parts", <<"image", "image">>)}]
ContextInputs ==
    [of : {"context"}, msgs : ContextTalk, mode : {"conservative", "aggressive"}, max : {2, 4, 9}, keep : {1},
     policy : {"trim-all-but-last"}, status : {""}, chat : {TRUE}, all : {TRUE}, model : {"other"}, reserve : {0}]
    \cup [of : {"context"}, msgs : [1..2 -> {M("user", {}, "", "parts", <<"image", "image">>), M("tool", {}, "x", "str", <<"long">>)}],
          mode : ContextModes, max : {0, 3}, keep : {0, 1, 2}, policy : {"keep", "trim-all-but-last"}, status : {"", "trim"},
          chat : BOOLEAN, all : BOOLEAN, model : {"known", "other"}, reserve : {0, 1, 4}]
TextInputs == [of : {"text"}, text : UNION {[1..n -> {"please", "word", "code", "version", "quote", "colon"}] : n \in 0..4}]
FieldInputs == {[of |-> "fields", fields |-> f] :
                   f \in UNION {[d -> {"", "a"}] : d \in SUBSET {"role", "content", "name", "cache"}}}
ContextRules == [cond : {"", "c1", "c2"}, mode : {"off", "odd"}, max : {-1, 1}]
ContextFileInputs ==
    [of : {"ctxfile"}, rules : UNION {[1..n -> ContextRules] : n \in 0..2}, hasDefaults : BOOLEAN,
     defaults : [trigger : {-1, 0, 100}, keep : {-1, 1}, survival : {-1, 50}]]
AiContextInputs == ContextInputs \cup TextInputs \cup FieldInputs \cup ContextFileInputs

-----------------------------------------------------------------------------

\* Calls and results pair up, in order.
Answers(ms) ==
    /\ \A i \in DOMAIN ms : ms[i].role = "tool" => \E j \in 1..i : ms[j].role = "assistant" /\ ms[i].id \in ms[j].calls
    /\ \A i \in DOMAIN ms : \A id \in ms[i].calls : \E j \in i..Len(ms) : ms[j].role = "tool" /\ ms[j].id = id
LegalAnswer(q, a, last, mended) ==
    /\ mended =>
        /\ q.status = "" => Answers(a.msgs)
        /\ last # 0 => a.msgs[lastIndexOfRole(a.msgs, "user")] = q.msgs[last]
        /\ Len(a.msgs) <= Len(q.msgs)
        /\ q.status = "" => \A i \in DOMAIN a.msgs : i = lastIndexOfRole(a.msgs, "user")
                              \/ a.msgs[i].role = "system" \/ a.msgs[i].id # "" \/ a.msgs[i].calls # {} \/ ~emptyContent(a.msgs[i])
        /\ \A i \in DOMAIN a.msgs : a.msgs[i].role = "system" => \E j \in DOMAIN q.msgs : q.msgs[j] = a.msgs[i]
    /\ ~mended => a.msgs = q.msgs
    /\ a.status = "rollback" =>
        \/ \E i \in DOMAIN q.msgs : q.msgs[i].role = "other"
        \/ last # 0 /\ q.msgs[last].form = "parts" /\ q.msgs[last].parts = <<>>
        \/ \A i \in DOMAIN q.msgs : emptyContent(q.msgs[i]) \/ q.msgs[i].role \in {"tool", "assistant"}
TalkLegalOf(q, a) == LegalAnswer(q, a, lastIndexOfRole(q.msgs, "user"), responseAnnotated(a.status))
TalkLegal == Given("context") => TalkLegalOf(input, contextCompressHandler(input))

\* A message goes out with every field it came with that was not empty
\* (Message.UnmarshalJSON, MarshalJSON).
FieldsKept ==
    Given("fields") =>
        LET out == MarshalMessage(UnmarshalMessage(input.fields))
        IN  \A k \in DOMAIN input.fields : input.fields[k] # "" => k \in DOMAIN out /\ out[k] = input.fields[k]

\* A rule file that loads has defaults in range and, for every request, a rule
\* with a mode the handler knows (ContextRuleConfLoad).
ContextFileSound ==
    Given("ctxfile") =>
        LET f == ContextRuleConfLoad(input)
        IN  f.ok => /\ f.defaults.trigger \in 1..100 /\ f.defaults.survival \in 1..100
                    /\ ContextMatch(f, {"c1"}) # <<>> => ContextMatch(f, {"c1"})[1].mode \in ContextModes /\ ContextMatch(f, {"c1"})[1].max >= 0

\* What is forwarded is a conversation a provider takes, whatever was trimmed:
\* every tool result follows the call it answers and every call is answered, no
\* message is left empty, the last user message and the system messages' words
\* are untouched, the order is kept, and repair alone makes it so unless the
\* client's own roles or last message are illegal (Pipeline.Run, repairMessages,
\* contextCompressHandler).
\* A message keeps every field that was not empty, and a rule file that loads
\* has values in range.
ContextLegal == TalkLegal /\ FieldsKept /\ ContextFileSound

\* "URLs, paths, versions and numbers that must stay intact": a rewrite that the
\* fidelity gate lets through holds the words that were protected and no sentinel
\* in their place (protectText, restoreText).
SpansSurvive ==
    Given("text") =>
        LET r == rewriteText(input.text)
        IN  FidelityPass(r.survived, r.total, 95) => Range(r.text) \cap Range(Sentinels) = {}
=============================================================================
