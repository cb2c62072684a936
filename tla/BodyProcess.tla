----------------------------- MODULE BodyProcess -----------------------------
(***************************************************************************)
(* mod_body_process: the body of an AI request or response is read as      *)
(* events (lines of an event stream, JSON values or plain lines), which an *)
(* audit may refuse or replace and from which the usage of tokens is read, *)
(* and written again.  Pure.  A line of a stream is a record of its kind,  *)
(* its value and its end ("lf", "crlf", or "" at the very end); a usage is *)
(* a function from the places in the JSON data that hold a number.         *)
(***************************************************************************)
EXTENDS Integers, Sequences, SequencesExt, FiniteSets, FiniteSetsExt, TLC, Sample

-----------------------------------------------------------------------------
(* The event stream.                                                       *)

L(kind, val, end) == [kind |-> kind, val |-> val, end |-> end]
OfKind(lines, kind) == SelectSeq(lines, LAMBDA l : l.kind = kind)
\* A retry that is not a number is part of the raw bytes only.
hasContent(lines) == \E i \in DOMAIN lines : lines[i].kind \notin {"blank", "badretry"}
SetData(ev, val) == [ev EXCEPT !.data = <<val>>, !.dirty = TRUE]
\* An event as it came, or built again from what was read of it.
Field(kind, vals, end) == [i \in DOMAIN vals |-> L(kind, vals[i], end)]
ToBytes(ev) ==
    IF ~ev.dirty THEN ev.raw
    ELSE Field("comment", ev.comments, ev.end) \o Field("event", ev.event, ev.end) \o Field("data", ev.data, ev.end)
         \o Field("raw", ev.others, ev.end) \o (IF ev.truncated THEN <<>> ELSE <<L("blank", 0, ev.end)>>)
Vals(lines) == [i \in DOMAIN lines |-> lines[i].val]
\* The event that ends at the first of these positions, or with the stream.
\* Later event names replace earlier ones, data lines are kept in their order.
EventAt(lines, ends) ==
    LET n == IF ends = {} THEN Len(lines) ELSE Min(ends)
        raw == SubSeq(lines, 1, n)
        named == Vals(OfKind(raw, "event"))
    IN  [raw |-> raw, rest |-> SubSeq(lines, n + 1, Len(lines)), none |-> ~hasContent(raw), dirty |-> FALSE,
         truncated |-> ends = {}, end |-> IF ends # {} /\ lines[n].end = "crlf" THEN "crlf" ELSE "lf",
         comments |-> Vals(OfKind(raw, "comment")), event |-> IF named = <<>> THEN <<>> ELSE <<Last(named)>>,
         data |-> Vals(OfKind(raw, "data")), others |-> Vals(OfKind(raw, "raw"))]
\* The next event ends at a blank line behind some content.
BadDecode(lines) == EventAt(lines, {i \in DOMAIN lines : lines[i].kind = "blank"})
Decode(lines) == EventAt(lines, {i \in DOMAIN lines : lines[i].kind = "blank" /\ hasContent(SubSeq(lines, 1, i))})
LineDecode(lines) == [raw |-> SubSeq(lines, 1, 1), rest |-> Tail(lines), none |-> FALSE, dirty |-> FALSE,
                      truncated |-> FALSE, end |-> "", comments |-> <<>>, event |-> <<>>, data |-> <<>>, others |-> <<>>]
\* Which decoder reads a body: the one the rule names, lines when the body is
\* compressed, the event stream when the response is one, or by the media type.
hasContentEncoding(encodings) == encodings \ {"", "identity"} # {}
NewContentTypeDecoder(type) ==
    CASE type \in {"application/sse", "text/event-stream"} -> "sse"
      [] type \in {"application/json", "application/ndjson"} -> "json"
      [] OTHER -> "line"
RequestDecoder(c) ==
    IF c.dec \in {"line", "json"} THEN c.dec ELSE IF hasContentEncoding(c.encodings) THEN "line" ELSE NewContentTypeDecoder(c.type)
ResponseDecoder(c) ==
    IF c.dec # "" THEN c.dec ELSE IF hasContentEncoding(c.encodings) THEN "line"
    ELSE IF c.isSse THEN "sse" ELSE NewContentTypeDecoder(c.type)
DecodeBy(dec, lines) == IF dec = "sse" THEN Decode(lines) ELSE LineDecode(lines)

-----------------------------------------------------------------------------
(* The audit, and the body that is read through it.                        *)

SetAuditData(dec, ev, val) == IF dec = "sse" THEN SetData(ev, val) ELSE [ev EXCEPT !.raw = <<L("data", val, "")>>]
\* A service that fails lets the event pass.  A request is refused for what it
\* says, a response has its text replaced.
ContentAudit(dec, ev, answer, replace) ==
    CASE answer = "failed" -> [ev |-> ev, refused |-> FALSE]
      [] replace /\ answer = "replace" -> [ev |-> SetAuditData(dec, ev, 9), refused |-> FALSE]
      [] ~replace /\ answer = "REJECT" -> [ev |-> ev, refused |-> TRUE]
      [] OTHER -> [ev |-> ev, refused |-> FALSE]
\* Decode, process and encode the next event into the buffer.  What the source
\* breaks off with is reported once the content before it is out.
Encoded(bp, ev, done) ==
    IF bp.src = <<>> \/ ev.none THEN [bp EXCEPT !.err = IF bp.breaks THEN "broken" ELSE "EOF", !.src = <<>>]
    ELSE IF done.refused THEN [bp EXCEPT !.err = "refused"]
    ELSE [bp EXCEPT !.src = ev.rest, !.count = @ + 1, !.buffer = @ \o ToBytes(done.ev)]
Processed(bp, ev) ==
    Encoded(bp, ev, IF bp.audited THEN ContentAudit(bp.dec, ev, bp.answers[bp.count + 1], bp.replace)
                    ELSE [ev |-> ev, refused |-> FALSE])
fillBuffer(bp) == Processed(bp, DecodeBy(bp.dec, bp.src))
\* One read: the buffer is filled when it holds less than was asked for, and an
\* error is told at once, whatever the buffer still holds.
Copied(b, n) ==
    IF b.err \in {"broken", "refused"} THEN b
    ELSE [b EXCEPT !.out = @ \o SubSeq(b.buffer, 1, n), !.buffer = SubSeq(b.buffer, n + 1, Len(b.buffer)),
                   !.err = IF b.err = "EOF" /\ b.buffer = <<>> THEN "done" ELSE b.err]
UpTo(b, size) == Copied(b, Min({size, Len(b.buffer)}))
ReadOnce(bp, size) == UpTo(IF Len(bp.buffer) < size /\ bp.err = "" THEN fillBuffer(bp) ELSE bp, size)
ReadAll(bp, size) ==
    FoldLeft(LAMBDA b, k : IF b.err \in {"broken", "refused", "done"} THEN b ELSE ReadOnce(b, size),
             bp, [k \in 1..(3 * Len(bp.src) + 4) |-> k])
\* A rule wraps the body; how long it will be is no longer known.
Processor(dec, body, conf, replace, answers, breaks) ==
    [dec |-> dec, src |-> body, buffer |-> <<>>, out |-> <<>>, err |-> "",
     audited |-> conf.audited, replace |-> replace, answers |-> answers, count |-> 0, breaks |-> breaks, length |-> -1]
DoRequestProcess(body, conf, answers, breaks) == Processor(RequestDecoder(conf), body, conf, FALSE, answers, breaks)
DoResponseProcess(body, conf, answers, breaks) == Processor(ResponseDecoder(conf), body, conf, TRUE, answers, breaks)
\* Files and batches pass as they are; a request counts as in flight before that.
afterLocationHandler(req) ==
    [inFlight |-> IF req.ai THEN 1 ELSE 0, wrapped |-> req.ai /\ req.matched /\ req.mode \notin {"file", "batch"}]
requestFinishHandler(req) == IF req.ai THEN -1 ELSE 0
BodyProcessConfigCheck(c) == c.dec \in {"", "line", "json", "sse"} /\ (c.audited => c.params = 1)
BodyRuleConfLoad(f) == f.whole /\ \A i \in DOMAIN f.rules : f.rules[i].cond # "" /\ BodyProcessConfigCheck(f.rules[i])

-----------------------------------------------------------------------------
(* The usage that an event tells.                                          *)

At(d, obj, leaf) == IF <<obj, leaf>> \in DOMAIN d THEN d[<<obj, leaf>>] ELSE 0
Exists(d, obj, leaf) == <<obj, leaf>> \in DOMAIN d
IsObject(d, obj) == \E k \in DOMAIN d : k[1] = obj
OrElse(a, b) == IF a = 0 THEN b ELSE a
Zero(f) == f.prompt = 0 /\ f.completion = 0
parseOpenAIUsageFieldsWithPrefix(d, obj, leafIn, leafOut) ==
    [present |-> IsObject(d, obj), promptPresent |-> Exists(d, obj, leafIn), used |-> At(d, obj, "total"),
     prompt |-> At(d, obj, leafIn), completion |-> At(d, obj, leafOut),
     read |-> OrElse(At(d, obj, "cache_read"), At(d, obj, "cached_tokens"))]
FirstTold(chat, resp, nested) ==
    IF ~Zero(chat) THEN chat ELSE IF ~Zero(resp) THEN resp ELSE IF ~Zero(nested) THEN nested ELSE chat
ParseOpenAIUsageFields(d) ==
    FirstTold(parseOpenAIUsageFieldsWithPrefix(d, "usage", "prompt", "completion"),
              parseOpenAIUsageFieldsWithPrefix(d, "response.usage", "input", "output"),
              parseOpenAIUsageFieldsWithPrefix(d, "choices.usage", "prompt", "completion"))
ParseAnthropicUsageFields(d) ==
    LET obj == IF Exists(d, "usage", "input") \/ Exists(d, "usage", "output") THEN "usage" ELSE "message.usage"
        read == OrElse(At(d, "usage", "cache_read_input"), At(d, "message.usage", "cache_read_input"))
        prompt == At(d, obj, "input") + read
        completion == At(d, obj, "output")
        total == OrElse(At(d, "usage", "total"), At(d, "message.usage", "total"))
    IN  [present |-> IsObject(d, "usage") \/ IsObject(d, "message.usage"),
         promptPresent |-> Exists(d, "usage", "input") \/ Exists(d, "message.usage", "input"),
         used |-> OrElse(total, prompt + completion), prompt |-> prompt, completion |-> completion, read |-> read]
ParseGeminiUsageFields(d) ==
    LET prompt == At(d, "meta", "prompt")
        completion == At(d, "meta", "candidates")
    IN  [present |-> IsObject(d, "meta"), promptPresent |-> Exists(d, "meta", "prompt"),
         used |-> OrElse(At(d, "meta", "total"), prompt + completion), prompt |-> prompt, completion |-> completion,
         read |-> At(d, "meta", "cached")]
\* Another protocol is tried when the one before has told nothing.
Over(f, g) ==
    IF ~Zero(f) THEN f
    ELSE [present |-> f.present \/ g.present, promptPresent |-> f.promptPresent \/ g.promptPresent,
          used |-> OrElse(f.used, g.used), prompt |-> g.prompt, completion |-> g.completion, read |-> OrElse(f.read, g.read)]
ParseUsageFieldsCrossProtocol(d) ==
    Over(Over(ParseOpenAIUsageFields(d), ParseAnthropicUsageFields(d)), ParseGeminiUsageFields(d))

IsFinalUsageEvent(style, type, d) ==
    IF style = "gemini" THEN IsObject(d, "meta")
    ELSE type \in {"message_delta", "message", ""} \/ (style = "openai" /\ type = "response.completed")
IsStreamTerminal(style, type) ==
    style # "gemini" /\ (type \in {"message_stop", "[DONE]"} \/ (style = "openai" /\ type = "response.completed"))
QuotaOf(f, style, ev) ==
    f @@ [guess |-> IF f.present THEN 0 ELSE ev.size,
          final |-> f.present /\ IsFinalUsageEvent(style, ev.type, ev.data),
          terminal |-> IsStreamTerminal(style, ev.type)]
GetQuotaUsage(style, ev) == QuotaOf(ParseUsageFieldsCrossProtocol(ev.data), style, ev)
\* What one event adds to the usage of the request: the first usage that is
\* told, then only the final ones, and guesses as long as none was told.
UsageAfter(t, q) ==
    LET seen == t.final \/ q.final
        kept == q.final /\ ~q.promptPresent /\ t.prompt > 0
        took == (t.used <= 0 \/ q.final) /\ q.present
        u == IF ~took \/ ~(q.used > 0 \/ q.final \/ q.prompt > 0 \/ q.completion > 0) THEN t
             ELSE [t EXCEPT !.completion = q.completion, !.prompt = IF kept THEN t.prompt ELSE q.prompt,
                            !.read = IF kept THEN t.read ELSE q.read,
                            !.used = IF kept THEN t.prompt + q.completion
                                     ELSE IF q.used > 0 \/ q.final THEN q.used ELSE q.prompt + q.completion]
        guess == IF t.used <= 0 \/ q.final THEN q.guess ELSE 0
    IN  [u EXCEPT !.final = seen, !.completed = @ \/ q.terminal,
                  !.completion = IF ~seen /\ u.used <= 0 /\ t.estimates
                                 THEN (IF u.completion = -1 THEN 0 ELSE u.completion) + guess ELSE u.completion]
UsageProcess(t, style, ev) == UsageAfter(t, GetQuotaUsage(style, ev))

-----------------------------------------------------------------------------
(* The inputs and the properties.                                          *)

Lines == {L(k, v, e) : k \in {"data", "event"}, v \in {1, 2}, e \in {"lf"}} \cup {L("blank", 0, "lf"), L("blank", 0, "crlf"),
          L("comment", 1, "lf"), L("raw", 1, "lf"), L("badretry", 1, "lf")}
Confs == [dec : {"", "sse", "line"}, encodings : {{}, {"identity"}, {"gzip"}}, isSse : BOOLEAN, type : {"text/event-stream", "text/plain"},
          audited : {FALSE}]
Plain == [dec |-> "sse", encodings |-> {}, isSse |-> TRUE, type |-> "text/event-stream", audited |-> TRUE]
Answers == [1..3 -> {"failed", "pass", "replace", "REJECT"}]
\* A stream of Anthropic starts with the usage of the prompt.
ClaudeStarts == {[type |-> "message_start", size |-> 1, data |-> (<<"message.usage", "input">> :> n) @@ (<<"message.usage", "output">> :> 1)] : n \in {0, 3}}
Claude == {[type |-> "message_delta", size |-> 1, data |-> (<<"usage", "output">> :> n)] : n \in {0, 2, 5}}
     \cup {[type |-> "content", size |-> 2, data |-> << >>], [type |-> "message_stop", size |-> 0, data |-> << >>]}
Gpt == {[type |-> "", size |-> 2, data |-> << >>], [type |-> "[DONE]", size |-> 0, data |-> << >>]}
  \cup {[type |-> "", size |-> 1, data |-> (<<"usage", "prompt">> :> 2) @@ (<<"usage", "completion">> :> n) @@ (<<"usage", "total">> :> 2 + n)] : n \in {0, 4}}
  \cup {[type |-> "response.completed", size |-> 1, data |-> (<<"response.usage", "input">> :> 2) @@ (<<"response.usage", "output">> :> 4)],
        [type |-> "", size |-> 1, data |-> (<<"choices.usage", "prompt">> :> 1) @@ (<<"choices.usage", "completion">> :> 1)]}
Gemini == {[type |-> "", size |-> 1, data |-> (<<"meta", "prompt">> :> 2) @@ (<<"meta", "candidates">> :> n)] : n \in {1, 4}}
Events == {<<"anthropic", <<s>> \o e>> : s \in ClaudeStarts, e \in BoundedSeq(Claude, 3)} \cup {<<"openai", e>> : e \in BoundedSeq(Gpt, 3)}
          \cup {<<"gemini", e>> : e \in BoundedSeq(Gemini, 3)}
BodyProcessInputs ==
    [of : {"events"}, lines : BoundedSeq(Lines, 3), conf : {Plain}, replace : BOOLEAN, answers : {<<"pass", "replace", "REJECT">>,
        <<"REJECT", "pass", "pass">>, <<"failed", "REJECT", "replace">>, <<"replace", "replace", "replace">>}, size : {1, 4}, breaks : BOOLEAN]
    \cup [of : {"events"}, lines : BoundedSeq(Lines, 2), conf : Confs, replace : BOOLEAN, answers : {<<"pass", "pass", "pass">>},
          size : {1}, breaks : {FALSE}]
    \cup [of : {"usage"}, stream : Events, estimates : BOOLEAN]
    \cup [of : {"wrap"}, ai : BOOLEAN, matched : BOOLEAN, mode : {"chat", "file", "batch"}, whole : BOOLEAN,
          rules : {<<[cond |-> c, dec |-> d, audited |-> a, params |-> n]>> : c \in {"yes", ""}, d \in {"", "sse", "xml"}, a \in BOOLEAN, n \in {0, 1}}]

\* The events of a stream as its client sees them.
ClientEvents(lines) ==
    LET step(acc, k) == IF acc.rest = <<>> THEN acc
                        ELSE LET ev == Decode(acc.rest)
                             IN  IF ev.none THEN [acc EXCEPT !.rest = <<>>]
                                 ELSE [rest |-> ev.rest, said |-> Append(acc.said, [event |-> ev.event, data |-> ev.data])]
    IN  FoldLeft(step, [rest |-> lines, said |-> <<>>], [k \in 1..Len(lines) |-> k]).said
\* The lines without the blank ones that end a stream behind its last event.
Trimmed(lines) ==
    LET full == {i \in DOMAIN lines : lines[i].kind \notin {"blank", "badretry"}}
        ends == {i \in DOMAIN lines : full # {} /\ i > Max(full) /\ lines[i].kind = "blank"}
    IN  IF full = {} THEN <<>> ELSE IF ends = {} THEN lines ELSE SubSeq(lines, 1, Min(ends))
EventsKept(bp, before, after) ==
        LET replaced(i) == input.conf.audited /\ input.replace /\ input.answers[i] = "replace"
            refusedAt == {i \in 1..Min({3, Len(before)}) : input.conf.audited /\ ~input.replace /\ input.answers[i] = "REJECT"}
        IN  /\ bp.err \in {"done", "broken", "refused"}
            /\ (bp.err = "refused") = (refusedAt # {})
            /\ bp.dec = "sse" =>
                  \* a read that ends well has delivered every event, each replaced or as it was
                  /\ bp.err = "done" =>
                        /\ Len(after) = Len(before)
                        /\ \A i \in DOMAIN after : /\ after[i].event = before[i].event
                                                   /\ after[i].data = IF replaced(i) THEN <<9>> ELSE before[i].data
                        /\ (\A i \in 1..Min({3, Len(before)}) : ~replaced(i)) => bp.out = Trimmed(input.lines)
                  \* of a refused body nothing passes from the refused event on
                  /\ bp.err = "refused" => Len(after) < Min(refusedAt)
            /\ bp.dec # "sse" /\ bp.err = "done" => bp.out = input.lines
ReadKept(bp) == EventsKept(bp, ClientEvents(input.lines), ClientEvents(bp.out))
StreamKept ==
    Given("events") =>
        ReadKept(ReadAll(IF input.replace THEN DoResponseProcess(input.lines, input.conf, input.answers, input.breaks)
                         ELSE DoRequestProcess(input.lines, input.conf, input.answers, input.breaks), input.size))
QuotasKept(evs, qs, t) ==
    LET finals == {i \in DOMAIN evs : qs[i].final}
        told == {i \in DOMAIN evs : qs[i].prompt > 0}
        last == qs[Max(finals)]
    IN  /\ t.final = (finals # {})
        /\ finals # {} =>
              \* the last final usage is what is billed, with the prompt it does not repeat
              /\ t.completion = last.completion
              /\ last.promptPresent => t.prompt = last.prompt /\ t.used = last.used
              /\ ~last.promptPresent /\ told # {} /\ Min(told) < Max(finals) => t.prompt > 0 /\ t.used = t.prompt + last.completion
        \* without a usage the completion is guessed from every event, or not at all
        /\ (\A i \in DOMAIN evs : ~qs[i].present) =>
              t.completion = IF input.estimates /\ evs # <<>> THEN FoldLeft(LAMBDA a, e : a + e.size, 0, evs) ELSE -1
StreamUsage(style, evs, start) ==
    QuotasKept(evs, [i \in DOMAIN evs |-> GetQuotaUsage(style, evs[i])], FoldLeft(LAMBDA u, e : UsageProcess(u, style, e), start, evs))
UsageKept ==
    Given("usage") =>
        StreamUsage(input.stream[1], input.stream[2],
                    [used |-> 0, prompt |-> 0, completion |-> -1, read |-> 0, final |-> FALSE, completed |-> FALSE,
                     estimates |-> input.estimates])
WrapKept ==
    Given("wrap") => /\ afterLocationHandler(input).inFlight + requestFinishHandler(input) = 0
                     /\ afterLocationHandler(input).wrapped => input.mode = "chat"
                     /\ BodyRuleConfLoad(input) => \A i \in DOMAIN input.rules : input.rules[i].dec # "xml"

\* A body read through mod_body_process loses no event and changes none but
\* those the audit replaced, however small the reads and wherever events end
\* (SSEEventDecoder.Decode, BodyProcessor.fillBuffer); from a refused event on
\* nothing passes; and the usage billed is that of the last final usage event,
\* with the prompt an earlier event told, or a guess over all events when none
\* tells one (QuotaUsageProcessor.Process).
BodyProcessed == StreamKept /\ UsageKept /\ WrapKept
=============================================================================
