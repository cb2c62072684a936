------------------------------ MODULE AiStream ------------------------------
(***************************************************************************)
(* aiErrorStreamFilter: the body of an SSE answer of a provider, with its  *)
(* error events rewritten.  The client reads while the provider's bytes    *)
(* arrive in pieces of any size.                                           *)
(*                                                                         *)
(* Bytes are letters: "t" data, "e" the data of an error event, "d" the    *)
(* data of the event that ends the stream, "u" the unified error, "r" and  *)
(* "n" the characters of a line end.                                       *)
(***************************************************************************)
EXTENDS Naturals, Sequences, SequencesExt

CONSTANTS Streams   \* bodies a provider may send

VARIABLES
    src,       \* bytes the provider has yet to send
    raw, pending, sawTerm, hit, eof, done,
    truncated, \* aiMeta.StreamTruncated
    got,       \* bytes the client has read
    reader,    \* "reading", or how the body ended for the client
    body       \* what the provider sends, whole

filterVars == <<src, raw, pending, sawTerm, hit, eof, done, truncated>>
strVars == <<filterVars, got, reader, body>>

StrTypeOK ==
    /\ body \in Streams /\ IsSuffix(src, body)
    /\ \A b \in {sawTerm, hit, eof, done, truncated} : b \in BOOLEAN
    /\ reader \in {"reading", "eof", "error"}

StrInit ==
    /\ body \in Streams /\ src = body
    /\ raw = <<>> /\ pending = <<>> /\ got = <<>>
    /\ sawTerm = FALSE /\ hit = FALSE /\ eof = FALSE /\ done = FALSE /\ truncated = FALSE
    /\ reader = "reading"

-----------------------------------------------------------------------------
\* Where an event separator starts, with its length.
SepAt(b, i) ==
    CASE i + 3 <= Len(b) /\ SubSeq(b, i, i + 3) = <<"r", "n", "r", "n">> -> 4
      [] i + 1 <= Len(b) /\ SubSeq(b, i, i + 1) = <<"n", "n">> -> 2
      [] OTHER -> 0

\* splitSSEBlock: the first separator of b, or 0.
splitSSEBlock(b) ==
    LET at == {i \in 1..Len(b) : SepAt(b, i) > 0}
    IN  IF at = {} THEN 0 ELSE CHOOSE i \in at : \A j \in at : i <= j

\* An error event keeps its other lines and has one data line; everything
\* else passes as it is.
processBlock(block, sep) ==
    IF "e" \in Range(block)
    THEN <<"u">> \o (IF Len(sep) = 4 THEN <<"r", "n">> ELSE <<"n">>) \o sep
    ELSE block \o sep

\* The complete events of b, processed, and what is left of b.
processBlocks[b \in Seq({"t", "e", "d", "r", "n"})] ==
    LET i == splitSSEBlock(b)
        len == SepAt(b, i)
        rest == processBlocks[SubSeq(b, i + len, Len(b))]
    IN  IF i = 0 THEN [out |-> <<>>, rest |-> b, term |-> FALSE, hit |-> FALSE]
        ELSE LET block == SubSeq(b, 1, i - 1)
             IN  [out |-> processBlock(block, SubSeq(b, i, i + len - 1)) \o rest.out,
                  rest |-> rest.rest,
                  term |-> rest.term \/ ("d" \in Range(block) /\ "e" \notin Range(block)),
                  hit |-> rest.hit \/ "e" \in Range(block)]

\* finalize marks a stream that ended without its terminal event.
finalize(term) == truncated' = ~term

\* Without what is left incomplete:
BadFlush(left, out, term) ==
    /\ pending' = out /\ raw' = <<>>
    /\ finalize(term)
    /\ eof' = TRUE /\ done' = TRUE

\* fill at the end of the source appends an incomplete event as it is.
Flush(left, out, term) ==
    /\ pending' = out \o left /\ raw' = <<>>
    /\ finalize(term)
    /\ eof' = TRUE /\ done' = TRUE

\* fill: one read of the source, of n bytes, with the end of the stream or
\* without.  What is left incomplete stays in raw.
fill ==
    \E n \in 0..Len(src), last \in BOOLEAN :
        LET p == processBlocks[raw \o SubSeq(src, 1, n)]
        IN  /\ last => n = Len(src)
            /\ n = 0 => last
            /\ src' = SubSeq(src, n + 1, Len(src))
            /\ sawTerm' = (sawTerm \/ p.term) /\ hit' = (hit \/ p.hit)
            /\ IF last THEN Flush(p.rest, p.out, sawTerm')
               ELSE pending' = p.out /\ raw' = p.rest /\ UNCHANGED <<eof, done, truncated>>

\* After fill, Read reports the end of the body when nothing is pending.
AtEof == pending' = <<>>

\* Read with nothing pending: either the filter is done, or fill runs once.
ReadFill ==
    /\ reader = "reading" /\ pending = <<>>
    /\ IF done
       THEN reader' = "eof" /\ UNCHANGED filterVars
       ELSE fill /\ reader' = IF AtEof THEN "eof" ELSE reader
    /\ UNCHANGED <<got, body>>

\* Read hands out what fits into the caller's buffer.
ReadPending ==
    /\ reader = "reading" /\ pending # <<>>
    /\ \E n \in 1..Len(pending) :
          got' = got \o SubSeq(pending, 1, n) /\ pending' = SubSeq(pending, n + 1, Len(pending))
    /\ UNCHANGED <<src, raw, sawTerm, hit, eof, done, truncated, reader, body>>

\* The source fails: fill returns the error, and Read with it.
ReadFails ==
    /\ reader = "reading" /\ pending = <<>> /\ ~done /\ src # <<>>
    /\ reader' = "error"
    /\ UNCHANGED <<filterVars, got, body>>

StrNext == ReadFill \/ ReadPending \/ ReadFails

StrSpec == StrInit /\ [][StrNext]_strVars

-----------------------------------------------------------------------------
\* The body with its error events rewritten.
Rewritten == LET p == processBlocks[body] IN p.out \o p.rest

\* However the provider's bytes are cut into reads, the client has read a
\* prefix of the stream with its error events rewritten: no byte of an event
\* is lost, repeated or processed in halves, and a filter that is done has
\* handed over everything.
PrefixDelivered ==
    /\ IsPrefix(got, Rewritten)
    /\ done /\ pending = <<>> => got = Rewritten
    /\ done => truncated = ~processBlocks[body].term

\* What the comment on aiErrorStreamFilter says: all other events pass through
\* byte-identical, so that the body ends for the client when it has read all.
StreamDelivered == reader = "eof" => got = Rewritten
=============================================================================
