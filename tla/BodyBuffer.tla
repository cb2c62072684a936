------------------------------ MODULE BodyBuffer -----------------------------
(***************************************************************************)
(* The bodies that the AI gateway keeps in memory so that an attempt can   *)
(* be repeated: what a bytes_body holds, where its reader stands, and the  *)
(* counter of all the bytes held, which every request of the process       *)
(* shares.                                                                 *)
(***************************************************************************)
EXTENDS Integers, Sequences, SequencesExt, FiniteSetsExt

CONSTANTS BodyReqs,        \* the requests in flight
          BodyLens,        \* lengths of the bodies that clients send
          Accessible,      \* GetAccessibleBodySize: how much is read into memory
          BufferLimits,    \* TotalBodyBufferSizeLimit, 0 for none
          BodyAttempts     \* bound on the attempts of a request

ASSUME BodyAssumption == BodyLens \subseteq Nat /\ Accessible \in Nat \ {0} /\ BufferLimits \subseteq Nat

VARIABLES bodies,      \* per request: the body in hand
          held,        \* totalBytesBodyBuffer
          bufferLimit
bodyVars == <<bodies, held, bufferLimit>>

\* A body: the bytes of its source (0 stands for a byte written by a module),
\* how many of them were taken, the buffer, whether it holds everything, what
\* was closed and given back, the reader (its buffer, its position, whether it
\* has gone on to the source), and what the attempt under way has sent.
NewBody(n) == [at |-> "raw", src |-> [i \in 1..n |-> i], taken |-> 0, kept |-> 0, buf |-> <<>>, all |-> FALSE,
               srcClosed |-> FALSE, released |-> FALSE, pos |-> 0, started |-> FALSE,
               sent |-> <<>>, eof |-> FALSE, tries |-> 1]

BodyInit ==
    /\ bodies \in [BodyReqs -> {NewBody(n) : n \in BodyLens}]
    /\ held = 0
    /\ bufferLimit \in BufferLimits

-----------------------------------------------------------------------------
(* The counter.                                                            *)

\* Over the limit the addition is not performed.
addTotalBytesBodyBuffer(total, delta) ==
    IF bufferLimit > 0 /\ total + delta > bufferLimit THEN total ELSE total + delta
subTotalBytesBodyBuffer(total, delta) == total - delta

-----------------------------------------------------------------------------
(* The operations of a bytes_body.                                         *)

\* The start of the body is read, as far as the limit; a body that is shorter
\* is complete and needs its source no more.
newBytesBody(b) ==
    LET n == IF Len(b.src) < Accessible THEN Len(b.src) ELSE Accessible
    IN  [b EXCEPT !.at = "held", !.buf = SubSeq(b.src, 1, n), !.all = n < Accessible, !.taken = n, !.kept = n]

\* A new reader over a new buffer, followed by the source unless the buffer is all.
SetBytes(b, new, all) ==
    [b EXCEPT !.buf = new, !.all = @ \/ all, !.pos = 0, !.started = FALSE, !.sent = <<>>, !.eof = FALSE]
Reader(b) == b.buf \o (IF b.all THEN <<>> ELSE SubSeq(b.src, b.taken + 1, Len(b.src)))

BadRewindable(b) == ~b.srcClosed \/ b.all
Rewindable(b) == ~((b.srcClosed \/ b.started) /\ ~b.all)

-----------------------------------------------------------------------------
(* The steps of a request.                                                 *)

\* prepareRequestBodyForRetry looks at the counter before the body is read; at
\* the limit the request goes on without a buffer.
prepareRequestBodyForRetry(q) ==
    /\ bodies[q].at = "raw"
    /\ bodies' = [bodies EXCEPT ![q].at = IF bufferLimit > 0 /\ held >= bufferLimit THEN "passed" ELSE "checked"]
    /\ UNCHANGED <<held, bufferLimit>>

\* A condition or a module that wants to see the body has it buffered whatever
\* the counter says.
AccessBody(q) ==
    /\ bodies[q].at \in {"raw", "passed"}
    /\ bodies[q].taken = 0
    /\ bodies' = [bodies EXCEPT ![q].at = "checked"]
    /\ UNCHANGED <<held, bufferLimit>>

GetBodyAccessor(q) ==
    /\ bodies[q].at = "checked"
    /\ bodies' = [bodies EXCEPT ![q] = newBytesBody(@)]
    /\ held' = addTotalBytesBodyBuffer(held, Len(bodies'[q].buf))
    /\ UNCHANGED bufferLimit

\* A module puts another text in the place of the buffered one.
RewriteBody(q, n) ==
    LET b == bodies[q]
    IN  /\ b.at = "held" /\ b.pos = 0 /\ ~b.started /\ 0 \notin Range(b.buf)
        /\ bodies' = [bodies EXCEPT ![q] = SetBytes(b, [i \in 1..n |-> 0], FALSE)]
        /\ held' = IF b.released THEN held
                   ELSE addTotalBytesBodyBuffer(subTotalBytesBodyBuffer(held, Len(b.buf)), n)
        /\ UNCHANGED bufferLimit

\* The transport takes a byte: from the buffer, then from the source.
ReadByte(q) ==
    LET b == bodies[q]
        next == IF b.pos < Len(b.buf) THEN <<b.buf[b.pos + 1]>>
                ELSE IF b.all \/ b.taken = Len(b.src) THEN <<>> ELSE <<b.src[b.taken + 1]>>
    IN  /\ b.at = "held" /\ ~b.eof
        /\ ~(b.srcClosed /\ ~b.all /\ b.pos = Len(b.buf))
        /\ bodies' = [bodies EXCEPT ![q].pos = IF b.pos < Len(b.buf) THEN @ + 1 ELSE @,
                                    ![q].started = b.pos = Len(b.buf),
                                    ![q].taken = IF b.pos = Len(b.buf) /\ next # <<>> THEN @ + 1 ELSE @,
                                    ![q].sent = @ \o next, ![q].eof = next = <<>>]
        /\ UNCHANGED <<held, bufferLimit>>

\* The source is closed and the buffer counted out, once.
CloseBody(q) ==
    LET b == bodies[q]
    IN  /\ b.at = "held" /\ ~b.srcClosed
        /\ bodies' = [bodies EXCEPT ![q].srcClosed = TRUE, ![q].released = TRUE]
        /\ held' = IF b.released THEN held ELSE subTotalBytesBodyBuffer(held, Len(b.buf))
        /\ UNCHANGED bufferLimit

\* Another attempt starts from the first byte, or not at all.
rewindRequestBody(q) ==
    LET b == bodies[q]
    IN  /\ b.at = "held" /\ b.tries < BodyAttempts /\ Rewindable(b)
        /\ bodies' = [bodies EXCEPT ![q] = [SetBytes(b, b.buf, b.all) EXCEPT !.tries = @ + 1]]
        /\ held' = IF b.released THEN held
                   ELSE addTotalBytesBodyBuffer(subTotalBytesBodyBuffer(held, Len(b.buf)), Len(b.buf))
        /\ UNCHANGED bufferLimit

BodyNext ==
    \E q \in BodyReqs :
        \/ prepareRequestBodyForRetry(q)
        \/ AccessBody(q)
        \/ GetBodyAccessor(q)
        \/ \E n \in {1, 2} : RewriteBody(q, n)
        \/ ReadByte(q)
        \/ CloseBody(q)
        \/ rewindRequestBody(q)
BodySpec == BodyInit /\ [][BodyNext]_bodyVars

-----------------------------------------------------------------------------
(* An attempt that has read its body to the end has sent all of it, from   *)
(* the first byte: the buffer, rewritten or not, and then what the client  *)
(* sent beyond it.  A body of which a part is gone is not sent again       *)
(* (bytes_body.Rewind, SetBytes and bodyReader.Read).                      *)
BodyResent ==
    \A q \in BodyReqs :
        bodies[q].eof => bodies[q].sent = bodies[q].buf \o SubSeq(bodies[q].src, bodies[q].kept + 1, Len(bodies[q].src))

(* "totalBytesBodyBuffer tracks the sum of bytes_body.buf sizes currently  *)
(* in use": an addition refused at the limit is still subtracted when the  *)
(* body is closed.                                                         *)
BufferCounted ==
    held = FoldSet(LAMBDA q, n : n + Len(bodies[q].buf), 0,
                   {q \in BodyReqs : bodies[q].at = "held" /\ ~bodies[q].released})
=============================================================================
