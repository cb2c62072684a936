-------------------------------- MODULE Http2 --------------------------------
(***************************************************************************)
(* One HTTP/2 connection: the serve loop, which owns the streams, the flow *)
(* control windows and the write scheduler; the goroutine that writes one  *)
(* frame at a time; the client; and for every stream the handler and the   *)
(* goroutine that reads the request body (the transport's writer, which    *)
(* may outlive the handler).                                               *)
(*                                                                         *)
(* The connection is one record, c.  An operation of the serve loop maps a *)
(* connection to the set of connections it may leave, because the write    *)
(* scheduler ranges over a Go map.                                         *)
(***************************************************************************)
EXTENDS Integers, Sequences, FiniteSets

CONSTANTS
    StreamIds,      \* 1..N: the ids in the order the client may use them
    AdvMaxStreams,  \* advMaxStreams
    MaxControl,     \* maxQueuedControlFrames
    W,              \* windows are integers of -W..W-1 (int32 in the code)
    InitWindow,     \* initialWindowSize
    MaxFrame,       \* maxFrameSize
    RecvWindow,     \* what the server lets the client send
    Windows,        \* SETTINGS_INITIAL_WINDOW_SIZE values the client uses
    Increments,     \* WINDOW_UPDATE increments
    Bodies,         \* lengths of DATA frames of the client
    Chunk,          \* bytes of a write of the handler
    Declared,       \* declared lengths of request bodies, -1 for none
    Clients         \* what may happen on one connection: the streams it has, the frames
                    \* the client sends and the kinds of frames and events

ASSUME StreamsAssumption == StreamIds = 1..Cardinality(StreamIds)

VARIABLE c, budget

h2Vars == <<c, budget>>

None == [k |-> "none", s |-> 0]
Control(k) == [k |-> k, s |-> 0]
Data(s, n, end) == [k |-> "data", s |-> s, n |-> n, end |-> end, w |-> TRUE]
ResHeaders(s, end) == [k |-> "headers", s |-> s, end |-> end, w |-> TRUE]
ends(f) == f.k \in {"data", "headers"} /\ f.end

H2Init ==
    /\ \E cl \in Clients :
        /\ budget = cl.frames
        /\ c = [client |-> cl.kinds, ids |-> 1..cl.streams, flow |-> InitWindow, inflow |-> RecvWindow, init |-> InitWindow, credit |-> InitWindow,
            maxId |-> 0, unacked |-> 1, writing |-> Control("settings"), flush |-> TRUE,
            needAck |-> FALSE, needBye |-> FALSE, bye |-> "no", done |-> "no",
            zero |-> <<>>, want |-> <<>>, sq |-> [s \in StreamIds |-> <<>>],
            str |-> [s \in StreamIds |->
                [state |-> "idle", flow |-> 0, credit |-> 0, inflow |-> 0, reset |-> FALSE,
                 trailer |-> FALSE, body |-> FALSE, unread |-> 0, perr |-> "no", decl |-> -1, got |-> 0]],
            hd |-> [s \in StreamIds |-> [pc |-> "none", sent |-> FALSE, wrote |-> FALSE, res |-> FALSE]],
            rd |-> [s \in StreamIds |-> [pc |-> "none", cont |-> FALSE, n |-> 0]]]

Live(x) == x.done = "no"
Streams(x) == {s \in StreamIds : x.str[s].state \notin {"idle", "closed"}}
Then(S, Op(_)) == UNION {IF Live(x) THEN Op(x) ELSE {x} : x \in S}
With(x, s, f, v) == [x EXCEPT !.str[s] = [@ EXCEPT ![f] = v]]

-----------------------------------------------------------------------------
(* flow.go: windows are int32, and so is the room that is left. *)
Int32(n) == ((n + W) % (2 * W)) - W

Room(n) == Int32((W - 1) - n)

available(x, s) == IF x.flow < x.str[s].flow THEN x.flow ELSE x.str[s].flow

Took(x, s, n) == [x EXCEPT !.flow = @ - n, !.str[s].flow = @ - n]

-----------------------------------------------------------------------------
(* The end of the connection and of a stream. *)

\* closeStream with the error of the body: what is unread goes back to the
\* buffer pool with the pipe, and frames that are queued are forgotten.
closeStream(x, s) ==
    IF s \notin Streams(x) THEN [x EXCEPT !.done = "closed twice"]
    ELSE [x EXCEPT !.str[s] = [@ EXCEPT !.state = "closed", !.unread = 0, !.inflow = 0, !.got = 0,
                                        !.decl = -1, !.perr = IF @ = "closed" THEN @ ELSE "error"],
                   !.sq[s] = <<>>]

\* The deferred calls of serve: every open stream is closed, and whoever sends
\* to the serve loop or waits for it is released by doneServing.
End(x, why) ==
    [x EXCEPT !.done = why, !.zero = <<>>, !.want = <<>>, !.writing = None,
              !.sq = [s \in StreamIds |-> <<>>],
              !.str = [s \in StreamIds |-> IF s \in Streams(x) THEN closeStream(x, s).str[s] ELSE x.str[s]],
              !.hd = [s \in StreamIds |-> [@[s] EXCEPT !.pc = "done", !.res = FALSE]],
              !.rd = [s \in StreamIds |-> [pc |-> "done", cont |-> FALSE, n |-> 0]]]

-----------------------------------------------------------------------------
(* writesched.go *)
NoCost(f) == f.k # "data" \/ f.n = 0

least(a, b) == IF a < b THEN a ELSE b

\* streamWritableBytes for the frame at the head of a stream's queue.
Writable(x, s) == least(least(available(x, s), MaxFrame), Head(x.sq[s]).n)

\* takeFrom splits a DATA frame that the windows do not allow as a whole, and
\* takes what it hands out from both windows.
BadTakeFrom(x, s) ==
    LET f == Head(x.sq[s])
    IN  [f |-> f, x |-> [(IF NoCost(f) THEN x ELSE Took(x, s, Writable(x, s))) EXCEPT !.sq[s] = Tail(@)]]
takeFrom(x, s) ==
    LET f == Head(x.sq[s])
        n == Writable(x, s)
    IN  CASE NoCost(f) -> [f |-> f, x |-> [x EXCEPT !.sq[s] = Tail(@)]]
          [] ~NoCost(f) /\ n < f.n ->
                [f |-> [f EXCEPT !.n = n, !.end = FALSE, !.w = FALSE],
                 x |-> [Took(x, s, n) EXCEPT !.sq[s] = <<[f EXCEPT !.n = @ - n]>> \o Tail(@)]]
          [] OTHER -> [f |-> f, x |-> [Took(x, s, n) EXCEPT !.sq[s] = Tail(@)]]

\* take: control frames first, then frames that cost no window, then data.
take(x) ==
    LET queued == {s \in StreamIds : x.sq[s] # <<>>}
        free == {s \in queued : NoCost(Head(x.sq[s]))}
    IN  IF x.zero # <<>> THEN {[f |-> Head(x.zero), x |-> [x EXCEPT !.zero = Tail(@)]]}
        ELSE {takeFrom(x, s) : s \in IF free # {} THEN free ELSE {s \in queued : Writable(x, s) > 0}}

\* A frame of a stream that is closed and reset is skipped.
Skipped(t) == t.f.s # 0 /\ t.x.str[t.f.s].state = "closed" /\ t.x.str[t.f.s].reset

\* startFrameWrite; credit is what the client has let the server send.
startFrameWrite(x, f) ==
    LET state == IF f.s = 0 THEN "none" ELSE x.str[f.s].state
        n == IF f.k = "data" THEN f.n ELSE 0
    IN  CASE state = "half-closed local" -> End(x, "frame after end")
          [] state = "closed" -> End(x, "late " \o f.k)
          [] OTHER -> LET y == [x EXCEPT !.writing = f, !.flush = TRUE, !.credit = @ - n]
                      IN  IF n > 0 THEN [y EXCEPT !.str[f.s].credit = @ - n] ELSE y

\* scheduleFrameWrite, with the frames it skips on its way.
scheduleFrameWrite(x) ==
    LET bound == Len(x.sq[1]) + Cardinality(StreamIds) * MaxControl
        after[k \in 0..bound] ==
            IF k = 0 THEN {x} ELSE UNION {{t.x : t \in {t \in take(y) : Skipped(t)}} : y \in after[k - 1]}
        tried == UNION {after[k] : k \in 0..bound}
        Idle(y) == IF y.flush THEN [y EXCEPT !.writing = Control("flush"), !.flush = FALSE] ELSE y
    IN  CASE x.writing # None -> {x}
          [] x.writing = None /\ x.needBye -> {startFrameWrite([x EXCEPT !.needBye = FALSE], Control("goaway"))}
          [] x.writing = None /\ ~x.needBye /\ x.needAck ->
                {startFrameWrite([x EXCEPT !.needAck = FALSE], Control("ack"))}
          [] x.writing = None /\ ~x.needBye /\ ~x.needAck /\ x.bye = "error" -> {Idle(x)}
          [] OTHER ->
                UNION {{startFrameWrite(t.x, t.f) : t \in {t \in take(y) : ~Skipped(t)}} : y \in tried}
                \cup {Idle(y) : y \in {y \in tried : take(y) = {}}}

\* writeFrame: the scheduler's queue, then the scheduler.
writeFrame(x, f) ==
    scheduleFrameWrite(IF f.s = 0 THEN [x EXCEPT !.zero = Append(@, f)]
                       ELSE [x EXCEPT !.sq[f.s] = Append(@, f)])

\* goAway: once.
goAway(x, code) ==
    IF x.bye # "no" THEN {x}
    ELSE scheduleFrameWrite([x EXCEPT !.bye = code, !.needBye = TRUE])

BadResetStream(x, s) ==
    Then(writeFrame(x, Control("rst")), LAMBDA y : {IF s \in Streams(y) THEN closeStream(y, s) ELSE y})
resetStream(x, s) ==
    Then(writeFrame(x, Control("rst")),
         LAMBDA y : {IF s \in Streams(y) THEN closeStream(With(y, s, "reset", TRUE), s) ELSE y})

\* sendWindowUpdate gives n bytes back to the client, on the connection (s =
\* 0) or on a stream.
sendWindowUpdate(x, s, n) ==
    IF n = 0 THEN {x}
    ELSE Then(writeFrame(x, [k |-> "wu", s |-> s]),
              LAMBDA y : {IF s = 0 THEN [y EXCEPT !.inflow = @ + n, !.done = IF n > Room(y.inflow) THEN "too many updates" ELSE @]
                          ELSE With(y, s, "inflow", y.str[s].inflow + n)})

-----------------------------------------------------------------------------
(* Frames of the client. *)

\* endStream, whose body is a nil pipe when the request had none.
endStream(x, s) ==
    LET st == x.str[s]
    IN  IF ~st.body THEN End(x, "end without body")
        ELSE With(With(x, s, "perr",
                  IF st.perr # "no" THEN st.perr ELSE IF st.decl \in {-1, st.got} THEN "eof" ELSE "error"),
                  s, "state", "half-closed remote")

\* processTrailerHeaders
processTrailerHeaders(x, s, end) ==
    IF x.str[s].trailer THEN goAway(x, "error")
    ELSE LET y == With(x, s, "trailer", TRUE)
         IN  IF end THEN {endStream(y, s)} ELSE resetStream(y, s)

\* A new stream, with the windows of the settings in force.
Opened(x, s, end, decl) ==
    [x EXCEPT !.maxId = s,
              !.str[s] = [@ EXCEPT !.state = IF end THEN "half-closed remote" ELSE "open", !.body = ~end,
                                   !.flow = x.init, !.credit = x.init, !.inflow = RecvWindow,
                                   !.decl = IF end THEN 0 ELSE decl]]

\* newWriterAndRequest refuses a malformed request; else its handler runs.
newWriterAndRequest(x, s, valid, cont) ==
    IF ~valid THEN resetStream(x, s)
    ELSE {[x EXCEPT !.hd[s].pc = "run", !.rd[s] = [pc |-> IF x.str[s].body \/ cont THEN "run" ELSE "done", cont |-> cont, n |-> 0]]}

processHeaders(x, s, end, decl, valid, cont) ==
    CASE x.bye # "no" -> {x}
      [] x.bye = "no" /\ s \in Streams(x) -> processTrailerHeaders(x, s, end)
      [] x.bye = "no" /\ s \notin Streams(x) /\ s <= x.maxId -> goAway(x, "error")
      [] OTHER -> LET y == Opened(x, s, end, decl)
                  IN  IF Cardinality(Streams(y)) > AdvMaxStreams THEN {End(y, "gone")}
                      ELSE newWriterAndRequest(y, s, valid, cont)

\* processData: n bytes of which pad are padding.
processData(x, s, n, pad, end) ==
    LET st == x.str[s]
        taken == [With(x, s, "inflow", st.inflow - n) EXCEPT !.inflow = @ - n]
        wrote == [taken EXCEPT !.str[s].unread = @ + n - pad, !.str[s].got = @ + n - pad]
        Ended(y) == {IF end THEN endStream(y, s) ELSE y}
    IN  CASE x.bye = "error" \/ (x.bye # "no" /\ s > x.maxId) -> {x}
          [] x.bye # "error" /\ (st.state # "open" \/ st.trailer) ->
                IF x.inflow < n THEN resetStream(x, s)
                ELSE Then(sendWindowUpdate([x EXCEPT !.inflow = @ - n], 0, n), LAMBDA y : resetStream(y, s))
          [] st.decl # -1 /\ st.got + n - pad > st.decl ->
                resetStream(With(x, s, "perr", IF st.perr = "no" THEN "error" ELSE st.perr), s)
          [] least(st.inflow, x.inflow) < n -> resetStream(x, s)
          [] n > pad /\ st.perr # "no" -> resetStream(taken, s)
          [] OTHER -> Then(Then(sendWindowUpdate(wrote, 0, pad), LAMBDA y : sendWindowUpdate(y, s, pad)), Ended)

\* processWindowUpdate: flow.add refuses what it takes for an overflow.
processWindowUpdate(x, s, n) ==
    LET y == IF s = 0 THEN [x EXCEPT !.flow = @ + n, !.credit = @ + n]
             ELSE [x EXCEPT !.str[s].flow = @ + n, !.str[s].credit = @ + n]
    IN  CASE s # 0 /\ s \notin Streams(x) -> {x}
          [] s # 0 /\ s \in Streams(x) /\ n > Room(x.str[s].flow) -> resetStream(x, s)
          [] s = 0 /\ n > Room(x.flow) -> goAway(x, "error")
          [] OTHER -> scheduleFrameWrite(y)

\* processSettings with a new initial window: every open stream's window
\* moves by the growth, unless one of them refuses.
Grow(x, val) ==
    LET growth == val - x.init
    IN  [x EXCEPT !.init = val,
                  !.str = [s \in StreamIds |->
                      IF s \in Streams(x) THEN [x.str[s] EXCEPT !.flow = @ + growth, !.credit = @ + growth]
                      ELSE x.str[s]]]
processSettings(x, val) ==
    IF \E s \in Streams(x) : val - x.init > Room(x.str[s].flow) THEN goAway([x EXCEPT !.init = val], "error")
    ELSE scheduleFrameWrite([Grow(x, val) EXCEPT !.needAck = TRUE])
processSettingsAck(x) ==
    IF x.unacked = 0 THEN goAway(x, "error") ELSE {[x EXCEPT !.unacked = @ - 1]}

\* processResetStream
processResetStream(x, s) ==
    CASE s > x.maxId -> goAway(x, "error")
      [] s \in Streams(x) -> {closeStream(With(x, s, "reset", TRUE), s)}
      [] OTHER -> {x}

processFrame(x) ==
    LET When(k, S) == IF k \in x.client THEN S ELSE {}
    IN  UNION {processHeaders(x, s, end, d, valid, cont) :
                  s \in x.ids, end \in {TRUE} \cup When("body", {FALSE}), d \in Declared,
                  valid \in {TRUE} \cup When("malformed", {FALSE}), cont \in {FALSE} \cup When("expect", {TRUE})}
        \cup When("body", UNION {processData(x, s, n, pad, end) :
                  s \in 1..x.maxId, n \in Bodies, pad \in {0, 1}, end \in BOOLEAN})
        \cup When("window", UNION {processWindowUpdate(x, s, n) : s \in 0..x.maxId, n \in Increments})
        \cup When("settings", processSettingsAck(x) \cup UNION {processSettings(x, val) : val \in Windows})
        \cup When("reset", UNION {processResetStream(x, s) : s \in x.ids})
        \cup When("ping", writeFrame(x, Control("ping")))

-----------------------------------------------------------------------------
(* The cases of the serve loop. *)
Serve(S) ==
    /\ Live(c)
    /\ \E x \in S : c' = IF Live(x) /\ Len(x.zero) > MaxControl THEN End(x, "gone")
                         ELSE IF Live(x) THEN x ELSE End(x, x.done)

ReadFrame == budget > 0 /\ budget' = budget - 1 /\ Serve(processFrame(c))

\* The client goes away, a frame cannot be read, or a timer ends the
\* connection.
ConnEnds == "gone" \in c.client /\ Live(c) /\ c' = End(c, "gone") /\ UNCHANGED budget
ShutdownTimer == Live(c) /\ c.bye # "no" /\ c' = End(c, "gone") /\ UNCHANGED budget

\* handleTimeout of a stream's timer, which may be late.
handleTimeout ==
    /\ "timeout" \in c.client /\ budget > 0 /\ budget' = budget - 1
    /\ \E s \in 1..c.maxId : Serve(resetStream(c, s))

GracefulShutdown == "shutdown" \in c.client /\ budget > 0 /\ budget' = budget - 1 /\ c.bye = "no" /\ Serve(goAway(c, "graceful"))

\* A frame of a handler is received from wantWriteFrameCh.
WantWrite ==
    /\ Live(c) /\ c.want # <<>>
    /\ Serve(writeFrame([c EXCEPT !.want = Tail(@)], Head(c.want)))
    /\ UNCHANGED budget

\* wroteFrame: the handler is told, and the end of the response ends the
\* stream.
BadTold(x, f) == x
Told(x, f) == IF f.k \in {"data", "headers"} /\ f.w THEN [x EXCEPT !.hd[f.s].res = TRUE] ELSE x
wroteFrame ==
    /\ Live(c) /\ c.writing # None
    /\ LET f == c.writing
           x == Told([c EXCEPT !.writing = None], f)
           state == IF f.s = 0 THEN "none" ELSE c.str[f.s].state
       IN  Serve(CASE f.k = "panic" -> Then({closeStream(x, f.s)}, scheduleFrameWrite)
                   [] ends(f) /\ state = "open" ->
                        Then(resetStream(With(x, f.s, "state", "half-closed local"), f.s), scheduleFrameWrite)
                   [] ends(f) /\ state = "half-closed remote" ->
                        Then({closeStream(x, f.s)}, scheduleFrameWrite)
                   [] OTHER -> scheduleFrameWrite(x))
    /\ UNCHANGED budget

-----------------------------------------------------------------------------
(* Handlers and readers of request bodies. *)
Send(x, f) == [x EXCEPT !.want = Append(@, f)]

\* writeChunk: the header goes first, once; a handler that is done ends the
\* stream with what it sends last.
writeChunk(s, n, end) ==
    /\ c.hd[s].pc = "run"
    /\ c' = IF ~c.hd[s].sent
            THEN [Send(c, ResHeaders(s, end)) EXCEPT !.hd[s] = [@ EXCEPT !.pc = IF end THEN "last" ELSE "wait", !.sent = TRUE]]
            ELSE [Send(c, Data(s, n, end)) EXCEPT !.hd[s] = [@ EXCEPT !.pc = IF end THEN "last" ELSE "wait", !.wrote = TRUE]]

\* handler: it writes once, then is done, or it panics.
handler(s) ==
    /\ UNCHANGED budget
    /\ \/ ~c.hd[s].wrote /\ Live(c) /\ writeChunk(s, Chunk, FALSE)
       \/ writeChunk(s, 0, TRUE)
       \/ "panic" \in c.client /\ c.hd[s].pc = "run" /\ c' = [Send(c, [k |-> "panic", s |-> s]) EXCEPT !.hd[s].pc = "done"]

\* The handler's wait ends with the result, with the stream or with the
\* connection; after an error it returns.
Waiting(x, s) == x.hd[s].pc \in {"wait", "last"}
HandlerResumes(s) ==
    /\ Waiting(c, s)
    /\ c.hd[s].res \/ c.str[s].state = "closed"
    /\ c' = [c EXCEPT !.hd[s] = [@ EXCEPT !.pc = IF @ = "last" THEN "done" ELSE "run", !.res = FALSE,
                                          !.wrote = @ \/ ~c.hd[s].res]]
    /\ UNCHANGED budget

\* Read of the request's body: 100 Continue once, then the pipe, then the
\* serve loop is told how much was read.
ReadBody(s) ==
    /\ c.rd[s].pc = "run" /\ UNCHANGED budget
    /\ \/ c.rd[s].cont /\ c' = [Send(c, [k |-> "100", s |-> s]) EXCEPT !.rd[s].cont = FALSE]
       \/ ~c.rd[s].cont /\ c.str[s].unread > 0
          /\ c' = [c EXCEPT !.rd[s] = [@ EXCEPT !.pc = "note", !.n = c.str[s].unread], !.str[s].unread = 0]
       \/ ~c.rd[s].cont /\ c.str[s].unread = 0 /\ (~c.str[s].body \/ c.str[s].perr # "no")
          /\ c' = [c EXCEPT !.rd[s].pc = "done"]

CloseBody(s) ==
    /\ c.rd[s].pc = "run" /\ UNCHANGED budget
    /\ c' = [c EXCEPT !.rd[s].pc = "done", !.str[s].perr = IF @ = "no" \/ @ = "eof" THEN "closed" ELSE @]

BadNoteBodyRead(x, s, n) == Then(sendWindowUpdate(x, 0, n), LAMBDA y : sendWindowUpdate(y, 0, n))
noteBodyRead(x, s, n) ==
    Then(sendWindowUpdate(x, 0, n),
         LAMBDA y : IF y.str[s].state \in {"half-closed remote", "closed"} THEN {y} ELSE sendWindowUpdate(y, s, n))
NoteRead(s) ==
    /\ c.rd[s].pc = "note" /\ UNCHANGED budget
    /\ LET x == [c EXCEPT !.rd[s] = [@ EXCEPT !.pc = "run", !.n = 0]]
       IN  Serve(noteBodyRead(x, s, c.rd[s].n))

H2Next ==
    \/ ReadFrame \/ ConnEnds \/ ShutdownTimer \/ handleTimeout \/ GracefulShutdown
    \/ WantWrite \/ wroteFrame
    \/ \E s \in StreamIds : handler(s) \/ HandlerResumes(s) \/ ReadBody(s) \/ CloseBody(s) \/ NoteRead(s)

H2Spec == H2Init /\ [][H2Next]_h2Vars

-----------------------------------------------------------------------------
\* The client is never sent more than it allowed: neither the connection nor a
\* stream ever counts on credit the client did not give, whatever order of
\* WINDOW_UPDATE, SETTINGS and resets the frames of the handlers meet.
WithinCredit ==
    /\ c.credit >= 0 /\ c.flow <= c.credit
    /\ \A s \in Streams(c) : c.str[s].flow = c.str[s].credit

\* What flow.go says of a window: it is the number of DATA bytes the server is
\* allowed to send.
WindowExact == Live(c) => c.flow = c.credit

\* A handler that waits will be told: its frame is in the channel, in the
\* scheduler or being written, or its stream or the connection has ended.
NoLostWaiter ==
    \A s \in StreamIds : Waiting(c, s) /\ Live(c) /\ c.str[s].state # "closed" =>
        LET Mine(f) == f.s = s /\ f.k \in {"data", "headers"} /\ f.w
        IN  \/ c.hd[s].res \/ Mine(c.writing)
            \/ \E i \in DOMAIN c.want : Mine(c.want[i])
            \/ \E i \in DOMAIN c.sq[s] : Mine(c.sq[s][i])

\* The assertions of the serve loop hold: it panics only for a 100 Continue or
\* the reset of a panicked handler that meets a stream already closed, and
\* for the end of a stream that has no body.
InternalErrors ==
    c.done \in {"no", "gone", "late 100", "late panic", "closed twice", "end without body"}

\* The client never gets more receive window back than it used: what the
\* server allows, what handlers have yet to read and what they have read and
\* not yet reported never exceeds the window the connection started with.
ReceiveBounded ==
    LET Held[s \in 0..Cardinality(StreamIds)] ==
            IF s = 0 THEN 0 ELSE Held[s - 1] + c.str[s].unread + c.rd[s].n
    IN  Live(c) => c.inflow >= 0 /\ c.inflow + Held[Cardinality(StreamIds)] <= RecvWindow
=============================================================================
