-------------------------------- MODULE Spdy ---------------------------------
(***************************************************************************)
(* One SPDY/3.1 connection: the serve loop, which owns the streams, the    *)
(* windows, the timers and the write scheduler; the goroutine that writes  *)
(* frames; the client; and for every stream the handler and the reader of  *)
(* its request body.  An operation of the loop maps the connection sp to   *)
(* the set of connections it may leave: the scheduler ranges over a map.   *)
(***************************************************************************)
EXTENDS Integers, Sequences, SequencesExt, FiniteSets, Sample

CONSTANTS
    SpdyStreams,    \* 1..N: the streams in the order of their ids
    SpdyMaxStreams, \* advMaxStreams
    SpdyW,          \* windows are integers of -SpdyW..SpdyW-1 (int32)
    SpdyWindow,     \* initialWindowSize, of both directions
    SpdyMaxFrame,   \* maxFrameSize of the scheduler
    SpdyWindows,    \* values of SETTINGS_INITIAL_WINDOW_SIZE
    SpdyIncrements, \* values of WINDOW_UPDATE
    SpdyChunk,      \* bytes of a write of the handler
    SpdyClients     \* the kinds of frames and events of one connection, and how many

VARIABLES sp, spBudget

spdyVars == <<sp, spBudget>>

Idle == [k |-> "none", s |-> 0]
Plain(k) == [k |-> k, s |-> 0]
DataFrame(s, n, fin) == [k |-> "data", s |-> s, n |-> n, fin |-> fin, done |-> TRUE]
SynReply(s, fin) == [k |-> "reply", s |-> s, fin |-> fin, done |-> TRUE]
endsStream(f) == f.k \in {"data", "reply"} /\ f.fin

SpdyInit ==
    \E cl \in SpdyClients :
        /\ spBudget = cl.frames
        /\ sp = [client |-> cl.kinds, ids |-> 1..cl.streams, flow |-> SpdyWindow, credit |-> SpdyWindow, inflow |-> SpdyWindow,
                 init |-> SpdyWindow, maxId |-> 0, writing |-> Plain("settings"), flush |-> TRUE,
                 needBye |-> FALSE, bye |-> "no", done |-> "no", zero |-> <<>>, want |-> <<>>,
                 sq |-> [s \in SpdyStreams |-> <<>>],
                 str |-> [s \in SpdyStreams |->
                     [state |-> "idle", flow |-> 0, credit |-> 0, inflow |-> 0, reset |-> FALSE, body |-> FALSE,
                      unread |-> 0, perr |-> "no", decl |-> -1, got |-> 0, timer |-> "no", armed |-> {}]],
                 hd |-> [s \in SpdyStreams |-> [pc |-> "none", sent |-> FALSE, wrote |-> FALSE, res |-> FALSE]],
                 rd |-> [s \in SpdyStreams |-> [pc |-> "none", n |-> 0]]]

Serving(x) == x.done = "no"
streams(x) == {s \in SpdyStreams : x.str[s].state \notin {"idle", "closed"}}
Next2(S, Op(_)) == UNION {IF Serving(x) THEN Op(x) ELSE {x} : x \in S}

-----------------------------------------------------------------------------
\* flow.add compares with the room that is left, computed in int32.
room(n) == (((SpdyW - 1 - n) + SpdyW) % (2 * SpdyW)) - SpdyW

available(x, s) == IF x.flow < x.str[s].flow THEN x.flow ELSE x.str[s].flow

\* Stop of the one timer a stream's field names; another one goes on.
Stopped(x, s) == [x EXCEPT !.str[s].armed = @ \ {x.str[s].timer}]

closeStream(x, s) ==
    IF s \notin streams(x) THEN [x EXCEPT !.done = "closed twice"]
    ELSE [Stopped(x, s) EXCEPT
            !.str[s] = [@ EXCEPT !.state = "closed", !.unread = 0, !.inflow = 0, !.got = 0, !.decl = -1,
                                 !.perr = IF @ = "closed" THEN @ ELSE "error"],
            !.sq[s] = <<>>]

closeAllStreamsOnConnClose(x, why) ==
    [x EXCEPT !.done = why, !.zero = <<>>, !.want = <<>>, !.writing = Idle, !.sq = [s \in SpdyStreams |-> <<>>],
              !.str = [s \in SpdyStreams |-> IF s \in streams(x) THEN closeStream(x, s).str[s] ELSE x.str[s]],
              !.hd = [s \in SpdyStreams |-> [@[s] EXCEPT !.pc = "done", !.res = FALSE]],
              !.rd = [s \in SpdyStreams |-> [pc |-> "done", n |-> 0]]]

-----------------------------------------------------------------------------
firstIsNoCost(f) == f.k # "data" \/ f.n = 0

streamWritableBytes(x, s) ==
    LET fit == {available(x, s), SpdyMaxFrame, Head(x.sq[s]).n}
    IN  CHOOSE n \in fit : \A k \in fit : n <= k

\* takeFrom: a DATA frame is split when it exceeds the windows or the frame
\* size, and what is handed out is taken from both windows.
takeFrom(x, s) ==
    LET f == Head(x.sq[s])
        n == IF firstIsNoCost(f) THEN 0 ELSE streamWritableBytes(x, s)
        split == ~firstIsNoCost(f) /\ n < f.n
    IN  [f |-> IF split THEN [f EXCEPT !.n = n, !.fin = FALSE, !.done = FALSE] ELSE f,
         x |-> [x EXCEPT !.flow = @ - n, !.str[s].flow = @ - n,
                         !.sq[s] = IF split THEN <<[f EXCEPT !.n = @ - n]>> \o Tail(@) ELSE Tail(@)]]

\* take: control frames, then frames that cost no window, then any stream that
\* has window.
take(x) ==
    LET queued == {s \in SpdyStreams : x.sq[s] # <<>>}
        free == {s \in queued : firstIsNoCost(Head(x.sq[s]))}
    IN  IF x.zero # <<>> THEN {[f |-> Head(x.zero), x |-> [x EXCEPT !.zero = Tail(@)]]}
        ELSE {takeFrom(x, s) : s \in IF free # {} THEN free ELSE {s \in queued : streamWritableBytes(x, s) > 0}}

\* startFrameWrite: a frame of a stream that was reset is dropped.
Dropped(t) == t.f.s # 0 /\ t.x.str[t.f.s].state = "closed" /\ t.x.str[t.f.s].reset
startFrameWrite(x, f) ==
    LET n == IF f.k = "data" THEN f.n ELSE 0
    IN  IF f.s # 0 /\ x.str[f.s].state \in {"half-closed local", "closed"}
        THEN closeAllStreamsOnConnClose(x, "late " \o f.k)
        ELSE LET w == [x EXCEPT !.writing = f, !.flush = TRUE, !.credit = @ - n]
             IN  IF n > 0 THEN [w EXCEPT !.str[f.s].credit = @ - n] ELSE w

scheduleFrameWrite(x) ==
    LET bound == Cardinality(SpdyStreams) * 3
        after[k \in 0..bound] ==
            IF k = 0 THEN {x} ELSE UNION {{t.x : t \in {t \in take(y) : Dropped(t)}} : y \in after[k - 1]}
        tried == UNION {after[k] : k \in 0..bound}
        Flush(y) == IF y.flush THEN [y EXCEPT !.writing = Plain("flush"), !.flush = FALSE] ELSE y
    IN  CASE x.writing # Idle -> {x}
          [] x.writing = Idle /\ x.needBye -> {startFrameWrite([x EXCEPT !.needBye = FALSE], Plain("goaway"))}
          [] x.writing = Idle /\ ~x.needBye /\ x.bye = "error" -> {Flush(x)}
          [] OTHER -> UNION {{startFrameWrite(t.x, t.f) : t \in {t \in take(y) : ~Dropped(t)}} : y \in tried}
                      \cup {Flush(y) : y \in {y \in tried : take(y) = {}}}

\* writeFrame: the frame of a panicked handler closes its stream at once, and
\* the frame of Close ends the loop.
writeFrame(x, f) ==
    CASE f.k = "panic" -> {closeStream(x, f.s)}
      [] f.k = "fin" -> {closeAllStreamsOnConnClose(x, "gone")}
      [] OTHER -> scheduleFrameWrite(IF f.s = 0 THEN [x EXCEPT !.zero = Append(@, f)]
                                     ELSE [x EXCEPT !.sq[f.s] = Append(@, f)])

goAway(x, code) ==
    IF x.bye # "no" THEN {x} ELSE scheduleFrameWrite([x EXCEPT !.bye = code, !.needBye = TRUE])

resetStream(x, s) ==
    Next2(writeFrame(x, Plain("rst")),
          LAMBDA y : {IF s \in streams(y) THEN closeStream([y EXCEPT !.str[s].reset = TRUE], s) ELSE y})

\* sendWindowUpdate, on the connection (s = 0) or on a stream.
sendWindowUpdate(x, s, n) ==
    Next2(writeFrame(x, [k |-> "wu", s |-> s]),
          LAMBDA y : {IF s = 0 THEN [y EXCEPT !.inflow = @ + n, !.done = IF n > room(y.inflow) THEN "too many updates" ELSE @]
                      ELSE [y EXCEPT !.str[s].inflow = @ + n]})

-----------------------------------------------------------------------------
\* newWriterAndRequest refuses a malformed request; else its handler runs.
newWriterAndRequest(x, s, valid, decl) ==
    IF ~valid THEN resetStream(x, s)
    ELSE {[x EXCEPT !.str[s].decl = decl, !.str[s].body = x.str[s].state = "open", !.hd[s].pc = "run",
                    !.rd[s].pc = IF x.str[s].state = "open" THEN "run" ELSE "done"]}

\* processSynStream: an overloaded server says goodbye and still serves the
\* request; the id of the newest stream, used again, resets it.
processSynStream(x, s, fin, valid, decl, overload) ==
    LET Open(y) ==
            LET z == [y EXCEPT !.maxId = s,
                               !.str[s] = [@ EXCEPT !.state = IF fin THEN "half-closed remote" ELSE "open",
                                                    !.flow = y.init, !.credit = y.init, !.inflow = SpdyWindow]]
            IN  IF Cardinality(streams(z)) > SpdyMaxStreams THEN {closeAllStreamsOnConnClose(z, "gone")}
                ELSE newWriterAndRequest(z, s, valid, decl)
        Admit(y) == CASE s < y.maxId -> goAway(y, "error")
                      [] s = y.maxId -> resetStream(y, s)
                      [] OTHER -> Open(y)
    IN  IF x.bye # "no" THEN {x}
        ELSE Next2(IF overload THEN goAway(x, "ok") ELSE {x}, Admit)

\* processData: more or less than was declared is an error, and the end stops
\* the stream's timer.
processData(x, s, n, fin) ==
    LET st == x.str[s]
        y == [x EXCEPT !.inflow = @ - n, !.str[s] = [@ EXCEPT !.inflow = @ - n, !.unread = @ + n, !.got = @ + n]]
        short == st.decl # -1 /\ st.decl # st.got + n
    IN  CASE st.state # "open" -> resetStream(x, s)
          [] st.state = "open" /\ st.decl # -1 /\ st.got + n > st.decl -> resetStream(x, s)
          [] st.state = "open" /\ n > (IF x.inflow < st.inflow THEN x.inflow ELSE st.inflow) -> resetStream(x, s)
          [] st.state = "open" /\ n > 0 /\ st.perr # "no" ->
                resetStream([x EXCEPT !.inflow = @ - n, !.str[s].inflow = @ - n], s)
          [] ~fin -> {y}
          [] OTHER -> IF short THEN resetStream(Stopped(y, s), s)
                      ELSE {[Stopped(y, s) EXCEPT !.str[s] = [@ EXCEPT !.state = "half-closed remote",
                                                                       !.perr = IF @ = "no" THEN "eof" ELSE @]]}

processWindowUpdate(x, s, n) ==
    CASE s # 0 /\ s \notin streams(x) -> {x}
      [] s # 0 /\ s \in streams(x) /\ n > room(x.str[s].flow) -> resetStream(x, s)
      [] s = 0 /\ n > room(x.flow) -> goAway(x, "error")
      [] OTHER -> scheduleFrameWrite(IF s = 0 THEN [x EXCEPT !.flow = @ + n, !.credit = @ + n]
                                     ELSE [x EXCEPT !.str[s].flow = @ + n, !.str[s].credit = @ + n])

\* processSettings with a new initial window; it writes no frame, so a stream
\* that gains window waits for the next event.
processSettings(x, val) ==
    LET growth == val - x.init
    IN  IF \E s \in streams(x) : growth > room(x.str[s].flow) THEN goAway([x EXCEPT !.init = val], "error")
        ELSE {[x EXCEPT !.init = val,
                        !.str = [s \in SpdyStreams |->
                            IF s \in streams(x) THEN [x.str[s] EXCEPT !.flow = @ + growth, !.credit = @ + growth]
                            ELSE x.str[s]]]}

processResetStream(x, s) ==
    CASE s > x.maxId -> goAway(x, "error")
      [] s \in streams(x) -> {closeStream([x EXCEPT !.str[s].reset = TRUE], s)}
      [] OTHER -> {x}

processFrame(x) ==
    LET When(k, S) == IF k \in x.client THEN S ELSE {}
    IN  UNION {processSynStream(x, s, fin, valid, 1, over) : s \in x.ids, fin \in {TRUE} \cup When("body", {FALSE}),
                  valid \in {TRUE} \cup When("malformed", {FALSE}), over \in {FALSE} \cup When("overload", {TRUE})}
        \cup When("body", UNION {processData(x, s, n, fin) : s \in 1..x.maxId, n \in {1, 2}, fin \in BOOLEAN})
        \cup When("window", UNION {processWindowUpdate(x, s, n) : s \in 0..x.maxId, n \in SpdyIncrements})
        \cup When("settings", UNION {processSettings(x, val) : val \in SpdyWindows})
        \cup When("reset", UNION {processResetStream(x, s) : s \in x.ids})
        \cup When("ping", writeFrame(x, Plain("ping")))

-----------------------------------------------------------------------------
(* The cases of the serve loop. *)
serve(S) ==
    /\ Serving(sp)
    /\ \E x \in S : sp' = IF Serving(x) THEN x ELSE closeAllStreamsOnConnClose(x, x.done)

Spend == spBudget > 0 /\ spBudget' = spBudget - 1

processFrameFromReader == Spend /\ serve(processFrame(sp))

\* The reader fails, or the timer of goAway is up.
SpdyConnEnds ==
    /\ "gone" \in sp.client \/ sp.bye # "no"
    /\ Serving(sp) /\ sp' = closeAllStreamsOnConnClose(sp, "gone") /\ UNCHANGED spBudget

\* setTimeout arms a timer and forgets the one the field named before.
setTimeout(s, tag) ==
    /\ "timeout" \in sp.client /\ Spend
    /\ serve({IF s \in streams(sp) /\ (tag = "write" \/ sp.str[s].body)
              THEN [sp EXCEPT !.str[s].timer = tag, !.str[s].armed = @ \cup {tag}] ELSE sp})
handleTimeout(s) ==
    /\ UNCHANGED spBudget
    /\ \E tag \in sp.str[s].armed : serve(resetStream([sp EXCEPT !.str[s].armed = @ \ {tag}], s))

CloseNotify == "shutdown" \in sp.client /\ Spend /\ sp.bye = "no" /\ serve(goAway(sp, "ok"))

WantWrite ==
    /\ sp.want # <<>> /\ UNCHANGED spBudget
    /\ serve(writeFrame([sp EXCEPT !.want = Tail(@)], Head(sp.want)))

\* wroteFrame tells the handler; the end of a response closes the stream, and
\* resets it when the request has not ended.
BadTold(x, f) == x
Told(x, f) == IF f.k \in {"data", "reply"} /\ f.done THEN [x EXCEPT !.hd[f.s].res = TRUE] ELSE x
wroteFrame ==
    /\ sp.writing # Idle /\ UNCHANGED spBudget
    /\ LET f == sp.writing
           x == Told([sp EXCEPT !.writing = Idle], f)
           state == IF f.s = 0 THEN "none" ELSE sp.str[f.s].state
       IN  serve(CASE endsStream(f) /\ state = "open" ->
                        Next2(resetStream([x EXCEPT !.str[f.s].state = "half-closed local"], f.s), scheduleFrameWrite)
                   [] endsStream(f) /\ state = "half-closed remote" ->
                        Next2({closeStream(x, f.s)}, scheduleFrameWrite)
                   [] OTHER -> scheduleFrameWrite(x))

-----------------------------------------------------------------------------
(* Handlers and readers of request bodies. *)
writeFrameFromHandler(f) == [sp EXCEPT !.want = Append(@, f)]

\* writeChunk: the reply goes first, once.
writeChunk(s, n, fin) ==
    LET f == IF sp.hd[s].sent THEN DataFrame(s, n, fin) ELSE SynReply(s, fin)
    IN  sp' = [writeFrameFromHandler(f) EXCEPT
                  !.hd[s] = [@ EXCEPT !.pc = IF fin THEN "last" ELSE "wait", !.sent = TRUE, !.wrote = @ \/ sp.hd[s].sent]]

runHandler(s) ==
    /\ sp.hd[s].pc = "run" /\ UNCHANGED spBudget
    /\ \/ ~sp.hd[s].wrote /\ writeChunk(s, SpdyChunk, FALSE)
       \/ writeChunk(s, 0, TRUE)
       \/ "panic" \in sp.client /\ sp' = [writeFrameFromHandler([k |-> "panic", s |-> s]) EXCEPT !.hd[s].pc = "done"]

writeDataFromHandler(s) ==
    /\ sp.hd[s].pc \in {"wait", "last"} /\ (sp.hd[s].res \/ sp.str[s].state = "closed")
    /\ sp' = [sp EXCEPT !.hd[s] = [@ EXCEPT !.pc = IF @ = "last" THEN "done" ELSE "run", !.res = FALSE,
                                            !.wrote = @ \/ ~sp.hd[s].res]]
    /\ UNCHANGED spBudget

\* Read of the body, then the loop is told; Close of the body.
Read(s) ==
    /\ sp.rd[s].pc = "run" /\ UNCHANGED spBudget
    /\ \/ sp.str[s].unread > 0
          /\ sp' = [sp EXCEPT !.rd[s] = [pc |-> "note", n |-> sp.str[s].unread], !.str[s].unread = 0]
       \/ sp.str[s].unread = 0 /\ sp.str[s].perr # "no" /\ sp' = [sp EXCEPT !.rd[s].pc = "done"]
       \/ sp' = [sp EXCEPT !.rd[s].pc = "done", !.str[s].perr = IF @ \in {"no", "eof"} THEN "closed" ELSE @]
BadNoteBodyRead(x, s, n) == Next2(sendWindowUpdate(x, 0, n), LAMBDA y : sendWindowUpdate(y, 0, n))
noteBodyRead(x, s, n) ==
    Next2(sendWindowUpdate(x, 0, n),
          LAMBDA y : IF y.str[s].state \in {"half-closed remote", "closed"} THEN {y} ELSE sendWindowUpdate(y, s, n))
NoteRead(s) ==
    /\ sp.rd[s].pc = "note" /\ UNCHANGED spBudget
    /\ serve(noteBodyRead([sp EXCEPT !.rd[s] = [pc |-> "run", n |-> 0]], s, sp.rd[s].n))

\* Close of the connection by its owner.
Close == "fin" \in sp.client /\ Spend /\ Serving(sp) /\ sp' = writeFrameFromHandler(Plain("fin"))

SpdyNext ==
    \/ processFrameFromReader \/ SpdyConnEnds \/ CloseNotify \/ WantWrite \/ wroteFrame \/ Close
    \/ \E s \in SpdyStreams :
        \/ (\E tag \in {"read", "write"} : setTimeout(s, tag)) \/ handleTimeout(s)
        \/ runHandler(s) \/ writeDataFromHandler(s) \/ Read(s) \/ NoteRead(s)

SpdySpec == SpdyInit /\ [][SpdyNext]_spdyVars

-----------------------------------------------------------------------------
\* Neither the connection nor a stream sends what the client did not allow,
\* and the client is not given back more receive window than it used: however
\* WINDOW_UPDATE, SETTINGS, timeouts and resets meet the frames of the handlers
\* that the scheduler splits, and the reports of what they read.
WindowsKept ==
    LET Held[s \in 0..Cardinality(SpdyStreams)] ==
            IF s = 0 THEN 0 ELSE Held[s - 1] + sp.str[s].unread + sp.rd[s].n
    IN  /\ sp.credit >= 0 /\ sp.flow <= sp.credit
        /\ \A s \in streams(sp) : sp.str[s].flow = sp.str[s].credit
        /\ Serving(sp) => sp.inflow >= 0 /\ sp.inflow + Held[Cardinality(SpdyStreams)] <= SpdyWindow

\* A handler that waits for its frame is told: the frame is on its way, or its
\* stream has ended, and the loop stops with an assertion only for the frame of
\* a panicked handler whose stream is already closed.
WaitersTold ==
    /\ sp.done \in {"no", "gone", "closed twice"}
    /\ \A s \in SpdyStreams :
        sp.hd[s].pc \in {"wait", "last"} /\ sp.str[s].state # "closed" =>
            LET Mine(f) == f.s = s /\ f.k \in {"data", "reply"} /\ f.done
            IN  \/ sp.hd[s].res \/ Mine(sp.writing)
                \/ \E i \in DOMAIN sp.want : Mine(sp.want[i])
                \/ \E i \in DOMAIN sp.sq[s] : Mine(sp.sq[s][i])

\* What the comment on timeoutTimer says: the timer of reading a request is
\* stopped once the request has been read in time.
ReadTimerStopped == \A s \in SpdyStreams : sp.str[s].state = "half-closed remote" => "read" \notin sp.str[s].armed
-----------------------------------------------------------------------------
(***************************************************************************)
(* The frames on the wire: what write puts there and what ReadFrame makes  *)
(* of it.  The wire is a sequence of fields, each with its size and its    *)
(* value, a sequence of numbers; the header block is one part of the       *)
(* payload, which the reader must consume exactly.                         *)
(***************************************************************************)
Fld(b, v) == [b |-> b, v |-> v]
Bytes(p) == FoldLeft(LAMBDA n, t : n + t.b, 0, p)

(* Names are <<which, upper>>; 1 is the pseudo header :path, 2 an ordinary   *)
(* header, 3 one that SPDY forbids in every message, 4 Host.                 *)
Pseudo == 1
invalidReqHeaders == {3, 4}
invalidRespHeaders == {3}

\* strings.Join and strings.Split with the separator 0.
Join(vs) == IF vs = <<>> THEN <<>> ELSE FoldLeft(LAMBDA a, v : a \o <<0>> \o v, Head(vs), Tail(vs))
Split(v) ==
    LET cuts == {i \in DOMAIN v : v[i] = 0}
        starts == SetToSortSeq({0} \cup cuts, <)
    IN  [k \in DOMAIN starts |-> SubSeq(v, starts[k] + 1, IF k = Len(starts) THEN Len(v) ELSE starts[k + 1] - 1)]

\* writeHeaderValueBlock lower-cases the names.
BadWriteHeaderValueBlock(hs) ==
    <<Fld(4, <<Len(hs)>>)>> \o FlattenSeq([i \in DOMAIN hs |-> <<Fld(2, hs[i].n), Fld(2, Join(hs[i].vs))>>])
writeHeaderValueBlock(hs) ==
    <<Fld(4, <<Len(hs)>>)>>
    \o FlattenSeq([i \in DOMAIN hs |-> <<Fld(2, <<hs[i].n[1], 0>>), Fld(2, Join(hs[i].vs))>>])

writeControlFrameHeader(type, flags, length) == <<Fld(4, <<-1, type>>), Fld(4, <<flags, length>>)>>

TypeSynStream == 1
TypeSynReply == 2
TypeRstStream == 3
TypeSettings == 4
TypePing == 6
TypeGoAway == 7
TypeHeaders == 8
TypeWindowUpdate == 9

\* The frames as any peer encodes them, and as WriteFrame does, which sends
\* nothing on stream 0.
writeFixed(f, fields, flags, length) == writeControlFrameHeader(f.type, flags, length) \o fields
writeSynStreamFrame(f) ==
    LET block == writeHeaderValueBlock(f.hs)
    IN  writeFixed(f, <<Fld(4, <<f.id>>), Fld(4, <<f.assoc>>), Fld(1, <<f.pri>>), Fld(1, <<0>>)>> \o block, f.flags, Bytes(block) + 10)
writeHeadersFrame(f) ==
    LET block == writeHeaderValueBlock(f.hs)
    IN  writeFixed(f, <<Fld(4, <<f.id>>)>> \o block, f.flags, Bytes(block) + 4)
writeSettings(f) ==
    writeFixed(f, <<Fld(4, <<Len(f.vals)>>)>> \o FlattenSeq([i \in DOMAIN f.vals |-> <<Fld(4, <<f.vals[i]>>), Fld(4, <<f.vals[i]>>)>>]),
               f.flags, Len(f.vals) * 8 + 4)
writeDataFrame(f) == <<Fld(4, <<f.id>>), Fld(4, <<f.flags, f.n>>), Fld(f.n, <<f.n>>)>>
Encoded(f) ==
    CASE f.type = 0 -> writeDataFrame(f)
      [] f.type = TypeSynStream -> writeSynStreamFrame(f)
      [] f.type \in {TypeSynReply, TypeHeaders} -> writeHeadersFrame(f)
      [] f.type = TypeSettings -> writeSettings(f)
      [] f.type = TypePing -> writeFixed(f, <<Fld(4, <<f.id>>)>>, 0, 4)
      [] OTHER -> writeFixed(f, <<Fld(4, <<f.id>>), Fld(4, <<f.val>>)>>, 0, 8)
WriteFrame(f) ==
    IF "id" \in DOMAIN f /\ f.id = 0 /\ f.type \notin {TypeGoAway, TypeWindowUpdate} THEN <<>> ELSE Encoded(f)

-----------------------------------------------------------------------------
Refuse(why) == [err |-> why]
Read1(f, rest) == [err |-> "no", f |-> f, rest |-> rest]

\* parseHeaderValueBlock.  The test for a duplicate looks the lower-case name
\* up in a map whose keys Add has made canonical: only a pseudo header, which
\* has no canonical form, is ever found.
Duplicate(names, i) == names[i][1] = Pseudo /\ \E j \in 1..(i - 1) : names[j][1] = names[i][1]
parseHeaderValueBlock(p) ==
    LET n == p[1].v[1]
        names == [i \in 1..n |-> p[2 * i].v]
        bases == [i \in 1..n |-> names[i][1]]
        ValuesOf(b) == FlattenSeq([i \in 1..n |-> IF bases[i] = b THEN Split(p[2 * i + 1].v) ELSE <<>>])
    IN  IF Len(p) < 2 * n + 1 THEN Refuse("EOF")
        ELSE IF \E i \in 1..n : names[i][2] = 1 \/ Duplicate(names, i) THEN Refuse("header name")
        ELSE [err |-> "no", left |-> Len(p) - (2 * n + 1),
              hs |-> [b \in {bases[i] : i \in 1..n} |-> ValuesOf(b)]]

\* The part of a frame after its stream: the block must fill the length the
\* frame gives.
readBlock(f, p, forbidden, rest) ==
    LET b == parseHeaderValueBlock(p)
    IN  CASE b.err # "no" -> Refuse(b.err)
          [] b.err = "no" /\ b.left # 0 -> Refuse("WrongCompressedPayloadSize")
          [] b.err = "no" /\ b.left = 0 /\ DOMAIN b.hs \cap forbidden # {} -> Refuse("InvalidHeaderPresent")
          [] b.err = "no" /\ b.left = 0 /\ f.type # TypeSynReply /\ Pseudo \in DOMAIN b.hs /\ Len(b.hs[Pseudo]) > 0
                /\ Len(b.hs[Pseudo][1]) > 3 -> Refuse("ErrTooLongUrl")
          [] f.id = 0 -> Refuse("ZeroStreamId")
          [] OTHER -> Read1([f EXCEPT !.hs = b.hs], rest)

readSynStreamFrame(w, flags, n) ==
    readBlock([type |-> TypeSynStream, id |-> w[3].v[1], assoc |-> w[4].v[1], pri |-> w[5].v[1], flags |-> flags, hs |-> <<>>],
              SubSeq(w, 7, n), invalidReqHeaders, SubSeq(w, n + 1, Len(w)))
readSynReplyFrame(w, flags, n) ==
    readBlock([type |-> TypeSynReply, id |-> w[3].v[1], flags |-> flags, hs |-> <<>>],
              SubSeq(w, 4, n), invalidRespHeaders, SubSeq(w, n + 1, Len(w)))
readHeadersFrame(w, flags, n) ==
    readBlock([type |-> TypeHeaders, id |-> w[3].v[1], flags |-> flags, hs |-> <<>>],
              SubSeq(w, 4, n), IF w[3].v[1] % 2 = 0 THEN invalidReqHeaders ELSE invalidRespHeaders, SubSeq(w, n + 1, Len(w)))

\* The frames of fixed fields; only GOAWAY and WINDOW_UPDATE check the length,
\* and RST_STREAM checks its status first.
readSettings(w, flags) ==
    LET n == w[3].v[1]
    IN  IF n > 2 THEN Refuse("numSettings")
        ELSE Read1([type |-> TypeSettings, flags |-> flags, vals |-> [i \in 1..n |-> w[3 + 2 * i].v[1]]], SubSeq(w, 4 + 2 * n, Len(w)))
readPing(w, flags) ==
    CASE w[3].v[1] = 0 -> Refuse("ZeroStreamId")
      [] w[3].v[1] # 0 /\ flags # 0 -> Refuse("InvalidControlFrame")
      [] OTHER -> Read1([type |-> TypePing, id |-> w[3].v[1]], SubSeq(w, 4, Len(w)))
readRstStream(w) ==
    CASE w[4].v[1] = 0 -> Refuse("InvalidControlFrame")
      [] w[4].v[1] # 0 /\ w[3].v[1] = 0 -> Refuse("ZeroStreamId")
      [] OTHER -> Read1([type |-> TypeRstStream, id |-> w[3].v[1], val |-> w[4].v[1]], SubSeq(w, 5, Len(w)))
readFixed(w, type, flags, length) ==
    IF flags # 0 \/ length # 8 THEN Refuse("InvalidControlFrame")
    ELSE Read1([type |-> type, id |-> w[3].v[1], val |-> w[4].v[1]], SubSeq(w, 5, Len(w)))
parseDataFrame(w) ==
    IF w[1].v[1] = 0 THEN Refuse("ZeroStreamId")
    ELSE Read1([type |-> 0, id |-> w[1].v[1], flags |-> w[2].v[1], n |-> w[2].v[2]], SubSeq(w, 4, Len(w)))

\* parseControlFrame: the length bounds the header block only.
parseControlFrame(w) ==
    LET type == w[1].v[2]
        flags == w[2].v[1]
        length == w[2].v[2]
        fits == {k \in 2..Len(w) : Bytes(SubSeq(w, 3, k)) <= length}
        n == CHOOSE k \in fits : \A j \in fits : j <= k
    IN  CASE type = TypeSynStream -> readSynStreamFrame(w, flags, n)
          [] type = TypeSynReply -> readSynReplyFrame(w, flags, n)
          [] type = TypeHeaders -> readHeadersFrame(w, flags, n)
          [] type = TypeSettings -> readSettings(w, flags)
          [] type = TypePing -> readPing(w, flags)
          [] type = TypeRstStream -> readRstStream(w)
          [] type \in {TypeGoAway, TypeWindowUpdate} -> readFixed(w, type, flags, length)
          [] OTHER -> Refuse("InvalidControlFrame")
ReadFrame(w) == IF w[1].v[1] = -1 THEN parseControlFrame(w) ELSE parseDataFrame(w)

-----------------------------------------------------------------------------
SpdyNames == {<<1, 0>>, <<2, 0>>, <<2, 1>>, <<3, 0>>, <<4, 0>>}
SpdyHeader == [n : SpdyNames, vs : {<<>>, <<<<1>>>>, <<<<1>>, <<>>>>, <<<<>>, <<1, 1>>>>}]
SpdyHeaders == {<<>>} \cup {<<h>> : h \in SpdyHeader} \cup (SpdyHeader \X SpdyHeader)
SpdyFixed ==
    [type : {0}, id : {0, 1}, flags : {0, 1}, n : {0, 2}] \cup [type : {TypePing}, id : {0, 1}]
    \cup [type : {TypeSettings}, flags : {0, 1}, vals : {<<>>, <<7>>, <<7, 8>>}]
    \cup [type : {TypeRstStream, TypeGoAway, TypeWindowUpdate}, id : {0, 1}, val : {0, 1}]
SpdyBlocks(hs) ==
    {[type |-> TypeSynStream, id |-> 1, assoc |-> 0, pri |-> 2, flags |-> 1, hs |-> hs]}
    \cup {[type |-> t, id |-> id, flags |-> 0, hs |-> hs] : t \in {TypeSynReply, TypeHeaders}, id \in {0, 1, 2}}
SpdyFrameInputs ==
    {[of |-> "spdy frame", f |-> f] : f \in SpdyFixed \cup UNION {SpdyBlocks(hs) : hs \in SpdyHeaders}}

\* A peer that writes a frame and then a PING is understood: the reader takes
\* exactly the fields of the frame, so the PING is read after it, whatever the
\* headers hold; it gives back the frame, with the values of a repeated name
\* together, or refuses it, and it refuses every frame of stream 0 that
\* carries data or headers, every forbidden header and a repeated :path.
SpdyFramesReadBack ==
    Given("spdy frame") =>
        LET f == input.f
            ping == [type |-> TypePing, id |-> 1]
            r == ReadFrame(Encoded(f) \o WriteFrame(ping))
            named == "hs" \in DOMAIN f
            Of(b) == FlattenSeq([i \in DOMAIN f.hs |-> IF f.hs[i].n[1] = b
                                    THEN IF f.hs[i].vs = <<>> THEN <<<<>>>> ELSE f.hs[i].vs ELSE <<>>])
            bases == {f.hs[i].n[1] : i \in DOMAIN f.hs}
            forbidden == IF f.type = TypeSynStream \/ (f.type = TypeHeaders /\ f.id % 2 = 0) THEN {3, 4} ELSE {3}
            bad == \/ "id" \in DOMAIN f /\ f.id = 0 /\ f.type \notin {TypeGoAway, TypeWindowUpdate}
                   \/ f.type = TypeRstStream /\ f.val = 0
                   \/ named /\ (bases \cap forbidden # {} \/ Cardinality({i \in DOMAIN f.hs : f.hs[i].n[1] = Pseudo}) > 1)
        IN  /\ bad <=> r.err # "no"
            /\ WriteFrame(f) = <<>> => bad
            /\ ~bad => /\ ReadFrame(r.rest) = Read1(ping, <<>>)
                       /\ r.f = IF named THEN [f EXCEPT !.hs = [b \in bases |-> Of(b)]] ELSE f
=============================================================================
