------------------------------ MODULE Http2Wire ------------------------------
(***************************************************************************)
(* What goes over an HTTP/2 connection: the frames of frame.go, the header *)
(* blocks assembled from them, the header compression of hpack, and the    *)
(* priorities streams are given.  Pure functions, checked over the bounded *)
(* inputs of Http2WireInputs.                                              *)
(***************************************************************************)
EXTENDS Sample, Integers, Sequences, FiniteSets, SequencesExt, FiniteSetsExt

CONSTANTS MaxOps, TableLimit

-----------------------------------------------------------------------------
(* hpack: a table is the entries, oldest first, and its limit.  A field's  *)
(* size is 1, or 2 with a long value.                                      *)
Size(f) == IF f.v = "long" THEN 2 ELSE 1
TableSize(ents) == FoldSeq(LAMBDA f, n : Size(f) + n, 0, ents)

staticTable == <<[n |-> "path", v |-> "x"], [n |-> "path", v |-> "y"]>>

\* evict drops the oldest entries until the rest fits.
evict(t) ==
    LET fits == {k \in 0..Len(t.ents) : TableSize(SubSeq(t.ents, k + 1, Len(t.ents))) <= t.max}
    IN  [t EXCEPT !.ents = SubSeq(@, Min(fits) + 1, Len(@))]
Added(t, f) == evict([t EXCEPT !.ents = Append(@, f)])
Resized(t, v) == evict([t EXCEPT !.max = v])

\* Index of the newest of the entries at the places given, counted after the static
\* table; 0 when there is none.
Newest(t, at) ==
    IF at = {} THEN 0 ELSE Len(staticTable) + Len(t.ents) - Max(at) + 1
First(at) == IF at = {} THEN 0 ELSE Min(at)
Places(ents, f) == {i \in DOMAIN ents : ents[i].n = f.n}
WholePlaces(ents, f) == {i \in Places(ents, f) : ents[i].v = f.v /\ ~f.sensitive}

\* searchTable: the index of the whole field if it may be used, else of its
\* name; static entries before dynamic ones.
searchTable(t, f) ==
    LET IndexOf(static, dynamic) == IF static # {} THEN First(static) ELSE Newest(t, dynamic)
        whole == IndexOf(WholePlaces(staticTable, f), WholePlaces(t.ents, f))
    IN  [i |-> IF whole # 0 THEN whole ELSE IndexOf(Places(staticTable, f), Places(t.ents, f)),
         whole |-> whole # 0]

\* The size updates that go before the first field after a change of the
\* limit: the smallest limit there was in between, and the one in force.
BadSizeUpdates(e) == IF e.update THEN <<[r |-> "size", v |-> e.t.max]>> ELSE <<>>
SizeUpdates(e) ==
    IF ~e.update THEN <<>>
    ELSE (IF e.min < e.t.max THEN <<[r |-> "size", v |-> e.min]>> ELSE <<>>) \o <<[r |-> "size", v |-> e.t.max]>>

\* WriteField: the encoder after a field, and what it appended.
WriteField(e, f) ==
    LET found == searchTable(e.t, f)
        indexing == ~f.sensitive /\ Size(f) <= e.t.max
        literal == [r |-> IF f.sensitive THEN "never" ELSE IF indexing THEN "index" ELSE "literal",
                    i |-> found.i, n |-> IF found.i = 0 THEN f.n ELSE "", v |-> f.v]
    IN  [e |-> [t |-> IF ~found.whole /\ indexing THEN Added(e.t, [n |-> f.n, v |-> f.v]) ELSE e.t,
                min |-> TableLimit + 1, update |-> FALSE],
         out |-> Append(SizeUpdates(e), IF found.whole THEN [r |-> "whole", i |-> found.i] ELSE literal)]

SetMaxDynamicTableSize(e, v) ==
    LET w == IF v > TableLimit THEN TableLimit ELSE v
    IN  [t |-> Resized(e.t, w), min |-> IF w < e.min THEN w ELSE e.min, update |-> TRUE]

\* The decoder's entry of an index, and one representation decoded.
at(t, i) == IF i <= Len(staticTable) THEN staticTable[i] ELSE t.ents[Len(t.ents) - (i - Len(staticTable)) + 1]
Known(t, i) == i \in 1..(Len(staticTable) + Len(t.ents))
parseHeaderFieldRepr(d, r) ==
    LET f == [n |-> IF r.i = 0 THEN r.n ELSE at(d.t, r.i).n, v |-> r.v]
    IN  CASE d.err -> d
          [] ~d.err /\ r.r = "size" -> IF r.v > TableLimit THEN [d EXCEPT !.err = TRUE] ELSE [d EXCEPT !.t = Resized(@, r.v)]
          [] ~d.err /\ r.r # "size" /\ r.i # 0 /\ ~Known(d.t, r.i) -> [d EXCEPT !.err = TRUE]
          [] r.r = "whole" -> [d EXCEPT !.out = Append(@, at(d.t, r.i))]
          [] OTHER -> [d EXCEPT !.out = Append(@, f), !.t = IF r.r = "index" THEN Added(@, f) ELSE @]

\* One operation of a connection: a field is written and read, or the client
\* changes the limit of the table.
HpackStep(s, op) ==
    IF op.do = "resize" THEN [s EXCEPT !.e = SetMaxDynamicTableSize(@, op.v)]
    ELSE LET w == WriteField(s.e, op.f)
         IN  [e |-> w.e, d |-> FoldLeft(parseHeaderFieldRepr, s.d, w.out), sent |-> Append(s.sent, [n |-> op.f.n, v |-> op.f.v])]
HpackRun(ops) ==
    LET t == [ents |-> <<>>, max |-> TableLimit]
    IN  FoldLeft(HpackStep, [e |-> [t |-> t, min |-> TableLimit + 1, update |-> FALSE],
                             d |-> [t |-> t, err |-> FALSE, out |-> <<>>], sent |-> <<>>], ops)

\* appendVarInt and readVarInt with an n-bit prefix; -1 asks for more bytes.
VarIntTail[i \in Nat] == IF i < 128 THEN <<i>> ELSE <<128 + (i % 128)>> \o VarIntTail[i \div 128]
appendVarInt(n, i) == IF i < 2^n - 1 THEN <<i>> ELSE <<2^n - 1>> \o VarIntTail[i - (2^n - 1)]
readVarInt(n, p) ==
    LET last == {k \in 2..Len(p) : p[k] < 128}
        stop == Min(last)
    IN  IF p = <<>> THEN -1
        ELSE IF p[1] < 2^n - 1 THEN p[1]
        ELSE IF last = {} THEN -1
        ELSE MapThenSumSet(LAMBDA k : (p[k] % 128) * 2^(7 * (k - 2)), 2..stop) + p[1]

-----------------------------------------------------------------------------
(* Frames: a frame is its type, stream, payload length and what its flags  *)
(* say.  Reading one gives the length of its content or an error.          *)
PadField(f) == IF f.padded THEN 1 ELSE 0
PriorityField(f) == IF f.prio THEN 5 ELSE 0
parseDataFrame(f) ==
    CASE f.id = 0 -> "conn"
      [] f.id # 0 /\ f.len < PadField(f) -> "eof"
      [] f.id # 0 /\ f.len >= PadField(f) /\ f.pad > f.len - PadField(f) -> "conn"
      [] OTHER -> "ok"
parseHeadersFrame(f) ==
    LET rest == f.len - PadField(f) - PriorityField(f)
    IN  CASE f.id = 0 -> "conn" [] f.id # 0 /\ rest < 0 -> "eof"
          [] f.id # 0 /\ rest >= 0 /\ rest - f.pad <= 0 -> "stream" [] OTHER -> "ok"
parseSettingsFrame(f) ==
    IF (f.ack /\ f.len > 0) \/ f.id # 0 \/ f.len % 6 # 0 THEN "conn" ELSE "ok"
parsePingFrame(f) == IF f.len # 8 \/ f.id # 0 THEN "conn" ELSE "ok"
parseGoAwayFrame(f) == IF f.id # 0 \/ f.len < 8 THEN "conn" ELSE "ok"
parseWindowUpdateFrame(f) ==
    IF f.len # 4 \/ (f.inc = 0 /\ f.id = 0) THEN "conn" ELSE IF f.inc = 0 THEN "stream" ELSE "ok"
parsePriorityFrame(f) == IF f.id = 0 \/ f.len # 5 THEN "conn" ELSE "ok"
parseRSTStreamFrame(f) == IF f.len # 4 \/ f.id = 0 THEN "conn" ELSE "ok"
parseFrame(f) ==
    CASE f.t = "data" -> parseDataFrame(f) [] f.t = "headers" -> parseHeadersFrame(f)
      [] f.t = "settings" -> parseSettingsFrame(f) [] f.t = "ping" -> parsePingFrame(f)
      [] f.t = "goaway" -> parseGoAwayFrame(f) [] f.t = "window" -> parseWindowUpdateFrame(f)
      [] f.t = "priority" -> parsePriorityFrame(f) [] f.t = "rst" -> parseRSTStreamFrame(f)

\* What the writers accept, and the payload length they give a frame with n
\* bytes of content.
WriteData(id, n, padded, pad) == [t |-> "data", id |-> id, len |-> n + (IF padded THEN 1 + pad ELSE 0), padded |-> padded, pad |-> pad]
WriteHeaders(id, n, pad, prio) ==
    [t |-> "headers", id |-> id, padded |-> pad # 0, pad |-> pad, prio |-> prio,
     len |-> n + (IF pad # 0 THEN 1 + pad ELSE 0) + (IF prio THEN 5 ELSE 0)]
Content(f) == f.len - PadField(f) - f.pad - (IF f.t = "headers" THEN PriorityField(f) ELSE 0)

\* checkFrameOrder and readMetaFrame: the header blocks read from a sequence
\* of frames, in front of the first frame that is out of order.
BadCheckFrameOrder(open, f) == (f.t = "cont") = (open # 0)
checkFrameOrder(open, f) ==
    IF open = 0 THEN f.t # "cont" ELSE f.t = "cont" /\ f.id = open
ReadStep(s, f) ==
    CASE s.err -> s
      [] ~s.err /\ ~checkFrameOrder(s.open, f) -> [s EXCEPT !.err = TRUE, !.block = <<>>]
      [] ~s.err /\ checkFrameOrder(s.open, f) /\ f.t \in {"headers", "cont"} ->
            LET block == s.block \o <<f.frag>>
            IN  IF f.end THEN [s EXCEPT !.open = 0, !.block = <<>>, !.got = Append(@, [id |-> f.id, block |-> block])]
                ELSE [s EXCEPT !.open = f.id, !.block = block]
      [] OTHER -> s
ReadFrames(fs) == FoldLeft(ReadStep, [open |-> 0, block |-> <<>>, got |-> <<>>, err |-> FALSE], fs)

\* The header list of a request, as readMetaFrame's emit function and
\* checkPseudos accept it.
Pseudo == {":method", ":path", ":status", ":other"}
checkPseudos(fields) ==
    LET names == {i \in 1..Len(fields) : fields[i] \in Pseudo}
    IN  /\ \A i, j \in names : i # j => fields[i] # fields[j]
        /\ \A i \in names : fields[i] # ":other"
        /\ ~((\E i \in names : fields[i] = ":status") /\ \E i \in names : fields[i] \in {":method", ":path"})
readMetaFrame(fields) ==
    /\ \A i \in 1..Len(fields) : fields[i] # "Upper"
    /\ \A i, j \in 1..Len(fields) : i < j /\ fields[j] \in Pseudo => fields[i] \in Pseudo
    /\ checkPseudos(fields)

-----------------------------------------------------------------------------
(* Priorities: the parent of a stream may be closed; 0 is none. *)
AncestorsOf(p, s) ==
    LET up[k \in Nat] == IF k = 0 THEN s ELSE IF up[k - 1] = 0 THEN 0 ELSE p[up[k - 1]]
    IN  {up[k] : k \in 0..Cardinality(DOMAIN p)}

\* Without looking whether the new parent depends on the stream:
BadAdjustStreamPriority(s, op) == [s EXCEPT !.p[op.id] = op.dep]
adjustStreamPriority(s, op) ==
    LET dep == IF op.dep \in s.open THEN op.dep ELSE 0
        below == dep # 0 /\ op.id \in AncestorsOf(s.p, dep)
        p1 == IF below THEN [s.p EXCEPT ![dep] = s.p[op.id]] ELSE s.p
        p2 == [p1 EXCEPT ![op.id] = dep]
        p3 == [x \in DOMAIN p2 |-> IF x \in s.open \ {op.id} /\ p2[x] = dep THEN op.id ELSE p2[x]]
    IN  IF op.id \notin s.open \/ dep = op.id THEN s
        ELSE [s EXCEPT !.p = IF op.excl /\ (dep # 0 \/ op.dep = 0) THEN p3 ELSE p2]
PriorityStep(s, op) == IF op.do = "close" THEN [s EXCEPT !.open = @ \ {op.id}] ELSE adjustStreamPriority(s, op)
Prioritised(ops) == FoldLeft(PriorityStep, [open |-> 1..3, p |-> [x \in 1..3 |-> 0]], ops)

-----------------------------------------------------------------------------
SeqsUpTo(S, n) == UNION {[1..k -> S] : k \in 0..n}
Http2WireInputs ==
    LET fields == [n : {"path", "a"}, v : {"y", "long"}, sensitive : BOOLEAN]
        hpackOps == [do : {"field"}, f : {f \in fields : f.sensitive => f.n = "a"}] \cup [do : {"resize"}, v : {0, 1, TableLimit + 1}]
        frames == [t : {"headers", "cont", "data"}, id : {1, 3}, end : BOOLEAN, frag : {"f"}]
        prios == [do : {"adjust"}, id : 1..3, dep : 0..3, excl : BOOLEAN] \cup [do : {"close"}, id : {1, 2}]
    IN  [of : {"hpack"}, ops : SeqsUpTo(hpackOps, MaxOps)]
        \cup [of : {"varint"}, n : 4..7, i : (0..300) \cup {16383, 16384, 16511}]
        \cup [of : {"h2order"}, fs : SeqsUpTo(frames, 4)]
        \cup [of : {"h2data"}, n : 0..2, padded : BOOLEAN, pad : 0..2, prio : BOOLEAN]
        \cup [of : {"h2raw"}, f : [t : {"data", "headers", "settings", "ping", "goaway", "window", "priority", "rst"}, id : {0, 1},
                    len : {0, 1, 4, 5, 6, 8, 12}, padded : BOOLEAN, pad : {0, 1, 5}, prio : BOOLEAN, ack : BOOLEAN, inc : {0, 1}]]
        \cup [of : {"h2fields"}, fields : SeqsUpTo(Pseudo \cup {"a", "Upper"}, 4)]
        \cup [of : {"h2prio"}, ops : SeqsUpTo(prios, 3)]

\* Whatever fields are written and however the table's limit moves in between,
\* a decoder that reads the block has the encoder's table and emits the fields
\* as they were written; an integer is read back from its bytes, and never
\* from a part of them.
HpackInSync ==
    /\ Given("hpack") => LET s == HpackRun(input.ops)
                         IN  /\ ~s.d.err /\ s.d.out = s.sent
                             /\ ~s.e.update => s.d.t = s.e.t
                             /\ TableSize(s.e.t.ents) <= s.e.t.max
    /\ Given("varint") => LET p == appendVarInt(input.n, input.i)
                          IN  /\ readVarInt(input.n, p) = input.i
                              /\ \A k \in 0..Len(p) - 1 : readVarInt(input.n, SubSeq(p, 1, k)) = -1

\* Header blocks are made of consecutive frames of one stream; what the
\* writers produce is read back with its content, and no frame is accepted
\* whose padding or fields reach outside its payload; a list of fields that is
\* accepted has its pseudo fields first, once each and of one kind.
FramesWhole ==
    /\ Given("h2order") =>
          LET blocks == ReadFrames(input.fs).got
              used == FoldSeq(LAMBDA b, n : Len(b.block) + n, 0, blocks)
              headers == SelectSeq(input.fs, LAMBDA f : f.t # "data")
          IN  \A i \in 1..Len(blocks) :
                  LET before == FoldSeq(LAMBDA b, n : Len(b.block) + n, 0, SubSeq(blocks, 1, i - 1))
                      mine == SubSeq(headers, before + 1, before + Len(blocks[i].block))
                  IN  /\ mine[1].t = "headers" /\ mine[Len(mine)].end
                      /\ \A k \in 1..Len(mine) : mine[k].id = blocks[i].id /\ (k > 1 => mine[k].t = "cont")
    /\ Given("h2data") =>
          LET d == WriteData(1, input.n, input.padded, IF input.padded THEN input.pad ELSE 0)
              h == WriteHeaders(1, input.n + 1, input.pad, input.prio)
          IN  parseDataFrame(d) = "ok" /\ Content(d) = input.n /\ parseHeadersFrame(h) = "ok" /\ Content(h) = input.n + 1
    /\ Given("h2raw") /\ input.f.t \in {"data", "headers"} /\ (input.f.padded \/ input.f.pad = 0) =>
          (parseFrame(input.f) = "ok" => Content(input.f) >= 0)
    /\ Given("h2fields") /\ readMetaFrame(input.fields) =>
          LET n == Cardinality({i \in DOMAIN input.fields : input.fields[i] \in Pseudo})
              ps == {input.fields[i] : i \in 1..n}
          IN  Cardinality(ps) = n /\ (ps \subseteq {":method", ":path"} \/ ps = {":status"})

\* The parents of streams form no cycle, so the walk over them that every
\* PRIORITY frame starts on the serve goroutine ends.
PriorityAcyclic ==
    Given("h2prio") => \A s \in 1..3 : 0 \in AncestorsOf(Prioritised(input.ops).p, s)
=============================================================================
