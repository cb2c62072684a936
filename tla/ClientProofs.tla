---------------------------- MODULE ClientProofs ----------------------------
(***************************************************************************)
(* TLAPS proofs about the side of the client: the life of connections      *)
(* (ClientConn), for any connections, any kinds of them and any number of  *)
(* requests on each, and handshakes (TlsHandshake), for any clients, any   *)
(* configurations of the server and any number of handshakes.              *)
(*                                                                         *)
(* A gauge of connections is the size of a set of connections or requests; *)
(* a step of a connection moves one member in or out (Recount, Started,    *)
(* Ended).  Which way it moves follows from the protocol at each program   *)
(* point, and that a request that starts is a new one from the numbers of  *)
(* those before (ConnOk).                                                  *)
(*                                                                         *)
(* Of a handshake the invariant says what each end holds once it has said  *)
(* hello (ServerOK, ClientOK), what is on the wire (WireOK, AnswerOK), and  *)
(* that an end that is done agrees with the other (DoneOK).                *)
(***************************************************************************)
EXTENDS ClientConn, TlsHandshake, FiniteSetTheorems, WellFoundedInduction, TLAPS

IsOpen(k) == k.pc \notin {"none", "accepted", "closed"}

\* What the program point of a connection says of its protocol, its requests
\* and of those it served after the shutdown had begun.
ConnOk(k, kind, st) ==
    /\ k.pc \in {"none", "accepted", "handshake", "first"} => k.proto = "none"
    /\ k.pc \in {"read", "request", "keep", "close"} => k.proto = kind
    /\ \A i \in k.active : i > k.left
    /\ k.pc \in {"request", "keep", "close"} => k.left + 1 \in k.active
    /\ k.late <= 1
    /\ k.late > 0 => (st # "up" /\ k.pc \in {"request", "close", "finish", "closed"})
    /\ k.finished = IF k.pc = "closed" THEN 1 ELSE 0

ConnsOk == \A c \in CConns : ConnOk(cc[c], CKinds[c], srvState)

Counts ==
    /\ \A p \in Protos : gauge.conns[p] = Cardinality(OpenAs(p))
    /\ gauge.wg = Cardinality(Open)
    /\ gauge.reqs = Cardinality(Running)

Typed ==
    /\ cc \in [CConns -> Connections]
    /\ gauge \in [conns : [Protos -> Int], reqs : Int, wg : Int]
    /\ srvState \in {"up", "notified", "closed", "success", "timeout"}

ConnInv == Typed /\ ConnsOk /\ Counts

-----------------------------------------------------------------------------
(* Counting.                                                               *)

\* One member of a finite set comes or goes.
LEMMA Recount ==
    ASSUME NEW S, IsFiniteSet(S), NEW c, NEW b \in BOOLEAN,
           NEW T, T = IF b THEN S \cup {c} ELSE S \ {c}
    PROVE  /\ Cardinality(S) \in Nat
           /\ Cardinality(T) = Cardinality(S) - (IF c \in S THEN 1 ELSE 0) + (IF b THEN 1 ELSE 0)
<1>1. Cardinality(S) \in Nat
  BY FS_CardinalityType
<1>2. CASE b /\ c \in S
  <2>1. T = S
    BY <1>2
  <2>2. PICK n \in Nat : n = Cardinality(S)
    BY <1>1
  <2>3. Cardinality(T) = n
    BY <2>1, <2>2
  <2>4. n = n - (IF c \in S THEN 1 ELSE 0) + (IF b THEN 1 ELSE 0)
    BY <1>2
  <2> QED
    BY <2>2, <2>3, <2>4
<1>3. CASE b /\ c \notin S
  BY <1>1, <1>3, FS_AddElement
<1>4. CASE ~b /\ c \in S
  BY <1>1, <1>4, FS_RemoveElement
<1>5. CASE ~b /\ c \notin S
  <2>1. T = S
    BY <1>5
  <2>2. PICK n \in Nat : n = Cardinality(S)
    BY <1>1
  <2>3. Cardinality(T) = n
    BY <2>1, <2>2
  <2>4. n = n - (IF c \in S THEN 1 ELSE 0) + (IF b THEN 1 ELSE 0)
    BY <1>5
  <2> QED
    BY <2>2, <2>3, <2>4
<1> QED
  BY <1>1, <1>2, <1>3, <1>4, <1>5

\* The sets that the gauges count are finite.
LEMMA Finite ==
    /\ IsFiniteSet(Open) /\ IsFiniteSet(Running)
    /\ \A p : IsFiniteSet(OpenAs(p))
<1>1. IsFiniteSet(CConns) /\ IsFiniteSet(1 .. CRequests)
  BY ClientConnAssumption, FS_Interval
<1>2. IsFiniteSet(CConns \X (1 .. CRequests))
  BY <1>1, FS_Product
<1>3. Running \subseteq CConns \X (1 .. CRequests)
  BY DEF Running
<1>4. Open \subseteq CConns /\ \A p : OpenAs(p) \subseteq CConns
  BY DEF Open, OpenAs
<1> QED
  BY <1>1, <1>2, <1>3, <1>4, FS_Subset

\* A step of one connection, as the gauges of connections see it.
LEMMA Moved ==
    ASSUME Typed, NEW c \in CConns, NEW k, cc' = [cc EXCEPT ![c] = k]
    PROVE  /\ \A p \in Protos :
                Cardinality(OpenAs(p)') = Cardinality(OpenAs(p))
                  - (IF IsOpen(cc[c]) /\ cc[c].proto = p THEN 1 ELSE 0)
                  + (IF IsOpen(k) /\ k.proto = p THEN 1 ELSE 0)
           /\ Cardinality(Open') = Cardinality(Open)
                - (IF IsOpen(cc[c]) THEN 1 ELSE 0) + (IF IsOpen(k) THEN 1 ELSE 0)
<1>1. cc'[c] = k /\ \A d \in CConns : d # c => cc'[d] = cc[d]
  BY DEF Typed
<1>2. Open' = IF IsOpen(k) THEN Open \cup {c} ELSE Open \ {c}
  BY <1>1 DEF Open, IsOpen
<1>3. c \in Open <=> IsOpen(cc[c])
  BY DEF Open, IsOpen
<1>4. Cardinality(Open') = Cardinality(Open)
        - (IF IsOpen(cc[c]) THEN 1 ELSE 0) + (IF IsOpen(k) THEN 1 ELSE 0)
  <2>1. IsOpen(k) \in BOOLEAN
    BY DEF IsOpen
  <2>2. Cardinality(Open') = Cardinality(Open)
          - (IF c \in Open THEN 1 ELSE 0) + (IF IsOpen(k) THEN 1 ELSE 0)
    BY <1>2, <2>1, Finite, Recount
  <2> QED
    BY <1>3, <2>2
<1>5. ASSUME NEW p \in Protos
      PROVE  Cardinality(OpenAs(p)') = Cardinality(OpenAs(p))
               - (IF IsOpen(cc[c]) /\ cc[c].proto = p THEN 1 ELSE 0)
               + (IF IsOpen(k) /\ k.proto = p THEN 1 ELSE 0)
  <2> DEFINE b == IsOpen(k) /\ k.proto = p
  <2>1. b \in BOOLEAN
    BY DEF IsOpen
  <2>2. OpenAs(p)' = IF b THEN OpenAs(p) \cup {c} ELSE OpenAs(p) \ {c}
    BY <1>1, <1>2 DEF OpenAs, Open, IsOpen
  <2>3. c \in OpenAs(p) <=> (IsOpen(cc[c]) /\ cc[c].proto = p)
    BY <1>3 DEF OpenAs
  <2> HIDE DEF b
  <2>4. Cardinality(OpenAs(p)') = Cardinality(OpenAs(p))
          - (IF c \in OpenAs(p) THEN 1 ELSE 0) + (IF b THEN 1 ELSE 0)
    BY <2>1, <2>2, Finite, Recount
  <2> QED
    BY <2>3, <2>4 DEF b
<1> QED
  BY <1>4, <1>5

\* Neither the requests of a connection nor those of the others change.
LEMMA SameRunning ==
    ASSUME Typed, NEW c \in CConns, NEW k, cc' = [cc EXCEPT ![c] = k],
           k.active = cc[c].active
    PROVE  Running' = Running
<1>1. \A d \in CConns : cc'[d].active = cc[d].active
  BY DEF Typed
<1> QED
  BY <1>1 DEF Running

\* A request starts.
LEMMA Started ==
    ASSUME Typed, NEW c \in CConns, NEW k, cc' = [cc EXCEPT ![c] = k],
           NEW i \in 1 .. CRequests, i \notin cc[c].active,
           k.active = cc[c].active \cup {i}
    PROVE  Cardinality(Running') = Cardinality(Running) + 1
<1>1. cc'[c].active = cc[c].active \cup {i} /\ \A d \in CConns : d # c => cc'[d] = cc[d]
  BY DEF Typed
<1>2. Running' = Running \cup {<<c, i>>}
  <2>1. \A x \in CConns \X (1 .. CRequests) :
          x[2] \in cc'[x[1]].active <=> (x[2] \in cc[x[1]].active \/ x = <<c, i>>)
    BY <1>1
  <2> QED
    BY <2>1 DEF Running
<1>3. <<c, i>> \notin Running
  BY DEF Running
<1> QED
  BY <1>2, <1>3, Finite, FS_AddElement

\* A request ends.
LEMMA Ended ==
    ASSUME Typed, NEW c \in CConns, NEW k, cc' = [cc EXCEPT ![c] = k],
           NEW i \in cc[c].active, k.active = cc[c].active \ {i}
    PROVE  Cardinality(Running') = Cardinality(Running) - 1
<1>1. cc'[c].active = cc[c].active \ {i} /\ \A d \in CConns : d # c => cc'[d] = cc[d]
  BY DEF Typed
<1>2. i \in 1 .. CRequests
  BY DEF Typed, Connections
<1>3. Running' = Running \ {<<c, i>>}
  <2>1. \A x \in CConns \X (1 .. CRequests) :
          x[2] \in cc'[x[1]].active <=> (x[2] \in cc[x[1]].active /\ x # <<c, i>>)
    BY <1>1
  <2> QED
    BY <2>1 DEF Running
<1>4. <<c, i>> \in Running
  BY <1>2 DEF Running
<1> QED
  BY <1>3, <1>4, Finite, FS_RemoveElement

\* A step of one connection keeps the invariant when the connection stays well
\* formed and the gauges move with it.
LEMMA Kept ==
    ASSUME ConnInv, NEW c \in CConns, NEW k \in Connections, cc' = [cc EXCEPT ![c] = k],
           srvState' = srvState, ConnOk(k, CKinds[c], srvState),
           gauge' \in [conns : [Protos -> Int], reqs : Int, wg : Int],
           \A p \in Protos : gauge'.conns[p] = gauge.conns[p]
                  - (IF IsOpen(cc[c]) /\ cc[c].proto = p THEN 1 ELSE 0)
                  + (IF IsOpen(k) /\ k.proto = p THEN 1 ELSE 0),
           gauge'.wg = gauge.wg
                - (IF IsOpen(cc[c]) THEN 1 ELSE 0) + (IF IsOpen(k) THEN 1 ELSE 0),
           gauge'.reqs = Cardinality(Running')
    PROVE  ConnInv'
<1>1. Typed'
  BY DEF ConnInv, Typed
<1>2. ConnsOk'
  BY DEF ConnInv, Typed, ConnsOk
<1>3. Counts'
  <2>1. Typed /\ Counts
    BY DEF ConnInv
  <2>2. gauge'.wg = Cardinality(Open')
    BY <2>1, Moved DEF Counts
  <2>3. ASSUME NEW p \in Protos
        PROVE  gauge'.conns[p] = Cardinality(OpenAs(p)')
    <3>1. Cardinality(OpenAs(p)') = Cardinality(OpenAs(p))
            - (IF IsOpen(cc[c]) /\ cc[c].proto = p THEN 1 ELSE 0)
            + (IF IsOpen(k) /\ k.proto = p THEN 1 ELSE 0)
      BY <2>1, <2>3, Moved
    <3>2. gauge.conns[p] = Cardinality(OpenAs(p))
      BY <2>1, <2>3 DEF Counts
    <3>3. gauge'.conns[p] = gauge.conns[p]
            - (IF IsOpen(cc[c]) /\ cc[c].proto = p THEN 1 ELSE 0)
            + (IF IsOpen(k) /\ k.proto = p THEN 1 ELSE 0)
      BY <2>3
    <3> QED
      BY <3>1, <3>2, <3>3
  <2> QED
    BY <2>2, <2>3 DEF Counts
<1> QED
  BY <1>1, <1>2, <1>3 DEF ConnInv

-----------------------------------------------------------------------------
(* The steps.                                                              *)

\* A connection at another program point.
LEMMA NewPc ==
    ASSUME Typed, NEW c \in CConns, NEW x \in Pcs, NEW k, k = [cc[c] EXCEPT !.pc = x]
    PROVE  /\ k \in Connections /\ k.pc = x /\ k.proto = cc[c].proto /\ k.left = cc[c].left
           /\ k.active = cc[c].active /\ k.late = cc[c].late /\ k.finished = cc[c].finished
  BY DEF Typed, Connections

\* A step that no gauge counts.
LEMMA GoesOn ==
    ASSUME ConnInv, NEW c \in CConns, NEW x \in Pcs, Goto(c, x), UNCHANGED <<gauge, srvState>>,
           NEW k, k = [cc[c] EXCEPT !.pc = x], IsOpen(cc[c]) <=> IsOpen(k),
           ConnOk(k, CKinds[c], srvState)
    PROVE  ConnInv'
<1>1. k \in Connections /\ k.proto = cc[c].proto /\ k.active = cc[c].active
  BY NewPc DEF ConnInv
<1>2. cc' = [cc EXCEPT ![c] = k]
  BY DEF Goto
<1>3. Running' = Running
  BY <1>1, <1>2, SameRunning DEF ConnInv
<1>4. /\ gauge' \in [conns : [Protos -> Int], reqs : Int, wg : Int]
      /\ \A p \in Protos : gauge.conns[p] \in Int
      /\ gauge.wg \in Int
      /\ gauge'.reqs = Cardinality(Running')
  BY <1>3 DEF ConnInv, Typed, Counts
<1>5. \A p \in Protos : gauge'.conns[p] = gauge.conns[p]
                  - (IF IsOpen(cc[c]) /\ cc[c].proto = p THEN 1 ELSE 0)
                  + (IF IsOpen(k) /\ k.proto = p THEN 1 ELSE 0)
  BY <1>1, <1>4
<1>6. gauge'.wg = gauge.wg
                - (IF IsOpen(cc[c]) THEN 1 ELSE 0) + (IF IsOpen(k) THEN 1 ELSE 0)
  BY <1>4
<1> QED
  BY <1>1, <1>2, <1>4, <1>5, <1>6, Kept

\* The gauge of connections when c is counted under p.
LEMMA CountedAs ==
    ASSUME Typed, NEW c, NEW p, NEW g, g = Counted(c, p)
    PROVE  /\ g \in [conns : [Protos -> Int], reqs : Int, wg : Int]
           /\ g.reqs = gauge.reqs /\ g.wg = gauge.wg /\ g.wg \in Int
           /\ \A q \in Protos : gauge.conns[q] \in Int
           /\ \A q \in Protos : g.conns[q] = gauge.conns[q]
                + (IF q = p THEN 1 ELSE 0) - (IF q = cc[c].proto THEN 1 ELSE 0)
  BY DEF Typed, Counted

\* An open connection that is handed to a protocol.
LEMMA Handed ==
    ASSUME ConnInv, NEW c \in CConns, NEW x \in Pcs, NEW p \in Protos,
           NEW k, k = [cc[c] EXCEPT !.pc = x, !.proto = p],
           cc' = [cc EXCEPT ![c] = k], gauge' = Counted(c, p), srvState' = srvState,
           IsOpen(cc[c]), IsOpen(k), ConnOk(k, CKinds[c], srvState)
    PROVE  ConnInv'
<1>1. k \in Connections /\ k.proto = p /\ k.active = cc[c].active
  BY DEF ConnInv, Typed, Connections
<1>2. Running' = Running
  BY <1>1, SameRunning DEF ConnInv
<1>3. /\ gauge' \in [conns : [Protos -> Int], reqs : Int, wg : Int]
      /\ gauge'.reqs = gauge.reqs /\ gauge'.wg = gauge.wg /\ gauge.wg \in Int
      /\ \A q \in Protos : gauge.conns[q] \in Int
      /\ \A q \in Protos : gauge'.conns[q] = gauge.conns[q]
           + (IF q = p THEN 1 ELSE 0) - (IF q = cc[c].proto THEN 1 ELSE 0)
  BY CountedAs DEF ConnInv
<1>4. gauge'.reqs = Cardinality(Running')
  BY <1>2, <1>3 DEF ConnInv, Counts
<1>5. \A q \in Protos : gauge'.conns[q] = gauge.conns[q]
                  - (IF IsOpen(cc[c]) /\ cc[c].proto = q THEN 1 ELSE 0)
                  + (IF IsOpen(k) /\ k.proto = q THEN 1 ELSE 0)
  BY <1>1, <1>3
<1>6. gauge'.wg = gauge.wg
                - (IF IsOpen(cc[c]) THEN 1 ELSE 0) + (IF IsOpen(k) THEN 1 ELSE 0)
  BY <1>3
<1> QED
  BY <1>1, <1>3, <1>4, <1>5, <1>6, Kept

\* A connection that stays open under its protocol, with a request more or less.
LEMMA Served ==
    ASSUME ConnInv, NEW c \in CConns, NEW k \in Connections, cc' = [cc EXCEPT ![c] = k],
           NEW n \in Int, gauge' = [gauge EXCEPT !.reqs = n], srvState' = srvState,
           IsOpen(cc[c]) <=> IsOpen(k), k.proto = cc[c].proto, ConnOk(k, CKinds[c], srvState),
           n = Cardinality(Running')
    PROVE  ConnInv'
<1>1. /\ gauge' \in [conns : [Protos -> Int], reqs : Int, wg : Int]
      /\ gauge'.reqs = n /\ gauge'.wg = gauge.wg /\ gauge.wg \in Int
      /\ \A q \in Protos : gauge'.conns[q] = gauge.conns[q] /\ gauge.conns[q] \in Int
  BY DEF ConnInv, Typed
<1>2. \A q \in Protos : gauge'.conns[q] = gauge.conns[q]
                  - (IF IsOpen(cc[c]) /\ cc[c].proto = q THEN 1 ELSE 0)
                  + (IF IsOpen(k) /\ k.proto = q THEN 1 ELSE 0)
  BY <1>1
<1>3. gauge'.wg = gauge.wg
                - (IF IsOpen(cc[c]) THEN 1 ELSE 0) + (IF IsOpen(k) THEN 1 ELSE 0)
  BY <1>1
<1> QED
  BY <1>1, <1>2, <1>3, Kept

\* The steps before a connection has a protocol.
LEMMA EarlySteps ==
    ASSUME ConnInv, NEW c \in CConns, Accept(c) \/ ServeStart(c) \/ Handshake(c) \/ BeginLoop(c)
    PROVE  ConnInv'
<1>1. /\ Typed /\ ConnOk(cc[c], CKinds[c], srvState)
      /\ CKinds[c] \in {"http", "https"}
      /\ cc[c].late \in Nat /\ cc[c].left \in Nat
  BY ClientConnAssumption DEF ConnInv, ConnsOk, Typed, Connections
<1>2. CASE Accept(c)
  <2> DEFINE k == [cc[c] EXCEPT !.pc = "accepted"]
  <2>1. k.pc = "accepted" /\ k.proto = cc[c].proto /\ k.left = cc[c].left
        /\ k.active = cc[c].active /\ k.late = cc[c].late /\ k.finished = cc[c].finished
    BY <1>1, NewPc DEF Pcs
  <2> HIDE DEF k
  <2>2. ConnOk(k, CKinds[c], srvState) /\ (IsOpen(cc[c]) <=> IsOpen(k))
    BY <1>1, <1>2, <2>1 DEF Accept, ConnOk, IsOpen
  <2> QED
    BY <1>2, <2>2, GoesOn DEF Accept, Pcs, k
<1>3. CASE ServeStart(c)
  <2>1. PICK x \in {"finish", "handshake", "first"} : Goto(c, x)
    BY <1>3 DEF ServeStart
  <2> DEFINE k == [cc[c] EXCEPT !.pc = x]
  <2>2. /\ k \in Connections /\ k.pc = x /\ k.proto = cc[c].proto /\ k.left = cc[c].left
        /\ k.active = cc[c].active /\ k.late = cc[c].late /\ k.finished = cc[c].finished
    BY <1>1, NewPc DEF Pcs
  <2>3. cc' = [cc EXCEPT ![c] = k]
    BY <2>1 DEF Goto
  <2> HIDE DEF k
  <2>4. /\ ConnOk(k, CKinds[c], srvState) /\ ~IsOpen(cc[c]) /\ IsOpen(k)
        /\ k.proto = "none" /\ cc[c].proto = "none"
    BY <1>1, <1>3, <2>2 DEF ServeStart, ConnOk, IsOpen
  <2>5. Running' = Running
    BY <1>1, <2>2, <2>3, SameRunning
  <2>6. /\ gauge' \in [conns : [Protos -> Int], reqs : Int, wg : Int]
        /\ gauge'.reqs = gauge.reqs /\ gauge'.wg = gauge.wg + 1 /\ gauge.wg \in Int
        /\ \A q \in Protos : gauge'.conns[q] = gauge.conns[q] /\ gauge.conns[q] \in Int
    BY <1>1, <1>3 DEF Typed, ServeStart
  <2>7. \A q \in Protos : q # "none"
    BY DEF Protos
  <2>8. gauge'.reqs = Cardinality(Running')
    BY <2>5, <2>6 DEF ConnInv, Counts
  <2>9. \A q \in Protos : gauge'.conns[q] = gauge.conns[q]
                  - (IF IsOpen(cc[c]) /\ cc[c].proto = q THEN 1 ELSE 0)
                  + (IF IsOpen(k) /\ k.proto = q THEN 1 ELSE 0)
    BY <2>4, <2>6, <2>7
  <2>10. gauge'.wg = gauge.wg
                - (IF IsOpen(cc[c]) THEN 1 ELSE 0) + (IF IsOpen(k) THEN 1 ELSE 0)
    BY <2>4, <2>6
  <2>11. srvState' = srvState
    BY <1>3 DEF ServeStart
  <2> QED
    BY <2>2, <2>3, <2>4, <2>6, <2>8, <2>9, <2>10, <2>11, Kept
<1>4. ASSUME NEW x \in {"finish", "first"}, cc[c].pc = "handshake", Goto(c, x),
             UNCHANGED <<gauge, srvState>>
      PROVE  ConnInv'
  <2> DEFINE k == [cc[c] EXCEPT !.pc = x]
  <2>1. k.pc = x /\ k.proto = cc[c].proto /\ k.left = cc[c].left
        /\ k.active = cc[c].active /\ k.late = cc[c].late /\ k.finished = cc[c].finished
    BY <1>1, NewPc DEF Pcs
  <2> HIDE DEF k
  <2>2. ConnOk(k, CKinds[c], srvState) /\ (IsOpen(cc[c]) <=> IsOpen(k))
    BY <1>1, <1>4, <2>1 DEF ConnOk, IsOpen
  <2> QED
    BY <1>4, <2>2, GoesOn DEF Pcs, k
<1>5. ASSUME NEW x \in {"proto", "read"}, NEW p \in Protos, x = "read" => p = CKinds[c],
             cc[c].pc \in {"handshake", "first"},
             cc' = [cc EXCEPT ![c] = [cc[c] EXCEPT !.pc = x, !.proto = p]],
             gauge' = Counted(c, p), srvState' = srvState
      PROVE  ConnInv'
  <2> DEFINE k == [cc[c] EXCEPT !.pc = x, !.proto = p]
  <2>1. k.pc = x /\ k.proto = p /\ k.left = cc[c].left
        /\ k.active = cc[c].active /\ k.late = cc[c].late /\ k.finished = cc[c].finished
    BY <1>1 DEF Typed, Connections
  <2>2. cc' = [cc EXCEPT ![c] = k]
    BY <1>5
  <2> HIDE DEF k
  <2>3. ConnOk(k, CKinds[c], srvState) /\ IsOpen(cc[c]) /\ IsOpen(k)
    BY <1>1, <1>5, <2>1 DEF ConnOk, IsOpen
  <2> QED
    BY <1>5, <2>2, <2>3, Handed DEF Pcs, k
<1>6. CASE Handshake(c)
  BY <1>4, <1>5, <1>6 DEF Handshake, Protos
<1>7. CASE BeginLoop(c)
  BY <1>1, <1>5, <1>7 DEF BeginLoop, Protos
<1> QED
  BY <1>2, <1>3, <1>6, <1>7

\* The steps of the loop of HTTP/1 requests.
LEMMA LoopSteps ==
    ASSUME ConnInv, NEW c \in CConns, readRequest(c) \/ WriteHeader(c) \/ serveRequest(c) \/ ProtoEnds(c)
    PROVE  ConnInv'
<1>1. /\ Typed /\ ConnOk(cc[c], CKinds[c], srvState)
      /\ CKinds[c] \in {"http", "https"}
      /\ cc[c] \in Connections
      /\ cc[c].late \in Nat /\ cc[c].left \in 0 .. CRequests
      /\ cc[c].active \subseteq 1 .. CRequests /\ CRequests \in Nat
  BY ClientConnAssumption DEF ConnInv, ConnsOk, Typed, Connections
<1>2. gauge.reqs = Cardinality(Running) /\ gauge.reqs \in Int
  BY DEF ConnInv, Counts, Typed
<1>3. ASSUME NEW x \in {"finish", "keep", "close"}, Goto(c, x), UNCHANGED <<gauge, srvState>>,
             cc[c].pc \in {"read", "request", "keep", "close", "proto"},
             x # "finish" => cc[c].pc = "request",
             x = "keep" => srvState = "up"
      PROVE  ConnInv'
  <2> DEFINE k == [cc[c] EXCEPT !.pc = x]
  <2>1. k.pc = x /\ k.proto = cc[c].proto /\ k.left = cc[c].left
        /\ k.active = cc[c].active /\ k.late = cc[c].late /\ k.finished = cc[c].finished
    BY <1>1, NewPc DEF Pcs
  <2> HIDE DEF k
  <2>2. ConnOk(k, CKinds[c], srvState) /\ (IsOpen(cc[c]) <=> IsOpen(k))
    BY <1>1, <1>3, <2>1 DEF ConnOk, IsOpen
  <2> QED
    BY <1>3, <2>2, GoesOn DEF Pcs, k
<1>4. CASE WriteHeader(c)
  <2>1. PICK verdict \in {"keep", "close"} : Goto(c, IF SaysClose THEN "close" ELSE verdict)
    BY <1>4 DEF WriteHeader
  <2>2. PICK x \in {"keep", "close"} : Goto(c, x) /\ (x = "keep" => srvState = "up")
    BY <2>1 DEF SaysClose
  <2> QED
    BY <1>3, <1>4, <2>2 DEF WriteHeader
<1>5. CASE ProtoEnds(c)
  BY <1>3, <1>5 DEF ProtoEnds
<1>6. CASE readRequest(c)
  <2>1. CASE Goto(c, "finish") /\ UNCHANGED gauge
    BY <1>3, <1>6, <2>1 DEF readRequest
  <2>2. CASE /\ cc' = [cc EXCEPT ![c] = [cc[c] EXCEPT !.pc = "proto", !.proto = "ws"]]
             /\ gauge' = Counted(c, "ws")
    <3> DEFINE k == [cc[c] EXCEPT !.pc = "proto", !.proto = "ws"]
    <3>1. k.pc = "proto" /\ k.proto = "ws" /\ k.left = cc[c].left
          /\ k.active = cc[c].active /\ k.late = cc[c].late /\ k.finished = cc[c].finished
      BY <1>1 DEF Typed, Connections
    <3>2. cc' = [cc EXCEPT ![c] = k] /\ cc[c].pc = "read" /\ srvState' = srvState
      BY <1>6, <2>2 DEF readRequest
    <3> HIDE DEF k
    <3>3. ConnOk(k, CKinds[c], srvState) /\ IsOpen(cc[c]) /\ IsOpen(k)
      BY <1>1, <3>1, <3>2 DEF ConnOk, IsOpen
    <3> QED
      BY <2>2, <3>2, <3>3, Handed DEF Pcs, Protos, k
  <2>3. CASE /\ cc[c].left > 0
             /\ cc' = [cc EXCEPT ![c] = [cc[c] EXCEPT
                    !.pc = "request", !.first = FALSE, !.left = cc[c].left - 1,
                    !.active = cc[c].active \cup {cc[c].left},
                    !.late = cc[c].late + (IF srvState = "up" THEN 0 ELSE 1)]]
             /\ gauge' = [gauge EXCEPT !.reqs = @ + 1]
    <3> DEFINE k == [cc[c] EXCEPT !.pc = "request", !.first = FALSE, !.left = cc[c].left - 1,
                       !.active = cc[c].active \cup {cc[c].left},
                       !.late = cc[c].late + (IF srvState = "up" THEN 0 ELSE 1)]
    <3>1. /\ k \in Connections
          /\ k.pc = "request" /\ k.proto = cc[c].proto /\ k.left = cc[c].left - 1
          /\ k.active = cc[c].active \cup {cc[c].left} /\ k.finished = cc[c].finished
          /\ k.late = cc[c].late + (IF srvState = "up" THEN 0 ELSE 1)
      <4>1. /\ cc[c].left - 1 \in 0 .. CRequests /\ cc[c].left \in 1 .. CRequests
            /\ cc[c].late + (IF srvState = "up" THEN 0 ELSE 1) \in Nat
        BY <1>1, <2>3
      <4>2. cc[c].active \cup {cc[c].left} \in SUBSET (1 .. CRequests)
        BY <1>1, <4>1
      <4> QED
        BY <1>1, <4>1, <4>2 DEF Connections, Pcs
    <3>2. cc' = [cc EXCEPT ![c] = k] /\ cc[c].pc = "read" /\ srvState' = srvState
      BY <1>6, <2>3 DEF readRequest
    <3> HIDE DEF k
    <3>3. cc[c].left \notin cc[c].active /\ cc[c].left \in 1 .. CRequests
      BY <1>1, <2>3 DEF ConnOk
    <3>4. Cardinality(Running') = gauge.reqs + 1
      BY <1>1, <1>2, <3>1, <3>2, <3>3, Started
    <3>5. ConnOk(k, CKinds[c], srvState) /\ (IsOpen(cc[c]) <=> IsOpen(k))
      BY <1>1, <3>1, <3>2 DEF ConnOk, IsOpen
    <3>6. gauge' = [gauge EXCEPT !.reqs = gauge.reqs + 1] /\ gauge.reqs + 1 \in Int
      BY <1>2, <2>3
    <3> QED
      BY <3>1, <3>2, <3>4, <3>5, <3>6, Served
  <2> QED
    BY <1>6, <2>1, <2>2, <2>3 DEF readRequest
<1>7. CASE serveRequest(c)
  <2>1. CASE Goto(c, "finish") /\ UNCHANGED gauge
    BY <1>3, <1>7, <2>1 DEF serveRequest
  <2>2. CASE /\ cc' = [cc EXCEPT ![c] = [cc[c] EXCEPT !.pc = IF cc[c].pc = "keep" THEN "read" ELSE "finish",
                                                      !.active = cc[c].active \ {cc[c].left + 1}]]
             /\ gauge' = [gauge EXCEPT !.reqs = @ - 1]
    <3> DEFINE k == [cc[c] EXCEPT !.pc = IF cc[c].pc = "keep" THEN "read" ELSE "finish",
                                  !.active = cc[c].active \ {cc[c].left + 1}]
    <3>1. /\ k \in Connections
          /\ k.pc = (IF cc[c].pc = "keep" THEN "read" ELSE "finish")
          /\ k.proto = cc[c].proto /\ k.left = cc[c].left
          /\ k.active = cc[c].active \ {cc[c].left + 1} /\ k.finished = cc[c].finished
          /\ k.late = cc[c].late
      BY <1>1 DEF Connections, Pcs
    <3>2. cc' = [cc EXCEPT ![c] = k] /\ cc[c].pc \in {"keep", "close"} /\ srvState' = srvState
      BY <1>7, <2>2 DEF serveRequest
    <3> HIDE DEF k
    <3>3. cc[c].left + 1 \in cc[c].active
      BY <1>1, <3>2 DEF ConnOk
    <3>4. Cardinality(Running') = gauge.reqs - 1
      BY <1>1, <1>2, <3>1, <3>2, <3>3, Ended
    <3>5. ConnOk(k, CKinds[c], srvState) /\ (IsOpen(cc[c]) <=> IsOpen(k))
      BY <1>1, <3>1, <3>2 DEF ConnOk, IsOpen
    <3>6. gauge' = [gauge EXCEPT !.reqs = gauge.reqs - 1] /\ gauge.reqs - 1 \in Int
      BY <1>2, <2>2
    <3> QED
      BY <3>1, <3>2, <3>4, <3>5, <3>6, Served
  <2> QED
    BY <1>7, <2>1, <2>2 DEF serveRequest
<1> QED
  BY <1>4, <1>5, <1>6, <1>7

\* The streams of a multiplexed connection.
LEMMA StreamSteps ==
    ASSUME ConnInv, NEW c \in CConns, StreamStarts(c) \/ StreamEnds(c)
    PROVE  ConnInv'
<1>1. /\ Typed /\ ConnOk(cc[c], CKinds[c], srvState)
      /\ CKinds[c] \in {"http", "https"}
      /\ cc[c] \in Connections
      /\ cc[c].late \in Nat /\ cc[c].left \in 0 .. CRequests
      /\ cc[c].active \subseteq 1 .. CRequests /\ CRequests \in Nat
  BY ClientConnAssumption DEF ConnInv, ConnsOk, Typed, Connections
<1>2. gauge.reqs = Cardinality(Running) /\ gauge.reqs \in Int
  BY DEF ConnInv, Counts, Typed
<1>3. CASE StreamStarts(c)
  <2> DEFINE k == [cc[c] EXCEPT !.left = cc[c].left - 1, !.active = cc[c].active \cup {cc[c].left}]
  <2>1. /\ k \in Connections
        /\ k.pc = cc[c].pc /\ k.proto = cc[c].proto /\ k.left = cc[c].left - 1
        /\ k.active = cc[c].active \cup {cc[c].left} /\ k.finished = cc[c].finished
        /\ k.late = cc[c].late
    <3>1. cc[c].left - 1 \in 0 .. CRequests /\ cc[c].left \in 1 .. CRequests
      BY <1>1, <1>3 DEF StreamStarts
    <3>2. cc[c].active \cup {cc[c].left} \in SUBSET (1 .. CRequests)
      BY <1>1, <3>1
    <3> QED
      BY <1>1, <3>1, <3>2 DEF Connections
  <2>2. cc' = [cc EXCEPT ![c] = k] /\ cc[c].pc = "proto" /\ srvState' = srvState
    BY <1>3 DEF StreamStarts
  <2> HIDE DEF k
  <2>3. cc[c].left \notin cc[c].active /\ cc[c].left \in 1 .. CRequests
    BY <1>1, <1>3 DEF ConnOk, StreamStarts
  <2>4. Cardinality(Running') = gauge.reqs + 1
    BY <1>1, <1>2, <2>1, <2>2, <2>3, Started
  <2>5. ConnOk(k, CKinds[c], srvState) /\ (IsOpen(cc[c]) <=> IsOpen(k))
    BY <1>1, <2>1, <2>2 DEF ConnOk, IsOpen
  <2>6. gauge' = [gauge EXCEPT !.reqs = gauge.reqs + 1] /\ gauge.reqs + 1 \in Int
    BY <1>2, <1>3 DEF StreamStarts
  <2> QED
    BY <2>1, <2>2, <2>4, <2>5, <2>6, Served
<1>4. CASE StreamEnds(c)
  <2>1. PICK i \in cc[c].active : cc' = [cc EXCEPT ![c].active = @ \ {i}]
    BY <1>4 DEF StreamEnds
  <2> DEFINE k == [cc[c] EXCEPT !.active = @ \ {i}]
  <2>2. /\ k \in Connections
        /\ k.pc = cc[c].pc /\ k.proto = cc[c].proto /\ k.left = cc[c].left
        /\ k.active = cc[c].active \ {i} /\ k.finished = cc[c].finished
        /\ k.late = cc[c].late
    BY <1>1 DEF Connections
  <2>3. cc' = [cc EXCEPT ![c] = k] /\ cc[c].proto = "h2" /\ srvState' = srvState
    BY <1>4, <2>1 DEF StreamEnds
  <2> HIDE DEF k
  <2>4. Cardinality(Running') = gauge.reqs - 1
    BY <1>1, <1>2, <2>2, <2>3, Ended
  <2>5. ConnOk(k, CKinds[c], srvState) /\ (IsOpen(cc[c]) <=> IsOpen(k))
    BY <1>1, <2>2, <2>3 DEF ConnOk, IsOpen
  <2>6. gauge' = [gauge EXCEPT !.reqs = gauge.reqs - 1] /\ gauge.reqs - 1 \in Int
    BY <1>2, <1>4 DEF StreamEnds
  <2> QED
    BY <2>2, <2>3, <2>4, <2>5, <2>6, Served
<1> QED
  BY <1>3, <1>4

\* The deferred calls of serve.
LEMMA FinishStep ==
    ASSUME ConnInv, NEW c \in CConns, finish(c)
    PROVE  ConnInv'
<1>1. /\ Typed /\ ConnOk(cc[c], CKinds[c], srvState)
      /\ cc[c] \in Connections /\ cc[c].pc = "finish"
      /\ cc[c].late \in Nat /\ cc[c].left \in Nat /\ cc[c].finished \in Nat
  BY DEF ConnInv, ConnsOk, Typed, Connections, finish
<1> DEFINE k == [cc[c] EXCEPT !.pc = "closed", !.finished = cc[c].finished + 1]
<1>2. /\ k \in Connections
      /\ k.pc = "closed" /\ k.proto = cc[c].proto /\ k.left = cc[c].left
      /\ k.active = cc[c].active /\ k.finished = cc[c].finished + 1
      /\ k.late = cc[c].late
  <2>1. cc[c].finished + 1 \in Nat
    BY <1>1
  <2> QED
    BY <1>1, <2>1 DEF Connections, Pcs
<1>3. cc' = [cc EXCEPT ![c] = k] /\ srvState' = srvState
  BY DEF finish
<1> HIDE DEF k
<1>4. ConnOk(k, CKinds[c], srvState) /\ IsOpen(cc[c]) /\ ~IsOpen(k)
  BY <1>1, <1>2 DEF ConnOk, IsOpen
<1>5. Running' = Running
  BY <1>1, <1>2, <1>3, SameRunning
<1>6. PICK g : g = Counted(c, "none")
  OBVIOUS
<1>7. /\ g \in [conns : [Protos -> Int], reqs : Int, wg : Int]
      /\ g.reqs = gauge.reqs /\ g.wg = gauge.wg /\ g.wg \in Int
      /\ \A q \in Protos : gauge.conns[q] \in Int
      /\ \A q \in Protos : g.conns[q] = gauge.conns[q]
           + (IF q = "none" THEN 1 ELSE 0) - (IF q = cc[c].proto THEN 1 ELSE 0)
  BY <1>1, <1>6, CountedAs
<1>8. gauge' = [g EXCEPT !.wg = @ - 1]
  BY <1>6 DEF finish
<1>9. /\ gauge' \in [conns : [Protos -> Int], reqs : Int, wg : Int]
      /\ gauge'.reqs = gauge.reqs /\ gauge'.wg = gauge.wg - 1 /\ gauge'.conns = g.conns
  BY <1>7, <1>8
<1>10. gauge'.reqs = Cardinality(Running')
  BY <1>5, <1>9 DEF ConnInv, Counts
<1>11. \A q \in Protos : q # "none"
  BY DEF Protos
<1>12. \A q \in Protos : gauge'.conns[q] = gauge.conns[q]
                  - (IF IsOpen(cc[c]) /\ cc[c].proto = q THEN 1 ELSE 0)
                  + (IF IsOpen(k) /\ k.proto = q THEN 1 ELSE 0)
  BY <1>4, <1>7, <1>9, <1>11
<1>13. gauge'.wg = gauge.wg
                - (IF IsOpen(cc[c]) THEN 1 ELSE 0) + (IF IsOpen(k) THEN 1 ELSE 0)
  BY <1>4, <1>7, <1>9
<1> QED
  BY <1>2, <1>3, <1>4, <1>9, <1>10, <1>12, <1>13, Kept

\* The invariant holds at first.
LEMMA InitInv == ConnInit => ConnInv
<1> SUFFICES ASSUME ConnInit PROVE ConnInv
  OBVIOUS
<1>1. Typed
  BY ClientConnAssumption DEF ConnInit, Typed, Connections, Pcs
<1>2. ConnsOk
  BY DEF ConnInit, ConnsOk, ConnOk
<1>3. Open = {} /\ Running = {} /\ \A p : OpenAs(p) = {}
  BY DEF ConnInit, Open, OpenAs, Running
<1>4. Counts
  BY <1>3, FS_EmptySet DEF ConnInit, Counts
<1> QED
  BY <1>1, <1>2, <1>4 DEF ConnInv

\* Every step keeps it.
LEMMA Inductive == ConnInv /\ [ConnNext]_connVars => ConnInv'
<1> SUFFICES ASSUME ConnInv, [ConnNext]_connVars PROVE ConnInv'
  OBVIOUS
<1>1. ASSUME UNCHANGED <<cc, gauge>>,
             srvState' \in {"up", "notified", "closed", "success", "timeout"},
             srvState' = "up" => srvState = "up"
      PROVE  ConnInv'
  <2>1. Typed' /\ Counts'
    BY <1>1 DEF ConnInv, Typed, Counts, Open, OpenAs, Running
  <2>2. ConnsOk'
    BY <1>1 DEF ConnInv, ConnsOk, ConnOk
  <2> QED
    BY <2>1, <2>2 DEF ConnInv
<1>2. CASE ShutdownHandler
  BY <1>1, <1>2 DEF ShutdownHandler
<1>3. CASE UNCHANGED connVars
  BY <1>1, <1>3 DEF connVars, ConnInv, Typed
<1>4. ASSUME NEW c \in CConns,
             \/ Accept(c) \/ ServeStart(c) \/ Handshake(c) \/ BeginLoop(c) \/ readRequest(c)
             \/ WriteHeader(c) \/ serveRequest(c) \/ StreamStarts(c) \/ StreamEnds(c)
             \/ ProtoEnds(c) \/ finish(c)
      PROVE  ConnInv'
  BY <1>4, EarlySteps, LoopSteps, StreamSteps, FinishStep
<1> QED
  BY <1>2, <1>3, <1>4 DEF ConnNext

-----------------------------------------------------------------------------
(* The theorems.                                                           *)

\* Connections, gauges and the state of the server (conn.serve, BfeServer)
\* keep their types; in particular no gauge ever falls below zero.
THEOREM TypeCorrect == ConnSpec => []ConnTypeOK
<1>1. ConnInv => ConnTypeOK
  <2> SUFFICES ASSUME ConnInv PROVE ConnTypeOK
    OBVIOUS
  <2>1. /\ Cardinality(Open) \in Nat /\ Cardinality(Running) \in Nat
        /\ \A p : Cardinality(OpenAs(p)) \in Nat
    BY Finite, FS_CardinalityType
  <2>2. gauge.wg \in Nat /\ gauge.reqs \in Nat /\ \A p \in Protos : gauge.conns[p] \in Nat
    BY <2>1 DEF ConnInv, Counts
  <2> QED
    BY <2>2 DEF ConnInv, Typed, ConnTypeOK
<1> QED
  BY InitInv, Inductive, <1>1, PTL DEF ConnSpec

\* However accepts, handshakes, upgrades, panics, streams that outlive their
\* connection and a shutdown interleave, the gauges of http_conn.go are the
\* connections and requests there are, each connection is finished once, and
\* none serves more than one request once the shutdown has begun.
THEOREM ConnectionsCounted == ConnSpec => []ConnectionsSound
<1>1. ConnInv => ConnectionsSound
  BY DEF ConnInv, Counts, ConnsOk, ConnOk, ConnectionsSound, GaugesExact, DrainsConnections
<1> QED
  BY InitInv, Inductive, <1>1, PTL DEF ConnSpec

-----------------------------------------------------------------------------
(* Sequences of messages.                                                  *)

IsSeq(s) == \E S : s \in Seq(S)

LEMMA UnitSeq ==
    ASSUME NEW a
    PROVE  IsSeq(<<a>>) /\ Elems(<<a>>) = {a} /\ <<a>> # <<>> /\ Head(<<a>>) = a
<1>1. <<a>> \in Seq({a})
  OBVIOUS
<1>2. <<a>> # <<>> /\ Head(<<a>>) = a
  OBVIOUS
<1>3. Elems(<<a>>) = {a}
  BY DEF Elems
<1> QED
  BY <1>1, <1>2, <1>3 DEF IsSeq

LEMMA NoneSeq == IsSeq(<<>>) /\ Elems(<<>>) = {}
<1>1. <<>> \in Seq({})
  OBVIOUS
<1>2. Elems(<<>>) = {}
  BY DEF Elems
<1> QED
  BY <1>1, <1>2 DEF IsSeq

LEMMA ConcatSeq ==
    ASSUME NEW s, NEW t, IsSeq(s), IsSeq(t)
    PROVE  /\ IsSeq(s \o t) /\ Elems(s \o t) = Elems(s) \cup Elems(t)
           /\ s # <<>> => s \o t # <<>> /\ Head(s \o t) = Head(s)
<1>1. PICK S : s \in Seq(S)
  BY DEF IsSeq
<1>2. PICK T : t \in Seq(T)
  BY DEF IsSeq
<1>3. s \in Seq(S \cup T) /\ t \in Seq(S \cup T)
  BY <1>1, <1>2
<1>4. /\ s \o t \in Seq(S \cup T) /\ Len(s \o t) = Len(s) + Len(t)
      /\ \A i \in 1 .. Len(s) + Len(t) : (s \o t)[i] = IF i <= Len(s) THEN s[i] ELSE t[i - Len(s)]
  BY <1>3
<1>5. /\ DOMAIN s = 1 .. Len(s) /\ DOMAIN t = 1 .. Len(t) /\ DOMAIN (s \o t) = 1 .. Len(s) + Len(t)
      /\ Len(s) \in Nat /\ Len(t) \in Nat
  BY <1>3, <1>4
<1>6. ASSUME NEW x \in Elems(s \o t) PROVE x \in Elems(s) \cup Elems(t)
  <2>1. PICK i \in 1 .. Len(s) + Len(t) : x = (s \o t)[i]
    BY <1>5, <1>6 DEF Elems
  <2>2. CASE i <= Len(s)
    BY <2>1, <2>2, <1>4, <1>5 DEF Elems
  <2>3. CASE ~(i <= Len(s))
    <3>1. i - Len(s) \in 1 .. Len(t)
      BY <2>3, <1>5
    <3> QED
      BY <2>1, <2>3, <3>1, <1>4, <1>5 DEF Elems
  <2> QED
    BY <2>2, <2>3
<1>7. ASSUME NEW x \in Elems(s) PROVE x \in Elems(s \o t)
  <2>1. PICK i \in 1 .. Len(s) : x = s[i]
    BY <1>5, <1>7 DEF Elems
  <2>2. i \in 1 .. Len(s) + Len(t) /\ i <= Len(s)
    BY <1>5
  <2>3. x = (s \o t)[i]
    BY <2>1, <2>2, <1>4
  <2> QED
    BY <2>2, <2>3, <1>5 DEF Elems
<1>8. ASSUME NEW x \in Elems(t) PROVE x \in Elems(s \o t)
  <2>1. PICK i \in 1 .. Len(t) : x = t[i]
    BY <1>5, <1>8 DEF Elems
  <2>2. i + Len(s) \in 1 .. Len(s) + Len(t) /\ ~(i + Len(s) <= Len(s)) /\ (i + Len(s)) - Len(s) = i
    BY <1>5
  <2>3. x = (s \o t)[i + Len(s)]
    BY <2>1, <2>2, <1>4
  <2> QED
    BY <2>2, <2>3, <1>5 DEF Elems
<1>9. Elems(s \o t) = Elems(s) \cup Elems(t)
  BY <1>6, <1>7, <1>8
<1>10. ASSUME s # <<>> PROVE s \o t # <<>> /\ Head(s \o t) = Head(s)
  <2>1. Len(s) # 0
    BY <1>10, <1>1
  <2>2. 1 \in 1 .. Len(s) /\ 1 \in 1 .. Len(s) + Len(t)
    BY <2>1, <1>5
  <2>3. (s \o t)[1] = s[1] /\ Len(s \o t) # 0
    BY <2>1, <2>2, <1>4, <1>5
  <2> QED
    BY <2>3, <1>3, <1>4, <1>10
<1> QED
  BY <1>4, <1>9, <1>10 DEF IsSeq

\* A set of numbers has a least one.
LEMMA LeastNumber ==
    ASSUME NEW S \in SUBSET Nat, S # {}
    PROVE  \E x \in S : \A y \in S : x <= y
<1> DEFINE R == {ss \in Nat \X Nat : ss[1] < ss[2]}
<1>1. IsWellFoundedOn(R, Nat)
  BY NatLessThanWellFounded DEF OpToRel
<1>2. PICK x \in S : \A y \in S : ~(<<y, x>> \in R)
  <2> HIDE DEF R
  <2> QED
    BY <1>1, WFMin
<1>3. \A y \in S : x <= y
  <2> TAKE y \in S
  <2>1. x \in Nat /\ y \in Nat /\ ~(<<y, x>> \in R)
    BY <1>2
  <2> QED
    BY <2>1
<1> QED
  BY <1>3

LEMMA FirstInIs ==
    ASSUME NEW s, NEW S, DOMAIN s \subseteq Nat, FirstIn(s, S) # Nil
    PROVE  FirstIn(s, S) \in S
<1> DEFINE D == {i \in DOMAIN s : s[i] \in S}
<1>1. D # {}
  BY DEF FirstIn, Elems
<1>2. PICK i \in D : \A j \in D : i <= j
  <2>1. D \in SUBSET Nat
    OBVIOUS
  <2> QED
    BY <1>1, <2>1, LeastNumber
<1>3. \E k \in DOMAIN s : s[k] \in S /\ \A j \in DOMAIN s : s[j] \in S => k <= j
  BY <1>2
<1>4. Elems(s) \cap S # {}
  BY <1>1 DEF Elems
<1> QED
  BY <1>3, <1>4 DEF FirstIn

-----------------------------------------------------------------------------
(* The suite and version of a handshake.                                   *)

\* What the configuration says of a suite at a version.
SuiteAllowed(conf, id, vers) ==
    /\ id \in Elems(conf.suites)
    /\ vers < 3 => "tls12" \notin Flags[id]
    /\ "chacha" \in Flags[id] => conf.chacha
    /\ "rc4" \in Flags[id] => checkCipherGrade(conf, vers) # "disable"

LEMMA ConfTyped ==
    ASSUME NEW conf \in TlsConfs
    PROVE  /\ conf.minVersion \in 0 .. 3 /\ conf.maxVersion \in 0 .. 3
           /\ DOMAIN conf.suites \subseteq Nat
<1>1. conf.minVersion \in 0 .. 3 /\ conf.maxVersion \in 0 .. 3 /\ conf.suites \in Seq(DOMAIN Flags)
  BY TlsAssumption
<1>2. DOMAIN conf.suites = 1 .. Len(conf.suites)
  BY <1>1
<1> QED
  BY <1>1, <1>2

LEMMA MutualVersion ==
    ASSUME NEW conf \in TlsConfs, NEW v \in Nat, mutualVersion(conf, v) # Nil
    PROVE  /\ mutualVersion(conf, v) \in 0 .. 3
           /\ mutualVersion(conf, v) <= v
           /\ \A u \in Nat : u <= v /\ mutualVersion(conf, u) = u => u <= mutualVersion(conf, v)
<1>1. conf.minVersion \in 0 .. 3 /\ conf.maxVersion \in 0 .. 3
  BY ConfTyped
<1>2. Nil \notin Nat
  BY TlsAssumption
<1> QED
  BY <1>1, <1>2 DEF mutualVersion

LEMMA PickedAllowed ==
    ASSUME NEW conf \in TlsConfs, NEW hello, DOMAIN hello.suites \subseteq Nat,
           NEW h, h = Negotiated(conf, hello), h.vers # Nil,
           pickSuite(h, conf, hello, h.vers) # Nil
    PROVE  SuiteAllowed(conf, pickSuite(h, conf, hello, h.vers), h.vers)
<1> DEFINE both(x) == tryCipherSuite(x, conf, conf.suites, h.vers) \cap Elems(hello.suites)
           free == [h EXCEPT !.ellipticOk = TRUE]
           ecdhe == {id \in both(free) : CheckSuiteECDHE(id)}
           order == IF conf.preferServer THEN conf.suites ELSE hello.suites
<1>1. h.useRC4 = checkCipherGrade(conf, h.vers) /\ free.useRC4 = h.useRC4
  BY DEF Negotiated
<1>2. \A x, id : x.useRC4 = h.useRC4 /\ id \in both(x) => SuiteAllowed(conf, id, h.vers)
  BY <1>1 DEF tryCipherSuite, SuiteAllowed
<1>3. DOMAIN conf.suites \subseteq Nat
  BY ConfTyped
<1>4. CASE both(h) # {}
  <2>1. pickSuite(h, conf, hello, h.vers) = Preferred(both(h), conf, hello)
    BY <1>4 DEF pickSuite
  <2>2. PICK s, S : Preferred(both(h), conf, hello) = FirstIn(s, S) /\ DOMAIN s \subseteq Nat /\ S \subseteq both(h)
    <3> HIDE DEF both
    <3> DEFINE at == {i \in DOMAIN conf.suites : conf.suites[i] \in both(h)}
               best == {i \in at : \A j \in at : conf.priority[i] <= conf.priority[j]}
    <3>1. CASE conf.preferServer /\ Len(conf.priority) = Len(conf.suites)
      <4>1. Preferred(both(h), conf, hello) = negotiateEquivalentCipherSuites(both(h), conf, hello)
        BY <3>1 DEF Preferred
      <4>2. negotiateEquivalentCipherSuites(both(h), conf, hello) = FirstIn(hello.suites, {conf.suites[i] : i \in best})
        BY DEF negotiateEquivalentCipherSuites
      <4>3. {conf.suites[i] : i \in best} \subseteq both(h)
        OBVIOUS
      <4> QED
        BY <4>1, <4>2, <4>3
    <3>2. CASE conf.preferServer /\ ~(Len(conf.priority) = Len(conf.suites))
      BY <3>2, <1>3 DEF Preferred
    <3>3. CASE ~conf.preferServer
      BY <3>3 DEF Preferred
    <3> QED
      BY <3>1, <3>2, <3>3
  <2>3. FirstIn(s, S) \in S
    BY <2>1, <2>2, FirstInIs
  <2>4. pickSuite(h, conf, hello, h.vers) \in both(h)
    <3> HIDE DEF both
    <3> QED
      BY <2>1, <2>2, <2>3
  <2> QED
    BY <2>4, <1>2
<1>5. CASE both(h) = {}
  <2>1. pickSuite(h, conf, hello, h.vers) = FirstIn(order, ecdhe)
    BY <1>5 DEF pickSuite
  <2>2. DOMAIN order \subseteq Nat
    BY <1>3
  <2>3. FirstIn(order, ecdhe) \in ecdhe
    <3> HIDE DEF order, ecdhe
    <3> QED
      BY <2>1, <2>2, FirstInIs
  <2>4. pickSuite(h, conf, hello, h.vers) \in both(free)
    BY <2>1, <2>3
  <2> QED
    BY <2>4, <1>1, <1>2
<1> QED
  BY <1>4, <1>5

LEMMA ResumedAllowed ==
    ASSUME NEW conf \in TlsConfs, NEW hello, hello.vers \in Nat,
           NEW h, h = Negotiated(conf, hello), h.vers # Nil,
           NEW s, s # Nil => s.vers \in Nat, checkForResumption(h, conf, hello, s) # Nil
    PROVE  /\ SuiteAllowed(conf, checkForResumption(h, conf, hello, s), h.vers)
           /\ NeedsCert(conf) => s.certs # <<>>
<1>1. /\ s # Nil /\ ~(s.vers > hello.vers) /\ mutualVersion(conf, s.vers) = s.vers
      /\ s.suite \in tryCipherSuite(h, conf, conf.suites, s.vers)
      /\ ~(NeedsCert(conf) /\ s.certs = <<>>)
      /\ checkForResumption(h, conf, hello, s) = s.suite
  BY DEF checkForResumption
<1>2. h.useRC4 = checkCipherGrade(conf, h.vers) /\ h.vers = mutualVersion(conf, hello.vers)
  BY DEF Negotiated
<1>3. s.vers \in Nat /\ s.vers <= hello.vers
  BY <1>1
<1>4. h.vers \in 0 .. 3 /\ s.vers <= h.vers
  BY <1>1, <1>2, <1>3, MutualVersion
<1>5. h.vers < 3 => s.vers < 3
  BY <1>3, <1>4
<1> QED
  BY <1>1, <1>2, <1>5 DEF SuiteAllowed, tryCipherSuite

-----------------------------------------------------------------------------
(* The inductive invariant.                                                *)

\* What checkForResumption needs of a session: a version.
SessionOK(s) == s.vers \in Nat

HelloOK(m) ==
    /\ m.vers \in Nat /\ DOMAIN m.suites \subseteq Nat
    /\ m.ticketSupported /\ m.ticket # NoTicket => SessionOK(m.ticket.state)

\* The client and what it keeps.
MineOK ==
    /\ DOMAIN tlsMine = {"minVersion", "maxVersion", "suites", "curves", "points", "alpn", "npn",
                         "tickets", "cert", "session", "count"}
    /\ tlsMine.maxVersion \in Nat /\ DOMAIN tlsMine.suites \subseteq Nat
    /\ tlsMine.tickets /\ tlsMine.session # Nil => SessionOK(tlsMine.session.ticket.state)

\* What the configuration says of the client's certificates.
CertsAllowed(conf, certs) ==
    /\ NeedsCert(conf) => certs # <<>>
    /\ \A i \in DOMAIN certs : conf.ruleAuth => certs[i] \notin conf.crl /\ certs[i].ca \in conf.clientCAs

\* The server's end from its hello on.
ServerOK ==
    srv.pc \in {"exchanging", "finishing", "complete"} =>
        /\ DOMAIN srv = {"pc", "resumed", "vers", "suite", "secret", "proto", "npn", "certs", "log", "hello", "sh"}
        /\ srv.vers \in 0 .. 3 /\ SuiteAllowed(tlsConf, srv.suite, srv.vers)
        /\ srv.proto = "h2" /\ ~srv.npn => srv.vers = 3 /\ checkCipherSuiteHttp2Accepted(srv.suite)
        /\ srv.pc # "exchanging" => CertsAllowed(tlsConf, srv.certs)
        /\ srv.pc = "exchanging" => srv.resumed = FALSE
        /\ srv.pc = "finishing" => srv.resumed = TRUE
        /\ srv.sh.vers = srv.vers /\ srv.sh.suite = srv.suite
        /\ srv.npn <=> srv.sh.npn # <<>>
        /\ srv.pc # "complete" => srv.proto = srv.sh.alpn

\* The client's end from its own Finished on.
ClientOK ==
    cli.pc \in {"sent", "complete"} =>
        /\ DOMAIN cli = {"pc", "hello", "session", "sh", "vers", "suite", "secret", "resumed", "log", "proto"}
        /\ cli.vers = cli.sh.vers /\ cli.suite = cli.sh.suite
        /\ cli.pc = "sent" => cli.resumed = FALSE

\* What is on the wire: the client's hello, the server's answer to it, and a
\* ticket of the server.
WireOK ==
    /\ srv.pc = "start" /\ flight # <<>> => HelloOK(Head(flight))
    /\ cli.pc = "hello" /\ srv.pc \in {"exchanging", "finishing"} => flight # <<>> /\ Head(flight) = srv.sh
    /\ cli.pc = "sent" => \A x \in Elems(flight) : x.type = "newSessionTicket" => SessionOK(x.body.state)

\* The client has answered the hello of a server that waits for the answer:
\* the Finished on the wire is made with the client's secret, and the next
\* protocol on it is the one the client chose.
AnswerOK ==
    cli.pc \in {"sent", "complete"} /\ srv.pc \in {"exchanging", "finishing"} =>
        /\ cli.sh = srv.sh
        /\ cli.pc = "complete" => cli.resumed = TRUE
        /\ \A x \in Elems(flight) : x.type = "finished" => \E t : x.data = clientSum(cli.secret, t)
        /\ \A x \in Elems(flight) : x.type = "nextProtocol" => x.body = cli.proto
        /\ srv.npn => \E x \in Elems(flight) : x.type = "nextProtocol"
        /\ ~srv.npn => cli.proto = srv.proto

\* A server that is done agrees with a client that is, or that waits for the
\* server's Finished.
DoneOK ==
    /\ srv.pc = "complete" => cli.pc \in {"sent", "complete", "failed"}
    /\ srv.pc = "start" => cli.pc \in {"start", "hello"}
    /\ cli.pc \in {"sent", "complete"} /\ srv.pc = "complete" =>
           /\ cli.vers = srv.vers /\ cli.suite = srv.suite /\ cli.secret = srv.secret
           /\ cli.proto = srv.proto /\ cli.resumed = srv.resumed

TlsInv ==
    /\ tlsConf \in TlsConfs /\ \A e \in tlsSessions : SessionOK(e.state)
    /\ MineOK /\ ServerOK /\ ClientOK /\ WireOK /\ AnswerOK /\ DoneOK

LEMMA TlsInvInit == TlsInit => TlsInv
<1> SUFFICES ASSUME TlsInit PROVE TlsInv
  OBVIOUS
<1>1. PICK c \in TlsClients : tlsMine = [c EXCEPT !.session = Nil, !.count = 0]
  BY DEF TlsInit
<1>2. MineOK
  <2>1. /\ c.maxVersion \in 0 .. 3 /\ c.suites \in Seq(DOMAIN Flags \cup {Scsv})
        /\ DOMAIN c = {"minVersion", "maxVersion", "suites", "curves", "points", "alpn", "npn",
                       "tickets", "cert", "session", "count"}
    BY TlsAssumption
  <2>2. DOMAIN c.suites = 1 .. Len(c.suites)
    BY <2>1
  <2>3. DOMAIN tlsMine = DOMAIN c /\ tlsMine.maxVersion = c.maxVersion /\ tlsMine.suites = c.suites /\ tlsMine.session = Nil
    BY <1>1, <2>1
  <2> QED
    BY <2>1, <2>2, <2>3 DEF MineOK
<1>3. srv.pc = "start" /\ cli.pc = "start" /\ flight = <<>> /\ tlsConf \in TlsConfs /\ tlsSessions = {}
  BY DEF TlsInit, NewConn
<1>4. ServerOK /\ ClientOK /\ AnswerOK
  BY <1>3 DEF ServerOK, ClientOK, AnswerOK
<1>5. WireOK /\ DoneOK
  BY <1>3 DEF WireOK, DoneOK
<1> QED
  BY <1>2, <1>3, <1>4, <1>5 DEF TlsInv

LEMMA TlsInvSafe == TlsInv => TlsSound
<1> SUFFICES ASSUME TlsInv PROVE TlsSound
  OBVIOUS
<1>1. ResumedAsFresh
  BY DEF TlsInv, ServerOK, ResumedAsFresh, Lawful, SuiteAllowed, CertsAllowed
<1>2. EndsAgree
  BY DEF TlsInv, DoneOK, EndsAgree
<1> QED
  BY <1>1, <1>2 DEF TlsSound

-----------------------------------------------------------------------------
(* The steps.                                                              *)

LEMMA SentIs ==
    ASSUME NEW type, Sent(type) # Nil \/ \E x \in Elems(flight) : x.type = type
    PROVE  Sent(type) \in Elems(flight) /\ Sent(type).type = type
<1>1. \E i \in DOMAIN flight : flight[i].type = type
  BY DEF Sent, Elems
<1> QED
  BY <1>1 DEF Sent, Elems

LEMMA HelloStep == TlsInv /\ ClientHello => TlsInv'
<1> SUFFICES ASSUME TlsInv, ClientHello PROVE TlsInv'
  OBVIOUS
<1>0. PICK s : s = Offered(tlsMine)
  OBVIOUS
<1>1. PICK hello : /\ flight' = <<hello>> /\ cli'.pc = "hello" /\ hello.vers = tlsMine.maxVersion
                   /\ hello.suites = HelloSuites(tlsMine) /\ hello.ticketSupported = tlsMine.tickets
                   /\ hello.ticket = IF s = Nil \/ ~tlsMine.tickets THEN NoTicket ELSE s.ticket
  <2>1. PICK y : y = [type |-> "clientHello", vers |-> tlsMine.maxVersion, random |-> tlsMine.count,
                  suites |-> HelloSuites(tlsMine),
                  curves |-> tlsMine.curves, points |-> tlsMine.points, alpn |-> tlsMine.alpn, npn |-> tlsMine.npn # <<>>, ocsp |-> TRUE,
                  ticketSupported |-> tlsMine.tickets,
                  ticket |-> IF s = Nil \/ ~tlsMine.tickets THEN NoTicket ELSE s.ticket,
                  sessionId |-> IF s = Nil THEN Nil ELSE IF tlsMine.tickets THEN <<"made up", tlsMine.count>> ELSE s.ticket]
    OBVIOUS
  <2>2. flight' = <<y>> /\ cli' = [pc |-> "hello", hello |-> y, session |-> s, resumed |-> FALSE]
    BY <1>0, <2>1 DEF ClientHello
  <2>3. /\ y.vers = tlsMine.maxVersion
        /\ y.suites = HelloSuites(tlsMine) /\ y.ticketSupported = tlsMine.tickets
        /\ y.ticket = IF s = Nil \/ ~tlsMine.tickets THEN NoTicket ELSE s.ticket
    BY <2>1
  <2>4. cli'.pc = "hello"
    BY <2>2
  <2> QED
    BY <2>2, <2>3, <2>4
<1>2. srv.pc = "start" /\ srv' = srv /\ UNCHANGED <<tlsConf, tlsSessions, tlsMine>>
  BY DEF ClientHello
<1>3. HelloOK(hello)
  <2>1. DOMAIN HelloSuites(tlsMine) \subseteq DOMAIN tlsMine.suites
    BY DEF HelloSuites
  <2>2. s # Nil => s = tlsMine.session
    BY <1>0 DEF Offered
  <2> QED
    BY <1>1, <2>1, <2>2 DEF HelloOK, TlsInv, MineOK
<1>4. Head(flight') = hello
  BY <1>1
<1>5. MineOK' /\ ServerOK' /\ ClientOK' /\ AnswerOK' /\ DoneOK'
  BY <1>1, <1>2 DEF TlsInv, MineOK, ServerOK, ClientOK, AnswerOK, DoneOK
<1>6. WireOK'
  BY <1>1, <1>2, <1>3, <1>4 DEF WireOK
<1> QED
  BY <1>2, <1>5, <1>6 DEF TlsInv

\* An end that gives up, with whatever it sends: nothing is asked of it any
\* more.
LEMMA ServerAlert ==
    ASSUME TlsInv, srv' = [pc |-> "failed"], UNCHANGED <<tlsConf, tlsSessions, tlsMine, cli>>,
           cli.pc = "sent" => \A x \in Elems(flight') : x.type # "newSessionTicket"
    PROVE  TlsInv'
<1>1. srv'.pc = "failed"
  OBVIOUS
<1>2. MineOK' /\ ServerOK' /\ ClientOK' /\ AnswerOK' /\ DoneOK'
  BY <1>1 DEF TlsInv, MineOK, ServerOK, ClientOK, AnswerOK, DoneOK
<1>3. WireOK'
  BY <1>1 DEF TlsInv, WireOK
<1> QED
  BY <1>2, <1>3 DEF TlsInv

LEMMA ClientAlert ==
    ASSUME TlsInv, cli' = [pc |-> "failed"], srv.pc # "start", UNCHANGED <<tlsConf, tlsSessions, tlsMine, srv>>
    PROVE  TlsInv'
<1>1. cli'.pc = "failed"
  OBVIOUS
<1>2. MineOK' /\ ServerOK' /\ ClientOK' /\ AnswerOK' /\ DoneOK'
  BY <1>1 DEF TlsInv, MineOK, ServerOK, ClientOK, AnswerOK, DoneOK
<1>3. WireOK'
  BY <1>1 DEF TlsInv, WireOK
<1> QED
  BY <1>2, <1>3 DEF TlsInv

LEMMA GiveUpStep == TlsInv /\ GiveUp => TlsInv'
<1> SUFFICES ASSUME TlsInv, GiveUp PROVE TlsInv'
  OBVIOUS
<1>1. Elems(flight') = {}
  BY NoneSeq DEF GiveUp
<1>2. CASE srv.pc # "failed" /\ Alert(srv) /\ UNCHANGED cli
  BY <1>1, <1>2, ServerAlert DEF GiveUp, Alert
<1>3. CASE srv.pc = "failed" /\ Alert(cli) /\ UNCHANGED srv
  BY <1>3, ClientAlert DEF GiveUp, Alert
<1> QED
  BY <1>2, <1>3 DEF GiveUp

LEMMA ReconnectStep == TlsInv /\ Reconnect => TlsInv'
<1> SUFFICES ASSUME TlsInv, Reconnect PROVE TlsInv'
  OBVIOUS
<1>1. PICK c \in TlsClients : c.tickets = tlsMine.tickets /\ tlsMine' = [c EXCEPT !.session = tlsMine.session, !.count = tlsMine.count + 1]
  BY DEF Reconnect
<1>2. MineOK'
  <2>1. /\ c.maxVersion \in 0 .. 3 /\ c.suites \in Seq(DOMAIN Flags \cup {Scsv})
        /\ DOMAIN c = {"minVersion", "maxVersion", "suites", "curves", "points", "alpn", "npn",
                       "tickets", "cert", "session", "count"}
    BY TlsAssumption
  <2>2. DOMAIN c.suites = 1 .. Len(c.suites)
    BY <2>1
  <2>3. PICK n : n = tlsMine.count + 1
    OBVIOUS
  <2>4. tlsMine' = [c EXCEPT !.session = tlsMine.session, !.count = n]
    BY <1>1, <2>3
  <2>5. /\ DOMAIN tlsMine' = DOMAIN c /\ tlsMine'.maxVersion = c.maxVersion /\ tlsMine'.suites = c.suites
        /\ tlsMine'.session = tlsMine.session /\ tlsMine'.tickets = c.tickets
    BY <2>4, <2>1
  <2> QED
    BY <1>1, <2>1, <2>2, <2>5 DEF MineOK, TlsInv
<1>3. srv'.pc = "start" /\ cli'.pc = "start" /\ flight' = <<>> /\ tlsConf' \in TlsConfs /\ tlsSessions' = tlsSessions
  BY DEF Reconnect, NewConn
<1>4. ServerOK' /\ ClientOK' /\ AnswerOK'
  BY <1>3 DEF ServerOK, ClientOK, AnswerOK
<1>5. WireOK' /\ DoneOK'
  BY <1>3 DEF WireOK, DoneOK
<1> QED
  BY <1>2, <1>3, <1>4, <1>5 DEF TlsInv

\* What AskedFor finds is a session: of a ticket, or of the cache.
LEMMA AskedIs ==
    ASSUME TlsInv, NEW hello, HelloOK(hello), AskedFor(tlsConf, hello) # Nil
    PROVE  AskedFor(tlsConf, hello).vers \in Nat
<1>1. CASE tlsConf.tickets /\ hello.ticketSupported /\ hello.ticket # NoTicket
  BY <1>1 DEF AskedFor, decryptTicket, HelloOK, SessionOK
<1>2. CASE ~(tlsConf.tickets /\ hello.ticketSupported /\ hello.ticket # NoTicket)
  <2>1. PICK e \in tlsSessions : e.id = hello.sessionId
    BY <1>2 DEF AskedFor
  <2>2. PICK f : f = CHOOSE x \in tlsSessions : x.id = hello.sessionId
    OBVIOUS
  <2>3. f \in tlsSessions
    BY <2>1, <2>2
  <2>4. AskedFor(tlsConf, hello) = f.state
    BY <1>2, <2>2 DEF AskedFor
  <2> QED
    BY <2>3, <2>4 DEF TlsInv, SessionOK
<1> QED
  BY <1>1, <1>2

\* The server's hello in both kinds of handshake.
LEMMA HelloOfServer ==
    ASSUME NEW h, NEW hello, NEW suite, NEW id, NEW ticket, h.vers \in 0 .. 3
    PROVE  LET sh == ServerHelloMsg(h, hello, suite, id, ticket)
           IN  /\ sh.vers = h.vers /\ sh.suite = suite /\ sh.npn = h.npn
               /\ sh.alpn = "h2" => h.vers = 3 /\ checkCipherSuiteHttp2Accepted(suite)
BY DEF ServerHelloMsg, validateHttp2Accepted

\* The server has answered the client's hello.
LEMMA ServerAnswers ==
    ASSUME TlsInv, srv.pc = "start", UNCHANGED <<tlsConf, tlsSessions, tlsMine, cli>>,
           ServerOK', srv'.pc \in {"exchanging", "finishing"},
           flight' # <<>>, Head(flight') = srv'.sh
    PROVE  TlsInv'
<1>1. cli.pc \in {"start", "hello"}
  BY DEF TlsInv, DoneOK
<1>2. ClientOK' /\ AnswerOK' /\ DoneOK' /\ WireOK'
  BY <1>1 DEF ClientOK, AnswerOK, DoneOK, WireOK
<1> QED
  BY <1>2 DEF TlsInv, MineOK

LEMMA ReadHelloStep == TlsInv /\ ReadClientHello => TlsInv'
<1> SUFFICES ASSUME TlsInv, ReadClientHello PROVE TlsInv'
  OBVIOUS
<1>1. PICK hello : hello = Head(flight)
  OBVIOUS
<1>2. PICK h : h = Negotiated(tlsConf, hello)
  OBVIOUS
<1>3. PICK s : s = AskedFor(tlsConf, hello)
  OBVIOUS
<1>4. PICK resume : resume = checkForResumption(h, tlsConf, hello, s)
  OBVIOUS
<1>5. PICK suite : suite = pickSuite(h, tlsConf, hello, h.vers)
  OBVIOUS
<1>6. /\ srv.pc = "start" /\ UNCHANGED <<tlsConf, tlsSessions, tlsMine, cli>> /\ flight # <<>>
      /\ \/ Alert(srv)
         \/ h.vers # Nil /\ resume # Nil /\ ResumeFlight(h, hello, s, resume)
         \/ h.vers # Nil /\ suite # Nil /\ FullFlight(h, hello, suite)
  BY <1>1, <1>2, <1>3, <1>4, <1>5 DEF ReadClientHello
<1>7. HelloOK(hello) /\ tlsConf \in TlsConfs /\ cli.pc # "sent"
  BY <1>1, <1>6 DEF TlsInv, WireOK, DoneOK
<1>8. h.vers # Nil => h.vers \in 0 .. 3
  <2>1. h.vers = mutualVersion(tlsConf, hello.vers)
    BY <1>2 DEF Negotiated
  <2> QED
    BY <2>1, <1>7, MutualVersion DEF HelloOK
<1>9. CASE Alert(srv)
  BY <1>6, <1>7, <1>9, ServerAlert DEF Alert
<1>10. CASE ~Alert(srv) /\ h.vers # Nil /\ resume # Nil /\ ResumeFlight(h, hello, s, resume)
  <2>1. SuiteAllowed(tlsConf, resume, h.vers) /\ (NeedsCert(tlsConf) => s.certs # <<>>)
    <3>1. s # Nil => s.vers \in Nat
      BY <1>3, <1>7, AskedIs
    <3> QED
      BY <1>2, <1>4, <1>7, <1>10, <3>1, ResumedAllowed DEF HelloOK
  <2>2. PICK sh : sh = ServerHelloMsg(h, hello, resume, hello.sessionId, FALSE)
    OBVIOUS
  <2>3. PICK fin : fin = Finished(serverSum(s.secret, <<hello, sh>>))
    OBVIOUS
  <2>4. PICK log : log = <<hello, sh>> \o <<fin>>
    OBVIOUS
  <2>5. /\ processCertsFromClient(tlsConf, s.certs) /\ flight' = <<sh, ChangeCipherSpec, fin>>
        /\ srv' = [pc |-> "finishing", resumed |-> TRUE, vers |-> h.vers, suite |-> resume, secret |-> s.secret,
                   proto |-> sh.alpn, npn |-> h.npn # <<>>, certs |-> s.certs, log |-> log, hello |-> hello, sh |-> sh]
    BY <1>10, <2>2, <2>3, <2>4 DEF ResumeFlight
  <2>6. flight' # <<>> /\ Head(flight') = sh
    BY <2>5
  <2>7. CertsAllowed(tlsConf, s.certs)
    BY <2>1, <2>5 DEF CertsAllowed, processCertsFromClient, clientAuth, RequireAndVerifyClientCert, VerifyClientCertIfGiven
  <2>8. h.vers \in 0 .. 3
    BY <1>8, <1>10
  <2>9. /\ sh.vers = h.vers /\ sh.suite = resume /\ sh.npn = h.npn
        /\ sh.alpn = "h2" => h.vers = 3 /\ checkCipherSuiteHttp2Accepted(resume)
    BY <2>2, <2>8 DEF ServerHelloMsg, validateHttp2Accepted
  <2>10. /\ srv'.pc = "finishing" /\ srv'.resumed = TRUE /\ srv'.vers = h.vers /\ srv'.suite = resume
         /\ srv'.proto = sh.alpn /\ srv'.npn = (h.npn # <<>>) /\ srv'.certs = s.certs /\ srv'.sh = sh
         /\ DOMAIN srv' = {"pc", "resumed", "vers", "suite", "secret", "proto", "npn", "certs", "log", "hello", "sh"}
    BY <2>5
  <2>11. ServerOK'
    BY <1>6, <2>1, <2>7, <2>8, <2>9, <2>10 DEF ServerOK
  <2> QED
    BY <1>6, <2>6, <2>10, <2>11, ServerAnswers
<1>11. CASE ~Alert(srv) /\ h.vers # Nil /\ suite # Nil /\ FullFlight(h, hello, suite)
  <2>1. SuiteAllowed(tlsConf, suite, h.vers)
    BY <1>2, <1>5, <1>7, <1>11, PickedAllowed DEF HelloOK
  <2>2. PICK id, ticket : \E sh, m2, m3, m4, m5, m6, log :
            /\ sh = ServerHelloMsg(h, hello, suite, id, ticket)
            /\ IsSeq(m3) /\ IsSeq(m4) /\ IsSeq(m5)
            /\ flight' = <<sh, m2>> \o m3 \o m4 \o m5 \o <<m6>>
            /\ srv' = [pc |-> "exchanging", resumed |-> FALSE, vers |-> h.vers, suite |-> suite, secret |-> Nil,
                       proto |-> sh.alpn, npn |-> h.npn # <<>>, certs |-> <<>>, log |-> log, hello |-> hello, sh |-> sh]
    <3>1. PICK t : t = (hello.ticketSupported /\ tlsConf.tickets)
      OBVIOUS
    <3>2. PICK i : i = IF ~t /\ tlsConf.cache THEN <<"id", hello.random>> ELSE Nil
      OBVIOUS
    <3>3. PICK sh : sh = ServerHelloMsg(h, hello, suite, i, t)
      OBVIOUS
    <3>4. PICK kx : kx = KeyExchange(tlsConf, hello, suite)
      OBVIOUS
    <3>5. PICK m2 : m2 = Msg("certificate", tlsConf.cert)
      OBVIOUS
    <3>6. PICK m3 : m3 = IF hello.ocsp /\ tlsConf.ocsp THEN <<Msg("certificateStatus", "ocsp")>> ELSE <<>>
      OBVIOUS
    <3>7. PICK m4 : m4 = IF kx = "rsa" THEN <<>> ELSE <<Msg("serverKeyExchange", <<kx, tlsConf.cert, hello.random, h.vers>>)>>
      OBVIOUS
    <3>8. PICK m5 : m5 = IF clientAuth(tlsConf) >= RequestClientCert THEN <<Msg("certificateRequest", tlsConf.clientCAs)>> ELSE <<>>
      OBVIOUS
    <3>9. PICK m6 : m6 = Msg("serverHelloDone", Nil)
      OBVIOUS
    <3>10. PICK log : log = <<hello>> \o (<<sh, m2>> \o m3 \o m4 \o m5 \o <<m6>>)
      OBVIOUS
    <3>11. /\ flight' = <<sh, m2>> \o m3 \o m4 \o m5 \o <<m6>>
           /\ srv' = [pc |-> "exchanging", resumed |-> FALSE, vers |-> h.vers, suite |-> suite, secret |-> Nil,
                      proto |-> sh.alpn, npn |-> h.npn # <<>>, certs |-> <<>>, log |-> log, hello |-> hello, sh |-> sh]
      <4>1. kx # Nil
        BY <1>11, <3>4 DEF FullFlight
      <4>2. flight' = <<sh, m2>> \o m3 \o m4 \o m5 \o <<m6>>
        BY <1>11, <4>1, <3>1, <3>2, <3>3, <3>4, <3>5, <3>6, <3>7, <3>8, <3>9 DEF FullFlight
      <4>3. srv' = [pc |-> "exchanging", resumed |-> FALSE, vers |-> h.vers, suite |-> suite, secret |-> Nil,
                    proto |-> sh.alpn, npn |-> h.npn # <<>>, certs |-> <<>>, log |-> <<hello>> \o flight', hello |-> hello, sh |-> sh]
        BY <1>11, <4>1, <3>1, <3>2, <3>3, <3>4 DEF FullFlight
      <4> QED
        BY <4>2, <4>3, <3>10
    <3>12. IsSeq(m3) /\ IsSeq(m4) /\ IsSeq(m5)
      BY <3>6, <3>7, <3>8, UnitSeq, NoneSeq
    <3> QED
      BY <3>3, <3>11, <3>12, ZenonT(30)
  <2>3. PICK sh, m2, m3, m4, m5, m6, log :
            /\ sh = ServerHelloMsg(h, hello, suite, id, ticket)
            /\ IsSeq(m3) /\ IsSeq(m4) /\ IsSeq(m5)
            /\ flight' = <<sh, m2>> \o m3 \o m4 \o m5 \o <<m6>>
            /\ srv' = [pc |-> "exchanging", resumed |-> FALSE, vers |-> h.vers, suite |-> suite, secret |-> Nil,
                       proto |-> sh.alpn, npn |-> h.npn # <<>>, certs |-> <<>>, log |-> log, hello |-> hello, sh |-> sh]
    BY <2>2
  <2>4. flight' # <<>> /\ Head(flight') = sh
    <3>2. PICK a : a = <<sh, m2>>
      OBVIOUS
    <3>1. IsSeq(a) /\ a # <<>> /\ Head(a) = sh
      <4>1. a \in Seq({sh, m2})
        BY <3>2
      <4>2. a # <<>> /\ Head(a) = sh
        BY <3>2
      <4> QED
        BY <4>1, <4>2 DEF IsSeq
    <3>3. IsSeq(a \o m3) /\ a \o m3 # <<>> /\ Head(a \o m3) = sh
      BY <3>1, <3>2, <2>3, ConcatSeq
    <3>4. IsSeq((a \o m3) \o m4) /\ (a \o m3) \o m4 # <<>> /\ Head((a \o m3) \o m4) = sh
      BY <3>3, <2>3, ConcatSeq
    <3>5. IsSeq(((a \o m3) \o m4) \o m5) /\ ((a \o m3) \o m4) \o m5 # <<>> /\ Head(((a \o m3) \o m4) \o m5) = sh
      BY <3>4, <2>3, ConcatSeq
    <3>6. IsSeq(<<m6>>)
      BY UnitSeq
    <3>7. (((a \o m3) \o m4) \o m5) \o <<m6>> # <<>> /\ Head((((a \o m3) \o m4) \o m5) \o <<m6>>) = sh
      BY <3>5, <3>6, ConcatSeq
    <3> QED
      BY <2>3, <3>2, <3>7
  <2>5. h.vers \in 0 .. 3
    BY <1>8, <1>11
  <2>6. /\ sh.vers = h.vers /\ sh.suite = suite /\ sh.npn = h.npn
        /\ sh.alpn = "h2" => h.vers = 3 /\ checkCipherSuiteHttp2Accepted(suite)
    BY <2>3, <2>5, HelloOfServer
  <2>7. /\ srv'.pc = "exchanging" /\ srv'.resumed = FALSE /\ srv'.vers = h.vers /\ srv'.suite = suite
        /\ srv'.proto = sh.alpn /\ srv'.npn = (h.npn # <<>>) /\ srv'.sh = sh
        /\ DOMAIN srv' = {"pc", "resumed", "vers", "suite", "secret", "proto", "npn", "certs", "log", "hello", "sh"}
    BY <2>3
  <2>8. ServerOK'
    BY <1>6, <2>1, <2>5, <2>6, <2>7 DEF ServerOK
  <2> QED
    BY <1>6, <2>4, <2>7, <2>8, ServerAnswers
<1> QED
  BY <1>6, <1>9, <1>10, <1>11

\* The client answers a hello of the server: its Finished carries its secret,
\* and its next protocol is the one it chose.
LEMMA ReplyStep ==
    ASSUME TlsInv, cli.pc = "hello", srv.pc # "start", UNCHANGED <<tlsConf, tlsSessions, tlsMine, srv>>,
           NEW sh, sh = Head(flight), NEW secret, NEW log, NEW sent, NEW resumed, NEW pc,
           (pc = "sent" /\ resumed = FALSE) \/ (pc = "complete" /\ resumed = TRUE),
           IsSeq(sent), \A x \in Elems(sent) : x.type \in {"certificate", "clientKeyExchange", "certificateVerify"},
           Reply(sh, secret, log, sent, resumed, pc)
    PROVE  TlsInv'
<1>1. PICK np : np = NextProto(sh)
  OBVIOUS
<1>2. PICK fin : fin = Finished(clientSum(secret, log \o sent \o np))
  OBVIOUS
<1>3. PICK newLog : newLog = IF pc = "complete" THEN <<>> ELSE (log \o sent \o np) \o <<fin>>
  OBVIOUS
<1>4. PICK proto : proto = IF sh.npn = <<>> THEN sh.alpn ELSE np[1].body
  OBVIOUS
<1>5. /\ flight' = sent \o <<ChangeCipherSpec>> \o np \o <<fin>>
      /\ cli' = [pc |-> pc, hello |-> cli.hello, session |-> cli.session, sh |-> sh, vers |-> sh.vers, suite |-> sh.suite,
                 secret |-> secret, resumed |-> resumed, log |-> newLog, proto |-> proto]
  BY <1>1, <1>2, <1>3, <1>4 DEF Reply
<1>6. /\ cli'.pc = pc /\ cli'.sh = sh /\ cli'.vers = sh.vers /\ cli'.suite = sh.suite /\ cli'.secret = secret
      /\ cli'.resumed = resumed /\ cli'.proto = proto
      /\ DOMAIN cli' = {"pc", "hello", "session", "sh", "vers", "suite", "secret", "resumed", "log", "proto"}
  BY <1>5
<1>7. /\ IsSeq(np) /\ \A x \in Elems(np) : x.type = "nextProtocol" /\ x.body = proto
      /\ sh.npn # <<>> => \E x \in Elems(np) : x.type = "nextProtocol"
  <2>1. CASE sh.npn = <<>>
    BY <1>1, <2>1, NoneSeq DEF NextProto
  <2>2. CASE sh.npn # <<>>
    <3>1. PICK b : b = IF mutualProtocol(tlsMine.npn, sh.npn) = Nil THEN tlsMine.npn[1] ELSE mutualProtocol(tlsMine.npn, sh.npn)
      OBVIOUS
    <3>2. PICK x : x = Msg("nextProtocol", b)
      OBVIOUS
    <3>3. np = <<x>>
      BY <1>1, <2>2, <3>1, <3>2 DEF NextProto
    <3>4. x.type = "nextProtocol" /\ x.body = b
      BY <3>2 DEF Msg
    <3>5. proto = b
      BY <1>4, <2>2, <3>3, <3>4
    <3>6. IsSeq(np) /\ Elems(np) = {x}
      BY <3>3, UnitSeq
    <3> QED
      BY <3>4, <3>5, <3>6
  <2> QED
    BY <2>1, <2>2
<1>8. /\ Elems(flight') = ((Elems(sent) \cup {ChangeCipherSpec}) \cup Elems(np)) \cup {fin}
  <2>1. PICK ccs : ccs = <<ChangeCipherSpec>>
    OBVIOUS
  <2>2. IsSeq(ccs) /\ Elems(ccs) = {ChangeCipherSpec} /\ IsSeq(<<fin>>) /\ Elems(<<fin>>) = {fin}
    BY <2>1, UnitSeq
  <2>3. IsSeq(sent \o ccs) /\ Elems(sent \o ccs) = Elems(sent) \cup {ChangeCipherSpec}
    BY <2>2, ConcatSeq
  <2>4. IsSeq((sent \o ccs) \o np) /\ Elems((sent \o ccs) \o np) = (Elems(sent) \cup {ChangeCipherSpec}) \cup Elems(np)
    BY <2>3, <1>7, ConcatSeq
  <2>5. Elems(((sent \o ccs) \o np) \o <<fin>>) = ((Elems(sent) \cup {ChangeCipherSpec}) \cup Elems(np)) \cup {fin}
    BY <2>2, <2>4, ConcatSeq
  <2> QED
    BY <1>5, <2>1, <2>5
<1>9. ChangeCipherSpec.type = "changeCipherSpec" /\ fin.type = "finished" /\ fin.data = clientSum(secret, log \o sent \o np)
  BY <1>2 DEF ChangeCipherSpec, Finished
<1>10. /\ \A x \in Elems(flight') : x.type # "newSessionTicket"
       /\ \A x \in Elems(flight') : x.type = "finished" => x = fin
       /\ \A x \in Elems(flight') : x.type = "nextProtocol" => x \in Elems(np)
  BY <1>7, <1>8, <1>9
<1>11. ServerOK' /\ MineOK' /\ srv'.pc # "start"
  BY DEF TlsInv, ServerOK, MineOK
<1>12. ClientOK'
  BY <1>6 DEF ClientOK
<1>13. WireOK'
  BY <1>6, <1>10, <1>11 DEF WireOK
<1>14. srv.pc # "complete"
  BY DEF TlsInv, DoneOK
<1>15. DoneOK'
  BY <1>11, <1>14 DEF DoneOK
<1>16. AnswerOK'
  <2> SUFFICES ASSUME srv.pc \in {"exchanging", "finishing"}
               PROVE  /\ cli'.sh = srv.sh
                      /\ cli'.pc = "complete" => cli'.resumed = TRUE
                      /\ \A x \in Elems(flight') : x.type = "finished" => \E t : x.data = clientSum(cli'.secret, t)
                      /\ \A x \in Elems(flight') : x.type = "nextProtocol" => x.body = cli'.proto
                      /\ srv.npn => \E x \in Elems(flight') : x.type = "nextProtocol"
                      /\ ~srv.npn => cli'.proto = srv.proto
    BY DEF AnswerOK
  <2>1. sh = srv.sh
    BY DEF TlsInv, WireOK
  <2>2. (srv.npn <=> sh.npn # <<>>) /\ srv.proto = sh.alpn
    BY <2>1 DEF TlsInv, ServerOK
  <2>3. \A x \in Elems(flight') : x.type = "finished" => \E t : x.data = clientSum(cli'.secret, t)
    BY <1>6, <1>9, <1>10
  <2>4. \A x \in Elems(flight') : x.type = "nextProtocol" => x.body = cli'.proto
    BY <1>6, <1>7, <1>10
  <2>5. srv.npn => \E x \in Elems(flight') : x.type = "nextProtocol"
    BY <2>2, <1>7, <1>8
  <2>6. ~srv.npn => cli'.proto = srv.proto
    BY <2>2, <1>4, <1>6
  <2> QED
    BY <2>1, <2>3, <2>4, <2>5, <2>6, <1>6
<1> QED
  BY <1>11, <1>12, <1>13, <1>15, <1>16 DEF TlsInv

LEMMA ReadServerStep == TlsInv /\ ReadServerHello => TlsInv'
<1> SUFFICES ASSUME TlsInv, ReadServerHello PROVE TlsInv'
  OBVIOUS
<1>1. PICK sh : sh = Head(flight)
  OBVIOUS
<1>2. /\ cli.pc = "hello" /\ srv.pc # "start" /\ UNCHANGED <<tlsConf, tlsSessions, tlsMine, srv>>
      /\ \/ Alert(cli)
         \/ ResumeReply(sh)
         \/ FullReply(sh)
  BY <1>1 DEF ReadServerHello, ServerHello
<1>3. CASE Alert(cli)
  BY <1>2, <1>3, ClientAlert DEF Alert
<1>4. CASE ~Alert(cli) /\ ResumeReply(sh)
  <2>1. PICK secret : secret = cli.session.secret
    OBVIOUS
  <2>2. PICK log : log = <<cli.hello, sh>> \o <<Sent("finished")>>
    OBVIOUS
  <2>3. PICK none : none = <<>>
    OBVIOUS
  <2>4. PICK yes : yes = TRUE
    OBVIOUS
  <2>5. PICK pc : pc = "complete"
    OBVIOUS
  <2>6. Reply(sh, secret, log, none, yes, pc)
    BY <1>4, <2>1, <2>2, <2>3, <2>4, <2>5 DEF ResumeReply
  <2>7. IsSeq(none) /\ Elems(none) = {}
    BY <2>3, NoneSeq
  <2> QED
    BY <1>1, <1>2, <2>4, <2>5, <2>6, <2>7, ReplyStep
<1>5. CASE ~Alert(cli) /\ FullReply(sh)
  <2>1. PICK kx : kx = IF Sent("serverKeyExchange") = Nil THEN "rsa" ELSE Sent("serverKeyExchange").body[1]
    OBVIOUS
  <2>2. PICK certs : certs = IF Sent("certificateRequest") = Nil THEN <<>> ELSE ChainToSend(Sent("certificateRequest"))
    OBVIOUS
  <2>3. PICK log : log = <<cli.hello>> \o flight
    OBVIOUS
  <2>4. PICK m1 : m1 = IF Sent("certificateRequest") = Nil THEN <<>> ELSE <<Msg("certificate", certs)>>
    OBVIOUS
  <2>5. PICK m2 : m2 = <<Msg("clientKeyExchange", kx)>>
    OBVIOUS
  <2>6. PICK m3 : m3 = IF certs = <<>> THEN <<>> ELSE <<Msg("certificateVerify", <<certs[1], log \o (m1 \o m2)>>)>>
    OBVIOUS
  <2>7. PICK sent : sent = (m1 \o m2) \o m3
    OBVIOUS
  <2>8. PICK secret : secret = masterFromPreMasterSecret(sh.vers, kx, cli.hello, sh)
    OBVIOUS
  <2>9. PICK no : no = FALSE
    OBVIOUS
  <2>10. PICK pc : pc = "sent"
    OBVIOUS
  <2>11. Reply(sh, secret, log, sent, no, pc)
    BY <1>5, <2>1, <2>2, <2>3, <2>4, <2>5, <2>6, <2>7, <2>8, <2>9, <2>10 DEF FullReply
  <2>12. \A a, b : Msg(a, b).type = a
    BY DEF Msg
  <2>13. IsSeq(m1) /\ \A x \in Elems(m1) : x.type = "certificate"
    BY <2>4, <2>12, UnitSeq, NoneSeq
  <2>14. IsSeq(m2) /\ \A x \in Elems(m2) : x.type = "clientKeyExchange"
    BY <2>5, <2>12, UnitSeq
  <2>15. IsSeq(m3) /\ \A x \in Elems(m3) : x.type = "certificateVerify"
    BY <2>6, <2>12, UnitSeq, NoneSeq
  <2>16. IsSeq(m1 \o m2) /\ Elems(m1 \o m2) = Elems(m1) \cup Elems(m2)
    BY <2>13, <2>14, ConcatSeq
  <2>17. IsSeq(sent) /\ Elems(sent) = (Elems(m1) \cup Elems(m2)) \cup Elems(m3)
    BY <2>7, <2>15, <2>16, ConcatSeq
  <2>18. \A x \in Elems(sent) : x.type \in {"certificate", "clientKeyExchange", "certificateVerify"}
    BY <2>13, <2>14, <2>15, <2>17
  <2> QED
    BY <1>1, <1>2, <2>9, <2>10, <2>11, <2>17, <2>18, ReplyStep
<1> QED
  BY <1>2, <1>3, <1>4, <1>5

\* A server that has checked the client's Finished has the client's secret,
\* and the protocol the client chose.
LEMMA FinishedAgrees ==
    ASSUME TlsInv, srv.pc \in {"exchanging", "finishing"}, cli.pc \in {"sent", "complete"},
           NEW secret, NEW log, readFinished_server(secret, log)
    PROVE  cli.secret = secret /\ cli.proto = ChosenProto
<1>1. AnswerOK
  BY DEF TlsInv
<1>2. Sent("finished") \in Elems(flight) /\ Sent("finished").type = "finished"
  BY SentIs DEF readFinished_server
<1>3. PICK t : Sent("finished").data = clientSum(cli.secret, t)
  BY <1>1, <1>2 DEF AnswerOK
<1>4. PICK u : Sent("finished").data = clientSum(secret, u)
  BY DEF readFinished_server
<1>5. cli.secret = secret
  <2>1. \A a, b : clientSum(a, b)[2] = a
    BY DEF clientSum
  <2>2. Sent("finished").data[2] = cli.secret
    BY <1>3, <2>1
  <2>3. Sent("finished").data[2] = secret
    BY <1>4, <2>1
  <2> QED
    BY <2>2, <2>3
<1>6. CASE srv.npn
  <2>1. \E x \in Elems(flight) : x.type = "nextProtocol"
    BY <1>1, <1>6 DEF AnswerOK
  <2>2. Sent("nextProtocol") \in Elems(flight) /\ Sent("nextProtocol").type = "nextProtocol"
    BY <2>1, SentIs
  <2>3. Sent("nextProtocol").body = cli.proto
    BY <1>1, <2>2 DEF AnswerOK
  <2> QED
    BY <1>5, <1>6, <2>3 DEF ChosenProto
<1>7. CASE ~srv.npn
  BY <1>1, <1>5, <1>7 DEF AnswerOK, ChosenProto
<1> QED
  BY <1>6, <1>7

\* The server is done: it has what the hellos settled, the certificates it
\* was given, and the secret and protocol of the client.
LEMMA ServerDone ==
    ASSUME TlsInv, srv.pc \in {"exchanging", "finishing"}, cli.pc \in {"sent", "complete"},
           UNCHANGED <<tlsConf, tlsMine, cli>>, \A e \in tlsSessions' : SessionOK(e.state),
           srv.pc = "exchanging" => cli.pc = "sent", srv.pc = "finishing" => cli.pc = "complete",
           srv'.pc = "complete", DOMAIN srv' = DOMAIN srv, srv'.vers = srv.vers, srv'.suite = srv.suite, srv'.sh = srv.sh,
           srv'.npn = srv.npn, srv'.resumed = srv.resumed, srv'.secret = cli.secret, srv'.proto = cli.proto,
           CertsAllowed(tlsConf, srv'.certs),
           \A x \in Elems(flight') : x.type = "newSessionTicket" => SessionOK(x.body.state)
    PROVE  TlsInv'
<1>1. ServerOK /\ ClientOK /\ AnswerOK /\ tlsConf \in TlsConfs
  BY DEF TlsInv
<1>2. cli.sh = srv.sh /\ (~srv.npn => cli.proto = srv.proto) /\ (cli.pc = "complete" => cli.resumed = TRUE)
  BY <1>1 DEF AnswerOK
<1>3. ServerOK'
  BY <1>1, <1>2 DEF ServerOK
<1>4. cli.vers = srv.vers /\ cli.suite = srv.suite /\ cli.resumed = srv.resumed
  BY <1>1, <1>2, ZenonT(30) DEF ServerOK, ClientOK
<1>5. DoneOK'
  BY <1>4 DEF DoneOK
<1>6. WireOK' /\ AnswerOK' /\ ClientOK'
  BY <1>1 DEF WireOK, AnswerOK, ClientOK
<1>7. MineOK'
  BY DEF TlsInv, MineOK
<1> QED
  BY <1>1, <1>3, <1>5, <1>6, <1>7 DEF TlsInv

LEMMA FinishResumedStep == TlsInv /\ FinishResumed => TlsInv'
<1> SUFFICES ASSUME TlsInv, FinishResumed PROVE TlsInv'
  OBVIOUS
<1>1. srv.pc = "finishing" /\ cli.pc = "complete" /\ UNCHANGED <<tlsConf, tlsSessions, tlsMine, cli>> /\ flight' = <<>>
  BY DEF FinishResumed
<1>2. Elems(flight') = {}
  BY <1>1, NoneSeq
<1>3. CASE readFinished_server(srv.secret, srv.log)
  <2>1. PICK p : p = ChosenProto
    OBVIOUS
  <2>2. srv' = [srv EXCEPT !.pc = "complete", !.proto = p, !.log = <<>>]
    BY <1>3, <2>1 DEF FinishResumed
  <2>3. DOMAIN srv = {"pc", "resumed", "vers", "suite", "secret", "proto", "npn", "certs", "log", "hello", "sh"}
        /\ CertsAllowed(tlsConf, srv.certs)
    BY <1>1 DEF TlsInv, ServerOK
  <2>4. /\ srv'.pc = "complete" /\ DOMAIN srv' = DOMAIN srv /\ srv'.vers = srv.vers /\ srv'.suite = srv.suite
        /\ srv'.sh = srv.sh /\ srv'.npn = srv.npn /\ srv'.resumed = srv.resumed /\ srv'.secret = srv.secret
        /\ srv'.proto = p /\ srv'.certs = srv.certs
    BY <2>2, <2>3
  <2>5. PICK secret : secret = srv.secret
    OBVIOUS
  <2>6. cli.secret = srv.secret /\ cli.proto = p
    BY <1>1, <1>3, <2>1, FinishedAgrees
  <2>7. \A e \in tlsSessions' : SessionOK(e.state)
    BY <1>1 DEF TlsInv
  <2> QED
    BY <1>1, <1>2, <2>3, <2>4, <2>6, <2>7, ServerDone
<1>4. CASE ~readFinished_server(srv.secret, srv.log)
  <2>1. srv' = [pc |-> "failed"]
    BY <1>4 DEF FinishResumed, Alert
  <2> QED
    BY <1>1, <1>2, <2>1, ServerAlert
<1> QED
  BY <1>3, <1>4

LEMMA ClientCertsAllowed == ClientCerts # Nil => CertsAllowed(tlsConf, ClientCerts)
<1> SUFFICES ASSUME ClientCerts # Nil PROVE CertsAllowed(tlsConf, ClientCerts)
  OBVIOUS
<1>1. CASE clientAuth(tlsConf) < RequestClientCert
  <2>1. ClientCerts = <<>>
    BY <1>1 DEF ClientCerts
  <2>2. ~NeedsCert(tlsConf)
    BY <1>1 DEF NeedsCert, RequestClientCert, RequireAnyClientCert, RequireAndVerifyClientCert
  <2>3. DOMAIN ClientCerts = {}
    BY <2>1
  <2> QED
    BY <2>2, <2>3 DEF CertsAllowed
<1>2. CASE ~(clientAuth(tlsConf) < RequestClientCert)
  <2>1. PICK c : c = Sent("certificate").body
    OBVIOUS
  <2>2. ClientCerts = c /\ (NeedsCert(tlsConf) => c # <<>>) /\ processCertsFromClient(tlsConf, c)
    BY <1>2, <2>1 DEF ClientCerts
  <2>3. CertsAllowed(tlsConf, c)
    BY <2>2 DEF CertsAllowed, processCertsFromClient, clientAuth, RequireAndVerifyClientCert, VerifyClientCertIfGiven
  <2> QED
    BY <2>2, <2>3
<1> QED
  BY <1>1, <1>2

LEMMA FinishFullStep == TlsInv /\ FinishFull => TlsInv'
<1> SUFFICES ASSUME TlsInv, FinishFull PROVE TlsInv'
  OBVIOUS
<1>1. srv.pc = "exchanging" /\ cli.pc = "sent" /\ UNCHANGED <<tlsConf, tlsMine, cli>>
  BY DEF FinishFull
<1>2. CASE srv' = [pc |-> "failed"] /\ flight' = <<Msg("alert", Nil)>> /\ tlsSessions' = tlsSessions
  <2>1. Elems(flight') = {Msg("alert", Nil)}
    BY <1>2, UnitSeq
  <2>2. Msg("alert", Nil).type = "alert"
    BY DEF Msg
  <2> QED
    BY <1>1, <1>2, <2>1, <2>2, ServerAlert
<1>3. CASE ~(srv' = [pc |-> "failed"] /\ flight' = <<Msg("alert", Nil)>> /\ tlsSessions' = tlsSessions)
  <2>1. PICK certs : certs = ClientCerts
    OBVIOUS
  <2>2. PICK log : log = srv.log \o SelectSeq(flight, LAMBDA m : m.type \in {"certificate", "clientKeyExchange", "certificateVerify"})
    OBVIOUS
  <2>3. PICK secret : secret = masterFromPreMasterSecret(srv.vers, Sent("clientKeyExchange").body, srv.hello, srv.sh)
    OBVIOUS
  <2>4. PICK state : state = sessionState(srv.vers, srv.suite, secret, certs)
    OBVIOUS
  <2>5. PICK nst : nst = Msg("newSessionTicket", encryptTicket(tlsConf, state))
    OBVIOUS
  <2>6. PICK ticket : ticket = IF srv.sh.ticketSupported THEN <<nst>> ELSE <<>>
    OBVIOUS
  <2>7. PICK fin : fin = Finished(serverSum(secret, (NextProtoSeen(log) \o <<Sent("finished")>>) \o ticket))
    OBVIOUS
  <2>8. PICK proto : proto = ChosenProto
    OBVIOUS
  <2>9. /\ certs # Nil /\ readFinished_server(secret, log)
        /\ srv' = [srv EXCEPT !.pc = "complete", !.secret = secret, !.certs = certs, !.proto = proto, !.log = <<>>]
        /\ flight' = ticket \o <<ChangeCipherSpec, fin>>
        /\ tlsSessions' = Remembered(state)
    BY <1>3, <2>1, <2>2, <2>3, <2>4, <2>5, <2>6, <2>7, <2>8 DEF FinishFull, Alert
  <2>10. DOMAIN srv = {"pc", "resumed", "vers", "suite", "secret", "proto", "npn", "certs", "log", "hello", "sh"}
         /\ srv.vers \in 0 .. 3
    BY <1>1 DEF TlsInv, ServerOK
  <2>11. /\ srv'.pc = "complete" /\ DOMAIN srv' = DOMAIN srv /\ srv'.vers = srv.vers /\ srv'.suite = srv.suite
         /\ srv'.sh = srv.sh /\ srv'.npn = srv.npn /\ srv'.resumed = srv.resumed /\ srv'.secret = secret
         /\ srv'.proto = proto /\ srv'.certs = certs
    BY <2>9, <2>10
  <2>12. cli.secret = secret /\ cli.proto = proto
    BY <1>1, <2>8, <2>9, FinishedAgrees
  <2>13. SessionOK(state)
    BY <2>4, <2>10 DEF SessionOK, sessionState
  <2>14. \A e \in tlsSessions' : SessionOK(e.state)
    BY <2>9, <2>13 DEF Remembered, TlsInv
  <2>15. nst.body.state = state
    BY <2>5 DEF Msg, encryptTicket
  <2>16. \A x \in Elems(flight') : x.type = "newSessionTicket" => SessionOK(x.body.state)
    <3>1. IsSeq(ticket) /\ \A x \in Elems(ticket) : x = nst
      BY <2>6, UnitSeq, NoneSeq
    <3>2. PICK rest : rest = <<ChangeCipherSpec, fin>>
      OBVIOUS
    <3>3. IsSeq(rest)
      <4>1. rest \in Seq({ChangeCipherSpec, fin})
        BY <3>2
      <4> QED
        BY <4>1 DEF IsSeq
    <3>4. Elems(rest) = {ChangeCipherSpec, fin}
      BY <3>2 DEF Elems
    <3>5. Elems(flight') = Elems(ticket) \cup Elems(rest)
      BY <2>9, <3>1, <3>2, <3>3, ConcatSeq
    <3>6. ChangeCipherSpec.type = "changeCipherSpec" /\ fin.type = "finished"
      BY <2>7 DEF ChangeCipherSpec, Finished
    <3> QED
      BY <2>13, <2>15, <3>1, <3>4, <3>5, <3>6
  <2>17. CertsAllowed(tlsConf, certs)
    BY <2>1, <2>9, ClientCertsAllowed
  <2> QED
    BY <1>1, <2>11, <2>12, <2>14, <2>16, <2>17, ServerDone
<1> QED
  BY <1>2, <1>3

LEMMA FinishClientStep == TlsInv /\ FinishClient => TlsInv'
<1> SUFFICES ASSUME TlsInv, FinishClient PROVE TlsInv'
  OBVIOUS
<1>1. cli.pc = "sent" /\ srv.pc \in {"complete", "failed"} /\ UNCHANGED <<tlsConf, tlsSessions, srv>> /\ flight' = <<>>
  BY DEF FinishClient
<1>2. CASE cli' = [pc |-> "failed"] /\ tlsMine' = tlsMine
  BY <1>1, <1>2, ClientAlert
<1>3. CASE ~(cli' = [pc |-> "failed"] /\ tlsMine' = tlsMine)
  <2>1. PICK t : t = Sent("newSessionTicket")
    OBVIOUS
  <2>2. PICK kept : kept = IF t # Nil THEN t.body ELSE IF tlsMine.tickets THEN Nil ELSE cli.sh.sessionId
    OBVIOUS
  <2>3. PICK sess : sess = [ticket |-> kept, vers |-> cli.vers, suite |-> cli.suite, secret |-> cli.secret]
    OBVIOUS
  <2>4. /\ cli' = [cli EXCEPT !.pc = "complete", !.log = <<>>]
        /\ tlsMine' = IF kept = Nil THEN tlsMine ELSE [tlsMine EXCEPT !.session = sess]
    BY <1>3, <2>1, <2>2, <2>3 DEF FinishClient, Alert
  <2>5. DOMAIN cli = {"pc", "hello", "session", "sh", "vers", "suite", "secret", "resumed", "log", "proto"}
        /\ cli.vers = cli.sh.vers /\ cli.suite = cli.sh.suite
    BY <1>1 DEF TlsInv, ClientOK
  <2>6. /\ DOMAIN cli' = DOMAIN cli /\ cli'.pc = "complete" /\ cli'.sh = cli.sh /\ cli'.vers = cli.vers /\ cli'.suite = cli.suite
        /\ cli'.secret = cli.secret /\ cli'.resumed = cli.resumed /\ cli'.proto = cli.proto
    BY <2>4, <2>5
  <2>7. MineOK'
    <3>1. CASE kept = Nil
      BY <2>4, <3>1 DEF TlsInv, MineOK
    <3>2. CASE kept # Nil
      <4>1. MineOK
        BY DEF TlsInv
      <4>2. /\ DOMAIN tlsMine' = DOMAIN tlsMine /\ tlsMine'.maxVersion = tlsMine.maxVersion /\ tlsMine'.suites = tlsMine.suites
            /\ tlsMine'.tickets = tlsMine.tickets /\ tlsMine'.session = sess
        BY <2>4, <3>2, <4>1 DEF MineOK
      <4>3. sess.ticket = kept
        BY <2>3
      <4>4. tlsMine.tickets => SessionOK(kept.state)
        <5> SUFFICES ASSUME tlsMine.tickets PROVE SessionOK(kept.state)
          OBVIOUS
        <5>1. t # Nil /\ kept = t.body
          BY <2>2, <3>2
        <5>2. t \in Elems(flight) /\ t.type = "newSessionTicket"
          BY <2>1, <5>1, SentIs
        <5> QED
          BY <1>1, <5>1, <5>2 DEF TlsInv, WireOK
      <4> QED
        BY <4>1, <4>2, <4>3, <4>4 DEF MineOK
    <3> QED
      BY <3>1, <3>2
  <2>8. ClientOK'
    BY <2>5, <2>6 DEF ClientOK
  <2>9. ServerOK' /\ AnswerOK' /\ WireOK'
    BY <1>1, <2>6 DEF TlsInv, ServerOK, AnswerOK, WireOK
  <2>10. DoneOK'
    BY <1>1, <2>6 DEF TlsInv, DoneOK
  <2> QED
    BY <1>1, <2>7, <2>8, <2>9, <2>10 DEF TlsInv
<1> QED
  BY <1>2, <1>3

LEMMA TlsInvNext == TlsInv /\ [TlsNext]_tlsVars => TlsInv'
<1> SUFFICES ASSUME TlsInv, [TlsNext]_tlsVars PROVE TlsInv'
  OBVIOUS
<1>1. CASE UNCHANGED tlsVars
  BY <1>1 DEF tlsVars, TlsInv, MineOK, ServerOK, ClientOK, WireOK, AnswerOK, DoneOK, Elems
<1> QED
  BY <1>1, HelloStep, ReadServerStep, FinishClientStep, ReadHelloStep, FinishResumedStep, FinishFullStep, GiveUpStep,
     ReconnectStep DEF TlsNext

\* A handshake the server of bfe_tls completes has what the configuration in
\* force allows, also when it resumes a session of a ticket or of the cache
\* that an earlier configuration issued; and two ends that have finished agree
\* on version, suite, secret, protocol and resumption.
THEOREM TlsIsSound == TlsSpec => []TlsSound
<1>1. TlsInit => TlsInv
  BY TlsInvInit
<1>2. TlsInv /\ [TlsNext]_tlsVars => TlsInv'
  BY TlsInvNext
<1>3. TlsInv => TlsSound
  BY TlsInvSafe
<1> QED
  BY <1>1, <1>2, <1>3, PTL DEF TlsSpec
=============================================================================
