-------------------------- MODULE ConfReloadProofs --------------------------
(***************************************************************************)
(* TLAPS proofs about ConfReload, for any clusters, confs and number of    *)
(* overlapping reloads and requests.                                       *)
(*                                                                         *)
(* A balancer is named by its cluster and a generation.  That a new one is *)
(* not released needs GenFresh, that it has no runtime yet needs that all  *)
(* runtimes belong to latest balancers.  The types need to know which conf *)
(* a goroutine holds at each step (FilesRight, RequestsRight).             *)
(*                                                                         *)
(* SettledCurrent speaks of the moment when all reloads are over.  SInv    *)
(* says what leads there: what undisturbed reloads push is the conf of now *)
(* (Fresh), because they are undisturbed together (Alone), and a setting   *)
(* is right as soon as one of them has pushed it and nobody has still to   *)
(* (Settling).                                                             *)
(***************************************************************************)
EXTENDS ConfReload, TLAPS

\* What a reload holds at each of its steps.
Holds(p) ==
    /\ at[p] \in {"swap", "arg", "transports"} => kind[p] = "server"
    /\ at[p] \in {"reload", "read"} => kind[p] = "gslb"
    /\ at[p] \in {"basic", "lock", "slow"} => kind[p] # "none"
    /\ kind[p] = "server" => file[p] \in ServerConfs
    /\ kind[p] = "gslb" => file[p] \in GslbConfs
    /\ at[p] \in {"transports", "basic", "lock", "slow"} => arg[p] \in ServerConfs
    /\ at[p] = "slow" => todo[p] \subseteq Named(Pushed(p))
FilesRight == \A p \in Reloaders : Holds(p)

\* What a request holds between its lookup and its insertion.
RequestsRight ==
    \A r \in Requests :
        req[r].at # "idle" =>
            /\ req[r].conf \in ServerConfs
            /\ req[r].cluster \in Named(req[r].conf)

TInv == TypeOK /\ FilesRight /\ RequestsRight

\* No balancer is released before it is made.
GenFresh == \A b \in released : b[2] <= gen[b[1]]

IInv ==
    /\ TInv
    /\ GenFresh
    /\ NoOrphanEpp
    /\ TableLive
    /\ TableWhole

\* What the constants say of the entries of the files.
LEMMA ServerConfTypes ==
    ASSUME NEW conf \in ServerConfs, NEW c \in Clusters
    PROVE  /\ conf[c] \in ClusterConf \cup {NoConf}
           /\ c \in Named(conf) =>
                /\ conf[c].basic \in Nat /\ conf[c].slow \in Nat
                /\ conf[c].epp \in EppTables
                /\ conf[c].epp \notin {"bad", "none"} => conf[c].epp \in Runnable
BY ConfReloadAssumption DEF Named, ClusterConf, EppTables, Runnable

LEMMA GslbConfTypes ==
    ASSUME NEW g \in GslbConfs, NEW c \in Named(g)
    PROVE  g[c].list \in Nat /\ g[c].subs \subseteq Subs
BY ConfReloadAssumption DEF Named, GslbEntry

LEMMA BackendsTypes ==
    ASSUME NEW g \in GslbConfs, NEW c \in Named(g),
           NEW old \in [Subs -> Nat \cup {NoConf}]
    PROVE  BackendsOf(c, g, old) \in [Subs -> Nat \cup {NoConf}]
BY GslbConfTypes DEF BackendsOf

-----------------------------------------------------------------------------
\* The types hold at the start.
LEMMA InitT == Init => TInv
<1> SUFFICES ASSUME Init PROVE TInv
  OBVIOUS
<1>1. PICK conf \in ServerConfs, g \in GslbConfs : Init!(conf, g)
  BY DEF Init
<1>2. Named(g) \subseteq Clusters /\ NoBackends \in [Subs -> Nat \cup {NoConf}]
  BY DEF Named, NoBackends
<1>3. transports \in [Clusters -> ClusterConf \cup {NoConf}]
  BY <1>1, ConfReloadAssumption
<1>4. basic \in [Clusters -> Nat]
  BY <1>1, ServerConfTypes
<1>5. slow \in [Clusters -> [Subs -> Nat]]
  BY <1>1, ServerConfTypes DEF NoSlow
<1>6. backends \in [Clusters -> [Subs -> Nat \cup {NoConf}]]
  BY <1>1, <1>2, BackendsTypes
<1>7. epp \subseteq Bals \X Runnable
  BY <1>1, <1>2 DEF Bals
<1>8. TypeOK
  BY <1>1, <1>2, <1>3, <1>4, <1>5, <1>6, <1>7, ConfReloadAssumption
     DEF TypeOK, NoRequest
<1>9. FilesRight /\ RequestsRight
  BY <1>1 DEF FilesRight, RequestsRight, Holds, NoRequest
<1> QED
  BY <1>8, <1>9 DEF TInv

\* Every step keeps the types and what the goroutines hold.
LEMMA StepT == ASSUME TInv, [Next]_vars PROVE TInv'
<1> USE DEF TInv
<1>1. ASSUME NEW p \in Reloaders, NEW first \in {"swap", "reload"},
             NEW k \in {"server", "gslb"}, NEW conf, Begin(p, first, k, conf),
             \/ first = "swap" /\ k = "server" /\ conf \in ServerConfs
             \/ first = "reload" /\ k = "gslb" /\ conf \in GslbConfs
      PROVE  TInv'
  <2>1. TypeOK'
    <3>1. reloads' \in 0 .. MaxReloads
      BY <1>1, ConfReloadAssumption DEF TypeOK, Begin
    <3>2. at' = [at EXCEPT ![p] = first] /\ kind' = [kind EXCEPT ![p] = k]
      BY <1>1 DEF Begin
    <3>3. file' \in [Reloaders -> ServerConfs \cup GslbConfs \cup {NoConf}]
      BY <1>1 DEF TypeOK, Begin
    <3>4. alone' \subseteq Reloaders
      BY <1>1 DEF TypeOK, Begin, Busy
    <3> QED
      BY <1>1, <3>1, <3>2, <3>3, <3>4 DEF TypeOK, Begin, balancers, settled
  <2>2. FilesRight'
    BY <1>1 DEF TypeOK, FilesRight, Holds, Pushed, Begin, Busy
  <2>3. RequestsRight'
    BY <1>1 DEF RequestsRight, Begin
  <2> QED
    BY <2>1, <2>2, <2>3
<1>2. ASSUME NEW p \in Reloaders, SwapServerConf(p) PROVE TInv'
  <2>1. TypeOK'
    BY <1>2 DEF TypeOK, FilesRight, Holds, SwapServerConf, Goto, balancers
  <2>2. FilesRight'
    BY <1>2 DEF TypeOK, FilesRight, Holds, Pushed, SwapServerConf, Goto
  <2>3. RequestsRight'
    BY <1>2 DEF RequestsRight, SwapServerConf
  <2> QED
    BY <2>1, <2>2, <2>3
<1>3. ASSUME NEW p \in Reloaders, ReadClusterMap(p) PROVE TInv'
  <2>1. TypeOK'
    BY <1>3 DEF TypeOK, ReadClusterMap, Goto, balancers, settled
  <2>2. FilesRight'
    BY <1>3 DEF TypeOK, FilesRight, Holds, Pushed, ReadClusterMap, Goto
  <2>3. RequestsRight'
    BY <1>3 DEF RequestsRight, ReadClusterMap
  <2> QED
    BY <2>1, <2>2, <2>3
<1>4. ASSUME NEW p \in Reloaders, SetTransports(p) PROVE TInv'
  <2>1. arg[p] \in ServerConfs
    BY <1>4 DEF FilesRight, Holds, SetTransports
  <2>2. transports' \in [Clusters -> ClusterConf \cup {NoConf}]
    BY <1>4, <2>1, ServerConfTypes DEF TypeOK, SetTransports
  <2>3. TypeOK'
    BY <1>4, <2>2 DEF TypeOK, SetTransports, Goto, balancers
  <2>4. FilesRight'
    BY <1>4 DEF TypeOK, FilesRight, Holds, Pushed, SetTransports, Goto
  <2>5. RequestsRight'
    BY <1>4 DEF RequestsRight, SetTransports
  <2> QED
    BY <2>3, <2>4, <2>5
<1>5. ASSUME NEW p \in Reloaders, BalTableReload(p) PROVE TInv'
  <2> DEFINE g == file[p]
  <2>1. g \in GslbConfs /\ Named(g) \subseteq Clusters
    BY <1>5 DEF FilesRight, Holds, BalTableReload, Named
  <2>2. gen' \in [Clusters -> Nat] /\ basic' \in [Clusters -> Nat]
    BY <1>5, <2>1 DEF TypeOK, BalTableReload
  <2>3. backends' \in [Clusters -> [Subs -> Nat \cup {NoConf}]]
    <3>1. NoBackends \in [Subs -> Nat \cup {NoConf}]
      BY DEF NoBackends
    <3>2. ASSUME NEW c \in Named(g)
          PROVE  BackendsFor(c, g) \in [Subs -> Nat \cup {NoConf}]
      BY <2>1, <3>1, BackendsTypes DEF BackendsFor, TypeOK
    <3> QED
      BY <1>5, <3>2 DEF TypeOK, BalTableReload
  <2>4. slow' \in [Clusters -> [Subs -> Nat]]
    BY <1>5, <2>1 DEF TypeOK, BalTableReload
  <2>5. released' \subseteq Bals
    BY <1>5 DEF TypeOK, BalTableReload, Bals, Bal, Remainder
  <2>6. epp' \subseteq Bals \X Runnable
    BY <1>5 DEF TypeOK, BalTableReload, EppAfterRelease
  <2>7. /\ at' = [at EXCEPT ![p] = IF Complete(g) THEN "read" ELSE "idle"]
        /\ kind' = [kind EXCEPT ![p] = IF Complete(g) THEN @ ELSE "none"]
        /\ file' = [file EXCEPT ![p] = IF Complete(g) THEN @ ELSE NoConf]
        /\ arg' = [arg EXCEPT ![p] = IF Complete(g) THEN @ ELSE NoConf]
        /\ alone' \subseteq alone
    <3>1. CASE Complete(g)
      BY <1>5, <3>1 DEF TypeOK, BalTableReload, Goto
    <3>2. CASE ~ Complete(g)
      BY <1>5, <3>2 DEF BalTableReload, Goto, Finish
    <3> QED
      BY <3>1, <3>2
  <2>8. TypeOK'
    BY <1>5, <2>1, <2>2, <2>3, <2>4, <2>5, <2>6, <2>7 DEF TypeOK, BalTableReload
  <2>9. FilesRight'
    BY <1>5 DEF TypeOK, FilesRight, Holds, Pushed, BalTableReload, Goto, Finish
  <2>10. RequestsRight'
    BY <1>5 DEF RequestsRight, BalTableReload
  <2> QED
    BY <2>8, <2>9, <2>10
<1>6. ASSUME NEW p \in Reloaders, ReadServerConf(p) PROVE TInv'
  <2>1. TypeOK'
    BY <1>6 DEF TypeOK, ReadServerConf, Goto, balancers, settled
  <2>2. FilesRight'
    BY <1>6 DEF TypeOK, FilesRight, Holds, Pushed, ReadServerConf, Goto
  <2>3. RequestsRight'
    BY <1>6 DEF RequestsRight, ReadServerConf
  <2> QED
    BY <2>1, <2>2, <2>3
<1>7. ASSUME NEW p \in Reloaders, SetGslbBasic(p) PROVE TInv'
  <2>1. Pushed(p) \in ServerConfs
    BY <1>7 DEF TypeOK, FilesRight, Holds, Pushed, SetGslbBasic
  <2>2. basic' \in [Clusters -> Nat]
    BY <1>7, <2>1, ServerConfTypes DEF TypeOK, SetGslbBasic, BasicOf
  <2>3. epp' \subseteq Bals \X Runnable
    BY <1>7, <2>1, ServerConfTypes DEF TypeOK, SetGslbBasic, EppOf, Bals, Bal, Named
  <2>4. TypeOK'
    BY <1>7, <2>2, <2>3 DEF TypeOK, SetGslbBasic, Goto, settled
  <2>5. FilesRight'
    BY <1>7 DEF TypeOK, FilesRight, Holds, Pushed, SetGslbBasic, Goto
  <2>6. RequestsRight'
    BY <1>7 DEF RequestsRight, SetGslbBasic
  <2> QED
    BY <2>4, <2>5, <2>6
<1>8. ASSUME NEW p \in Reloaders, SetSlowStart(p) PROVE TInv'
  <2>1. Visits(Pushed(p)) \subseteq Clusters \cap Named(Pushed(p))
    BY DEF TypeOK, Visits
  <2>2. TypeOK'
    BY <1>8, <2>1 DEF TypeOK, SetSlowStart, Goto, balancers, settled
  <2>3. FilesRight'
    BY <1>8, <2>1 DEF TypeOK, FilesRight, Holds, Pushed, SetSlowStart, Goto
  <2>4. RequestsRight'
    BY <1>8 DEF RequestsRight, SetSlowStart
  <2> QED
    BY <2>2, <2>3, <2>4
<1>9. ASSUME NEW p \in Reloaders, SetSlowStartOne(p) PROVE TInv'
  <2>1. PICK c \in todo[p] : SetSlowStartOne(p)!(c)
    BY <1>9 DEF SetSlowStartOne
  <2>2. Pushed(p) \in ServerConfs /\ c \in Named(Pushed(p)) /\ c \in Clusters
    BY <2>1 DEF TypeOK, FilesRight, Holds, Pushed, Named
  <2>3. SlowOf(c, Pushed(p)) \in [Subs -> Nat]
    BY <2>2, ServerConfTypes DEF SlowOf
  <2>4. TypeOK'
    BY <2>1, <2>3 DEF TypeOK, settled
  <2>5. FilesRight'
    BY <2>1 DEF TypeOK, FilesRight, Holds, Pushed
  <2>6. RequestsRight'
    BY <2>1 DEF RequestsRight
  <2> QED
    BY <2>4, <2>5, <2>6
<1>10. ASSUME NEW p \in Reloaders, SetSlowStartDone(p) PROVE TInv'
  <2>1. TypeOK'
    BY <1>10 DEF TypeOK, SetSlowStartDone, Finish, Goto, balancers
  <2>2. FilesRight'
    BY <1>10 DEF TypeOK, FilesRight, Holds, Pushed, SetSlowStartDone, Finish, Goto
  <2>3. RequestsRight'
    BY <1>10 DEF RequestsRight, SetSlowStartDone
  <2> QED
    BY <2>1, <2>2, <2>3
<1>11. ASSUME NEW r \in Requests, RequestStep(r) PROVE TInv'
  <2>1. CASE StartRequest(r)
    <3>1. PICK c \in Named(srvConf) : req' = [req EXCEPT ![r] =
                [at |-> "check", conf |-> srvConf, cluster |-> c]]
      BY <2>1 DEF StartRequest
    <3>2. TypeOK'
      BY <2>1, <3>1 DEF TypeOK, StartRequest, Named, balancers, reloader, settled
    <3>3. FilesRight' /\ RequestsRight'
      BY <2>1, <3>1 DEF TypeOK, FilesRight, Holds, Pushed, RequestsRight,
                        StartRequest, reloader
    <3> QED
      BY <3>2, <3>3
  <2>2. CASE GetTransport(r)
    <3>1. TypeOK'
      BY <2>2, ZenonT(30) DEF TypeOK, GetTransport, NoRequest, balancers, reloader, settled
    <3>2. FilesRight' /\ RequestsRight'
      BY <2>2 DEF TypeOK, FilesRight, Holds, Pushed, RequestsRight,
                  GetTransport, NoRequest, reloader
    <3> QED
      BY <3>1, <3>2
  <2>3. CASE InsertTransport(r)
    <3>1. /\ req[r].conf \in ServerConfs
          /\ req[r].cluster \in Clusters
      BY <2>3 DEF RequestsRight, InsertTransport, Named
    <3>2. TypeOK'
      BY <2>3, <3>1, ServerConfTypes
         DEF TypeOK, InsertTransport, NoRequest, balancers, reloader
    <3>3. FilesRight' /\ RequestsRight'
      BY <2>3 DEF TypeOK, FilesRight, Holds, Pushed, RequestsRight,
                  InsertTransport, NoRequest, reloader
    <3> QED
      BY <3>2, <3>3
  <2> QED
    BY <1>11, <2>1, <2>2, <2>3 DEF RequestStep
<1>12. CASE UNCHANGED vars
  <2>1. TypeOK'
    BY <1>12 DEF TypeOK, vars, balancers, reloader, settled
  <2>2. FilesRight' /\ RequestsRight'
    BY <1>12 DEF FilesRight, Holds, Pushed, RequestsRight, vars, reloader
  <2> QED
    BY <2>1, <2>2
<1>13. ASSUME NEW p \in Reloaders, ServerDataConfReload(p) PROVE TInv'
  BY <1>1, <1>13 DEF ServerDataConfReload
<1>14. ASSUME NEW p \in Reloaders, GslbDataConfReload(p) PROVE TInv'
  BY <1>1, <1>14 DEF GslbDataConfReload
<1>15. ASSUME NEW p \in Reloaders, ReloadStep(p) PROVE TInv'
  BY <1>2, <1>3, <1>4, <1>5, <1>6, <1>7, <1>8, <1>9, <1>10, <1>13, <1>14, <1>15
     DEF ReloadStep
<1> QED
  BY <1>11, <1>12, <1>15 DEF Next

-----------------------------------------------------------------------------
\* IInv holds at the start.
LEMMA InitI == Init => IInv
<1> SUFFICES ASSUME Init PROVE IInv
  OBVIOUS
<1>1. TInv
  BY InitT
<1>2. PICK conf \in ServerConfs, g \in GslbConfs : Init!(conf, g)
  BY DEF Init
<1>3. GenFresh /\ TableLive
  BY <1>2 DEF GenFresh, TableLive
<1>4. NoOrphanEpp
  BY <1>2 DEF NoOrphanEpp, Bal, Named
<1>5. TableWhole
  <2>1. inTable = Named(g) /\ versions = g /\ Named(g) \subseteq Clusters
    BY <1>2 DEF Named
  <2>2. ASSUME NEW c \in Named(g) PROVE backends[c] = BackendsOf(c, g, NoBackends)
    BY <1>2, <2>1
  <2> QED
    BY <2>1, <2>2 DEF TableWhole, BackendsOf
<1> QED
  BY <1>1, <1>3, <1>4, <1>5 DEF IInv

\* Only BalTableReload and SetGslbBasic write what the safety parts speak of.
LEMMA OtherSteps ==
    ASSUME IInv, TInv', UNCHANGED <<inTable, gen, backends, versions, epp, released>>
    PROVE  IInv'
<1>1. GenFresh' /\ TableLive'
  BY DEF IInv, GenFresh, TableLive, Bal
<1>2. NoOrphanEpp'
  BY DEF IInv, NoOrphanEpp, Bal
<1>3. TableWhole'
  BY DEF IInv, TableWhole, Named
<1> QED
  BY <1>1, <1>2, <1>3 DEF IInv

\* Every step keeps IInv.
LEMMA StepI == ASSUME IInv, [Next]_vars PROVE IInv'
<1>1. TInv'
  BY StepT DEF IInv
<1>2. ASSUME NEW p \in Reloaders, BalTableReload(p) PROVE IInv'
  <2> DEFINE g == file[p]
             new == Named(g) \ inTable
             gone == {Bal(c) : c \in Remainder(g)}
  <2>1. /\ inTable' = Named(g) /\ versions' = g
        /\ gen' = [c \in Clusters |-> IF c \in new THEN gen[c] + 1 ELSE gen[c]]
        /\ released' = released \cup gone
        /\ epp' = {e \in epp : e[1] \notin gone}
        /\ backends' = [c \in Clusters |-> IF c \in Named(g) THEN BackendsFor(c, g)
                                                            ELSE backends[c]]
    BY <1>2 DEF BalTableReload, EppAfterRelease
  <2>2. /\ Named(g) \subseteq Clusters /\ inTable \subseteq Clusters
        /\ gen \in [Clusters -> Nat] /\ released \subseteq Bals
        /\ epp \subseteq Bals \X Runnable
    BY DEF IInv, TInv, TypeOK, Named
  <2>3. GenFresh'
    <3>1. ASSUME NEW b \in released' PROVE b[2] <= gen'[b[1]]
      <4>1. CASE b \in released
        BY <2>1, <2>2, <4>1 DEF IInv, GenFresh, Bals
      <4>2. CASE b \in gone
        BY <2>1, <2>2, <4>2 DEF Bal, Remainder
      <4> QED
        BY <2>1, <4>1, <4>2
    <3> QED
      BY <3>1 DEF GenFresh
  <2>4. TableLive'
    <3>1. ASSUME NEW c \in Named(g) PROVE <<c, gen'[c]>> \notin released'
      <4>1. CASE c \in inTable
        BY <2>1, <2>2, <4>1 DEF IInv, TableLive, Bal, Remainder
      <4>2. CASE c \notin inTable
        BY <2>1, <2>2, <4>2 DEF IInv, GenFresh, Bal, Remainder
      <4> QED
        BY <4>1, <4>2
    <3> QED
      BY <2>1, <3>1 DEF TableLive, Bal
  <2>5. NoOrphanEpp'
    <3>1. ASSUME NEW e \in epp' PROVE e[1][1] \in Named(g) /\ e[1] = <<e[1][1], gen'[e[1][1]]>>
      <4>1. e \in epp /\ e[1] \notin gone /\ e[1][1] \in inTable /\ e[1] = Bal(e[1][1])
        BY <2>1 DEF IInv, NoOrphanEpp
      <4>2. e[1][1] \in Named(g)
        BY <4>1 DEF Remainder
      <4> QED
        BY <2>1, <2>2, <4>1, <4>2 DEF Bal
    <3>2. \A e, f \in epp' : e[1] = f[1] => e = f
      BY <2>1 DEF IInv, NoOrphanEpp
    <3> QED
      BY <2>1, <3>1, <3>2 DEF NoOrphanEpp, Bal
  <2>6. TableWhole'
    <3>1. ASSUME NEW c \in Named(g), g[c].list # 0
          PROVE  \A s \in Subs : backends'[c][s] =
                     IF s \in g[c].subs THEN g[c].list ELSE NoConf
      BY <2>1, <2>2, <3>1 DEF BackendsFor, BackendsOf
    <3> QED
      BY <2>1, <3>1 DEF TableWhole, Named
  <2> QED
    BY <1>1, <2>3, <2>4, <2>5, <2>6 DEF IInv
<1>3. ASSUME NEW p \in Reloaders, SetGslbBasic(p) PROVE IInv'
  <2> DEFINE conf == Pushed(p)
             met == {c \in inTable \cap Named(conf) : conf[c].epp # "bad"}
  <2>1. /\ UNCHANGED <<inTable, gen, backends, versions, released>>
        /\ epp' = {e \in epp : e[1] \notin {Bal(c) : c \in met}}
              \cup {<<Bal(c), conf[c].epp>> : c \in {d \in met : conf[d].epp # "none"}}
    BY <1>3 DEF SetGslbBasic, EppOf
  <2>2. GenFresh' /\ TableLive'
    BY <2>1 DEF IInv, GenFresh, TableLive, Bal
  <2>3. TableWhole'
    BY <2>1 DEF IInv, TableWhole, Named
  <2>4. \A e \in epp' : e[1][1] \in inTable /\ e[1] = Bal(e[1][1])
    BY <2>1 DEF IInv, NoOrphanEpp, Bal
  <2>5. \A e, f \in epp' : e[1] = f[1] => e = f
    <3> SUFFICES ASSUME NEW e \in epp', NEW f \in epp', e[1] = f[1] PROVE e = f
      OBVIOUS
    <3>1. CASE e[1] \in {Bal(c) : c \in met}
      <4>1. PICK c \in met : e = <<Bal(c), conf[c].epp>>
        BY <2>1, <3>1
      <4>2. PICK d \in met : f = <<Bal(d), conf[d].epp>>
        BY <2>1, <3>1
      <4> QED
        BY <4>1, <4>2 DEF Bal
    <3>2. CASE e[1] \notin {Bal(c) : c \in met}
      <4>1. e \in epp /\ f \in epp
        BY <2>1, <3>2
      <4> QED
        BY <4>1 DEF IInv, NoOrphanEpp
    <3> QED
      BY <3>1, <3>2
  <2>6. NoOrphanEpp'
    BY <2>1, <2>4, <2>5 DEF NoOrphanEpp, Bal
  <2> QED
    BY <1>1, <2>2, <2>3, <2>6 DEF IInv
<1>4. ASSUME NEW p \in Reloaders, ReloadStep(p), ~ BalTableReload(p), ~ SetGslbBasic(p)
      PROVE  UNCHANGED <<inTable, gen, backends, versions, epp, released>>
  BY <1>4 DEF ReloadStep, ServerDataConfReload, GslbDataConfReload, Begin,
              SwapServerConf, ReadClusterMap, SetTransports, ReadServerConf,
              SetSlowStart, SetSlowStartOne, SetSlowStartDone, balancers
<1>5. ASSUME NEW r \in Requests, RequestStep(r)
      PROVE  UNCHANGED <<inTable, gen, backends, versions, epp, released>>
  BY <1>5 DEF RequestStep, StartRequest, GetTransport, InsertTransport, balancers
<1>6. CASE UNCHANGED vars
  BY <1>1, <1>6, OtherSteps DEF vars, balancers
<1> QED
  BY <1>1, <1>2, <1>3, <1>4, <1>5, <1>6, OtherSteps DEF Next

-----------------------------------------------------------------------------
(* Reloads that nothing disturbs.                                          *)

\* A reload is undisturbed together with all others that are under way, and
\* then either it is the only one or all are gslb reloads.
Alone ==
    /\ alone \subseteq Busy
    /\ \A p \in alone, q \in Busy :
         p # q => q \in alone /\ kind[p] = "gslb" /\ kind[q] = "gslb"

\* The steps between a change of conf or table and the pushes that follow it.
Before == {"arg", "transports", "read", "basic"}
After == {"lock", "slow"}

\* What undisturbed reloads push, and make transports of, is the current conf;
\* and so is what anybody pushes after the last change went undisturbed.
Fresh ==
    /\ (balSettled \/ alone # {}) =>
         \A q \in Reloaders :
            /\ at[q] \in {"basic", "lock", "slow"} => Pushed(q) = srvConf
            /\ at[q] \in {"arg", "transports"} => file[q] = srvConf
    /\ \A p \in alone : at[p] = "transports" => arg[p] = srvConf

\* The settings SetGslbBasic and setSlowStart push, as SettledCurrent has them.
BasicRight(c) ==
    /\ basic[c] = srvConf[c].basic
    /\ srvConf[c].epp # "bad" =>
         {e[2] : e \in {f \in epp : f[1] = Bal(c)}} = {srvConf[c].epp} \ {"none"}
SlowRight(c) ==
    \A s \in Subs : backends[c][s] # NoConf => slow[c][s] = srvConf[c].slow

\* Both are right once an undisturbed reload has pushed them and no reload is
\* still to push.
BasicPushed ==
    /\ balSettled \/ \E p \in alone : at[p] \in After
    /\ \A q \in Reloaders : at[q] \notin Before
SlowPushed(c) ==
    /\ balSettled \/ \E p \in alone : at[p] = "slow" /\ c \notin todo[p]
    /\ \A q \in Reloaders :
         at[q] \notin Before \cup {"lock"} /\ (at[q] = "slow" => c \notin todo[q])

Settling ==
    \A c \in inTable \cap Named(srvConf) :
        (BasicPushed => BasicRight(c)) /\ (SlowPushed(c) => SlowRight(c))

SInv == Alone /\ Fresh /\ Settling /\ TransportCurrent

\* The parts of the types that these proofs use.
Points ==
    /\ at \in [Reloaders -> {"idle", "swap", "arg", "transports", "reload",
                             "read", "basic", "lock", "slow"}]
    /\ kind \in [Reloaders -> {"none", "server", "gslb"}]
    /\ file \in [Reloaders -> ServerConfs \cup GslbConfs \cup {NoConf}]
    /\ arg \in [Reloaders -> ServerConfs \cup {NoConf}]
    /\ todo \in [Reloaders -> SUBSET Clusters]
    /\ FilesRight

\* The address tables of runtimes: of none, and of one.
LEMMA TablesOf ==
    /\ {e[2] : e \in {}} = {}
    /\ \A b, x : {e[2] : e \in {<<b, x>>}} = {x}
OBVIOUS

\* They follow from TInv.
LEMMA PointsRight == TInv => Points
BY DEF TInv, TypeOK, Points

\* A step that pushes nothing.
LEMMA NothingPushed ==
    ASSUME Settling, UNCHANGED <<srvConf, inTable, gen, basic, epp, slow, backends>>,
           BasicPushed' => BasicPushed,
           \A c \in inTable : SlowPushed(c)' => SlowPushed(c)
    PROVE  Settling'
<1> SUFFICES ASSUME NEW c \in inTable, c \in Named(srvConf)
             PROVE  /\ BasicPushed' => BasicRight(c)'
                    /\ SlowPushed(c)' => SlowRight(c)'
  BY DEF Settling, Named
<1>1. (BasicPushed => BasicRight(c)) /\ (SlowPushed(c) => SlowRight(c))
  BY DEF Settling
<1>2. BasicRight(c) => BasicRight(c)'
  BY DEF BasicRight, Bal
<1>3. SlowRight(c) => SlowRight(c)'
  BY DEF SlowRight
<1> QED
  BY <1>1, <1>2, <1>3

\* A step that swaps no conf and sets no transport.
LEMMA TransportsKept ==
    ASSUME TransportCurrent, UNCHANGED <<srvConf, transports, tsSettled>>
    PROVE  TransportCurrent'
BY DEF TransportCurrent

\* The server starts with all settings of its conf in place (InitDataLoad).
LEMMA InitS == Init => SInv
<1> SUFFICES ASSUME Init PROVE SInv
  OBVIOUS
<1>1. PICK conf \in ServerConfs, g \in GslbConfs : Init!(conf, g)
  BY DEF Init
<1>2. Alone /\ Fresh
  BY <1>1 DEF Alone, Fresh
<1>3. TransportCurrent
  BY <1>1 DEF TransportCurrent
<1>4. ASSUME NEW c \in inTable \cap Named(srvConf) PROVE BasicRight(c)
  <2>1. c \in Clusters /\ c \in Named(g) /\ c \in Named(conf) /\ Bal(c) = <<c, 0>>
    BY <1>1, <1>4 DEF Named, Bal
  <2>2. conf[c].epp \notin {"bad", "none"} => conf[c].epp \in Runnable
    BY <2>1, ServerConfTypes
  <2>3. {f \in epp : f[1] = <<c, 0>>} =
            IF conf[c].epp \in Runnable THEN {<<<<c, 0>>, conf[c].epp>>} ELSE {}
    BY <1>1, <2>1
  <2>4. "none" \notin Runnable
    BY DEF Runnable
  <2>5. basic[c] = conf[c].basic
    BY <1>1, <2>1
  <2>6. ASSUME conf[c].epp # "bad"
        PROVE  {e[2] : e \in {f \in epp : f[1] = <<c, 0>>}} = {conf[c].epp} \ {"none"}
    <3>1. CASE conf[c].epp \in Runnable
      <4>1. {f \in epp : f[1] = <<c, 0>>} = {<<<<c, 0>>, conf[c].epp>>}
        BY <2>3, <3>1
      <4>2. {conf[c].epp} \ {"none"} = {conf[c].epp}
        BY <2>4, <3>1
      <4>3. {e[2] : e \in {<<<<c, 0>>, conf[c].epp>>}} = {conf[c].epp}
        BY TablesOf
      <4> QED
        BY <4>1, <4>2, <4>3, Zenon
    <3>2. CASE conf[c].epp \notin Runnable
      <4>1. {f \in epp : f[1] = <<c, 0>>} = {} /\ conf[c].epp = "none"
        BY <2>2, <2>3, <2>6, <3>2
      <4> QED
        BY <4>1, TablesOf
    <3> QED
      BY <3>1, <3>2
  <2>7. srvConf = conf
    BY <1>1
  <2> QED
    BY <2>1, <2>5, <2>6, <2>7 DEF BasicRight
<1>5. ASSUME NEW c \in inTable \cap Named(srvConf) PROVE SlowRight(c)
  <2>1. c \in Clusters /\ c \in Named(g) /\ c \in Named(conf)
    BY <1>1, <1>5 DEF Named
  <2>2. /\ backends[c] = BackendsOf(c, g, NoBackends)
        /\ slow[c] = [s \in Subs |-> IF s \in g[c].subs THEN conf[c].slow ELSE 0]
    BY <1>1, <2>1
  <2> QED
    BY <1>1, <2>2 DEF SlowRight, BackendsOf
<1> QED
  BY <1>2, <1>3, <1>4, <1>5 DEF SInv, Settling

\* Every step keeps the account of the undisturbed reloads.
LEMMA StepAlone == ASSUME Points, Alone, [Next]_vars PROVE Alone'
<1>1. ASSUME NEW p \in Reloaders, NEW first \in {"swap", "reload"},
             NEW k \in {"server", "gslb"}, NEW conf, Begin(p, first, k, conf)
      PROVE  Alone'
  <2> DEFINE rivals == {q \in Busy : "server" \in {k, kind[q]} \/ q \notin alone}
  <2>1. /\ p \notin Busy /\ Busy' = Busy \cup {p}
        /\ kind' = [kind EXCEPT ![p] = k]
    BY <1>1 DEF Begin, Busy, Points
  <2>2. CASE rivals = {}
    <3>1. alone' = alone \cup {p} /\ \A q \in Busy : q \in alone
      BY <1>1, <2>2 DEF Begin
    <3>2. \A q \in Busy : kind[q] = "gslb" /\ k = "gslb"
      BY <1>1, <2>2 DEF Points, FilesRight, Holds, Busy
    <3> QED
      BY <2>1, <3>1, <3>2 DEF Alone, Points, Busy
  <2>3. CASE rivals # {}
    <3>1. alone' = alone \ (rivals \cup {p})
      BY <1>1, <2>3 DEF Begin
    <3>2. ASSUME NEW q \in alone, q \notin rivals PROVE FALSE
      <4>1. k = "gslb" /\ kind[q] # "server" /\ q \in Busy
        BY <3>2, <1>1 DEF Alone
      <4>2. PICK x \in rivals : x \in Busy
        BY <2>3
      <4> QED
        BY <4>1, <4>2, <3>2 DEF Alone
    <3> QED
      BY <3>1, <3>2 DEF Alone
  <2> QED
    BY <2>2, <2>3
<1>2. ASSUME Busy' = Busy, UNCHANGED <<kind, alone>> PROVE Alone'
  BY <1>2 DEF Alone
<1>3. ASSUME NEW p \in Reloaders, BalTableReload(p) PROVE Alone'
  <2>1. CASE Complete(file[p])
    BY <1>2, <1>3, <2>1 DEF BalTableReload, Goto, Busy, Points
  <2>2. CASE ~ Complete(file[p])
    BY <1>3, <2>2 DEF BalTableReload, Alone
  <2> QED
    BY <2>1, <2>2
<1>4. ASSUME NEW p \in Reloaders, SetSlowStartDone(p) PROVE Alone'
  <2>1. /\ Busy' = Busy \ {p} /\ alone' = alone \ {p}
        /\ \A q \in Reloaders : q # p => kind'[q] = kind[q]
    BY <1>4 DEF SetSlowStartDone, Finish, Goto, Busy, Points
  <2> QED
    BY <2>1 DEF Alone, Busy
<1>5. ASSUME NEW p \in Reloaders,
             \/ SwapServerConf(p) \/ ReadClusterMap(p) \/ SetTransports(p)
             \/ ReadServerConf(p) \/ SetGslbBasic(p) \/ SetSlowStart(p)
             \/ SetSlowStartOne(p)
      PROVE  Alone'
  BY <1>2, <1>5 DEF SwapServerConf, ReadClusterMap, SetTransports, ReadServerConf,
     SetGslbBasic, SetSlowStart, SetSlowStartOne, Goto, Busy, Points
<1>6. ASSUME NEW r \in Requests, RequestStep(r) PROVE Alone'
  BY <1>2, <1>6
     DEF RequestStep, StartRequest, GetTransport, InsertTransport, Busy, reloader
<1>7. CASE UNCHANGED vars
  BY <1>2, <1>7 DEF vars, Busy, reloader
<1>8. ASSUME NEW p \in Reloaders, ServerDataConfReload(p) \/ GslbDataConfReload(p)
      PROVE  Alone'
  BY <1>1, <1>8 DEF ServerDataConfReload, GslbDataConfReload
<1> QED
  BY <1>3, <1>4, <1>5, <1>6, <1>7, <1>8 DEF Next, ReloadStep

\* Every step keeps the confs of undisturbed reloads current.
LEMMA StepFresh == ASSUME Points, Alone, Fresh, [Next]_vars PROVE Fresh'
<1>1. ASSUME NEW p \in Reloaders, NEW first \in {"swap", "reload"},
             NEW k \in {"server", "gslb"}, NEW conf, Begin(p, first, k, conf)
      PROVE  Fresh'
  <2>1. /\ at' = [at EXCEPT ![p] = first] /\ kind' = [kind EXCEPT ![p] = k]
        /\ file' = [file EXCEPT ![p] = conf] /\ UNCHANGED <<srvConf, arg, balSettled>>
        /\ at[p] = "idle" /\ alone' \subseteq alone \cup {p}
    BY <1>1 DEF Begin, settled, Busy
  <2>2. alone' # {} => (alone # {} \/ Busy = {})
    BY <1>1 DEF Begin
  <2>3. \A q \in Reloaders : q # p => Pushed(q)' = Pushed(q)
    BY <2>1 DEF Points, Pushed
  <2>4. ASSUME balSettled' \/ alone' # {}, NEW q \in Reloaders, q # p, at[q] # "idle"
        PROVE  balSettled \/ alone # {}
    BY <2>1, <2>2, <2>4 DEF Busy
  <2> QED
    BY <2>1, <2>3, <2>4 DEF Points, Fresh
<1>2. ASSUME NEW p \in Reloaders, SwapServerConf(p) PROVE Fresh'
  <2>1. /\ at[p] = "swap" /\ at' = [at EXCEPT ![p] = "arg"] /\ srvConf' = file[p]
        /\ UNCHANGED <<kind, file, arg, alone>> /\ ~balSettled' /\ kind[p] = "server"
    BY <1>2 DEF SwapServerConf, Goto, Points, FilesRight, Holds
  <2>2. ASSUME alone # {}, NEW q \in Reloaders, q # p PROVE at[q] = "idle"
    BY <2>1, <2>2 DEF Alone, Busy
  <2>3. \A q \in alone : at[q] # "transports" \/ q = p
    BY <2>2 DEF Alone, Busy
  <2> QED
    BY <2>1, <2>2, <2>3 DEF Points, Fresh, Alone, Busy
<1>3. ASSUME NEW p \in Reloaders, ReadClusterMap(p) PROVE Fresh'
  BY <1>3 DEF ReadClusterMap, Goto, settled, Points, FilesRight, Holds, Fresh, Pushed
<1>4. ASSUME NEW p \in Reloaders, SetTransports(p) PROVE Fresh'
  BY <1>4 DEF SetTransports, Goto, Points, FilesRight, Holds, Fresh, Pushed
<1>5. ASSUME NEW p \in Reloaders, BalTableReload(p) PROVE Fresh'
  <2>1. CASE Complete(file[p])
    <3>1. /\ at' = [at EXCEPT ![p] = "read"] /\ UNCHANGED <<kind, file, arg, alone, srvConf>>
          /\ ~balSettled'
      BY <1>5, <2>1 DEF BalTableReload, Goto
    <3> QED
      BY <3>1 DEF Points, Fresh, Pushed
  <2>2. CASE ~ Complete(file[p])
    BY <1>5, <2>2 DEF BalTableReload, Fresh
  <2> QED
    BY <2>1, <2>2
<1>6. ASSUME NEW p \in Reloaders, ReadServerConf(p) PROVE Fresh'
  BY <1>6 DEF ReadServerConf, Goto, settled, Points, FilesRight, Holds, Fresh, Pushed
<1>7. ASSUME NEW p \in Reloaders,
             SetGslbBasic(p) \/ SetSlowStart(p) \/ SetSlowStartOne(p)
      PROVE  Fresh'
  <2>1. /\ at[p] \in {"basic", "lock", "slow"}
        /\ at'[p] \in {"lock", "slow"} /\ \A q \in Reloaders : q # p => at'[q] = at[q]
        /\ UNCHANGED <<srvConf, kind, file, arg, alone, balSettled>>
    BY <1>7 DEF SetGslbBasic, SetSlowStart, SetSlowStartOne, Goto, settled, Points
  <2> QED
    BY <2>1 DEF Alone, Busy, Fresh, Pushed
<1>8. ASSUME NEW p \in Reloaders, SetSlowStartDone(p) PROVE Fresh'
  <2>1. /\ at' = [at EXCEPT ![p] = "idle"]
        /\ \A q \in Reloaders : q # p =>
             kind'[q] = kind[q] /\ file'[q] = file[q] /\ arg'[q] = arg[q]
        /\ srvConf' = srvConf /\ alone' = alone \ {p}
        /\ balSettled' => balSettled \/ p \in alone
    BY <1>8 DEF SetSlowStartDone, Finish, Goto, Points
  <2>2. \A q \in Reloaders : q # p => Pushed(q)' = Pushed(q)
    BY <2>1 DEF Points, Pushed
  <2> QED
    BY <2>1, <2>2 DEF Points, Alone, Busy, Fresh
<1>9. ASSUME UNCHANGED <<srvConf, at, kind, file, arg, alone, balSettled>> PROVE Fresh'
  BY <1>9 DEF Fresh, Pushed
<1>10. ASSUME NEW r \in Requests, RequestStep(r) PROVE Fresh'
  BY <1>9, <1>10 DEF RequestStep, StartRequest, GetTransport, InsertTransport,
                     reloader, settled
<1>11. CASE UNCHANGED vars
  BY <1>9, <1>11 DEF vars, reloader, settled
<1>12. ASSUME NEW p \in Reloaders, ServerDataConfReload(p) \/ GslbDataConfReload(p)
       PROVE  Fresh'
  BY <1>1, <1>12 DEF ServerDataConfReload, GslbDataConfReload
<1> QED
  BY <1>2, <1>3, <1>4, <1>5, <1>6, <1>7, <1>8, <1>10, <1>11, <1>12 DEF Next, ReloadStep

\* Every step keeps the settings right that an undisturbed reload has pushed.
LEMMA StepSettling ==
    ASSUME TInv, Points, Alone, Fresh, Settling, [Next]_vars
    PROVE  Settling'
<1>1. ASSUME NEW p \in Reloaders, NEW first \in {"swap", "reload"},
             NEW k \in {"server", "gslb"}, NEW conf, Begin(p, first, k, conf)
      PROVE  Settling'
  <2>1. /\ at' = [at EXCEPT ![p] = first] /\ at[p] = "idle"
        /\ UNCHANGED <<srvConf, inTable, gen, basic, epp, slow, backends, todo, balSettled>>
        /\ alone' \subseteq alone \cup {p} /\ p \notin alone
    BY <1>1 DEF Begin, settled, Busy, balancers, Alone
  <2>2. BasicPushed' => BasicPushed
    BY <2>1 DEF Points, BasicPushed, Before, After
  <2>3. \A c \in inTable : SlowPushed(c)' => SlowPushed(c)
    BY <2>1 DEF Points, SlowPushed, Before
  <2> QED
    BY <2>1, <2>2, <2>3, NothingPushed
<1>2. ASSUME NEW p \in Reloaders, SwapServerConf(p) PROVE Settling'
  <2>1. at'[p] = "arg"
    BY <1>2 DEF SwapServerConf, Goto, Points
  <2> QED
    BY <2>1 DEF Settling, BasicPushed, SlowPushed, Before
<1>3. ASSUME NEW p \in Reloaders,
             ReadClusterMap(p) \/ SetTransports(p) \/ ReadServerConf(p)
      PROVE  Settling'
  <2>1. at'[p] \in {"transports", "basic"}
    BY <1>3 DEF ReadClusterMap, SetTransports, ReadServerConf, Goto, Points
  <2> QED
    BY <2>1 DEF Settling, BasicPushed, SlowPushed, Before
<1>4. ASSUME NEW p \in Reloaders, BalTableReload(p) PROVE Settling'
  <2>1. CASE Complete(file[p])
    <3>1. at'[p] = "read"
      BY <1>4, <2>1 DEF BalTableReload, Goto, Points
    <3> QED
      BY <3>1 DEF Settling, BasicPushed, SlowPushed, Before
  <2>2. CASE ~ Complete(file[p])
    BY <1>4, <2>2 DEF BalTableReload, Settling, BasicPushed, SlowPushed
  <2> QED
    BY <2>1, <2>2
<1>5. ASSUME NEW p \in Reloaders, SetGslbBasic(p) PROVE Settling'
  <2>1. /\ at[p] = "basic" /\ at'[p] = "lock" /\ UNCHANGED <<srvConf, inTable, gen>>
        /\ UNCHANGED <<alone, balSettled>>
        /\ basic' = BasicOf(Pushed(p)) /\ epp' = EppOf(Pushed(p))
    BY <1>5 DEF SetGslbBasic, Goto, Points, settled
  <2> SUFFICES ASSUME NEW c \in inTable, c \in Named(srvConf), BasicPushed'
               PROVE  BasicRight(c)'
    BY <2>1 DEF Settling, SlowPushed, Before, Named
  <2>2. Pushed(p) = srvConf
    BY <2>1 DEF Fresh, BasicPushed
  <2>3. c \in Clusters /\ c \in inTable \cap Named(srvConf)
    BY DEF Named
  <2>4. basic'[c] = srvConf[c].basic
    BY <2>1, <2>2, <2>3 DEF BasicOf
  <2> DEFINE met == {d \in inTable \cap Named(srvConf) : srvConf[d].epp # "bad"}
  <2>8. epp' = {e \in epp : e[1] \notin {Bal(d) : d \in met}}
                 \cup {<<Bal(d), srvConf[d].epp>> : d \in {x \in met : srvConf[x].epp # "none"}}
    BY <2>1, <2>2 DEF EppOf
  <2>9. \A d \in met : Bal(d) = Bal(c) => d = c
    BY DEF Bal
  <2>5. ASSUME srvConf[c].epp # "bad"
        PROVE  {f \in epp' : f[1] = Bal(c)} =
                  IF srvConf[c].epp = "none" THEN {} ELSE {<<Bal(c), srvConf[c].epp>>}
    <3>1. c \in met
      BY <2>3, <2>5
    <3> HIDE DEF met
    <3>2. ASSUME NEW e \in epp', e[1] = Bal(c)
          PROVE  e = <<Bal(c), srvConf[c].epp>> /\ srvConf[c].epp # "none"
      BY <2>8, <2>9, <3>1, <3>2
    <3>3. srvConf[c].epp # "none" => <<Bal(c), srvConf[c].epp>> \in epp'
      BY <2>8, <3>1
    <3> QED
      BY <3>2, <3>3
  <2>6. ASSUME srvConf[c].epp # "bad"
        PROVE  {e[2] : e \in {f \in epp' : f[1] = Bal(c)}} = {srvConf[c].epp} \ {"none"}
    <3>1. CASE srvConf[c].epp = "none"
      <4>1. {f \in epp' : f[1] = Bal(c)} = {}
        BY <2>5, <2>6, <3>1
      <4> QED
        BY <3>1, <4>1, TablesOf
    <3>2. CASE srvConf[c].epp # "none"
      <4>1. {f \in epp' : f[1] = Bal(c)} = {<<Bal(c), srvConf[c].epp>>}
        BY <2>5, <2>6, <3>2
      <4>2. {srvConf[c].epp} \ {"none"} = {srvConf[c].epp}
        BY <3>2
      <4>3. {e[2] : e \in {<<Bal(c), srvConf[c].epp>>}} = {srvConf[c].epp}
        BY TablesOf
      <4> QED
        BY <4>1, <4>2, <4>3, Zenon
    <3> QED
      BY <3>1, <3>2
  <2>7. Bal(c)' = Bal(c)
    BY <2>1 DEF Bal
  <2> QED
    BY <2>1, <2>4, <2>6, <2>7 DEF BasicRight
<1>6. ASSUME NEW p \in Reloaders, SetSlowStart(p) PROVE Settling'
  <2>1. /\ at[p] = "lock" /\ at' = [at EXCEPT ![p] = "slow"]
        /\ todo' = [todo EXCEPT ![p] = inTable \cap Named(Pushed(p))]
        /\ UNCHANGED <<srvConf, inTable, gen, basic, epp, slow, backends, alone, balSettled>>
    BY <1>6 DEF SetSlowStart, Goto, settled, balancers, Visits
  <2> SUFFICES ASSUME NEW c \in inTable, c \in Named(srvConf)
               PROVE  /\ BasicPushed' => BasicRight(c)'
                      /\ SlowPushed(c)' => SlowRight(c)'
    BY <2>1 DEF Settling, Named
  <2>2. BasicPushed' => BasicPushed
    BY <2>1 DEF Points, BasicPushed, Before, After
  <2>3. BasicRight(c) => BasicRight(c)'
    BY <2>1 DEF BasicRight, Bal
  <2>4. ASSUME SlowPushed(c)' PROVE FALSE
    <3>1. balSettled \/ alone # {}
      BY <2>1, <2>4 DEF SlowPushed
    <3>2. Pushed(p) = srvConf
      BY <2>1, <3>1 DEF Fresh
    <3>3. at'[p] = "slow" /\ c \in todo'[p]
      BY <2>1, <3>2 DEF Points
    <3> QED
      BY <2>4, <3>3 DEF SlowPushed
  <2> QED
    BY <2>2, <2>3, <2>4 DEF Settling
<1>7. ASSUME NEW p \in Reloaders, SetSlowStartOne(p) PROVE Settling'
  <2>1. PICK d \in todo[p] : SetSlowStartOne(p)!(d)
    BY <1>7 DEF SetSlowStartOne
  <2>2. /\ at[p] = "slow" /\ UNCHANGED <<at, srvConf, inTable, gen, basic, epp, backends>>
        /\ UNCHANGED <<alone, balSettled>>
        /\ todo' = [todo EXCEPT ![p] = @ \ {d}]
        /\ slow' = [slow EXCEPT ![d] = SlowOf(d, Pushed(p))]
    BY <2>1 DEF settled
  <2> SUFFICES ASSUME NEW c \in inTable, c \in Named(srvConf)
               PROVE  /\ BasicPushed' => BasicRight(c)'
                      /\ SlowPushed(c)' => SlowRight(c)'
    BY <2>2 DEF Settling, Named
  <2>3. BasicPushed' => BasicPushed
    BY <2>2 DEF BasicPushed, Before, After
  <2>4. BasicRight(c) => BasicRight(c)'
    BY <2>2 DEF BasicRight, Bal
  <2>5. ASSUME SlowPushed(c)' PROVE SlowRight(c)'
    <3>1. CASE c = d
      <4>1. Pushed(p) = srvConf
        BY <2>2, <2>5 DEF Fresh, SlowPushed
      <4>2. slow'[c] = SlowOf(c, srvConf)
        BY <2>2, <3>1, <4>1 DEF TInv, TypeOK
      <4> QED
        BY <2>2, <4>2 DEF SlowRight, SlowOf
    <3>2. CASE c # d
      <4>1. \A q \in Reloaders : c \in todo'[q] <=> c \in todo[q]
        BY <2>2, <3>2 DEF Points
      <4>2. SlowPushed(c)
        BY <2>2, <2>5, <4>1 DEF SlowPushed, Before, Alone, Busy
      <4>3. slow'[c] = slow[c]
        BY <2>2, <3>2 DEF TInv, TypeOK
      <4> QED
        BY <2>2, <4>2, <4>3 DEF Settling, SlowRight
    <3> QED
      BY <3>1, <3>2
  <2> QED
    BY <2>3, <2>4, <2>5 DEF Settling
<1>8. ASSUME NEW p \in Reloaders, SetSlowStartDone(p) PROVE Settling'
  <2>1. /\ at[p] = "slow" /\ todo[p] = {} /\ at' = [at EXCEPT ![p] = "idle"]
        /\ UNCHANGED <<srvConf, inTable, gen, basic, epp, slow, backends, todo>>
        /\ alone' = alone \ {p} /\ (balSettled' => balSettled \/ p \in alone)
    BY <1>8 DEF SetSlowStartDone, Finish, Goto, balancers
  <2>2. BasicPushed' => BasicPushed
    BY <2>1 DEF Points, BasicPushed, Before, After
  <2>3. \A c \in inTable : SlowPushed(c)' => SlowPushed(c)
    BY <2>1 DEF Points, SlowPushed, Before
  <2> QED
    BY <2>1, <2>2, <2>3, NothingPushed
<1>9. ASSUME UNCHANGED <<srvConf, inTable, gen, basic, epp, slow, backends>>,
             UNCHANGED <<at, todo, alone, balSettled>>
      PROVE  Settling'
  BY <1>9, NothingPushed DEF BasicPushed, SlowPushed
<1>10. ASSUME NEW r \in Requests, RequestStep(r) PROVE Settling'
  BY <1>9, <1>10 DEF RequestStep, StartRequest, GetTransport, InsertTransport,
                     balancers, reloader, settled
<1>11. CASE UNCHANGED vars
  BY <1>9, <1>11 DEF vars, balancers, reloader, settled
<1>12. ASSUME NEW p \in Reloaders, ServerDataConfReload(p) \/ GslbDataConfReload(p)
       PROVE  Settling'
  BY <1>1, <1>12 DEF ServerDataConfReload, GslbDataConfReload
<1> QED
  BY <1>2, <1>3, <1>4, <1>5, <1>6, <1>7, <1>8, <1>10, <1>11, <1>12 DEF Next, ReloadStep

\* Every step keeps the transports right that an undisturbed reload has made.
LEMMA StepTransports ==
    ASSUME TInv, Points, Fresh, TransportCurrent, [Next]_vars
    PROVE  TransportCurrent'
<1>1. ASSUME NEW p \in Reloaders, SetTransports(p) PROVE TransportCurrent'
  <2>1. CASE p \in alone
    <3>1. arg[p] = srvConf /\ srvConf' = srvConf
      BY <1>1, <2>1 DEF SetTransports, Fresh
    <3>2. transports' = [c \in Clusters |->
                IF srvConf[c] = NoConf THEN NoConf
                ELSE IF KeepsTransport(transports[c], srvConf[c]) THEN transports[c]
                ELSE srvConf[c]]
      BY <1>1, <3>1 DEF SetTransports
    <3> QED
      BY <3>1, <3>2 DEF TransportCurrent, KeepsTransport
  <2>2. CASE p \notin alone
    BY <1>1, <2>2 DEF SetTransports, TransportCurrent
  <2> QED
    BY <2>1, <2>2
<1>2. ASSUME NEW p \in Reloaders, SwapServerConf(p) PROVE TransportCurrent'
  BY <1>2 DEF SwapServerConf, TransportCurrent
<1>3. ASSUME NEW r \in Requests, InsertTransport(r) PROVE TransportCurrent'
  <2>1. CASE tsSettled /\ req[r].conf = srvConf
    <3>1. req[r].cluster \in Named(srvConf)
      BY <1>3, <2>1 DEF TInv, RequestsRight, InsertTransport
    <3>2. \A c \in Clusters : transports'[c] =
              IF c = req[r].cluster THEN srvConf[c] ELSE transports[c]
      BY <1>3, <2>1 DEF InsertTransport, TInv, TypeOK
    <3>3. srvConf' = srvConf
      BY <1>3 DEF InsertTransport
    <3> QED
      BY <2>1, <3>1, <3>2, <3>3 DEF TransportCurrent, Named
  <2>2. CASE ~(tsSettled /\ req[r].conf = srvConf)
    BY <1>3, <2>2 DEF InsertTransport, TransportCurrent
  <2> QED
    BY <2>1, <2>2
<1>4. ASSUME NEW p \in Reloaders, ReloadStep(p), ~ SetTransports(p), ~ SwapServerConf(p)
      PROVE  UNCHANGED <<srvConf, transports, tsSettled>>
  BY <1>4 DEF ReloadStep, ServerDataConfReload, GslbDataConfReload, Begin,
     ReadClusterMap, BalTableReload, ReadServerConf, SetGslbBasic, SetSlowStart,
     SetSlowStartOne, SetSlowStartDone, settled
<1>5. ASSUME NEW r \in Requests, StartRequest(r) \/ GetTransport(r)
      PROVE  UNCHANGED <<srvConf, transports, tsSettled>>
  BY <1>5 DEF StartRequest, GetTransport, settled
<1>6. CASE UNCHANGED vars
  BY <1>6, TransportsKept DEF vars, settled
<1> QED
  BY <1>1, <1>2, <1>3, <1>4, <1>5, <1>6, TransportsKept DEF Next, RequestStep

-----------------------------------------------------------------------------
\* IInv holds in every state.
LEMMA Invariance == Spec => []IInv
<1>1. Init => IInv
  BY InitI
<1>2. IInv /\ [Next]_vars => IInv'
  BY StepI
<1> QED
  BY <1>1, <1>2, PTL DEF Spec

\* The variables of the reload code keep their types.
THEOREM TypeCorrect == Spec => []TypeOK
<1>1. IInv => TypeOK
  BY DEF IInv, TInv
<1> QED
  BY <1>1, Invariance, PTL

\* However many reloads overlap, no EPP health check outlives its balancer
\* and no balancer has two (BalTableReload, SetGslbBasic).
THEOREM NoOrphans == Spec => []NoOrphanEpp
<1>1. IInv => NoOrphanEpp
  BY DEF IInv
<1> QED
  BY <1>1, Invariance, PTL

\* A balancer that Lookup can return has not been released.
THEOREM FoundIsLive == Spec => []TableLive
<1>1. IInv => TableLive
  BY DEF IInv
<1> QED
  BY <1>1, Invariance, PTL

\* The table is what one gslb reload made of its files.
THEOREM NeverMixed == Spec => []TableWhole
<1>1. IInv => TableWhole
  BY DEF IInv
<1> QED
  BY <1>1, Invariance, PTL
\* What the account of undisturbed reloads says holds in every state.
LEMMA SettledInvariance == Spec => []SInv
<1>1. Init => SInv
  BY InitS
<1>2. IInv /\ SInv /\ [Next]_vars => SInv'
  <2> SUFFICES ASSUME IInv, SInv, [Next]_vars PROVE SInv'
    OBVIOUS
  <2>1. TInv /\ Points
    BY PointsRight DEF IInv
  <2> QED
    BY <2>1, StepAlone, StepFresh, StepSettling, StepTransports DEF SInv
<1> QED
  BY <1>1, <1>2, Invariance, PTL DEF Spec

\* Whatever earlier reloads left behind, one that no conflicting one overlaps
\* brings every balancer in line with the current server conf
\* (serverDataConfReload, gslbDataConfReload).
THEOREM OneReloadSettles == Spec => []SettledCurrent
<1>1. SInv => SettledCurrent
  BY DEF SInv, Settling, SettledCurrent, BasicPushed, SlowPushed, BasicRight,
         SlowRight, Busy, Before
<1> QED
  BY <1>1, SettledInvariance, PTL

\* After an undisturbed server data reload the transports are those of the
\* conf, until a request that started with another one inserts its own
\* (setTransports, getTransport).
THEOREM TransportsFollow == Spec => []TransportCurrent
<1>1. SInv => TransportCurrent
  BY DEF SInv
<1> QED
  BY <1>1, SettledInvariance, PTL
=============================================================================
