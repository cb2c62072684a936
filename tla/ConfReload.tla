----------------------------- MODULE ConfReload -----------------------------
(***************************************************************************)
(* Hot reload of the two halves of the cluster configuration:              *)
(* bfe_server/bfe_confdata_load.go, bfe_balance/bal_table.go and the map   *)
(* of transports in bfe_server/reverseproxy.go.                            *)
(*                                                                         *)
(* Each reload is a request to the monitor port, served by a goroutine of  *)
(* its own, so reloads overlap.  A server data reload swaps the conf, then *)
(* rebuilds the transports and pushes retry, EPP and slow start settings   *)
(* into the balancers; a gslb reload rebuilds the table of balancers and   *)
(* then pushes the settings of whatever conf is current.  Locks are taken  *)
(* and dropped between these steps: confLock around the swap, tsMu around  *)
(* the transports, BalTable.lock around each pass over the table.  Proxied *)
(* requests, which keep the conf they started with, look transports up     *)
(* and create missing ones.  Files that fail to load or to check change    *)
(* nothing and are left out.  Definitions named Bad... are plausible slips, *)
(* used by the sensitivity checks only.                                    *)
(***************************************************************************)
EXTENDS Integers, FiniteSets

CONSTANTS
    Clusters, Subs,
    ServerConfs,   \* what the server data files may say
    GslbConfs,     \* what the gslb and cluster table files may say
    Reloaders,     \* goroutines serving reload requests
    Requests,      \* goroutines serving proxied requests
    MaxReloads,    \* bound on the number of reloads
    NoConf         \* a cluster a conf does not name

Protocols == {"http", "other"}
Runnable == {"a", "b"}                       \* EPP address tables
EppTables == Runnable \cup {"none", "bad"}   \* "bad": newEPPRuntime fails

\* shape is every field setTransports compares, dial is TimeoutConnSrv.
ClusterConf == [basic : Nat, epp : EppTables, slow : Nat,
                protocol : Protocols, shape : Nat, dial : Nat]

\* A cluster's entry in the two files of a gslb reload: its sub-clusters,
\* and its list of backends, 0 if the cluster table lacks the cluster.
GslbEntry == [subs : SUBSET Subs \ {{}}, list : Nat]

ASSUME ConfReloadAssumption ==
    /\ ServerConfs \subseteq [Clusters -> ClusterConf \cup {NoConf}]
    /\ GslbConfs \subseteq [Clusters -> GslbEntry \cup {NoConf}]
    /\ MaxReloads \in Nat
    /\ NoConf \notin ClusterConf \cup GslbEntry

Named(conf) == {c \in Clusters : conf[c] # NoConf}
Complete(g) == \A c \in Named(g) : g[c].list # 0

VARIABLES
    srvConf,     \* srv.ServerConf
    transports,  \* ReverseProxy.transports: the conf a transport was made of
    inTable,     \* the clusters in BalTable.balTable
    gen,         \* which balancer of a cluster is the latest
    basic,       \* its retryMax, crossRetry, hashConf and BalanceMode
    slow,        \* slowStartTime of its sub-clusters
    backends,    \* the list of its sub-clusters, NoConf if it has no such one
    versions,    \* BalTable.versions: the files last applied
    epp,         \* the EPP runtimes that run, each with its balancer
    released,    \* the balancers on which Release was called
    at,          \* where each goroutine serving a reload is
    kind,        \* which reload it serves
    file,        \* the conf it has loaded
    arg,         \* the ServerConf it has read
    todo,        \* the clusters its SetSlowStart has still to visit
    req,         \* the request each goroutine is in
    reloads      \* number of reloads so far

\* History variables, read by no guard.
VARIABLES
    alone,       \* the goroutines whose reload no other has disturbed
    balSettled,  \* the last change of conf or table went undisturbed
    tsSettled    \* and so did the last change of the transports

balancers == <<inTable, gen, basic, slow, backends, versions, epp, released>>
reloader == <<at, kind, file, arg, todo>>
settled == <<balSettled, tsSettled>>
vars == <<srvConf, transports, balancers, reloader, req, reloads, alone, settled>>

Bals == Clusters \X Nat
Bal(c) == <<c, gen[c]>>
Busy == {p \in Reloaders : at[p] # "idle"}
NoRequest == [at |-> "idle", conf |-> NoConf, cluster |-> NoConf]

TypeOK ==
    /\ srvConf \in ServerConfs
    /\ transports \in [Clusters -> ClusterConf \cup {NoConf}]
    /\ inTable \subseteq Clusters
    /\ gen \in [Clusters -> Nat]
    /\ basic \in [Clusters -> Nat]
    /\ slow \in [Clusters -> [Subs -> Nat]]
    /\ backends \in [Clusters -> [Subs -> Nat \cup {NoConf}]]
    /\ versions \in GslbConfs
    /\ epp \subseteq Bals \X Runnable
    /\ released \subseteq Bals
    /\ at \in [Reloaders -> {"idle", "swap", "arg", "transports", "reload",
                           "read", "basic", "lock", "slow"}]
    /\ kind \in [Reloaders -> {"none", "server", "gslb"}]
    /\ file \in [Reloaders -> ServerConfs \cup GslbConfs \cup {NoConf}]
    /\ arg \in [Reloaders -> ServerConfs \cup {NoConf}]
    /\ todo \in [Reloaders -> SUBSET Clusters]
    /\ req \in [Requests -> [at : {"idle", "check", "insert"},
                             conf : ServerConfs \cup {NoConf},
                             cluster : Clusters \cup {NoConf}]]
    /\ reloads \in 0 .. MaxReloads
    /\ alone \subseteq Reloaders
    /\ balSettled \in BOOLEAN /\ tsSettled \in BOOLEAN

-----------------------------------------------------------------------------
(* What a conf does to a balancer.                                          *)

\* BalanceGslb.SetGslbBasic on every balancer of the table the conf names.
\* A runtime that cannot be built leaves the old one running.
BasicOf(conf) ==
    [c \in Clusters |-> IF c \in inTable \cap Named(conf) THEN conf[c].basic
                                                          ELSE basic[c]]

BadEppOf(conf) ==
    LET met == {c \in inTable \cap Named(conf) : conf[c].epp # "none"}
    IN  {e \in epp : e[1] \notin {Bal(c) : c \in inTable \cap Named(conf)}}
            \cup {<<Bal(c), conf[c].epp>> : c \in met}
EppOf(conf) ==
    LET met == {c \in inTable \cap Named(conf) : conf[c].epp # "bad"}
    IN  {e \in epp : e[1] \notin {Bal(c) : c \in met}}
            \cup {<<Bal(c), conf[c].epp>> : c \in {d \in met : conf[d].epp # "none"}}

\* SubCluster.setSlowStart on the sub-clusters of one balancer.
BadSlowOf(c, conf) ==
    [s \in Subs |-> IF slow[c][s] # 0 \/ backends[c][s] = NoConf THEN slow[c][s]
                                                              ELSE conf[c].slow]
SlowOf(c, conf) ==
    [s \in Subs |-> IF backends[c][s] = NoConf THEN 0 ELSE conf[c].slow]

\* BalanceGslb.Reload and BackendReload: sub-clusters are added and removed,
\* then all get the new list, none if the cluster table lacks the cluster.
BackendsOf(c, g, old) ==
    [s \in Subs |->
        IF s \notin g[c].subs THEN NoConf
        ELSE IF g[c].list # 0 THEN g[c].list
        ELSE IF old[s] # NoConf THEN old[s] ELSE 0]

NoBackends == [s \in Subs |-> NoConf]
NoSlow == [s \in Subs |-> 0]

\* InitDataLoad: the server does not start if a step reports an error, which
\* an EPP runtime that cannot be built does not.
Init ==
    \E conf \in ServerConfs, g \in GslbConfs :
        /\ Complete(g)
        /\ srvConf = conf
        /\ transports = conf
        /\ inTable = Named(g)
        /\ gen = [c \in Clusters |-> 0]
        /\ basic = [c \in Clusters |-> IF c \in Named(g) \cap Named(conf)
                                       THEN conf[c].basic ELSE 0]
        /\ backends = [c \in Clusters |->
                         IF c \in Named(g) THEN BackendsOf(c, g, NoBackends)
                                           ELSE NoBackends]
        /\ slow = [c \in Clusters |->
                     IF c \in Named(g) \cap Named(conf)
                     THEN [s \in Subs |-> IF s \in g[c].subs THEN conf[c].slow
                                                             ELSE 0]
                     ELSE NoSlow]
        /\ versions = g
        /\ epp = {<<<<c, 0>>, conf[c].epp>> :
                     c \in {d \in Named(g) \cap Named(conf) :
                                conf[d].epp \in Runnable}}
        /\ released = {}
        /\ at = [p \in Reloaders |-> "idle"]
        /\ kind = [p \in Reloaders |-> "none"]
        /\ file = [p \in Reloaders |-> NoConf]
        /\ arg = [p \in Reloaders |-> NoConf]
        /\ todo = [p \in Reloaders |-> {}]
        /\ req = [r \in Requests |-> NoRequest]
        /\ reloads = 0
        /\ alone = {} /\ balSettled = TRUE /\ tsSettled = TRUE

-----------------------------------------------------------------------------
(* A reload request arrives and its files are loaded and checked.  Two gslb *)
(* reloads push the same conf; any other overlap is a conflict, and so is   *)
(* one with a reload in conflict, which may hold an old conf.               *)

Begin(p, first, k, conf) ==
    LET rivals == {q \in Busy : "server" \in {k, kind[q]} \/ q \notin alone}
    IN  /\ p \notin Busy
        /\ reloads < MaxReloads
        /\ reloads' = reloads + 1
        /\ at' = [at EXCEPT ![p] = first]
        /\ kind' = [kind EXCEPT ![p] = k]
        /\ file' = [file EXCEPT ![p] = conf]
        /\ alone' = IF rivals = {} THEN alone \cup {p}
                                   ELSE alone \ (rivals \cup {p})
        /\ UNCHANGED <<srvConf, transports, balancers, arg, todo, req, settled>>

ServerDataConfReload(p) ==
    \E conf \in ServerConfs : Begin(p, "swap", "server", conf)

GslbDataConfReload(p) ==
    \E g \in GslbConfs : Begin(p, "reload", "gslb", g)

Goto(p, next) == at' = [at EXCEPT ![p] = next]

\* No goroutine is inside SetSlowStart, which holds the read lock for its
\* whole pass; the passes that need the write lock are single steps.
NoReader == \A p \in Reloaders : at[p] # "slow"

-----------------------------------------------------------------------------
(* serverDataConfReload, one action for each lock it takes.                 *)

SwapServerConf(p) ==
    /\ at[p] = "swap"
    /\ srvConf' = file[p]
    /\ Goto(p, "arg")
    /\ balSettled' = FALSE /\ tsSettled' = FALSE
    /\ UNCHANGED <<transports, balancers, kind, file, arg, todo, req,
                   reloads, alone>>

\* srv.ServerConf is read again, for setTransports, and not under the lock.
ReadClusterMap(p) ==
    /\ at[p] = "arg"
    /\ arg' = [arg EXCEPT ![p] = srvConf]
    /\ Goto(p, "transports")
    /\ UNCHANGED <<srvConf, transports, balancers, kind, file, todo, req,
                   reloads, alone, settled>>

\* An HTTP transport with the compared fields unchanged is kept.
BadKeepsTransport(old, conf) ==
    old # NoConf /\ old.protocol = "http" /\ conf.protocol = "http"

KeepsTransport(old, conf) ==
    /\ old # NoConf /\ old.protocol = "http"
    /\ conf.protocol = "http" /\ conf.shape = old.shape

SetTransports(p) ==
    /\ at[p] = "transports"
    /\ transports' =
         [c \in Clusters |->
            IF arg[p][c] = NoConf THEN NoConf
            ELSE IF KeepsTransport(transports[c], arg[p][c]) THEN transports[c]
            ELSE arg[p][c]]
    /\ Goto(p, "basic")
    /\ tsSettled' = (p \in alone)
    /\ UNCHANGED <<srvConf, balancers, kind, file, arg, todo, req, reloads,
                   alone, balSettled>>

-----------------------------------------------------------------------------
(* gslbDataConfReload.                                                      *)

Finish(p) ==
    /\ Goto(p, "idle")
    /\ kind' = [kind EXCEPT ![p] = "none"]
    /\ file' = [file EXCEPT ![p] = NoConf]
    /\ arg' = [arg EXCEPT ![p] = NoConf]

\* The balancers of the old table to release: those the new file lacks.
BadRemainder(g) == inTable
Remainder(g) == inTable \ Named(g)

\* Release stops the EPP runtime of a balancer for good.
BadEppAfterRelease(gone) == epp
EppAfterRelease(gone) == {e \in epp : e[1] \notin gone}

\* A cluster that is new to the table gets a new balancer, whose settings
\* are defaults; any cluster without a list makes the reload fail, after the
\* table has been replaced and before the settings are pushed, and that
\* disturbs the reloads which have already pushed theirs.
BadBackendsFor(c, g) ==
    IF c \in inTable THEN [s \in Subs |-> IF s \in g[c].subs THEN backends[c][s]
                                                             ELSE NoConf]
    ELSE BackendsOf(c, g, NoBackends)
BackendsFor(c, g) ==
    BackendsOf(c, g, IF c \in inTable THEN backends[c] ELSE NoBackends)

BalTableReload(p) ==
    LET g == file[p]
        new == Named(g) \ inTable
        gone == {Bal(c) : c \in Remainder(g)}
    IN  /\ at[p] = "reload" /\ NoReader
        /\ inTable' = Named(g)
        /\ gen' = [c \in Clusters |-> IF c \in new THEN gen[c] + 1 ELSE gen[c]]
        /\ basic' = [c \in Clusters |-> IF c \in new THEN 0 ELSE basic[c]]
        /\ backends' = [c \in Clusters |-> IF c \in Named(g) THEN BackendsFor(c, g)
                                                            ELSE backends[c]]
        /\ slow' = [c \in Clusters |->
                      IF c \in Named(g)
                      THEN [s \in Subs |->
                              IF c \notin new /\ s \in g[c].subs
                                 /\ backends[c][s] # NoConf
                              THEN slow[c][s] ELSE 0]
                      ELSE slow[c]]
        /\ versions' = g
        /\ released' = released \cup gone
        /\ epp' = EppAfterRelease(gone)
        /\ IF Complete(g)
           THEN /\ Goto(p, "read") /\ UNCHANGED <<kind, file, arg, alone>>
           ELSE Finish(p) /\ alone' = {}
        /\ balSettled' = FALSE
        /\ UNCHANGED <<srvConf, transports, todo, req, reloads, tsSettled>>

ReadServerConf(p) ==
    /\ at[p] = "read"
    /\ arg' = [arg EXCEPT ![p] = srvConf]
    /\ Goto(p, "basic")
    /\ UNCHANGED <<srvConf, transports, balancers, kind, file, todo, req,
                   reloads, alone, settled>>

-----------------------------------------------------------------------------
(* The end of both reloads.                                                 *)

\* The conf a reload pushes into the balancers.
Pushed(p) == IF kind[p] = "server" THEN file[p] ELSE arg[p]

SetGslbBasic(p) ==
    /\ at[p] = "basic" /\ NoReader
    /\ basic' = BasicOf(Pushed(p))
    /\ epp' = EppOf(Pushed(p))
    /\ Goto(p, "lock")
    /\ UNCHANGED <<srvConf, transports, inTable, gen, slow, backends, versions,
                   released, kind, file, arg, todo, req, reloads, alone, settled>>

\* SetSlowStart takes the read lock, visits the balancers in the order of a
\* map, each under a lock of its own, and ends the reload.
Visits(conf) == inTable \cap Named(conf)

SetSlowStart(p) ==
    /\ at[p] = "lock"
    /\ todo' = [todo EXCEPT ![p] = Visits(Pushed(p))]
    /\ Goto(p, "slow")
    /\ UNCHANGED <<srvConf, transports, balancers, kind, file, arg, req, reloads,
                   alone, settled>>

SetSlowStartOne(p) ==
    \E c \in todo[p] :
        /\ at[p] = "slow"
        /\ slow' = [slow EXCEPT ![c] = SlowOf(c, Pushed(p))]
        /\ todo' = [todo EXCEPT ![p] = @ \ {c}]
        /\ UNCHANGED <<srvConf, transports, inTable, gen, basic, backends,
                       versions, epp, released, at, kind, file, arg, req, reloads,
                       alone, settled>>

SetSlowStartDone(p) ==
    /\ at[p] = "slow" /\ todo[p] = {}
    /\ Finish(p)
    /\ alone' = alone \ {p}
    /\ balSettled' = (balSettled \/ p \in alone)
    /\ UNCHANGED <<srvConf, transports, balancers, todo, req, reloads, tsSettled>>

-----------------------------------------------------------------------------
(* getTransport, with the conf the request started with.  Making a          *)
(* transport and adding it to the map is not atomic with the lookup.        *)

StartRequest(r) ==
    /\ req[r].at = "idle"
    /\ \E c \in Named(srvConf) :
         req' = [req EXCEPT ![r] = [at |-> "check", conf |-> srvConf, cluster |-> c]]
    /\ UNCHANGED <<srvConf, transports, balancers, reloader, reloads, alone, settled>>

GetTransport(r) ==
    /\ req[r].at = "check"
    /\ req' = [req EXCEPT ![r] = IF transports[req[r].cluster] # NoConf
                                 THEN NoRequest ELSE [@ EXCEPT !.at = "insert"]]
    /\ UNCHANGED <<srvConf, transports, balancers, reloader, reloads, alone, settled>>

InsertTransport(r) ==
    /\ req[r].at = "insert"
    /\ transports' = [transports EXCEPT ![req[r].cluster] =
                         req[r].conf[req[r].cluster]]
    /\ req' = [req EXCEPT ![r] = NoRequest]
    /\ tsSettled' = (tsSettled /\ req[r].conf = srvConf)
    /\ UNCHANGED <<srvConf, balancers, reloader, reloads, alone, balSettled>>

ReloadStep(p) ==
    \/ ServerDataConfReload(p) \/ GslbDataConfReload(p)
    \/ SwapServerConf(p) \/ ReadClusterMap(p) \/ SetTransports(p)
    \/ BalTableReload(p) \/ ReadServerConf(p)
    \/ SetGslbBasic(p) \/ SetSlowStart(p) \/ SetSlowStartOne(p) \/ SetSlowStartDone(p)

RequestStep(r) == StartRequest(r) \/ GetTransport(r) \/ InsertTransport(r)

Next == (\E p \in Reloaders : ReloadStep(p)) \/ (\E r \in Requests : RequestStep(r))

Spec == Init /\ [][Next]_vars

-----------------------------------------------------------------------------
(* What the reloads promise.                                                *)

\* No health check outlives its balancer, and no balancer has two: one that
\* has left the table (BalTableReload) has no EPP runtime, and no overlapping
\* SetGslbBasic can start one for it again, since that only visits the table
\* of the moment it holds the lock.
NoOrphanEpp ==
    /\ \A e \in epp : e[1][1] \in inTable /\ e[1] = Bal(e[1][1])
    /\ \A e, f \in epp : e[1] = f[1] => e = f

\* A balancer requests can find with Lookup has never been released: its
\* backends are open and its health checks may run.
TableLive == \A c \in inTable : Bal(c) \notin released

\* The table always is what one gslb reload made of its two files, however
\* reloads overlap and even if it reported an error, except for the clusters
\* the cluster table lacks.
TableWhole ==
    /\ inTable = Named(versions)
    /\ \A c \in inTable :
         versions[c].list # 0 =>
            \A s \in Subs :
                backends[c][s] = IF s \in versions[c].subs THEN versions[c].list
                                                          ELSE NoConf

\* One reload of either kind that overlaps no conflicting one brings every
\* balancer in line with the current server conf, whatever earlier overlaps
\* and failures have left behind: retry and EPP settings, and the slow start
\* time of every sub-cluster, those added since included.
SettledCurrent ==
    (Busy = {} /\ balSettled) =>
        \A c \in inTable \cap Named(srvConf) :
            /\ basic[c] = srvConf[c].basic
            /\ \A s \in Subs :
                 backends[c][s] # NoConf => slow[c][s] = srvConf[c].slow
            /\ srvConf[c].epp # "bad" =>
                 {e[2] : e \in {f \in epp : f[1] = Bal(c)}} = {srvConf[c].epp} \ {"none"}

\* After an undisturbed server data reload there is a transport for exactly
\* the clusters of the conf, with the conf's protocol and compared fields, as
\* long as no request that started with another conf adds one.
TransportCurrent ==
    tsSettled =>
        \A c \in Clusters :
            \/ transports[c] = NoConf /\ srvConf[c] = NoConf
            \/ /\ transports[c] # NoConf /\ srvConf[c] # NoConf
               /\ transports[c].protocol = srvConf[c].protocol
               /\ transports[c].shape = srvConf[c].shape

\* "once cluster's timeout updated, dailer use new value" (the comment in
\* createTransport): the transport of a cluster dials with the current
\* TimeoutConnSrv.
DialTimeoutCurrent ==
    tsSettled =>
        \A c \in Named(srvConf) : transports[c] # NoConf =>
            transports[c].dial = srvConf[c].dial
=============================================================================
