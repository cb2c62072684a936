--------------------------- MODULE BackendHealth ---------------------------
(***************************************************************************)
(* One backend server (bfe_balance/backend/bfe_backend.go) and its passive *)
(* and active health check (bfe_balance/backend/health_check.go).          *)
(*                                                                         *)
(* Any number of request goroutines report the outcome of a forwarding try *)
(* to the backend.  The report that brings the number of consecutive       *)
(* failures to the threshold of the cluster takes the backend down and     *)
(* starts a goroutine, check(), which probes the backend until it has seen *)
(* enough consecutive successes and brings the backend up again, or until  *)
(* the backend is removed from the configuration.                          *)
(*                                                                         *)
(* Every critical section of the backend's RWMutex is one action; what the *)
(* code does between two critical sections (reading the configuration of   *)
(* the cluster, probing, starting the goroutine) is an action of its own,  *)
(* so that everything another goroutine can do in between is explored.     *)
(*                                                                         *)
(* Definitions named Bad... are plausible slips in the code: each stands   *)
(* right before the definition it would replace and is used by nothing     *)
(* but the sensitivity checks of PROJECT.json.                             *)
(***************************************************************************)
EXTENDS Integers, FiniteSets

CONSTANTS
    Requests,        \* goroutines that forward requests to the backend
    Checkers,        \* identities for the goroutines started by "go check"
    FailThresholds,  \* values of BackendCheck.FailNum
    SuccThresholds,  \* values of BackendCheck.SuccNum
    MaxFails         \* bound: failures counted since the last reset

ASSUME RequestsAssumption == IsFiniteSet(Checkers)
ASSUME ThresholdAssumption ==
    /\ FailThresholds \subseteq Int
    /\ SuccThresholds \subseteq (Nat \ {0})  \* cluster_conf_load.go:874
    /\ MaxFails \in Nat

\* getCheckConf returns nil: the cluster is not in the configuration (no
\* configuration proper has a success threshold of 0).
NoConf == [failNum |-> 0, succNum |-> 0]

CheckConfs ==
    {NoConf} \cup
    [failNum : FailThresholds, succNum : SuccThresholds]

VARIABLES
    avail,      \* back.avail
    restarted,  \* back.restarted
    failNum,    \* back.failNum
    succNum,    \* back.succNum
    closed,     \* back.closeChan is closed
    conf,       \* what getCheckConf(cluster) returns
    healthy,    \* environment: a probe of the server succeeds
    rpc,        \* per request goroutine: where it is in OnFail
    rconf,      \* per request goroutine: the checkConf read by UpdateStatus,
                \* NoConf when it has none in use
    cpc,        \* per checker goroutine: where it is in check()
    cconf       \* per checker goroutine: the checkConf read in this round,
                \* NoConf when it has none in use

\* History variables, read by no guard.
VARIABLES
    streak,     \* successful probes since the last failed one or the last
                \* recovery
    freshFails, \* failure reports since the last success or recovery
    ramped      \* slow start has seen the recovery from the last outage

reqVars  == <<rpc, rconf>>
chkVars  == <<cpc, cconf>>
histVars == <<streak, freshFails, ramped>>
vars == <<avail, restarted, failNum, succNum, closed, conf, healthy,
          rpc, rconf, cpc, cconf, streak, freshFails, ramped>>

RequestPCs == {"idle", "added", "gotConf", "spawn"}
CheckerPCs == {"none", "select", "getConf", "probe", "addSucc", "resetSucc",
               "checkAvail", "setRestart", "setAvail"}

TypeOK ==
    /\ avail \in BOOLEAN
    /\ restarted \in BOOLEAN
    /\ failNum \in Nat
    /\ succNum \in Nat
    /\ closed \in BOOLEAN
    /\ conf \in CheckConfs
    /\ healthy \in BOOLEAN
    /\ rpc \in [Requests -> RequestPCs]
    /\ rconf \in [Requests -> CheckConfs]
    /\ cpc \in [Checkers -> CheckerPCs]
    /\ cconf \in [Checkers -> CheckConfs]
    /\ streak \in Nat
    /\ freshFails \in Nat
    /\ ramped \in BOOLEAN

Running  == {c \in Checkers : cpc[c] # "none"}
Spawning == {r \in Requests : rpc[r] = "spawn"}

\* NewBfeBackend, in a cluster whose configuration is loaded.
Init ==
    /\ avail = TRUE
    /\ restarted = FALSE
    /\ failNum = 0
    /\ succNum = 0
    /\ closed = FALSE
    /\ conf \in CheckConfs \ {NoConf}
    /\ healthy = TRUE
    /\ rpc = [r \in Requests |-> "idle"]
    /\ rconf = [r \in Requests |-> NoConf]
    /\ cpc = [c \in Checkers |-> "none"]
    /\ cconf = [c \in Checkers |-> NoConf]
    /\ streak = 0
    /\ freshFails = 0
    /\ ramped = TRUE

-----------------------------------------------------------------------------
(* Reports of the request goroutines.                                      *)

BadSetAvail(v) == avail' = v /\ failNum' = failNum

\* setAvail, called with the lock held: coming up forgets the failures.
setAvail(v) ==
    /\ avail' = v
    /\ failNum' = IF v THEN 0 ELSE failNum

BadOnSuccess(r) ==
    /\ rpc[r] = "idle"
    /\ failNum' = failNum - 1
    /\ freshFails' = 0
    /\ UNCHANGED <<avail, restarted, succNum, closed, conf, healthy,
                   reqVars, chkVars, streak, ramped>>

\* OnSuccess: back.ResetFailNum().
OnSuccess(r) ==
    /\ rpc[r] = "idle"
    /\ failNum' = 0
    /\ freshFails' = 0
    /\ UNCHANGED <<avail, restarted, succNum, closed, conf, healthy,
                   reqVars, chkVars, streak, ramped>>

\* OnFail, first half: back.AddFailNum().
AddFailNum(r) ==
    /\ rpc[r] = "idle"
    /\ failNum < MaxFails
    /\ failNum' = failNum + 1
    /\ freshFails' = freshFails + 1
    /\ rpc' = [rpc EXCEPT ![r] = "added"]
    /\ UNCHANGED <<avail, restarted, succNum, closed, conf, healthy,
                   rconf, chkVars, streak, ramped>>

\* health_check.UpdateStatus reads the configuration of the cluster; it
\* returns when there is none.
GetCheckConf(r) ==
    /\ rpc[r] = "added"
    /\ rconf' = [rconf EXCEPT ![r] = conf]
    /\ rpc' = [rpc EXCEPT ![r] = IF conf # NoConf THEN "gotConf" ELSE "idle"]
    /\ UNCHANGED <<avail, restarted, failNum, succNum, closed, conf, healthy,
                   chkVars, histVars>>

BadStatusFlipped(prevStatus) == TRUE

\* What backend.UpdateStatus returns once it has set avail to false.
StatusFlipped(prevStatus) == prevStatus

\* backend.UpdateStatus: takes the backend down at the threshold; only the
\* caller that flips the status goes on to start a checker.
UpdateStatus(r) ==
    /\ rpc[r] = "gotConf"
    /\ \/ /\ failNum >= rconf[r].failNum
          /\ setAvail(FALSE)
          /\ rpc' = [rpc EXCEPT ![r] = IF StatusFlipped(avail) THEN "spawn"
                                                             ELSE "idle"]
          /\ ramped' = (ramped /\ ~avail)
       \/ /\ failNum < rconf[r].failNum
          /\ rpc' = [rpc EXCEPT ![r] = "idle"]
          /\ UNCHANGED <<avail, failNum, ramped>>
    /\ rconf' = [rconf EXCEPT ![r] = NoConf]
    /\ UNCHANGED <<restarted, succNum, closed, conf, healthy, chkVars,
                   streak, freshFails>>

\* go check(backend, cluster, httpsConf)
StartCheck(r) ==
    /\ rpc[r] = "spawn"
    /\ rpc' = [rpc EXCEPT ![r] = "idle"]
    /\ \E c \in Checkers :
         /\ cpc[c] = "none"
         /\ cpc' = [cpc EXCEPT ![c] = "select"]
    /\ UNCHANGED <<avail, restarted, failNum, succNum, closed, conf, healthy,
                   rconf, cconf, histVars>>

-----------------------------------------------------------------------------
(* The checker goroutine: the loop of check().  time.Sleep is not a step:  *)
(* a sleeping checker is one that has not taken its next step.             *)

Goto(c, label) == cpc' = [cpc EXCEPT ![c] = label]

BadAfterSelect == "getConf"

\* Where the select on the close channel leads.
AfterSelect == IF closed THEN "none" ELSE "getConf"

\* The top of the loop.
CheckSelect(c) ==
    /\ cpc[c] = "select"
    /\ Goto(c, AfterSelect)
    /\ cconf' = [cconf EXCEPT ![c] = NoConf]
    /\ UNCHANGED <<avail, restarted, failNum, succNum, closed, conf, healthy,
                   reqVars, histVars>>

BadAfterGetConf == IF conf # NoConf THEN "probe" ELSE "none"

\* Without a configuration the round, but not the goroutine, is over.
AfterGetConf == IF conf # NoConf THEN "probe" ELSE "select"

\* The latest configuration is read in every round.
CheckGetConf(c) ==
    /\ cpc[c] = "getConf"
    /\ cconf' = [cconf EXCEPT ![c] = conf]
    /\ Goto(c, AfterGetConf)
    /\ UNCHANGED <<avail, restarted, failNum, succNum, closed, conf, healthy,
                   reqVars, histVars>>

\* CheckConnect.
CheckProbe(c) ==
    /\ cpc[c] = "probe"
    /\ Goto(c, IF healthy THEN "addSucc" ELSE "resetSucc")
    /\ streak' = IF healthy THEN streak + 1 ELSE 0
    /\ UNCHANGED <<avail, restarted, failNum, succNum, closed, conf, healthy,
                   reqVars, cconf, freshFails, ramped>>

BadCheckResetSucc(c) ==
    /\ cpc[c] = "resetSucc"
    /\ Goto(c, "select")
    /\ UNCHANGED <<avail, restarted, failNum, succNum, closed, conf, healthy,
                   reqVars, cconf, histVars>>

\* backend.ResetSuccNum() after a failed probe.
CheckResetSucc(c) ==
    /\ cpc[c] = "resetSucc"
    /\ succNum' = 0
    /\ Goto(c, "select")
    /\ UNCHANGED <<avail, restarted, failNum, closed, conf, healthy, reqVars,
                   cconf, histVars>>

\* backend.AddSuccNum() after a successful probe.
CheckAddSucc(c) ==
    /\ cpc[c] = "addSucc"
    /\ succNum' = succNum + 1
    /\ Goto(c, "checkAvail")
    /\ UNCHANGED <<avail, restarted, failNum, closed, conf, healthy, reqVars,
                   cconf, histVars>>

BadCheckAvailTrue(c) == succNum' = 0 /\ Goto(c, "setAvail")

\* Enough successes: they are used up.
CheckAvailTrue(c) == succNum' = 0 /\ Goto(c, "setRestart")

\* Not yet: the next round adds to them.
CheckAvailFalse(c) == succNum' = succNum /\ Goto(c, "select")

\* backend.CheckAvail(*checkConf.SuccNum)
CheckAvail(c) ==
    /\ cpc[c] = "checkAvail"
    /\ \/ succNum >= cconf[c].succNum /\ CheckAvailTrue(c)
       \/ succNum < cconf[c].succNum /\ CheckAvailFalse(c)
    /\ UNCHANGED <<avail, restarted, failNum, closed, conf, healthy, reqVars,
                   cconf, histVars>>

\* backend.SetRestart(true)
CheckSetRestart(c) ==
    /\ cpc[c] = "setRestart"
    /\ restarted' = TRUE
    /\ Goto(c, "setAvail")
    /\ UNCHANGED <<avail, failNum, succNum, closed, conf, healthy, reqVars,
                   cconf, histVars>>

\* backend.SetAvail(true), after which the goroutine ends.
CheckSetAvail(c) ==
    /\ cpc[c] = "setAvail"
    /\ setAvail(TRUE)
    /\ Goto(c, "none")
    /\ streak' = 0
    /\ freshFails' = 0
    /\ cconf' = [cconf EXCEPT ![c] = NoConf]
    /\ UNCHANGED <<restarted, succNum, closed, conf, healthy, reqVars,
                   ramped>>

-----------------------------------------------------------------------------
(* The rest of the system, as far as the backend sees it.                  *)

\* BalanceRR.checkSlowStart notices that the backend came up.
ConsumeRestart ==
    /\ restarted
    /\ restarted' = FALSE
    /\ ramped' = TRUE
    /\ UNCHANGED <<avail, failNum, succNum, closed, conf, healthy, reqVars,
                   chkVars, streak, freshFails>>

\* The backend is removed from the configuration: close(back.closeChan).
Release ==
    /\ ~closed
    /\ closed' = TRUE
    /\ UNCHANGED <<avail, restarted, failNum, succNum, conf, healthy, reqVars,
                   chkVars, histVars>>

\* The cluster configuration is reloaded.
ReloadConf ==
    /\ conf' \in CheckConfs \ {conf}
    /\ UNCHANGED <<avail, restarted, failNum, succNum, closed, healthy,
                   reqVars, chkVars, histVars>>

\* The server goes down or comes back.
ServerFlips ==
    /\ healthy' = ~healthy
    /\ UNCHANGED <<avail, restarted, failNum, succNum, closed, conf, reqVars,
                   chkVars, histVars>>

RequestStep(r) == AddFailNum(r) \/ OnSuccess(r) \/ GetCheckConf(r)
                  \/ UpdateStatus(r) \/ StartCheck(r)
CheckerStep(c) == CheckSelect(c) \/ CheckGetConf(c) \/ CheckProbe(c)
                  \/ CheckResetSucc(c) \/ CheckAddSucc(c) \/ CheckAvail(c)
                  \/ CheckSetRestart(c) \/ CheckSetAvail(c)

Next ==
    \/ \E r \in Requests : RequestStep(r)
    \/ \E c \in Checkers : CheckerStep(c)
    \/ ConsumeRestart
    \/ Release
    \/ ReloadConf
    \/ ServerFlips

Spec == Init /\ [][Next]_vars

(***************************************************************************)
(* Goroutines that have something to do get to do it (the Go scheduler is  *)
(* preemptive and time.Sleep returns): the checkers, and a request inside  *)
(* OnFail.  Nothing forces requests to arrive, a reload, or a server to    *)
(* change its mind.                                                        *)
(***************************************************************************)
Fairness ==
    /\ \A r \in Requests : WF_vars(GetCheckConf(r) \/ UpdateStatus(r)
                                   \/ StartCheck(r))
    /\ \A c \in Checkers : WF_vars(CheckerStep(c))

FairSpec == Spec /\ Fairness

-----------------------------------------------------------------------------
(* Properties.                                                             *)

\* "at most start 1 check goroutine for each backend" (health_check.go:57):
\* the goroutines that run check() and the requests that are about to start
\* one are never two, and none runs for a backend that takes traffic.
AtMostOneChecker ==
    /\ \A c, d \in Running : c = d
    /\ \A r, s \in Spawning : r = s
    /\ Running = {} \/ Spawning = {}
    /\ avail => Running = {} /\ Spawning = {}

\* A backend that is down and still configured has a goroutine that will
\* bring it up: it is never down with nobody left to probe it.
DownIsWatched ==
    ~avail /\ ~closed => Running # {} \/ Spawning # {}

\* A backend comes up only after as many probes in a row as the
\* configuration the checker read asks for have succeeded, whatever earlier
\* outages left in succNum.
RecoveryIsEarned ==
    [][~avail /\ avail' =>
         \E c \in Checkers : cpc[c] = "setAvail" /\ streak >= cconf[c].succNum]_vars

\* A backend is taken down by failures reported since its last success and
\* since its last recovery: failures of an earlier outage whose report is
\* delayed past the recovery do not count.
TakedownIsFresh ==
    [][avail /\ ~avail' =>
         \E r \in Requests : rpc[r] = "gotConf" /\ freshFails >= rconf[r].failNum]_vars

\* Slow start never misses a recovery: a backend that takes traffic again
\* has either been ramped by the balancer or is marked for it.
RecoveryIsAnnounced == avail => restarted \/ ramped

HealthyComesBack ==
    (<>[](healthy /\ conf # NoConf)) => (~avail ~> (avail \/ closed))

ReleaseStopsChecker == closed ~> (Running = {} /\ (Spawning = {}))

\* The checker goroutine does its duty and no more: a server that stays
\* healthy in a cluster that stays configured does not stay down, and removing
\* a backend ends its checker.
CheckerServes == HealthyComesBack /\ ReleaseStopsChecker

=============================================================================
