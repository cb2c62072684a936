----------------------------- MODULE EppRuntime -----------------------------
(***************************************************************************)
(* The endpoint picker (EPP) addresses of one cluster: eppRuntime in       *)
(* bfe_balance/bal_gslb/epp_runtime.go and the parts of bal_gslb.go that   *)
(* build, replace and use it.  The addresses are ordered, the first is the *)
(* primary.  A goroutine probes all of them in rounds and moves the active *)
(* index: away from an address that keeps failing, and back to a better    *)
(* one that has recovered, with hysteresis.  A request starts at the       *)
(* active address and tries the others in ring order.                      *)
(*                                                                         *)
(* A round reads the active index, probes without the lock and applies the *)
(* results under the lock; nothing else writes the active index, so it is  *)
(* one action.  Time is counted in ticks; a cooldown is the time left.     *)
(* Definitions named Bad... are plausible slips, used by the sensitivity   *)
(* checks only.                                                            *)
(***************************************************************************)
EXTENDS Integers, FiniteSetsExt

CONSTANTS
    N,             \* number of addresses
    FailThresholds, \* values of EPPCheck.FailThreshold over time
    SuccessThresholds, \* values of EPPCheck.SuccessThreshold over time
    Cooldown,      \* EPPCheck.Cooldown, in ticks
    Elapsed,       \* ticks that may pass between two rounds
    MaxRun,        \* bound on the length of runs of probes that is recorded
    Retables       \* TRUE if reloads may bring a new address table

ASSUME EppRuntimeAssumption ==
    /\ N \in Nat \ {0}
    /\ MaxRun \in Nat
    /\ FailThresholds \subseteq 1 .. MaxRun /\ FailThresholds # {}
    /\ SuccessThresholds \subseteq 1 .. MaxRun /\ SuccessThresholds # {}
    /\ Cooldown \in Nat \ {0}
    /\ Elapsed \subseteq Nat \ {0} /\ Elapsed # {}
    /\ Retables \in BOOLEAN

Addrs == 0 .. N - 1

VARIABLES
    up,             \* the addresses whose EPP is serving
    active,         \* rt.active
    lastOK,         \* the addresses with health.lastOK
    consecFail,     \* health.consecFail
    consecSuccess,  \* health.consecSuccess
    cool,           \* ticks until health.cooldownUntil
    conf,           \* the thresholds and checkDisabled of rt.conf
    answer          \* what the last request got

\* History variables, read by no guard.
VARIABLES
    failRun,        \* probes an address has failed in a row
    okRun,          \* probes an address has passed in a row
    sinceFailover   \* ticks since the runtime failed over from an address,
                    \* up to Cooldown

health == <<lastOK, consecFail, consecSuccess, cool>>
history == <<failRun, okRun, sinceFailover>>
vars == <<up, active, health, conf, answer, history>>

Answers == {"none", "decision", "noDecision", "timeout"}

TypeOK ==
    /\ up \subseteq Addrs
    /\ active \in Addrs
    /\ lastOK \subseteq Addrs
    /\ consecFail \in [Addrs -> 0 .. MaxRun]
    /\ consecSuccess \in [Addrs -> 0 .. MaxRun]
    /\ cool \in [Addrs -> 0 .. Cooldown]
    /\ conf \in [failThreshold : FailThresholds,
                 successThreshold : SuccessThresholds,
                 checkDisabled : BOOLEAN]
    /\ answer \in Answers
    /\ failRun \in [Addrs -> 0 .. MaxRun]
    /\ okRun \in [Addrs -> 0 .. MaxRun]
    /\ sinceFailover \in [Addrs -> 0 .. Cooldown]

Zero == [a \in Addrs |-> 0]
Confs == [failThreshold : FailThresholds, successThreshold : SuccessThresholds,
          checkDisabled : BOOLEAN]

\* newEPPRuntime
Init ==
    /\ up \in SUBSET Addrs
    /\ active = 0
    /\ lastOK = {}
    /\ consecFail = Zero /\ consecSuccess = Zero /\ cool = Zero
    /\ conf \in Confs
    /\ answer = "none"
    /\ failRun = Zero /\ okRun = Zero
    /\ sinceFailover = [a \in Addrs |-> Cooldown]

-----------------------------------------------------------------------------
(* A round of the health check.                                            *)

\* pickFailoverLocked: the addresses that passed the probe of this round and
\* are not in cooldown.
FailoverTargets(ok, left) == {a \in ok \ {active} : left[a] = 0}

\* The nearest address in S, from the active one in ring order.
Nearest(S) ==
    LET Dist(a) == (a - active + N) % N
    IN  CHOOSE a \in S : \A b \in S : Dist(a) <= Dist(b)

\* The nearest of them; the active one if there is none.
pickFailover(ok, left) ==
    LET targets == FailoverTargets(ok, left)
    IN  IF targets = {} THEN active ELSE Nearest(targets)

BadFailsOver(ok) == active \notin ok

\* The active address has failed failThreshold probes.
FailsOver(ok) ==
    active \notin ok /\ consecFail[active] + 1 >= conf.failThreshold

BadConsecSuccessAfter(ok, watched) ==
    [a \in Addrs |-> IF a \in watched THEN 0 ELSE consecSuccess[a]]

\* consecSuccess after the failback loop, before a failback clears it;
\* watched are the addresses the loop gets to.
ConsecSuccessAfter(ok, watched) ==
    [a \in Addrs |->
       IF a \notin watched THEN consecSuccess[a]
       ELSE IF a \in ok THEN consecSuccess[a] + 1 ELSE 0]

BadFailbackTo(act, ok, left) ==
    LET ready == {a \in 0 .. act - 1 : /\ left[a] = 0 /\ a \in ok
                                       /\ consecSuccess[a] > conf.successThreshold}
    IN  IF ready = {} THEN act ELSE Min(ready)

\* The index of the address the failback loop switches to: the best one that
\* has reached successThreshold; act if there is none.
FailbackTo(act, ok, left) ==
    LET ready == {a \in 0 .. act - 1 : /\ left[a] = 0 /\ a \in ok
                                       /\ consecSuccess[a] + 1 >= conf.successThreshold}
    IN  IF ready = {} THEN act ELSE Min(ready)

Passed(d) == [a \in Addrs |-> IF cool[a] > d THEN cool[a] - d ELSE 0]

Capped(x, cap) == IF x > cap THEN cap ELSE x

\* checkRound, d ticks after the previous one.
CheckRound(d) ==
    LET ok == up
        over == FailsOver(ok)
        left == [Passed(d) EXCEPT ![active] = IF over THEN Cooldown ELSE @]
        act == IF over THEN pickFailover(ok, left) ELSE active
        back == FailbackTo(act, ok, left)
        watched == {a \in 0 .. act - 1 : left[a] = 0 /\ a <= back}
    IN  /\ ~conf.checkDisabled
        /\ active' = back
        /\ lastOK' = ok
        /\ consecFail' =
             IF back # act THEN Zero
             ELSE [consecFail EXCEPT ![active] =
                     IF active \in ok \/ over THEN 0 ELSE @ + 1]
        /\ consecSuccess' =
             IF back # act THEN Zero ELSE ConsecSuccessAfter(ok, watched)
        /\ cool' = [a \in Addrs |->
                      IF a \in watched \ ok THEN Cooldown ELSE left[a]]
        /\ failRun' = [a \in Addrs |-> IF a \in ok THEN 0
                                       ELSE Capped(failRun[a] + 1, MaxRun)]
        /\ okRun' = [a \in Addrs |-> IF a \notin ok THEN 0
                                     ELSE Capped(okRun[a] + 1, MaxRun)]
        /\ sinceFailover' =
             [a \in Addrs |-> IF over /\ a = active /\ act # active THEN 0
                              ELSE Capped(sinceFailover[a] + d, Cooldown)]
        /\ UNCHANGED <<up, conf, answer>>

-----------------------------------------------------------------------------
(* Requests.                                                               *)

BadRing == {a \in Addrs : a >= active}

\* The addresses a request tries, starting from the active one.
Ring == Addrs

\* chooseBackendFromEPP: one pass over the ring.  An address that refuses lets
\* the request go on to the next one (isEPPRetryable); one that hangs until
\* the call times out ends the pass.
chooseBackendFromEPP ==
    /\ \E hung \in SUBSET (Addrs \ up) :
         LET ends == (up \cup hung) \cap Ring
         IN  answer' = CASE ends = {} -> "noDecision"
                         [] ends # {} /\ Nearest(ends) \in up -> "decision"
                         [] OTHER -> "timeout"
    /\ UNCHANGED <<up, active, health, conf, history>>

-----------------------------------------------------------------------------
(* Reloads.                                                                *)

Fresh ==
    /\ active' = 0
    /\ lastOK' = {}
    /\ consecFail' = Zero /\ consecSuccess' = Zero /\ cool' = Zero

BadInheritState == Fresh

\* inheritStateFrom: a new runtime for the same addresses takes over active
\* and health.
inheritState == UNCHANGED <<active, health>>

\* initEPP with the same addresses: in place when only thresholds change, by
\* a new runtime that inherits the state when checkDisabled changes.
ReloadConf ==
    /\ conf' \in Confs \ {conf}
    /\ IF conf'.checkDisabled = conf.checkDisabled
         THEN UNCHANGED <<active, health>>
         ELSE inheritState
    /\ UNCHANGED <<up, answer, history>>

\* initEPP with another address table: a new runtime, nothing is inherited.
ReloadAddrs ==
    /\ Retables
    /\ Fresh
    /\ up' \in SUBSET Addrs
    /\ failRun' = Zero /\ okRun' = Zero
    /\ sinceFailover' = [a \in Addrs |-> Cooldown]
    /\ UNCHANGED <<conf, answer>>

\* An EPP instance starts or stops serving.
ServingChanges ==
    /\ \E a \in Addrs : up' = IF a \in up THEN up \ {a} ELSE up \cup {a}
    /\ UNCHANGED <<active, health, conf, answer, history>>

Round == \E d \in Elapsed : CheckRound(d)

Next == Round \/ chooseBackendFromEPP \/ ReloadConf \/ ReloadAddrs
        \/ ServingChanges

Spec == Init /\ [][Next]_vars

-----------------------------------------------------------------------------
(* Properties.                                                             *)

\* A failover is earned: the runtime moves to a worse address only after the
\* active one failed as many probes in a row as the threshold asks for,
\* however reloads change the threshold or replace the runtime meanwhile.
FailoverEarned ==
    [][active' > active => failRun'[active] >= conf.failThreshold]_vars

\* An address the runtime failed over from is not used again before its
\* cooldown is over.
CooldownRespected ==
    [][active' # active /\ ~ReloadAddrs
         => sinceFailover'[active'] >= Cooldown]_vars

\* While one address serves, a request fails only by a timeout, in the rounds
\* before a failover is noticed too.
RetryMasksOutage ==
    [][chooseBackendFromEPP /\ up # {} => answer' # "noDecision"]_vars
=============================================================================
