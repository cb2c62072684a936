------------------------------ MODULE EppPath ------------------------------
(***************************************************************************)
(* The EPP path of a cluster: BalanceEpp with the circuit breaker          *)
(* (EppBreaker) in front of the addresses (EppRuntime), and SetGslbBasic,  *)
(* which configures both.  A request asks the breaker, calls EPP and       *)
(* records the outcome; the lock of the BalanceGslb admits one request at  *)
(* a time, while rounds of the health check and reloads go on.             *)
(***************************************************************************)
EXTENDS EppRuntime

CONSTANT BreakerConfs  \* configurations of the breaker

\* EPPBreakerConfCheck
ASSUME EppPathAssumption ==
    /\ BreakerConfs # {}
    /\ \A c \in BreakerConfs : /\ c.disabled \in BOOLEAN
                               /\ c.minVolume \in Nat \ {0}
                               /\ c.windowSize \in Nat
                               /\ c.minVolume <= c.windowSize
                               /\ c.rate \in 1 .. 100

VARIABLES
    present, breakerConf, state, results, count, idx, cooled, inflight, req,
    recent,     \* of EppBreaker
    called      \* the request in BalanceEpp has its answer

BR == INSTANCE EppBreaker WITH Confs <- BreakerConfs, conf <- breakerConf,
                               eppUp <- (answer = "decision")

runtimeVars == <<up, active, health, conf, history>>
breakerVars == <<present, breakerConf, state, results, count, idx, cooled,
                 inflight, recent>>
pathVars == <<vars, breakerVars, req, called>>

PathTypeOK == TypeOK /\ BR!TypeOK /\ called \in BOOLEAN

PathInit == Init /\ BR!Init /\ called = FALSE

-----------------------------------------------------------------------------
(* BalanceEpp.                                                             *)

Allow ==
    /\ UNCHANGED <<runtimeVars, answer, called>>
    /\ BR!allow

Call ==
    /\ req # "none" /\ ~called
    /\ called' = TRUE
    /\ IF present THEN chooseBackendFromEPP
                  ELSE answer' = "noDecision" /\ UNCHANGED runtimeVars
    /\ UNCHANGED <<breakerVars, req>>

Record ==
    /\ called
    /\ called' = FALSE
    /\ UNCHANGED <<runtimeVars, answer>>
    /\ BR!record

-----------------------------------------------------------------------------
(* SetGslbBasic, after it has released the lock.                           *)

\* initEPP: the breaker first, then the runtime.
InitBreaker ==
    /\ present
    /\ UNCHANGED <<runtimeVars, answer, called>>
    /\ BR!initEPP

InitRuntime ==
    /\ present
    /\ ReloadConf \/ ReloadAddrs
    /\ UNCHANGED <<breakerVars, req, called>>

\* initEPP of a cluster that was not in EPP mode.
InitEPP ==
    /\ ~present
    /\ UNCHANGED <<runtimeVars, answer, called>>
    /\ BR!initEPP

\* closeEPP: no breaker and no runtime.
CloseEPP ==
    /\ Fresh
    /\ failRun' = Zero /\ okRun' = Zero
    /\ sinceFailover' = [a \in Addrs |-> Cooldown]
    /\ UNCHANGED <<up, conf, answer, called>>
    /\ BR!closeEPP

HealthRound == present /\ Round /\ UNCHANGED <<breakerVars, req, called>>

Serving == ServingChanges /\ UNCHANGED <<breakerVars, req, called>>

OpenTimeout == UNCHANGED <<runtimeVars, answer, called>> /\ BR!Timeout

PathNext ==
    \/ Allow \/ Call \/ Record \/ InitBreaker \/ InitRuntime \/ InitEPP
    \/ CloseEPP \/ HealthRound \/ Serving \/ OpenTimeout

PathSpec == PathInit /\ [][PathNext]_pathVars

\* Requests keep coming, a call ends because it has a timeout, the goroutine
\* of healthLoop goes round while checks are enabled, and time passes.
FairPathSpec ==
    /\ PathSpec
    /\ WF_pathVars(Allow) /\ WF_pathVars(Call) /\ WF_pathVars(Record)
    /\ WF_pathVars(HealthRound) /\ WF_pathVars(OpenTimeout)

-----------------------------------------------------------------------------
(* Properties of the parts on the whole path, and of the path.             *)

\* The breaker is not closed when the latest calls have reached the error
\* rate: across reopening, reloads and overwritten ring entries.
TripsInTime == BR!TripsInTime

\* The path does not react without cause: the breaker leaves the closed state
\* only because of the latest calls, the runtime moves to a worse address only
\* after enough failed probes in a row, and never to one in its cooldown,
\* however reloads change thresholds or replace the runtime meanwhile.
ReactsForCause == BR!OpensForReason /\ FailoverEarned /\ CooldownRespected

Settled(S) ==
    up = S /\ present /\ ~conf.checkDisabled /\ ~breakerConf.disabled

\* Reloads of the EPP settings stop, and none of them has switched the breaker
\* off during a half-open probe, whose result would be lost (ProbeInFlight).
ReloadsEnd ==
    []~(inflight /\ breakerConf.disabled) /\ <>[][~InitRuntime]_pathVars

\* The path heals: when some addresses serve steadily and the configuration
\* is left alone, the health check ends on one of them, the primary if it is
\* among them, calls succeed and the breaker closes for good, whatever state
\* failovers, probes and reloads of thresholds, addresses or breaker left.
PathHeals ==
    \A S \in SUBSET Addrs \ {{}} :
        ReloadsEnd /\ <>[]Settled(S)
            => <>[]( /\ active \in S
                     /\ 0 \in S => active = 0
                     /\ state = "closed" )

\* epp_breaker.go, halfOpenInflight: "a half-open probe request is in flight".
ProbeInFlight == BR!ProbeInFlight

-----------------------------------------------------------------------------
(* A value of BreakerConfs for TLC: reloads that change the window and      *)
(* switch the breaker off.                                                 *)
BreakerConf(d, w, m, r) == [disabled |-> d, windowSize |-> w, minVolume |-> m, rate |-> r]
SwitchedConfs == {BreakerConf(FALSE, 2, 1, 50), BreakerConf(TRUE, 2, 1, 50)}
=============================================================================
