------------------------ MODULE BackendHealthProofs ------------------------
(***************************************************************************)
(* TLAPS proofs about BackendHealth, for any number of request and checker *)
(* goroutines and any thresholds.                                          *)
(*                                                                         *)
(* The properties need one another: only one checker exists because none   *)
(* exists while the backend is up, and the successes it counts are those   *)
(* of its own probes only because it is alone.  IInv collects them,        *)
(* together with what the history variables record at every program point  *)
(* of the checker.                                                         *)
(***************************************************************************)
EXTENDS BackendHealth, TLAPS

\* The history of failure reports is what failNum holds.
FailsCounted == failNum = freshFails

\* What succNum says about the probes, at each program point of the checker.
ProbesCounted ==
    /\ Running = {} => streak = succNum
    /\ \A c \in Checkers :
         /\ cpc[c] \in {"select", "getConf", "probe", "checkAvail"}
              => streak = succNum
         /\ cpc[c] = "addSucc" => streak = succNum + 1
         /\ cpc[c] = "resetSucc" => streak = 0
         /\ cpc[c] \in {"setRestart", "setAvail"}
              => succNum = 0 /\ streak >= cconf[c].succNum

\* The restart mark is set, or has been seen, by the time the backend is up.
RestartMarked ==
    \A c \in Checkers : cpc[c] = "setAvail" => restarted \/ ramped

IInv ==
    /\ TypeOK
    /\ AtMostOneChecker
    /\ DownIsWatched
    /\ RecoveryIsAnnounced
    /\ FailsCounted
    /\ ProbesCounted
    /\ RestartMarked

\* The configurations the code can read are the ones the cluster may have.
LEMMA ConfFacts ==
    /\ NoConf \in CheckConfs
    /\ \A k \in CheckConfs : k.failNum \in Int /\ k.succNum \in Nat
<1>1. NoConf \in CheckConfs
  BY DEF CheckConfs
<1>2. ASSUME NEW k \in CheckConfs
      PROVE  k.failNum \in Int /\ k.succNum \in Nat
  <2>1. CASE k = NoConf
    BY <2>1 DEF NoConf
  <2>2. CASE k \in [failNum : FailThresholds, succNum : SuccThresholds]
    BY <2>2, ThresholdAssumption
  <2> QED
    BY <2>1, <2>2 DEF CheckConfs
<1> QED
  BY <1>1, <1>2

\* Every step keeps the types.
LEMMA TypeStep ==
    ASSUME TypeOK, [Next]_vars
    PROVE  TypeOK'
<1> USE DEF TypeOK, RequestPCs, CheckerPCs
<1>1. ASSUME NEW r \in Requests, OnSuccess(r) PROVE TypeOK'
  BY <1>1, ConfFacts DEF OnSuccess, reqVars, chkVars, histVars
<1>2. ASSUME NEW r \in Requests, AddFailNum(r) PROVE TypeOK'
  BY <1>2, ConfFacts DEF AddFailNum, reqVars, chkVars, histVars
<1>3. ASSUME NEW r \in Requests, GetCheckConf(r) PROVE TypeOK'
  BY <1>3, ConfFacts DEF GetCheckConf, reqVars, chkVars, histVars
<1>4. ASSUME NEW r \in Requests, UpdateStatus(r) PROVE TypeOK'
  BY <1>4, ConfFacts DEF UpdateStatus, setAvail, StatusFlipped, reqVars, chkVars, histVars
<1>5. ASSUME NEW r \in Requests, StartCheck(r) PROVE TypeOK'
  BY <1>5, ConfFacts DEF StartCheck, reqVars, chkVars, histVars
<1>6. ASSUME NEW c \in Checkers, CheckSelect(c) PROVE TypeOK'
  BY <1>6, ConfFacts DEF CheckSelect, AfterSelect, Goto, reqVars, chkVars, histVars
<1>7. ASSUME NEW c \in Checkers, CheckGetConf(c) PROVE TypeOK'
  BY <1>7, ConfFacts DEF CheckGetConf, AfterGetConf, Goto, reqVars, chkVars, histVars
<1>8. ASSUME NEW c \in Checkers, CheckProbe(c) PROVE TypeOK'
  BY <1>8, ConfFacts DEF CheckProbe, Goto, reqVars, chkVars, histVars
<1>9. ASSUME NEW c \in Checkers, CheckResetSucc(c) PROVE TypeOK'
  BY <1>9, ConfFacts DEF CheckResetSucc, Goto, reqVars, chkVars, histVars
<1>10. ASSUME NEW c \in Checkers, CheckAddSucc(c) PROVE TypeOK'
  BY <1>10, ConfFacts DEF CheckAddSucc, Goto, reqVars, chkVars, histVars
<1>11. ASSUME NEW c \in Checkers, CheckAvail(c) PROVE TypeOK'
  BY <1>11, ConfFacts DEF CheckAvail, CheckAvailTrue, CheckAvailFalse, Goto, reqVars, chkVars, histVars
<1>12. ASSUME NEW c \in Checkers, CheckSetRestart(c) PROVE TypeOK'
  BY <1>12, ConfFacts DEF CheckSetRestart, Goto, reqVars, chkVars, histVars
<1>13. ASSUME NEW c \in Checkers, CheckSetAvail(c) PROVE TypeOK'
  BY <1>13, ConfFacts DEF CheckSetAvail, setAvail, Goto, reqVars, chkVars, histVars
<1>14. CASE ConsumeRestart
  BY <1>14, ConfFacts DEF ConsumeRestart, reqVars, chkVars, histVars
<1>15. CASE Release
  BY <1>15, ConfFacts DEF Release, reqVars, chkVars, histVars
<1>16. CASE ReloadConf
  BY <1>16, ConfFacts DEF ReloadConf, reqVars, chkVars, histVars
<1>17. CASE ServerFlips
  BY <1>17, ConfFacts DEF ServerFlips, reqVars, chkVars, histVars
<1>18. CASE UNCHANGED vars
  BY <1>18 DEF vars
<1> QED
  BY <1>1, <1>2, <1>3, <1>4, <1>5, <1>6, <1>7, <1>8, <1>9, <1>10, <1>11, <1>12, <1>13, <1>14, <1>15, <1>16, <1>17, <1>18 DEF Next, RequestStep, CheckerStep

\* One checker at most, and one whenever the backend is down: the flip of
\* avail in UpdateStatus is what hands the right to start one to a request.
LEMMA CheckerIsUnique ==
    ASSUME TypeOK, AtMostOneChecker, DownIsWatched, [Next]_vars
    PROVE  (AtMostOneChecker /\ DownIsWatched)'
<1> USE DEF TypeOK, RequestPCs, CheckerPCs, Goto, reqVars, chkVars, histVars,
            AtMostOneChecker, DownIsWatched, Running, Spawning
<1>1. ASSUME NEW r \in Requests, OnSuccess(r) PROVE (AtMostOneChecker /\ DownIsWatched)'
  BY <1>1 DEF OnSuccess
<1>2. ASSUME NEW r \in Requests, AddFailNum(r) PROVE (AtMostOneChecker /\ DownIsWatched)'
  BY <1>2 DEF AddFailNum
<1>3. ASSUME NEW r \in Requests, GetCheckConf(r) PROVE (AtMostOneChecker /\ DownIsWatched)'
  BY <1>3 DEF GetCheckConf
<1>4. ASSUME NEW r \in Requests, UpdateStatus(r) PROVE (AtMostOneChecker /\ DownIsWatched)'
  BY <1>4 DEF UpdateStatus, setAvail, StatusFlipped
<1>5. ASSUME NEW r \in Requests, StartCheck(r) PROVE (AtMostOneChecker /\ DownIsWatched)'
  BY <1>5 DEF StartCheck
<1>6. ASSUME NEW c \in Checkers, CheckSelect(c) PROVE (AtMostOneChecker /\ DownIsWatched)'
  BY <1>6 DEF CheckSelect, AfterSelect
<1>7. ASSUME NEW c \in Checkers, CheckGetConf(c) PROVE (AtMostOneChecker /\ DownIsWatched)'
  BY <1>7 DEF CheckGetConf, AfterGetConf
<1>8. ASSUME NEW c \in Checkers, CheckProbe(c) PROVE (AtMostOneChecker /\ DownIsWatched)'
  BY <1>8 DEF CheckProbe
<1>9. ASSUME NEW c \in Checkers, CheckResetSucc(c) PROVE (AtMostOneChecker /\ DownIsWatched)'
  BY <1>9 DEF CheckResetSucc
<1>10. ASSUME NEW c \in Checkers, CheckAddSucc(c) PROVE (AtMostOneChecker /\ DownIsWatched)'
  BY <1>10 DEF CheckAddSucc
<1>11. ASSUME NEW c \in Checkers, CheckAvail(c) PROVE (AtMostOneChecker /\ DownIsWatched)'
  BY <1>11 DEF CheckAvail, CheckAvailTrue, CheckAvailFalse
<1>12. ASSUME NEW c \in Checkers, CheckSetRestart(c) PROVE (AtMostOneChecker /\ DownIsWatched)'
  BY <1>12 DEF CheckSetRestart
<1>13. ASSUME NEW c \in Checkers, CheckSetAvail(c) PROVE (AtMostOneChecker /\ DownIsWatched)'
  BY <1>13 DEF CheckSetAvail, setAvail
<1>14. CASE ConsumeRestart
  BY <1>14 DEF ConsumeRestart
<1>15. CASE Release
  BY <1>15 DEF Release
<1>16. CASE ReloadConf
  BY <1>16 DEF ReloadConf
<1>17. CASE ServerFlips
  BY <1>17 DEF ServerFlips
<1>18. CASE UNCHANGED vars
  BY <1>18 DEF vars
<1> QED
  BY <1>1, <1>2, <1>3, <1>4, <1>5, <1>6, <1>7, <1>8, <1>9, <1>10,
     <1>11, <1>12, <1>13, <1>14, <1>15, <1>16, <1>17, <1>18 DEF Next, RequestStep, CheckerStep

\* failNum is the number of failure reports since a success or a recovery.
LEMMA FailsStep ==
    ASSUME TypeOK, FailsCounted, [Next]_vars
    PROVE  (FailsCounted)'
<1> USE DEF TypeOK, RequestPCs, CheckerPCs, Goto, reqVars, chkVars, histVars,
            FailsCounted
<1>1. ASSUME NEW r \in Requests, OnSuccess(r) PROVE (FailsCounted)'
  BY <1>1 DEF OnSuccess
<1>2. ASSUME NEW r \in Requests, AddFailNum(r) PROVE (FailsCounted)'
  BY <1>2 DEF AddFailNum
<1>3. ASSUME NEW r \in Requests, GetCheckConf(r) PROVE (FailsCounted)'
  BY <1>3 DEF GetCheckConf
<1>4. ASSUME NEW r \in Requests, UpdateStatus(r) PROVE (FailsCounted)'
  BY <1>4 DEF UpdateStatus, setAvail, StatusFlipped
<1>5. ASSUME NEW r \in Requests, StartCheck(r) PROVE (FailsCounted)'
  BY <1>5 DEF StartCheck
<1>6. ASSUME NEW c \in Checkers, CheckSelect(c) PROVE (FailsCounted)'
  BY <1>6 DEF CheckSelect, AfterSelect
<1>7. ASSUME NEW c \in Checkers, CheckGetConf(c) PROVE (FailsCounted)'
  BY <1>7 DEF CheckGetConf, AfterGetConf
<1>8. ASSUME NEW c \in Checkers, CheckProbe(c) PROVE (FailsCounted)'
  BY <1>8 DEF CheckProbe
<1>9. ASSUME NEW c \in Checkers, CheckResetSucc(c) PROVE (FailsCounted)'
  BY <1>9 DEF CheckResetSucc
<1>10. ASSUME NEW c \in Checkers, CheckAddSucc(c) PROVE (FailsCounted)'
  BY <1>10 DEF CheckAddSucc
<1>11. ASSUME NEW c \in Checkers, CheckAvail(c) PROVE (FailsCounted)'
  BY <1>11 DEF CheckAvail, CheckAvailTrue, CheckAvailFalse
<1>12. ASSUME NEW c \in Checkers, CheckSetRestart(c) PROVE (FailsCounted)'
  BY <1>12 DEF CheckSetRestart
<1>13. ASSUME NEW c \in Checkers, CheckSetAvail(c) PROVE (FailsCounted)'
  BY <1>13 DEF CheckSetAvail, setAvail
<1>14. CASE ConsumeRestart
  BY <1>14 DEF ConsumeRestart
<1>15. CASE Release
  BY <1>15 DEF Release
<1>16. CASE ReloadConf
  BY <1>16 DEF ReloadConf
<1>17. CASE ServerFlips
  BY <1>17 DEF ServerFlips
<1>18. CASE UNCHANGED vars
  BY <1>18 DEF vars
<1> QED
  BY <1>1, <1>2, <1>3, <1>4, <1>5, <1>6, <1>7, <1>8, <1>9, <1>10,
     <1>11, <1>12, <1>13, <1>14, <1>15, <1>16, <1>17, <1>18 DEF Next, RequestStep, CheckerStep

\* succNum counts the probes of the one checker and of no other.
LEMMA ProbesStep ==
    ASSUME TypeOK, AtMostOneChecker, ProbesCounted, [Next]_vars
    PROVE  (ProbesCounted)'
<1> USE ConfFacts DEF TypeOK, RequestPCs, CheckerPCs, Goto, reqVars, chkVars, histVars,
            AtMostOneChecker, ProbesCounted, Running, Spawning
<1>1. ASSUME NEW r \in Requests, OnSuccess(r) PROVE (ProbesCounted)'
  BY <1>1 DEF OnSuccess
<1>2. ASSUME NEW r \in Requests, AddFailNum(r) PROVE (ProbesCounted)'
  BY <1>2 DEF AddFailNum
<1>3. ASSUME NEW r \in Requests, GetCheckConf(r) PROVE (ProbesCounted)'
  BY <1>3 DEF GetCheckConf
<1>4. ASSUME NEW r \in Requests, UpdateStatus(r) PROVE (ProbesCounted)'
  BY <1>4 DEF UpdateStatus, setAvail, StatusFlipped
<1>5. ASSUME NEW r \in Requests, StartCheck(r) PROVE (ProbesCounted)'
  BY <1>5 DEF StartCheck
<1>6. ASSUME NEW c \in Checkers, CheckSelect(c) PROVE (ProbesCounted)'
  BY <1>6 DEF CheckSelect, AfterSelect
<1>7. ASSUME NEW c \in Checkers, CheckGetConf(c) PROVE (ProbesCounted)'
  BY <1>7 DEF CheckGetConf, AfterGetConf
<1>8. ASSUME NEW c \in Checkers, CheckProbe(c) PROVE (ProbesCounted)'
  BY <1>8 DEF CheckProbe
<1>9. ASSUME NEW c \in Checkers, CheckResetSucc(c) PROVE (ProbesCounted)'
  BY <1>9 DEF CheckResetSucc
<1>10. ASSUME NEW c \in Checkers, CheckAddSucc(c) PROVE (ProbesCounted)'
  BY <1>10 DEF CheckAddSucc
<1>11. ASSUME NEW c \in Checkers, CheckAvail(c) PROVE (ProbesCounted)'
  BY <1>11 DEF CheckAvail, CheckAvailTrue, CheckAvailFalse
<1>12. ASSUME NEW c \in Checkers, CheckSetRestart(c) PROVE (ProbesCounted)'
  BY <1>12 DEF CheckSetRestart
<1>13. ASSUME NEW c \in Checkers, CheckSetAvail(c) PROVE (ProbesCounted)'
  BY <1>13 DEF CheckSetAvail, setAvail
<1>14. CASE ConsumeRestart
  BY <1>14 DEF ConsumeRestart
<1>15. CASE Release
  BY <1>15 DEF Release
<1>16. CASE ReloadConf
  BY <1>16 DEF ReloadConf
<1>17. CASE ServerFlips
  BY <1>17 DEF ServerFlips
<1>18. CASE UNCHANGED vars
  BY <1>18 DEF vars
<1> QED
  BY <1>1, <1>2, <1>3, <1>4, <1>5, <1>6, <1>7, <1>8, <1>9, <1>10,
     <1>11, <1>12, <1>13, <1>14, <1>15, <1>16, <1>17, <1>18 DEF Next, RequestStep, CheckerStep

\* The restart mark precedes the recovery.
LEMMA RestartStep ==
    ASSUME TypeOK, AtMostOneChecker, RestartMarked, RecoveryIsAnnounced, [Next]_vars
    PROVE  (RestartMarked /\ RecoveryIsAnnounced)'
<1> USE DEF TypeOK, RequestPCs, CheckerPCs, Goto, reqVars, chkVars, histVars,
            AtMostOneChecker, RestartMarked, RecoveryIsAnnounced, Running
<1>1. ASSUME NEW r \in Requests, OnSuccess(r) PROVE (RestartMarked /\ RecoveryIsAnnounced)'
  BY <1>1 DEF OnSuccess
<1>2. ASSUME NEW r \in Requests, AddFailNum(r) PROVE (RestartMarked /\ RecoveryIsAnnounced)'
  BY <1>2 DEF AddFailNum
<1>3. ASSUME NEW r \in Requests, GetCheckConf(r) PROVE (RestartMarked /\ RecoveryIsAnnounced)'
  BY <1>3 DEF GetCheckConf
<1>4. ASSUME NEW r \in Requests, UpdateStatus(r) PROVE (RestartMarked /\ RecoveryIsAnnounced)'
  BY <1>4 DEF UpdateStatus, setAvail, StatusFlipped
<1>5. ASSUME NEW r \in Requests, StartCheck(r) PROVE (RestartMarked /\ RecoveryIsAnnounced)'
  BY <1>5 DEF StartCheck
<1>6. ASSUME NEW c \in Checkers, CheckSelect(c) PROVE (RestartMarked /\ RecoveryIsAnnounced)'
  BY <1>6 DEF CheckSelect, AfterSelect
<1>7. ASSUME NEW c \in Checkers, CheckGetConf(c) PROVE (RestartMarked /\ RecoveryIsAnnounced)'
  BY <1>7 DEF CheckGetConf, AfterGetConf
<1>8. ASSUME NEW c \in Checkers, CheckProbe(c) PROVE (RestartMarked /\ RecoveryIsAnnounced)'
  BY <1>8 DEF CheckProbe
<1>9. ASSUME NEW c \in Checkers, CheckResetSucc(c) PROVE (RestartMarked /\ RecoveryIsAnnounced)'
  BY <1>9 DEF CheckResetSucc
<1>10. ASSUME NEW c \in Checkers, CheckAddSucc(c) PROVE (RestartMarked /\ RecoveryIsAnnounced)'
  BY <1>10 DEF CheckAddSucc
<1>11. ASSUME NEW c \in Checkers, CheckAvail(c) PROVE (RestartMarked /\ RecoveryIsAnnounced)'
  BY <1>11 DEF CheckAvail, CheckAvailTrue, CheckAvailFalse
<1>12. ASSUME NEW c \in Checkers, CheckSetRestart(c) PROVE (RestartMarked /\ RecoveryIsAnnounced)'
  BY <1>12 DEF CheckSetRestart
<1>13. ASSUME NEW c \in Checkers, CheckSetAvail(c) PROVE (RestartMarked /\ RecoveryIsAnnounced)'
  BY <1>13 DEF CheckSetAvail, setAvail
<1>14. CASE ConsumeRestart
  BY <1>14 DEF ConsumeRestart
<1>15. CASE Release
  BY <1>15 DEF Release
<1>16. CASE ReloadConf
  BY <1>16 DEF ReloadConf
<1>17. CASE ServerFlips
  BY <1>17 DEF ServerFlips
<1>18. CASE UNCHANGED vars
  BY <1>18 DEF vars
<1> QED
  BY <1>1, <1>2, <1>3, <1>4, <1>5, <1>6, <1>7, <1>8, <1>9, <1>10,
     <1>11, <1>12, <1>13, <1>14, <1>15, <1>16, <1>17, <1>18 DEF Next, RequestStep, CheckerStep

-----------------------------------------------------------------------------

\* A new backend satisfies the invariant.
LEMMA InitIInv == Init => IInv
<1> SUFFICES ASSUME Init PROVE IInv
  OBVIOUS
<1>1. TypeOK
  BY ConfFacts DEF Init, TypeOK, RequestPCs, CheckerPCs
<1>2. Running = {} /\ Spawning = {}
  BY DEF Init, Running, Spawning
<1>3. AtMostOneChecker /\ DownIsWatched /\ RecoveryIsAnnounced
  BY <1>2 DEF Init, AtMostOneChecker, DownIsWatched, RecoveryIsAnnounced
<1>4. FailsCounted /\ ProbesCounted /\ RestartMarked
  BY DEF Init, FailsCounted, ProbesCounted, RestartMarked
<1> QED
  BY <1>1, <1>3, <1>4 DEF IInv

\* Every step of the specification keeps the invariant.
LEMMA StepIInv == ASSUME IInv, [Next]_vars PROVE IInv'
BY TypeStep, CheckerIsUnique, FailsStep, ProbesStep, RestartStep DEF IInv

\* The invariant of the proof holds in every reachable state.
THEOREM Invariance == Spec => []IInv
BY InitIInv, StepIInv, PTL DEF Spec

\* Types are preserved for any number of requests and any thresholds.
THEOREM TypeCorrect == Spec => []TypeOK
BY Invariance, PTL DEF IInv

\* However the reports of requests interleave, the goroutines started by
\* health_check.UpdateStatus for one backend are never two.
THEOREM OneChecker == Spec => []AtMostOneChecker
BY Invariance, PTL DEF IInv

\* A configured backend that is down has a checker.
THEOREM NeverOrphaned == Spec => []DownIsWatched
BY Invariance, PTL DEF IInv

\* A recovered backend is ramped by slow start or marked for it.
THEOREM Announced == Spec => []RecoveryIsAnnounced
BY Invariance, PTL DEF IInv

\* SetAvail(true) is preceded by enough successful probes in a row.
THEOREM Earned == Spec => RecoveryIsEarned
<1>1. ASSUME IInv, [Next]_vars
      PROVE  [~avail /\ avail' =>
               \E c \in Checkers : cpc[c] = "setAvail"
                                   /\ streak >= cconf[c].succNum]_vars
  <2> USE DEF reqVars, chkVars, histVars
  <2>1. ASSUME NEW r \in Requests, RequestStep(r), ~avail PROVE ~avail'
    BY <2>1 DEF RequestStep, OnSuccess, AddFailNum, GetCheckConf, UpdateStatus,
        StartCheck, setAvail
  <2>2. ASSUME NEW c \in Checkers, CheckerStep(c), cpc[c] # "setAvail", ~avail
        PROVE  ~avail'
    BY <2>2 DEF CheckerStep, CheckSelect, CheckGetConf, CheckProbe,
        CheckResetSucc, CheckAddSucc, CheckAvail, CheckSetRestart,
        CheckSetAvail
  <2>3. CASE ConsumeRestart \/ Release \/ ReloadConf \/ ServerFlips
    BY <2>3 DEF ConsumeRestart, Release, ReloadConf, ServerFlips
  <2> QED
    BY <1>1, <2>1, <2>2, <2>3 DEF Next, vars, IInv, ProbesCounted
<1> QED
  BY <1>1, Invariance, PTL DEF Spec, RecoveryIsEarned

\* SetAvail(false) is preceded by enough failures since the last recovery.
THEOREM Fresh == Spec => TakedownIsFresh
<1>1. ASSUME IInv, [Next]_vars
      PROVE  [avail /\ ~avail' =>
               \E r \in Requests : rpc[r] = "gotConf"
                                   /\ freshFails >= rconf[r].failNum]_vars
  <2> USE DEF reqVars, chkVars, histVars
  <2>1. ASSUME NEW r \in Requests, RequestStep(r), avail, ~avail'
        PROVE  rpc[r] = "gotConf" /\ failNum >= rconf[r].failNum
    BY <2>1 DEF RequestStep, OnSuccess, AddFailNum, GetCheckConf, UpdateStatus,
        StartCheck
  <2>2. ASSUME NEW c \in Checkers, CheckerStep(c), avail PROVE avail'
    BY <2>2 DEF CheckerStep, CheckSelect, CheckGetConf, CheckProbe,
        CheckResetSucc, CheckAddSucc, CheckAvail, CheckSetRestart,
        CheckSetAvail, setAvail
  <2>3. CASE ConsumeRestart \/ Release \/ ReloadConf \/ ServerFlips
    BY <2>3 DEF ConsumeRestart, Release, ReloadConf, ServerFlips
  <2> QED
    BY <1>1, <2>1, <2>2, <2>3 DEF Next, vars, IInv, FailsCounted
<1> QED
  BY <1>1, Invariance, PTL DEF Spec, TakedownIsFresh

=============================================================================
