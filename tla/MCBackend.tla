----------------------------- MODULE MCBackend -----------------------------
(***************************************************************************)
(* The choice of a backend and of a connection to it, for TLC: BalanceRR   *)
(* and TransportPool, which share no state.  A behaviour is one of one     *)
(* part, chosen at the start, and the variables of the other keep a value  *)
(* without meaning:                                                        *)
(*   - "steady": one configuration without slow start, with uneven weights *)
(*     and room for the running weights, for what long sequences of picks  *)
(*     and outages add up to;                                              *)
(*   - "reload": the constants of the cfg file, with reloads that add and  *)
(*     remove backends, slow start and several algorithms;                 *)
(*   - "pool": the connections to one backend.                             *)
(***************************************************************************)
EXTENDS BalanceRR, TransportPool, TLC

VARIABLE part

\* One configuration with three backends of different weights.
MCUneven == {(1 :> 1) @@ (2 :> 1) @@ (3 :> 2)}

\* Reloads that add and remove backends.
MCReloads == {(1 :> 1) @@ (2 :> 2), (2 :> 2) @@ (3 :> 1), 1 :> 1}

\* One backend.
MCSingle == {1 :> 1}

Steady == INSTANCE BalanceRR WITH
    Confs <- MCUneven, Scale <- 1, SSTimes <- {0}, MaxCurrent <- 12,
    Keys <- {}, Algors <- {"WrrSmooth", "WlcSmooth"}

CallerSymmetry == Permutations(Callers)

NoPool == PoolInit /\ maxIdle = 0

NoBalancer ==
    /\ list = 0 /\ sorted = 0 /\ rr = 0 /\ avail = 0 /\ restarted = 0 /\ connNum = 0
    /\ ssTime = 0 /\ conf = 0 /\ waited = 0

MCInit ==
    \/ part = "steady" /\ 3 \in Backends /\ Steady!Init /\ NoPool
    \/ part = "reload" /\ Init /\ NoPool
    \/ part = "pool" /\ Callers # {} /\ PoolInit /\ NoBalancer

MCNext ==
    /\ UNCHANGED part
    /\ \/ /\ part = "steady"
          /\ Steady!SmoothBalance \/ Steady!LeastConnsBalance
             \/ Steady!AvailChanges \/ Steady!ConnNumChanges
          /\ UNCHANGED poolVars
       \/ part = "reload" /\ Next /\ UNCHANGED poolVars
       \/ part = "pool" /\ PoolNext /\ UNCHANGED vars

MCSpec == MCInit /\ [][MCNext]_<<vars, poolVars, part>>

-----------------------------------------------------------------------------
(* Properties.                                                             *)

\* Smooth balancing neither creates nor loses credit: however backends come
\* and go between picks, the running weights of a configuration add up to its
\* weights (bal_rr.go, smoothBalance).
CreditKept == part = "steady" => CreditConserved

\* A backend that stays eligible waits for at most its share of picks and one
\* round more, whatever the others do (bal_rr.go, smoothBalance).
NoneStarved == part = "steady" => NotStarved

\* However reloads, outages and sorting follow on each other, the sticky
\* choice depends only on the key and the eligible backends (stickyBalance).
StickySame == part = "reload" => StickyByMembership

\* Load is shared by weight: the one-pass least-connections search finds
\* exactly the least loaded backends, and slow start never gives a backend
\* more than its configured weight (leastConnsBalance, updateSlowStart).
LoadByWeight == part = "reload" => LeastConnsExact /\ NoOvershoot
=============================================================================
