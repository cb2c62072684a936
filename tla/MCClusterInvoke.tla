-------------------------- MODULE MCClusterInvoke --------------------------
(* ClusterInvoke for TLC: two sub-clusters of one backend each and a        *)
(* blackhole, so that "no backend up in this sub-cluster" is one step away. *)
EXTENDS ClusterInvoke, TLC

CONSTANTS b1, b2, s1, s2, hole

MCBackends == {b1, b2}
MCSubClusters == {s1, s2}
MCSubOf == (b1 :> s1) @@ (b2 :> s2)

\* Traffic goes to s1; s2 is there for cross-cluster retries only.
MCWeight == (s1 :> 100) @@ (s2 :> 0) @@ (hole :> 0)

\* Traffic is spread over both and the blackhole.
MCWeightAll == (s1 :> 50) @@ (s2 :> 30) @@ (hole :> 20)

Basic(m, c) == [retryMax |-> m, crossRetry |-> c]
MCBasics == {Basic(1, 1), Basic(0, 0)}
MCOneBasic == {Basic(1, 1)}

Symmetric == Permutations(Requests)
=============================================================================
