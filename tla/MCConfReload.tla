---------------------------- MODULE MCConfReload ----------------------------
(* ConfReload for TLC.                                                      *)
EXTENDS ConfReload, TLC

CONSTANTS c1, c2, s1, s2

Conf(b, e, sl, pr, sh, d) ==
    [basic |-> b, epp |-> e, slow |-> sl, protocol |-> pr, shape |-> sh, dial |-> d]
Entry(ss, l) == [subs |-> ss, list |-> l]

\* Confs that change every setting of a cluster, move it to EPP and back,
\* drop a cluster, and one whose EPP certificates cannot be read.
MCServerConfs ==
    { (c1 :> Conf(1, "none", 1, "http", 1, 1) @@ c2 :> Conf(1, "a", 0, "other", 1, 1)),
      (c1 :> Conf(2, "a", 2, "http", 2, 1) @@ c2 :> NoConf),
      (c1 :> Conf(3, "bad", 0, "http", 1, 1) @@ c2 :> Conf(3, "b", 3, "http", 1, 1)) }

\* The same cluster with two connect timeouts.
MCTimeouts ==
    {(c1 :> Conf(1, "none", 0, "http", 1, d) @@ c2 :> NoConf) : d \in {1, 2}}

\* Files that add and drop clusters and sub-clusters, and a cluster table
\* that lacks a cluster.
MCGslbConfs ==
    { (c1 :> Entry({s1}, 1) @@ c2 :> Entry({s1}, 1)),
      (c1 :> Entry({s1, s2}, 2) @@ c2 :> NoConf),
      (c1 :> NoConf @@ c2 :> Entry({s2}, 0)) }

ReloaderSymmetry == Permutations(Reloaders)
=============================================================================
