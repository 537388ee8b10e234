---------------------------- MODULE MCBootstrap -----------------------------
(* Instances of Bootstrap for TLC: three masters, the fewest that          *)
(* validate.Cluster accepts, in the order of the configuration.            *)
EXTENDS Bootstrap
CONSTANTS m1, m2, m3, w1
Three == <<m1, m2, m3>>
=============================================================================
