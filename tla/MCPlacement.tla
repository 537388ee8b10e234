---------------------------- MODULE MCPlacement -----------------------------
(* Instances of Placement for TLC: three hosts, of which one is larger,    *)
(* one is in use; three masters, and a worker or none; one caller, or two. *)
EXTENDS Placement, TLC
CONSTANTS h1, h2, h3, m1, m2, m3, w1, c1, c2

ThreeHosts == <<h1, h2, h3>>
Memory     == h1 :> 4 @@ h2 :> 8 @@ h3 :> 4
InUse      == h1 :> 1 @@ h2 :> 0 @@ h3 :> 0
Three      == <<m1, m2, m3>>
Four       == <<m1, m2, m3, w1>>
OneOrTwo   == {{c1}, {c1, c2}}
OnlyOne    == {{c1}}
=============================================================================
