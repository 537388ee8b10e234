------------------------------ MODULE MCIPPlan ------------------------------
(* Instances of IPPlan for TLC.  The ranges have seven addresses of two    *)
(* bytes, with an overflow of the last byte among them.                    *)
EXTENDS IPPlan

At(high, low) == <<high, low>>
Range7 == <<At(1, 1), At(2, 3)>>
Turned == <<At(2, 3), At(1, 1)>>
NoVIP == At(0, 0)
VIPInRange == At(2, 0)

P(name, count, size, resources) ==
  [name |-> name, count |-> count, size |-> size, resources |-> resources]
Y(masters, workers) ==
  [empty |-> {}, bad |-> {}, mode |-> "static", range |-> Range7, metallb |-> FALSE,
   masters |-> masters, workers |-> workers]

W(name, count) == P(name, count, "", None)
Masters(n) == P("cp", n, "cp-small", None)
Counts(workers) == Y(Masters(3), workers)
Base1  == Counts(<<W("a", 1)>>)
Wider  == Counts(<<W("a", 2)>>)
Second == Counts(<<W("a", 2), W("b", 1)>>)
More   == Counts(<<W("a", 2), W("b", 2)>>)
Most   == Counts(<<W("a", 2), W("b", 3)>>)
Five   == Y(Masters(5), <<W("a", 1)>>)
Twice  == Counts(<<W("a", 1), W("a", 1)>>)

\* Only the last pool grows or shrinks, or one is added after it.
LastEdits == {<<Base1, Wider>>, <<Wider, Base1>>, <<Wider, Second>>,
              <<Second, More>>, <<More, Second>>, <<More, Most>>}

\* Three masters and a worker of any size and with any resources of their own.
Sizes == {"", "cp-small", "nano"}
Own == {None, Resources(0, 0, 0), Resources(2, 0, 0), Resources(0, 2048, 0), Resources(4, 4096, 40)}
Sized == {Y(P("", n, s, r), <<P("a", 1, t, q)>>) : n \in {0}, s \in Sizes, r \in Own,
                                                    t \in Sizes, q \in Own}
\* Of these an edit changes the masters of a few, which leaves VMs of both sizes.
Few == {y \in Sized : /\ y.masters.size = "cp-small" /\ y.workers[1].size = ""
                      /\ y.workers[1].resources = None}
SizedEdits == Few \X Few

\* Fields that are missing or not usable, other modes and ranges, bad counts.
Odd == {[Base1 EXCEPT !.empty = {"token_id"}], [Base1 EXCEPT !.bad = {"token_secret"}],
        [Base1 EXCEPT !.bad = {"public_key_path"}], [Base1 EXCEPT !.metallb = TRUE],
        [Base1 EXCEPT !.metallb = TRUE, !.empty = {"address_pool"}],
        [Base1 EXCEPT !.mode = ""], [Base1 EXCEPT !.mode = "dhcp"],
        [Base1 EXCEPT !.mode = "auto"],
        [Base1 EXCEPT !.mode = "auto", !.range = <<>>, !.empty = {"node_pool_range"}],
        [Base1 EXCEPT !.range = <<>>, !.empty = {"node_pool_range"}],
        [Base1 EXCEPT !.range = <<>>], [Base1 EXCEPT !.range = Turned],
        [Base1 EXCEPT !.masters.count = 4], [Base1 EXCEPT !.workers[1].count = -1],
        [Base1 EXCEPT !.workers[1].name = ""]}

LastOnly == {Base1, Wider, Second, More, Most} \cup Sized \cup Odd
AllowedEdits == LastEdits \cup SizedEdits
Shared == {Base1, Five}
AnyEdits == Shared \X Shared
OneConfig == {Base1}
NoEdits == {}
Repeated == {Twice}
=============================================================================
