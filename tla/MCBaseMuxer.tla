---------------------------- MODULE MCBaseMuxer ----------------------------
(* Four graphs: two sources, one of which pushes sync points at two times; *)
(* two that push one sample each, a delta frame among them; one thread     *)
(* that feeds both pins in any order, in two runs of the graph, where a    *)
(* packet the first run left may start after one of the second; and one    *)
(* whose waits give up and whose writes fail.                              *)
EXTENDS BaseMuxer

SyncPoints == {<<TRUE, 1>>, <<TRUE, 2>>}
Ordered == [packets |-> <<2, 1>>, samples |-> <<SyncPoints, {<<TRUE, 1>>}>>,
            one |-> FALSE, late |-> FALSE, fails |-> FALSE, runs |-> 1]
Mixed   == [Ordered EXCEPT !.packets = <<1, 1>>, !.samples[2] = {<<FALSE, 1>>, <<TRUE, 2>>}]
Again   == [Ordered EXCEPT !.packets = <<1, 1>>, !.samples = <<{<<TRUE, 2>>}, SyncPoints>>,
                           !.one = TRUE, !.runs = 2]
Faulty  == [Again EXCEPT !.samples = [p \in 1 .. 2 |-> {<<TRUE, 1>>}], !.late = TRUE, !.fails = TRUE]
FourGraphs == {Ordered, Mixed, Again, Faulty}
=============================================================================
