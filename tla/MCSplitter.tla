----------------------------- MODULE MCSplitter -----------------------------
(* Four graphs around Splitter: a single pin through three operations; one  *)
(* whose renderer gets a new media type, with waits that are given up; two  *)
(* pins that share a clock and may fail; and a pin beside a subtitle pin,   *)
(* which is never drying.                                                   *)
EXTENDS Splitter

Seeking == [pins |-> 1, packets |-> 1, texts |-> {}, formats |-> {}, fails |-> FALSE,
            late |-> FALSE, ops |-> 3]
NewType == [Seeking EXCEPT !.formats = {1}, !.late = TRUE, !.ops = 2]
TwoPins == [Seeking EXCEPT !.pins = 2, !.packets = 3, !.fails = TRUE, !.ops = 1]
Subtitled == [Seeking EXCEPT !.pins = 2, !.packets = 3, !.texts = {2}, !.ops = 1]
FourGraphs == {Seeking, NewType, TwoPins, Subtitled}
=============================================================================
