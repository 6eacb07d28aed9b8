--------------------------- MODULE MCStreamSwitcher ---------------------------
EXTENDS StreamSwitcher
(* An external audio file beside the film; an ordinary splitter with two   *)
(* audio streams; an AVI or Ogg one, whose pins may all be blocked, with   *)
(* every operation, then with two selections and with two seeks in a row.  *)
AllKinds == {"seek", "select", "stop"}
AllLayouts == {
    [of |-> <<1, 2>>, block |-> {2}, ops |-> 2, kinds |-> AllKinds, at |-> {1}],
    [of |-> <<1, 1>>, block |-> {}, ops |-> 2, kinds |-> AllKinds, at |-> {0, 1}],
    [of |-> <<1, 1>>, block |-> {1, 2}, ops |-> 2, kinds |-> AllKinds, at |-> {0, 1}],
    [of |-> <<1, 1>>, block |-> {1, 2}, ops |-> 3, kinds |-> {"select", "stop"}, at |-> {1}],
    [of |-> <<1, 1>>, block |-> {1, 2}, ops |-> 3, kinds |-> {"seek"}, at |-> {0, 1}]}
==============================================================================
