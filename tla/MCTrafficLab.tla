---------------------------- MODULE MCTrafficLab ----------------------------
(* A busy junction at full speed with the shortest cycle, and draws that      *)
(* favour one arm or the other.                                               *)
EXTENDS TrafficLab

MCPanels == {[vehicles |-> 180, cycle |-> 10, lanes |-> 4, speed |-> 1000,
              freeLeft |-> FALSE, splitting |-> FALSE]}
MCDraws == {<<3, 1, 1, 2, 0>>}
=============================================================================
