---------------------------- MODULE MCLocalData ----------------------------
(***************************************************************************)
(* Five nodes: a chain, a fork, the fork and join of face detection,       *)
(* two start nodes that meet, two that stay apart, and two of which the    *)
(* second comes after a node it does not feed.  A kernel is faster on the  *)
(* host, faster on the device, or about the same on both, with cheap or    *)
(* dear transfers; the ranks of the nodes lose odd ticks.                  *)
(***************************************************************************)
EXTENDS LocalData

CONSTANT src      \* the application's image

MCGraphs ==
  { << {src}, {1}, {2}, {3}, {4} >>,
    << {src}, {1}, {1}, {2}, {3} >>,
    << {src}, {1}, {2}, {2}, {3, 4} >>,
    << {src}, {src}, {1, 2}, {1, 3}, {3} >>,
    << {src}, {src}, {1}, {2}, {3, src} >>,
    << {src}, {1}, {src}, {2, 3}, {3, 4} >> }

Times(ch, th, cd, td) == [comp  |-> [t \in {"host", "device"} |-> IF t = "host" THEN ch ELSE cd],
                          trans |-> [t \in {"host", "device"} |-> IF t = "host" THEN th ELSE td]]

MCProfiles == { Times(3, 1, 9, 1), Times(9, 1, 1, 1), Times(2, 1, 1, 2), Times(3, 1, 1, 1) }
===========================================================================
