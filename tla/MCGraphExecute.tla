--------------------------- MODULE MCGraphExecute ---------------------------
(* Instances of GraphExecute for TLC: an image with two disjoint regions   *)
(* of interest, a delay with two slots, and two buffers.                   *)
EXTENDS GraphExecute

MCRefs == {"image", "top", "bottom", "now", "before", "buffer", "spare"}

MCArea == [r \in MCRefs |-> IF r = "image" THEN {"top", "bottom"} ELSE {r}]

MCAged == [r \in MCRefs |-> CASE r = "now" -> "before"
                              [] r = "before" -> "now"
                              [] OTHER -> r]

Kernel(reads, writes) == [in |-> reads, out |-> writes]

\* Sources, filters, joins of two inputs, a node on the delay, and nodes that
\* close a cycle or give an object a second writer.
MCBindings ==
  {Kernel({}, {"top"}), Kernel({"top"}, {"bottom"}),
   Kernel({"image"}, {"buffer"}), Kernel({"before"}, {"image"}),
   Kernel({"top", "before"}, {"now"}), Kernel({"bottom"}, {"top"})}

\* A graph with one node that reads nothing, for the run in which parameters
\* are set without discipline.
FewBindings == {Kernel({}, {"top"}), Kernel({"bottom"}, {"buffer"})}
=============================================================================
