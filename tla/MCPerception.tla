---------------------------- MODULE MCPerception ----------------------------
(* A node that lists two links, more than the prompt takes, a form with    *)
(* one, the document looked for with a way on, and the document alone.     *)
EXTENDS Perception

Listing  == [candidates |-> <<"a", "b">>, targets |-> FALSE, text |-> TRUE, document |-> FALSE]
Form     == [candidates |-> <<"a">>, targets |-> TRUE, text |-> FALSE, document |-> FALSE]
Document == [candidates |-> <<"b">>, targets |-> TRUE, text |-> TRUE, document |-> TRUE]
Leaf     == [candidates |-> <<>>, targets |-> FALSE, text |-> TRUE, document |-> TRUE]
MCSites  == {Listing, Form, Document, Leaf}
MCLeaf   == {Leaf}

Setting(perception, screenshots, validation, vision) ==
  [perception |-> perception, screenshots |-> screenshots,
   validation |-> validation, vision |-> vision]
MCConfigs == {Setting("llm", TRUE, "llm", TRUE), Setting("llm", FALSE, "llm", FALSE),
              Setting("heuristic", FALSE, "deterministic", FALSE)}
=============================================================================
