----------------------------- MODULE Exploration -----------------------------
(***************************************************************************)
(* What a run promises whoever started it, without how it gets there: it   *)
(* tries candidates that a known place offered, one at a time, never takes *)
(* back a try, a place or a piece of evidence, files all evidence under a  *)
(* place it knows, and ends with the verdict its evidence supports.        *)
(* GraphMapper implements it.                                              *)
(***************************************************************************)
CONSTANTS
  Place,  \* places of the site
  Entry,  \* the place the run starts from
  Cond,   \* goal conditions
  Met(_)  \* those a set of evidence satisfies

VARIABLES
  known,     \* places reached
  offered,   \* candidates: pairs of a place and what it leads to
  tried,     \* candidates that were tried, well or badly
  evidence,  \* what was found, from which source, at which place
  outcome    \* "running", then how the run ended
vars == <<known, offered, tried, evidence, outcome>>

Candidate == Place \X Place

Init ==
  /\ known = {Entry} /\ offered = {} /\ tried = {} /\ evidence = {}
  /\ outcome = "running"

(* One source is judged at one place, and may show several conditions.     *)
Learn ==
  \E src \in Place, n \in known', C \in SUBSET Cond :
    evidence' = evidence \cup {[cond |-> c, src |-> src, node |-> n] : c \in C}

(* Another place, or none.                                                 *)
Reach == \E n \in Place : known' \in {known, known \cup {n}}

(* A known place shows candidates, and may be judged as it is seen.        *)
Look ==
  /\ \E n \in known, T \in SUBSET Place : offered' = offered \cup ({n} \X T)
  /\ Learn
  /\ UNCHANGED <<known, tried>>

Try ==
  /\ \E c \in offered : tried' = tried \cup {c}
  /\ Reach /\ Learn
  /\ UNCHANGED offered

Search ==
  /\ Reach
  /\ UNCHANGED <<offered, tried, evidence>>

Explore == (Look \/ Try \/ Search) /\ UNCHANGED outcome

Conclude ==
  /\ outcome' = IF Cond # {} /\ Met(evidence) = Cond THEN "success" ELSE "fail"
  /\ UNCHANGED <<known, offered, tried, evidence>>

(* The step budget, or an error of the site or of a model.                 *)
Abandon ==
  /\ outcome' = "raised"
  /\ UNCHANGED <<known, offered, tried, evidence>>

Next == outcome = "running" /\ (Explore \/ Conclude \/ Abandon)

Spec == Init /\ [][Next]_vars
=============================================================================
