-------------------------- MODULE MCResearchService ---------------------------
(***************************************************************************)
(* One session, in which everything meets: two turns of planning and two   *)
(* jobs.                                                                   *)
(***************************************************************************)
EXTENDS ResearchService

CONSTANT s1

OneSession == [x \in Job \cup Turn |-> s1]
===============================================================================
