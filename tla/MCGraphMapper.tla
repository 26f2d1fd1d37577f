--------------------------- MODULE MCGraphMapper ---------------------------
(***************************************************************************)
(* Small sites for TLC.  Every .cfg picks one of them, definition by       *)
(* definition.                                                             *)
(***************************************************************************)
EXTENDS GraphMapperProperties

(* What most sites leave empty. *)
NoTargets   == [u \in Url |-> {}]
SelfLanding == [u \in Url |-> {u}]
AnyVerdict  == [u \in Url |-> {"none", "negative", "positive"}]
Judged      == [u \in Url |-> {"positive", "negative"}]
NoEvidence  == [u \in Url |-> {}]
OnlyNoHint  == {NoHint}
BackHints   == {NoHint, [back |-> TRUE, prio |-> 1]}
NoYears     == [c \in Cond |-> NoYear]
NoMentions  == [u \in Url |-> {}]
EqualScores == [u \in Url |-> 0]
OnePiece    == [c \in Cond |-> 1]
Roaming     == {"follow_edge", "mark_exhausted", "success"}
Reading     == {"follow_edge", "validate_current_content", "mark_exhausted", "success"}
Filing      == Reading \cup {"download_artifact", "open_artifact"}
Searching   == {"follow_edge", "search_with_text", "mark_exhausted", "success"}
Dithering   == Searching \cup {"validate_current_content", "refine_navigation_perception"}

(* Tree: every target has one origin, and the page has one candidate more  *)
(* than BranchingFactor, one of which perception alone sees.                *)
TreeUrl      == {"root", "page", "leaf", "pdf", "shown"}
TreeLinks    == [u \in TreeUrl |-> CASE u = "root" -> {"page"}
                                     [] u = "page" -> {"leaf", "pdf"}
                                     [] OTHER -> {}]
TreeVisual   == [u \in TreeUrl |-> IF u = "page" THEN {"shown"} ELSE {}]
TreeEvidence == [u \in TreeUrl |-> IF u \in {"pdf", "leaf"} THEN {"found"} ELSE {}]

(* Web: pages that link back and to each other, so that several edges lead  *)
(* to one node and a choice point can wait for a page already visited.      *)
WebUrl   == {"root", "left", "right", "pdf"}
WebLinks == [u \in WebUrl |-> CASE u = "root"  -> {"left", "right"}
                                [] u = "left"  -> {"right", "pdf"}
                                [] u = "right" -> {"root", "left"}
                                [] OTHER -> {}]

(* Dated: two artifacts for the years two conditions ask for, and a page    *)
(* that bears on one of them, which wants two pieces of evidence.           *)
DatedUrl      == {"root", "y23", "y24", "page"}
DatedLinks    == [u \in DatedUrl |-> IF u = "root" THEN {"y23", "y24", "page"} ELSE {}]
DatedCondYear == [c \in {"in23", "in24"} |-> IF c = "in23" THEN 2023 ELSE 2024]
DatedMentions == [u \in DatedUrl |-> CASE u = "y23" -> {2023}
                                       [] u = "y24" -> {2024}
                                       [] OTHER -> {}]
DatedPieces   == [c \in {"in23", "in24"} |-> IF c = "in24" THEN 2 ELSE 1]
DatedScore    == [u \in DatedUrl |-> CASE u = "page" -> 2 [] u = "y24" -> 1 [] OTHER -> 0]
DatedEvidence == [u \in DatedUrl |-> CASE u = "y23" -> {"in23"}
                                       [] u \in {"y24", "page"} -> {"in24"}
                                       [] OTHER -> {}]

(* Portal: a search box in front of the documents, and a result page that    *)
(* may redirect to a login page, which leads back and on.                    *)
PortalUrl      == {"root", "hits", "doc", "login"}
PortalLinks    == [u \in PortalUrl |-> CASE u = "root"  -> {"hits"}
                                         [] u = "login" -> {"hits", "doc"}
                                         [] OTHER -> {}]
PortalRevealed == [u \in PortalUrl |-> IF u = "hits" THEN {"doc"} ELSE {}]
PortalLanding  == [u \in PortalUrl |-> IF u = "hits" THEN {"hits", "login"} ELSE {u}]
PortalSearch   == [u \in PortalUrl |-> CASE u = "root" -> {"root", "hits"}
                                         [] u = "hits" -> {"hits"}
                                         [] OTHER -> {}]
PortalEvidence == [u \in PortalUrl |-> IF u = "doc" THEN {"found"} ELSE {}]
=============================================================================
