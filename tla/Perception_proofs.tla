------------------------- MODULE Perception_proofs -------------------------
(***************************************************************************)
(* Perceiving and judging a node, for any contents, files, searches and    *)
(* settings: what is remembered of a node, what is judged, what is sent    *)
(* and what is advised, how the passes of a validation escalate, what they *)
(* read, and the types of it all.                                          *)
(***************************************************************************)
EXTENDS Perception, SequenceTheorems, FiniteSetTheorems, WellFoundedInduction, TLAPS

(* The node, its snapshot and its perception tell of one content.          *)
Shown ==
  /\ live \in Sites
  /\ Observed(found) /\ stage # "visited" => found = seen
  /\ ~ Observed(found) => seen \in {NoSite, live}
  /\ stage # "visited" => Observed(seen)
  /\ result # NoResult => result.of = Observation /\ Observed(seen)

(* What a perception under way was handed is what the node holds.          *)
Exchange == stage \in Asking \cup {"matched", "judging"} => handed = seen

IInv == Shown /\ Exchange

LEMMA InitIInv == Init => IInv
BY DEF Init, IInv, Shown, Exchange, Observed, Asking

(* The perception of what the node shows, however it was come by.          *)
LEMMA PerceivedStep ==
  ASSUME IInv, stage # "visited", UNCHANGED nodeVars, result'.of = seen,
         stage' \in {"deciding", "matched"},
         stage' = "matched" => handed' = seen
  PROVE  IInv'
BY DEF IInv, Shown, Exchange, nodeVars, Observed, Observation, Asking

(* Steps that leave the node and its perception alone.                     *)
LEMMA QuietStep ==
  ASSUME IInv, UNCHANGED <<live, found, seen, result>>,
         stage' = "visited" \/ stage # "visited" \/ stage' = stage,
         stage' \in Asking \cup {"matched", "judging"} => handed' = seen
  PROVE  IInv'
BY DEF IInv, Shown, Exchange, Observed, Observation, Asking

LEMMA ConcludeStep ==
  ASSUME IInv, stage \in Asking, NEW p, Conclude(p), UNCHANGED nodeVars
  PROVE  IInv'
<1>1. handed = seen /\ stage # "visited" BY DEF IInv, Exchange, Asking
<1>2. result'.of = seen BY <1>1 DEF Conclude, Perceived
<1>3. CASE Recognised(p)
  BY <1>1, <1>2, <1>3, PerceivedStep DEF Conclude, callVars
<1>4. CASE ~ Recognised(p)
  BY <1>1, <1>2, <1>4, PerceivedStep DEF Conclude
<1> QED BY <1>3, <1>4

LEMMA NodeStep ==
  ASSUME IInv, Inspect \/ Revisit \/ Search
  PROVE  IInv'
<1>1. CASE Inspect
  BY <1>1, PerceptionAssumption DEF Inspect, IInv, Shown, Exchange, Observed, Observation, Asking
<1>2. CASE Revisit
  BY <1>2, PerceptionAssumption DEF Revisit, IInv, Shown, Exchange, Observed, Observation, Asking
<1>3. CASE Search
  BY <1>3, PerceptionAssumption DEF Search, IInv, Shown, Exchange, Observed, Observation, Asking,
     Forgotten
<1> QED BY <1>1, <1>2, <1>3

LEMMA PerceiveStep ==
  ASSUME IInv, Skip \/ PerceiveByRule \/ Perceive
  PROVE  IInv'
<1>1. CASE Skip
  BY <1>1, QuietStep DEF Skip, nodeVars, Asking
<1>2. CASE PerceiveByRule
  <2>1. stage # "visited" /\ Observation = seen
    BY <1>2 DEF PerceiveByRule, IInv, Shown, Observation
  <2>2. result'.of = seen BY <1>2, <2>1 DEF PerceiveByRule, Heuristic, NoResult, Handed
  <2> QED BY <1>2, <2>1, <2>2, PerceivedStep DEF PerceiveByRule
<1>3. CASE Perceive
  <2>1. stage = "viewing" /\ handed' = seen
    BY <1>3 DEF Perceive, Handed, IInv, Shown, Observation
  <2> QED BY <1>3, <2>1, QuietStep DEF Perceive, nodeVars, Asking
<1> QED BY <1>1, <1>2, <1>3

LEMMA AnswerStep ==
  ASSUME IInv, Answers
  PROVE  IInv'
<1>1. CASE PayloadArrives
  <2>1. PICK p : \/ Conclude(p)
                 \/ stage' = "recovery" /\ UNCHANGED <<handed, shot, refused, result>>
    BY <1>1 DEF PayloadArrives
  <2>2. stage \in Asking /\ UNCHANGED nodeVars /\ handed = seen
    BY <1>1 DEF PayloadArrives, Asking, IInv, Exchange
  <2>3. CASE Conclude(p) BY <2>2, <2>3, ConcludeStep
  <2>4. CASE stage' = "recovery" /\ UNCHANGED <<handed, shot, refused, result>>
    BY <2>2, <2>4, QuietStep DEF nodeVars, Asking
  <2> QED BY <2>1, <2>3, <2>4
<1>2. CASE FinalPayloadArrives
  BY <1>2, ConcludeStep DEF FinalPayloadArrives, Asking
<1>3. CASE RefuseScreenshot
  <2>1. stage = "initial" /\ handed = seen
    BY <1>3 DEF RefuseScreenshot, IInv, Exchange, Asking
  <2> QED BY <1>3, <2>1, QuietStep DEF RefuseScreenshot, nodeVars, Asking
<1>4. CASE Degrade
  <2>1. CASE stage = "recovery"
    BY <1>4, <2>1, ConcludeStep DEF Degrade, Asking
  <2>2. CASE stage # "recovery"
    <3>1. stage # "visited" /\ handed = seen BY <1>4 DEF Degrade, IInv, Exchange, Asking
    <3>2. result'.of = seen BY <1>4, <2>2, <3>1 DEF Degrade, Heuristic, NoResult
    <3> QED BY <1>4, <2>2, <3>1, <3>2, PerceivedStep DEF Degrade
  <2> QED BY <2>1, <2>2
<1>5. CASE Break
  BY <1>5, QuietStep DEF Break, nodeVars, Asking
<1> QED BY <1>1, <1>2, <1>3, <1>4, <1>5 DEF Answers

LEMMA JudgeStep ==
  ASSUME IInv, Judges \/ Act
  PROVE  IInv'
<1>1. CASE JudgeMatch
  <2>1. stage = "matched" /\ handed = seen BY <1>1 DEF JudgeMatch, IInv, Exchange
  <2> QED BY <1>1, <2>1, QuietStep DEF JudgeMatch, nodeVars, callVars, Asking
<1>2. CASE Step
  <2>1. stage' = "judging" => handed = seen BY <1>2 DEF Step, IInv, Exchange
  <2> QED BY <1>2, <2>1, QuietStep DEF Step, nodeVars, callVars, Asking, Judging
<1>3. CASE Conclusion
  BY <1>3, QuietStep DEF Conclusion, Asking, Judging
<1>4. CASE Raise
  BY <1>4, QuietStep DEF Raise, nodeVars, Asking, Judging
<1>5. CASE Act
  BY <1>5, QuietStep DEF Act, nodeVars, Asking
<1> QED BY <1>1, <1>2, <1>3, <1>4, <1>5 DEF Judges

LEMMA NextIInv == IInv /\ [Next]_vars => IInv'
<1> SUFFICES ASSUME IInv, [Next]_vars PROVE IInv'
  OBVIOUS
<1>1. CASE UNCHANGED vars
  BY <1>1, QuietStep DEF vars, nodeVars, callVars, IInv, Exchange
<1> QED BY <1>1, NodeStep, PerceiveStep, AnswerStep, JudgeStep DEF Next

LEMMA Inductive == Spec => []IInv
BY InitIInv, NextIInv, PTL DEF Spec

(* ResultStaysCurrent: the perception of a node is one of what it shows    *)
(* now, however many searches it went through.                             *)
THEOREM ResultStaysCurrent == Spec => []ResultCurrent
<1>1. IInv => ResultCurrent BY DEF IInv, Shown, ResultCurrent
<1> QED BY <1>1, Inductive, PTL

(* OnlyTheSeenIsJudged: what is judged because the model recognised it is  *)
(* what the model was shown.                                               *)
THEOREM OnlyTheSeenIsJudged == Spec => []JudgesWhatItSaw
<1>1. IInv => JudgesWhatItSaw BY DEF IInv, Exchange, JudgesWhatItSaw
<1> QED BY <1>1, Inductive, PTL

---------------------------------------------------------------------------
(* What is sent, and what is advised.                                      *)

LEMMA DroppedStep == ScreenshotDropped /\ [Next]_vars => ScreenshotDropped'
<1> SUFFICES ASSUME ScreenshotDropped, [Next]_vars PROVE ScreenshotDropped'
  OBVIOUS
<1>1. CASE stage' \notin Asking
  BY <1>1 DEF ScreenshotDropped
<1>2. CASE stage \in Asking /\ UNCHANGED <<shot, refused>>
  BY <1>2 DEF ScreenshotDropped
<1>3. CASE Perceive
  BY <1>3 DEF Perceive, ScreenshotDropped
<1>4. CASE RefuseScreenshot
  BY <1>4 DEF RefuseScreenshot, WithoutScreenshot, ScreenshotDropped
<1>5. CASE UNCHANGED vars
  BY <1>5 DEF vars, callVars, ScreenshotDropped
<1>6. CASE PayloadArrives \/ FinalPayloadArrives \/ Degrade \/ Break
  BY <1>1, <1>2, <1>6
  DEF PayloadArrives, FinalPayloadArrives, Degrade, Break, Conclude, Asking
<1>7. CASE Inspect \/ Revisit \/ Search \/ Skip \/ PerceiveByRule \/ Act \/ Judges
  BY <1>1, <1>2, <1>7
  DEF Inspect, Revisit, Search, Skip, PerceiveByRule, Act, Judges, JudgeMatch, Step, Conclusion,
      Raise, Asking, Judging
<1> QED BY <1>3, <1>4, <1>5, <1>6, <1>7 DEF Next, Answers

(* DroppedForGood: a screenshot the provider refused is in no later call   *)
(* of the same perception.                                                 *)
THEOREM DroppedForGood == Spec => []ScreenshotDropped
<1>1. Init => ScreenshotDropped BY DEF Init, ScreenshotDropped
<1> QED BY <1>1, DroppedStep, PTL DEF Spec

Sound(r) ==
  /\ r.of.targets => ~ r.exhausted
  /\ r.by = "model" /\ r.of.targets => r.advice # "backtrack_or_use_recoverable_choice_points"
  /\ r.by = "model" /\ r.blocked => r.advice # "validate_current_content"

LEMMA NoneSound == Sound(NoResult)
BY DEF Sound, NoResult, NoSite

LEMMA HeuristicSound ==
  ASSUME NEW site, NEW targets, NEW frames
  PROVE  Sound(Heuristic(site, targets, frames))
BY DEF Sound, Heuristic, NoResult

LEMMA PerceivedSound ==
  ASSUME NEW site, NEW p
  PROVE  Sound(Perceived(site, p))
<1>1. site.targets => Unblocked(site, p) # "backtrack_or_use_recoverable_choice_points"
  BY DEF Unblocked, Steered
<1>2. judged => Unblocked(site, p) # "validate_current_content"
  BY DEF Unblocked
<1> QED BY <1>1, <1>2 DEF Sound, Perceived

LEMMA AdviceStep == Sound(result) /\ [Next]_vars => Sound(result)'
<1> SUFFICES ASSUME Sound(result), [Next]_vars PROVE Sound(result')
  BY DEF Sound
<1>1. CASE UNCHANGED result
  BY <1>1
<1>2. ASSUME NEW p, Conclude(p) PROVE Sound(result')
  BY <1>2, PerceivedSound DEF Conclude
<1>3. CASE Search
  BY <1>3, NoneSound DEF Search, Forgotten
<1>4. CASE PerceiveByRule
  BY <1>4, HeuristicSound DEF PerceiveByRule
<1>5. CASE PayloadArrives \/ FinalPayloadArrives
  BY <1>1, <1>2, <1>5 DEF PayloadArrives, FinalPayloadArrives
<1>6. CASE Degrade
  BY <1>2, <1>6, HeuristicSound DEF Degrade
<1> QED BY <1>1, <1>3, <1>4, <1>5, <1>6
    DEF Next, Answers, Judges, vars, Inspect, Revisit, Skip, Perceive, Act, RefuseScreenshot,
        Break, JudgeMatch, Step, Conclusion, Raise

(* AdviceAlwaysSound: whatever the model answers about whatever content,   *)
(* its advice is corrected before anybody reads it.                        *)
THEOREM AdviceAlwaysSound == Spec => []AdviceSound
<1>1. Init => Sound(result) BY NoneSound DEF Init
<1>2. Sound(result) => AdviceSound BY DEF Sound, AdviceSound
<1> QED BY <1>1, <1>2, AdviceStep, PTL DEF Spec

---------------------------------------------------------------------------
(* The passes of a validation.                                             *)

(* What the passes so far left behind; what they cost is of any kind.      *)
Result(costs) == [strategy : DOMAIN Level, status : Status, pages : costs]
Recorded == \E costs : history \in Seq(Result(costs))

(* The pass under way is a step up from all those before it.               *)
StepsUp == at \in {"execute", "asking"} =>
  /\ pass.strategy \in DOMAIN Level
  /\ \A i \in DOMAIN history :
       Level[history[i].strategy] < Level[pass.strategy] /\ RequestsMore(history[i])

Escalating == Recorded /\ PassesEscalate /\ StepsUp

LEMMA Levels == \A s \in DOMAIN Level : Level[s] \in 1..4
BY DEF Level

LEMMA ChooseStep ==
  ASSUME Escalating, Choose
  PROVE  Escalating'
<1>1. PICK costs : history \in Seq(Result(costs)) BY DEF Escalating, Recorded
<1>2. history' = history /\ pass' = NextPass(request, history) /\ at' \in {"done", "execute"}
  BY DEF Choose
<1>3. at' = "execute" => NextPass(request, history) # NoPass BY DEF Choose
<1>4. ASSUME NextPass(request, history) # NoPass, history # <<>>
      PROVE  /\ NextPass(request, history).strategy \in DOMAIN Level
             /\ RequestsMore(Last(history))
             /\ Level[Last(history).strategy] < Level[NextPass(request, history).strategy]
  <2> DEFINE last == Last(history)
             w == Window(request, history)
  <2>1. RequestsMore(last) BY <1>4 DEF NextPass
  <2>2. CASE last.strategy = "first_page"
    <3>1. NextPass(request, history) \in
            {PatternSearch, [strategy |-> "first_pages_window", pages |-> 1..w]}
      BY <1>4, <2>2 DEF NextPass
    <3> HIDE DEF w, last
    <3> QED BY <2>1, <2>2, <3>1 DEF PatternSearch, Level, last
  <2>3. CASE last.strategy = "first_pages_window"
    <3>1. NextPass(request, history) = PatternSearch BY <1>4, <2>3 DEF NextPass
    <3> HIDE DEF last
    <3> QED BY <2>1, <2>3, <3>1 DEF PatternSearch, Level, last
  <2>4. CASE last.strategy = "pattern_search"
    <3>1. NextPass(request, history) = VisualPage BY <1>4, <2>4 DEF NextPass, AfterPattern
    <3> HIDE DEF last
    <3> QED BY <2>1, <2>4, <3>1 DEF VisualPage, Level, last
  <2>5. last.strategy \in {"first_page", "first_pages_window", "pattern_search"}
    BY <1>4 DEF NextPass
  <2> QED BY <2>2, <2>3, <2>4, <2>5
<1>5. StepsUp'
  <2>1. CASE at' # "execute" BY <1>2, <2>1 DEF StepsUp
  <2>2. CASE at' = "execute" /\ history = <<>>
    <3>1. NextPass(request, history).strategy = "first_page" BY <2>2 DEF NextPass
    <3> QED BY <1>2, <2>2, <3>1 DEF StepsUp, Level
  <2>3. CASE at' = "execute" /\ history # <<>>
    <3> DEFINE n == Len(history)
    <3>1. n \in Nat \ {0} /\ DOMAIN history = 1..n /\ Last(history) = history[n]
          /\ history[n] \in Result(costs)
      BY <1>1, <2>3 DEF Last
    <3>2. \A i \in 1..n : history[i] \in Result(costs)
      <4> HIDE DEF n
      <4> QED BY <1>1, ElementOfSeq DEF n
    <3>3. /\ pass'.strategy \in DOMAIN Level
          /\ RequestsMore(history[n])
          /\ Level[history[n].strategy] < Level[pass'.strategy]
      BY <1>2, <1>3, <1>4, <2>3, <3>1
    <3>4. \A i \in 1..n : i # n =>
            Level[history[i].strategy] < Level[history[n].strategy] /\ RequestsMore(history[i])
      <4> HIDE DEF n
      <4>1. \A i \in 1..n : i # n => i \in DOMAIN history /\ n \in DOMAIN history /\ i < n
        BY <3>1
      <4> QED BY <4>1 DEF Escalating, PassesEscalate
    <3> HIDE DEF n
    <3>5. \A i \in 1..n : /\ Level[history[i].strategy] < Level[pass'.strategy]
                          /\ RequestsMore(history[i])
      <4> TAKE i \in 1..n
      <4>1. CASE i = n BY <3>3, <4>1
      <4>2. CASE i # n
        <5>1. /\ Level[history[i].strategy] \in 1..4 /\ Level[history[n].strategy] \in 1..4
              /\ Level[pass'.strategy] \in 1..4
          BY <3>1, <3>2, <3>3, Levels DEF Result
        <5> QED BY <3>3, <3>4, <4>2, <5>1
      <4> QED BY <4>1, <4>2
    <3> QED BY <1>2, <3>1, <3>3, <3>5 DEF StepsUp, RequestsMore
  <2> QED BY <1>2, <2>1, <2>2, <2>3
<1> QED BY <1>2, <1>5 DEF Escalating, Recorded, PassesEscalate, RequestsMore

LEMMA ResolveStep ==
  ASSUME Escalating, at \in {"execute", "asking"}, NEW status \in Status, NEW cost,
         Resolve(status, cost)
  PROVE  Escalating'
<1> DEFINE new == [strategy |-> pass.strategy, status |-> status, pages |-> cost]
           n == Len(history)
<1>1. PICK costs : history \in Seq(Result(costs)) BY DEF Escalating, Recorded
<1>2. history' = Append(history, new) /\ at' = "choose" BY DEF Resolve, Remembered
<1>3. pass.strategy \in DOMAIN Level BY DEF Escalating, StepsUp
<1>4. new \in Result(costs \cup {cost}) BY <1>3 DEF Result
<1>5. history \in Seq(Result(costs \cup {cost}))
  <2>1. Result(costs) \subseteq Result(costs \cup {cost}) BY DEF Result
  <2> HIDE DEF new, n
  <2> QED BY <1>1, <2>1, SeqMonotonic
<1> HIDE DEF new
<1>6. history' \in Seq(Result(costs \cup {cost})) BY <1>2, <1>4, <1>5
<1>7. /\ n \in Nat /\ DOMAIN history = 1..n /\ DOMAIN history' = 1..(n + 1)
      /\ history'[n + 1] = new /\ \A i \in 1..n : history'[i] = history[i]
  BY <1>2, <1>4, <1>5
<1>8. \A i \in 1..n : Level[history[i].strategy] < Level[new.strategy] /\ RequestsMore(history[i])
  BY <1>7 DEF Escalating, StepsUp, new
<1>9. PassesEscalate'
  <2> SUFFICES ASSUME NEW i \in 1..(n + 1), NEW j \in 1..(n + 1), i < j
               PROVE  /\ Level[history'[i].strategy] < Level[history'[j].strategy]
                      /\ RequestsMore(history'[i])
    BY <1>7 DEF PassesEscalate, RequestsMore
  <2> HIDE DEF n
  <2>1. i \in 1..n /\ (j \in 1..n \/ j = n + 1) BY <1>7
  <2>2. CASE j \in 1..n BY <1>7, <2>1, <2>2 DEF Escalating, PassesEscalate
  <2>3. CASE j = n + 1 BY <1>7, <1>8, <2>1, <2>3
  <2> QED BY <2>1, <2>2, <2>3
<1> QED BY <1>2, <1>6, <1>9 DEF Escalating, Recorded, StepsUp

(* A validation that has not begun, or one whose passes are left alone.    *)
LEMMA EmptyEscalates ==
  ASSUME history' = <<>>, at' \notin {"execute", "asking"}
  PROVE  Escalating'
<1>1. Recorded' BY DEF Recorded
<1> QED BY <1>1 DEF Escalating, PassesEscalate, StepsUp

LEMMA SamePasses ==
  ASSUME Escalating, UNCHANGED <<history, pass>>,
         at' \in {"execute", "asking"} => at \in {"execute", "asking"}
  PROVE  Escalating'
BY DEF Escalating, Recorded, PassesEscalate, StepsUp, RequestsMore

LEMMA ValidateStep ==
  ASSUME Escalating, Validate
  PROVE  Escalating'
<1>1. CASE Unreadable \/ Ask \/ RetryWithoutPicture \/ Unanswered
  BY <1>1, SamePasses DEF Unreadable, Ask, RetryWithoutPicture, Unanswered, Executes, Is
<1>2. CASE Unasked
  <2>1. at = "execute" BY <1>2 DEF Unasked, Executes, Is
  <2>2. (IF Skipped THEN "decided" ELSE "open") \in Status BY DEF Status
  <2> QED BY <1>2, <2>1, <2>2, ResolveStep DEF Unasked
<1>3. CASE Match
  <2>1. at = "execute" BY <1>3 DEF Match, Executes, Is
  <2>2. PICK status \in Outcomes : Resolve(status, Cost(request, pass)) BY <1>3 DEF Match
  <2>3. status \in Status BY <2>2 DEF Outcomes, Status
  <2> QED BY <2>1, <2>2, <2>3, ResolveStep
<1>4. CASE Answer
  BY <1>4, ResolveStep DEF Answer, Is
<1> QED BY <1>1, <1>2, <1>3, <1>4, ChooseStep DEF Validate

LEMMA EscalatingStep == Escalating /\ [Next]_vars => Escalating'
<1> SUFFICES ASSUME Escalating, [Next]_vars PROVE Escalating'
  OBVIOUS
<1>1. CASE UNCHANGED validationVars
  BY <1>1, SamePasses DEF validationVars
<1>2. CASE JudgeMatch \/ Act \/ Conclusion
  BY <1>2, EmptyEscalates DEF JudgeMatch, Act, Conclusion, Begin, Over
<1>3. CASE Step
  BY <1>3, ValidateStep DEF Step
<1> QED BY <1>1, <1>2, <1>3
    DEF Next, Answers, Judges, vars, Inspect, Revisit, Search, Skip, PerceiveByRule, Perceive,
        PayloadArrives, FinalPayloadArrives, RefuseScreenshot, Degrade, Break, Raise

LEMMA EscalatingInit == Init => Escalating
<1> SUFFICES ASSUME Init PROVE Escalating
  OBVIOUS
<1>1. history = <<>> /\ at = "idle" BY DEF Init, ValidationInit
<1>2. Recorded BY <1>1 DEF Recorded
<1> QED BY <1>1, <1>2 DEF Escalating, PassesEscalate, StepsUp

(* AlwaysEscalates: for files of any length and any settings, the passes   *)
(* of a validation only step up, each because the one before asked for it. *)
THEOREM AlwaysEscalates == Spec => []PassesEscalate
<1>1. Escalating => PassesEscalate BY DEF Escalating
<1> QED BY <1>1, EscalatingInit, EscalatingStep, PTL DEF Spec

---------------------------------------------------------------------------
(* What the passes of a validation have read.                              *)

LEMMA LeastNumber ==
  ASSUME NEW T \in SUBSET Nat, T # {}
  PROVE  \E k \in T : \A j \in T : k <= j
<1>1. PICK k \in T : \A j \in T : ~ (<<j, k>> \in OpToRel(<, Nat))
  BY WFMin, NatLessThanWellFounded, Zenon
<1>2. \A j \in T : ~ (j < k) BY <1>1 DEF OpToRel
<1> QED BY <1>2

(* f sums up what the first n passes of h read, for each n.                 *)
Sums(f, h, n) ==
  /\ f \in [0..n -> Nat] /\ f[0] = 0
  /\ \A k \in 1..n : f[k] = f[k - 1] + h[k].pages

LEMMA SumsExist ==
  ASSUME NEW h, NEW n \in Nat, \A k \in 1..n : h[k].pages \in Nat
  PROVE  \E f : Sums(f, h, n)
<1> DEFINE T == {k \in 0..n : ~ \E f : Sums(f, h, k)}
<1> SUFFICES ASSUME T # {} PROVE FALSE
  OBVIOUS
<1>1. PICK k \in T : \A j \in T : k <= j
  <2>1. T \in SUBSET Nat OBVIOUS
  <2> HIDE DEF T
  <2> QED BY <2>1, LeastNumber
<1>2. k # 0
  <2> DEFINE f == [i \in 0..0 |-> 0]
  <2>1. Sums(f, h, 0) BY DEF Sums
  <2> QED BY <1>1, <2>1
<1>3. k \in 1..n /\ k - 1 \in 0..n /\ k - 1 < k BY <1>1, <1>2
<1>4. PICK f : Sums(f, h, k - 1) BY <1>1, <1>3
<1> DEFINE g == [i \in 0..k |-> IF i = k THEN f[k - 1] + h[k].pages ELSE f[i]]
<1>5. Sums(g, h, k)
  <2>1. f \in [0..(k - 1) -> Nat] /\ f[0] = 0 BY <1>4 DEF Sums
  <2>2. g \in [0..k -> Nat] /\ g[0] = 0 BY <1>3, <2>1
  <2>3. ASSUME NEW i \in 1..k PROVE g[i] = g[i - 1] + h[i].pages
    <3>1. i - 1 \in 0..k /\ i - 1 # k /\ i \in 0..k BY <1>3
    <3>2. g[i - 1] = f[i - 1] BY <3>1
    <3>3. CASE i = k BY <3>1, <3>2, <3>3
    <3>4. CASE i # k
      <4>1. i \in 1..(k - 1) BY <1>3, <3>4
      <4>2. g[i] = f[i] BY <3>1, <3>4
      <4> HIDE DEF g
      <4> QED BY <1>4, <3>2, <4>1, <4>2 DEF Sums
    <3> QED BY <3>3, <3>4
  <2> QED BY <2>2, <2>3 DEF Sums
<1> QED BY <1>1, <1>5

LEMMA SumsAgree ==
  ASSUME NEW h, NEW j, NEW n \in Nat, NEW m \in Nat, n <= m,
         \A k \in 1..n : h[k] = j[k],
         NEW f, Sums(f, h, n), NEW g, Sums(g, j, m)
  PROVE  \A k \in 0..n : f[k] = g[k]
<1> DEFINE T == {k \in 0..n : f[k] # g[k]}
<1> SUFFICES ASSUME T # {} PROVE FALSE
  OBVIOUS
<1>1. PICK k \in T : \A i \in T : k <= i
  <2>1. T \in SUBSET Nat OBVIOUS
  <2> HIDE DEF T
  <2> QED BY <2>1, LeastNumber
<1>2. k # 0 BY <1>1 DEF Sums
<1>3. k \in 1..n /\ k \in 1..m /\ k - 1 \in 0..n /\ k - 1 < k BY <1>1, <1>2
<1>4. f[k - 1] = g[k - 1] BY <1>1, <1>3
<1>5. f[k] = f[k - 1] + h[k].pages BY <1>3 DEF Sums
<1>6. g[k] = g[k - 1] + j[k].pages BY <1>3 DEF Sums
<1>7. h[k] = j[k] BY <1>3
<1> QED BY <1>1, <1>4, <1>5, <1>6, <1>7

LEMMA ConsumedSums ==
  ASSUME NEW h \in Seq(Result(Nat))
  PROVE  \E f : Sums(f, h, Len(h)) /\ Consumed(h) = f[Len(h)]
<1> DEFINE n == Len(h)
           Rec(f) == f = [k \in 0..n |-> IF k = 0 THEN 0 ELSE f[k - 1] + h[k].pages]
           s == CHOOSE f : Rec(f)
<1>1. n \in Nat /\ \A k \in 1..n : h[k].pages \in Nat
  <2>1. \A k \in 1..n : h[k] \in Result(Nat) BY ElementOfSeq
  <2> QED BY <2>1, LenProperties DEF Result
<1>2. Consumed(h) = s[n] BY DEF Consumed
<1> HIDE DEF n
<1>3. PICK f : Sums(f, h, n) BY <1>1, SumsExist
<1>4. Rec(f)
  <2>1. f = [k \in 0..n |-> f[k]] BY <1>3 DEF Sums
  <2>2. \A k \in 0..n : f[k] = IF k = 0 THEN 0 ELSE f[k - 1] + h[k].pages
    BY <1>1, <1>3 DEF Sums
  <2> QED BY <2>1, <2>2
<1>5. Rec(s) BY <1>4
<1> HIDE DEF s
<1>6. Sums(s, h, n)
  <2>1. DOMAIN s = 0..n /\ s[0] = 0 /\ \A k \in 1..n : s[k] = s[k - 1] + h[k].pages
    BY <1>1, <1>5
  <2> DEFINE T == {k \in 0..n : s[k] \notin Nat}
  <2>2. T = {}
    <3> SUFFICES ASSUME T # {} PROVE FALSE
      OBVIOUS
    <3>1. PICK k \in T : \A i \in T : k <= i
      <4>1. T \in SUBSET Nat OBVIOUS
      <4> HIDE DEF T
      <4> QED BY <4>1, LeastNumber
    <3>2. k # 0 BY <2>1, <3>1
    <3>3. k \in 1..n /\ k - 1 \in 0..n /\ k - 1 < k BY <1>1, <3>1, <3>2
    <3>4. s[k - 1] \in Nat BY <3>1, <3>3
    <3>5. s[k] = s[k - 1] + h[k].pages BY <2>1, <3>3
    <3>6. h[k].pages \in Nat BY <1>1, <3>3
    <3>7. s[k] \notin Nat BY <3>1
    <3> QED BY <3>4, <3>5, <3>6, <3>7
  <2>3. s = [k \in 0..n |-> s[k]] BY <1>5
  <2>4. s \in [0..n -> Nat] BY <2>2, <2>3
  <2> QED BY <2>1, <2>4 DEF Sums
<1> QED BY <1>2, <1>6 DEF n

(* Remembering the result of a pass adds what it read.                      *)
LEMMA ConsumedGrows ==
  ASSUME NEW h \in Seq(Result(Nat)), NEW r \in Result(Nat)
  PROVE  /\ Consumed(h) \in Nat
         /\ Consumed(Append(h, r)) = Consumed(h) + r.pages
<1> DEFINE n == Len(h)
           j == Append(h, r)
<1>1. /\ j \in Seq(Result(Nat)) /\ n \in Nat /\ Len(j) = n + 1
      /\ \A k \in 1..n : j[k] = h[k]
      /\ j[n + 1] = r
  BY AppendProperties, LenProperties
<1>2. PICK f : Sums(f, h, n) /\ Consumed(h) = f[n] BY ConsumedSums
<1>3. PICK g : Sums(g, j, n + 1) /\ Consumed(j) = g[n + 1] BY <1>1, ConsumedSums
<1> HIDE DEF n, j
<1>4. \A k \in 0..n : f[k] = g[k]
  <2> DEFINE m == n + 1
  <2>1. n \in Nat /\ m \in Nat /\ n <= m BY <1>1
  <2>2. \A k \in 1..n : h[k] = j[k] BY <1>1
  <2>3. Sums(f, h, n) BY <1>2
  <2>4. Sums(g, j, m) BY <1>3
  <2> HIDE DEF m
  <2> QED BY <2>1, <2>2, <2>3, <2>4, SumsAgree
<1>5. g[n + 1] = g[n] + r.pages
  <2>1. n + 1 \in 1..(n + 1) /\ (n + 1) - 1 = n BY <1>1
  <2> QED BY <1>1, <1>3, <2>1 DEF Sums
<1>6. f[n] \in Nat /\ n \in 0..n BY <1>1, <1>2 DEF Sums
<1> QED BY <1>2, <1>3, <1>4, <1>5, <1>6 DEF j

LEMMA ConsumedNothing == Consumed(<<>>) = 0
<1>1. <<>> \in Seq(Result(Nat)) /\ Len(<<>>) = 0 BY EmptySeq
<1>2. PICK f : Sums(f, <<>>, 0) /\ Consumed(<<>>) = f[0] BY <1>1, ConsumedSums
<1> QED BY <1>2 DEF Sums

---------------------------------------------------------------------------
(* What a validation reads stays within its budget.                        *)

(* The pass under way is one the budget still affords.                     *)
Affordable == at \in {"execute", "asking"} =>
  /\ pass.strategy \in DOMAIN Level
  /\ Cost(request, pass) \in Nat
  /\ Consumed(history) + Cost(request, pass) <= request.limit

Budgeted ==
  /\ request \in Request /\ history \in Seq(Result(Nat))
  /\ BudgetKept /\ Affordable

LEMMA RequestSet ==
  ASSUME NEW pages \in SUBSET (0..MaxPages), NEW texts \in SUBSET BOOLEAN,
         NEW shots \in SUBSET BOOLEAN, NEW limit \in 1..3
  PROVE  [pages : pages, inline : texts, shot : shots, pending : BOOLEAN,
          limit : {limit}, escalates : {limit > 1}] \subseteq Request
<1>1. {limit > 1} \subseteq BOOLEAN /\ {limit} \subseteq 1..3 OBVIOUS
<1> QED BY <1>1 DEF Request

LEMMA RequestsTyped ==
  NoRequest \in Request /\ \A origin \in DOMAIN Requests : Requests[origin] \subseteq Request
<1>1. MaxPages \in Nat \ {0} BY ValidationAssumption
<1>2. NoRequest \in Request BY <1>1 DEF NoRequest, Request
<1> DEFINE Of(pages, texts, shots, limit) ==
             [pages : pages, inline : texts, shot : shots, pending : BOOLEAN,
              limit : {limit}, escalates : {limit > 1}]
<1>3. \A pages \in SUBSET (0..MaxPages), texts, shots \in SUBSET BOOLEAN, limit \in 1..3 :
        Of(pages, texts, shots, limit) \subseteq Request
  BY RequestSet
<1>4. /\ {0} \in SUBSET (0..MaxPages) /\ 1..MaxPages \in SUBSET (0..MaxPages)
      /\ 0..MaxPages \in SUBSET (0..MaxPages)
      /\ {TRUE} \in SUBSET BOOLEAN /\ {FALSE} \in SUBSET BOOLEAN
      /\ BOOLEAN \in SUBSET BOOLEAN
      /\ 1 \in 1..3 /\ 2 \in 1..3 /\ 3 \in 1..3
  BY <1>1
<1>5. /\ Requests["opened"] = Of(1..MaxPages, BOOLEAN, {FALSE}, 3) \cup Of({0}, {TRUE}, {FALSE}, 3)
      /\ Requests["downloaded"] = Of(0..MaxPages, {FALSE}, {FALSE}, 2)
      /\ Requests["inspected"] = Of({0}, {TRUE}, BOOLEAN, 1) \cup Of({0}, {FALSE}, {TRUE}, 1)
  BY DEF Requests
<1> HIDE DEF Of
<1>7. Requests["opened"] \subseteq Request
  <2>1. Of(1..MaxPages, BOOLEAN, {FALSE}, 3) \subseteq Request BY <1>3, <1>4, Zenon
  <2>2. Of({0}, {TRUE}, {FALSE}, 3) \subseteq Request BY <1>3, <1>4, Zenon
  <2> QED BY <1>5, <2>1, <2>2
<1>8. Requests["downloaded"] \subseteq Request
  <2>1. Of(0..MaxPages, {FALSE}, {FALSE}, 2) \subseteq Request BY <1>3, <1>4, Zenon
  <2> QED BY <1>5, <2>1
<1>9. Requests["inspected"] \subseteq Request
  <2>1. Of({0}, {TRUE}, BOOLEAN, 1) \subseteq Request BY <1>3, <1>4, Zenon
  <2>2. Of({0}, {FALSE}, {TRUE}, 1) \subseteq Request BY <1>3, <1>4, Zenon
  <2> QED BY <1>5, <2>1, <2>2
<1>6. DOMAIN Requests = {"opened", "downloaded", "inspected"} BY DEF Requests
<1> QED BY <1>2, <1>6, <1>7, <1>8, <1>9

LEMMA SmallestIsLeast ==
  ASSUME NEW S \in SUBSET Int, NEW x \in S, \A y \in S : x <= y
  PROVE  Smallest(S) \in S /\ \A y \in S : Smallest(S) <= y
BY DEF Smallest

(* A window is never wider than what is left of the budget.                *)
LEMMA WindowAffords ==
  ASSUME NEW r \in Request, NEW h \in Seq(Result(Nat))
  PROVE  /\ Window(r, h) \in Int
         /\ Window(r, h) <= r.limit - Consumed(h)
         /\ Window(r, h) <= 3
<1>1. r.limit \in 1..3 /\ Consumed(h) \in Nat BY ConsumedSums DEF Request, Sums
<1> DEFINE S == {r.limit, 3, r.limit - Consumed(h)}
           rest == r.limit - Consumed(h)
<1>2. S \in SUBSET Int /\ rest \in Int BY <1>1
<1>3. rest \in S /\ \A y \in S : rest <= y BY <1>1
<1>4. Window(r, h) = Smallest(S) BY DEF Window
<1> HIDE DEF S, rest
<1>5. Smallest(S) \in S /\ Smallest(S) <= rest BY <1>2, <1>3, SmallestIsLeast
<1>6. Smallest(S) \in Int BY <1>2, <1>5
<1> QED BY <1>1, <1>4, <1>5, <1>6 DEF rest

(* The pages of a pass count.                                              *)
LEMMA PagesCounted ==
  ASSUME NEW r \in Request, NEW w \in Nat, w >= 1, NEW p, p.pages = 1..w,
         p.strategy \in {"first_page", "first_pages_window"}
  PROVE  Cost(r, p) \in Nat /\ Cost(r, p) <= w
<1>1. Cost(r, p) = Cardinality(Pages(r, p)) BY DEF Cost
<1>2. Cardinality({1}) = 1 /\ Cardinality({}) = 0 BY FS_Singleton, FS_EmptySet
<1>3. Cardinality(1..w) = w BY FS_Interval
<1>4. Pages(r, p) = {1} \/ Pages(r, p) = {} \/ Pages(r, p) = 1..w BY DEF Pages
<1>5. CASE Pages(r, p) = {1} BY <1>1, <1>2, <1>5
<1>6. CASE Pages(r, p) = {} BY <1>1, <1>2, <1>6
<1>7. CASE Pages(r, p) = 1..w BY <1>1, <1>3, <1>7
<1> QED BY <1>4, <1>5, <1>6, <1>7

(* The next pass is one the budget affords.                                *)
LEMMA NextAffords ==
  ASSUME NEW r \in Request, NEW h \in Seq(Result(Nat)), Consumed(h) <= r.limit,
         NextPass(r, h) # NoPass
  PROVE  /\ NextPass(r, h).strategy \in DOMAIN Level
         /\ Cost(r, NextPass(r, h)) \in Nat
         /\ Consumed(h) + Cost(r, NextPass(r, h)) <= r.limit
<1> DEFINE p == NextPass(r, h)
           w == Window(r, h)
           last == Last(h)
<1>1. r.limit \in 1..3 /\ Consumed(h) \in Nat BY ConsumedSums DEF Request, Sums
<1>2. CASE h = <<>>
  <2>1. p = [strategy |-> "first_page", pages |-> {1}] BY <1>2 DEF NextPass
  <2>2. p.strategy = "first_page" /\ p.pages = 1..1 BY <2>1
  <2> HIDE DEF p
  <2>3. Cost(r, p) \in Nat /\ Cost(r, p) <= 1
    <3>1. PICK one \in Nat : one = 1 OBVIOUS
    <3>2. one >= 1 /\ p.pages = 1..one /\ p.strategy \in {"first_page", "first_pages_window"}
      BY <2>2, <3>1
    <3>3. Cost(r, p) \in Nat /\ Cost(r, p) <= one BY <3>2, PagesCounted
    <3> QED BY <3>1, <3>3
  <2> QED BY <1>1, <1>2, <2>2, <2>3, ConsumedNothing DEF Level, p
<1>3. CASE p \in {PatternSearch, VisualPage}
  <2> HIDE DEF p
  <2>1. p.strategy \in {"pattern_search", "visual_page"} BY <1>3 DEF PatternSearch, VisualPage
  <2>2. Cost(r, p) = 0 BY <2>1 DEF Cost
  <2> QED BY <1>1, <2>1, <2>2 DEF Level, p
<1>4. CASE w > 1 /\ p = [strategy |-> "first_pages_window", pages |-> 1..w]
  <2>1. w \in Int /\ w <= r.limit - Consumed(h) BY WindowAffords
  <2> HIDE DEF p, w
  <2>2. w \in Nat /\ w >= 1 BY <1>4, <2>1
  <2>3. p.strategy = "first_pages_window" /\ p.pages = 1..w BY <1>4
  <2>4. Cost(r, p) \in Nat /\ Cost(r, p) <= w BY <2>2, <2>3, PagesCounted
  <2> QED BY <1>1, <2>1, <2>3, <2>4 DEF Level, p
<1>5. h = <<>> \/ p \in {PatternSearch, VisualPage}
      \/ (w > 1 /\ p = [strategy |-> "first_pages_window", pages |-> 1..w])
  <2> SUFFICES ASSUME h # <<>> PROVE p \in {PatternSearch, VisualPage}
      \/ (w > 1 /\ p = [strategy |-> "first_pages_window", pages |-> 1..w])
    OBVIOUS
  <2>0. w \in Int BY WindowAffords
  <2> DEFINE then == CASE last.strategy = "first_page" ->
              IF w <= 1 THEN PatternSearch
              ELSE [strategy |-> "first_pages_window", pages |-> 1..w]
         [] last.strategy = "first_pages_window" -> PatternSearch
         [] last.strategy = "pattern_search"     -> AfterPattern
         [] OTHER -> NoPass
  <2>1. p = then /\ p # NoPass BY DEF NextPass
  <2> HIDE DEF p, w, last
  <2>2. CASE last.strategy = "first_page" BY <2>0, <2>1, <2>2
  <2>3. CASE last.strategy = "first_pages_window" BY <2>1, <2>3
  <2>4. CASE last.strategy = "pattern_search" BY <2>1, <2>4 DEF AfterPattern
  <2>5. CASE last.strategy \notin {"first_page", "first_pages_window", "pattern_search"}
    BY <2>1, <2>5
  <2> QED BY <2>2, <2>3, <2>4, <2>5
<1> QED BY <1>2, <1>3, <1>4, <1>5

LEMMA BudgetChoose ==
  ASSUME Budgeted, Choose
  PROVE  Budgeted'
<1>1. /\ UNCHANGED <<request, history>> /\ pass' = NextPass(request, history)
      /\ at' = IF pass' = NoPass THEN "done" ELSE "execute"
  BY DEF Choose
<1>2. request' \in Request /\ history' \in Seq(Result(Nat)) /\ BudgetKept'
  BY <1>1 DEF Budgeted, BudgetKept
<1>3. CASE pass' = NoPass BY <1>1, <1>2, <1>3 DEF Budgeted, Affordable
<1>4. CASE pass' # NoPass
  <2>1. request \in Request /\ history \in Seq(Result(Nat)) /\ Consumed(history) <= request.limit
    BY DEF Budgeted, BudgetKept
  <2>2. /\ pass'.strategy \in DOMAIN Level /\ Cost(request, pass') \in Nat
        /\ Consumed(history) + Cost(request, pass') <= request.limit
    BY <1>1, <1>4, <2>1, NextAffords
  <2> QED BY <1>1, <1>2, <2>2 DEF Budgeted, Affordable
<1> QED BY <1>3, <1>4

(* A pass under way resolves, at what it costs or at nothing.              *)
LEMMA BudgetResolve ==
  ASSUME Budgeted, at \in {"execute", "asking"}, NEW status \in Status,
         NEW cost \in {0, Cost(request, pass)}, Resolve(status, cost), UNCHANGED request
  PROVE  Budgeted'
<1> DEFINE new == [strategy |-> pass.strategy, status |-> status, pages |-> cost]
<1>1. /\ pass.strategy \in DOMAIN Level /\ Cost(request, pass) \in Nat
      /\ Consumed(history) + Cost(request, pass) <= request.limit
      /\ request \in Request /\ history \in Seq(Result(Nat))
  BY DEF Budgeted, Affordable
<1>2. history' = Append(history, new) /\ at' = "choose" BY DEF Resolve, Remembered
<1>3. new \in Result(Nat) /\ new.pages = cost BY <1>1 DEF Result
<1> HIDE DEF new
<1>4. history' \in Seq(Result(Nat)) BY <1>1, <1>2, <1>3, AppendProperties
<1>5. Consumed(history) \in Nat /\ Consumed(history') = Consumed(history) + cost
  BY <1>1, <1>2, <1>3, ConsumedGrows
<1>6. request.limit \in 1..3 BY <1>1 DEF Request
<1>7. Consumed(history') <= request'.limit BY <1>1, <1>5, <1>6
<1> QED BY <1>1, <1>2, <1>4, <1>7 DEF Budgeted, BudgetKept, Affordable

LEMMA BudgetSame ==
  ASSUME Budgeted, UNCHANGED <<request, history, pass>>,
         at' \in {"execute", "asking"} => at \in {"execute", "asking"}
  PROVE  Budgeted'
<1>1. request' \in Request /\ history' \in Seq(Result(Nat)) /\ BudgetKept'
  BY DEF Budgeted, BudgetKept
<1>2. Cost(request, pass)' = Cost(request, pass) BY DEF Cost, Pages
<1> QED BY <1>1, <1>2 DEF Budgeted, Affordable

LEMMA BudgetEmpty ==
  ASSUME request' \in Request, history' = <<>>, at' \notin {"execute", "asking"}
  PROVE  Budgeted'
<1>1. request'.limit \in 1..3 BY DEF Request
<1>2. history' \in Seq(Result(Nat)) /\ Consumed(history') = 0 BY ConsumedNothing
<1> QED BY <1>1, <1>2 DEF Budgeted, BudgetKept, Affordable

LEMMA BudgetValidate ==
  ASSUME Budgeted, Validate
  PROVE  Budgeted'
<1>1. CASE Unreadable \/ Ask \/ RetryWithoutPicture \/ Unanswered
  BY <1>1, BudgetSame DEF Unreadable, Ask, RetryWithoutPicture, Unanswered, Executes, Is
<1>2. CASE Unasked
  <2>1. at = "execute" /\ UNCHANGED request BY <1>2 DEF Unasked, Executes, Is
  <2>2. (IF Skipped THEN "decided" ELSE "open") \in Status BY DEF Status
  <2> QED BY <1>2, <2>1, <2>2, BudgetResolve DEF Unasked
<1>3. CASE Match
  <2>1. at = "execute" /\ UNCHANGED request BY <1>3 DEF Match, Executes, Is
  <2>2. PICK status \in Outcomes : Resolve(status, Cost(request, pass)) BY <1>3 DEF Match
  <2>3. status \in Status BY <2>2 DEF Outcomes, Status
  <2> QED BY <2>1, <2>2, <2>3, BudgetResolve
<1>4. CASE Answer
  <2>1. at = "asking" /\ UNCHANGED request BY <1>4 DEF Answer, Is
  <2>2. PICK status \in Status : Resolve(status, Cost(request, pass)) BY <1>4 DEF Answer
  <2> QED BY <2>1, <2>2, BudgetResolve
<1> QED BY <1>1, <1>2, <1>3, <1>4, BudgetChoose DEF Validate

(* Every validation begins with a request of one of the kinds listed.      *)
LEMMA BegunTyped ==
  ASSUME JudgeMatch \/ Act \/ Conclusion
  PROVE  request' \in Request /\ history' = <<>> /\ at' \in {"idle", "choose"}
<1>1. CASE JudgeMatch
  <2>1. PICK pending \in BOOLEAN :
          Begin([pages |-> 0, inline |-> TRUE, shot |-> FALSE, pending |-> pending,
                 limit |-> 1, escalates |-> FALSE])
    BY <1>1 DEF JudgeMatch
  <2>2. [pages |-> 0, inline |-> TRUE, shot |-> FALSE, pending |-> pending,
         limit |-> 1, escalates |-> FALSE] \in Request
    BY ValidationAssumption DEF Request
  <2> QED BY <2>1, <2>2 DEF Begin
<1>2. CASE Act
  <2>1. PICK origin \in DOMAIN Requests : \E r \in Requests[origin] : Begin(r)
    BY <1>2 DEF Act
  <2>2. PICK r \in Requests[origin] : Begin(r) BY <2>1
  <2>3. r \in Request BY <2>1, <2>2, RequestsTyped
  <2> QED BY <2>2, <2>3 DEF Begin
<1>3. CASE Conclusion
  BY <1>3, RequestsTyped DEF Conclusion, Over
<1> QED BY <1>1, <1>2, <1>3

LEMMA BudgetStep == Budgeted /\ [Next]_vars => Budgeted'
<1> SUFFICES ASSUME Budgeted, [Next]_vars PROVE Budgeted'
  OBVIOUS
<1>1. CASE UNCHANGED validationVars
  BY <1>1, BudgetSame DEF validationVars
<1>2. CASE JudgeMatch \/ Act \/ Conclusion
  BY <1>2, BegunTyped, BudgetEmpty
<1>3. CASE Step
  BY <1>3, BudgetValidate DEF Step
<1> QED BY <1>1, <1>2, <1>3
    DEF Next, Answers, Judges, vars, Inspect, Revisit, Search, Skip, PerceiveByRule, Perceive,
        PayloadArrives, FinalPayloadArrives, RefuseScreenshot, Degrade, Break, Raise

LEMMA BudgetInit == Init => Budgeted
<1> SUFFICES ASSUME Init PROVE Budgeted
  OBVIOUS
<1>1. request = NoRequest /\ history = <<>> /\ at = "idle" BY DEF Init, ValidationInit
<1>2. request \in Request /\ request.limit = 1 BY <1>1, RequestsTyped DEF NoRequest
<1>3. history \in Seq(Result(Nat)) /\ Consumed(history) = 0 BY <1>1, ConsumedNothing
<1> QED BY <1>1, <1>2, <1>3 DEF Budgeted, BudgetKept, Affordable

(* BudgetAlwaysKept: for files of any length and any settings, the windows *)
(* a validation escalates to never read more than the budget it was given. *)
THEOREM BudgetAlwaysKept == Spec => []BudgetKept
<1>1. Budgeted => BudgetKept BY DEF Budgeted
<1> QED BY <1>1, BudgetInit, BudgetStep, PTL DEF Spec

---------------------------------------------------------------------------
(* Types.                                                                  *)

(* A validation has no more passes than there are levels to escalate to.   *)
LEMMA FewPasses ==
  ASSUME Escalating
  PROVE  Len(history) <= Cardinality(DOMAIN Level)
<1>1. DOMAIN Level = {"first_page", "first_pages_window", "pattern_search", "visual_page"}
  BY DEF Level
<1>2. Cardinality(DOMAIN Level) = 4
  <2>1. Cardinality({"first_page"}) = 1 /\ IsFiniteSet({"first_page"}) BY FS_Singleton
  <2>2. /\ IsFiniteSet({"first_page"} \cup {"first_pages_window"})
        /\ Cardinality({"first_page"} \cup {"first_pages_window"}) = 2
    BY <2>1, FS_AddElement
  <2>3. /\ IsFiniteSet(({"first_page"} \cup {"first_pages_window"}) \cup {"pattern_search"})
        /\ Cardinality(({"first_page"} \cup {"first_pages_window"}) \cup {"pattern_search"}) = 3
    BY <2>2, FS_AddElement
  <2>4. Cardinality((({"first_page"} \cup {"first_pages_window"}) \cup {"pattern_search"})
                    \cup {"visual_page"}) = 4
    BY <2>3, FS_AddElement
  <2>5. DOMAIN Level = (({"first_page"} \cup {"first_pages_window"}) \cup {"pattern_search"})
                       \cup {"visual_page"}
    BY <1>1
  <2> QED BY <2>4, <2>5
<1>3. PICK costs : history \in Seq(Result(costs)) BY DEF Escalating, Recorded
<1> DEFINE n == Len(history)
           level(i) == Level[history[i].strategy]
<1>4. n \in Nat /\ DOMAIN history = 1..n BY <1>3, LenProperties
<1>5. \A i \in 1..n : level(i) \in 1..4
  <2>1. \A i \in 1..n : history[i] \in Result(costs) BY <1>3, ElementOfSeq
  <2> QED BY <2>1, Levels DEF Result
<1>6. \A i, j \in 1..n : i < j => level(i) < level(j) BY <1>4 DEF Escalating, PassesEscalate
<1> HIDE DEF n, level
<1>7. ~ (n >= 5)
  <2> SUFFICES ASSUME n >= 5 PROVE FALSE
    OBVIOUS
  <2>1. 1 \in 1..n /\ 2 \in 1..n /\ 3 \in 1..n /\ 4 \in 1..n /\ 5 \in 1..n BY <1>4
  <2>2. level(1) < level(2) /\ level(2) < level(3) /\ level(3) < level(4) /\ level(4) < level(5)
    BY <1>6, <2>1
  <2>3. /\ level(1) \in 1..4 /\ level(2) \in 1..4 /\ level(3) \in 1..4
        /\ level(4) \in 1..4 /\ level(5) \in 1..4
    BY <1>5, <2>1
  <2> QED BY <2>2, <2>3
<1> QED BY <1>2, <1>4, <1>7 DEF n

ValidationTypes ==
  /\ config \in Settings /\ at \in At /\ picture \in BOOLEAN
  /\ pass.strategy \in DOMAIN Level \cup {"none"}

NodeTypes ==
  /\ stage \in Stage /\ {live, seen, found, handed} \subseteq Sites \cup {NoSite}
  /\ judged \in BOOLEAN /\ shot \in BOOLEAN /\ refused \in BOOLEAN
  /\ searches \in 0..Searches
  /\ payload.advice \in Advice
  /\ result.advice \in Advice /\ result.by \in {"none", "model", "heuristic"}

Typed == ValidationTypes /\ NodeTypes

LEMMA ValidationTypesStep ==
  ASSUME Budgeted, ValidationTypes, [Next]_vars
  PROVE  ValidationTypes'
<1>1. CASE UNCHANGED validationVars
  BY <1>1 DEF validationVars, ValidationTypes
<1>2. CASE JudgeMatch \/ Act \/ Conclusion
  <2>1. UNCHANGED config /\ pass' = NoPass /\ picture' = FALSE /\ at' \in At
    BY <1>2 DEF JudgeMatch, Act, Conclusion, Begin, Over, At
  <2> QED BY <2>1 DEF ValidationTypes, NoPass
<1>3. CASE Choose
  <2>1. NextPass(request, history) # NoPass => NextPass(request, history).strategy \in DOMAIN Level
    BY NextAffords DEF Budgeted, BudgetKept
  <2>2. NoPass.strategy = "none" BY DEF NoPass
  <2>3. pass'.strategy \in DOMAIN Level \cup {"none"} BY <1>3, <2>1, <2>2 DEF Choose
  <2> QED BY <1>3, <2>3 DEF Choose, ValidationTypes, At
<1>4. CASE Unreadable
  BY <1>4 DEF Unreadable, ValidationTypes, At
<1>5. CASE Unasked
  BY <1>5 DEF Unasked, Resolve, ValidationTypes, At
<1>6. CASE Match
  BY <1>6 DEF Match, Resolve, ValidationTypes, At
<1>7. CASE Ask
  <2>1. at' = "asking" /\ UNCHANGED <<config, pass>> BY <1>7 DEF Ask
  <2>2. picture' \in BOOLEAN BY <1>7, Zenon DEF Ask
  <2> QED BY <2>1, <2>2 DEF ValidationTypes, At
<1>8. CASE Answer
  BY <1>8 DEF Answer, Resolve, ValidationTypes, At
<1>9. CASE RetryWithoutPicture
  BY <1>9 DEF RetryWithoutPicture, ValidationTypes, At
<1>10. CASE Unanswered
  BY <1>10 DEF Unanswered, ValidationTypes, At
<1> QED BY <1>1, <1>2, <1>3, <1>4, <1>5, <1>6, <1>7, <1>8, <1>9, <1>10
    DEF Next, Answers, Judges, vars, Inspect, Revisit, Search, Skip, PerceiveByRule, Perceive,
        PayloadArrives, FinalPayloadArrives, RefuseScreenshot, Degrade, Break, Raise, Step, Validate

LEMMA AdviceTyped ==
  /\ \A site, targets, frames : Recommended(site, targets, frames) \in Advice
  /\ \A site, p : p.advice \in Advice => Unblocked(site, p) \in Advice
<1>1. \A site, targets, frames : Recommended(site, targets, frames) \in Advice
  BY DEF Recommended, Advice
<1>2. ASSUME NEW site, NEW p, p.advice \in Advice PROVE Unblocked(site, p) \in Advice
  <2>1. Steered(site, p.advice) \in Advice BY <1>2 DEF Steered, Advice
  <2> QED BY <2>1 DEF Unblocked, Advice
<1> QED BY <1>1, <1>2

LEMMA ConcludeTypes ==
  ASSUME NodeTypes, NEW p, p.advice \in Advice, Conclude(p), UNCHANGED nodeVars
  PROVE  NodeTypes'
<1>1. result'.advice \in Advice /\ result'.by = "model"
  BY AdviceTyped DEF Conclude, Perceived
<1>2. stage' \in Stage BY DEF Conclude, Stage
<1>3. CASE Recognised(p)
  <2>1. UNCHANGED callVars BY <1>3 DEF Conclude
  <2> QED BY <1>1, <1>2, <2>1 DEF NodeTypes, nodeVars, callVars
<1>4. CASE ~ Recognised(p)
  <2>1. NoCall BY <1>4 DEF Conclude
  <2> QED BY <1>1, <1>2, <2>1 DEF NodeTypes, nodeVars, NoCall, NoPayload, Advice
<1> QED BY <1>3, <1>4

LEMMA HeuristicTypes ==
  ASSUME NodeTypes, NEW site, NEW targets, NEW frames,
         result' = Heuristic(site, targets, frames), UNCHANGED nodeVars, stage' = "deciding",
         UNCHANGED callVars \/ NoCall
  PROVE  NodeTypes'
<1>1. result'.advice \in Advice /\ result'.by = "heuristic"
  BY AdviceTyped DEF Heuristic, NoResult
<1>2. stage' \in Stage BY DEF Stage
<1>3. CASE UNCHANGED callVars
  BY <1>1, <1>2, <1>3 DEF NodeTypes, nodeVars, callVars
<1>4. CASE NoCall
  BY <1>1, <1>2, <1>4 DEF NodeTypes, nodeVars, NoCall, NoPayload, Advice
<1> QED BY <1>3, <1>4

LEMMA NodeTypesStep ==
  ASSUME NodeTypes, [Next]_vars
  PROVE  NodeTypes'
<1> USE DEF NodeTypes, nodeVars, callVars, Stage, Judging
<1>1. CASE Inspect
  BY <1>1 DEF Inspect, Observation
<1>2. CASE Revisit
  BY <1>2 DEF Revisit, Observation
<1>3. CASE Search
  <2>1. PICK site \in Sites : found' = site /\ seen' = site BY <1>3 DEF Search
  <2>2. result'.advice = "none" /\ result'.by = "none" BY <1>3 DEF Search, Forgotten, NoResult
  <2>3. searches' \in 0..Searches BY <1>3, PerceptionAssumption DEF Search
  <2> QED BY <1>3, <2>1, <2>2, <2>3 DEF Search, Advice
<1>4. CASE Skip
  BY <1>4 DEF Skip
<1>5. CASE PerceiveByRule
  BY <1>5, HeuristicTypes DEF PerceiveByRule
<1>6. CASE Perceive
  BY <1>6 DEF Perceive, Handed, Observation, NoPayload, Advice, Asking
<1>7. CASE PayloadArrives
  <2>1. PICK p \in Payloads(handed) :
          IF Recovered(handed, p) = {} THEN Conclude(p)
          ELSE /\ payload' = p /\ stage' = "recovery"
               /\ UNCHANGED <<handed, shot, refused, result>>
    BY <1>7 DEF PayloadArrives
  <2>2. p.advice \in Advice BY <2>1 DEF Payloads
  <2>3. UNCHANGED nodeVars BY <1>7 DEF PayloadArrives
  <2>4. CASE Conclude(p) BY <2>2, <2>3, <2>4, ConcludeTypes
  <2>5. CASE payload' = p /\ stage' = "recovery" /\ UNCHANGED <<handed, shot, refused, result>>
    BY <2>2, <2>3, <2>5 DEF Asking
  <2> QED BY <2>1, <2>4, <2>5
<1>8. CASE FinalPayloadArrives
  <2>1. PICK p \in Payloads(handed) : Conclude(p) BY <1>8 DEF FinalPayloadArrives
  <2>2. p.advice \in Advice BY <2>1 DEF Payloads
  <2>3. UNCHANGED nodeVars BY <1>8 DEF FinalPayloadArrives
  <2> QED BY <2>1, <2>2, <2>3, ConcludeTypes
<1>9. CASE RefuseScreenshot
  BY <1>9 DEF RefuseScreenshot, WithoutScreenshot, Asking
<1>10. CASE Degrade
  <2>1. UNCHANGED nodeVars BY <1>10 DEF Degrade
  <2>2. CASE stage = "recovery"
    BY <1>10, <2>1, <2>2, ConcludeTypes DEF Degrade
  <2>3. CASE stage # "recovery"
    BY <1>10, <2>1, <2>3, HeuristicTypes DEF Degrade
  <2> QED BY <2>2, <2>3
<1>11. CASE Break
  BY <1>11 DEF Break
<1>12. CASE JudgeMatch
  BY <1>12 DEF JudgeMatch
<1>13. CASE Act
  BY <1>13 DEF Act
<1>14. CASE Step
  BY <1>14 DEF Step
<1>15. CASE Conclusion
  BY <1>15 DEF Conclusion, NoCall, NoPayload, Advice
<1>16. CASE Raise
  BY <1>16 DEF Raise
<1>17. CASE UNCHANGED vars
  BY <1>17 DEF vars
<1> QED BY <1>1, <1>2, <1>3, <1>4, <1>5, <1>6, <1>7, <1>8, <1>9, <1>10, <1>11, <1>12, <1>13,
           <1>14, <1>15, <1>16, <1>17 DEF Next, Answers, Judges

LEMMA TypedInit == Init => Typed
<1> SUFFICES ASSUME Init PROVE Typed
  OBVIOUS
<1>1. ValidationTypes BY ValidationAssumption DEF Init, ValidationInit, ValidationTypes, At, NoPass
<1>2. /\ live \in Sites /\ found = NoSite /\ seen = NoSite /\ handed = NoSite
      /\ judged = FALSE /\ shot = FALSE /\ refused = FALSE
      /\ searches = 0 /\ stage = "visited" /\ payload = NoPayload /\ result = NoResult
  BY DEF Init
<1>3. searches \in 0..Searches BY <1>2, PerceptionAssumption
<1>4. payload.advice = "none" /\ result.advice = "none" /\ result.by = "none"
  BY <1>2 DEF NoPayload, NoResult
<1>5. {live, seen, found, handed} \subseteq Sites \cup {NoSite} BY <1>2
<1>6. NodeTypes BY <1>2, <1>3, <1>4, <1>5 DEF NodeTypes, Stage, Advice
<1> QED BY <1>1, <1>6 DEF Typed

(* WellTyped: the states of a perception and of its validations, among     *)
(* them that a validation never has more than one pass of each level.      *)
THEOREM WellTyped == Spec => []TypeOK
<1>1. Budgeted /\ Typed /\ [Next]_vars => Typed'
  BY ValidationTypesStep, NodeTypesStep DEF Typed
<1>2. Budgeted /\ Escalating /\ Typed => TypeOK
  <2> SUFFICES ASSUME Budgeted, Escalating, Typed PROVE TypeOK
    OBVIOUS
  <2>1. {judged, shot, refused, picture} \subseteq BOOLEAN
    BY DEF Typed, ValidationTypes, NodeTypes
  <2> QED BY <2>1, FewPasses DEF Typed, ValidationTypes, NodeTypes, Budgeted, TypeOK
<1> QED BY <1>1, <1>2, BudgetInit, BudgetStep, EscalatingInit, EscalatingStep, TypedInit, PTL DEF Spec
=============================================================================
