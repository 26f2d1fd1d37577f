-------------------------- MODULE ModelCall_proofs --------------------------
(***************************************************************************)
(* The calls to the language models, for any number of callers, threads,   *)
(* calls and profiles: the ledger and the callers agree, what a call left  *)
(* behind is final, a caller gets its own answer, no runtime carries a     *)
(* setting its provider does not have, and nothing waits in the pool that  *)
(* nobody waits for.                                                       *)
(***************************************************************************)
EXTENDS ModelCall, SequenceTheorems, FiniteSetTheorems, TLAPS

(* What the proofs need of the types: the pool's queue is left out.        *)
CallTypes ==
  /\ call \in [Callers -> Call]
  /\ rows \in [CallId -> {"none", "open", "completed"}]
  /\ ended \in [CallId -> Ended]

(* The row a call in flight has, and that it has not ended.                *)
InFlight == \A c \in Callers : call[c].stage # "idle" =>
  /\ Id(c) \in CallId /\ ended[Id(c)] = "none"
  /\ rows[Id(c)] = IF Recorded(call[c].task) THEN "open" ELSE "none"

Unasked == \A c \in Callers, k \in 1..Asks :
  k > call[c].nth => ended[<<c, k>>] = "none" /\ rows[<<c, k>>] = "none"

IInv == CallTypes /\ InFlight /\ Unasked /\ LedgerAgrees

(* Steps that only move a caller through the pool.                         *)
Moves(c, stages) ==
  /\ c \in Callers /\ call[c].stage # "idle"
  /\ \E s \in stages : Stage(c, s)
  /\ UNCHANGED <<rows, ended>>

Underway == {"asked", "asking", "waiting", "answered"}

LEMMA InitIInv == Init => IInv
<1> SUFFICES ASSUME Init PROVE IInv
  OBVIOUS
<1>1. CallTypes BY CallAssumption DEF Init, CallTypes, Call, Task, Ended
<1>2. InFlight BY DEF Init, InFlight
<1>3. \A id \in CallId : ended[id] = "none" /\ rows[id] = "none" BY DEF Init
<1>4. Unasked BY <1>3 DEF Unasked, CallId
<1>5. LedgerAgrees BY <1>3 DEF LedgerAgrees
<1> QED BY <1>1, <1>2, <1>4, <1>5 DEF IInv

LEMMA MovesStep ==
  ASSUME IInv, NEW c, Moves(c, Underway)
  PROVE  IInv'
<1>1. PICK s \in Underway : call' = [call EXCEPT ![c].stage = s] BY DEF Moves, Stage
<1>2. /\ c \in Callers /\ call[c] \in Call /\ UNCHANGED <<rows, ended>> /\ call[c].stage # "idle"
  BY DEF Moves, IInv, CallTypes
<1>3. /\ \A d \in Callers : call'[d].nth = call[d].nth /\ call'[d].task = call[d].task
      /\ \A d \in Callers : d # c => call'[d].stage = call[d].stage
      /\ call' \in [Callers -> Call]
  BY <1>1, <1>2 DEF IInv, CallTypes, Call, Underway
<1>4. \A d \in Callers : Id(d)' = Id(d) BY <1>3 DEF Id
<1>5. InFlight' BY <1>2, <1>3, <1>4 DEF InFlight, IInv, Recorded
<1> QED BY <1>2, <1>3, <1>5 DEF IInv, CallTypes, Unasked, LedgerAgrees

LEMMA EndStep ==
  ASSUME IInv, NEW c \in Callers, call[c].stage # "idle", NEW how \in Ended \ {"none"},
         End(c, how),
         \/ how # "answered" /\ UNCHANGED rows
         \/ rows' = [rows EXCEPT ![Id(c)] = IF Recorded(call[c].task) THEN "completed" ELSE @]
            /\ how = "answered"
  PROVE  IInv'
<1> DEFINE id == Id(c)
<1>1. /\ id \in CallId /\ ended[id] = "none" /\ rows[id] # "completed"
      /\ rows[id] = IF Recorded(call[c].task) THEN "open" ELSE "none"
      /\ call[c] \in Call
  BY DEF IInv, InFlight, CallTypes
<1>2. /\ ended' = [ended EXCEPT ![id] = how] /\ call' = [call EXCEPT ![c].stage = "idle"]
  BY DEF End, Stage
<1>3. /\ \A d \in Callers : call'[d].nth = call[d].nth /\ call'[d].task = call[d].task
      /\ \A d \in Callers : d # c => call'[d].stage = call[d].stage
      /\ call'[c].stage = "idle"
      /\ call' \in [Callers -> Call]
  BY <1>1, <1>2 DEF IInv, CallTypes, Call
<1>4. \A d \in Callers : Id(d)' = Id(d) BY <1>3 DEF Id
<1>5. \A d \in Callers : d # c => Id(d) # id BY DEF Id
<1>6. id = <<c, call[c].nth>> BY DEF Id
<1> HIDE DEF id
<1>7. /\ ended' \in [CallId -> Ended] /\ rows' \in [CallId -> {"none", "open", "completed"}]
      /\ \A x \in CallId : x # id => ended'[x] = ended[x] /\ rows'[x] = rows[x]
      /\ ended'[id] = how
      /\ how = "answered" => rows'[id] # "open"
      /\ how # "answered" => rows'[id] # "completed"
  BY <1>1, <1>2 DEF IInv, CallTypes, id
<1>8. InFlight'
  BY <1>3, <1>4, <1>5, <1>7 DEF InFlight, IInv, Recorded
<1>9. Unasked'
  <2>1. \A d \in Callers, k \in 1..Asks : k > call[d].nth => <<d, k>> \in CallId /\ <<d, k>> # id
    BY <1>1, <1>6 DEF CallId, Call
  <2> QED BY <1>3, <1>7, <2>1 DEF Unasked, IInv
<1>10. LedgerAgrees' BY <1>7 DEF LedgerAgrees, IInv
<1> QED BY <1>3, <1>7, <1>8, <1>9, <1>10 DEF IInv, CallTypes

(* The steps that begin a call.                                            *)
LEMMA AskStep ==
  ASSUME IInv, NEW c \in Callers, NEW task \in Task, NEW image \in Images(task),
         Ask(c, task, image) \/ AskFails(c, task, image)
  PROVE  IInv'
<1> DEFINE n  == call[c].nth + 1
           id == <<c, n>>
<1>1. /\ call[c] \in Call /\ call[c].stage = "idle" /\ n \in 1..Asks /\ id \in CallId
      /\ image \in BOOLEAN
  <2>1. call[c] \in Call /\ call[c].stage = "idle" /\ call[c].nth < Asks
    BY DEF IInv, CallTypes, Ask, AskFails
  <2>2. n \in 1..Asks BY <2>1, CallAssumption DEF Call
  <2>3. id \in CallId BY <2>2 DEF CallId
  <2>4. image \in BOOLEAN BY DEF Images
  <2> QED BY <2>1, <2>2, <2>3, <2>4
<1>2. ended[id] = "none" /\ rows[id] = "none"
  <2>1. n > call[c].nth BY <1>1 DEF Call
  <2> QED BY <1>1, <2>1 DEF IInv, Unasked
<1>3. /\ \A d \in Callers : d # c => call'[d] = call[d]
      /\ call'[c].nth = n /\ call' \in [Callers -> Call]
  <2>1. CASE Ask(c, task, image)
    BY <1>1, <2>1 DEF IInv, CallTypes, Ask, Call
  <2>2. CASE AskFails(c, task, image)
    BY <1>1, <2>2 DEF IInv, CallTypes, AskFails, Call
  <2> QED BY <2>1, <2>2
<1>4. \A d \in Callers : d # c => Id(d)' = Id(d) /\ Id(d) # id BY <1>3 DEF Id
<1>5. Id(c)' = id BY <1>3 DEF Id
<1>6. /\ ended' \in [CallId -> Ended] /\ rows' \in [CallId -> {"none", "open", "completed"}]
      /\ \A x \in CallId : x # id => ended'[x] = ended[x] /\ rows'[x] = rows[x]
      /\ rows'[id] # "completed" /\ ended'[id] # "answered"
      /\ call'[c].stage # "idle" =>
           /\ ended'[id] = "none"
           /\ rows'[id] = IF Recorded(call'[c].task) THEN "open" ELSE "none"
  <2>1. CASE Ask(c, task, image)
    BY <1>1, <1>2, <2>1 DEF IInv, CallTypes, Ask
  <2>2. CASE AskFails(c, task, image)
    BY <1>1, <1>2, <2>2 DEF IInv, CallTypes, AskFails, Ended, Call
  <2> QED BY <2>1, <2>2
<1>7. Unasked'
  <2>1. \A d \in Callers, k \in 1..Asks :
          k > call'[d].nth => <<d, k>> \in CallId /\ <<d, k>> # id /\ k > call[d].nth
    BY <1>1, <1>3 DEF CallId, Call
  <2> QED BY <1>6, <2>1 DEF Unasked, IInv
<1> HIDE DEF id, n
<1>8. InFlight' BY <1>1, <1>3, <1>4, <1>5, <1>6 DEF InFlight, IInv, Recorded
<1>9. LedgerAgrees' BY <1>6 DEF LedgerAgrees, IInv
<1> QED BY <1>3, <1>6, <1>7, <1>8, <1>9 DEF IInv, CallTypes

(* The steps that leave the callers, the rows and the ends alone.          *)
LEMMA QuietStep ==
  ASSUME IInv, UNCHANGED <<call, rows, ended>>
  PROVE  IInv'
BY DEF IInv, CallTypes, InFlight, Unasked, LedgerAgrees, Id

LEMMA AnsweredStep ==
  ASSUME IInv, NEW c \in Callers, call[c].stage # "idle", NEW good \in BOOLEAN,
         Answered(c, good), UNCHANGED rows
  PROVE  IInv'
<1>1. CASE good
  <2>1. Moves(c, Underway) BY <1>1 DEF Answered, Moves, Underway
  <2> QED BY <2>1, MovesStep
<1>2. CASE ~ good
  <2>1. End(c, "failed") BY <1>2 DEF Answered
  <2>2. "failed" \in Ended \ {"none"} BY DEF Ended
  <2> QED BY <2>1, <2>2, EndStep
<1> QED BY <1>1, <1>2

LEMMA CallerStep ==
  ASSUME IInv, NEW c \in Callers,
         \/ Refuse(c) \/ Direct(c) \/ Submit(c) \/ Timeout(c) \/ Record(c) \/ RecordFails(c)
         \/ \E good \in BOOLEAN : DirectAnswer(c, good)
  PROVE  IInv'
<1>1. {"failed", "refused", "answered"} \subseteq Ended \ {"none"} BY DEF Ended
<1>2. CASE Refuse(c)
  BY <1>1, <1>2, EndStep DEF Refuse
<1>3. CASE Direct(c) \/ Submit(c)
  <2>1. Moves(c, Underway) BY <1>3 DEF Moves, Underway, Direct, Submit
  <2> QED BY <2>1, MovesStep
<1>4. CASE Timeout(c)
  BY <1>1, <1>4, EndStep DEF Timeout, GivesUp
<1>5. CASE Record(c)
  BY <1>1, <1>5, EndStep DEF Record
<1>6. CASE RecordFails(c)
  BY <1>1, <1>6, EndStep DEF RecordFails, LostOutcome
<1>7. CASE \E good \in BOOLEAN : DirectAnswer(c, good)
  BY <1>7, AnsweredStep DEF DirectAnswer
<1> QED BY <1>2, <1>3, <1>4, <1>5, <1>6, <1>7

LEMMA FinishStep ==
  ASSUME IInv, NEW id \in CallId, NEW good \in BOOLEAN, Finish(id, good)
  PROVE  IInv'
<1>1. CASE \E c \in Waiter(id) : Answered(c, good)
  <2>1. PICK c \in Waiter(id) : Answered(c, good) BY <1>1
  <2>2. c \in Callers /\ call[c].stage # "idle" BY <2>1 DEF Waiter, WaitsFor
  <2> QED BY <2>1, <2>2, AnsweredStep DEF Finish
<1>2. CASE UNCHANGED <<call, ended>>
  BY <1>2, QuietStep DEF Finish
<1> QED BY <1>1, <1>2 DEF Finish

LEMMA NextIInv == IInv /\ [Next]_vars => IInv'
<1> SUFFICES ASSUME IInv, [Next]_vars PROVE IInv'
  OBVIOUS
<1>1. CASE Build \/ Start \/ UNCHANGED vars
  BY <1>1, QuietStep DEF Build, Start, vars
<1>2. CASE \E c \in Callers, task \in Task : \E image \in Images(task) :
             Ask(c, task, image) \/ AskFails(c, task, image)
  BY <1>2, AskStep
<1>3. CASE \E c \in Callers :
             \/ Refuse(c) \/ Direct(c) \/ Submit(c) \/ Timeout(c) \/ Record(c) \/ RecordFails(c)
             \/ \E good \in BOOLEAN : DirectAnswer(c, good)
  BY <1>3, CallerStep
<1>4. CASE \E id \in CallId, good \in BOOLEAN : Finish(id, good)
  BY <1>4, FinishStep
<1> QED BY <1>1, <1>2, <1>3, <1>4 DEF Next

LEMMA Inductive == Spec => []IInv
BY InitIInv, NextIInv, PTL DEF Spec

(* LedgerAlwaysAgrees: for every number of callers, calls and threads, and *)
(* whatever configurations, a call whose answer reached its caller is      *)
(* completed in the ledger and one that failed is not.                     *)
THEOREM LedgerAlwaysAgrees == Spec => []LedgerAgrees
<1>1. IInv => LedgerAgrees BY DEF IInv
<1> QED BY <1>1, Inductive, PTL

---------------------------------------------------------------------------
(* What a call left behind.                                                *)

Frozen == \A id \in CallId : ended[id] # "none" => rows'[id] = rows[id] /\ ended'[id] = ended[id]

(* A step touches the row and the end of one call at most, which had not   *)
(* ended: either the one its caller begins, or the one in flight.          *)
LEMMA OneCall ==
  ASSUME IInv, NEW id \in CallId, ended[id] = "none",
         \E how, row : /\ ended' \in {ended, [ended EXCEPT ![id] = how]}
                       /\ rows' \in {rows, [rows EXCEPT ![id] = row]}
  PROVE  Frozen
BY DEF Frozen, IInv, CallTypes

LEMMA StepFrozen ==
  ASSUME IInv, [Next]_vars
  PROVE  Frozen
<1>1. CASE UNCHANGED <<rows, ended>>
  BY <1>1 DEF Frozen
<1>2. ASSUME NEW c \in Callers, NEW task \in Task, NEW image \in Images(task),
             Ask(c, task, image) \/ AskFails(c, task, image)
      PROVE  Frozen
  <2> DEFINE id == <<c, call[c].nth + 1>>
  <2>1. id \in CallId /\ call[c].nth + 1 \in 1..Asks /\ call[c].nth + 1 > call[c].nth
    BY <1>2, CallAssumption DEF IInv, CallTypes, Ask, AskFails, Call, CallId
  <2>2. ended[id] = "none" BY <2>1 DEF IInv, Unasked
  <2>3. \E how, row : /\ ended' \in {ended, [ended EXCEPT ![id] = how]}
                      /\ rows' \in {rows, [rows EXCEPT ![id] = row]}
    BY <1>2 DEF Ask, AskFails
  <2> HIDE DEF id
  <2> QED BY <2>1, <2>2, <2>3, OneCall
<1>3. ASSUME NEW c \in Callers, call[c].stage # "idle",
             \E how, row : /\ ended' \in {ended, [ended EXCEPT ![Id(c)] = how]}
                           /\ rows' \in {rows, [rows EXCEPT ![Id(c)] = row]}
      PROVE  Frozen
  BY <1>3, OneCall DEF IInv, InFlight
<1>4. CASE \E c \in Callers : \E task \in Task : \E image \in Images(task) :
             Ask(c, task, image) \/ AskFails(c, task, image)
  BY <1>2, <1>4
<1>5. CASE \E c \in Callers : Refuse(c) \/ Timeout(c) \/ Record(c) \/ RecordFails(c)
  <2>1. PICK c \in Callers : Refuse(c) \/ Timeout(c) \/ Record(c) \/ RecordFails(c) BY <1>5
  <2>2. call[c].stage # "idle" BY <2>1 DEF Refuse, Timeout, GivesUp, Record, RecordFails
  <2>3. \E how : ended' = [ended EXCEPT ![Id(c)] = how]
    BY <2>1 DEF Refuse, Timeout, Record, RecordFails, End
  <2>4. \E row : rows' \in {rows, [rows EXCEPT ![Id(c)] = row]}
    <3>1. CASE Record(c)
      <4> WITNESS IF Recorded(call[c].task) THEN "completed" ELSE rows[Id(c)]
      <4> QED BY <3>1 DEF Record
    <3>2. CASE UNCHANGED rows BY <3>2
    <3> QED BY <2>1, <3>1, <3>2 DEF Refuse, Timeout, RecordFails
  <2>5. PICK how : ended' = [ended EXCEPT ![Id(c)] = how] BY <2>3
  <2>6. PICK row : rows' \in {rows, [rows EXCEPT ![Id(c)] = row]} BY <2>4
  <2>7. \E h, r : /\ ended' \in {ended, [ended EXCEPT ![Id(c)] = h]}
                  /\ rows' \in {rows, [rows EXCEPT ![Id(c)] = r]}
    <3> WITNESS how, row
    <3> QED BY <2>5, <2>6
  <2> QED BY <1>3, <2>2, <2>7
<1>6. CASE \E c \in Callers : Direct(c) \/ Submit(c)
  BY <1>1, <1>6 DEF Direct, Submit
<1>7. ASSUME NEW c \in Callers, NEW good \in BOOLEAN, call[c].stage # "idle",
             Answered(c, good), UNCHANGED rows
      PROVE  Frozen
  BY <1>3, <1>7 DEF Answered, End
<1>8. CASE \E c \in Callers, good \in BOOLEAN : DirectAnswer(c, good)
  BY <1>7, <1>8 DEF DirectAnswer
<1>9. CASE \E id \in CallId, good \in BOOLEAN : Finish(id, good)
  BY <1>1, <1>7, <1>9 DEF Finish, Waiter, WaitsFor
<1>10. CASE Build \/ Start \/ UNCHANGED vars
  BY <1>1, <1>10 DEF Build, Start, vars
<1> QED BY <1>4, <1>5, <1>6, <1>8, <1>9, <1>10 DEF Next

(* RowsStayFrozen: what a call left behind is never rewritten, however     *)
(* many callers, calls and threads there are.                              *)
THEOREM RowsStayFrozen == Spec => RowFrozen
<1>1. IInv /\ [Next]_vars => [Frozen]_vars BY StepFrozen
<1> QED BY <1>1, Inductive, PTL DEF Spec, RowFrozen, Frozen

---------------------------------------------------------------------------
(* The answer of a call.                                                   *)

Own == \A c \in Callers : call[c].stage = "waiting" /\ call'[c].stage = "answered"
         => Id(c) \in running /\ Id(c) \notin running'

(* A step of one caller leaves the others where they are.                  *)
LEMMA OthersStay ==
  ASSUME IInv, NEW c \in Callers,
         \/ \E stage : stage # "answered" /\ Stage(c, stage)
         \/ call[c].stage # "waiting" /\ (\E stage : Stage(c, stage))
         \/ call[c].stage # "waiting" /\ (\E new : call' = [call EXCEPT ![c] = new])
  PROVE  Own
BY DEF Own, Stage, IInv, CallTypes, Call

LEMMA StepOwn ==
  ASSUME IInv, [Next]_vars
  PROVE  Own
<1>1. CASE UNCHANGED call
  BY <1>1 DEF Own
<1>2. CASE \E c \in Callers : \E task \in Task : \E image \in Images(task) :
             Ask(c, task, image) \/ AskFails(c, task, image)
  <2>1. PICK c \in Callers, task \in Task, image \in BOOLEAN : Ask(c, task, image) \/ AskFails(c, task, image)
    BY <1>2 DEF Images
  <2>2. call[c].stage = "idle" /\ \E new : call' = [call EXCEPT ![c] = new]
    <3>1. CASE Ask(c, task, image) BY <3>1 DEF Ask
    <3>2. CASE AskFails(c, task, image)
      <4>1. call' = [call EXCEPT ![c] = [call[c] EXCEPT !.nth = call[c].nth + 1]]
        BY <3>2 DEF AskFails, IInv, CallTypes, Call
      <4> QED BY <3>2, <4>1 DEF AskFails
    <3> QED BY <2>1, <3>1, <3>2
  <2> QED BY <2>2, OthersStay
<1>3. CASE \E c \in Callers : Refuse(c) \/ Direct(c) \/ Submit(c) \/ Timeout(c) \/ Record(c)
                              \/ RecordFails(c)
  BY <1>3, OthersStay DEF Refuse, Direct, Submit, Timeout, Record, RecordFails, End
<1>4. CASE \E c \in Callers, good \in BOOLEAN : DirectAnswer(c, good)
  <2>1. PICK c \in Callers : /\ call[c].stage = "asking"
                             /\ Stage(c, "answered") \/ Stage(c, "idle")
    BY <1>4 DEF DirectAnswer, Answered, End
  <2> QED BY <2>1, OthersStay
<1>5. CASE \E id \in CallId, good \in BOOLEAN : Finish(id, good)
  <2>1. PICK id \in CallId, good \in BOOLEAN : Finish(id, good) BY <1>5
  <2>2. CASE \E c \in Waiter(id) : Answered(c, good)
    <3>1. PICK c \in Waiter(id) : Answered(c, good) BY <2>2
    <3>2. c \in Callers /\ Id(c) = id BY <3>1 DEF Waiter, WaitsFor, Id
    <3>3. CASE End(c, "failed") BY <3>2, <3>3, OthersStay DEF End
    <3>4. CASE Stage(c, "answered")
      <4>1. \A d \in Callers : d # c => call'[d] = call[d]
        BY <3>2, <3>4 DEF Stage, IInv, CallTypes
      <4>2. Id(c) \in running /\ Id(c) \notin running' BY <2>1, <3>2 DEF Finish
      <4> QED BY <4>1, <4>2 DEF Own
    <3> QED BY <3>1, <3>3, <3>4 DEF Answered
  <2> QED BY <1>1, <2>1, <2>2 DEF Finish
<1>6. CASE Build \/ Start \/ UNCHANGED vars
  BY <1>1, <1>6 DEF Build, Start, vars
<1> QED BY <1>2, <1>3, <1>4, <1>5, <1>6 DEF Next

(* AnswersAreOwn: a caller that waits for the pool is handed the answer of *)
(* the call it waits for, whatever the calls it gave up before do.         *)
THEOREM AnswersAreOwn == Spec => OwnAnswer
<1>1. IInv /\ [Next]_vars => [Own]_vars BY StepOwn
<1> QED BY <1>1, Inductive, PTL DEF Spec, OwnAnswer, Own

---------------------------------------------------------------------------
(* The runtimes.                                                           *)

FromPlan == \A s \in Slot : runtimes[s] # NoRuntime =>
  Resolvable(configs[s]) /\ runtimes[s] = Runtime(configs[s], s)

LEMMA PlannedIsSupported ==
  ASSUME FromPlan
  PROVE  NothingUnsupported
<1> SUFFICES ASSUME NEW s \in Slot, runtimes[s] # NoRuntime
             PROVE  LET r == runtimes[s] policy == Policy[runtimes[s].provider]
                    IN /\ r.mode \in policy.modes \cup {"auto"}
                       /\ ~ Visual(s) => r.mode \in policy.modes
                       /\ r.effort => r.reasoning
                       /\ r.reasoning => policy.reasoning
                       /\ r.routing => policy.routing
  BY DEF NothingUnsupported
<1> DEFINE c == configs[s]
           provider == PolicyOf[c.backend]
           policy == Policy[provider]
<1>1. runtimes[s] = Runtime(c, s) /\ c.backend \in DOMAIN PolicyOf
  BY DEF FromPlan, Resolvable
<1>2. provider \in {"ollama", "lm_studio", "openrouter"} BY <1>1 DEF PolicyOf
<1>3. policy.default \in policy.modes BY <1>2 DEF Policy, Mode
<1>4. EffectiveMode(policy, c.mode) \in policy.modes BY <1>3 DEF EffectiveMode
<1> HIDE DEF policy
<1>5. /\ runtimes[s].provider = provider
      /\ runtimes[s].mode = IF Visual(s) THEN "auto" ELSE EffectiveMode(policy, c.mode)
      /\ runtimes[s].reasoning = (c.reasoning /\ policy.reasoning)
      /\ runtimes[s].effort = ((c.reasoning /\ policy.reasoning) /\ c.effort)
      /\ runtimes[s].routing = (policy.routing /\ c.routing)
  BY <1>1 DEF Runtime, policy, Effort
<1>6. Policy[runtimes[s].provider] = policy BY <1>5 DEF policy
<1> QED BY <1>4, <1>5, <1>6

(* OnlySupported: whatever the profiles hold, no runtime of a run carries  *)
(* a setting its provider does not have.                                   *)
THEOREM OnlySupported == Spec => []NothingUnsupported
<1>1. Init => FromPlan BY DEF Init, FromPlan
<1>2. FromPlan /\ [Next]_vars => FromPlan'
  <2> SUFFICES ASSUME FromPlan, [Next]_vars PROVE FromPlan'
    OBVIOUS
  <2>1. CASE Build
    BY <2>1 DEF Build, FromPlan
  <2>2. CASE UNCHANGED <<configs, runtimes>>
    BY <2>2 DEF FromPlan
  <2> QED BY <2>1, <2>2 DEF Next, vars, Ask, AskFails, Refuse, Direct, Submit, Start,
          DirectAnswer, Finish, Timeout, Record, RecordFails
<1> QED BY <1>1, <1>2, PlannedIsSupported, PTL DEF Spec

---------------------------------------------------------------------------
(* The pool.                                                               *)

Tasks(q)    == {q[i] : i \in 1..Len(q)}
Distinct(q) == \A i, j \in 1..Len(q) : q[i] = q[j] => i = j

PoolTypes ==
  /\ phase \in {"profile", "built", "rejected"}
  /\ queue \in Seq(CallId)
  /\ running \subseteq CallId /\ IsFiniteSet(running) /\ Cardinality(running) <= Threads

(* A task a thread has begun is of a call that was handed to the pool: no  *)
(* caller has still to decide whether to hand it over.                     *)
Begun == \A id \in running :
  /\ id[2] <= call[id[1]].nth
  /\ id = Id(id[1]) => call[id[1]].stage \notin {"asked", "asking"}

(* A task waits in the queue once, for a caller that waits for it, and no  *)
(* thread has begun it.                                                    *)
Queued ==
  /\ Distinct(queue)
  /\ \A id \in Tasks(queue) : WaitsFor(id) /\ id \notin running

Pool == PoolTypes /\ Begun /\ Queued

(* What future.cancel() leaves of the queue.                               *)
LEMMA CancelledTasks ==
  ASSUME NEW q \in Seq(CallId), Distinct(q), NEW id
  PROVE  /\ Cancelled(q, id) \in Seq(CallId) /\ Distinct(Cancelled(q, id))
         /\ Tasks(Cancelled(q, id)) = Tasks(q) \ {id}
<1> DEFINE places == {i \in 1..Len(q) : q[i] = id}
           n == Len(q)
<1>1. n \in Nat /\ \A i \in 1..n : q[i] \in CallId BY LenProperties, ElementOfSeq
<1>2. CASE places = {}
  <2>1. Cancelled(q, id) = q BY <1>2 DEF Cancelled
  <2>2. id \notin Tasks(q) BY <1>2 DEF Tasks
  <2> QED BY <2>1, <2>2
<1>3. CASE places # {}
  <2> DEFINE p == CHOOSE i \in places : TRUE
             front == SubSeq(q, 1, p - 1)
             back == SubSeq(q, p + 1, n)
             r == front \o back
  <2>1. p \in 1..n /\ q[p] = id BY <1>3
  <2>2. Cancelled(q, id) = r BY <1>3 DEF Cancelled, RemoveAt
  <2> HIDE DEF p
  <2>3. /\ front \in Seq(CallId) /\ Len(front) = p - 1
        /\ \A i \in 1..(p - 1) : front[i] = q[i]
    <3>1. 1 \in Int /\ p - 1 \in Int /\ \A i \in 1..(p - 1) : q[i] \in CallId BY <1>1, <2>1
    <3>2. /\ front \in Seq(CallId) /\ Len(front) = IF 1 <= p - 1 THEN (p - 1) - 1 + 1 ELSE 0
          /\ \A i \in 1..((p - 1) - 1 + 1) : front[i] = q[1 + i - 1]
      BY <3>1, SubSeqProperties
    <3> HIDE DEF front
    <3> QED BY <2>1, <3>2
  <2>4. /\ back \in Seq(CallId) /\ Len(back) = n - p
        /\ \A i \in 1..(n - p) : back[i] = q[p + i]
    <3>1. p + 1 \in Int /\ n \in Int /\ \A i \in (p + 1)..n : q[i] \in CallId BY <1>1, <2>1
    <3>2. /\ back \in Seq(CallId) /\ Len(back) = IF p + 1 <= n THEN n - (p + 1) + 1 ELSE 0
          /\ \A i \in 1..(n - (p + 1) + 1) : back[i] = q[(p + 1) + i - 1]
      BY <3>1, SubSeqProperties
    <3> HIDE DEF back
    <3> QED BY <1>1, <2>1, <3>2
  <2> HIDE DEF front, back
  <2>5. /\ r \in Seq(CallId) /\ Len(r) = n - 1
        /\ \A i \in 1..(n - 1) : r[i] = IF i < p THEN q[i] ELSE q[i + 1]
    <3>1. /\ r \in Seq(CallId) /\ Len(r) = Len(front) + Len(back)
          /\ \A i \in 1..(Len(front) + Len(back)) :
               r[i] = IF i <= Len(front) THEN front[i] ELSE back[i - Len(front)]
      BY <2>3, <2>4, ConcatProperties
    <3> HIDE DEF r, n
    <3>2. Len(front) + Len(back) = n - 1 BY <1>1, <2>1, <2>3, <2>4
    <3>3. ASSUME NEW i \in 1..(n - 1) PROVE r[i] = IF i < p THEN q[i] ELSE q[i + 1]
      <4>1. r[i] = IF i <= p - 1 THEN front[i] ELSE back[i - (p - 1)] BY <2>3, <3>1, <3>2
      <4>2. CASE i < p BY <1>1, <2>1, <2>3, <4>1, <4>2
      <4>3. CASE ~ (i < p)
        <5>1. i - (p - 1) \in 1..(n - p) /\ p + (i - (p - 1)) = i + 1 BY <1>1, <2>1, <4>3
        <5> QED BY <1>1, <2>1, <2>4, <4>1, <4>3, <5>1
      <4> QED BY <4>2, <4>3
    <3> QED BY <3>1, <3>2, <3>3
  <2> HIDE DEF r
  <2>6. Distinct(r) BY <1>1, <2>1, <2>5 DEF Distinct
  <2>7. Tasks(r) \subseteq Tasks(q) \ {id}
    <3> SUFFICES ASSUME NEW i \in 1..(n - 1) PROVE r[i] \in Tasks(q) \ {id}
      BY <2>5 DEF Tasks
    <3>1. PICK k \in 1..n : r[i] = q[k] /\ k # p BY <1>1, <2>1, <2>5
    <3> QED BY <2>1, <3>1 DEF Tasks, Distinct
  <2>8. Tasks(q) \ {id} \subseteq Tasks(r)
    <3> SUFFICES ASSUME NEW k \in 1..n, q[k] # id PROVE q[k] \in Tasks(r)
      BY DEF Tasks
    <3>1. k # p BY <2>1
    <3>2. PICK i \in 1..(n - 1) : i = IF k < p THEN k ELSE k - 1 BY <1>1, <2>1, <3>1
    <3>3. r[i] = q[k] BY <1>1, <2>1, <2>5, <3>1, <3>2
    <3> QED BY <2>5, <3>3 DEF Tasks
  <2> QED BY <2>2, <2>5, <2>6, <2>7, <2>8
<1> QED BY <1>2, <1>3

(* Where one caller moves on, and its task is not or no longer queued.     *)
LEMMA CallerMoves ==
  ASSUME IInv, Pool, NEW c \in Callers, NEW new \in Call, call' = [call EXCEPT ![c] = new],
         new.nth >= call[c].nth,
         new.nth = call[c].nth /\ new.stage \in {"asked", "asking"}
           => call[c].stage \in {"asked", "asking"},
         UNCHANGED phase, running' \in SUBSET running,
         queue' \in Seq(CallId), Distinct(queue'), Tasks(queue') \subseteq Tasks(queue) \ {Id(c)}
  PROVE  Pool'
<1>1. call \in [Callers -> Call] BY DEF IInv, CallTypes
<1>2. call'[c] = new /\ \A d \in Callers : d # c => call'[d] = call[d] BY <1>1
<1>3. \A d \in Callers : d # c => Id(d)' = Id(d) BY <1>2 DEF Id
<1>4. PoolTypes'
  <2>1. IsFiniteSet(running') /\ Cardinality(running') <= Cardinality(running)
    BY FS_Subset DEF Pool, PoolTypes
  <2>2. Cardinality(running) \in Nat /\ Cardinality(running') \in Nat
    BY <2>1, FS_CardinalityType DEF Pool, PoolTypes
  <2> QED BY <2>1, <2>2, CallAssumption DEF Pool, PoolTypes
<1>5. Begun'
  <2> SUFFICES ASSUME NEW id \in running'
               PROVE  /\ id[2] <= call'[id[1]].nth
                      /\ id = Id(id[1])' => call'[id[1]].stage \notin {"asked", "asking"}
    BY DEF Begun
  <2>1. id \in running /\ id \in CallId /\ id[1] \in Callers /\ id[2] \in Nat /\ id = <<id[1], id[2]>>
    BY DEF Pool, PoolTypes, CallId
  <2>2. id[2] <= call[id[1]].nth /\ (id = Id(id[1]) => call[id[1]].stage \notin {"asked", "asking"})
    BY <2>1 DEF Pool, Begun
  <2>3. CASE id[1] = c
    <3>1. call[c].nth \in Nat /\ new.nth \in Nat BY <1>1 DEF Call
    <3>2. id[2] <= call'[id[1]].nth BY <1>2, <2>1, <2>2, <2>3, <3>1
    <3>3. ASSUME id = Id(c)' PROVE new.nth = call[c].nth /\ id = Id(c)
      <4>1. id[2] = new.nth BY <1>2, <3>3 DEF Id
      <4> QED BY <2>1, <2>2, <2>3, <3>1, <4>1 DEF Id
    <3> QED BY <1>2, <2>2, <2>3, <3>2, <3>3
  <2>4. CASE id[1] # c BY <1>2, <1>3, <2>1, <2>2, <2>4
  <2> QED BY <2>3, <2>4
<1>6. Queued'
  <2> SUFFICES ASSUME NEW id \in Tasks(queue') PROVE WaitsFor(id)' /\ id \notin running'
    BY DEF Queued
  <2>1. WaitsFor(id) /\ id \notin running /\ id # Id(c) BY DEF Pool, Queued
  <2>2. id \in CallId /\ id[1] \in Callers BY ElementOfSeq DEF Tasks, CallId
  <2>3. id[1] # c BY <2>1 DEF WaitsFor
  <2> QED BY <1>2, <1>3, <2>1, <2>2, <2>3 DEF WaitsFor
<1> QED BY <1>4, <1>5, <1>6 DEF Pool

(* A call that is not handed to the pool is not in it.                      *)
LEMMA NotInPool ==
  ASSUME IInv, Pool, NEW c \in Callers, call[c].stage # "waiting"
  PROVE  /\ queue \in Seq(CallId) /\ Distinct(queue) /\ Tasks(queue) \subseteq Tasks(queue) \ {Id(c)}
         /\ call[c].stage \in {"asked", "asking"} => Id(c) \notin running
<1>1. Id(c)[1] = c BY DEF Id
<1>2. Id(c) \notin Tasks(queue) BY <1>1 DEF Pool, Queued, WaitsFor
<1>3. call[c].stage \in {"asked", "asking"} => Id(c) \notin running
  BY <1>1 DEF Pool, Begun
<1> QED BY <1>2, <1>3 DEF Pool, PoolTypes, Queued

(* A caller that does not wait moves on and leaves the pool alone.          *)
LEMMA CallerOutside ==
  ASSUME IInv, Pool, NEW c \in Callers, call[c].stage # "waiting",
         NEW new \in Call, call' = [call EXCEPT ![c] = new], new.nth >= call[c].nth,
         new.nth = call[c].nth /\ new.stage \in {"asked", "asking"}
           => call[c].stage \in {"asked", "asking"},
         UNCHANGED <<phase, queue, running>>
  PROVE  Pool'
<1>1. Distinct(queue') /\ Tasks(queue') \subseteq Tasks(queue) \ {Id(c)} /\ queue' \in Seq(CallId)
  BY NotInPool
<1> QED BY <1>1, CallerMoves

LEMMA StageIs ==
  ASSUME IInv, NEW c \in Callers,
         NEW s \in {"idle", "asked", "asking", "waiting", "answered"}, Stage(c, s)
  PROVE  \E new \in Call : /\ call' = [call EXCEPT ![c] = new]
                           /\ new.nth = call[c].nth /\ new.stage = s
<1> DEFINE new == [call[c] EXCEPT !.stage = s]
<1>1. call[c] \in Call BY DEF IInv, CallTypes
<1>2. new \in Call /\ new.nth = call[c].nth /\ new.stage = s BY <1>1 DEF Call
<1>3. call' = [call EXCEPT ![c] = new] BY <1>1 DEF Stage, Call
<1> QED BY <1>2, <1>3

LEMMA AskPool ==
  ASSUME IInv, Pool, NEW c \in Callers, NEW task \in Task, NEW image \in Images(task),
         Ask(c, task, image) \/ AskFails(c, task, image)
  PROVE  Pool'
<1>1. /\ call[c] \in Call /\ call[c].stage = "idle" /\ call[c].nth + 1 \in 0..Asks
      /\ call[c].nth + 1 > call[c].nth /\ image \in BOOLEAN
  <2>1. call[c] \in Call /\ call[c].stage = "idle" /\ call[c].nth < Asks
    BY DEF IInv, CallTypes, Ask, AskFails
  <2>2. call[c].nth + 1 \in 0..Asks /\ call[c].nth + 1 > call[c].nth BY <2>1, CallAssumption DEF Call
  <2>3. image \in BOOLEAN BY DEF Images
  <2> QED BY <2>1, <2>2, <2>3
<1>2. UNCHANGED <<phase, queue, running>> BY DEF Ask, AskFails, poolVars
<1>3. CASE Ask(c, task, image)
  <2> DEFINE new == [nth |-> call[c].nth + 1, task |-> task, image |-> image, stage |-> "asked"]
  <2>1. new \in Call /\ call' = [call EXCEPT ![c] = new] BY <1>1, <1>3 DEF Ask, Call
  <2>2. new.nth >= call[c].nth /\ new.nth # call[c].nth BY <1>1 DEF Call
  <2> HIDE DEF new
  <2> QED BY <1>1, <1>2, <2>1, <2>2, CallerOutside
<1>4. CASE AskFails(c, task, image)
  <2> DEFINE new == [call[c] EXCEPT !.nth = call[c].nth + 1]
  <2>1. new \in Call /\ call' = [call EXCEPT ![c] = new] BY <1>1, <1>4 DEF AskFails, Call
  <2>2. new.nth >= call[c].nth /\ new.nth # call[c].nth BY <1>1 DEF Call
  <2> HIDE DEF new
  <2> QED BY <1>1, <1>2, <2>1, <2>2, CallerOutside
<1> QED BY <1>3, <1>4

LEMMA SubmitPool ==
  ASSUME IInv, Pool, NEW c \in Callers, Submit(c)
  PROVE  Pool'
<1> DEFINE id == Id(c)
           n == Len(queue)
<1>1. /\ call[c].stage = "asked" /\ Stage(c, "waiting") /\ queue' = Append(queue, id)
      /\ UNCHANGED <<phase, running>>
  BY DEF Submit
<1>2. PICK new \in Call : /\ call' = [call EXCEPT ![c] = new]
                          /\ new.nth = call[c].nth /\ new.stage = "waiting"
  BY <1>1, StageIs
<1>3. id \notin Tasks(queue) /\ id \notin running BY <1>1, NotInPool
<1>4. /\ call'[c] = new /\ \A d \in Callers : d # c => call'[d] = call[d]
      /\ Id(c)' = id
  BY <1>2 DEF IInv, CallTypes, Id
<1>5. id \in CallId /\ id[1] = c BY <1>1 DEF IInv, InFlight, Id
<1> HIDE DEF id
<1>6. /\ queue' \in Seq(CallId) /\ n \in Nat /\ Len(queue') = n + 1
      /\ \A i \in 1..n : queue'[i] = queue[i]
      /\ queue'[n + 1] = id
  BY <1>1, <1>5, AppendProperties, LenProperties DEF Pool, PoolTypes
<1>7. Tasks(queue') = Tasks(queue) \cup {id} BY <1>6 DEF Tasks
<1>8. Distinct(queue')
  <2> SUFFICES ASSUME NEW i \in 1..(n + 1), NEW j \in 1..(n + 1), queue'[i] = queue'[j]
               PROVE  i = j
    BY <1>6 DEF Distinct
  <2>1. \A k \in 1..n : queue'[k] # id BY <1>3, <1>6 DEF Tasks
  <2>2. CASE i \in 1..n /\ j \in 1..n BY <1>6, <2>2 DEF Pool, Queued, Distinct
  <2>3. CASE i = n + 1 \/ j = n + 1 BY <1>6, <2>1, <2>3
  <2> QED BY <1>6, <2>2, <2>3
<1>9. Begun'
  <2> SUFFICES ASSUME NEW x \in running
               PROVE  /\ x[2] <= call'[x[1]].nth
                      /\ x = Id(x[1])' => call'[x[1]].stage \notin {"asked", "asking"}
    BY <1>1 DEF Begun
  <2>1. x[1] \in Callers BY DEF Pool, PoolTypes, CallId
  <2>2. x[2] <= call[x[1]].nth /\ (x = Id(x[1]) => call[x[1]].stage \notin {"asked", "asking"})
    BY DEF Pool, Begun
  <2> QED BY <1>2, <1>4, <2>1, <2>2 DEF Id
<1>10. Queued'
  <2> SUFFICES ASSUME NEW x \in Tasks(queue') PROVE WaitsFor(x)' /\ x \notin running'
    BY <1>8 DEF Queued
  <2>1. CASE x = id BY <1>1, <1>2, <1>3, <1>4, <1>5, <2>1 DEF WaitsFor
  <2>2. CASE x # id
    <3>1. x \in Tasks(queue) /\ WaitsFor(x) /\ x \notin running
      BY <1>7, <2>2 DEF Pool, Queued
    <3>2. x[1] \in Callers BY <3>1, ElementOfSeq DEF Tasks, CallId, Pool, PoolTypes
    <3>3. x[1] # c BY <1>1, <3>1 DEF WaitsFor
    <3> QED BY <1>1, <1>4, <3>1, <3>2, <3>3 DEF WaitsFor, Id
  <2> QED BY <2>1, <2>2
<1>11. PoolTypes' BY <1>1, <1>6 DEF Pool, PoolTypes
<1> QED BY <1>9, <1>10, <1>11 DEF Pool

LEMMA StartPool ==
  ASSUME IInv, Pool, Start
  PROVE  Pool'
<1> DEFINE id == Head(queue)
           n == Len(queue)
<1>1. /\ UNCHANGED <<phase, call>> /\ queue # <<>> /\ HasThread
      /\ running' = running \cup {id} /\ queue' = Tail(queue) /\ queue \in Seq(CallId)
  BY DEF Start, Pool, PoolTypes
<1>2. n \in Nat \ {0} /\ id = queue[1] BY <1>1, EmptySeq
<1>3. /\ queue' \in Seq(CallId) /\ Len(queue') = n - 1
      /\ \A i \in 1..(n - 1) : queue'[i] = queue[i + 1]
  BY <1>1, HeadTailProperties
<1> HIDE DEF n
<1>4. id \in Tasks(queue)
  <2>1. 1 \in 1..Len(queue) BY <1>2 DEF n
  <2> QED BY <1>2, <2>1 DEF Tasks
<1>5. WaitsFor(id) /\ id \notin running /\ id \in CallId
  BY <1>1, <1>4, HeadTailProperties DEF Pool, Queued
<1>6. Tasks(queue') \subseteq Tasks(queue) \ {id}
  <2> SUFFICES ASSUME NEW i \in 1..(n - 1) PROVE queue[i + 1] \in Tasks(queue) \ {id}
    BY <1>3 DEF Tasks
  <2>1. i + 1 \in 1..n /\ 1 \in 1..n /\ i + 1 # 1 BY <1>2
  <2> QED BY <1>2, <2>1 DEF Tasks, Pool, Queued, Distinct, n
<1>7. Distinct(queue')
  <2> SUFFICES ASSUME NEW i \in 1..(n - 1), NEW j \in 1..(n - 1), queue[i + 1] = queue[j + 1]
               PROVE  i = j
    BY <1>3 DEF Distinct
  <2>1. i + 1 \in 1..n /\ j + 1 \in 1..n BY <1>2
  <2>2. i + 1 = j + 1 BY <2>1 DEF Pool, Queued, Distinct, n
  <2> QED BY <2>2
<1>8. PoolTypes'
  <2>1. /\ IsFiniteSet(running) /\ Cardinality(running) < Threads
    BY <1>1 DEF HasThread, Pool, PoolTypes
  <2>2. IsFiniteSet(running') /\ Cardinality(running') = Cardinality(running) + 1
    BY <1>1, <1>5, <2>1, FS_AddElement
  <2>3. Cardinality(running) \in Nat BY <2>1, FS_CardinalityType
  <2>4. Cardinality(running') <= Threads BY <2>1, <2>2, <2>3, CallAssumption
  <2> QED BY <1>1, <1>3, <1>5, <2>2, <2>4 DEF Pool, PoolTypes
<1>9. Begun'
  <2>1. id[2] <= call[id[1]].nth /\ call[id[1]].stage = "waiting"
    <3>1. id[1] \in Callers /\ id[2] = call[id[1]].nth BY <1>5 DEF CallId, WaitsFor, Id
    <3>2. call[id[1]].nth \in Nat BY <3>1 DEF IInv, CallTypes, Call
    <3> QED BY <1>5, <3>1, <3>2 DEF WaitsFor
  <2> HIDE DEF id
  <2> QED BY <1>1, <2>1 DEF Pool, Begun, Id
<1>10. Queued'
  <2> HIDE DEF id
  <2> QED BY <1>1, <1>6, <1>7 DEF Pool, Queued, WaitsFor, Id
<1> QED BY <1>8, <1>9, <1>10 DEF Pool

LEMMA TimeoutPool ==
  ASSUME IInv, Pool, NEW c \in Callers, Timeout(c)
  PROVE  Pool'
<1>1. /\ Stage(c, "idle") /\ queue' = Cancelled(queue, Id(c)) /\ UNCHANGED <<phase, running>>
  BY DEF Timeout, End
<1>2. PICK new \in Call : /\ call' = [call EXCEPT ![c] = new]
                          /\ new.nth = call[c].nth /\ new.stage = "idle"
  BY <1>1, StageIs
<1>3. /\ queue' \in Seq(CallId) /\ Distinct(queue')
      /\ Tasks(queue') \subseteq Tasks(queue) \ {Id(c)}
  BY <1>1, CancelledTasks DEF Pool, PoolTypes, Queued
<1>4. new.nth >= call[c].nth BY <1>2 DEF IInv, CallTypes, Call
<1> QED BY <1>1, <1>2, <1>3, <1>4, CallerMoves

LEMMA FinishPool ==
  ASSUME IInv, Pool, NEW id \in CallId, NEW good \in BOOLEAN, Finish(id, good)
  PROVE  Pool'
<1>1. /\ id \in running /\ running' = running \ {id} /\ UNCHANGED <<phase, queue>>
  BY DEF Finish
<1>2. id \notin Tasks(queue) BY <1>1 DEF Pool, Queued
<1>3. CASE UNCHANGED call
  <2>1. IsFiniteSet(running') /\ Cardinality(running') <= Cardinality(running)
    BY <1>1, FS_Subset DEF Pool, PoolTypes
  <2>2. Cardinality(running) \in Nat /\ Cardinality(running') \in Nat
    BY <2>1, FS_CardinalityType DEF Pool, PoolTypes
  <2>3. PoolTypes' BY <1>1, <2>1, <2>2, CallAssumption DEF Pool, PoolTypes
  <2> QED BY <1>1, <1>3, <2>3 DEF Pool, Begun, Queued, WaitsFor, Id
<1>4. CASE \E c \in Waiter(id) : Answered(c, good)
  <2>1. PICK c \in Waiter(id) : Stage(c, "answered") \/ Stage(c, "idle")
    BY <1>4 DEF Answered, End
  <2>2. c \in Callers /\ Id(c) = id BY <2>1 DEF Waiter, WaitsFor
  <2>3. PICK new \in Call : /\ call' = [call EXCEPT ![c] = new]
                            /\ new.nth = call[c].nth /\ new.stage \in {"answered", "idle"}
    BY <2>1, <2>2, StageIs
  <2>4. new.nth >= call[c].nth BY <2>2, <2>3 DEF IInv, CallTypes, Call
  <2>5. /\ queue' \in Seq(CallId) /\ Distinct(queue')
        /\ Tasks(queue') \subseteq Tasks(queue) \ {Id(c)}
    BY <1>1, <1>2, <2>2 DEF Pool, PoolTypes, Queued
  <2>6. running' \in SUBSET running BY <1>1
  <2> QED BY <1>1, <2>2, <2>3, <2>4, <2>5, <2>6, CallerMoves
<1> QED BY <1>3, <1>4 DEF Finish

LEMMA MovePool ==
  ASSUME IInv, Pool, NEW c \in Callers,
         \/ Refuse(c) \/ Direct(c) \/ Record(c) \/ RecordFails(c)
         \/ \E good \in BOOLEAN : DirectAnswer(c, good)
  PROVE  Pool'
<1>1. UNCHANGED <<phase, queue, running>> /\ call[c].stage # "waiting"
  BY DEF Refuse, Direct, Record, RecordFails, DirectAnswer, poolVars
<1>2. \/ Stage(c, "answered") \/ Stage(c, "idle")
      \/ Stage(c, "asking") /\ call[c].stage = "asked"
  BY DEF Refuse, Direct, Record, RecordFails, DirectAnswer, Answered, End
<1>3. PICK new \in Call :
        /\ call' = [call EXCEPT ![c] = new] /\ new.nth = call[c].nth
        /\ \/ new.stage \in {"answered", "idle"}
           \/ new.stage = "asking" /\ call[c].stage = "asked"
  BY <1>2, StageIs
<1>4. new.nth >= call[c].nth BY <1>3 DEF IInv, CallTypes, Call
<1> QED BY <1>1, <1>3, <1>4, CallerOutside

LEMMA NextPool == IInv /\ Pool /\ [Next]_vars => Pool'
<1> SUFFICES ASSUME IInv, Pool, [Next]_vars PROVE Pool'
  OBVIOUS
<1>1. CASE Build \/ UNCHANGED vars
  <2>1. UNCHANGED <<call, queue, running>> /\ phase' \in {"profile", "built", "rejected"}
    BY <1>1 DEF Build, vars, poolVars, Pool, PoolTypes
  <2> QED BY <2>1 DEF Pool, PoolTypes, Begun, Queued, WaitsFor, Id
<1>2. CASE \E c \in Callers, task \in Task : \E image \in Images(task) :
             Ask(c, task, image) \/ AskFails(c, task, image)
  BY <1>2, AskPool
<1>3. CASE \E c \in Callers : Refuse(c) \/ Direct(c) \/ Record(c) \/ RecordFails(c)
             \/ \E good \in BOOLEAN : DirectAnswer(c, good)
  BY <1>3, MovePool
<1>4. CASE \E c \in Callers : Submit(c) \/ Timeout(c) BY <1>4, SubmitPool, TimeoutPool
<1>5. CASE \E id \in CallId, good \in BOOLEAN : Finish(id, good) BY <1>5, FinishPool
<1>6. CASE Start BY <1>6, StartPool
<1> QED BY <1>1, <1>2, <1>3, <1>4, <1>5, <1>6 DEF Next

LEMMA PoolHolds == Spec => [](IInv /\ Pool)
<1>1. Init => Pool
  <2> SUFFICES ASSUME Init PROVE Pool
    OBVIOUS
  <2>1. /\ phase = "profile" /\ queue = <<>> /\ running = {} BY DEF Init
  <2>2. queue \in Seq(CallId) /\ Len(queue) = 0 BY <2>1, EmptySeq
  <2>3. IsFiniteSet(running) /\ Cardinality(running) = 0 BY <2>1, FS_EmptySet
  <2>4. PoolTypes BY <2>1, <2>2, <2>3, CallAssumption DEF PoolTypes
  <2> QED BY <2>1, <2>2, <2>4 DEF Pool, Begun, Queued, Distinct, Tasks
<1> QED BY <1>1, NextPool, Inductive, PTL DEF Spec

(* WellTyped: of any pool, no more threads are busy than it has, and its    *)
(* queue holds calls.                                                       *)
THEOREM WellTyped == Spec => []TypeOK
<1>1. IInv /\ Pool => TypeOK BY DEF IInv, CallTypes, Pool, PoolTypes, TypeOK
<1> QED BY <1>1, PoolHolds, PTL

(* NothingAbandonedWaits: a caller that gives up takes its task with it,    *)
(* unless a thread has begun it; no step brings an abandoned task back.     *)
THEOREM NothingAbandonedWaits == Spec => []NoOrphanQueued
<1>1. IInv /\ Pool => NoOrphanQueued BY DEF Pool, Queued, Tasks, NoOrphanQueued
<1> QED BY <1>1, PoolHolds, PTL
=============================================================================
