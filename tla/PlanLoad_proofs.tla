---------------------------- MODULE PlanLoad_proofs ----------------------------
(***************************************************************************)
(* Proof that the plan a client was answered can be loaded again, for any  *)
(* number of sessions, turns, jobs and restarts.                           *)
(***************************************************************************)
EXTENDS ResearchService_proofs

(* The turns of a session, and those whose request is in flight.            *)
Of(s) == {t \in Turn : SessionOf[t] = s}
Going(s) == {t \in Of(s) : turns[t] \in InFlight}
Answered(s) == \E t \in Of(s) : turns[t] = "answered"

(* No turn of the session has gone wrong so far.                            *)
Smooth(s) == \A t \in Of(s) : turns[t] \in {"idle", "answered"} \cup InFlight

(* One tab has one request in flight, a turn or a load.                     *)
Alone(s) ==
  /\ \A t, u \in Going(s) : t = u
  /\ Going(s) # {} => loads[s].at = "idle"

(* Once a turn has saved its update there is a plan to fall back to.        *)
Kept == \A t \in Turn :
  turns[t] \in {"save_user", "save_reply", "answered"} =>
    ledger.update[SessionOf[t]] \in Plan

(* Between turns the ledger agrees with the screen; a job may only have     *)
(* erased the context.                                                      *)
Shown(s) ==
  Going(s) = {} /\ Answered(s) =>
    /\ ledger.update[s] = screen[s]
    /\ ledger.context[s] \in {screen[s], NoPlan}

(* What a turn has saved is its own plan.                                   *)
Saved(s) == \A t \in Of(s) :
  /\ turns[t] \in {"save_update", "save_user", "save_reply"} =>
       ledger.context[s] \in {working[t].plan, NoPlan}
  /\ turns[t] \in {"save_user", "save_reply"} =>
       ledger.update[s] = working[t].plan

(* What a load has read is the plan on the screen.                          *)
Loaded(s) ==
  Answered(s) =>
    /\ loads[s].at = "row" => loads[s].plan \in {screen[s], NoPlan}
    /\ loads[s].at = "messages" => loads[s].plan = screen[s]

Mirror(s) == Smooth(s) => Shown(s) /\ Saved(s) /\ Loaded(s)

PlanInv ==
  /\ Kept
  /\ OneTab => \A s \in Session : Alone(s) /\ Mirror(s)

-------------------------------------------------------------------------------
(***************************************************************************)
(* What the ledger holds of plans.                                         *)
(***************************************************************************)
LEMMA LedgerPlans ==
  ASSUME NEW l \in LedgerType
  PROVE  /\ \A s \in Session : \A c :
              /\ RecordSession(l, s, c).update = l.update
              /\ RecordSession(l, s, c).context = [l.context EXCEPT ![s] = c]
         /\ \A s \in Session : \A p :
              /\ RecordPlanUpdate(l, s, p).context = l.context
              /\ RecordPlanUpdate(l, s, p).update = [l.update EXCEPT ![s] = p]
         /\ \A kind, id : /\ RecordMessage(l, kind, id).context = l.context
                          /\ RecordMessage(l, kind, id).update = l.update
         /\ \A j, st : /\ RecordRun(l, j, st).context = l.context
                       /\ RecordRun(l, j, st).update = l.update
         /\ \A j, lb : /\ RecordEvaluation(l, j, lb).context = l.context
                       /\ RecordEvaluation(l, j, lb).update = l.update
<1>1. \A s \in Session : \A c :
        /\ RecordSession(l, s, c).update = l.update
        /\ RecordSession(l, s, c).context = [l.context EXCEPT ![s] = c]
  BY DEF LedgerType, RecordSession
<1>2. \A s \in Session : \A p :
        /\ RecordPlanUpdate(l, s, p).context = l.context
        /\ RecordPlanUpdate(l, s, p).update = [l.update EXCEPT ![s] = p]
  BY DEF LedgerType, RecordPlanUpdate
<1>3. \A kind, id : /\ RecordMessage(l, kind, id).context = l.context
                    /\ RecordMessage(l, kind, id).update = l.update
  BY DEF LedgerType, RecordMessage
<1>4. \A j, st : /\ RecordRun(l, j, st).context = l.context
                 /\ RecordRun(l, j, st).update = l.update
  BY DEF LedgerType, RecordRun
<1>5. \A j, lb : /\ RecordEvaluation(l, j, lb).context = l.context
                 /\ RecordEvaluation(l, j, lb).update = l.update
  BY DEF LedgerType, RecordEvaluation
<1>6. QED
  BY <1>1, <1>2, <1>3, <1>4, <1>5

(* A job never writes an update; all it can do to a context is to erase it. *)
PlansSurvive ==
  /\ ledger'.update = ledger.update
  /\ \A s \in Session : ledger'.context[s] \in {ledger.context[s], NoPlan}

LEMMA JobsLeavePlans ==
  ASSUME TypeOK, NEW j \in Job, RunStep(j)
  PROVE  PlansSurvive
<1>l. /\ ledger \in LedgerType /\ SessionOf[j] \in Session
      /\ ledger.context \in [Session -> Plan \cup {NoPlan, NoSession}]
  BY LedgerAssumption DEF TypeOK, LedgerType
<1>1. CASE Launch(j) \/ Poll(j) \/ Abort(j) \/ TakeJob(j) \/ Explore(j)
  BY <1>1 DEF Launch, CreateJob, Poll, TakeSnapshot, JudgeSnapshot, Abort, TakeJob,
              Explore, PlansSurvive
<1>2. CASE \/ Validate(j) \/ Build(j) \/ Answer(j) \/ StartJob(j)
           \/ PublishCompleted(j) \/ PublishFailed(j)
  BY <1>2 DEF Validate, Build, Answer, Computes, StartJob, PublishCompleted,
              PublishFailed, Publish, PlansSurvive
<1>3. ASSUME NEW here, NEW there, NEW l, Records(j, here, there, l),
             l.update = ledger.update,
             \A s \in Session : l.context[s] \in {ledger.context[s], NoPlan}
      PROVE  PlansSurvive
  BY <1>3 DEF Records, PlansSurvive
<1>4. CASE RecordChatSession(j) \/ RecordRunSession(j)
  <2> DEFINE l == RecordSession(ledger, SessionOf[j], NoPlan)
  <2>1. /\ l.update = ledger.update
        /\ l.context = [ledger.context EXCEPT ![SessionOf[j]] = NoPlan]
    BY <1>l, LedgerPlans
  <2>2. \A s \in Session : l.context[s] \in {ledger.context[s], NoPlan}
    BY <1>l, <2>1
  <2>3. QED
    BY <1>4, <1>3, <2>1, <2>2 DEF RecordChatSession, RecordRunSession
<1>5. CASE \/ RecordChatInput(j) \/ RecordRunInput(j) \/ RecordResult(j)
           \/ RecordChatOutput(j) \/ RecordFailure(j)
  BY <1>5, <1>3, <1>l, LedgerPlans
     DEF RecordChatInput, RecordRunInput, RecordResult, RecordChatOutput,
         RecordFailure, Says
<1>6. CASE RecordRunStarted(j) \/ RecordRunCompleted(j) \/ RecordRunFailed(j)
  BY <1>6, <1>3, <1>l, LedgerPlans
     DEF RecordRunStarted, RecordRunCompleted, RecordRunFailed
<1>7. CASE Evaluate(j) \/ EvaluateFailure(j)
  BY <1>7, <1>3, <1>l, LedgerPlans DEF Evaluate, EvaluateFailure
<1>8. QED
  BY <1>1, <1>2, <1>4, <1>5, <1>6, <1>7 DEF RunStep, Work

-------------------------------------------------------------------------------
(***************************************************************************)
(* Steps that concern another session, or no session.                      *)
(***************************************************************************)
Same(s) ==
  /\ \A t \in Of(s) : turns'[t] = turns[t] /\ working'[t] = working[t]
  /\ loads'[s] = loads[s]
  /\ screen'[s] = screen[s]
  /\ ledger'.update[s] = ledger.update[s]
  /\ ledger'.context[s] \in {ledger.context[s], NoPlan}

LEMMA SameKeeps ==
  ASSUME NEW s \in Session, Same(s)
  PROVE  (Alone(s) => Alone(s)') /\ (Mirror(s) => Mirror(s)')
<1>1. /\ Going(s)' = Going(s) /\ (Answered(s)' <=> Answered(s))
      /\ (Smooth(s)' <=> Smooth(s)) /\ Of(s)' = Of(s)
  BY DEF Same, Going, Answered, Smooth, Of
<1>2. Alone(s) => Alone(s)'
  BY <1>1 DEF Same, Alone
<1>3. Shown(s) => Shown(s)'
  BY <1>1 DEF Same, Shown
<1>4. Saved(s) => Saved(s)'
  BY <1>1 DEF Same, Saved
<1>5. Loaded(s) => Loaded(s)'
  BY <1>1 DEF Same, Loaded
<1>6. QED
  BY <1>1, <1>2, <1>3, <1>4, <1>5 DEF Mirror

(* In one tab, a turn in flight is alone with its session.                  *)
LEMMA AloneInFlight ==
  ASSUME NEW s \in Session, Alone(s), NEW t \in Of(s), turns[t] \in InFlight
  PROVE  Going(s) = {t} /\ loads[s].at = "idle"
BY DEF Alone, Going

LEMMA FreeToSend ==
  ASSUME NEW s \in Session, OneTab, MaySend(s)
  PROVE  Going(s) = {} /\ loads[s].at = "idle"
BY DEF MaySend, Busy, Going, Of

-------------------------------------------------------------------------------
(***************************************************************************)
(* A step of a turn, seen from its own session.                            *)
(***************************************************************************)

(* Where a turn may go, and what it writes on the way.                      *)
Advances(t, here, there) == turns[t] = here /\ turns'[t] = there

LEMMA TurnSteps ==
  ASSUME TypeInv, NEW t \in Turn, NEW s \in Session, s = SessionOf[t], TakeTurn(t)
  PROVE  /\ \A u \in Turn \ {t} : turns'[u] = turns[u] /\ working'[u] = working[u]
         /\ \A r \in Session \ {s} :
              /\ screen'[r] = screen[r]
              /\ ledger'.update[r] = ledger.update[r]
              /\ ledger'.context[r] = ledger.context[r]
         /\ UNCHANGED loads
         /\ \/ turns'[t] = "failed" /\ UNCHANGED <<ledger, screen>>
            \/ /\ Advances(t, "idle", "thinking") /\ MaySend(s)
               /\ UNCHANGED <<ledger, screen>>
            \/ Advances(t, "thinking", "save_session") /\ UNCHANGED <<ledger, screen>>
            \/ /\ Advances(t, "save_session", "save_update")
               /\ ledger'.context[s] = working[t].plan
               /\ ledger'.update = ledger.update
               /\ UNCHANGED <<working, screen>>
            \/ /\ Advances(t, "save_update", "save_user")
               /\ ledger'.context = ledger.context
               /\ ledger'.update[s] = working[t].plan
               /\ UNCHANGED <<working, screen>>
            \/ /\ Advances(t, "save_user", "save_reply")
               /\ ledger'.context = ledger.context
               /\ ledger'.update = ledger.update
               /\ UNCHANGED <<working, screen>>
            \/ /\ Advances(t, "save_reply", "answered")
               /\ ledger'.context = ledger.context
               /\ ledger'.update = ledger.update
               /\ screen'[s] = working[t].plan
               /\ UNCHANGED working
<1> USE DEF Advances
<1>l. /\ ledger \in LedgerType
      /\ ledger.context \in [Session -> Plan \cup {NoPlan, NoSession}]
      /\ ledger.update \in [Session -> Plan \cup {NoPlan}]
      /\ turns \in [Turn -> TurnStage]
      /\ working \in [Turn -> State \cup {NoState}]
      /\ screen \in [Session -> Plan \cup {NoPlan}]
  BY DEF TypeInv, TypeOK, LedgerType, PlanTypeOK
<1>1. CASE ReadConversation(t)
  BY <1>1, <1>l DEF ReadConversation
<1>2. CASE Converse(t) \/ UpdatePlan(t)
  BY <1>2, <1>l DEF Converse, UpdatePlan, Commit
<1>3. CASE FailTurn(t)
  BY <1>3, <1>l DEF FailTurn
<1>4. ASSUME NEW here, NEW there, NEW l, Saves(t, here, there, l), here # "failed"
      PROVE  /\ \A u \in Turn \ {t} : turns'[u] = turns[u]
             /\ UNCHANGED <<working, loads>>
             /\ turns[t] = here
             /\ \/ turns'[t] = there /\ ledger' = l
                \/ turns'[t] = "failed" /\ UNCHANGED ledger
  BY <1>4, <1>l DEF Saves
<1>5. CASE SaveSession(t)
  <2> DEFINE l == RecordSession(ledger, s, working[t].plan)
  <2>1. l.update = ledger.update /\ l.context = [ledger.context EXCEPT ![s] = working[t].plan]
    BY <1>l, LedgerPlans
  <2>2. Saves(t, "save_session", "save_update", l) /\ UNCHANGED screen
    BY <1>5 DEF SaveSession
  <2>3. QED
    BY <1>4, <1>l, <2>1, <2>2
<1>6. CASE SaveUpdate(t)
  <2> DEFINE l == RecordPlanUpdate(ledger, s, working[t].plan)
  <2>1. l.context = ledger.context /\ l.update = [ledger.update EXCEPT ![s] = working[t].plan]
    BY <1>l, LedgerPlans
  <2>2. Saves(t, "save_update", "save_user", l) /\ UNCHANGED screen
    BY <1>6 DEF SaveUpdate
  <2>3. QED
    BY <1>4, <1>l, <2>1, <2>2
<1>7. CASE SaveUser(t)
  <2> DEFINE l == RecordMessage(ledger, "planning_user_turn", t)
  <2>1. l.context = ledger.context /\ l.update = ledger.update
    BY <1>l, LedgerPlans
  <2>2. Saves(t, "save_user", "save_reply", l) /\ UNCHANGED screen
    BY <1>7 DEF SaveUser
  <2>3. QED
    BY <1>4, <2>1, <2>2
<1>8. CASE SaveReply(t)
  <2> DEFINE l == RecordMessage(ledger, "planning_assistant_turn", t)
  <2>1. l.context = ledger.context /\ l.update = ledger.update
    BY <1>l, LedgerPlans
  <2>2. Saves(t, "save_reply", "answered", l)
    BY <1>8 DEF SaveReply
  <2>3. /\ turns'[t] = "answered" => screen'[s] = working[t].plan
        /\ turns'[t] # "answered" => UNCHANGED screen
        /\ \A r \in Session \ {s} : screen'[r] = screen[r]
    BY <1>8, <1>l DEF SaveReply
  <2>4. QED
    BY <1>4, <2>1, <2>2, <2>3
<1>9. QED
  BY <1>1, <1>2, <1>3, <1>5, <1>6, <1>7, <1>8 DEF TakeTurn

(* A plan once saved is never taken back.                                   *)
LEMMA TurnKeepsKept ==
  ASSUME TypeInv, Kept, NEW t \in Turn, TakeTurn(t)
  PROVE  Kept'
<1> DEFINE s == SessionOf[t]
<1>s. s \in Session /\ \A u \in Turn : SessionOf[u] \in Session
  BY LedgerAssumption
<1>1. turns[t] = "save_update" => working[t].plan \in Plan
  BY DEF TypeInv, WorkingReady, InFlight, State
<1>2. ledger'.update[s] \in Plan \/ ledger'.update[s] = ledger.update[s]
  BY <1>1, <1>s, TurnSteps DEF Advances
<1>3. turns'[t] \in {"save_user", "save_reply", "answered"} => ledger'.update[s] \in Plan
  BY <1>1, <1>2, <1>s, TurnSteps DEF Advances, Kept
<1>4. ASSUME NEW u \in Turn, u # t,
             turns'[u] \in {"save_user", "save_reply", "answered"}
      PROVE  ledger'.update[SessionOf[u]] \in Plan
  <2>1. ledger.update[SessionOf[u]] \in Plan
    BY <1>4, <1>s, TurnSteps DEF Kept
  <2>2. QED
    BY <1>2, <1>s, <2>1, TurnSteps
<1>5. QED
  BY <1>3, <1>4 DEF Kept

LEMMA TurnKeepsMirror ==
  ASSUME TypeInv, OneTab, NEW t \in Turn, TakeTurn(t), NEW s \in Session,
         s = SessionOf[t], Alone(s), Mirror(s)
  PROVE  Alone(s)' /\ Mirror(s)'
<1>t. t \in Of(s)
  BY DEF Of
<1>o. /\ Of(s)' = Of(s) /\ loads'[s] = loads[s]
      /\ \A u \in Of(s) \ {t} : turns'[u] = turns[u] /\ working'[u] = working[u]
  BY TurnSteps DEF Of
<1>1. Going(s) \subseteq {t} /\ loads[s].at = "idle"
  <2>1. CASE turns[t] \in InFlight
    BY <2>1, <1>t, AloneInFlight
  <2>2. CASE turns[t] \notin InFlight
    <3>1. MaySend(s)
      BY <2>2 DEF TakeTurn, ReadConversation, Converse, UpdatePlan, Commit, FailTurn,
                  SaveSession, SaveUpdate, SaveUser, SaveReply, Saves, InFlight
    <3>2. QED
      BY <3>1, FreeToSend
  <2>3. QED
    BY <2>1, <2>2
<1>2. Going(s)' \subseteq {t} /\ loads'[s].at = "idle"
  BY <1>o, <1>1 DEF Going
<1>3. Alone(s)' /\ Loaded(s)'
  BY <1>2 DEF Alone, Loaded
<1>4. ASSUME Smooth(s)' PROVE Shown(s)' /\ Saved(s)'
  <2>1. turns'[t] # "failed"
    BY <1>4, <1>t, <1>o DEF Smooth, InFlight
  <2>2. Smooth(s)
    BY <1>4, <1>o, <2>1, TurnSteps DEF Smooth, Advances, InFlight
  <2>3. Saved(s)
    BY <2>2 DEF Mirror
  <2>4. \A u \in Of(s) \ {t} : turns'[u] \notin InFlight
    BY <1>2, <1>o DEF Going
  <2>5. Saved(s)'
    <3>1. /\ turns'[t] \in {"save_update", "save_user", "save_reply"} =>
               ledger'.context[s] \in {working'[t].plan, NoPlan}
          /\ turns'[t] \in {"save_user", "save_reply"} =>
               ledger'.update[s] = working'[t].plan
      BY <1>t, <2>1, <2>3, TurnSteps DEF Saved, Advances
    <3>2. QED
      BY <1>o, <2>4, <3>1 DEF Saved, InFlight
  <2>6. Shown(s)'
    <3>1. CASE turns'[t] \in InFlight
      BY <1>t, <1>o, <3>1 DEF Shown, Going
    <3>2. CASE Advances(t, "save_reply", "answered")
      <4>1. /\ ledger'.context = ledger.context /\ ledger'.update = ledger.update
            /\ screen'[s] = working[t].plan
        BY <3>2, TurnSteps DEF Advances
      <4>2. QED
        BY <1>t, <2>3, <3>2, <4>1 DEF Shown, Saved, Advances
    <3>3. QED
      BY <2>1, <3>1, <3>2, TurnSteps DEF Advances, InFlight
  <2>7. QED
    BY <2>5, <2>6
<1>5. QED
  BY <1>3, <1>4 DEF Mirror

-------------------------------------------------------------------------------
(***************************************************************************)
(* A load, seen from its own session.                                      *)
(***************************************************************************)
LEMMA OpenKeepsMirror ==
  ASSUME TypeInv, Kept, OneTab, NEW s \in Session, OpenSession(s), Alone(s), Mirror(s)
  PROVE  Alone(s)' /\ Mirror(s)'
<1>l. /\ loads \in [Session -> Load] /\ screen \in [Session -> Plan \cup {NoPlan}]
  BY DEF TypeInv, TypeOK, PlanTypeOK
<1>1. UNCHANGED <<ledger, turns, working>>
  BY DEF OpenSession, ReadRow, ReadMessages, Hydrate, LookForPlan, CreatePlan
<1>o. /\ Of(s)' = Of(s) /\ Going(s)' = Going(s)
      /\ (Answered(s)' <=> Answered(s)) /\ (Smooth(s)' <=> Smooth(s))
  BY <1>1 DEF Of, Going, Answered, Smooth
<1>2. CASE LookForPlan(s) \/ CreatePlan(s)
  BY <1>1, <1>2, SameKeeps DEF LookForPlan, CreatePlan, Same
<1>3. CASE ReadRow(s) \/ ReadMessages(s) \/ Hydrate(s)
  <2>1. Going(s) = {}
    BY <1>3, FreeToSend DEF ReadRow, ReadMessages, Hydrate, Alone
  <2>2. Alone(s)'
    BY <1>o, <2>1 DEF Alone
  <2>3. ASSUME Smooth(s) PROVE Shown(s)' /\ Saved(s)' /\ Loaded(s)'
    <3>1. Shown(s) /\ Saved(s) /\ Loaded(s)
      BY <2>3 DEF Mirror
    <3>2. Saved(s)'
      BY <1>1, <1>o, <3>1 DEF Saved
    <3>3. Answered(s) => /\ ledger.update[s] = screen[s]
                         /\ ledger.context[s] \in {screen[s], NoPlan}
                         /\ screen[s] \in Plan
      BY <2>1, <3>1 DEF Shown, Answered, Kept, Of
    <3>4. CASE ReadRow(s)
      <4>1. /\ UNCHANGED screen /\ loads'[s].at = "row"
            /\ loads'[s].plan = ledger.context[s]
        BY <1>l, <3>4 DEF ReadRow, Load
      <4>2. QED
        BY <1>1, <1>o, <3>1, <3>2, <3>3, <4>1 DEF Shown, Loaded
    <3>5. CASE ReadMessages(s)
      <4>1. /\ UNCHANGED screen /\ loads[s].at = "row" /\ loads'[s].at = "messages"
            /\ loads'[s].plan = PlanIn(loads[s].plan, ledger.update[s])
        BY <1>l, <3>5 DEF ReadMessages, Load
      <4>2. Answered(s) => loads'[s].plan = screen[s]
        BY <3>1, <3>3, <4>1, NoPlanAssumption DEF Loaded, PlanIn
      <4>3. QED
        BY <1>1, <1>o, <3>1, <3>2, <4>1, <4>2 DEF Shown, Loaded
    <3>6. CASE Hydrate(s)
      <4>1. /\ loads[s].at = "messages" /\ loads'[s].at = "idle"
            /\ screen'[s] = Hydrated(loads[s]).plan
        BY <1>l, <3>6 DEF Hydrate, NoLoad
      <4>2. Answered(s) => screen'[s] = screen[s]
        BY <3>1, <3>3, <4>1, NoPlanAssumption DEF Loaded, Hydrated
      <4>3. QED
        BY <1>1, <1>o, <3>1, <3>2, <4>1, <4>2 DEF Shown, Loaded
    <3>7. QED
      BY <1>3, <3>4, <3>5, <3>6
  <2>4. QED
    BY <1>o, <2>2, <2>3 DEF Mirror
<1>4. QED
  BY <1>2, <1>3 DEF OpenSession

LEMMA OpenLeavesOthers ==
  ASSUME TypeInv, NEW s \in Session, OpenSession(s), NEW r \in Session \ {s}
  PROVE  Same(r)
BY DEF TypeInv, TypeOK, PlanTypeOK, OpenSession, ReadRow, ReadMessages, Hydrate,
       LookForPlan, CreatePlan, Same

-------------------------------------------------------------------------------
LEMMA InitPlanInv == Init => PlanInv
<1> SUFFICES ASSUME Init PROVE PlanInv
  OBVIOUS
<1>1. \A t \in Turn : turns[t] = "idle"
  BY DEF Init, PlanInit
<1>2. \A s \in Session : Of(s) \subseteq Turn /\ Going(s) = {} /\ ~Answered(s)
  BY <1>1 DEF Of, Going, Answered, InFlight
<1>3. Kept
  BY <1>1 DEF Kept
<1>4. \A s \in Session : Alone(s) /\ Mirror(s)
  BY <1>1, <1>2 DEF Alone, Mirror, Shown, Saved, Loaded
<1>5. QED
  BY <1>3, <1>4 DEF PlanInv

LEMMA NextPlanInv == TypeInv /\ PlanInv /\ [Next]_vars => PlanInv'
<1> SUFFICES ASSUME TypeInv, PlanInv, [Next]_vars PROVE PlanInv'
  OBVIOUS
<1> TypeOK /\ Kept /\ (OneTab => \A s \in Session : Alone(s) /\ Mirror(s))
  BY DEF TypeInv, PlanInv
<1>s. \A t \in Turn : SessionOf[t] \in Session
  BY LedgerAssumption
<1>1. ASSUME PlansSurvive, UNCHANGED planVars PROVE PlanInv'
  <2>1. Kept'
    BY <1>1 DEF planVars, PlansSurvive, Kept
  <2>2. \A s \in Session : Same(s)
    BY <1>1 DEF planVars, PlansSurvive, Same
  <2>3. QED
    BY <2>1, <2>2, SameKeeps DEF PlanInv
<1>2. ASSUME NEW j \in Job, RunStep(j), UNCHANGED <<planVars, restarts>>
      PROVE  PlanInv'
  BY <1>1, <1>2, JobsLeavePlans
<1>3. ASSUME NEW t \in Turn, TakeTurn(t) PROVE PlanInv'
  <2>1. Kept'
    BY <1>3, TurnKeepsKept
  <2>2. ASSUME NEW r \in Session, r # SessionOf[t] PROVE Same(r)
    BY <1>3, <1>s, <2>2, TurnSteps DEF Same, Of
  <2>3. ASSUME OneTab, NEW r \in Session PROVE Alone(r)' /\ Mirror(r)'
    BY <1>3, <2>2, <2>3, SameKeeps, TurnKeepsMirror
  <2>4. QED
    BY <2>1, <2>3 DEF PlanInv
<1>4. ASSUME NEW s \in Session, OpenSession(s) PROVE PlanInv'
  <2>1. Kept'
    BY <1>4 DEF Kept, OpenSession, ReadRow, ReadMessages, Hydrate, LookForPlan,
                CreatePlan
  <2>2. ASSUME OneTab, NEW r \in Session PROVE Alone(r)' /\ Mirror(r)'
    BY <1>4, <2>2, OpenLeavesOthers, SameKeeps, OpenKeepsMirror
  <2>3. QED
    BY <2>1, <2>2 DEF PlanInv
<1>5. CASE Restart
  <2>1. /\ UNCHANGED <<ledger, screen>>
        /\ \A t \in Turn : turns'[t] = IF turns[t] \in InFlight THEN "killed" ELSE turns[t]
        /\ \A s \in Session : loads'[s].at = "idle"
    BY <1>5 DEF Restart, KillPlans, NoLoad
  <2>2. Kept'
    BY <2>1 DEF Kept
  <2>3. ASSUME OneTab, NEW s \in Session PROVE Alone(s)' /\ Mirror(s)'
    <3>1. Of(s) \subseteq Turn /\ Of(s)' = Of(s) /\ Going(s)' = {}
      BY <2>1 DEF Of, Going, InFlight
    <3>2. Alone(s)' /\ Loaded(s)'
      BY <2>1, <3>1 DEF Alone, Loaded
    <3>3. Saved(s)'
      BY <3>1 DEF Saved, Going, InFlight
    <3>4. ASSUME Smooth(s)' PROVE Shown(s)'
      <4>1. \A t \in Of(s) : turns'[t] = turns[t] /\ turns[t] \notin InFlight
        BY <2>1, <3>1, <3>4 DEF Smooth, InFlight
      <4>2. Smooth(s) /\ Going(s) = {} /\ (Answered(s)' => Answered(s))
        BY <3>1, <3>4, <4>1 DEF Smooth, Going, Answered
      <4>3. QED
        BY <2>1, <2>3, <4>2 DEF Mirror, Shown
    <3>5. QED
      BY <3>2, <3>3, <3>4 DEF Mirror
  <2>4. QED
    BY <2>2, <2>3 DEF PlanInv
<1>6. CASE UNCHANGED vars
  BY <1>1, <1>6 DEF vars, planVars, PlansSurvive
<1>7. QED
  BY <1>2, <1>3, <1>4, <1>5, <1>6 DEF Next

(* The plan a client was answered can be loaded again, and in one tab, when *)
(* no turn went wrong, it is the one on the screen: whatever jobs did to    *)
(* the context of the session, and whenever the process died.               *)
THEOREM AnsweredPlansLoadable == Spec => []AnsweredPlanLoadable
<1>1. PlanInv => AnsweredPlanLoadable
  <2> SUFFICES ASSUME PlanInv, NEW s \in Session
               PROVE  LET sent == {t \in Turn : SessionOf[t] = s /\ turns[t] # "idle"}
                      IN  /\ (\E t \in sent : turns[t] = "answered") =>
                               Loadable(ledger, s) \in Plan
                          /\ (OneTab /\ sent # {} /\ \A t \in sent : turns[t] = "answered") =>
                               Loadable(ledger, s) = screen[s]
    BY DEF AnsweredPlanLoadable
  <2> DEFINE sent == {t \in Turn : SessionOf[t] = s /\ turns[t] # "idle"}
  <2>1. ASSUME \E t \in sent : turns[t] = "answered"
        PROVE  ledger.update[s] \in Plan
    BY <2>1 DEF PlanInv, Kept
  <2>2. ASSUME OneTab, sent # {}, \A t \in sent : turns[t] = "answered"
        PROVE  Loadable(ledger, s) = screen[s]
    <3>1. Smooth(s) /\ Going(s) = {} /\ Answered(s)
      BY <2>2 DEF Smooth, Going, Answered, Of, InFlight
    <3>2. ledger.update[s] = screen[s] /\ ledger.context[s] \in {screen[s], NoPlan}
      BY <2>2, <3>1 DEF PlanInv, Mirror, Shown
    <3>3. QED
      BY <3>2, NoPlanAssumption DEF Loadable, PlanIn
  <2>3. QED
    BY <2>1, <2>2 DEF Loadable, PlanIn
<1>2. QED
  BY InitType, NextType, InitPlanInv, NextPlanInv, <1>1, PTL DEF Spec

===============================================================================
