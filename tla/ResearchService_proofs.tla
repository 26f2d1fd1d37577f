------------------------ MODULE ResearchService_proofs ------------------------
(***************************************************************************)
(* Proofs about the research service, for any number of sessions, jobs,    *)
(* turns, workers and restarts, with a ledger that may fail at any write.  *)
(***************************************************************************)
EXTENDS ResearchService, FiniteSetTheorems, TLAPS

(* What a job may assume of its row of the ledger at each place of its      *)
(* worker, and what was said by then.                                       *)
Row(status, label) == [status |-> status, label |-> label]

BeforeRun ==
  {"idle", "queued", "start", "validate", "chat_session", "chat_input",
   "run_session", "run_input", "build", "run_started"}
InRun == {"explore", "run_completed", "run_failed"}
Finishing == {"result_message", "evaluation"}
Rated == {"answer", "chat_output", "publish_completed"}
Failing == {"failure_message", "failure_evaluation"}
Bootstrapped == {"build", "run_started"} \cup InRun \cup Finishing \cup Rated

RowAgrees(j) ==
  /\ thread[j] \in BeforeRun => ledger.runs[j] = Row("absent", "none")
  /\ thread[j] \in InRun => ledger.runs[j] = Row("running", "none")
  /\ thread[j] \in Finishing => ledger.runs[j] = Row("completed", "none")
  /\ thread[j] \in Failing => ledger.runs[j] = Row("failed", "none")
  /\ thread[j] \in Rated => /\ ledger.runs[j].status = "completed"
                            /\ ledger.runs[j].label \in {"good", "unknown"}

MessagesAgree(j) ==
  /\ thread[j] \in {"run_session", "run_input"} \cup Bootstrapped =>
       Said(j, {"chat_turn_input"})
  /\ thread[j] \in Bootstrapped => Said(j, {"runtime_bootstrap_input"})
  /\ thread[j] \in {"evaluation"} \cup Rated => Said(j, {"runtime_result"})
  /\ thread[j] = "failure_evaluation" => Said(j, {"runtime_failure"})
  /\ thread[j] = "publish_completed" => Said(j, {"chat_turn_output"})

OutcomeAgrees(j) ==
  /\ thread[j] = "publish_failed" /\ raised[j] = "run" => FailureRecord(j)
  /\ jobs[j].status = "completed" => thread[j] = "returned" /\ CompletedRecord(j)
  /\ jobs[j] = [status |-> "failed", error |-> "run"] =>
       thread[j] = "returned" /\ FailureRecord(j)

Chain(j) == RowAgrees(j) /\ MessagesAgree(j) /\ OutcomeAgrees(j)


-------------------------------------------------------------------------------
(***************************************************************************)
(* Type correctness.                                                       *)
(***************************************************************************)

(* Every operation of the ledger writer keeps the type of the ledger.       *)
LEMMA LedgerOperations ==
  ASSUME NEW l \in LedgerType
  PROVE  /\ \A s \in Session, c \in Plan \cup {NoPlan, NoSession} :
              RecordSession(l, s, c) \in LedgerType
         /\ \A kind \in JobMessage, j \in Job :
              RecordMessage(l, kind, j) \in LedgerType
         /\ \A kind \in TurnMessage, t \in Turn :
              RecordMessage(l, kind, t) \in LedgerType
         /\ \A s \in Session, p \in Plan :
              RecordPlanUpdate(l, s, p) \in LedgerType
         /\ \A j \in Job, st \in RunStatus : RecordRun(l, j, st) \in LedgerType
         /\ \A j \in Job, lb \in Label :
              RecordEvaluation(l, j, lb) \in LedgerType
<1>1. ASSUME NEW s \in Session, NEW c \in Plan \cup {NoPlan, NoSession}
      PROVE  RecordSession(l, s, c) \in LedgerType
  BY DEF RecordSession, LedgerType
<1>2. ASSUME NEW kind \in JobMessage, NEW j \in Job
      PROVE  RecordMessage(l, kind, j) \in LedgerType
  BY DEF RecordMessage, LedgerType
<1>3. ASSUME NEW kind \in TurnMessage, NEW t \in Turn
      PROVE  RecordMessage(l, kind, t) \in LedgerType
  BY DEF RecordMessage, LedgerType
<1>4. ASSUME NEW s \in Session, NEW p \in Plan
      PROVE  RecordPlanUpdate(l, s, p) \in LedgerType
  BY DEF RecordPlanUpdate, LedgerType
<1>5. ASSUME NEW j \in Job, NEW st \in RunStatus
      PROVE  RecordRun(l, j, st) \in LedgerType
  BY DEF RecordRun, LedgerType
<1>6. ASSUME NEW j \in Job, NEW lb \in Label
      PROVE  RecordEvaluation(l, j, lb) \in LedgerType
  BY DEF RecordEvaluation, LedgerType, RunStatus
<1>7. QED
  BY <1>1, <1>2, <1>3, <1>4, <1>5, <1>6

(* The steps a worker is made of.                                           *)
LEMMA RecordsType ==
  ASSUME JobTypeOK, ledger \in LedgerType, NEW j \in Job, NEW here,
         NEW there \in Asleep \cup Working, NEW l \in LedgerType,
         Records(j, here, there, l)
  PROVE  JobTypeOK' /\ ledger' \in LedgerType
BY DEF JobTypeOK, Records, Goes, Raises, Working, Error

LEMMA ComputesType ==
  ASSUME JobTypeOK, ledger \in LedgerType, NEW j \in Job, NEW here,
         NEW there \in Asleep \cup Working, Computes(j, here, there)
  PROVE  JobTypeOK' /\ ledger' \in LedgerType
BY DEF JobTypeOK, Computes, Goes, Raises, Working, Error

LEMMA PublishType ==
  ASSUME JobTypeOK, ledger \in LedgerType, NEW j \in Job, NEW here,
         NEW there \in Asleep \cup Working, NEW status \in JobStatus,
         NEW error \in Error, Publish(j, here, there, status, error)
  PROVE  JobTypeOK' /\ ledger' \in LedgerType
BY DEF JobTypeOK, Publish

LEMMA WorkType ==
  ASSUME JobTypeOK, ledger \in LedgerType, NEW j \in Job, Work(j) \/ Abort(j)
  PROVE  JobTypeOK' /\ ledger' \in LedgerType
<1> USE DEF Says
<1> SessionOf[j] \in Session
  BY LedgerAssumption
<1>1. CASE TakeJob(j)
  BY <1>1 DEF JobTypeOK, TakeJob, Working
<1>2. CASE StartJob(j)
  BY <1>2, PublishType DEF StartJob, Working, JobStatus, Error
<1>3. CASE PublishCompleted(j)
  BY <1>3, PublishType DEF PublishCompleted, Asleep, Done, JobStatus, Error
<1>4. CASE PublishFailed(j)
  <2>1. raised[j] \in Error
    BY DEF JobTypeOK
  <2>2. QED
    BY <1>4, <2>1, PublishType DEF PublishFailed, Asleep, Done, JobStatus
<1>5. CASE Validate(j) \/ Build(j) \/ Answer(j)
  BY <1>5, ComputesType DEF Validate, Build, Answer, Working
<1>6. CASE RecordChatSession(j) \/ RecordRunSession(j)
  BY <1>6, RecordsType, LedgerOperations
     DEF RecordChatSession, RecordRunSession, Working
<1>7. CASE RecordChatInput(j)
  BY <1>7, RecordsType, LedgerOperations DEF RecordChatInput, Working, JobMessage
<1>8. CASE RecordRunInput(j)
  BY <1>8, RecordsType, LedgerOperations DEF RecordRunInput, Working, JobMessage
<1>9. CASE RecordResult(j)
  BY <1>9, RecordsType, LedgerOperations DEF RecordResult, Working, JobMessage
<1>10. CASE RecordChatOutput(j)
  BY <1>10, RecordsType, LedgerOperations DEF RecordChatOutput, Working, JobMessage
<1>11. CASE RecordFailure(j)
  BY <1>11, RecordsType, LedgerOperations DEF RecordFailure, Working, JobMessage
<1>12. CASE RecordRunStarted(j) \/ RecordRunCompleted(j) \/ RecordRunFailed(j)
  BY <1>12, RecordsType, LedgerOperations
     DEF RecordRunStarted, RecordRunCompleted, RecordRunFailed, Working, RunStatus
<1>13. CASE Evaluate(j)
  BY <1>13, RecordsType, LedgerOperations DEF Evaluate, Working, Label
<1>14. CASE EvaluateFailure(j)
  BY <1>14, RecordsType, LedgerOperations DEF EvaluateFailure, Working, Label
<1>15. CASE Explore(j) \/ Abort(j)
  BY <1>15 DEF Explore, Abort, Goes, JobTypeOK, Working, Asleep, Done, Error
<1>16. QED
  BY <1>1, <1>2, <1>3, <1>4, <1>5, <1>6, <1>7, <1>8, <1>9, <1>10, <1>11,
     <1>12, <1>13, <1>14, <1>15 DEF Work

LEMMA RunStepType ==
  ASSUME JobTypeOK, ledger \in LedgerType, NEW j \in Job, RunStep(j)
  PROVE  JobTypeOK' /\ ledger' \in LedgerType
<1>1. CASE Launch(j)
  BY <1>1 DEF Launch, CreateJob, JobTypeOK, JobStatus, Error, Asleep
<1>2. CASE Poll(j)
  <2>1. Judged(j) \in [Job -> [status : JobStatus, error : Error]]
    BY DEF Judged, JobTypeOK, JobStatus, Error
  <2>2. QED
    BY <1>2, <2>1 DEF Poll, TakeSnapshot, JudgeSnapshot, JobTypeOK
<1>3. QED
  BY <1>1, <1>2, WorkType DEF RunStep

LEMMA SavesType ==
  ASSUME PlanTypeOK, ledger \in LedgerType, NEW t \in Turn, NEW here,
         NEW there \in TurnStage, NEW l \in LedgerType, Saves(t, here, there, l),
         screen' \in [Session -> Plan \cup {NoPlan}]
  PROVE  PlanTypeOK' /\ ledger' \in LedgerType
BY DEF PlanTypeOK, Saves, TurnStage

(* A turn that is past reading has a conversation to work on.               *)
WorkingReady ==
  \A t \in Turn : turns[t] \in InFlight => working[t] \in State

LEMMA CommitType ==
  ASSUME PlanTypeOK, ledger \in LedgerType, NEW t \in Turn, NEW plan \in Plan,
         Commit(t, plan)
  PROVE  PlanTypeOK' /\ ledger' \in LedgerType
<1>1. [plan |-> plan, heard |-> working[t].heard \cup {t}] \in State
  BY DEF PlanTypeOK, State, NoState
<1>2. SessionOf[t] \in Session
  BY LedgerAssumption
<1>3. QED
  BY <1>1, <1>2 DEF Commit, PlanTypeOK, TurnStage, InFlight

LEMMA TurnType ==
  ASSUME PlanTypeOK, WorkingReady, ledger \in LedgerType, NEW t \in Turn,
         TakeTurn(t)
  PROVE  PlanTypeOK' /\ ledger' \in LedgerType
<1> SessionOf[t] \in Session
  BY LedgerAssumption
<1> USE DEF InFlight
<1>1. CASE ReadConversation(t)
  BY <1>1 DEF ReadConversation, PlanTypeOK, TurnStage, FreshState, State,
              ProfilePlan, Plan
<1>2. CASE Converse(t)
  <2>1. working[t].plan \in Plan
    BY <1>2 DEF Converse, Commit, WorkingReady, State
  <2>2. QED
    BY <1>2, <2>1, CommitType DEF Converse
<1>3. CASE UpdatePlan(t)
  BY <1>3, CommitType DEF UpdatePlan, Plan
<1>4. CASE FailTurn(t)
  BY <1>4 DEF FailTurn, PlanTypeOK, TurnStage
<1>5. CASE SaveSession(t) \/ SaveUpdate(t) \/ SaveUser(t) \/ SaveReply(t)
  <2>1. working[t].plan \in Plan
    BY <1>5 DEF SaveSession, SaveUpdate, SaveUser, SaveReply, Saves,
                WorkingReady, State
  <2>2. screen' \in [Session -> Plan \cup {NoPlan}]
    BY <1>5, <2>1 DEF SaveSession, SaveUpdate, SaveUser, SaveReply, PlanTypeOK
  <2>3. CASE SaveSession(t)
    BY <2>1, <2>2, <2>3, SavesType, LedgerOperations DEF SaveSession, TurnStage
  <2>4. CASE SaveUpdate(t)
    BY <2>1, <2>2, <2>4, SavesType, LedgerOperations DEF SaveUpdate, TurnStage
  <2>5. CASE SaveUser(t)
    BY <2>2, <2>5, SavesType, LedgerOperations DEF SaveUser, TurnStage, TurnMessage
  <2>6. CASE SaveReply(t)
    BY <2>2, <2>6, SavesType, LedgerOperations DEF SaveReply, TurnStage, TurnMessage
  <2>7. QED
    BY <1>5, <2>3, <2>4, <2>5, <2>6
<1>6. QED
  BY <1>1, <1>2, <1>3, <1>4, <1>5 DEF TakeTurn

LEMMA WorkingStaysReady ==
  ASSUME PlanTypeOK, WorkingReady, NEW t \in Turn, TakeTurn(t)
  PROVE  WorkingReady'
<1> SessionOf[t] \in Session
  BY LedgerAssumption
<1>1. CASE ReadConversation(t)
  BY <1>1 DEF ReadConversation, PlanTypeOK, WorkingReady, FreshState, State,
              ProfilePlan, Plan
<1>2. CASE Converse(t) \/ UpdatePlan(t)
  <2>1. turns[t] = "thinking" /\ working[t] \in State
    BY <1>2 DEF Converse, UpdatePlan, Commit, WorkingReady, InFlight
  <2>2. PICK plan \in Plan : Commit(t, plan)
    BY <1>2, <2>1 DEF Converse, UpdatePlan, State, Plan
  <2>3. [plan |-> plan, heard |-> working[t].heard \cup {t}] \in State
    BY <2>1 DEF State
  <2>4. QED
    BY <2>2, <2>3 DEF Commit, PlanTypeOK, WorkingReady
<1>3. CASE FailTurn(t)
  BY <1>3 DEF FailTurn, PlanTypeOK, WorkingReady, InFlight
<1>4. CASE SaveSession(t) \/ SaveUpdate(t) \/ SaveUser(t) \/ SaveReply(t)
  BY <1>4 DEF SaveSession, SaveUpdate, SaveUser, SaveReply, Saves, PlanTypeOK,
              WorkingReady, InFlight
<1>5. QED
  BY <1>1, <1>2, <1>3, <1>4 DEF TakeTurn

LEMMA OpenType ==
  ASSUME PlanTypeOK, ledger \in LedgerType, NEW s \in Session, OpenSession(s)
  PROVE  PlanTypeOK' /\ ledger' \in LedgerType
<1>1. CASE ReadRow(s)
  <2>1. ledger.context[s] \in Plan \cup {NoPlan}
    BY <1>1 DEF ReadRow, LedgerType
  <2>2. [loads[s] EXCEPT !.at = "row", !.plan = ledger.context[s]] \in Load
    BY <2>1 DEF PlanTypeOK, Load
  <2>3. loads' = [loads EXCEPT ![s] =
                    [loads[s] EXCEPT !.at = "row", !.plan = ledger.context[s]]]
    BY <1>1 DEF ReadRow, PlanTypeOK, Load
  <2>4. QED
    BY <1>1, <2>2, <2>3 DEF ReadRow, PlanTypeOK
<1>2. CASE ReadMessages(s)
  <2>1. PlanIn(loads[s].plan, ledger.update[s]) \in Plan \cup {NoPlan}
    BY DEF PlanIn, LedgerType
  <2>2. QED
    BY <1>2, <2>1 DEF ReadMessages, PlanTypeOK, Load, Spoken
<1>3. CASE Hydrate(s)
  <2>1. Hydrated(loads[s]) \in State /\ NoLoad \in Load
    BY DEF Hydrated, PlanTypeOK, Load, State, ProfilePlan, Plan, NoLoad
  <2>2. QED
    <3>1. Hydrated(loads[s]).plan \in Plan
      BY <2>1 DEF State
    <3>2. QED
      BY <1>3, <2>1, <3>1 DEF Hydrate, PlanTypeOK
<1>4. CASE LookForPlan(s) \/ CreatePlan(s)
  <2>1. FreshState \in State
    BY DEF FreshState, State, ProfilePlan, Plan
  <2>2. QED
    BY <1>4, <2>1 DEF LookForPlan, CreatePlan, PlanTypeOK
<1>5. QED
  BY <1>1, <1>2, <1>3, <1>4 DEF OpenSession

LEMMA RestartType ==
  ASSUME TypeOK, Restart
  PROVE  TypeOK'
<1>1. JobTypeOK'
  BY DEF Restart, KillJobs, JobTypeOK, NoJob, JobStatus, Error, Asleep
<1>2. PlanTypeOK'
  <2>1. NoLoad \in Load
    BY DEF NoLoad, Load
  <2>2. \A t \in Turn : turns[t] \in TurnStage /\ "killed" \in TurnStage
    BY DEF TypeOK, PlanTypeOK, TurnStage
  <2>3. QED
    BY <2>1, <2>2 DEF Restart, KillPlans, TypeOK, PlanTypeOK
<1>3. restarts' \in 0..MaxRestarts /\ ledger' \in LedgerType
  BY MaxRestartsAssumption DEF TypeOK, Restart
<1>4. QED
  BY <1>1, <1>2, <1>3 DEF TypeOK

TypeInv == TypeOK /\ WorkingReady

LEMMA InitType == Init => TypeInv
<1> SUFFICES ASSUME Init PROVE TypeInv
  OBVIOUS
<1>1. ledger \in LedgerType
  BY DEF Init, EmptyLedger, LedgerType, RunStatus, Label
<1>2. JobTypeOK
  BY DEF Init, JobInit, JobTypeOK, NoJob, JobStatus, Error, Asleep
<1>3. PlanTypeOK /\ WorkingReady
  BY DEF Init, PlanInit, PlanTypeOK, TurnStage, InFlight, NoLoad, Load, WorkingReady
<1>4. QED
  BY <1>1, <1>2, <1>3, MaxRestartsAssumption DEF TypeInv, TypeOK, Init

LEMMA NextType == TypeInv /\ [Next]_vars => TypeInv'
<1> SUFFICES ASSUME TypeInv, [Next]_vars PROVE TypeInv'
  OBVIOUS
<1> USE DEF TypeInv
<1>1. ASSUME NEW j \in Job, RunStep(j), UNCHANGED <<planVars, restarts>>
      PROVE  TypeInv'
  BY <1>1, RunStepType DEF TypeOK, planVars, PlanTypeOK, WorkingReady
<1>2. ASSUME NEW t \in Turn, TakeTurn(t), UNCHANGED <<jobVars, restarts>>
      PROVE  TypeInv'
  BY <1>2, TurnType, WorkingStaysReady DEF TypeOK, jobVars, JobTypeOK
<1>3. ASSUME NEW s \in Session, OpenSession(s), UNCHANGED <<jobVars, restarts>>
      PROVE  TypeInv'
  <2>1. UNCHANGED <<turns, working>>
    BY <1>3 DEF OpenSession, ReadRow, ReadMessages, Hydrate, LookForPlan, CreatePlan
  <2>2. QED
    BY <1>3, <2>1, OpenType DEF TypeOK, jobVars, JobTypeOK, WorkingReady
<1>4. CASE Restart
  <2>1. WorkingReady'
    BY <1>4 DEF Restart, KillPlans, WorkingReady, InFlight
  <2>2. QED
    BY <1>4, <2>1, RestartType
<1>5. CASE UNCHANGED vars
  BY <1>5 DEF vars, TypeOK, JobTypeOK, PlanTypeOK, WorkingReady
<1>6. QED
  BY <1>1, <1>2, <1>3, <1>4, <1>5 DEF Next

(* The type invariant: what the services, the ledger and the requests in    *)
(* flight hold is what their code expects to find there, and in particular  *)
(* a turn that saves has a conversation to save.                            *)
THEOREM ServiceTypeCorrect == Spec => []TypeOK
<1>1. TypeInv => TypeOK
  BY DEF TypeInv
<1>2. QED
  BY InitType, NextType, <1>1, PTL DEF Spec

-------------------------------------------------------------------------------
(***************************************************************************)
(* A job and its rows in the ledger.                                       *)
(***************************************************************************)

(* What each operation of the writer does to the runs and the messages.     *)
LEMMA LedgerReads ==
  ASSUME NEW l \in LedgerType
  PROVE  /\ \A s, c : /\ RecordSession(l, s, c).runs = l.runs
                      /\ RecordSession(l, s, c).messages = l.messages
         /\ \A s, p : /\ RecordPlanUpdate(l, s, p).runs = l.runs
                      /\ RecordPlanUpdate(l, s, p).messages = l.messages
         /\ \A kind, id :
              /\ RecordMessage(l, kind, id).runs = l.runs
              /\ RecordMessage(l, kind, id).messages
                   = l.messages \cup {<<kind, id>>}
         /\ \A j \in Job : \A st :
              /\ RecordRun(l, j, st).messages = l.messages
              /\ RecordRun(l, j, st).runs[j] = Row(st, l.runs[j].label)
              /\ \A k \in Job \ {j} : RecordRun(l, j, st).runs[k] = l.runs[k]
         /\ \A j \in Job : \A lb :
              /\ RecordEvaluation(l, j, lb).messages = l.messages
              /\ RecordEvaluation(l, j, lb).runs[j]
                   = Row(IF l.runs[j].status = "absent"
                           THEN "running" ELSE l.runs[j].status, lb)
              /\ \A k \in Job \ {j} : RecordEvaluation(l, j, lb).runs[k] = l.runs[k]
<1>1. \A s, c : /\ RecordSession(l, s, c).runs = l.runs
                /\ RecordSession(l, s, c).messages = l.messages
  BY DEF LedgerType, RecordSession
<1>2. \A s, p : /\ RecordPlanUpdate(l, s, p).runs = l.runs
                /\ RecordPlanUpdate(l, s, p).messages = l.messages
  BY DEF LedgerType, RecordPlanUpdate
<1>3. \A kind, id : /\ RecordMessage(l, kind, id).runs = l.runs
                    /\ RecordMessage(l, kind, id).messages
                         = l.messages \cup {<<kind, id>>}
  BY DEF LedgerType, RecordMessage
<1>4. ASSUME NEW j \in Job, NEW st
      PROVE  /\ RecordRun(l, j, st).messages = l.messages
             /\ RecordRun(l, j, st).runs[j] = Row(st, l.runs[j].label)
             /\ \A k \in Job \ {j} : RecordRun(l, j, st).runs[k] = l.runs[k]
  BY DEF LedgerType, RecordRun, Row
<1>5. ASSUME NEW j \in Job, NEW lb
      PROVE  /\ RecordEvaluation(l, j, lb).messages = l.messages
             /\ RecordEvaluation(l, j, lb).runs[j]
                  = Row(IF l.runs[j].status = "absent"
                          THEN "running" ELSE l.runs[j].status, lb)
             /\ \A k \in Job \ {j} : RecordEvaluation(l, j, lb).runs[k] = l.runs[k]
  BY DEF LedgerType, RecordEvaluation, Row
<1>6. QED
  BY <1>1, <1>2, <1>3, <1>4, <1>5

(* A step that touches nothing of a job keeps what holds of it; more may be *)
(* said in the meantime.                                                    *)
Untouched(j) ==
  /\ thread'[j] = thread[j]
  /\ raised'[j] = raised[j]
  /\ jobs'[j] = jobs[j]
  /\ ledger'.runs[j] = ledger.runs[j]
  /\ ledger.messages \subseteq ledger'.messages

LEMMA UntouchedKeeps ==
  ASSUME NEW j \in Job, Chain(j), Untouched(j)
  PROVE  Chain(j)'
<1>1. \A kinds : Said(j, kinds) => Said(j, kinds)'
  BY DEF Untouched, Said
<1>2. RowAgrees(j)'
  BY DEF Untouched, Chain, RowAgrees
<1>3. MessagesAgree(j)'
  BY <1>1 DEF Untouched, Chain, MessagesAgree
<1>4. (CompletedRecord(j) => CompletedRecord(j)') /\ (FailureRecord(j) => FailureRecord(j)')
  BY <1>1 DEF Untouched, CompletedRecord, FailureRecord
<1>5. OutcomeAgrees(j)'
  BY <1>4 DEF Untouched, Chain, OutcomeAgrees
<1>6. QED
  BY <1>2, <1>3, <1>5 DEF Chain

(* One job never touches another.                                           *)
LEMMA OthersUntouched ==
  ASSUME TypeOK, NEW j \in Job, RunStep(j), NEW k \in Job \ {j}
  PROVE  Untouched(k)
<1> USE DEF TypeOK, JobTypeOK, Untouched
<1>1. CASE Launch(j) \/ Poll(j)
  BY <1>1 DEF Launch, CreateJob, Poll, TakeSnapshot, JudgeSnapshot, Judged
<1>2. CASE Abort(j) \/ Explore(j) \/ Validate(j) \/ Build(j) \/ Answer(j)
  BY <1>2 DEF Abort, Explore, Validate, Build, Answer, Computes, Goes, Raises
<1>3. CASE TakeJob(j) \/ StartJob(j) \/ PublishCompleted(j) \/ PublishFailed(j)
  BY <1>3 DEF TakeJob, StartJob, PublishCompleted, PublishFailed, Publish
<1>4. ASSUME NEW here, NEW there, NEW l, Records(j, here, there, l),
             l.runs[k] = ledger.runs[k], ledger.messages \subseteq l.messages
      PROVE  Untouched(k)
  BY <1>4 DEF Records, Goes, Raises
<1>5. CASE RecordChatSession(j) \/ RecordRunSession(j)
  BY <1>5, <1>4, LedgerReads DEF RecordChatSession, RecordRunSession
<1>6. CASE RecordChatInput(j) \/ RecordRunInput(j) \/ RecordResult(j)
             \/ RecordChatOutput(j) \/ RecordFailure(j)
  BY <1>6, <1>4, LedgerReads
     DEF RecordChatInput, RecordRunInput, RecordResult, RecordChatOutput,
         RecordFailure, Says
<1>7. CASE RecordRunStarted(j) \/ RecordRunCompleted(j) \/ RecordRunFailed(j)
  BY <1>7, <1>4, LedgerReads
     DEF RecordRunStarted, RecordRunCompleted, RecordRunFailed
<1>8. CASE Evaluate(j) \/ EvaluateFailure(j)
  BY <1>8, <1>4, LedgerReads DEF Evaluate, EvaluateFailure
<1>9. QED
  BY <1>1, <1>2, <1>3, <1>5, <1>6, <1>7, <1>8 DEF RunStep, Work

(* A worker that goes on to another stage, or that has to give up because   *)
(* the ledger raised; neither has an outcome yet.                           *)
LEMMA StageKeeps ==
  ASSUME NEW j \in Job, Chain(j), thread[j] \in Working, jobs'[j] = jobs[j],
         thread'[j] \in Working \ {"publish_failed"},
         RowAgrees(j)', MessagesAgree(j)'
  PROVE  Chain(j)'
<1>1. thread[j] # "returned" /\ thread'[j] # "publish_failed"
  BY DEF Working
<1>2. OutcomeAgrees(j)'
  BY <1>1 DEF Chain, OutcomeAgrees
<1>3. QED
  BY <1>2 DEF Chain

LEMMA GivingUpKeeps ==
  ASSUME NEW j \in Job, Chain(j), thread[j] \in Working, jobs'[j] = jobs[j],
         thread'[j] = "publish_failed",
         raised'[j] = "run" => FailureRecord(j)'
  PROVE  Chain(j)'
<1>1. RowAgrees(j)' /\ MessagesAgree(j)'
  BY DEF RowAgrees, MessagesAgree, BeforeRun, InRun, Finishing, Rated, Failing,
         Bootstrapped
<1>2. thread[j] # "returned"
  BY DEF Working
<1>3. OutcomeAgrees(j)'
  BY <1>2 DEF Chain, OutcomeAgrees
<1>4. QED
  BY <1>1, <1>3 DEF Chain

(* What is said stays said, and what is written is said.                    *)
LEMMA SaidStays ==
  ASSUME NEW j \in Job, ledger.messages \subseteq ledger'.messages
  PROVE  \A kinds : Said(j, kinds) => Said(j, kinds)'
BY DEF Said

LEMMA RecordsKeeps ==
  ASSUME TypeOK, NEW j \in Job, Chain(j), NEW here \in Working,
         NEW there \in Working \ {"publish_failed"}, NEW l,
         Records(j, here, there, l),
         ledger' = l /\ thread[j] = here /\ thread'[j] = there =>
           RowAgrees(j)' /\ MessagesAgree(j)'
  PROVE  Chain(j)'
<1>1. thread[j] = here /\ jobs'[j] = jobs[j]
  BY DEF Records
<1>2. CASE Goes(j, there) /\ ledger' = l
  <2>1. thread'[j] = there
    BY <1>2 DEF Goes, TypeOK, JobTypeOK
  <2>2. QED
    BY <1>1, <1>2, <2>1, StageKeeps
<1>3. CASE Raises(j, "ledger")
  <2>1. thread'[j] = "publish_failed" /\ raised'[j] = "ledger"
    BY <1>3 DEF Raises, TypeOK, JobTypeOK
  <2>2. QED
    BY <1>1, <2>1, GivingUpKeeps
<1>4. QED
  BY <1>2, <1>3 DEF Records

LEMMA ComputesKeeps ==
  ASSUME TypeOK, NEW j \in Job, Chain(j), NEW here \in Working,
         NEW there \in Working \ {"publish_failed"}, Computes(j, here, there),
         thread[j] = here /\ thread'[j] = there /\ UNCHANGED ledger =>
           RowAgrees(j)' /\ MessagesAgree(j)',
         thread[j] = here /\ UNCHANGED ledger => FailureRecord(j)'
  PROVE  Chain(j)'
<1>1. thread[j] = here /\ jobs'[j] = jobs[j] /\ UNCHANGED ledger
  BY DEF Computes
<1>2. CASE Goes(j, there)
  <2>1. thread'[j] = there
    BY <1>2 DEF Goes, TypeOK, JobTypeOK
  <2>2. QED
    BY <1>1, <2>1, StageKeeps
<1>3. CASE Raises(j, "run")
  <2>1. thread'[j] = "publish_failed"
    BY <1>3 DEF Raises, TypeOK, JobTypeOK
  <2>2. QED
    BY <1>1, <2>1, GivingUpKeeps
<1>4. QED
  BY <1>2, <1>3 DEF Computes

(* A worker keeps its own chain, record after record.                       *)
LEMMA WorkKeepsChain ==
  ASSUME TypeOK, NEW j \in Job, Chain(j), ~TakeJob(j), Work(j) \/ Abort(j)
  PROVE  Chain(j)'
<1> USE DEF Working, BeforeRun, InRun, Finishing, Rated, Failing, Bootstrapped, Said, Row
<1>l. ledger \in LedgerType
  BY DEF TypeOK
<1>c. RowAgrees(j) /\ MessagesAgree(j) /\ OutcomeAgrees(j)
  BY DEF Chain
<1> SessionOf[j] \in Session
  BY LedgerAssumption
<1>1. CASE StartJob(j)
  <2>1. thread[j] = "start" /\ thread'[j] = "validate" /\ UNCHANGED ledger
    BY <1>1 DEF StartJob, Publish, TypeOK, JobTypeOK
  <2>2. jobs'[j].status = "running"
    BY <1>1 DEF StartJob, Publish, TypeOK, JobTypeOK
  <2>3. RowAgrees(j)' /\ MessagesAgree(j)'
    BY <1>c, <2>1 DEF RowAgrees, MessagesAgree
  <2>4. OutcomeAgrees(j)'
    BY <2>1, <2>2 DEF OutcomeAgrees
  <2>5. QED
    BY <2>3, <2>4 DEF Chain
<1>2. CASE PublishCompleted(j)
  <2>1. /\ thread[j] = "publish_completed" /\ thread'[j] = "returned"
        /\ UNCHANGED ledger /\ jobs'[j] = [status |-> "completed", error |-> "none"]
    BY <1>2 DEF PublishCompleted, Publish, TypeOK, JobTypeOK
  <2>2. CompletedRecord(j)'
    BY <1>c, <2>1 DEF RowAgrees, MessagesAgree, CompletedRecord, JobMessage
  <2>3. RowAgrees(j)' /\ MessagesAgree(j)'
    BY <2>1 DEF RowAgrees, MessagesAgree
  <2>4. OutcomeAgrees(j)'
    BY <2>1, <2>2 DEF OutcomeAgrees
  <2>5. QED
    BY <2>3, <2>4 DEF Chain
<1>3. CASE PublishFailed(j)
  <2>1. /\ thread[j] = "publish_failed" /\ thread'[j] = "returned"
        /\ UNCHANGED <<ledger, raised>>
        /\ jobs'[j] = [status |-> "failed", error |-> raised[j]]
    BY <1>3 DEF PublishFailed, Publish, TypeOK, JobTypeOK
  <2>2. jobs'[j].status = "failed" /\ jobs'[j].error = raised[j]
    BY <2>1
  <2>3. raised[j] = "run" => FailureRecord(j)'
    BY <1>c, <2>1 DEF RowAgrees, MessagesAgree, OutcomeAgrees, FailureRecord
  <2>4. RowAgrees(j)' /\ MessagesAgree(j)'
    BY <2>1 DEF RowAgrees, MessagesAgree
  <2>5. OutcomeAgrees(j)'
    BY <2>1, <2>2, <2>3 DEF OutcomeAgrees
  <2>6. QED
    BY <2>4, <2>5 DEF Chain
<1>4. CASE Validate(j)
  <2>1. ASSUME thread[j] = "validate", UNCHANGED ledger
        PROVE  /\ thread'[j] = "chat_session" => RowAgrees(j)' /\ MessagesAgree(j)'
               /\ FailureRecord(j)'
    BY <1>c, <2>1 DEF RowAgrees, MessagesAgree, FailureRecord
  <2>2. QED
    BY <1>4, <2>1, ComputesKeeps DEF Validate
<1>5. CASE Build(j)
  <2>1. ASSUME thread[j] = "build", UNCHANGED ledger
        PROVE  /\ thread'[j] = "run_started" => RowAgrees(j)' /\ MessagesAgree(j)'
               /\ FailureRecord(j)'
    BY <1>c, <2>1 DEF RowAgrees, MessagesAgree, FailureRecord
  <2>2. QED
    BY <1>5, <2>1, ComputesKeeps DEF Build
<1>6. CASE Answer(j)
  <2>1. ASSUME thread[j] = "answer", UNCHANGED ledger
        PROVE  /\ thread'[j] = "chat_output" => RowAgrees(j)' /\ MessagesAgree(j)'
               /\ FailureRecord(j)'
    BY <1>c, <2>1 DEF RowAgrees, MessagesAgree, FailureRecord
  <2>2. QED
    BY <1>6, <2>1, ComputesKeeps DEF Answer
<1>7. CASE RecordChatSession(j)
  <2> DEFINE l == RecordSession(ledger, SessionOf[j], NoPlan)
  <2>1. ASSUME thread[j] = "chat_session", thread'[j] = "chat_input", ledger' = l
        PROVE  RowAgrees(j)' /\ MessagesAgree(j)'
    BY <1>c, <1>l, <2>1, LedgerReads DEF RowAgrees, MessagesAgree
  <2>2. QED
    BY <1>7, <2>1, RecordsKeeps DEF RecordChatSession
<1>8. CASE RecordRunSession(j)
  <2> DEFINE l == RecordSession(ledger, SessionOf[j], NoPlan)
  <2>1. ASSUME thread[j] = "run_session", thread'[j] = "run_input", ledger' = l
        PROVE  RowAgrees(j)' /\ MessagesAgree(j)'
    BY <1>c, <1>l, <2>1, LedgerReads DEF RowAgrees, MessagesAgree
  <2>2. QED
    BY <1>8, <2>1, RecordsKeeps DEF RecordRunSession
<1>9. CASE RecordChatInput(j)
  <2> DEFINE l == RecordMessage(ledger, "chat_turn_input", j)
  <2>1. ASSUME thread[j] = "chat_input", thread'[j] = "run_session", ledger' = l
        PROVE  RowAgrees(j)' /\ MessagesAgree(j)'
    BY <1>c, <1>l, <2>1, LedgerReads DEF RowAgrees, MessagesAgree
  <2>2. QED
    BY <1>9, <2>1, RecordsKeeps DEF RecordChatInput, Says
<1>10. CASE RecordRunInput(j)
  <2> DEFINE l == RecordMessage(ledger, "runtime_bootstrap_input", j)
  <2>1. ASSUME thread[j] = "run_input", thread'[j] = "build", ledger' = l
        PROVE  RowAgrees(j)' /\ MessagesAgree(j)'
    BY <1>c, <1>l, <2>1, LedgerReads DEF RowAgrees, MessagesAgree
  <2>2. QED
    BY <1>10, <2>1, RecordsKeeps DEF RecordRunInput, Says
<1>11. CASE RecordRunStarted(j)
  <2> DEFINE l == RecordRun(ledger, j, "running")
  <2>1. ASSUME thread[j] = "run_started", thread'[j] = "explore", ledger' = l
        PROVE  RowAgrees(j)' /\ MessagesAgree(j)'
    BY <1>c, <1>l, <2>1, LedgerReads DEF RowAgrees, MessagesAgree
  <2>2. QED
    BY <1>11, <2>1, RecordsKeeps DEF RecordRunStarted
<1>12. CASE Explore(j)
  <2>1. /\ thread[j] = "explore" /\ thread'[j] \in {"run_completed", "run_failed"}
        /\ UNCHANGED <<ledger, jobs>>
    BY <1>12 DEF Explore, Goes, TypeOK, JobTypeOK
  <2>2. RowAgrees(j)' /\ MessagesAgree(j)'
    BY <1>c, <2>1 DEF RowAgrees, MessagesAgree
  <2>3. QED
    BY <2>1, <2>2, StageKeeps
<1>13. CASE Abort(j)
  <2>1. thread[j] = "explore" /\ thread'[j] = "aborted" /\ UNCHANGED <<ledger, jobs>>
    BY <1>13 DEF Abort, Goes, TypeOK, JobTypeOK
  <2>2. RowAgrees(j)' /\ MessagesAgree(j)'
    BY <2>1 DEF RowAgrees, MessagesAgree
  <2>3. OutcomeAgrees(j)'
    BY <1>c, <2>1 DEF OutcomeAgrees
  <2>4. QED
    BY <2>2, <2>3 DEF Chain
<1>14. CASE RecordRunCompleted(j)
  <2> DEFINE l == RecordRun(ledger, j, "completed")
  <2>1. ASSUME thread[j] = "run_completed", thread'[j] = "result_message", ledger' = l
        PROVE  RowAgrees(j)' /\ MessagesAgree(j)'
    BY <1>c, <1>l, <2>1, LedgerReads DEF RowAgrees, MessagesAgree
  <2>2. QED
    BY <1>14, <2>1, RecordsKeeps DEF RecordRunCompleted
<1>15. CASE RecordResult(j)
  <2> DEFINE l == RecordMessage(ledger, "runtime_result", j)
  <2>1. ASSUME thread[j] = "result_message", thread'[j] = "evaluation", ledger' = l
        PROVE  RowAgrees(j)' /\ MessagesAgree(j)'
    BY <1>c, <1>l, <2>1, LedgerReads DEF RowAgrees, MessagesAgree
  <2>2. QED
    BY <1>15, <2>1, RecordsKeeps DEF RecordResult, Says
<1>16. CASE Evaluate(j)
  <2>1. PICK label \in {"good", "unknown"} :
          Records(j, "evaluation", "answer", RecordEvaluation(ledger, j, label))
    BY <1>16 DEF Evaluate
  <2> DEFINE l == RecordEvaluation(ledger, j, label)
  <2>2. ASSUME thread[j] = "evaluation", thread'[j] = "answer", ledger' = l
        PROVE  RowAgrees(j)' /\ MessagesAgree(j)'
    <3>1. ledger'.runs[j] = Row("completed", label) /\ ledger'.messages = ledger.messages
      BY <1>c, <1>l, <2>2, LedgerReads DEF RowAgrees
    <3>2. QED
      BY <1>c, <2>2, <3>1 DEF RowAgrees, MessagesAgree
  <2>3. QED
    BY <2>1, <2>2, RecordsKeeps
<1>17. CASE RecordChatOutput(j)
  <2> DEFINE l == RecordMessage(ledger, "chat_turn_output", j)
  <2>1. ASSUME thread[j] = "chat_output", thread'[j] = "publish_completed", ledger' = l
        PROVE  RowAgrees(j)' /\ MessagesAgree(j)'
    BY <1>c, <1>l, <2>1, LedgerReads DEF RowAgrees, MessagesAgree
  <2>2. QED
    BY <1>17, <2>1, RecordsKeeps DEF RecordChatOutput, Says
<1>18. CASE RecordRunFailed(j)
  <2> DEFINE l == RecordRun(ledger, j, "failed")
  <2>1. ASSUME thread[j] = "run_failed", thread'[j] = "failure_message", ledger' = l
        PROVE  RowAgrees(j)' /\ MessagesAgree(j)'
    BY <1>c, <1>l, <2>1, LedgerReads DEF RowAgrees, MessagesAgree
  <2>2. QED
    BY <1>18, <2>1, RecordsKeeps DEF RecordRunFailed
<1>19. CASE RecordFailure(j)
  <2> DEFINE l == RecordMessage(ledger, "runtime_failure", j)
  <2>1. ASSUME thread[j] = "failure_message", thread'[j] = "failure_evaluation", ledger' = l
        PROVE  RowAgrees(j)' /\ MessagesAgree(j)'
    BY <1>c, <1>l, <2>1, LedgerReads DEF RowAgrees, MessagesAgree
  <2>2. QED
    BY <1>19, <2>1, RecordsKeeps DEF RecordFailure, Says
<1>20. CASE EvaluateFailure(j)
  <2> DEFINE l == RecordEvaluation(ledger, j, "failed")
  <2>1. /\ thread[j] = "failure_evaluation" /\ jobs'[j] = jobs[j]
        /\ thread'[j] = "publish_failed"
        /\ raised'[j] = "ledger" \/ ledger' = l
    BY <1>20 DEF EvaluateFailure, Records, Goes, Raises, TypeOK, JobTypeOK
  <2>2. ledger' = l => FailureRecord(j)'
    <3> SUFFICES ASSUME ledger' = l PROVE FailureRecord(j)'
      OBVIOUS
    <3>1. l.runs[j] = Row("failed", "failed") /\ l.messages = ledger.messages
      BY <1>c, <1>l, <2>1, LedgerReads DEF RowAgrees, MessagesAgree
    <3>2. QED
      BY <1>c, <2>1, <3>1 DEF RowAgrees, MessagesAgree, FailureRecord
  <2>3. QED
    BY <2>1, <2>2, GivingUpKeeps
<1>21. QED
  BY <1>1, <1>2, <1>3, <1>4, <1>5, <1>6, <1>7, <1>8, <1>9, <1>10, <1>11, <1>12,
     <1>13, <1>14, <1>15, <1>16, <1>17, <1>18, <1>19, <1>20
  DEF Work

-------------------------------------------------------------------------------
(***************************************************************************)
(* The pool and its line.                                                  *)
(***************************************************************************)

(* The jobs that wait are those in the queue, each of them once.            *)
InLine ==
  /\ \A i \in 1..Len(queue) : thread[queue[i]] = "queued"
  /\ \A i, k \in 1..Len(queue) : queue[i] = queue[k] => i = k
  /\ \A j \in Job : thread[j] = "queued" => \E i \in 1..Len(queue) : queue[i] = j

PoolSize == IsFiniteSet(Active) /\ Cardinality(Active) <= Workers

(* No other step of a job touches the line, or makes a thread active.       *)
LEMMA OnlyTwoMoveTheLine ==
  ASSUME TypeOK, NEW j \in Job, RunStep(j), ~CreateJob(j), ~TakeJob(j)
  PROVE  /\ UNCHANGED queue
         /\ \A k \in Job : thread'[k] = "queued" <=> thread[k] = "queued"
         /\ \A k \in Job : thread'[k] \in Working => thread[k] \in Working
<1> USE DEF TypeOK, JobTypeOK, Working, Done
<1>1. CASE Launch(j) \/ Poll(j)
  BY <1>1 DEF Launch, Poll, TakeSnapshot, JudgeSnapshot
<1>2. CASE Abort(j) \/ Explore(j)
  BY <1>2 DEF Abort, Explore, Goes
<1>3. CASE Validate(j) \/ Build(j) \/ Answer(j)
  BY <1>3 DEF Validate, Build, Answer, Computes, Goes, Raises
<1>4. CASE StartJob(j) \/ PublishCompleted(j) \/ PublishFailed(j)
  BY <1>4 DEF StartJob, PublishCompleted, PublishFailed, Publish
<1>5. ASSUME NEW here \in Working, NEW there \in Working, NEW l, Records(j, here, there, l)
      PROVE  /\ UNCHANGED queue
             /\ \A k \in Job : thread'[k] = "queued" <=> thread[k] = "queued"
             /\ \A k \in Job : thread'[k] \in Working => thread[k] \in Working
  BY <1>5 DEF Records, Goes, Raises
<1>6. CASE \/ RecordChatSession(j) \/ RecordRunSession(j) \/ RecordChatInput(j)
           \/ RecordRunInput(j) \/ RecordRunStarted(j) \/ RecordRunCompleted(j)
  BY <1>6, <1>5
     DEF RecordChatSession, RecordRunSession, RecordChatInput, RecordRunInput,
         RecordRunStarted, RecordRunCompleted, Says
<1>7. CASE \/ RecordResult(j) \/ Evaluate(j) \/ RecordChatOutput(j)
           \/ RecordRunFailed(j) \/ RecordFailure(j) \/ EvaluateFailure(j)
  BY <1>7, <1>5
     DEF RecordResult, Evaluate, RecordChatOutput, RecordRunFailed, RecordFailure,
         EvaluateFailure, Says
<1>8. QED
  BY <1>1, <1>2, <1>3, <1>4, <1>6, <1>7 DEF RunStep, Work

LEMMA LineKept ==
  ASSUME TypeOK, InLine, NEW j \in Job, RunStep(j)
  PROVE  InLine'
<1>q. queue \in Seq(Job) /\ thread \in [Job -> Asleep \cup Working]
  BY DEF TypeOK, JobTypeOK
<1>1. CASE CreateJob(j)
  <2>1. thread[j] = "idle" /\ queue' = Append(queue, j)
        /\ thread' = [thread EXCEPT ![j] = "queued"]
    BY <1>1 DEF CreateJob
  <2>2. Len(queue') = Len(queue) + 1 /\ queue'[Len(queue) + 1] = j
        /\ \A i \in 1..Len(queue) : queue'[i] = queue[i] /\ queue[i] # j
        /\ Len(queue) \in Nat
    BY <1>q, <2>1 DEF InLine
  <2>3. \A i \in 1..Len(queue') : i \in 1..Len(queue) \/ i = Len(queue) + 1
    BY <2>2
  <2>4. \A i \in 1..Len(queue') : thread'[queue'[i]] = "queued"
    BY <1>q, <2>1, <2>2, <2>3 DEF InLine
  <2>5. \A i, k \in 1..Len(queue') : queue'[i] = queue'[k] => i = k
    BY <2>2, <2>3 DEF InLine
  <2>6. \A k \in Job : thread'[k] = "queued" => \E i \in 1..Len(queue') : queue'[i] = k
    <3> SUFFICES ASSUME NEW k \in Job, thread'[k] = "queued"
                 PROVE  \E i \in 1..Len(queue') : queue'[i] = k
      OBVIOUS
    <3>1. CASE k = j
      <4>1. Len(queue) + 1 \in 1..Len(queue')
        BY <2>2
      <4>2. QED
        BY <2>2, <3>1, <4>1
    <3>2. CASE k # j
      <4>1. thread[k] = "queued"
        BY <1>q, <2>1, <3>2
      <4>2. PICK i \in 1..Len(queue) : queue[i] = k
        BY <4>1 DEF InLine
      <4>3. i \in 1..Len(queue') /\ queue'[i] = k
        BY <2>2, <4>2
      <4>4. QED
        BY <4>3
    <3>3. QED
      BY <3>1, <3>2
  <2>7. QED
    BY <2>4, <2>5, <2>6 DEF InLine
<1>2. CASE TakeJob(j)
  <2>1. queue # <<>> /\ j = Head(queue) /\ queue' = Tail(queue)
        /\ thread' = [thread EXCEPT ![j] = "start"]
    BY <1>2 DEF TakeJob
  <2>2. Len(queue) \in Nat /\ Len(queue) > 0 /\ Len(queue') = Len(queue) - 1
        /\ queue[1] = j /\ \A i \in 1..Len(queue') : queue'[i] = queue[i + 1]
    BY <1>q, <2>1
  <2>3. \A i \in 1..Len(queue') : i + 1 \in 1..Len(queue) /\ queue[i + 1] # j
    BY <2>2 DEF InLine
  <2>4. \A i \in 1..Len(queue') : thread'[queue'[i]] = "queued"
    BY <1>q, <2>1, <2>2, <2>3 DEF InLine
  <2>5. \A i, k \in 1..Len(queue') : queue'[i] = queue'[k] => i = k
    BY <2>2, <2>3 DEF InLine
  <2>6. \A k \in Job : thread'[k] = "queued" => \E i \in 1..Len(queue') : queue'[i] = k
    <3> SUFFICES ASSUME NEW k \in Job, thread'[k] = "queued"
                 PROVE  \E i \in 1..Len(queue') : queue'[i] = k
      OBVIOUS
    <3>1. k # j /\ thread[k] = "queued"
      BY <1>q, <2>1
    <3>2. PICK i \in 1..Len(queue) : queue[i] = k
      BY <3>1 DEF InLine
    <3>3. i # 1
      BY <2>2, <3>1, <3>2
    <3>4. i - 1 \in 1..Len(queue') /\ queue'[i - 1] = k
      BY <2>2, <3>2, <3>3
    <3>5. QED
      BY <3>4
  <2>7. QED
    BY <2>4, <2>5, <2>6 DEF InLine
<1>3. CASE ~CreateJob(j) /\ ~TakeJob(j)
  <2>1. UNCHANGED queue /\ \A k \in Job : thread'[k] = "queued" <=> thread[k] = "queued"
    BY <1>3, OnlyTwoMoveTheLine
  <2>2. \A i \in 1..Len(queue) : queue[i] \in Job
    BY <1>q
  <2>3. QED
    BY <2>1, <2>2 DEF InLine
<1>4. QED
  BY <1>1, <1>2, <1>3

LEMMA PoolKept ==
  ASSUME TypeOK, PoolSize, NEW j \in Job, RunStep(j)
  PROVE  PoolSize'
<1>t. thread \in [Job -> Asleep \cup Working]
  BY DEF TypeOK, JobTypeOK
<1>w. Workers \in Nat /\ Cardinality(Active) \in Nat
  BY WorkersAssumption, FS_CardinalityType DEF PoolSize
<1>1. ASSUME Active' \subseteq Active PROVE PoolSize'
  BY <1>1, <1>w, FS_Subset, FS_CardinalityType DEF PoolSize
<1>2. CASE TakeJob(j)
  <2>1. Active' = Active \cup {j}
    BY <1>2, <1>t DEF TakeJob, Active, Working
  <2>2. Cardinality(Active) < Workers
    BY <1>2 DEF TakeJob, HasFreeThread
  <2>3. IsFiniteSet(Active') /\ Cardinality(Active') <= Cardinality(Active) + 1
    BY <1>w, <2>1, FS_AddElement DEF PoolSize
  <2>4. Cardinality(Active') \in Nat
    BY <2>3, FS_CardinalityType
  <2>5. QED
    BY <1>w, <2>2, <2>3, <2>4 DEF PoolSize
<1>3. CASE CreateJob(j)
  <2>1. Active' \subseteq Active
    BY <1>3, <1>t DEF CreateJob, Active, Working
  <2>2. QED
    BY <2>1, <1>1
<1>4. CASE ~CreateJob(j) /\ ~TakeJob(j)
  <2>1. Active' \subseteq Active
    BY <1>4, OnlyTwoMoveTheLine DEF Active
  <2>2. QED
    BY <2>1, <1>1
<1>5. QED
  BY <1>2, <1>3, <1>4

-------------------------------------------------------------------------------
(***************************************************************************)
(* The inductive invariant.                                                *)
(***************************************************************************)
IInv == TypeInv /\ InLine /\ PoolSize /\ \A j \in Job : Chain(j)

LEMMA RunStepKeepsChain ==
  ASSUME TypeOK, InLine, NEW j \in Job, Chain(j), RunStep(j)
  PROVE  Chain(j)'
<1>c. RowAgrees(j) /\ MessagesAgree(j) /\ OutcomeAgrees(j)
  BY DEF Chain
<1> USE DEF BeforeRun, InRun, Finishing, Rated, Failing, Bootstrapped
<1>1. CASE Launch(j)
  <2>1. /\ thread[j] = "idle" /\ thread'[j] = "queued" /\ UNCHANGED ledger
        /\ jobs'[j].status = "queued"
    BY <1>1 DEF Launch, CreateJob, TypeOK, JobTypeOK
  <2>2. RowAgrees(j)' /\ MessagesAgree(j)'
    BY <1>c, <2>1 DEF RowAgrees, MessagesAgree
  <2>3. OutcomeAgrees(j)'
    BY <2>1 DEF OutcomeAgrees
  <2>4. QED
    BY <2>2, <2>3 DEF Chain
<1>2. CASE TakeJob(j)
  <2>1. thread[j] = "queued"
    BY <1>2 DEF TakeJob, InLine, TypeOK, JobTypeOK
  <2>2. thread'[j] = "start" /\ UNCHANGED <<ledger, jobs>>
    BY <1>2 DEF TakeJob, TypeOK, JobTypeOK
  <2>3. RowAgrees(j)' /\ MessagesAgree(j)'
    BY <1>c, <2>1, <2>2 DEF RowAgrees, MessagesAgree
  <2>4. OutcomeAgrees(j)'
    BY <1>c, <2>1, <2>2 DEF OutcomeAgrees
  <2>5. QED
    BY <2>3, <2>4 DEF Chain
<1>3. CASE TakeSnapshot(j)
  BY <1>3, UntouchedKeeps DEF TakeSnapshot, Untouched
<1>4. CASE JudgeSnapshot(j)
  <2>1. CASE thread[j] \in Done
    <3>1. /\ UNCHANGED <<ledger, thread, raised>>
          /\ jobs'[j] = [status |-> "failed", error |-> "aborted"]
      BY <1>4, <2>1 DEF JudgeSnapshot, Judged, TypeOK, JobTypeOK
    <3>2. jobs'[j].status = "failed" /\ jobs'[j].error = "aborted"
      BY <3>1
    <3>3. RowAgrees(j)' /\ MessagesAgree(j)'
      BY <2>1, <3>1 DEF Done, RowAgrees, MessagesAgree
    <3>4. OutcomeAgrees(j)'
      BY <2>1, <3>1, <3>2 DEF Done, OutcomeAgrees
    <3>5. QED
      BY <3>3, <3>4 DEF Chain
  <2>2. CASE thread[j] \notin Done
    BY <1>4, <2>2, UntouchedKeeps DEF JudgeSnapshot, Judged, Untouched
  <2>3. QED
    BY <2>1, <2>2
<1>5. CASE ~TakeJob(j) /\ (Work(j) \/ Abort(j))
  BY <1>5, WorkKeepsChain
<1>6. QED
  BY <1>1, <1>2, <1>3, <1>4, <1>5 DEF RunStep, Poll

(* A request of a planning session writes only what no job looks at.        *)
LEMMA PlanStepsLeaveJobs ==
  ASSUME TypeOK, UNCHANGED jobVars,
         \/ \E t \in Turn : TakeTurn(t)
         \/ \E s \in Session : OpenSession(s)
  PROVE  /\ \A j \in Job : Untouched(j)
         /\ ledger'.runs = ledger.runs
<1> USE DEF jobVars, Untouched
<1>l. ledger \in LedgerType
  BY DEF TypeOK
<1>1. ASSUME NEW t \in Turn, TakeTurn(t)
      PROVE  ledger'.runs = ledger.runs /\ ledger.messages \subseteq ledger'.messages
  <2>1. CASE ReadConversation(t) \/ Converse(t) \/ UpdatePlan(t) \/ FailTurn(t)
    BY <2>1 DEF ReadConversation, Converse, UpdatePlan, Commit, FailTurn
  <2>2. CASE SaveSession(t) \/ SaveUpdate(t)
    BY <2>2, <1>l, LedgerReads DEF SaveSession, SaveUpdate, Saves
  <2>3. CASE SaveUser(t) \/ SaveReply(t)
    BY <2>3, <1>l, LedgerReads DEF SaveUser, SaveReply, Saves
  <2>4. QED
    BY <1>1, <2>1, <2>2, <2>3 DEF TakeTurn
<1>2. ASSUME NEW s \in Session, OpenSession(s) PROVE UNCHANGED ledger
  BY <1>2 DEF OpenSession, ReadRow, ReadMessages, Hydrate, LookForPlan, CreatePlan
<1>3. QED
  BY <1>1, <1>2

LEMMA InitIInv == Init => IInv
<1> SUFFICES ASSUME Init PROVE IInv
  OBVIOUS
<1>1. InLine
  BY DEF Init, JobInit, InLine
<1>2. PoolSize
  <2>1. Active = {}
    BY DEF Init, JobInit, Active, Working
  <2>2. QED
    BY <2>1, FS_EmptySet, WorkersAssumption DEF PoolSize
<1>3. ASSUME NEW j \in Job PROVE Chain(j)
  BY DEF Init, JobInit, EmptyLedger, NoJob, Row, Chain, RowAgrees, MessagesAgree,
         OutcomeAgrees, BeforeRun, InRun, Finishing, Rated, Failing, Bootstrapped
<1>4. QED
  BY <1>1, <1>2, <1>3, InitType DEF IInv

LEMMA NextIInv == IInv /\ [Next]_vars => IInv'
<1> SUFFICES ASSUME IInv, [Next]_vars PROVE IInv'
  OBVIOUS
<1> TypeInv /\ TypeOK /\ InLine /\ PoolSize /\ \A j \in Job : Chain(j)
  BY DEF IInv, TypeInv
<1>t. TypeInv'
  BY NextType
<1>1. ASSUME NEW j \in Job, RunStep(j), UNCHANGED <<planVars, restarts>>
      PROVE  IInv'
  <2>1. \A k \in Job : Chain(k)'
    BY <1>1, RunStepKeepsChain, OthersUntouched, UntouchedKeeps
  <2>2. QED
    BY <1>1, <1>t, <2>1, LineKept, PoolKept DEF IInv
<1>2. ASSUME \A k \in Job : Untouched(k), UNCHANGED <<queue, thread>> PROVE IInv'
  <2>1. \A k \in Job : Chain(k)'
    BY <1>2, UntouchedKeeps
  <2>2. InLine' /\ PoolSize'
    BY <1>2 DEF InLine, PoolSize, Active
  <2>3. QED
    BY <1>t, <2>1, <2>2 DEF IInv
<1>3. ASSUME NEW t \in Turn, TakeTurn(t), UNCHANGED <<jobVars, restarts>> PROVE IInv'
  BY <1>2, <1>3, PlanStepsLeaveJobs DEF jobVars
<1>4. ASSUME NEW s \in Session, OpenSession(s), UNCHANGED <<jobVars, restarts>>
      PROVE  IInv'
  BY <1>2, <1>4, PlanStepsLeaveJobs DEF jobVars
<1>5. CASE Restart
  <2>1. /\ UNCHANGED ledger /\ queue' = <<>>
        /\ \A j \in Job : /\ thread'[j] = IF thread[j] = "idle" THEN "idle" ELSE "killed"
                          /\ jobs'[j] = NoJob /\ raised'[j] = "none"
    BY <1>5 DEF Restart, KillJobs
  <2>2. InLine'
    BY <2>1 DEF InLine
  <2>3. Active' = {}
    BY <2>1 DEF Active, Working
  <2>4. PoolSize'
    BY <2>3, FS_EmptySet, WorkersAssumption DEF PoolSize
  <2>5. ASSUME NEW j \in Job PROVE Chain(j)'
    <3>1. RowAgrees(j)' /\ MessagesAgree(j)'
      BY <2>1 DEF Chain, RowAgrees, MessagesAgree, BeforeRun, InRun, Finishing,
                  Rated, Failing, Bootstrapped
    <3>2. OutcomeAgrees(j)'
      BY <2>1 DEF OutcomeAgrees, NoJob
    <3>3. QED
      BY <3>1, <3>2 DEF Chain
  <2>6. QED
    BY <1>t, <2>2, <2>4, <2>5 DEF IInv
<1>6. CASE UNCHANGED vars
  BY <1>2, <1>6 DEF vars, Untouched
<1>7. QED
  BY <1>1, <1>3, <1>4, <1>5, <1>6 DEF Next

(* Every record of a completed job is in the ledger, whatever fails.        *)
THEOREM CompletedJobsRecorded == Spec => []CompletedIsRecorded
<1>1. IInv => CompletedIsRecorded
  BY DEF IInv, Chain, OutcomeAgrees, CompletedIsRecorded
<1>2. QED
  BY InitIInv, NextIInv, <1>1, PTL DEF Spec

(* A run that fails is closed and rated, and the ledger says so.            *)
THEOREM FailedJobsRecorded == Spec => []FailureIsRecorded
<1>1. IInv => FailureIsRecorded
  BY DEF IInv, Chain, OutcomeAgrees, FailureIsRecorded
<1>2. QED
  BY InitIInv, NextIInv, <1>1, PTL DEF Spec

(* The pool never runs more jobs than it has threads, and the line holds    *)
(* each waiting job once.                                                   *)
THEOREM PoolIsBounded == Spec => []PoolBounded
<1>1. IInv => PoolBounded
  <2>1. ASSUME IInv PROVE DOMAIN queue = 1..Len(queue)
    BY <2>1 DEF IInv, TypeInv, TypeOK, JobTypeOK
  <2>2. QED
    BY <2>1 DEF IInv, InLine, PoolSize, PoolBounded
<1>2. QED
  BY InitIInv, NextIInv, <1>1, PTL DEF Spec

-------------------------------------------------------------------------------
(***************************************************************************)
(* Runs close once.                                                        *)
(***************************************************************************)
LEMMA StepClosesOnce ==
  ASSUME TypeOK, NEW j \in Job, Chain(j), RunStep(j),
         ledger.runs[j].status \in Closed
  PROVE  ledger'.runs[j].status = ledger.runs[j].status
<1> USE DEF Closed, Row, BeforeRun, InRun
<1>l. ledger \in LedgerType /\ thread[j] \notin BeforeRun \cup InRun
  BY DEF TypeOK, Chain, RowAgrees
<1>1. CASE Launch(j) \/ Poll(j) \/ Abort(j) \/ TakeJob(j)
  BY <1>1 DEF Launch, CreateJob, Poll, TakeSnapshot, JudgeSnapshot, Abort, TakeJob
<1>2. CASE Explore(j) \/ Validate(j) \/ Build(j) \/ Answer(j)
  BY <1>2 DEF Explore, Validate, Build, Answer, Computes
<1>3. CASE StartJob(j) \/ PublishCompleted(j) \/ PublishFailed(j)
  BY <1>3 DEF StartJob, PublishCompleted, PublishFailed, Publish
<1>4. ASSUME NEW here, NEW there, NEW l, Records(j, here, there, l),
             l.runs[j].status = ledger.runs[j].status
      PROVE  ledger'.runs[j].status = ledger.runs[j].status
  BY <1>4 DEF Records
<1>5. CASE \/ RecordChatSession(j) \/ RecordRunSession(j) \/ RecordChatInput(j)
           \/ RecordRunInput(j) \/ RecordResult(j) \/ RecordChatOutput(j)
           \/ RecordFailure(j)
  BY <1>5, <1>4, <1>l, LedgerReads
     DEF RecordChatSession, RecordRunSession, RecordChatInput, RecordRunInput,
         RecordResult, RecordChatOutput, RecordFailure, Says
<1>6. CASE RecordRunStarted(j) \/ RecordRunCompleted(j) \/ RecordRunFailed(j)
  BY <1>6, <1>l DEF RecordRunStarted, RecordRunCompleted, RecordRunFailed, Records
<1>7. CASE Evaluate(j) \/ EvaluateFailure(j)
  <2>1. ASSUME NEW lb PROVE RecordEvaluation(ledger, j, lb).runs[j].status
                              = ledger.runs[j].status
    <3>1. RecordEvaluation(ledger, j, lb).runs[j]
            = [ status |-> IF ledger.runs[j].status = "absent"
                             THEN "running" ELSE ledger.runs[j].status,
                label  |-> lb ]
      BY <1>l, LedgerReads
    <3>2. ledger.runs[j].status # "absent"
      OBVIOUS
    <3>3. QED
      BY <3>1, <3>2
  <2>2. QED
    BY <1>7, <1>4, <2>1 DEF Evaluate, EvaluateFailure
<1>8. QED
  BY <1>1, <1>2, <1>3, <1>5, <1>6, <1>7 DEF RunStep, Work

(* No event opens a run that has ended, or turns its status into another.   *)
THEOREM RunsCloseOnce == Spec => RunClosesOnce
<1>1. IInv /\ [Next]_vars =>
        [\A j \in Job : ledger.runs[j].status \in Closed =>
           ledger'.runs[j].status = ledger.runs[j].status]_vars
  <2> SUFFICES ASSUME IInv, [Next]_vars, NEW j \in Job,
                      ledger.runs[j].status \in Closed
               PROVE  ledger'.runs[j].status = ledger.runs[j].status
    OBVIOUS
  <2> TypeOK /\ \A k \in Job : Chain(k)
    BY DEF IInv, TypeInv
  <2>1. ASSUME NEW k \in Job, RunStep(k)
        PROVE  ledger'.runs[j].status = ledger.runs[j].status
    BY <2>1, StepClosesOnce, OthersUntouched DEF Untouched
  <2>2. CASE /\ UNCHANGED jobVars
             /\ (\E t \in Turn : TakeTurn(t)) \/ (\E s \in Session : OpenSession(s))
    BY <2>2, PlanStepsLeaveJobs
  <2>3. CASE Restart \/ UNCHANGED vars
    BY <2>3 DEF Restart, vars
  <2>4. QED
    BY <2>1, <2>2, <2>3 DEF Next
<1>2. QED
  BY InitIInv, NextIInv, <1>1, PTL DEF Spec, RunClosesOnce

===============================================================================
