-------------------------------- MODULE Ledger --------------------------------
(***************************************************************************)
(* The SQLite ledger as the services use it: the rows of sessions, of      *)
(* messages and of runs that somebody reads back, and the operations of    *)
(* SqliteLedgerWriter that write them.  Each operation of the writer ends  *)
(* in one commit, so each is one step of the modules that use it.  Ids are *)
(* uuids: a run, a job or a turn is used once and belongs to one session.  *)
(***************************************************************************)
EXTENDS FiniteSets

CONSTANTS
  Session,       \* session ids
  Job,           \* jobs; a job starts one run, and the run has its name
  Turn,          \* planning turns: one message of the user and its answer
  SessionOf,     \* the session each job and each turn belongs to
  NoTurn,        \* the plan was made from the profile, by no turn
  NoPlan,        \* no research_plan stored
  NoSession,     \* no row for this session
  LedgerMayFail  \* a write may raise: the database is locked, the disk is full

ASSUME LedgerAssumption ==
  /\ SessionOf \in [Job \cup Turn -> Session]
  /\ NoTurn \notin Turn
  /\ LedgerMayFail \in BOOLEAN

VARIABLE ledger

(***************************************************************************)
(* A plan is known by the turn that set its goal and by whether it has a   *)
(* structure (goal trace, conditions, proposal) that makes it launchable.  *)
(***************************************************************************)
Plan == [by : Turn \cup {NoTurn}, structured : BOOLEAN]
ProfilePlan == [by |-> NoTurn, structured |-> FALSE]

ASSUME NoPlanAssumption == NoPlan \notin Plan /\ NoSession \notin Plan

RunStatus == {"absent", "running", "completed", "failed"}
Label == {"none", "good", "unknown", "failed"}

(* What is said in a session; research_plan_update is kept apart, below.    *)
JobMessage ==
  {"chat_turn_input", "runtime_bootstrap_input", "runtime_result",
   "runtime_failure", "chat_turn_output"}
TurnMessage == {"planning_user_turn", "planning_assistant_turn"}

(***************************************************************************)
(* context  : sessions.context_json, as far as it holds a plan             *)
(* update   : the plan of the newest message "research_plan_update"        *)
(* messages : the other messages                                           *)
(* runs     : runs.status and runs.quality_label                           *)
(***************************************************************************)
LedgerType ==
  [ context  : [Session -> Plan \cup {NoPlan, NoSession}],
    update   : [Session -> Plan \cup {NoPlan}],
    messages : SUBSET ((JobMessage \X Job) \cup (TurnMessage \X Turn)),
    runs     : [Job -> [status : RunStatus, label : Label]] ]

EmptyLedger ==
  [ context  |-> [s \in Session |-> NoSession],
    update   |-> [s \in Session |-> NoPlan],
    messages |-> {},
    runs     |-> [j \in Job |-> [status |-> "absent", label |-> "none"]] ]

(* record_session: an upsert that replaces the whole context of the row.    *)
RecordSession(l, s, context) == [l EXCEPT !.context[s] = context]

(* record_message, for a message of a job or a turn and for a plan update.  *)
RecordMessage(l, kind, id) == [l EXCEPT !.messages = @ \cup {<<kind, id>>}]
RecordPlanUpdate(l, s, plan) == [l EXCEPT !.update[s] = plan]

(* record_run_started, _completed, _failed: the row is made if it is not    *)
(* there, and its status follows the event.                                 *)
RecordRun(l, j, status) == [l EXCEPT !.runs[j].status = status]

(* record_evaluation: makes the row if it is not there, with the default    *)
(* status of the table.                                                     *)
RecordEvaluation_Reopens(l, j, label) ==  \* mutant: the row is written anew
  [l EXCEPT !.runs[j] = [status |-> "running", label |-> label]]
RecordEvaluation(l, j, label) ==
  [l EXCEPT !.runs[j] =
     [ status |-> IF @.status = "absent" THEN "running" ELSE @.status,
       label  |-> label ]]

(* The plan that loading a session finds: the one in its context, or else   *)
(* the one of the newest update.                                            *)
PlanIn_ContextOnly(context, update) == context  \* mutant
PlanIn(context, update) == IF context \in Plan THEN context ELSE update
Loadable(l, s) == PlanIn(l.context[s], l.update[s])

(* The turns whose user message is in the ledger.                           *)
Spoken(l, s) ==
  {t \in Turn : SessionOf[t] = s /\ <<"planning_user_turn", t>> \in l.messages}
===============================================================================
