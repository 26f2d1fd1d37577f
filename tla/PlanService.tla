----------------------------- MODULE PlanService ------------------------------
(***************************************************************************)
(* Planning sessions: interfaces/http/planning_service.py, which keeps the *)
(* conversations in memory, the routes of api.py that use it, and          *)
(* record_plan_state and record_plan_turn_messages of services.py.  The    *)
(* server is threaded: requests interleave at every lock and every commit. *)
(* The language model is external; it answers, or the turn raises.         *)
(***************************************************************************)
EXTENDS Ledger

CONSTANT
  OneTab  \* a session is open in one tab, which sends one request at a time

ASSUME OneTabAssumption == OneTab \in BOOLEAN

VARIABLES
  plans,    \* _sessions: the conversation of each session, in memory
  turns,    \* where the request of each turn is
  working,  \* the copy of the conversation a turn works on
  loads,    \* the request that loads a session: where it is, what it read
  opened,   \* sessions that GET /plan found missing and is about to create
  screen    \* the plan the client shows for a session

planVars == <<plans, turns, working, loads, opened, screen>>

(* A conversation: its plan and the turns whose message it has heard.       *)
State == [plan : Plan, heard : SUBSET Turn]
NoState == [plan |-> NoPlan, heard |-> {}]
FreshState == [plan |-> ProfilePlan, heard |-> {}]

InFlight ==
  {"thinking", "save_session", "save_update", "save_user", "save_reply"}
TurnStage == {"idle", "answered", "failed", "killed"} \cup InFlight

Load == [at : {"idle", "row", "messages"}, plan : Plan \cup {NoPlan},
         heard : SUBSET Turn]
NoLoad == [at |-> "idle", plan |-> NoPlan, heard |-> {}]

PlanTypeOK ==
  /\ plans \in [Session -> State \cup {NoState}]
  /\ turns \in [Turn -> TurnStage]
  /\ working \in [Turn -> State \cup {NoState}]
  /\ loads \in [Session -> Load]
  /\ opened \subseteq Session
  /\ screen \in [Session -> Plan \cup {NoPlan}]

PlanInit ==
  /\ plans = [s \in Session |-> NoState]
  /\ turns = [t \in Turn |-> "idle"]
  /\ working = [t \in Turn |-> NoState]
  /\ loads = [s \in Session |-> NoLoad]
  /\ opened = {}
  /\ screen = [s \in Session |-> NoPlan]

(* state.busy of the tab that shows the session.  A job sets it as well, but *)
(* a poll that fails, or a new conversation, clears it while the job runs.   *)
Busy(s) ==
  \/ \E t \in Turn : SessionOf[t] = s /\ turns[t] \in InFlight
  \/ loads[s].at # "idle"

MaySend(s) == OneTab => ~Busy(s)

-------------------------------------------------------------------------------
(***************************************************************************)
(* A turn: POST /plan/turn.                                                *)
(***************************************************************************)

(* process_plan_turn, step 1: the conversation is copied under the lock.    *)
ReadConversation(t) ==
  LET current == plans[SessionOf[t]] IN
  /\ turns[t] = "idle"
  /\ MaySend(SessionOf[t])
  /\ turns' = [turns EXCEPT ![t] = "thinking"]
  /\ working' = [working EXCEPT ![t] =
                   IF current = NoState THEN FreshState ELSE current]
  /\ UNCHANGED <<ledger, plans, loads, opened, screen>>

(* The model is asked without the lock; then the copy, with the new         *)
(* messages, replaces the conversation.                                     *)
Commit(t, plan) ==
  LET state == [plan |-> plan, heard |-> working[t].heard \cup {t}] IN
  /\ turns[t] = "thinking"
  /\ turns' = [turns EXCEPT ![t] = "save_session"]
  /\ working' = [working EXCEPT ![t] = state]
  /\ plans' = [plans EXCEPT ![SessionOf[t]] = state]
  /\ UNCHANGED <<ledger, loads, opened, screen>>

(* A turn without a goal to research leaves goal and structure as they are. *)
Converse(t) == Commit(t, working[t].plan)

(* A turn with one sets the goal, and takes its structure from the goal     *)
(* planner; a planner that fails leaves none.                               *)
UpdatePlan(t) ==
  \E structured \in BOOLEAN : Commit(t, [by |-> t, structured |-> structured])

(* The model fails, or answers nothing: the request ends with an error.     *)
FailTurn(t) ==
  /\ turns[t] = "thinking"
  /\ turns' = [turns EXCEPT ![t] = "failed"]
  /\ UNCHANGED <<ledger, plans, working, loads, opened, screen>>

(* One write of the request; if it raises, the request ends with an error.  *)
Saves(t, here, there, l) ==
  /\ turns[t] = here
  /\ \/ turns' = [turns EXCEPT ![t] = there] /\ ledger' = l
     \/ /\ LedgerMayFail
        /\ turns' = [turns EXCEPT ![t] = "failed"]
        /\ UNCHANGED ledger
  /\ UNCHANGED <<plans, working, loads, opened>>

(* record_plan_state *)
SaveSession(t) ==
  /\ Saves(t, "save_session", "save_update",
           RecordSession(ledger, SessionOf[t], working[t].plan))
  /\ UNCHANGED screen
SaveUpdate(t) ==
  /\ Saves(t, "save_update", "save_user",
           RecordPlanUpdate(ledger, SessionOf[t], working[t].plan))
  /\ UNCHANGED screen

(* record_plan_turn_messages; the answer to the client follows.             *)
SaveUser(t) ==
  /\ Saves(t, "save_user", "save_reply",
           RecordMessage(ledger, "planning_user_turn", t))
  /\ UNCHANGED screen
SaveReply(t) ==
  /\ Saves(t, "save_reply", "answered",
           RecordMessage(ledger, "planning_assistant_turn", t))
  /\ screen' = [screen EXCEPT ![SessionOf[t]] =
                  IF turns'[t] = "answered" THEN working[t].plan ELSE @]

TakeTurn(t) ==
  \/ ReadConversation(t)
  \/ Converse(t)
  \/ UpdatePlan(t)
  \/ FailTurn(t)
  \/ SaveSession(t)
  \/ SaveUpdate(t)
  \/ SaveUser(t)
  \/ SaveReply(t)

-------------------------------------------------------------------------------
(***************************************************************************)
(* POST /plan/load-session: get_session reads the row and then the         *)
(* messages, each select on its own; the result replaces the conversation. *)
(***************************************************************************)
ReadRow(s) ==
  /\ loads[s].at = "idle"
  /\ MaySend(s)
  /\ ledger.context[s] # NoSession
  /\ loads' = [loads EXCEPT ![s].at = "row", ![s].plan = ledger.context[s]]
  /\ UNCHANGED <<ledger, plans, turns, working, opened, screen>>

ReadMessages(s) ==
  /\ loads[s].at = "row"
  /\ loads' = [loads EXCEPT ![s] =
                 [ at    |-> "messages",
                   plan  |-> PlanIn(@.plan, ledger.update[s]),
                   heard |-> Spoken(ledger, s) ]]
  /\ UNCHANGED <<ledger, plans, turns, working, opened, screen>>

(* hydrate_plan_state_from_session: what was stored, over the profile.      *)
Hydrated(load) ==
  [ plan  |-> IF load.plan = NoPlan THEN ProfilePlan ELSE load.plan,
    heard |-> load.heard ]

Hydrate(s) ==
  /\ loads[s].at = "messages"
  /\ plans' = [plans EXCEPT ![s] = Hydrated(loads[s])]
  /\ screen' = [screen EXCEPT ![s] = Hydrated(loads[s]).plan]
  /\ loads' = [loads EXCEPT ![s] = NoLoad]
  /\ UNCHANGED <<ledger, turns, working, opened>>

(* GET /plan/<session>: a conversation that is not in memory is created,    *)
(* and the lock is not held between the look and the creation.              *)
LookForPlan(s) ==
  /\ plans[s] = NoState
  /\ opened' = opened \cup {s}
  /\ UNCHANGED <<ledger, plans, turns, working, loads, screen>>

CreatePlan(s) ==
  /\ s \in opened
  /\ opened' = opened \ {s}
  /\ plans' = [plans EXCEPT ![s] = FreshState]
  /\ UNCHANGED <<ledger, turns, working, loads, screen>>

OpenSession(s) ==
  \/ ReadRow(s)
  \/ ReadMessages(s)
  \/ Hydrate(s)
  \/ LookForPlan(s)
  \/ CreatePlan(s)

(* The process dies; the ledger and the screens of the clients survive.     *)
KillPlans ==
  /\ plans' = [s \in Session |-> NoState]
  /\ turns' = [t \in Turn |-> IF turns[t] \in InFlight THEN "killed"
                                                       ELSE turns[t]]
  /\ working' = [t \in Turn |-> NoState]
  /\ loads' = [s \in Session |-> NoLoad]
  /\ opened' = {}
  /\ UNCHANGED screen
===============================================================================
