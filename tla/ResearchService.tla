--------------------------- MODULE ResearchService ----------------------------
(***************************************************************************)
(* The research service: planning sessions and jobs over one ledger, in a  *)
(* process that may be killed and started again.  The client is the page   *)
(* interfaces/http/templates/index.html: it launches a job when the plan   *)
(* it shows is ready, and polls the job until a final status comes back.   *)
(***************************************************************************)
EXTENDS RunService, PlanService

CONSTANT MaxRestarts  \* bound of the model: how often the process is killed

ASSUME MaxRestartsAssumption == MaxRestarts \in Nat

VARIABLE restarts

vars == <<ledger, jobs, queue, thread, raised, snapshots,
          plans, turns, working, loads, opened, screen, restarts>>

TypeOK ==
  /\ ledger \in LedgerType
  /\ JobTypeOK
  /\ PlanTypeOK
  /\ restarts \in 0..MaxRestarts

Init ==
  /\ ledger = EmptyLedger
  /\ JobInit
  /\ PlanInit
  /\ restarts = 0

(* launchRun: the button is enabled when the plan shown can be launched.    *)
Launchable(s) ==
  /\ screen[s] # NoPlan
  /\ screen[s].structured
  /\ MaySend(s)

Launch(j) == Launchable(SessionOf[j]) /\ CreateJob(j)

Restart ==
  /\ restarts < MaxRestarts
  /\ restarts' = restarts + 1
  /\ KillJobs
  /\ KillPlans
  /\ UNCHANGED ledger

RunStep(j) == Launch(j) \/ Work(j) \/ Abort(j) \/ Poll(j)

Next ==
  \/ \E j \in Job : RunStep(j) /\ UNCHANGED <<planVars, restarts>>
  \/ \E t \in Turn : TakeTurn(t) /\ UNCHANGED <<jobVars, restarts>>
  \/ \E s \in Session : OpenSession(s) /\ UNCHANGED <<jobVars, restarts>>
  \/ Restart

Spec == Init /\ [][Next]_vars

(* The threads of the pool run, and the page polls every two seconds, both  *)
(* halves of a snapshot in one request.  Nothing is assumed of the user.    *)
FairSpec ==
  /\ Spec
  /\ \A j \in Job :
       /\ WF_vars(Work(j) /\ UNCHANGED <<planVars, restarts>>)
       /\ WF_vars(TakeSnapshot(j) /\ UNCHANGED <<planVars, restarts>>)
       /\ WF_vars(JudgeSnapshot(j) /\ UNCHANGED <<planVars, restarts>>)

-------------------------------------------------------------------------------
(***************************************************************************)
(* Properties.                                                             *)
(***************************************************************************)

Closed == {"completed", "failed"}
Said(j, kinds) == \A kind \in kinds : <<kind, j>> \in ledger.messages

CompletedRecord(j) ==
  /\ ledger.runs[j].status = "completed"
  /\ ledger.runs[j].label \in {"good", "unknown"}
  /\ Said(j, JobMessage \ {"runtime_failure"})

(* No run was started; or it failed; or it completed, and what failed is    *)
(* the answer.                                                              *)
FailureRecord(j) ==
  \/ ledger.runs[j] = [status |-> "absent", label |-> "none"]
  \/ /\ ledger.runs[j] = [status |-> "failed", label |-> "failed"]
     /\ Said(j, {"runtime_failure"})
  \/ /\ ledger.runs[j].status = "completed"
     /\ ledger.runs[j].label \in {"good", "unknown"}
     /\ Said(j, {"runtime_result"})

(* A job that is reported completed has everything in the ledger: the run   *)
(* completed and rated, its question, result and answer in the session.     *)
(* Each of these is a commit of its own that may fail, in a chain that      *)
(* reaches from run_chat_job to runner.py and back.                         *)
CompletedIsRecorded ==
  \A j \in Job : jobs[j].status = "completed" => CompletedRecord(j)

(* A job that failed with an error of the run, not of the ledger, leaves no *)
(* run open or unrated, and the ledger says how it ended (runner.py records *)
(* in a handler and raises again).                                          *)
FailureIsRecorded ==
  \A j \in Job : jobs[j] = [status |-> "failed", error |-> "run"] =>
    FailureRecord(j)

(* The plan a client was answered can be loaded again, whatever a job has   *)
(* since done to the context of the session and whenever the process died;  *)
(* and if all turns of a session that is open in one tab went well, loading *)
(* it brings back exactly the plan on the screen.                           *)
AnsweredPlanLoadable ==
  \A s \in Session :
    LET sent == {t \in Turn : SessionOf[t] = s /\ turns[t] # "idle"}
    IN  /\ (\E t \in sent : turns[t] = "answered") =>
              Loadable(ledger, s) \in Plan
        /\ (OneTab /\ sent # {} /\ \A t \in sent : turns[t] = "answered") =>
              Loadable(ledger, s) = screen[s]

(* A run closes once: no event of a worker opens a run that has ended, or   *)
(* turns a completed run into a failed one.                                 *)
RunClosesOnce ==
  [][\A j \in Job : ledger.runs[j].status \in Closed =>
       ledger'.runs[j].status = ledger.runs[j].status]_vars

(* The pool runs at most Workers jobs, and every queued job waits in line   *)
(* exactly once.                                                            *)
PoolBounded ==
  /\ Cardinality(Active) <= Workers
  /\ \A j \in Job : thread[j] = "queued" <=> \E i \in DOMAIN queue : queue[i] = j

(* Every job gets a final status, also when its thread dies: the page stops *)
(* waiting for it.  A restart forgets the job, and the page gets a 404.     *)
EveryJobAnswered ==
  \A j \in Job : (jobs[j].status # "absent")
                   ~> (jobs[j].status \in {"absent", "completed", "failed"})

(* "Job aborted unexpectedly" (job_snapshot) is only said of a job whose    *)
(* thread did not get to publish a result.                                  *)
AbortedMeansAborted ==
  \A j \in Job : jobs[j].error = "aborted" => thread[j] = "aborted"

(* "Atomic commit of final state" (process_plan_turn): the conversation     *)
(* that a turn commits continues the one it replaces.                       *)
CommitIsAtomic ==
  [][\A t \in Turn :
       turns[t] = "thinking" /\ turns'[t] = "save_session" =>
         plans[SessionOf[t]].heard \subseteq plans'[SessionOf[t]].heard]_vars
===============================================================================
