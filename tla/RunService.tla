------------------------------ MODULE RunService ------------------------------
(***************************************************************************)
(* Research jobs: interfaces/http/services.py (the table of jobs, the pool *)
(* of worker threads and the snapshot a client polls), and what a worker   *)
(* does in interfaces/chat/service.py, chat_with_research.py and           *)
(* bootstrap/runner.py.  The exploration itself is one step here: it       *)
(* returns, raises, or dies with an exception that no handler catches;     *)
(* module GraphMapper models what it does.                                 *)
(***************************************************************************)
EXTENDS Ledger, Naturals, Sequences

CONSTANT Workers  \* max_workers of the executor

ASSUME WorkersAssumption == Workers \in Nat \ {0}

VARIABLES
  jobs,      \* _jobs: status and class of error of each job
  queue,     \* jobs submitted that no worker has taken, oldest first
  thread,    \* where the worker of each job is
  raised,    \* the exception that is on its way out of a worker
  snapshots  \* jobs a poll saw running and has not judged yet

jobVars == <<jobs, queue, thread, raised, snapshots>>

JobStatus == {"absent", "queued", "running", "completed", "failed"}
(* "aborted" stands for the error message "Job aborted unexpectedly".       *)
Error == {"none", "run", "ledger", "aborted"}
NoJob == [status |-> "absent", error |-> "none"]

Done == {"returned", "aborted"}
Asleep == {"idle", "queued", "killed"} \cup Done
Working ==
  {"start", "validate", "chat_session", "chat_input", "run_session", "run_input",
   "build", "run_started", "explore", "run_completed", "result_message", "evaluation",
   "answer", "chat_output", "publish_completed", "run_failed",
   "failure_message", "failure_evaluation", "publish_failed"}

Active == {j \in Job : thread[j] \in Working}

JobTypeOK ==
  /\ jobs \in [Job -> [status : JobStatus, error : Error]]
  /\ queue \in Seq(Job)
  /\ thread \in [Job -> Asleep \cup Working]
  /\ raised \in [Job -> Error]
  /\ snapshots \subseteq Job

JobInit ==
  /\ jobs = [j \in Job |-> NoJob]
  /\ queue = <<>>
  /\ thread = [j \in Job |-> "idle"]
  /\ raised = [j \in Job |-> "none"]
  /\ snapshots = {}

-------------------------------------------------------------------------------
(***************************************************************************)
(* The table of jobs.                                                      *)
(***************************************************************************)

(* create_chat_job, with its answer to the client.                          *)
CreateJob(j) ==
  /\ thread[j] = "idle"
  /\ jobs' = [jobs EXCEPT ![j] = [status |-> "queued", error |-> "none"]]
  /\ queue' = Append(queue, j)
  /\ thread' = [thread EXCEPT ![j] = "queued"]
  /\ UNCHANGED <<ledger, raised, snapshots>>

HasFreeThread_OffByOne == Cardinality(Active) <= Workers  \* mutant
HasFreeThread == Cardinality(Active) < Workers

(* A free thread of the pool takes the oldest job.                          *)
TakeJob(j) ==
  /\ queue # <<>>
  /\ j = Head(queue)
  /\ HasFreeThread
  /\ queue' = Tail(queue)
  /\ thread' = [thread EXCEPT ![j] = "start"]
  /\ UNCHANGED <<ledger, jobs, raised, snapshots>>

(* update_job from the worker: the row it finds is updated.                 *)
Publish(j, here, there, status, error) ==
  /\ thread[j] = here
  /\ jobs' = [jobs EXCEPT ![j] = [status |-> status, error |-> error]]
  /\ thread' = [thread EXCEPT ![j] = there]
  /\ UNCHANGED <<ledger, queue, raised, snapshots>>

StartJob(j) == Publish(j, "start", "validate", "running", "none")
PublishCompleted(j) ==
  Publish(j, "publish_completed", "returned", "completed", "none")
PublishFailed(j) == Publish(j, "publish_failed", "returned", "failed", raised[j])

(* job_snapshot, first half: the row is copied under the lock.  A client    *)
(* polls its job until a final status comes back.                           *)
TakeSnapshot(j) ==
  /\ jobs[j].status = "running"
  /\ snapshots' = snapshots \cup {j}
  /\ UNCHANGED <<ledger, jobs, queue, thread, raised>>

(* job_snapshot, second half, without the lock: if the future is done by    *)
(* now and the copy said running, the job is marked as aborted.             *)
Judged_Kept(j) == jobs  \* mutant: what the copy said is returned
Judged(j) ==
  IF thread[j] \in Done
    THEN [jobs EXCEPT ![j] = [status |-> "failed", error |-> "aborted"]]
    ELSE jobs

JudgeSnapshot(j) ==
  /\ j \in snapshots
  /\ jobs' = Judged(j)
  /\ snapshots' = snapshots \ {j}
  /\ UNCHANGED <<ledger, queue, thread, raised>>

-------------------------------------------------------------------------------
(***************************************************************************)
(* The worker.                                                             *)
(***************************************************************************)
Goes(j, there) ==
  /\ thread' = [thread EXCEPT ![j] = there]
  /\ UNCHANGED raised

(* An exception that reaches the handler of run_chat_job.                   *)
Raises(j, error) ==
  /\ thread' = [thread EXCEPT ![j] = "publish_failed"]
  /\ raised' = [raised EXCEPT ![j] = error]

(* One operation of the ledger writer: it commits, or it raises.            *)
Records(j, here, there, l) ==
  /\ thread[j] = here
  /\ \/ Goes(j, there) /\ ledger' = l
     \/ LedgerMayFail /\ Raises(j, "ledger") /\ UNCHANGED ledger
  /\ UNCHANGED <<jobs, queue, snapshots>>

Says_Swallowed(j, here, there, kind) ==  \* mutant: a failed write is ignored
  /\ thread[j] = here
  /\ Goes(j, there)
  /\ ledger' \in {RecordMessage(ledger, kind, j), ledger}
  /\ UNCHANGED <<jobs, queue, snapshots>>
Says(j, here, there, kind) ==
  Records(j, here, there, RecordMessage(ledger, kind, j))

(* A stretch of code that writes none of the tables modelled.               *)
Computes(j, here, there) ==
  /\ thread[j] = here
  /\ Goes(j, there) \/ Raises(j, "run")
  /\ UNCHANGED <<ledger, jobs, queue, snapshots>>

(* process_chat_turn: the request is validated and the writer connected.    *)
Validate(j) == Computes(j, "validate", "chat_session")

(* _record_chat_user_message: the context it stores holds no plan.          *)
RecordChatSession(j) ==
  Records(j, "chat_session", "chat_input",
          RecordSession(ledger, SessionOf[j], NoPlan))
RecordChatInput(j) == Says(j, "chat_input", "run_session", "chat_turn_input")

(* _record_session_bootstrap does the same once more.                       *)
RecordRunSession(j) ==
  Records(j, "run_session", "run_input",
          RecordSession(ledger, SessionOf[j], NoPlan))
RecordRunInput(j) == Says(j, "run_input", "build", "runtime_bootstrap_input")

(* run_graph_mapper builds its services; nothing guards this part.          *)
Build(j) == Computes(j, "build", "run_started")

RecordRunStarted(j) ==
  Records(j, "run_started", "explore", RecordRun(ledger, j, "running"))

(* orchestrator.execute returns or raises an Exception.                     *)
Explore(j) ==
  /\ thread[j] = "explore"
  /\ \/ Goes(j, "run_completed")
     \/ /\ thread' = [thread EXCEPT ![j] = "run_failed"]
        /\ raised' = [raised EXCEPT ![j] = "run"]
  /\ UNCHANGED <<ledger, jobs, queue, snapshots>>

(* It raises what is no Exception: both handlers let it pass, and the       *)
(* future holds it.                                                         *)
Abort(j) ==
  /\ thread[j] = "explore"
  /\ Goes(j, "aborted")
  /\ UNCHANGED <<ledger, jobs, queue, snapshots>>

RecordRunCompleted(j) ==
  Records(j, "run_completed", "result_message",
          RecordRun(ledger, j, "completed"))
RecordResult(j) == Says(j, "result_message", "evaluation", "runtime_result")
(* The states of module GraphMapper end with the status "success" or        *)
(* "fail"; the first is rated good and the second unknown.                  *)
Evaluate_Partial(j) ==  \* mutant: a label that is no rating of this ledger
  Records(j, "evaluation", "answer", RecordEvaluation(ledger, j, "partial"))
Evaluate(j) ==
  \E label \in {"good", "unknown"} :
    Records(j, "evaluation", "answer", RecordEvaluation(ledger, j, label))

(* chat_with_research summarises the state and writes the answer.           *)
Answer(j) == Computes(j, "answer", "chat_output")
RecordChatOutput(j) ==
  Says(j, "chat_output", "publish_completed", "chat_turn_output")

(* The handler of run_graph_mapper; the exception goes on afterwards.       *)
RecordRunFailed(j) ==
  Records(j, "run_failed", "failure_message", RecordRun(ledger, j, "failed"))
RecordFailure_NotRated(j) ==  \* mutant: the last record is forgotten
  Says(j, "failure_message", "publish_failed", "runtime_failure")
RecordFailure(j) ==
  Says(j, "failure_message", "failure_evaluation", "runtime_failure")
EvaluateFailure(j) ==
  Records(j, "failure_evaluation", "publish_failed",
          RecordEvaluation(ledger, j, "failed"))

-------------------------------------------------------------------------------
Work(j) ==
  \/ TakeJob(j)
  \/ StartJob(j)
  \/ Validate(j)
  \/ RecordChatSession(j)
  \/ RecordChatInput(j)
  \/ RecordRunSession(j)
  \/ RecordRunInput(j)
  \/ Build(j)
  \/ RecordRunStarted(j)
  \/ Explore(j)
  \/ RecordRunCompleted(j)
  \/ RecordResult(j)
  \/ Evaluate(j)
  \/ Answer(j)
  \/ RecordChatOutput(j)
  \/ RecordRunFailed(j)
  \/ RecordFailure(j)
  \/ EvaluateFailure(j)
  \/ PublishCompleted(j)
  \/ PublishFailed(j)

Poll(j) == TakeSnapshot(j) \/ JudgeSnapshot(j)

(* The process dies: its jobs are gone, and a client that polls gets a 404. *)
KillJobs ==
  /\ jobs' = [j \in Job |-> NoJob]
  /\ queue' = <<>>
  /\ thread' = [j \in Job |-> IF thread[j] = "idle" THEN "idle" ELSE "killed"]
  /\ raised' = [j \in Job |-> "none"]
  /\ snapshots' = {}
===============================================================================
