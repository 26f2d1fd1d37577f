------------------------------ MODULE ModelCall ------------------------------
(***************************************************************************)
(* A call to a language model, from the use case that records it in the    *)
(* ledger (invoke_llm_with_ledger_use_case.py) through the adapter of the  *)
(* runtime (callable_llm_runtime_adapter.py and the PydanticAI and Ollama  *)
(* adapters) and back.  A thread that already runs an event loop, as the   *)
(* one that drives the browser does, hands the call to the process-wide    *)
(* pool of executor_pool.py and waits for it no longer than the timeout:   *)
(* giving up cancels a task that still waits in the queue, and cannot stop *)
(* one that a thread of the pool has begun.                                *)
(*                                                                         *)
(* The provider may answer, well or badly, at any time.                    *)
(***************************************************************************)
EXTENDS RuntimePlan, SequencesExt

CONSTANTS
  Callers,   \* threads that make calls: those of the jobs and of the requests
  Looped,    \* the ones with a running event loop
  Threads,   \* max_workers of the pool
  Asks,      \* bound: calls of a caller
  Profiles   \* the configurations of the subtasks, before the defaults are resolved

ASSUME CallAssumption ==
  /\ Looped \subseteq Callers
  /\ Threads \in Nat \ {0}
  /\ Asks \in Nat
  /\ \A p \in Profiles : DOMAIN p = Slot

VARIABLES
  configs,   \* the configuration of each subtask
  runtimes,  \* the runtime built for each subtask
  phase,     \* "profile", "built", or "rejected"
  call,      \* the call each caller makes: its number, subtask, image and stage
  queue,     \* the pool: tasks no thread has begun
  running,   \* the pool: tasks that occupy a thread
  rows,      \* llm_calls: the row of each call
  ended      \* how each call ended for its caller
vars == <<configs, runtimes, phase, call, queue, running, rows, ended>>
poolVars == <<queue, running>>

(* What is asked of a model: a decision, the two perceptions, and whether  *)
(* an extraction covers its document, which asks the runtime of validation *)
(* without the ledger.  The visual runtimes are built, and nothing the     *)
(* program does reaches them.                                              *)
Task           == {"main", "perception", "validation", "coverage"}
RuntimeOf(task) == runtimes[IF task = "coverage" THEN "validation" ELSE task]
Recorded(task) == task # "coverage"

(* A perception adds a picture when the observation holds one.             *)
Images(task) == IF task \in {"perception", "validation"} THEN BOOLEAN ELSE {FALSE}

CallId == Callers \X (1..Asks)
Call   == [nth : 0..Asks, task : Task, image : BOOLEAN,
           stage : {"idle", "asked", "asking", "waiting", "answered"}]
Ended  == {"none", "answered", "failed", "refused"}

Id_Reused(c) == <<c, 1>>   \* mutant
Id(c)        == <<c, call[c].nth>>
WaitsFor(id) == call[id[1]].stage = "waiting" /\ Id(id[1]) = id

TypeOK ==
  /\ phase \in {"profile", "built", "rejected"}
  /\ call \in [Callers -> Call]
  /\ queue \in Seq(CallId)
  /\ running \subseteq CallId /\ Cardinality(running) <= Threads
  /\ rows \in [CallId -> {"none", "open", "completed"}]
  /\ ended \in [CallId -> Ended]

Init ==
  /\ configs \in {[s \in Slot |-> Source([t \in Slot |-> FromProfile(p[t], env)], s)] :
                    p \in Profiles, env \in BOOLEAN}
  /\ runtimes = [s \in Slot |-> NoRuntime]
  /\ phase = "profile"
  /\ call = [c \in Callers |-> [nth |-> 0, task |-> "main", image |-> FALSE, stage |-> "idle"]]
  /\ queue = <<>>
  /\ running = {}
  /\ rows = [id \in CallId |-> "none"]
  /\ ended = [id \in CallId |-> "none"]

---------------------------------------------------------------------------
(* Building the runtimes of a run: one that cannot be resolved rejects it. *)

Build ==
  /\ phase = "profile"
  /\ LET wanted == {s \in Slot : Wanted(configs[s], s)}
         sound  == \A s \in wanted : Resolvable(configs[s])
     IN /\ phase' = IF sound THEN "built" ELSE "rejected"
        /\ runtimes' = [s \in Slot |-> IF sound /\ s \in wanted
                                       THEN Runtime(configs[s], s) ELSE NoRuntime]
  /\ UNCHANGED <<configs, call, poolVars, rows, ended>>

---------------------------------------------------------------------------
(* One call.                                                               *)

Stage(c, stage) == call' = [call EXCEPT ![c].stage = stage]
End(c, how)     == ended' = [ended EXCEPT ![Id(c)] = how] /\ Stage(c, "idle")

(* record_llm_called opens the row before anything is sent.                *)
Ask(c, task, image) ==
  /\ phase = "built" /\ RuntimeOf(task) # NoRuntime
  /\ call[c].stage = "idle" /\ call[c].nth < Asks
  /\ call' = [call EXCEPT ![c] = [nth |-> @.nth + 1, task |-> task, image |-> image,
                                  stage |-> "asked"]]
  /\ rows' = [rows EXCEPT ![<<c, call[c].nth + 1>>] = IF Recorded(task) THEN "open" ELSE @]
  /\ UNCHANGED <<configs, runtimes, phase, poolVars, ended>>

(* The ledger fails: the call is never sent.                               *)
AskFails(c, task, image) ==
  /\ phase = "built" /\ RuntimeOf(task) # NoRuntime /\ Recorded(task)
  /\ call[c].stage = "idle" /\ call[c].nth < Asks
  /\ call' = [call EXCEPT ![c].nth = @ + 1]
  /\ ended' = [ended EXCEPT ![<<c, call[c].nth + 1>>] = "failed"]
  /\ UNCHANGED <<configs, runtimes, phase, poolVars, rows>>

Refused(c) == call[c].image /\ RefusesImage(RuntimeOf(call[c].task))

Refuse(c) ==
  /\ call[c].stage = "asked" /\ Refused(c)
  /\ End(c, "refused")
  /\ UNCHANGED <<configs, runtimes, phase, poolVars, rows>>

(* _run_agent: Ollama, and a thread without a loop, call on their own.     *)
Pooled(c) == c \in Looped /\ RuntimeOf(call[c].task).provider # "ollama"

Direct(c) ==
  /\ call[c].stage = "asked" /\ ~ Refused(c) /\ ~ Pooled(c)
  /\ Stage(c, "asking")
  /\ UNCHANGED <<configs, runtimes, phase, poolVars, rows, ended>>

Submit(c) ==
  /\ call[c].stage = "asked" /\ ~ Refused(c) /\ Pooled(c)
  /\ Stage(c, "waiting")
  /\ queue' = Append(queue, Id(c))
  /\ UNCHANGED <<configs, runtimes, phase, running, rows, ended>>

HasThread_Always == TRUE   \* mutant
HasThread        == Cardinality(running) < Threads

Start ==
  /\ queue # <<>> /\ HasThread
  /\ running' = running \cup {Head(queue)}
  /\ queue' = Tail(queue)
  /\ UNCHANGED <<configs, runtimes, phase, call, rows, ended>>

(* The answer, checked against its output type, or an error of the         *)
(* provider, of the transport or of the check.                             *)
Answered(c, good) ==
  IF good THEN Stage(c, "answered") /\ UNCHANGED ended ELSE End(c, "failed")

DirectAnswer(c, good) ==
  /\ call[c].stage = "asking"
  /\ Answered(c, good)
  /\ UNCHANGED <<configs, runtimes, phase, poolVars, rows>>

(* A task of the pool ends: an answer nobody waits for any more is dropped. *)
Waiter_ByThread(id) == {c \in Callers : c = id[1] /\ call[c].stage = "waiting"}   \* mutant
Waiter(id) == {c \in Callers : c = id[1] /\ WaitsFor(id)}

Finish(id, good) ==
  /\ id \in running
  /\ running' = running \ {id}
  /\ \/ \E c \in Waiter(id) : Answered(c, good)
     \/ Waiter(id) = {} /\ UNCHANGED <<call, ended>>
  /\ UNCHANGED <<configs, runtimes, phase, queue, rows>>

(* future.result(timeout) gives up, and future.cancel() takes the task out *)
(* of the queue when no thread has begun it.                               *)
Cancelled_Not(tasks, id) == tasks                                                   \* mutant
Cancelled(tasks, id)     ==
  LET places == {i \in 1..Len(tasks) : tasks[i] = id}
  IN  IF places = {} THEN tasks ELSE RemoveAt(tasks, CHOOSE i \in places : TRUE)

GivesUp_OnceBegun(c) == call[c].stage = "waiting" /\ Id(c) \in running             \* mutant
GivesUp(c)           == call[c].stage = "waiting"

Timeout(c) ==
  /\ GivesUp(c)
  /\ queue' = Cancelled(queue, Id(c))
  /\ End(c, "failed")
  /\ UNCHANGED <<configs, runtimes, phase, running, rows>>

(* record_llm_completed, then the answer: when the ledger fails, the       *)
(* caller gets its error and the answer is lost.                           *)
Record(c) ==
  /\ call[c].stage = "answered"
  /\ rows' = [rows EXCEPT ![Id(c)] = IF Recorded(call[c].task) THEN "completed" ELSE @]
  /\ End(c, "answered")
  /\ UNCHANGED <<configs, runtimes, phase, poolVars>>

LostOutcome_Swallowed(c) == "answered"                                              \* mutant
LostOutcome(c)           == "failed"

RecordFails(c) ==
  /\ call[c].stage = "answered" /\ Recorded(call[c].task)
  /\ End(c, LostOutcome(c))
  /\ UNCHANGED <<configs, runtimes, phase, poolVars, rows>>

Next ==
  \/ Build
  \/ \E c \in Callers :
       \/ \E task \in Task : \E image \in Images(task) :
            Ask(c, task, image) \/ AskFails(c, task, image)
       \/ Refuse(c) \/ Direct(c) \/ Submit(c) \/ Timeout(c) \/ Record(c) \/ RecordFails(c)
       \/ \E good \in BOOLEAN : DirectAnswer(c, good)
  \/ Start
  \/ \E id \in CallId, good \in BOOLEAN : Finish(id, good)

(* The client of a direct call bounds it in time, and a caller that waits  *)
(* for the pool has a timeout.  Nothing obliges a task of the pool to end, *)
(* nor a caller to ask.                                                    *)
Fairness ==
  /\ WF_vars(Start)
  /\ \A c \in Callers :
       /\ WF_vars(Refuse(c) \/ Direct(c) \/ Submit(c))
       /\ WF_vars(\E good \in BOOLEAN : DirectAnswer(c, good))
       /\ WF_vars(Timeout(c))
       /\ WF_vars(Record(c) \/ RecordFails(c))

Spec == Init /\ [][Next]_vars /\ Fairness

---------------------------------------------------------------------------
(* Properties.                                                             *)

(* NothingUnsupported: whatever the profile asks for, and through whatever *)
(* chain of subtasks it is inherited, no runtime carries an output mode, a *)
(* reasoning setting or a routing preference its provider does not have.   *)
NothingUnsupported == \A s \in {t \in Slot : runtimes[t] # NoRuntime} :
  LET r == runtimes[s] policy == Policy[runtimes[s].provider]
  IN /\ r.mode \in policy.modes \cup {"auto"}
     /\ ~ Visual(s) => r.mode \in policy.modes
     /\ r.effort => r.reasoning
     /\ r.reasoning => policy.reasoning
     /\ r.routing => policy.routing

(* LedgerAgrees: the ledger and the caller tell the same story.  A call    *)
(* whose answer reached its caller is completed in llm_calls, and one that *)
(* failed (refused, timed out, answered badly, or answered to a ledger     *)
(* that could not write it) is not, however late its answer comes.         *)
LedgerAgrees == \A id \in CallId :
  /\ ended[id] = "answered" => rows[id] # "open"
  /\ ended[id] \notin {"none", "answered"} => rows[id] # "completed"

(* RowFrozen: what a call left behind is never rewritten: not its row, nor *)
(* how it ended.                                                           *)
RowFrozen == [][\A id \in CallId :
  ended[id] # "none" => rows'[id] = rows[id] /\ ended'[id] = ended[id]]_vars

(* OwnAnswer: the answer a caller of the pool gets is that of the call it  *)
(* waits for, not the late one of a call it gave up before.                *)
OwnAnswer == [][\A c \in Callers :
  call[c].stage = "waiting" /\ call'[c].stage = "answered"
    => Id(c) \in running /\ Id(c) \notin running']_vars

(* NoOrphanQueued: no task waits in the queue of the pool whose caller has *)
(* given up: an abandoned call costs at most the thread that began it.     *)
NoOrphanQueued == \A i \in 1..Len(queue) : WaitsFor(queue[i])

(* EveryCallEnds: a call that was made ends, even behind a pool whose      *)
(* threads are all held by calls nobody waits for.                         *)
EveryCallEnds == \A c \in Callers : call[c].stage # "idle" ~> call[c].stage = "idle"
=============================================================================
