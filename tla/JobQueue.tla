------------------------------ MODULE JobQueue ------------------------------
(***************************************************************************)
(* The background jobs of hub-nfts: the job queue                          *)
(* (api/src/background_worker/job_queue.rs), the worker loop with the      *)
(* tasks it spawns and the retry-jobs subcommand (worker.rs, main.rs), and *)
(* the table job_trackings they share.  What a task does is left out: it   *)
(* succeeds or it fails.                                                   *)
(*                                                                         *)
(* One server process runs the requests, the loop and the spawned tasks;   *)
(* retry-jobs is a process of its own.  Each action is one call to Redis   *)
(* or to the database.  The errors those calls can return, and a crash of  *)
(* the server, are in Faults.                                              *)
(***************************************************************************)
EXTENDS Naturals, Sequences, FiniteSets

CONSTANTS
  Tasks,     \* upload tasks the mutations enqueue, each once
  Jobs,      \* ids the table can hand out (a bound)
  Faults,    \* errors that can happen
  NoTask, NoJob

AllFaults == {"enqueue", "dequeue", "read", "update", "crash"}

ASSUME FaultsAssumption == Faults \subseteq AllFaults
ASSUME NoTaskAssumption == NoTask \notin Tasks
ASSUME NoJobAssumption == NoJob \notin Jobs

VARIABLES
  tracking,   \* job_trackings: status and task (the payload) of each row
  pushing,    \* enqueue calls between the insert and the LPUSH, as job ids
  queue,      \* the Redis list, oldest job first
  loop,       \* the worker loop, inside or outside of dequeue
  run,        \* the task spawned for each job
  tool,       \* the retry-jobs process
  accepted,   \* tasks for which an enqueue has returned Ok
  processed   \* jobs whose task has been processed with success

vars == <<tracking, pushing, queue, loop, run, tool, accepted, processed>>

Row == [status: {"absent", "queued", "processing", "completed", "failed"},
        task: Tasks \cup {NoTask}]
RunState == {"none", "spawned", "processing", "succeeded", "failed", "requeue", "ended"}
Loop == [pc: {"waiting", "popped", "stopped"}, job: Jobs \cup {NoJob}]
Tool == [pc: {"idle", "process", "mark"}, todo: SUBSET Jobs, job: Jobs \cup {NoJob}]

NoTool == [pc |-> "idle", todo |-> {}, job |-> NoJob]
NextDequeue == [pc |-> "waiting", job |-> NoJob]

TypeOK ==
  /\ tracking \in [Jobs -> Row]
  /\ pushing \in SUBSET Jobs
  /\ queue \in Seq(Jobs)
  /\ loop \in Loop
  /\ run \in [Jobs -> RunState]
  /\ tool \in Tool
  /\ accepted \in SUBSET Tasks
  /\ processed \in SUBSET Jobs

Init ==
  /\ tracking = [j \in Jobs |-> [status |-> "absent", task |-> NoTask]]
  /\ pushing = {}
  /\ queue = <<>>
  /\ loop = NextDequeue
  /\ run = [j \in Jobs |-> "none"]
  /\ tool = NoTool
  /\ accepted = {}
  /\ processed = {}

-----------------------------------------------------------------------------
(* JobQueue::enqueue, called by the mutations and by a task that failed.   *)

Fresh(j) == tracking[j].status = "absent"

\* The bound on Jobs: an id is kept for each run that has failed and is still
\* to be enqueued again.
IdsLeft ==
  Cardinality({j \in Jobs : Fresh(j)}) > Cardinality({j \in Jobs : run[j] \in {"failed", "requeue"}})

Track(j, t) ==
  /\ Fresh(j)
  /\ tracking' = [tracking EXCEPT ![j] = [status |-> "queued", task |-> t]]
  /\ pushing' = pushing \cup {j}

Enqueue(t) ==
  /\ \A j \in Jobs : tracking[j].task # t
  /\ IdsLeft
  /\ \E j \in Jobs : Track(j, t)
  /\ UNCHANGED <<queue, loop, run, tool, accepted, processed>>

\* Fault: the job is pushed twice, by a client that repeats a command it got
\* no answer to.
PushTwice(j) ==
  /\ j \in pushing
  /\ queue' = queue \o <<j, j>>
  /\ pushing' = pushing \ {j}
  /\ accepted' = accepted \cup {tracking[j].task}
  /\ UNCHANGED <<tracking, loop, run, tool, processed>>

Push(j) ==
  /\ j \in pushing
  /\ queue' = Append(queue, j)
  /\ pushing' = pushing \ {j}
  /\ accepted' = accepted \cup {tracking[j].task}
  /\ UNCHANGED <<tracking, loop, run, tool, processed>>

\* The caller gets the error; the row stays.
PushFails(j) ==
  /\ "enqueue" \in Faults
  /\ j \in pushing
  /\ pushing' = pushing \ {j}
  /\ UNCHANGED <<tracking, queue, loop, run, tool, accepted, processed>>

-----------------------------------------------------------------------------
(* JobQueue::dequeue and the loop of Worker::start.                        *)

Pop ==
  /\ loop.pc = "waiting"
  /\ queue # <<>>
  /\ loop' = [pc |-> "popped", job |-> Head(queue)]
  /\ queue' = Tail(queue)
  /\ UNCHANGED <<tracking, pushing, run, tool, accepted, processed>>

\* A job that is completed or being processed is dropped: the task spawned
\* then only sleeps, and the loop goes on.  (No such job turns up, see
\* PoppedIsQueued: hence no action of its own.)
Take ==
  /\ loop.pc = "popped"
  /\ IF tracking[loop.job].status \in {"completed", "processing"}
     THEN UNCHANGED <<tracking, run>>
     ELSE /\ tracking' = [tracking EXCEPT ![loop.job].status = "processing"]
          /\ run' = [run EXCEPT ![loop.job] = "spawned"]
  /\ loop' = NextDequeue
  /\ UNCHANGED <<pushing, queue, tool, accepted, processed>>

\* An error inside dequeue leaves Worker::start with `?`; main.rs spawned it
\* and looks at no result, so the loop is over until the server restarts.
\* A job that had been popped is gone, marked or not.
DequeueFails ==
  /\ "dequeue" \in Faults
  /\ loop.pc # "stopped"
  /\ loop' = [pc |-> "stopped", job |-> NoJob]
  /\ \/ UNCHANGED tracking
     \/ /\ loop.pc = "popped"
        /\ tracking' = [tracking EXCEPT ![loop.job].status = "processing"]
  /\ UNCHANGED <<pushing, queue, run, tool, accepted, processed>>

-----------------------------------------------------------------------------
(* The task spawned for a job.                                             *)

Runs(j, before, after) == run[j] = before /\ run' = [run EXCEPT ![j] = after]

\* The row is read again; what is written later is this row with a new status.
Start(j) ==
  /\ Runs(j, "spawned", "processing")
  /\ UNCHANGED <<tracking, pushing, queue, loop, tool, accepted, processed>>

StartFails(j) ==
  /\ "read" \in Faults
  /\ Runs(j, "spawned", "ended")
  /\ UNCHANGED <<tracking, pushing, queue, loop, tool, accepted, processed>>

Process(j) ==
  /\ \/ /\ Runs(j, "processing", "succeeded")
        /\ processed' = processed \cup {j}
     \/ /\ IdsLeft
        /\ Runs(j, "processing", "failed")
        /\ UNCHANGED processed
  /\ UNCHANGED <<tracking, pushing, queue, loop, tool, accepted>>

\* An update of the row succeeds, or its error is logged.
Mark(j, status) ==
  \/ tracking' = [tracking EXCEPT ![j].status = status]
  \/ "update" \in Faults /\ UNCHANGED tracking

Complete(j) ==
  /\ Runs(j, "succeeded", "ended")
  /\ Mark(j, "completed")
  /\ UNCHANGED <<pushing, queue, loop, tool, accepted, processed>>

MarkFailed(j) ==
  /\ Runs(j, "failed", "requeue")
  /\ Mark(j, "failed")
  /\ UNCHANGED <<pushing, queue, loop, tool, accepted, processed>>

\* Fault: the failed job is not enqueued again.
RequeueNothing(j) ==
  /\ Runs(j, "requeue", "ended")
  /\ UNCHANGED <<tracking, pushing, queue, loop, tool, accepted, processed>>

\* The task is enqueued as a new job, with a row of its own; the old row
\* stays "failed".
Requeue(j) ==
  /\ Runs(j, "requeue", "ended")
  /\ \E k \in Jobs : Track(k, tracking[j].task)
  /\ UNCHANGED <<queue, loop, tool, accepted, processed>>

RequeueFails(j) ==
  /\ "enqueue" \in Faults
  /\ Runs(j, "requeue", "ended")
  /\ UNCHANGED <<tracking, pushing, queue, loop, tool, accepted, processed>>

-----------------------------------------------------------------------------
(* Worker::retry, run by `hub-nfts retry-jobs`.                            *)

\* Fault: the filter takes every row that is not completed.
RetryJobsUnfinished ==
  /\ tool.pc = "idle"
  /\ tool' = [pc |-> "process", job |-> NoJob,
              todo |-> {j \in Jobs : tracking[j].status \in {"queued", "processing", "failed"}}]
  /\ UNCHANGED <<tracking, pushing, queue, loop, run, accepted, processed>>

\* The rows that are failed now, kept in memory.
RetryJobs ==
  /\ tool.pc = "idle"
  /\ tool' = [pc |-> "process", job |-> NoJob,
              todo |-> {j \in Jobs : tracking[j].status = "failed"}]
  /\ UNCHANGED <<tracking, pushing, queue, loop, run, accepted, processed>>

\* They are processed one after the other; one that fails is skipped.  (They
\* come in order of creation, on which nothing here depends.)
RetryProcess ==
  /\ tool.pc = "process"
  /\ \E j \in tool.todo :
       \/ /\ tool' = [pc |-> "mark", todo |-> tool.todo \ {j}, job |-> j]
          /\ processed' = processed \cup {j}
       \/ /\ tool' = [tool EXCEPT !.todo = @ \ {j}]
          /\ UNCHANGED processed
  /\ UNCHANGED <<tracking, pushing, queue, loop, run, accepted>>

RetryMark ==
  /\ tool.pc = "mark"
  /\ Mark(tool.job, "completed")
  /\ tool' = [tool EXCEPT !.pc = "process", !.job = NoJob]
  /\ UNCHANGED <<pushing, queue, loop, run, accepted, processed>>

\* The process ends when nothing is left to do, or dies.
RetryEnds ==
  /\ tool # NoTool
  /\ (tool.pc = "process" /\ tool.todo = {}) \/ "crash" \in Faults
  /\ tool' = NoTool
  /\ UNCHANGED <<tracking, pushing, queue, loop, run, accepted, processed>>

-----------------------------------------------------------------------------
\* The server dies and starts again: only Redis and the database survive.
Crash ==
  /\ "crash" \in Faults
  /\ pushing' = {}
  /\ loop' = NextDequeue
  /\ run' = [j \in Jobs |-> IF run[j] = "none" THEN "none" ELSE "ended"]
  /\ UNCHANGED <<tracking, queue, tool, accepted, processed>>

Server(j) ==
  \/ Push(j) \/ Start(j) \/ Process(j) \/ Complete(j) \/ MarkFailed(j) \/ Requeue(j)

Dequeue == Pop \/ Take

Errors(j) == PushFails(j) \/ StartFails(j) \/ RequeueFails(j)

Retry == RetryJobs \/ RetryProcess \/ RetryMark \/ RetryEnds

Next ==
  \/ \E t \in Tasks : Enqueue(t)
  \/ \E j \in Jobs : Server(j) \/ Errors(j)
  \/ Dequeue \/ DequeueFails \/ Crash \/ Retry

Spec == Init /\ [][Next]_vars

Fails(j) == run[j] = "processing" /\ run'[j] = "failed"

\* The runtime polls the loop and the spawned tasks for as long as the server
\* lives, and a task fails for reasons that pass (Redis, the uploads service,
\* the broker): from some point on it succeeds.
Fairness ==
  /\ WF_vars(Dequeue)
  /\ \A j \in Jobs : WF_vars(Server(j))
  /\ <>[][\A j \in Jobs : ~Fails(j)]_vars

FairSpec == Spec /\ Fairness
-----------------------------------------------------------------------------
(* Properties.                                                             *)

\* A row says "completed" only if its own task was processed with success,
\* although its status is written by two processes from rows read earlier.
CompletedIsProcessed ==
  \A j \in Jobs : tracking[j].status = "completed" => j \in processed

\* dequeue guards against a job that is already processing or completed, and
\* never meets one: what is popped is still "queued", whatever failed before.
PoppedIsQueued ==
  loop.pc = "popped" => tracking[loop.job].status = "queued"

\* A job is spawned once: neither a restart nor retry-jobs brings it back.
RunsOnce ==
  [][\A j \in Jobs : run'[j] = "spawned" => run[j] \in {"none", "spawned"}]_vars

\* "completed" is final: no run of the worker takes back what retry-jobs has
\* recorded, nor the other way round.
CompletedIsFinal ==
  [][\A j \in Jobs : tracking[j].status = "completed" => tracking'[j].status = "completed"]_vars

\* Some process, or the next retry-jobs, still has the job to do.
InQueue(j) == \E i \in 1..Len(queue) : queue[i] = j

Carried(j) ==
  \/ j \in pushing \/ InQueue(j) \/ loop.job = j
  \/ run[j] \in {"spawned", "processing", "failed", "requeue"}
  \/ tracking[j].status = "failed"

Done(t) == \E j \in processed : tracking[j].task = t

\* An accepted task is not lost: until it has been processed some job carries
\* it.  This is what one kind of error at a time leaves standing: an update of
\* a row that fails, or an enqueue that fails.  (With both, or with an error
\* in dequeue, in the first read of a spawned task, or a crash, tasks are
\* lost: see the README.)
Recoverable == Faults \subseteq {"update"} \/ Faults \subseteq {"enqueue"}

AcceptedIsCarried ==
  Recoverable =>
    \A t \in accepted : Done(t) \/ \E j \in Jobs : tracking[j].task = t /\ Carried(j)

\* What the queue promises to the mutations: see TaskPromise.
Promise == INSTANCE TaskPromise WITH
  asked <- {t \in Tasks : \E j \in Jobs : tracking[j].task = t},
  open <- {t \in Tasks : \E j \in Jobs : tracking[j].task = t /\ Carried(j)},
  done <- {t \in Tasks : Done(t)}

\* The queue, the worker and retry-jobs together keep that promise.
KeepsPromise == Promise!Spec

\* With a server that keeps running an accepted task is processed.
AcceptedIsProcessed == \A t \in Tasks : t \in accepted ~> Done(t)
=============================================================================
