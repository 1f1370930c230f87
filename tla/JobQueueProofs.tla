--------------------------- MODULE JobQueueProofs ---------------------------
(***************************************************************************)
(* Proofs about JobQueue, for any sets of tasks, job ids and faults.       *)
(*                                                                         *)
(* The inductive invariant JInv follows a job: it is in at most one of the *)
(* hands of enqueue, the Redis list and dequeue, where its row is "queued" *)
(* and it has not been spawned; from then on its row is not "queued".  The *)
(* invariant Kept adds which jobs carry an accepted task.                  *)
(***************************************************************************)
EXTENDS JobQueue, SequenceTheorems, TLAPS

Distinct == \A i, k \in 1..Len(queue) : queue[i] = queue[k] => i = k

Waits(j) == InQueue(j) \/ j \in pushing \/ loop.job = j

JobOK(j) ==
  /\ Waits(j) => tracking[j].status = "queued" /\ run[j] = "none"
  /\ ~(InQueue(j) /\ j \in pushing)
  /\ ~(InQueue(j) /\ loop.job = j)
  /\ ~(j \in pushing /\ loop.job = j)

RowOK(j) ==
  /\ tracking[j].status = "absent" <=> tracking[j].task = NoTask
  /\ run[j] # "none" => tracking[j].status \notin {"absent", "queued"}
  /\ run[j] \in {"spawned", "processing", "succeeded", "failed"} => tracking[j].status = "processing"
  /\ run[j] = "succeeded" => j \in processed
  /\ tracking[j].status = "completed" => j \in processed
  /\ tracking[j].status = "absent" => j \notin processed

ToolOK ==
  /\ \A j \in tool.todo : tracking[j].status = "failed"
  /\ tool.pc = "mark" =>
       /\ tool.job \in Jobs /\ tool.job \notin tool.todo
       /\ tracking[tool.job].status = "failed" /\ tool.job \in processed

JInv ==
  /\ TypeOK
  /\ Distinct
  /\ \A j \in Jobs : JobOK(j) /\ RowOK(j)
  /\ loop.pc = "popped" <=> loop.job \in Jobs
  /\ ToolOK

-----------------------------------------------------------------------------
(* The Redis list.                                                         *)

LEMMA AppendQueue ==
  ASSUME queue \in Seq(Jobs), Distinct, NEW j \in Jobs, ~InQueue(j), queue' = Append(queue, j)
  PROVE  /\ queue' \in Seq(Jobs) /\ Distinct'
         /\ \A k \in Jobs : InQueue(k)' <=> InQueue(k) \/ k = j
<1>1. /\ queue' \in Seq(Jobs) /\ Len(queue') = Len(queue) + 1 /\ Len(queue) \in Nat
      /\ \A i \in 1..Len(queue) : queue'[i] = queue[i]
      /\ queue'[Len(queue) + 1] = j
  OBVIOUS
<1>2. Distinct'
  BY <1>1 DEF Distinct, InQueue
<1>3. ASSUME NEW k \in Jobs PROVE InQueue(k)' <=> InQueue(k) \/ k = j
  <2>1. InQueue(k)' => InQueue(k) \/ k = j
    BY <1>1 DEF InQueue
  <2>2. InQueue(k) => InQueue(k)'
    BY <1>1 DEF InQueue
  <2>3. InQueue(j)'
    BY <1>1 DEF InQueue
  <2> QED BY <2>1, <2>2, <2>3
<1> QED BY <1>1, <1>2, <1>3

LEMMA PopQueue ==
  ASSUME queue \in Seq(Jobs), Distinct, queue # <<>>, queue' = Tail(queue)
  PROVE  /\ Head(queue) \in Jobs /\ InQueue(Head(queue))
         /\ queue' \in Seq(Jobs) /\ Distinct'
         /\ \A k \in Jobs : InQueue(k)' <=> InQueue(k) /\ k # Head(queue)
<1>1. /\ queue' \in Seq(Jobs) /\ Len(queue') = Len(queue) - 1 /\ Len(queue) \in Nat \ {0}
      /\ \A i \in 1..Len(queue') : queue'[i] = queue[i + 1]
      /\ Head(queue) = queue[1] /\ Head(queue) \in Jobs
  BY HeadTailProperties, EmptySeq
<1>2. InQueue(Head(queue))
  BY <1>1 DEF InQueue
<1>3. Distinct'
  BY <1>1 DEF Distinct
<1>4. ASSUME NEW k \in Jobs PROVE InQueue(k)' <=> InQueue(k) /\ k # Head(queue)
  <2>1. InQueue(k)' => InQueue(k) /\ k # Head(queue)
    BY <1>1 DEF InQueue, Distinct
  <2>2. ASSUME InQueue(k), k # Head(queue) PROVE InQueue(k)'
    <3>1. PICK i \in 1..Len(queue) : queue[i] = k
      BY <2>2 DEF InQueue
    <3>2. i - 1 \in 1..Len(queue') /\ queue'[i - 1] = k
      BY <1>1, <2>2, <3>1
    <3> QED BY <3>2 DEF InQueue
  <2> QED BY <2>1, <2>2
<1> QED BY <1>1, <1>2, <1>3, <1>4

LEMMA SameQueue ==
  ASSUME queue' = queue
  PROVE  Distinct' = Distinct /\ \A k \in Jobs : InQueue(k)' = InQueue(k)
<1> QED BY DEF Distinct, InQueue

-----------------------------------------------------------------------------
(* JInv is an invariant.                                                   *)

LEMMA InitJInv == Init => JInv
<1> SUFFICES ASSUME Init PROVE JInv
  OBVIOUS
<1>1. TypeOK
  BY EmptySeq, NoTaskAssumption DEF Init, TypeOK, Row, RunState, Loop, Tool, NoTool, NextDequeue
<1>2. Distinct /\ \A j \in Jobs : ~InQueue(j)
  BY DEF Init, Distinct, InQueue
<1>3. \A j \in Jobs : JobOK(j) /\ RowOK(j)
  BY <1>2, NoJobAssumption DEF Init, JobOK, RowOK, Waits, NextDequeue
<1> QED BY <1>1, <1>2, <1>3, NoJobAssumption DEF Init, JInv, ToolOK, NextDequeue, NoTool

\* A new row for a task, by a request or by a run that failed.
LEMMA TrackStep ==
  ASSUME JInv, NEW k \in Jobs, NEW t \in Tasks, Track(k, t),
         run' \in [Jobs -> RunState],
         \A j \in Jobs : run'[j] = run[j] \/ (run[j] = "requeue" /\ run'[j] = "ended"),
         UNCHANGED <<queue, loop, tool, accepted, processed>>
  PROVE  JInv'
<1>1. /\ tracking[k].status = "absent" /\ tracking'[k] = [status |-> "queued", task |-> t]
      /\ \A j \in Jobs \ {k} : tracking'[j] = tracking[j]
      /\ pushing' = pushing \cup {k}
  BY DEF Track, Fresh, JInv, TypeOK
<1>2. run[k] = "none" /\ run'[k] = "none" /\ ~Waits(k)
  BY <1>1 DEF JInv, JobOK, RowOK
<1>3. TypeOK'
  BY <1>1 DEF Track, JInv, TypeOK, Row
<1>4. ASSUME NEW j \in Jobs PROVE JobOK(j)' /\ RowOK(j)'
  <2>1. CASE j = k
    BY <1>1, <1>2, <2>1, SameQueue, NoTaskAssumption DEF JInv, JobOK, RowOK, Waits
  <2>2. CASE j # k
    BY <1>1, <2>2, SameQueue DEF JInv, JobOK, RowOK, Waits
  <2> QED BY <2>1, <2>2
<1>5. ToolOK'
  BY <1>1 DEF JInv, ToolOK, TypeOK, Tool
<1> QED BY <1>3, <1>4, <1>5, SameQueue DEF JInv

\* A run that goes on, with what it writes.
LEMMA RunStep ==
  ASSUME JInv, NEW j \in Jobs, run[j] # "none", NEW after \in RunState \ {"none"},
         run' = [run EXCEPT ![j] = after],
         NEW status \in {"processing", "completed", "failed"},
         tracking' = [tracking EXCEPT ![j].status = status],
         processed' \in {processed, processed \cup {j}},
         after \in {"spawned", "processing", "succeeded", "failed"} => status = "processing",
         after = "succeeded" => j \in processed',
         status = "completed" => j \in processed',
         tracking[j].status = "failed" => status = "failed",
         UNCHANGED <<pushing, queue, loop, tool, accepted>>
  PROVE  JInv'
<1>1. /\ tracking'[j] = [tracking[j] EXCEPT !.status = status]
      /\ \A k \in Jobs \ {j} : tracking'[k] = tracking[k]
      /\ run'[j] = after /\ \A k \in Jobs \ {j} : run'[k] = run[k]
  BY DEF JInv, TypeOK
<1>2. TypeOK'
  BY <1>1 DEF JInv, TypeOK, Row
<1>3. ASSUME NEW k \in Jobs PROVE JobOK(k)' /\ RowOK(k)'
  <2>1. CASE k = j
    BY <1>1, <2>1, SameQueue DEF JInv, JobOK, RowOK, Waits, TypeOK, Row
  <2>2. CASE k # j
    BY <1>1, <2>2, SameQueue DEF JInv, JobOK, RowOK, Waits
  <2> QED BY <2>1, <2>2
<1>4. ToolOK'
  BY <1>1 DEF JInv, ToolOK, TypeOK, Tool, Row
<1> QED BY <1>2, <1>3, <1>4, SameQueue DEF JInv

\* The same row, written without a change.
LEMMA SameRow ==
  ASSUME JInv, NEW j \in Jobs, tracking' = tracking
  PROVE  tracking' = [tracking EXCEPT ![j].status = tracking[j].status]
<1> QED BY DEF JInv, TypeOK, Row

LEMMA ServerStep ==
  ASSUME JInv, NEW j \in Jobs, Server(j) \/ Errors(j)
  PROVE  JInv'
<1>1. CASE Push(j)
  <2>1. ~InQueue(j) /\ loop.job # j
    BY <1>1 DEF Push, JInv, JobOK
  <2>2. queue' \in Seq(Jobs) /\ Distinct' /\ \A k \in Jobs : InQueue(k)' <=> InQueue(k) \/ k = j
    BY <1>1, <2>1, AppendQueue DEF Push, JInv, TypeOK
  <2>3. TypeOK'
    <3>1. tracking[j].task \in Tasks
      BY <1>1, NoTaskAssumption DEF Push, JInv, JobOK, RowOK, Waits, TypeOK, Row
    <3> QED BY <1>1, <2>2, <3>1 DEF Push, JInv, TypeOK
  <2>4. ASSUME NEW k \in Jobs PROVE JobOK(k)' /\ RowOK(k)'
    BY <1>1, <2>1, <2>2 DEF Push, JInv, JobOK, RowOK, Waits
  <2> QED BY <1>1, <2>2, <2>3, <2>4 DEF Push, JInv, ToolOK
<1>2. CASE PushFails(j)
  BY <1>2, SameQueue DEF PushFails, JInv, TypeOK, JobOK, RowOK, Waits, ToolOK
<1>3. CASE Start(j) \/ StartFails(j)
  <2>1. PICK after \in {"processing", "ended"} : run' = [run EXCEPT ![j] = after]
    BY <1>3 DEF Start, StartFails, Runs
  <2>2. tracking[j].status = "processing" /\ run[j] = "spawned"
    BY <1>3 DEF Start, StartFails, Runs, JInv, RowOK
  <2> QED BY <1>3, <2>1, <2>2, RunStep, SameRow DEF Start, StartFails, RunState
<1>4. CASE Process(j)
  <2>1. tracking[j].status = "processing" /\ run[j] = "processing"
    BY <1>4 DEF Process, Runs, JInv, RowOK
  <2>2. CASE run' = [run EXCEPT ![j] = "succeeded"] /\ processed' = processed \cup {j}
    BY <1>4, <2>1, <2>2, RunStep, SameRow DEF Process, RunState
  <2>3. CASE run' = [run EXCEPT ![j] = "failed"] /\ processed' = processed
    <3>1. tracking' = [tracking EXCEPT ![j].status = "processing"]
      BY <1>4, <2>1, SameRow DEF Process
    <3>2. run[j] # "none" /\ "failed" \in RunState \ {"none"}
      BY <2>1 DEF RunState
    <3> QED BY <1>4, <2>1, <2>3, <3>1, <3>2, RunStep DEF Process
  <2> QED BY <1>4, <2>2, <2>3 DEF Process, Runs
<1>5. CASE Complete(j)
  <2>1. tracking[j].status = "processing" /\ run[j] = "succeeded" /\ j \in processed
    BY <1>5 DEF Complete, Runs, JInv, RowOK
  <2>2. PICK status \in {"processing", "completed"} :
          tracking' = [tracking EXCEPT ![j].status = status]
    BY <1>5, <2>1, SameRow DEF Complete, Mark
  <2>3. run[j] # "none" /\ "ended" \in RunState \ {"none"} /\ processed' = processed
    BY <1>5, <2>1 DEF Complete, RunState
  <2> QED BY <1>5, <2>1, <2>2, <2>3, RunStep DEF Complete, Runs
<1>6. CASE MarkFailed(j)
  <2>1. tracking[j].status = "processing" /\ run[j] = "failed"
    BY <1>6 DEF MarkFailed, Runs, JInv, RowOK
  <2>2. PICK status \in {"processing", "failed"} :
          tracking' = [tracking EXCEPT ![j].status = status]
    BY <1>6, <2>1, SameRow DEF MarkFailed, Mark
  <2>3. run[j] # "none" /\ "requeue" \in RunState \ {"none"} /\ processed' = processed
    BY <1>6, <2>1 DEF MarkFailed, RunState
  <2> QED BY <1>6, <2>1, <2>2, <2>3, RunStep DEF MarkFailed, Runs
<1>7. CASE Requeue(j)
  <2>1. PICK k \in Jobs : Track(k, tracking[j].task)
    BY <1>7 DEF Requeue
  <2>2. tracking[j].task \in Tasks
    BY <1>7, NoTaskAssumption DEF Requeue, Runs, JInv, RowOK, TypeOK, Row
  <2>3. /\ run' \in [Jobs -> RunState]
        /\ \A i \in Jobs : run'[i] = run[i] \/ (run[i] = "requeue" /\ run'[i] = "ended")
    BY <1>7 DEF Requeue, Runs, JInv, TypeOK, RunState
  <2> QED BY <1>7, <2>1, <2>2, <2>3, TrackStep DEF Requeue
<1>8. CASE RequeueFails(j)
  <2>1. tracking[j].status \in {"processing", "completed", "failed"} /\ run[j] = "requeue"
    BY <1>8 DEF RequeueFails, Runs, JInv, RowOK, TypeOK, Row
  <2>2. tracking[j].status = "completed" => j \in processed
    BY DEF JInv, RowOK
  <2>3. run[j] # "none" /\ "ended" \in RunState \ {"none"} /\ processed' = processed
    BY <1>8, <2>1 DEF RequeueFails, RunState
  <2>4. PICK status \in {"processing", "completed", "failed"} :
          status = tracking[j].status /\ tracking' = [tracking EXCEPT ![j].status = status]
    BY <1>8, <2>1, SameRow DEF RequeueFails
  <2> QED BY <1>8, <2>1, <2>2, <2>3, <2>4, RunStep DEF RequeueFails, Runs
<1> QED BY <1>1, <1>2, <1>3, <1>4, <1>5, <1>6, <1>7, <1>8 DEF Server, Errors

LEMMA DequeueStep ==
  ASSUME JInv, Dequeue \/ DequeueFails
  PROVE  JInv'
<1>1. CASE Pop
  <2> DEFINE h == Head(queue)
  <2>1. /\ h \in Jobs /\ InQueue(h) /\ queue' \in Seq(Jobs) /\ Distinct'
        /\ \A k \in Jobs : InQueue(k)' <=> InQueue(k) /\ k # h
    BY <1>1, PopQueue DEF Pop, JInv, TypeOK
  <2>2. loop' = [pc |-> "popped", job |-> h] /\ loop.job \notin Jobs
    BY <1>1 DEF Pop, JInv
  <2>3. TypeOK'
    BY <1>1, <2>1, <2>2 DEF Pop, JInv, TypeOK, Loop
  <2>4. ASSUME NEW k \in Jobs PROVE JobOK(k)' /\ RowOK(k)'
    BY <1>1, <2>1, <2>2 DEF Pop, JInv, JobOK, RowOK, Waits
  <2> QED BY <1>1, <2>1, <2>2, <2>3, <2>4 DEF Pop, JInv, ToolOK
<1>2. CASE Take \/ DequeueFails
  <2>1. loop'.job = NoJob /\ loop'.pc \in {"waiting", "stopped"} /\ loop' \in Loop
    BY <1>2 DEF Take, DequeueFails, NextDequeue, Loop
  <2>2. CASE tracking' = tracking /\ run' = run
    BY <1>2, <2>1, <2>2, SameQueue, NoJobAssumption
       DEF Take, DequeueFails, JInv, TypeOK, JobOK, RowOK, Waits, ToolOK
  <2>3. CASE /\ loop.pc = "popped"
             /\ tracking' = [tracking EXCEPT ![loop.job].status = "processing"]
             /\ run' \in {run, [run EXCEPT ![loop.job] = "spawned"]}
    <3> DEFINE j == loop.job
    <3>0. UNCHANGED <<pushing, queue, tool, processed>>
      BY <1>2 DEF Take, DequeueFails
    <3>1. j \in Jobs /\ tracking[j].status = "queued" /\ run[j] = "none"
      BY <2>3 DEF JInv, JobOK, Waits
    <3>2. /\ tracking'[j] = [tracking[j] EXCEPT !.status = "processing"]
          /\ tracking'[j].status = "processing" /\ tracking'[j].task = tracking[j].task
          /\ \A k \in Jobs \ {j} : tracking'[k] = tracking[k] /\ run'[k] = run[k]
          /\ run'[j] \in {"none", "spawned"}
      BY <2>3, <3>1 DEF JInv, TypeOK, Row
    <3>3. TypeOK'
      <4>1. [tracking[j] EXCEPT !.status = "processing"] \in Row
        <5>1. tracking[j] \in Row
          BY <3>1 DEF JInv, TypeOK
        <5> QED BY <5>1 DEF Row
      <4>2. tracking' \in [Jobs -> Row]
        BY <2>3, <4>1 DEF JInv, TypeOK
      <4>3. run' \in [Jobs -> RunState]
        BY <2>3 DEF JInv, TypeOK, RunState
      <4>4. accepted' = accepted
        BY <1>2 DEF Take, DequeueFails
      <4> QED BY <2>1, <3>0, <4>2, <4>3, <4>4 DEF JInv, TypeOK
    <3>4. ASSUME NEW k \in Jobs PROVE JobOK(k)' /\ RowOK(k)'
      <4>1. CASE k = j
        <5>1. JobOK(k) /\ RowOK(k) /\ loop.job = k /\ loop'.job # k
          BY <2>1, <3>1, <4>1, NoJobAssumption DEF JInv
        <5>2. ~InQueue(k)' /\ k \notin pushing' /\ ~Waits(k)'
          BY <3>0, <5>1, SameQueue DEF JobOK, Waits
        <5>3. JobOK(k)'
          BY <5>1, <5>2 DEF JobOK
        <5>4. /\ tracking'[k].status = "processing" /\ tracking'[k].task = tracking[k].task
              /\ tracking[k].status = "queued" /\ run'[k] \in {"none", "spawned"}
              /\ processed' = processed
          BY <3>0, <3>1, <3>2, <4>1
        <5>5. RowOK(k)'
          BY <5>1, <5>4 DEF RowOK
        <5> QED BY <5>3, <5>5
      <4>2. CASE k # j
        BY <2>1, <3>0, <3>1, <3>2, <4>2, SameQueue, NoJobAssumption
           DEF JInv, JobOK, RowOK, Waits
      <4> QED BY <4>1, <4>2
    <3>5. ToolOK'
      BY <3>0, <3>1, <3>2 DEF JInv, ToolOK, TypeOK, Tool
    <3> QED BY <1>2, <2>1, <3>3, <3>4, <3>5, SameQueue, NoJobAssumption
           DEF Take, DequeueFails, JInv
  <2> QED BY <1>2, <2>2, <2>3 DEF Take, DequeueFails
<1> QED BY <1>1, <1>2 DEF Dequeue

LEMMA RetryStep ==
  ASSUME JInv, Retry
  PROVE  JInv'
<1>1. CASE RetryJobs \/ RetryEnds
  <2>1. tool' \in Tool /\ tool'.pc # "mark" /\ \A j \in tool'.todo : tracking[j].status = "failed"
    BY <1>1 DEF RetryJobs, RetryEnds, NoTool, Tool
  <2>2. UNCHANGED <<tracking, pushing, queue, loop, run, accepted, processed>>
    BY <1>1 DEF RetryJobs, RetryEnds
  <2>3. ASSUME NEW k \in Jobs PROVE JobOK(k)' /\ RowOK(k)'
    BY <2>2, SameQueue DEF JInv, JobOK, RowOK, Waits
  <2> QED BY <2>1, <2>2, <2>3, SameQueue DEF JInv, TypeOK, ToolOK
<1>2. CASE RetryProcess
  BY <1>2, SameQueue DEF RetryProcess, JInv, TypeOK, Tool, JobOK, RowOK, Waits, ToolOK
<1>3. CASE RetryMark
  <2>1. /\ tool.job \in Jobs /\ tracking[tool.job].status = "failed" /\ tool.job \in processed
        /\ run[tool.job] \notin {"spawned", "processing", "succeeded", "failed"}
        /\ ~Waits(tool.job)
    BY <1>3 DEF RetryMark, JInv, ToolOK, RowOK, JobOK
  <2>2. PICK status \in {"failed", "completed"} :
          tracking' = [tracking EXCEPT ![tool.job].status = status]
    BY <1>3, <2>1, SameRow DEF RetryMark, Mark
  <2>3. /\ tracking'[tool.job] = [tracking[tool.job] EXCEPT !.status = status]
        /\ \A k \in Jobs \ {tool.job} : tracking'[k] = tracking[k]
    BY <2>1, <2>2 DEF JInv, TypeOK
  <2>4. TypeOK'
    <3>1. [tracking[tool.job] EXCEPT !.status = status] \in Row
      <4>1. tracking[tool.job] \in Row
        BY <2>1 DEF JInv, TypeOK
      <4> QED BY <4>1 DEF Row
    <3>2. tracking' \in [Jobs -> Row]
      BY <2>2, <3>1 DEF JInv, TypeOK
    <3>3. tool' \in Tool
      BY <1>3 DEF RetryMark, JInv, TypeOK, Tool
    <3> QED BY <1>3, <3>2, <3>3 DEF RetryMark, JInv, TypeOK
  <2>5. ASSUME NEW k \in Jobs PROVE JobOK(k)' /\ RowOK(k)'
    <3>1. CASE k = tool.job
      BY <1>3, <2>1, <2>3, <3>1, SameQueue DEF RetryMark, JInv, JobOK, RowOK, Waits, TypeOK, Row
    <3>2. CASE k # tool.job
      BY <1>3, <2>3, <3>2, SameQueue DEF RetryMark, JInv, JobOK, RowOK, Waits
    <3> QED BY <3>1, <3>2
  <2>6. ToolOK'
    BY <1>3, <2>1, <2>3 DEF RetryMark, JInv, ToolOK, TypeOK, Tool
  <2> QED BY <1>3, <2>4, <2>5, <2>6, SameQueue DEF RetryMark, JInv
<1> QED BY <1>1, <1>2, <1>3 DEF Retry

LEMMA NextJInv == JInv /\ [Next]_vars => JInv'
<1> SUFFICES ASSUME JInv, [Next]_vars PROVE JInv'
  OBVIOUS
<1>1. ASSUME NEW t \in Tasks, Enqueue(t) PROVE JInv'
  <2>1. PICK j \in Jobs : Track(j, t)
    BY <1>1 DEF Enqueue
  <2> QED BY <1>1, <2>1, TrackStep DEF Enqueue, JInv, TypeOK
<1>2. CASE Crash
  BY <1>2, SameQueue, NoJobAssumption
     DEF Crash, NextDequeue, JInv, TypeOK, Loop, RunState, JobOK, RowOK, Waits, ToolOK
<1>3. CASE UNCHANGED vars
  BY <1>3, SameQueue DEF vars, JInv, TypeOK, JobOK, RowOK, Waits, ToolOK
<1> QED BY <1>1, <1>2, <1>3, ServerStep, DequeueStep, RetryStep DEF Next

THEOREM SpecJInv == Spec => []JInv
<1> QED BY InitJInv, NextJInv, PTL DEF Spec

\* Every reachable state is well typed.
THEOREM QueueTypeCorrect == Spec => []TypeOK
<1> QED BY SpecJInv, PTL DEF JInv

\* Rows tell the truth: "completed" is only written to the row of a job whose
\* task was processed, and what dequeue pops is always "queued".
THEOREM RowsAreTrue == Spec => [](CompletedIsProcessed /\ PoppedIsQueued)
<1>1. JInv => CompletedIsProcessed /\ PoppedIsQueued
  BY DEF JInv, RowOK, JobOK, Waits, CompletedIsProcessed, PoppedIsQueued
<1> QED BY <1>1, SpecJInv, PTL

\* What the table promises about the order of things: no job is spawned twice
\* and no completed row is taken back.
THEOREM JobsRunOnce == Spec => RunsOnce /\ CompletedIsFinal
<1> DEFINE Once == \A j \in Jobs : run'[j] = "spawned" => run[j] \in {"none", "spawned"}
           Final == \A j \in Jobs :
             tracking[j].status = "completed" => tracking'[j].status = "completed"
<1>1. JInv /\ [Next]_vars => Once /\ Final
  <2> SUFFICES ASSUME JInv, [Next]_vars, NEW j \in Jobs
               PROVE  /\ run'[j] = "spawned" => run[j] \in {"none", "spawned"}
                      /\ tracking[j].status = "completed" => tracking'[j].status = "completed"
    OBVIOUS
  <2>0. j \in DOMAIN run /\ tracking[j] \in Row /\ tracking \in [Jobs -> Row]
    BY DEF JInv, TypeOK
  <2>1. ASSUME NEW t \in Tasks, Enqueue(t) PROVE UNCHANGED <<run>> /\ (~Fresh(j) => tracking'[j] = tracking[j])
    BY <2>0, <2>1 DEF Enqueue, Track
  <2>2. ASSUME NEW k \in Jobs, Server(k) \/ Errors(k)
        PROVE  /\ run'[j] = "spawned" => run[j] = "spawned"
               /\ tracking[j].status = "completed" => tracking'[j].status = "completed"
    <3>1. CASE Requeue(k)
      BY <2>0, <3>1 DEF Requeue, Runs, Track, Fresh
    <3>2. CASE Complete(k)
      BY <2>0, <3>2 DEF Complete, Runs, Mark, JInv, RowOK
    <3>3. CASE MarkFailed(k)
      BY <2>0, <3>3 DEF MarkFailed, Runs, Mark, JInv, RowOK
    <3>4. CASE Push(k) \/ Start(k) \/ Process(k) \/ Errors(k)
      BY <2>0, <3>4 DEF Push, Start, Process, Errors, PushFails, StartFails, RequeueFails, Runs
    <3> QED BY <2>2, <3>1, <3>2, <3>3, <3>4 DEF Server
  <2>3. CASE Pop \/ Crash \/ UNCHANGED vars
    BY <2>0, <2>3 DEF Pop, Crash, vars
  <2>4. CASE Take \/ DequeueFails
    <3>1. loop.pc = "popped" => tracking[loop.job].status = "queued" /\ run[loop.job] = "none"
      BY DEF JInv, JobOK, Waits
    <3> QED BY <2>0, <2>4, <3>1 DEF Take, DequeueFails, JInv, TypeOK
  <2>5. CASE Retry
    <3>1. CASE RetryMark
      BY <2>0, <3>1 DEF RetryMark, Mark, JInv, ToolOK
    <3>2. CASE RetryJobs \/ RetryProcess \/ RetryEnds
      BY <3>2 DEF RetryJobs, RetryProcess, RetryEnds
    <3> QED BY <2>5, <3>1, <3>2 DEF Retry
  <2> QED BY <2>1, <2>2, <2>3, <2>4, <2>5 DEF Next, Dequeue, Fresh
<1> QED BY <1>1, SpecJInv, PTL DEF Spec, RunsOnce, CompletedIsFinal

-----------------------------------------------------------------------------
(* No accepted task is lost.  When only enqueue fails the task of a failed *)
(* run is still carried by its failed row; when only updates fail, by the  *)
(* job it is enqueued as.                                                  *)

Held(j) ==
  \/ InQueue(j) \/ loop.job = j
  \/ run[j] \in {"spawned", "processing", "failed"}
  \/ tracking[j].status = "failed"

HeldFor(t) == \E j \in Jobs : tracking[j].task = t /\ (Held(j) \/ j \in processed)
CarriedFor(t) == \E j \in Jobs : tracking[j].task = t /\ (Carried(j) \/ j \in processed)

Kept ==
  /\ Faults \subseteq {"enqueue"} => \A t \in accepted : HeldFor(t)
  /\ Faults \subseteq {"update"} => \A t \in accepted : CarriedFor(t)

\* A row keeps its task.
LEMMA TasksKept ==
  ASSUME JInv, [Next]_vars, NEW j \in Jobs
  PROVE  /\ tracking[j].task # NoTask => tracking'[j].task = tracking[j].task
         /\ j \in processed => j \in processed'
<1>0. tracking \in [Jobs -> Row] /\ (tracking[j].task # NoTask => ~Fresh(j))
  BY DEF JInv, TypeOK, RowOK, Fresh
<1>1. ASSUME NEW t \in Tasks, Enqueue(t)
      PROVE  /\ tracking[j].task # NoTask => tracking'[j].task = tracking[j].task
             /\ processed' = processed
  BY <1>0, <1>1 DEF Enqueue, Track
<1>2. ASSUME NEW k \in Jobs, Server(k) \/ Errors(k)
      PROVE  /\ tracking[j].task # NoTask => tracking'[j].task = tracking[j].task
             /\ j \in processed => j \in processed'
  <2>1. CASE Requeue(k)
    BY <1>0, <2>1 DEF Requeue, Track
  <2>2. CASE Complete(k) \/ MarkFailed(k)
    BY <1>0, <2>2 DEF Complete, MarkFailed, Mark, Row
  <2>3. CASE Push(k) \/ Start(k) \/ Process(k) \/ Errors(k)
    BY <2>3 DEF Push, Start, Process, Errors, PushFails, StartFails, RequeueFails
  <2> QED BY <1>2, <2>1, <2>2, <2>3 DEF Server
<1>3. CASE Pop \/ Crash \/ UNCHANGED vars
  BY <1>3 DEF Pop, Crash, vars
<1>4. CASE Take \/ DequeueFails
  BY <1>0, <1>4 DEF Take, DequeueFails, Row
<1>5. CASE RetryMark
  BY <1>0, <1>5 DEF RetryMark, Mark, Row
<1>6. CASE RetryJobs \/ RetryProcess \/ RetryEnds
  BY <1>6 DEF RetryJobs, RetryProcess, RetryEnds
<1> QED BY <1>1, <1>2, <1>3, <1>4, <1>5, <1>6 DEF Next, Dequeue, Retry

\* A job that is held goes on being held or has been processed; a run that
\* has failed may leave no trace of it in its row.
LEMMA HeldStep ==
  ASSUME JInv, JInv', [Next]_vars, Faults \cap {"dequeue", "read", "crash"} = {},
         NEW j \in Jobs, tracking[j].task # NoTask, Held(j) \/ j \in processed
  PROVE  /\ (Held(j) \/ j \in processed)' \/ ("update" \in Faults /\ run'[j] = "requeue")
<1>0. /\ tracking \in [Jobs -> Row] /\ ~Fresh(j) /\ run \in [Jobs -> RunState]
      /\ queue \in Seq(Jobs) /\ Distinct
  BY DEF JInv, TypeOK, RowOK, Fresh
<1>1. CASE j \in processed
  BY <1>1, TasksKept
<1>2. CASE j \notin processed
  <2>1. Held(j)
    BY <1>2
  <2>2. ASSUME NEW t \in Tasks, Enqueue(t) PROVE Held(j)'
    BY <1>0, <2>1, <2>2, SameQueue DEF Enqueue, Track, Held
  <2>3. ASSUME NEW k \in Jobs, Server(k)
        PROVE  (Held(j) \/ j \in processed)' \/ ("update" \in Faults /\ run'[j] = "requeue")
    <3>1. CASE Push(k)
      <4>1. ~InQueue(k)
        BY <3>1 DEF Push, JInv, JobOK
      <4>2. InQueue(j) => InQueue(j)'
        BY <1>0, <3>1, <4>1, AppendQueue DEF Push
      <4> QED BY <2>1, <3>1, <4>2 DEF Push, Held
    <3>2. CASE Start(k) \/ Process(k)
      BY <1>0, <2>1, <3>2, SameQueue DEF Start, Process, Runs, Held
    <3>3. CASE Complete(k)
      BY <1>0, <1>2, <2>1, <3>3, SameQueue DEF Complete, Runs, Mark, Held, JInv, RowOK
    <3>4. CASE MarkFailed(k)
      BY <1>0, <2>1, <3>4, SameQueue DEF MarkFailed, Runs, Mark, Held, Row
    <3>5. CASE Requeue(k)
      BY <1>0, <2>1, <3>5, SameQueue DEF Requeue, Runs, Track, Held
    <3> QED BY <2>3, <3>1, <3>2, <3>3, <3>4, <3>5 DEF Server
  <2>4. ASSUME NEW k \in Jobs, Errors(k) PROVE Held(j)'
    BY <1>0, <2>1, <2>4, SameQueue DEF Errors, PushFails, StartFails, RequeueFails, Runs, Held
  <2>5. CASE Pop
    <3>1. InQueue(j) => InQueue(j)' \/ j = Head(queue)
      BY <1>0, <2>5, PopQueue DEF Pop
    <3> QED BY <2>1, <2>5, <3>1 DEF Pop, Held, JInv
  <2>6. CASE Take
    <3>1. loop.job \in Jobs /\ tracking[loop.job].status = "queued"
      BY <2>6 DEF Take, JInv, JobOK, Waits
    <3> QED BY <1>0, <2>1, <2>6, <3>1, SameQueue DEF Take, Held
  <2>7. CASE RetryMark
    BY <1>0, <1>2, <2>1, <2>7, SameQueue DEF RetryMark, Mark, Held, JInv, ToolOK
  <2>8. CASE RetryJobs \/ RetryProcess \/ RetryEnds \/ UNCHANGED vars
    BY <2>1, <2>8, SameQueue DEF RetryJobs, RetryProcess, RetryEnds, vars, Held
  <2>9. ~DequeueFails /\ ~Crash
    BY DEF DequeueFails, Crash
  <2> QED BY <2>2, <2>3, <2>4, <2>5, <2>6, <2>7, <2>8, <2>9 DEF Next, Dequeue, Retry
<1> QED BY <1>1, <1>2

\* What else a carried job can become.
LEMMA CarriedStep ==
  ASSUME JInv, JInv', [Next]_vars, Faults \subseteq {"update"},
         NEW t \in Tasks, NEW j \in Jobs, tracking[j].task = t, Carried(j) \/ j \in processed
  PROVE  CarriedFor(t)'
<1>0. tracking'[j].task = t /\ t # NoTask
  BY TasksKept, NoTaskAssumption
<1>1. CASE Held(j) \/ j \in processed
  BY <1>0, <1>1, HeldStep DEF Held, Carried, CarriedFor
<1>2. CASE j \in pushing
  <2>1. CASE Push(j)
    <3>1. InQueue(j)'
      BY <2>1, AppendQueue DEF Push, JInv, JobOK, TypeOK
    <3> QED BY <1>0, <3>1 DEF Carried, CarriedFor
  <2>2. CASE ~Push(j)
    <3>1. j \in pushing'
      <4>1. \A k \in Jobs : Push(k) => k # j
        BY <2>2
      <4>2. \A k \in Jobs : ~Errors(k)
        BY DEF Errors, PushFails, StartFails, RequeueFails
      <4>3. ~Crash /\ ~DequeueFails
        BY DEF Crash, DequeueFails
      <4> QED BY <1>2, <4>1, <4>2, <4>3
             DEF Next, Enqueue, Track, Server, Push, Start, Process, Complete, MarkFailed, Requeue,
                 Dequeue, Pop, Take, Retry, RetryJobs, RetryProcess, RetryMark, RetryEnds, vars
    <3> QED BY <1>0, <3>1 DEF Carried, CarriedFor
  <2> QED BY <2>1, <2>2
<1>3. CASE run[j] = "requeue"
  <2>1. CASE Requeue(j)
    <3>1. PICK k \in Jobs : Track(k, t)
      BY <2>1 DEF Requeue
    <3>2. tracking'[k].task = t /\ k \in pushing'
      BY <3>1 DEF Track, JInv, TypeOK
    <3> QED BY <3>2 DEF Carried, CarriedFor
  <2>2. CASE ~Requeue(j)
    <3>1. run'[j] = "requeue"
      <4>1. \A k \in Jobs : Requeue(k) => k # j
        BY <2>2
      <4>2. \A k \in Jobs : ~Errors(k)
        BY DEF Errors, PushFails, StartFails, RequeueFails
      <4>3. ~Crash /\ ~DequeueFails
        BY DEF Crash, DequeueFails
      <4>4. Take => run[loop.job] = "none"
        BY DEF Take, JInv, JobOK, Waits
      <4>5. run \in [Jobs -> RunState]
        BY DEF JInv, TypeOK
      <4> QED BY <1>3, <4>1, <4>2, <4>3, <4>4, <4>5
             DEF Next, Enqueue, Server, Push, Start, Process, Complete, MarkFailed, Requeue, Runs,
                 Dequeue, Pop, Take, Retry, RetryJobs, RetryProcess, RetryMark, RetryEnds, vars
    <3> QED BY <1>0, <3>1 DEF Carried, CarriedFor
  <2> QED BY <2>1, <2>2
<1> QED BY <1>1, <1>2, <1>3 DEF Carried, Held

LEMMA KeptStep == JInv /\ JInv' /\ Kept /\ [Next]_vars => Kept'
<1> SUFFICES ASSUME JInv, JInv', Kept, [Next]_vars PROVE Kept'
  OBVIOUS
<1>1. ASSUME NEW t \in accepted', t \notin accepted PROVE HeldFor(t)' /\ CarriedFor(t)'
  <2>1. PICK j \in Jobs : Push(j) /\ t = tracking[j].task
    BY <1>1 DEF Next, Enqueue, Server, Errors, Push, PushFails, Start, StartFails, Process, Complete,
                MarkFailed, Requeue, RequeueFails, Dequeue, Pop, Take, DequeueFails, Crash,
                Retry, RetryJobs, RetryProcess, RetryMark, RetryEnds, vars
  <2>2. InQueue(j)'
    BY <2>1, AppendQueue DEF Push, JInv, JobOK, TypeOK
  <2> QED BY <2>1, <2>2 DEF Push, HeldFor, CarriedFor, Held, Carried
<1>2. ASSUME NEW t \in accepted, Faults \subseteq {"enqueue"} PROVE HeldFor(t)'
  <2>1. PICK j \in Jobs : tracking[j].task = t /\ (Held(j) \/ j \in processed)
    BY <1>2 DEF Kept, HeldFor
  <2>2. t # NoTask
    BY NoTaskAssumption DEF JInv, TypeOK
  <2> QED BY <1>2, <2>1, <2>2, HeldStep, TasksKept DEF HeldFor
<1>3. ASSUME NEW t \in accepted, Faults \subseteq {"update"} PROVE CarriedFor(t)'
  <2>1. PICK j \in Jobs : tracking[j].task = t /\ (Carried(j) \/ j \in processed)
    BY <1>3 DEF Kept, CarriedFor
  <2> QED BY <1>3, <2>1, CarriedStep DEF JInv, TypeOK
<1> QED BY <1>1, <1>2, <1>3 DEF Kept

\* An accepted task is processed or still carried by some job, when only one
\* kind of error occurs: enqueue fails, or updates of rows do.
THEOREM NothingAcceptedIsLost == Spec => []AcceptedIsCarried
<1>1. Init => Kept
  BY DEF Init, Kept
<1>2. Kept => AcceptedIsCarried
  BY DEF Kept, HeldFor, CarriedFor, Held, Carried, AcceptedIsCarried, Recoverable, Done
<1> QED BY <1>1, <1>2, SpecJInv, KeptStep, PTL DEF Spec

-----------------------------------------------------------------------------
(* The queue keeps TaskPromise.                                            *)

Asked == {t \in Tasks : \E j \in Jobs : tracking[j].task = t}
Open == {t \in Tasks : \E j \in Jobs : tracking[j].task = t /\ Carried(j)}
DoneTasks == {t \in Tasks : Done(t)}

Step == Promise!Next \/ UNCHANGED <<Asked, Open, DoneTasks>>

\* The steps by which jobs move on or are lost.
LEMMA CloseStep ==
  ASSUME \A j \in Jobs : tracking'[j].task = tracking[j].task /\ (Carried(j)' => Carried(j)),
         processed \subseteq Jobs, processed' = processed
  PROVE  Promise!Close
<1>1. Asked' = Asked /\ Open' \in SUBSET Open /\ DoneTasks' = DoneTasks
  BY DEF Asked, Open, DoneTasks, Done
<1> QED BY <1>1 DEF Promise!Close, Asked, Open, DoneTasks

\* A task is processed, by a run or by retry-jobs.
LEMMA PerformStep ==
  ASSUME JInv, NEW j \in Jobs, NEW t \in Tasks, Carried(j), tracking[j].task = t,
         \A k \in Jobs : /\ tracking'[k].task = tracking[k].task
                         /\ Carried(k)' => Carried(k)
                         /\ k # j /\ Carried(k) => Carried(k)',
         processed' = processed \cup {j}
  PROVE  Promise!Perform(t)
<1>1. t \in Open /\ Asked' = Asked
  BY DEF Open, Asked
<1>2. DoneTasks' = DoneTasks \cup {t}
  BY DEF DoneTasks, Done, JInv, TypeOK
<1>3. Open' \in {Open, Open \ {t}}
  <2>1. Open' \in SUBSET Open
    BY DEF Open
  <2>2. ASSUME NEW u \in Open, u # t PROVE u \in Open'
    BY <2>2 DEF Open
  <2> QED BY <1>1, <2>1, <2>2
<1> QED BY <1>1, <1>2, <1>3 DEF Promise!Perform, Asked, Open, DoneTasks

LEMMA ServerPromise ==
  ASSUME JInv, JInv', NEW j \in Jobs, Server(j) \/ Errors(j)
  PROVE  Step
<1>0. /\ tracking \in [Jobs -> Row] /\ run \in [Jobs -> RunState]
      /\ run[j] # "none" => tracking[j].task \in Tasks
      /\ processed \subseteq Jobs
  BY NoTaskAssumption DEF JInv, TypeOK, RowOK, Row
<1>1. CASE Push(j)
  <2>1. \A k \in Jobs : InQueue(k)' <=> InQueue(k) \/ k = j
    BY <1>1, AppendQueue DEF Push, JInv, JobOK, TypeOK
  <2>2. \A k \in Jobs : Carried(k)' => Carried(k)
    BY <1>1, <2>1 DEF Push, Carried
  <2> QED BY <1>0, <1>1, <2>2, CloseStep DEF Push, Step, Promise!Next
<1>2. CASE Process(j) /\ run'[j] = "succeeded"
  <2>1. /\ \A k \in Jobs : /\ Carried(k)' => Carried(k)
                           /\ k # j /\ Carried(k) => Carried(k)'
        /\ Carried(j) /\ processed' = processed \cup {j}
    BY <1>0, <1>2, SameQueue DEF Process, Runs, Carried
  <2>2. PICK t \in Tasks : tracking[j].task = t
    BY <1>0, <1>2 DEF Process, Runs
  <2>3. Promise!Perform(t)
    BY <1>2, <2>1, <2>2, PerformStep DEF Process
  <2> QED BY <2>3 DEF Step, Promise!Next
<1>3. CASE Process(j) /\ run'[j] # "succeeded"
  <2>1. processed' = processed /\ \A k \in Jobs : Carried(k)' => Carried(k)
    BY <1>0, <1>3, SameQueue DEF Process, Runs, Carried
  <2> QED BY <1>0, <1>3, <2>1, CloseStep DEF Process, Step, Promise!Next
<1>4. CASE Start(j) \/ Errors(j)
  <2>1. \A k \in Jobs : Carried(k)' => Carried(k)
    BY <1>0, <1>4, SameQueue DEF Start, Errors, PushFails, StartFails, RequeueFails, Runs, Carried
  <2> QED BY <1>0, <1>4, <2>1, CloseStep
         DEF Start, Errors, PushFails, StartFails, RequeueFails, Step, Promise!Next
<1>5. CASE Complete(j) \/ MarkFailed(j)
  <2>1. \A k \in Jobs : tracking'[k].task = tracking[k].task /\ (Carried(k)' => Carried(k))
    BY <1>0, <1>5, SameQueue DEF Complete, MarkFailed, Mark, Runs, Carried, Row
  <2> QED BY <1>0, <1>5, <2>1, CloseStep DEF Complete, MarkFailed, Step, Promise!Next
<1>6. CASE Requeue(j)
  <2>1. PICK k \in Jobs : Track(k, tracking[j].task)
    BY <1>6 DEF Requeue
  <2>2. /\ tracking[k].task = NoTask /\ tracking'[k].task = tracking[j].task
        /\ \A i \in Jobs \ {k} : tracking'[i] = tracking[i]
        /\ pushing' = pushing \cup {k} /\ k # j
    BY <1>0, <1>6, <2>1 DEF Requeue, Runs, Track, Fresh, JInv, RowOK, TypeOK
  <2>3. Asked' = Asked /\ DoneTasks' = DoneTasks
    <3>1. k \notin processed
      BY <2>2 DEF JInv, RowOK
    <3>2. Asked' = Asked
      <4>1. ASSUME NEW t \in Tasks
            PROVE  (\E i \in Jobs : tracking'[i].task = t) <=> (\E i \in Jobs : tracking[i].task = t)
        BY <2>2, NoTaskAssumption
      <4> QED BY <4>1 DEF Asked
    <3>3. processed' = processed /\ \A i \in processed : tracking'[i] = tracking[i]
      BY <1>0, <1>6, <2>2, <3>1 DEF Requeue
    <3> QED BY <3>2, <3>3 DEF DoneTasks, Done
  <2>4. \A i \in Jobs \ {k, j} : Carried(i)' = Carried(i)
    BY <1>0, <1>6, <2>2, SameQueue DEF Requeue, Runs, Carried
  <2>5. Carried(k)' /\ Carried(j)
    BY <1>6, <2>2 DEF Requeue, Runs, Carried
  <2>6. Open' = Open
    <3>1. ASSUME NEW t \in Open PROVE t \in Open'
      <4>1. PICK i \in Jobs : tracking[i].task = t /\ Carried(i)
        BY DEF Open
      <4>2. i # k
        BY <2>2, <4>1, NoTaskAssumption DEF Open
      <4> QED BY <2>2, <2>4, <2>5, <4>1, <4>2 DEF Open
    <3>2. ASSUME NEW t \in Open' PROVE t \in Open
      <4>1. PICK i \in Jobs : tracking'[i].task = t /\ Carried(i)'
        BY DEF Open
      <4> QED BY <2>2, <2>4, <2>5, <4>1 DEF Open
    <3> QED BY <3>1, <3>2
  <2> QED BY <2>3, <2>6 DEF Step
<1> QED BY <1>1, <1>2, <1>3, <1>4, <1>5, <1>6 DEF Server

LEMMA LoopPromise ==
  ASSUME JInv, Dequeue \/ DequeueFails \/ Crash
  PROVE  Step
<1>0. tracking \in [Jobs -> Row] /\ run \in [Jobs -> RunState] /\ processed \subseteq Jobs
  BY DEF JInv, TypeOK
<1>1. CASE Pop
  <2>1. InQueue(Head(queue)) /\ \A k \in Jobs : InQueue(k)' => InQueue(k)
    BY <1>1, PopQueue DEF Pop, JInv, TypeOK
  <2>2. \A k \in Jobs : Carried(k)' => Carried(k)
    BY <1>1, <2>1 DEF Pop, Carried
  <2> QED BY <1>0, <1>1, <2>2, CloseStep DEF Pop, Step, Promise!Next
<1>2. CASE Take \/ DequeueFails
  <2>1. \A k \in Jobs : tracking'[k].task = tracking[k].task /\ (Carried(k)' => Carried(k))
    <3>1. /\ loop'.job \notin Jobs
          /\ \A k \in Jobs : run'[k] = run[k] \/ k = loop.job
          /\ \A k \in Jobs : \/ tracking'[k] = tracking[k]
                             \/ /\ tracking'[k].task = tracking[k].task
                                /\ tracking'[k].status = "processing"
          /\ UNCHANGED <<pushing, queue>>
      BY <1>0, <1>2, NoJobAssumption DEF Take, DequeueFails, NextDequeue, Row
    <3> QED BY <3>1, SameQueue DEF Carried
  <2> QED BY <1>0, <1>2, <2>1, CloseStep DEF Take, DequeueFails, Step, Promise!Next
<1>3. CASE Crash
  <2>1. \A k \in Jobs : Carried(k)' => Carried(k)
    BY <1>0, <1>3, SameQueue, NoJobAssumption DEF Crash, NextDequeue, Carried
  <2> QED BY <1>0, <1>3, <2>1, CloseStep DEF Crash, Step, Promise!Next
<1> QED BY <1>1, <1>2, <1>3 DEF Dequeue

LEMMA RetryPromise ==
  ASSUME JInv, Retry
  PROVE  Step
<1>0. tracking \in [Jobs -> Row] /\ tool.todo \subseteq Jobs /\ processed \subseteq Jobs
  BY DEF JInv, TypeOK, Tool
<1>1. CASE RetryJobs \/ RetryEnds
  <2>1. \A k \in Jobs : Carried(k)' => Carried(k)
    BY <1>1, SameQueue DEF RetryJobs, RetryEnds, Carried
  <2> QED BY <1>0, <1>1, <2>1, CloseStep DEF RetryJobs, RetryEnds, Step, Promise!Next
<1>2. CASE RetryProcess
  <2>1. \A k \in Jobs : tracking'[k].task = tracking[k].task /\ (Carried(k)' <=> Carried(k))
    BY <1>2, SameQueue DEF RetryProcess, Carried
  <2>2. CASE processed' = processed
    BY <1>0, <2>1, <2>2, CloseStep DEF Step, Promise!Next
  <2>3. CASE processed' # processed
    <3>1. PICK j \in tool.todo : processed' = processed \cup {j}
      BY <1>2, <2>3 DEF RetryProcess
    <3>2. j \in Jobs /\ Carried(j)
      BY <1>0, <3>1 DEF JInv, ToolOK, Carried
    <3>3. PICK t \in Tasks : tracking[j].task = t
      BY <1>0, <3>1, <3>2 DEF JInv, ToolOK, RowOK, Row
    <3>4. Promise!Perform(t)
      BY <2>1, <3>1, <3>2, <3>3, PerformStep
    <3> QED BY <3>4 DEF Step, Promise!Next
  <2> QED BY <2>2, <2>3
<1>3. CASE RetryMark
  <2>1. \A k \in Jobs : /\ tracking'[k].task = tracking[k].task
                        /\ tracking'[k].status \in {tracking[k].status, "completed"}
    BY <1>0, <1>3 DEF RetryMark, Mark, Row
  <2>2. \A k \in Jobs : Carried(k)' => Carried(k)
    BY <1>3, <2>1, SameQueue DEF RetryMark, Carried
  <2> QED BY <1>0, <1>3, <2>1, <2>2, CloseStep DEF RetryMark, Step, Promise!Next
<1> QED BY <1>1, <1>2, <1>3 DEF Retry

\* The queue, the worker and retry-jobs implement TaskPromise.
THEOREM QueueKeepsPromise == Spec => KeepsPromise
<1>1. Init => Promise!Init
  BY NoTaskAssumption, NoJobAssumption DEF Init, Promise!Init, Done, Carried, InQueue, NextDequeue
<1>2. JInv /\ JInv' /\ [Next]_vars => [Promise!Next]_(Promise!promise)
  <2> SUFFICES ASSUME JInv, JInv', [Next]_vars PROVE Step
    BY DEF Step, Promise!promise, Asked, Open, DoneTasks
  <2>1. ASSUME NEW t \in Tasks, Enqueue(t) PROVE Step
    <3>1. PICK k \in Jobs : Track(k, t)
      BY <2>1 DEF Enqueue
    <3>2. /\ \A j \in Jobs : tracking[j].task # t
          /\ tracking[k].task = NoTask /\ tracking'[k].task = t /\ k \notin processed
          /\ \A i \in Jobs \ {k} : tracking'[i] = tracking[i]
          /\ pushing' = pushing \cup {k} /\ processed' = processed
      BY <2>1, <3>1 DEF Enqueue, Track, Fresh, JInv, RowOK, TypeOK
    <3>3. \A i \in Jobs \ {k} : Carried(i)' = Carried(i)
      BY <2>1, <3>2, SameQueue DEF Enqueue, Carried
    <3>4. t \notin Asked /\ Asked' = Asked \cup {t}
      BY <3>2, NoTaskAssumption DEF Asked
    <3>5. Open' = Open \cup {t}
      BY <3>2, <3>3, NoTaskAssumption DEF Open, Carried
    <3>6. DoneTasks' = DoneTasks
      BY <3>2, NoTaskAssumption DEF DoneTasks, Done, JInv, TypeOK
    <3> QED BY <3>4, <3>5, <3>6 DEF Step, Promise!Next, Promise!Ask, Asked, Open, DoneTasks
  <2>2. CASE UNCHANGED vars
    BY <2>2, SameQueue DEF vars, Step, Asked, Open, DoneTasks, Done, Carried
  <2> QED BY <2>1, <2>2, ServerPromise, LoopPromise, RetryPromise DEF Next
<1> QED BY <1>1, <1>2, SpecJInv, PTL DEF Spec, KeepsPromise, Promise!Spec
=====
