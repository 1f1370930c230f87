----------------------------- MODULE TaskPromise -----------------------------
(***************************************************************************)
(* What the job queue promises to whoever enqueues a task: the task is     *)
(* processed only after it was asked for, perhaps several times, and once  *)
(* it is closed it is never processed again.  It may be closed without     *)
(* having been processed: jobs can be lost.  This is how MintLifecycle     *)
(* uses the queue: its `jobs` are the open tasks.                          *)
(***************************************************************************)
CONSTANT Tasks

VARIABLES asked, open, done

promise == <<asked, open, done>>

Init == asked = {} /\ open = {} /\ done = {}

Ask(t) ==
  /\ t \notin asked
  /\ asked' = asked \cup {t}
  /\ open' = open \cup {t}
  /\ UNCHANGED done

\* The task is processed, and may have to be processed again.
Perform(t) ==
  /\ t \in open
  /\ done' = done \cup {t}
  /\ open' \in {open, open \ {t}}
  /\ UNCHANGED asked

Close ==
  /\ open' \in SUBSET open
  /\ UNCHANGED <<asked, done>>

Next == Close \/ \E t \in Tasks : Ask(t) \/ Perform(t)

Spec == Init /\ [][Next]_promise
=============================================================================
