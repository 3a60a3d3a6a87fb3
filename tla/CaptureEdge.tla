---------------------------- MODULE CaptureEdge ----------------------------
(***************************************************************************)
(* The packet-capture service of the edge agent: captures are accepted,    *)
(* wait for their turn, run one after the other and are cancelled or       *)
(* stopped from outside. The tasks live in memory; every task has a        *)
(* goroutine of its own, which looks for its turn under the read lock and  *)
(* takes it under the write lock.                                          *)
(*                                                                         *)
(* What the model simplifies: a start time is a number that only orders    *)
(* the tasks, waiting for it is part of waiting for the turn, and a        *)
(* capture is what its outcome is: a file or an error.                     *)
(***************************************************************************)
EXTENDS Integers, FiniteSets

CONSTANTS Captures,  \* capture ids, in the order in which they are dispatched
          StartAt,   \* planned start of each, as its place in time
          MaxLive    \* maxQueuedCaptures

ASSUME CapturesAssumption == Captures \subseteq Nat \ {0} /\ IsFiniteSet(Captures)
ASSUME StartAtAssumption == StartAt \in [Captures -> Nat]
ASSUME MaxLiveAssumption == MaxLive \in Nat

VARIABLE task  \* Service.tasks

Live == {"queued", "running"}
Over == {"succeeded", "failed", "cancelled"}

Task == [state : {"none"} \cup Live \cup Over,
         turn : BOOLEAN,       \* its goroutine has seen its turn
         cancelled : BOOLEAN,  \* its context is cancelled
         stop : BOOLEAN]       \* stopRequested

NoTask == [state |-> "none", turn |-> FALSE, cancelled |-> FALSE, stop |-> FALSE]

EdgeInit == task = [c \in Captures |-> NoTask]

InState(s) == {c \in Captures : task[c].state = s}
LiveTasks == InState("queued") \cup InState("running")

\* Service.Start: a known task is returned as it is, a full queue refused.
StartAccepted(c) == task[c].state # "none" \/ Cardinality(LiveTasks) < MaxLive
StartTask(c) ==
  IF task[c].state = "none"
  THEN task' = [task EXCEPT ![c] = [NoTask EXCEPT !.state = "queued"]]
  ELSE UNCHANGED task

\* Service.Cancel and Service.Stop up to the call of cancel().
CancelTask(c, stop) ==
  /\ task[c].state # "none"
  /\ task' = IF task[c].state \in Live
             THEN [task EXCEPT ![c].cancelled = TRUE,
                               ![c].stop = @ \/ stop]
             ELSE task

QueuedBefore(c, d) ==
  \/ StartAt[c] < StartAt[d]
  \/ StartAt[c] = StartAt[d] /\ c < d

CanRunNext(c) ==   \* mutant: only the queue is looked at
  /\ task[c].state = "queued"
  /\ \A d \in InState("queued") \ {c} : ~QueuedBefore(d, c)
CanRun(c) ==
  /\ task[c].state = "queued"
  /\ InState("running") \ {c} = {}
  /\ \A d \in InState("queued") \ {c} : ~QueuedBefore(d, c)

\* The goroutine of c finds, under the read lock, that it may run ...
SeesTurn(c) ==
  /\ ~task[c].turn
  /\ CanRun(c)
  /\ task' = [task EXCEPT ![c].turn = TRUE]

\* ... and marks its task as running under the write lock.
Runs(c) ==
  /\ task[c].state = "queued" /\ task[c].turn
  /\ task' = [task EXCEPT ![c].state = "running"]

\* It notices the cancellation while it waits.
GivesUp(c) ==
  /\ task[c].state = "queued" /\ ~task[c].turn
  /\ task[c].cancelled
  /\ task' = [task EXCEPT ![c].state = "cancelled"]

\* The capture has ended, with a file or with an error.
Outcome(t, ok) ==
  IF t.cancelled
  THEN IF t.stop /\ ok THEN "succeeded" ELSE "cancelled"
  ELSE IF ok THEN "succeeded" ELSE "failed"

Ends(c) ==
  /\ task[c].state = "running"
  /\ \E ok \in BOOLEAN : task' = [task EXCEPT ![c].state = Outcome(task[c], ok)]

EdgeStep(c) == SeesTurn(c) \/ Runs(c) \/ GivesUp(c) \/ Ends(c)

\* The agent restarts and has forgotten every task.
EdgeForgets == task' = [c \in Captures |-> NoTask]

---------------------------------------------------------------------------
\* The service on its own. A capture is accepted once, in the order of the
\* ids; EdgeArrives is what the manager's sessions do to it.
EdgeArrives(c) ==
  /\ task[c].state = "none"
  /\ \A d \in Captures : d > c => task[d].state = "none"
  /\ StartAccepted(c)
  /\ StartTask(c)

EdgeNext ==
  \/ \E c \in Captures : EdgeArrives(c) \/ EdgeStep(c)
  \/ \E c \in Captures, stop \in BOOLEAN : CancelTask(c, stop)
  \/ EdgeForgets

EdgeSpec == EdgeInit /\ [][EdgeNext]_task

EdgeTypeOK == task \in [Captures -> Task]

\* service_linux.go:48: one capture runs on an edge at a time, although a turn is seen
\* under one lock and taken under another. Two overlap only when the one that was
\* dispatched later has the earlier start: it can come before a capture that has seen
\* its turn and not yet taken it.
OneCaptureAtATime == \A c, d \in InState("running") : c < d => StartAt[d] < StartAt[c]
=============================================================================
