----------------------------- MODULE AlertPipeline -----------------------------
(* Incidents of an alert rule and their notifications: the evaluator's tick   *)
(* (biz/alert/pipeline.go with the firing path of usecase.go), the people who *)
(* acknowledge, resolve and silence, and the worker that retries deliveries   *)
(* (retry.go).                                                                *)
(*                                                                            *)
(* The three run side by side and share only the database, which they read    *)
(* and write one statement at a time. The evaluator is one goroutine; what it *)
(* knows besides is the set of alarms of its previous tick, in memory. Time   *)
(* is left out: a cooldown, a silence and the backoff of a retry end at any   *)
(* moment. Failed database calls, dampening (off unless a rule sets it),      *)
(* inhibition and routing are left out; so are the workflow and the analysis  *)
(* that an incident starts (Investigations has the latter). The router is     *)
(* enabled (a disabled one drops every message and reports success), and a    *)
(* pass of the retry worker lists every row there is (the code's limit is     *)
(* 200, lowest ids first). Incidents are never deleted, as in the code.       *)
EXTENDS Naturals, FiniteSets

CONSTANTS
  Keys,          \* label sets of the rule: one incident each
  Channels,      \* notification channels with a destination
  Named,         \* those that the notifier also knows by name
  Slots,         \* identifiers of delivery rows
  MaxAttempts,   \* sends of a delivery
  MaxFlips,      \* bound: changes of a condition
  MaxOps,        \* bound: actions of users
  MaxFailures,   \* bound: failed queries and sends
  MaxCrashes     \* bound: restarts of the manager

ASSUME KeysAssumption == Keys # {} /\ Channels # {}
ASSUME NamedAssumption == Named \subseteq Channels
ASSUME SlotsAssumption == Slots \subseteq Nat \ {0}
ASSUME AttemptsAssumption == MaxAttempts \in Nat \ {0, 1}
ASSUME BoundsAssumption == {MaxFlips, MaxOps, MaxFailures, MaxCrashes} \subseteq Nat

VARIABLES
  cond,       \* cond[k]: whether the expression of the rule returns k
  incident,   \* incident[k]: status of the incident, "none" before the first
  recent,     \* recent[k]: the cooldown since last_notified_at has not passed
  silence,    \* silence[k]: an active silence row matches
  enabled,    \* channels that are enabled
  deleted,    \* channels that were deleted
  rows,       \* rows[d]: a delivery that is not yet a success, or NoRow
  snapshot,   \* the alarms of the previous tick, in the evaluator's memory
  ev,         \* the evaluator's tick
  rt,         \* the retry worker's pass
  op,         \* op[k]: a user's silence whose row is not written yet
  flips, ops, failures, crashes

db == <<incident, recent, silence, enabled, deleted, rows>>
bounds == <<flips, ops, failures, crashes>>
vars == <<cond, db, snapshot, ev, rt, op, bounds>>

Open == {"open", "acknowledged", "silenced"}
AnyKey == CHOOSE k \in Keys : TRUE
NoRow == [key |-> AnyKey, channel |-> CHOOSE c \in Channels : TRUE,
          status |-> "none", attempts |-> 0, sends |-> 0, got |-> 0, lost |-> 0]
NoTick == [pc |-> "idle", fired |-> {}, todo |-> {}, key |-> AnyKey,
           status |-> "none", recent |-> FALSE, left |-> {}, row |-> 0,
           sent |-> FALSE, any |-> FALSE]
NoPass == [pc |-> "idle", todo |-> {}, row |-> 0, attempts |-> 0, sent |-> FALSE]

Init ==
  /\ cond = [k \in Keys |-> FALSE]
  /\ incident = [k \in Keys |-> "none"]
  /\ recent = [k \in Keys |-> FALSE]
  /\ silence = [k \in Keys |-> FALSE]
  /\ enabled = Channels /\ deleted = {}
  /\ rows = [d \in Slots |-> NoRow]
  /\ snapshot = {} /\ ev = NoTick /\ rt = NoPass
  /\ op = [k \in Keys |-> FALSE]
  /\ flips = 0 /\ ops = 0 /\ failures = 0 /\ crashes = 0

----------------------------------------------------------------------------
(* The world: conditions, the passing of time, users.                        *)

Flip(k) ==
  /\ flips < MaxFlips /\ flips' = flips + 1
  /\ cond' = [cond EXCEPT ![k] = ~@]
  /\ UNCHANGED <<db, snapshot, ev, rt, op, ops, failures, crashes>>

CooldownPasses(k) ==
  /\ recent[k] /\ recent' = [recent EXCEPT ![k] = FALSE]
  /\ UNCHANGED <<cond, incident, silence, enabled, deleted, rows, snapshot, ev, rt, op, bounds>>

SilenceEnds(k) ==
  /\ silence[k] /\ silence' = [silence EXCEPT ![k] = FALSE]
  /\ UNCHANGED <<cond, incident, recent, enabled, deleted, rows, snapshot, ev, rt, op, bounds>>

\* Users write the new status whatever the old one is.
UserSets(k, status) ==
  /\ incident[k] # "none" /\ ops < MaxOps /\ ops' = ops + 1
  /\ incident' = [incident EXCEPT ![k] = status]

Ack(k) ==
  /\ UserSets(k, "acknowledged")
  /\ UNCHANGED <<cond, recent, silence, enabled, deleted, rows, snapshot, ev, rt, op,
                 flips, failures, crashes>>

Resolve(k) ==
  /\ UserSets(k, "resolved")
  /\ UNCHANGED <<cond, recent, silence, enabled, deleted, rows, snapshot, ev, rt, op,
                 flips, failures, crashes>>

\* The status first, the row that mutes second.
Silence(k) ==
  /\ ~op[k] /\ UserSets(k, "silenced")
  /\ op' = [op EXCEPT ![k] = TRUE]
  /\ UNCHANGED <<cond, recent, silence, enabled, deleted, rows, snapshot, ev, rt,
                 flips, failures, crashes>>

SilenceRow(k) ==
  /\ op[k] /\ op' = [op EXCEPT ![k] = FALSE]
  /\ silence' = [silence EXCEPT ![k] = TRUE]
  /\ UNCHANGED <<cond, incident, recent, enabled, deleted, rows, snapshot, ev, rt, bounds>>

Disable(c) ==
  /\ c \in enabled /\ ops < MaxOps /\ ops' = ops + 1
  /\ enabled' = enabled \ {c}
  /\ UNCHANGED <<cond, incident, recent, silence, deleted, rows, snapshot, ev, rt, op,
                 flips, failures, crashes>>

\* The row of the channel stays, but no query finds it any more.
Delete(c) ==
  /\ c \notin deleted /\ ops < MaxOps /\ ops' = ops + 1
  /\ deleted' = deleted \cup {c} /\ enabled' = enabled \ {c}
  /\ UNCHANGED <<cond, incident, recent, silence, rows, snapshot, ev, rt, op,
                 flips, failures, crashes>>

----------------------------------------------------------------------------
(* Delivery rows.                                                            *)

Unused == {d \in Slots : rows[d] = NoRow}

RecordDelivery(d, k, c) ==
  /\ d \in Unused /\ \A e \in Unused : d <= e
  /\ rows' = [rows EXCEPT ![d] =
       [NoRow EXCEPT !.key = k, !.channel = c, !.status = "pending", !.attempts = 1]]

\* A send over the network: whether it arrives, and what the sender is told. One that
\* arrives may be answered too late or not at all, and then passes for a failure.
Answers == {a \in [arrived : BOOLEAN, ok : BOOLEAN] : a.ok => a.arrived}
Sent(d, a) ==
  rows' = [rows EXCEPT ![d].sends = @ + 1,
             ![d].got = IF a.arrived THEN @ + 1 ELSE @,
             ![d].lost = IF a.arrived /\ ~a.ok THEN @ + 1 ELSE @]

\* UpdateDeliveryStatus; nobody looks at a success again, and it is forgotten.
UpdateDelivery(d, ok, attempts) ==
  rows' = [rows EXCEPT ![d] =
    IF ok THEN NoRow ELSE [@ EXCEPT !.status = "failed", !.attempts = attempts]]

\* mutant: deliveries under way count as failed.
ListUnfinished ==
  {d \in Slots : rows[d].status \in {"failed", "pending"} /\ rows[d].attempts < MaxAttempts}

ListRetriable ==
  {d \in Slots : rows[d].status = "failed" /\ rows[d].attempts < MaxAttempts}

----------------------------------------------------------------------------
(* The evaluator's tick.                                                     *)

Query ==
  /\ ev.pc = "idle"
  /\ LET fired == {k \in Keys : cond[k]}
     IN ev' = [NoTick EXCEPT !.pc = "next", !.fired = fired, !.todo = fired]
  /\ UNCHANGED <<cond, db, snapshot, rt, op, bounds>>

\* The tick leaves the rule alone.
QueryFails ==
  /\ ev.pc = "idle" /\ failures < MaxFailures /\ failures' = failures + 1
  /\ UNCHANGED <<cond, db, snapshot, ev, rt, op, flips, ops, crashes>>

\* RecordFiring reads the incident and decides by what it read ...
ReadIncident(k) ==
  /\ ev.pc = "next" /\ k \in ev.todo
  /\ ev' = [ev EXCEPT !.pc = "write", !.todo = @ \ {k}, !.key = k,
                      !.status = incident[k], !.recent = recent[k]]
  /\ UNCHANGED <<cond, db, snapshot, rt, op, bounds>>

\* ... to create or reopen it, or to count one firing more.
WriteIncident ==
  /\ ev.pc = "write"
  /\ incident' = IF ev.status \in {"none", "resolved"}
                 THEN [incident EXCEPT ![ev.key] = "open"] ELSE incident
  /\ ev' = [ev EXCEPT !.pc = "gate"]
  /\ UNCHANGED <<cond, recent, silence, enabled, deleted, rows, snapshot, rt, op, bounds>>

\* mutant: only an incident that was created or reopened is notified.
GateNewOnly ==
  /\ ev.pc = "gate"
  /\ ev' = IF silence[ev.key] \/ ev.status \in Open
           THEN [ev EXCEPT !.pc = "next", !.status = "none", !.recent = FALSE]
           ELSE [ev EXCEPT !.pc = "record", !.status = "none", !.recent = FALSE,
                           !.left = enabled]
  /\ UNCHANGED <<cond, db, snapshot, rt, op, bounds>>

\* matchSilence and the cooldown of the incident as it was read. The status
\* "silenced" mutes nothing: its silenced_until is the moment it was set.
Gate ==
  /\ ev.pc = "gate"
  /\ ev' = IF silence[ev.key] \/ ev.recent
           THEN [ev EXCEPT !.pc = "next", !.status = "none", !.recent = FALSE]
           ELSE [ev EXCEPT !.pc = "record", !.status = "none", !.left = enabled]
  /\ UNCHANGED <<cond, db, snapshot, rt, op, bounds>>

\* One channel after the other: a row, the send, the outcome.
Record(c) ==
  /\ ev.pc = "record" /\ c \in ev.left
  /\ \E d \in Slots :
       /\ RecordDelivery(d, ev.key, c)
       /\ ev' = [ev EXCEPT !.pc = "send", !.left = @ \ {c}, !.row = d]
  /\ UNCHANGED <<cond, incident, recent, silence, enabled, deleted, snapshot, rt, op, bounds>>

Fails(ok) == IF ok THEN UNCHANGED failures
             ELSE failures < MaxFailures /\ failures' = failures + 1

Send(a) ==
  /\ ev.pc = "send" /\ Sent(ev.row, a) /\ Fails(a.ok)
  /\ ev' = [ev EXCEPT !.pc = "finish", !.sent = a.ok, !.any = @ \/ a.ok]
  /\ UNCHANGED <<cond, incident, recent, silence, enabled, deleted, snapshot, rt, op,
                 flips, ops, crashes>>

FinishDelivery ==
  /\ ev.pc = "finish" /\ UpdateDelivery(ev.row, ev.sent, 1)
  /\ ev' = [ev EXCEPT !.pc = "record", !.row = 0, !.sent = FALSE]
  /\ UNCHANGED <<cond, incident, recent, silence, enabled, deleted, snapshot, rt, op, bounds>>

MarkNotified ==
  /\ ev.pc = "record" /\ ev.left = {}
  /\ recent' = IF ev.any THEN [recent EXCEPT ![ev.key] = TRUE] ELSE recent
  /\ ev' = [ev EXCEPT !.pc = "next", !.any = FALSE]
  /\ UNCHANGED <<cond, incident, silence, enabled, deleted, rows, snapshot, rt, op, bounds>>

\* mutant: a tick without alarms ends early.
StartSweepUnlessQuiet ==
  /\ ev.pc = "next" /\ ev.todo = {}
  /\ ev' = IF ev.fired = {} THEN NoTick
           ELSE [ev EXCEPT !.pc = "sweep", !.todo = snapshot \ ev.fired, !.key = AnyKey]
  /\ UNCHANGED <<cond, db, snapshot, rt, op, bounds>>

\* The alarms of the previous tick that are gone are resolved one by one.
StartSweep ==
  /\ ev.pc = "next" /\ ev.todo = {}
  /\ ev' = [ev EXCEPT !.pc = "sweep", !.todo = snapshot \ ev.fired, !.key = AnyKey]
  /\ UNCHANGED <<cond, db, snapshot, rt, op, bounds>>

\* mutant: an acknowledged incident is left to the person who took it.
SweepReadOpenOnly(k) ==
  /\ ev.pc = "sweep" /\ k \in ev.todo
  /\ ev' = [ev EXCEPT !.todo = @ \ {k}, !.key = k,
              !.pc = IF incident[k] = "open" THEN "resolve" ELSE "sweep"]
  /\ UNCHANGED <<cond, db, snapshot, rt, op, bounds>>

\* SystemResolveIncident looks first ...
SweepRead(k) ==
  /\ ev.pc = "sweep" /\ k \in ev.todo
  /\ ev' = [ev EXCEPT !.todo = @ \ {k}, !.key = k,
              !.pc = IF incident[k] \in Open THEN "resolve" ELSE "sweep"]
  /\ UNCHANGED <<cond, db, snapshot, rt, op, bounds>>

SweepResolve ==
  /\ ev.pc = "resolve"
  /\ incident' = [incident EXCEPT ![ev.key] = "resolved"]
  /\ ev' = [ev EXCEPT !.pc = "sweep"]
  /\ UNCHANGED <<cond, recent, silence, enabled, deleted, rows, snapshot, rt, op, bounds>>

EndTick ==
  /\ ev.pc = "sweep" /\ ev.todo = {}
  /\ snapshot' = ev.fired /\ ev' = NoTick
  /\ UNCHANGED <<cond, db, rt, op, bounds>>

Evaluate ==
  \/ Query \/ QueryFails
  \/ \E k \in Keys : ReadIncident(k) \/ SweepRead(k)
  \/ WriteIncident \/ Gate \/ \E c \in Channels : Record(c)
  \/ \E a \in Answers : Send(a)
  \/ FinishDelivery \/ MarkNotified \/ StartSweep \/ SweepResolve \/ EndTick

----------------------------------------------------------------------------
(* The retry worker.                                                         *)

ListDeliveries ==
  /\ rt.pc = "idle" /\ ListRetriable # {}
  /\ rt' = [NoPass EXCEPT !.pc = "next", !.todo = ListRetriable]
  /\ UNCHANGED <<cond, db, snapshot, ev, op, bounds>>

\* mutant: a disabled channel is skipped.
RetryReadSkipsDisabled(d) ==
  /\ rt.pc = "next" /\ d \in rt.todo
  /\ LET row == rows[d]
         moot == incident[row.key] = "resolved"
     IN IF moot \/ row.channel \notin enabled
        THEN /\ rt' = [rt EXCEPT !.todo = @ \ {d}]
             /\ IF moot THEN UpdateDelivery(d, TRUE, MaxAttempts) ELSE UNCHANGED rows
        ELSE /\ rt' = [rt EXCEPT !.pc = "send", !.todo = @ \ {d}, !.row = d,
                                 !.attempts = row.attempts]
             /\ UNCHANGED rows
  /\ UNCHANGED <<cond, incident, recent, silence, enabled, deleted, snapshot, ev, op, bounds>>

\* A delivery whose incident is resolved passes for a success. A disabled channel
\* uses the attempts up; one that was deleted is not found, and the row stays as it is.
RetryRead(d) ==
  /\ rt.pc = "next" /\ d \in rt.todo
  /\ LET row == rows[d]
         moot == incident[row.key] = "resolved"
     IN IF moot \/ row.channel \notin enabled
        THEN /\ rt' = [rt EXCEPT !.todo = @ \ {d}]
             /\ IF ~moot /\ row.channel \in deleted THEN UNCHANGED rows
                ELSE UpdateDelivery(d, moot, MaxAttempts)
        ELSE /\ rt' = [rt EXCEPT !.pc = "send", !.todo = @ \ {d}, !.row = d,
                                 !.attempts = row.attempts]
             /\ UNCHANGED rows
  /\ UNCHANGED <<cond, incident, recent, silence, enabled, deleted, snapshot, ev, op, bounds>>

\* By the name of the channel, which the notifier may not know.
RetrySend(a) ==
  /\ rt.pc = "send" /\ Sent(rt.row, a)
  /\ IF rows[rt.row].channel \in Named THEN Fails(a.ok) ELSE ~a.arrived /\ UNCHANGED failures
  /\ rt' = [rt EXCEPT !.pc = "update", !.sent = a.ok]
  /\ UNCHANGED <<cond, incident, recent, silence, enabled, deleted, snapshot, ev, op,
                 flips, ops, crashes>>

\* The outcome, and after a success the time of it in the incident.
RetryUpdate ==
  /\ rt.pc = "update" /\ UpdateDelivery(rt.row, rt.sent, rt.attempts + 1)
  /\ recent' = IF rt.sent THEN [recent EXCEPT ![rows[rt.row].key] = TRUE] ELSE recent
  /\ rt' = [NoPass EXCEPT !.pc = "next", !.todo = rt.todo]
  /\ UNCHANGED <<cond, incident, silence, enabled, deleted, snapshot, ev, op, bounds>>

EndPass ==
  /\ rt.pc = "next" /\ rt.todo = {} /\ rt' = NoPass
  /\ UNCHANGED <<cond, db, snapshot, ev, op, bounds>>

Retry ==
  \/ ListDeliveries \/ \E d \in Slots : RetryRead(d)
  \/ \E a \in Answers : RetrySend(a)
  \/ RetryUpdate \/ EndPass

----------------------------------------------------------------------------
\* The manager stops and starts again: the database is all it knows then.
Crash ==
  /\ crashes < MaxCrashes /\ crashes' = crashes + 1
  /\ snapshot' = {} /\ ev' = NoTick /\ rt' = NoPass
  /\ op' = [k \in Keys |-> FALSE]
  /\ UNCHANGED <<cond, db, flips, ops, failures>>

User ==
  \/ \E k \in Keys : Ack(k) \/ Resolve(k) \/ Silence(k) \/ SilenceRow(k)
  \/ \E c \in Channels : Disable(c) \/ Delete(c)

Next ==
  \/ \E k \in Keys : Flip(k) \/ CooldownPasses(k) \/ SilenceEnds(k)
  \/ User \/ Evaluate \/ Retry \/ Crash

Spec == Init /\ [][Next]_vars

FairSpec == Spec /\ WF_vars(Evaluate) /\ WF_vars(Retry)
            /\ \A k \in Keys : WF_vars(CooldownPasses(k)) /\ WF_vars(SilenceEnds(k))

----------------------------------------------------------------------------
Counter(n) == 0 .. n

Delivery ==
  [key : Keys, channel : Channels, status : {"none", "pending", "failed"},
   attempts : Counter(MaxAttempts), sends : Nat, got : Nat, lost : Nat]

Tick ==
  [pc : {"idle", "next", "write", "gate", "record", "send", "finish", "sweep", "resolve"},
   fired : SUBSET Keys, todo : SUBSET Keys, key : Keys, left : SUBSET Channels,
   status : Open \cup {"none", "resolved"}, recent : BOOLEAN,
   row : Slots \cup {0}, sent : BOOLEAN, any : BOOLEAN]

Pass ==
  [pc : {"idle", "next", "send", "update"}, todo : SUBSET Slots, row : Slots \cup {0},
   attempts : Counter(MaxAttempts), sent : BOOLEAN]

TypeOK ==
  /\ cond \in [Keys -> BOOLEAN]
  /\ incident \in [Keys -> Open \cup {"none", "resolved"}]
  /\ recent \in [Keys -> BOOLEAN] /\ silence \in [Keys -> BOOLEAN]
  /\ enabled \subseteq Channels /\ deleted \subseteq Channels /\ snapshot \subseteq Keys
  /\ rows \in [Slots -> Delivery]
  /\ ev \in Tick /\ rt \in Pass
  /\ op \in [Keys -> BOOLEAN]
  /\ flips \in Counter(MaxFlips) /\ ops \in Counter(MaxOps)
  /\ failures \in Counter(MaxFailures) /\ crashes \in Counter(MaxCrashes)

\* What the evaluator has yet to resolve, now or when the condition is gone.
InSight ==
  CASE ev.pc = "sweep"   -> ev.fired \cup ev.todo
    [] ev.pc = "resolve" -> ev.fired \cup ev.todo \cup {ev.key}
    [] OTHER             -> ev.fired \cup snapshot

Watched(k) == incident[k] \in Open => k \in InSight

\* An open incident stays in the evaluator's sight until it is resolved,
\* however the writes of users fall between its reads and its own: only a
\* restart loses sight of one, and a person who gives a resolved incident
\* another status.
StaysWatched ==
  [][\A k \in Keys :
       Watched(k) => \/ Watched(k)' \/ Crash
                     \/ incident[k] = "resolved" /\ User]_vars

\* An open incident that the evaluator has in sight is resolved once its condition is
\* gone, whatever users do to it meanwhile and however many queries fail, unless the
\* condition returns: only a restart makes the evaluator forget it.
ClearedIsResolved ==
  \A k \in Keys : \A n \in Counter(MaxCrashes) :
    (incident[k] \in Open /\ k \in InSight /\ ~cond[k] /\ crashes = n)
    ~> (incident[k] \notin Open \/ cond[k] \/ crashes > n)

\* No condition lasts for ever without being notified: also when the manager stops
\* between the creation of the incident and the send, or when every send of a tick
\* fails.
LastingIsNotified ==
  \A k \in Keys : []<>(cond[k] => recent[k] \/ silence[k] \/ enabled = {})

\* No delivery stays failed with attempts left, to be retried for ever: neither a
\* restart in the middle of a pass nor a channel that was disabled or that the
\* notifier does not know leaves one so. Only a channel that was deleted does.
RetriesEnd ==
  \A d \in Slots :
    []<>(rows[d].status = "failed" =>
           rows[d].attempts >= MaxAttempts \/ rows[d].channel \in deleted)

\* A channel gets the message of a delivery a second time only if an answer was lost
\* or a restart hit a send that was not yet recorded: what a sender knows to have
\* arrived is not sent again, neither by it nor by the other of the evaluator and the
\* retry worker, and no delivery is tried more than MaxAttempts times.
NoNeedlessResend ==
  \A d \in Slots :
    /\ rows[d].got <= 1 + rows[d].lost + crashes
    /\ rows[d].sends <= MaxAttempts + crashes
=============================================================================
