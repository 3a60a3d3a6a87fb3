-------------------------- MODULE AlertPipelineProofs --------------------------
(* Theorems about AlertPipeline, for any number of alarms, channels and        *)
(* deliveries, whatever users do and wherever the manager stops.               *)
EXTENDS AlertPipeline, TLAPS

\* A tick knows the alarm it works on from its query.
TickInv ==
  /\ ev.pc = "idle" => ev.fired = {}
  /\ ev.pc \notin {"idle", "sweep", "resolve"} => ev.todo \subseteq ev.fired
  /\ ev.pc \in {"write", "gate", "record", "send", "finish"} => ev.key \in ev.fired

\* The delivery the evaluator works on is pending and was not sent before; what
\* the retry worker has before it has failed, and it alone works on that.
EvRowInv ==
  ev.pc \in {"send", "finish"} =>
    /\ ev.row \in Slots /\ rows[ev.row].status = "pending"
    /\ ev.pc = "send" => rows[ev.row].sends = 0 /\ rows[ev.row].got = 0
    /\ ev.pc = "finish" /\ ~ev.sent => rows[ev.row].got <= rows[ev.row].lost

Retriable(d) == rows[d].status = "failed" /\ rows[d].attempts < MaxAttempts

RtRowInv ==
  /\ \A d \in rt.todo : Retriable(d)
  /\ rt.pc \in {"send", "update"} =>
       /\ rt.row \in Slots \ rt.todo /\ Retriable(rt.row)
       /\ rows[rt.row].attempts = rt.attempts

\* A delivery whose send by the retry worker is not yet recorded.
Unrecorded(d) == rt.pc = "update" /\ rt.row = d

\* A restart costs a delivery at most one send that is not recorded, and one
\* message if that send had arrived; so does an answer that is lost.
CountInv ==
  \A d \in Slots :
    /\ rows[d].status = "none" => rows[d].sends = 0 /\ rows[d].got = 0
    /\ rows[d].status = "pending" => rows[d].sends <= 1 /\ rows[d].got <= 1
    /\ rows[d].status = "failed" =>
         /\ rows[d].sends <= rows[d].attempts + crashes + (IF Unrecorded(d) THEN 1 ELSE 0)
         /\ rows[d].got <= rows[d].lost + crashes + (IF Unrecorded(d) /\ rt.sent THEN 1 ELSE 0)

\* The inductive invariant.
Inv == TypeOK /\ TickInv /\ EvRowInv /\ RtRowInv /\ CountInv

------------------------------------------------------------------------------
(* Types.                                                                      *)

\* The values of a tick, a pass or a row at rest.
LEMMA Rests ==
  NoTick \in Tick /\ NoPass \in Pass /\ NoRow \in Delivery
<1>1. AnyKey \in Keys /\ (CHOOSE c \in Channels : TRUE) \in Channels
  BY KeysAssumption DEF AnyKey
<1>2. 0 \in Counter(MaxAttempts)
  BY AttemptsAssumption DEF Counter
<1> QED BY <1>1, <1>2 DEF NoTick, NoPass, NoRow, Tick, Pass, Delivery

\* What the three writes to a row leave is a row.
LEMMA RowTypes ==
  ASSUME TypeOK, NEW d \in Slots
  PROVE  /\ \A k \in Keys, c \in Channels :
              RecordDelivery(d, k, c) => rows' \in [Slots -> Delivery]
         /\ \A a \in Answers : Sent(d, a) => rows' \in [Slots -> Delivery]
         /\ \A ok \in BOOLEAN, n \in Counter(MaxAttempts) :
              UpdateDelivery(d, ok, n) => rows' \in [Slots -> Delivery]
<1>1. rows \in [Slots -> Delivery] /\ rows[d] \in Delivery
  BY DEF TypeOK
<1>2. 1 \in Counter(MaxAttempts)
  BY AttemptsAssumption DEF Counter
<1>3. ASSUME NEW k \in Keys, NEW c \in Channels, RecordDelivery(d, k, c)
      PROVE  rows' \in [Slots -> Delivery]
  <2>1. [NoRow EXCEPT !.key = k, !.channel = c, !.status = "pending", !.attempts = 1]
          \in Delivery
    BY <1>2, Rests DEF Delivery
  <2> QED BY <1>1, <1>3, <2>1 DEF RecordDelivery
<1>4. ASSUME NEW a \in Answers, Sent(d, a)
      PROVE  rows' \in [Slots -> Delivery]
  <2> DEFINE got == IF a.arrived THEN rows[d].got + 1 ELSE rows[d].got
             lost == IF a.arrived /\ ~a.ok THEN rows[d].lost + 1 ELSE rows[d].lost
  <2>1. \A x, y, z \in Nat :
          [rows[d] EXCEPT !.sends = x, !.got = y, !.lost = z] \in Delivery
    BY <1>1 DEF Delivery
  <2>2. rows[d].sends + 1 \in Nat /\ got \in Nat /\ lost \in Nat
    BY <1>1 DEF Delivery
  <2>3. [rows[d] EXCEPT !.sends = rows[d].sends + 1, !.got = got, !.lost = lost] \in Delivery
    BY <2>1, <2>2
  <2>4. rows' = [rows EXCEPT ![d] =
                  [rows[d] EXCEPT !.sends = rows[d].sends + 1, !.got = got, !.lost = lost]]
    BY <1>1, <1>4 DEF Sent, Delivery
  <2> QED BY <1>1, <2>3, <2>4
<1>5. ASSUME NEW ok \in BOOLEAN, NEW n \in Counter(MaxAttempts), UpdateDelivery(d, ok, n)
      PROVE  rows' \in [Slots -> Delivery]
  <2>1. [rows[d] EXCEPT !.status = "failed", !.attempts = n] \in Delivery
    BY <1>1 DEF Delivery
  <2> QED BY <1>1, <1>5, <2>1, Rests DEF UpdateDelivery
<1> QED BY <1>3, <1>4, <1>5

\* A bounded counter that is not yet at its bound may be raised.
LEMMA CounterUp ==
  ASSUME NEW n \in Nat, NEW m \in Counter(n), m < n
  PROVE  m + 1 \in Counter(n)
BY DEF Counter

LEMMA Bounds ==
  /\ MaxFlips \in Nat /\ MaxOps \in Nat /\ MaxFailures \in Nat /\ MaxCrashes \in Nat
  /\ MaxAttempts \in Nat /\ 1 < MaxAttempts
BY BoundsAssumption, AttemptsAssumption

\* The types of everything but the rows, where the rows keep theirs.
LEMMA EvaluateTypes ==
  ASSUME TypeOK, EvRowInv, Evaluate
  PROVE  TypeOK'
<1>1. ev \in Tick /\ NoTick \in Tick
  BY Rests DEF TypeOK
<1>2. CASE Query
  BY <1>1, <1>2 DEF Query, TypeOK, Tick, db, bounds
<1>3. CASE QueryFails
  <2>1. failures' \in Counter(MaxFailures)
    BY <1>3, Bounds, CounterUp DEF QueryFails, TypeOK, Counter
  <2> QED BY <1>3, <2>1 DEF QueryFails, TypeOK, db
<1>4. ASSUME NEW k \in Keys, ReadIncident(k) PROVE TypeOK'
  BY <1>1, <1>4 DEF ReadIncident, TypeOK, Tick, db, bounds
<1>5. ASSUME NEW k \in Keys, SweepRead(k) PROVE TypeOK'
  BY <1>1, <1>5 DEF SweepRead, TypeOK, Tick, db, bounds
<1>6. CASE WriteIncident
  BY <1>1, <1>6 DEF WriteIncident, TypeOK, Tick, Open, bounds
<1>7. CASE Gate
  BY <1>1, <1>7 DEF Gate, TypeOK, Tick, db, bounds
<1>8. ASSUME NEW c \in Channels, Record(c) PROVE TypeOK'
  <2>1. PICK d \in Slots :
          /\ RecordDelivery(d, ev.key, c)
          /\ ev' = [ev EXCEPT !.pc = "send", !.left = @ \ {c}, !.row = d]
    BY <1>8 DEF Record
  <2>2. ev.key \in Keys /\ ev' \in Tick
    BY <1>1, <2>1 DEF Tick
  <2>3. rows' \in [Slots -> Delivery]
    BY <2>1, <2>2, RowTypes
  <2> QED BY <1>8, <2>2, <2>3 DEF Record, TypeOK, bounds
<1>9. ASSUME NEW a \in Answers, Send(a) PROVE TypeOK'
  <2>1. rows' \in [Slots -> Delivery]
    BY <1>9, RowTypes DEF Send, EvRowInv
  <2>2. failures' \in Counter(MaxFailures)
    BY <1>9, Bounds, CounterUp DEF Send, Fails, TypeOK, Counter
  <2>3. ev' \in Tick
    <3>1. a.ok \in BOOLEAN
      BY DEF Answers
    <3>2. ev' = [ev EXCEPT !.pc = "finish", !.sent = a.ok, !.any = ev.any \/ a.ok]
      BY <1>9, <1>1 DEF Send, Tick
    <3> QED BY ZenonT(30), <1>1, <3>1, <3>2 DEF Tick
  <2> QED BY <1>9, <2>1, <2>2, <2>3 DEF Send, TypeOK
<1>10. CASE FinishDelivery
  <2>1. rows' \in [Slots -> Delivery]
    <3>1. ev.row \in Slots /\ ev.sent \in BOOLEAN /\ 1 \in Counter(MaxAttempts)
      BY <1>1, <1>10, Bounds DEF FinishDelivery, EvRowInv, Tick, Counter
    <3> QED BY <3>1, <1>10, RowTypes DEF FinishDelivery
  <2>2. ev' \in Tick
    BY <1>1, <1>10 DEF FinishDelivery, Tick
  <2> QED BY <1>10, <2>1, <2>2 DEF FinishDelivery, TypeOK, bounds
<1>11. CASE MarkNotified
  BY <1>1, <1>11 DEF MarkNotified, TypeOK, Tick, bounds
<1>12. CASE StartSweep
  BY <1>1, <1>12, Rests DEF StartSweep, TypeOK, Tick, NoTick, db, bounds
<1>13. CASE SweepResolve
  BY <1>1, <1>13 DEF SweepResolve, TypeOK, Tick, bounds
<1>14. CASE EndTick
  BY <1>1, <1>14 DEF EndTick, TypeOK, Tick, db, bounds
<1> QED BY <1>2, <1>3, <1>4, <1>5, <1>6, <1>7, <1>8, <1>9, <1>10, <1>11, <1>12, <1>13,
           <1>14 DEF Evaluate

LEMMA RetryTypes ==
  ASSUME TypeOK, RtRowInv, Retry
  PROVE  TypeOK'
<1>1. rt \in Pass /\ NoPass \in Pass
  BY Rests DEF TypeOK
<1>2. CASE ListDeliveries
  BY <1>1, <1>2 DEF ListDeliveries, ListRetriable, TypeOK, Pass, db, bounds
<1>3. ASSUME NEW d \in Slots, RetryRead(d) PROVE TypeOK'
  <2> DEFINE moot == incident[rows[d].key] = "resolved"
             dead == rows[d].channel \notin enabled
  <2>1. CASE moot \/ dead
    <3>1. /\ UNCHANGED rows \/ UpdateDelivery(d, moot, MaxAttempts)
          /\ rt' = [rt EXCEPT !.todo = @ \ {d}]
      BY <1>3, <2>1 DEF RetryRead
    <3>2. moot \in BOOLEAN /\ MaxAttempts \in Counter(MaxAttempts)
      BY Bounds DEF Counter
    <3>3. rows' \in [Slots -> Delivery]
      BY <3>1, <3>2, RowTypes DEF TypeOK
    <3>4. rt' \in Pass
      BY <3>1, <1>1 DEF Pass
    <3> QED BY <1>3, <3>3, <3>4 DEF RetryRead, TypeOK, bounds
  <2>2. CASE ~(moot \/ dead)
    <3>1. /\ rt' = [rt EXCEPT !.pc = "send", !.todo = @ \ {d}, !.row = d,
                              !.attempts = rows[d].attempts]
          /\ UNCHANGED rows
      BY <1>3, <2>2 DEF RetryRead
    <3>2. rows[d].attempts \in Counter(MaxAttempts)
      BY DEF TypeOK, Delivery
    <3>3. rt' \in Pass
      BY <3>1, <3>2, <1>1 DEF Pass
    <3> QED BY <1>3, <3>1, <3>3 DEF RetryRead, TypeOK, bounds
  <2> QED BY <2>1, <2>2
<1>4. ASSUME NEW a \in Answers, RetrySend(a) PROVE TypeOK'
  <2>1. rows' \in [Slots -> Delivery]
    BY <1>4, RowTypes DEF RetrySend, RtRowInv
  <2>2. failures' \in Counter(MaxFailures)
    BY <1>4, Bounds, CounterUp DEF RetrySend, Fails, TypeOK, Counter
  <2>3. rt' \in Pass
    BY <1>1, <1>4 DEF RetrySend, Pass, Answers
  <2> QED BY <1>4, <2>1, <2>2, <2>3 DEF RetrySend, TypeOK
<1>5. CASE RetryUpdate
  <2>1. rt.row \in Slots /\ rt.sent \in BOOLEAN /\ rt.attempts + 1 \in Counter(MaxAttempts)
    <3>1. rt.row \in Slots /\ rt.attempts < MaxAttempts
      BY <1>5 DEF RetryUpdate, RtRowInv, Retriable
    <3>2. rt.attempts \in Counter(MaxAttempts) /\ rt.sent \in BOOLEAN
      BY <1>1 DEF Pass
    <3> QED BY <3>1, <3>2, Bounds, CounterUp
  <2>2. rows' \in [Slots -> Delivery]
    BY <1>5, <2>1, RowTypes DEF RetryUpdate
  <2>3. recent' \in [Keys -> BOOLEAN]
    BY <1>5 DEF RetryUpdate, TypeOK
  <2>4. rt' \in Pass
    BY <1>1, <1>5 DEF RetryUpdate, Pass
  <2> QED BY <1>5, <2>2, <2>3, <2>4 DEF RetryUpdate, TypeOK, bounds
<1>6. CASE EndPass
  BY <1>1, <1>6 DEF EndPass, TypeOK, db, bounds
<1> QED BY <1>2, <1>3, <1>4, <1>5, <1>6 DEF Retry

LEMMA OtherTypes ==
  ASSUME TypeOK,
         User \/ Crash \/ \E k \in Keys : Flip(k) \/ CooldownPasses(k) \/ SilenceEnds(k)
  PROVE  TypeOK'
<1>1. ASSUME NEW k \in Keys, NEW s \in Open \cup {"resolved"}, UserSets(k, s)
      PROVE  /\ incident' \in [Keys -> Open \cup {"none", "resolved"}]
             /\ ops' \in Counter(MaxOps)
  BY <1>1, Bounds, CounterUp DEF UserSets, TypeOK, Counter
<1>2. ASSUME NEW k \in Keys, Ack(k) PROVE TypeOK'
  <2>1. UserSets(k, "acknowledged")
    BY <1>2 DEF Ack
  <2>2. incident' \in [Keys -> Open \cup {"none", "resolved"}] /\ ops' \in Counter(MaxOps)
    BY <2>1, <1>1 DEF Open
  <2> QED BY <1>2, <2>2 DEF Ack, TypeOK
<1>3. ASSUME NEW k \in Keys, Resolve(k) PROVE TypeOK'
  <2>1. UserSets(k, "resolved")
    BY <1>3 DEF Resolve
  <2>2. incident' \in [Keys -> Open \cup {"none", "resolved"}] /\ ops' \in Counter(MaxOps)
    BY <2>1, <1>1
  <2> QED BY <1>3, <2>2 DEF Resolve, TypeOK
<1>4. ASSUME NEW k \in Keys, Silence(k) PROVE TypeOK'
  <2>1. UserSets(k, "silenced") /\ op' = [op EXCEPT ![k] = TRUE]
    BY <1>4 DEF Silence
  <2>2. incident' \in [Keys -> Open \cup {"none", "resolved"}] /\ ops' \in Counter(MaxOps)
    BY <2>1, <1>1 DEF Open
  <2> QED BY <1>4, <2>1, <2>2 DEF Silence, TypeOK
<1>5. ASSUME NEW k \in Keys, SilenceRow(k) PROVE TypeOK'
  BY <1>5 DEF SilenceRow, TypeOK, bounds
<1>6. ASSUME NEW c \in Channels, Disable(c) PROVE TypeOK'
  <2>1. ops' \in Counter(MaxOps)
    BY <1>6, Bounds, CounterUp DEF Disable, TypeOK, Counter
  <2> QED BY <1>6, <2>1 DEF Disable, TypeOK
<1>11. ASSUME NEW c \in Channels, Delete(c) PROVE TypeOK'
  <2>1. ops' \in Counter(MaxOps)
    BY <1>11, Bounds, CounterUp DEF Delete, TypeOK, Counter
  <2> QED BY <1>11, <2>1 DEF Delete, TypeOK
<1>7. ASSUME NEW k \in Keys, Flip(k) PROVE TypeOK'
  <2>1. flips' \in Counter(MaxFlips)
    BY <1>7, Bounds, CounterUp DEF Flip, TypeOK, Counter
  <2> QED BY <1>7, <2>1 DEF Flip, TypeOK, db
<1>8. ASSUME NEW k \in Keys, CooldownPasses(k) PROVE TypeOK'
  BY <1>8 DEF CooldownPasses, TypeOK, bounds
<1>9. ASSUME NEW k \in Keys, SilenceEnds(k) PROVE TypeOK'
  BY <1>9 DEF SilenceEnds, TypeOK, bounds
<1>10. CASE Crash
  <2>1. crashes' \in Counter(MaxCrashes)
    BY <1>10, Bounds, CounterUp DEF Crash, TypeOK, Counter
  <2> QED BY <1>10, <2>1, Rests DEF Crash, TypeOK, db
<1> QED BY <1>2, <1>3, <1>4, <1>5, <1>6, <1>7, <1>8, <1>9, <1>10, <1>11 DEF User

------------------------------------------------------------------------------
(* What the evaluator has in sight.                                            *)

LEMMA TickNext ==
  ASSUME TypeOK, TickInv, [Next]_vars
  PROVE  TickInv'
<1>1. ev \in Tick
  BY DEF TypeOK
<1>2. UNCHANGED ev => TickInv'
  BY DEF TickInv
<1>3. CASE UNCHANGED vars
  BY <1>3, <1>2 DEF vars
<1>4. CASE User \/ \E k \in Keys : Flip(k) \/ CooldownPasses(k) \/ SilenceEnds(k)
  <2>1. CASE User
    BY <2>1, <1>2 DEF User, Ack, Resolve, Silence, SilenceRow, Disable, Delete
  <2>2. CASE \E k \in Keys : Flip(k) \/ CooldownPasses(k) \/ SilenceEnds(k)
    BY <2>2, <1>2 DEF Flip, CooldownPasses, SilenceEnds
  <2> QED BY <1>4, <2>1, <2>2
<1>5. CASE Retry
  BY <1>5, <1>2 DEF Retry, ListDeliveries, RetryRead, RetrySend, RetryUpdate, EndPass
<1>6. CASE Crash
  BY <1>6 DEF Crash, TickInv, NoTick
<1>7. CASE Evaluate
  <2>1. CASE Query
    BY <2>1 DEF Query, TickInv, NoTick
  <2>2. CASE QueryFails
    BY <2>2, <1>2 DEF QueryFails
  <2>3. ASSUME NEW k \in Keys, ReadIncident(k) PROVE TickInv'
    BY <2>3, <1>1 DEF ReadIncident, TickInv, Tick
  <2>4. ASSUME NEW k \in Keys, SweepRead(k) PROVE TickInv'
    <3>1. ev'.pc \in {"sweep", "resolve"}
      BY <2>4, <1>1 DEF SweepRead, Tick
    <3> QED BY <3>1 DEF TickInv
  <2>5. CASE WriteIncident
    BY <2>5, <1>1 DEF WriteIncident, TickInv, Tick
  <2>6. CASE Gate
    <3>1. ev'.pc \in {"next", "record"} /\ ev'.todo = ev.todo /\ ev'.fired = ev.fired
          /\ ev'.key = ev.key
      BY <2>6, <1>1 DEF Gate, Tick
    <3> QED BY <2>6, <3>1 DEF Gate, TickInv
  <2>7. ASSUME NEW c \in Channels, Record(c) PROVE TickInv'
    BY <2>7, <1>1 DEF Record, TickInv, Tick
  <2>8. ASSUME NEW a \in Answers, Send(a) PROVE TickInv'
    BY <2>8, <1>1 DEF Send, TickInv, Tick
  <2>9. CASE FinishDelivery
    BY <2>9, <1>1 DEF FinishDelivery, TickInv, Tick
  <2>10. CASE MarkNotified
    BY <2>10, <1>1 DEF MarkNotified, TickInv, Tick
  <2>11. CASE StartSweep
    BY <2>11, <1>1 DEF StartSweep, TickInv, Tick
  <2>12. CASE SweepResolve
    BY <2>12, <1>1 DEF SweepResolve, TickInv, Tick
  <2>13. CASE EndTick
    BY <2>13 DEF EndTick, TickInv, NoTick
  <2> QED BY <1>7, <2>1, <2>2, <2>3, <2>4, <2>5, <2>6, <2>7, <2>8, <2>9, <2>10, <2>11,
             <2>12, <2>13 DEF Evaluate
<1> QED BY <1>3, <1>4, <1>5, <1>6, <1>7 DEF Next

\* What StaysWatched says of one step.
Stays ==
  \A k \in Keys :
    Watched(k) => \/ Watched(k)' \/ Crash
                  \/ incident[k] = "resolved" /\ User

\* As long as the incidents stay and nothing gets out of sight.
LEMMA WatchKept ==
  ASSUME UNCHANGED incident, InSight \subseteq InSight'
  PROVE  Stays
BY DEF Stays, Watched

LEMMA WatchNext ==
  ASSUME TypeOK, TickInv, [Next]_vars
  PROVE  Stays
<1>1. ev \in Tick
  BY DEF TypeOK
<1>2. UNCHANGED <<ev, snapshot>> => InSight' = InSight
  BY DEF InSight
<1>3. CASE UNCHANGED vars
  BY <1>2, <1>3, WatchKept DEF vars, db
<1>4. CASE User
  <2>1. UNCHANGED <<ev, snapshot>>
    BY <1>4 DEF User, Ack, Resolve, Silence, SilenceRow, Disable, Delete
  <2>2. ASSUME NEW k \in Keys, Watched(k), incident[k] # "resolved"
        PROVE  Watched(k)'
    <3>1. incident'[k] = incident[k] \/ incident[k] # "none"
      BY <1>4 DEF User, Ack, Resolve, Silence, SilenceRow, Disable, Delete, UserSets, TypeOK
    <3>2. incident'[k] \in Open => incident[k] \in Open
      BY <2>2, <3>1 DEF TypeOK
    <3> QED BY <2>1, <2>2, <3>2, <1>2 DEF Watched
  <2> QED BY <1>4, <2>2 DEF Stays
<1>5. CASE \E k \in Keys : Flip(k) \/ CooldownPasses(k) \/ SilenceEnds(k)
  <2>1. UNCHANGED <<ev, snapshot, incident>>
    BY <1>5 DEF Flip, CooldownPasses, SilenceEnds, db
  <2> QED BY <2>1, <1>2, WatchKept
<1>6. CASE Retry
  <2>1. UNCHANGED <<ev, snapshot, incident>>
    BY <1>6 DEF Retry, ListDeliveries, RetryRead, RetrySend, RetryUpdate, EndPass, db
  <2> QED BY <2>1, <1>2, WatchKept
<1>7. CASE Crash
  BY <1>7 DEF Stays
<1>8. CASE Evaluate
  <2>1. CASE Query
    <3>1. ev.fired = {} /\ ev.pc = "idle" /\ ev'.pc = "next"
          /\ UNCHANGED <<snapshot, incident>>
      BY <2>1 DEF Query, TickInv, NoTick, db
    <3>2. InSight = snapshot /\ snapshot \subseteq InSight'
      BY <3>1 DEF InSight
    <3> QED BY <3>1, <3>2, WatchKept
  <2>2. CASE QueryFails
    BY <2>2, <1>2, WatchKept DEF QueryFails, db
  <2>3. CASE \/ \E k \in Keys : ReadIncident(k)
             \/ Gate \/ (\E c \in Channels : Record(c)) \/ (\E a \in Answers : Send(a))
             \/ FinishDelivery \/ MarkNotified
    <3>1. UNCHANGED <<snapshot, incident>> /\ ev'.fired = ev.fired
          /\ ev.pc \notin {"sweep", "resolve"} /\ ev'.pc \notin {"sweep", "resolve"}
      BY ZenonT(30), <2>3, <1>1
         DEF ReadIncident, Gate, Record, Send, FinishDelivery, MarkNotified, Tick, db
    <3>2. InSight' = InSight
      BY <3>1 DEF InSight
    <3> QED BY <3>1, <3>2, WatchKept
  <2>4. CASE WriteIncident
    <3>1. ev.key \in ev.fired /\ ev'.fired = ev.fired /\ ev.pc = "write"
          /\ ev'.pc = "gate" /\ UNCHANGED snapshot
      BY <2>4, <1>1 DEF WriteIncident, TickInv, Tick
    <3>2. InSight' = InSight /\ ev.key \in InSight
      BY <3>1 DEF InSight
    <3>3. \A k \in Keys \ {ev.key} : incident'[k] = incident[k]
      BY <2>4 DEF WriteIncident, TypeOK
    <3>4. ASSUME NEW k \in Keys, Watched(k) PROVE Watched(k)'
      BY <3>2, <3>3, <3>4 DEF Watched
    <3> QED BY <3>4 DEF Stays
  <2>5. CASE StartSweep
    <3>1. ev.pc = "next" /\ ev'.pc = "sweep" /\ ev'.fired = ev.fired
          /\ ev'.todo = snapshot \ ev.fired /\ UNCHANGED <<snapshot, incident>>
      BY <2>5, <1>1 DEF StartSweep, Tick, db
    <3>2. InSight' = InSight
      BY <3>1 DEF InSight
    <3> QED BY <3>1, <3>2, WatchKept
  <2>6. ASSUME NEW j \in Keys, SweepRead(j) PROVE Stays
    <3>1. ev.pc = "sweep" /\ ev'.fired = ev.fired /\ ev'.todo = ev.todo \ {j}
          /\ ev'.key = j /\ UNCHANGED <<snapshot, incident>>
          /\ ev'.pc = IF incident[j] \in Open THEN "resolve" ELSE "sweep"
      BY <2>6, <1>1 DEF SweepRead, Tick, db
    <3>2. ASSUME NEW k \in Keys, Watched(k), incident'[k] \in Open PROVE k \in InSight'
      <4>1. k \in ev.fired \cup ev.todo
        BY <3>1, <3>2 DEF Watched, InSight
      <4> QED BY <4>1, <3>1, <3>2 DEF InSight
    <3> QED BY <3>2 DEF Stays, Watched
  <2>7. CASE SweepResolve
    <3>1. ev.pc = "resolve" /\ ev'.pc = "sweep" /\ ev'.fired = ev.fired
          /\ ev'.todo = ev.todo /\ incident' = [incident EXCEPT ![ev.key] = "resolved"]
      BY <2>7, <1>1 DEF SweepResolve, Tick
    <3>2. ev.key \in Keys
      BY <1>1 DEF Tick
    <3>3. ASSUME NEW k \in Keys, Watched(k), incident'[k] \in Open PROVE k \in InSight'
      <4>1. k # ev.key /\ incident[k] \in Open
        BY <3>1, <3>2, <3>3 DEF TypeOK, Open
      <4>2. k \in ev.fired \cup ev.todo
        BY <4>1, <3>1, <3>3 DEF Watched, InSight
      <4> QED BY <4>2, <3>1 DEF InSight
    <3> QED BY <3>3 DEF Stays, Watched
  <2>8. CASE EndTick
    <3>1. ev.pc = "sweep" /\ ev.todo = {} /\ snapshot' = ev.fired /\ ev'.pc = "idle"
          /\ UNCHANGED incident
      BY <2>8 DEF EndTick, NoTick, db
    <3>2. InSight = ev.fired /\ ev.fired \subseteq InSight'
      BY <3>1 DEF InSight
    <3> QED BY <3>1, <3>2, WatchKept
  <2> QED BY <1>8, <2>1, <2>2, <2>3, <2>4, <2>5, <2>6, <2>7, <2>8 DEF Evaluate
<1> QED BY <1>3, <1>4, <1>5, <1>6, <1>7, <1>8 DEF Next

------------------------------------------------------------------------------
(* Deliveries.                                                                 *)

RowInv == EvRowInv /\ RtRowInv /\ CountInv

\* What a send and the record of its outcome do to a row.
LEMMA SentEffect ==
  ASSUME TypeOK, NEW d \in Slots, NEW a \in Answers, Sent(d, a)
  PROVE  /\ rows'[d].status = rows[d].status /\ rows'[d].attempts = rows[d].attempts
         /\ rows'[d].sends = rows[d].sends + 1
         /\ rows'[d].got = IF a.arrived THEN rows[d].got + 1 ELSE rows[d].got
         /\ rows'[d].lost = IF a.arrived /\ ~a.ok THEN rows[d].lost + 1 ELSE rows[d].lost
         /\ \A e \in Slots \ {d} : rows'[e] = rows[e]
<1>1. rows \in [Slots -> Delivery] /\ rows[d] \in Delivery
  BY DEF TypeOK
<1> QED BY <1>1 DEF Sent, Delivery

LEMMA UpdateEffect ==
  ASSUME TypeOK, NEW d \in Slots, NEW ok \in BOOLEAN, NEW n, UpdateDelivery(d, ok, n)
  PROVE  /\ ok => rows'[d] = NoRow
         /\ ~ok => /\ rows'[d].status = "failed" /\ rows'[d].attempts = n
                   /\ rows'[d].sends = rows[d].sends /\ rows'[d].got = rows[d].got
                   /\ rows'[d].lost = rows[d].lost
         /\ \A e \in Slots \ {d} : rows'[e] = rows[e]
<1>1. rows \in [Slots -> Delivery] /\ rows[d] \in Delivery
  BY DEF TypeOK
<1> QED BY <1>1 DEF UpdateDelivery, Delivery

LEMMA Numbers ==
  ASSUME TypeOK, NEW d \in Slots
  PROVE  /\ rows[d].sends \in Nat /\ rows[d].got \in Nat /\ rows[d].lost \in Nat
         /\ rows[d].attempts \in Nat
         /\ rows[d].attempts <= MaxAttempts
         /\ rows[d].status \in {"none", "pending", "failed"}
         /\ crashes \in Nat /\ MaxAttempts \in Nat /\ 1 < MaxAttempts
BY Bounds DEF TypeOK, Delivery, Counter

\* Nothing changes as long as the rows and the pass stay and the evaluator is
\* not at a row, or stays at it.
LEMMA RowsKept ==
  ASSUME RowInv, UNCHANGED <<rows, rt, crashes>>,
         UNCHANGED ev \/ ev'.pc \notin {"send", "finish"}
  PROVE  RowInv'
<1>1. EvRowInv'
  BY DEF RowInv, EvRowInv
<1>2. RtRowInv'
  BY DEF RowInv, RtRowInv, Retriable
<1>3. CountInv'
  BY DEF RowInv, CountInv, Unrecorded
<1> QED BY <1>1, <1>2, <1>3 DEF RowInv

\* One tick of the evaluator works on a pending row, which the retry worker
\* does not touch.
LEMMA RowsEvaluate ==
  ASSUME TypeOK, RowInv, Evaluate
  PROVE  RowInv'
<1>1. ev \in Tick /\ rows \in [Slots -> Delivery]
  BY DEF TypeOK
<1>2. CASE \/ Query \/ QueryFails \/ (\E k \in Keys : ReadIncident(k) \/ SweepRead(k))
           \/ WriteIncident \/ Gate \/ MarkNotified \/ StartSweep \/ SweepResolve
           \/ EndTick
  <2>1. UNCHANGED <<rows, rt, crashes>>
    BY <1>2 DEF Query, QueryFails, ReadIncident, SweepRead, WriteIncident, Gate,
                MarkNotified, StartSweep, SweepResolve, EndTick, db, bounds
  <2>2. UNCHANGED ev \/ ev'.pc \notin {"send", "finish"}
    <3>1. CASE Query \/ QueryFails \/ EndTick
      <4>1. Query => ev'.pc = "next"
        BY DEF Query, NoTick
      <4>2. QueryFails => UNCHANGED ev
        BY DEF QueryFails
      <4>3. EndTick => ev'.pc = "idle"
        BY DEF EndTick, NoTick
      <4> QED BY <3>1, <4>1, <4>2, <4>3
    <3>2. ASSUME NEW k \in Keys, ReadIncident(k) \/ SweepRead(k)
          PROVE  ev'.pc \notin {"send", "finish"}
      BY <1>1, <3>2 DEF ReadIncident, SweepRead, Tick
    <3>3. CASE WriteIncident \/ MarkNotified \/ StartSweep \/ SweepResolve
      BY <1>1, <3>3 DEF WriteIncident, MarkNotified, StartSweep, SweepResolve, Tick
    <3>4. CASE Gate
      BY <1>1, <3>4 DEF Gate, Tick
    <3> QED BY <1>2, <3>1, <3>2, <3>3, <3>4
  <2> QED BY <2>1, <2>2, RowsKept
<1>3. ASSUME NEW c \in Channels, Record(c) PROVE RowInv'
  <2>1. PICK d \in Slots :
          /\ RecordDelivery(d, ev.key, c)
          /\ ev' = [ev EXCEPT !.pc = "send", !.left = @ \ {c}, !.row = d]
    BY <1>3 DEF Record
  <2>2. UNCHANGED <<rt, crashes>>
    BY <1>3 DEF Record, bounds
  <2>3. ev'.pc = "send" /\ ev'.row = d
    BY <2>1, <1>1 DEF Tick
  <2>4. rows[d] = NoRow /\ \A e \in Slots \ {d} : rows'[e] = rows[e]
    BY <2>1, <1>1 DEF RecordDelivery, Unused
  <2>5. rows'[d].status = "pending" /\ rows'[d].sends = 0 /\ rows'[d].got = 0
    BY <2>1, <1>1 DEF RecordDelivery, NoRow
  <2>6. ~Retriable(d)
    BY <2>4 DEF Retriable, NoRow
  <2>7. EvRowInv'
    BY <2>3, <2>5 DEF EvRowInv
  <2>8. RtRowInv'
    <3>1. d \notin rt.todo /\ (rt.pc \in {"send", "update"} => rt.row # d)
      BY <2>6 DEF RowInv, RtRowInv
    <3>2. rt.todo \subseteq Slots
      BY DEF TypeOK, Pass
    <3> QED BY <3>1, <3>2, <2>2, <2>4 DEF RowInv, RtRowInv, Retriable
  <2>9. CountInv'
    <3>1. ASSUME NEW e \in Slots \ {d}
          PROVE  rows'[e] = rows[e] /\ Unrecorded(e)' = Unrecorded(e)
      BY <2>2, <2>4 DEF Unrecorded
    <3> QED BY <2>2, <2>5, <3>1 DEF RowInv, CountInv
  <2> QED BY <2>7, <2>8, <2>9 DEF RowInv
<1>4. ASSUME NEW a \in Answers, Send(a) PROVE RowInv'
  <2>1. PICK d \in Slots : /\ d = ev.row /\ rows[d].status = "pending"
                           /\ rows[d].sends = 0 /\ rows[d].got = 0
    BY <1>4 DEF Send, RowInv, EvRowInv
  <2>2. Sent(d, a) /\ UNCHANGED <<rt, crashes>>
    BY <1>4, <2>1 DEF Send
  <2>3. ev'.pc = "finish" /\ ev'.row = d /\ ev'.sent = a.ok
    BY <1>4, <1>1, <2>1 DEF Send, Tick
  <2>4. /\ rows'[d].status = "pending" /\ rows'[d].sends = 1
        /\ rows'[d].got <= 1 /\ (~a.ok => rows'[d].got <= rows'[d].lost)
        /\ \A e \in Slots \ {d} : rows'[e] = rows[e]
    BY <2>1, <2>2, SentEffect, Numbers
  <2>5. EvRowInv'
    BY <2>1, <2>3, <2>4 DEF EvRowInv
  <2>6. RtRowInv'
    <3>1. d \notin rt.todo /\ (rt.pc \in {"send", "update"} => rt.row # d)
      BY <2>1 DEF RowInv, RtRowInv, Retriable
    <3>2. rt.todo \subseteq Slots
      BY DEF TypeOK, Pass
    <3> QED BY <3>1, <3>2, <2>2, <2>4 DEF RowInv, RtRowInv, Retriable
  <2>7. CountInv'
    <3>1. ASSUME NEW e \in Slots \ {d}
          PROVE  rows'[e] = rows[e] /\ Unrecorded(e)' = Unrecorded(e)
      BY <2>2, <2>4 DEF Unrecorded
    <3> QED BY <2>2, <2>4, <3>1 DEF RowInv, CountInv
  <2> QED BY <2>5, <2>6, <2>7 DEF RowInv
<1>5. CASE FinishDelivery
  <2>1. PICK d \in Slots : /\ d = ev.row /\ rows[d].status = "pending"
                           /\ ~ev.sent => rows[d].got <= rows[d].lost
    BY <1>5 DEF FinishDelivery, RowInv, EvRowInv
  <2>2. UpdateDelivery(d, ev.sent, 1) /\ UNCHANGED <<rt, crashes>> /\ ev.sent \in BOOLEAN
    BY <1>5, <1>1, <2>1 DEF FinishDelivery, bounds, Tick
  <2>3. rows[d].sends <= 1
    BY <2>1 DEF RowInv, CountInv
  <2>4. \A e \in Slots \ {d} : rows'[e] = rows[e]
    BY <2>1, <2>2, UpdateEffect
  <2>5. ev'.pc \notin {"send", "finish"}
    BY <1>5, <1>1 DEF FinishDelivery, Tick
  <2>6. EvRowInv'
    BY <2>5 DEF EvRowInv
  <2>7. d \notin rt.todo /\ (rt.pc \in {"send", "update"} => rt.row # d)
    BY <2>1 DEF RowInv, RtRowInv, Retriable
  <2>8. RtRowInv'
    <3>1. rt.todo \subseteq Slots
      BY DEF TypeOK, Pass
    <3> QED BY <3>1, <2>2, <2>4, <2>7 DEF RowInv, RtRowInv, Retriable
  <2>9. CountInv'
    <3>1. ASSUME NEW e \in Slots \ {d}
          PROVE  rows'[e] = rows[e] /\ Unrecorded(e)' = Unrecorded(e)
      BY <2>2, <2>4 DEF Unrecorded
    <3>2. ~Unrecorded(d)'
      BY <2>2, <2>7 DEF Unrecorded
    <3>3. CASE ev.sent
      <4>1. rows'[d] = NoRow
        BY <3>3, <2>1, <2>2, UpdateEffect
      <4>2. rows'[d].status = "none" /\ rows'[d].sends = 0 /\ rows'[d].got = 0
        BY <4>1 DEF NoRow
      <4> QED BY <2>2, <3>1, <4>2 DEF RowInv, CountInv
    <3>4. CASE ~ev.sent
      <4>1. /\ rows'[d].status = "failed" /\ rows'[d].attempts = 1
            /\ rows'[d].sends <= 1 /\ rows'[d].got <= rows'[d].lost
        BY <3>4, <2>1, <2>2, <2>3, UpdateEffect
      <4>2. rows'[d].sends \in Nat /\ rows'[d].got \in Nat /\ rows'[d].lost \in Nat
            /\ crashes \in Nat
        BY <3>4, <2>1, <2>2, UpdateEffect, Numbers
      <4>3. /\ rows'[d].sends <= rows'[d].attempts + crashes
            /\ rows'[d].got <= rows'[d].lost + crashes
        BY <4>1, <4>2
      <4> QED BY <2>2, <3>1, <3>2, <4>1, <4>2, <4>3 DEF RowInv, CountInv
    <3> QED BY <3>3, <3>4
  <2> QED BY <2>6, <2>8, <2>9 DEF RowInv
<1> QED BY <1>2, <1>3, <1>4, <1>5 DEF Evaluate

\* One pass of the retry worker works on a failed row, which the evaluator does
\* not touch.
LEMMA RowsRetry ==
  ASSUME TypeOK, RowInv, Retry
  PROVE  RowInv'
<1>1. rt \in Pass /\ rows \in [Slots -> Delivery] /\ rt.todo \subseteq Slots
  BY DEF TypeOK, Pass
<1>2. \A d \in Slots : ev.pc \in {"send", "finish"} /\ Retriable(d) => ev.row # d
  BY DEF RowInv, EvRowInv, Retriable
<1>3. ASSUME NEW d \in Slots, Retriable(d), UNCHANGED ev,
             \A e \in Slots \ {d} : rows'[e] = rows[e]
      PROVE  EvRowInv'
  BY <1>2, <1>3 DEF RowInv, EvRowInv
<1>4. CASE ListDeliveries
  <2>1. /\ rt.pc = "idle" /\ rt'.pc = "next" /\ rt'.todo = ListRetriable
        /\ UNCHANGED <<rows, ev, crashes>>
    BY <1>4 DEF ListDeliveries, NoPass, db, bounds
  <2>2. EvRowInv'
    BY <2>1 DEF RowInv, EvRowInv
  <2>3. RtRowInv'
    BY <2>1 DEF RtRowInv, ListRetriable, Retriable
  <2>4. CountInv'
    BY <2>1 DEF RowInv, CountInv, Unrecorded
  <2> QED BY <2>2, <2>3, <2>4 DEF RowInv
<1>5. CASE EndPass
  <2>1. rt.pc = "next" /\ rt' = NoPass /\ UNCHANGED <<rows, ev, crashes>>
    BY <1>5 DEF EndPass, db, bounds
  <2>2. EvRowInv' /\ RtRowInv'
    BY <2>1 DEF RowInv, EvRowInv, RtRowInv, NoPass
  <2>3. CountInv'
    BY <2>1 DEF RowInv, CountInv, Unrecorded, NoPass
  <2> QED BY <2>2, <2>3 DEF RowInv
<1>6. ASSUME NEW d \in Slots, RetryRead(d) PROVE RowInv'
  <2> DEFINE moot == incident[rows[d].key] = "resolved"
             dead == rows[d].channel \notin enabled
             gone == ~moot /\ rows[d].channel \in deleted
  <2>1. rt.pc = "next" /\ d \in rt.todo /\ Retriable(d) /\ UNCHANGED <<ev, crashes>>
    BY <1>6 DEF RetryRead, RowInv, RtRowInv, bounds
  <2>4. CASE (moot \/ dead) /\ gone
    <3>1. rt' = [rt EXCEPT !.todo = @ \ {d}] /\ UNCHANGED rows
      BY <1>6, <2>4 DEF RetryRead
    <3>2. rt'.pc = "next" /\ rt'.todo = rt.todo \ {d}
      BY <3>1, <2>1, <1>1 DEF Pass
    <3>3. EvRowInv' /\ RtRowInv'
      BY <3>1, <3>2, <2>1 DEF RowInv, EvRowInv, RtRowInv, Retriable
    <3>4. CountInv'
      BY <3>1, <3>2, <2>1 DEF RowInv, CountInv, Unrecorded
    <3> QED BY <3>3, <3>4 DEF RowInv
  <2>2. CASE (moot \/ dead) /\ ~gone
    <3>1. UpdateDelivery(d, moot, MaxAttempts) /\ rt' = [rt EXCEPT !.todo = @ \ {d}]
      BY <1>6, <2>2 DEF RetryRead
    <3>2. rt'.pc = "next" /\ rt'.todo = rt.todo \ {d}
      BY <3>1, <2>1, <1>1 DEF Pass
    <3>3. moot \in BOOLEAN
      OBVIOUS
    <3>4. /\ moot => rows'[d] = NoRow
          /\ ~moot => /\ rows'[d].status = "failed" /\ rows'[d].attempts = MaxAttempts
                      /\ rows'[d].sends = rows[d].sends /\ rows'[d].got = rows[d].got
                      /\ rows'[d].lost = rows[d].lost
          /\ \A e \in Slots \ {d} : rows'[e] = rows[e]
      BY <3>1, <3>3, UpdateEffect
    <3>5. EvRowInv'
      BY <3>4, <2>1, <1>3
    <3>6. RtRowInv'
      BY <3>2, <3>4, <1>1 DEF RowInv, RtRowInv, Retriable
    <3>7. CountInv'
      <4>1. ASSUME NEW e \in Slots PROVE ~Unrecorded(e) /\ ~Unrecorded(e)'
        BY <2>1, <3>2 DEF Unrecorded
      <4>2. rows[d].sends <= rows[d].attempts + crashes
            /\ rows[d].got <= rows[d].lost + crashes
        BY <2>1, <4>1, Numbers DEF RowInv, CountInv, Retriable
      <4>3. CASE moot
        <5>1. rows'[d].status = "none" /\ rows'[d].sends = 0 /\ rows'[d].got = 0
          BY <4>3, <3>4 DEF NoRow
        <5> QED BY <2>1, <3>4, <4>1, <5>1 DEF RowInv, CountInv
      <4>4. CASE ~moot
        <5>1. rows'[d].sends <= rows'[d].attempts + crashes
              /\ rows'[d].got <= rows'[d].lost + crashes
          BY <4>2, <4>4, <3>4, Numbers
        <5>2. rows'[d].status = "failed" /\ rows'[d].attempts + crashes \in Nat
          BY <4>4, <3>4, Numbers
        <5>3. rows'[d].lost + crashes \in Nat
          BY <4>4, <3>4, Numbers
        <5> QED BY <2>1, <3>4, <4>1, <5>1, <5>2, <5>3 DEF RowInv, CountInv
      <4> QED BY <4>3, <4>4
    <3> QED BY <3>5, <3>6, <3>7 DEF RowInv
  <2>3. CASE ~(moot \/ dead)
    <3>1. /\ rt' = [rt EXCEPT !.pc = "send", !.todo = @ \ {d}, !.row = d,
                              !.attempts = rows[d].attempts]
          /\ UNCHANGED rows
      BY <1>6, <2>3 DEF RetryRead
    <3>2. rt'.pc = "send" /\ rt'.todo = rt.todo \ {d} /\ rt'.row = d
          /\ rt'.attempts = rows[d].attempts
      BY <3>1, <1>1 DEF Pass
    <3>3. EvRowInv'
      BY <3>1, <2>1 DEF RowInv, EvRowInv
    <3>4. RtRowInv'
      BY <3>1, <3>2, <2>1 DEF RowInv, RtRowInv, Retriable
    <3>5. CountInv'
      BY <3>1, <3>2, <2>1 DEF RowInv, CountInv, Unrecorded
    <3> QED BY <3>3, <3>4, <3>5 DEF RowInv
  <2> QED BY <2>2, <2>3, <2>4
<1>7. ASSUME NEW a \in Answers, RetrySend(a) PROVE RowInv'
  <2>1. PICK d \in Slots \ rt.todo : /\ d = rt.row /\ rt.pc = "send" /\ Retriable(d)
                                    /\ rows[d].attempts = rt.attempts
    BY <1>7 DEF RetrySend, RowInv, RtRowInv
  <2>2. Sent(d, a) /\ UNCHANGED <<ev, crashes>>
    BY <1>7, <2>1 DEF RetrySend
  <2>3. rt'.pc = "update" /\ rt'.sent = a.ok /\ rt'.row = d /\ rt'.todo = rt.todo
        /\ rt'.attempts = rt.attempts
    BY <1>7, <1>1, <2>1 DEF RetrySend, Pass
  <2>4. /\ rows'[d].status = rows[d].status /\ rows'[d].attempts = rows[d].attempts
        /\ rows'[d].sends = rows[d].sends + 1
        /\ \A e \in Slots \ {d} : rows'[e] = rows[e]
    BY <2>2, SentEffect
  <2> DEFINE told == IF a.ok THEN 1 ELSE 0
  <2>8. rows'[d].got <= rows[d].got + rows'[d].lost - rows[d].lost + told
        /\ rows'[d].lost \in Nat
    <3>1. a.ok => a.arrived
      BY DEF Answers
    <3> QED BY <3>1, <2>2, SentEffect, Numbers
  <2>5. EvRowInv'
    BY <2>1, <2>2, <2>4, <1>3
  <2>6. RtRowInv'
    BY <2>1, <2>3, <2>4, <1>1 DEF RowInv, RtRowInv, Retriable
  <2>7. CountInv'
    <3>1. ASSUME NEW e \in Slots PROVE ~Unrecorded(e) /\ (Unrecorded(e)' <=> e = d)
      BY <2>1, <2>3 DEF Unrecorded
    <3>2. rows[d].sends <= rows[d].attempts + crashes
          /\ rows[d].got <= rows[d].lost + crashes
      BY <2>1, <3>1, Numbers DEF RowInv, CountInv, Retriable
    <3>3. /\ rows'[d].sends <= rows'[d].attempts + crashes + 1
          /\ rows'[d].got <= rows'[d].lost + crashes + told
          /\ rows'[d].status = "failed"
      <4>1. told \in Nat
        OBVIOUS
      <4>2. rows'[d].got \in Nat /\ rows'[d].sends \in Nat
        BY <2>2, SentEffect, Numbers
      <4>3. rows'[d].status = "failed" /\ rows'[d].sends <= rows'[d].attempts + crashes + 1
        BY <2>1, <2>4, <3>2, Numbers DEF Retriable
      <4> HIDE DEF told
      <4>4. rows'[d].got <= rows'[d].lost + crashes + told
        BY <2>8, <3>2, <4>1, <4>2, Numbers
      <4> QED BY <4>3, <4>4
    <3> QED BY <2>2, <2>3, <2>4, <3>1, <3>3 DEF RowInv, CountInv
  <2> QED BY <2>5, <2>6, <2>7 DEF RowInv
<1>8. CASE RetryUpdate
  <2>1. PICK d \in Slots \ rt.todo : /\ d = rt.row /\ rt.pc = "update" /\ Retriable(d)
                                    /\ rows[d].attempts = rt.attempts
    BY <1>8 DEF RetryUpdate, RowInv, RtRowInv
  <2>2. /\ UpdateDelivery(d, rt.sent, rows[d].attempts + 1) /\ rt.sent \in BOOLEAN
        /\ UNCHANGED <<ev, crashes>>
    BY <1>8, <1>1, <2>1 DEF RetryUpdate, bounds, Pass
  <2>3. rt'.pc = "next" /\ rt'.todo = rt.todo
    BY <1>8 DEF RetryUpdate, NoPass
  <2>4. /\ rt.sent => rows'[d] = NoRow
        /\ ~rt.sent => /\ rows'[d].status = "failed"
                       /\ rows'[d].attempts = rows[d].attempts + 1
                       /\ rows'[d].sends = rows[d].sends /\ rows'[d].got = rows[d].got
                       /\ rows'[d].lost = rows[d].lost
        /\ \A e \in Slots \ {d} : rows'[e] = rows[e]
    BY <2>2, UpdateEffect
  <2>5. EvRowInv'
    BY <2>1, <2>2, <2>4, <1>3
  <2>6. RtRowInv'
    BY <2>1, <2>3, <2>4, <1>1 DEF RowInv, RtRowInv, Retriable
  <2>7. CountInv'
    <3>1. ASSUME NEW e \in Slots PROVE ~Unrecorded(e)' /\ (Unrecorded(e) <=> e = d)
      BY <2>1, <2>3 DEF Unrecorded
    <3>2. /\ rows[d].sends <= rows[d].attempts + crashes + 1
          /\ rows[d].got <= rows[d].lost + crashes + (IF rt.sent THEN 1 ELSE 0)
      BY <2>1, <3>1, Numbers DEF RowInv, CountInv, Retriable
    <3>3. CASE rt.sent
      <4>1. rows'[d].status = "none" /\ rows'[d].sends = 0 /\ rows'[d].got = 0
        BY <3>3, <2>4 DEF NoRow
      <4> QED BY <2>2, <2>4, <3>1, <4>1 DEF RowInv, CountInv
    <3>4. CASE ~rt.sent
      <4>1. /\ rows'[d].sends <= rows'[d].attempts + crashes
            /\ rows'[d].got <= rows'[d].lost + crashes
            /\ rows'[d].status = "failed"
        BY <3>2, <3>4, <2>4, Numbers
      <4>2. rows'[d].attempts + crashes \in Nat /\ rows'[d].lost + crashes \in Nat
        BY <3>4, <2>4, Numbers
      <4> QED BY <2>2, <2>4, <3>1, <4>1, <4>2 DEF RowInv, CountInv
    <3> QED BY <3>3, <3>4
  <2> QED BY <2>5, <2>6, <2>7 DEF RowInv
<1> QED BY <1>4, <1>5, <1>6, <1>7, <1>8 DEF Retry

LEMMA RowsNext ==
  ASSUME TypeOK, RowInv, [Next]_vars
  PROVE  RowInv'
<1>1. CASE UNCHANGED vars
  BY <1>1, RowsKept DEF vars, db, bounds
<1>2. CASE User
  BY <1>2, RowsKept DEF User, Ack, Resolve, Silence, SilenceRow, Disable, Delete, bounds
<1>3. CASE \E k \in Keys : Flip(k) \/ CooldownPasses(k) \/ SilenceEnds(k)
  BY <1>3, RowsKept DEF Flip, CooldownPasses, SilenceEnds, db, bounds
<1>4. CASE Crash
  <2>1. /\ UNCHANGED rows /\ crashes' = crashes + 1
        /\ ev'.pc = "idle" /\ rt'.pc = "idle" /\ rt'.todo = {}
    BY <1>4 DEF Crash, db, NoTick, NoPass
  <2>2. EvRowInv' /\ RtRowInv'
    BY <2>1 DEF EvRowInv, RtRowInv
  <2>3. ASSUME NEW d \in Slots, rows[d].status = "failed"
        PROVE  /\ rows[d].sends <= rows[d].attempts + crashes'
               /\ rows[d].got <= rows[d].lost + crashes'
    BY <2>1, <2>3, Numbers DEF RowInv, CountInv
  <2>4. \A d \in Slots : ~Unrecorded(d)'
    BY <2>1 DEF Unrecorded
  <2>5. ASSUME NEW d \in Slots PROVE rows[d].attempts + crashes' \in Nat /\ rows[d].lost + crashes' \in Nat
    BY <2>1, Numbers
  <2>6. CountInv'
    BY <2>1, <2>3, <2>4, <2>5 DEF RowInv, CountInv
  <2> QED BY <2>2, <2>6 DEF RowInv
<1> QED BY <1>1, <1>2, <1>3, <1>4, RowsEvaluate, RowsRetry DEF Next

------------------------------------------------------------------------------
(* Theorems.                                                                   *)

LEMMA Inductive ==
  ASSUME Inv, [Next]_vars
  PROVE  Inv' /\ Stays
<1>1. TypeOK'
  <2>1. CASE UNCHANGED vars
    BY <2>1 DEF Inv, TypeOK, vars, db, bounds
  <2> QED BY <2>1, EvaluateTypes, RetryTypes, OtherTypes DEF Inv, Next
<1> QED BY <1>1, TickNext, WatchNext, RowsNext DEF Inv, RowInv

LEMMA Initially ==
  ASSUME Init
  PROVE  Inv
<1>1. TypeOK
  BY Rests, Bounds DEF Init, TypeOK, Counter, Open
<1>2. TickInv /\ EvRowInv /\ RtRowInv
  BY DEF Init, TickInv, EvRowInv, RtRowInv, NoTick, NoPass
<1>3. CountInv
  BY DEF Init, CountInv, NoRow
<1> QED BY <1>1, <1>2, <1>3 DEF Inv

\* The strengthening holds throughout; the theorems below rest on it.
THEOREM InvHolds == Spec => []Inv
<1>1. Inv /\ [Next]_vars => Inv'
  BY Inductive
<1> QED BY <1>1, Initially, PTL DEF Spec

\* Types are kept (pipeline.go, usecase.go, retry.go).
THEOREM TypeCorrect == Spec => []TypeOK
<1>1. Inv => TypeOK
  BY DEF Inv
<1> QED BY <1>1, InvHolds, PTL

\* No step of the evaluator or of the retry worker loses sight of an open
\* incident, and none of a user but on one that was resolved
\* (pipeline.go: evaluatePromQuery, usecase.go: RecordFiring, SystemResolveIncident).
THEOREM NoAlarmLost == Spec => StaysWatched
<1>1. Inv /\ [Next]_vars => [Stays]_vars
  BY Inductive
<1> QED BY <1>1, InvHolds, PTL DEF Spec, StaysWatched, Stays

\* A channel gets the message of a delivery a second time only for an answer that was
\* lost or a restart, and the evaluator and the retry worker between them send it
\* MaxAttempts times at most, but for one time more with each restart
\* (usecase.go: MaybeNotify, FinishDelivery; retry.go: retryOne; notify.go: Send).
THEOREM NoDuplicate == Spec => []NoNeedlessResend
<1>1. ASSUME Inv, NEW d \in Slots
      PROVE  /\ rows[d].got <= 1 + rows[d].lost + crashes
             /\ rows[d].sends <= MaxAttempts + crashes
  <2>1. /\ rows[d].sends \in Nat /\ rows[d].got \in Nat /\ rows[d].lost \in Nat
        /\ rows[d].attempts \in Nat
        /\ rows[d].attempts <= MaxAttempts
        /\ rows[d].status \in {"none", "pending", "failed"}
        /\ crashes \in Nat /\ MaxAttempts \in Nat /\ 1 < MaxAttempts
    BY <1>1, Numbers DEF Inv
  <2>2. CASE rows[d].status = "failed"
    <3>1. Unrecorded(d) => rows[d].attempts + 1 <= MaxAttempts
      BY <1>1, <2>1 DEF Inv, RtRowInv, Retriable, Unrecorded
    <3> QED BY <1>1, <2>1, <2>2, <3>1 DEF Inv, CountInv
  <2>3. CASE rows[d].status # "failed"
    BY <1>1, <2>1, <2>3 DEF Inv, CountInv
  <2> QED BY <2>2, <2>3
<1>2. Inv => NoNeedlessResend
  BY <1>1 DEF NoNeedlessResend
<1> QED BY <1>2, InvHolds, PTL
=============================================================================
