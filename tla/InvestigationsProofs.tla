------------------------- MODULE InvestigationsProofs -------------------------
(* Theorems about Investigations, for any number of incidents, users, rows     *)
(* and slots, and wherever the manager stops.                                  *)
EXTENDS Investigations, FiniteSetTheorems, TLAPS

\* A slot belongs to one goroutine or to one request that is about to start one.
SlotsInv ==
  /\ IsFiniteSet(Holders) /\ IsFiniteSet(Creating)
  /\ SlotsAreHeld

\* Requests and goroutines do not survive the process.
DownInv ==
  ~up => /\ \A c \in Callers : call[c].pc = "idle"
         /\ \A r \in Rows : run[r].pc = "none"

\* A row has an identifier; a goroutine that may still write finds its row in
\* progress, or not at all.
RowsInv ==
  /\ \A i \in Incidents : report[i] = NoReport \/ report[i].row \in Rows
  /\ \A i \in Incidents, r \in Rows :
       report[i].row = r /\ run[r].pc \in Alive => report[i].status \in InProgress

\* The inductive invariant.
Inv == TypeOK /\ SlotsInv /\ DownInv /\ RowsInv /\ ProgressHasRun

------------------------------------------------------------------------------
(* Types.                                                                      *)

\* What a row update and an insertion leave is a row again.
LEMMA RowTypes ==
  ASSUME TypeOK
  PROVE  /\ \A r \in Rows, s \in InProgress \cup Final, w \in BOOLEAN :
              Update(r, s, w) => report' \in [Incidents -> Reports]
         /\ \A i \in Incidents, r \in Rows, s \in InProgress \cup Final :
              Insert(i, r, s) => report' \in [Incidents -> Reports]
         /\ FailOrphaned => report' \in [Incidents -> Reports]
<1>1. report \in [Incidents -> Reports]
  BY DEF TypeOK
<1>2. \A r \in Rows, s \in InProgress \cup Final, w \in BOOLEAN :
        [row |-> r, status |-> s, worker |-> w] \in Reports
  BY DEF Reports
<1>3. \A i \in Incidents : [report[i] EXCEPT !.status = "failed"] \in Reports
  BY <1>1 DEF Reports, Final
<1>4. ASSUME NEW r \in Rows, NEW s \in InProgress \cup Final, NEW w \in BOOLEAN,
             Update(r, s, w)
      PROVE  report' \in [Incidents -> Reports]
  BY <1>1, <1>2, <1>4 DEF Update
<1>5. ASSUME NEW i \in Incidents, NEW r \in Rows, NEW s \in InProgress \cup Final,
             Insert(i, r, s)
      PROVE  report' \in [Incidents -> Reports]
  BY <1>1, <1>2, <1>5 DEF Insert
<1>6. ASSUME FailOrphaned PROVE report' \in [Incidents -> Reports]
  BY <1>1, <1>3, <1>6 DEF FailOrphaned
<1> QED BY <1>4, <1>5, <1>6

\* No slot is given back that was not taken.
LEMMA SlotTaken ==
  ASSUME TypeOK, SlotsInv, NEW c \in Callers, At(c, "create")
  PROVE  slots - 1 \in 0 .. MaxConcurrent
<1>1. c \in Creating
  BY DEF At, Creating
<1>2. Cardinality(Creating) # 0
  BY <1>1, FS_EmptySet DEF SlotsInv
<1>3. Cardinality(Creating) \in Nat /\ Cardinality(Holders) \in Nat
  BY FS_CardinalityType DEF SlotsInv
<1>4. slots = Cardinality(Holders) + Cardinality(Creating)
  BY DEF SlotsInv, SlotsAreHeld
<1>5. slots \in 0 .. MaxConcurrent
  BY DEF TypeOK
<1> HIDE DEF SlotsInv
<1> QED BY <1>2, <1>3, <1>4, <1>5, ConcurrencyAssumption

LEMMA TypeNext ==
  ASSUME TypeOK, SlotsInv, [Next]_vars
  PROVE  TypeOK'
<1> USE DEF TypeOK, Callers, Alive
<1> DEFINE Calls == [of : Incidents,
       pc : {"idle", "list", "delete", "release", "enter", "acquire", "unguard",
             "skip", "create", "undo"}]
           Runs == [of : Incidents, killed : BOOLEAN,
                    pc : Alive \cup {"none", "unguard", "release"}]
<1>1. NoCall \in Calls /\ NoRun \in Runs
  BY IncidentsAssumption DEF NoCall, NoRun
<1>2. \A c \in Callers : Return(c) => call' \in [Callers -> Calls]
  BY <1>1 DEF Return
<1>3. \A c \in Callers, p \in {"idle", "list", "delete", "release", "enter",
                               "acquire", "unguard", "skip", "create", "undo"} :
        Goto(c, p) => call' \in [Callers -> Calls]
  BY DEF Goto
<1>4. \A r \in Rows, p \in Alive \cup {"none", "unguard", "release"} :
        Step(r, p) => run' \in [Rows -> Runs]
  BY DEF Step
<1>5. slots \in Nat /\ MaxConcurrent \in Nat
  BY ConcurrencyAssumption
<1> USE DEF InProgress, Final
<1>6. CASE UNCHANGED vars
  BY <1>6 DEF vars
<1>7. ASSUME NEW i \in Incidents, Fire(i) PROVE TypeOK'
  BY <1>7 DEF Fire
<1>8. ASSUME NEW i \in Incidents, Resolve(i) PROVE TypeOK'
  BY <1>8 DEF Resolve
<1>9. ASSUME NEW i \in Incidents, NEW u \in Users, ForceRerun(u, i) PROVE TypeOK'
  <2>1. call' \in [Callers -> Calls]
    BY <1>9 DEF ForceRerun
  <2>2. \A r \in Rows : [run[r] EXCEPT !.killed = TRUE] \in Runs
    OBVIOUS
  <2>3. run' \in [Rows -> Runs]
    BY <1>9, <2>2 DEF ForceRerun
  <2>4. forces' \in 0 .. MaxForces
    BY <1>9, BoundsAssumption DEF ForceRerun
  <2> QED BY <1>9, <2>1, <2>3, <2>4 DEF ForceRerun
<1>10. CASE Crash
  <2>1. call' \in [Callers -> Calls] /\ run' \in [Rows -> Runs]
    BY <1>10, <1>1 DEF Crash
  <2>2. crashes' \in 0 .. MaxCrashes /\ slots' \in 0 .. MaxConcurrent
    BY <1>10, <1>5, BoundsAssumption DEF Crash
  <2> QED BY <1>10, <2>1, <2>2 DEF Crash
<1>11. CASE Boot
  BY <1>11, <1>3, RowTypes DEF Boot
<1>12. CASE Backfill
  <2>1. CASE BackfillList
    BY <2>1, <1>2 DEF BackfillList
  <2>2. ASSUME NEW i \in Incidents, BackfillNext(i) PROVE TypeOK'
    <3>1. [pc |-> "enter", of |-> i] \in Calls
      OBVIOUS
    <3>2. call' \in [Callers -> Calls]
      BY <2>2, <3>1 DEF BackfillNext
    <3> QED BY <2>2, <3>2 DEF BackfillNext
  <2> QED BY <1>12, <2>1, <2>2 DEF Backfill
<1>13. ASSUME NEW u \in Users, ForceStep(u) PROVE TypeOK'
  <2>1. CASE ForceDelete(u)
    <3>1. report' \in [Incidents -> Reports]
      BY <2>1 DEF ForceDelete, NoReport, Reports
    <3> QED BY <2>1, <3>1, <1>3 DEF ForceDelete
  <2>2. CASE ForceRelease(u)
    BY <2>2, <1>3 DEF ForceRelease
  <2> QED BY <1>13, <2>1, <2>2 DEF ForceStep
<1>14. ASSUME NEW c \in Callers, Enqueue(c) PROVE TypeOK'
  <2>1. CASE Enter(c)
    BY <2>1, <1>2, <1>3 DEF Enter
  <2>2. CASE Acquire(c)
    BY <2>2, <1>3, <1>5 DEF Acquire
  <2>3. CASE NoSlot(c)
    BY <2>3, <1>3 DEF NoSlot
  <2>4. CASE CreateSkipped(c)
    BY <2>4, <1>2, RowTypes DEF CreateSkipped
  <2>5. CASE Create(c)
    <3>1. run' \in [Rows -> Runs]
      BY <2>5 DEF Create
    <3> QED BY <2>5, <3>1, <1>2, RowTypes DEF Create
  <2>6. CASE CreateConflict(c)
    <3>1. slots - 1 \in 0 .. MaxConcurrent
      BY <2>6, SlotTaken DEF CreateConflict
    <3> QED BY <2>6, <3>1, <1>3 DEF CreateConflict
  <2>7. CASE UndoGuard(c)
    BY <2>7, <1>2 DEF UndoGuard
  <2> QED BY <1>14, <2>1, <2>2, <2>3, <2>4, <2>5, <2>6, <2>7 DEF Enqueue
<1>15. ASSUME NEW r \in Rows, Run(r) PROVE TypeOK'
  <2>1. CASE Spawn(r)
    BY <2>1, <1>4 DEF Spawn
  <2>2. CASE SpawnFails(r)
    BY <2>2, <1>4, RowTypes DEF SpawnFails
  <2>3. CASE WorkerEnds(r)
    BY <2>3, <1>4 DEF WorkerEnds
  <2>4. CASE Attach(r)
    BY <2>4, <1>4, RowTypes DEF Attach
  <2>5. ASSUME NEW answer \in BOOLEAN, Finish(r, answer) PROVE TypeOK'
    BY <2>5, <1>4, RowTypes DEF Finish
  <2>6. CASE Unguard(r)
    BY <2>6, <1>4 DEF Unguard
  <2>7. CASE ReleaseSlot(r)
    BY <2>7, <1>1, <1>5 DEF ReleaseSlot
  <2> QED BY <1>15, <2>1, <2>2, <2>3, <2>4, <2>5, <2>6, <2>7 DEF Run
<1> HIDE DEF TypeOK
<1> QED BY <1>6, <1>7, <1>10, <1>11, <1>12, <1>13, <1>14, <1>15, <1>8, <1>9
       DEF Next, Progress

------------------------------------------------------------------------------
(* Slots.                                                                      *)

\* Who holds a slot changes only when a request enters or leaves "create" and
\* when a goroutine begins or ends.
LEMMA SlotsKept ==
  ASSUME SlotsInv, Holders' = Holders, Creating' = Creating, slots' = slots
  PROVE  SlotsInv'
BY DEF SlotsInv, SlotsAreHeld

LEMMA CreatingKept ==
  ASSUME TypeOK, NEW c \in Callers, call[c].pc # "create"
  PROVE  /\ Return(c) => Creating' = Creating
         /\ \A p : p # "create" /\ Goto(c, p) => Creating' = Creating
<1>1. ASSUME Return(c) PROVE Creating' = Creating
  BY <1>1 DEF TypeOK, Return, Creating, NoCall
<1>2. ASSUME NEW p, p # "create", Goto(c, p) PROVE Creating' = Creating
  BY <1>2 DEF TypeOK, Goto, Creating
<1> QED BY <1>1, <1>2

LEMMA HoldersKept ==
  ASSUME TypeOK, NEW r \in Rows, r \in Holders,
         NEW p \in Alive \cup {"unguard", "release"}, Step(r, p)
  PROVE  Holders' = Holders
BY DEF TypeOK, Step, Holders

LEMMA SlotsNext ==
  ASSUME TypeOK, SlotsInv, DownInv, [Next]_vars
  PROVE  SlotsInv'
<1> DEFINE Pcs == Alive \cup {"unguard", "release"}
<1>1. /\ Cardinality(Holders) \in Nat /\ Cardinality(Creating) \in Nat
      /\ slots = Cardinality(Holders) + Cardinality(Creating)
      /\ IsFiniteSet(Holders) /\ IsFiniteSet(Creating)
  BY FS_CardinalityType DEF SlotsInv, SlotsAreHeld
<1>2. UNCHANGED call => Creating' = Creating
  BY DEF Creating
<1>3. UNCHANGED run => Holders' = Holders
  BY DEF Holders
<1>4. CASE UNCHANGED vars
  BY <1>4, <1>2, <1>3, SlotsKept DEF vars
<1>5. ASSUME NEW i \in Incidents, Fire(i) PROVE SlotsInv'
  <2>1. Creating' = Creating
    BY <1>5 DEF Fire, At, Creating, TypeOK
  <2> QED BY <1>5, <2>1, <1>3, SlotsKept DEF Fire
<1>6. ASSUME NEW i \in Incidents, Resolve(i) PROVE SlotsInv'
  BY <1>6, <1>2, <1>3, SlotsKept DEF Resolve
<1>7. ASSUME NEW i \in Incidents, NEW u \in Users, ForceRerun(u, i) PROVE SlotsInv'
  <2>1. Creating' = Creating
    BY <1>7 DEF ForceRerun, At, Creating, TypeOK
  <2>2. Holders' = Holders
    BY <1>7 DEF ForceRerun, Holders, TypeOK
  <2> QED BY <1>7, <2>1, <2>2, SlotsKept DEF ForceRerun
<1>8. CASE Crash
  <2>1. Holders' = {} /\ Creating' = {} /\ slots' = 0
    BY <1>8 DEF Crash, Holders, Creating, NoRun, NoCall, Alive
  <2>2. IsFiniteSet({}) /\ Cardinality({}) = 0
    BY FS_EmptySet
  <2> QED BY <2>1, <2>2 DEF SlotsInv, SlotsAreHeld
<1>9. CASE Boot
  <2>1. Creating' = Creating
    <3>1. "backfill" \in Callers /\ call["backfill"].pc # "create"
      BY <1>9 DEF Boot, DownInv, Callers
    <3> QED BY <1>9, <3>1, CreatingKept DEF Boot
  <2> QED BY <1>9, <2>1, <1>3, SlotsKept DEF Boot
<1>10. CASE Backfill
  <2>1. CASE BackfillList
    <3>1. Creating' = Creating
      BY <2>1, CreatingKept DEF BackfillList, At, Callers
    <3> QED BY <2>1, <3>1, <1>3, SlotsKept DEF BackfillList
  <2>2. ASSUME NEW i \in Incidents, BackfillNext(i) PROVE SlotsInv'
    <3>1. Creating' = Creating
      BY SMTT(30), <2>2 DEF BackfillNext, At, Creating, TypeOK
    <3> QED BY <2>2, <3>1, <1>3, SlotsKept DEF BackfillNext
  <2> QED BY <1>10, <2>1, <2>2 DEF Backfill
<1>11. ASSUME NEW u \in Users, ForceStep(u) PROVE SlotsInv'
  <2>1. CASE ForceDelete(u)
    <3>1. Creating' = Creating
      BY <2>1, CreatingKept DEF ForceDelete, At, Callers
    <3> QED BY <2>1, <3>1, <1>3, SlotsKept DEF ForceDelete
  <2>2. CASE ForceRelease(u)
    <3>1. Creating' = Creating
      BY <2>2, CreatingKept DEF ForceRelease, At, Callers
    <3> QED BY <2>2, <3>1, <1>3, SlotsKept DEF ForceRelease
  <2> QED BY <1>11, <2>1, <2>2 DEF ForceStep
<1>12. ASSUME NEW c \in Callers, Enqueue(c) PROVE SlotsInv'
  <2>1. CASE Enter(c)
    <3>1. Creating' = Creating
      BY <2>1, CreatingKept DEF Enter, At
    <3> QED BY <2>1, <3>1, <1>3, SlotsKept DEF Enter
  <2>2. CASE Acquire(c)
    <3>1. CASE slots < MaxConcurrent
      <4>1. c \notin Creating /\ Creating' = Creating \cup {c} /\ slots' = slots + 1
        BY <2>2, <3>1 DEF Acquire, At, Goto, Creating, TypeOK
      <4>2. Cardinality(Creating') = Cardinality(Creating) + 1 /\ IsFiniteSet(Creating')
        BY <4>1, <1>1, FS_AddElement
      <4>3. Holders' = Holders
        BY <2>2, <1>3 DEF Acquire
      <4> QED BY <4>1, <4>2, <4>3, <1>1 DEF SlotsInv, SlotsAreHeld
    <3>2. CASE ~(slots < MaxConcurrent)
      <4>1. Creating' = Creating
        BY <2>2, <3>2, CreatingKept DEF Acquire, At
      <4> QED BY <2>2, <3>2, <4>1, <1>3, SlotsKept DEF Acquire
    <3> QED BY <3>1, <3>2
  <2>3. CASE NoSlot(c)
    <3>1. Creating' = Creating
      BY <2>3, CreatingKept DEF NoSlot, At
    <3> QED BY <2>3, <3>1, <1>3, SlotsKept DEF NoSlot
  <2>4. CASE CreateSkipped(c)
    <3>1. Creating' = Creating
      BY <2>4, CreatingKept DEF CreateSkipped, At
    <3> QED BY <2>4, <3>1, <1>3, SlotsKept DEF CreateSkipped
  <2>5. CASE Create(c)
    <3>1. PICK r \in Rows : /\ New(r)
                            /\ run' = [run EXCEPT ![r] =
                                 [pc |-> "spawn", of |-> call[c].of, killed |-> FALSE]]
      BY <2>5 DEF Create, Insert
    <3>2. r \notin Holders
      BY <3>1 DEF New, Holders, NoRun, Alive
    <3>3. Holders' = Holders \cup {r}
      BY <3>1 DEF Holders, TypeOK, Alive
    <3>4. c \in Creating /\ Creating' = Creating \ {c} /\ slots' = slots
      BY <2>5 DEF Create, At, Return, Creating, TypeOK, NoCall
    <3>5. Cardinality(Holders') = Cardinality(Holders) + 1 /\ IsFiniteSet(Holders')
      BY <3>2, <3>3, <1>1, FS_AddElement
    <3>6. Cardinality(Creating') = Cardinality(Creating) - 1 /\ IsFiniteSet(Creating')
      BY <3>4, <1>1, FS_RemoveElement
    <3> QED BY <3>4, <3>5, <3>6, <1>1 DEF SlotsInv, SlotsAreHeld
  <2>6. CASE CreateConflict(c)
    <3>1. c \in Creating /\ Creating' = Creating \ {c} /\ slots' = slots - 1
      BY <2>6 DEF CreateConflict, At, Goto, Creating, TypeOK
    <3>2. Cardinality(Creating') = Cardinality(Creating) - 1 /\ IsFiniteSet(Creating')
      BY <3>1, <1>1, FS_RemoveElement
    <3>3. Holders' = Holders
      BY <2>6, <1>3 DEF CreateConflict
    <3> QED BY <3>1, <3>2, <3>3, <1>1 DEF SlotsInv, SlotsAreHeld
  <2>7. CASE UndoGuard(c)
    <3>1. Creating' = Creating
      BY <2>7, CreatingKept DEF UndoGuard, At
    <3> QED BY <2>7, <3>1, <1>3, SlotsKept DEF UndoGuard
  <2> QED BY <1>12, <2>1, <2>2, <2>3, <2>4, <2>5, <2>6, <2>7 DEF Enqueue
<1>13. ASSUME NEW r \in Rows, Run(r) PROVE SlotsInv'
  <2>1. run[r].pc \in Pcs => r \in Holders
    BY DEF Holders
  <2>2. CASE \/ Spawn(r) \/ SpawnFails(r) \/ WorkerEnds(r) \/ Attach(r) \/ Unguard(r)
             \/ \E answer \in BOOLEAN : Finish(r, answer)
    <3>1. UNCHANGED <<call, slots>>
      BY <2>2 DEF Spawn, SpawnFails, WorkerEnds, Attach, Finish, Unguard
    <3>2. run[r].pc \in Pcs /\ \E p \in Pcs : Step(r, p)
      BY <2>2 DEF Spawn, SpawnFails, WorkerEnds, Attach, Finish, Unguard, Alive
    <3>3. Holders' = Holders
      BY <2>1, <3>2, HoldersKept
    <3> QED BY <3>1, <3>3, <1>2, SlotsKept
  <2>3. CASE ReleaseSlot(r)
    <3>1. r \in Holders /\ Holders' = Holders \ {r} /\ UNCHANGED call
      BY <2>3 DEF ReleaseSlot, Holders, TypeOK, NoRun, Alive
    <3>2. Cardinality(Holders') = Cardinality(Holders) - 1 /\ IsFiniteSet(Holders')
      BY <3>1, <1>1, FS_RemoveElement
    <3>3. Cardinality(Holders) # 0
      BY <3>1, <1>1, FS_EmptySet
    <3>4. slots' = slots - 1
      BY <2>3, <3>3, <1>1 DEF ReleaseSlot
    <3>5. Creating' = Creating
      BY <3>1, <1>2
    <3> QED BY <3>2, <3>4, <3>5, <1>1 DEF SlotsInv, SlotsAreHeld
  <2> QED BY <1>13, <2>2, <2>3 DEF Run
<1> QED BY <1>4, <1>5, <1>6, <1>7, <1>8, <1>9, <1>10, <1>11, <1>12, <1>13
       DEF Next, Progress

------------------------------------------------------------------------------
(* The process and its rows.                                                   *)

\* Without the manager nothing happens but its start.
LEMMA OnlyBoot ==
  ASSUME DownInv, ~up, Next
  PROVE  Boot
<1>1. \A c \in Callers : \A p : ~At(c, p)
  BY DEF At
<1>2. \A r \in Rows : run[r].pc = "none"
  BY DEF DownInv
<1>3. ~Crash
  BY DEF Crash
<1>4. ~\E i \in Incidents : Fire(i) \/ Resolve(i)
  BY DEF Fire, Resolve, At
<1>5. ~\E i \in Incidents, u \in Users : ForceRerun(u, i)
  BY DEF ForceRerun, At
<1>6. ~Backfill
  BY DEF Backfill, BackfillList, BackfillNext, At
<1>7. ~\E u \in Users : ForceStep(u)
  BY DEF ForceStep, ForceDelete, ForceRelease, At
<1>8. ~\E c \in Callers : Enqueue(c)
  BY DEF Enqueue, Enter, Acquire, NoSlot, CreateSkipped, Create, CreateConflict,
         UndoGuard, At
<1>9. ~\E r \in Rows : Run(r)
  BY <1>2 DEF Run, Spawn, SpawnFails, WorkerEnds, Attach, Finish, Unguard, ReleaseSlot
<1> QED BY <1>3, <1>4, <1>5, <1>6, <1>7, <1>8, <1>9 DEF Next, Progress

LEMMA DownNext ==
  ASSUME TypeOK, DownInv, [Next]_vars
  PROVE  DownInv'
<1>1. CASE UNCHANGED vars
  BY <1>1 DEF vars, DownInv
<1>2. CASE Crash
  BY <1>2 DEF Crash, DownInv, NoCall, NoRun
<1>3. CASE Next /\ ~up
  BY <1>3, OnlyBoot DEF Boot, DownInv
<1>4. CASE Next /\ up /\ ~Crash
  <2>1. up'
    <3>1. CASE \E i \in Incidents : Fire(i) \/ Resolve(i)
      BY <1>4, <3>1 DEF Fire, Resolve
    <3>2. CASE \E i \in Incidents, u \in Users : ForceRerun(u, i)
      BY <1>4, <3>2 DEF ForceRerun
    <3>3. CASE Boot
      BY <3>3 DEF Boot
    <3>4. CASE Backfill
      BY <1>4, <3>4 DEF Backfill, BackfillList, BackfillNext
    <3>5. CASE \E u \in Users : ForceStep(u)
      BY <1>4, <3>5 DEF ForceStep, ForceDelete, ForceRelease
    <3>6. CASE \E c \in Callers : Enqueue(c)
      BY <1>4, <3>6 DEF Enqueue, Enter, Acquire, NoSlot, CreateSkipped, Create,
                        CreateConflict, UndoGuard
    <3>7. CASE \E r \in Rows : Run(r)
      BY <1>4, <3>7 DEF Run, Spawn, SpawnFails, WorkerEnds, Attach, Finish, Unguard,
                        ReleaseSlot
    <3> QED BY <1>4, <3>1, <3>2, <3>3, <3>4, <3>5, <3>6, <3>7 DEF Next, Progress
  <2> QED BY <2>1 DEF DownInv
<1> QED BY <1>1, <1>2, <1>3, <1>4

------------------------------------------------------------------------------
(* Rows and their goroutines.                                                  *)

RowInv == RowsInv /\ ProgressHasRun

\* What OwnVerdict says of one step.
Own ==
  \A i \in Incidents :
    (report[i] # NoReport /\ report'[i].row = report[i].row
       /\ report'[i].status # report[i].status)
    => /\ report[i].status \in InProgress
       /\ run'[report[i].row] # run[report[i].row] \/ ~up

\* Nothing changes as long as the rows stay and no goroutine begins or ends
\* to be one that may write.
LEMMA RowsKept ==
  ASSUME TypeOK, RowInv, UNCHANGED <<report, up>>,
         \A r \in Rows : run'[r].pc \in Alive <=> run[r].pc \in Alive
  PROVE  RowInv' /\ Own
<1>1. RowsInv'
  BY DEF RowInv, RowsInv
<1>2. ASSUME up', NEW i \in Incidents, report'[i].status \in InProgress
      PROVE  run'[report'[i].row].pc \in Alive
  <2>1. report[i].row \in Rows
    BY <1>2 DEF RowInv, RowsInv, NoReport, InProgress
  <2>2. run[report[i].row].pc \in Alive
    BY <1>2 DEF RowInv, ProgressHasRun
  <2> QED BY <2>1, <2>2
<1>3. ProgressHasRun'
  BY <1>2 DEF ProgressHasRun
<1>4. Own
  BY DEF Own
<1> QED BY <1>1, <1>3, <1>4 DEF RowInv

\* A row is inserted: Create and CreateSkipped. The goroutine comes with a
\* pending row, and with no other.
LEMMA RowsInserted ==
  ASSUME TypeOK, RowInv, NEW i \in Incidents, NEW r \in Rows,
         NEW s \in {"pending", "skipped"}, Insert(i, r, s), UNCHANGED up,
         \A q \in Rows \ {r} : run'[q] = run[q],
         run'[r].pc = IF s = "pending" THEN "spawn" ELSE "none"
  PROVE  RowInv' /\ Own
<1>1. \A j \in Incidents \ {i} : report'[j] = report[j] /\ report[j].row # r
  BY DEF Insert, New, TypeOK
<1>2. report'[i] = [row |-> r, status |-> s, worker |-> FALSE] /\ report[i] = NoReport
  BY DEF Insert, TypeOK
<1>3. \A j \in Incidents : report'[j] = NoReport \/ report'[j].row \in Rows
  BY <1>1, <1>2 DEF RowInv, RowsInv
<1>4. ASSUME NEW j \in Incidents, NEW q \in Rows, report'[j].row = q, run'[q].pc \in Alive
      PROVE  report'[j].status \in InProgress
  <2>1. CASE j = i
    BY <2>1, <1>2, <1>4 DEF Alive, InProgress
  <2>2. CASE j # i
    BY <2>2, <1>1, <1>4 DEF RowInv, RowsInv
  <2> QED BY <2>1, <2>2
<1>5. ASSUME up', NEW j \in Incidents, report'[j].status \in InProgress
      PROVE  run'[report'[j].row].pc \in Alive
  <2>1. CASE j = i
    BY <2>1, <1>2, <1>5 DEF Alive, InProgress
  <2>2. CASE j # i
    <3>1. report[j].row \in Rows \ {r}
      BY <2>2, <1>1, <1>5 DEF RowInv, RowsInv, NoReport, InProgress
    <3>2. run[report[j].row].pc \in Alive
      BY <2>2, <1>1, <1>5 DEF RowInv, ProgressHasRun
    <3> QED BY <2>2, <3>1, <3>2, <1>1
  <2> QED BY <2>1, <2>2
<1>6. Own
  BY <1>1, <1>2 DEF Own
<1> QED BY <1>3, <1>4, <1>5, <1>6 DEF RowInv, RowsInv, ProgressHasRun

\* A goroutine that may write updates its row: it goes on to write if the row
\* is left in progress, and never writes again if it is not.
LEMMA RowsUpdated ==
  ASSUME TypeOK, RowInv, NEW r \in Rows, NEW s \in InProgress \cup Final,
         NEW w \in BOOLEAN, NEW p, Update(r, s, w), Step(r, p), UNCHANGED up,
         run[r].pc \in Alive, run[r].pc # p, s \in InProgress <=> p \in Alive
  PROVE  RowInv' /\ Own
<1>1. \A j \in Incidents :
        IF report[j].row = r
        THEN report'[j] = [row |-> r, status |-> s, worker |-> w]
        ELSE report'[j] = report[j]
  BY DEF Update
<1>2. run'[r].pc = p /\ \A q \in Rows \ {r} : run'[q] = run[q]
  BY DEF Step, TypeOK
<1>3. \A j \in Incidents : report'[j] = NoReport \/ report'[j].row \in Rows
  BY <1>1 DEF RowInv, RowsInv
<1>4. ASSUME NEW j \in Incidents, NEW q \in Rows, report'[j].row = q, run'[q].pc \in Alive
      PROVE  report'[j].status \in InProgress
  <2>1. CASE report[j].row = r
    <3>1. q = r /\ report'[j].status = s
      BY <2>1, <1>1, <1>4
    <3> QED BY <3>1, <1>2, <1>4
  <2>2. CASE report[j].row # r
    <3>1. report'[j] = report[j] /\ q \in Rows \ {r}
      BY <2>2, <1>1, <1>4
    <3> QED BY <3>1, <1>2, <1>4 DEF RowInv, RowsInv
  <2> QED BY <2>1, <2>2
<1>5. ASSUME up', NEW j \in Incidents, report'[j].status \in InProgress
      PROVE  run'[report'[j].row].pc \in Alive
  <2>1. CASE report[j].row = r
    BY <2>1, <1>1, <1>2, <1>5
  <2>2. CASE report[j].row # r
    <3>1. report'[j] = report[j]
      BY <2>2, <1>1
    <3>2. report[j].row \in Rows \ {r}
      BY <2>2, <3>1, <1>5 DEF RowInv, RowsInv, NoReport, InProgress
    <3>3. run[report[j].row].pc \in Alive
      BY <3>1, <1>5 DEF RowInv, ProgressHasRun
    <3> QED BY <3>1, <3>2, <3>3, <1>2
  <2> QED BY <2>1, <2>2
<1>6. Own
  <2>1. ASSUME NEW j \in Incidents, report[j] # NoReport,
               report'[j].status # report[j].status
        PROVE  report[j].status \in InProgress /\ run'[report[j].row] # run[report[j].row]
    <3>1. report[j].row = r
      BY <2>1, <1>1
    <3>2. report[j].status \in InProgress
      BY <3>1 DEF RowInv, RowsInv
    <3> QED BY <3>1, <3>2, <1>2
  <2> QED BY <2>1 DEF Own
<1> QED BY <1>3, <1>4, <1>5, <1>6 DEF RowInv, RowsInv, ProgressHasRun

LEMMA RowsNext ==
  ASSUME TypeOK, DownInv, RowInv, [Next]_vars
  PROVE  RowInv' /\ Own
<1>1. CASE UNCHANGED vars
  BY <1>1, RowsKept DEF vars
<1>2. ASSUME NEW i \in Incidents, Fire(i) \/ Resolve(i) PROVE RowInv' /\ Own
  BY <1>2, RowsKept DEF Fire, Resolve
<1>3. ASSUME NEW i \in Incidents, NEW u \in Users, ForceRerun(u, i)
      PROVE  RowInv' /\ Own
  <2>1. \A r \in Rows : run'[r].pc = run[r].pc
    BY <1>3 DEF ForceRerun, TypeOK
  <2> QED BY <2>1, <1>3, RowsKept DEF ForceRerun
<1>4. CASE Crash
  <2>1. \A r \in Rows : run'[r].pc \notin Alive
    BY <1>4 DEF Crash, NoRun, Alive
  <2>2. ~up' /\ UNCHANGED report
    BY <1>4 DEF Crash
  <2>3. RowsInv'
    BY <2>1, <2>2 DEF RowInv, RowsInv
  <2> QED BY <2>2, <2>3 DEF RowInv, ProgressHasRun, Own
<1>5. CASE Boot
  <2>1. \A i \in Incidents :
          /\ report'[i].row = report[i].row
          /\ report'[i].status \notin InProgress
          /\ report[i].status \notin InProgress => report'[i] = report[i]
    BY <1>5 DEF Boot, FailOrphaned, TypeOK, Reports, InProgress
  <2>2. \A r \in Rows : run'[r].pc \notin Alive
    BY <1>5 DEF Boot, DownInv, Alive
  <2>3. \A i \in Incidents : report'[i] = NoReport \/ report'[i].row \in Rows
    BY <2>1 DEF RowInv, RowsInv, NoReport, InProgress
  <2>4. RowsInv' /\ ProgressHasRun'
    BY <2>1, <2>2, <2>3 DEF RowsInv, ProgressHasRun
  <2>5. Own
    BY <1>5, <2>1 DEF Own, Boot
  <2> QED BY <2>4, <2>5 DEF RowInv
<1>6. CASE Backfill
  BY <1>6, RowsKept DEF Backfill, BackfillList, BackfillNext
<1>7. ASSUME NEW u \in Users, ForceStep(u) PROVE RowInv' /\ Own
  <2>1. CASE ForceDelete(u)
    <3>1. \A i \in Incidents : report'[i] = report[i] \/ report'[i] = NoReport
      BY <2>1 DEF ForceDelete, TypeOK
    <3>2. 0 \notin Rows
      BY RowsAssumption
    <3>3. UNCHANGED <<run, up>>
      BY <2>1 DEF ForceDelete
    <3>4. RowsInv'
      BY <3>1, <3>2, <3>3 DEF RowInv, RowsInv, NoReport
    <3>5. ProgressHasRun'
      BY <3>1, <3>3 DEF RowInv, ProgressHasRun, NoReport, InProgress
    <3>6. Own
      BY <3>1, <3>2 DEF Own, RowInv, RowsInv, NoReport
    <3> QED BY <3>4, <3>5, <3>6 DEF RowInv
  <2>2. CASE ForceRelease(u)
    BY <2>2, RowsKept DEF ForceRelease
  <2> QED BY <1>7, <2>1, <2>2 DEF ForceStep
<1>8. ASSUME NEW c \in Callers, Enqueue(c) PROVE RowInv' /\ Own
  <2>1. CASE Enter(c) \/ Acquire(c) \/ NoSlot(c) \/ CreateConflict(c) \/ UndoGuard(c)
    <3>1. UNCHANGED <<report, run, up>>
      BY <2>1 DEF Enter, Acquire, NoSlot, CreateConflict, UndoGuard
    <3> QED BY <3>1, RowsKept
  <2>2. CASE CreateSkipped(c)
    <3>1. call[c].of \in Incidents /\ UNCHANGED <<run, up>>
      BY <2>2 DEF CreateSkipped, TypeOK
    <3>2. ASSUME NEW r \in Rows, Insert(call[c].of, r, "skipped")
          PROVE  RowInv' /\ Own
      <4>1. run'[r].pc = "none"
        BY <3>1, <3>2 DEF Insert, New, NoRun
      <4> QED BY <3>1, <3>2, <4>1, RowsInserted
    <3>3. CASE UNCHANGED report
      BY <3>1, <3>3, RowsKept
    <3> QED BY <2>2, <3>2, <3>3 DEF CreateSkipped
  <2>3. CASE Create(c)
    <3>1. call[c].of \in Incidents /\ UNCHANGED up
      BY <2>3 DEF Create, TypeOK
    <3>2. PICK r \in Rows :
            /\ Insert(call[c].of, r, "pending")
            /\ run' = [run EXCEPT ![r] =
                 [pc |-> "spawn", of |-> call[c].of, killed |-> FALSE]]
      BY <2>3 DEF Create
    <3>3. run'[r].pc = "spawn" /\ \A q \in Rows \ {r} : run'[q] = run[q]
      BY <3>2 DEF TypeOK
    <3> QED BY <3>1, <3>2, <3>3, RowsInserted
  <2> QED BY <1>8, <2>1, <2>2, <2>3 DEF Enqueue
<1>9. ASSUME NEW r \in Rows, Run(r) PROVE RowInv' /\ Own
  <2>1. CASE Spawn(r) \/ WorkerEnds(r) \/ Unguard(r) \/ ReleaseSlot(r)
    <3>1. \A q \in Rows : run'[q].pc \in Alive <=> run[q].pc \in Alive
      BY <2>1 DEF Spawn, WorkerEnds, Unguard, ReleaseSlot, Step, TypeOK, Alive, NoRun
    <3>2. UNCHANGED <<report, up>>
      BY <2>1 DEF Spawn, WorkerEnds, Unguard, ReleaseSlot
    <3> QED BY <3>1, <3>2, RowsKept
  <2>2. CASE SpawnFails(r)
    BY <2>2, RowsUpdated DEF SpawnFails, Alive, InProgress, Final
  <2>3. CASE Attach(r)
    BY <2>3, RowsUpdated DEF Attach, Alive, InProgress, Final
  <2>4. ASSUME NEW answer \in BOOLEAN, Finish(r, answer) PROVE RowInv' /\ Own
    <3>1. PICK s \in Final : Update(r, s, TRUE)
      BY <2>4 DEF Finish, Final
    <3> QED BY <2>4, <3>1, RowsUpdated DEF Finish, Alive, InProgress, Final
  <2> QED BY <1>9, <2>1, <2>2, <2>3, <2>4 DEF Run
<1> QED BY <1>1, <1>2, <1>3, <1>4, <1>5, <1>6, <1>7, <1>8, <1>9 DEF Next, Progress

------------------------------------------------------------------------------
(* Theorems.                                                                   *)

LEMMA Inductive ==
  ASSUME Inv, [Next]_vars
  PROVE  Inv' /\ Own
BY TypeNext, SlotsNext, DownNext, RowsNext DEF Inv, RowInv

LEMMA Initially ==
  ASSUME Init
  PROVE  Inv
<1>1. TypeOK
  BY IncidentsAssumption, ConcurrencyAssumption, BoundsAssumption
     DEF Init, TypeOK, NoCall, NoRun, NoReport, Reports, Callers
<1>2. SlotsInv
  <2>1. Holders = {} /\ Creating = {} /\ slots = 0
    BY DEF Init, Holders, Creating, NoRun, NoCall, Alive
  <2> QED BY <2>1, FS_EmptySet DEF SlotsInv, SlotsAreHeld
<1>3. DownInv
  BY DEF Init, DownInv
<1>4. RowsInv /\ ProgressHasRun
  BY DEF Init, RowsInv, ProgressHasRun, NoReport, NoRun, Alive, InProgress
<1> QED BY <1>1, <1>2, <1>3, <1>4 DEF Inv

\* The strengthening holds throughout; the theorems below are its parts.
THEOREM InvHolds == Spec => []Inv
<1>1. Inv /\ [Next]_vars => Inv'
  BY Inductive
<1> QED BY <1>1, Initially, PTL DEF Spec

\* However many users force re-runs while the evaluator and the backfill ask for
\* reports, the slots taken are those that somebody will give back
\* (investigator/usecase.go: Enqueue, run).
THEOREM NoSlotLeaks == Spec => []SlotsAreHeld
<1>1. Inv => SlotsAreHeld
  BY DEF Inv, SlotsInv
<1> QED BY <1>1, InvHolds, PTL

\* A report in progress has a goroutine that will close it, wherever the manager
\* stops and starts (investigator/usecase.go: run; boot: FailOrphanedInProgress).
THEOREM NoReportSpins == Spec => []ProgressHasRun
<1>1. Inv => ProgressHasRun
  BY DEF Inv
<1> QED BY <1>1, InvHolds, PTL

\* A verdict stands, and is only ever written by the goroutine of its row
\* (investigator/usecase.go: run, updateByID).
THEOREM VerdictsAreOwn == Spec => OwnVerdict
<1>1. Inv /\ [Next]_vars => [Own]_vars
  BY Inductive
<1> QED BY <1>1, InvHolds, PTL DEF Spec, OwnVerdict, Own
=============================================================================
