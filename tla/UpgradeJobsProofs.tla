------------------------- MODULE UpgradeJobsProofs --------------------------
(***************************************************************************)
(* Theorems about UpgradeJobs, for every set of edges, jobs and users,     *)
(* wherever the manager stops and whatever database call fails.            *)
(***************************************************************************)
EXTENDS UpgradeJobs, FiniteSetTheorems, TLAPS

\* What the types of the next step rest on: the coordinator and a retry name a
\* job wherever they touch one, and workers run only while a batch is dispatched.
JobAtHand ==
  /\ pc \in Processing \cup {"requeue"} => cj \in Jobs
  /\ \A e \in Edges : step[e] # "none" => pc = "dispatch"
  /\ \A u \in Users : retry[u].pc # "idle" => retry[u].job \in Jobs

TypeInv == TypeOK /\ JobAtHand

------------------------------------------------------------------------------
(* What the operators return. *)

\* A set of edges is finite, and its size a natural number.
LEMMA EdgeSets ==
  ASSUME NEW S \in SUBSET Edges
  PROVE  IsFiniteSet(S) /\ Cardinality(S) \in Nat
BY EdgesAssumption, FS_Subset, FS_CardinalityType

\* Batches are numbered by natural numbers: assignUpgradeBatches.
LEMMA BatchNumberType ==
  ASSUME NEW S \in SUBSET Edges, NEW e \in S
  PROVE  BatchNumber(S, e) \in Nat
<1> DEFINE upTo == {d \in S : d <= e}
<1>1. upTo \in SUBSET Edges /\ e \in upTo
  <2>1. e \in Nat
    BY EdgesAssumption
  <2>2. e <= e
    BY <2>1
  <2>3. upTo \in SUBSET Edges
    OBVIOUS
  <2> QED BY <2>2, <2>3
<1>2. IsFiniteSet(upTo) /\ Cardinality(upTo) \in Nat
  BY <1>1, EdgeSets
<1>3. Cardinality(upTo) # 0
  BY <1>1, <1>2, FS_EmptySet
<1>4. Cardinality(upTo) - 1 \in Nat
  BY <1>2, <1>3
<1>5. (Cardinality(upTo) - 1) \div BatchSize \in Nat
  BY <1>4, BatchAssumption
<1> QED BY <1>5 DEF BatchNumber

\* So is the number of batches: RetryUpgradeJob.
LEMMA BatchCountType ==
  ASSUME NEW S \in SUBSET Edges
  PROVE  BatchCount(S) \in Nat
<1>1. Cardinality(S) + BatchSize - 1 \in Nat
  BY EdgeSets, BatchAssumption
<1> QED BY <1>1, BatchAssumption DEF BatchCount

\* The counters of a job are natural numbers: summarizeUpgradeItems.
LEMMA SummarizeType ==
  ASSUME NEW its
  PROVE  Summarize(its) \in Summary
<1>1. \A S : WithStatus(its, S) \in SUBSET Edges
  BY DEF WithStatus
<1>2. \A S : Cardinality(WithStatus(its, S)) \in Nat
  BY <1>1, EdgeSets
<1> QED BY <1>2 DEF Summarize, Summary

\* A job that is over is in one of three statuses: terminalUpgradeJobStatus.
LEMMA TerminalType ==
  ASSUME NEW sum
  PROVE  TerminalStatus(sum) \in Finished
BY DEF TerminalStatus, Finished

\* RefreshUpgradeJob keeps the record of a job well typed.
LEMMA RefreshedType ==
  ASSUME TypeOK, NEW j \in Jobs
  PROVE  Refreshed(j) \in Job
<1>1. job[j] \in Job
  BY DEF TypeOK
<1>2. Summarize(item[j]) \in Summary
  BY SummarizeType
<1>3. TerminalStatus(Summarize(item[j])) \in Finished
  BY TerminalType
<1> QED BY <1>1, <1>2, <1>3 DEF Refreshed, Job, Finished

\* One conditional update of an item: updateUpgradeItem.
LEMMA MarkType ==
  ASSUME TypeOK, cj \in Jobs, NEW e \in Edges, NEW it \in Item, Mark(e, it)
  PROVE  job' \in [Jobs -> Job] /\ item' \in [Jobs -> [Edges -> Item]]
<1>1. item[cj] \in [Edges -> Item]
  BY DEF TypeOK
<1>2. item' = [item EXCEPT ![cj] = [item[cj] EXCEPT ![e] = it]]
  BY DEF Mark
<1> QED BY <1>1, <1>2 DEF Mark, TypeOK

\* An item put back into the queue: RecoverInterruptedUpgrades, RequeueUpgradeJob.
LEMMA QueuedAgainType ==
  ASSUME NEW it \in Item
  PROVE  [it EXCEPT !.status = "queued", !.late = FALSE] \in Item
BY DEF Item, Pending

------------------------------------------------------------------------------
(* Types. *)

\* The types survive the creation of a job: Create, CreateUpgradeJob.
LEMMA CreateTypes ==
  ASSUME TypeInv, NEW j \in Jobs, Create(j)
  PROVE  TypeInv'
<1> USE DEF TypeInv, TypeOK, edges, local, bounds
<1>1. PICK es \in SUBSET Edges \ {{}}, force \in Forces :
         /\ item' = [item EXCEPT ![j] = NewItems(es, force)]
         /\ job' = [job EXCEPT ![j] = NewJob(NewItems(es, force), force)]
  BY DEF Create
<1>2. NewItems(es, force) \in [Edges -> Item]
  <2> DEFINE queued == {e \in es : ~Skips(e, force)}
  <2>1. \A e \in queued : BatchNumber(queued, e) \in Nat
    BY BatchNumberType
  <2>2. \A e \in Edges : row[e].reg \in Nat
    BY DEF Row
  <2>3. ASSUME NEW e \in Edges PROVE NewItems(es, force)[e] \in Item
    <3>1. CASE e \notin es
      BY <3>1 DEF NewItems, NoItem, Item
    <3>2. CASE e \in es
      <4> DEFINE status == IF e \in queued THEN "queued" ELSE "skipped"
                 number == IF e \in queued THEN BatchNumber(queued, e) ELSE 0
      <4>1. status \in {"queued", "skipped"} /\ number \in Nat
        BY <2>1
      <4>2. NewItems(es, force)[e] =
              [NoItem EXCEPT !.status = status, !.batch = number, !.base = row[e].reg]
        BY <3>2 DEF NewItems
      <4> HIDE DEF status, number
      <4>3. NewItems(es, force)[e] =
              [status |-> status, batch |-> number, tried |-> FALSE, base |-> row[e].reg,
               late |-> FALSE]
        BY <4>2 DEF NoItem
      <4> QED BY <2>2, <4>1, <4>3 DEF Item, Pending
    <3> QED BY <3>1, <3>2
  <2> QED BY <2>3 DEF NewItems
<1>3. NewJob(NewItems(es, force), force) \in Job
  <2> DEFINE its == NewItems(es, force)
  <2>1. Summarize(its) \in Summary /\ TerminalStatus(Summarize(its)) \in Finished
    BY SummarizeType, TerminalType
  <2>2. BatchCount(WithStatus(its, {"queued"})) \in Nat
    BY BatchCountType DEF WithStatus
  <2> QED BY <2>1, <2>2, ForcesAssumption DEF NewJob, NoJob, Job, Finished
<1>4. item' \in [Jobs -> [Edges -> Item]] /\ job' \in [Jobs -> Job]
  BY <1>1, <1>2, <1>3
<1>5. TypeOK'
  BY <1>4 DEF Create
<1>6. JobAtHand'
  BY DEF JobAtHand, Create
<1> QED BY <1>5, <1>6

\* The types survive a retry: Retry reads, RetryUpgradeJob resets and refreshes.
LEMMA RetryTypes ==
  ASSUME TypeInv, NEW u \in Users,
         (\E j \in Jobs : RetryRead(u, j)) \/ RetryConflict(u) \/ RetryReset(u)
           \/ RetryRefresh(u)
  PROVE  TypeInv'
<1> USE DEF TypeInv, TypeOK, records, edges, local, bounds
<1>1. ASSUME NEW j \in Jobs, RetryRead(u, j) PROVE TypeInv'
  <2> DEFINE snap == [e \in Edges |-> IF e \in Items(j, Failed) THEN row[e].reg ELSE -1]
  <2>1. snap \in [Edges -> Int]
    BY DEF Row
  <2>2. [pc |-> "tx", job |-> j, snap |-> snap] \in Retry
    BY <2>1 DEF Retry
  <2>3. retry' \in [Users -> Retry]
    BY <1>1, <2>2 DEF RetryRead
  <2>4. TypeOK'
    BY <1>1, <2>3 DEF RetryRead
  <2>5. JobAtHand'
    BY <1>1 DEF RetryRead, JobAtHand
  <2> QED BY <2>4, <2>5
<1>2. CASE RetryConflict(u)
  <2>1. NoRetry \in Retry
    BY DEF NoRetry, Retry
  <2>2. TypeOK'
    BY <1>2, <2>1 DEF RetryConflict
  <2>3. JobAtHand'
    BY <1>2 DEF RetryConflict, JobAtHand, NoRetry
  <2> QED BY <2>2, <2>3
<1>3. CASE RetryReset(u)
  <2> DEFINE j == retry[u].job
             reset == RetryItems(u)
  <2>1. j \in Jobs
    BY <1>3 DEF RetryReset, JobAtHand
  <2>2. reset \in SUBSET Edges /\ \A e \in reset : retry[u].snap[e] \in Nat
    BY DEF RetryItems, Items, WithStatus, Retry
  <2>3. \A e \in reset : BatchNumber(reset, e) \in Nat
    BY <2>2, BatchNumberType
  <2>4. BatchCount(reset) \in Nat
    BY <2>2, BatchCountType
  <2>5. RequeuedJob(j, reset) \in Job
    <3>1. job[j] \in Job
      BY <2>1
    <3> HIDE DEF j, reset
    <3> QED BY <2>4, <3>1 DEF RequeuedJob, Job
  <2>6. \A e \in reset : [item[j][e] EXCEPT !.status = "queued", !.batch = BatchNumber(reset, e),
                   !.base = retry[u].snap[e], !.late = FALSE] \in Item
    <3>1. \A e \in reset : item[j][e] \in Item
      BY <2>1, <2>2
    <3> HIDE DEF j, reset
    <3> QED BY <2>2, <2>3, <3>1 DEF Item, Pending
  <2>7. item' \in [Jobs -> [Edges -> Item]] /\ job' \in [Jobs -> Job]
    BY <1>3, <2>1, <2>2, <2>5, <2>6 DEF RetryReset
  <2>8. retry' \in [Users -> Retry]
    BY <1>3 DEF RetryReset, Retry
  <2>9. TypeOK'
    BY <1>3, <2>7, <2>8 DEF RetryReset
  <2>10. JobAtHand'
    BY ZenonT(30), <1>3, <2>1, <2>8 DEF RetryReset, JobAtHand, Retry
  <2> QED BY <2>9, <2>10
<1>4. CASE RetryRefresh(u)
  <2>1. retry[u].job \in Jobs
    BY <1>4 DEF RetryRefresh, JobAtHand
  <2>2. NoRetry \in Retry
    BY DEF NoRetry, Retry
  <2>3. Refreshed(retry[u].job) \in Job
    BY <2>1, RefreshedType
  <2>4. job' \in [Jobs -> Job] /\ item' \in [Jobs -> [Edges -> Item]]
    BY <1>4, <2>1, <2>3 DEF RetryRefresh, Refresh
  <2>5. regs' \in Nat /\ retries' \in Nat /\ stops' \in Nat /\ faults' \in Nat
    BY <1>4 DEF RetryRefresh, DbFails
  <2>6. retry' \in [Users -> Retry]
    BY <1>4, <2>2 DEF RetryRefresh
  <2>7. TypeOK'
    BY <1>4, <2>4, <2>5, <2>6 DEF RetryRefresh
  <2>8. JobAtHand'
    BY <1>4 DEF RetryRefresh, JobAtHand, NoRetry
  <2> QED BY <2>7, <2>8
<1> QED BY <1>1, <1>2, <1>3, <1>4

\* The types survive the edges and time: registrations, presence, a boot into the
\* package, a deadline.
LEMMA EdgeTypes ==
  ASSUME TypeInv, NEW e \in Edges, EdgeStep(e) \/ \E j \in Jobs : DeadlinePasses(j, e)
  PROVE  TypeInv'
<1> USE DEF TypeInv, TypeOK, records, edges, local, bounds
<1>1. ASSUME NEW j \in Jobs, DeadlinePasses(j, e) PROVE TypeInv'
  <2>1. item[j] \in [Edges -> Item] /\ item[j][e] \in Item
    OBVIOUS
  <2>2. [item[j][e] EXCEPT !.late = TRUE] \in Item
    BY <2>1 DEF Item
  <2>3. item' = [item EXCEPT ![j] = [item[j] EXCEPT ![e] = [item[j][e] EXCEPT !.late = TRUE]]]
    BY <1>1 DEF DeadlinePasses
  <2>4. item' \in [Jobs -> [Edges -> Item]]
    BY <2>1, <2>2, <2>3
  <2>5. TypeOK' /\ JobAtHand'
    BY <1>1, <2>4 DEF DeadlinePasses, JobAtHand
  <2> QED BY <2>5
<1>2. CASE EdgeStep(e)
  <2>1. row[e] \in Row /\ real[e] \in Versions
    OBVIOUS
  <2>2. row' \in [Edges -> Row] /\ hs' \in [Edges -> Versions \cup {None}] /\ regs' \in Nat
    <3>1. CASE Register(e)
      <4>1. [row[e] EXCEPT !.ver = real[e]] \in Row
        BY <2>1 DEF Row
      <4>2. ASSUME NEW r \in Row
            PROVE  [r EXCEPT !.reg = @ + 1, !.online = TRUE] \in Row
        <5>1. r.reg + 1 \in Nat
          BY DEF Row
        <5> QED BY <5>1 DEF Row
      <4>4. row' \in [Edges -> Row]
        <5>1. CASE row' = [row EXCEPT ![e].ver = real[e]]
          BY <4>1, <5>1
        <5>2. CASE row' = [row EXCEPT ![e].reg = @ + 1, ![e].online = TRUE]
          BY <2>1, <4>2, <5>2
        <5>3. CASE row' = row
          BY <5>3
        <5> QED BY <3>1, <5>1, <5>2, <5>3 DEF Register
      <4>5. hs' \in [Edges -> Versions \cup {None}]
        <5>1. hs' = [hs EXCEPT ![e] = real[e]] \/ hs' = [hs EXCEPT ![e] = None]
          BY <3>1 DEF Register
        <5> QED BY <2>1, <5>1
      <4>6. regs' \in Nat
        <5>1. regs' = regs + 1 \/ regs' = regs
          BY <3>1 DEF Register
        <5> QED BY <5>1
      <4> QED BY <4>4, <4>5, <4>6
    <3>2. CASE Presence(e)
      BY <2>1, <3>2 DEF Presence, Row
    <3>3. CASE UNCHANGED <<row, hs, regs>>
      BY <3>3
    <3> QED BY <1>2, <3>1, <3>2, <3>3 DEF EdgeStep
  <2>3. /\ real' \in [Edges -> Versions] /\ pkg' \in [Edges -> Versions \cup {None}]
        /\ back' \in [Edges -> Versions \cup {None}]
    <3>1. CASE (Register(e) \/ Presence(e)) /\ UNCHANGED <<real, pkg>>
      <4>1. UNCHANGED back \/ back' = [back EXCEPT ![e] = None]
        BY <3>1 DEF Register, Confirm, Presence
      <4> QED BY <3>1, <4>1
    <3>2. CASE EdgeBoot(e)
      <4>1. pkg[e] \in Versions /\ pkg' = [pkg EXCEPT ![e] = None]
        BY <3>2 DEF EdgeBoot
      <4>2. \/ real' = [real EXCEPT ![e] = pkg[e]] /\ back' = [back EXCEPT ![e] = real[e]]
            \/ UNCHANGED <<real, back>>
        BY <3>2 DEF EdgeBoot
      <4>3. real' \in [Edges -> Versions]
        BY <4>1, <4>2
      <4>4. back' \in [Edges -> Versions \cup {None}]
        BY <2>1, <4>2
      <4> QED BY <4>1, <4>3, <4>4
    <3>3. CASE EdgeRollback(e)
      BY <3>3 DEF EdgeRollback
    <3> QED BY <1>2, <3>1, <3>2, <3>3 DEF EdgeStep
  <2>4. heard' \in [Edges -> [Versions -> Nat]]
    <3>1. CASE Reports(e)
      <4>1. row[e].reg + 1 \in Nat
        BY <2>1 DEF Row
      <4> QED BY <2>1, <3>1, <4>1 DEF Reports
    <3>2. CASE UNCHANGED heard
      BY <3>2
    <3> QED BY <1>2, <3>1, <3>2 DEF EdgeStep, Register, Presence
  <2>5. TypeOK' /\ JobAtHand'
    BY <1>2, <2>2, <2>3, <2>4 DEF EdgeStep, JobAtHand
  <2> QED BY <2>5
<1> QED BY <1>1, <1>2

\* The types survive a worker of dispatchQueued, whatever call of dispatchItem
\* fails.
LEMMA DispatchTypes ==
  ASSUME TypeInv, NEW e \in Edges, DispatchItem(e)
  PROVE  TypeInv'
<1> USE DEF TypeInv, TypeOK, records, edges, local, bounds
<1>1. pc = "dispatch"
  BY DEF DispatchItem, TakeItem, MarkDispatching, GiveUp, MarkWaiting, MarkSettled,
         FailDispatch, FetchPackage, RefreshBaseline, ApplyPackage, JobAtHand
<1>2. cj \in Jobs
  BY <1>1 DEF JobAtHand, Processing
<1>3. item[cj][e] \in Item /\ row[e] \in Row /\ seen[e] \in Row
  BY <1>2
<1>4. JobAtHand'
  <2>1. UNCHANGED <<pc, cj, retry>>
    BY DEF DispatchItem
  <2> QED BY <1>1, <2>1 DEF JobAtHand
<1>5. step' \in [Edges -> Steps] /\ seen' \in [Edges -> Row] /\ work' \subseteq Edges
        /\ faults' \in Nat /\ regs' = regs /\ retries' = retries /\ stops' = stops
        /\ UNCHANGED <<row, hs, real, back, heard, batch, todo, doomed, pc, cj, retry>>
        /\ pkg' \in [Edges -> Versions \cup {None}]
  <2>1. \A s \in Steps : To(e, s) => step' \in [Edges -> Steps]
    BY DEF To
  <2>2. Forget(e) => seen' \in [Edges -> Row]
    BY DEF Forget, NoRow, Row, Versions
  <2> USE <2>1, <2>2 DEF Steps, DbFails
  <2>3. CASE TakeItem(e) /\ UNCHANGED edges
    <3>1. seen' \in [Edges -> Row]
      BY <1>3, <2>3 DEF TakeItem
    <3>2. step' \in [Edges -> Steps]
      BY <2>3 DEF TakeItem
    <3>3. faults' \in Nat /\ regs' = regs /\ retries' = retries /\ stops' = stops
      BY <2>3 DEF TakeItem
    <3> QED BY <2>3, <3>1, <3>2, <3>3 DEF TakeItem, DispatchItem
  <2>4. CASE MarkDispatching(e) /\ UNCHANGED edges
    BY <2>4 DEF MarkDispatching, DispatchItem
  <2>5. CASE GiveUp(e) /\ UNCHANGED edges
    BY <2>5 DEF GiveUp, DispatchItem
  <2>6. CASE (MarkWaiting(e) \/ MarkSettled(e) \/ FailDispatch(e)) /\ UNCHANGED edges
    BY <2>6 DEF MarkWaiting, MarkSettled, FailDispatch, DispatchItem
  <2>7. CASE (FetchPackage(e) \/ RefreshBaseline(e)) /\ UNCHANGED edges
    BY <2>7 DEF FetchPackage, RefreshBaseline, DispatchItem
  <2>8. CASE ApplyPackage(e)
    BY <2>8 DEF ApplyPackage, DispatchItem, Versions
  <2> QED BY <2>3, <2>4, <2>5, <2>6, <2>7, <2>8 DEF DispatchItem
<1>6. UNCHANGED <<job, item>> \/ \E it \in Item : Mark(e, it)
  <2>1. CASE MarkDispatching(e)
    <3>1. [item[cj][e] EXCEPT !.status = "dispatching", !.tried = TRUE, !.late = FALSE,
             !.base = IF Settles(e) THEN @ ELSE seen[e].reg] \in Item
      BY <1>3 DEF Item, Row, Pending
    <3> QED BY <2>1, <3>1 DEF MarkDispatching
  <2>2. CASE MarkWaiting(e)
    <3>1. [item[cj][e] EXCEPT !.status = "waiting", !.late = FALSE] \in Item
      BY <1>3 DEF Item, Pending
    <3> QED BY <2>2, <3>1 DEF MarkWaiting
  <2>3. CASE MarkSettled(e)
    <3>1. [item[cj][e] EXCEPT !.status = "succeeded", !.late = FALSE] \in Item
      BY <1>3 DEF Item
    <3> QED BY <2>3, <3>1 DEF MarkSettled
  <2>4. CASE FailDispatch(e)
    <3>1. [item[cj][e] EXCEPT !.status = "failed", !.late = FALSE] \in Item
      BY <1>3 DEF Item, Failed
    <3> QED BY <2>4, <3>1 DEF FailDispatch
  <2>5. CASE RefreshBaseline(e)
    <3>1. [item[cj][e] EXCEPT !.base = row[e].reg] \in Item
      BY <1>3 DEF Item, Row
    <3> QED BY <2>5, <3>1 DEF RefreshBaseline
  <2>6. CASE ApplyPackage(e)
    BY <2>6 DEF ApplyPackage
  <2>7. CASE TakeItem(e) \/ GiveUp(e) \/ FetchPackage(e)
    BY <2>7 DEF TakeItem, GiveUp, FetchPackage
  <2> QED BY <2>1, <2>2, <2>3, <2>4, <2>5, <2>6, <2>7 DEF DispatchItem
<1>7. job' \in [Jobs -> Job] /\ item' \in [Jobs -> [Edges -> Item]]
  BY <1>2, <1>6, MarkType
<1>8. TypeOK'
  BY <1>5, <1>7
<1> QED BY <1>4, <1>8

\* What was read of the edges is well typed when it is forgotten.
LEMMA NothingSeen == [e \in Edges |-> NoRow] \in [Edges -> Row]
BY DEF NoRow, Row, Versions

\* The types survive Run before and after a job: recovery and clean-up.
LEMMA RecoverTypes ==
  ASSUME TypeInv, UNCHANGED <<edges, retry>>, Recover \/ FindExpired \/ DeleteExpired
  PROVE  TypeInv'
<1> USE DEF TypeInv, TypeOK, records, edges, local, bounds, DbFails
<1>1. CASE Recover
  <2>1. ASSUME RecoverJobs
        PROVE  job' \in [Jobs -> Job] /\ item' \in [Jobs -> [Edges -> Item]]
    <3>1. \A j \in Jobs : [job[j] EXCEPT !.status = "queued"] \in Job
      BY DEF Job
    <3>2. ASSUME NEW j \in Jobs, NEW e \in Edges
          PROVE  [item[j][e] EXCEPT !.status = "queued", !.late = FALSE] \in Item
      <4>1. item[j][e] \in Item
        OBVIOUS
      <4> QED BY <4>1, QueuedAgainType
    <3>3. job' \in [Jobs -> Job]
      BY <2>1, <3>1 DEF RecoverJobs
    <3>4. item' \in [Jobs -> [Edges -> Item]]
      BY <2>1, <3>2 DEF RecoverJobs
    <3> QED BY <3>3, <3>4
  <2>2. job' \in [Jobs -> Job] /\ item' \in [Jobs -> [Edges -> Item]]
    BY <1>1, <2>1 DEF Recover
  <2>3. TypeOK'
    BY <1>1, <2>2 DEF Recover
  <2>4. JobAtHand'
    BY <1>1 DEF Recover, JobAtHand, Processing
  <2> QED BY <2>3, <2>4
<1>2. CASE FindExpired
  <2>1. doomed' \subseteq Jobs
    BY <1>2, ExpirableAssumption DEF FindExpired
  <2>2. TypeOK'
    BY <1>2, <2>1 DEF FindExpired
  <2>3. JobAtHand'
    BY <1>2 DEF FindExpired, JobAtHand, Processing
  <2> QED BY <2>2, <2>3
<1>3. CASE DeleteExpired
  <2>1. [NoJob EXCEPT !.status = "gone"] \in Job
    BY DEF NoJob, NoSum, Job, Summary
  <2>2. [e \in Edges |-> NoItem] \in [Edges -> Item]
    BY DEF NoItem, Item
  <2>3. job' \in [Jobs -> Job] /\ item' \in [Jobs -> [Edges -> Item]]
    BY <1>3, <2>1, <2>2 DEF DeleteExpired
  <2>4. TypeOK'
    BY <1>3, <2>3 DEF DeleteExpired
  <2>5. JobAtHand'
    BY <1>3 DEF DeleteExpired, JobAtHand, Processing
  <2> QED BY <2>4, <2>5
<1> QED BY <1>1, <1>2, <1>3

\* The types survive the work on a job up to the end of a dispatch: claim, list,
\* batch, recheck.
LEMMA ProcessTypes ==
  ASSUME TypeInv, UNCHANGED <<edges, retry>>,
         Claim \/ ListItems \/ StartBatch \/ DispatchEnds \/ Recheck
  PROVE  TypeInv'
<1> USE DEF TypeInv, TypeOK, records, edges, local, bounds
<1>1. CASE Claim
  <2>1. PICK j \in Jobs : job' = [job EXCEPT ![j].status = "running"] /\ cj' = j
    BY <1>1 DEF Claim
  <2>2. [job[j] EXCEPT !.status = "running"] \in Job
    BY DEF Job
  <2>3. job' \in [Jobs -> Job]
    BY <2>1, <2>2
  <2>4. TypeOK'
    BY <1>1, <2>1, <2>3 DEF Claim, Processing
  <2>5. JobAtHand'
    BY <1>1, <2>1 DEF Claim, JobAtHand, Processing
  <2> QED BY <2>4, <2>5
<1>2. CASE ListItems
  <2>1. cj \in Jobs
    BY <1>2 DEF ListItems, JobAtHand, Processing
  <2>2. \A S \in SUBSET Edges : NextBatch(S) \subseteq Nat
    BY <2>1 DEF NextBatch, Numbers, Item
  <2>3. batch' \in Nat /\ work' \subseteq Edges /\ pc' \in {"start", "finish"}
    BY <1>2, <2>2 DEF ListItems, Items, WithStatus
  <2>4. TypeOK'
    BY <1>2, <2>3 DEF ListItems, Processing
  <2>5. JobAtHand'
    BY <1>2, <2>1, <2>3 DEF ListItems, JobAtHand, Processing
  <2> QED BY <2>4, <2>5
<1>3. CASE StartBatch
  <2>1. cj \in Jobs
    BY <1>3 DEF StartBatch, JobAtHand, Processing
  <2>2. [job[cj] EXCEPT !.current = batch] \in Job
    BY <2>1 DEF Job
  <2>3. job' \in [Jobs -> Job]
    BY <1>3, <2>1, <2>2 DEF StartBatch
  <2>4. pc' \in {"verify", "dispatch", "requeue"} /\ work' \subseteq Edges
    BY <1>3 DEF StartBatch
  <2>5. TypeOK'
    BY <1>3, <2>3, <2>4 DEF StartBatch, Processing
  <2>6. JobAtHand'
    BY <1>3, <2>1, <2>4 DEF StartBatch, JobAtHand, Processing
  <2> QED BY <2>5, <2>6
<1>4. CASE DispatchEnds
  <2>1. \A e \in Edges : step[e] = "none"
    BY <1>4 DEF DispatchEnds, Free
  <2>2. TypeOK' /\ JobAtHand'
    BY <1>4, <2>1 DEF DispatchEnds, JobAtHand, Processing
  <2> QED BY <2>2
<1>5. CASE Recheck
  BY <1>5 DEF Recheck, JobAtHand, Processing
<1> QED BY <1>1, <1>2, <1>3, <1>4, <1>5

\* The types survive the verification of a batch and the end of a job:
\* verifyWaiting, RefreshUpgradeJob, RequeueUpgradeJob.
LEMMA VerifyTypes ==
  ASSUME TypeInv, UNCHANGED <<edges, retry>>,
         ReadEdges \/ EndRound \/ EndBatch \/ FinishJob \/ ProcessFails \/ Requeue
           \/ \E e \in Edges : Judge(e)
  PROVE  TypeInv'
<1> USE DEF TypeInv, TypeOK, records, edges, local, bounds
<1>1. CASE ReadEdges
  <2>1. todo' \subseteq Edges
    BY <1>1 DEF ReadEdges, InBatch, Items, WithStatus
  <2>2. NoRow \in Row
    BY DEF NoRow, Row, Versions
  <2>3. seen' \in [Edges -> Row] /\ pc' \in {"refresh", "judge"}
    BY <1>1, <2>2 DEF ReadEdges
  <2>4. TypeOK' /\ JobAtHand'
    BY <1>1, <2>1, <2>3 DEF ReadEdges, JobAtHand, Processing
  <2> QED BY <2>4
<1>2. CASE EndRound \/ EndBatch \/ FinishJob
  <2>1. cj \in Jobs
    BY <1>2 DEF EndRound, EndBatch, FinishJob, JobAtHand, Processing
  <2>2. Refreshed(cj) \in Job
    BY <2>1, RefreshedType
  <2>3. job' \in [Jobs -> Job] /\ item' = item
    BY <1>2, <2>1, <2>2 DEF EndRound, EndBatch, FinishJob, Refresh
  <2>4. TypeOK' /\ JobAtHand'
    BY <1>2, <2>1, <2>3 DEF EndRound, EndBatch, FinishJob, JobAtHand, Processing
  <2> QED BY <2>4
<1>3. CASE ProcessFails
  BY <1>3, NothingSeen DEF ProcessFails, DbFails, JobAtHand, Processing
<1>4. CASE Requeue
  <2>1. cj \in Jobs
    BY <1>4 DEF Requeue, JobAtHand, Processing
  <2>2. [job[cj] EXCEPT !.status = "queued"] \in Job
    BY <2>1 DEF Job
  <2>3. ASSUME NEW e \in Edges
        PROVE  item[cj][e] \in Item /\ [item[cj][e] EXCEPT !.status = "queued", !.late = FALSE] \in Item
    <3>1. item[cj][e] \in Item
      BY <2>1
    <3> QED BY <3>1, QueuedAgainType
  <2>4. /\ job' \in [Jobs -> Job] /\ item' \in [Jobs -> [Edges -> Item]]
        /\ faults' \in Nat /\ UNCHANGED <<regs, retries, stops>>
    <3>1. CASE /\ item' = [item EXCEPT ![cj] = [e \in Edges |->
                    IF @[e].status = "dispatching"
                      THEN [@[e] EXCEPT !.status = "queued", !.late = FALSE] ELSE @[e]]]
               /\ job' = [job EXCEPT ![cj].status = "queued"]
               /\ UNCHANGED bounds
      <4>1. job' \in [Jobs -> Job]
        BY <2>1, <2>2, <3>1
      <4>2. item' \in [Jobs -> [Edges -> Item]]
        BY <2>1, <2>3, <3>1
      <4> QED BY <3>1, <4>1, <4>2
    <3>2. CASE UNCHANGED <<records, bounds>>
      BY <3>2
    <3>3. CASE DbFails /\ UNCHANGED records
      BY <3>3 DEF DbFails
    <3> QED BY <1>4, <3>1, <3>2, <3>3 DEF Requeue
  <2>5. TypeOK' /\ JobAtHand'
    BY <1>4, <2>4 DEF Requeue, JobAtHand, Processing
  <2> QED BY <2>5
<1>5. ASSUME NEW e \in Edges, Judge(e) PROVE TypeInv'
  <2> DEFINE verdict == Verdict(item[cj][e], seen[e])
  <2>1. cj \in Jobs
    BY <1>5 DEF Judge, JobAtHand, Processing
  <2>2. verdict \in {"succeeded", "failed", "timedOut", "waiting"}
    BY DEF Verdict
  <2>3. item[cj][e] \in Item
    BY <2>1
  <2>4. Mark(e, [item[cj][e] EXCEPT !.status = verdict, !.late = @ /\ verdict = "waiting"])
    BY <1>5 DEF Judge
  <2>5. [item[cj][e] EXCEPT !.status = verdict, !.late = @ /\ verdict = "waiting"] \in Item
    <3> HIDE DEF verdict
    <3> QED BY <2>2, <2>3 DEF Item, Failed, Pending
  <2>6. job' \in [Jobs -> Job] /\ item' \in [Jobs -> [Edges -> Item]]
    BY <2>1, <2>4, <2>5, MarkType
  <2>7. seen' \in [Edges -> Row]
    BY <1>5 DEF Judge, Forget, NoRow, Row, Versions
  <2>8. TypeOK' /\ JobAtHand'
    BY <1>5, <2>6, <2>7 DEF Judge, JobAtHand, Processing
  <2> QED BY <2>8
<1> QED BY <1>1, <1>2, <1>3, <1>4, <1>5

\* Every step keeps the types and what they rest on.
LEMMA TypeStep ==
  ASSUME TypeInv, [Next]_vars
  PROVE  TypeInv'
<1>1. CASE Requests
  BY <1>1, CreateTypes, RetryTypes DEF Requests
<1>2. ASSUME NEW e \in Edges,
             EdgeStep(e) \/ DispatchItem(e) \/ \E j \in Jobs : DeadlinePasses(j, e)
      PROVE  TypeInv'
  BY <1>2, EdgeTypes, DispatchTypes
<1>3. CASE Coordinator
  BY <1>3, RecoverTypes, ProcessTypes, VerifyTypes DEF Coordinator
<1>4. CASE Stop
  <2> USE DEF TypeInv, TypeOK, records, edges, local, bounds
  <2>1. [u \in Users |-> NoRetry] \in [Users -> Retry]
    BY DEF NoRetry, Retry
  <2>2. TypeOK'
    BY <1>4, <2>1, NothingSeen DEF Stop, Steps
  <2>3. JobAtHand'
    BY <1>4 DEF Stop, JobAtHand, Processing, NoRetry
  <2> QED BY <2>2, <2>3
<1>5. CASE UNCHANGED vars
  BY <1>5 DEF TypeInv, TypeOK, JobAtHand, vars, records, edges, local, bounds
<1> QED BY <1>1, <1>2, <1>3, <1>4, <1>5 DEF Next

\* The manager starts well typed.
LEMMA InitTypes ==
  ASSUME Init
  PROVE  TypeInv
<1>1. NoJob \in Job /\ NoItem \in Item /\ NoRow \in Row /\ NoRetry \in Retry
  BY DEF NoJob, NoSum, Job, Summary, NoItem, Item, NoRow, Row, Versions, NoRetry, Retry
<1>2. TypeOK
  BY <1>1 DEF Init, TypeOK, Versions, Steps
<1>3. JobAtHand
  BY DEF Init, JobAtHand, Processing, NoRetry
<1> QED BY <1>2, <1>3 DEF TypeInv

\* Types: every record, and every variable of the coordinator, keeps its type in
\* every reachable state, and no step touches a job that is not there.
THEOREM TypeCorrect == Spec => []TypeOK
<1>1. Init => TypeInv
  BY InitTypes
<1>2. TypeInv /\ [Next]_vars => TypeInv'
  BY TypeStep
<1>3. TypeInv => TypeOK
  BY DEF TypeInv
<1> QED BY <1>1, <1>2, <1>3, PTL DEF Spec

------------------------------------------------------------------------------
(* A job that is over. *)

\* A job that does not exist has no items.
NoneHasNoItems ==
  \A j \in Jobs : job[j].status = "none" => \A e \in Edges : item[j][e].status = "none"

\* What is left of a round of verification still waits: nobody else has judged it.
JudgeWaits == pc = "judge" => \A e \in todo : item[cj][e].status = "waiting"

JobsInv == TypeInv /\ NoneHasNoItems /\ TerminalMeansDone /\ JudgeWaits

\* What a step may do to one job: leave the statuses alone, open it again (or
\* delete it), or count its items.
Kept(j) ==
  /\ job'[j].status = job[j].status /\ job'[j].sum = job[j].sum
  /\ \A e \in Edges : item'[j][e].status = item[j][e].status
Opened(j) == job'[j].status \in {"queued", "running", "gone"}
Counted(j) ==
  /\ job'[j].sum = Summarize(item'[j])
  /\ job'[j].status # "none"
  /\ job'[j].status \in Finished =>
       job'[j].sum.pending = 0 /\ job'[j].status = TerminalStatus(job'[j].sum)
Gentle(j) == Kept(j) \/ Opened(j) \/ Counted(j)

\* What a step may not do to the items of one job: take a success back.
Stands(j) ==
  \A e \in Edges :
    item[j][e].status = "succeeded" => item'[j][e].status \in {"succeeded", "none"}

\* Nothing is pending when the count of what is pending is zero.
LEMMA NoPending ==
  ASSUME NEW its, Summarize(its).pending = 0
  PROVE  WithStatus(its, Pending) = {}
<1>1. WithStatus(its, Pending) \in SUBSET Edges
  BY DEF WithStatus
<1>2. Cardinality(WithStatus(its, Pending)) = 0
  BY DEF Summarize
<1> QED BY <1>1, <1>2, EdgeSets, FS_EmptySet

\* Only the statuses of the items are counted.
LEMMA SameStatuses ==
  ASSUME NEW its, NEW after, \A e \in Edges : after[e].status = its[e].status
  PROVE  /\ \A S : WithStatus(after, S) = WithStatus(its, S)
         /\ Summarize(after) = Summarize(its)
<1>1. \A S : WithStatus(after, S) = WithStatus(its, S)
  BY DEF WithStatus
<1> QED BY <1>1 DEF Summarize

\* Gentle steps keep the invariants of jobs and items.
LEMMA GentleSteps ==
  ASSUME JobsInv, \A j \in Jobs : Gentle(j)
  PROVE  NoneHasNoItems' /\ TerminalMeansDone'
<1>1. ASSUME NEW j \in Jobs, job'[j].status = "none", NEW e \in Edges
      PROVE  item'[j][e].status = "none"
  BY <1>1 DEF JobsInv, NoneHasNoItems, Gentle, Kept, Opened, Counted
<1>2. ASSUME NEW j \in Jobs, job'[j].status \in Finished
      PROVE  /\ WithStatus(item'[j], Pending) = {}
             /\ job'[j].sum = Summarize(item'[j])
             /\ job'[j].status = TerminalStatus(Summarize(item'[j]))
  <2>1. CASE Kept(j)
    <3>1. /\ WithStatus(item'[j], Pending) = WithStatus(item[j], Pending)
          /\ Summarize(item'[j]) = Summarize(item[j])
      BY <2>1, SameStatuses DEF Kept
    <3>2. /\ WithStatus(item[j], Pending) = {}
          /\ job[j].sum = Summarize(item[j])
          /\ job[j].status = TerminalStatus(Summarize(item[j]))
      BY <1>2, <2>1 DEF Kept, JobsInv, TerminalMeansDone, Items
    <3> QED BY <2>1, <3>1, <3>2 DEF Kept
  <2>2. CASE Counted(j)
    BY <1>2, <2>2, NoPending DEF Counted
  <2> QED BY <1>2, <2>1, <2>2 DEF Gentle, Opened, Finished
<1>3. NoneHasNoItems'
  BY <1>1 DEF NoneHasNoItems
<1>4. TerminalMeansDone'
  BY <1>2 DEF TerminalMeansDone, Items
<1> QED BY <1>3, <1>4

\* RefreshUpgradeJob counts.
LEMMA RefreshCounts ==
  ASSUME TypeOK, NEW j \in Jobs, Refresh(j)
  PROVE  /\ \A i \in Jobs : Gentle(i) /\ Stands(i)
         /\ UNCHANGED item
<1>1. job[j] \in Job
  BY DEF TypeOK
<1>2. TerminalStatus(Summarize(item[j])) \in Finished
  BY TerminalType
<1>3. job' = [job EXCEPT ![j] = Refreshed(j)] /\ item' = item
  BY DEF Refresh
<1>4. job'[j] = Refreshed(j)
  BY <1>3 DEF TypeOK
<1>5. Counted(j)
  <2> DEFINE sum == Summarize(item[j])
  <2>1. /\ Refreshed(j).sum = sum
        /\ Refreshed(j).status = IF sum.pending = 0 THEN TerminalStatus(sum)
                                 ELSE IF job[j].status = "queued" THEN "queued" ELSE "running"
    BY <1>1 DEF Refreshed, Job
  <2> QED BY <1>2, <1>3, <1>4, <2>1 DEF Counted, Finished
<1>6. \A i \in Jobs : i # j => Kept(i)
  BY <1>3 DEF TypeOK, Kept
<1>7. \A i \in Jobs : Stands(i)
  BY <1>3 DEF Stands
<1> QED BY <1>3, <1>5, <1>6, <1>7 DEF Gentle

\* An item that is pending belongs to a job that is open.
LEMMA PendingMeansOpen ==
  ASSUME JobsInv, NEW j \in Jobs, NEW e \in Edges, item[j][e].status \in Pending
  PROVE  job[j].status \in {"queued", "running", "gone"}
<1>1. job[j].status # "none"
  BY DEF JobsInv, NoneHasNoItems, Pending
<1>2. job[j].status \notin Finished
  BY DEF JobsInv, TerminalMeansDone, Items, WithStatus
<1>3. job[j] \in Job
  BY DEF JobsInv, TypeInv, TypeOK
<1> QED BY <1>1, <1>2, <1>3 DEF Job

\* One conditional update of an item that is pending is gentle, and so is one
\* that leaves its status alone.
LEMMA MarkIsGentle ==
  ASSUME JobsInv, cj \in Jobs, NEW e \in Edges, NEW it, Mark(e, it),
         item[cj][e].status \in Pending \/ it.status = item[cj][e].status
  PROVE  /\ \A j \in Jobs : Gentle(j) /\ Stands(j)
         /\ \A j \in Jobs, d \in Edges : j # cj \/ d # e => item'[j][d] = item[j][d]
<1>1. item \in [Jobs -> [Edges -> Item]]
  BY DEF JobsInv, TypeInv, TypeOK
<1>2. item' = [item EXCEPT ![cj] = [item[cj] EXCEPT ![e] = it]] /\ job' = job
  BY DEF Mark
<1>3. \A j \in Jobs, d \in Edges :
        item'[j][d] = IF j = cj /\ d = e THEN it ELSE item[j][d]
  BY <1>1, <1>2
<1>4. \A j \in Jobs : Stands(j)
  BY <1>3 DEF Stands, Pending
<1>5. \A j \in Jobs : j # cj => Kept(j)
  BY <1>2, <1>3 DEF Kept
<1>6. Gentle(cj)
  <2>1. CASE item[cj][e].status \in Pending
    BY <1>2, <2>1, PendingMeansOpen DEF Gentle, Opened
  <2>2. CASE it.status = item[cj][e].status
    BY <1>2, <1>3, <2>2 DEF Gentle, Kept
  <2> QED BY <2>1, <2>2
<1> QED BY <1>3, <1>4, <1>5, <1>6 DEF Gentle

\* A step that leaves the coordinator and the items it has still to judge alone
\* keeps the round of verifyWaiting going.
LEMMA JudgedElsewhere ==
  ASSUME JobsInv, pc' = "judge" => pc = "judge" /\ UNCHANGED <<cj, todo>>,
         pc = "judge" /\ cj \in Jobs =>
           \A e \in todo : item'[cj][e].status = item[cj][e].status
  PROVE  JudgeWaits'
<1>1. SUFFICES ASSUME pc' = "judge"
               PROVE  \A e \in todo' : item'[cj'][e].status = "waiting"
  BY DEF JudgeWaits
<1>2. cj \in Jobs /\ cj' = cj /\ todo' = todo
  BY <1>1 DEF JobsInv, TypeInv, JobAtHand, Processing
<1> QED BY <1>1, <1>2 DEF JobsInv, JudgeWaits

\* The requests of users: a new job counts its items, a retry opens the job again
\* and touches only what failed.
LEMMA RequestSteps ==
  ASSUME JobsInv, Requests
  PROVE  (\A j \in Jobs : Gentle(j) /\ Stands(j)) /\ JudgeWaits'
<1> USE DEF JobsInv, TypeInv, TypeOK, records, edges, local, bounds
<1>1. ASSUME NEW j \in Jobs, Create(j)
      PROVE  (\A i \in Jobs : Gentle(i) /\ Stands(i)) /\ JudgeWaits'
  <2>1. PICK es \in SUBSET Edges \ {{}}, force \in Forces :
          /\ item' = [item EXCEPT ![j] = NewItems(es, force)]
          /\ job' = [job EXCEPT ![j] = NewJob(NewItems(es, force), force)]
    BY <1>1 DEF Create
  <2>2. job[j].status = "none" /\ \A e \in Edges : item[j][e].status = "none"
    BY <1>1 DEF Create, NoneHasNoItems
  <2>3. Counted(j)
    <3> DEFINE its == NewItems(es, force)
               sum == Summarize(its)
    <3>1. /\ NewJob(its, force).sum = sum
          /\ NewJob(its, force).status =
               IF sum.pending = 0 THEN TerminalStatus(sum) ELSE "queued"
      BY DEF NewJob, NoJob
    <3>2. item'[j] = its /\ job'[j] = NewJob(its, force)
      BY <2>1
    <3>3. TerminalStatus(sum) \in Finished
      BY TerminalType
    <3> HIDE DEF its
    <3> QED BY <3>1, <3>2, <3>3 DEF Counted, Finished
  <2>4. \A i \in Jobs : i # j => item'[i] = item[i] /\ job'[i] = job[i]
    BY <2>1
  <2>5. \A i \in Jobs : Gentle(i) /\ Stands(i)
    BY <2>2, <2>3, <2>4 DEF Gentle, Kept, Stands
  <2>6. JudgeWaits'
    <3>1. UNCHANGED <<pc, cj, todo>>
      BY <1>1 DEF Create
    <3>2. pc = "judge" /\ cj \in Jobs => \A e \in todo : item'[cj][e].status = item[cj][e].status
      BY <2>2, <2>4 DEF JudgeWaits
    <3> QED BY <3>1, <3>2, JudgedElsewhere
  <2> QED BY <2>5, <2>6
<1>2. ASSUME NEW u \in Users,
             (\E j \in Jobs : RetryRead(u, j)) \/ RetryConflict(u)
      PROVE  (\A i \in Jobs : Gentle(i) /\ Stands(i)) /\ JudgeWaits'
  <2>1. UNCHANGED <<records, pc, cj, todo>>
    BY <1>2 DEF RetryRead, RetryConflict
  <2>2. JudgeWaits'
    BY <2>1, JudgedElsewhere
  <2> QED BY <2>1, <2>2 DEF Gentle, Kept, Stands
<1>3. ASSUME NEW u \in Users, RetryReset(u)
      PROVE  (\A i \in Jobs : Gentle(i) /\ Stands(i)) /\ JudgeWaits'
  <2> DEFINE j == retry[u].job
             reset == RetryItems(u)
  <2>1. j \in Jobs /\ job[j].status \in Finished
    BY <1>3 DEF RetryReset, JobAtHand
  <2>2. job'[j].status = "queued"
    <3>1. job[j] \in Job
      BY <2>1
    <3>2. job'[j] = RequeuedJob(j, reset)
      BY <1>3, <2>1 DEF RetryReset
    <3> QED BY <3>1, <3>2 DEF RequeuedJob, Job
  <2>3. \A i \in Jobs : i # j => item'[i] = item[i] /\ job'[i] = job[i]
    BY <1>3 DEF RetryReset
  <2>4. \A e \in Edges : item[j][e].status \notin Failed => item'[j][e] = item[j][e]
    BY <1>3, <2>1 DEF RetryReset, RetryItems, Items, WithStatus
  <2>5. \A i \in Jobs : Gentle(i) /\ Stands(i)
    BY <2>2, <2>3, <2>4 DEF Gentle, Kept, Opened, Stands, Failed
  <2>6. JudgeWaits'
    <3>1. UNCHANGED <<pc, cj, todo>>
      BY <1>3 DEF RetryReset
    <3>2. pc = "judge" /\ cj \in Jobs => \A e \in todo : item'[cj][e].status = item[cj][e].status
      BY <2>3, <2>4 DEF JudgeWaits, Failed
    <3> QED BY <3>1, <3>2, JudgedElsewhere
  <2> QED BY <2>5, <2>6
<1>4. ASSUME NEW u \in Users, RetryRefresh(u)
      PROVE  (\A i \in Jobs : Gentle(i) /\ Stands(i)) /\ JudgeWaits'
  <2>1. retry[u].job \in Jobs
    BY <1>4 DEF RetryRefresh, JobAtHand
  <2>2. Refresh(retry[u].job) \/ UNCHANGED records
    BY <1>4 DEF RetryRefresh
  <2>3. (\A i \in Jobs : Gentle(i) /\ Stands(i)) /\ UNCHANGED item
    BY <2>1, <2>2, RefreshCounts DEF Gentle, Kept, Stands
  <2>4. UNCHANGED <<pc, cj, todo>>
    BY <1>4 DEF RetryRefresh
  <2> QED BY <2>3, <2>4, JudgedElsewhere
<1> QED BY <1>1, <1>2, <1>3, <1>4 DEF Requests

\* Edges, deadlines and workers: they change items of an open job only.
LEMMA WorkerSteps ==
  ASSUME JobsInv, NEW e \in Edges,
         EdgeStep(e) \/ DispatchItem(e) \/ \E j \in Jobs : DeadlinePasses(j, e)
  PROVE  (\A j \in Jobs : Gentle(j) /\ Stands(j)) /\ JudgeWaits'
<1> USE DEF JobsInv, TypeInv, TypeOK, records, edges, local, bounds
<1>1. CASE EdgeStep(e)
  <2>1. UNCHANGED <<records, pc, cj, todo>>
    BY <1>1 DEF EdgeStep
  <2>2. JudgeWaits'
    BY <2>1, JudgedElsewhere
  <2> QED BY <2>1, <2>2 DEF Gentle, Kept, Stands
<1>2. ASSUME NEW j \in Jobs, DeadlinePasses(j, e)
      PROVE  (\A i \in Jobs : Gentle(i) /\ Stands(i)) /\ JudgeWaits'
  <2>1. UNCHANGED <<job, pc, cj, todo>> /\ item' = [item EXCEPT ![j][e].late = TRUE]
    BY <1>2 DEF DeadlinePasses
  <2>2. \A i \in Jobs, d \in Edges : item[i][d] \in Item
    OBVIOUS
  <2>3. \A i \in Jobs, d \in Edges : item'[i][d].status = item[i][d].status
    BY <2>1, <2>2 DEF Item
  <2>4. JudgeWaits'
    BY <2>1, <2>3, JudgedElsewhere
  <2> QED BY <2>1, <2>3, <2>4 DEF Gentle, Kept, Stands
<1>3. CASE DispatchItem(e)
  <2>1. pc = "dispatch" /\ pc' = pc
    BY <1>3 DEF DispatchItem, TakeItem, MarkDispatching, GiveUp, MarkWaiting, MarkSettled,
           FailDispatch, FetchPackage, RefreshBaseline, ApplyPackage, JobAtHand
  <2>2. cj \in Jobs
    BY <2>1 DEF JobAtHand, Processing
  <2>3. \/ UNCHANGED records
        \/ \E it : Mark(e, it) /\ (item[cj][e].status \in Pending
                                    \/ it.status = item[cj][e].status)
    <3>1. item[cj][e] \in Item
      BY <2>2
    <3>2. CASE MarkDispatching(e) \/ MarkWaiting(e) \/ MarkSettled(e) \/ FailDispatch(e)
               \/ RefreshBaseline(e)
      BY <3>2 DEF MarkDispatching, MarkWaiting, MarkSettled, FailDispatch, RefreshBaseline,
                  Pending
    <3>3. CASE ApplyPackage(e)
      BY <3>3 DEF ApplyPackage
    <3>4. CASE TakeItem(e) \/ GiveUp(e) \/ FetchPackage(e)
      BY <3>4 DEF TakeItem, GiveUp, FetchPackage
    <3> QED BY <1>3, <3>2, <3>3, <3>4 DEF DispatchItem
  <2>4. \A j \in Jobs : Gentle(j) /\ Stands(j)
    <3>1. CASE UNCHANGED records
      BY <3>1 DEF Gentle, Kept, Stands
    <3>2. CASE \E it : Mark(e, it) /\ (item[cj][e].status \in Pending
                                        \/ it.status = item[cj][e].status)
      BY <2>2, <3>2, MarkIsGentle
    <3> QED BY <2>3, <3>1, <3>2
  <2> QED BY <2>1, <2>4 DEF JudgeWaits
<1> QED BY <1>1, <1>2, <1>3

\* RecoverInterruptedUpgrades and the clean-up: a job whose items go back into the
\* queue was open, one that is deleted has no items any more.
LEMMA RunSteps ==
  ASSUME JobsInv, Recover \/ FindExpired \/ DeleteExpired
  PROVE  (\A j \in Jobs : Gentle(j) /\ Stands(j)) /\ JudgeWaits'
<1> USE DEF JobsInv, TypeInv, TypeOK, records
<1>1. pc' # "judge"
  BY DEF Recover, FindExpired, DeleteExpired
<1>2. CASE UNCHANGED records
  BY <1>1, <1>2 DEF Gentle, Kept, Stands, JudgeWaits
<1>3. CASE RecoverJobs
  <2>1. ASSUME NEW j \in Jobs PROVE Gentle(j) /\ Stands(j)
    <3>1. \A e \in Edges : item[j][e].status # "dispatching" => item'[j][e] = item[j][e]
      BY <1>3 DEF RecoverJobs
    <3>2. Stands(j)
      BY <3>1 DEF Stands
    <3>3. job[j] \in Job /\ job'[j] = IF job[j].status = "running"
                                        THEN [job[j] EXCEPT !.status = "queued"] ELSE job[j]
      BY <1>3 DEF RecoverJobs
    <3>4. CASE \E e \in Edges : item[j][e].status = "dispatching"
      <4>1. job[j].status \in {"queued", "running", "gone"}
        BY <3>4, PendingMeansOpen DEF Pending
      <4> QED BY <3>2, <3>3, <4>1 DEF Gentle, Opened, Job
    <3>5. CASE \A e \in Edges : item[j][e].status # "dispatching"
      <4>1. CASE job[j].status = "running"
        BY <3>2, <3>3, <4>1 DEF Gentle, Opened, Job
      <4>2. CASE job[j].status # "running"
        BY <3>1, <3>2, <3>3, <3>5, <4>2 DEF Gentle, Kept
      <4> QED BY <4>1, <4>2
    <3> QED BY <3>4, <3>5
  <2> QED BY <1>1, <2>1 DEF JudgeWaits
<1>4. CASE DeleteExpired /\ ~UNCHANGED records
  <2>1. ASSUME NEW j \in Jobs PROVE Gentle(j) /\ Stands(j)
    <3>1. CASE j \in doomed
      <4>1. job'[j].status = "gone" /\ \A e \in Edges : item'[j][e].status = "none"
        BY <1>4, <3>1 DEF DeleteExpired, NoJob, NoItem
      <4> QED BY <4>1 DEF Gentle, Opened, Stands
    <3>2. CASE j \notin doomed
      BY <1>4, <3>2 DEF DeleteExpired, Gentle, Kept, Stands
    <3> QED BY <3>1, <3>2
  <2> QED BY <1>1, <2>1 DEF JudgeWaits
<1> QED BY <1>2, <1>3, <1>4 DEF Recover, FindExpired

\* processJob up to the end of a dispatch leaves the items alone.
LEMMA ProcessSteps ==
  ASSUME JobsInv, Claim \/ ListItems \/ StartBatch \/ DispatchEnds \/ Recheck
  PROVE  (\A j \in Jobs : Gentle(j) /\ Stands(j)) /\ JudgeWaits'
<1> USE DEF JobsInv, TypeInv, TypeOK, records, local
<1>1. pc' # "judge" /\ item' = item
  BY DEF Claim, ListItems, StartBatch, DispatchEnds, Recheck
<1>2. \A j \in Jobs : job[j] \in Job
  OBVIOUS
<1>3. CASE Claim
  <2>1. PICK j \in Jobs : job' = [job EXCEPT ![j].status = "running"]
    BY <1>3 DEF Claim
  <2>2. job'[j].status = "running" /\ \A i \in Jobs : i # j => job'[i] = job[i]
    BY <1>2, <2>1 DEF Job
  <2> QED BY <1>1, <2>2 DEF Gentle, Kept, Opened, Stands, JudgeWaits
<1>4. CASE StartBatch
  <2>1. job' = job \/ job' = [job EXCEPT ![cj].current = batch]
    BY <1>4 DEF StartBatch
  <2>2. \A i \in Jobs : job'[i].status = job[i].status /\ job'[i].sum = job[i].sum
    <3>1. CASE job' = job
      BY <3>1
    <3>2. CASE job' = [job EXCEPT ![cj].current = batch]
      <4>1. \A i \in Jobs : job'[i] = IF i = cj THEN [job[i] EXCEPT !.current = batch] ELSE job[i]
        BY <3>2
      <4> QED BY <1>2, <4>1 DEF Job
    <3> QED BY <2>1, <3>1, <3>2
  <2> QED BY <1>1, <2>2 DEF Gentle, Kept, Stands, JudgeWaits
<1>5. CASE ListItems \/ DispatchEnds \/ Recheck
  BY <1>1, <1>5 DEF ListItems, DispatchEnds, Recheck, Gentle, Kept, Stands, JudgeWaits
<1> QED BY <1>3, <1>4, <1>5

\* verifyWaiting judges what waits; RefreshUpgradeJob counts; RequeueUpgradeJob
\* opens the job.
LEMMA VerifySteps ==
  ASSUME JobsInv,
         ReadEdges \/ EndRound \/ EndBatch \/ FinishJob \/ ProcessFails \/ Requeue
           \/ \E e \in Edges : Judge(e)
  PROVE  (\A j \in Jobs : Gentle(j) /\ Stands(j)) /\ JudgeWaits'
<1> USE DEF JobsInv, TypeInv, TypeOK, records, local
<1>1. CASE ReadEdges
  <2>1. UNCHANGED <<job, item, cj>> /\ todo' = InBatch(cj, {"waiting"})
    BY <1>1 DEF ReadEdges
  <2>2. JudgeWaits'
    BY <2>1 DEF JudgeWaits, InBatch, Items, WithStatus
  <2> QED BY <2>1, <2>2 DEF Gentle, Kept, Stands
<1>2. CASE EndRound \/ EndBatch \/ FinishJob
  <2>1. cj \in Jobs
    BY <1>2 DEF EndRound, EndBatch, FinishJob, JobAtHand, Processing
  <2>2. Refresh(cj) /\ pc' # "judge"
    BY <1>2 DEF EndRound, EndBatch, FinishJob
  <2> QED BY <2>1, <2>2, RefreshCounts DEF JudgeWaits
<1>3. CASE ProcessFails
  BY <1>3 DEF ProcessFails, Gentle, Kept, Stands, JudgeWaits
<1>4. CASE Requeue
  <2>1. cj \in Jobs /\ pc' # "judge"
    BY <1>4 DEF Requeue, JobAtHand, Processing
  <2>2. CASE UNCHANGED records
    BY <2>1, <2>2 DEF Gentle, Kept, Stands, JudgeWaits
  <2>3. CASE ~UNCHANGED records
    <3>1. job' = [job EXCEPT ![cj].status = "queued"]
      BY <1>4, <2>3 DEF Requeue
    <3>2. job'[cj].status = "queued" /\ \A i \in Jobs : i # cj => job'[i] = job[i]
      BY <2>1, <3>1 DEF Job
    <3>3. /\ \A e \in Edges : item[cj][e].status # "dispatching" => item'[cj][e] = item[cj][e]
          /\ \A i \in Jobs : i # cj => item'[i] = item[i]
      <4>1. item' = [item EXCEPT ![cj] = [e \in Edges |->
              IF @[e].status = "dispatching"
                THEN [@[e] EXCEPT !.status = "queued", !.late = FALSE] ELSE @[e]]]
        BY <1>4, <2>3 DEF Requeue
      <4> QED BY <2>1, <4>1
    <3> QED BY <2>1, <3>2, <3>3 DEF Gentle, Kept, Opened, Stands, JudgeWaits
  <2> QED BY <2>2, <2>3
<1>5. ASSUME NEW e \in Edges, Judge(e)
      PROVE  (\A j \in Jobs : Gentle(j) /\ Stands(j)) /\ JudgeWaits'
  <2>1. /\ cj \in Jobs /\ cj' = cj /\ todo' = todo \ {e}
        /\ item[cj][e].status = "waiting"
    BY <1>5 DEF Judge, JudgeWaits, JobAtHand, Processing
  <2>2. \E it : Mark(e, it)
    BY <1>5 DEF Judge
  <2>3. /\ \A j \in Jobs : Gentle(j) /\ Stands(j)
        /\ \A d \in Edges : d # e => item'[cj][d] = item[cj][d]
    BY <2>1, <2>2, MarkIsGentle DEF Pending
  <2>4. pc = "judge" /\ todo \subseteq Edges
    BY <1>5 DEF Judge
  <2> QED BY <2>1, <2>3, <2>4 DEF JudgeWaits
<1> QED BY <1>1, <1>2, <1>3, <1>4, <1>5

\* Every step is gentle with jobs and items.
LEMMA JobsStep ==
  ASSUME JobsInv, [Next]_vars
  PROVE  JobsInv' /\ \A j \in Jobs : Stands(j)
<1>1. (\A j \in Jobs : Gentle(j) /\ Stands(j)) /\ JudgeWaits'
  <2>1. CASE Requests
    BY <2>1, RequestSteps
  <2>2. ASSUME NEW e \in Edges,
               EdgeStep(e) \/ DispatchItem(e) \/ \E j \in Jobs : DeadlinePasses(j, e)
        PROVE  (\A j \in Jobs : Gentle(j) /\ Stands(j)) /\ JudgeWaits'
    BY <2>2, WorkerSteps
  <2>3. CASE Coordinator
    BY <2>3, RunSteps, ProcessSteps, VerifySteps DEF Coordinator
  <2>4. CASE Stop
    BY <2>4 DEF Stop, records, Gentle, Kept, Stands, JudgeWaits
  <2>5. CASE UNCHANGED vars
    BY <2>5 DEF vars, records, local, Gentle, Kept, Stands, JobsInv, JudgeWaits
  <2> QED BY <2>1, <2>2, <2>3, <2>4, <2>5 DEF Next
<1>2. TypeInv'
  BY TypeStep DEF JobsInv
<1>3. NoneHasNoItems' /\ TerminalMeansDone'
  BY <1>1, GentleSteps
<1> QED BY <1>1, <1>2, <1>3 DEF JobsInv

\* There are no jobs when the manager starts for the first time.
LEMMA JobsInit ==
  ASSUME Init
  PROVE  JobsInv
<1>1. \A j \in Jobs : job[j].status = "none" /\ \A e \in Edges : item[j][e].status = "none"
  BY DEF Init, NoJob, NoItem
<1>2. TerminalMeansDone
  BY <1>1 DEF TerminalMeansDone, Finished
<1> QED BY <1>1, <1>2, InitTypes DEF JobsInv, NoneHasNoItems, JudgeWaits, Init

\* A job that is over has nothing left to do, and its counters and status are those
\* of its items: through retries, failed database calls, stops and recoveries.
THEOREM OverMeansDone == Spec => []TerminalMeansDone
<1>1. Init => JobsInv
  BY JobsInit
<1>2. JobsInv /\ [Next]_vars => JobsInv'
  BY JobsStep
<1>3. JobsInv => TerminalMeansDone
  BY DEF JobsInv
<1> QED BY <1>1, <1>2, <1>3, PTL DEF Spec

\* No retry, recovery or error takes the success of an item back: a retry resets what
\* it had read as failed only if it still is.
THEOREM SuccessStands == Spec => SucceededStays
<1>1. Init => JobsInv
  BY JobsInit
<1>2. JobsInv /\ [Next]_vars => JobsInv'
  BY JobsStep
<1>3. JobsInv /\ [Next]_vars =>
        [\A j \in Jobs, e \in Edges :
           item[j][e].status = "succeeded" => item'[j][e].status \in {"succeeded", "none"}]_vars
  BY JobsStep DEF Stands
<1> QED BY <1>1, <1>2, <1>3, PTL DEF Spec, SucceededStays

-------------------------------------------------------------------------------
(* A success tells the truth about the edge. *)

\* What a row says was said by the edge in a session at least as late as its marker,
\* and in a later one while a session is in progress; so with what was read of it.
Spoken(e) ==
  /\ \A v \in Versions : heard[e][v] <= row[e].reg + 1
  /\ heard[e][row[e].ver] >= row[e].reg
  /\ hs[e] # None => heard[e][row[e].ver] > row[e].reg
  /\ heard[e][seen[e].ver] >= seen[e].reg

\* Who claims that the edge has reached the target: an item that has succeeded, and
\* one that a worker is about to settle.
Claims(j, e) ==
  \/ item[j][e].status = "succeeded"
  \/ j = cj /\ step[e] = "settle" /\ item[j][e].status = "dispatching"
  \/ j = cj /\ step[e] = "settled" /\ item[j][e].status = "waiting"
Right(j, e) == heard[e][Target] > item[j][e].base

TruthInv ==
  /\ TypeInv
  /\ \A e \in Edges : Spoken(e)
  /\ \A j \in Jobs, e \in Edges : Claims(j, e) => Right(j, e)

\* The edge is never heard of less, so a claim that keeps its baseline stays right.
LEMMA ClaimsStayRight ==
  ASSUME TruthInv, TypeInv', \A e \in Edges : Spoken(e)',
         \A e \in Edges, v \in Versions : heard'[e][v] >= heard[e][v],
         \A j \in Jobs, e \in Edges :
           Claims(j, e)' => \/ Claims(j, e) /\ item'[j][e].base = item[j][e].base
                            \/ Right(j, e)'
  PROVE  TruthInv'
<1> SUFFICES ASSUME NEW j \in Jobs, NEW e \in Edges, Claims(j, e)',
                    Claims(j, e), item'[j][e].base = item[j][e].base
             PROVE  Right(j, e)'
  BY DEF TruthInv
<1>1. heard[e][Target] > item[j][e].base
  BY DEF TruthInv, Right
<1>2. heard'[e][Target] >= heard[e][Target]
  BY DEF Versions
<1>3. heard[e][Target] \in Nat /\ heard'[e][Target] \in Nat /\ item[j][e].base \in Nat
  BY DEF TruthInv, TypeInv, TypeOK, Versions, Item
<1> QED BY <1>1, <1>2, <1>3 DEF Right

\* So does whoever writes no success and puts no item where a worker could settle it.
LEMMA QuietItems ==
  ASSUME TruthInv, TypeInv', \A e \in Edges : Spoken(e)',
         \A e \in Edges, v \in Versions : heard'[e][v] >= heard[e][v],
         \A e \in Edges : step'[e] \in {"settle", "settled"} => step'[e] = step[e] /\ cj' = cj,
         \A j \in Jobs, e \in Edges :
           item'[j][e].status \in {"succeeded", "dispatching", "waiting"} =>
             /\ item'[j][e].status = item[j][e].status
             /\ item'[j][e].base = item[j][e].base
  PROVE  TruthInv'
<1>1. \A j \in Jobs, e \in Edges :
        Claims(j, e)' => Claims(j, e) /\ item'[j][e].base = item[j][e].base
  BY DEF Claims
<1> QED BY <1>1, ClaimsStayRight

\* What was read of an edge, or forgotten, was spoken by it.
LEMMA SeenIsSpoken ==
  ASSUME TruthInv, NEW e \in Edges, UNCHANGED <<row, hs, heard>>,
         seen'[e] \in {seen[e], row[e], NoRow}
  PROVE  Spoken(e)'
<1>1. heard[e] \in [Versions -> Nat] /\ NoRow.ver \in Versions /\ NoRow.reg = 0
  BY DEF TruthInv, TypeInv, TypeOK, NoRow, Versions
<1>2. heard[e][NoRow.ver] >= NoRow.reg
  BY <1>1
<1> QED BY <1>2 DEF TruthInv, Spoken

\* Only the coordinator and its workers write a success: no request does.
LEMMA RequestTruth ==
  ASSUME TruthInv, Requests
  PROVE  TruthInv'
<1> USE DEF TypeInv, TypeOK, records, edges, local, bounds
<1>1. TypeInv'
  BY CreateTypes, RetryTypes DEF Requests, TruthInv
<1>2. UNCHANGED <<row, hs, heard, seen, step, cj>>
  BY DEF Requests, Create, RetryRead, RetryConflict, RetryReset, RetryRefresh
<1>3. \A e \in Edges : Spoken(e)'
  BY <1>2, SeenIsSpoken
<1>4. \A e \in Edges, v \in Versions : heard'[e][v] >= heard[e][v]
  BY <1>2 DEF TruthInv
<1>5. \A j \in Jobs, e \in Edges :
        item'[j][e] = item[j][e] \/ item'[j][e].status \in {"none", "queued", "skipped"}
  <2>1. ASSUME NEW j \in Jobs, NEW es \in SUBSET Edges \ {{}}, NEW force \in Forces,
               item' = [item EXCEPT ![j] = NewItems(es, force)]
        PROVE  \A i \in Jobs, e \in Edges :
                 item'[i][e] = item[i][e] \/ item'[i][e].status \in {"none", "queued", "skipped"}
    <3>1. \A e \in Edges : NewItems(es, force)[e].status \in {"none", "queued", "skipped"}
      BY DEF NewItems, NoItem
    <3>2. \A i \in Jobs : item'[i] = IF i = j THEN NewItems(es, force) ELSE item[i]
      BY <2>1 DEF TruthInv
    <3> QED BY <3>1, <3>2
  <2>2. ASSUME NEW u \in Users, RetryReset(u)
        PROVE  \A i \in Jobs, e \in Edges :
                 item'[i][e] = item[i][e] \/ item'[i][e].status = "queued"
    <3> DEFINE j == retry[u].job
               reset == RetryItems(u)
    <3>1. j \in Jobs /\ item[j] \in [Edges -> Item]
      BY <2>2 DEF RetryReset, JobAtHand, TruthInv
    <3>2. \A i \in Jobs : i # j => item'[i] = item[i]
      BY <2>2 DEF RetryReset, TruthInv
    <3>3. \A e \in Edges : e \notin reset => item'[j][e] = item[j][e]
      BY <2>2, <3>1 DEF RetryReset, TruthInv
    <3>4. ASSUME NEW e \in Edges, e \in reset
          PROVE  item'[j][e].status = "queued"
      <4>1. item'[j][e] = [item[j][e] EXCEPT !.status = "queued",
               !.batch = BatchNumber(reset, e), !.base = retry[u].snap[e], !.late = FALSE]
        BY <2>2, <3>1, <3>4 DEF RetryReset, TruthInv
      <4>2. item[j][e] \in Item
        BY <3>1
      <4> HIDE DEF j, reset
      <4> QED BY <4>1, <4>2 DEF Item
    <3> HIDE DEF j, reset
    <3> QED BY <3>2, <3>3, <3>4
  <2>3. ASSUME NEW u \in Users,
               (\E j \in Jobs : RetryRead(u, j)) \/ RetryConflict(u) \/ RetryRefresh(u)
        PROVE  UNCHANGED item
    BY <2>3 DEF RetryRead, RetryConflict, RetryRefresh, Refresh
  <2>4. CASE \E j \in Jobs : Create(j)
    BY <2>1, <2>4 DEF Create
  <2> QED BY <2>2, <2>3, <2>4 DEF Requests
<1>6. \A e \in Edges : step'[e] = step[e] /\ cj' = cj
  BY <1>2
<1> QED BY <1>1, <1>3, <1>4, <1>5, <1>6, QuietItems

\* What the edge does: it registers what it runs, and may leave it afterwards.
LEMMA EdgeTruth ==
  ASSUME TruthInv, NEW e \in Edges, EdgeStep(e)
  PROVE  TruthInv'
<1> USE DEF TypeInv, TypeOK, records, edges, local, bounds
<1>1. TypeInv' /\ TypeInv
  BY EdgeTypes DEF TruthInv
<1>2. UNCHANGED <<item, seen, step, cj>>
  BY DEF EdgeStep
<1>3. /\ row[e] \in Row /\ heard[e] \in [Versions -> Nat] /\ real[e] \in Versions
      /\ row[e].reg \in Nat /\ row[e].ver \in Versions /\ seen[e] \in Row
      /\ seen[e].ver \in Versions /\ seen[e].reg \in Nat
  BY <1>1 DEF Row
<1>4. \A d \in Edges \ {e} : row'[d] = row[d] /\ hs'[d] = hs[d] /\ heard'[d] = heard[d]
  BY <1>1 DEF EdgeStep, Register, Reports, Presence, EdgeBoot, EdgeRollback
<1>5. Spoken(e) /\ \A d \in Edges : Spoken(d)
  BY DEF TruthInv
<1>6. Spoken(e)' /\ \A v \in Versions : heard'[e][v] >= heard[e][v]
  <2>1. CASE /\ hs' = [hs EXCEPT ![e] = real[e]] /\ row' = [row EXCEPT ![e].ver = real[e]]
             /\ Reports(e)
    <3>1. row'[e].ver = real[e] /\ row'[e].reg = row[e].reg
      BY <1>1, <1>3, <2>1 DEF Row
    <3>2. \A v \in Versions : heard'[e][v] = IF v = real[e] THEN row[e].reg + 1 ELSE heard[e][v]
      BY <1>1, <1>3, <2>1 DEF Reports
    <3>3. \A v \in Versions : heard[e][v] \in Nat /\ heard[e][v] <= row[e].reg + 1
      BY <1>3, <1>5 DEF Spoken
    <3>4. \A v \in Versions : heard'[e][v] >= heard[e][v] /\ heard'[e][v] <= row'[e].reg + 1
      BY <1>3, <3>1, <3>2, <3>3
    <3>5. heard'[e][row'[e].ver] > row'[e].reg /\ heard'[e][row'[e].ver] >= row'[e].reg
      BY <1>3, <3>1, <3>2
    <3>6. heard'[e][seen'[e].ver] >= seen'[e].reg
      <4>1. heard[e][seen[e].ver] >= seen[e].reg /\ heard'[e][seen[e].ver] >= heard[e][seen[e].ver]
        BY <1>3, <1>5, <3>4 DEF Spoken
      <4>2. heard[e][seen[e].ver] \in Nat /\ heard'[e][seen[e].ver] \in Nat
        BY <1>1, <1>3
      <4> QED BY <1>2, <1>3, <4>1, <4>2
    <3> QED BY <3>4, <3>5, <3>6 DEF Spoken
  <2>2. CASE /\ hs[e] # None /\ hs' = [hs EXCEPT ![e] = None]
             /\ row' = [row EXCEPT ![e].reg = @ + 1, ![e].online = TRUE] /\ UNCHANGED heard
    <3>1. row'[e].ver = row[e].ver /\ row'[e].reg = row[e].reg + 1 /\ hs'[e] = None
      BY <1>1, <1>3, <2>2 DEF Row
    <3>2. \A v \in Versions : heard[e][v] \in Nat /\ heard[e][v] <= row[e].reg + 1
      BY <1>3, <1>5 DEF Spoken
    <3>3. heard[e][row[e].ver] > row[e].reg /\ heard[e][seen[e].ver] >= seen[e].reg
      BY <1>5, <2>2 DEF Spoken
    <3>4. \A v \in Versions : heard'[e][v] <= row'[e].reg + 1
      BY <1>3, <2>2, <3>1, <3>2
    <3>5. heard'[e][row'[e].ver] >= row'[e].reg
      BY <1>3, <2>2, <3>1, <3>2, <3>3
    <3>6. heard'[e][seen'[e].ver] >= seen'[e].reg
      BY <1>2, <2>2, <3>3
    <3>7. \A v \in Versions : heard'[e][v] >= heard[e][v]
      BY <2>2, <3>2
    <3> QED BY <3>1, <3>4, <3>5, <3>6, <3>7 DEF Spoken
  <2>3. CASE /\ hs'[e] \in {None, hs[e]} /\ row'[e].ver = row[e].ver /\ row'[e].reg = row[e].reg
             /\ UNCHANGED heard
    <3>1. \A v \in Versions : heard[e][v] \in Nat
      BY <1>3
    <3> QED BY <1>2, <1>5, <2>3, <3>1 DEF Spoken
  <2>4. CASE Register(e)
    <3>1. CASE hs[e] # None /\ hs' = [hs EXCEPT ![e] = None] /\ UNCHANGED <<row, heard>>
      BY <1>1, <2>3, <3>1
    <3> QED BY <2>1, <2>2, <2>4, <3>1 DEF Register
  <2>5. CASE Presence(e)
    <3>1. row'[e].ver = row[e].ver /\ row'[e].reg = row[e].reg /\ UNCHANGED <<hs, heard>>
      BY <1>1, <1>3, <2>5 DEF Presence, Row
    <3> QED BY <2>3, <3>1
  <2>6. CASE UNCHANGED <<row, hs, heard>>
    BY <2>3, <2>6
  <2> QED BY <2>4, <2>5, <2>6 DEF EdgeStep
<1>7. \A d \in Edges : Spoken(d)'
  <2>1. ASSUME NEW d \in Edges, d # e PROVE Spoken(d)'
    BY <1>2, <1>4, <1>5, <2>1 DEF Spoken
  <2> QED BY <1>6, <2>1
<1>8. \A d \in Edges, v \in Versions : heard'[d][v] >= heard[d][v]
  <2>1. \A d \in Edges, v \in Versions : heard[d][v] \in Nat
    BY <1>1
  <2> QED BY <1>4, <1>6, <2>1
<1>9. \A d \in Edges : step'[d] = step[d] /\ cj' = cj
  BY <1>2
<1> QED BY <1>1, <1>2, <1>7, <1>8, <1>9, QuietItems

\* A worker settles an item only when the row it has read was right.
LEMMA WorkerTruth ==
  ASSUME TruthInv, NEW e \in Edges, DispatchItem(e)
  PROVE  TruthInv'
<1> USE DEF TypeInv, TypeOK, records, edges, local, bounds
<1>1. TypeInv' /\ TypeInv
  BY DispatchTypes DEF TruthInv
<1>2. cj \in Jobs /\ UNCHANGED <<row, hs, heard, cj>>
  BY <1>1 DEF DispatchItem, TakeItem, MarkDispatching, GiveUp, MarkWaiting, MarkSettled,
         FailDispatch, FetchPackage, RefreshBaseline, ApplyPackage, JobAtHand, Processing
<1>3. \A d \in Edges : seen'[d] \in {seen[d], row[d], NoRow}
  BY <1>1 DEF DispatchItem, TakeItem, MarkDispatching, GiveUp, MarkWaiting, MarkSettled,
         FailDispatch, FetchPackage, RefreshBaseline, ApplyPackage, Forget
<1>4. \A d \in Edges : Spoken(d)'
  BY <1>2, <1>3, SeenIsSpoken
<1>5. \A d \in Edges, v \in Versions : heard'[d][v] >= heard[d][v]
  BY <1>1, <1>2
<1>6. item[cj][e] \in Item /\ item[cj] \in [Edges -> Item]
  BY <1>1, <1>2
<1>7. \A d \in Edges : d # e => step'[d] = step[d]
  BY <1>1 DEF DispatchItem, TakeItem, MarkDispatching, GiveUp, MarkWaiting, MarkSettled,
         FailDispatch, FetchPackage, RefreshBaseline, ApplyPackage, To
<1>8. \A j \in Jobs, d \in Edges : <<j, d>> # <<cj, e>> => item'[j][d] = item[j][d]
  BY <1>1, <1>2, <1>6
     DEF DispatchItem, TakeItem, MarkDispatching, GiveUp, MarkWaiting, MarkSettled,
         FailDispatch, FetchPackage, RefreshBaseline, ApplyPackage, Mark
<1>9. \A j \in Jobs, d \in Edges : <<j, d>> # <<cj, e>> =>
        (Claims(j, d)' => Claims(j, d) /\ item'[j][d].base = item[j][d].base)
  BY <1>2, <1>7, <1>8 DEF Claims
<1>10. Claims(cj, e)' => \/ Claims(cj, e) /\ item'[cj][e].base = item[cj][e].base
                         \/ heard'[e][Target] > item'[cj][e].base
  <2>1. CASE MarkDispatching(e)
    <3>1. /\ item'[cj][e].status = "dispatching"
          /\ item'[cj][e].base = IF Settles(e) THEN item[cj][e].base ELSE seen[e].reg
          /\ step'[e] = IF Settles(e) THEN "settle" ELSE "fetch"
      BY <1>1, <1>2, <1>6, <2>1 DEF MarkDispatching, Mark, To, Item
    <3>2. CASE Settles(e)
      <4>1. seen[e].reg > item[cj][e].base /\ seen[e].ver = Target
        BY <3>2 DEF Settles, HasConverged, IsNewRegistration
      <4>2. heard[e][Target] >= seen[e].reg
        BY <4>1 DEF TruthInv, Spoken
      <4>3. seen[e].reg \in Nat /\ item[cj][e].base \in Nat /\ heard[e][Target] \in Nat
        BY <1>1, <1>6 DEF Row, Item, Versions
      <4> QED BY <1>2, <3>1, <3>2, <4>1, <4>2, <4>3
    <3>3. CASE ~Settles(e)
      BY <1>2, <3>1, <3>3 DEF Claims
    <3> QED BY <3>2, <3>3
  <2>2. CASE MarkWaiting(e)
    <3>1. /\ item[cj][e].status = "dispatching" /\ item'[cj][e].status = "waiting"
          /\ item'[cj][e].base = item[cj][e].base /\ step[e] \in {"settle", "accepted"}
          /\ step'[e] = IF step[e] = "settle" THEN "settled" ELSE "none"
      BY <1>1, <1>2, <1>6, <2>2 DEF MarkWaiting, Mark, To, Item
    <3> QED BY <1>2, <3>1 DEF Claims
  <2>3. CASE MarkSettled(e)
    <3>1. /\ item[cj][e].status = "waiting" /\ step[e] = "settled"
          /\ item'[cj][e].base = item[cj][e].base
      BY <1>1, <1>2, <1>6, <2>3 DEF MarkSettled, Mark, Item
    <3> QED BY <1>2, <3>1 DEF Claims
  <2>4. CASE FailDispatch(e)
    <3>1. item'[cj][e].status = "failed"
      BY <1>1, <1>2, <1>6, <2>4 DEF FailDispatch, Mark, Item
    <3> QED BY <1>2, <3>1 DEF Claims
  <2>5. CASE RefreshBaseline(e)
    <3>1. item'[cj][e].status = item[cj][e].status /\ step'[e] = "apply"
          /\ item[cj][e].status = "dispatching"
      BY <1>1, <1>2, <1>6, <2>5 DEF RefreshBaseline, Mark, To, Item
    <3> QED BY <1>2, <3>1 DEF Claims
  <2>6. CASE TakeItem(e) \/ GiveUp(e) \/ FetchPackage(e) \/ ApplyPackage(e)
    <3>1. UNCHANGED item /\ step'[e] \notin {"settle", "settled"}
      BY <1>1, <2>6 DEF TakeItem, GiveUp, FetchPackage, ApplyPackage, To
    <3> QED BY <1>2, <3>1 DEF Claims
  <2> QED BY <2>1, <2>2, <2>3, <2>4, <2>5, <2>6 DEF DispatchItem
<1>11. \A j \in Jobs, d \in Edges :
         Claims(j, d)' => \/ Claims(j, d) /\ item'[j][d].base = item[j][d].base
                          \/ Right(j, d)'
  BY <1>2, <1>9, <1>10 DEF Right
<1> QED BY <1>1, <1>4, <1>5, <1>11, ClaimsStayRight

\* A round judges by rows it has read, and nothing else of the coordinator succeeds.
LEMMA CoordinatorTruth ==
  ASSUME TruthInv, Coordinator
  PROVE  TruthInv'
<1> USE DEF TypeInv, TypeOK, records, edges, local, bounds
<1>1. TypeInv' /\ TypeInv /\ UNCHANGED <<row, hs, heard, step>>
  <2>1. TypeInv'
    BY RecoverTypes, ProcessTypes, VerifyTypes DEF Coordinator, TruthInv
  <2>2. UNCHANGED step
    BY DEF Coordinator, Recover, FindExpired, DeleteExpired, Claim, ListItems,
           StartBatch, DispatchEnds, Recheck, ReadEdges, EndRound, EndBatch,
           FinishJob, ProcessFails, Requeue, Judge
  <2> QED BY <2>1, <2>2 DEF Coordinator, TruthInv
<1>2. \A d \in Edges : seen'[d] \in {seen[d], row[d], NoRow}
  BY <1>1 DEF Coordinator, Recover, FindExpired, DeleteExpired, Claim, ListItems,
         StartBatch, DispatchEnds, Recheck, ReadEdges, EndRound, EndBatch,
         FinishJob, ProcessFails, Requeue, Judge, Forget
<1>3. \A d \in Edges : Spoken(d)'
  BY <1>1, <1>2, SeenIsSpoken
<1>4. \A d \in Edges, v \in Versions : heard'[d][v] >= heard[d][v]
  BY <1>1
<1>5. \A d \in Edges : step[d] = "none"
  <2>1. pc # "dispatch" \/ DispatchEnds
    BY DEF Coordinator, Recover, FindExpired, DeleteExpired, Claim, ListItems,
           StartBatch, Recheck, ReadEdges, EndRound, EndBatch,
           FinishJob, ProcessFails, Requeue, Judge, Processing
  <2> QED BY <1>1, <2>1 DEF JobAtHand, DispatchEnds, Free
<1>6. \A d \in Edges : step'[d] = "none"
  BY <1>1, <1>5
<1>7. CASE \E e \in Edges : Judge(e)
  <2>1. PICK e \in Edges : Judge(e)
    BY <1>7
  <2>2. cj \in Jobs /\ cj' = cj /\ item \in [Jobs -> [Edges -> Item]] /\ item[cj][e] \in Item
    BY <1>1, <2>1 DEF Judge, JobAtHand, Processing
  <2>3. \A j \in Jobs, d \in Edges :
          <<j, d>> # <<cj, e>> => item'[j][d] = item[j][d]
    BY <2>1, <2>2 DEF Judge, Mark
  <2>4. /\ item'[cj][e].status = Verdict(item[cj][e], seen[e])
        /\ item'[cj][e].base = item[cj][e].base
    BY <2>1, <2>2 DEF Judge, Mark, Item
  <2>5. Claims(cj, e)' => heard'[e][Target] > item'[cj][e].base
    <3> SUFFICES ASSUME item'[cj][e].status = "succeeded"
                 PROVE  heard'[e][Target] > item'[cj][e].base
      BY <1>6, <2>2 DEF Claims
    <3>1. seen[e].ver = Target /\ seen[e].reg > item[cj][e].base
      BY <2>4 DEF Verdict, IsNewRegistration
    <3>2. heard[e][Target] >= seen[e].reg
      BY <3>1 DEF TruthInv, Spoken
    <3>3. seen[e].reg \in Nat /\ item[cj][e].base \in Nat /\ heard[e][Target] \in Nat
      BY <1>1, <2>2 DEF Row, Item, Versions
    <3> QED BY <1>1, <2>4, <3>1, <3>2, <3>3
  <2>6. \A j \in Jobs, d \in Edges : <<j, d>> # <<cj, e>> =>
          (Claims(j, d)' => Claims(j, d) /\ item'[j][d].base = item[j][d].base)
    BY <1>6, <2>3 DEF Claims
  <2>7. \A j \in Jobs, d \in Edges :
          Claims(j, d)' => \/ Claims(j, d) /\ item'[j][d].base = item[j][d].base
                           \/ Right(j, d)'
    BY <2>2, <2>5, <2>6 DEF Right
  <2> QED BY <1>1, <1>3, <1>4, <2>7, ClaimsStayRight
<1>8. CASE ~\E e \in Edges : Judge(e)
  <2>1. \A j \in Jobs, d \in Edges :
          item'[j][d] = item[j][d] \/ item'[j][d].status \in {"none", "queued"}
    <3> DEFINE Again(it) == [it EXCEPT !.status = "queued", !.late = FALSE]
    <3>0. \A it \in Item : Again(it).status = "queued"
      BY DEF Item
    <3>1. CASE Recover
      <4>1. CASE UNCHANGED item
        BY <4>1
      <4>2. CASE item' = [j \in Jobs |-> [d \in Edges |->
                   IF item[j][d].status = "dispatching" THEN Again(item[j][d]) ELSE item[j][d]]]
        <5>1. \A j \in Jobs, d \in Edges : item[j][d] \in Item
          BY <1>1
        <5> HIDE DEF Again
        <5> QED BY <3>0, <4>2, <5>1
      <4> QED BY <3>1, <4>1, <4>2 DEF Recover, RecoverJobs
    <3>2. CASE DeleteExpired
      BY <3>2 DEF DeleteExpired, NoItem
    <3>3. CASE Requeue
      <4>1. CASE UNCHANGED item
        BY <4>1
      <4>2. CASE item' = [item EXCEPT ![cj] = [d \in Edges |->
                   IF @[d].status = "dispatching" THEN Again(@[d]) ELSE @[d]]]
        <5>1. cj \in Jobs /\ \A d \in Edges : item[cj][d] \in Item
          <6>1. cj \in Jobs
            BY <1>1, <3>3 DEF Requeue, JobAtHand
          <6> QED BY <1>1, <6>1
        <5>2. \A j \in Jobs : j # cj => item'[j] = item[j]
          BY <1>1, <4>2
        <5>3. \A d \in Edges : item'[cj][d] =
                IF item[cj][d].status = "dispatching" THEN Again(item[cj][d]) ELSE item[cj][d]
          BY <1>1, <4>2, <5>1
        <5> HIDE DEF Again
        <5> QED BY <3>0, <5>1, <5>2, <5>3
      <4> QED BY <3>3, <4>1, <4>2 DEF Requeue
    <3>4. CASE UNCHANGED item
      BY <3>4
    <3> QED BY <1>8, <3>1, <3>2, <3>3, <3>4
            DEF Coordinator, FindExpired, Claim, ListItems, StartBatch, DispatchEnds,
                Recheck, ReadEdges, EndRound, EndBatch, FinishJob, ProcessFails, Refresh
  <2> QED BY <1>1, <1>3, <1>4, <1>6, <2>1, QuietItems
<1> QED BY <1>7, <1>8

\* Nobody claims what the edge has not said, whatever happens.
LEMMA TruthStep ==
  ASSUME TruthInv, [Next]_vars
  PROVE  TruthInv'
<1> USE DEF TypeInv, TypeOK, records, edges, local, bounds
<1>1. TypeInv' /\ TypeInv
  BY TypeStep DEF TruthInv
<1>2. CASE Requests
  BY <1>2, RequestTruth
<1>3. ASSUME NEW e \in Edges, EdgeStep(e) \/ DispatchItem(e) PROVE TruthInv'
  BY <1>3, EdgeTruth, WorkerTruth
<1>4. ASSUME NEW j \in Jobs, NEW e \in Edges, DeadlinePasses(j, e) PROVE TruthInv'
  <2>1. \A i \in Jobs, d \in Edges : item'[i][d].status = item[i][d].status
                                       /\ item'[i][d].base = item[i][d].base
    BY <1>1, <1>4 DEF DeadlinePasses, Item
  <2>2. UNCHANGED <<row, hs, heard, seen, step, cj>>
    BY <1>4 DEF DeadlinePasses
  <2>3. \A d \in Edges : Spoken(d)' /\ step'[d] = step[d] /\ cj' = cj
    BY <2>2, SeenIsSpoken
  <2>4. \A d \in Edges, v \in Versions : heard'[d][v] >= heard[d][v]
    BY <1>1, <2>2
  <2> QED BY <1>1, <2>1, <2>3, <2>4, QuietItems
<1>5. CASE Coordinator
  BY <1>5, CoordinatorTruth
<1>6. CASE Stop
  <2>1. \A d \in Edges : seen'[d] = NoRow /\ step'[d] = "none" /\ hs'[d] = None
                          /\ row'[d] = row[d] /\ heard'[d] = heard[d]
    BY <1>6 DEF Stop
  <2>2. ASSUME NEW d \in Edges PROVE Spoken(d)'
    <3>1. heard[d][NoRow.ver] >= NoRow.reg
      BY <1>1 DEF NoRow, Versions
    <3> QED BY <2>1, <3>1 DEF TruthInv, Spoken
  <2>3. \A d \in Edges, v \in Versions : heard'[d][v] >= heard[d][v]
    BY <1>1, <2>1
  <2>4. UNCHANGED item
    BY <1>6 DEF Stop
  <2> QED BY <1>1, <2>1, <2>2, <2>3, <2>4, QuietItems
<1>7. CASE UNCHANGED vars
  BY <1>1, <1>7 DEF vars, TruthInv, Spoken, Claims, Right
<1> QED BY <1>2, <1>3, <1>4, <1>5, <1>6, <1>7 DEF Next

\* Before the first job nothing is claimed.
LEMMA TruthInit ==
  ASSUME Init
  PROVE  TruthInv
<1>1. \A e \in Edges : row[e] = NoRow /\ seen[e] = NoRow /\ hs[e] = None /\ step[e] = "none"
                        /\ heard[e] = [v \in Versions |-> 0]
  BY DEF Init
<1>2. \A j \in Jobs, e \in Edges : item[j][e].status = "none"
  BY DEF Init, NoItem
<1>3. \A e \in Edges : Spoken(e)
  BY <1>1 DEF Spoken, NoRow, Versions
<1>4. \A j \in Jobs, e \in Edges : ~Claims(j, e)
  BY <1>2 DEF Claims
<1> QED BY <1>3, <1>4, InitTypes DEF TruthInv

\* An item that says succeeded is about an edge that has reported the target after the
\* item's baseline, for any number of edges, jobs and users, through retries, stops,
\* failed calls, rollbacks and registrations at any time.
THEOREM SuccessIsTrue == Spec => []SuccessIsReported
<1>1. Init => TruthInv
  BY TruthInit
<1>2. TruthInv /\ [Next]_vars => TruthInv'
  BY TruthStep
<1>3. TruthInv => SuccessIsReported
  BY DEF TruthInv, Claims, Right, SuccessIsReported
<1> QED BY <1>1, <1>2, <1>3, PTL DEF Spec
=============================================================================
