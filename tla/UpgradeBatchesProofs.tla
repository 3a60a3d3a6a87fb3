------------------------- MODULE UpgradeBatchesProofs -------------------------
(***************************************************************************)
(* Theorems about the batches of a rollout, for every set of edges, jobs   *)
(* and users and every batch size: the barrier between batches, the number *)
(* of edges upgraded at a time, and what a failed verification says about  *)
(* the edge, through retries, stops and failed database calls.             *)
(***************************************************************************)
EXTENDS UpgradeJobsProofs

------------------------------------------------------------------------------
(* The numbering of batches: assignUpgradeBatches.                         *)

\* The items of S in the order of their edges, from 1.
Rank(S, e) == Cardinality({d \in S : d <= e})

\* Ranks are positive, and no two items share one.
LEMMA RankIsOne ==
  ASSUME NEW S \in SUBSET Edges, NEW e \in S
  PROVE  /\ Rank(S, e) \in Nat \ {0}
         /\ \A f \in S : f # e => Rank(S, f) # Rank(S, e)
<1> DEFINE UpTo(x) == {d \in S : d <= x}
<1>1. \A x \in S : x \in Nat /\ x \in UpTo(x)
  <2>1. S \subseteq Nat
    BY EdgesAssumption
  <2> QED BY <2>1
<1>2. \A x : UpTo(x) \in SUBSET Edges
  OBVIOUS
<1>3. \A x \in S : IsFiniteSet(UpTo(x)) /\ Cardinality(UpTo(x)) \in Nat \ {0}
  BY <1>1, <1>2, EdgeSets, FS_EmptySet
<1>4. ASSUME NEW x \in S, NEW y \in S, x < y
      PROVE  Cardinality(UpTo(x)) # Cardinality(UpTo(y))
  <2>1. UpTo(x) \in SUBSET UpTo(y)
    <3>1. \A d \in S : d <= x => d <= y
      BY <1>1, <1>4
    <3> QED BY <3>1
  <2>2. y \notin UpTo(x)
    BY <1>1, <1>4
  <2>3. UpTo(x) # UpTo(y)
    BY <1>1, <2>2
  <2> QED BY <1>3, <2>1, <2>3, FS_Subset
<1>5. ASSUME NEW f \in S, f # e
      PROVE  Cardinality(UpTo(f)) # Cardinality(UpTo(e))
  <2>1. f < e \/ e < f
    BY <1>1, <1>5
  <2> QED BY <1>4, <2>1
<1> QED BY <1>3, <1>5 DEF Rank

\* Batch n holds the ranks from (n - 1) * BatchSize + 1 to n * BatchSize.
LEMMA RanksOfBatch ==
  ASSUME NEW r \in Nat \ {0}, NEW n \in Nat, n = (r - 1) \div BatchSize + 1
  PROVE  r \in ((n - 1) * BatchSize + 1) .. ((n - 1) * BatchSize + BatchSize)
<1> DEFINE q == (r - 1) \div BatchSize
<1>1. BatchSize \in Nat /\ BatchSize > 0 /\ r - 1 \in Nat
  BY BatchAssumption
<1>2. q \in Int /\ q * BatchSize <= r - 1 /\ r - 1 < q * BatchSize + BatchSize
  BY <1>1
<1>3. q = n - 1
  BY <1>2
<1> QED BY <1>1, <1>2, <1>3

\* No batch is larger than BatchSize.
LEMMA BatchIsSmall ==
  ASSUME NEW S \in SUBSET Edges, NEW n \in Nat
  PROVE  Cardinality({e \in S : BatchNumber(S, e) = n}) <= BatchSize
<1> DEFINE T == {e \in S : BatchNumber(S, e) = n}
           first == (n - 1) * BatchSize + 1
           last == (n - 1) * BatchSize + BatchSize
           rank == [e \in T |-> Rank(S, e)]
<1>1. /\ BatchSize \in Nat \ {0} /\ first \in Int /\ last \in Int
      /\ last - first + 1 = BatchSize /\ ~(first > last)
  BY BatchAssumption
<1>2. \A e \in T : Rank(S, e) \in first .. last
  <2> SUFFICES ASSUME NEW e \in T PROVE Rank(S, e) \in first .. last
    OBVIOUS
  <2>1. Rank(S, e) \in Nat \ {0}
    BY RankIsOne
  <2>2. n = (Rank(S, e) - 1) \div BatchSize + 1
    BY DEF Rank, BatchNumber
  <2> QED BY <2>1, <2>2, RanksOfBatch
<1>3. IsFiniteSet(T) /\ Cardinality(T) \in Nat
  BY EdgeSets
<1>4. IsFiniteSet(first .. last) /\ Cardinality(first .. last) = BatchSize
  <2>1. first \in Int /\ last \in Int
    BY <1>1
  <2> HIDE DEF first, last
  <2>2. /\ IsFiniteSet(first .. last)
        /\ Cardinality(first .. last) = IF first > last THEN 0 ELSE last - first + 1
    BY <2>1, FS_Interval
  <2> QED BY <1>1, <2>2
<1>5. rank \in [T -> first .. last]
  BY <1>2
<1>6. \A x, y \in T : x # y => rank[x] # rank[y]
  BY RankIsOne
<1>7. ASSUME Cardinality(T) > BatchSize PROVE FALSE
  <2>1. Cardinality(first .. last) < Cardinality(T)
    BY <1>4, <1>7
  <2>2. \E x, y \in T : x # y /\ rank[x] = rank[y]
    <3> HIDE DEF T, first, last, rank
    <3> QED BY <1>3, <1>4, <1>5, <2>1, FS_PigeonHole
  <2> QED BY <1>6, <2>2
<1>8. Cardinality(T) <= BatchSize
  <2> HIDE DEF T
  <2> QED BY <1>1, <1>3, <1>7
<1> QED BY <1>8

------------------------------------------------------------------------------
(* The barrier between batches.                                            *)

\* What an edge has been told to do, and its result is awaited.
Underway == {"dispatching", "waiting"}

\* An item whose turn it is: it has been listed for dispatch, or a worker has it.
AtHand(e) == (pc \in {"start", "dispatch"} /\ e \in work) \/ step[e] # "none"

\* No item of the claimed job that is pending belongs to an earlier batch.
Foremost(e) ==
  \A d \in Edges : item[cj][d].status \in Pending => item[cj][e].batch <= item[cj][d].batch

\* Whose turn it is comes first, and is not taken from the coordinator by a retry:
\* a job with something pending is not over.
TurnsInOrder ==
  \A e \in Edges :
    /\ AtHand(e) =>
         item[cj][e].status \in Pending /\ item[cj][e].batch = batch /\ Foremost(e)
    /\ AtHand(e) /\ pc = "dispatch" => job[cj].status = "running"
    /\ step[e] # "none" => e \notin work

\* Only a batch that is being dispatched has items that are: what an error or a
\* stop has left is put back before the job can be claimed again.
NobodyElseDispatches ==
  /\ \A j \in Jobs : job[j].status = "queued" => Items(j, {"dispatching"}) = {}
  /\ pc \in {"list", "start", "verify", "judge", "refresh", "finish"} =>
       Items(cj, {"dispatching"}) = {}
  /\ pc \in {"dispatch", "recheck"} =>
       \A e \in Items(cj, {"dispatching"}) : item[cj][e].batch = batch

\* However often its items are numbered anew, no batch of a job has more items
\* pending than BatchSize.
SmallBatches ==
  \A j \in Jobs, n \in Nat :
    Cardinality({e \in Items(j, Pending) : item[j][e].batch = n}) <= BatchSize

\* The four parts need each other and the invariant of jobs and items.
BatchesInv ==
  JobsInv /\ BatchBarrier /\ SmallBatches /\ TurnsInOrder /\ NobodyElseDispatches

\* What a step may do to the items of one job: number all that are pending anew, or
\* leave their batches alone and bring under way only those whose turn it is.
Numbered(j) ==
  \E S \in SUBSET Edges : \A e \in Edges :
    item'[j][e].status \in Pending =>
      item'[j][e].status = "queued" /\ e \in S /\ item'[j][e].batch = BatchNumber(S, e)
Orderly(j) ==
  \A e \in Edges :
    /\ item'[j][e].status \in Pending =>
         item[j][e].status \in Pending /\ item'[j][e].batch = item[j][e].batch
    /\ item'[j][e].status \in Underway =>
         item[j][e].status \in Underway \/ (j = cj /\ AtHand(e))

\* Both keep the barrier and the size of batches.
LEMMA BatchSteps ==
  ASSUME BatchesInv, \A j \in Jobs : Numbered(j) \/ Orderly(j)
  PROVE  BatchBarrier' /\ SmallBatches'
<1>1. ASSUME NEW j \in Jobs, Numbered(j)
      PROVE  /\ \A e \in Edges : item'[j][e].status \notin Underway
             /\ \A n \in Nat : Cardinality({e \in Items(j, Pending)' : item'[j][e].batch = n})
                                 <= BatchSize
  <2>1. PICK S \in SUBSET Edges : \A e \in Edges :
          item'[j][e].status \in Pending =>
            item'[j][e].status = "queued" /\ e \in S /\ item'[j][e].batch = BatchNumber(S, e)
    BY <1>1 DEF Numbered
  <2>2. ASSUME NEW n \in Nat
        PROVE  Cardinality({e \in Items(j, Pending)' : item'[j][e].batch = n}) <= BatchSize
    <3> DEFINE T == {e \in Items(j, Pending)' : item'[j][e].batch = n}
               all == {e \in S : BatchNumber(S, e) = n}
    <3>1. T \in SUBSET all /\ all \in SUBSET Edges
      BY <2>1 DEF Items, WithStatus
    <3>2. Cardinality(all) <= BatchSize
      BY BatchIsSmall
    <3> HIDE DEF T, all
    <3>3. /\ IsFiniteSet(all) /\ Cardinality(all) \in Nat
          /\ Cardinality(T) <= Cardinality(all) /\ Cardinality(T) \in Nat
      <4>1. T \in SUBSET Edges
        BY <3>1
      <4> QED BY <3>1, <4>1, EdgeSets, FS_Subset
    <3>4. Cardinality(T) <= BatchSize
      BY <3>2, <3>3, BatchAssumption
    <3> QED BY <3>4 DEF T
  <2>3. \A e \in Edges : item'[j][e].status \notin Underway
    BY <2>1 DEF Underway, Pending
  <2> QED BY <2>2, <2>3
<1>2. ASSUME NEW j \in Jobs, Orderly(j), NEW n \in Nat
      PROVE  Cardinality({e \in Items(j, Pending)' : item'[j][e].batch = n}) <= BatchSize
  <2> DEFINE T == {e \in Items(j, Pending)' : item'[j][e].batch = n}
             before == {e \in Items(j, Pending) : item[j][e].batch = n}
  <2>1. T \in SUBSET before /\ before \in SUBSET Edges
    BY <1>2 DEF Orderly, Items, WithStatus
  <2>2. Cardinality(before) <= BatchSize
    BY DEF BatchesInv, SmallBatches
  <2> HIDE DEF T, before
  <2>3. /\ IsFiniteSet(before) /\ Cardinality(before) \in Nat
        /\ Cardinality(T) <= Cardinality(before) /\ Cardinality(T) \in Nat
    <3>1. T \in SUBSET Edges
      BY <2>1
    <3> QED BY <2>1, <3>1, EdgeSets, FS_Subset
  <2>4. Cardinality(T) <= BatchSize
    BY <2>2, <2>3, BatchAssumption
  <2> QED BY <2>4 DEF T
<1>3. ASSUME NEW j \in Jobs, Orderly(j), NEW d \in Edges, NEW e \in Edges,
             item'[j][e].status \in Underway, item'[j][d].status \in Pending
      PROVE  item'[j][e].batch <= item'[j][d].batch
  <2>1. /\ item[j][e].status \in Pending /\ item'[j][e].batch = item[j][e].batch
        /\ item[j][d].status \in Pending /\ item'[j][d].batch = item[j][d].batch
        /\ item[j][e].status \in Underway \/ (j = cj /\ AtHand(e))
    BY <1>3 DEF Orderly, Underway, Pending
  <2>2. CASE item[j][e].status \in Underway
    BY <2>1, <2>2 DEF BatchesInv, BatchBarrier, Underway
  <2>3. CASE j = cj /\ AtHand(e)
    BY <2>1, <2>3 DEF BatchesInv, TurnsInOrder, Foremost
  <2> QED BY <2>1, <2>2, <2>3
<1>4. BatchBarrier'
  BY <1>1, <1>3 DEF BatchBarrier, Underway
<1>5. SmallBatches'
  BY <1>1, <1>2 DEF SmallBatches
<1> QED BY <1>4, <1>5

\* What everybody but the coordinator and its workers may do to a job: leave the
\* items as they are, or number them anew when none of them was pending.
Untouched(j) ==
  /\ \A e \in Edges :
       item'[j][e].status = item[j][e].status /\ item'[j][e].batch = item[j][e].batch
  /\ job'[j].status = "queued" => job[j].status = "queued"
  /\ job[j].status = "running" /\ Items(j, Pending) # {} => job'[j].status = "running"
Bystander(j) == Untouched(j) \/ (Items(j, Pending) = {} /\ Numbered(j))

\* It keeps the invariant: whose turn it is has an item that is pending.
LEMMA BystanderSteps ==
  ASSUME BatchesInv, JobsInv', \A j \in Jobs : Bystander(j),
         UNCHANGED <<pc, cj, batch, work, step>>
  PROVE  BatchesInv'
<1>1. \A j \in Jobs : Numbered(j) \/ Orderly(j)
  BY DEF Bystander, Untouched, Orderly
<1>2. BatchBarrier' /\ SmallBatches'
  BY <1>1, BatchSteps
<1>3. \A j \in Jobs : Numbered(j) => Items(j, {"dispatching"})' = {}
  BY DEF Numbered, Items, WithStatus, Pending
<1>4. \A j \in Jobs : Untouched(j) => Items(j, {"dispatching"})' = Items(j, {"dispatching"})
  BY DEF Untouched, Items, WithStatus
<1>5. NobodyElseDispatches'
  <2>1. \A j \in Jobs : job'[j].status = "queued" => Items(j, {"dispatching"})' = {}
    BY <1>3, <1>4 DEF Bystander, Untouched, BatchesInv, NobodyElseDispatches
  <2>2. pc \in Processing => cj \in Jobs /\ Bystander(cj)
    BY DEF BatchesInv, JobsInv, TypeInv, JobAtHand
  <2>3. pc \in {"list", "start", "verify", "judge", "refresh", "finish"} =>
          Items(cj, {"dispatching"})' = {}
    BY <1>3, <1>4, <2>2 DEF Bystander, Processing, BatchesInv, NobodyElseDispatches
  <2>4. pc \in {"dispatch", "recheck"} =>
          \A e \in Items(cj, {"dispatching"})' : item'[cj][e].batch = batch
    <3> SUFFICES ASSUME pc \in {"dispatch", "recheck"}, NEW e \in Items(cj, {"dispatching"})'
                 PROVE  item'[cj][e].batch = batch
      OBVIOUS
    <3>1. cj \in Jobs /\ Untouched(cj) /\ e \in Edges
      BY <1>3, <2>2 DEF Bystander, Processing, Items, WithStatus
    <3> QED BY <1>4, <3>1 DEF Untouched, BatchesInv, NobodyElseDispatches
  <2> QED BY <2>1, <2>3, <2>4 DEF NobodyElseDispatches, Items, WithStatus
<1>6. TurnsInOrder'
  <2> SUFFICES ASSUME NEW e \in Edges
               PROVE  /\ AtHand(e)' =>
                           item'[cj][e].status \in Pending /\ item'[cj][e].batch = batch
                             /\ Foremost(e)'
                      /\ AtHand(e)' /\ pc = "dispatch" => job'[cj].status = "running"
                      /\ step[e] # "none" => e \notin work
    BY DEF TurnsInOrder
  <2>1. AtHand(e)' = AtHand(e)
    BY DEF AtHand
  <2>2. step[e] # "none" => e \notin work
    BY DEF BatchesInv, TurnsInOrder
  <2>3. CASE ~AtHand(e)
    BY <2>1, <2>2, <2>3
  <2>4. CASE AtHand(e)
    <3>1. cj \in Jobs
      BY <2>4 DEF AtHand, BatchesInv, JobsInv, TypeInv, JobAtHand, Processing
    <3>2. /\ item[cj][e].status \in Pending /\ item[cj][e].batch = batch /\ Foremost(e)
          /\ pc = "dispatch" => job[cj].status = "running"
      BY <2>4 DEF BatchesInv, TurnsInOrder
    <3>3. Untouched(cj) /\ Items(cj, Pending) # {}
      BY <3>1, <3>2 DEF Bystander, Items, WithStatus
    <3>4. Foremost(e)'
      BY <3>2, <3>3 DEF Untouched, Foremost
    <3> QED BY <2>2, <3>2, <3>3, <3>4 DEF Untouched
  <2> QED BY <2>3, <2>4
<1> QED BY <1>2, <1>5, <1>6 DEF BatchesInv

\* RefreshUpgradeJob counts: it neither queues a job nor ends one that has something
\* pending.
LEMMA RefreshUntouched ==
  ASSUME TypeOK, NEW i \in Jobs, Refresh(i)
  PROVE  \A j \in Jobs : Untouched(j)
<1> DEFINE sum == Summarize(item[i])
<1>1. job[i] \in Job /\ job' = [job EXCEPT ![i] = Refreshed(i)] /\ item' = item
  BY DEF TypeOK, Refresh
<1>2. TerminalStatus(sum) \in Finished
  BY TerminalType
<1>3. Refreshed(i).status = IF sum.pending = 0 THEN TerminalStatus(sum)
                            ELSE IF job[i].status = "queued" THEN "queued" ELSE "running"
  BY <1>1 DEF Refreshed, Job
<1>4. sum.pending = 0 => Items(i, Pending) = {}
  BY NoPending DEF Items
<1>5. job'[i] = Refreshed(i) /\ \A j \in Jobs : j # i => job'[j] = job[j]
  BY <1>1 DEF TypeOK
<1>6. Untouched(i)
  <2> HIDE DEF sum
  <2> QED BY <1>1, <1>2, <1>3, <1>4, <1>5 DEF Untouched, Finished
<1> QED BY <1>1, <1>5, <1>6 DEF Untouched

\* The requests of users: a new job, or a retry, numbers what is queued.
LEMMA RequestBatches ==
  ASSUME BatchesInv, JobsInv', Requests
  PROVE  BatchesInv'
<1> USE DEF BatchesInv, JobsInv, TypeInv, TypeOK, records, edges, local, bounds
<1>1. UNCHANGED <<pc, cj, batch, work, step>>
  BY DEF Requests, Create, RetryRead, RetryConflict, RetryReset, RetryRefresh
<1>2. ASSUME NEW i \in Jobs, Create(i), NEW j \in Jobs PROVE Bystander(j)
  <2>1. PICK es \in SUBSET Edges \ {{}}, force \in Forces :
          /\ item' = [item EXCEPT ![i] = NewItems(es, force)]
          /\ job' = [job EXCEPT ![i] = NewJob(NewItems(es, force), force)]
    BY <1>2 DEF Create
  <2>2. CASE j # i
    BY <2>1, <2>2 DEF Bystander, Untouched
  <2>3. CASE j = i
    <3> DEFINE queued == {e \in es : ~Skips(e, force)}
    <3>1. Items(j, Pending) = {}
      BY <1>2, <2>3 DEF Create, NoneHasNoItems, Items, WithStatus, Pending
    <3>2. item'[j] = NewItems(es, force)
      BY <2>1, <2>3
    <3>3. \A e \in Edges : NewItems(es, force)[e].status \in Pending =>
            /\ NewItems(es, force)[e].status = "queued" /\ e \in queued
            /\ NewItems(es, force)[e].batch = BatchNumber(queued, e)
      BY DEF NewItems, NoItem, Pending
    <3>4. Numbered(j)
      <4>1. queued \in SUBSET Edges
        OBVIOUS
      <4> HIDE DEF queued
      <4> QED BY <3>2, <3>3, <4>1 DEF Numbered
    <3> QED BY <3>1, <3>4 DEF Bystander
  <2> QED BY <2>2, <2>3
<1>3. ASSUME NEW u \in Users, (\E i \in Jobs : RetryRead(u, i)) \/ RetryConflict(u),
             NEW j \in Jobs
      PROVE  Bystander(j)
  BY <1>3 DEF RetryRead, RetryConflict, Bystander, Untouched
<1>4. ASSUME NEW u \in Users, RetryReset(u), NEW j \in Jobs PROVE Bystander(j)
  <2> DEFINE i == retry[u].job
             reset == RetryItems(u)
  <2>1. i \in Jobs /\ job[i].status \in Finished /\ reset \in SUBSET Edges
    BY <1>4 DEF RetryReset, JobAtHand, RetryItems, Items, WithStatus
  <2>2. CASE j # i
    BY <1>4, <2>2 DEF RetryReset, Bystander, Untouched
  <2>3. CASE j = i
    <3>1. Items(j, Pending) = {}
      BY <2>1, <2>3 DEF TerminalMeansDone
    <3>2. \A e \in Edges : item'[j][e] =
            IF e \notin reset THEN item[j][e]
            ELSE [item[j][e] EXCEPT !.status = "queued", !.batch = BatchNumber(reset, e),
                    !.base = retry[u].snap[e], !.late = FALSE]
      BY <1>4, <2>1, <2>3 DEF RetryReset
    <3>3. \A e \in Edges : item[j][e] \in Item
      OBVIOUS
    <3> HIDE DEF i, reset
    <3>4. \A e \in Edges : item[j][e].status \notin Pending
      BY <3>1 DEF Items, WithStatus
    <3>5. ASSUME NEW e \in Edges, item'[j][e].status \in Pending
          PROVE  item'[j][e].status = "queued" /\ e \in reset
                   /\ item'[j][e].batch = BatchNumber(reset, e)
      <4>1. e \in reset
        BY <3>2, <3>4, <3>5
      <4>2. item'[j][e] = [item[j][e] EXCEPT !.status = "queued",
              !.batch = BatchNumber(reset, e), !.base = retry[u].snap[e], !.late = FALSE]
        BY <3>2, <4>1
      <4>3. item[j][e] \in Item
        BY <3>3
      <4> QED BY <4>1, <4>2, <4>3 DEF Item
    <3> QED BY <2>1, <3>1, <3>5 DEF Bystander, Numbered
  <2> QED BY <2>2, <2>3
<1>5. ASSUME NEW u \in Users, RetryRefresh(u), NEW j \in Jobs PROVE Bystander(j)
  <2>1. retry[u].job \in Jobs /\ (Refresh(retry[u].job) \/ UNCHANGED records)
    BY <1>5 DEF RetryRefresh, JobAtHand
  <2> QED BY <2>1, RefreshUntouched DEF Bystander, Untouched
<1> QED BY <1>1, <1>2, <1>3, <1>4, <1>5, BystanderSteps DEF Requests

\* Edges and deadlines leave the items where they are.
LEMMA EdgeBatches ==
  ASSUME BatchesInv, JobsInv', NEW e \in Edges,
         EdgeStep(e) \/ \E j \in Jobs : DeadlinePasses(j, e)
  PROVE  BatchesInv'
<1> USE DEF BatchesInv, JobsInv, TypeInv, TypeOK, records, local
<1>1. CASE EdgeStep(e)
  <2>1. UNCHANGED <<records, pc, cj, batch, work, step>>
    BY <1>1 DEF EdgeStep
  <2>2. \A j \in Jobs : Bystander(j)
    BY <2>1 DEF Bystander, Untouched
  <2> QED BY <2>1, <2>2, BystanderSteps
<1>2. ASSUME NEW i \in Jobs, DeadlinePasses(i, e) PROVE BatchesInv'
  <2>1. UNCHANGED <<job, pc, cj, batch, work, step>> /\ item' = [item EXCEPT ![i][e].late = TRUE]
    BY <1>2 DEF DeadlinePasses
  <2>2. \A j \in Jobs, d \in Edges : item[j][d] \in Item
    OBVIOUS
  <2>3. \A j \in Jobs : Bystander(j)
    BY <2>1, <2>2 DEF Item, Bystander, Untouched
  <2> QED BY <2>1, <2>3, BystanderSteps
<1> QED BY <1>1, <1>2

\* A worker of dispatchQueued changes the item it has, and nothing else is at hand
\* after its step that was not before.
LEMMA WorkerEffect ==
  ASSUME BatchesInv, NEW e \in Edges, DispatchItem(e)
  PROVE  /\ pc = "dispatch" /\ cj \in Jobs /\ AtHand(e)
         /\ UNCHANGED <<pc, cj, batch, job>>
         /\ \A d \in Edges : AtHand(d)' => AtHand(d)
         /\ \A d \in Edges : step'[d] # "none" => d \notin work'
         /\ \A j \in Jobs, d \in Edges : j # cj \/ d # e => item'[j][d] = item[j][d]
         /\ item'[cj][e].batch = item[cj][e].batch
         /\ AtHand(e)' => item'[cj][e].status \in Pending
<1> USE DEF BatchesInv, JobsInv, TypeInv, TypeOK
<1>1. pc = "dispatch" /\ cj \in Jobs
  BY DEF DispatchItem, TakeItem, MarkDispatching, GiveUp, MarkWaiting, MarkSettled,
         FailDispatch, FetchPackage, RefreshBaseline, ApplyPackage, JobAtHand, Processing
<1>2. AtHand(e)
  BY <1>1 DEF DispatchItem, TakeItem, MarkDispatching, GiveUp, MarkWaiting, MarkSettled,
         FailDispatch, FetchPackage, RefreshBaseline, ApplyPackage, AtHand
<1>3. UNCHANGED <<pc, cj, batch, job>>
  BY DEF DispatchItem, TakeItem, MarkDispatching, GiveUp, MarkWaiting, MarkSettled,
         FailDispatch, FetchPackage, RefreshBaseline, ApplyPackage, Mark, records
<1>4. /\ work' = work \/ (work' = work \ {e} /\ step[e] = "none" /\ UNCHANGED item)
      /\ \A d \in Edges : d # e => step'[d] = step[d]
      /\ work' = work => step[e] # "none"
  BY DEF DispatchItem, TakeItem, MarkDispatching, GiveUp, MarkWaiting, MarkSettled,
         FailDispatch, FetchPackage, RefreshBaseline, ApplyPackage, To, TurnsInOrder, records
<1>5. /\ \A d \in Edges : AtHand(d)' => AtHand(d)
      /\ \A d \in Edges : step'[d] # "none" => d \notin work'
  BY <1>2, <1>3, <1>4 DEF AtHand, TurnsInOrder
<1>6. item[cj] \in [Edges -> Item] /\ item[cj][e] \in Item /\ item[cj][e].status \in Pending
  BY <1>1, <1>2 DEF TurnsInOrder
<1>7. \/ UNCHANGED item
      \/ \E it : Mark(e, it) /\ it.batch = item[cj][e].batch
                   /\ (it.status \in Pending \/ step'[e] = "none")
  <2>1. CASE TakeItem(e) \/ GiveUp(e) \/ FetchPackage(e) \/ ApplyPackage(e)
    BY <2>1 DEF TakeItem, GiveUp, FetchPackage, ApplyPackage, records
  <2>2. CASE MarkDispatching(e)
    <3> DEFINE it == [item[cj][e] EXCEPT !.status = "dispatching", !.tried = TRUE,
                        !.late = FALSE,
                        !.base = IF Settles(e) THEN @ ELSE seen[e].reg]
    <3>1. Mark(e, it)
      BY <2>2 DEF MarkDispatching
    <3>2. it.batch = item[cj][e].batch /\ it.status \in Pending
      BY <1>6 DEF Item, Pending
    <3> HIDE DEF it
    <3> QED BY <3>1, <3>2
  <2>3. CASE MarkWaiting(e)
    <3> DEFINE it == [item[cj][e] EXCEPT !.status = "waiting", !.late = FALSE]
    <3>1. Mark(e, it)
      BY <2>3 DEF MarkWaiting
    <3>2. it.batch = item[cj][e].batch /\ it.status \in Pending
      BY <1>6 DEF Item, Pending
    <3> HIDE DEF it
    <3> QED BY <3>1, <3>2
  <2>4. CASE MarkSettled(e)
    BY <1>6, <2>4 DEF MarkSettled, Item, To
  <2>5. CASE FailDispatch(e)
    BY <1>6, <2>5 DEF FailDispatch, Item, To
  <2>6. CASE RefreshBaseline(e)
    <3> DEFINE it == [item[cj][e] EXCEPT !.base = row[e].reg]
    <3>1. Mark(e, it)
      BY <2>6 DEF RefreshBaseline
    <3>2. it.batch = item[cj][e].batch /\ it.status \in Pending
      BY <1>6 DEF Item, Pending
    <3> HIDE DEF it
    <3> QED BY <3>1, <3>2
  <2> QED BY <2>1, <2>2, <2>3, <2>4, <2>5, <2>6 DEF DispatchItem
<1>8. \A j \in Jobs, d \in Edges : j # cj \/ d # e => item'[j][d] = item[j][d]
  BY <1>1, <1>7 DEF Mark
<1>9. item'[cj][e].batch = item[cj][e].batch
  BY <1>1, <1>6, <1>7 DEF Mark
<1>10. AtHand(e)' => item'[cj][e].status \in Pending
  <2>1. CASE UNCHANGED item
    BY <1>6, <2>1
  <2>2. CASE ~UNCHANGED item
    <3>1. PICK it : Mark(e, it) /\ (it.status \in Pending \/ step'[e] = "none")
      BY <1>7, <2>2
    <3>2. item'[cj][e] = it
      BY <1>1, <1>6, <3>1 DEF Mark
    <3>3. step[e] # "none" /\ e \notin work'
      BY <1>4, <2>2 DEF TurnsInOrder
    <3> QED BY <3>1, <3>2, <3>3 DEF AtHand
  <2> QED BY <2>1, <2>2
<1> QED BY <1>1, <1>2, <1>3, <1>5, <1>8, <1>9, <1>10

\* It comes first: nothing that is pending belongs to an earlier batch.
LEMMA WorkerBatches ==
  ASSUME BatchesInv, JobsInv', NEW e \in Edges, DispatchItem(e)
  PROVE  BatchesInv'
<1>1. /\ pc = "dispatch" /\ cj \in Jobs /\ AtHand(e)
      /\ UNCHANGED <<pc, cj, batch, job>>
      /\ \A d \in Edges : AtHand(d)' => AtHand(d)
      /\ \A d \in Edges : step'[d] # "none" => d \notin work'
      /\ \A j \in Jobs, d \in Edges : j # cj \/ d # e => item'[j][d] = item[j][d]
      /\ item'[cj][e].batch = item[cj][e].batch
      /\ AtHand(e)' => item'[cj][e].status \in Pending
  BY WorkerEffect
<1>2. /\ item[cj][e].status \in Pending /\ item[cj][e].batch = batch
      /\ job[cj].status = "running"
  BY <1>1 DEF BatchesInv, TurnsInOrder
<1>3. \A j \in Jobs : Orderly(j)
  BY <1>1, <1>2 DEF Orderly
<1>4. BatchBarrier' /\ SmallBatches'
  BY <1>3, BatchSteps
<1>5. TurnsInOrder'
  <2>1. ASSUME NEW d \in Edges, AtHand(d)'
        PROVE  item'[cj][d].status \in Pending /\ item'[cj][d].batch = batch /\ Foremost(d)'
    <3>1. item[cj][d].status \in Pending /\ item[cj][d].batch = batch /\ Foremost(d)
      BY <1>1, <2>1 DEF BatchesInv, TurnsInOrder
    <3>2. item'[cj][d].status \in Pending /\ item'[cj][d].batch = batch
      BY <1>1, <2>1, <3>1
    <3>3. \A x \in Edges : item'[cj][x].status \in Pending =>
            item[cj][x].status \in Pending /\ item'[cj][x].batch = item[cj][x].batch
      BY <1>1, <1>3 DEF Orderly
    <3> QED BY <1>1, <3>1, <3>2, <3>3 DEF Foremost
  <2> QED BY <1>1, <1>2, <2>1 DEF TurnsInOrder
<1>6. NobodyElseDispatches'
  <2>1. ASSUME NEW j \in Jobs, job[j].status = "queued"
        PROVE  Items(j, {"dispatching"})' = {}
    <3>1. j # cj /\ Items(j, {"dispatching"}) = {}
      BY <1>2, <2>1 DEF BatchesInv, NobodyElseDispatches
    <3> QED BY <1>1, <3>1 DEF Items, WithStatus
  <2>2. ASSUME NEW d \in Items(cj, {"dispatching"})' PROVE item'[cj][d].batch = batch
    <3>1. d \in Edges /\ item'[cj][d].status = "dispatching"
      BY <1>1 DEF Items, WithStatus
    <3>2. CASE d = e
      BY <1>1, <1>2, <3>2
    <3>3. CASE d # e
      BY <1>1, <3>1, <3>3 DEF BatchesInv, NobodyElseDispatches, Items, WithStatus
    <3> QED BY <3>2, <3>3
  <2> QED BY <1>1, <2>1, <2>2 DEF NobodyElseDispatches, Items, WithStatus
<1> QED BY <1>4, <1>5, <1>6 DEF BatchesInv

\* A step of the coordinator after which no item is at hand has only to leave the
\* items in order, and none dispatching that nobody has.
LEMMA NothingAtHand ==
  ASSUME BatchesInv, JobsInv', \A j \in Jobs : Orderly(j), NobodyElseDispatches',
         \A e \in Edges : ~AtHand(e)' /\ step'[e] = "none"
  PROVE  BatchesInv'
<1>1. BatchBarrier' /\ SmallBatches'
  BY BatchSteps
<1>2. TurnsInOrder'
  BY DEF TurnsInOrder
<1> QED BY <1>1, <1>2 DEF BatchesInv

\* Run's part: what was interrupted is put back before anything is claimed.
LEMMA RunBatches ==
  ASSUME BatchesInv, JobsInv', Recover \/ FindExpired \/ DeleteExpired \/ Claim
  PROVE  BatchesInv'
<1> USE DEF BatchesInv, JobsInv, TypeInv, TypeOK, records, local
<1>1. /\ pc' \in {"idle", "dead", "cleanup", "list"} /\ UNCHANGED step
      /\ \A e \in Edges : step[e] = "none"
  BY DEF Recover, FindExpired, DeleteExpired, Claim, JobAtHand
<1>2. \A e \in Edges : ~AtHand(e)' /\ step'[e] = "none"
  BY <1>1 DEF AtHand
<1>3. CASE RecoverJobs /\ Recover
  <2> DEFINE Again(it) == [it EXCEPT !.status = "queued", !.late = FALSE]
  <2>1. \A j \in Jobs, e \in Edges : item'[j][e] =
          IF item[j][e].status = "dispatching" THEN Again(item[j][e]) ELSE item[j][e]
    BY <1>3 DEF RecoverJobs
  <2>2. \A it \in Item : Again(it).status = "queued" /\ Again(it).batch = it.batch
    BY DEF Item
  <2>3. \A j \in Jobs, e \in Edges : item[j][e] \in Item
    OBVIOUS
  <2> HIDE DEF Again
  <2>4. \A j \in Jobs, e \in Edges :
          /\ item[j][e].status = "dispatching" =>
               item'[j][e].status = "queued" /\ item'[j][e].batch = item[j][e].batch
          /\ item[j][e].status # "dispatching" => item'[j][e] = item[j][e]
    BY <2>1, <2>2, <2>3
  <2>5. \A j \in Jobs : Orderly(j)
    BY <2>4 DEF Orderly, Pending, Underway
  <2>6. NobodyElseDispatches'
    <3>1. \A j \in Jobs : Items(j, {"dispatching"})' = {}
      BY <2>4 DEF Items, WithStatus
    <3>2. pc' = "idle" \/ pc' = "dead"
      BY <1>3 DEF Recover
    <3> QED BY <3>1, <3>2 DEF NobodyElseDispatches
  <2> QED BY <1>2, <2>5, <2>6, NothingAtHand
<1>4. CASE DeleteExpired /\ ~UNCHANGED records
  <2>1. \A j \in Jobs :
          \/ item'[j] = item[j] /\ job'[j] = job[j]
          \/ job'[j].status = "gone" /\ \A e \in Edges : item'[j][e].status = "none"
    <3> SUFFICES ASSUME NEW j \in Jobs
                 PROVE  \/ item'[j] = item[j] /\ job'[j] = job[j]
                        \/ /\ job'[j].status = "gone"
                           /\ \A e \in Edges : item'[j][e].status = "none"
      OBVIOUS
    <3>1. CASE j \in doomed
      BY <1>4, <3>1 DEF DeleteExpired, NoItem, NoJob
    <3>2. CASE j \notin doomed
      BY <1>4, <3>2 DEF DeleteExpired
    <3> QED BY <3>1, <3>2
  <2>2. \A j \in Jobs : Orderly(j)
    BY <2>1 DEF Orderly, Pending, Underway
  <2>3. pc' = "idle"
    BY <1>4 DEF DeleteExpired
  <2>4. NobodyElseDispatches'
    <3>1. ASSUME NEW j \in Jobs, job'[j].status = "queued"
          PROVE  Items(j, {"dispatching"})' = {}
      <4>1. item'[j] = item[j] /\ job'[j] = job[j]
        BY <2>1, <3>1
      <4>2. Items(j, {"dispatching"}) = {}
        BY <3>1, <4>1 DEF BatchesInv, NobodyElseDispatches
      <4> QED BY <4>1, <4>2 DEF Items, WithStatus
    <3> QED BY <2>3, <3>1 DEF NobodyElseDispatches
  <2> QED BY <1>2, <2>2, <2>4, NothingAtHand
<1>5. CASE Claim
  <2>1. PICK j \in Jobs : /\ job[j].status = "queued" /\ cj' = j
                          /\ job' = [job EXCEPT ![j].status = "running"]
    BY <1>5 DEF Claim
  <2>2. UNCHANGED item /\ pc' = "list" /\ \A i \in Jobs : job[i] \in Job
    BY <1>5 DEF Claim
  <2>3. \A i \in Jobs : job'[i].status = "queued" => job[i].status = "queued"
    BY <2>1, <2>2 DEF Job
  <2>4. NobodyElseDispatches'
    BY <2>1, <2>2, <2>3 DEF NobodyElseDispatches, Items, WithStatus
  <2>5. \A i \in Jobs : Orderly(i)
    BY <2>2 DEF Orderly
  <2> QED BY <1>2, <2>4, <2>5, NothingAtHand
<1>6. CASE UNCHANGED records /\ pc' \in {"idle", "dead", "cleanup"}
  <2>1. \A j \in Jobs : Orderly(j)
    BY <1>6 DEF Orderly
  <2>2. NobodyElseDispatches'
    BY <1>6 DEF NobodyElseDispatches, Items, WithStatus
  <2> QED BY <1>2, <2>1, <2>2, NothingAtHand
<1> QED BY <1>3, <1>4, <1>5, <1>6 DEF Recover, FindExpired, DeleteExpired

\* processJob lists the first batch that has something left, waiting items before
\* queued ones, and dispatches it if the job still runs.
LEMMA ListBatches ==
  ASSUME BatchesInv, JobsInv', ListItems \/ StartBatch
  PROVE  BatchesInv'
<1> USE DEF BatchesInv, JobsInv, TypeInv, TypeOK, records, local
<1>1. /\ cj \in Jobs /\ \A e \in Edges : step[e] = "none"
      /\ UNCHANGED <<item, cj, step>>
      /\ pc \in {"list", "start"} /\ Items(cj, {"dispatching"}) = {}
  BY DEF ListItems, StartBatch, JobAtHand, Processing, NobodyElseDispatches
<1>2. \A j \in Jobs : Orderly(j)
  BY <1>1 DEF Orderly
<1>3. BatchBarrier' /\ SmallBatches'
  BY <1>2, BatchSteps
<1>4. \A j \in Jobs : job'[j].status = job[j].status
  <2>1. job' = job \/ job' = [job EXCEPT ![cj].current = batch]
    BY DEF ListItems, StartBatch
  <2>2. job \in [Jobs -> Job]
    OBVIOUS
  <2> QED BY <1>1, <2>1, <2>2 DEF Job
<1>5. NobodyElseDispatches'
  <2>1. \A j \in Jobs : Items(j, {"dispatching"})' = Items(j, {"dispatching"})
    BY <1>1 DEF Items
  <2> QED BY <1>1, <1>4, <2>1 DEF NobodyElseDispatches, Items
<1>6. CASE ListItems
  <2> DEFINE queued == Items(cj, {"queued"})
  <2>1. ASSUME NEW e \in Edges, AtHand(e)'
        PROVE  /\ queued # {} /\ Items(cj, {"waiting"}) = {}
               /\ batch' \in NextBatch(queued) /\ e \in queued /\ item[cj][e].batch = batch'
    BY <1>1, <1>6, <2>1 DEF ListItems, AtHand
  <2>2. ASSUME NEW e \in Edges, AtHand(e)', NEW d \in Edges, item[cj][d].status \in Pending
        PROVE  item[cj][e].batch <= item[cj][d].batch
    <3>1. d \in queued
      BY <1>1, <2>1, <2>2 DEF Items, WithStatus, Pending
    <3> QED BY <2>1, <2>2, <3>1 DEF NextBatch, Numbers
  <2>3. \A e \in Edges : AtHand(e)' => item[cj][e].status \in Pending
    BY <2>1 DEF Items, WithStatus, Pending
  <2>4. pc' # "dispatch"
    BY <1>6 DEF ListItems
  <2> QED BY <1>1, <1>3, <1>5, <2>1, <2>2, <2>3, <2>4 DEF TurnsInOrder, Foremost
<1>7. CASE StartBatch
  <2>1. \A e \in Edges : AtHand(e)' => AtHand(e) /\ job[cj].status = "running"
    BY <1>1, <1>7 DEF StartBatch, AtHand
  <2>2. batch' = batch
    BY <1>7 DEF StartBatch
  <2> QED BY <1>1, <1>3, <1>4, <1>5, <2>1, <2>2 DEF TurnsInOrder, Foremost
<1> QED BY <1>6, <1>7

\* The rest of processJob: verifyWaiting judges what waits, an error puts back what
\* was being dispatched.
LEMMA VerifyBatches ==
  ASSUME BatchesInv, JobsInv',
         DispatchEnds \/ Recheck \/ ReadEdges \/ EndRound \/ EndBatch \/ FinishJob
           \/ ProcessFails \/ Requeue \/ \E e \in Edges : Judge(e)
  PROVE  BatchesInv'
<1> USE DEF BatchesInv, JobsInv, TypeInv, TypeOK, records, local
<1>1. /\ cj \in Jobs /\ UNCHANGED step /\ \A e \in Edges : step[e] = "none"
      /\ pc' \notin {"start", "dispatch"}
  BY DEF DispatchEnds, Recheck, ReadEdges, EndRound, EndBatch, FinishJob, ProcessFails,
         Requeue, Judge, JobAtHand, Processing, Free
<1>2. \A e \in Edges : ~AtHand(e)' /\ step'[e] = "none"
  BY <1>1 DEF AtHand
<1>3. ASSUME UNCHANGED item, \A j \in Jobs : job'[j].status = "queued" => job[j].status = "queued",
             pc' \in {"list", "verify", "judge", "refresh"} =>
               cj' = cj /\ Items(cj, {"dispatching"}) = {},
             pc' = "recheck" => pc = "dispatch" /\ UNCHANGED <<cj, batch>>,
             pc' \in {"list", "verify", "judge", "refresh", "recheck", "requeue", "idle"}
      PROVE  BatchesInv'
  <2>1. \A j \in Jobs : Orderly(j)
    BY <1>3 DEF Orderly
  <2>2. NobodyElseDispatches'
    BY <1>3 DEF NobodyElseDispatches, Items, WithStatus
  <2> QED BY <1>2, <2>1, <2>2, NothingAtHand
<1>4. CASE EndRound \/ EndBatch \/ FinishJob
  <2>1. Refresh(cj) /\ Items(cj, {"dispatching"}) = {}
    BY <1>4 DEF EndRound, EndBatch, FinishJob, NobodyElseDispatches
  <2>2. \A j \in Jobs : Untouched(j)
    BY <1>1, <2>1, RefreshUntouched
  <2> QED BY <1>3, <1>4, <2>1, <2>2 DEF EndRound, EndBatch, FinishJob, Refresh, Untouched
<1>5. CASE DispatchEnds \/ ProcessFails
  BY <1>3, <1>5 DEF DispatchEnds, ProcessFails
<1>6. CASE Recheck
  <2>1. pc' = "verify" => Items(cj, {"dispatching"}) = {}
    BY <1>6 DEF Recheck, InBatch, Items, WithStatus, NobodyElseDispatches
  <2> QED BY <1>3, <1>6, <2>1 DEF Recheck
<1>7. CASE ReadEdges
  BY <1>3, <1>7 DEF ReadEdges, NobodyElseDispatches
<1>8. CASE Requeue
  <2>1. CASE UNCHANGED records
    BY <1>3, <1>8, <2>1 DEF Requeue
  <2>2. CASE ~UNCHANGED records
    <3> DEFINE Again(it) == [it EXCEPT !.status = "queued", !.late = FALSE]
    <3>1. /\ item' = [item EXCEPT ![cj] = [e \in Edges |->
               IF @[e].status = "dispatching" THEN Again(@[e]) ELSE @[e]]]
          /\ job' = [job EXCEPT ![cj].status = "queued"]
      BY <1>8, <2>2 DEF Requeue
    <3>2. \A it \in Item : Again(it).status = "queued" /\ Again(it).batch = it.batch
      BY DEF Item
    <3>3. \A e \in Edges : item[cj][e] \in Item
      BY <1>1
    <3>4. \A e \in Edges : item'[cj][e] =
            IF item[cj][e].status = "dispatching" THEN Again(item[cj][e]) ELSE item[cj][e]
      BY <1>1, <3>1
    <3>5. \A j \in Jobs : j # cj => item'[j] = item[j] /\ job'[j] = job[j]
      BY <3>1
    <3> HIDE DEF Again
    <3>6. \A e \in Edges :
            /\ item[cj][e].status = "dispatching" =>
                 item'[cj][e].status = "queued" /\ item'[cj][e].batch = item[cj][e].batch
            /\ item[cj][e].status # "dispatching" => item'[cj][e] = item[cj][e]
      BY <3>2, <3>3, <3>4
    <3>7. \A j \in Jobs : Orderly(j)
      BY <3>5, <3>6 DEF Orderly, Pending, Underway
    <3>8. Items(cj, {"dispatching"})' = {} \/ cj' # cj
      BY <3>6 DEF Items, WithStatus
    <3>9. NobodyElseDispatches'
      <4>1. \A e \in Edges : item'[cj][e].status # "dispatching"
        BY <3>6
      <4>2. pc' = "idle"
        BY <1>8 DEF Requeue
      <4> QED BY <3>5, <4>1, <4>2 DEF NobodyElseDispatches, Items, WithStatus
    <3> QED BY <1>2, <3>7, <3>9, NothingAtHand
  <2> QED BY <2>1, <2>2
<1>9. ASSUME NEW e \in Edges, Judge(e) PROVE BatchesInv'
  <2> DEFINE it == [item[cj][e] EXCEPT !.status = Verdict(item[cj][e], seen[e]),
                      !.late = @ /\ Verdict(item[cj][e], seen[e]) = "waiting"]
  <2>1. /\ Mark(e, it) /\ pc = "judge" /\ item[cj][e].status = "waiting"
        /\ UNCHANGED <<pc, cj, job>>
    BY <1>9 DEF Judge, Mark, JudgeWaits
  <2>2. item[cj] \in [Edges -> Item] /\ item[cj][e] \in Item
    BY <1>1
  <2>3. it.batch = item[cj][e].batch /\ it.status \notin {"queued", "dispatching"}
    BY <2>2 DEF Item, Verdict
  <2> HIDE DEF it
  <2>4. /\ \A j \in Jobs, d \in Edges : j # cj \/ d # e => item'[j][d] = item[j][d]
        /\ item'[cj][e] = it
    BY <1>1, <2>1, <2>2 DEF Mark
  <2>5. \A j \in Jobs : Orderly(j)
    BY <2>1, <2>3, <2>4 DEF Orderly, Pending, Underway
  <2>6. \A j \in Jobs, d \in Edges :
          item'[j][d].status = "dispatching" => item[j][d].status = "dispatching"
    BY <2>3, <2>4
  <2>7. NobodyElseDispatches'
    BY <1>1, <2>1, <2>6 DEF NobodyElseDispatches, Items, WithStatus
  <2> QED BY <1>2, <2>5, <2>7, NothingAtHand
<1> QED BY <1>4, <1>5, <1>6, <1>7, <1>8, <1>9

\* Every step keeps the batches in order.
LEMMA BatchesStep ==
  ASSUME BatchesInv, [Next]_vars
  PROVE  BatchesInv'
<1>1. JobsInv'
  BY JobsStep DEF BatchesInv
<1>2. CASE Requests
  BY <1>1, <1>2, RequestBatches
<1>3. ASSUME NEW e \in Edges,
             EdgeStep(e) \/ DispatchItem(e) \/ \E j \in Jobs : DeadlinePasses(j, e)
      PROVE  BatchesInv'
  BY <1>1, <1>3, EdgeBatches, WorkerBatches
<1>4. CASE Coordinator
  BY <1>1, <1>4, RunBatches, ListBatches, VerifyBatches DEF Coordinator
<1>5. CASE Stop
  <2>1. /\ UNCHANGED records /\ pc' = "down"
        /\ \A e \in Edges : ~AtHand(e)' /\ step'[e] = "none"
    BY <1>5 DEF Stop, AtHand
  <2>2. \A j \in Jobs : Orderly(j)
    BY <2>1 DEF Orderly, records
  <2>3. NobodyElseDispatches'
    BY <2>1 DEF BatchesInv, NobodyElseDispatches, Items, WithStatus, records
  <2> QED BY <1>1, <2>1, <2>2, <2>3, NothingAtHand
<1>6. CASE UNCHANGED vars
  <2>1. \A j \in Jobs : Bystander(j)
    BY <1>6 DEF vars, records, Bystander, Untouched
  <2> QED BY <1>1, <1>6, <2>1, BystanderSteps DEF vars, local
<1> QED BY <1>2, <1>3, <1>4, <1>5, <1>6 DEF Next

\* Before the first job nothing is pending.
LEMMA BatchesInit ==
  ASSUME Init
  PROVE  BatchesInv
<1>1. \A j \in Jobs, e \in Edges : item[j][e].status = "none"
  BY DEF Init, NoItem
<1>2. \A j \in Jobs, n \in Nat : {e \in Items(j, Pending) : item[j][e].batch = n} = {}
  BY <1>1 DEF Items, WithStatus, Pending
<1>3. SmallBatches
  BY <1>2, FS_EmptySet, BatchAssumption DEF SmallBatches
<1>4. BatchBarrier
  BY <1>1 DEF BatchBarrier
<1>5. TurnsInOrder /\ NobodyElseDispatches
  BY <1>1 DEF Init, TurnsInOrder, AtHand, NobodyElseDispatches, Items, WithStatus
<1> QED BY <1>3, <1>4, <1>5, JobsInit DEF BatchesInv

\* In every state.
LEMMA BatchesHold == Spec => []BatchesInv
<1>1. Init => BatchesInv
  BY BatchesInit
<1>2. BatchesInv /\ [Next]_vars => BatchesInv'
  BY BatchesStep
<1> QED BY <1>1, <1>2, PTL DEF Spec

\* A batch is not begun before the batches ahead of it have their results, whatever
\* is retried, requeued or recovered: processJob lists waiting items first and then
\* the lowest batch, and what an error or a stop leaves is put back into the queue
\* before the job is claimed again.
THEOREM BatchesInOrder == Spec => []BatchBarrier
<1>1. BatchesInv => BatchBarrier
  BY DEF BatchesInv
<1> QED BY <1>1, BatchesHold, PTL

\* No more than BatchSize edges of one job are upgraded at a time: what is under way
\* belongs to one batch, and assignUpgradeBatches fills none beyond its size.
THEOREM UpgradesBounded == Spec => []BatchBounded
<1>1. ASSUME BatchesInv, NEW j \in Jobs
      PROVE  Cardinality(Items(j, {"dispatching", "waiting"})) <= BatchSize
  <2> DEFINE under == Items(j, {"dispatching", "waiting"})
  <2>1. under \in SUBSET Edges
    BY DEF Items, WithStatus
  <2>2. CASE under = {}
    BY <2>2, FS_EmptySet, BatchAssumption
  <2>3. CASE under # {}
    <3>1. PICK e \in under : TRUE
      BY <2>3
    <3> DEFINE n == item[j][e].batch
               whole == {d \in Items(j, Pending) : item[j][d].batch = n}
    <3>2. \A d \in under : d \in Edges /\ item[j][d].status \in {"dispatching", "waiting"}
      BY DEF Items, WithStatus
    <3>3. \A d \in Edges : item[j][d].batch \in Nat
      <4>1. \A d \in Edges : item[j][d] \in Item
        BY <1>1 DEF BatchesInv, JobsInv, TypeInv, TypeOK
      <4> QED BY <4>1 DEF Item
    <3>4. \A d \in under : item[j][d].batch = n
      <4>1. \A d \in under : item[j][d].batch <= n /\ n <= item[j][d].batch
        BY <1>1, <3>1, <3>2 DEF BatchesInv, BatchBarrier, Pending
      <4> QED BY <3>1, <3>2, <3>3, <4>1
    <3>5. under \in SUBSET whole
      BY <3>2, <3>4 DEF Items, WithStatus, Pending
    <3>6. Cardinality(whole) <= BatchSize
      <4>1. n \in Nat
        BY <3>1, <3>2, <3>3
      <4> HIDE DEF n
      <4> QED BY <1>1, <4>1 DEF BatchesInv, SmallBatches
    <3>7. whole \in SUBSET Edges
      BY DEF Items, WithStatus
    <3> HIDE DEF under, whole
    <3>8. /\ Cardinality(under) <= Cardinality(whole) /\ Cardinality(under) \in Nat
          /\ Cardinality(whole) \in Nat
      BY <2>1, <3>5, <3>7, EdgeSets, FS_Subset
    <3>9. Cardinality(under) <= BatchSize
      BY <3>6, <3>8, BatchAssumption
    <3> QED BY <3>9 DEF under
  <2> QED BY <2>2, <2>3
<1>2. BatchesInv => BatchBounded
  BY <1>1 DEF BatchBounded
<1> QED BY <1>2, BatchesHold, PTL

------------------------------------------------------------------------------
(* What a failed verification says about the edge.                         *)

\* While verifyWaiting judges, only it makes a waiting item fail.
LEMMA OnlyVerifyFails ==
  ASSUME JobsInv, Next, pc = "judge", NEW j \in Jobs, NEW e \in Edges,
         item[j][e].status = "waiting", item'[j][e].status = "failed"
  PROVE  j = cj /\ Judge(e)
<1> USE DEF TypeInv, TypeOK, records
<1>1. cj \in Jobs /\ TypeInv
  BY DEF JobsInv, JobAtHand, Processing
<1>2. ~Requests
  <2>1. ASSUME NEW i \in Jobs, Create(i) PROVE FALSE
    <3>1. item'[j] = item[j] \/ (j = i /\ \A d \in Edges : item[j][d].status = "none")
      BY <1>1, <2>1 DEF Create, JobsInv, NoneHasNoItems
    <3> QED BY <3>1
  <2>2. ASSUME NEW u \in Users, (\E i \in Jobs : RetryRead(u, i)) \/ RetryConflict(u)
                                  \/ RetryRefresh(u)
        PROVE  FALSE
    BY <2>2 DEF RetryRead, RetryConflict, RetryRefresh, Refresh
  <2>3. ASSUME NEW u \in Users, RetryReset(u) PROVE FALSE
    <3>1. item'[j][e] = item[j][e]
      BY <1>1, <2>3 DEF RetryReset, RetryItems, Items, WithStatus, Failed, JobAtHand
    <3> QED BY <3>1
  <2> QED BY <2>1, <2>2, <2>3 DEF Requests
<1>3. \A d \in Edges : ~EdgeStep(d) /\ ~DispatchItem(d)
  BY <1>1
     DEF EdgeStep, DispatchItem, TakeItem, MarkDispatching, GiveUp, MarkWaiting, MarkSettled,
         FailDispatch, FetchPackage, RefreshBaseline, ApplyPackage, JobAtHand
<1>4. \A d \in Edges, i \in Jobs : ~DeadlinePasses(i, d)
  <2> SUFFICES ASSUME NEW d \in Edges, NEW i \in Jobs, DeadlinePasses(i, d) PROVE FALSE
    OBVIOUS
  <2>1. item' = [item EXCEPT ![i][d].late = TRUE] /\ item[j][e] \in Item
    BY <1>1 DEF DeadlinePasses
  <2>2. item'[j][e].status = item[j][e].status
    BY <1>1, <2>1 DEF Item
  <2> QED BY <2>2
<1>5. ~Stop
  BY DEF Stop
<1>6. PICK d \in Edges : Judge(d)
  BY <1>2, <1>3, <1>4, <1>5
     DEF Next, Coordinator, Recover, FindExpired, DeleteExpired, Claim, ListItems, StartBatch,
         DispatchEnds, Recheck, ReadEdges, EndRound, EndBatch, FinishJob, ProcessFails,
         Requeue, Refresh
<1>7. j = cj /\ e = d
  BY <1>1, <1>6 DEF Judge, Mark
<1> QED BY <1>6, <1>7

\* A verification that fails an edge that is online has been told of another version
\* by a session after the baseline: the version is written before the marker, so what
\* a session before the baseline said is overwritten by the time its marker counts.
THEOREM FailedByOwnSession == Spec => FailedBySession
<1> DEFINE Inv == JobsInv /\ TruthInv
<1>1. Init => Inv
  BY JobsInit, TruthInit
<1>2. Inv /\ [Next]_vars => Inv'
  BY JobsStep, TruthStep
<1>3. Inv /\ [Next]_vars =>
        [\A j \in Jobs, e \in Edges :
           pc = "judge" /\ item[j][e].status = "waiting" /\ item'[j][e].status = "failed"
             => heard[e][Old] > item[j][e].base \/ ~seen[e].online]_vars
  <2> SUFFICES ASSUME JobsInv, TruthInv, Next, NEW j \in Jobs, NEW e \in Edges,
                      pc = "judge", item[j][e].status = "waiting",
                      item'[j][e].status = "failed"
               PROVE  heard[e][Old] > item[j][e].base \/ ~seen[e].online
    OBVIOUS
  <2>1. cj \in Jobs /\ Judge(e) /\ j = cj
    BY OnlyVerifyFails
  <2>2. item[cj] \in [Edges -> Item] /\ item \in [Jobs -> [Edges -> Item]]
    BY <2>1 DEF JobsInv, TypeInv, TypeOK
  <2>3. Verdict(item[cj][e], seen[e]) = "failed"
    BY <2>1, <2>2 DEF Judge, Mark, Item
  <2>4. CASE seen[e].ver # Target /\ seen[e].reg > item[j][e].base
    <3>1. seen[e] \in Row /\ heard[e] \in [Versions -> Nat] /\ item[j][e].base \in Nat
      BY <2>1, <2>2 DEF JobsInv, TypeInv, TypeOK, Item
    <3>2. seen[e].ver = Old /\ heard[e][Old] \in Nat /\ seen[e].reg \in Nat
      BY <2>4, <3>1 DEF Row, Versions
    <3>3. heard[e][seen[e].ver] >= seen[e].reg
      BY DEF TruthInv, Spoken
    <3> QED BY <2>4, <3>1, <3>2, <3>3
  <2> QED BY <2>1, <2>3, <2>4 DEF Verdict, IsNewRegistration
<1> HIDE DEF Inv
<1> QED BY <1>1, <1>2, <1>3, PTL DEF Spec, FailedBySession

==============================================================================
