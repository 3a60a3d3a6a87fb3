-------------------------- MODULE PacketCaptureProofs --------------------------
(* Theorems about PacketCapture, for any captures, workers and requests, and   *)
(* wherever the manager stops or the agent restarts.                           *)
EXTENDS PacketCapture, FiniteSetTheorems, WellFoundedInduction, TLAPS

------------------------------------------------------------------------------
(* The invariant.                                                              *)

Placing == {"insert", "dispatch", "persist"}

\* The tool is through with a capture, or has not come to it.
Passed(c) ==
  \/ tool.pc \in {"close", "operate", "bind", "done"}
  \/ tool.pc \in Placing /\ c < tool.c
Fresh(c) ==
  \/ tool.pc = "idle"
  \/ tool.pc = "insert" /\ tool.c <= c
  \/ tool.pc \in {"dispatch", "persist"} /\ tool.c < c

\* A capture the tool has not dispatched is unknown to the edge, one it has not
\* inserted has no row, and nobody gets to work on one before the tool is through
\* with it; what was read from the edge had succeeded there.
ToolInv ==
  /\ tool.pc \in Placing => tool.c \in Captures
  /\ \A c \in Captures :
       /\ Fresh(c) => row[c] = NoRow
       /\ Fresh(c) \/ (tool.pc = "dispatch" /\ c = tool.c) => task[c] = NoTask
       /\ row[c].resolved \/ row[c].raw \/ row[c].parsed => Passed(c)
       /\ row[c].parsed => row[c].raw /\ row[c].state # "gone"
       /\ row[c].raw => task[c].state \in {"succeeded", "none"}

Owning == Ingest \cup {"preserve"}
Asked == {"answer", "apply", "discard", "inspect", "claim"} \cup Owning
Judged == {"collecting"} \cup SessionOver

\* What a worker knows of the capture and of the session it is at.
Fit(v) ==
  /\ v.pc \in Asked \cup {"ask"} => v.c \in Captures
  /\ v.pc \in Asked => Passed(v.c)
  /\ v.pc \in {"store", "settle"} => v.verdict \in Judged
  /\ v.pc \in {"finish", "tell", "mark"} => v.verdict \in SessionOver
  /\ v.pc = "mark" => chat # <<>>
  /\ v.pc = "discard" => /\ ~row[v.c].raw /\ ~row[v.c].parsed
                         /\ task[v.c].state \in {"failed", "none"}
  /\ v.pc = "parse" => row[v.c].raw
  /\ v.pc \in Owning => row[v.c].state \in {"parsing", "gone"}

WorkInv == \A w \in Workers : Fit(work[w])

\* At most one worker has claimed the parsing of a capture and not given it up.
OneOwner ==
  \A v, w \in Workers :
    v # w /\ work[v].pc \in Owning /\ work[w].pc \in Owning => work[v].c # work[w].c

\* The operation is not there before its time, and what is marked was told.
TellInv ==
  /\ tool.pc \in Placing \cup {"idle", "close", "operate"} => op = "none"
  /\ session.notified => chat # <<>>
  /\ chat = <<>> \/ \E s \in SessionOver : chat = <<s>>

\* What has its turn was dispatched after everything else that has one, and starts
\* before it; of what was dispatched earlier, all that waits comes after it.
HasTurn(c) == task[c].state = "running" \/ (task[c].state = "queued" /\ task[c].turn)
TurnInv ==
  /\ \A c, d \in Captures :
       c < d /\ HasTurn(c) /\ HasTurn(d) => StartAt[d] < StartAt[c]
  /\ \A c, d \in Captures :
       /\ d < c
       /\ task[c].state = "queued" /\ task[c].turn
       /\ task[d].state = "queued"
       => QueuedBefore(c, d)

Inv == TypeOK /\ ToolInv /\ WorkInv /\ OneOwner /\ TellInv

------------------------------------------------------------------------------
(* What the operators return.                                                  *)

LEMMA LeastNumber ==
  ASSUME NEW S \in SUBSET Nat, S # {}
  PROVE  \E x \in S : \A y \in S : x <= y
<1>1. PICK x \in S : \A y \in S : ~(<<y, x>> \in OpToRel(<, Nat))
  BY NatLessThanWellFounded, WFMin
<1>2. \A y \in S : ~(y < x)
  BY <1>1 DEF OpToRel
<1> QED BY <1>2

LEMMA Least ==
  ASSUME NEW S \in SUBSET Captures, S # {}
  PROVE  (CHOOSE d \in S : \A e \in S : d <= e) \in S
<1>1. S \in SUBSET Nat
  BY CapturesAssumption
<1>2. \E x \in S : \A y \in S : x <= y
  BY <1>1, LeastNumber
<1> QED BY <1>2

\* The tool goes on to a capture that it has not come to yet.
LEMMA NextMemberEffect ==
  ASSUME NEW t \in Tool
  PROVE  /\ NextMember(t) \in Tool
         /\ NextMember(t).made = t.made
         /\ \/ NextMember(t).pc = "close"
            \/ NextMember(t).pc = "insert" /\ NextMember(t).c \in Captures
               /\ t.c < NextMember(t).c
<1> DEFINE rest == {d \in Captures : d > t.c}
           least == CHOOSE d \in rest : \A e \in rest : d <= e
<1>1. CASE rest = {}
  <2>1. NextMember(t) = [t EXCEPT !.pc = "close"]
    BY <1>1 DEF NextMember
  <2> QED BY <2>1 DEF Tool
<1>2. CASE rest # {}
  <2>1. least \in rest
    BY <1>2, Least
  <2>2. NextMember(t) = [t EXCEPT !.pc = "insert", !.c = least]
    BY <1>2 DEF NextMember
  <2>3. least \in Captures /\ least > t.c /\ t.c \in Nat /\ least \in Nat
    <3>1. t.c \in Captures \cup {0}
      BY DEF Tool
    <3>2. least \in Captures /\ least > t.c
      BY <2>1
    <3>3. Captures \subseteq Nat
      BY CapturesAssumption
    <3>4. t.c \in Nat
      <4>1. 0 \in Nat
        OBVIOUS
      <4> QED BY <4>1, <3>1, <3>3, Zenon
    <3>5. least \in Nat
      BY <3>2, <3>3
    <3> QED BY <3>2, <3>4, <3>5
  <2> HIDE DEF least
  <2>4. NextMember(t) \in Tool
    BY <2>2, <2>3 DEF Tool
  <2>5. NextMember(t).pc = "insert" /\ NextMember(t).c = least /\ NextMember(t).made = t.made
    BY <2>2 DEF Tool
  <2> QED BY <2>3, <2>4, <2>5
<1> QED BY <1>1, <1>2

\* A worker goes on to ask about a member, or to judge the session.
LEMMA ProceedEffect ==
  ASSUME NEW v \in Worker
  PROVE  /\ Proceed(v) \in Worker
         /\ \/ Proceed(v).pc = "analyze"
            \/ Proceed(v).pc = "ask" /\ Proceed(v).c \in Captures
<1> DEFINE least == CHOOSE d \in v.todo : \A e \in v.todo : d <= e
<1>1. v.todo \in SUBSET Captures
  BY DEF Worker
<1>2. "none" \in EdgeStates
  BY DEF EdgeStates
<1>3. CASE v.todo = {}
  <2>1. Proceed(v) = [v EXCEPT !.pc = "analyze", !.c = 0, !.seen = "none"]
    BY <1>3 DEF Proceed
  <2> QED BY <2>1, <1>2 DEF Worker
<1>4. CASE v.todo # {}
  <2>1. least \in v.todo
    BY <1>1, <1>4, Least
  <2>2. Proceed(v) = [v EXCEPT !.pc = "ask", !.c = least, !.todo = @ \ {least}, !.seen = "none"]
    BY <1>4 DEF Proceed
  <2>3. least \in Captures
    BY <1>1, <2>1
  <2> HIDE DEF least
  <2> QED BY ZenonT(30), <2>2, <2>3, <1>1, <1>2 DEF Worker
<1> QED BY <1>3, <1>4

LEMMA IdleType == Idle \in Worker /\ Fit(Idle)
BY DEF Idle, Worker, Kinds, EdgeStates, SessionStates, Fit, Asked, Owning, Ingest

Pcs == {"idle", "ask", "answer", "apply", "discard", "inspect", "claim", "preserve",
        "analyze", "store", "finish", "tell", "mark", "settle"} \cup Ingest

\* What the four ways to move a worker on do.
LEMMA WorkerMoves ==
  ASSUME TypeOK, NEW w \in Workers
  PROVE  /\ work[w] \in Worker
         /\ \A v \in Worker : work' = [work EXCEPT ![w] = v] =>
              /\ work' \in [Workers -> Worker] /\ work'[w] = v
              /\ \A u \in Workers \ {w} : work'[u] = work[u]
         /\ \A pc \in Pcs : Goto(w, pc) =>
              /\ work' \in [Workers -> Worker] /\ work'[w] = [work[w] EXCEPT !.pc = pc]
              /\ \A u \in Workers \ {w} : work'[u] = work[u]
         /\ Goes(w) =>
              /\ work' \in [Workers -> Worker] /\ work'[w] = Proceed(work[w])
              /\ \A u \in Workers \ {w} : work'[u] = work[u]
         /\ Rests(w) =>
              /\ work' \in [Workers -> Worker] /\ work'[w] = Idle
              /\ \A u \in Workers \ {w} : work'[u] = work[u]
<1>1. work \in [Workers -> Worker] /\ work[w] \in Worker
  BY DEF TypeOK
<1>2. ASSUME NEW v \in Worker, work' = [work EXCEPT ![w] = v]
      PROVE  /\ work' \in [Workers -> Worker] /\ work'[w] = v
             /\ \A u \in Workers \ {w} : work'[u] = work[u]
  BY <1>1, <1>2
<1>3. ASSUME NEW pc \in Pcs, Goto(w, pc)
      PROVE  work' = [work EXCEPT ![w] = [work[w] EXCEPT !.pc = pc]]
             /\ [work[w] EXCEPT !.pc = pc] \in Worker
  BY <1>1, <1>3 DEF Goto, Worker, Pcs
<1>4. Goes(w) => work' = [work EXCEPT ![w] = Proceed(work[w])]
  BY DEF Goes
<1>5. Rests(w) => work' = [work EXCEPT ![w] = Idle]
  BY DEF Rests
<1> QED BY <1>1, <1>2, <1>3, <1>4, <1>5, ProceedEffect, IdleType

LEMMA SpendType ==
  ASSUME TypeOK, NEW what \in {"requests", "lost", "faults", "stops", "restarts"},
         NEW n, Spend(what, n)
  PROVE  used' \in [{"requests", "lost", "faults", "stops", "restarts"} -> Nat]
BY DEF TypeOK, Spend

\* A row whose state moves, and one whose recorded data grows, is a row.
LEMMA RowMoves ==
  ASSUME TypeOK, NEW c \in Captures
  PROVE  /\ row[c] \in Row
         /\ \A from, to : to \in RowStates => Moved(c, from, to) \in [Captures -> Row]
         /\ \A s \in RowStates : [row EXCEPT ![c].state = s] \in [Captures -> Row]
         /\ [row EXCEPT ![c].raw = TRUE] \in [Captures -> Row]
         /\ [row EXCEPT ![c].parsed = TRUE] \in [Captures -> Row]
         /\ \A s \in RowStates :
              [row EXCEPT ![c].state = s, ![c].resolved = TRUE] \in [Captures -> Row]
<1>1. row \in [Captures -> Row] /\ row[c] \in Row
  BY DEF TypeOK
<1>2. ASSUME NEW s \in RowStates PROVE [row EXCEPT ![c].state = s] \in [Captures -> Row]
  <2>1. [row[c] EXCEPT !.state = s] \in Row
    BY <1>1 DEF Row
  <2> QED BY <1>1, <2>1
<1>3. [row EXCEPT ![c].raw = TRUE] \in [Captures -> Row]
  <2>1. [row[c] EXCEPT !.raw = TRUE] \in Row
    BY <1>1 DEF Row
  <2> QED BY <1>1, <2>1
<1>4. [row EXCEPT ![c].parsed = TRUE] \in [Captures -> Row]
  <2>1. [row[c] EXCEPT !.parsed = TRUE] \in Row
    BY <1>1 DEF Row
  <2> QED BY <1>1, <2>1
<1>5. ASSUME NEW s \in RowStates
      PROVE  [row EXCEPT ![c].state = s, ![c].resolved = TRUE] \in [Captures -> Row]
  <2>1. [[row[c] EXCEPT !.state = s] EXCEPT !.resolved = TRUE] \in Row
    BY <1>1 DEF Row
  <2> QED BY <1>1, <2>1
<1> QED BY <1>1, <1>2, <1>3, <1>4, <1>5 DEF Moved

\* Every state of the edge has its word in the row.
LEMMA MirrorType ==
  ASSUME NEW s \in EdgeStates
  PROVE  /\ Mirror[s] \in RowStates \ {"none", "gone", "parsing"}
         /\ Mirror[s] = "ready" => s = "succeeded"
BY DEF Mirror, EdgeStates, Live, Over, RowStates, Refreshable

LEMMA VerdictType == Verdict \in Judged
BY DEF Verdict, Judged, SessionOver

\* The edge keeps its types.
LEMMA EdgeTypes ==
  ASSUME EdgeTypeOK
  PROVE  /\ \A c \in Captures : EdgeStep(c) => EdgeTypeOK'
         /\ \A c \in Captures : StartTask(c) => EdgeTypeOK'
         /\ \A c \in Captures, stop \in BOOLEAN : CancelTask(c, stop) => EdgeTypeOK'
         /\ EdgeForgets => EdgeTypeOK'
<1> USE DEF EdgeTypeOK, Task, Live, Over
<1>1. ASSUME NEW c \in Captures, EdgeStep(c) PROVE EdgeTypeOK'
  <2>1. CASE SeesTurn(c)
    BY <2>1 DEF SeesTurn
  <2>2. CASE Runs(c)
    BY <2>2 DEF Runs
  <2>3. CASE GivesUp(c)
    BY <2>3 DEF GivesUp
  <2>4. CASE Ends(c)
    <3>1. PICK ok \in BOOLEAN : task' = [task EXCEPT ![c].state = Outcome(task[c], ok)]
      BY <2>4 DEF Ends
    <3>2. Outcome(task[c], ok) \in Over
      BY DEF Outcome
    <3> QED BY <3>1, <3>2
  <2> QED BY <1>1, <2>1, <2>2, <2>3, <2>4 DEF EdgeStep
<1>2. NoTask \in Task
  BY DEF NoTask
<1>3. ASSUME NEW c \in Captures, StartTask(c) PROVE EdgeTypeOK'
  <2>1. [NoTask EXCEPT !.state = "queued"] \in Task
    BY DEF NoTask
  <2> QED BY <1>3, <2>1 DEF StartTask
<1>4. ASSUME NEW c \in Captures, NEW stop \in BOOLEAN, CancelTask(c, stop) PROVE EdgeTypeOK'
  BY ZenonT(30), <1>4 DEF CancelTask
<1>5. EdgeForgets => EdgeTypeOK'
  BY <1>2 DEF EdgeForgets
<1> QED BY <1>1, <1>3, <1>4, <1>5

------------------------------------------------------------------------------
(* Types.                                                                      *)

LEMMA ToolTypes ==
  ASSUME TypeOK, ToolInv, ToolStep
  PROVE  TypeOK'
<1>1. tool \in Tool /\ session \in Session /\ row \in [Captures -> Row]
  BY DEF TypeOK
<1>2. tool.pc \in Placing => tool.c \in Captures
  BY DEF ToolInv
<1>3. \A pc \in {"dispatch", "persist", "operate", "bind", "done"} :
        [tool EXCEPT !.pc = pc] \in Tool
  BY <1>1 DEF Tool
<1>4. \A b \in BOOLEAN : /\ [tool EXCEPT !.failed = b] \in Tool
                        /\ [tool EXCEPT !.made = b] \in Tool
  BY <1>1 DEF Tool
<1>5. \A s \in SessionStates : [session EXCEPT !.state = s] \in Session
  BY <1>1 DEF Session
<1>6. CASE CreateSession
  <2>1. session' \in Session /\ tool' \in Tool
    BY <1>1, <1>5, <1>6, NextMemberEffect DEF CreateSession, SessionStates
  <2> QED BY <1>6, <2>1 DEF CreateSession, TypeOK, EdgeTypeOK
<1>7. CASE InsertMember
  <2>1. row' \in [Captures -> Row] /\ tool' \in Tool
    BY <1>2, <1>3, <1>7, RowMoves DEF InsertMember, Placing, RowStates, Refreshable
  <2> QED BY <1>7, <2>1 DEF InsertMember, TypeOK, EdgeTypeOK
<1>8. CASE DispatchMember
  <2>1. EdgeTypeOK' /\ tool' \in Tool
    BY <1>2, <1>3, <1>8, EdgeTypes DEF DispatchMember, Placing, TypeOK
  <2> QED BY <1>8, <2>1 DEF DispatchMember, TypeOK, db
<1>9. CASE DispatchFails
  <2>1. tool.c \in Captures
    BY <1>2, <1>9 DEF DispatchFails, Placing
  <2>2. EdgeTypeOK'
    BY <1>9, <2>1, EdgeTypes DEF DispatchFails, TypeOK, EdgeTypeOK
  <2>3. row' \in [Captures -> Row]
    BY <1>9, <2>1, RowMoves DEF DispatchFails, RowStates
  <2>4. tool' \in Tool
    BY <1>4, <1>9, NextMemberEffect DEF DispatchFails
  <2>5. used' \in [{"requests", "lost", "faults", "stops", "restarts"} -> Nat]
    BY <1>9, SpendType DEF DispatchFails, TypeOK
  <2> QED BY <1>9, <2>2, <2>3, <2>4, <2>5 DEF DispatchFails, TypeOK
<1>10. CASE PersistMember
  <2>1. Mirror["queued"] \in RowStates
    BY MirrorType DEF EdgeStates, Live
  <2>2. row' \in [Captures -> Row]
    BY <1>1, <1>2, <1>10, <2>1, RowMoves DEF PersistMember, Placing
  <2>3. tool' \in Tool
    BY <1>4, <1>10, NextMemberEffect DEF PersistMember
  <2> QED BY <1>10, <2>2, <2>3 DEF PersistMember, TypeOK, EdgeTypeOK
<1>11. CASE CloseSession
  <2>1. session' \in Session
    BY <1>1, <1>5, <1>11 DEF CloseSession, SessionStates, SessionOver
  <2>2. tool' \in Tool
    BY <1>3, <1>11 DEF CloseSession
  <2> QED BY <1>11, <2>1, <2>2 DEF CloseSession, TypeOK, EdgeTypeOK
<1>12. CASE OpenOperation
  <2>1. tool' \in Tool
    BY <1>3, <1>12 DEF OpenOperation
  <2> QED BY <1>12, <2>1 DEF OpenOperation, TypeOK, EdgeTypeOK, OpActive
<1>13. CASE BindOperation
  <2>1. tool' \in Tool /\ session' \in Session
    BY <1>1, <1>3, <1>13 DEF BindOperation, Session
  <2> QED BY <1>13, <2>1 DEF BindOperation, TypeOK, EdgeTypeOK
<1> QED BY <1>6, <1>7, <1>8, <1>9, <1>10, <1>11, <1>12, <1>13 DEF ToolStep

LEMMA WorkerTypes ==
  ASSUME TypeOK, NEW w \in Workers, Fit(work[w]), WorkerStep(w)
  PROVE  TypeOK'
<1> DEFINE v == work[w]
           Used == [{"requests", "lost", "faults", "stops", "restarts"} -> Nat]
<1>1. v \in Worker /\ (v.pc \in Asked \cup {"ask"} => v.c \in Captures)
  BY WorkerMoves DEF Fit
<1>2. Asked = {"answer", "apply", "discard", "inspect", "claim", "read", "parse", "publish",
               "preserve"}
  BY DEF Asked, Owning, Ingest
<1>3. \A what \in {"lost", "faults"} : \A n : Spend(what, n) => used' \in Used
  BY SpendType
<1>4. task \in [Captures -> Task]
  BY DEF TypeOK, EdgeTypeOK
<1>5. \A pc \in Pcs : Goto(w, pc) => work' \in [Workers -> Worker]
  BY WorkerMoves
<1>6. /\ Goes(w) => work' \in [Workers -> Worker]
      /\ Rests(w) => work' \in [Workers -> Worker]
  BY WorkerMoves
<1> USE DEF Pcs, Ingest
<1>7. CASE AskFails(w)
  <2>1. used' \in Used
    BY <1>3, <1>7 DEF AskFails, TypeOK
  <2> QED BY <1>6, <1>7, <2>1 DEF AskFails, TypeOK, EdgeTypeOK, db
<1>8. CASE AskState(w)
  <2>1. task[v.c].state \in EdgeStates
    BY <1>1, <1>4, <1>8 DEF AskState, At, Task, EdgeStates
  <2>2. PICK pc \in {"discard", "apply"} :
          work' = [work EXCEPT ![w].seen = task[v.c].state, ![w].pc = pc]
    BY <1>8 DEF AskState
  <2>3. [v EXCEPT !.seen = task[v.c].state, !.pc = pc] \in Worker
    BY <1>1, <2>1 DEF Worker
  <2>4. work' = [work EXCEPT ![w] = [v EXCEPT !.seen = task[v.c].state, !.pc = pc]]
    BY <2>2 DEF TypeOK
  <2>5. work' \in [Workers -> Worker]
    BY <2>3, <2>4, WorkerMoves
  <2> QED BY <1>8, <2>5 DEF AskState, TypeOK, EdgeTypeOK, db
<1>9. CASE AskToEnd(w)
  <2>1. EdgeTypeOK'
    BY <1>1, <1>9, EdgeTypes DEF AskToEnd, At, TypeOK
  <2> QED BY <1>5, <1>9, <2>1 DEF AskToEnd, TypeOK, db
<1>10. CASE Answer(w)
  <2>1. task[v.c].state \in EdgeStates
    BY <1>1, <1>2, <1>4, <1>10 DEF Answer, At, Task, EdgeStates
  <2>2. [v EXCEPT !.seen = task[v.c].state, !.pc = "apply"] \in Worker
    BY <1>1, <2>1 DEF Worker
  <2>3. work' = [work EXCEPT ![w].seen = task[v.c].state, ![w].pc = "apply"]
        => work' = [work EXCEPT ![w] = [v EXCEPT !.seen = task[v.c].state, !.pc = "apply"]]
    BY DEF TypeOK
  <2>4. work' \in [Workers -> Worker]
    BY <1>6, <1>10, <2>2, <2>3, WorkerMoves DEF Answer
  <2>5. used' \in Used
    BY <1>3, <1>10 DEF Answer, TypeOK
  <2> QED BY <1>10, <2>4, <2>5 DEF Answer, TypeOK, EdgeTypeOK, db
<1>11. CASE Discard(w)
  <2>1. row' \in [Captures -> Row]
    BY <1>1, <1>2, <1>11, RowMoves DEF Discard, At, RowStates
  <2> QED BY <1>6, <1>11, <2>1 DEF Discard, TypeOK, EdgeTypeOK
<1>12. CASE Apply(w)
  <2>1. Mirror[v.seen] \in RowStates
    BY <1>1, MirrorType DEF Worker
  <2>2. row' \in [Captures -> Row]
    BY <1>1, <1>2, <1>12, <2>1, RowMoves DEF Apply, At
  <2>3. work' \in [Workers -> Worker]
    BY <1>5, <1>6, <1>12 DEF Apply
  <2> QED BY <1>12, <2>2, <2>3 DEF Apply, TypeOK, EdgeTypeOK
<1>13. CASE Inspect(w)
  <2>1. work' \in [Workers -> Worker]
    BY <1>5, <1>6, <1>13 DEF Inspect
  <2> QED BY <1>13, <2>1 DEF Inspect, TypeOK, EdgeTypeOK, db
<1>14. CASE Claim(w)
  <2>1. row' \in [Captures -> Row]
    BY <1>1, <1>2, <1>14, RowMoves DEF Claim, At, RowStates
  <2>2. work' \in [Workers -> Worker]
    BY <1>5, <1>6, <1>14 DEF Claim
  <2> QED BY <1>14, <2>1, <2>2 DEF Claim, TypeOK, EdgeTypeOK
<1>15. CASE ReadRaw(w)
  <2>1. row' \in [Captures -> Row]
    BY <1>1, <1>2, <1>15, RowMoves DEF ReadRaw, At
  <2> QED BY <1>5, <1>15, <2>1 DEF ReadRaw, TypeOK, EdgeTypeOK
<1>16. CASE ReadFails(w)
  <2>1. used' \in Used
    BY <1>3, <1>16 DEF ReadFails, TypeOK
  <2> QED BY <1>5, <1>16, <2>1 DEF ReadFails, TypeOK, EdgeTypeOK, db
<1>17. CASE Parse(w)
  <2>1. row' \in [Captures -> Row]
    BY <1>1, <1>2, <1>17, RowMoves DEF Parse, At
  <2> QED BY <1>5, <1>17, <2>1 DEF Parse, TypeOK, EdgeTypeOK
<1>18. CASE ParseFails(w)
  <2>1. used' \in Used
    BY <1>3, <1>18 DEF ParseFails, TypeOK
  <2> QED BY <1>5, <1>18, <2>1 DEF ParseFails, TypeOK, EdgeTypeOK, db
<1>19. CASE Publish(w)
  <2>1. row' \in [Captures -> Row]
    BY <1>1, <1>2, <1>19, RowMoves DEF Publish, At, RowStates
  <2>2. work' \in [Workers -> Worker]
    BY <1>5, <1>6, <1>19 DEF Publish
  <2> QED BY <1>19, <2>1, <2>2 DEF Publish, TypeOK, EdgeTypeOK
<1>20. CASE Preserve(w)
  <2>1. row' \in [Captures -> Row]
    BY <1>1, <1>2, <1>20, RowMoves DEF Preserve, At, RowStates
  <2> QED BY <1>6, <1>20, <2>1 DEF Preserve, TypeOK, EdgeTypeOK
<1>21. CASE Analyze(w)
  <2>1. [v EXCEPT !.verdict = Verdict, !.pc = "store"] \in Worker
    BY <1>1, VerdictType DEF Worker, Judged, SessionStates
  <2>2. work' = [work EXCEPT ![w] = [v EXCEPT !.verdict = Verdict, !.pc = "store"]]
    BY <1>21 DEF Analyze, TypeOK
  <2>3. work' \in [Workers -> Worker]
    BY <2>1, <2>2, WorkerMoves
  <2> QED BY <1>21, <2>3 DEF Analyze, TypeOK, EdgeTypeOK, db
<1>22. CASE Store(w)
  <2>1. v.verdict \in SessionStates
    BY <1>1 DEF Worker
  <2>2. session' \in Session
    BY <1>22, <2>1 DEF Store, TypeOK, Session
  <2>3. Rests(w) \/ \E pc \in Pcs : Goto(w, pc)
    BY <1>22 DEF Store
  <2>4. work' \in [Workers -> Worker]
    BY <1>5, <1>6, <2>3
  <2> QED BY <1>22, <2>2, <2>4 DEF Store, TypeOK, EdgeTypeOK
<1>23. CASE Settle(w)
  <2>1. op' \in {"none"} \cup OpActive \cup OpOver
    BY <1>23 DEF Settle, At, Fit, Judged, SessionOver, MoveOp, TypeOK, OpActive, OpOver
  <2> QED BY <1>6, <1>23, <2>1 DEF Settle, TypeOK, EdgeTypeOK
<1>24. CASE FinishOperation(w)
  <2>1. op' \in {"none"} \cup OpActive \cup OpOver
    BY <1>24 DEF FinishOperation, MoveOp, TypeOK, OpActive, OpOver
  <2> QED BY <1>5, <1>24, <2>1 DEF FinishOperation, TypeOK, EdgeTypeOK
<1>25. CASE Tell(w)
  <2>1. v.verdict \in SessionOver
    BY <1>25 DEF Tell, At, Fit
  <2>2. chat' \in Seq(SessionOver)
    BY <1>25, <2>1 DEF Tell, TypeOK
  <2> QED BY <1>5, <1>25, <2>2 DEF Tell, TypeOK, EdgeTypeOK
<1>26. CASE NotifyFails(w)
  <2>1. used' \in Used
    BY <1>3, <1>26 DEF NotifyFails
  <2> QED BY <1>6, <1>26, <2>1 DEF NotifyFails, TypeOK, EdgeTypeOK, db
<1>27. CASE MarkNotified(w)
  <2>1. session' \in Session
    BY <1>27 DEF MarkNotified, TypeOK, Session
  <2> QED BY <1>6, <1>27, <2>1 DEF MarkNotified, TypeOK, EdgeTypeOK
<1> QED BY <1>7, <1>8, <1>9, <1>10, <1>11, <1>12, <1>13, <1>14, <1>15, <1>16, <1>17, <1>18,
           <1>19, <1>20, <1>21, <1>22, <1>23, <1>24, <1>25, <1>26, <1>27
           DEF WorkerStep, IngestStep

LEMMA TypeNext ==
  ASSUME TypeOK, ToolInv, WorkInv, [Next]_vars
  PROVE  TypeOK'
<1>1. CASE UNCHANGED vars
  BY <1>1 DEF vars, db, TypeOK, EdgeTypeOK
<1>2. CASE ToolStep
  BY <1>2, ToolTypes
<1>3. CASE Reconcile
  <2>1. [Idle EXCEPT !.kind = "reconcile", !.todo = ToRefresh] \in Worker
    BY IdleType DEF Worker, Kinds, ToRefresh, Members
  <2>2. Coordinator \in Workers
    BY DEF Workers
  <2>3. work' \in [Workers -> Worker]
    BY <1>3, <2>1, <2>2, ProceedEffect, WorkerMoves DEF Reconcile, Begins
  <2> QED BY <1>3, <2>3 DEF Reconcile, TypeOK, EdgeTypeOK, db
<1>4. ASSUME NEW w \in Callers, Request(w) PROVE TypeOK'
  <2>1. PICK kind \in Requests, members \in {ToRefresh, ToStop} :
          /\ Spend("requests", MaxRequests)
          /\ Begins(w, kind, members)
          /\ MoveOp({"created", "running"}, "canceling") \/ UNCHANGED op
    BY <1>4 DEF Request
  <2>2. [Idle EXCEPT !.kind = kind, !.todo = members] \in Worker
    BY IdleType, RequestsAssumption DEF Worker, Kinds, ToRefresh, ToStop, Members
  <2>3. work' \in [Workers -> Worker]
    BY <2>1, <2>2, ProceedEffect, WorkerMoves DEF Begins, Workers
  <2>4. op' \in {"none"} \cup OpActive \cup OpOver
    BY <2>1 DEF MoveOp, TypeOK, OpActive
  <2>5. used' \in [{"requests", "lost", "faults", "stops", "restarts"} -> Nat]
    BY <2>1, SpendType
  <2>6. UNCHANGED <<task, row, session, chat, tool>>
    BY <1>4 DEF Request
  <2> QED BY <2>3, <2>4, <2>5, <2>6 DEF TypeOK, EdgeTypeOK
<1>5. CASE Agent
  <2>1. EdgeTypeOK'
    BY <1>5, EdgeTypes DEF Agent, TypeOK
  <2> QED BY <1>5, <2>1 DEF Agent, TypeOK, db
<1>6. CASE ManagerStops
  <2>1. tool' \in Tool
    BY <1>6 DEF ManagerStops, TypeOK, Tool
  <2>2. work' \in [Workers -> Worker]
    BY <1>6, IdleType DEF ManagerStops
  <2>3. used' \in [{"requests", "lost", "faults", "stops", "restarts"} -> Nat]
    BY <1>6, SpendType DEF ManagerStops
  <2> QED BY <1>6, <2>1, <2>2, <2>3 DEF ManagerStops, TypeOK, EdgeTypeOK, db
<1>7. CASE AgentRestarts
  <2>1. EdgeTypeOK'
    BY <1>7, EdgeTypes DEF AgentRestarts, TypeOK
  <2>2. used' \in [{"requests", "lost", "faults", "stops", "restarts"} -> Nat]
    BY <1>7, SpendType DEF AgentRestarts
  <2> QED BY <1>7, <2>1, <2>2 DEF AgentRestarts, TypeOK, db
<1>8. ASSUME NEW w \in Workers, WorkerStep(w) PROVE TypeOK'
  BY <1>8, WorkerTypes DEF WorkInv
<1> QED BY <1>1, <1>2, <1>3, <1>4, <1>5, <1>6, <1>7, <1>8 DEF Next

------------------------------------------------------------------------------
(* Where the tool is.                                                          *)

LEMMA CapturesAreNumbers == Captures \subseteq Nat
BY CapturesAssumption

\* A capture the tool is through with is neither the one it is at nor ahead.
LEMMA PassedIsBehind ==
  ASSUME TypeOK, ToolInv, NEW c \in Captures, Passed(c)
  PROVE  ~Fresh(c) /\ (tool.pc \in Placing => c # tool.c)
<1>1. c \in Nat /\ (tool.pc \in Placing => tool.c \in Nat)
  BY CapturesAreNumbers DEF ToolInv
<1> QED BY <1>1 DEF Passed, Fresh, Placing

\* Going on to the next member puts the current one behind.
LEMMA NextPlaces ==
  ASSUME TypeOK, ToolInv, tool.pc \in {"idle", "dispatch", "persist"},
         NEW t \in Tool, t.c = tool.c, tool' = NextMember(t)
  PROVE  /\ tool'.pc \in {"insert", "close"}
         /\ tool'.pc \in Placing => tool'.c \in Captures
         /\ \A c \in Captures :
              /\ Fresh(c)' => Fresh(c) /\ (tool.pc \in Placing => c # tool.c)
              /\ Passed(c) => Passed(c)'
              /\ tool.pc \in Placing /\ c = tool.c => Passed(c)'
<1>1. \/ tool'.pc = "close"
      \/ tool'.pc = "insert" /\ tool'.c \in Captures /\ tool.c < tool'.c
  BY NextMemberEffect
<1>2. tool.pc \in Placing => tool.c \in Nat
  BY CapturesAreNumbers DEF ToolInv
<1>3. ASSUME NEW c \in Captures, tool'.pc = "insert", tool'.c \in Captures, tool.c < tool'.c
      PROVE  /\ Fresh(c)' => Fresh(c) /\ (tool.pc \in Placing => c # tool.c)
             /\ Passed(c) => Passed(c)'
             /\ tool.pc \in Placing /\ c = tool.c => Passed(c)'
  <2>1. c \in Nat /\ tool'.c \in Nat
    BY <1>3, CapturesAreNumbers
  <2>2. CASE tool.pc = "idle"
    BY <2>2, <1>3 DEF Fresh, Passed, Placing
  <2>3. CASE tool.pc \in {"dispatch", "persist"}
    BY <2>1, <2>3, <1>2, <1>3 DEF Fresh, Passed, Placing
  <2> QED BY <2>2, <2>3
<1>4. CASE tool'.pc = "close"
  BY <1>4 DEF Fresh, Passed, Placing
<1> QED BY <1>1, <1>3, <1>4

\* A worker's knowledge survives what happens to captures the tool is at.
LEMMA FitBehind ==
  ASSUME UNCHANGED chat, NEW v, Fit(v),
         \A c \in Captures : Passed(c) => Passed(c)' /\ row'[c] = row[c] /\ task'[c] = task[c]
  PROVE  Fit(v)'
BY DEF Fit, Asked, Owning, Ingest

LEMMA FitKept ==
  ASSUME UNCHANGED <<row, task, tool, chat>>, NEW v
  PROVE  Fit(v)' <=> Fit(v)
BY DEF Fit, Passed

LEMMA ToolNext ==
  ASSUME TypeOK, ToolInv, WorkInv, OneOwner, TellInv, ToolStep
  PROVE  ToolInv' /\ WorkInv' /\ OneOwner' /\ TellInv'
<1>1. /\ tool \in Tool /\ row \in [Captures -> Row] /\ task \in [Captures -> Task]
      /\ Captures \subseteq Nat
  BY CapturesAreNumbers DEF TypeOK, EdgeTypeOK
<1>2. UNCHANGED <<work, chat>>
  BY DEF ToolStep, CreateSession, InsertMember, DispatchMember, DispatchFails, PersistMember,
         CloseSession, OpenOperation, BindOperation, db
<1>3. ASSUME \A c \in Captures :
               Passed(c) => Passed(c)' /\ row'[c] = row[c] /\ task'[c] = task[c]
      PROVE  WorkInv' /\ OneOwner'
  BY <1>2, <1>3, FitBehind DEF WorkInv, OneOwner
<1>4. ASSUME tool'.pc \in Placing \cup {"idle", "close", "operate"} =>
               op' = op /\ tool.pc \in Placing \cup {"idle", "close", "operate"},
             session'.notified => session.notified
      PROVE  TellInv'
  BY <1>2, <1>4 DEF TellInv
<1>5. CASE CreateSession
  <2>1. tool.pc = "idle" /\ tool' = NextMember(tool) /\ UNCHANGED <<row, task, op>>
    BY <1>5 DEF CreateSession
  <2>2. session'.notified = session.notified
    BY <1>5 DEF CreateSession, TypeOK, Session
  <2>3. ToolInv'
    BY <1>1, <2>1, NextPlaces DEF ToolInv, Fresh, Placing
  <2> QED BY <1>1, <1>3, <1>4, <2>1, <2>2, <2>3, NextPlaces DEF Placing
<1>6. CASE InsertMember
  <2>1. /\ tool.pc = "insert" /\ tool.c \in Captures /\ UNCHANGED <<task, op, session>>
        /\ row' = [row EXCEPT ![tool.c].state = "queued"]
        /\ tool'.pc = "dispatch" /\ tool'.c = tool.c
    BY <1>1, <1>6 DEF InsertMember, ToolInv, Placing, Tool
  <2>2. /\ \A c \in Captures \ {tool.c} : row'[c] = row[c]
        /\ row'[tool.c].raw = row[tool.c].raw /\ row'[tool.c].parsed = row[tool.c].parsed
        /\ row'[tool.c].resolved = row[tool.c].resolved
    BY <1>1, <2>1 DEF Row
  <2>3. row[tool.c] = NoRow /\ task[tool.c] = NoTask
    BY <1>1, <2>1 DEF ToolInv, Fresh
  <2>4. \A c \in Captures :
             /\ Passed(c) => Passed(c)' /\ c # tool.c
             /\ Fresh(c)' => Fresh(c) /\ c # tool.c
    BY <1>1, <2>1 DEF Passed, Fresh, Placing
  <2>5. ToolInv'
    BY <2>1, <2>2, <2>3, <2>4 DEF ToolInv, NoRow, Placing
  <2> QED BY <1>3, <1>4, <2>1, <2>2, <2>4, <2>5 DEF Placing
<1>7. CASE DispatchMember
  <2>1. /\ tool.pc = "dispatch" /\ tool.c \in Captures /\ UNCHANGED <<row, op, session>>
        /\ StartTask(tool.c) /\ tool'.pc = "persist" /\ tool'.c = tool.c
    BY <1>1, <1>7 DEF DispatchMember, ToolInv, Placing, Tool, db
  <2>2. \A c \in Captures \ {tool.c} : task'[c] = task[c]
    BY <1>1, <2>1 DEF StartTask
  <2>3. \A c \in Captures :
             /\ Passed(c) => Passed(c)' /\ c # tool.c
             /\ Fresh(c)' => Fresh(c) /\ c # tool.c
    BY <1>1, <2>1 DEF Passed, Fresh, Placing
  <2>4. ToolInv'
    BY <2>1, <2>2, <2>3 DEF ToolInv, Placing
  <2> QED BY <1>3, <1>4, <2>1, <2>2, <2>3, <2>4 DEF Placing
<1>8. CASE DispatchFails
  <2>1. /\ tool.pc = "dispatch" /\ tool.c \in Captures /\ UNCHANGED <<op, session>>
        /\ UNCHANGED task \/ StartTask(tool.c)
        /\ row' = [row EXCEPT ![tool.c].state = "gone"]
        /\ tool' = NextMember([tool EXCEPT !.failed = TRUE])
    BY <1>1, <1>8 DEF DispatchFails, ToolInv, Placing
  <2>2. /\ \A c \in Captures \ {tool.c} : task'[c] = task[c] /\ row'[c] = row[c]
        /\ row'[tool.c].raw = row[tool.c].raw /\ row'[tool.c].parsed = row[tool.c].parsed
        /\ row'[tool.c].resolved = row[tool.c].resolved
    BY <1>1, <2>1 DEF StartTask, Row
  <2>3. [tool EXCEPT !.failed = TRUE] \in Tool /\ [tool EXCEPT !.failed = TRUE].c = tool.c
    BY <1>1 DEF Tool
  <2>4. /\ tool'.pc \in {"insert", "close"}
        /\ tool'.pc \in Placing => tool'.c \in Captures
        /\ \A c \in Captures :
                /\ Fresh(c)' => Fresh(c) /\ c # tool.c
                /\ Passed(c) => Passed(c)' /\ c # tool.c
    BY <2>1, <2>3, NextPlaces, PassedIsBehind DEF Placing
  <2>5. ~row[tool.c].raw /\ ~row[tool.c].parsed /\ ~row[tool.c].resolved
    BY <2>1, <2>4 DEF ToolInv
  <2>6. ToolInv'
    <3>1. ASSUME NEW c \in Captures, c # tool.c
          PROVE  /\ Fresh(c)' => row'[c] = NoRow /\ task'[c] = NoTask
                 /\ row'[c].resolved \/ row'[c].raw \/ row'[c].parsed => Passed(c)'
                 /\ row'[c].parsed => row'[c].raw /\ row'[c].state # "gone"
                 /\ row'[c].raw => task'[c].state \in {"succeeded", "none"}
      BY <3>1, <2>1, <2>2, <2>4 DEF ToolInv
    <3>2. ASSUME NEW c \in Captures, c = tool.c
          PROVE  /\ ~Fresh(c)'
                 /\ row'[c].resolved => Passed(c)'
                 /\ ~row'[c].raw /\ ~row'[c].parsed
      BY <3>2, <2>2, <2>4, <2>5
    <3> QED BY <2>4, <3>1, <3>2 DEF ToolInv
  <2> QED BY <1>3, <1>4, <2>1, <2>2, <2>4, <2>6 DEF Placing
<1>9. CASE PersistMember
  <2>1. /\ tool.pc = "persist" /\ tool.c \in Captures /\ UNCHANGED <<task, op, session>>
        /\ tool' = NextMember([tool EXCEPT !.made = TRUE])
    BY <1>1, <1>9 DEF PersistMember, ToolInv, Placing
  <2>2. /\ \A c \in Captures \ {tool.c} : row'[c] = row[c]
        /\ row'[tool.c].raw = row[tool.c].raw /\ row'[tool.c].parsed = row[tool.c].parsed
    BY <1>1, <1>9 DEF PersistMember, Row
  <2>3. [tool EXCEPT !.made = TRUE] \in Tool /\ [tool EXCEPT !.made = TRUE].c = tool.c
    BY <1>1 DEF Tool
  <2>4. /\ tool'.pc \in {"insert", "close"}
        /\ tool'.pc \in Placing => tool'.c \in Captures
        /\ \A c \in Captures :
                /\ Fresh(c)' => Fresh(c) /\ c # tool.c
                /\ Passed(c) => Passed(c)' /\ c # tool.c
                /\ c = tool.c => Passed(c)'
    BY <2>1, <2>3, NextPlaces, PassedIsBehind DEF Placing
  <2>5. ~row[tool.c].raw /\ ~row[tool.c].parsed
    BY <2>1, <2>4 DEF ToolInv
  <2>6. ToolInv'
    <3>1. ASSUME NEW c \in Captures, c # tool.c
          PROVE  /\ Fresh(c)' => row'[c] = NoRow /\ task'[c] = NoTask
                 /\ row'[c].resolved \/ row'[c].raw \/ row'[c].parsed => Passed(c)'
                 /\ row'[c].parsed => row'[c].raw /\ row'[c].state # "gone"
                 /\ row'[c].raw => task'[c].state \in {"succeeded", "none"}
      BY <3>1, <2>1, <2>2, <2>4 DEF ToolInv
    <3>2. ASSUME NEW c \in Captures, c = tool.c
          PROVE  /\ ~Fresh(c)'
                 /\ row'[c].resolved => Passed(c)'
                 /\ ~row'[c].raw /\ ~row'[c].parsed
      BY <3>2, <2>2, <2>4, <2>5
    <3> QED BY <2>4, <3>1, <3>2 DEF ToolInv
  <2> QED BY <1>3, <1>4, <2>1, <2>2, <2>4, <2>6 DEF Placing
<1>10. CASE CloseSession \/ OpenOperation \/ BindOperation
  <2>1. UNCHANGED <<row, task>>
    BY <1>10 DEF CloseSession, OpenOperation, BindOperation
  <2>2. tool.pc \in {"close", "operate", "bind"} /\ tool'.pc \in {"operate", "bind", "done"}
    BY <1>1, <1>10 DEF CloseSession, OpenOperation, BindOperation, Tool
  <2>3. tool'.pc = "operate" => tool.pc = "close" /\ UNCHANGED op
    BY <1>1, <1>10 DEF CloseSession, OpenOperation, BindOperation, Tool
  <2>4. session'.notified = session.notified
    BY <1>10 DEF CloseSession, OpenOperation, BindOperation, TypeOK, Session
  <2>5. \A c \in Captures : Passed(c)' /\ ~Fresh(c)'
    BY <2>2 DEF Passed, Fresh, Placing
  <2>6. ToolInv'
    BY <2>1, <2>2, <2>5 DEF ToolInv, Placing
  <2> QED BY <1>3, <1>4, <2>1, <2>2, <2>3, <2>4, <2>5, <2>6 DEF Placing
<1> QED BY <1>5, <1>6, <1>7, <1>8, <1>9, <1>10 DEF ToolStep

------------------------------------------------------------------------------
(* The edge.                                                                   *)

\* A task nobody has started stays away, and one that is over stays as it is
\* until the agent forgets it.
LEMMA EdgeMoves ==
  ASSUME EdgeTypeOK, NEW c \in Captures,
         \/ \E d \in Captures : EdgeStep(d) \/ \E stop \in BOOLEAN : CancelTask(d, stop)
         \/ EdgeForgets
  PROVE  /\ task[c] = NoTask => task'[c] = NoTask
         /\ \A s \in {"succeeded", "failed"} :
              task[c].state \in {s, "none"} => task'[c].state \in {s, "none"}
<1>1. task \in [Captures -> Task]
  BY DEF EdgeTypeOK
<1>2. ASSUME NEW d \in Captures, EdgeStep(d)
      PROVE  /\ task[d].state \in Live
             /\ \A e \in Captures \ {d} : task'[e] = task[e]
  BY <1>1, <1>2 DEF EdgeStep, SeesTurn, CanRun, Runs, GivesUp, Ends, Live
<1>3. ASSUME NEW d \in Captures, NEW stop \in BOOLEAN, CancelTask(d, stop)
      PROVE  /\ \A e \in Captures \ {d} : task'[e] = task[e]
             /\ task[d].state # "none"
             /\ task[d].state \in Live \/ task' = task
  BY <1>1, <1>3 DEF CancelTask
<1>4. CASE EdgeForgets
  BY <1>4 DEF EdgeForgets, NoTask
<1> QED BY <1>2, <1>3, <1>4 DEF NoTask, Live

\* Nothing the edge does by itself disturbs what the manager goes by.
LEMMA EdgeKeeps ==
  ASSUME TypeOK, ToolInv, UNCHANGED <<row, tool, chat>>,
         \/ \E d \in Captures : EdgeStep(d) \/ \E stop \in BOOLEAN : CancelTask(d, stop)
         \/ EdgeForgets
  PROVE  ToolInv' /\ \A v : Fit(v) => Fit(v)'
<1>1. \A c \in Captures :
        /\ task[c] = NoTask => task'[c] = NoTask
        /\ task[c].state \in {"succeeded", "none"} => task'[c].state \in {"succeeded", "none"}
        /\ task[c].state \in {"failed", "none"} => task'[c].state \in {"failed", "none"}
  BY EdgeMoves DEF TypeOK
<1>2. \A c : (Passed(c)' <=> Passed(c)) /\ (Fresh(c)' <=> Fresh(c))
  BY DEF Passed, Fresh
<1>3. ToolInv'
  BY <1>1, <1>2 DEF ToolInv
<1>4. ASSUME NEW v, Fit(v) PROVE Fit(v)'
  BY <1>1, <1>2, <1>4 DEF Fit, Asked
<1> QED BY <1>3, <1>4

------------------------------------------------------------------------------
(* The workers.                                                                *)

\* One worker moves on, nobody else loses what it knows, and an owner is one
\* already or finds no other.
LEMMA WorkerMoved ==
  ASSUME OneOwner, NEW w \in Workers, NEW nv, work'[w] = nv, Fit(nv)',
         \A u \in Workers \ {w} : work'[u] = work[u],
         \A u \in Workers \ {w} : \A v : v = work[u] => Fit(v)',
         \/ nv.pc \notin Owning
         \/ work[w].pc \in Owning /\ nv.c = work[w].c
         \/ \A u \in Workers \ {w} : work[u].pc \in Owning => work[u].c # nv.c
  PROVE  WorkInv' /\ OneOwner'
<1>1. WorkInv'
  <2> SUFFICES ASSUME NEW u \in Workers PROVE Fit(work[u])'
    BY DEF WorkInv
  <2>1. PICK x : x = work'[u]
    OBVIOUS
  <2>2. Fit(x)'
    BY <2>1
  <2> QED BY <2>1, <2>2 DEF Fit
<1>2. OneOwner'
  BY DEF OneOwner
<1> QED BY <1>1, <1>2

\* It moves on without touching anything its peers go by.
LEMMA QuietWorker ==
  ASSUME ToolInv, WorkInv, OneOwner, UNCHANGED <<row, task, tool, chat>>,
         NEW w \in Workers, NEW nv, work'[w] = nv, Fit(nv),
         \A u \in Workers \ {w} : work'[u] = work[u],
         nv.pc \notin Owning \/ (work[w].pc \in Owning /\ nv.c = work[w].c)
  PROVE  ToolInv' /\ WorkInv' /\ OneOwner'
<1>1. ToolInv'
  BY DEF ToolInv, Fresh, Passed
<1>2. \A v : Fit(v) => Fit(v)'
  BY FitKept
<1>3. WorkInv' /\ OneOwner'
  BY <1>2, WorkerMoved DEF WorkInv
<1> QED BY <1>1, <1>3

\* It changes the row of one capture the tool is through with.
LEMMA RowWorker ==
  ASSUME TypeOK, ToolInv, WorkInv, OneOwner, UNCHANGED <<task, tool, chat>>,
         NEW w \in Workers, NEW nv, work'[w] = nv,
         \A u \in Workers \ {w} : work'[u] = work[u],
         NEW c \in Captures, Passed(c), \A d \in Captures \ {c} : row'[d] = row[d],
         row'[c].parsed => row'[c].raw /\ row'[c].state # "gone",
         row'[c].raw => task[c].state \in {"succeeded", "none"},
         Fit(nv)',
         \A u \in Workers \ {w} : work[u].c = c =>
           /\ work[u].pc = "discard" => ~row'[c].raw /\ ~row'[c].parsed
           /\ work[u].pc = "parse" => row'[c].raw
           /\ work[u].pc \in Owning => row'[c].state \in {"parsing", "gone"},
         \/ nv.pc \notin Owning
         \/ work[w].pc \in Owning /\ nv.c = work[w].c
         \/ \A u \in Workers \ {w} : work[u].pc \in Owning => work[u].c # nv.c
  PROVE  ToolInv' /\ WorkInv' /\ OneOwner'
<1>1. \A d : (Passed(d)' <=> Passed(d)) /\ (Fresh(d)' <=> Fresh(d))
  BY DEF Passed, Fresh
<1>2. ToolInv'
  BY <1>1, PassedIsBehind DEF ToolInv
<1>3. ASSUME NEW u \in Workers \ {w}, NEW v, v = work[u] PROVE Fit(v)'
  <2>1. Fit(v)
    BY <1>3 DEF WorkInv
  <2>2. v.pc \in Asked => v.c \in Captures
    BY <2>1 DEF Fit
  <2>3. v.pc \in Owning \cup {"parse", "discard"} => v.pc \in Asked
    BY DEF Asked, Owning, Ingest
  <2>4. CASE v.c = c
    BY <1>1, <1>3, <2>1, <2>2, <2>3, <2>4 DEF Fit
  <2>5. CASE v.c # c
    BY <1>1, <1>3, <2>1, <2>2, <2>3, <2>5 DEF Fit
  <2> QED BY <2>4, <2>5
<1>4. WorkInv' /\ OneOwner'
  BY <1>3, WorkerMoved
<1> QED BY <1>2, <1>4

\* The completion is told by the session alone, and the operation moves only
\* once it is there.
LEMMA TellKept ==
  ASSUME TellInv, UNCHANGED <<tool, chat>>, session'.notified => session.notified \/ chat # <<>>,
         op = "none" => op' = "none"
  PROVE  TellInv'
BY DEF TellInv

\* What one asks of the edge and hears from it.
LEMMA AskNext ==
  ASSUME TypeOK, ToolInv, WorkInv, OneOwner, TellInv, NEW w \in Workers,
         AskFails(w) \/ AskState(w) \/ AskToEnd(w) \/ Answer(w)
  PROVE  ToolInv' /\ WorkInv' /\ OneOwner' /\ TellInv'
<1>1. PICK v : v = work[w]
  OBVIOUS
<1>2. PICK nv : nv = work'[w]
  OBVIOUS
<1>3. v \in Worker /\ Fit(v)
  BY <1>1, WorkerMoves DEF WorkInv
<1>4. v.pc \in {"ask", "answer"} /\ v.c \in Captures
  BY <1>1, <1>3 DEF AskFails, AskState, AskToEnd, Answer, At, Fit, Asked
<1>5. Reachable(v.c) => Passed(v.c)
  BY <1>4 DEF Reachable, ToolInv
<1>6. TellInv'
  BY TellKept DEF AskFails, AskState, AskToEnd, Answer, db
<1>7. ASSUME Goes(w)
      PROVE  nv = Proceed(v) /\ Fit(nv) /\ nv.pc \notin Owning
             /\ \A u \in Workers \ {w} : work'[u] = work[u]
  <2>1. nv = Proceed(v) /\ \A u \in Workers \ {w} : work'[u] = work[u]
    BY <1>1, <1>2, <1>7, WorkerMoves
  <2>2. \/ nv.pc = "analyze"
        \/ nv.pc = "ask" /\ nv.c \in Captures
    BY <1>3, <2>1, ProceedEffect
  <2> QED BY <2>1, <2>2 DEF Fit, Asked, Owning, Ingest
<1>8. CASE AskFails(w)
  BY <1>2, <1>6, <1>7, <1>8, QuietWorker DEF AskFails, db
<1>9. CASE AskState(w)
  <2>1. PICK pc \in {"discard", "apply"} :
          /\ work' = [work EXCEPT ![w] = [v EXCEPT !.seen = task[v.c].state, !.pc = pc]]
          /\ pc = "discard" => task[v.c].state = "failed"
    BY <1>1, <1>9 DEF AskState, TypeOK
  <2>2. nv = [v EXCEPT !.seen = task[v.c].state, !.pc = pc]
        /\ \A u \in Workers \ {w} : work'[u] = work[u]
    BY <1>2, <2>1 DEF TypeOK
  <2>3. nv.pc = pc /\ nv.c = v.c
    BY <1>3, <2>2 DEF Worker
  <2>4. Passed(v.c)
    BY <1>1, <1>5, <1>9 DEF AskState
  <2>5. pc = "discard" => ~row[v.c].raw /\ ~row[v.c].parsed
    BY <1>4, <2>1 DEF ToolInv
  <2>6. Fit(nv)
    BY <1>4, <2>1, <2>3, <2>4, <2>5 DEF Fit, Asked, Owning, Ingest
  <2>7. nv.pc \notin Owning
    BY <2>3 DEF Owning, Ingest
  <2> QED BY <1>2, <1>6, <1>9, <2>2, <2>6, <2>7, QuietWorker DEF AskState, db
<1>10. CASE AskToEnd(w)
  <2>1. nv = [v EXCEPT !.pc = "answer"] /\ \A u \in Workers \ {w} : work'[u] = work[u]
    BY <1>1, <1>2, <1>10, WorkerMoves DEF AskToEnd, Pcs
  <2>2. nv.pc = "answer" /\ nv.c = v.c
    BY <1>3, <2>1 DEF Worker
  <2>3. Passed(v.c)
    BY <1>1, <1>5, <1>10 DEF AskToEnd
  <2>4. Fit(nv)
    BY <1>4, <2>2, <2>3 DEF Fit, Asked, Owning, Ingest
  <2>5. UNCHANGED <<row, tool, chat>>
    BY <1>10 DEF AskToEnd, db
  <2>6. CancelTask(v.c, v.kind = "stop")
    BY <1>1, <1>10 DEF AskToEnd
  <2>7. \E d \in Captures : EdgeStep(d) \/ \E stop \in BOOLEAN : CancelTask(d, stop)
    BY <1>4, <2>6
  <2>8. ToolInv' /\ \A x : Fit(x) => Fit(x)'
    BY <2>5, <2>7, EdgeKeeps
  <2>9. nv.pc \notin Owning
    BY <2>2 DEF Owning, Ingest
  <2>10. WorkInv' /\ OneOwner'
    <3>1. Fit(nv)'
      BY <2>4, <2>8
    <3>2. \A u \in Workers \ {w} : \A x : x = work[u] => Fit(x)'
      BY <2>8 DEF WorkInv
    <3>3. work'[w] = nv
      BY <1>2
    <3> QED BY <2>1, <2>9, <3>1, <3>2, <3>3, WorkerMoved
  <2> QED BY <1>6, <2>8, <2>10
<1>11. CASE Answer(w)
  <2>1. CASE Goes(w)
    BY <1>2, <1>6, <1>7, <1>11, <2>1, QuietWorker DEF Answer, db
  <2>2. CASE work' = [work EXCEPT ![w].seen = task[work[w].c].state, ![w].pc = "apply"]
    <3>1. work' = [work EXCEPT ![w] = [v EXCEPT !.seen = task[v.c].state, !.pc = "apply"]]
      BY <1>1, <2>2 DEF TypeOK
    <3>2. nv = [v EXCEPT !.seen = task[v.c].state, !.pc = "apply"]
          /\ \A u \in Workers \ {w} : work'[u] = work[u]
      BY <1>2, <3>1 DEF TypeOK
    <3>3. nv.pc = "apply" /\ nv.c = v.c /\ v.pc = "answer"
      BY <1>1, <1>3, <1>11, <3>2 DEF Worker, Answer, At
    <3>4. Passed(v.c)
      BY <1>3, <3>3 DEF Fit, Asked
    <3>5. Fit(nv) /\ nv.pc \notin Owning
      BY <1>4, <3>3, <3>4 DEF Fit, Asked, Owning, Ingest
    <3> QED BY <1>2, <1>6, <1>11, <3>2, <3>5, QuietWorker DEF Answer, db
  <2> QED BY <1>11, <2>1, <2>2 DEF Answer
<1> QED BY <1>8, <1>9, <1>10, <1>11

\* What one does with the row of the capture it is at.
LEMMA RowNext ==
  ASSUME TypeOK, ToolInv, WorkInv, OneOwner, TellInv, NEW w \in Workers,
         Discard(w) \/ Apply(w) \/ IngestStep(w)
  PROVE  ToolInv' /\ WorkInv' /\ OneOwner' /\ TellInv'
<1>1. PICK v : v = work[w]
  OBVIOUS
<1>2. PICK nv : nv = work'[w]
  OBVIOUS
<1>3. v \in Worker /\ Fit(v)
  BY <1>1, WorkerMoves DEF WorkInv
<1>4. v.c \in Captures /\ Passed(v.c)
  BY <1>1, <1>3 DEF Discard, Apply, IngestStep, Inspect, Claim, ReadRaw, ReadFails, Parse,
     ParseFails, Publish, Preserve, At, Fit, Asked, Owning, Ingest
<1>5. PICK c \in Captures : c = v.c
  BY <1>4
<1>6. /\ row \in [Captures -> Row] /\ row[c] \in Row /\ Passed(c) /\ (Passed(c)' <=> Passed(c))
      /\ row[c].parsed => row[c].raw /\ row[c].state # "gone"
      /\ row[c].raw => task[c].state \in {"succeeded", "none"}
  <2>1. UNCHANGED tool
    BY DEF Discard, Apply, IngestStep, Inspect, Claim, ReadRaw, ReadFails, Parse,
       ParseFails, Publish, Preserve
  <2> QED BY <1>4, <1>5, <2>1 DEF TypeOK, ToolInv, Passed
<1>7. UNCHANGED <<task, tool, chat>> /\ TellInv'
  <2>1. UNCHANGED <<task, session, op, tool, chat>>
    BY DEF Discard, Apply, IngestStep, Inspect, Claim, ReadRaw, ReadFails, Parse,
       ParseFails, Publish, Preserve, db
  <2> QED BY <2>1, TellKept
<1>8. ASSUME Goes(w)
      PROVE  Fit(nv) /\ Fit(nv)' /\ nv.pc \notin Owning
             /\ \A u \in Workers \ {w} : work'[u] = work[u]
  <2>1. nv = Proceed(v) /\ \A u \in Workers \ {w} : work'[u] = work[u]
    BY <1>1, <1>2, <1>8, WorkerMoves
  <2>2. \/ nv.pc = "analyze"
        \/ nv.pc = "ask" /\ nv.c \in Captures
    BY <1>3, <2>1, ProceedEffect
  <2> QED BY <2>1, <2>2 DEF Fit, Asked, Owning, Ingest
<1>9. ASSUME NEW pc \in Pcs, Goto(w, pc)
      PROVE  nv.pc = pc /\ nv.c = c /\ \A u \in Workers \ {w} : work'[u] = work[u]
  <2>1. nv = [v EXCEPT !.pc = pc] /\ \A u \in Workers \ {w} : work'[u] = work[u]
    BY <1>1, <1>2, <1>9, WorkerMoves
  <2> QED BY <1>3, <1>5, <2>1 DEF Worker
<1>10. \A u \in Workers \ {w} : work[u].c = c =>
         /\ work[u].pc = "discard" => /\ ~row[c].raw /\ ~row[c].parsed
                                      /\ task[c].state \in {"failed", "none"}
         /\ work[u].pc = "parse" => row[c].raw
         /\ work[u].pc \in Owning => row[c].state \in {"parsing", "gone"}
  BY DEF WorkInv, Fit
<1>11. v.pc \in Owning => \A u \in Workers \ {w} : work[u].pc \in Owning => work[u].c # c
  BY <1>1, <1>5 DEF OneOwner
<1>12. \A from, to : UNCHANGED <<task, tool, chat>> /\ row' = Moved(c, from, to) =>
         /\ \A d \in Captures \ {c} : row'[d] = row[d]
         /\ row'[c].raw = row[c].raw /\ row'[c].parsed = row[c].parsed
         /\ row'[c].state = IF row[c].state \in from THEN to ELSE row[c].state
  BY <1>6 DEF Moved, Row
<1>13. CASE Discard(w)
  <2>1. v.pc = "discard" /\ row' = [row EXCEPT ![c].state = "gone"] /\ Goes(w)
    BY <1>1, <1>5, <1>13 DEF Discard, At
  <2>2. ~row[c].raw /\ ~row[c].parsed
    BY <1>3, <1>5, <2>1 DEF Fit
  <2>3. /\ \A d \in Captures \ {c} : row'[d] = row[d]
        /\ ~row'[c].raw /\ ~row'[c].parsed /\ row'[c].state = "gone"
        /\ row'[c].raw = row[c].raw
    BY <1>6, <2>1, <2>2 DEF Row
  <2> QED BY <1>2, <1>6, <1>7, <1>8, <1>10, <2>1, <2>3, RowWorker
<1>14. CASE Apply(w)
  <2>1. row' = Moved(c, Refreshable, Mirror[v.seen])
        /\ v.pc = "apply" /\ (Goes(w) \/ Goto(w, "inspect"))
    BY <1>1, <1>5, <1>14 DEF Apply, At
  <2>2. Mirror[v.seen] # "gone"
    BY <1>3, MirrorType DEF Worker
  <2>3. /\ \A d \in Captures \ {c} : row'[d] = row[d]
        /\ row'[c].raw = row[c].raw /\ row'[c].parsed = row[c].parsed
        /\ row'[c].state = IF row[c].state \in Refreshable THEN Mirror[v.seen] ELSE row[c].state
    BY <1>7, <1>12, <2>1
  <2>4. /\ Fit(nv)' /\ nv.pc \notin Owning
        /\ \A u \in Workers \ {w} : work'[u] = work[u]
    <3>1. CASE Goes(w)
      BY <1>8, <3>1
    <3>2. CASE Goto(w, "inspect")
      BY <1>6, <1>9, <3>2 DEF Fit, Asked, Owning, Ingest, Pcs
    <3> QED BY <2>1, <3>1, <3>2
  <2> QED BY <1>2, <1>6, <1>7, <1>10, <2>2, <2>3, <2>4, RowWorker DEF Refreshable
<1>15. CASE Inspect(w)
  <2>1. UNCHANGED <<row, task, tool, chat>> /\ (Goes(w) \/ Goto(w, "claim"))
    BY <1>15 DEF Inspect, db
  <2>2. /\ Fit(nv) /\ nv.pc \notin Owning
        /\ \A u \in Workers \ {w} : work'[u] = work[u]
    <3>1. CASE Goes(w)
      BY <1>8, <3>1
    <3>2. CASE Goto(w, "claim")
      BY <1>6, <1>9, <3>2 DEF Fit, Asked, Owning, Ingest, Pcs
    <3> QED BY <2>1, <3>1, <3>2
  <2> QED BY <1>2, <1>7, <2>1, <2>2, QuietWorker
<1>16. CASE Claim(w)
  <2>1. row' = Moved(c, {"ready"}, "parsing") /\ v.pc = "claim"
        /\ (Goes(w) \/ (row[c].state = "ready" /\ Goto(w, "read")))
    BY <1>1, <1>5, <1>16 DEF Claim, At
  <2>2. /\ \A d \in Captures \ {c} : row'[d] = row[d]
        /\ row'[c].raw = row[c].raw /\ row'[c].parsed = row[c].parsed
        /\ row'[c].state = IF row[c].state = "ready" THEN "parsing" ELSE row[c].state
    BY <1>7, <1>12, <2>1
  <2>3. CASE Goes(w)
    BY <1>2, <1>6, <1>7, <1>8, <1>10, <2>2, <2>3, RowWorker
  <2>4. CASE row[c].state = "ready" /\ Goto(w, "read")
    <3>1. nv.pc = "read" /\ nv.c = c /\ \A u \in Workers \ {w} : work'[u] = work[u]
      BY <1>9, <2>4 DEF Pcs, Ingest
    <3>2. Fit(nv)'
      BY <1>6, <2>2, <2>4, <3>1 DEF Fit, Asked, Owning, Ingest
    <3>3. \A u \in Workers \ {w} : work[u].pc \in Owning => work[u].c # nv.c
      BY <1>10, <2>4, <3>1
    <3> QED BY <1>2, <1>6, <1>7, <1>10, <2>2, <3>1, <3>2, <3>3, RowWorker
  <2> QED BY <2>1, <2>3, <2>4
<1>17. CASE ReadRaw(w)
  <2>1. v.pc = "read" /\ row' = [row EXCEPT ![c].raw = TRUE] /\ Goto(w, "parse")
        /\ (row[c].raw \/ task[c].state = "succeeded")
    BY <1>1, <1>5, <1>17 DEF ReadRaw, At
  <2>2. /\ \A d \in Captures \ {c} : row'[d] = row[d]
        /\ row'[c].raw /\ row'[c].parsed = row[c].parsed /\ row'[c].state = row[c].state
    BY <1>6, <2>1 DEF Row
  <2>3. nv.pc = "parse" /\ nv.c = c /\ \A u \in Workers \ {w} : work'[u] = work[u]
    BY <1>9, <2>1 DEF Pcs, Ingest
  <2>4. v.pc \in Owning /\ row[c].state \in {"parsing", "gone"}
    BY <1>3, <1>5, <2>1 DEF Fit, Owning, Ingest
  <2>5. Fit(nv)'
    BY <1>6, <2>2, <2>3, <2>4 DEF Fit, Asked, Owning, Ingest
  <2>6. work[w].pc \in Owning /\ nv.c = work[w].c
    BY <1>1, <1>5, <2>3, <2>4
  <2>7. \A u \in Workers \ {w} : work[u].c = c =>
           /\ work[u].pc = "discard" => ~row'[c].raw /\ ~row'[c].parsed
           /\ work[u].pc = "parse" => row'[c].raw
           /\ work[u].pc \in Owning => row'[c].state \in {"parsing", "gone"}
    BY <1>10, <2>1, <2>2
  <2>8. row'[c].raw => task[c].state \in {"succeeded", "none"}
    BY <1>6, <2>1
  <2> QED BY <1>2, <1>6, <1>7, <2>2, <2>3, <2>5, <2>6, <2>7, <2>8, RowWorker
<1>18. CASE ReadFails(w) \/ ParseFails(w)
  <2>1. UNCHANGED <<row, task, tool, chat>> /\ v.pc \in {"read", "parse"} /\ Goto(w, "preserve")
    BY <1>1, <1>18 DEF ReadFails, ParseFails, At, db
  <2>2. nv.pc = "preserve" /\ nv.c = c /\ \A u \in Workers \ {w} : work'[u] = work[u]
    BY <1>9, <2>1 DEF Pcs
  <2>3. v.pc \in Owning /\ row[c].state \in {"parsing", "gone"}
    BY <1>3, <1>5, <2>1 DEF Fit, Owning, Ingest
  <2>4. Fit(nv)
    BY <1>6, <2>2, <2>3 DEF Fit, Asked, Owning, Ingest
  <2> QED BY <1>1, <1>2, <1>5, <1>7, <2>1, <2>2, <2>3, <2>4, QuietWorker
<1>19. CASE Parse(w)
  <2>1. v.pc = "parse" /\ row' = [row EXCEPT ![c].parsed = TRUE] /\ Goto(w, "publish")
        /\ row[c].state # "gone"
    BY <1>1, <1>5, <1>19 DEF Parse, At, Members
  <2>2. /\ \A d \in Captures \ {c} : row'[d] = row[d]
        /\ row'[c].raw = row[c].raw /\ row'[c].state = row[c].state
    BY <1>6, <2>1 DEF Row
  <2>3. nv.pc = "publish" /\ nv.c = c /\ \A u \in Workers \ {w} : work'[u] = work[u]
    BY <1>9, <2>1 DEF Pcs, Ingest
  <2>4. v.pc \in Owning /\ row[c].state \in {"parsing", "gone"} /\ row[c].raw
    BY <1>3, <1>5, <2>1 DEF Fit, Owning, Ingest
  <2>5. Fit(nv)'
    BY <1>6, <2>2, <2>3, <2>4 DEF Fit, Asked, Owning, Ingest
  <2>6. work[w].pc \in Owning /\ nv.c = work[w].c
    BY <1>1, <1>5, <2>3, <2>4
  <2>7. \A u \in Workers \ {w} : work[u].c = c =>
           /\ work[u].pc = "discard" => ~row'[c].raw /\ ~row'[c].parsed
           /\ work[u].pc = "parse" => row'[c].raw
           /\ work[u].pc \in Owning => row'[c].state \in {"parsing", "gone"}
    BY <1>10, <2>2, <2>4
  <2>8. /\ row'[c].parsed => row'[c].raw /\ row'[c].state # "gone"
        /\ row'[c].raw => task[c].state \in {"succeeded", "none"}
    BY <1>6, <2>1, <2>2, <2>4
  <2>9. /\ nv.pc \in Owning => work[w].pc \in Owning /\ nv.c = work[w].c
        /\ Passed(c) /\ UNCHANGED <<task, tool, chat>>
        /\ \A d \in Captures \ {c} : row'[d] = row[d]
        /\ \A u \in Workers \ {w} : work'[u] = work[u]
    BY <1>6, <1>7, <2>2, <2>3, <2>6
  <2> QED BY <1>2, <1>7, <2>5, <2>6, <2>7, <2>8, <2>9, RowWorker
<1>20. CASE Publish(w)
  <2>1. v.pc = "publish" /\ row' = Moved(c, {"parsing"}, "ready")
        /\ (Goes(w) \/ (row[c].state # "parsing" /\ Goto(w, "preserve")))
    BY <1>1, <1>5, <1>20 DEF Publish, At
  <2>2. /\ \A d \in Captures \ {c} : row'[d] = row[d]
        /\ row'[c].raw = row[c].raw /\ row'[c].parsed = row[c].parsed
        /\ row'[c].state = IF row[c].state = "parsing" THEN "ready" ELSE row[c].state
    BY <1>7, <1>12, <2>1
  <2>3. v.pc \in Owning /\ row[c].state \in {"parsing", "gone"}
    BY <1>3, <1>5, <2>1 DEF Fit, Owning, Ingest
  <2>4. \A u \in Workers \ {w} : work[u].c = c =>
           /\ work[u].pc = "discard" => ~row'[c].raw /\ ~row'[c].parsed
           /\ work[u].pc = "parse" => row'[c].raw
           /\ work[u].pc \in Owning => row'[c].state \in {"parsing", "gone"}
    BY <1>10, <1>11, <2>2, <2>3
  <2>5. CASE Goes(w)
    BY <1>2, <1>6, <1>7, <1>8, <2>2, <2>4, <2>5, RowWorker
  <2>6. CASE row[c].state # "parsing" /\ Goto(w, "preserve")
    <3>1. nv.pc = "preserve" /\ nv.c = c /\ \A u \in Workers \ {w} : work'[u] = work[u]
      BY <1>9, <2>6 DEF Pcs
    <3>2. Fit(nv)'
      BY <1>6, <2>2, <2>3, <2>6, <3>1 DEF Fit, Asked, Owning, Ingest
    <3>3. work[w].pc \in Owning /\ nv.c = work[w].c
      BY <1>1, <1>5, <2>3, <3>1
    <3>4. /\ row'[c].parsed => row'[c].raw /\ row'[c].state # "gone"
          /\ row'[c].raw => task[c].state \in {"succeeded", "none"}
      BY <1>6, <2>2
    <3>5. /\ Passed(c) /\ UNCHANGED <<task, tool, chat>>
          /\ \A d \in Captures \ {c} : row'[d] = row[d]
          /\ \A u \in Workers \ {w} : work'[u] = work[u]
      BY <1>6, <1>7, <2>2, <3>1
    <3> QED BY <1>2, <1>7, <2>4, <3>2, <3>3, <3>4, <3>5, RowWorker
  <2> QED BY <2>1, <2>5, <2>6
<1>21. CASE Preserve(w)
  <2>1. v.pc = "preserve" /\ row' = Moved(c, {"parsing"}, "failed") /\ Goes(w)
    BY <1>1, <1>5, <1>21 DEF Preserve, At
  <2>2. /\ \A d \in Captures \ {c} : row'[d] = row[d]
        /\ row'[c].raw = row[c].raw /\ row'[c].parsed = row[c].parsed
        /\ row'[c].state = IF row[c].state = "parsing" THEN "failed" ELSE row[c].state
    BY <1>7, <1>12, <2>1
  <2>3. v.pc \in Owning
    BY <2>1 DEF Owning
  <2>4. \A u \in Workers \ {w} : work[u].c = c =>
           /\ work[u].pc = "discard" => ~row'[c].raw /\ ~row'[c].parsed
           /\ work[u].pc = "parse" => row'[c].raw
           /\ work[u].pc \in Owning => row'[c].state \in {"parsing", "gone"}
    BY <1>10, <1>11, <2>2, <2>3
  <2> QED BY <1>2, <1>6, <1>7, <1>8, <2>1, <2>2, <2>4, RowWorker
<1> QED BY <1>13, <1>14, <1>15, <1>16, <1>17, <1>18, <1>19, <1>20, <1>21 DEF IngestStep

\* How one judges the session and tells the chat.
LEMMA JudgeNext ==
  ASSUME TypeOK, ToolInv, WorkInv, OneOwner, TellInv, NEW w \in Workers,
         \/ Analyze(w) \/ Store(w) \/ Settle(w) \/ FinishOperation(w)
         \/ Tell(w) \/ NotifyFails(w) \/ MarkNotified(w)
  PROVE  ToolInv' /\ WorkInv' /\ OneOwner' /\ TellInv'
<1>1. PICK v : v = work[w]
  OBVIOUS
<1>2. PICK nv : nv = work'[w]
  OBVIOUS
<1>3. v \in Worker /\ Fit(v)
  BY <1>1, WorkerMoves DEF WorkInv
<1>4. UNCHANGED <<row, task, tool>>
  BY DEF Analyze, Store, Settle, FinishOperation, Tell, NotifyFails, MarkNotified, db
<1>5. \A pc \in Pcs : Goto(w, pc) =>
        /\ nv.pc = pc /\ nv.c = v.c /\ nv.verdict = v.verdict
        /\ \A u \in Workers \ {w} : work'[u] = work[u]
  <2> SUFFICES ASSUME NEW pc \in Pcs, Goto(w, pc)
               PROVE  /\ nv.pc = pc /\ nv.c = v.c /\ nv.verdict = v.verdict
                      /\ \A u \in Workers \ {w} : work'[u] = work[u]
    OBVIOUS
  <2>1. nv = [v EXCEPT !.pc = pc] /\ \A u \in Workers \ {w} : work'[u] = work[u]
    BY <1>1, <1>2, WorkerMoves
  <2> QED BY <1>3, <2>1 DEF Worker
<1>6. ASSUME Rests(w)
      PROVE  Fit(nv) /\ nv.pc \notin Owning /\ \A u \in Workers \ {w} : work'[u] = work[u]
  <2>1. nv = Idle /\ \A u \in Workers \ {w} : work'[u] = work[u]
    BY <1>2, <1>6, WorkerMoves
  <2> QED BY <2>1, IdleType DEF Idle, Owning, Ingest
<1>7. ASSUME Fit(nv), nv.pc \notin Owning, \A u \in Workers \ {w} : work'[u] = work[u],
             UNCHANGED chat
      PROVE  ToolInv' /\ WorkInv' /\ OneOwner'
  BY <1>2, <1>4, <1>7, QuietWorker
<1>8. CASE Analyze(w)
  <2>1. work' = [work EXCEPT ![w] = [v EXCEPT !.verdict = Verdict, !.pc = "store"]]
    BY <1>1, <1>8 DEF Analyze, TypeOK
  <2>2. nv = [v EXCEPT !.verdict = Verdict, !.pc = "store"]
        /\ \A u \in Workers \ {w} : work'[u] = work[u]
    BY <1>2, <2>1 DEF TypeOK
  <2>3. nv.pc = "store" /\ nv.verdict = Verdict
    BY <1>3, <2>2 DEF Worker
  <2>4. Fit(nv) /\ nv.pc \notin Owning
    BY <2>3, VerdictType DEF Fit, Asked, Owning, Ingest
  <2>5. TellInv'
    BY <1>8, TellKept DEF Analyze, db
  <2> QED BY <1>7, <1>8, <2>2, <2>4, <2>5 DEF Analyze, db
<1>9. CASE Store(w)
  <2>1. v.verdict \in Judged
    BY <1>1, <1>3, <1>9 DEF Store, At, Fit
  <2>2. \/ Rests(w) \/ Goto(w, "settle")
        \/ v.verdict # "collecting" /\ (Goto(w, "finish") \/ Goto(w, "tell"))
    BY <1>1, <1>9 DEF Store
  <2>3. /\ Fit(nv) /\ nv.pc \notin Owning
        /\ \A u \in Workers \ {w} : work'[u] = work[u]
    <3>1. CASE Rests(w)
      BY <1>6, <3>1
    <3>2. CASE Goto(w, "settle")
      BY <1>5, <2>1, <3>2 DEF Fit, Asked, Owning, Ingest, Pcs
    <3>3. CASE v.verdict # "collecting" /\ (Goto(w, "finish") \/ Goto(w, "tell"))
      <4>1. v.verdict \in SessionOver
        BY <2>1, <3>3 DEF Judged
      <4> QED BY <1>5, <3>3, <4>1 DEF Fit, Asked, Owning, Ingest, Pcs
    <3> QED BY <2>2, <3>1, <3>2, <3>3
  <2>4. UNCHANGED <<tool, chat, op>> /\ session'.notified = session.notified
    BY <1>9 DEF Store, TypeOK, Session
  <2>5. TellInv'
    BY <2>4, TellKept
  <2> QED BY <1>7, <2>3, <2>4, <2>5
<1>10. CASE Settle(w)
  <2>1. UNCHANGED <<session, chat, tool>> /\ Rests(w) /\ (op = "none" => op' = "none")
    BY <1>10 DEF Settle, MoveOp
  <2> QED BY <1>6, <1>7, <2>1, TellKept
<1>11. CASE FinishOperation(w)
  <2>1. /\ UNCHANGED <<session, chat, tool>> /\ (op = "none" => op' = "none")
        /\ Goto(w, "tell") /\ v.pc = "finish"
    BY <1>1, <1>11 DEF FinishOperation, MoveOp, OpActive, At
  <2>2. nv.pc = "tell" /\ nv.verdict \in SessionOver
        /\ \A u \in Workers \ {w} : work'[u] = work[u]
    BY <1>3, <1>5, <2>1 DEF Fit, Pcs
  <2>3. Fit(nv) /\ nv.pc \notin Owning
    BY <2>2 DEF Fit, Asked, Owning, Ingest
  <2> QED BY <1>7, <2>1, <2>2, <2>3, TellKept
<1>12. CASE Tell(w)
  <2>1. /\ UNCHANGED <<session, tool, op>> /\ Goto(w, "mark") /\ v.pc = "tell"
        /\ chat' = IF chat = <<>> THEN <<v.verdict>> ELSE chat
    BY <1>1, <1>12 DEF Tell, At
  <2>2. v.verdict \in SessionOver
    BY <1>3, <2>1 DEF Fit
  <2>3. chat' # <<>> /\ \E s \in SessionOver : chat' = <<s>>
    BY <2>1, <2>2 DEF TellInv
  <2>4. nv.pc = "mark" /\ nv.verdict \in SessionOver
        /\ \A u \in Workers \ {w} : work'[u] = work[u]
    BY <1>5, <2>1, <2>2 DEF Pcs
  <2>5. \A c : (Passed(c)' <=> Passed(c)) /\ (Fresh(c)' <=> Fresh(c))
    BY <1>4 DEF Passed, Fresh
  <2>6. ToolInv'
    BY <1>4, <2>5 DEF ToolInv
  <2>7. \A x : Fit(x) => Fit(x)'
    BY <1>4, <2>3, <2>5 DEF Fit
  <2>8. Fit(nv)'
    BY <2>3, <2>4 DEF Fit, Asked, Owning, Ingest
  <2>9. WorkInv' /\ OneOwner'
    <3>1. \A u \in Workers \ {w} : \A x : x = work[u] => Fit(x)'
      BY <2>7 DEF WorkInv
    <3>2. nv.pc \notin Owning /\ work'[w] = nv
      BY <1>2, <2>4 DEF Owning, Ingest
    <3> QED BY <2>4, <2>8, <3>1, <3>2, WorkerMoved
  <2>10. TellInv'
    BY <2>1, <2>3 DEF TellInv
  <2> QED BY <2>6, <2>9, <2>10
<1>13. CASE NotifyFails(w)
  <2>1. UNCHANGED <<session, chat, tool, op>> /\ Rests(w)
    BY <1>13 DEF NotifyFails, db
  <2> QED BY <1>6, <1>7, <2>1, TellKept
<1>14. CASE MarkNotified(w)
  <2>1. UNCHANGED <<op, chat, tool>> /\ Rests(w) /\ chat # <<>>
    BY <1>1, <1>3, <1>14 DEF MarkNotified, At, Fit
  <2> QED BY <1>6, <1>7, <2>1, TellKept
<1> QED BY <1>8, <1>9, <1>10, <1>11, <1>12, <1>13, <1>14

\* How one sets out.
LEMMA BeginNext ==
  ASSUME TypeOK, ToolInv, WorkInv, OneOwner, UNCHANGED <<row, task, tool, chat>>,
         NEW w \in Workers, NEW kind \in Kinds, NEW members \in SUBSET Captures,
         Begins(w, kind, members)
  PROVE  ToolInv' /\ WorkInv' /\ OneOwner'
<1> DEFINE start == [Idle EXCEPT !.kind = kind, !.todo = members]
<1>1. start \in Worker
  BY IdleType DEF Worker
<1>2. PICK nv : nv = Proceed(start)
  OBVIOUS
<1>3. work' = [work EXCEPT ![w] = nv]
  BY <1>2 DEF Begins
<1> HIDE DEF start
<1>4. nv \in Worker /\ (nv.pc = "analyze" \/ (nv.pc = "ask" /\ nv.c \in Captures))
  BY <1>1, <1>2, ProceedEffect
<1>5. work'[w] = nv /\ \A u \in Workers \ {w} : work'[u] = work[u]
  BY <1>3, <1>4, WorkerMoves
<1>6. Fit(nv) /\ nv.pc \notin Owning
  BY <1>4 DEF Fit, Asked, Owning, Ingest
<1> QED BY <1>5, <1>6, QuietWorker

LEMMA InvInit == Init => Inv
<1> SUFFICES ASSUME Init PROVE Inv
  OBVIOUS
<1>1. TypeOK
  <2>1. EdgeTypeOK
    BY DEF Init, EdgeInit, EdgeTypeOK, Task, NoTask
  <2>2. row \in [Captures -> Row] /\ session \in Session /\ tool \in Tool
    BY DEF Init, Row, NoRow, RowStates, Session, SessionStates, Tool
  <2>3. work \in [Workers -> Worker]
    BY IdleType DEF Init
  <2>4. used \in [{"requests", "lost", "faults", "stops", "restarts"} -> Nat]
    BY DEF Init
  <2>5. chat \in Seq(SessionOver) /\ op = "none"
    BY DEF Init
  <2> QED BY <2>1, <2>2, <2>3, <2>4, <2>5 DEF TypeOK
<1>2. ToolInv
  BY DEF Init, EdgeInit, ToolInv, Fresh, Passed, Placing, NoRow, NoTask
<1>3. WorkInv /\ OneOwner
  BY IdleType DEF Init, WorkInv, Fit, OneOwner, Idle, Asked, Owning, Ingest
<1>4. TellInv
  BY DEF Init, TellInv
<1> QED BY <1>1, <1>2, <1>3, <1>4 DEF Inv

LEMMA InvNext == Inv /\ [Next]_vars => Inv'
<1> SUFFICES ASSUME Inv, [Next]_vars PROVE Inv'
  OBVIOUS
<1>1. TypeOK /\ ToolInv /\ WorkInv /\ OneOwner /\ TellInv
  BY DEF Inv
<1>2. TypeOK'
  BY <1>1, TypeNext
<1>3. ToolInv' /\ WorkInv' /\ OneOwner' /\ TellInv'
  <2>1. CASE UNCHANGED vars
    <3>1. UNCHANGED <<row, task, tool, chat, work, session, op>>
      BY <2>1 DEF vars, db
    <3>2. \A x : Fit(x) => Fit(x)'
      BY <3>1, FitKept
    <3> QED BY <1>1, <3>1, <3>2 DEF ToolInv, WorkInv, OneOwner, TellInv, Fresh, Passed
  <2>2. CASE ToolStep
    BY <1>1, <2>2, ToolNext
  <2>3. CASE Reconcile
    <3>1. /\ UNCHANGED <<row, task, tool, chat, session, op>>
          /\ Begins(Coordinator, "reconcile", ToRefresh)
          /\ Coordinator \in Workers /\ "reconcile" \in Kinds /\ ToRefresh \in SUBSET Captures
      BY <2>3 DEF Reconcile, db, Workers, Kinds, ToRefresh, Members
    <3> QED BY <1>1, <3>1, BeginNext, TellKept
  <2>4. ASSUME NEW w \in Callers, Request(w)
        PROVE  ToolInv' /\ WorkInv' /\ OneOwner' /\ TellInv'
    <3>1. PICK kind \in Requests, members \in {ToRefresh, ToStop} :
            /\ Begins(w, kind, members)
            /\ MoveOp({"created", "running"}, "canceling") \/ UNCHANGED op
      BY <2>4 DEF Request
    <3>2. UNCHANGED <<row, task, tool, chat, session>>
      BY <2>4 DEF Request
    <3>3. w \in Workers /\ kind \in Kinds /\ members \in SUBSET Captures
      BY RequestsAssumption DEF Workers, Kinds, ToRefresh, ToStop, Members
    <3>4. op = "none" => op' = "none"
      BY <3>1 DEF MoveOp
    <3> QED BY <1>1, <3>1, <3>2, <3>3, <3>4, BeginNext, TellKept
  <2>5. CASE Agent
    <3>1. UNCHANGED <<row, tool, chat, work, session, op>>
          /\ \E c \in Captures : EdgeStep(c)
      BY <2>5 DEF Agent, db
    <3>2. ToolInv' /\ \A x : Fit(x) => Fit(x)'
      BY <1>1, <3>1, EdgeKeeps
    <3> QED BY <1>1, <3>1, <3>2 DEF WorkInv, OneOwner, TellInv
  <2>6. CASE ManagerStops
    <3>1. UNCHANGED <<task, row, session, op, chat>> /\ work' = [w \in Workers |-> Idle]
      BY <2>6 DEF ManagerStops, db
    <3>2. tool' = tool \/ tool'.pc = "done"
      BY <1>1, <2>6 DEF ManagerStops, TypeOK, Tool
    <3>3. ToolInv' /\ TellInv'
      <4>1. CASE tool' = tool
        BY <1>1, <3>1, <4>1 DEF ToolInv, TellInv, Fresh, Passed
      <4>2. CASE tool'.pc = "done"
        BY <1>1, <3>1, <4>2 DEF ToolInv, TellInv, Fresh, Passed, Placing
      <4> QED BY <3>2, <4>1, <4>2
    <3>4. WorkInv' /\ OneOwner'
      BY <3>1 DEF WorkInv, Fit, OneOwner, Idle, Asked, Owning, Ingest
    <3> QED BY <3>3, <3>4
  <2>7. CASE AgentRestarts
    <3>1. UNCHANGED <<row, tool, chat, work, session, op>> /\ EdgeForgets
      BY <2>7 DEF AgentRestarts, db
    <3>2. ToolInv' /\ \A x : Fit(x) => Fit(x)'
      BY <1>1, <3>1, EdgeKeeps
    <3> QED BY <1>1, <3>1, <3>2 DEF WorkInv, OneOwner, TellInv
  <2>8. ASSUME NEW w \in Workers, WorkerStep(w)
        PROVE  ToolInv' /\ WorkInv' /\ OneOwner' /\ TellInv'
    BY <1>1, <2>8, AskNext, RowNext, JudgeNext DEF WorkerStep
  <2> QED BY <2>1, <2>2, <2>3, <2>4, <2>5, <2>6, <2>7, <2>8 DEF Next
<1> QED BY <1>1, <1>2, <1>3 DEF Inv

------------------------------------------------------------------------------
(* The theorems.                                                               *)

THEOREM InvHolds == Spec => []Inv
BY InvInit, InvNext, PTL DEF Spec

\* A parsed artifact is never deleted: a caller deletes the row of a capture that
\* failed at the edge, and nothing was read from one that failed.
THEOREM NoArtifactDeleted == Spec => []ArtifactKept
<1>1. Inv => ArtifactKept
  BY DEF Inv, ToolInv, ArtifactKept
<1> QED BY <1>1, InvHolds, PTL

\* However many workers see that the edge is done, one at a time reads and parses
\* a capture.
THEOREM NoDoubleParse == Spec => []OneParser
<1>1. Inv => OneParser
  BY DEF Inv, OneOwner, OneParser, Owning
<1> QED BY <1>1, InvHolds, PTL

\* The chat gets one completion at most, and what is marked as told was told.
THEOREM OneCompletion == Spec => []ToldOnce
<1>1. Inv => ToldOnce
  <2> SUFFICES ASSUME Inv PROVE ToldOnce
    OBVIOUS
  <2>1. CASE chat = <<>>
    BY <2>1 DEF Inv, TellInv, ToldOnce
  <2>2. ASSUME NEW s \in SessionOver, chat = <<s>> PROVE Len(chat) <= 1
    BY <2>2
  <2> QED BY <2>1, <2>2 DEF Inv, TellInv, ToldOnce
<1> QED BY <1>1, InvHolds, PTL

\* An operation that is over stays as it is, whoever moves it once more.
THEOREM OperationsStay == Spec => OperationStays
<1>1. Inv /\ [Next]_vars => [(op \in OpOver) => op' = op]_op
  <2> SUFFICES ASSUME Inv, Next, op \in OpOver PROVE op' = op
    BY DEF vars, db
  <2>1. op \notin {"none", "created", "running", "canceling"}
    BY DEF OpOver
  <2>2. ~OpenOperation
    BY <2>1 DEF OpenOperation, Inv, TellInv
  <2>3. CASE ToolStep
    BY <2>2, <2>3 DEF ToolStep, CreateSession, InsertMember, DispatchMember, DispatchFails,
       PersistMember, CloseSession, BindOperation, db
  <2>4. CASE Reconcile \/ Agent \/ ManagerStops \/ AgentRestarts
    BY <2>4 DEF Reconcile, Agent, ManagerStops, AgentRestarts, db
  <2>5. ASSUME NEW w \in Callers, Request(w) PROVE op' = op
    BY <2>1, <2>5 DEF Request, MoveOp
  <2>6. ASSUME NEW w \in Workers, WorkerStep(w) PROVE op' = op
    BY <2>1, <2>6 DEF WorkerStep, AskFails, AskState, AskToEnd, Answer, Discard, Apply,
       IngestStep, Inspect, Claim, ReadRaw, ReadFails, Parse, ParseFails, Publish, Preserve,
       Analyze, Store, Settle, FinishOperation, Tell, NotifyFails, MarkNotified, MoveOp,
       OpActive, db
  <2> QED BY <2>3, <2>4, <2>5, <2>6 DEF Next
<1>2. Spec => [][(op \in OpOver) => op' = op]_op
  BY <1>1, InvHolds, PTL DEF Spec
<1> QED BY <1>2 DEF OperationStays

\* What was cancelled, failed or deleted stays so, whatever late answer arrives:
\* the only insert is of a capture that has no row.
THEOREM NothingRevived == Spec => NeverRevived
<1> DEFINE Kept == \A c \in Captures :
                     row[c].state \in {"cancelled", "failed", "gone"} =>
                       row'[c].state \in {row[c].state, "gone"}
<1>1. Inv /\ [Next]_vars => [Kept]_row
  <2> SUFFICES ASSUME Inv, Next, row' # row PROVE Kept
    BY DEF vars, db
  <2>1. row \in [Captures -> Row] /\ ToolInv /\ WorkInv
    BY DEF Inv, TypeOK
  <2>2. ASSUME NEW c, NEW s, row' = [row EXCEPT ![c].state = s],
               c \in Captures => \/ row[c].state \notin {"cancelled", "failed", "gone"}
                                 \/ s = "gone"
        PROVE  Kept
    BY <2>1, <2>2 DEF Row
  <2>3. ASSUME NEW c, NEW from, NEW to, row' = Moved(c, from, to),
               from \cap {"cancelled", "failed", "gone"} = {}
        PROVE  Kept
    BY <2>1, <2>3 DEF Moved, Row
  <2>4. CASE ToolStep
    <3>1. CASE InsertMember
      <4>1. tool.c \in Captures => row[tool.c].state = "none"
        BY <2>1, <3>1, CapturesAreNumbers DEF InsertMember, ToolInv, Fresh, NoRow
      <4> QED BY <2>2, <3>1, <4>1 DEF InsertMember
    <3>2. CASE DispatchFails
      BY <2>2, <3>2 DEF DispatchFails
    <3>3. CASE PersistMember
      BY <2>1, <3>3 DEF PersistMember, Row
    <3> QED BY <2>4, <3>1, <3>2, <3>3 DEF ToolStep, CreateSession, DispatchMember, CloseSession,
            OpenOperation, BindOperation, db
  <2>5. CASE Reconcile \/ Agent \/ ManagerStops \/ AgentRestarts
    BY <2>5 DEF Reconcile, Agent, ManagerStops, AgentRestarts, db
  <2>6. CASE \E w \in Callers : Request(w)
    BY <2>6 DEF Request
  <2>7. ASSUME NEW w \in Workers, WorkerStep(w) PROVE Kept
    <3>1. CASE Discard(w)
      BY <2>2, <3>1 DEF Discard
    <3>2. CASE Apply(w) \/ Claim(w) \/ Publish(w) \/ Preserve(w)
      BY <2>3, <3>2 DEF Apply, Claim, Publish, Preserve, Refreshable
    <3>3. CASE ReadRaw(w) \/ Parse(w)
      BY <2>1, <3>3 DEF ReadRaw, Parse, Row
    <3> QED BY <2>7, <3>1, <3>2, <3>3 DEF WorkerStep, IngestStep, AskFails, AskState, AskToEnd,
            Answer, Inspect, ReadFails, ParseFails, Analyze, Store, Settle, FinishOperation,
            Tell, NotifyFails, MarkNotified, db
  <2> QED BY <2>4, <2>5, <2>6, <2>7 DEF Next
<1>2. Spec => [][Kept]_row
  BY <1>1, InvHolds, PTL DEF Spec
<1> QED BY <1>2 DEF NeverRevived

------------------------------------------------------------------------------
(* One capture at a time.                                                      *)

\* Two captures are ordered, by their start or by their number.
LEMMA QueueIsTotal ==
  ASSUME NEW c \in Captures, NEW d \in Captures
  PROVE  /\ c # d => QueuedBefore(c, d) \/ QueuedBefore(d, c)
         /\ ~(QueuedBefore(c, d) /\ QueuedBefore(d, c))
         /\ c < d /\ QueuedBefore(d, c) => StartAt[d] < StartAt[c]
<1>1. c \in Nat /\ d \in Nat /\ StartAt[c] \in Nat /\ StartAt[d] \in Nat
  BY CapturesAreNumbers, StartAtAssumption
<1> QED BY <1>1 DEF QueuedBefore

\* The edge's own steps keep the turn with one capture ...
LEMMA EdgeTurns ==
  ASSUME EdgeTypeOK, TurnInv,
         \/ \E d \in Captures : EdgeStep(d) \/ \E stop \in BOOLEAN : CancelTask(d, stop)
         \/ EdgeForgets
  PROVE  TurnInv'
<1>1. task \in [Captures -> Task]
  BY DEF EdgeTypeOK
<1>2. ASSUME NEW e \in Captures, SeesTurn(e) PROVE TurnInv'
  <2>1. /\ task[e].state = "queued" /\ ~task[e].turn
        /\ \A d \in Captures \ {e} : task[d].state # "running"
        /\ \A d \in Captures \ {e} : task[d].state = "queued" => ~QueuedBefore(d, e)
    BY <1>2 DEF SeesTurn, CanRun, InState
  <2>2. \A d \in Captures \ {e} : task[d].state = "queued" => QueuedBefore(e, d)
    BY <2>1, QueueIsTotal
  <2>3. ASSUME NEW d \in Captures \ {e}, HasTurn(d)
        PROVE  d < e /\ StartAt[e] < StartAt[d]
    <3>1. task[d].state = "queued" /\ task[d].turn
      BY <2>1, <2>3 DEF HasTurn
    <3>2. QueuedBefore(e, d) /\ ~QueuedBefore(d, e)
      BY <2>2, <3>1, QueueIsTotal
    <3>3. ~(e < d)
      BY <2>1, <3>1, <3>2 DEF TurnInv
    <3>4. d < e
      BY <3>3, CapturesAreNumbers
    <3> QED BY <3>2, <3>4, QueueIsTotal
  <2>4. /\ \A d \in Captures \ {e} : task'[d] = task[d]
        /\ task'[e].state = "queued" /\ task'[e].turn
    BY <1>1, <1>2, <2>1 DEF SeesTurn, Task
  <2>5. ASSUME NEW c \in Captures, NEW d \in Captures, c < d, HasTurn(c)', HasTurn(d)'
        PROVE  StartAt[d] < StartAt[c]
    <3>1. CASE c = e
      <4>1. d # e /\ HasTurn(d)
        BY <2>4, <2>5, <3>1, CapturesAreNumbers DEF HasTurn
      <4> QED BY <2>3, <2>5, <3>1, <4>1, CapturesAreNumbers
    <3>2. CASE d = e
      <4>1. c # e /\ HasTurn(c)
        BY <2>4, <2>5, <3>2, CapturesAreNumbers DEF HasTurn
      <4> QED BY <2>3, <3>2, <4>1
    <3>3. CASE c # e /\ d # e
      BY <2>4, <2>5, <3>3 DEF TurnInv, HasTurn
    <3> QED BY <3>1, <3>2, <3>3
  <2>6. ASSUME NEW c \in Captures, NEW d \in Captures, d < c,
               task'[c].state = "queued", task'[c].turn, task'[d].state = "queued"
        PROVE  QueuedBefore(c, d)
    BY <2>1, <2>2, <2>4, <2>6, CapturesAreNumbers DEF TurnInv
  <2> QED BY <2>5, <2>6 DEF TurnInv
<1>3. ASSUME NEW e \in Captures, Runs(e) PROVE TurnInv'
  <2>1. /\ task[e].state = "queued" /\ task[e].turn
        /\ \A d \in Captures \ {e} : task'[d] = task[d]
        /\ task'[e].state = "running"
    BY <1>1, <1>3 DEF Runs, Task
  <2> QED BY <2>1 DEF TurnInv, HasTurn
<1>4. ASSUME NEW e \in Captures, GivesUp(e) \/ Ends(e) PROVE TurnInv'
  <2>1. /\ \A d \in Captures \ {e} : task'[d] = task[d]
        /\ task'[e].state \in Over
    BY <1>1, <1>4 DEF GivesUp, Ends, Outcome, Over, Task
  <2> QED BY <2>1 DEF TurnInv, HasTurn, Over
<1>5. ASSUME NEW e \in Captures, NEW stop \in BOOLEAN, CancelTask(e, stop) PROVE TurnInv'
  <2>1. \A d \in Captures : task'[d].state = task[d].state /\ task'[d].turn = task[d].turn
    BY <1>1, <1>5 DEF CancelTask, Task
  <2> QED BY <2>1 DEF TurnInv, HasTurn
<1>6. CASE EdgeForgets
  BY <1>6 DEF EdgeForgets, NoTask, TurnInv, HasTurn
<1> QED BY <1>2, <1>3, <1>4, <1>5, <1>6 DEF EdgeStep

\* ... and a capture that arrives was dispatched after all that are there.
LEMMA TurnNext ==
  ASSUME Inv, TurnInv, [Next]_vars
  PROVE  TurnInv'
<1>1. task \in [Captures -> Task] /\ ToolInv /\ EdgeTypeOK
  BY DEF Inv, TypeOK, EdgeTypeOK
<1>2. CASE UNCHANGED task
  BY <1>2 DEF TurnInv, HasTurn
<1>3. CASE tool.pc = "dispatch" /\ StartTask(tool.c)
  <2>1. PICK e \in Captures : e = tool.c
    BY <1>1, <1>3 DEF ToolInv, Placing
  <2>2. task[e].state = "none"
    BY <1>1, <1>3, <2>1 DEF ToolInv, NoTask
  <2>3. /\ \A d \in Captures \ {e} : task'[d] = task[d]
        /\ task'[e].state = "queued" /\ ~task'[e].turn
    BY <1>1, <1>3, <2>1, <2>2 DEF StartTask, NoTask
  <2>4. \A d \in Captures \ {e} : task[d].state # "none" => d < e
    <3>1. ASSUME NEW d \in Captures \ {e}, task[d].state # "none" PROVE d < e
      <4>1. ~Fresh(d)
        BY <1>1, <3>1 DEF ToolInv, NoTask
      <4> QED BY <1>3, <2>1, <3>1, <4>1, CapturesAreNumbers DEF Fresh
    <3> QED BY <3>1
  <2>5. ~HasTurn(e)' /\ \A d \in Captures \ {e} : HasTurn(d)' <=> HasTurn(d)
    BY <2>3 DEF HasTurn
  <2>6. ASSUME NEW c \in Captures, NEW d \in Captures, d < c,
               task'[c].state = "queued", task'[c].turn, task'[d].state = "queued"
        PROVE  QueuedBefore(c, d)
    <3>1. c # e /\ (d = e => c < e)
      BY <2>3, <2>4, <2>6
    <3>2. d # e
      BY <2>6, <3>1, CapturesAreNumbers
    <3> QED BY <2>3, <2>6, <3>1, <3>2 DEF TurnInv
  <2> QED BY <2>5, <2>6 DEF TurnInv
<1>4. CASE \E w \in Workers : AskToEnd(w)
  <2>1. PICK w \in Workers : AskToEnd(w)
    BY <1>4
  <2>2. work[w].c \in Captures
    BY <2>1 DEF AskToEnd, At, Inv, WorkInv, Fit
  <2>3. CancelTask(work[w].c, work[w].kind = "stop") /\ (work[w].kind = "stop") \in BOOLEAN
    BY <2>1 DEF AskToEnd
  <2>4. \E d \in Captures : \E stop \in BOOLEAN : CancelTask(d, stop)
    BY <2>2, <2>3
  <2> QED BY <1>1, <2>4, EdgeTurns
<1>5. CASE Agent \/ AgentRestarts
  BY <1>1, <1>5, EdgeTurns DEF Agent, AgentRestarts
<1> QED BY <1>2, <1>3, <1>4, <1>5 DEF Next, vars, ToolStep, CreateSession, InsertMember,
        DispatchMember, DispatchFails, PersistMember, CloseSession, OpenOperation, BindOperation,
        Reconcile, Request, ManagerStops, WorkerStep, IngestStep, AskFails, AskState, Answer,
        Discard, Apply, Inspect, Claim, ReadRaw, ReadFails, Parse, ParseFails, Publish, Preserve,
        Analyze, Store, Settle, FinishOperation, Tell, NotifyFails, MarkNotified

\* Whatever the start times of the captures: two run at the same time only if the one
\* that was dispatched later has the earlier start (service_linux.go: canRunLocked,
\* queuedBefore, run).
THEOREM OneAtATime == Spec => []OneCaptureAtATime
<1>1. Init => TurnInv
  BY DEF Init, EdgeInit, NoTask, TurnInv, HasTurn
<1>2. Inv /\ TurnInv /\ [Next]_vars => TurnInv'
  BY TurnNext
<1>3. TurnInv => OneCaptureAtATime
  BY DEF TurnInv, HasTurn, OneCaptureAtATime, InState
<1> QED BY <1>1, <1>2, <1>3, InvHolds, PTL DEF Spec
=============================================================================
