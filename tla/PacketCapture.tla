--------------------------- MODULE PacketCapture ---------------------------
(***************************************************************************)
(* A packet-capture session asked for in a chat: the tool creates the      *)
(* session and its members and dispatches them to the edge, the operation  *)
(* coordinator and the users refresh, cancel or stop them, what the edge   *)
(* captured is read, parsed and published, the session is judged by its    *)
(* members, and the chat is told when it is over. The manager may stop     *)
(* anywhere, calls to the edge get lost, the agent may restart.            *)
(*                                                                         *)
(* What the model simplifies:                                              *)
(*   - one session, bound to a chat, of captures on one edge;              *)
(*   - a row keeps its state and whether the edge's capture id, the raw    *)
(*     object and the parsed artifact are recorded;                        *)
(*   - every step is one database call or one call to the edge, a read     *)
(*     joined to the write it follows where nothing depends on the gap.    *)
(***************************************************************************)
EXTENDS CaptureEdge, Sequences

CONSTANTS Coordinator,  \* the worker that is the operation coordinator
          Callers,      \* workers that serve users' requests
          Requests,     \* what users ask for, among UserKinds
          MaxRequests,  \* bound: users' requests
          MaxLost,      \* bound: calls to the edge that fail or time out
          MaxFaults,    \* bound: failures of the parser and of a notification
          MaxStops,     \* bound: stops of the manager
          MaxRestarts,  \* bound: restarts of the agent
          MaxEvents     \* bound: all of these together

UserKinds == {"refresh", "cancel", "stop", "cancelOperation"}

ASSUME WorkersAssumption == Coordinator \notin Callers
ASSUME RequestsAssumption == Requests \subseteq UserKinds

VARIABLES
  row,      \* packet_captures
  session,  \* the packet_capture_sessions row
  op,       \* the state of its aiops operation
  chat,     \* completion messages in the chat, by the session state they tell
  tool,     \* the request that creates the session
  work,     \* the workers: the coordinator and users' requests
  used      \* counts of bounded events

db == <<row, session, op, chat>>
vars == <<task, db, tool, work, used>>

Workers == {Coordinator} \cup Callers
Kinds == UserKinds \cup {"reconcile"}

Refreshable == {"queued", "capturing"}
RowStates == {"none", "gone", "ready", "parsing", "cancelled", "failed"}
             \cup Refreshable
Row == [state : RowStates, resolved : BOOLEAN, raw : BOOLEAN, parsed : BOOLEAN]
SessionOver == {"ready", "partial", "cancelled", "failed"}
SessionStates == {"none", "collecting"} \cup SessionOver
Session == [state : SessionStates, notified : BOOLEAN, bound : BOOLEAN]
OpActive == {"created", "running", "canceling"}
OpOver == {"succeeded", "failed", "cancelled"}
EdgeStates == {"none"} \cup Live \cup Over

Ingest == {"read", "parse", "publish"}
Tool == [pc : {"idle", "insert", "dispatch", "persist", "close", "operate",
               "bind", "done"},
         c : Captures \cup {0}, made : BOOLEAN, failed : BOOLEAN]
Worker == [pc : {"idle", "ask", "answer", "apply", "discard", "inspect", "claim",
                 "preserve", "analyze", "store", "finish", "tell", "mark",
                 "settle"} \cup Ingest,
           kind : Kinds, todo : SUBSET Captures, c : Captures \cup {0},
           seen : EdgeStates,          \* what the edge answered
           verdict : SessionStates]
Idle == [pc |-> "idle", kind |-> "reconcile", todo |-> {}, c |-> 0,
         seen |-> "none", verdict |-> "none"]
NoRow == [state |-> "none", resolved |-> FALSE, raw |-> FALSE, parsed |-> FALSE]

Init ==
  /\ EdgeInit
  /\ row = [c \in Captures |-> NoRow]
  /\ session = [state |-> "none", notified |-> FALSE, bound |-> FALSE]
  /\ op = "none"
  /\ chat = <<>>
  /\ tool = [pc |-> "idle", c |-> 0, made |-> FALSE, failed |-> FALSE]
  /\ work = [w \in Workers |-> Idle]
  /\ used = [requests |-> 0, lost |-> 0, faults |-> 0, stops |-> 0, restarts |-> 0]

Spent == used.requests + used.lost + used.faults + used.stops + used.restarts
Spend(what, bound) ==
  /\ used[what] < bound /\ Spent < MaxEvents
  /\ used' = [used EXCEPT ![what] = @ + 1]

---------------------------------------------------------------------------
\* The store.

Members == {c \in Captures : row[c].state \notin {"none", "gone"}}
Published(c) == row[c].state = "ready" /\ row[c].parsed

\* Transition: a compare-and-set, a conflict leaves the row alone.
MovedAlways(c, from, to) ==   \* mutant: the state is not compared
  [row EXCEPT ![c].state = to]
Moved(c, from, to) == IF row[c].state \in from
                      THEN [row EXCEPT ![c].state = to] ELSE row

\* mapEdgeState: the row's word for what the edge says.
Mirror == [s \in EdgeStates |->
             CASE s = "running" -> "capturing"
               [] s = "succeeded" -> "ready"
               [] s \in {"cancelled", "failed"} -> s
               [] OTHER -> "queued"]

\* The state updateSessionAnalysis gives a session for its members.
Verdict ==
  LET ready == {c \in Members : Published(c)}
      stopped == {c \in Members : row[c].state = "cancelled"}
      failed == {c \in Members : row[c].state = "failed"}
  IN CASE Members # ready \cup stopped \cup failed -> "collecting"
       [] ready = {} /\ Members # {} /\ Members = stopped -> "cancelled"
       [] ready = {} /\ ~(Members # {} /\ Members = stopped) -> "failed"
       [] ready # {} /\ Members # ready -> "partial"
       [] OTHER -> "ready"

MoveOpAlways(from, to) == op' = to   \* mutant: the state is not compared
MoveOp(from, to) == op' = IF op \in from THEN to ELSE op

---------------------------------------------------------------------------
\* The tool: CreateSession, member after member, then the operation.

NextMember(t) ==
  LET rest == {d \in Captures : d > t.c}
  IN IF rest = {} THEN [t EXCEPT !.pc = "close"]
     ELSE [t EXCEPT !.pc = "insert",
                    !.c = CHOOSE d \in rest : \A e \in rest : d <= e]

CreateSession ==
  /\ tool.pc = "idle"
  /\ session' = [session EXCEPT !.state = "collecting"]
  /\ tool' = NextMember(tool)
  /\ UNCHANGED <<task, row, op, chat, work, used>>

InsertMember ==
  /\ tool.pc = "insert"
  /\ row' = [row EXCEPT ![tool.c].state = "queued"]
  /\ tool' = [tool EXCEPT !.pc = "dispatch"]
  /\ UNCHANGED <<task, session, op, chat, work, used>>

\* The edge accepts the capture and the answer arrives.
DispatchMember ==
  /\ tool.pc = "dispatch"
  /\ StartAccepted(tool.c)
  /\ StartTask(tool.c)
  /\ tool' = [tool EXCEPT !.pc = "persist"]
  /\ UNCHANGED <<db, work, used>>

\* The edge refuses, the call does not reach it, or its answer is lost:
\* discardFailedCapture.
DispatchFails ==
  /\ tool.pc = "dispatch"
  /\ \/ ~StartAccepted(tool.c) /\ UNCHANGED <<task, used>>
     \/ Spend("lost", MaxLost) /\ UNCHANGED task
     \/ Spend("lost", MaxLost) /\ StartAccepted(tool.c) /\ StartTask(tool.c)
  /\ row' = [row EXCEPT ![tool.c].state = "gone"]
  /\ tool' = NextMember([tool EXCEPT !.failed = TRUE])
  /\ UNCHANGED <<session, op, chat, work>>

\* Start answers "queued"; the row learns the edge's capture id.
PersistMember ==
  /\ tool.pc = "persist"
  /\ row' = IF row[tool.c].state = "queued"
            THEN [row EXCEPT ![tool.c].state = Mirror["queued"],
                             ![tool.c].resolved = TRUE]
            ELSE row
  /\ tool' = NextMember([tool EXCEPT !.made = TRUE])
  /\ UNCHANGED <<task, session, op, chat, work, used>>

CloseSession ==
  /\ tool.pc = "close"
  /\ session' = CASE ~tool.made -> [session EXCEPT !.state = "failed"]
                 [] tool.made /\ tool.failed -> [session EXCEPT !.state = "partial"]
                 [] OTHER -> session
  /\ tool' = [tool EXCEPT !.pc = IF tool.made THEN "operate" ELSE "done"]
  /\ UNCHANGED <<task, row, op, chat, work, used>>

OpenOperation ==
  /\ tool.pc = "operate"
  /\ op' = "running"
  /\ tool' = [tool EXCEPT !.pc = "bind"]
  /\ UNCHANGED <<task, row, session, chat, work, used>>

BindOperation ==
  /\ tool.pc = "bind"
  /\ session' = [session EXCEPT !.bound = TRUE]
  /\ tool' = [tool EXCEPT !.pc = "done"]
  /\ UNCHANGED <<task, row, op, chat, work, used>>

ToolStep ==
  \/ CreateSession \/ InsertMember \/ DispatchMember \/ DispatchFails
  \/ PersistMember \/ CloseSession \/ OpenOperation \/ BindOperation

---------------------------------------------------------------------------
\* Workers go through the members they read and judge the session at the end.

Proceed(v) ==
  IF v.todo = {} THEN [v EXCEPT !.pc = "analyze", !.c = 0, !.seen = "none"]
  ELSE LET c == CHOOSE d \in v.todo : \A e \in v.todo : d <= e
       IN [v EXCEPT !.pc = "ask", !.c = c, !.todo = @ \ {c}, !.seen = "none"]

At(w, pc) == work[w].pc = pc
Goto(w, pc) == work' = [work EXCEPT ![w].pc = pc]
Goes(w) == work' = [work EXCEPT ![w] = Proceed(@)]
Rests(w) == work' = [work EXCEPT ![w] = Idle]

ToRefresh == {c \in Members : ~row[c].parsed
                              /\ row[c].state \notin {"failed", "cancelled"}}
ToStop == {c \in Members : row[c].state \notin {"ready", "failed", "cancelled"}}

Begins(w, kind, members) ==
  /\ At(w, "idle")
  /\ work' = [work EXCEPT ![w] = Proceed([Idle EXCEPT !.kind = kind, !.todo = members])]

\* ListReconcilableSessions, then RefreshSession.
Reconcilable == \/ session.state = "collecting"
                \/ session.state \in SessionOver /\ ~session.notified
Reconcile ==
  /\ Reconcilable
  /\ Begins(Coordinator, "reconcile", ToRefresh)
  /\ UNCHANGED <<task, db, tool, used>>

\* RefreshSession, CancelSession, StopSession, or the operation's cancel action.
Request(w) ==
  \E kind \in Requests :
    /\ session.state # "none"
    /\ Spend("requests", MaxRequests)
    /\ Begins(w, kind, IF kind = "refresh" THEN ToRefresh ELSE ToStop)
    /\ IF kind = "cancelOperation"
       THEN op # "none" /\ MoveOp({"created", "running"}, "canceling")
       ELSE UNCHANGED op
    /\ UNCHANGED <<task, row, session, chat, tool>>

Refreshes(w) == work[w].kind \in {"refresh", "reconcile"}
Reachable(c) == row[c].state # "gone" /\ row[c].resolved

\* Nothing to ask for, the call fails, or the edge does not know the task.
AskFails(w) ==
  /\ At(w, "ask")
  /\ \/ ~Reachable(work[w].c) /\ UNCHANGED used
     \/ Reachable(work[w].c) /\ task[work[w].c].state = "none" /\ UNCHANGED used
     \/ Reachable(work[w].c) /\ Spend("lost", MaxLost)
  /\ Goes(w)
  /\ UNCHANGED <<task, db, tool>>

AskUnknown(w) ==   \* mutant: a task the edge does not know has failed
  LET c == work[w].c IN
  /\ At(w, "ask") /\ Refreshes(w)
  /\ Reachable(c)
  /\ work' = [work EXCEPT ![w].seen = task[c].state,
                          ![w].pc = IF task[c].state \in {"none", "failed"}
                                    THEN "discard" ELSE "apply"]
  /\ UNCHANGED <<task, db, tool, used>>
AskState(w) ==
  LET c == work[w].c IN
  /\ At(w, "ask") /\ Refreshes(w)
  /\ Reachable(c) /\ task[c].state # "none"
  /\ work' = [work EXCEPT ![w].seen = task[c].state,
                          ![w].pc = IF task[c].state = "failed" THEN "discard" ELSE "apply"]
  /\ UNCHANGED <<task, db, tool, used>>

AskToEnd(w) ==
  /\ At(w, "ask") /\ ~Refreshes(w)
  /\ Reachable(work[w].c)
  /\ CancelTask(work[w].c, work[w].kind = "stop")
  /\ Goto(w, "answer")
  /\ UNCHANGED <<db, tool, used>>

\* GetAfterCancel: the state now, which the goroutine may not have changed yet.
Answer(w) ==
  /\ At(w, "answer")
  /\ \/ /\ task[work[w].c].state # "none"
        /\ work' = [work EXCEPT ![w].seen = task[work[w].c].state, ![w].pc = "apply"]
        /\ UNCHANGED used
     \/ task[work[w].c].state = "none" /\ Goes(w) /\ UNCHANGED used
     \/ Spend("lost", MaxLost) /\ Goes(w)
  /\ UNCHANGED <<task, db, tool>>

\* A capture that failed at the edge leaves no row.
Discard(w) ==
  /\ At(w, "discard")
  /\ row' = [row EXCEPT ![work[w].c].state = "gone"]
  /\ Goes(w)
  /\ UNCHANGED <<task, session, op, chat, tool, used>>

\* The row follows the edge, unless it has left the refreshable states.
Apply(w) ==
  LET c == work[w].c
      state == Mirror[work[w].seen]
  IN
  /\ At(w, "apply")
  /\ row' = Moved(c, Refreshable, state)
  /\ IF Refreshes(w) /\ state = "ready" THEN Goto(w, "inspect") ELSE Goes(w)
  /\ UNCHANGED <<task, session, op, chat, tool, used>>

---------------------------------------------------------------------------
\* ingestCompletedCapture.

\* What it goes by is a copy of the row ...
Inspect(w) ==
  LET r == row[work[w].c] IN
  /\ At(w, "inspect")
  /\ IF r.state \in {"gone", "parsing"} \/ r.parsed THEN Goes(w) ELSE Goto(w, "claim")
  /\ UNCHANGED <<task, db, tool, used>>

\* ... when it claims the parsing; a row that turns out to be parsed is
\* returned as it is.
ClaimAgain(w) ==   \* mutant: a row that is being parsed can be claimed
  LET c == work[w].c IN
  /\ At(w, "claim")
  /\ row' = Moved(c, {"ready", "parsing"}, "parsing")
  /\ IF row[c].state \in {"ready", "parsing"} /\ ~row[c].parsed
     THEN Goto(w, "read") ELSE Goes(w)
  /\ UNCHANGED <<task, session, op, chat, tool, used>>
Claim(w) ==
  LET c == work[w].c IN
  /\ At(w, "claim")
  /\ row' = Moved(c, {"ready"}, "parsing")
  /\ IF row[c].state = "ready" /\ ~row[c].parsed THEN Goto(w, "read") ELSE Goes(w)
  /\ UNCHANGED <<task, session, op, chat, tool, used>>

ReadRaw(w) ==
  LET c == work[w].c IN
  /\ At(w, "read")
  /\ c \in Members
  /\ row[c].raw \/ task[c].state = "succeeded"
  /\ row' = [row EXCEPT ![c].raw = TRUE]
  /\ Goto(w, "parse")
  /\ UNCHANGED <<task, session, op, chat, tool, used>>

ReadFails(w) ==
  /\ At(w, "read") /\ ~row[work[w].c].raw
  /\ \/ Spend("lost", MaxLost)
     \/ task[work[w].c].state # "succeeded" /\ UNCHANGED used
     \/ work[w].c \notin Members /\ UNCHANGED used
  /\ Goto(w, "preserve")
  /\ UNCHANGED <<task, db, tool>>

Parse(w) ==
  /\ At(w, "parse")
  /\ work[w].c \in Members
  /\ row' = [row EXCEPT ![work[w].c].parsed = TRUE]
  /\ Goto(w, "publish")
  /\ UNCHANGED <<task, session, op, chat, tool, used>>

ParseFails(w) ==
  /\ At(w, "parse")
  /\ \/ Spend("faults", MaxFaults)
     \/ work[w].c \notin Members /\ UNCHANGED used
  /\ Goto(w, "preserve")
  /\ UNCHANGED <<task, db, tool>>

Publish(w) ==
  LET c == work[w].c IN
  /\ At(w, "publish")
  /\ row' = Moved(c, {"parsing"}, "ready")
  /\ IF row[c].state = "parsing" \/ Published(c) THEN Goes(w) ELSE Goto(w, "preserve")
  /\ UNCHANGED <<task, session, op, chat, tool, used>>

\* preserveFailedIngestion.
PreserveNothing(w) ==   \* mutant: the row is left in parsing
  /\ At(w, "preserve")
  /\ Goes(w)
  /\ UNCHANGED <<task, db, tool, used>>
Preserve(w) ==
  /\ At(w, "preserve")
  /\ row' = Moved(work[w].c, {"parsing"}, "failed")
  /\ Goes(w)
  /\ UNCHANGED <<task, session, op, chat, tool, used>>

IngestStep(w) ==
  \/ Inspect(w) \/ Claim(w) \/ ReadRaw(w) \/ ReadFails(w)
  \/ Parse(w) \/ ParseFails(w) \/ Publish(w) \/ Preserve(w)

---------------------------------------------------------------------------
\* updateSessionAnalysis, and what follows it.

Analyze(w) ==
  /\ At(w, "analyze")
  /\ work' = [work EXCEPT ![w].verdict = Verdict, ![w].pc = "store"]
  /\ UNCHANGED <<task, db, tool, used>>

Store(w) ==
  LET v == work[w] IN
  /\ At(w, "store")
  /\ session' = [session EXCEPT !.state = v.verdict]
  /\ CASE v.kind = "cancelOperation" -> Goto(w, "settle")
       [] v.kind = "reconcile" /\ v.verdict # "collecting" /\ ~session.notified ->
            Goto(w, IF session.bound THEN "finish" ELSE "tell")
       [] OTHER -> Rests(w)
  /\ UNCHANGED <<task, row, op, chat, tool, used>>

\* The operation's end after its cancel action.
Settle(w) ==
  /\ At(w, "settle")
  /\ MoveOp({"canceling"}, CASE work[w].verdict = "collecting" -> "running"
                              [] work[w].verdict \in {"ready", "partial"} -> "succeeded"
                              [] OTHER -> work[w].verdict)
  /\ Rests(w)
  /\ UNCHANGED <<task, row, session, chat, tool, used>>

\* notify, first part: the operation and its artifact, kept once by its key.
FinishOperation(w) ==
  /\ At(w, "finish")
  /\ MoveOp(OpActive, IF work[w].verdict \in {"failed", "cancelled"}
                      THEN work[w].verdict ELSE "succeeded")
  /\ Goto(w, "tell")
  /\ UNCHANGED <<task, row, session, chat, tool, used>>

\* notify, second part: the message has an id of its own and is kept once.
Tell(w) ==
  /\ At(w, "tell")
  /\ chat' = IF chat = <<>> THEN <<work[w].verdict>> ELSE chat
  /\ Goto(w, "mark")
  /\ UNCHANGED <<task, row, session, op, tool, used>>

NotifyFailsMarked(w) ==   \* mutant: marked although it failed
  /\ At(w, "finish") \/ At(w, "tell")
  /\ Spend("faults", MaxFaults)
  /\ Goto(w, "mark")
  /\ UNCHANGED <<task, db, tool>>
NotifyFails(w) ==
  /\ At(w, "finish") \/ At(w, "tell")
  /\ Spend("faults", MaxFaults)
  /\ Rests(w)
  /\ UNCHANGED <<task, db, tool>>

MarkNotified(w) ==
  /\ At(w, "mark")
  /\ session' = [session EXCEPT !.notified = TRUE]
  /\ Rests(w)
  /\ UNCHANGED <<task, row, op, chat, tool, used>>

WorkerStep(w) ==
  \/ AskFails(w) \/ AskState(w) \/ AskToEnd(w) \/ Answer(w)
  \/ Discard(w) \/ Apply(w) \/ IngestStep(w)
  \/ Analyze(w) \/ Store(w) \/ Settle(w)
  \/ FinishOperation(w) \/ Tell(w) \/ NotifyFails(w) \/ MarkNotified(w)

---------------------------------------------------------------------------
\* The manager stops: requests and the tool are gone, the rows stay.
ManagerStops ==
  /\ Spend("stops", MaxStops)
  /\ tool' = IF tool.pc = "idle" THEN tool ELSE [tool EXCEPT !.pc = "done"]
  /\ work' = [w \in Workers |-> Idle]
  /\ UNCHANGED <<task, db>>

AgentRestarts ==
  /\ Spend("restarts", MaxRestarts)
  /\ EdgeForgets
  /\ UNCHANGED <<db, tool, work>>

Agent == /\ \E c \in Captures : EdgeStep(c)
         /\ UNCHANGED <<db, tool, work, used>>

Next ==
  \/ ToolStep \/ Reconcile \/ Agent \/ ManagerStops \/ AgentRestarts
  \/ \E w \in Callers : Request(w)
  \/ \E w \in Workers : WorkerStep(w)

Spec == Init /\ [][Next]_vars

\* The coordinator's ticker, the tool and the edge's goroutines keep going.
FairSpec == Spec /\ WF_vars(Agent) /\ WF_vars(ToolStep) /\ WF_vars(Reconcile)
                 /\ \A w \in Workers : WF_vars(WorkerStep(w))

---------------------------------------------------------------------------
TypeOK ==
  /\ EdgeTypeOK
  /\ row \in [Captures -> Row]
  /\ session \in Session
  /\ op \in {"none"} \cup OpActive \cup OpOver
  /\ chat \in Seq(SessionOver)
  /\ tool \in Tool
  /\ work \in [Workers -> Worker]
  /\ used \in [{"requests", "lost", "faults", "stops", "restarts"} -> Nat]

\* usecase.go:612: however many callers see that the edge is done, one at a
\* time reads and parses a capture.
OneParser ==
  \A v, w \in Workers :
    v # w /\ work[v].pc \in Ingest /\ work[w].pc \in Ingest => work[v].c # work[w].c

\* usecase_test.go:877: a capture that was parsed is published when nobody is at work
\* on it any more, also if refreshes overlap. (A caller that claims by a copy of the
\* row from before another one published it finds it parsed and goes, and the row
\* stays in parsing, where no reader of artifacts and no refresh finds it.)
ParsedIsPublished ==
  \A c \in Captures :
    row[c].parsed => \/ Published(c)
                     \/ \E w \in Workers :
                          work[w].c = c /\ work[w].pc \in Ingest \cup {"preserve"}

\* repo.go Transition: a late answer of the edge does not bring a capture
\* back that was cancelled, failed or deleted, whoever read it when.
NeverRevived ==
  [][\A c \in Captures :
       row[c].state \in {"cancelled", "failed", "gone"} =>
         row'[c].state \in {row[c].state, "gone"}]_row

\* A published artifact is not deleted, although every caller deletes the row
\* of a capture it was told had failed.
ArtifactKept == \A c \in Captures : row[c].parsed => row[c].state # "gone"

\* The chat is told once, although a stop or a failure between the message
\* and its mark makes the coordinator notify again (session.go:120); and what is
\* marked was told: no completion gets lost.
ToldOnce == Len(chat) <= 1 /\ (session.notified => chat # <<>>)

\* An operation that is over stays what it is, although the coordinator, the
\* cancel action and a notification that is repeated all move it.
OperationStays == [][(op \in OpOver) => op' = op]_op

\* The chat of a session that was created is told in the end.
ChatIsTold == session.state # "none" ~> chat # <<>>
=============================================================================
