---------------------------- MODULE DeliveryRace ----------------------------
(***************************************************************************)
(* The receiving side once more, statement by statement.  A handler thread *)
(* runs sandesha2_in_handler_invoke for one message and then, unless the   *)
(* message was paused, the service.  Every action below is one SQL         *)
(* statement (each is a transaction of its own on a connection of its own; *)
(* the code holds no lock) or one message given to the transport; what the *)
(* thread does in memory between two of them belongs to the first.  Any    *)
(* number of handlers share the rows, and the server may die between any   *)
(* two statements.  The incoming sequences are set up: the rows of a       *)
(* CreateSequence have a key nobody else knows yet.                        *)
(***************************************************************************)
EXTENDS Wire

CONSTANTS Handlers,     \* threads of the server
          Requests,     \* what the other end sends, in any order, repeatedly
          MaxCrashes    \* bound: deaths of the server

(***************************************************************************)
(* A number names one message of its sequence, and a message goes out on   *)
(* one sequence (OneWay shows it of a client with one sending thread).     *)
(***************************************************************************)
ASSUME RequestsAssumption ==
  /\ Requests \subseteq
       {m \in Messages : m.type \in {"App", "CloseSequence", "TerminateSequence"}}
  /\ \A m, o \in Requests :
       m.type = "App" /\ o.type = "App" =>
         (m = o <=> m.app = o.app) /\ (m.seq = o.seq /\ m.app.no = o.app.no => m = o)
ASSUME CrashesAssumption == MaxCrashes \in Nat

VARIABLES
  \* rows of the SQLite file, by sequence
  completed,    \* SERVER_COMPLETED_MESSAGES
  highestIn,    \* HIGHEST_IN_MSG_NUMBER, 0 for no row
  highestId,    \* the number of the message HIGHEST_IN_MSG_ID names, 0 for no row
  lastIn,       \* the number of the message LAST_IN_MESSAGE_ID names, 0 for no row
  closed,       \* sequences with SEQ_CLOSED
  \* handler threads: where they are and their local variables
  at,           \* the next statement of the thread
  msg,          \* the message in hand
  list,         \* the completed list as the thread has read it
  seen,         \* the highest message as the thread has read it
  paused,       \* the message context is paused
  \* the server and what was done
  crashes,
  delivered,    \* history: messages handed to the service
  redelivered,  \* history: messages handed to the service more than once
  cutOff,       \* history: messages recorded but in a handler's hand at a crash
  before        \* history: with one handler, the receiving side when the
                \* handler took the message in hand

rows == <<completed, highestIn, highestId, lastIn, closed>>
locals == <<at, msg, list, seen, paused>>
histories == <<crashes, delivered, redelivered, cutOff>>
vars == <<net, rows, locals, histories, before>>

Visible ==
  [net |-> net, completed |-> completed, highestIn |-> highestIn, lastIn |-> lastIn,
   closed |-> closed, delivered |-> delivered, redelivered |-> redelivered]

OneHandler == \A g, h \in Handlers : g = h

NoMsg == [type |-> "none"]

Init ==
  /\ net = Requests
  /\ completed = [s \in SeqIds |-> {}]
  /\ highestIn = [s \in SeqIds |-> 0]
  /\ highestId = [s \in SeqIds |-> 0]
  /\ lastIn = [s \in SeqIds |-> 0]
  /\ closed = {}
  /\ at = [h \in Handlers |-> "idle"]
  /\ msg = [h \in Handlers |-> NoMsg]
  /\ list = [h \in Handlers |-> {}]
  /\ seen = [h \in Handlers |-> 0]
  /\ paused = [h \in Handlers |-> FALSE]
  /\ crashes = 0
  /\ delivered = {}
  /\ redelivered = {}
  /\ cutOff = {}
  /\ before = Visible

seq(h) == msg[h].seq
app(h) == msg[h].app

(***************************************************************************)
(* Thread h goes on to the statement "to".  A local that is not read again *)
(* is cleared.                                                             *)
(***************************************************************************)
Take(h, m, to) ==
  /\ at[h] = "idle"
  /\ msg' = [msg EXCEPT ![h] = m]
  /\ at' = [at EXCEPT ![h] = to]
  /\ before' = IF OneHandler THEN Visible ELSE before

Goto(h, from, to) ==
  /\ at[h] = from
  /\ at' = [at EXCEPT ![h] = to]
  /\ UNCHANGED <<msg, before>>

Finish(h) ==
  /\ at' = [at EXCEPT ![h] = "idle"]
  /\ msg' = [msg EXCEPT ![h] = NoMsg]
  /\ list' = [list EXCEPT ![h] = {}]
  /\ seen' = [seen EXCEPT ![h] = 0]
  /\ paused' = [paused EXCEPT ![h] = FALSE]
  /\ UNCHANGED before

-----------------------------------------------------------------------------
PresentAsHighest(numbers, no) ==                       \* mutant
  no \in numbers /\ \A k \in numbers : k <= no
PresentBelow(numbers, no) == \E k \in numbers : no <= k \* mutant
Present(numbers, no) == no \in numbers

(***************************************************************************)
(* The look at the completed list before anything else.                    *)
(***************************************************************************)
ReadList(h, m) ==
  /\ m.type = "App"
  /\ IF Present(completed[m.seq], m.app.no)
       THEN Take(h, m, "ackAgain") /\ UNCHANGED list
       ELSE IF EmptyBody(m.app)
         THEN /\ Take(h, m, "recordEmpty")
              /\ list' = [list EXCEPT ![h] = completed[m.seq]]
         ELSE Take(h, m, "checkClosed") /\ UNCHANGED list
  /\ UNCHANGED <<net, rows, seen, paused, histories>>

AckAgainSilently(h) ==                                 \* mutant
  /\ at[h] = "ackAgain"
  /\ Finish(h)
  /\ UNCHANGED <<net, rows, histories>>

AckAgain(h) ==
  /\ at[h] = "ackAgain"
  /\ Put(Ack(seq(h), completed[seq(h)]))
  /\ Finish(h)
  /\ UNCHANGED <<rows, histories>>

RecordedAlone(numbers, no) == {no}                     \* mutant
RecordedUpTo(numbers, no) == numbers \cup 1 .. no      \* mutant
Recorded(numbers, no) == numbers \cup {no}

(***************************************************************************)
(* An empty body: the list, as it was read, goes back with the number.     *)
(***************************************************************************)
RecordEmpty(h) ==
  /\ Goto(h, "recordEmpty", "checkClosed")
  /\ completed' = [completed EXCEPT ![seq(h)] = Recorded(list[h], app(h).no)]
  /\ list' = [list EXCEPT ![h] = {}]
  /\ UNCHANGED <<net, highestIn, highestId, lastIn, closed, seen, paused, histories>>

CheckClosed(h) ==
  \/ /\ Goto(h, "checkClosed", "readHighest")
     /\ seq(h) \notin closed
     /\ UNCHANGED <<net, rows, list, seen, paused, histories>>
  \/ /\ at[h] = "checkClosed"
     /\ seq(h) \in closed
     /\ Put(SequenceClosedFault(seq(h)))
     /\ Finish(h)
     /\ UNCHANGED <<rows, histories>>

IsNext(no, high) == no = high + 1                      \* mutant
IsHigher(no, high) == no > high

ReadHighest(h) ==
  \/ /\ Goto(h, "readHighest", "writeHighest")
     /\ IsHigher(app(h).no, highestIn[seq(h)])
     /\ seen' = [seen EXCEPT ![h] = highestIn[seq(h)]]
     /\ UNCHANGED <<net, rows, list, paused, histories>>
  \/ /\ Goto(h, "readHighest", "reread")
     /\ ~IsHigher(app(h).no, highestIn[seq(h)])
     /\ UNCHANGED <<net, rows, list, seen, paused, histories>>

WriteHighest(h) ==
  /\ Goto(h, "writeHighest", "writeHighestId")
  /\ highestIn' = [highestIn EXCEPT ![seq(h)] = app(h).no]
  /\ UNCHANGED <<net, completed, highestId, lastIn, closed, list, seen, paused, histories>>

(***************************************************************************)
(* Insert or update, by what was read of the number's row: an update of an *)
(* id row that a crash has kept from being inserted changes nothing.       *)
(***************************************************************************)
WriteHighestId(h) ==
  /\ Goto(h, "writeHighestId", "reread")
  /\ highestId' =
       IF seen[h] = 0 \/ highestId[seq(h)] # 0
         THEN [highestId EXCEPT ![seq(h)] = app(h).no]
         ELSE highestId
  /\ seen' = [seen EXCEPT ![h] = 0]
  /\ UNCHANGED <<net, completed, highestIn, lastIn, closed, list, paused, histories>>

(***************************************************************************)
(* The second look at the list.  A number that is there now pauses the     *)
(* message (so it always is for an empty body).                            *)
(***************************************************************************)
AfterRecord(b) == IF LastIndicator(b) THEN "markLast" ELSE "ack"

RereadList(h) ==
  /\ at[h] = "reread"
  /\ IF Present(completed[seq(h)], app(h).no)
       THEN /\ Goto(h, "reread", AfterRecord(app(h)))
            /\ paused' = [paused EXCEPT ![h] = TRUE]
            /\ UNCHANGED list
       ELSE /\ Goto(h, "reread", "record")
            /\ list' = [list EXCEPT ![h] = completed[seq(h)]]
            /\ UNCHANGED paused
  /\ UNCHANGED <<net, rows, seen, histories>>

Record(h) ==
  /\ Goto(h, "record", AfterRecord(app(h)))
  /\ completed' = [completed EXCEPT ![seq(h)] = Recorded(list[h], app(h).no)]
  /\ list' = [list EXCEPT ![h] = {}]
  /\ UNCHANGED <<net, highestIn, highestId, lastIn, closed, seen, paused, histories>>

MarkLastMessage(h) ==
  /\ Goto(h, "markLast", "ack")
  /\ lastIn' = [lastIn EXCEPT ![seq(h)] = app(h).no]
  /\ UNCHANGED <<net, completed, highestIn, highestId, closed, list, seen, paused, histories>>

(***************************************************************************)
(* The acknowledgement reads the list a third time.  in_handler ignores    *)
(* whether it could be sent.                                               *)
(***************************************************************************)
SendAckUnpaused(h) ==                                  \* mutant
  /\ at[h] = "ack"
  /\ Put(Ack(seq(h), completed[seq(h)]))
  /\ IF EmptyBody(app(h))
       THEN Finish(h)
       ELSE Goto(h, "ack", "deliver") /\ UNCHANGED <<list, seen, paused>>
  /\ UNCHANGED <<rows, histories>>

SendAck(h) ==
  /\ at[h] = "ack"
  /\ Put(Ack(seq(h), completed[seq(h)]))
  /\ IF EmptyBody(app(h)) \/ paused[h]
       THEN Finish(h)
       ELSE Goto(h, "ack", "deliver") /\ UNCHANGED <<list, seen, paused>>
  /\ UNCHANGED <<rows, histories>>

Deliver(h) ==
  /\ at[h] = "deliver"
  /\ delivered' = delivered \cup {app(h)}
  /\ redelivered' = redelivered \cup ({app(h)} \cap delivered)
  /\ Finish(h)
  /\ UNCHANGED <<net, rows, crashes, cutOff>>

-----------------------------------------------------------------------------
InsertClosed(h, m) ==
  /\ m.type = "CloseSequence"
  /\ Take(h, m, "answerClose")
  /\ closed' = closed \cup {m.seq}
  /\ UNCHANGED <<net, completed, highestIn, highestId, lastIn, list, seen, paused, histories>>

AnswerClose(h) ==
  /\ at[h] = "answerClose"
  /\ Put(CloseSequenceResponse(seq(h), completed[seq(h)]))
  /\ Finish(h)
  /\ UNCHANGED <<rows, histories>>

(***************************************************************************)
(* RM 1.1 is answered first; then the highest message is marked as last.   *)
(***************************************************************************)
AnswerTerminate(h, m) ==
  /\ m.type = "TerminateSequence"
  /\ Take(h, m, "readHighestNumber")
  /\ IF Spec10
       THEN UNCHANGED net
       ELSE Put(TerminateSequenceResponse(m.seq, completed[m.seq]))
  /\ UNCHANGED <<rows, list, seen, paused, histories>>

ReadHighestNumber(h) ==
  \/ /\ Goto(h, "readHighestNumber", "readHighestId")
     /\ highestIn[seq(h)] # 0
     /\ UNCHANGED <<net, rows, list, seen, paused, histories>>
  \/ /\ at[h] = "readHighestNumber"
     /\ highestIn[seq(h)] = 0
     /\ Finish(h)
     /\ UNCHANGED <<net, rows, histories>>

ReadHighestId(h) ==
  \/ /\ Goto(h, "readHighestId", "markHighest")
     /\ highestId[seq(h)] # 0
     /\ seen' = [seen EXCEPT ![h] = highestId[seq(h)]]
     /\ UNCHANGED <<net, rows, list, paused, histories>>
  \/ /\ at[h] = "readHighestId"
     /\ highestId[seq(h)] = 0
     /\ Finish(h)
     /\ UNCHANGED <<net, rows, histories>>

MarkHighest(h) ==
  /\ at[h] = "markHighest"
  /\ lastIn' = [lastIn EXCEPT ![seq(h)] = seen[h]]
  /\ Finish(h)
  /\ UNCHANGED <<net, completed, highestIn, highestId, closed, histories>>

-----------------------------------------------------------------------------
(***************************************************************************)
(* A message this handler has recorded and will hand to the service.       *)
(***************************************************************************)
Holds(h, b) ==
  /\ at[h] \in {"markLast", "ack", "deliver"}
  /\ app(h) = b
  /\ ~paused[h] /\ ~EmptyBody(b)

Crash ==
  /\ crashes < MaxCrashes
  /\ crashes' = crashes + 1
  /\ cutOff' = cutOff \cup {b \in AppMsgs : \E h \in Handlers : Holds(h, b)}
  /\ at' = [h \in Handlers |-> "idle"]
  /\ msg' = [h \in Handlers |-> NoMsg]
  /\ list' = [h \in Handlers |-> {}]
  /\ seen' = [h \in Handlers |-> 0]
  /\ paused' = [h \in Handlers |-> FALSE]
  /\ UNCHANGED <<net, rows, delivered, redelivered, before>>

Receive(h, m) == ReadList(h, m) \/ InsertClosed(h, m) \/ AnswerTerminate(h, m)

Continue(h) ==
  \/ AckAgain(h) \/ RecordEmpty(h) \/ CheckClosed(h)
  \/ ReadHighest(h) \/ WriteHighest(h) \/ WriteHighestId(h)
  \/ RereadList(h) \/ Record(h) \/ MarkLastMessage(h)
  \/ SendAck(h) \/ Deliver(h)
  \/ AnswerClose(h)
  \/ ReadHighestNumber(h) \/ ReadHighestId(h) \/ MarkHighest(h)

Next ==
  \/ \E h \in Handlers : Continue(h) \/ \E m \in Requests : Receive(h, m)
  \/ Crash

Spec == Init /\ [][Next]_vars

(***************************************************************************)
(* Fairness.  The threads are scheduled, and the other end repeats a       *)
(* message until it is acknowledged.                                       *)
(***************************************************************************)
Answers == {"Ack", "CloseSequenceResponse", "TerminateSequenceResponse"}
AckedNos(s) == UNION {m.nos : m \in {o \in net : o.type \in Answers /\ o.seq = s}}
IsAcked(m) == m.app.no \in AckedNos(m.seq)

Fairness ==
  /\ \A h \in Handlers : WF_vars(Continue(h))
  /\ \A m \in Requests :
       SF_vars(m.type = "App" /\ ~IsAcked(m) /\ \E h \in Handlers : ReadList(h, m))

FairSpec == Spec /\ Fairness

-----------------------------------------------------------------------------
(***************************************************************************)
(* Every variable keeps its type; a thread at rest has no message, a       *)
(* paused one is on its way to the acknowledgement.                        *)
(***************************************************************************)
Places ==
  {"idle", "ackAgain", "recordEmpty", "checkClosed", "readHighest", "writeHighest",
   "writeHighestId", "reread", "record", "markLast", "ack", "deliver",
   "answerClose", "readHighestNumber", "readHighestId", "markHighest"}
AppPlaces ==
  Places \ {"idle", "answerClose", "readHighestNumber", "readHighestId", "markHighest"}

HandlerOK(h) ==
  /\ at[h] = "idle" => msg[h] = NoMsg /\ list[h] = {} /\ seen[h] = 0
  /\ at[h] # "idle" => msg[h] \in Requests
  /\ at[h] \in AppPlaces => msg[h].type = "App"
  /\ at[h] = "recordEmpty" => EmptyBody(app(h))
  /\ at[h] = "deliver" => ~EmptyBody(app(h))
  /\ paused[h] => at[h] \in {"markLast", "ack"}

RowsOK ==
  /\ completed \in [SeqIds -> SUBSET Nos]
  /\ highestIn \in [SeqIds -> 0 .. MaxMsg]
  /\ highestId \in [SeqIds -> 0 .. MaxMsg]
  /\ lastIn \in [SeqIds -> 0 .. MaxMsg]
  /\ closed \subseteq SeqIds

LocalsOK ==
  /\ at \in [Handlers -> Places]
  /\ msg \in [Handlers -> Requests \cup {NoMsg}]
  /\ list \in [Handlers -> SUBSET Nos]
  /\ seen \in [Handlers -> 0 .. MaxMsg]
  /\ paused \in [Handlers -> BOOLEAN]
  /\ \A h \in Handlers : HandlerOK(h)

HistoriesOK ==
  /\ crashes \in 0 .. MaxCrashes
  /\ delivered \subseteq AppMsgs
  /\ redelivered \subseteq AppMsgs
  /\ cutOff \subseteq AppMsgs

BeforeOK ==
  before \in
    [net : SUBSET Messages, completed : [SeqIds -> SUBSET Nos],
     highestIn : [SeqIds -> 0 .. MaxMsg], lastIn : [SeqIds -> 0 .. MaxMsg],
     closed : SUBSET SeqIds, delivered : SUBSET AppMsgs, redelivered : SUBSET AppMsgs]

TypeOK == net \subseteq Messages /\ RowsOK /\ LocalsOK /\ HistoriesOK /\ BeforeOK

(***************************************************************************)
(* No message is handed to the service twice ("Exactly once delivery       *)
(* assurance is guaranteed", xdocs/index.html).  With one handler thread   *)
(* the first look at the list keeps this through any crash; with two it    *)
(* does not.                                                               *)
(***************************************************************************)
DeliveredAtMostOnce == redelivered = {}

(***************************************************************************)
(* What is acknowledged has been handed to the service, is in the hand of  *)
(* a handler that will do so, or was in a hand when the server died: races *)
(* of handlers, lost updates of the list included, lose nothing.           *)
(***************************************************************************)
WithService(b) == EmptyBody(b) \/ b \in delivered \/ \E h \in Handlers : Holds(h, b)

Account(b) == WithService(b) \/ b \in cutOff

AckedIsAccountedFor ==
  \A m \in Requests : m.type = "App" /\ IsAcked(m) => Account(m.app)

(***************************************************************************)
(* The highest number is never below a recorded one (the handler writes it *)
(* first; of an empty body in_handler records the number before that), so  *)
(* what a TerminateSequence marks as the last message does not exclude one *)
(* that was accepted.                                                      *)
(***************************************************************************)
HighestCoversRecorded ==
  \A m \in Requests :
    m.type = "App" /\ ~EmptyBody(m.app) /\ m.app.no \in completed[m.seq] =>
      m.app.no <= highestIn[m.seq]

(***************************************************************************)
(* Every message that is repeated until it is acknowledged is acknowledged *)
(* (if its sequence stays open): handlers that overwrite each other's      *)
(* lists repair them in the end, and a message that was recorded before a  *)
(* crash is acknowledged after it.                                         *)
(***************************************************************************)
EventuallyAcked ==
  \A m \in Requests : m.type = "App" => <>(IsAcked(m) \/ m.seq \in closed)

-----------------------------------------------------------------------------
(***************************************************************************)
(* Inductive invariants of the proofs.  Whatever is in a row, in a list a  *)
(* handler has read or in an acknowledgement is accounted for; that is     *)
(* never lost again, so stale reads and overwritten rows do no harm.       *)
(***************************************************************************)
Accounted(s, n) ==
  \A m \in Requests : m.type = "App" /\ m.seq = s /\ m.app.no = n => Account(m.app)

AccountInv ==
  /\ TypeOK
  /\ \A s \in SeqIds : \A n \in completed[s] : Accounted(s, n)
  /\ \A h \in Handlers : at[h] \in {"recordEmpty", "record"} =>
       \A n \in list[h] : Accounted(seq(h), n)
  /\ \A m \in net : m.type \in Answers => \A n \in m.nos : Accounted(m.seq, n)

(***************************************************************************)
(* With one handler thread a list in hand is the list in the file, and the *)
(* message in hand has its place between the rows.                         *)
(***************************************************************************)
InOrder(h) ==
  /\ at[h] \in {"recordEmpty", "record"} =>
       list[h] = completed[seq(h)] /\ ~Present(completed[seq(h)], app(h).no)
  /\ at[h] = "writeHighest" => IsHigher(app(h).no, highestIn[seq(h)])
  /\ at[h] \in {"writeHighestId", "reread", "record"} => app(h).no <= highestIn[seq(h)]
  /\ \A m \in Requests :
       m.type = "App" /\ Holds(h, m.app) =>
         m.app.no \in completed[m.seq] /\ m.app \notin delivered

DeliveredIsRecorded ==
  \A m \in Requests : m.type = "App" /\ m.app \in delivered => m.app.no \in completed[m.seq]

SerialInv ==
  /\ TypeOK
  /\ DeliveredAtMostOnce
  /\ HighestCoversRecorded
  /\ DeliveredIsRecorded
  /\ \A h \in Handlers : InOrder(h)
=============================================================================
