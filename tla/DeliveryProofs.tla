--------------------------- MODULE DeliveryProofs ---------------------------
(***************************************************************************)
(* Type correctness of DeliveryRace and that what it acknowledges is       *)
(* accounted for: for any number of handler threads, requests and crashes. *)
(* For one handler thread: nothing is delivered twice, the highest number  *)
(* covers what is recorded, and until a crash its statements add up to the *)
(* steps of RMDestination.                                                 *)
(***************************************************************************)
EXTENDS DeliverySerial, WireFacts

(***************************************************************************)
(* The fields of what a handler can have in hand.                          *)
(***************************************************************************)
LEMMA RequestFields ==
  ASSUME NEW m \in Requests
  PROVE  /\ m \in Messages
         /\ m.type \in {"App", "CloseSequence", "TerminateSequence"}
         /\ m.seq \in SeqIds
         /\ m.type = "App" => m.app \in AppMsgs /\ m.app.no \in Nos
<1>1. m \in Messages /\ m.type \in {"App", "CloseSequence", "TerminateSequence"}
  BY RequestsAssumption
<1>2. m.seq \in SeqIds /\ (m.type = "App" => m.app \in AppMsgs)
  BY <1>1, MessageFields
<1> QED
  BY <1>1, <1>2 DEF AppMsgs

(***************************************************************************)
(* A number names one message of its sequence, and an application message  *)
(* is in one request.                                                      *)
(***************************************************************************)
LEMMA SameNumber ==
  ASSUME NEW m \in Requests, NEW o \in Requests, m.type = "App", o.type = "App",
         (m.seq = o.seq /\ m.app.no = o.app.no) \/ m.app = o.app
  PROVE  m = o
  BY RequestsAssumption

LEMMA HandFields ==
  ASSUME TypeOK, NEW h \in Handlers, at[h] # "idle"
  PROVE  /\ msg[h] \in Requests
         /\ seq(h) \in SeqIds
         /\ at[h] \in AppPlaces => /\ msg[h].type = "App"
                                   /\ app(h) \in AppMsgs
                                   /\ app(h).no \in Nos /\ app(h).no \in 0 .. MaxMsg
<1>1. msg[h] \in Requests /\ (at[h] \in AppPlaces => msg[h].type = "App")
  BY DEF TypeOK, LocalsOK, HandlerOK
<1>2. Nos \subseteq 0 .. MaxMsg
  BY BoundsAssumption DEF Nos
<1> QED
  BY <1>1, <1>2, RequestFields DEF seq, app

LEMMA TypeVisible ==
  ASSUME net \subseteq Messages, RowsOK, HistoriesOK, before = Visible
  PROVE  BeforeOK
<1>1. /\ net \in SUBSET Messages /\ closed \in SUBSET SeqIds
      /\ delivered \in SUBSET AppMsgs /\ redelivered \in SUBSET AppMsgs
  BY DEF RowsOK, HistoriesOK
<1>2. /\ completed \in [SeqIds -> SUBSET Nos]
      /\ highestIn \in [SeqIds -> 0 .. MaxMsg] /\ lastIn \in [SeqIds -> 0 .. MaxMsg]
  BY DEF RowsOK
<1> QED
  BY <1>1, <1>2 DEF BeforeOK, Visible

LEMMA TypeInit == Init => TypeOK
<1> SUFFICES ASSUME Init PROVE TypeOK
  OBVIOUS
<1>1. 0 \in 0 .. MaxMsg /\ 0 \in 0 .. MaxCrashes
  BY BoundsAssumption, CrashesAssumption
<1>2. net \subseteq Messages
  BY RequestsAssumption DEF Init
<1>3. RowsOK
  BY <1>1 DEF Init, RowsOK
<1>4. LocalsOK
  BY <1>1 DEF Init, LocalsOK, HandlerOK, Places, AppPlaces
<1>5. HistoriesOK
  BY <1>1 DEF Init, HistoriesOK
<1>6. BeforeOK
  BY <1>2, <1>3, <1>5, TypeVisible DEF Init
<1> QED
  BY <1>2, <1>3, <1>4, <1>5, <1>6 DEF TypeOK

(***************************************************************************)
(* The rows, the wire and the histories.                                   *)
(***************************************************************************)
LEMMA TypeRows ==
  ASSUME TypeOK, NEW h \in Handlers, Continue(h)
  PROVE  net' \subseteq Messages /\ RowsOK' /\ HistoriesOK'
<1> USE HandFields, MessageTypes
    DEF TypeOK, RowsOK, HistoriesOK, rows, histories, Goto, Finish, Put, seq, app
<1> DEFINE Kept == net' \subseteq Messages /\ RowsOK' /\ HistoriesOK'
<1>1. CASE AckAgain(h) \/ AnswerClose(h) \/ SendAck(h)
  BY <1>1 DEF AckAgain, AnswerClose, SendAck
<1>2. CASE RecordEmpty(h) \/ Record(h)
  <2>1. at[h] \in AppPlaces
    BY <1>2 DEF RecordEmpty, Record, AppPlaces, Places
  <2>2. Recorded(list[h], app(h).no) \in SUBSET Nos
    BY <2>1 DEF Recorded, LocalsOK, AppPlaces
  <2> QED
    BY <1>2, <2>2 DEF RecordEmpty, Record
<1>3. CASE CheckClosed(h)
  BY <1>3 DEF CheckClosed
<1>4. CASE ReadHighest(h) \/ RereadList(h) \/ ReadHighestNumber(h) \/ ReadHighestId(h)
  BY <1>4 DEF ReadHighest, RereadList, ReadHighestNumber, ReadHighestId
<1>5. CASE WriteHighest(h) \/ WriteHighestId(h) \/ MarkLastMessage(h)
  <2>1. at[h] \in AppPlaces
    BY <1>5 DEF WriteHighest, WriteHighestId, MarkLastMessage, AppPlaces, Places
  <2>2. app(h).no \in 0 .. MaxMsg
    BY <2>1 DEF AppPlaces
  <2> QED
    BY <1>5, <2>2 DEF WriteHighest, WriteHighestId, MarkLastMessage
<1>6. CASE Deliver(h)
  <2>1. app(h) \in AppMsgs
    BY <1>6 DEF Deliver, AppPlaces, Places
  <2> QED
    BY <1>6, <2>1 DEF Deliver
<1>7. CASE MarkHighest(h)
  BY <1>7 DEF MarkHighest, LocalsOK
<1> QED
  BY <1>1, <1>2, <1>3, <1>4, <1>5, <1>6, <1>7 DEF Continue

(***************************************************************************)
(* The local variables of the handlers.                                    *)
(***************************************************************************)
LEMMA TypeLocals ==
  ASSUME TypeOK, NEW h \in Handlers, Continue(h)
  PROVE  LocalsOK'
<1> USE DEF LocalsOK, HandlerOK, locals, AppPlaces, Places
<1>1. ASSUME Finish(h) PROVE LocalsOK'
  <2>1. 0 \in 0 .. MaxMsg
    BY BoundsAssumption
  <2>2. /\ at' \in [Handlers -> Places]
        /\ msg' \in [Handlers -> Requests \cup {NoMsg}]
        /\ list' \in [Handlers -> SUBSET Nos]
        /\ seen' \in [Handlers -> 0 .. MaxMsg]
        /\ paused' \in [Handlers -> BOOLEAN]
    BY <1>1, <2>1 DEF TypeOK, Finish
  <2>3. ASSUME NEW k \in Handlers PROVE HandlerOK(k)'
    BY <1>1, <2>3 DEF TypeOK, Finish, app
  <2> QED
    BY <2>2, <2>3
<1>2. CASE RecordEmpty(h) \/ Record(h)
  BY <1>2 DEF TypeOK, RecordEmpty, Record, Goto, AfterRecord, app
<1>3. CASE CheckClosed(h)
  BY <1>1, <1>3 DEF TypeOK, CheckClosed, Goto, app
<1>4. CASE ReadHighest(h) \/ WriteHighest(h) \/ WriteHighestId(h)
  <2>1. seq(h) \in SeqIds
    BY <1>4, HandFields DEF ReadHighest, WriteHighest, WriteHighestId, Goto
  <2>2. highestIn[seq(h)] \in 0 .. MaxMsg /\ 0 \in 0 .. MaxMsg
    BY <2>1, BoundsAssumption DEF TypeOK, RowsOK
  <2> QED
    BY <1>4, <2>2 DEF TypeOK, ReadHighest, WriteHighest, WriteHighestId, Goto, app
<1>5. CASE RereadList(h)
  <2>1. at[h] = "reread" /\ seq(h) \in SeqIds
    BY <1>5, HandFields DEF RereadList
  <2>2. completed[seq(h)] \in SUBSET Nos
    BY <2>1 DEF TypeOK, RowsOK
  <2>3. /\ at' \in [Handlers -> Places]
        /\ msg' \in [Handlers -> Requests \cup {NoMsg}]
        /\ list' \in [Handlers -> SUBSET Nos]
        /\ seen' \in [Handlers -> 0 .. MaxMsg]
        /\ paused' \in [Handlers -> BOOLEAN]
    BY <1>5, <2>2 DEF TypeOK, RereadList, Goto, AfterRecord
  <2>4. ASSUME NEW k \in Handlers PROVE HandlerOK(k)'
    BY <1>5, <2>1, <2>4 DEF TypeOK, RereadList, Goto, AfterRecord, app
  <2> QED
    BY <2>3, <2>4
<1>6. CASE MarkLastMessage(h)
  BY <1>6 DEF TypeOK, MarkLastMessage, Goto, app
<1>7. CASE SendAck(h)
  BY <1>1, <1>7 DEF TypeOK, SendAck, Goto, app
<1>8. CASE ReadHighestNumber(h)
  BY <1>1, <1>8 DEF TypeOK, ReadHighestNumber, Goto, app
<1>9. CASE ReadHighestId(h)
  <2>1. at[h] = "readHighestId" /\ seq(h) \in SeqIds
    BY <1>9, HandFields DEF ReadHighestId, Goto
  <2>2. highestId[seq(h)] \in 0 .. MaxMsg
    BY <2>1 DEF TypeOK, RowsOK
  <2> QED
    BY <1>1, <1>9, <2>2 DEF TypeOK, ReadHighestId, Goto, app
<1>10. CASE AckAgain(h) \/ Deliver(h) \/ AnswerClose(h) \/ MarkHighest(h)
  BY <1>1, <1>10 DEF AckAgain, Deliver, AnswerClose, MarkHighest
<1> QED
  BY <1>2, <1>3, <1>4, <1>5, <1>6, <1>7, <1>8, <1>9, <1>10 DEF Continue

(***************************************************************************)
(* The copy of the receiving side is taken when a message is taken.        *)
(***************************************************************************)
LEMMA TypeBefore ==
  ASSUME TypeOK, [Next]_vars
  PROVE  BeforeOK'
<1>1. Visible \in
        [net : SUBSET Messages, completed : [SeqIds -> SUBSET Nos],
         highestIn : [SeqIds -> 0 .. MaxMsg], lastIn : [SeqIds -> 0 .. MaxMsg],
         closed : SUBSET SeqIds, delivered : SUBSET AppMsgs, redelivered : SUBSET AppMsgs]
  <2>1. /\ net \in SUBSET Messages /\ closed \in SUBSET SeqIds
        /\ delivered \in SUBSET AppMsgs /\ redelivered \in SUBSET AppMsgs
    BY DEF TypeOK, RowsOK, HistoriesOK
  <2>2. /\ completed \in [SeqIds -> SUBSET Nos]
        /\ highestIn \in [SeqIds -> 0 .. MaxMsg] /\ lastIn \in [SeqIds -> 0 .. MaxMsg]
    BY DEF TypeOK, RowsOK
  <2> QED
    BY <2>1, <2>2 DEF Visible
<1>2. before' \in {before, Visible}
  <2>1. ASSUME NEW h \in Handlers, Continue(h) PROVE before' = before
    BY <2>1 DEF Continue, AckAgain, RecordEmpty, CheckClosed, ReadHighest, WriteHighest,
        WriteHighestId, RereadList, Record, MarkLastMessage, SendAck, Deliver, AnswerClose,
        ReadHighestNumber, ReadHighestId, MarkHighest, Goto, Finish
  <2>2. ASSUME NEW h \in Handlers, NEW m \in Requests, Receive(h, m)
        PROVE  before' \in {before, Visible}
    BY <2>2 DEF Receive, ReadList, InsertClosed, AnswerTerminate, Take
  <2>3. Crash \/ UNCHANGED vars => before' = before
    BY DEF Crash, vars
  <2> QED
    BY <2>1, <2>2, <2>3 DEF Next
<1> QED
  BY <1>1, <1>2 DEF TypeOK, BeforeOK

LEMMA TypeReceive ==
  ASSUME TypeOK, NEW h \in Handlers, NEW m \in Requests, Receive(h, m)
  PROVE  net' \subseteq Messages /\ RowsOK' /\ HistoriesOK' /\ LocalsOK'
<1>1. m.seq \in SeqIds
  BY RequestFields
<1>2. completed[m.seq] \in SUBSET Nos
  BY <1>1 DEF TypeOK, RowsOK
<1>3. net' \subseteq Messages /\ RowsOK' /\ HistoriesOK'
  BY <1>1, <1>2, MessageTypes
     DEF TypeOK, RowsOK, HistoriesOK, Receive, ReadList, InsertClosed, AnswerTerminate, rows,
         histories, Put
<1>4. LocalsOK'
  <2> USE DEF TypeOK, LocalsOK, HandlerOK, Take, AppPlaces, Places, app
  <2>1. CASE ReadList(h, m)
    BY <1>2, <2>1 DEF ReadList
  <2>2. CASE InsertClosed(h, m) \/ AnswerTerminate(h, m)
    BY <2>2 DEF InsertClosed, AnswerTerminate
  <2> QED
    BY <2>1, <2>2 DEF Receive
<1> QED
  BY <1>3, <1>4

LEMMA TypeNext == TypeOK /\ [Next]_vars => TypeOK'
<1> SUFFICES ASSUME TypeOK, [Next]_vars PROVE TypeOK'
  OBVIOUS
<1>1. ASSUME NEW h \in Handlers, Continue(h) PROVE TypeOK'
  BY <1>1, TypeRows, TypeLocals, TypeBefore DEF TypeOK, Next
<1>2. ASSUME NEW h \in Handlers, NEW m \in Requests, Receive(h, m) PROVE TypeOK'
  BY <1>2, TypeReceive, TypeBefore DEF TypeOK, Next
<1>3. CASE Crash
  <2>1. LocalsOK'
    BY <1>3, BoundsAssumption DEF Crash, LocalsOK, HandlerOK, Places, AppPlaces
  <2>2. crashes' \in 0 .. MaxCrashes
    BY <1>3, CrashesAssumption DEF TypeOK, HistoriesOK, Crash
  <2> QED
    BY <1>3, <2>1, <2>2, TypeBefore DEF TypeOK, HistoriesOK, RowsOK, Crash, rows, Next
<1>4. CASE UNCHANGED vars
  BY <1>4, TypeBefore
     DEF vars, rows, locals, histories, TypeOK, RowsOK, LocalsOK, HandlerOK, HistoriesOK, app
<1> QED
  BY <1>1, <1>2, <1>3, <1>4 DEF Next

(***************************************************************************)
(* Every variable keeps its type, whatever the handlers interleave.        *)
(***************************************************************************)
THEOREM DeliveryTypeCorrect == Spec => []TypeOK
  BY TypeInit, TypeNext, PTL DEF Spec

-----------------------------------------------------------------------------
(***************************************************************************)
(* The histories only grow.                                                *)
(***************************************************************************)
LEMMA HistoriesGrow ==
  ASSUME [Next]_vars
  PROVE  delivered \subseteq delivered' /\ cutOff \subseteq cutOff'
<1> USE DEF histories
<1>1. ASSUME NEW h \in Handlers, Continue(h)
      PROVE  delivered \subseteq delivered' /\ cutOff \subseteq cutOff'
  BY <1>1 DEF Continue, AckAgain, RecordEmpty, CheckClosed, ReadHighest, WriteHighest,
      WriteHighestId, RereadList, Record, MarkLastMessage, SendAck, Deliver, AnswerClose,
      ReadHighestNumber, ReadHighestId, MarkHighest
<1>2. ASSUME NEW h \in Handlers, NEW m \in Requests, Receive(h, m)
      PROVE  delivered \subseteq delivered' /\ cutOff \subseteq cutOff'
  BY <1>2 DEF Receive, ReadList, InsertClosed, AnswerTerminate
<1>3. CASE Crash
  BY <1>3 DEF Crash
<1>4. CASE UNCHANGED vars
  BY <1>4 DEF vars
<1> QED
  BY <1>1, <1>2, <1>3, <1>4 DEF Next

(***************************************************************************)
(* A handler lets go of a message it holds only by handing it over.        *)
(***************************************************************************)
LEMMA OtherHandUnchanged ==
  ASSUME TypeOK, NEW h \in Handlers, NEW k \in Handlers, k # h,
         Continue(k) \/ \E m \in Requests : Receive(k, m)
  PROVE  /\ at'[h] = at[h] /\ msg'[h] = msg[h]
         /\ list'[h] = list[h] /\ seen'[h] = seen[h] /\ paused'[h] = paused[h]
<1> USE DEF TypeOK, LocalsOK, Goto, Finish, Take, rows, histories
<1>1. CASE AckAgain(k) \/ RecordEmpty(k) \/ CheckClosed(k) \/ ReadHighest(k) \/ WriteHighest(k)
  BY <1>1 DEF AckAgain, RecordEmpty, CheckClosed, ReadHighest, WriteHighest
<1>2. CASE WriteHighestId(k) \/ RereadList(k) \/ Record(k) \/ MarkLastMessage(k) \/ SendAck(k)
  BY <1>2 DEF WriteHighestId, RereadList, Record, MarkLastMessage, SendAck
<1>3. CASE Deliver(k) \/ AnswerClose(k) \/ ReadHighestNumber(k) \/ ReadHighestId(k) \/ MarkHighest(k)
  BY <1>3 DEF Deliver, AnswerClose, ReadHighestNumber, ReadHighestId, MarkHighest
<1>4. CASE \E m \in Requests : Receive(k, m)
  BY <1>4 DEF Receive, ReadList, InsertClosed, AnswerTerminate
<1> QED
  BY <1>1, <1>2, <1>3, <1>4 DEF Continue

LEMMA HoldsUntilDelivered ==
  ASSUME TypeOK, NEW h \in Handlers, NEW b \in AppMsgs, Holds(h, b), Continue(h)
  PROVE  Holds(h, b)' \/ b \in delivered'
<1> USE DEF Holds, Goto, app
<1>1. CASE MarkLastMessage(h)
  BY <1>1 DEF MarkLastMessage, TypeOK, LocalsOK
<1>2. CASE SendAck(h)
  BY <1>2 DEF SendAck, TypeOK, LocalsOK
<1>3. CASE Deliver(h)
  BY <1>3 DEF Deliver
<1>4. at[h] \in {"markLast", "ack", "deliver"}
  OBVIOUS
<1> QED
  BY <1>1, <1>2, <1>3, <1>4 DEF Continue, AckAgain, RecordEmpty, CheckClosed, ReadHighest,
      WriteHighest, WriteHighestId, RereadList, Record, AnswerClose, ReadHighestNumber,
      ReadHighestId, MarkHighest

LEMMA StaysAccounted ==
  ASSUME TypeOK, [Next]_vars, NEW b \in AppMsgs, Account(b)
  PROVE  Account(b)'
<1>1. CASE EmptyBody(b) \/ b \in delivered \/ b \in cutOff
  BY <1>1, HistoriesGrow DEF Account, WithService
<1>2. ASSUME NEW h \in Handlers, Holds(h, b) PROVE Account(b)'
  <2>1. ASSUME NEW k \in Handlers, Continue(k) \/ \E m \in Requests : Receive(k, m), k # h
        PROVE  Account(b)'
    <3>1. Holds(h, b)'
      BY <1>2, <2>1, OtherHandUnchanged DEF Holds, app
    <3> QED
      BY <3>1 DEF Account, WithService
  <2>2. CASE Continue(h)
    BY <1>2, <2>2, HoldsUntilDelivered DEF Account, WithService
  <2>3. ASSUME NEW m \in Requests, Receive(h, m) PROVE FALSE
    BY <1>2, <2>3 DEF Holds, Receive, ReadList, InsertClosed, AnswerTerminate, Take
  <2>4. CASE Crash
    BY <1>2, <2>4 DEF Crash, Account
  <2>5. CASE UNCHANGED vars
    BY <1>2, <2>5 DEF vars, locals, Holds, app, Account, WithService
  <2> QED
    BY <2>1, <2>2, <2>3, <2>4, <2>5 DEF Next
<1> QED
  BY <1>1, <1>2 DEF Account, WithService

LEMMA NumberStaysAccounted ==
  ASSUME TypeOK, [Next]_vars, NEW s, NEW n, Accounted(s, n)
  PROVE  Accounted(s, n)'
<1> SUFFICES ASSUME NEW m \in Requests, m.type = "App", m.seq = s, m.app.no = n
             PROVE  Account(m.app)'
  BY DEF Accounted
<1>1. m.app \in AppMsgs /\ Account(m.app)
  BY RequestFields DEF Accounted
<1> QED
  BY <1>1, StaysAccounted

(***************************************************************************)
(* A handler that records a number holds the only message of that number.  *)
(***************************************************************************)
LEMMA RecordingAccounts ==
  ASSUME TypeOK, NEW h \in Handlers, RecordEmpty(h) \/ Record(h)
  PROVE  Accounted(seq(h), app(h).no)'
<1> SUFFICES ASSUME NEW m \in Requests, m.type = "App", m.seq = seq(h), m.app.no = app(h).no
             PROVE  Account(m.app)'
  <2>1. seq(h)' = seq(h) /\ app(h)' = app(h)
    BY DEF RecordEmpty, Record, Goto, seq, app
  <2> QED
    BY <2>1 DEF Accounted
<1>1. at[h] \in {"recordEmpty", "record"}
  BY DEF RecordEmpty, Record, Goto
<1>2. msg[h] \in Requests /\ msg[h].type = "App"
  BY <1>1, HandFields DEF AppPlaces, Places
<1>3. m = msg[h]
  BY <1>2, RequestsAssumption DEF seq, app
<1>4. CASE RecordEmpty(h)
  BY <1>3, <1>4 DEF RecordEmpty, Goto, TypeOK, LocalsOK, HandlerOK, app, Account, WithService
<1>5. CASE Record(h) /\ ~EmptyBody(m.app)
  <2>1. Holds(h, m.app)'
    BY <1>3, <1>5
       DEF Record, Goto, AfterRecord, TypeOK, LocalsOK, HandlerOK, app, Holds
  <2> QED
    BY <2>1 DEF Account, WithService
<1> QED
  BY <1>4, <1>5 DEF Account, WithService

LEMMA AccountInit == Init => AccountInv
  BY TypeInit, RequestsAssumption DEF Init, AccountInv, Answers

(***************************************************************************)
(* A list is written from a list that was read, plus the number in hand.   *)
(***************************************************************************)
LEMMA AccountNext == AccountInv /\ [Next]_vars => AccountInv'
<1> SUFFICES ASSUME AccountInv, [Next]_vars PROVE AccountInv'
  OBVIOUS
<1>1. TypeOK /\ TypeOK'
  BY TypeNext DEF AccountInv
<1>2. ASSUME NEW s, NEW n, Accounted(s, n) PROVE Accounted(s, n)'
  BY <1>1, <1>2, NumberStaysAccounted
<1>3. \A s \in SeqIds : \A n \in completed'[s] : Accounted(s, n)'
  <2>1. CASE UNCHANGED completed
    BY <1>2, <2>1 DEF AccountInv
  <2>2. ASSUME NEW h \in Handlers, RecordEmpty(h) \/ Record(h)
        PROVE  \A s \in SeqIds : \A n \in completed'[s] : Accounted(s, n)'
    <3>1. completed' = [completed EXCEPT ![seq(h)] = list[h] \cup {app(h).no}]
      BY <2>2 DEF RecordEmpty, Record, Recorded
    <3>2. at[h] \in {"recordEmpty", "record"}
      BY <2>2 DEF RecordEmpty, Record, Goto
    <3>4. \A n \in list[h] : Accounted(seq(h), n)
      BY <3>2 DEF AccountInv
    <3>5. \A s : \A n \in list[h] : s = seq(h) => Accounted(s, n)'
      BY <1>2, <3>4
    <3>3. Accounted(seq(h), app(h).no)' /\ seq(h)' = seq(h) /\ app(h)' = app(h)
      BY <1>1, <2>2, RecordingAccounts DEF RecordEmpty, Record, Goto, seq, app
    <3>6. ASSUME NEW s \in SeqIds, NEW n \in completed'[s] PROVE Accounted(s, n)'
      <4>1. n \in completed[s] \/ (s = seq(h) /\ (n \in list[h] \/ n = app(h).no))
        BY <1>1, <3>1, <3>6 DEF TypeOK, RowsOK
      <4>2. CASE n \in completed[s]
        BY <1>2, <4>2 DEF AccountInv
      <4>3. CASE s = seq(h) /\ n \in list[h]
        BY <3>5, <4>3
      <4>4. CASE s = seq(h) /\ n = app(h).no
        BY <3>3, <4>4 DEF Accounted
      <4> QED
        BY <4>1, <4>2, <4>3, <4>4
    <3> QED
      BY <3>6
  <2>3. ASSUME NEW h \in Handlers, Continue(h), ~(RecordEmpty(h) \/ Record(h))
        PROVE  UNCHANGED completed
    BY <2>3 DEF Continue, AckAgain, CheckClosed, ReadHighest, WriteHighest, WriteHighestId,
        RereadList, MarkLastMessage, SendAck, Deliver, AnswerClose, ReadHighestNumber,
        ReadHighestId, MarkHighest, rows
  <2>4. ASSUME NEW h \in Handlers, NEW m \in Requests, Receive(h, m) PROVE UNCHANGED completed
    BY <2>4 DEF Receive, ReadList, InsertClosed, AnswerTerminate, rows
  <2>5. Crash \/ UNCHANGED vars => UNCHANGED completed
    BY DEF Crash, vars, rows
  <2> QED
    BY <2>1, <2>2, <2>3, <2>4, <2>5 DEF Next
<1>4. \A h \in Handlers : at'[h] \in {"recordEmpty", "record"} =>
        (\A n \in list[h] : Accounted(seq(h), n))'
  <2>1. ASSUME NEW h \in Handlers, at'[h] \in {"recordEmpty", "record"},
               at'[h] = at[h], msg'[h] = msg[h], list'[h] = list[h]
        PROVE  (\A n \in list[h] : Accounted(seq(h), n))'
    <3>1. \A n \in list[h] : Accounted(seq(h), n)
      BY <2>1 DEF AccountInv
    <3>2. \A s : \A n \in list[h] : s = seq(h) => Accounted(s, n)'
      BY <1>2, <3>1
    <3>3. seq(h)' = seq(h)
      BY <2>1 DEF seq
    <3> QED
      BY <2>1, <3>2, <3>3
  <2>2. ASSUME NEW h \in Handlers, at'[h] \in {"recordEmpty", "record"},
               NEW s \in SeqIds, seq(h)' = s, list'[h] = completed[s]
        PROVE  (\A n \in list[h] : Accounted(seq(h), n))'
    BY <1>2, <2>2 DEF AccountInv
  <2>3. ASSUME NEW k \in Handlers, Continue(k) \/ \E m \in Requests : Receive(k, m),
               NEW h \in Handlers, at'[h] \in {"recordEmpty", "record"}
        PROVE  (\A n \in list[h] : Accounted(seq(h), n))'
    <3>1. CASE k # h
      BY <1>1, <2>1, <2>3, <3>1, OtherHandUnchanged
    <3>2. ASSUME Continue(h) PROVE RereadList(h)
      <4> USE <1>1, <2>3 DEF TypeOK, LocalsOK, HandlerOK, Goto, Finish, AfterRecord
      <4>1. ~(AckAgain(h) \/ AnswerClose(h) \/ Deliver(h) \/ MarkHighest(h) \/ SendAck(h))
        BY DEF AckAgain, AnswerClose, Deliver, MarkHighest, SendAck
      <4>2. ~(CheckClosed(h) \/ ReadHighest(h) \/ WriteHighest(h) \/ WriteHighestId(h))
        BY DEF CheckClosed, ReadHighest, WriteHighest, WriteHighestId
      <4>3. ~(RecordEmpty(h) \/ Record(h) \/ MarkLastMessage(h))
        BY DEF RecordEmpty, Record, MarkLastMessage
      <4>4. ~(ReadHighestNumber(h) \/ ReadHighestId(h))
        BY DEF ReadHighestNumber, ReadHighestId
      <4> QED
        BY <3>2, <4>1, <4>2, <4>3, <4>4 DEF Continue
    <3>3. CASE Continue(h)
      <4>1. seq(h)' = seq(h) /\ at[h] = "reread"
        BY <3>2, <3>3 DEF RereadList, Goto, seq
      <4>2. seq(h) \in SeqIds
        BY <1>1, <4>1, HandFields
      <4>3. list'[h] = completed[seq(h)]
        BY <1>1, <2>3, <3>2, <3>3
           DEF RereadList, Goto, AfterRecord, TypeOK, LocalsOK
      <4> QED
        BY <2>2, <2>3, <4>1, <4>2, <4>3
    <3>4. ASSUME NEW m \in Requests, Receive(h, m)
          PROVE  (\A n \in list[h] : Accounted(seq(h), n))'
      <4>1. ReadList(h, m) /\ seq(h)' = m.seq /\ list'[h] = completed[m.seq]
        BY <1>1, <2>3, <3>4
           DEF Receive, ReadList, InsertClosed, AnswerTerminate, Take, TypeOK, LocalsOK, seq
      <4>2. m.seq \in SeqIds
        BY RequestFields
      <4> QED
        BY <2>2, <2>3, <4>1, <4>2
    <3> QED
      BY <2>3, <3>1, <3>3, <3>4
  <2>4. ASSUME Crash, NEW h \in Handlers PROVE at'[h] = "idle"
    BY <2>4 DEF Crash
  <2>5. ASSUME UNCHANGED vars, NEW h \in Handlers, at'[h] \in {"recordEmpty", "record"}
        PROVE  (\A n \in list[h] : Accounted(seq(h), n))'
    BY <2>1, <2>5 DEF vars, locals
  <2> QED
    BY <2>3, <2>4, <2>5 DEF Next
<1>5. \A m \in net' : m.type \in Answers => \A n \in m.nos : Accounted(m.seq, n)'
  <2>1. ASSUME NEW m \in net, m.type \in Answers, NEW n \in m.nos
        PROVE  Accounted(m.seq, n)'
    BY <1>2, <2>1 DEF AccountInv
  <2>2. ASSUME NEW s \in SeqIds, NEW m, m.seq = s, m.nos = completed[s], NEW n \in m.nos
        PROVE  Accounted(m.seq, n)'
    BY <1>2, <2>2 DEF AccountInv
  <2>3. ASSUME NEW m \in net', m.type \in Answers, m \notin net, NEW n \in m.nos
        PROVE  \E s \in SeqIds : m.seq = s /\ m.nos = completed[s]
    <3>1. ASSUME NEW h \in Handlers, Continue(h)
          PROVE  \E s \in SeqIds : m.seq = s /\ m.nos = completed[s]
      <4>1. at[h] # "idle"
        BY <3>1 DEF Continue, AckAgain, RecordEmpty, CheckClosed, ReadHighest, WriteHighest,
            WriteHighestId, RereadList, Record, MarkLastMessage, SendAck, Deliver, AnswerClose,
            ReadHighestNumber, ReadHighestId, MarkHighest, Goto
      <4>2. seq(h) \in SeqIds
        BY <1>1, <4>1, HandFields
      <4>3. CASE AckAgain(h) \/ SendAck(h) \/ AnswerClose(h)
        BY <2>3, <4>2, <4>3
           DEF AckAgain, SendAck, AnswerClose, Put, Ack, CloseSequenceResponse
      <4>4. CASE CheckClosed(h)
        BY <2>3, <4>4 DEF CheckClosed, Put, SequenceClosedFault, Answers
      <4>5. CASE ~(AckAgain(h) \/ SendAck(h) \/ AnswerClose(h) \/ CheckClosed(h))
        BY <2>3, <3>1, <4>5 DEF Continue, RecordEmpty, ReadHighest, WriteHighest,
           WriteHighestId, RereadList, Record, MarkLastMessage, Deliver, ReadHighestNumber,
           ReadHighestId, MarkHighest
      <4> QED
        BY <4>3, <4>4, <4>5
    <3>2. ASSUME NEW h \in Handlers, NEW r \in Requests, Receive(h, r)
          PROVE  \E s \in SeqIds : m.seq = s /\ m.nos = completed[s]
      <4>1. r.seq \in SeqIds
        BY RequestFields
      <4> QED
        BY <2>3, <3>2, <4>1 DEF Receive, ReadList, InsertClosed, AnswerTerminate, Put,
           TerminateSequenceResponse
    <3>3. Crash \/ UNCHANGED vars => net' = net
      BY DEF Crash, vars
    <3> QED
      BY <2>3, <3>1, <3>2, <3>3 DEF Next
  <2> QED
    BY <2>1, <2>2, <2>3
<1> QED
  BY <1>1, <1>3, <1>4, <1>5 DEF AccountInv

(***************************************************************************)
(* What is acknowledged has been handed to the service, is about to be, or *)
(* was cut off by a crash, however the handlers overwrite each other.      *)
(***************************************************************************)
THEOREM NothingUnaccounted == Spec => []AckedIsAccountedFor
<1>1. AccountInv => AckedIsAccountedFor
  BY DEF AccountInv, AckedIsAccountedFor, IsAcked, AckedNos, Accounted
<1> QED
  BY <1>1, AccountInit, AccountNext, PTL DEF Spec
-----------------------------------------------------------------------------
(***************************************************************************)
(* One handler thread: what it has read is what the rows still hold.       *)
(***************************************************************************)
LEMMA SerialInit == Init => SerialInv
<1> SUFFICES ASSUME Init PROVE SerialInv
  OBVIOUS
<1>1. ASSUME NEW m \in Requests PROVE m.seq \in SeqIds
  BY RequestFields
<1>2. ASSUME NEW h \in Handlers PROVE InOrder(h)
  BY DEF Init, InOrder, Holds
<1>3. DeliveredAtMostOnce /\ HighestCoversRecorded /\ DeliveredIsRecorded
  BY <1>1 DEF Init, DeliveredAtMostOnce, HighestCoversRecorded, DeliveredIsRecorded
<1> QED
  BY <1>2, <1>3, TypeInit DEF SerialInv

LEMMA SerialCrash == SerialInv /\ (Crash \/ UNCHANGED vars) => SerialInv'
<1> SUFFICES ASSUME SerialInv, Crash \/ UNCHANGED vars PROVE SerialInv'
  OBVIOUS
<1>1. TypeOK'
  BY TypeNext DEF SerialInv, Next
<1>2. UNCHANGED <<completed, highestIn, delivered, redelivered>>
  BY DEF Crash, vars, rows, histories
<1>3. ASSUME NEW h \in Handlers PROVE InOrder(h)'
  <2>1. CASE Crash
    BY <2>1 DEF Crash, InOrder, Holds
  <2>2. CASE UNCHANGED vars
    BY <2>2 DEF SerialInv, InOrder, Holds, seq, app, vars, rows, locals, histories
  <2> QED
    BY <2>1, <2>2
<1> QED
  BY <1>1, <1>2, <1>3
     DEF SerialInv, DeliveredAtMostOnce, HighestCoversRecorded, DeliveredIsRecorded

(***************************************************************************)
(* Statements that write neither the list nor the highest number.          *)
(***************************************************************************)
LEMMA SerialReads ==
  ASSUME SerialInv, OneHandler, NEW h \in Handlers,
         AckAgain(h) \/ CheckClosed(h) \/ ReadHighest(h) \/ WriteHighestId(h) \/ RereadList(h)
           \/ MarkLastMessage(h) \/ SendAck(h) \/ AnswerClose(h) \/ ReadHighestNumber(h)
           \/ ReadHighestId(h) \/ MarkHighest(h) \/ \E m \in Requests : Receive(h, m)
  PROVE  SerialInv'
<1>1. TypeOK /\ TypeOK'
  BY TypeNext DEF SerialInv, Next, Continue
<1>2. UNCHANGED <<completed, highestIn, delivered, redelivered>>
  BY DEF AckAgain, CheckClosed, ReadHighest, WriteHighestId, RereadList, MarkLastMessage, SendAck,
     AnswerClose, ReadHighestNumber, ReadHighestId, MarkHighest, Receive, ReadList, InsertClosed,
     AnswerTerminate, rows, histories
<1>3. InOrder(h)'
  <2> USE <1>1, <1>2 DEF TypeOK, LocalsOK, HandlerOK, InOrder, Holds, Goto, Finish, Take, seq, app
  <2>1. InOrder(h)
    BY DEF SerialInv
  <2>2. CASE AckAgain(h) \/ AnswerClose(h) \/ MarkHighest(h) \/ ReadHighestNumber(h)
             \/ ReadHighestId(h) \/ CheckClosed(h)
    BY <2>2 DEF AckAgain, AnswerClose, MarkHighest, ReadHighestNumber, ReadHighestId, CheckClosed
  <2>3. CASE ReadHighest(h)
    <3>1. app(h).no \in Nat /\ highestIn[seq(h)] \in Nat
      <4>1. at[h] \in AppPlaces
        BY <2>3 DEF ReadHighest, AppPlaces, Places
      <4> QED
        BY <4>1, BoundsAssumption, HandFields DEF RowsOK, AppPlaces
    <3> QED
      BY <2>3, <3>1 DEF ReadHighest, IsHigher
  <2>4. CASE WriteHighestId(h)
    BY <2>1, <2>4 DEF WriteHighestId
  <2>5. CASE RereadList(h)
    BY <2>1, <2>5 DEF RereadList, AfterRecord
  <2>6. CASE MarkLastMessage(h)
    BY <2>1, <2>6 DEF MarkLastMessage
  <2>7. CASE SendAck(h)
    BY <2>1, <2>7 DEF SendAck
  <2>8. ASSUME NEW m \in Requests, Receive(h, m) PROVE InOrder(h)'
    BY <2>8 DEF Receive, ReadList, InsertClosed, AnswerTerminate
  <2> QED
    BY <2>2, <2>3, <2>4, <2>5, <2>6, <2>7, <2>8
<1> QED
  BY <1>1, <1>2, <1>3
     DEF SerialInv, DeliveredAtMostOnce, HighestCoversRecorded, DeliveredIsRecorded, OneHandler

LEMMA SerialRecord ==
  ASSUME SerialInv, OneHandler, NEW h \in Handlers, RecordEmpty(h) \/ Record(h)
  PROVE  SerialInv'
<1>1. TypeOK /\ TypeOK' /\ InOrder(h)
  BY TypeNext DEF SerialInv, Next, Continue
<1>2. at[h] \in {"recordEmpty", "record"} /\ msg'[h] = msg[h]
  BY DEF RecordEmpty, Record, Goto
<1>3. msg[h] \in Requests /\ seq(h) \in SeqIds /\ msg[h].type = "App"
  BY <1>1, <1>2, HandFields DEF AppPlaces, Places
<1>4. completed' = [completed EXCEPT ![seq(h)] = completed[seq(h)] \cup {app(h).no}]
  BY <1>1, <1>2 DEF RecordEmpty, Record, Recorded, InOrder
<1>5. UNCHANGED <<highestIn, delivered, redelivered>>
  BY DEF RecordEmpty, Record, histories
<1>6. \A s \in SeqIds : completed[s] \subseteq completed'[s]
  BY <1>1, <1>4 DEF TypeOK, RowsOK
<1>7. HighestCoversRecorded'
  <2> SUFFICES ASSUME NEW m \in Requests, m.type = "App", ~EmptyBody(m.app),
                      m.app.no \in completed'[m.seq]
               PROVE  m.app.no <= highestIn[m.seq]
    BY <1>5 DEF HighestCoversRecorded
  <2>1. CASE m.app.no \in completed[m.seq]
    BY <2>1 DEF SerialInv, HighestCoversRecorded
  <2>2. CASE m.app.no \notin completed[m.seq]
    <3>1. m.seq = seq(h) /\ m.app.no = app(h).no
      BY <1>1, <1>4, <2>2, RequestFields DEF TypeOK, RowsOK
    <3>2. m = msg[h]
      <4>1. m.seq = msg[h].seq /\ m.app.no = msg[h].app.no
        BY <3>1 DEF seq, app
      <4> QED
        BY <1>3, <4>1, SameNumber
    <3>3. at[h] = "record"
      BY <1>1, <1>2, <3>2 DEF TypeOK, LocalsOK, HandlerOK, app
    <3> QED
      BY <1>1, <3>1, <3>3 DEF InOrder
  <2> QED
    BY <2>1, <2>2
<1>8. DeliveredIsRecorded'
  BY <1>5, <1>6, RequestFields DEF SerialInv, DeliveredIsRecorded
<1>9. InOrder(h)'
  <2>1. CASE RecordEmpty(h)
    <3>1. at'[h] = "checkClosed"
      BY <1>1, <2>1 DEF RecordEmpty, Goto, TypeOK, LocalsOK
    <3> QED
      BY <3>1 DEF InOrder, Holds
  <2>2. CASE Record(h)
    <3>1. at'[h] \in {"markLast", "ack"} /\ app(h)' = app(h)
      BY <1>1, <1>2, <2>2 DEF Record, Goto, AfterRecord, TypeOK, LocalsOK, app
    <3>2. ASSUME NEW m \in Requests, m.type = "App", Holds(h, m.app)'
          PROVE  m.app.no \in completed'[m.seq] /\ m.app \notin delivered'
      <4>1. m = msg[h]
        BY <1>3, <3>1, <3>2, SameNumber DEF Holds, app
      <4>2. m.app.no \notin completed[m.seq]
        BY <1>1, <1>2, <4>1 DEF InOrder, Present, seq, app
      <4>3. m.app \notin delivered
        BY <4>2, <3>2 DEF SerialInv, DeliveredIsRecorded
      <4>4. m.app.no \in completed'[m.seq]
        BY <1>1, <1>3, <1>4, <4>1 DEF TypeOK, RowsOK, seq, app
      <4> QED
        BY <1>5, <4>3, <4>4
    <3> QED
      BY <3>1, <3>2 DEF InOrder
  <2> QED
    BY <2>1, <2>2
<1> QED
  BY <1>1, <1>5, <1>7, <1>8, <1>9 DEF SerialInv, DeliveredAtMostOnce, OneHandler

LEMMA SerialWriteHighest ==
  ASSUME SerialInv, OneHandler, NEW h \in Handlers, WriteHighest(h)
  PROVE  SerialInv'
<1>1. TypeOK /\ TypeOK' /\ InOrder(h)
  BY TypeNext DEF SerialInv, Next, Continue
<1>2. at[h] = "writeHighest" /\ at'[h] = "writeHighestId" /\ msg' = msg
  BY <1>1 DEF WriteHighest, Goto, TypeOK, LocalsOK
<1>3. seq(h) \in SeqIds /\ app(h).no \in Nat
  BY <1>1, <1>2, BoundsAssumption, HandFields DEF AppPlaces, Places
<1>4. highestIn' = [highestIn EXCEPT ![seq(h)] = app(h).no]
  BY DEF WriteHighest
<1>5. UNCHANGED <<completed, delivered, redelivered>>
  BY DEF WriteHighest, histories
<1>6. ASSUME NEW s \in SeqIds
      PROVE  highestIn[s] \in Nat /\ highestIn'[s] \in Nat /\ highestIn[s] <= highestIn'[s]
  BY <1>1, <1>2, <1>3, <1>4, BoundsAssumption DEF InOrder, IsHigher, TypeOK, RowsOK
<1>7. HighestCoversRecorded'
  <2> SUFFICES ASSUME NEW m \in Requests, m.type = "App", ~EmptyBody(m.app),
                      m.app.no \in completed[m.seq]
               PROVE  m.app.no <= highestIn'[m.seq]
    BY <1>5 DEF HighestCoversRecorded
  <2>1. m.app.no <= highestIn[m.seq]
    BY DEF SerialInv, HighestCoversRecorded
  <2>2. m.seq \in SeqIds /\ m.app.no \in Nat
    BY RequestFields, BoundsAssumption DEF Nos
  <2>3. highestIn[m.seq] \in Nat /\ highestIn'[m.seq] \in Nat /\ highestIn[m.seq] <= highestIn'[m.seq]
    BY <1>6, <2>2
  <2> QED
    BY <2>1, <2>2, <2>3
<1>8. InOrder(h)'
  BY <1>1, <1>2, <1>3, <1>4 DEF InOrder, Holds, TypeOK, RowsOK, seq, app
<1> QED
  BY <1>1, <1>5, <1>7, <1>8
     DEF SerialInv, DeliveredAtMostOnce, DeliveredIsRecorded, OneHandler

LEMMA SerialDeliver ==
  ASSUME SerialInv, OneHandler, NEW h \in Handlers, Deliver(h)
  PROVE  SerialInv'
<1>1. TypeOK /\ TypeOK' /\ InOrder(h)
  BY TypeNext DEF SerialInv, Next, Continue
<1>2. Holds(h, app(h)) /\ msg[h] \in Requests /\ msg[h].type = "App"
  BY <1>1 DEF Deliver, Holds, TypeOK, LocalsOK, HandlerOK, AppPlaces, Places
<1>3. app(h).no \in completed[seq(h)] /\ app(h) \notin delivered
  BY <1>1, <1>2 DEF InOrder, seq, app
<1>4. delivered' = delivered \cup {app(h)} /\ UNCHANGED <<completed, highestIn, redelivered>>
  BY <1>3 DEF Deliver, rows
<1>5. DeliveredIsRecorded'
  <2> SUFFICES ASSUME NEW m \in Requests, m.type = "App", m.app \in delivered'
               PROVE  m.app.no \in completed[m.seq]
    BY <1>4 DEF DeliveredIsRecorded
  <2>1. CASE m.app = app(h)
    BY <1>2, <1>3, <2>1, RequestsAssumption DEF seq, app
  <2> QED
    BY <1>4, <2>1 DEF SerialInv, DeliveredIsRecorded
<1>6. InOrder(h)'
  BY <1>1 DEF Deliver, Finish, InOrder, Holds, TypeOK, LocalsOK
<1> QED
  BY <1>1, <1>4, <1>5, <1>6
     DEF SerialInv, DeliveredAtMostOnce, HighestCoversRecorded, OneHandler

LEMMA SerialNext ==
  ASSUME OneHandler
  PROVE  SerialInv /\ [Next]_vars => SerialInv'
<1> SUFFICES ASSUME SerialInv, [Next]_vars PROVE SerialInv'
  OBVIOUS
<1>1. ASSUME NEW h \in Handlers, Continue(h) PROVE SerialInv'
  BY <1>1, SerialReads, SerialRecord, SerialWriteHighest, SerialDeliver DEF Continue
<1>2. ASSUME NEW h \in Handlers, NEW m \in Requests, Receive(h, m) PROVE SerialInv'
  BY <1>2, SerialReads
<1> QED
  BY <1>1, <1>2, SerialCrash DEF Next

(***************************************************************************)
(* With one handler thread no message is handed to the service twice,      *)
(* wherever the server dies and whatever the other end repeats.            *)
(***************************************************************************)
THEOREM OneHandlerDeliversOnce ==
  ASSUME OneHandler
  PROVE  Spec => []DeliveredAtMostOnce
<1>1. Init => SerialInv
  BY SerialInit
<1>2. SerialInv /\ [Next]_vars => SerialInv'
  BY SerialNext
<1>3. SerialInv => DeliveredAtMostOnce
  BY DEF SerialInv
<1> QED
  BY <1>1, <1>2, <1>3, PTL DEF Spec

(***************************************************************************)
(* And the highest number covers every recorded message, so that what a    *)
(* TerminateSequence marks as last excludes none of them.                  *)
(***************************************************************************)
THEOREM OneHandlerHighestCovers ==
  ASSUME OneHandler
  PROVE  Spec => []HighestCoversRecorded
<1>1. Init => SerialInv
  BY SerialInit
<1>2. SerialInv /\ [Next]_vars => SerialInv'
  BY SerialNext
<1>3. SerialInv => HighestCoversRecorded
  BY DEF SerialInv
<1> QED
  BY <1>1, <1>2, <1>3, PTL DEF Spec
-----------------------------------------------------------------------------
(***************************************************************************)
(* One handler thread and no crash: the statements of a handler amount to  *)
(* one step of RMDestination, taken when the handler is done.              *)
(***************************************************************************)
LEMMA BeforeFields ==
  ASSUME TypeOK
  PROVE  /\ before.completed \in [SeqIds -> SUBSET Nos]
         /\ before.highestIn \in [SeqIds -> 0 .. MaxMsg]
         /\ before.lastIn \in [SeqIds -> 0 .. MaxMsg]
  BY DEF TypeOK, BeforeOK

LEMMA StepTaken ==
  ASSUME TypeOK, NEW h \in Handlers, NEW m \in Requests, InStep(h), OneHandler, Receive(h, m)
  PROVE  InStep(h)'
<1> USE DEF TypeOK, LocalsOK, Take, rows, histories
<1>1. /\ before' = Visible /\ msg'[h] = m /\ at[h] = "idle"
      /\ UNCHANGED <<completed, highestIn, highestId, lastIn, delivered, redelivered>>
  BY DEF Receive, ReadList, InsertClosed, AnswerTerminate
<1>2. highestId = highestIn
  BY <1>1 DEF InStep, IdFollows
<1>3. CASE ReadList(h, m)
  <2>1. /\ at'[h] = IF Present(completed[m.seq], m.app.no) THEN "ackAgain"
                    ELSE IF EmptyBody(m.app) THEN "recordEmpty" ELSE "checkClosed"
        /\ m.type = "App" /\ net' = net /\ closed' = closed
    BY <1>3 DEF ReadList
  <2>2. Changed(h)'
    BY <1>1, <2>1 DEF Visible, Changed, Answered, ListWritten, TerminatePlaces, HighestWritten, app
  <2>3. Decided(h)'
    BY <1>1, <2>1 DEF Visible, Decided, OpenPlaces, AppPlaces, Places, TerminatePlaces, Present, seq, app
  <2> QED
    BY <1>1, <1>2, <2>1, <2>2, <2>3 DEF InStep, IdFollows
<1>4. CASE InsertClosed(h, m)
  <2>1. at'[h] = "answerClose" /\ m.type = "CloseSequence" /\ net' = net /\ closed' = closed \cup {m.seq}
    BY <1>4 DEF InsertClosed
  <2>2. Changed(h)'
    BY <1>1, <2>1 DEF Visible, Changed, Answered, ListWritten, TerminatePlaces, HighestWritten, seq
  <2>3. Decided(h)'
    BY <1>1, <2>1 DEF Decided, OpenPlaces, AppPlaces, Places, TerminatePlaces
  <2> QED
    BY <1>1, <1>2, <2>1, <2>2, <2>3 DEF InStep, IdFollows
<1>5. CASE AnswerTerminate(h, m)
  <2>1. /\ at'[h] = "readHighestNumber" /\ m.type = "TerminateSequence" /\ closed' = closed
        /\ net' = net \cup IF Spec10 THEN {} ELSE {TerminateSequenceResponse(m.seq, completed[m.seq])}
    BY <1>5 DEF AnswerTerminate, Put
  <2>2. Changed(h)'
    BY <1>1, <2>1 DEF Visible, Changed, Answered, ListWritten, TerminatePlaces, HighestWritten, seq
  <2>3. Decided(h)'
    BY <1>1, <2>1 DEF Decided, OpenPlaces, AppPlaces, Places, TerminatePlaces
  <2> QED
    BY <1>1, <1>2, <2>1, <2>2, <2>3 DEF InStep, IdFollows
<1> QED
  BY <1>3, <1>4, <1>5 DEF Receive

(***************************************************************************)
(* A statement of an application message that is not the last one of its   *)
(* handler.                                                                *)
(***************************************************************************)
LEMMA StepReads ==
  ASSUME SerialInv, NEW h \in Handlers, InStep(h), at'[h] # "idle",
         CheckClosed(h) \/ ReadHighest(h) \/ RereadList(h)
  PROVE  InStep(h)'
<1> USE DEF Goto, rows, histories
<1>1. /\ UNCHANGED <<net, completed, highestIn, highestId, lastIn, closed, delivered, redelivered,
                     msg, before>>
      /\ at[h] \in {"checkClosed", "readHighest", "reread"}
  BY DEF CheckClosed, ReadHighest, RereadList, Finish, SerialInv, TypeOK, LocalsOK
<1>2. /\ msg[h].type = "App" /\ seq(h) \in SeqIds /\ app(h).no \in Nat
      /\ Changed(h) /\ Decided(h) /\ IdFollows(h)
  BY <1>1, HandFields, BoundsAssumption DEF SerialInv, InStep, AppPlaces, Places, Nos
<1>3. seq(h)' = seq(h) /\ app(h)' = app(h)
  BY <1>1 DEF seq, app
<1> USE DEF SerialInv, TypeOK, LocalsOK
<1>4. CASE CheckClosed(h)
  <2>1. at[h] = "checkClosed" /\ at'[h] = "readHighest" /\ seq(h) \notin closed
    BY <1>4 DEF CheckClosed, Finish
  <2>2. Changed(h)'
    BY <1>1, <1>2, <1>3, <2>1 DEF Changed, Answered, ListWritten, TerminatePlaces, HighestWritten
  <2>3. Decided(h)'
    BY <1>1, <1>2, <1>3, <2>1 DEF Changed, Decided, OpenPlaces, AppPlaces, Places, TerminatePlaces
  <2> QED
    BY <1>1, <1>2, <1>3, <2>1, <2>2, <2>3 DEF InStep, IdFollows
<1>5. CASE ReadHighest(h)
  <2>1. /\ at[h] = "readHighest"
        /\ \/ at'[h] = "writeHighest" /\ seen'[h] = highestIn[seq(h)]
           \/ at'[h] = "reread" /\ ~IsHigher(app(h).no, highestIn[seq(h)])
    BY <1>5 DEF ReadHighest
  <2>2. Changed(h)'
    <3>1. CASE at'[h] = "writeHighest"
      BY <1>1, <1>2, <1>3, <2>1, <3>1
      DEF Changed, Answered, ListWritten, TerminatePlaces, HighestWritten
    <3>2. CASE at'[h] = "reread"
      <4>1. highestIn = [before.highestIn EXCEPT
                           ![seq(h)] = IF IsHigher(app(h).no, @) THEN app(h).no ELSE @]
        BY <1>2, <2>1, <3>2, BeforeFields DEF Changed, HighestWritten
      <4> QED
        BY <1>1, <1>2, <1>3, <2>1, <3>2, <4>1
        DEF Changed, Answered, ListWritten, TerminatePlaces, HighestWritten
    <3> QED
      BY <2>1, <3>1, <3>2
  <2>3. Decided(h)'
    BY <1>1, <1>2, <1>3, <2>1 DEF Decided, OpenPlaces, AppPlaces, Places, TerminatePlaces
  <2> QED
    BY <1>1, <1>2, <1>3, <2>1, <2>2, <2>3 DEF InStep, IdFollows
<1>6. CASE RereadList(h)
  <2>1. /\ at[h] = "reread"
        /\ \/ /\ at'[h] = "record" /\ app(h).no \notin completed[seq(h)]
           \/ /\ at'[h] = AfterRecord(app(h)) /\ paused'[h] = TRUE
              /\ app(h).no \in completed[seq(h)]
    BY <1>6 DEF RereadList, Present
  <2>2. app(h).no \in completed[seq(h)] <=> EmptyBody(app(h))
    BY <1>2, <2>1, BeforeFields
    DEF Changed, Decided, ListWritten, AppPlaces, Places
  <2>3. Changed(h)'
    BY <1>1, <1>2, <1>3, <2>1, <2>2
    DEF AfterRecord, Changed, Answered, ListWritten, TerminatePlaces, HighestWritten
  <2>4. Decided(h)'
    BY <1>1, <1>2, <1>3, <2>1, <2>2
    DEF AfterRecord, Decided, OpenPlaces, AppPlaces, Places, TerminatePlaces
  <2> QED
    BY <1>1, <1>2, <1>3, <2>1, <2>3, <2>4 DEF AfterRecord, InStep, IdFollows
<1> QED
  BY <1>4, <1>5, <1>6

LEMMA StepRecords ==
  ASSUME SerialInv, NEW h \in Handlers, InStep(h), RecordEmpty(h) \/ Record(h)
  PROVE  InStep(h)'
<1> USE DEF Goto, histories
<1>1. /\ UNCHANGED <<net, highestIn, highestId, lastIn, closed, delivered, redelivered, msg,
                     before, paused>>
      /\ at[h] \in {"recordEmpty", "record"}
      /\ at[h] = "recordEmpty" => at'[h] = "checkClosed"
      /\ at[h] = "record" => at'[h] = AfterRecord(app(h))
  BY DEF RecordEmpty, Record, SerialInv, TypeOK, LocalsOK
<1>2. /\ seq(h) \in SeqIds /\ Changed(h) /\ Decided(h) /\ IdFollows(h)
      /\ msg[h].type = "App" /\ ~paused[h] /\ (at[h] = "recordEmpty" <=> EmptyBody(app(h)))
  BY <1>1, HandFields
  DEF SerialInv, InStep, TypeOK, LocalsOK, HandlerOK, AppPlaces, Places, Decided
<1>3. seq(h)' = seq(h) /\ app(h)' = app(h)
  BY <1>1 DEF seq, app
<1>4. completed = before.completed
  BY <1>1, <1>2 DEF Changed, ListWritten
<1>5. completed' = [before.completed EXCEPT ![seq(h)] = @ \cup {app(h).no}]
  BY <1>1, <1>4 DEF SerialInv, InOrder, RecordEmpty, Record, Recorded
<1>6. Changed(h)'
  BY <1>1, <1>2, <1>3, <1>5
  DEF AfterRecord, Changed, Answered, ListWritten, TerminatePlaces, HighestWritten
<1>7. Decided(h)'
  BY <1>1, <1>2, <1>3 DEF AfterRecord, Decided, OpenPlaces, AppPlaces, Places, TerminatePlaces
<1> QED
  BY <1>1, <1>2, <1>3, <1>6, <1>7 DEF AfterRecord, InStep, IdFollows

LEMMA StepWrites ==
  ASSUME SerialInv, NEW h \in Handlers, InStep(h),
         WriteHighest(h) \/ WriteHighestId(h) \/ MarkLastMessage(h)
  PROVE  InStep(h)'
<1> USE DEF Goto, histories, SerialInv, TypeOK, LocalsOK
<1>1. /\ UNCHANGED <<net, completed, closed, delivered, redelivered, msg, before, paused>>
      /\ at[h] \in {"writeHighest", "writeHighestId", "markLast"}
  BY DEF WriteHighest, WriteHighestId, MarkLastMessage
<1>2. /\ seq(h) \in SeqIds /\ app(h).no \in Nat
      /\ Changed(h) /\ Decided(h) /\ IdFollows(h) /\ msg[h].type = "App"
  BY <1>1, HandFields, BoundsAssumption DEF InStep, AppPlaces, Places, Nos
<1>3. seq(h)' = seq(h) /\ app(h)' = app(h)
  BY <1>1 DEF seq, app
<1>4. CASE WriteHighest(h)
  <2>1. /\ at[h] = "writeHighest" /\ at'[h] = "writeHighestId" /\ UNCHANGED <<lastIn, highestId, seen>>
        /\ highestIn' = [highestIn EXCEPT ![seq(h)] = app(h).no]
        /\ IsHigher(app(h).no, highestIn[seq(h)])
    BY <1>4 DEF WriteHighest, InOrder
  <2>2. highestIn = before.highestIn
    BY <1>2, <2>1 DEF Changed, HighestWritten
  <2>3. highestIn' = [before.highestIn EXCEPT
                        ![seq(h)] = IF IsHigher(app(h).no, @) THEN app(h).no ELSE @]
    BY <1>2, <2>1, <2>2, BeforeFields
  <2>4. Changed(h)'
    BY <1>1, <1>2, <1>3, <2>1, <2>3
    DEF Changed, Answered, ListWritten, TerminatePlaces, HighestWritten
  <2>5. Decided(h)'
    BY <1>1, <1>2, <1>3, <2>1, <2>2 DEF Decided, OpenPlaces, AppPlaces, Places, TerminatePlaces
  <2> QED
    BY <1>1, <1>2, <1>3, <2>1, <2>2, <2>4, <2>5 DEF InStep, IdFollows
<1>5. CASE WriteHighestId(h)
  <2>1. /\ at[h] = "writeHighestId" /\ at'[h] = "reread" /\ UNCHANGED <<lastIn, highestIn>>
    BY <1>5 DEF WriteHighestId
  <2>2. IsHigher(app(h).no, before.highestIn[seq(h)])
    BY <1>2, <2>1 DEF Decided
  <2>3. highestId' = highestIn
    BY <1>2, <1>5, <2>1, <2>2, BeforeFields DEF WriteHighestId, IdFollows, Changed, HighestWritten
  <2>4. Changed(h)'
    BY <1>1, <1>2, <1>3, <2>1 DEF Changed, Answered, ListWritten, TerminatePlaces, HighestWritten
  <2>5. Decided(h)'
    BY <1>1, <1>2, <1>3, <2>1 DEF Decided, OpenPlaces, AppPlaces, Places, TerminatePlaces
  <2> QED
    BY <2>1, <2>3, <2>4, <2>5 DEF InStep, IdFollows
<1>6. CASE MarkLastMessage(h)
  <2>1. /\ at[h] = "markLast" /\ at'[h] = "ack" /\ UNCHANGED <<highestIn, highestId>>
        /\ lastIn' = [lastIn EXCEPT ![seq(h)] = app(h).no]
    BY <1>6 DEF MarkLastMessage
  <2>2. Changed(h)'
    BY <1>1, <1>2, <1>3, <2>1
    DEF Changed, Decided, Answered, ListWritten, TerminatePlaces, HighestWritten
  <2>3. Decided(h)'
    BY <1>1, <1>2, <1>3, <2>1 DEF Decided, OpenPlaces, AppPlaces, Places, TerminatePlaces
  <2> QED
    BY <1>1, <1>2, <1>3, <2>1, <2>2, <2>3 DEF InStep, IdFollows
<1> QED
  BY <1>4, <1>5, <1>6

LEMMA StepAnswers ==
  ASSUME SerialInv, NEW h \in Handlers, InStep(h), at'[h] # "idle",
         SendAck(h) \/ ReadHighestNumber(h) \/ ReadHighestId(h)
  PROVE  InStep(h)'
<1> USE DEF Goto, rows, histories, SerialInv, TypeOK, LocalsOK
<1>1. /\ UNCHANGED <<completed, highestIn, highestId, lastIn, closed, delivered, redelivered,
                     msg, before>>
      /\ at[h] \in {"ack", "readHighestNumber", "readHighestId"}
  BY DEF SendAck, ReadHighestNumber, ReadHighestId, Finish
<1>2. seq(h) \in SeqIds /\ Changed(h) /\ Decided(h) /\ IdFollows(h)
  BY <1>1, HandFields DEF InStep
<1>3. seq(h)' = seq(h) /\ app(h)' = app(h)
  BY <1>1 DEF seq, app
<1>4. CASE SendAck(h)
  <2>1. /\ at[h] = "ack" /\ at'[h] = "deliver"
        /\ net' = net \cup {Ack(seq(h), completed[seq(h)])}
    BY <1>4 DEF SendAck, Put, Finish
  <2>2. Changed(h)'
    BY <1>1, <1>2, <1>3, <2>1
    DEF Changed, Answered, ListWritten, TerminatePlaces, HighestWritten
  <2>3. Decided(h)'
    BY <1>1, <1>2, <1>3, <2>1 DEF Decided, OpenPlaces, AppPlaces, Places, TerminatePlaces
  <2> QED
    BY <1>1, <1>2, <1>3, <2>1, <2>2, <2>3 DEF InStep, IdFollows
<1>5. CASE ReadHighestNumber(h) \/ ReadHighestId(h)
  <2>1. /\ at[h] \in TerminatePlaces /\ at'[h] \in TerminatePlaces /\ net' = net
        /\ highestIn[seq(h)] # 0
        /\ at'[h] = "markHighest" => seen'[h] = highestId[seq(h)] /\ at[h] = "readHighestId"
    BY <1>2, <1>5 DEF ReadHighestNumber, ReadHighestId, Finish, TerminatePlaces, Decided
  <2>2. Changed(h)'
    BY <1>1, <1>2, <1>3, <2>1
    DEF Changed, Answered, ListWritten, TerminatePlaces, HighestWritten
  <2>3. Decided(h)'
    BY <1>1, <1>2, <1>3, <2>1 DEF Decided, OpenPlaces, AppPlaces, Places, TerminatePlaces
  <2> QED
    BY <1>1, <1>2, <1>3, <2>1, <2>2, <2>3 DEF InStep, IdFollows, TerminatePlaces
<1> QED
  BY <1>4, <1>5

(***************************************************************************)
(* The statement with which a handler is done completes the step of        *)
(* RMDestination.                                                          *)
(***************************************************************************)
LEMMA StepDone ==
  ASSUME SerialInv, NEW h \in Handlers, InStep(h), Continue(h), at'[h] = "idle", OneHandler
  PROVE  IdFollows(h)' /\ Atomic!RMDReceive(msg[h])
<1> USE DEF Goto, Finish, rows, histories, SerialInv, TypeOK, LocalsOK
<1>1. /\ at[h] # "idle" /\ at' = [at EXCEPT ![h] = "idle"]
      /\ AckAgain(h) \/ CheckClosed(h) \/ SendAck(h) \/ Deliver(h) \/ AnswerClose(h)
           \/ ReadHighestNumber(h) \/ ReadHighestId(h) \/ MarkHighest(h)
  BY DEF Continue, AckAgain, RecordEmpty, CheckClosed, ReadHighest, WriteHighest, WriteHighestId,
         RereadList, Record, AfterRecord, MarkLastMessage, SendAck, Deliver, AnswerClose,
         ReadHighestNumber, ReadHighestId, MarkHighest
<1>2. quiet = before /\ quiet' = Visible'
  BY <1>1 DEF quiet, OneHandler
<1>3. /\ quiet'.net = net' /\ quiet'.completed = completed' /\ quiet'.highestIn = highestIn'
      /\ quiet'.lastIn = lastIn' /\ quiet'.closed = closed'
      /\ quiet'.delivered = delivered' /\ quiet'.redelivered = redelivered'
  BY <1>2 DEF Visible
<1>4. /\ msg[h].seq = seq(h) /\ msg[h].app = app(h) /\ seq(h) \in SeqIds
      /\ Changed(h) /\ Decided(h) /\ IdFollows(h)
  BY <1>1, HandFields DEF InStep, seq, app
<1> USE <1>2, <1>3, <1>4
<1>5. ASSUME at[h] \notin {"markHighest", "writeHighestId"}, UNCHANGED <<highestIn, highestId>>
      PROVE  IdFollows(h)'
  BY <1>5 DEF IdFollows
<1>6. CASE AckAgain(h)
  <2>1. at[h] = "ackAgain" /\ msg[h].type = "App"
    BY <1>6 DEF AckAgain, HandlerOK, AppPlaces, Places
  <2>2. Atomic!DropDuplicate(msg[h])
    BY <1>6, <2>1
    DEF AckAgain, Put, Changed, Answered, ListWritten, TerminatePlaces, HighestWritten, Decided,
        AppPlaces, Places, Atomic!DropDuplicate, Atomic!AlreadyReceived, Atomic!rmdVars,
        Atomic!Put, Atomic!AckOf, Atomic!Ack, Ack
  <2> QED
    BY <1>5, <1>6, <2>1, <2>2 DEF AckAgain, Atomic!RMDReceive
<1>7. CASE CheckClosed(h)
  <2>1. at[h] = "checkClosed" /\ msg[h].type = "App"
    BY <1>7 DEF CheckClosed, HandlerOK, AppPlaces, Places
  <2>2. Atomic!RefuseClosed(msg[h])
    BY <1>7, <2>1
    DEF CheckClosed, Put, Changed, Answered, ListWritten, TerminatePlaces, HighestWritten, Decided,
        AppPlaces, Places, Atomic!RefuseClosed, Atomic!AlreadyReceived, Atomic!IsClosed,
        Atomic!Put, Atomic!SequenceClosedFault, SequenceClosedFault, Atomic!EmptyBody, EmptyBody
  <2> QED
    BY <1>1, <1>5, <1>7, <2>1, <2>2 DEF CheckClosed, Atomic!RMDReceive
<1>8. ASSUME at[h] \in {"ack", "deliver"}, UNCHANGED <<completed, highestIn, lastIn, closed>>,
             net' = before.net \cup {Ack(seq(h), completed[seq(h)])},
             IF EmptyBody(app(h))
               THEN UNCHANGED <<delivered, redelivered>>
               ELSE /\ delivered' = delivered \cup {app(h)}
                    /\ redelivered' = redelivered \cup ({app(h)} \cap delivered)
      PROVE  Atomic!AcceptApp(msg[h])
  <2>1. msg[h].type = "App"
    BY <1>8 DEF HandlerOK, AppPlaces, Places
  <2>2. /\ app(h).no \notin before.completed[seq(h)] /\ seq(h) \notin before.closed
        /\ completed = [before.completed EXCEPT ![seq(h)] = @ \cup {app(h).no}]
        /\ highestIn = [before.highestIn EXCEPT
                          ![seq(h)] = IF IsHigher(app(h).no, @) THEN app(h).no ELSE @]
        /\ lastIn = IF LastIndicator(app(h)) THEN [before.lastIn EXCEPT ![seq(h)] = app(h).no]
                                             ELSE before.lastIn
        /\ closed = before.closed /\ delivered = before.delivered /\ redelivered = before.redelivered
    BY <1>8 DEF Changed, Decided, ListWritten, HighestWritten, OpenPlaces, AppPlaces, Places
  <2> QED
    BY <1>8, <2>1, <2>2
    DEF IsHigher, Atomic!AcceptApp, Atomic!AlreadyReceived, Atomic!IsClosed, Atomic!HighestWith,
        Atomic!LastIndicator, LastIndicator, Atomic!EmptyBody, EmptyBody, Atomic!Put,
        Atomic!AckOf, Atomic!Ack, Ack
<1>9. CASE SendAck(h)
  <2>1. at[h] = "ack" /\ EmptyBody(app(h))
    BY <1>1, <1>9 DEF SendAck, Decided
  <2>2. Atomic!AcceptApp(msg[h])
    BY <1>8, <1>9, <2>1 DEF SendAck, Put, Changed, Answered, TerminatePlaces
  <2> QED
    BY <1>5, <1>9, <2>1, <2>2 DEF SendAck, Atomic!RMDReceive
<1>10. CASE Deliver(h)
  <2>1. at[h] = "deliver" /\ ~EmptyBody(app(h))
    BY <1>10 DEF Deliver, HandlerOK
  <2>2. Atomic!AcceptApp(msg[h])
    BY <1>8, <1>10, <2>1 DEF Deliver, Changed, Answered, TerminatePlaces
  <2> QED
    BY <1>5, <1>10, <2>1, <2>2 DEF Deliver, Atomic!RMDReceive
<1>11. CASE AnswerClose(h)
  <2>1. at[h] = "answerClose" /\ msg[h].type = "CloseSequence"
    BY <1>11 DEF AnswerClose, Decided
  <2>2. Atomic!ReceiveCloseSequence(msg[h])
    BY <1>11, <2>1
    DEF AnswerClose, Put, Changed, Answered, ListWritten, TerminatePlaces, HighestWritten,
        Atomic!ReceiveCloseSequence, Atomic!Put, Atomic!CloseSequenceResponse,
        CloseSequenceResponse
  <2> QED
    BY <1>5, <1>11, <2>1, <2>2 DEF AnswerClose, Atomic!RMDReceive
<1>12. ASSUME at[h] \in TerminatePlaces,
              UNCHANGED <<net, completed, highestIn, closed, delivered, redelivered>>,
              lastIn' = IF highestIn[seq(h)] # 0
                          THEN [lastIn EXCEPT ![seq(h)] = highestIn[seq(h)]]
                          ELSE lastIn
       PROVE  Atomic!ReceiveTerminateSequence(msg[h])
  <2>1. /\ msg[h].type = "TerminateSequence" /\ completed = before.completed
        /\ net = before.net \cup IF Spec10 THEN {}
                                 ELSE {TerminateSequenceResponse(seq(h), before.completed[seq(h)])}
        /\ highestIn = before.highestIn /\ lastIn = before.lastIn /\ closed = before.closed
        /\ delivered = before.delivered /\ redelivered = before.redelivered
    BY <1>12 DEF Changed, Answered, Decided, ListWritten, TerminatePlaces, HighestWritten
  <2>2. highestIn[seq(h)] # 0 <=> before.highestIn[seq(h)] > 0
    BY <2>1, BoundsAssumption DEF RowsOK
  <2> QED
    BY <1>12, <2>1, <2>2
    DEF Atomic!ReceiveTerminateSequence, Atomic!AsLast, Atomic!Put,
        Atomic!TerminateSequenceResponse, TerminateSequenceResponse
<1>13. CASE ReadHighestNumber(h) \/ ReadHighestId(h)
  <2>1. at[h] = "readHighestNumber" /\ highestIn[seq(h)] = 0
    BY <1>1, <1>13 DEF ReadHighestNumber, ReadHighestId, Decided, IdFollows
  <2>2. UNCHANGED <<net, rows, histories>>
    BY <1>1, <1>13 DEF ReadHighestNumber, ReadHighestId
  <2>3. Atomic!ReceiveTerminateSequence(msg[h])
    BY <1>12, <2>1, <2>2 DEF TerminatePlaces
  <2> QED
    BY <1>5, <2>1, <2>2, <2>3 DEF Atomic!RMDReceive
<1>14. CASE MarkHighest(h)
  <2>1. at[h] = "markHighest" /\ highestIn[seq(h)] # 0 /\ seen[h] = highestIn[seq(h)]
    BY <1>14 DEF MarkHighest, Decided, IdFollows
  <2>2. Atomic!ReceiveTerminateSequence(msg[h])
    BY <1>12, <1>14, <2>1 DEF MarkHighest, TerminatePlaces
  <2>3. IdFollows(h)'
    BY <1>1, <1>14, <2>1 DEF MarkHighest, IdFollows
  <2> QED
    BY <2>2, <2>3 DEF Atomic!RMDReceive
<1> QED
  BY <1>1, <1>6, <1>7, <1>9, <1>10, <1>11, <1>13, <1>14

LEMMA AtomicInit == Init => AtomicInv
  BY DEF Init, AtomicInv, InStep, IdFollows

LEMMA AtomicContinue ==
  ASSUME OneHandler, SerialInv, NEW h \in Handlers, InStep(h), Continue(h)
  PROVE  /\ InStep(h)'
         /\ UNCHANGED quiet \/ \E m \in Requests : Atomic!RMDReceive(m)
<1>1. CASE at'[h] = "idle"
  <2>1. msg[h] \in Requests
    <3>1. at[h] # "idle"
      BY DEF Continue, AckAgain, RecordEmpty, CheckClosed, ReadHighest, WriteHighest,
             WriteHighestId, RereadList, Record, MarkLastMessage, SendAck, Deliver, AnswerClose,
             ReadHighestNumber, ReadHighestId, MarkHighest, Goto
    <3> QED
      BY <3>1, HandFields DEF SerialInv
  <2> QED
    BY <1>1, <2>1, StepDone DEF InStep
<1>2. CASE at'[h] # "idle"
  <2>1. ~(AckAgain(h) \/ Deliver(h) \/ AnswerClose(h) \/ MarkHighest(h))
    BY <1>2 DEF AckAgain, Deliver, AnswerClose, MarkHighest, Finish, SerialInv, TypeOK, LocalsOK
  <2>2. InStep(h)'
    BY <1>2, <2>1, StepReads, StepRecords, StepWrites, StepAnswers DEF Continue
  <2>3. at[h] # "idle" /\ before' = before
    BY DEF Continue, AckAgain, RecordEmpty, CheckClosed, ReadHighest, WriteHighest,
           WriteHighestId, RereadList, Record, MarkLastMessage, SendAck, Deliver, AnswerClose,
           ReadHighestNumber, ReadHighestId, MarkHighest, Goto, Finish
  <2> QED
    BY <1>2, <2>2, <2>3 DEF quiet
<1> QED
  BY <1>1, <1>2

LEMMA AtomicNext ==
  ASSUME OneHandler, SerialInv, AtomicInv, [Next]_vars
  PROVE  /\ AtomicInv'
         /\ [crashes' = 0 => \E m \in Requests : Atomic!RMDReceive(m)]_quiet
<1>1. ASSUME NEW h \in Handlers, Continue(h)
      PROVE  /\ AtomicInv'
             /\ [crashes' = 0 => \E m \in Requests : Atomic!RMDReceive(m)]_quiet
  <2>1. crashes' = crashes
    BY <1>1 DEF Continue, AckAgain, RecordEmpty, CheckClosed, ReadHighest, WriteHighest,
                WriteHighestId, RereadList, Record, MarkLastMessage, SendAck, Deliver, AnswerClose,
                ReadHighestNumber, ReadHighestId, MarkHighest, histories
  <2> QED
    BY <1>1, <2>1, AtomicContinue DEF AtomicInv, OneHandler
<1>2. ASSUME NEW h \in Handlers, NEW m \in Requests, Receive(h, m)
      PROVE  AtomicInv' /\ UNCHANGED quiet
  <2>1. /\ crashes' = crashes /\ at[h] = "idle" /\ at'[h] # "idle" /\ before' = Visible
    BY <1>2 DEF Receive, ReadList, InsertClosed, AnswerTerminate, Take, histories, SerialInv,
                TypeOK, LocalsOK
  <2>2. UNCHANGED quiet
    BY <2>1 DEF quiet, OneHandler
  <2> QED
    BY <1>2, <2>1, <2>2, StepTaken DEF AtomicInv, OneHandler, SerialInv
<1>3. CASE Crash
  BY <1>3, CrashesAssumption DEF Crash, AtomicInv, SerialInv, TypeOK, HistoriesOK
<1>4. CASE UNCHANGED vars
  <2>1. UNCHANGED quiet
    BY <1>4 DEF vars, rows, locals, histories, quiet, Visible
  <2>2. AtomicInv'
    BY <1>4 DEF vars, rows, locals, histories, AtomicInv, InStep, IdFollows, Changed, Decided,
                Answered, ListWritten, seq, app
  <2> QED
    BY <2>1, <2>2
<1> QED
  BY <1>1, <1>2, <1>3, <1>4 DEF Next

(***************************************************************************)
(* With one handler thread the statements of a handler amount to one step  *)
(* of RMDestination, as long as the server does not die: what OneWay is    *)
(* proved to do with whole handlers holds of handlers run statement by     *)
(* statement.                                                              *)
(***************************************************************************)
THEOREM OneHandlerIsAtomic ==
  ASSUME OneHandler
  PROVE  Spec => AtomicUntilCrash
<1>1. Init => SerialInv /\ AtomicInv
  BY SerialInit, AtomicInit
<1>2. SerialInv /\ AtomicInv /\ [Next]_vars
        => /\ SerialInv' /\ AtomicInv'
           /\ [crashes' = 0 => \E m \in Requests : Atomic!RMDReceive(m)]_quiet
  BY SerialNext, AtomicNext
<1> QED
  BY <1>1, <1>2, PTL DEF Spec, AtomicUntilCrash
=============================================================================
