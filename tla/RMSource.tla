------------------------------ MODULE RMSource ------------------------------
(***************************************************************************)
(* The RMS: the out-handler, the application-message processor with its    *)
(* retransmission loops, and the processors of the messages that come back *)
(* (CreateSequenceResponse, acknowledgements, CloseSequenceResponse), for  *)
(* one-way messages of a client on one internal sequence.                  *)
(*                                                                         *)
(* Every send call of the application is a thread of the client: it gives  *)
(* the message its number, asks for a sequence if it has to, and resends   *)
(* in a loop until an acknowledgement has removed its row of the sender    *)
(* table, or until it times the whole sequence out.  Nothing is locked:    *)
(* the statements of two calls interleave.                                 *)
(***************************************************************************)
EXTENDS Wire, Integers

CONSTANTS
  MaxAttempts,        \* max retransmission count of the policy, 0 = no limit
  InactivityTimeout,  \* the policy has an inactivity timeout
  CreateInline,       \* replyTo anonymous or a separate listener: the sending
                      \* thread itself repeats CreateSequence; else a worker does
  Sequential,         \* the application sends from one thread
  UserNumbers,        \* it may choose message numbers (Sandesha2 client property)
  Bodiless,           \* it may send messages whose SOAP body is empty
  BadResponses,       \* the back channel may carry a response that Axis2 rejects
  ReuseKey,           \* it may be started again with the same sequence key
  Crashes             \* its process may die at any time

ASSUME RMSourceAssumption ==
  /\ MaxAttempts \in Nat
  /\ {InactivityTimeout, CreateInline, Sequential, UserNumbers,
      Bodiless, BadResponses, ReuseKey, Crashes} \subseteq BOOLEAN

VARIABLES
  \* rows of the SQLite file, kept across runs of the process
  prevNo,          \* NEXT_MESSAGE_NUMBER: the number used last, 0 for none
  lastOutNo,       \* LAST_OUT_MESSAGE_NO: the number RM 1.0 announced as last
  createSent,      \* OUT_CREATE_SEQ_SENT
  createIds,       \* create_seq beans, by the call that asks
  createRows,      \* CREATE_SEQ rows of the sender table, likewise
  outSeq,          \* OUTGOING_SEQUENCE_ID of the internal sequence
  ours,            \* identifiers with an OUTGOING_INTERNAL_SEQUENCE_ID row
  beans,           \* APPLICATION rows of the sender table
  clientCompleted, \* values of the CLIENT_COMPLETED_MESSAGES rows, by their
                   \* key: a sequence identifier, or NoSeq for the internal id
  terminateAdded,  \* TERMINATE_ADDED
  timedOut,        \* SEQ_TIMED_OUT
  \* the process
  up,              \* it is running
  run,             \* how often it was started
  finished,        \* the application has announced its last message or closed
  creator,         \* what the CreateSequence worker of each call does
  createRow,       \* the CREATE_SEQ row that worker found last
  createCount,     \* sent_count of each CREATE_SEQ row
  pc,              \* what the thread of each call does
  outbox,          \* the message that thread has in hand
  envelope,        \* the sequence identifier written into it
  sentCount,       \* its sent_count
  \* history
  submitted,       \* messages the application has passed to the RMS
  confirmed        \* messages whose row an acknowledgement has removed

storeVars == <<prevNo, lastOutNo, createSent, createIds, createRows, outSeq,
               ours, beans, clientCompleted, terminateAdded, timedOut>>
threadVars == <<creator, createRow, createCount, pc, outbox, envelope, sentCount>>
processVars == <<up, run, finished>>
historyVars == <<submitted, confirmed>>
rmsVars == <<storeVars, threadVars, processVars, historyVars>>

Idle == {"idle", "done", "abandoned", "failed", "dead"}
Active == {"called", "counted", "starting", "asking", "creating", "recreating",
           "numbered", "waiting", "checking", "due", "sleeping"}

NeverSent == -1     \* sent_count of a new row

RMSInit ==
  /\ prevNo = 0 /\ lastOutNo = 0
  /\ createSent = FALSE /\ createIds = {} /\ createRows = {}
  /\ outSeq = NoSeq /\ ours = {}
  /\ beans = {}
  /\ clientCompleted = [k \in SeqIds \cup {NoSeq} |-> {}]
  /\ terminateAdded = FALSE /\ timedOut = FALSE
  /\ up = TRUE /\ run = 1 /\ finished = FALSE
  /\ creator = [c \in Calls |-> "off"]
  /\ createRow = [c \in Calls |-> c]
  /\ createCount = [c \in Calls |-> NeverSent]
  /\ pc = [c \in Calls |-> "idle"]
  /\ outbox = [c \in Calls |-> [call |-> c, run |-> 1, no |-> 1, kind |-> "plain"]]
  /\ envelope = [c \in Calls |-> NoSeq]
  /\ sentCount = [c \in Calls |-> NeverSent]
  /\ submitted = {} /\ confirmed = {}

Goto(c, label) == pc' = [pc EXCEPT ![c] = label]

-----------------------------------------------------------------------------
(***************************************************************************)
(* Retransmission adjuster: count one more attempt; past the policy's      *)
(* maximum, or past its inactivity timeout, the sequence is timed out.     *)
(* Without a maximum no guard reads the counter, so it is left alone.      *)
(***************************************************************************)
AttemptsLeftOffByOne(c) == MaxAttempts = 0 \/ c <= MaxAttempts   \* mutant
AttemptsLeft(c) == MaxAttempts = 0 \/ c < MaxAttempts
CountOf(c) == IF MaxAttempts = 0 THEN c ELSE c + 1
MayTimeOutWhenInactive(c) == InactivityTimeout                    \* mutant
MayTimeOut(c) == ~AttemptsLeft(c) \/ InactivityTimeout

(***************************************************************************)
(* terminate_mgr: every sender row and create_seq bean and every deletable *)
(* property of the internal sequence goes; the client's completed list     *)
(* moves under the sequence identifier when there is one.  The rows that   *)
(* map sequence identifiers back to the internal sequence stay, and so     *)
(* does TERMINATE_ADDED.                                                   *)
(***************************************************************************)
MovedCompleted ==
  IF outSeq = NoSeq
    THEN [clientCompleted EXCEPT ![NoSeq] = {}]
    ELSE [clientCompleted EXCEPT ![NoSeq] = {},
                                 ![outSeq] = @ \cup clientCompleted[NoSeq]]

TimeOutSequence ==
  /\ beans' = {} /\ createRows' = {} /\ createIds' = {}
  /\ prevNo' = 0 /\ lastOutNo' = 0 /\ createSent' = FALSE /\ outSeq' = NoSeq
  /\ clientCompleted' = MovedCompleted
  /\ timedOut' = TRUE
  /\ UNCHANGED <<ours, terminateAdded>>

-----------------------------------------------------------------------------
(***************************************************************************)
(* The application sends a message.  process_out_msg looks for a time-out  *)
(* of the sequence first (Halt is the send that finds one), then reads the *)
(* number used last, and writes the next one back two statements later.  A *)
(* number the user has chosen must be above the last one read.             *)
(***************************************************************************)
ChosenKinds ==
  {"plain"} \cup (IF Spec10 THEN {"last", "signal"} ELSE {})
            \cup (IF Bodiless THEN {"bodiless"} ELSE {})

NextNumberRepeated(n) == n = prevNo + 1 \/ UserNumbers            \* mutant
NextNumber(n) == n = prevNo + 1 \/ (UserNumbers /\ n > prevNo)

NothingSending == \A c \in Calls : pc[c] \in Idle

Send(c, kind) ==
  /\ up /\ ~timedOut
  /\ ~finished                      \* an application ends with its last message
  /\ Sequential => NothingSending
  /\ pc[c] = "idle" /\ \A d \in Calls : d < c => pc[d] # "idle"
  /\ outbox' = [outbox EXCEPT ![c] = [call |-> c, run |-> run, no |-> @.no, kind |-> kind]]
  /\ finished' = LastIndicator(outbox'[c])
  /\ Goto(c, "called")
  /\ UNCHANGED <<storeVars, historyVars, up, run, creator, createRow, createCount,
                 envelope, sentCount, net>>

ReadNumber(c) ==
  /\ pc[c] = "called"
  /\ \E n \in Nos :
       /\ NextNumber(n)
       /\ outbox' = [outbox EXCEPT ![c].no = n]
  /\ submitted' = submitted \cup {outbox'[c]}
  /\ Goto(c, "counted")
  /\ UNCHANGED <<storeVars, processVars, confirmed, creator, createRow, createCount,
                 envelope, sentCount, net>>

NumberRefused(c) ==
  /\ pc[c] = "called" /\ UserNumbers /\ prevNo > 0
  /\ Goto(c, "failed")
  /\ UNCHANGED <<storeVars, processVars, historyVars, creator, createRow, createCount,
                 outbox, envelope, sentCount, net>>

(***************************************************************************)
(* Number 1, and only number 1, asks for a sequence, if there is none and  *)
(* none was asked for before when it looks.                                *)
(***************************************************************************)
WriteNumber(c) ==
  /\ pc[c] = "counted"
  /\ prevNo' = outbox[c].no
  /\ Goto(c, IF outbox[c].no = 1 THEN "starting" ELSE "numbered")
  /\ UNCHANGED <<lastOutNo, createSent, createIds, createRows, outSeq, ours, beans,
                 clientCompleted, terminateAdded, timedOut, processVars, historyVars,
                 creator, createRow, createCount, outbox, envelope, sentCount, net>>

LookForCreate(c) ==
  /\ pc[c] = "starting"
  /\ Goto(c, IF outSeq = NoSeq /\ ~createSent THEN "asking" ELSE "numbered")
  /\ UNCHANGED <<storeVars, processVars, historyVars, creator, createRow, createCount,
                 outbox, envelope, sentCount, net>>

AskForSequence(c) ==
  /\ pc[c] = "asking"
  /\ createSent' = TRUE
  /\ createIds' = createIds \cup {c}
  /\ createRows' = createRows \cup {c}
  /\ IF CreateInline
       THEN Goto(c, "creating") /\ Put(CreateSequence(c)) /\ UNCHANGED creator
       ELSE Goto(c, "numbered") /\ creator' = [creator EXCEPT ![c] = "checking"]
                                /\ UNCHANGED net
  /\ UNCHANGED <<prevNo, lastOutNo, outSeq, ours, beans, clientCompleted, terminateAdded,
                 timedOut, processVars, historyVars, createRow, createCount, outbox,
                 envelope, sentCount>>

(***************************************************************************)
(* The CreateSequence loop of the sending thread: look for the identifier, *)
(* count an attempt or time the sequence out, sleep, send again.  The      *)
(* response may arrive between the look-up and what follows it.            *)
(***************************************************************************)
InlineLookUp(c) ==
  /\ pc[c] = "creating"
  /\ Goto(c, IF outSeq # NoSeq THEN "numbered" ELSE "recreating")
  /\ UNCHANGED <<storeVars, processVars, historyVars, creator, createRow, createCount,
                 outbox, envelope, sentCount, net>>

InlineCreateResend(c) ==
  /\ pc[c] = "recreating"
  /\ AttemptsLeft(createCount[c])
  /\ createCount' = [createCount EXCEPT ![c] = CountOf(@)]
  /\ Put(CreateSequence(c))
  /\ \/ Goto(c, "creating")
     \/ BadResponses /\ Goto(c, "failed")
  /\ UNCHANGED <<storeVars, processVars, historyVars, creator, createRow,
                 outbox, envelope, sentCount>>

InlineCreateTimesOut(c) ==
  /\ pc[c] = "recreating"
  /\ MayTimeOut(createCount[c])
  /\ TimeOutSequence
  /\ Goto(c, "failed")
  /\ UNCHANGED <<processVars, historyVars, creator, createRow, createCount, outbox,
                 envelope, sentCount, net>>

(***************************************************************************)
(* The CreateSequence worker of the dual-channel mode.  It lives as long   *)
(* as its sequence has exactly one CREATE_SEQ row, whichever that is       *)
(* (find_unique finds nothing among two), and sends the message of the row *)
(* it found first: its own, or the one it finds instead.                   *)
(***************************************************************************)
OnlyRow(r) == createRows = {r}

WorkerLookUp(c) ==
  /\ creator[c] = "checking"
  /\ \/ \E r \in Calls : /\ OnlyRow(r)
                         /\ creator' = [creator EXCEPT ![c] = "due"]
                         /\ createRow' = [createRow EXCEPT ![c] = r]
     \/ /\ \A r \in Calls : ~OnlyRow(r)
        /\ creator' = [creator EXCEPT ![c] = "off"]
        /\ UNCHANGED createRow
  /\ UNCHANGED <<storeVars, processVars, historyVars, createCount, pc, outbox, envelope,
                 sentCount, net>>

WorkerResend(c) ==
  /\ creator[c] = "due"
  /\ AttemptsLeft(createCount[createRow[c]])
  /\ createCount' = [createCount EXCEPT ![createRow[c]] = CountOf(@)]
  /\ \E r \in {c, createRow[c]} : Put(CreateSequence(r))
  /\ creator' = [creator EXCEPT ![c] = "checking"]
  /\ UNCHANGED <<storeVars, processVars, historyVars, createRow, pc, outbox, envelope,
                 sentCount>>

WorkerTimesOut(c) ==
  /\ creator[c] = "due"
  /\ MayTimeOut(createCount[createRow[c]])
  /\ TimeOutSequence
  /\ creator' = [creator EXCEPT ![c] = "off"]
  /\ UNCHANGED <<processVars, historyVars, createRow, createCount, pc, outbox, envelope,
                 sentCount, net>>

-----------------------------------------------------------------------------
(***************************************************************************)
(* send_app_msg: the row of the sender table is written, then the thread   *)
(* waits for a sequence identifier, with no bound, and sends.              *)
(***************************************************************************)
StoreMessage(c) ==
  /\ pc[c] = "numbered"
  /\ beans' = beans \cup {outbox[c]}
  /\ lastOutNo' = IF LastIndicator(outbox[c]) THEN outbox[c].no ELSE lastOutNo
  /\ Goto(c, "waiting")
  /\ UNCHANGED <<prevNo, createSent, createIds, createRows, outSeq, ours,
                 clientCompleted, terminateAdded, timedOut, processVars, historyVars,
                 creator, createRow, createCount, outbox, envelope, sentCount, net>>

StoreTimesOut(c) ==
  /\ pc[c] = "numbered" /\ InactivityTimeout
  /\ TimeOutSequence
  /\ Goto(c, "failed")
  /\ UNCHANGED <<processVars, historyVars, creator, createRow, createCount, outbox, envelope,
                 sentCount, net>>

FirstSend(c) ==
  /\ pc[c] = "waiting" /\ outSeq # NoSeq
  /\ envelope' = [envelope EXCEPT ![c] = outSeq]
  /\ Put(App(outSeq, outbox[c]))
  /\ Goto(c, "checking")
  /\ UNCHANGED <<storeVars, processVars, historyVars, creator, createRow, createCount, outbox,
                 sentCount>>

(***************************************************************************)
(* The retransmission loop: look the row up, count an attempt, sleep, send *)
(* the same envelope again.                                                *)
(***************************************************************************)
LookUp(c) ==
  /\ pc[c] = "checking"
  /\ Goto(c, IF outbox[c] \in beans THEN "due" ELSE "done")
  /\ UNCHANGED <<storeVars, processVars, historyVars, creator, createRow, createCount, outbox,
                 envelope, sentCount, net>>

CountAttempt(c) ==
  /\ pc[c] = "due" /\ AttemptsLeft(sentCount[c])
  /\ sentCount' = [sentCount EXCEPT ![c] = CountOf(@)]
  /\ Goto(c, "sleeping")
  /\ UNCHANGED <<storeVars, processVars, historyVars, creator, createRow, createCount, outbox,
                 envelope, net>>

TimesOut(c) ==
  /\ pc[c] = "due" /\ MayTimeOut(sentCount[c])
  /\ TimeOutSequence
  /\ Goto(c, "failed")
  /\ UNCHANGED <<processVars, historyVars, creator, createRow, createCount, outbox, envelope,
                 sentCount, net>>

Resend(c) ==
  /\ pc[c] = "sleeping"
  /\ Put(App(envelope[c], outbox[c]))
  /\ \/ Goto(c, "checking")
     \/ BadResponses /\ Goto(c, "abandoned")
  /\ UNCHANGED <<storeVars, processVars, historyVars, creator, createRow, createCount, outbox,
                 envelope, sentCount>>

-----------------------------------------------------------------------------
(***************************************************************************)
(* Messages that come back.                                                *)
(*                                                                         *)
(* The create_seq bean outlives the response, so every response to the     *)
(* CreateSequence is taken, and the last one decides OUTGOING_SEQUENCE_ID. *)
(***************************************************************************)
ReceiveCreateSequenceResponse(m) ==
  /\ up /\ m.type = "CreateSequenceResponse" /\ m.relatesTo \in createIds
  /\ outSeq' = m.seq
  /\ ours' = ours \cup {m.seq}
  /\ createRows' = IF \E r \in Calls : OnlyRow(r) THEN {} ELSE createRows
  /\ UNCHANGED <<prevNo, lastOutNo, createSent, createIds, beans, clientCompleted,
                 terminateAdded, timedOut, processVars, historyVars, threadVars, net>>

(***************************************************************************)
(* An acknowledgement removes one row of each number it lists, whatever    *)
(* sequence the message was sent on; the client's completed list becomes   *)
(* the list of this very acknowledgement.                                  *)
(***************************************************************************)
AcknowledgedAll(nos) == {beans}                                    \* mutant
AcknowledgedUpTo(nos) == {{b \in beans : \E k \in nos : b.no <= k}} \* mutant
Acknowledged(nos) ==
  {acked \in SUBSET {b \in beans : b.no \in nos} :
     /\ \A b, d \in acked : b.no = d.no => b = d
     /\ \A b \in beans : b.no \in nos => \E d \in acked : d.no = b.no}

Acknowledge(s, nos) ==
  /\ \E acked \in Acknowledged(nos) :
       /\ beans' = beans \ acked
       /\ confirmed' = confirmed \cup acked
  /\ clientCompleted' =
       [clientCompleted EXCEPT ![IF clientCompleted[s] = {} THEN NoSeq ELSE s] = {nos}]

(***************************************************************************)
(* After a terminate message was added, acknowledgements are ignored.  If  *)
(* a last message was announced, every acknowledgement adds one.           *)
(***************************************************************************)
LastAnnouncedAlways == TRUE                                       \* mutant
LastAnnounced == lastOutNo > 0

ReceiveAck(m) ==
  /\ up /\ m.type = "Ack" /\ m.seq \in ours
  /\ ~terminateAdded
  /\ Acknowledge(m.seq, m.nos)
  /\ IF LastAnnounced
       THEN terminateAdded' = TRUE /\ Put(TerminateSequence(m.seq))
       ELSE UNCHANGED <<terminateAdded, net>>
  /\ UNCHANGED <<prevNo, lastOutNo, createSent, createIds, createRows, outSeq, ours,
                 timedOut, processVars, submitted, threadVars>>

(***************************************************************************)
(* CloseSequenceResponse carries an acknowledgement, handled first, and is *)
(* answered with TerminateSequence whatever that acknowledgement lists.    *)
(***************************************************************************)
ReceiveCloseSequenceResponse(m) ==
  /\ up /\ m.type = "CloseSequenceResponse" /\ m.seq \in ours
  /\ IF terminateAdded
       THEN UNCHANGED <<beans, clientCompleted, confirmed>>
       ELSE Acknowledge(m.seq, m.nos)
  /\ terminateAdded' = TRUE
  /\ Put(TerminateSequence(m.seq))
  /\ UNCHANGED <<prevNo, lastOutNo, createSent, createIds, createRows, outSeq, ours,
                 timedOut, processVars, submitted, threadVars>>

RMSReceive(m) ==
  \/ ReceiveCreateSequenceResponse(m)
  \/ ReceiveAck(m)
  \/ ReceiveCloseSequenceResponse(m)

-----------------------------------------------------------------------------
(***************************************************************************)
(* RM 1.1: the application closes; CloseSequence is sent once.             *)
(***************************************************************************)
Close ==
  /\ up /\ ~Spec10 /\ ~finished /\ outSeq # NoSeq
  /\ Sequential => NothingSending
  /\ finished' = TRUE
  /\ Put(CloseSequence(outSeq))
  /\ UNCHANGED <<storeVars, threadVars, historyVars, up, run>>

KillThreads ==
  /\ up' = FALSE
  /\ creator' = [c \in Calls |-> "off"]
  /\ pc' = [c \in Calls |-> IF pc[c] \in Active THEN "dead" ELSE pc[c]]
  /\ UNCHANGED <<createRow, createCount, outbox, envelope, sentCount, run, finished>>

(***************************************************************************)
(* The send after a time-out finds SEQ_TIMED_OUT, removes it and exits the *)
(* process.                                                                *)
(***************************************************************************)
Halt ==
  /\ up /\ timedOut
  /\ Sequential => NothingSending
  /\ timedOut' = FALSE
  /\ KillThreads
  /\ UNCHANGED <<prevNo, lastOutNo, createSent, createIds, createRows, outSeq, ours,
                 beans, clientCompleted, terminateAdded, historyVars, net>>

Crash ==
  /\ Crashes /\ up
  /\ KillThreads
  /\ UNCHANGED <<storeVars, historyVars, net>>

Restart ==
  /\ ReuseKey /\ ~up /\ run < MaxRun
  /\ up' = TRUE /\ run' = run + 1 /\ finished' = FALSE
  /\ UNCHANGED <<storeVars, threadVars, historyVars, net>>

ThreadStep(c) ==
  \/ ReadNumber(c) \/ NumberRefused(c) \/ WriteNumber(c)
  \/ LookForCreate(c) \/ AskForSequence(c)
  \/ InlineLookUp(c) \/ InlineCreateResend(c) \/ InlineCreateTimesOut(c)
  \/ StoreMessage(c) \/ StoreTimesOut(c) \/ FirstSend(c)
  \/ LookUp(c) \/ CountAttempt(c) \/ TimesOut(c) \/ Resend(c)

WorkerStep(c) == WorkerLookUp(c) \/ WorkerResend(c) \/ WorkerTimesOut(c)

StoreTypeOK ==
  /\ prevNo \in 0 .. MaxMsg /\ lastOutNo \in 0 .. MaxMsg
  /\ createSent \in BOOLEAN /\ createIds \subseteq Calls /\ createRows \subseteq Calls
  /\ outSeq \in SeqIds \cup {NoSeq} /\ ours \subseteq SeqIds
  /\ beans \subseteq AppMsgs
  /\ clientCompleted \in [SeqIds \cup {NoSeq} -> SUBSET SUBSET Nos]
  /\ terminateAdded \in BOOLEAN /\ timedOut \in BOOLEAN

RMSTypeOK ==
  /\ StoreTypeOK
  /\ up \in BOOLEAN /\ run \in Runs /\ finished \in BOOLEAN
  /\ creator \in [Calls -> {"off", "checking", "due"}]
  /\ createRow \in [Calls -> Calls]
  /\ createCount \in [Calls -> NeverSent .. MaxAttempts]
  /\ pc \in [Calls -> Idle \cup Active]
  /\ outbox \in [Calls -> AppMsgs]
  /\ envelope \in [Calls -> SeqIds \cup {NoSeq}]
  /\ sentCount \in [Calls -> NeverSent .. MaxAttempts]
  /\ submitted \subseteq AppMsgs /\ confirmed \subseteq AppMsgs
=============================================================================
