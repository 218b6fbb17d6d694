--------------------------- MODULE RMDestination ----------------------------
(***************************************************************************)
(* The RMD: the in-handler and the message processors of the receiving     *)
(* Axis2/C, for one-way messages.  Each action is one invocation of        *)
(* sandesha2_in_handler_invoke for one received message; DeliveryRace      *)
(* takes the application-message handler apart into its SQL statements.    *)
(* All of its state is in the SQLite file, so a restart of the server      *)
(* between two messages changes nothing.                                   *)
(***************************************************************************)
EXTENDS Wire

VARIABLES
  known,        \* sequences with a next_msg bean
  completed,    \* SERVER_COMPLETED_MESSAGES of each sequence
  highestIn,    \* HIGHEST_IN_MSG_NUMBER
  lastIn,       \* the number of the message LAST_IN_MESSAGE_ID names, 0 for none
  closed,       \* sequences with SEQ_CLOSED
  delivered,    \* history: messages handed to the service
  redelivered   \* history: messages handed to the service more than once

rmdVars == <<known, completed, highestIn, lastIn, closed, delivered, redelivered>>

RMDInit ==
  /\ known = {}
  /\ completed = [s \in SeqIds |-> {}]
  /\ highestIn = [s \in SeqIds |-> 0]
  /\ lastIn = [s \in SeqIds |-> 0]
  /\ closed = {}
  /\ delivered = {}
  /\ redelivered = {}

(***************************************************************************)
(* The acknowledgement an RMD sends always carries the whole completed     *)
(* list of the sequence.                                                   *)
(***************************************************************************)
AckOf(s) == Ack(s, completed'[s])

AlreadyReceivedHighest(s, no) == no = highestIn[s]     \* mutant
AlreadyReceived(s, no) == no \in completed[s]
IsClosedNever(s) == FALSE                              \* mutant
IsClosed(s) == s \in closed
HighestWith(h, no) == IF no > h THEN no ELSE h

(***************************************************************************)
(* CreateSequence.  Nothing recognises a repeated CreateSequence: every    *)
(* copy that arrives makes a new incoming sequence.                        *)
(***************************************************************************)
ReceiveCreateSequence(m) ==
  /\ m.type = "CreateSequence"
  /\ \E s \in SeqIds \ known :
       /\ known' = known \cup {s}
       /\ Put(CreateSequenceResponse(m.id, s))
  /\ UNCHANGED <<completed, highestIn, lastIn, closed, delivered, redelivered>>

(***************************************************************************)
(* An application message whose number is already in the list is dropped   *)
(* before any other check and acknowledged again.                          *)
(***************************************************************************)
DropDuplicateSilently(m) ==                            \* mutant
  /\ m.type = "App" /\ m.seq \in known
  /\ AlreadyReceived(m.seq, m.app.no)
  /\ UNCHANGED <<rmdVars, net>>

DropDuplicate(m) ==
  /\ m.type = "App" /\ m.seq \in known
  /\ AlreadyReceived(m.seq, m.app.no)
  /\ UNCHANGED rmdVars
  /\ Put(AckOf(m.seq))

(***************************************************************************)
(* drop_if_duplicate adds the number of a message with an empty body to    *)
(* the list at once, before the closed and unknown checks.                 *)
(***************************************************************************)
RefuseClosed(m) ==
  /\ m.type = "App" /\ m.seq \in known
  /\ ~AlreadyReceived(m.seq, m.app.no)
  /\ IsClosed(m.seq)
  /\ completed' = IF EmptyBody(m.app)
                    THEN [completed EXCEPT ![m.seq] = @ \cup {m.app.no}]
                    ELSE completed
  /\ Put(SequenceClosedFault(m.seq))
  /\ UNCHANGED <<known, highestIn, lastIn, closed, delivered, redelivered>>

(***************************************************************************)
(* A new message of an open sequence: recorded, acknowledged and, unless   *)
(* its body is empty (treated as RM 1.0's LastMessage signal whatever the  *)
(* version), handed to the service.                                        *)
(***************************************************************************)
AcceptApp(m) ==
  /\ m.type = "App" /\ m.seq \in known
  /\ ~AlreadyReceived(m.seq, m.app.no)
  /\ ~IsClosed(m.seq)
  /\ completed' = [completed EXCEPT ![m.seq] = @ \cup {m.app.no}]
  /\ highestIn' = [highestIn EXCEPT ![m.seq] = HighestWith(@, m.app.no)]
  /\ lastIn' = IF LastIndicator(m.app)
                 THEN [lastIn EXCEPT ![m.seq] = m.app.no]
                 ELSE lastIn
  /\ IF EmptyBody(m.app)
       THEN UNCHANGED <<delivered, redelivered>>
       ELSE /\ delivered' = delivered \cup {m.app}
            /\ redelivered' = redelivered \cup ({m.app} \cap delivered)
  /\ Put(AckOf(m.seq))
  /\ UNCHANGED <<known, closed>>

ReceiveCloseSequence(m) ==
  /\ m.type = "CloseSequence" /\ m.seq \in known
  /\ closed' = closed \cup {m.seq}
  /\ UNCHANGED <<known, completed, highestIn, lastIn, delivered, redelivered>>
  /\ Put(CloseSequenceResponse(m.seq, completed[m.seq]))

(***************************************************************************)
(* The highest number that has arrived is marked as the last one; RM 1.1   *)
(* is also answered with a response that carries an acknowledgement.  The  *)
(* receiving side's data stays, so the sequence still accepts messages.    *)
(***************************************************************************)
AsLastByCount(s) == Cardinality(completed[s])          \* mutant
AsLast(s) == highestIn[s]

ReceiveTerminateSequence(m) ==
  /\ m.type = "TerminateSequence" /\ m.seq \in known
  /\ lastIn' = IF highestIn[m.seq] > 0
                 THEN [lastIn EXCEPT ![m.seq] = AsLast(m.seq)]
                 ELSE lastIn
  /\ IF Spec10
       THEN UNCHANGED net
       ELSE Put(TerminateSequenceResponse(m.seq, completed[m.seq]))
  /\ UNCHANGED <<known, completed, highestIn, closed, delivered, redelivered>>

RMDReceive(m) ==
  \/ ReceiveCreateSequence(m)
  \/ DropDuplicate(m)
  \/ RefuseClosed(m)
  \/ AcceptApp(m)
  \/ ReceiveCloseSequence(m)
  \/ ReceiveTerminateSequence(m)

RMDTypeOK ==
  /\ known \subseteq SeqIds
  /\ completed \in [SeqIds -> SUBSET Nos]
  /\ highestIn \in [SeqIds -> 0 .. MaxMsg]
  /\ lastIn \in [SeqIds -> 0 .. MaxMsg]
  /\ closed \subseteq SeqIds
  /\ delivered \subseteq AppMsgs
  /\ redelivered \subseteq AppMsgs
=============================================================================
