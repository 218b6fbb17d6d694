-------------------------- MODULE OneWayTypeProofs --------------------------
(***************************************************************************)
(* Type correctness of OneWay for every value of its constants.            *)
(***************************************************************************)
EXTENDS OneWayInvariants, WireFacts

-----------------------------------------------------------------------------
(***************************************************************************)
(* Every variable keeps its type: one step per action.  A resend needs the *)
(* envelope of the first send, so HasEnvelope is part of the invariant.    *)
(***************************************************************************)
TypeInv == TypeOK /\ HasEnvelope

LEMMA TypeInit == Init => TypeInv
<1> SUFFICES ASSUME Init PROVE TypeInv
  OBVIOUS
<1> USE BoundsAssumption, RMSourceAssumption DEF Init, Runs, Nos, Calls
<1>1. outbox \in [Calls -> AppMsgs]
  BY DEF RMSInit, AppMsgs, Kinds
<1>2. StoreTypeOK
  <2>1. clientCompleted \in [SeqIds \cup {NoSeq} -> SUBSET SUBSET Nos]
    BY DEF RMSInit
  <2>2. 0 \in 0 .. MaxMsg
    OBVIOUS
  <2> QED
    BY <2>1, <2>2 DEF RMSInit, StoreTypeOK
<1>3. RMSTypeOK
  <2>1. NeverSent \in NeverSent .. MaxAttempts
    BY DEF NeverSent
  <2>2. 1 \in Runs
    OBVIOUS
  <2>3. /\ pc \in [Calls -> Idle \cup Active]
        /\ envelope \in [Calls -> SeqIds \cup {NoSeq}]
        /\ sentCount \in [Calls -> NeverSent .. MaxAttempts]
        /\ createCount \in [Calls -> NeverSent .. MaxAttempts]
        /\ creator \in [Calls -> {"off", "checking", "due"}]
        /\ createRow \in [Calls -> Calls]
    BY <2>1 DEF RMSInit, Idle
  <2> QED
    BY <1>1, <1>2, <2>1, <2>2, <2>3 DEF RMSInit, RMSTypeOK
<1>4. RMDTypeOK
  BY DEF RMDInit, RMDTypeOK
<1> QED
  BY <1>3, <1>4 DEF RMSInit, TypeInv, TypeOK, HasEnvelope, Sending

(***************************************************************************)
(* A time-out leaves a well-typed store.                                   *)
(***************************************************************************)
LEMMA TypeTimeOut == StoreTypeOK /\ TimeOutSequence => StoreTypeOK'
<1> SUFFICES ASSUME StoreTypeOK, TimeOutSequence PROVE StoreTypeOK'
  OBVIOUS
<1>1. MovedCompleted \in [SeqIds \cup {NoSeq} -> SUBSET SUBSET Nos]
  <2>1. clientCompleted \in [SeqIds \cup {NoSeq} -> SUBSET SUBSET Nos]
    BY DEF StoreTypeOK
  <2>2. clientCompleted[NoSeq] \in SUBSET SUBSET Nos
    BY <2>1
  <2> QED
    BY <2>1, <2>2 DEF MovedCompleted
<1>2. clientCompleted' \in [SeqIds \cup {NoSeq} -> SUBSET SUBSET Nos]
  BY <1>1 DEF TimeOutSequence
<1>3. 0 \in 0 .. MaxMsg
  BY BoundsAssumption
<1> QED
  BY <1>2, <1>3 DEF StoreTypeOK, TimeOutSequence

(***************************************************************************)
(* A row is new, or its count is one that the policy allows.               *)
(***************************************************************************)
LEMMA TypeCount ==
  /\ NeverSent \in NeverSent .. MaxAttempts
  /\ \A c \in NeverSent .. MaxAttempts :
       AttemptsLeft(c) => CountOf(c) \in NeverSent .. MaxAttempts
  BY RMSourceAssumption DEF NeverSent, AttemptsLeft, CountOf

LEMMA TypeNumber ==
  ASSUME TypeInv, NEW c \in Calls, ReadNumber(c) \/ NumberRefused(c) \/ WriteNumber(c)
                                     \/ LookForCreate(c) \/ AskForSequence(c)
  PROVE  net' \subseteq Messages /\ RMSTypeOK' /\ HasEnvelope'
<1> USE MessageTypes, BoundsAssumption
    DEF TypeInv, TypeOK, RMSTypeOK, StoreTypeOK, HasEnvelope, Sending, storeVars, processVars,
        historyVars, Goto, Put, Active, Idle
<1>1. CASE ReadNumber(c)
  <2>1. outbox' \in [Calls -> AppMsgs]
    <3>1. PICK n \in Nos : outbox' = [outbox EXCEPT ![c].no = n]
      BY <1>1 DEF ReadNumber
    <3>2. [outbox[c] EXCEPT !.no = n] \in AppMsgs
      BY DEF AppMsgs
    <3> QED
      BY <3>1, <3>2
  <2>2. submitted' \subseteq AppMsgs
    BY <1>1, <2>1 DEF ReadNumber
  <2> QED
    BY <1>1, <2>1, <2>2 DEF ReadNumber
<1>2. CASE NumberRefused(c)
  BY <1>2 DEF NumberRefused
<1>3. CASE WriteNumber(c)
  <2>1. outbox[c].no \in 0 .. MaxMsg
    BY DEF AppMsgs, Nos
  <2> QED
    BY <1>3, <2>1 DEF WriteNumber
<1>4. CASE LookForCreate(c)
  BY <1>4 DEF LookForCreate
<1>5. CASE AskForSequence(c)
  BY <1>5 DEF AskForSequence
<1> QED
  BY <1>1, <1>2, <1>3, <1>4, <1>5

LEMMA TypeThread ==
  ASSUME TypeInv, NEW c \in Calls, ThreadStep(c)
  PROVE  net' \subseteq Messages /\ RMSTypeOK' /\ HasEnvelope'
<1> USE MessageTypes, BoundsAssumption, RMSourceAssumption
    DEF TypeInv, TypeOK, RMSTypeOK, StoreTypeOK, HasEnvelope, Sending, storeVars, threadVars, processVars,
        historyVars, Goto, Put, Active, Idle
<1>1. CASE InlineLookUp(c)
  BY <1>1 DEF InlineLookUp
<1>2. CASE InlineCreateResend(c)
  BY <1>2, TypeCount DEF InlineCreateResend
<1>3. CASE InlineCreateTimesOut(c)
  BY <1>3, TypeTimeOut DEF InlineCreateTimesOut
<1>4. CASE StoreMessage(c)
  <2>1. outbox[c] \in AppMsgs /\ outbox[c].no \in 0 .. MaxMsg
    BY DEF AppMsgs, Nos
  <2> QED
    BY <1>4, <2>1 DEF StoreMessage
<1>5. CASE StoreTimesOut(c)
  BY <1>5, TypeTimeOut DEF StoreTimesOut
<1>6. CASE FirstSend(c)
  BY <1>6 DEF FirstSend
<1>7. CASE LookUp(c)
  BY <1>7 DEF LookUp
<1>8. CASE CountAttempt(c)
  BY <1>8, TypeCount DEF CountAttempt
<1>9. CASE TimesOut(c)
  BY <1>9, TypeTimeOut DEF TimesOut
<1>10. CASE Resend(c)
  <2>1. envelope[c] \in SeqIds /\ outbox[c] \in AppMsgs
    BY <1>10 DEF Resend
  <2> QED
    BY <1>10, <2>1 DEF Resend
<1> QED
  BY TypeNumber, <1>1, <1>2, <1>3, <1>4, <1>5, <1>6, <1>7, <1>8, <1>9, <1>10 DEF ThreadStep

LEMMA TypeSend ==
  ASSUME TypeInv, NEW c \in Calls, NEW kind \in ChosenKinds, Send(c, kind)
  PROVE  net' \subseteq Messages /\ RMSTypeOK' /\ HasEnvelope'
<1> USE DEF TypeInv, TypeOK, RMSTypeOK, StoreTypeOK, HasEnvelope, Sending, storeVars, historyVars, Goto
<1>1. outbox' \in [Calls -> AppMsgs]
  <2>1. [call |-> c, run |-> run, no |-> outbox[c].no, kind |-> kind] \in AppMsgs
    BY DEF ChosenKinds, AppMsgs, Kinds
  <2> QED
    BY <2>1 DEF Send
<1>2. finished' \in BOOLEAN
  BY DEF Send, LastIndicator
<1>3. pc' \in [Calls -> Idle \cup Active] /\ HasEnvelope'
  BY DEF Send, Active
<1> QED
  BY <1>1, <1>2, <1>3 DEF Send

LEMMA TypeWorker ==
  ASSUME TypeInv, NEW c \in Calls, WorkerStep(c)
  PROVE  net' \subseteq Messages /\ RMSTypeOK' /\ HasEnvelope'
<1> USE MessageTypes, RMSourceAssumption
    DEF TypeInv, TypeOK, RMSTypeOK, HasEnvelope, processVars, historyVars, Put
<1>1. CASE WorkerResend(c)
  <2>1. createRow[c] \in Calls
    OBVIOUS
  <2>2. PICK r \in Calls : Put(CreateSequence(r))
    BY <1>1, <2>1 DEF WorkerResend
  <2>3. net' \subseteq Messages
    BY <2>2
  <2> QED
    BY <1>1, <2>1, <2>3, TypeCount DEF WorkerResend, StoreTypeOK, storeVars
<1>2. CASE WorkerTimesOut(c)
  BY <1>2, TypeTimeOut DEF WorkerTimesOut
<1>3. CASE WorkerLookUp(c)
  BY <1>3 DEF WorkerLookUp, StoreTypeOK, storeVars
<1> QED
  BY <1>1, <1>2, <1>3 DEF WorkerStep

LEMMA TypeRMSReceive ==
  ASSUME TypeInv, NEW m \in net, RMSReceive(m)
  PROVE  net' \subseteq Messages /\ RMSTypeOK' /\ HasEnvelope'
<1> USE MessageTypes, MessageFields
    DEF TypeInv, TypeOK, RMSTypeOK, StoreTypeOK, HasEnvelope, processVars, threadVars, Put
<1>1. ASSUME NEW s \in SeqIds, NEW nos \in SUBSET Nos, Acknowledge(s, nos)
      PROVE  /\ beans' \subseteq AppMsgs /\ confirmed' \subseteq AppMsgs
             /\ clientCompleted' \in [SeqIds \cup {NoSeq} -> SUBSET SUBSET Nos]
  BY <1>1 DEF Acknowledge, Acknowledged
<1>2. CASE ReceiveCreateSequenceResponse(m)
  BY <1>2 DEF ReceiveCreateSequenceResponse, historyVars
<1>3. CASE ReceiveAck(m)
  <2>1. m.seq \in SeqIds /\ m.nos \in SUBSET Nos
    BY <1>3 DEF ReceiveAck
  <2>2. net' \subseteq Messages /\ terminateAdded' \in BOOLEAN
    <3>1. TerminateSequence(m.seq) \in Messages
      BY <2>1
    <3> QED
      BY <1>3, <3>1 DEF ReceiveAck
  <2> QED
    BY <1>1, <1>3, <2>1, <2>2 DEF ReceiveAck
<1>4. CASE ReceiveCloseSequenceResponse(m)
  <2>1. m.seq \in SeqIds /\ m.nos \in SUBSET Nos
    BY <1>4 DEF ReceiveCloseSequenceResponse
  <2> QED
    BY <1>1, <1>4, <2>1 DEF ReceiveCloseSequenceResponse
<1> QED
  BY <1>2, <1>3, <1>4 DEF RMSReceive

(***************************************************************************)
(* Closing, the exit after a time-out, a crash and a restart.              *)
(***************************************************************************)
LEMMA TypeProcess ==
  ASSUME TypeInv, Close \/ Halt \/ Crash \/ Restart
  PROVE  net' \subseteq Messages /\ RMSTypeOK' /\ HasEnvelope'
<1> USE MessageTypes, BoundsAssumption
    DEF TypeInv, TypeOK, RMSTypeOK, StoreTypeOK, HasEnvelope, Sending, storeVars, threadVars,
        historyVars, Put
<1>1. CASE Close
  BY <1>1 DEF Close
<1>2. ASSUME KillThreads
      PROVE  /\ pc' \in [Calls -> Idle \cup Active]
             /\ \A c \in Calls : pc'[c] \in Sending => pc[c] \in Sending
             /\ up' = FALSE /\ creator' \in [Calls -> {"off", "checking", "due"}]
             /\ UNCHANGED <<createRow, createCount, outbox, envelope, sentCount, run, finished>>
  BY <1>2 DEF KillThreads, Idle, Active
<1>3. CASE Halt
  <2>1. StoreTypeOK'
    BY <1>3 DEF Halt
  <2> QED
    BY <1>2, <1>3, <2>1 DEF Halt
<1>4. CASE Crash
  BY <1>2, <1>4 DEF Crash
<1>5. CASE Restart
  <2>1. run' \in Runs
    BY <1>5 DEF Restart, Runs
  <2> QED
    BY <1>5, <2>1 DEF Restart
<1> QED
  BY <1>1, <1>3, <1>4, <1>5

LEMMA TypeRMDReceive ==
  ASSUME TypeOK, NEW m \in net, RMDReceive(m)
  PROVE  net' \subseteq Messages /\ RMDTypeOK'
<1> USE MessageFields DEF TypeOK, RMDTypeOK, rmdVars, Put
<1> DEFINE SendsTyped == \A s \in SeqIds, nos \in SUBSET Nos :
             {Ack(s, nos), CloseSequenceResponse(s, nos), TerminateSequenceResponse(s, nos),
              SequenceClosedFault(s)} \subseteq Messages
<1> SendsTyped
  BY MessageTypes
<1> HIDE DEF SendsTyped
<1>1. CASE ReceiveCreateSequence(m)
  BY <1>1, MessageTypes DEF ReceiveCreateSequence
<1>2. ASSUME m.type = "App"
      PROVE  m.seq \in SeqIds /\ m.app \in AppMsgs /\ m.app.no \in Nos
  BY <1>2 DEF AppMsgs
<1>3. CASE DropDuplicate(m)
  <2>1. AckOf(m.seq) \in Messages
    BY <1>2, <1>3 DEF DropDuplicate, AckOf, SendsTyped
  <2> QED
    BY <1>3, <2>1 DEF DropDuplicate
<1>4. CASE RefuseClosed(m)
  <2>1. completed' \in [SeqIds -> SUBSET Nos]
    BY <1>2, <1>4 DEF RefuseClosed
  <2>2. SequenceClosedFault(m.seq) \in Messages
    BY <1>2, <1>4 DEF RefuseClosed, SendsTyped
  <2> QED
    BY <1>4, <2>1, <2>2 DEF RefuseClosed
<1>5. CASE AcceptApp(m)
  <2>1. m.seq \in SeqIds /\ m.app \in AppMsgs /\ m.app.no \in Nos
    BY <1>2, <1>5 DEF AcceptApp
  <2>2. completed' \in [SeqIds -> SUBSET Nos]
    BY <1>5, <2>1 DEF AcceptApp
  <2>3. AckOf(m.seq) \in Messages
    BY <2>1, <2>2 DEF AckOf, SendsTyped
  <2>4. highestIn' \in [SeqIds -> 0 .. MaxMsg] /\ lastIn' \in [SeqIds -> 0 .. MaxMsg]
    <3>1. m.app.no \in 0 .. MaxMsg
      BY <2>1, BoundsAssumption DEF Nos
    <3> QED
      BY <1>5, <2>1, <3>1 DEF AcceptApp, HighestWith
  <2>5. delivered' \subseteq AppMsgs /\ redelivered' \subseteq AppMsgs
    BY <1>5, <2>1 DEF AcceptApp
  <2> QED
    BY <1>5, <2>2, <2>3, <2>4, <2>5 DEF AcceptApp
<1>6. CASE ReceiveCloseSequence(m)
  <2>1. m.seq \in SeqIds
    BY <1>6 DEF ReceiveCloseSequence
  <2>2. CloseSequenceResponse(m.seq, completed[m.seq]) \in Messages
    BY <2>1 DEF SendsTyped
  <2> QED
    BY <1>6, <2>1, <2>2 DEF ReceiveCloseSequence
<1>7. CASE ReceiveTerminateSequence(m)
  <2>1. m.seq \in SeqIds
    BY <1>7 DEF ReceiveTerminateSequence
  <2>2. TerminateSequenceResponse(m.seq, completed[m.seq]) \in Messages
    BY <2>1 DEF SendsTyped
  <2>3. lastIn' \in [SeqIds -> 0 .. MaxMsg]
    BY <1>7, <2>1 DEF ReceiveTerminateSequence, AsLast
  <2> QED
    BY <1>7, <2>2, <2>3 DEF ReceiveTerminateSequence
<1> QED
  BY <1>1, <1>3, <1>4, <1>5, <1>6, <1>7 DEF RMDReceive

LEMMA TypeNext == TypeInv /\ [Next]_vars => TypeInv'
<1> SUFFICES ASSUME TypeInv, [Next]_vars PROVE TypeInv'
  OBVIOUS
<1>1. ASSUME SourceStep, UNCHANGED rmdVars PROVE TypeInv'
  <2>1. net' \subseteq Messages /\ RMSTypeOK' /\ HasEnvelope'
    BY <1>1, TypeSend, TypeThread, TypeWorker, TypeRMSReceive, TypeProcess DEF SourceStep
  <2>2. RMDTypeOK'
    BY <1>1 DEF TypeInv, TypeOK, RMDTypeOK, rmdVars
  <2> QED
    BY <2>1, <2>2 DEF TypeInv, TypeOK
<1>2. ASSUME UNCHANGED rmsVars PROVE RMSTypeOK' /\ HasEnvelope'
  BY <1>2 DEF TypeInv, TypeOK, RMSTypeOK, StoreTypeOK, HasEnvelope, rmsVars, storeVars,
              threadVars, processVars, historyVars
<1>3. ASSUME DestinationStep, UNCHANGED rmsVars PROVE TypeInv'
  BY <1>2, <1>3, TypeRMDReceive DEF DestinationStep, TypeInv, TypeOK
<1>4. ASSUME Lose, UNCHANGED <<rmsVars, rmdVars>> PROVE TypeInv'
  BY <1>2, <1>4 DEF Lose, TypeInv, TypeOK, RMDTypeOK, rmdVars
<1>5. CASE UNCHANGED vars
  BY <1>2, <1>5 DEF vars, TypeInv, TypeOK, RMDTypeOK, rmdVars
<1> QED
  BY <1>1, <1>3, <1>4, <1>5 DEF Next

(***************************************************************************)
(* Type correctness of every reachable state.                              *)
(***************************************************************************)
THEOREM TypeCorrect == Spec => []TypeOK
<1>1. TypeInv => TypeOK
  BY DEF TypeInv
<1> QED
  BY TypeInit, TypeNext, <1>1, PTL DEF Spec
=============================================================================
