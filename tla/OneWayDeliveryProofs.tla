------------------------ MODULE OneWayDeliveryProofs ------------------------
(***************************************************************************)
(* With one sending thread, no worker that may time the sequence out, a    *)
(* fresh sequence key and no empty application messages, what is           *)
(* acknowledged was delivered, and OneWay implements ReliableDelivery.     *)
(***************************************************************************)
EXTENDS OneWayProofs

(***************************************************************************)
(* Only a restart with the same key starts another numbering period, and   *)
(* only an application that may send empty bodies does so.                 *)
(***************************************************************************)
LEMMA SingleRunInit == Init => SingleRun
  BY DEF Init, RMSInit, SingleRun

LEMMA SingleRunNext ==
  ASSUME ~ReuseKey, ~Bodiless, IndInv, SingleRun, [Next]_vars
  PROVE  SingleRun'
<1> USE DEF SingleRun
<1>1. CASE UNCHANGED rmsVars
  BY <1>1 DEF rmsVars, threadVars, processVars
<1>2. CASE SourceStep
  <2>1. \A c \in Calls : outbox'[c].kind # "bodiless"
    BY <1>2, OutboxKinds DEF ChosenKinds
  <2>2. run' = run
    BY <1>2
    DEF SourceStep, Send, ThreadStep, ReadNumber, NumberRefused, WriteNumber, LookForCreate,
        AskForSequence, InlineLookUp, InlineCreateResend, InlineCreateTimesOut, StoreMessage,
        StoreTimesOut, FirstSend, LookUp, CountAttempt, TimesOut, Resend, WorkerStep,
        WorkerLookUp, WorkerResend, WorkerTimesOut, RMSReceive, ReceiveCreateSequenceResponse,
        ReceiveAck, ReceiveCloseSequenceResponse, Close, Halt, Crash, Restart, KillThreads,
        processVars
  <2> QED
    BY <2>1, <2>2
<1> QED
  BY <1>1, <1>2 DEF Next, vars

(***************************************************************************)
(* The heart of the argument: a number identifies a message, so a row that *)
(* an acknowledgement removes is the row of a message the RMD recorded.    *)
(***************************************************************************)
LEMMA AcknowledgedWasDelivered ==
  ASSUME IndInv, Numbered, SingleRun, NEW m \in net, m.type \in {"Ack", "CloseSequenceResponse"},
         NEW acked \in Acknowledged(m.nos), NEW b \in acked
  PROVE  b \in submitted /\ (b.kind = "signal" \/ b \in delivered)
<1>1. b \in submitted /\ b.no \in completed[m.seq] /\ m.seq \in SeqIds
  BY AckedRows
<1>2. PICK c \in submitted : c.no = b.no /\ (EmptyBody(c) \/ c \in delivered)
  BY <1>1 DEF IndInv, RecordedWasDelivered
<1>3. b = c
  BY <1>1, <1>2, OneRun DEF SingleRun
<1>4. b.kind # "bodiless"
  BY <1>1, InHandFacts DEF IndInv, InHand, SingleRun
<1> QED
  BY <1>1, <1>2, <1>3, <1>4 DEF EmptyBody

LEMMA ReceiveConfirms ==
  ASSUME IndInv, Numbered, SingleRun, NEW m \in net, RMSReceive(m)
  PROVE  \/ UNCHANGED <<submitted, confirmed>>
         \/ \E batch \in SUBSET submitted :
              /\ batch \subseteq AppMsgs
              /\ \A b \in batch : b.kind = "signal" \/ b \in delivered
              /\ confirmed' = confirmed \cup batch
              /\ submitted' = submitted
<1>1. ASSUME m.type \in {"Ack", "CloseSequenceResponse"}, NEW acked \in Acknowledged(m.nos)
      PROVE  /\ acked \in SUBSET AppMsgs /\ acked \subseteq submitted
             /\ \A b \in acked : b.kind = "signal" \/ b \in delivered
  BY <1>1, AckedRows, AcknowledgedWasDelivered, InHandFacts
<1> QED
  BY <1>1, Confirms

-----------------------------------------------------------------------------
(***************************************************************************)
(* Every step of OneWay is, on the three histories, a step of              *)
(* ReliableDelivery or invisible.                                          *)
(***************************************************************************)
HistoryVars == <<submitted, delivered, confirmed>>

LEMMA DeliveryInit == Init => Delivery!Init
  BY DEF Init, RMSInit, RMDInit, Delivery!Init

LEMMA DeliverySubmit ==
  ASSUME IndInv, IndInv', UNCHANGED rmdVars, NEW c \in Calls, ReadNumber(c)
  PROVE  \E b \in AppMsgs : Delivery!Submit(b)
<1>1. outbox'[c] \in AppMsgs /\ outbox'[c].call = c
  BY DEF IndInv, InHand, TypeOK, RMSTypeOK
<1>2. outbox'[c] \notin submitted
  <2>1. pc[c] \in Uncalled
    BY DEF ReadNumber, Uncalled
  <2>2. \A b \in submitted : pc[b.call] \notin Uncalled
    BY DEF IndInv, InHand
  <2> QED
    BY <1>1, <2>1, <2>2
<1>3. UNCHANGED <<delivered, confirmed>> /\ submitted' = submitted \cup {outbox'[c]}
  BY DEF ReadNumber, rmdVars
<1> QED
  BY <1>1, <1>2, <1>3 DEF Delivery!Submit

LEMMA DeliverySource ==
  ASSUME IndInv, IndInv', Numbered, SingleRun, SourceStep, UNCHANGED rmdVars
  PROVE  Delivery!Next \/ UNCHANGED HistoryVars
<1> USE DEF HistoryVars, rmdVars
<1>1. ASSUME NEW c \in Calls, ReadNumber(c) PROVE Delivery!Next
  BY <1>1, DeliverySubmit DEF Delivery!Next
<1>2. ASSUME NEW m \in net, RMSReceive(m) PROVE Delivery!Next \/ UNCHANGED HistoryVars
  <2>1. CASE UNCHANGED <<submitted, confirmed>>
    BY <2>1
  <2>2. ASSUME NEW batch \in SUBSET submitted, batch \subseteq AppMsgs,
               \A b \in batch : b.kind = "signal" \/ b \in delivered,
               confirmed' = confirmed \cup batch, submitted' = submitted
        PROVE  Delivery!Next
    <3>1. batch \cap {b \in AppMsgs : b.kind # "signal"} \subseteq delivered
      BY <2>2
    <3>2. Delivery!Confirm(batch)
      BY <2>2, <3>1 DEF Delivery!Confirm
    <3> QED
      BY <3>2 DEF Delivery!Next
  <2> QED
    BY <1>2, <2>1, <2>2, ReceiveConfirms
<1> QED
  BY <1>1, <1>2, SourceHistory DEF historyVars

LEMMA DeliveryDestination ==
  ASSUME IndInv, IndInv', NEW m \in net, RMDReceive(m), UNCHANGED rmsVars
  PROVE  Delivery!Next \/ UNCHANGED HistoryVars
<1> USE DEF HistoryVars
<1>1. UNCHANGED <<submitted, confirmed>>
  BY DEF rmsVars, historyVars
<1>2. CASE AcceptApp(m)
  <2>1. CASE EmptyBody(m.app)
    BY <1>1, <1>2, <2>1 DEF AcceptApp
  <2>2. CASE ~EmptyBody(m.app)
    <3>1. m.app \in submitted /\ m.app \in AppMsgs
      BY <1>2 DEF AcceptApp, IndInv, OnlySubmitted, AppsIn, TypeOK, RMSTypeOK
    <3>2. m.app.kind # "signal"
      BY <2>2 DEF EmptyBody
    <3>3. m.app \notin delivered /\ delivered' = delivered \cup {m.app}
      BY <1>2, <2>2 DEF AcceptApp, IndInv, DeliveredAtMostOnce
    <3>4. Delivery!Deliver(m.app)
      BY <1>1, <3>1, <3>2, <3>3 DEF Delivery!Deliver
    <3> QED
      BY <3>1, <3>4 DEF Delivery!Next
  <2> QED
    BY <2>1, <2>2
<1>3. CASE ~AcceptApp(m)
  BY <1>1, <1>3 DEF RMDReceive, ReceiveCreateSequence, DropDuplicate, RefuseClosed,
                    ReceiveCloseSequence, ReceiveTerminateSequence, rmdVars
<1> QED
  BY <1>2, <1>3

LEMMA DeliveryNext ==
  ASSUME IndInv, IndInv', Numbered, SingleRun, [Next]_vars
  PROVE  [Delivery!Next]_(Delivery!vars)
<1> SUFFICES Delivery!Next \/ UNCHANGED HistoryVars
  BY DEF Delivery!vars, HistoryVars
<1>1. CASE SourceStep /\ UNCHANGED rmdVars
  BY <1>1, DeliverySource
<1>2. CASE DestinationStep /\ UNCHANGED rmsVars
  BY <1>2, DeliveryDestination DEF DestinationStep
<1>3. ASSUME UNCHANGED <<rmsVars, rmdVars>> PROVE UNCHANGED HistoryVars
  BY <1>3 DEF rmsVars, rmdVars, historyVars, HistoryVars
<1> QED
  BY <1>1, <1>2, <1>3 DEF Next, vars

(***************************************************************************)
(* The refinement: for a client that numbers its messages in one thread, a *)
(* fresh key and an application that sends no empty bodies, two ends of    *)
(* Sandesha2 joined by a channel that loses, repeats and reorders are a    *)
(* reliable channel that may end early.                                    *)
(***************************************************************************)
THEOREM Implementation ==
  ASSUME OneNumbering, ~ReuseKey, ~Bodiless
  PROVE  Spec => ImplementsReliableDelivery
<1>1. Init => IndInv /\ SingleRun /\ Delivery!Init
  BY IndInit, SingleRunInit, DeliveryInit
<1>2. IndInv /\ SingleRun /\ [Next]_vars => IndInv' /\ SingleRun' /\ [Delivery!Next]_(Delivery!vars)
  BY IndNext, SingleRunNext, DeliveryNext DEF IndInv
<1> QED
  BY <1>1, <1>2, PTL DEF Spec, ImplementsReliableDelivery, Delivery!Spec

(***************************************************************************)
(* No acknowledged message is lost: where one thread numbers the messages, *)
(* a row leaves the sender table through an acknowledgement only after the *)
(* service was given its message.                                          *)
(***************************************************************************)
THEOREM NothingLost ==
  ASSUME OneNumbering, ~ReuseKey, ~Bodiless
  PROVE  Spec => []NoMessageLost
<1>1. Init => IndInv /\ SingleRun /\ NoMessageLost
  BY IndInit, SingleRunInit DEF Init, RMSInit, NoMessageLost
<1>2. IndInv /\ SingleRun /\ NoMessageLost /\ [Next]_vars
        => IndInv' /\ SingleRun' /\ NoMessageLost'
  <2> SUFFICES ASSUME IndInv, SingleRun, NoMessageLost, [Next]_vars
               PROVE  IndInv' /\ SingleRun' /\ NoMessageLost'
    OBVIOUS
  <2>1. IndInv' /\ SingleRun' /\ [Delivery!Next]_(Delivery!vars)
    BY IndNext, SingleRunNext, DeliveryNext DEF IndInv
  <2>2. confirmed \subseteq AppMsgs /\ submitted \subseteq AppMsgs
    BY DEF IndInv, TypeOK, RMSTypeOK
  <2>3. NoMessageLost'
    BY <2>1, <2>2 DEF NoMessageLost, Delivery!Next, Delivery!Submit, Delivery!Deliver,
                      Delivery!Confirm, Delivery!vars
  <2> QED
    BY <2>1, <2>3
<1> QED
  BY <1>1, <1>2, PTL DEF Spec

(***************************************************************************)
(* The final acknowledgement, for the version that has CloseSequence.  An  *)
(* empty body is recorded before the closed check, so nobody may send one. *)
(***************************************************************************)
Bodies == \A c \in Calls : ~EmptyBody(outbox[c])

LEMMA BodiesNext ==
  ASSUME ~Spec10, ~Bodiless, IndInv, Bodies, [Next]_vars
  PROVE  Bodies'
<1>1. CASE UNCHANGED rmsVars
  BY <1>1 DEF Bodies, rmsVars, threadVars
<1>2. CASE SourceStep
  BY <1>2, OutboxKinds DEF Bodies, EmptyBody, ChosenKinds
<1> QED
  BY <1>1, <1>2 DEF Next, vars

LEMMA ClosedKeeps ==
  ASSUME IndInv, Bodies, NEW m \in net, RMDReceive(m)
  PROVE  \A s \in closed : completed'[s] = completed[s]
<1> USE DEF rmdVars
<1>1. CASE AcceptApp(m)
  BY <1>1 DEF AcceptApp, IsClosed, IndInv, TypeOK, RMDTypeOK
<1>2. CASE RefuseClosed(m)
  <2>1. m.app \in submitted
    BY <1>2 DEF RefuseClosed, IndInv, OnlySubmitted, AppsIn
  <2>2. ~EmptyBody(m.app)
    BY <2>1, InHandFacts DEF IndInv, InHand, Bodies
  <2> QED
    BY <1>2, <2>2 DEF RefuseClosed
<1>3. CASE ReceiveCreateSequence(m) \/ DropDuplicate(m) \/ ReceiveCloseSequence(m)
             \/ ReceiveTerminateSequence(m)
  BY <1>3 DEF ReceiveCreateSequence, DropDuplicate, ReceiveCloseSequence, ReceiveTerminateSequence
<1> QED
  BY <1>1, <1>2, <1>3 DEF RMDReceive

(***************************************************************************)
(* What the RMD has recorded for a closed sequence changes no more,        *)
(* however late a message of it arrives.                                   *)
(***************************************************************************)
THEOREM FinalAck ==
  ASSUME ~Spec10, ~Bodiless
  PROVE  Spec => FinalAckIsFinal
<1>1. Init => IndInv /\ Bodies
  BY IndInit DEF Init, RMSInit, Bodies, EmptyBody
<1>2. IndInv /\ Bodies /\ [Next]_vars
        => IndInv' /\ Bodies' /\ [\A s \in closed : completed'[s] = completed[s]]_vars
  <2> SUFFICES ASSUME IndInv, Bodies, [Next]_vars
               PROVE  IndInv' /\ Bodies' /\ [\A s \in closed : completed'[s] = completed[s]]_vars
    OBVIOUS
  <2>1. IndInv' /\ Bodies'
    BY IndNext, BodiesNext
  <2>2. CASE UNCHANGED rmdVars
    BY <2>1, <2>2 DEF rmdVars
  <2>3. CASE DestinationStep
    BY <2>1, <2>3, ClosedKeeps DEF DestinationStep
  <2> QED
    BY <2>1, <2>2, <2>3 DEF Next, vars
<1> QED
  BY <1>1, <1>2, PTL DEF Spec, FinalAckIsFinal
=============================================================================
