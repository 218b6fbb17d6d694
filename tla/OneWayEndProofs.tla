---------------------------- MODULE OneWayEndProofs ----------------------------
(***************************************************************************)
(* The end of a sequence: the message marked as the last one is the        *)
(* highest, and a sequence is terminated only when everything submitted on *)
(* it is acknowledged.                                                     *)
(***************************************************************************)
EXTENDS OneWayProofs

(***************************************************************************)
(* No step gives a message that has an envelope another one.               *)
(***************************************************************************)
LEMMA EnvelopeKept ==
  ASSUME IndInv, [Next]_vars, NEW c \in Calls, envelope[c] \in SeqIds
  PROVE  envelope'[c] = envelope[c]
<1>1. CASE UNCHANGED rmsVars
  BY <1>1 DEF rmsVars, threadVars
<1>2. ASSUME NEW d \in Calls, FirstSend(d) PROVE envelope'[c] = envelope[c]
  <2>1. envelope[d] = NoSeq
    BY <1>2 DEF FirstSend, IndInv, OneEnvelope, Unsent
  <2> QED
    BY <1>2, <2>1, NoSeqAssumption, InHandFacts DEF FirstSend
<1>3. ASSUME NEW d \in Calls, ThreadStep(d), ~FirstSend(d), UNCHANGED rmdVars
      PROVE  envelope' = envelope
  BY <1>3, QuietThread DEF ReadNumber, Resend, QuietStep
<1>4. CASE SourceStep /\ UNCHANGED rmdVars
  BY <1>2, <1>3, <1>4, QuietWorker, QuietReceive, QuietProcess DEF SourceStep, Send, QuietStep
<1> QED
  BY <1>1, <1>4 DEF Next, vars
-----------------------------------------------------------------------------
(***************************************************************************)
(* Arrival, for one run of the process.  What the RMD has recorded stays   *)
(* recorded, so a message that has arrived stays so.                       *)
(***************************************************************************)
LEMMA RecordedGrows ==
  ASSUME IndInv, [Next]_vars, NEW s \in SeqIds
  PROVE  completed[s] \subseteq completed'[s]
<1>1. completed \in [SeqIds -> SUBSET Nos]
  BY DEF IndInv, TypeOK, RMDTypeOK
<1>2. CASE UNCHANGED rmdVars
  BY <1>2 DEF rmdVars
<1>3. ASSUME NEW m \in net, RMDReceive(m) PROVE completed[s] \subseteq completed'[s]
  BY <1>1, <1>3 DEF RMDReceive, ReceiveCreateSequence, DropDuplicate, RefuseClosed, AcceptApp,
                    ReceiveCloseSequence, ReceiveTerminateSequence, rmdVars
<1> QED
  BY <1>2, <1>3 DEF Next, vars, DestinationStep

LEMMA HasArrivedKept ==
  ASSUME IndInv, [Next]_vars, NEW b \in submitted, HasArrived(b)
  PROVE  HasArrived(b)'
<1>1. b.call \in Calls
  BY InHandFacts
<1> QED
  BY <1>1, EnvelopeKept, RecordedGrows DEF HasArrived

(***************************************************************************)
(* A number is recorded only for a message that came on that sequence.     *)
(***************************************************************************)
LEMMA RecordedNext ==
  ASSUME IndInv, [Next]_vars, RecordedHasArrived
  PROVE  RecordedHasArrived'
<1> SUFFICES ASSUME NEW s \in SeqIds, NEW n \in completed'[s]
             PROVE  \E b \in submitted' : b.no = n /\ envelope'[b.call] = s
  BY DEF RecordedHasArrived
<1>1. ASSUME NEW b \in submitted, b.no = n, envelope[b.call] = s
      PROVE  \E x \in submitted' : x.no = n /\ envelope'[x.call] = s
  <2>1. envelope'[b.call] = s
    BY <1>1, EnvelopeKept, InHandFacts
  <2> QED
    BY <1>1, <2>1, SubmittedGrows
<1>2. CASE n \in completed[s]
  BY <1>1, <1>2 DEF RecordedHasArrived
<1>3. CASE n \notin completed[s]
  <2>1. PICK m \in net : RMDReceive(m) /\ UNCHANGED rmsVars
    BY <1>3 DEF Next, vars, DestinationStep, rmdVars
  <2>2. completed \in [SeqIds -> SUBSET Nos]
    BY DEF IndInv, TypeOK, RMDTypeOK
  <2>3. m.type = "App" /\ completed' \in {completed, [completed EXCEPT ![m.seq] = @ \cup {m.app.no}]}
    BY <1>3, <2>1 DEF RMDReceive, ReceiveCreateSequence, DropDuplicate, RefuseClosed, AcceptApp,
                ReceiveCloseSequence, ReceiveTerminateSequence, rmdVars
  <2>4. m \in AppsIn(net) /\ m.seq = s /\ m.app.no = n
    BY <1>3, <2>2, <2>3 DEF AppsIn
  <2>5. m.app \in submitted /\ envelope[m.app.call] = s
    BY <2>4 DEF IndInv, OnlySubmitted, OneEnvelope
  <2> QED
    BY <1>1, <2>4, <2>5
<1> QED
  BY <1>2, <1>3

(***************************************************************************)
(* A row that an acknowledgement removes is the row of a message that has  *)
(* arrived: there is one numbering period, so a number is one message.     *)
(***************************************************************************)
LEMMA AcknowledgedHasArrived ==
  ASSUME IndInv, Numbered, ArrivalInv, NEW m \in net,
         m.type \in {"Ack", "CloseSequenceResponse"}, NEW acked \in Acknowledged(m.nos),
         NEW b \in acked
  PROVE  b \in submitted /\ HasArrived(b)
<1>1. b \in submitted /\ b.no \in completed[m.seq] /\ m.seq \in SeqIds
  BY AckedRows
<1>2. PICK c \in submitted : c.no = b.no /\ envelope[c.call] = m.seq
  BY <1>1 DEF ArrivalInv, RecordedHasArrived
<1>3. b = c
  BY <1>1, <1>2, OneRun DEF ArrivalInv
<1> QED
  BY <1>1, <1>2, <1>3 DEF HasArrived

LEMMA ConfirmedNext ==
  ASSUME IndInv, Numbered, [Next]_vars, ArrivalInv
  PROVE  ConfirmedHasArrived'
<1>1. \A b \in confirmed : HasArrived(b)'
  BY HasArrivedKept, InHandFacts DEF ArrivalInv, ConfirmedHasArrived
<1>2. ASSUME UNCHANGED confirmed PROVE ConfirmedHasArrived'
  BY <1>1, <1>2 DEF ConfirmedHasArrived
<1>3. ASSUME NEW m \in net, RMSReceive(m) PROVE ConfirmedHasArrived'
  <2>1. ASSUME m.type \in {"Ack", "CloseSequenceResponse"}, NEW acked \in Acknowledged(m.nos),
               NEW b \in acked
        PROVE  HasArrived(b)'
    BY <2>1, AcknowledgedHasArrived, HasArrivedKept
  <2> QED
    BY <1>1, <1>2, <1>3, <2>1, Confirms DEF ConfirmedHasArrived
<1>4. CASE SourceStep
  BY <1>2, <1>3, <1>4, SourceHistory DEF historyVars, ReadNumber
<1>5. CASE UNCHANGED rmsVars
  BY <1>2, <1>5 DEF rmsVars, historyVars
<1> QED
  BY <1>4, <1>5 DEF Next, vars
(***************************************************************************)
(* A thread leaves its message when its row is gone.                       *)
(***************************************************************************)
LEMMA LeftCall ==
  ASSUME IndInv, IndInv', ArrivalInv, NEW c \in Calls,
         (\E kind \in ChosenKinds : Send(c, kind)) \/ ReadNumber(c)
  PROVE  LeftWhenConfirmed'
<1>1. /\ UNCHANGED <<beans, confirmed, up, timedOut>>
      /\ \A b \in submitted : b.call # c /\ b.call \in Calls
      /\ \A d \in Calls \ {c} : pc'[d] = pc[d]
      /\ \/ submitted' = submitted
         \/ submitted' = submitted \cup {outbox'[c]} /\ pc'[c] = "counted"
      /\ outbox'[c].call = c
  <2>1. pc[c] \in Uncalled
    BY DEF Send, ReadNumber, Uncalled
  <2> QED
    BY <2>1, InHandFacts DEF Send, ReadNumber, IndInv, InHand, Goto, storeVars, historyVars,
                             processVars
<1> SUFFICES ASSUME up, ~timedOut, NEW b \in submitted'
             PROVE  /\ pc'[b.call] \in Active \cup {"done"}
                    /\ pc'[b.call] \in Stored => b \in beans \cup confirmed
                    /\ pc'[b.call] = "done" => b \in confirmed
  BY <1>1 DEF LeftWhenConfirmed
<1>2. CASE b \in submitted
  BY <1>1, <1>2 DEF ArrivalInv, LeftWhenConfirmed
<1>3. CASE b \notin submitted
  BY <1>1, <1>3 DEF Active, Stored, Sending
<1> QED
  BY <1>2, <1>3

LEMMA LeftThread ==
  ASSUME IndInv, ArrivalInv, ~BadResponses, NEW c \in Calls, ThreadStep(c), ~ReadNumber(c)
  PROVE  LeftWhenConfirmed'
<1>1. CASE timedOut'
  BY <1>1 DEF LeftWhenConfirmed
<1>2. CASE ~timedOut'
  <2>1. /\ UNCHANGED <<submitted, confirmed, outbox, up>> /\ ~timedOut
        /\ pc[c] \in Active
        /\ \A d \in Calls \ {c} : pc'[d] = pc[d]
        /\ beans \subseteq beans'
    BY <1>2, InHandFacts
    DEF ThreadStep, NumberRefused, WriteNumber, LookForCreate, AskForSequence, InlineLookUp,
        InlineCreateResend, InlineCreateTimesOut, StoreMessage, StoreTimesOut, FirstSend, LookUp,
        CountAttempt, TimesOut, Resend, TimeOutSequence, Goto, Active, storeVars, processVars,
        historyVars
  <2>2. /\ pc'[c] \in Active \cup {"done"} \/ pc[c] = "called"
        /\ pc'[c] \in Stored => pc[c] \in Stored \/ outbox[c] \in beans'
        /\ pc'[c] = "done" => outbox[c] \notin beans /\ pc[c] \in Stored
    BY <1>2, InHandFacts
    DEF ThreadStep, NumberRefused, WriteNumber, LookForCreate, AskForSequence, InlineLookUp,
        InlineCreateResend, InlineCreateTimesOut, StoreMessage, StoreTimesOut, FirstSend, LookUp,
        CountAttempt, TimesOut, Resend, TimeOutSequence, Goto, Active, Stored, Sending
  <2> SUFFICES ASSUME up, NEW b \in submitted
               PROVE  /\ pc'[b.call] \in Active \cup {"done"}
                      /\ pc'[b.call] \in Stored => b \in beans' \cup confirmed
                      /\ pc'[b.call] = "done" => b \in confirmed
    BY <2>1 DEF LeftWhenConfirmed
  <2>3. /\ outbox[b.call] = b /\ pc[b.call] # "called"
        /\ pc[b.call] \in Active \cup {"done"}
        /\ pc[b.call] \in Stored => b \in beans \cup confirmed
        /\ pc[b.call] = "done" => b \in confirmed
        /\ b.call \in Calls
    BY <2>1, InHandFacts DEF ArrivalInv, LeftWhenConfirmed, IndInv, InHand, Uncalled
  <2>4. CASE b.call = c
    BY <2>1, <2>2, <2>3, <2>4
  <2>5. CASE b.call # c
    BY <2>1, <2>3, <2>5
  <2> QED
    BY <2>4, <2>5
<1> QED
  BY <1>1, <1>2

LEMMA ArrivalNext ==
  ASSUME ~ReuseKey, ~BadResponses, IndInv, IndInv', Numbered, ArrivalInv, [Next]_vars
  PROVE  ArrivalInv'
<1> USE DEF storeVars, threadVars, processVars, historyVars
<1>1. RecordedHasArrived' /\ ConfirmedHasArrived'
  BY RecordedNext, ConfirmedNext DEF ArrivalInv
<1>2. ASSUME UNCHANGED <<submitted, outbox, pc, run>>,
             beans \cup confirmed \subseteq beans' \cup confirmed', confirmed \subseteq confirmed',
             up' = up, timedOut' = timedOut
      PROVE  ArrivalInv'
  BY <1>1, <1>2 DEF ArrivalInv, LeftWhenConfirmed
<1>3. ASSUME NEW c \in Calls, NEW kind \in ChosenKinds, Send(c, kind) PROVE ArrivalInv'
  BY <1>1, <1>3, LeftCall DEF Send, ArrivalInv
<1>4. ASSUME NEW c \in Calls, ThreadStep(c) PROVE ArrivalInv'
  <2>1. run' = run
    BY <1>4
    DEF ThreadStep, ReadNumber, NumberRefused, WriteNumber, LookForCreate, AskForSequence,
        InlineLookUp, InlineCreateResend, InlineCreateTimesOut, StoreMessage, StoreTimesOut,
        FirstSend, LookUp, CountAttempt, TimesOut, Resend
  <2> QED
    BY <1>1, <1>4, <2>1, LeftThread, LeftCall DEF ArrivalInv
<1>5. ASSUME NEW c \in Calls, WorkerStep(c) PROVE ArrivalInv'
  BY <1>1, <1>2, <1>5
  DEF WorkerStep, WorkerLookUp, WorkerResend, WorkerTimesOut, TimeOutSequence, ArrivalInv,
      LeftWhenConfirmed
<1>6. ASSUME NEW m \in net, RMSReceive(m) PROVE ArrivalInv'
  BY <1>2, <1>6
  DEF RMSReceive, ReceiveCreateSequenceResponse, ReceiveAck, ReceiveCloseSequenceResponse,
      Acknowledge
<1>7. ASSUME Close \/ Halt \/ Crash \/ Restart PROVE ArrivalInv'
  <2>1. CASE Close
    BY <1>2, <2>1 DEF Close
  <2>2. CASE Halt \/ Crash
    BY <1>1, <2>2 DEF Halt, Crash, KillThreads, ArrivalInv, LeftWhenConfirmed
  <2> QED
    BY <1>7, <2>1, <2>2 DEF Restart
<1>8. CASE SourceStep
  BY <1>3, <1>4, <1>5, <1>6, <1>7, <1>8 DEF SourceStep
<1>9. CASE UNCHANGED rmsVars
  BY <1>2, <1>9 DEF rmsVars
<1> QED
  BY <1>8, <1>9 DEF Next, vars

LEMMA ArrivalInit == Init => ArrivalInv
  BY DEF Init, RMSInit, RMDInit, ArrivalInv, RecordedHasArrived, ConfirmedHasArrived,
         LeftWhenConfirmed
-----------------------------------------------------------------------------
(***************************************************************************)
(* The last message, RM 1.0.  When it is announced every other one has     *)
(* arrived: the one sending thread is idle, and left each of them only     *)
(* when it was confirmed.                                                  *)
(***************************************************************************)
LEMMA LastRead ==
  ASSUME IndInv, OneNumbering, ArrivalInv, [Next]_vars, AllArrivedAtLast, LastFinishes,
         NEW c \in Calls, ReadNumber(c)
  PROVE  AllArrivedAtLast'
<1> DEFINE new == outbox'[c]
<1>1. /\ Numbered /\ pc[c] = "called" /\ outbox[c].call = c /\ up /\ ~timedOut
      /\ \A d \in Calls : d # c => pc[d] \notin Active
      /\ \A b \in submitted : b.call # c /\ b.call \in Calls /\ outbox[b.call] = b
                              /\ b.no \in Nat /\ pc[b.call] # "idle"
  <2>1. pc[c] = "called" /\ pc[c] \in Active /\ pc[c] \notin Sending /\ pc[c] \in Uncalled
    BY DEF ReadNumber, Active, Sending, Uncalled
  <2> QED
    BY <2>1, InHandFacts DEF IndInv, Numbered, OneThread, InHand, Uncalled
<1>2. PICK n \in Nos : NextNumber(n) /\ outbox' = [outbox EXCEPT ![c].no = n]
  BY DEF ReadNumber
<1>3. /\ new.no = n /\ new.kind = outbox[c].kind /\ submitted' = submitted \cup {new}
      /\ n \in Nat /\ n > prevNo
  BY <1>2, InHandFacts, BoundsAssumption DEF ReadNumber, AppMsgs, NextNumber, Nos
<1> HIDE DEF new
<1>4. ASSUME NEW b \in submitted PROVE b.no <= n /\ HasArrived(b)'
  <2>1. b.run = run
    BY InHandFacts DEF ArrivalInv, IndInv, Numbered, NumbersUsed, TypeOK, RMSTypeOK, AppMsgs, Runs,
                       OneNumbering
  <2>2. pc[b.call] = "done"
    BY <1>1 DEF ArrivalInv, LeftWhenConfirmed
  <2>3. b.no <= prevNo
    BY <1>1, <2>1, <2>2 DEF Numbered, NumbersUsed
  <2>4. HasArrived(b)
    BY <1>1, <2>2 DEF ArrivalInv, LeftWhenConfirmed, ConfirmedHasArrived
  <2> QED
    BY <1>1, <1>3, <2>3, <2>4, HasArrivedKept, InHandFacts
<1>5. \A b \in submitted : ~LastIndicator(b)
  BY <1>1 DEF LastFinishes
<1> QED
  BY <1>3, <1>4, <1>5 DEF AllArrivedAtLast

LEMMA LastSubmittedNext ==
  ASSUME OneNumbering, IndInv, ArrivalInv, [Next]_vars, AllArrivedAtLast, LastFinishes
  PROVE  AllArrivedAtLast'
<1>1. ASSUME submitted' = submitted PROVE AllArrivedAtLast'
  BY <1>1, HasArrivedKept DEF AllArrivedAtLast
<1>2. ASSUME NEW c \in Calls, ReadNumber(c) PROVE AllArrivedAtLast'
  BY <1>2, LastRead
<1>3. CASE SourceStep
  BY <1>1, <1>2, <1>3, SourceHistory, Confirms DEF historyVars
<1>4. CASE UNCHANGED rmsVars
  BY <1>1, <1>4 DEF rmsVars, historyVars
<1> QED
  BY <1>3, <1>4 DEF Next, vars

LEMMA LastFinishesNext ==
  ASSUME OneNumbering, ~ReuseKey, IndInv, [Next]_vars, LastFinishes
  PROVE  LastFinishes'
<1> USE DEF storeVars, threadVars, processVars, historyVars
<1>1. ASSUME \A c \in Calls : /\ outbox'[c].kind = outbox[c].kind
                              /\ pc'[c] = "idle" <=> pc[c] = "idle"
                              /\ pc'[c] = "called" => pc[c] = "called",
             finished => finished'
      PROVE  LastFinishes'
  BY <1>1 DEF LastFinishes, LastIndicator
<1>2. ASSUME NEW c \in Calls, NEW kind \in ChosenKinds, Send(c, kind) PROVE LastFinishes'
  <2>1. /\ ~finished /\ finished' = LastIndicator(outbox'[c])
        /\ \A d \in Calls \ {c} : outbox'[d] = outbox[d] /\ pc'[d] = pc[d] /\ pc[d] \notin Active
    BY <1>2, InHandFacts DEF Send, OneNumbering, NothingSending, Goto, Idle, Active
  <2>2. \A d \in Calls \ {c} : pc'[d] # "called"
    BY <2>1 DEF Active
  <2> QED
    BY <2>1, <2>2 DEF LastFinishes
<1>3. ASSUME NEW c \in Calls, ReadNumber(c) PROVE LastFinishes'
  <2>1. PICK n \in Nos : outbox' = [outbox EXCEPT ![c].no = n]
    BY <1>3 DEF ReadNumber
  <2>2. \A d \in Calls : outbox'[d].kind = outbox[d].kind
    BY <2>1, InHandFacts DEF AppMsgs
  <2>3. \A d \in Calls : /\ pc'[d] = "idle" <=> pc[d] = "idle"
                         /\ pc'[d] = "called" => pc[d] = "called"
    BY <1>3, InHandFacts DEF ReadNumber, Goto
  <2> QED
    BY <1>1, <1>3, <2>2, <2>3 DEF ReadNumber
<1>4. ASSUME NEW c \in Calls, ThreadStep(c), ~ReadNumber(c) PROVE LastFinishes'
  <2>1. UNCHANGED <<outbox, finished>>
    BY <1>4
    DEF ThreadStep, NumberRefused, WriteNumber, LookForCreate, AskForSequence, InlineLookUp,
        InlineCreateResend, InlineCreateTimesOut, StoreMessage, StoreTimesOut, FirstSend, LookUp,
        CountAttempt, TimesOut, Resend
  <2>2. /\ pc[c] # "idle" /\ pc'[c] \notin {"idle", "called"}
        /\ \A d \in Calls \ {c} : pc'[d] = pc[d]
    BY <1>4, InHandFacts
    DEF ThreadStep, NumberRefused, WriteNumber, LookForCreate, AskForSequence, InlineLookUp,
        InlineCreateResend, InlineCreateTimesOut, StoreMessage, StoreTimesOut, FirstSend, LookUp,
        CountAttempt, TimesOut, Resend, Goto
  <2> QED
    BY <1>1, <2>1, <2>2
<1>5. ASSUME NEW c \in Calls, WorkerStep(c) PROVE LastFinishes'
  BY <1>1, <1>5 DEF WorkerStep, WorkerLookUp, WorkerResend, WorkerTimesOut
<1>6. ASSUME NEW m \in net, RMSReceive(m) PROVE LastFinishes'
  BY <1>1, <1>6 DEF RMSReceive, ReceiveCreateSequenceResponse, ReceiveAck,
                    ReceiveCloseSequenceResponse
<1>7. ASSUME Close PROVE LastFinishes'
  BY <1>1, <1>7 DEF Close
<1>8. ASSUME Halt \/ Crash PROVE LastFinishes'
  <2>1. KillThreads
    BY <1>8 DEF Halt, Crash
  <2>2. \A c \in Calls : /\ pc'[c] = "idle" <=> pc[c] = "idle"
                         /\ pc'[c] = "called" => pc[c] = "called"
    BY <2>1, InHandFacts DEF KillThreads, Active
  <2> QED
    BY <1>1, <2>1, <2>2 DEF KillThreads
<1>9. ~Restart
  BY DEF Restart
<1>10. CASE UNCHANGED rmsVars
  BY <1>1, <1>10 DEF rmsVars
<1> QED
  BY <1>2, <1>3, <1>4, <1>5, <1>6, <1>7, <1>8, <1>9, <1>10 DEF Next, vars, SourceStep

LEMMA LastSentKept == [Next]_vars /\ LastSent => LastSent'
  BY SubmittedGrows DEF LastSent

(***************************************************************************)
(* What each end puts on the wire, as far as the end of a sequence goes.   *)
(***************************************************************************)
LEMMA SourceSends ==
  ASSUME SourceStep, NEW m \in net', m \notin net
  PROVE  \/ m.type \in {"App", "CreateSequence"}
         \/ m.type = "CloseSequence" /\ Close
         \/ /\ m.type = "TerminateSequence"
            /\ \E a \in net :
                 /\ m.seq = a.seq
                 /\ (ReceiveAck(a) /\ LastAnnounced) \/ ReceiveCloseSequenceResponse(a)
<1>1. ASSUME NEW c \in Calls, NEW kind \in ChosenKinds, Send(c, kind) PROVE FALSE
  BY <1>1 DEF Send
<1>2. ASSUME NEW c \in Calls, ThreadStep(c) PROVE m.type \in {"App", "CreateSequence"}
  <2>1. CASE InlineCreateResend(c)
    BY <2>1 DEF InlineCreateResend, Put, CreateSequence
  <2>2. CASE FirstSend(c)
    BY <2>2 DEF FirstSend, Put, App
  <2>3. CASE Resend(c)
    BY <2>3 DEF Resend, Put, App
  <2>4. CASE AskForSequence(c)
    BY <2>4 DEF AskForSequence, Put, CreateSequence
  <2> QED
    BY <1>2, <2>1, <2>2, <2>3, <2>4
    DEF ThreadStep, ReadNumber, NumberRefused, WriteNumber, LookForCreate, InlineLookUp,
        InlineCreateTimesOut, StoreMessage, StoreTimesOut, LookUp, CountAttempt, TimesOut
<1>3. ASSUME NEW c \in Calls, WorkerStep(c) PROVE m.type = "CreateSequence"
  BY <1>3 DEF WorkerStep, WorkerLookUp, WorkerResend, WorkerTimesOut, Put, CreateSequence
<1>4. ASSUME NEW a \in net, RMSReceive(a)
      PROVE  /\ m.type = "TerminateSequence" /\ m.seq = a.seq
             /\ (ReceiveAck(a) /\ LastAnnounced) \/ ReceiveCloseSequenceResponse(a)
  <2>1. ReceiveAck(a) \/ ReceiveCloseSequenceResponse(a)
    BY <1>4 DEF RMSReceive, ReceiveCreateSequenceResponse
  <2> QED
    BY <2>1 DEF ReceiveAck, ReceiveCloseSequenceResponse, Put, TerminateSequence
<1>5. ASSUME Close \/ Halt \/ Crash \/ Restart PROVE m.type = "CloseSequence" /\ Close
  BY <1>5 DEF Close, Halt, Crash, Restart, Put, CloseSequence
<1> QED
  BY <1>1, <1>2, <1>3, <1>4, <1>5 DEF SourceStep

LEMMA DestinationSends ==
  ASSUME NEW a \in net, RMDReceive(a), NEW m \in net', m \notin net
  PROVE  \/ m.type \in {"CreateSequenceResponse", "Ack", "SequenceClosed", "TerminateSequenceResponse"}
         \/ m.type = "CloseSequenceResponse" /\ m.seq = a.seq /\ ReceiveCloseSequence(a)
<1>1. CASE ReceiveCreateSequence(a)
  BY <1>1 DEF ReceiveCreateSequence, Put, CreateSequenceResponse
<1>2. CASE DropDuplicate(a) \/ RefuseClosed(a) \/ AcceptApp(a)
  BY <1>2 DEF DropDuplicate, RefuseClosed, AcceptApp, Put, AckOf, Ack, SequenceClosedFault
<1>3. CASE ReceiveCloseSequence(a)
  BY <1>3 DEF ReceiveCloseSequence, Put, CloseSequenceResponse
<1>4. CASE ReceiveTerminateSequence(a)
  BY <1>4 DEF ReceiveTerminateSequence, Put, TerminateSequenceResponse
<1> QED
  BY <1>1, <1>2, <1>3, <1>4 DEF RMDReceive

LEMMA LastOutNoKept ==
  ASSUME SourceStep
  PROVE  (\E c \in Calls : StoreMessage(c)) \/ lastOutNo' \in {lastOutNo, 0}
<1> USE DEF storeVars
<1>1. ASSUME NEW c \in Calls, ThreadStep(c), ~StoreMessage(c) PROVE lastOutNo' \in {lastOutNo, 0}
  BY <1>1
  DEF ThreadStep, ReadNumber, NumberRefused, WriteNumber, LookForCreate, AskForSequence,
      InlineLookUp, InlineCreateResend, InlineCreateTimesOut, StoreTimesOut, FirstSend, LookUp,
      CountAttempt, TimesOut, Resend, TimeOutSequence
<1>2. ASSUME NEW c \in Calls, WorkerStep(c) PROVE lastOutNo' \in {lastOutNo, 0}
  BY <1>2 DEF WorkerStep, WorkerLookUp, WorkerResend, WorkerTimesOut, TimeOutSequence
<1>3. ASSUME NEW m \in net, RMSReceive(m) PROVE lastOutNo' = lastOutNo
  BY <1>3 DEF RMSReceive, ReceiveCreateSequenceResponse, ReceiveAck, ReceiveCloseSequenceResponse
<1>4. ASSUME Close \/ Halt \/ Crash \/ Restart PROVE lastOutNo' = lastOutNo
  BY <1>4 DEF Close, Halt, Crash, Restart
<1>5. ASSUME NEW c \in Calls, NEW kind \in ChosenKinds, Send(c, kind) PROVE lastOutNo' = lastOutNo
  BY <1>5 DEF Send
<1> QED
  BY <1>1, <1>2, <1>3, <1>4, <1>5 DEF SourceStep

LEMMA LastSourceNext ==
  ASSUME Spec10, IndInv, AfterLast, [Next]_vars, SourceStep, UNCHANGED rmdVars,
         AllArrivedAtLast', LastFinishes'
  PROVE  AfterLast' /\ (LastInIsHighest => LastInIsHighest')
<1> USE DEF storeVars, threadVars, processVars, historyVars, rmdVars
<1>1. submitted \subseteq submitted'
  BY SubmittedGrows
<1>2. lastOutNo' > 0 => LastSent'
  <2>1. ASSUME NEW c \in Calls, StoreMessage(c) PROVE lastOutNo' > 0 => LastSent'
    BY <1>1, <2>1 DEF StoreMessage, IndInv, InHand, Unsent, AfterLast, LastSent
  <2>2. (\E c \in Calls : StoreMessage(c)) \/ lastOutNo' \in {lastOutNo, 0}
    BY LastOutNoKept
  <2> QED
    BY <2>1, <2>2, LastSentKept DEF AfterLast
<1>3. \A m \in net' : /\ m.type = "TerminateSequence" => LastSent'
                      /\ m.type \notin {"CloseSequence", "CloseSequenceResponse"}
  <2> SUFFICES ASSUME NEW m \in net'
               PROVE  /\ m.type = "TerminateSequence" => LastSent'
                      /\ m.type \notin {"CloseSequence", "CloseSequenceResponse"}
    OBVIOUS
  <2>1. CASE m \in net
    BY <2>1, LastSentKept DEF AfterLast
  <2>2. CASE m \notin net
    <3>1. ~Close
      BY DEF Close
    <3>2. \A a \in net : ~ReceiveCloseSequenceResponse(a)
      BY DEF ReceiveCloseSequenceResponse, AfterLast
    <3> QED
      BY <2>2, <3>1, <3>2, SourceSends, LastSentKept DEF AfterLast, LastAnnounced
  <2> QED
    BY <2>1, <2>2
<1>4. \A s \in SeqIds : /\ lastIn'[s] # 0 => LastSent'
                        /\ highestIn'[s] # 0 => \E b \in submitted' : b.no = highestIn'[s]
  BY <1>1, LastSentKept DEF AfterLast
<1> QED
  BY <1>2, <1>3, <1>4 DEF AfterLast, LastInIsHighest

(***************************************************************************)
(* Once the last message is announced only it can still be recorded, and   *)
(* no number is higher.                                                    *)
(***************************************************************************)
LEMMA LastAccept ==
  ASSUME IndInv, AfterLast, LastInIsHighest, NEW m \in net, AcceptApp(m)
  PROVE  /\ LastInIsHighest'
         /\ \A s \in SeqIds : /\ lastIn'[s] # 0 => LastSent
                              /\ highestIn'[s] # 0 => \E b \in submitted : b.no = highestIn'[s]
<1>1. /\ m.type = "App" /\ m.app.no \notin completed[m.seq]
      /\ m.seq \in SeqIds /\ m.app \in submitted /\ m \in AppsIn(net)
  BY MessageFields DEF AcceptApp, AlreadyReceived, IndInv, TypeOK, OnlySubmitted, AppsIn
<1>2. /\ highestIn \in [SeqIds -> Nat] /\ lastIn \in [SeqIds -> Nat]
      /\ \A b \in submitted : b.no \in Nat /\ b.no > 0
  <2>1. \A b \in AppMsgs : b.no \in Nat /\ b.no > 0
    BY BoundsAssumption DEF AppMsgs, Nos
  <2> QED
    BY <2>1, BoundsAssumption DEF IndInv, TypeOK, RMSTypeOK, RMDTypeOK
<1>3. /\ \A s \in SeqIds \ {m.seq} : lastIn'[s] = lastIn[s] /\ highestIn'[s] = highestIn[s]
      /\ highestIn'[m.seq] = HighestWith(highestIn[m.seq], m.app.no)
      /\ lastIn'[m.seq] = IF LastIndicator(m.app) THEN m.app.no ELSE lastIn[m.seq]
  BY <1>1, <1>2 DEF AcceptApp
<1>4. \A s \in SeqIds : /\ lastIn'[s] # 0 => LastSent
                        /\ highestIn'[s] # 0 => \E b \in submitted : b.no = highestIn'[s]
  BY <1>1, <1>3 DEF AfterLast, LastSent, HighestWith
<1>5. CASE LastSent
  <2>1. PICK b \in submitted : LastIndicator(b)
    BY <1>5 DEF LastSent
  <2>2. ~HasArrived(m.app)
    <3>1. m.seq = envelope[m.app.call]
      BY <1>1 DEF IndInv, OneEnvelope
    <3> QED
      BY <1>1, <3>1 DEF HasArrived
  <2>3. m.app = b
    BY <1>1, <2>1, <2>2 DEF AfterLast, AllArrivedAtLast
  <2>4. highestIn[m.seq] <= b.no
    <3>1. CASE highestIn[m.seq] = 0
      BY <1>2, <2>1, <3>1
    <3>2. CASE highestIn[m.seq] # 0
      <4>1. PICK c \in submitted : c.no = highestIn[m.seq]
        BY <1>1, <3>2 DEF AfterLast
      <4> QED
        BY <2>1, <4>1 DEF AfterLast, AllArrivedAtLast
    <3> QED
      BY <3>1, <3>2
  <2>5. highestIn'[m.seq] = b.no /\ lastIn'[m.seq] = b.no
    BY <1>1, <1>2, <1>3, <2>1, <2>3, <2>4 DEF HighestWith
  <2> QED
    BY <1>3, <1>4, <2>5 DEF LastInIsHighest
<1>6. CASE ~LastSent
  BY <1>1, <1>3, <1>4, <1>6 DEF LastInIsHighest, LastSent
<1> QED
  BY <1>4, <1>5, <1>6

LEMMA LastDestinationNext ==
  ASSUME Spec10, IndInv, AfterLast, LastInIsHighest, NEW m \in net, RMDReceive(m),
         UNCHANGED rmsVars, AllArrivedAtLast', LastFinishes'
  PROVE  AfterLast' /\ LastInIsHighest'
<1>1. UNCHANGED <<submitted, outbox, lastOutNo>>
  BY DEF rmsVars, storeVars, threadVars, historyVars
<1>2. \A a \in net' : /\ a.type = "TerminateSequence" => LastSent
                      /\ a.type \notin {"CloseSequence", "CloseSequenceResponse"}
  BY DestinationSends DEF ReceiveCloseSequence, AfterLast
<1>3. ASSUME LastInIsHighest',
             \A s \in SeqIds : /\ lastIn'[s] # 0 => LastSent
                               /\ highestIn'[s] # 0 => \E b \in submitted : b.no = highestIn'[s]
      PROVE  AfterLast' /\ LastInIsHighest'
  <2>1. LastSent' <=> LastSent
    BY <1>1 DEF LastSent
  <2> QED
    BY <1>1, <1>2, <1>3, <2>1 DEF AfterLast
<1>4. CASE AcceptApp(m)
  BY <1>3, <1>4, LastAccept
<1>5. CASE ReceiveTerminateSequence(m)
  <2>1. LastSent /\ m.seq \in SeqIds
    BY <1>5, MessageFields DEF ReceiveTerminateSequence, AfterLast, IndInv, TypeOK
  <2>2. lastIn \in [SeqIds -> 0 .. MaxMsg]
    BY DEF IndInv, TypeOK, RMDTypeOK
  <2>3. highestIn' = highestIn
    BY <1>5 DEF ReceiveTerminateSequence
  <2>4. \A s \in SeqIds : lastIn'[s] \in {lastIn[s], highestIn[s]}
    BY <1>5, <2>1, <2>2 DEF ReceiveTerminateSequence, AsLast
  <2> QED
    BY <1>3, <2>1, <2>3, <2>4 DEF AfterLast, LastInIsHighest
<1>6. CASE ReceiveCreateSequence(m) \/ DropDuplicate(m) \/ RefuseClosed(m) \/ ReceiveCloseSequence(m)
  <2>1. UNCHANGED <<lastIn, highestIn>>
    BY <1>6 DEF ReceiveCreateSequence, DropDuplicate, RefuseClosed, ReceiveCloseSequence, rmdVars
  <2> QED
    BY <1>3, <2>1 DEF AfterLast, LastInIsHighest
<1> QED
  BY <1>4, <1>5, <1>6 DEF RMDReceive
-----------------------------------------------------------------------------
(***************************************************************************)
(* The last message, RM 1.1: only a closed sequence is terminated, and a   *)
(* closed sequence accepts nothing.                                        *)
(***************************************************************************)
LEMMA CloseSourceNext ==
  ASSUME ~Spec10, IndInv, AfterClose, SourceStep, UNCHANGED rmdVars
  PROVE  AfterClose'
<1>1. lastOutNo' = 0
  <2>1. ASSUME NEW c \in Calls, StoreMessage(c) PROVE lastOutNo' = 0
    BY <2>1 DEF StoreMessage, AfterClose
  <2>2. (\E c \in Calls : StoreMessage(c)) \/ lastOutNo' \in {lastOutNo, 0}
    BY LastOutNoKept
  <2> QED
    BY <2>1, <2>2 DEF AfterClose
<1>2. \A c \in Calls : ~LastIndicator(outbox'[c])
  BY OutboxKinds DEF ChosenKinds, LastIndicator, AfterClose
<1>3. ASSUME NEW m \in net', m.type \in {"CloseSequenceResponse", "TerminateSequence"}
      PROVE  m.seq \in closed
  <2>1. CASE m \in net
    BY <1>3, <2>1 DEF AfterClose
  <2>2. CASE m \notin net
    <3>1. PICK a \in net : ReceiveCloseSequenceResponse(a) /\ m.seq = a.seq
      BY <1>3, <2>2, SourceSends DEF AfterClose, LastAnnounced
    <3> QED
      BY <3>1 DEF ReceiveCloseSequenceResponse, AfterClose
  <2> QED
    BY <2>1, <2>2
<1> QED
  BY <1>1, <1>2, <1>3 DEF AfterClose, rmdVars

LEMMA CloseDestinationNext ==
  ASSUME IndInv, AfterClose, LastInIsHighest, NEW m \in net, RMDReceive(m), UNCHANGED rmsVars
  PROVE  AfterClose' /\ LastInIsHighest'
<1>1. UNCHANGED <<submitted, outbox, lastOutNo>>
  BY DEF rmsVars, storeVars, threadVars, historyVars
<1>2. closed \subseteq closed'
  BY DEF RMDReceive, ReceiveCreateSequence, DropDuplicate, RefuseClosed, AcceptApp,
         ReceiveCloseSequence, ReceiveTerminateSequence, rmdVars
<1>3. ASSUME NEW a \in net', a.type \in {"CloseSequenceResponse", "TerminateSequence"}
      PROVE  a.seq \in closed'
  <2>1. CASE a \in net
    BY <1>2, <1>3, <2>1 DEF AfterClose
  <2>2. CASE a \notin net
    BY <1>3, <2>2, DestinationSends DEF ReceiveCloseSequence
  <2> QED
    BY <2>1, <2>2
<1>4. lastIn \in [SeqIds -> 0 .. MaxMsg] /\ highestIn \in [SeqIds -> 0 .. MaxMsg]
  BY DEF IndInv, TypeOK, RMDTypeOK
<1>5. (\A s \in SeqIds : lastIn'[s] # 0 => s \in closed) /\ LastInIsHighest'
  <2>1. CASE AcceptApp(m)
    <3>1. m.seq \in SeqIds /\ m.seq \notin closed /\ ~LastIndicator(m.app)
      <4>1. m.app \in submitted /\ m.seq \in SeqIds
        BY <2>1, MessageFields DEF AcceptApp, IndInv, TypeOK, OnlySubmitted, AppsIn
      <4> QED
        BY <2>1, <4>1, InHandFacts DEF AcceptApp, IsClosed, AfterClose, IndInv, InHand
    <3>2. lastIn' = lastIn /\ \A s \in closed \cap SeqIds : highestIn'[s] = highestIn[s]
      BY <1>4, <2>1, <3>1 DEF AcceptApp
    <3> QED
      BY <3>2 DEF AfterClose, LastInIsHighest
  <2>2. CASE ReceiveTerminateSequence(m)
    <3>1. m.seq \in SeqIds /\ m.seq \in closed /\ highestIn' = highestIn
      BY <2>2, MessageFields DEF ReceiveTerminateSequence, AfterClose, IndInv, TypeOK
    <3>2. /\ \A s \in SeqIds \ {m.seq} : lastIn'[s] = lastIn[s]
          /\ lastIn'[m.seq] \in {lastIn[m.seq], highestIn[m.seq]}
      BY <1>4, <2>2, <3>1 DEF ReceiveTerminateSequence, AsLast
    <3> QED
      BY <3>1, <3>2 DEF AfterClose, LastInIsHighest
  <2>3. CASE ReceiveCreateSequence(m) \/ DropDuplicate(m) \/ RefuseClosed(m) \/ ReceiveCloseSequence(m)
    <3>1. UNCHANGED <<lastIn, highestIn>>
      BY <2>3 DEF ReceiveCreateSequence, DropDuplicate, RefuseClosed, ReceiveCloseSequence, rmdVars
    <3> QED
      BY <3>1 DEF AfterClose, LastInIsHighest
  <2> QED
    BY <2>1, <2>2, <2>3 DEF RMDReceive
<1> QED
  BY <1>1, <1>2, <1>3, <1>5 DEF AfterClose
LEMMA LastNext10 ==
  ASSUME Spec10, OneNumbering, ~ReuseKey, IndInv, ArrivalInv, AfterLast, LastInIsHighest, [Next]_vars
  PROVE  AfterLast' /\ LastInIsHighest'
<1>1. AllArrivedAtLast' /\ LastFinishes'
  BY LastSubmittedNext, LastFinishesNext DEF AfterLast
<1>2. CASE SourceStep /\ UNCHANGED rmdVars
  BY <1>1, <1>2, LastSourceNext
<1>3. CASE DestinationStep /\ UNCHANGED rmsVars
  BY <1>1, <1>3, LastDestinationNext DEF DestinationStep
<1>4. CASE (Lose \/ UNCHANGED net) /\ UNCHANGED <<rmsVars, rmdVars>>
  <2>1. net' \subseteq net /\ UNCHANGED <<lastOutNo, lastIn, highestIn, submitted>>
    BY <1>4 DEF Lose, rmsVars, rmdVars, storeVars, historyVars
  <2>2. LastSent' <=> LastSent
    BY <2>1 DEF LastSent
  <2> QED
    BY <1>1, <2>1, <2>2 DEF AfterLast, LastInIsHighest
<1> QED
  BY <1>2, <1>3, <1>4 DEF Next, vars

LEMMA LastNext11 ==
  ASSUME ~Spec10, IndInv, AfterClose, LastInIsHighest, [Next]_vars
  PROVE  AfterClose' /\ LastInIsHighest'
<1>1. CASE SourceStep /\ UNCHANGED rmdVars
  BY <1>1, CloseSourceNext DEF rmdVars, LastInIsHighest
<1>2. CASE DestinationStep /\ UNCHANGED rmsVars
  BY <1>2, CloseDestinationNext DEF DestinationStep
<1>3. CASE (Lose \/ UNCHANGED net) /\ UNCHANGED <<rmsVars, rmdVars>>
  BY <1>3 DEF Lose, rmsVars, rmdVars, storeVars, threadVars, AfterClose, LastInIsHighest
<1> QED
  BY <1>1, <1>2, <1>3 DEF Next, vars

LEMMA LastInit == Init => AfterLast /\ AfterClose /\ LastInIsHighest
  BY DEF Init, RMSInit, RMDInit, AfterLast, AfterClose, LastInIsHighest, AllArrivedAtLast,
         LastFinishes, LastIndicator

(***************************************************************************)
(* The message the RMD regards as the last one of a sequence is the        *)
(* highest it has accepted.  RM 1.1 needs nothing for it; RM 1.0, which    *)
(* announces the last message and closes nothing, needs an application     *)
(* that sends from one thread with no worker that may time the sequence    *)
(* out, a back channel that carries no rejected responses, and a fresh     *)
(* sequence key.                                                           *)
(***************************************************************************)
THEOREM LastIsHighest ==
  ASSUME Spec10 => OneNumbering /\ ~BadResponses /\ ~ReuseKey
  PROVE  Spec => []LastInIsHighest
<1> DEFINE Inv == IndInv /\ (Spec10 => ArrivalInv) /\ LastInv
<1>1. Init => Inv
  BY IndInit, ArrivalInit, LastInit DEF LastInv
<1>2. Inv /\ [Next]_vars => Inv'
  BY IndNext, ArrivalNext, LastNext10, LastNext11 DEF LastInv, IndInv
<1>3. Inv => LastInIsHighest
  BY DEF LastInv
<1> QED
  BY <1>1, <1>2, <1>3, PTL DEF Spec

-----------------------------------------------------------------------------
(***************************************************************************)
(* RM 1.1: a sequence is closed, and so terminated, when its one sending   *)
(* thread has left every message, and it left none unconfirmed.            *)
(***************************************************************************)
LEMMA TimedOutNext ==
  ASSUME Numbered, timedOut => outSeq = NoSeq /\ createIds = {}, [Next]_vars
  PROVE  (timedOut => outSeq = NoSeq /\ createIds = {})'
<1> USE DEF storeVars
<1>1. CASE UNCHANGED <<timedOut, outSeq, createIds>>
  BY <1>1
<1>2. CASE TimeOutSequence
  BY <1>2 DEF TimeOutSequence
<1>3. CASE ~timedOut'
  BY <1>3
<1>4. ASSUME NEW c \in Calls, ThreadStep(c)
      PROVE  UNCHANGED <<timedOut, outSeq, createIds>> \/ TimeOutSequence \/ ~timedOut'
  <2>1. CASE AskForSequence(c)
    BY <2>1 DEF AskForSequence, Numbered, OneThread, Active, Sending
  <2> QED
    BY <1>4, <2>1
    DEF ThreadStep, ReadNumber, NumberRefused, WriteNumber, LookForCreate, InlineLookUp,
        InlineCreateResend, InlineCreateTimesOut, StoreMessage, StoreTimesOut, FirstSend, LookUp,
        CountAttempt, TimesOut, Resend
<1>5. ASSUME NEW c \in Calls, WorkerStep(c)
      PROVE  UNCHANGED <<timedOut, outSeq, createIds>> \/ TimeOutSequence
  BY <1>5 DEF WorkerStep, WorkerLookUp, WorkerResend, WorkerTimesOut
<1>6. ASSUME NEW m \in net, RMSReceive(m)
      PROVE  UNCHANGED <<timedOut, outSeq, createIds>> \/ ~timedOut'
  BY <1>6 DEF RMSReceive, ReceiveCreateSequenceResponse, ReceiveAck, ReceiveCloseSequenceResponse
<1>7. ASSUME Close \/ Halt \/ Crash \/ Restart
      PROVE  UNCHANGED <<timedOut, outSeq, createIds>> \/ ~timedOut'
  BY <1>7 DEF Close, Halt, Crash, Restart
<1>8. CASE SourceStep
  BY <1>1, <1>2, <1>3, <1>4, <1>5, <1>6, <1>7, <1>8 DEF SourceStep, Send
<1>9. CASE UNCHANGED rmsVars
  BY <1>1, <1>9 DEF rmsVars
<1> QED
  BY <1>8, <1>9 DEF Next, vars

(***************************************************************************)
(* Before the application closes, nothing ends the sequence.               *)
(***************************************************************************)
NotClosing ==
  /\ ~terminateAdded
  /\ \A m \in net : m.type \notin {"CloseSequence", "CloseSequenceResponse"}

LEMMA NotClosingNext ==
  ASSUME lastOutNo = 0, NotClosing, ~Close, [Next]_vars
  PROVE  NotClosing'
<1>1. CASE SourceStep
  <2>1. \A a \in net : ~ReceiveCloseSequenceResponse(a)
    BY DEF ReceiveCloseSequenceResponse, NotClosing
  <2>2. ASSUME NEW a \in net, ReceiveAck(a) PROVE UNCHANGED terminateAdded
    BY <2>2 DEF ReceiveAck, LastAnnounced
  <2>3. UNCHANGED terminateAdded
    BY <1>1, <2>1, <2>2
    DEF SourceStep, Send, ThreadStep, ReadNumber, NumberRefused, WriteNumber, LookForCreate,
      AskForSequence, InlineLookUp, InlineCreateResend, InlineCreateTimesOut,
        StoreMessage, StoreTimesOut, FirstSend, LookUp, CountAttempt, TimesOut, Resend, WorkerStep,
        WorkerLookUp, WorkerResend, WorkerTimesOut, RMSReceive, ReceiveCreateSequenceResponse,
        Halt, Crash, Restart, TimeOutSequence, storeVars
  <2> QED
    BY <1>1, <2>1, <2>3, SourceSends DEF NotClosing, LastAnnounced
<1>2. CASE DestinationStep /\ UNCHANGED rmsVars
  BY <1>2, DestinationSends
  DEF DestinationStep, ReceiveCloseSequence, NotClosing, rmsVars, storeVars
<1>3. CASE (Lose \/ UNCHANGED net) /\ UNCHANGED rmsVars
  BY <1>3 DEF Lose, rmsVars, storeVars, NotClosing
<1> QED
  BY <1>1, <1>2, <1>3 DEF Next, vars

LEMMA ClosedNext ==
  ASSUME ~Spec10, OneNumbering, ~ReuseKey, IndInv, ArrivalInv, AfterClose, ClosedWhenComplete,
         [Next]_vars
  PROVE  ClosedWhenComplete'
<1> USE DEF storeVars, threadVars, processVars, historyVars
<1>1. (timedOut => outSeq = NoSeq /\ createIds = {})'
  BY TimedOutNext DEF ClosedWhenComplete, IndInv
<1>2. CASE Close
  <2>1. up /\ ~timedOut
    BY <1>2 DEF Close, ClosedWhenComplete
  <2>2. NothingSending /\ \A b \in submitted : b.call \in Calls
    BY <1>2, InHandFacts DEF Close, OneNumbering
  <2>3. \A b \in submitted : pc[b.call] = "done"
    BY <2>1, <2>2 DEF NothingSending, ArrivalInv, LeftWhenConfirmed, Idle, Active
  <2>4. submitted \subseteq confirmed
    BY <2>1, <2>3 DEF ArrivalInv, LeftWhenConfirmed
  <2> QED
    BY <1>1, <1>2, <2>2, <2>4 DEF Close, ClosedWhenComplete, NothingSending
<1>3. CASE ~Close /\ NotClosing
  BY <1>1, <1>3, NotClosingNext DEF AfterClose, ClosedWhenComplete, NotClosing
<1>4. CASE ~Close /\ finished /\ submitted \subseteq confirmed /\ NothingSending
  <2>1. ASSUME NEW c \in Calls PROVE ~ThreadStep(c) /\ \A kind \in ChosenKinds : ~Send(c, kind)
    <3>1. pc[c] \in Idle
      BY <1>4 DEF NothingSending
    <3> QED
      BY <1>4, <3>1
      DEF Idle, Send, ThreadStep, ReadNumber, NumberRefused, WriteNumber, LookForCreate,
          AskForSequence, InlineLookUp, InlineCreateResend, InlineCreateTimesOut, StoreMessage,
          StoreTimesOut, FirstSend, LookUp, CountAttempt, TimesOut, Resend
  <2>2. /\ finished' = finished /\ submitted' = submitted /\ confirmed \subseteq confirmed'
        /\ \A c \in Calls : pc'[c] \in {pc[c], "dead"}
    <3>1. ASSUME NEW m \in net, RMSReceive(m)
          PROVE  UNCHANGED <<finished, pc, submitted>> /\ confirmed \subseteq confirmed'
      BY <3>1, Confirms DEF RMSReceive, ReceiveCreateSequenceResponse, ReceiveAck,
                            ReceiveCloseSequenceResponse
    <3>2. ASSUME NEW c \in Calls, WorkerStep(c) PROVE UNCHANGED <<finished, pc, submitted, confirmed>>
      BY <3>2 DEF WorkerStep, WorkerLookUp, WorkerResend, WorkerTimesOut
    <3>3. ASSUME Halt \/ Crash
          PROVE  /\ UNCHANGED <<finished, submitted, confirmed>>
                 /\ \A c \in Calls : pc'[c] \in {pc[c], "dead"}
      BY <3>3 DEF Halt, Crash, KillThreads
    <3>4. ~Restart
      BY DEF Restart
    <3>5. CASE SourceStep
      BY <1>4, <2>1, <3>1, <3>2, <3>3, <3>4, <3>5 DEF SourceStep
    <3>6. CASE UNCHANGED rmsVars
      BY <3>6 DEF rmsVars
    <3> QED
      BY <3>5, <3>6 DEF Next, vars
  <2>3. NothingSending'
    BY <1>4, <2>2 DEF NothingSending, Idle
  <2> QED
    BY <1>1, <1>4, <2>2, <2>3 DEF ClosedWhenComplete
<1> QED
  BY <1>2, <1>3, <1>4 DEF ClosedWhenComplete, NotClosing

(***************************************************************************)
(* The sequence is terminated only when everything submitted on it has     *)
(* been acknowledged: for RM 1.1, an application that sends from one       *)
(* thread with no worker that may time the sequence out, a back channel    *)
(* without rejected responses and a fresh key.                             *)
(* RM 1.0 terminates with the first acknowledgement it receives after the  *)
(* last message was stored, whatever that lists (TerminateEarly).          *)
(***************************************************************************)
THEOREM TerminatesComplete ==
  ASSUME ~Spec10, OneNumbering, ~BadResponses, ~ReuseKey
  PROVE  Spec => []TerminateOnlyWhenComplete
<1> DEFINE Inv == IndInv /\ ArrivalInv /\ AfterClose /\ LastInIsHighest /\ ClosedWhenComplete
<1>1. Init => Inv
  <2>1. Init => ClosedWhenComplete
    BY DEF Init, RMSInit, ClosedWhenComplete
  <2> QED
    BY <2>1, IndInit, ArrivalInit, LastInit
<1>2. Inv /\ [Next]_vars => Inv'
  BY IndNext, ArrivalNext, LastNext11, ClosedNext DEF IndInv
<1>3. Inv => TerminateOnlyWhenComplete
  BY DEF ClosedWhenComplete, TerminateOnlyWhenComplete
<1> QED
  BY <1>1, <1>2, <1>3, PTL DEF Spec
=============================================================================
