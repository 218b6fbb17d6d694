---------------------------- MODULE OneWayProofs ----------------------------
(***************************************************************************)
(* What OneWay's runs check on small instances, proved for every number of *)
(* messages, every policy and every number of restarts: the inductive      *)
(* invariant IndInv, delivery at most once and, for every client, what a   *)
(* confirmation is worth.                                                  *)
(***************************************************************************)
EXTENDS OneWayTypeProofs

(***************************************************************************)
(* The inductive invariant.  TypeCorrect gives its first part; the others  *)
(* but the last are preserved for one reason by all steps that submit      *)
(* nothing, send no application message, no acknowledgement, and record    *)
(* and deliver nothing.                                                    *)
(***************************************************************************)
QuietStep ==
  /\ \A m \in net' : m \in net \/ m.type \notin {"App", "Ack", "CloseSequenceResponse"}
  /\ \A c \in Calls : /\ pc'[c] \in Uncalled => pc[c] \in Uncalled
                      /\ pc'[c] \in Unsent => pc[c] \in Unsent
                      /\ pc'[c] \in Sending => pc[c] \in Sending
                      /\ pc'[c] \in Active => pc[c] \in Active /\ UNCHANGED <<up, run>>
  /\ beans' \subseteq submitted /\ confirmed' \subseteq submitted
  /\ UNCHANGED <<outbox, envelope, submitted, delivered, redelivered, completed>>

LEMMA IndInvType == IndInv => TypeInv
  BY DEF IndInv, TypeInv

LEMMA InHandFacts ==
  ASSUME IndInv
  PROVE  /\ submitted \subseteq AppMsgs
         /\ \A b \in AppMsgs : b.call \in Calls /\ b.no \in Nat /\ b.run \in Nat
         /\ run \in Nat /\ prevNo \in Nat
         /\ outbox \in [Calls -> AppMsgs] /\ pc \in [Calls -> Idle \cup Active]
         /\ envelope \in [Calls -> SeqIds \cup {NoSeq}]
         /\ beans \subseteq submitted /\ confirmed \subseteq submitted
  BY BoundsAssumption
  DEF IndInv, TypeOK, RMSTypeOK, StoreTypeOK, AppMsgs, Nos, Runs, OnlySubmitted

LEMMA QuietKeeps ==
  ASSUME IndInv, TypeInv', OneNumbering => Numbered', QuietStep
  PROVE  IndInv'
<1> USE InHandFacts
<1>1. TypeOK' /\ HasEnvelope'
  BY DEF TypeInv
<1>2. DeliveredAtMostOnce'
  BY DEF IndInv, DeliveredAtMostOnce, QuietStep
<1>3. InHand'
  <2>1. ASSUME NEW b \in submitted' PROVE outbox'[b.call] = b /\ pc'[b.call] \notin Uncalled
    BY <2>1 DEF IndInv, InHand, QuietStep
  <2>2. ASSUME NEW c \in Calls
        PROVE  /\ outbox'[c].call = c
               /\ pc'[c] \in Unsent \cup Sending => outbox'[c] \in submitted'
               /\ pc'[c] \in Active => up' /\ outbox'[c].run = run'
    BY <2>2 DEF IndInv, InHand, QuietStep
  <2> QED
    BY <2>1, <2>2 DEF InHand
<1>4. AppsIn(net)' \subseteq AppsIn(net)
  BY DEF AppsIn, QuietStep
<1>5. OnlySubmitted'
  BY <1>4 DEF IndInv, OnlySubmitted, QuietStep
<1>6. AcksHonest'
  BY DEF IndInv, AcksHonest, QuietStep
<1>7. RecordedWasDelivered'
  BY DEF IndInv, RecordedWasDelivered, QuietStep
<1>8. OneEnvelope'
  BY <1>4 DEF IndInv, OneEnvelope, QuietStep
<1>9. DeliveredIsRecorded'
  BY DEF IndInv, DeliveredIsRecorded, HasArrived, QuietStep
<1> QED
  BY <1>1, <1>2, <1>3, <1>5, <1>6, <1>7, <1>8, <1>9 DEF IndInv

LEMMA QuietThread ==
  ASSUME IndInv, UNCHANGED rmdVars, NEW c \in Calls, ThreadStep(c), ~ReadNumber(c),
         ~FirstSend(c), ~Resend(c)
  PROVE  QuietStep
<1> USE DEF QuietStep, storeVars, processVars, historyVars, Goto, Uncalled, Unsent, Sending,
            Active, rmdVars
<1>1. /\ pc \in [Calls -> Idle \cup Active]
      /\ beans \subseteq submitted /\ confirmed \subseteq submitted
  BY InHandFacts
<1>2. CASE NumberRefused(c)
  BY <1>1, <1>2 DEF NumberRefused
<1>3. CASE WriteNumber(c)
  BY <1>1, <1>3 DEF WriteNumber
<1>4. CASE LookForCreate(c)
  BY <1>1, <1>4 DEF LookForCreate
<1>5. CASE AskForSequence(c)
  BY <1>1, <1>5 DEF AskForSequence, Put, CreateSequence
<1>6. CASE InlineLookUp(c)
  BY <1>1, <1>6 DEF InlineLookUp
<1>7. CASE InlineCreateResend(c)
  BY <1>1, <1>7 DEF InlineCreateResend, Put, CreateSequence
<1>8. CASE InlineCreateTimesOut(c)
  BY <1>1, <1>8 DEF InlineCreateTimesOut, TimeOutSequence
<1>9. CASE StoreMessage(c)
  <2>1. outbox[c] \in submitted
    BY <1>9 DEF IndInv, InHand, StoreMessage
  <2> QED
    BY <1>1, <1>9, <2>1 DEF StoreMessage
<1>10. CASE StoreTimesOut(c)
  BY <1>1, <1>10 DEF StoreTimesOut, TimeOutSequence
<1>11. CASE LookUp(c)
  BY <1>1, <1>11 DEF LookUp
<1>12. CASE CountAttempt(c)
  BY <1>1, <1>12 DEF CountAttempt
<1>13. CASE TimesOut(c)
  BY <1>1, <1>13 DEF TimesOut, TimeOutSequence
<1> QED
  BY <1>2, <1>3, <1>4, <1>5, <1>6, <1>7, <1>8, <1>9, <1>10, <1>11, <1>12, <1>13 DEF ThreadStep

LEMMA QuietWorker ==
  ASSUME IndInv, UNCHANGED rmdVars, NEW c \in Calls, WorkerStep(c)
  PROVE  QuietStep
<1> USE DEF QuietStep, storeVars, processVars, historyVars, rmdVars
<1>1. beans \subseteq submitted /\ confirmed \subseteq submitted
  BY InHandFacts
<1>2. CASE WorkerResend(c)
  BY <1>1, <1>2 DEF WorkerResend, Put, CreateSequence
<1>3. CASE WorkerTimesOut(c)
  BY <1>1, <1>3 DEF WorkerTimesOut, TimeOutSequence
<1>4. CASE WorkerLookUp(c)
  BY <1>1, <1>4 DEF WorkerLookUp
<1> QED
  BY <1>2, <1>3, <1>4 DEF WorkerStep

LEMMA QuietReceive ==
  ASSUME IndInv, UNCHANGED rmdVars, NEW m \in net, RMSReceive(m)
  PROVE  QuietStep
<1> USE DEF QuietStep, processVars, threadVars, rmdVars, Put, TerminateSequence
<1>1. beans \subseteq submitted /\ confirmed \subseteq submitted
  BY InHandFacts
<1>2. ASSUME NEW s, NEW nos, Acknowledge(s, nos)
      PROVE  beans' \subseteq submitted /\ confirmed' \subseteq submitted
  BY <1>1, <1>2 DEF Acknowledge, Acknowledged
<1>3. CASE ReceiveCreateSequenceResponse(m)
  BY <1>1, <1>3 DEF ReceiveCreateSequenceResponse, historyVars
<1>4. CASE ReceiveAck(m)
  BY <1>1, <1>2, <1>4 DEF ReceiveAck
<1>5. CASE ReceiveCloseSequenceResponse(m)
  BY <1>1, <1>2, <1>5 DEF ReceiveCloseSequenceResponse
<1> QED
  BY <1>3, <1>4, <1>5 DEF RMSReceive

LEMMA Killed ==
  ASSUME IndInv, KillThreads
  PROVE  /\ up' = FALSE /\ UNCHANGED <<outbox, envelope, run>>
         /\ creator' = [c \in Calls |-> "off"]
         /\ \A c \in Calls : /\ pc'[c] \notin Active \cup Unsent \cup Sending
                             /\ pc'[c] \in Uncalled => pc'[c] = pc[c]
  BY InHandFacts DEF KillThreads, Idle, Active, Uncalled, Unsent, Sending

LEMMA QuietProcess ==
  ASSUME IndInv, UNCHANGED rmdVars, Close \/ Halt \/ Crash \/ Restart
  PROVE  QuietStep
<1> USE DEF QuietStep, storeVars, threadVars, historyVars, rmdVars
<1>1. /\ beans \subseteq submitted /\ confirmed \subseteq submitted
      /\ \A c \in Calls : pc[c] \in Active => up
  BY InHandFacts DEF IndInv, InHand
<1>2. CASE Close
  BY <1>1, <1>2 DEF Close, Put, CloseSequence
<1>3. CASE Halt
  BY <1>1, <1>3, Killed DEF Halt
<1>4. CASE Crash
  BY <1>1, <1>4, Killed DEF Crash
<1>5. CASE Restart
  BY <1>1, <1>5 DEF Restart
<1> QED
  BY <1>2, <1>3, <1>4, <1>5

-----------------------------------------------------------------------------
(***************************************************************************)
(* Numbers.  NumbersUsed looks only at a few variables, and a time-out, an *)
(* exit or a crash make it weaker.                                         *)
(***************************************************************************)
LEMMA NumbersKept ==
  ASSUME NumbersUsed, NumbersUnique, submitted \subseteq AppMsgs, UNCHANGED <<submitted, run>>,
         \/ timedOut' \/ ~up'
         \/ /\ UNCHANGED <<prevNo, up, timedOut>>
            /\ \A c \in Calls : pc'[c] = "counted" <=> pc[c] = "counted"
  PROVE  NumbersUsed' /\ NumbersUnique'
<1>1. \A b \in submitted : b.call \in Calls
  BY DEF AppMsgs
<1> QED
  BY <1>1 DEF NumbersUsed, NumbersUnique

LEMMA OneThreadKept ==
  ASSUME OneThread,
         \A c \in Calls : /\ pc'[c] \in Active => pc[c] \in Active
                          /\ pc'[c] \in Active \ Sending => ~timedOut'
                          /\ CreateInline => creator'[c] = "off"
  PROVE  OneThread'
  BY DEF OneThread

(***************************************************************************)
(* With one sending thread, nobody has used or will use the number that a  *)
(* call reads until it has written it.                                     *)
(***************************************************************************)
LEMMA NumberedRead ==
  ASSUME IndInv, OneNumbering, NEW c \in Calls, ReadNumber(c)
  PROVE  Numbered'
<1> DEFINE new == outbox'[c]
<1>1. /\ OneThread /\ NumbersUsed /\ NumbersUnique
      /\ outbox[c].call = c /\ outbox[c].run = run /\ up /\ ~timedOut
      /\ \A b \in submitted : b.call # c
  <2>1. pc[c] = "called" /\ pc[c] \in Active /\ pc[c] \notin Sending /\ pc[c] \in Uncalled
    BY DEF ReadNumber, Active, Sending, Uncalled
  <2> QED
    BY <2>1 DEF IndInv, Numbered, OneThread, InHand
<1>2. new.call = c /\ new.run = run /\ new.no \in Nat /\ new.no > prevNo
  <2>1. PICK n \in Nos : NextNumber(n) /\ outbox' = [outbox EXCEPT ![c].no = n]
    BY DEF ReadNumber
  <2>2. n \in Nat /\ n > prevNo
    BY <2>1, InHandFacts, BoundsAssumption DEF NextNumber, Nos
  <2> QED
    BY <1>1, <2>1, <2>2, InHandFacts DEF AppMsgs
<1>3. /\ submitted' = submitted \cup {new}
      /\ UNCHANGED <<prevNo, up, run, timedOut, creator>>
      /\ pc' = [pc EXCEPT ![c] = "counted"]
  BY DEF ReadNumber, storeVars, processVars, Goto
<1> HIDE DEF new
<1>4. pc[c] = "called" /\ pc \in [Calls -> Idle \cup Active]
  BY InHandFacts DEF ReadNumber
<1>5. OneThread'
  <2>1. \A d \in Calls : pc'[d] \in Active => pc[d] \in Active
    BY <1>3, <1>4 DEF Active
  <2>2. \A d \in Calls : CreateInline => creator'[d] = "off"
    BY <1>1, <1>3 DEF OneThread
  <2> QED
    BY <1>1, <1>3, <2>1, <2>2, OneThreadKept
<1>6. \A b \in submitted : /\ b.call \in Calls /\ b.no \in Nat /\ b.run <= run
                           /\ b.call # c /\ pc[b.call] # "counted"
                           /\ b.run = run => b.no <= prevNo
  <2>1. \A d \in Calls : d # c => pc[d] # "counted"
    BY <1>1, <1>4 DEF OneThread, Active
  <2> QED
    BY <1>1, <2>1, InHandFacts DEF NumbersUsed
<1>7. NumbersUsed'
  <2> SUFFICES ASSUME NEW b \in submitted'
               PROVE  /\ b.run <= run
                      /\ b.run = run => IF pc'[b.call] = "counted" THEN b.no > prevNo
                                                                  ELSE b.no <= prevNo
    BY <1>3 DEF NumbersUsed
  <2>1. CASE b \in submitted
    BY <1>3, <1>4, <1>6, <2>1
  <2>2. CASE b = new
    BY <1>2, <1>3, <1>4, <2>2, InHandFacts
  <2> QED
    BY <1>3, <2>1, <2>2
<1>8. NumbersUnique'
  BY <1>1, <1>2, <1>3, <1>6, InHandFacts DEF NumbersUnique
<1> QED
  BY <1>5, <1>7, <1>8 DEF Numbered

LEMMA NumberedWrite ==
  ASSUME IndInv, OneNumbering, NEW c \in Calls, WriteNumber(c)
  PROVE  Numbered'
<1>1. /\ OneThread /\ NumbersUsed /\ NumbersUnique
      /\ outbox[c] \in submitted /\ outbox[c].run = run /\ up /\ ~timedOut
      /\ outbox[c].call = c /\ \A b \in submitted : b.call = c => b = outbox[c]
  <2>1. pc[c] = "counted" /\ pc[c] \in Active /\ pc[c] \notin Sending /\ pc[c] \in Unsent
    BY DEF WriteNumber, Active, Sending, Unsent
  <2> QED
    BY <2>1 DEF IndInv, Numbered, OneThread, InHand
<1>2. /\ prevNo' = outbox[c].no
      /\ UNCHANGED <<submitted, up, run, timedOut, creator>>
      /\ pc[c] = "counted" /\ pc \in [Calls -> Idle \cup Active]
      /\ pc'[c] \in {"starting", "numbered"} /\ \A d \in Calls \ {c} : pc'[d] = pc[d]
  BY InHandFacts DEF WriteNumber, processVars, historyVars, Goto
<1>3. OneThread'
  <2>1. \A d \in Calls : pc'[d] \in Active => pc[d] \in Active
    BY <1>2 DEF Active
  <2>2. \A d \in Calls : CreateInline => creator'[d] = "off"
    BY <1>1, <1>2 DEF OneThread
  <2> QED
    BY <1>1, <1>2, <2>1, <2>2, OneThreadKept
<1>4. \A d \in Calls : d # c => pc[d] # "counted"
  BY <1>1, <1>2 DEF OneThread, Active
<1>5. NumbersUsed'
  <2> SUFFICES ASSUME NEW b \in submitted
               PROVE  /\ b.run <= run
                      /\ b.run = run => pc'[b.call] # "counted" /\ b.no <= outbox[c].no
    BY <1>2 DEF NumbersUsed
  <2>1. CASE b.call = c
    BY <1>1, <1>2, <2>1, InHandFacts DEF NumbersUsed
  <2>2. CASE b.call # c
    <3>1. b.call \in Calls /\ b.no \in Nat /\ outbox[c].no \in Nat /\ prevNo \in Nat
      BY InHandFacts
    <3>2. outbox[c].no > prevNo
      BY <1>1, <1>2 DEF NumbersUsed
    <3>3. b.run <= run /\ (b.run = run => b.no <= prevNo)
      BY <1>1, <1>4, <2>2, <3>1 DEF NumbersUsed
    <3> QED
      BY <1>2, <1>4, <2>2, <3>1, <3>2, <3>3
  <2> QED
    BY <2>1, <2>2
<1>6. NumbersUnique'
  BY <1>1, <1>2 DEF NumbersUnique
<1> QED
  BY <1>3, <1>5, <1>6 DEF Numbered

(***************************************************************************)
(* The other steps of the thread, and those of a worker, which cannot time *)
(* the sequence out.                                                       *)
(***************************************************************************)
LEMMA NumberedThread ==
  ASSUME IndInv, OneNumbering, NEW c \in Calls, ThreadStep(c)
  PROVE  Numbered'
<1> USE DEF storeVars, processVars, historyVars, Goto
<1>1. /\ OneThread /\ NumbersUsed /\ NumbersUnique /\ submitted \subseteq AppMsgs
      /\ pc \in [Calls -> Idle \cup Active] /\ creator \in [Calls -> {"off", "checking", "due"}]
  BY InHandFacts DEF IndInv, Numbered, TypeOK, RMSTypeOK
<1>2. \A d \in Calls : /\ pc[d] \in Active \ Sending => ~timedOut
                       /\ CreateInline => creator[d] = "off"
                       /\ pc[c] \in Active /\ d # c => pc[d] \notin Active
  BY <1>1 DEF OneThread
<1>3. ASSUME UNCHANGED <<submitted, run, prevNo, up, timedOut>>,
             pc[c] \in Active \ Sending \/ pc'[c] \notin Active \ Sending,
             pc[c] \in Active, pc[c] # "counted", pc'[c] # "counted",
             \A d \in Calls \ {c} : pc'[d] = pc[d],
             CreateInline => UNCHANGED creator
      PROVE  Numbered'
  <2>1. \A d \in Calls : pc'[d] = "counted" <=> pc[d] = "counted"
    BY <1>3
  <2>2. \A d \in Calls : /\ pc'[d] \in Active => pc[d] \in Active
                         /\ pc'[d] \in Active \ Sending => ~timedOut'
                         /\ CreateInline => creator'[d] = "off"
    BY <1>2, <1>3
  <2> QED
    BY <1>1, <1>3, <2>1, <2>2, NumbersKept, OneThreadKept DEF Numbered
<1>4. ASSUME pc[c] \in Active, TimeOutSequence, Goto(c, "failed"),
             UNCHANGED <<submitted, run, creator>>
      PROVE  Numbered'
  <2>1. \A d \in Calls : /\ pc'[d] \notin Active
                         /\ CreateInline => creator'[d] = "off"
    BY <1>1, <1>2, <1>4 DEF Active
  <2>2. OneThread'
    BY <1>1, <2>1, OneThreadKept
  <2>3. timedOut'
    BY <1>4 DEF TimeOutSequence
  <2> QED
    BY <1>1, <1>4, <2>2, <2>3, NumbersKept DEF Numbered
<1>5. CASE ReadNumber(c) \/ WriteNumber(c)
  BY <1>5, NumberedRead, NumberedWrite
<1>6. CASE InlineCreateTimesOut(c) \/ StoreTimesOut(c) \/ TimesOut(c)
  BY <1>4, <1>6 DEF InlineCreateTimesOut, StoreTimesOut, TimesOut, Active
<1>7. CASE NumberRefused(c) \/ LookForCreate(c)
  BY <1>1, <1>3, <1>7 DEF NumberRefused, LookForCreate, Active, Sending
<1>8. CASE AskForSequence(c)
  BY <1>1, <1>3, <1>8 DEF AskForSequence, Active, Sending
<1>9. CASE InlineLookUp(c) \/ InlineCreateResend(c)
  BY <1>1, <1>3, <1>9 DEF InlineLookUp, InlineCreateResend, Active, Sending
<1>10. CASE StoreMessage(c) \/ FirstSend(c)
  BY <1>1, <1>3, <1>10 DEF StoreMessage, FirstSend, Active, Sending
<1>11. CASE LookUp(c) \/ CountAttempt(c) \/ Resend(c)
  BY <1>1, <1>3, <1>11 DEF LookUp, CountAttempt, Resend, Active, Sending
<1> QED
  BY <1>5, <1>6, <1>7, <1>8, <1>9, <1>10, <1>11 DEF ThreadStep

LEMMA NumberedWorker ==
  ASSUME IndInv, OneNumbering, NEW c \in Calls, WorkerStep(c)
  PROVE  Numbered'
<1> USE DEF storeVars, processVars, historyVars
<1>1. /\ OneThread /\ NumbersUsed /\ NumbersUnique /\ submitted \subseteq AppMsgs
      /\ creator \in [Calls -> {"off", "checking", "due"}]
  BY InHandFacts DEF IndInv, Numbered, TypeOK, RMSTypeOK
<1>2. ~CreateInline /\ MaxAttempts = 0 /\ ~InactivityTimeout
  BY <1>1 DEF OneNumbering, WorkerNeverTimesOut, OneThread, WorkerStep, WorkerLookUp,
              WorkerResend, WorkerTimesOut
<1>3. ~WorkerTimesOut(c)
  BY <1>2 DEF WorkerTimesOut, MayTimeOut, AttemptsLeft
<1>4. UNCHANGED <<pc, prevNo, timedOut, up, run, submitted>>
  BY <1>3 DEF WorkerStep, WorkerLookUp, WorkerResend
<1>5. OneThread'
  BY <1>1, <1>2, <1>4 DEF OneThread
<1> QED
  BY <1>1, <1>4, <1>5, NumbersKept DEF Numbered

LEMMA NumberedSend ==
  ASSUME IndInv, OneNumbering, NEW c \in Calls, NEW kind \in ChosenKinds, Send(c, kind)
  PROVE  Numbered'
<1>1. /\ OneThread /\ NumbersUsed /\ NumbersUnique /\ submitted \subseteq AppMsgs
      /\ pc \in [Calls -> Idle \cup Active]
  BY InHandFacts DEF IndInv, Numbered
<1>2. /\ UNCHANGED <<prevNo, timedOut, up, run, submitted, creator>> /\ ~timedOut
      /\ pc[c] = "idle" /\ pc' = [pc EXCEPT ![c] = "called"]
      /\ \A d \in Calls : pc[d] \in Idle
  BY DEF Send, OneNumbering, NothingSending, storeVars, historyVars, Goto
<1>3. OneThread'
  <2>1. \A d \in Calls : d # c => pc'[d] \notin Active
    BY <1>1, <1>2 DEF Idle, Active
  <2> QED
    BY <1>1, <1>2, <2>1 DEF OneThread
<1>4. \A d \in Calls : pc'[d] = "counted" <=> pc[d] = "counted"
  BY <1>1, <1>2
<1> QED
  BY <1>1, <1>2, <1>3, <1>4, NumbersKept DEF Numbered

LEMMA NumberedProcess ==
  ASSUME IndInv, OneNumbering, Close \/ Halt \/ Crash \/ Restart
  PROVE  Numbered'
<1>1. /\ OneThread /\ NumbersUsed /\ NumbersUnique /\ submitted \subseteq AppMsgs
  BY InHandFacts DEF IndInv, Numbered
<1>2. CASE Close
  <2>1. UNCHANGED <<pc, prevNo, timedOut, up, run, submitted, creator>>
    BY <1>2 DEF Close, storeVars, threadVars, historyVars
  <2> QED
    BY <1>1, <2>1, NumbersKept DEF Numbered, OneThread
<1>3. CASE Halt \/ Crash
  <2>1. KillThreads /\ UNCHANGED submitted
    BY <1>3 DEF Halt, Crash, historyVars
  <2>2. OneThread'
    BY <2>1, Killed DEF OneThread
  <2> QED
    BY <1>1, <2>1, <2>2, Killed, NumbersKept DEF Numbered
<1>4. CASE Restart
  <2>1. UNCHANGED <<pc, timedOut, submitted, creator>> /\ ~up /\ run' = run + 1
    BY <1>4 DEF Restart, storeVars, threadVars, historyVars
  <2>2. \A c \in Calls : pc[c] \notin Active
    BY <2>1 DEF IndInv, InHand
  <2>3. OneThread'
    BY <1>1, <2>1, <2>2 DEF OneThread
  <2>4. NumbersUsed'
    BY <1>1, <2>1, InHandFacts DEF NumbersUsed
  <2> QED
    BY <1>1, <2>1, <2>3, <2>4 DEF Numbered, NumbersUnique
<1> QED
  BY <1>2, <1>3, <1>4

LEMMA NumberedNext == IndInv /\ OneNumbering /\ [Next]_vars => Numbered'
<1> SUFFICES ASSUME IndInv, OneNumbering, [Next]_vars PROVE Numbered'
  OBVIOUS
<1>1. ASSUME UNCHANGED <<pc, prevNo, timedOut, up, run, submitted, creator>> PROVE Numbered'
  BY <1>1, NumbersKept, InHandFacts DEF IndInv, Numbered, OneThread
<1>2. ASSUME UNCHANGED rmsVars PROVE Numbered'
  BY <1>1, <1>2 DEF rmsVars, storeVars, threadVars, processVars, historyVars
<1>3. ASSUME NEW m \in net, RMSReceive(m) PROVE Numbered'
  BY <1>1, <1>3 DEF RMSReceive, ReceiveCreateSequenceResponse, ReceiveAck,
                    ReceiveCloseSequenceResponse, processVars, threadVars, historyVars
<1>4. CASE SourceStep
  BY <1>3, <1>4, NumberedSend, NumberedThread, NumberedWorker, NumberedProcess DEF SourceStep
<1> QED
  BY <1>2, <1>4 DEF Next, vars

-----------------------------------------------------------------------------
(***************************************************************************)
(* The other steps of a thread: a call begins, its message gets a number   *)
(* and joins the submitted ones.                                           *)
(***************************************************************************)
LEMMA CallKeeps ==
  ASSUME IndInv, TypeInv', OneNumbering => Numbered', UNCHANGED rmdVars, NEW c \in Calls,
         (\E kind \in ChosenKinds : Send(c, kind)) \/ ReadNumber(c)
  PROVE  IndInv'
<1> USE InHandFacts
<1>1. /\ pc[c] \in Uncalled /\ \A b \in submitted : b.call # c
      /\ \A d \in Calls \ {c} : pc'[d] = pc[d] /\ outbox'[d] = outbox[d]
      /\ submitted' \in {submitted, submitted \cup {outbox'[c]}}
      /\ UNCHANGED <<net, up, run, envelope, beans, confirmed>>
  BY DEF Send, ReadNumber, Uncalled, IndInv, InHand, storeVars, processVars, historyVars, Goto
<1>2. /\ outbox'[c].call = c /\ up' /\ outbox'[c].run = run'
      /\ \/ pc'[c] = "called" /\ submitted' = submitted
         \/ pc'[c] = "counted" /\ submitted' = submitted \cup {outbox'[c]}
  <2>1. CASE \E kind \in ChosenKinds : Send(c, kind)
    BY <2>1 DEF Send, historyVars, Goto
  <2>2. CASE ReadNumber(c)
    <3>1. PICK n \in Nos : outbox' = [outbox EXCEPT ![c].no = n]
      BY <2>2 DEF ReadNumber
    <3>2. outbox'[c].call = outbox[c].call /\ outbox'[c].run = outbox[c].run
      BY <3>1 DEF AppMsgs
    <3> QED
      BY <1>1, <2>2, <3>2 DEF ReadNumber, Goto, IndInv, InHand, Active
  <2> QED
    BY <2>1, <2>2
<1>3. UNCHANGED <<delivered, redelivered, completed>>
  BY DEF rmdVars
<1>4. submitted \subseteq submitted'
  BY <1>1
<1>5. InHand'
  <2>1. ASSUME NEW b \in submitted' PROVE outbox'[b.call] = b /\ pc'[b.call] \notin Uncalled
    <3>1. CASE b \in submitted
      BY <1>1, <3>1 DEF IndInv, InHand
    <3>2. CASE b \notin submitted
      BY <1>1, <1>2, <3>2 DEF Uncalled
    <3> QED
      BY <3>1, <3>2
  <2>2. ASSUME NEW d \in Calls
        PROVE  /\ outbox'[d].call = d
               /\ pc'[d] \in Unsent \cup Sending => outbox'[d] \in submitted'
               /\ pc'[d] \in Active => up' /\ outbox'[d].run = run'
    BY <1>1, <1>2, <2>2 DEF IndInv, InHand, Unsent, Sending
  <2> QED
    BY <2>1, <2>2 DEF InHand
<1>6. OnlySubmitted'
  BY <1>1, <1>3, <1>4 DEF IndInv, OnlySubmitted, AppsIn
<1>7. AcksHonest' /\ RecordedWasDelivered'
  BY <1>1, <1>3, <1>4 DEF IndInv, AcksHonest, RecordedWasDelivered
<1>8. OneEnvelope'
  <2>1. \A d \in Calls : pc'[d] \in Uncalled \cup Unsent => pc[d] \in Uncalled \cup Unsent
    BY <1>1
  <2> QED
    BY <1>1, <2>1 DEF IndInv, OneEnvelope, AppsIn
<1>9. DeliveredIsRecorded' /\ DeliveredAtMostOnce'
  BY <1>1, <1>3 DEF IndInv, DeliveredIsRecorded, HasArrived, DeliveredAtMostOnce
<1> QED
  BY <1>5, <1>6, <1>7, <1>8, <1>9 DEF IndInv, TypeInv

(***************************************************************************)
(* A thread puts a copy of its message on the wire: the first one, when    *)
(* there is no other, or one more with the envelope of the others.         *)
(***************************************************************************)
LEMMA TransmitKeeps ==
  ASSUME IndInv, TypeInv', OneNumbering => Numbered', UNCHANGED rmdVars, NEW c \in Calls,
         FirstSend(c) \/ Resend(c)
  PROVE  IndInv'
<1> USE InHandFacts
<1> DEFINE b0 == outbox[c]
           s0 == envelope'[c]
<1>1. /\ pc[c] = "waiting" \/ (pc[c] = "sleeping" /\ s0 = envelope[c])
      /\ pc'[c] \in {"checking", "abandoned"}
      /\ \A d \in Calls \ {c} : pc'[d] = pc[d] /\ envelope'[d] = envelope[d]
      /\ UNCHANGED <<outbox, submitted, run, up, beans, confirmed>>
  BY DEF FirstSend, Resend, Goto, storeVars, processVars, historyVars
<1>2. net' = net \cup {App(s0, b0)}
  BY DEF FirstSend, Resend, Put
<1>3. b0 \in submitted /\ b0.call = c
  BY <1>1 DEF IndInv, InHand, Unsent, Sending
<1>4. /\ App(s0, b0) \in AppsIn(net)'
      /\ App(s0, b0).app = b0 /\ App(s0, b0).seq = s0
      /\ \A m \in AppsIn(net)' : m \in AppsIn(net) \/ m = App(s0, b0)
  BY <1>2 DEF AppsIn, App
<1>5. UNCHANGED <<delivered, redelivered, completed>>
  BY DEF rmdVars
<1>6. \A m \in AppsIn(net) : /\ m.seq = envelope[m.app.call] /\ m.seq \in SeqIds
                             /\ m.app \in submitted /\ m.app.call \in Calls
  BY MessageFields DEF IndInv, OneEnvelope, OnlySubmitted, AppsIn, TypeOK
<1>7. s0 = envelope[c] \/ envelope[c] = NoSeq
  BY <1>1 DEF IndInv, OneEnvelope, Unsent
<1> HIDE DEF b0, s0
<1>8. RecordedWasDelivered' /\ DeliveredAtMostOnce'
  BY <1>1, <1>5 DEF IndInv, RecordedWasDelivered, DeliveredAtMostOnce
<1>9. InHand'
  BY <1>1, <1>3 DEF IndInv, InHand, b0, Uncalled, Unsent, Sending, Active
<1>10. OnlySubmitted'
  BY <1>1, <1>3, <1>4, <1>5 DEF IndInv, OnlySubmitted
<1>11. AcksHonest'
  BY <1>2, <1>5 DEF IndInv, AcksHonest, App
<1>12. OneEnvelope'
  <2>1. \A d \in Calls : pc'[d] \in Uncalled \cup Unsent => envelope'[d] = NoSeq
    BY <1>1 DEF IndInv, OneEnvelope, Uncalled, Unsent
  <2>2. ASSUME NEW m \in AppsIn(net)' PROVE m.seq = envelope'[m.app.call]
    <3>1. CASE m \in AppsIn(net)
      BY <1>1, <1>6, <1>7, <3>1, NoSeqAssumption DEF s0
    <3>2. CASE m = App(s0, b0)
      BY <1>3, <1>4, <3>2 DEF s0
    <3> QED
      BY <1>4, <3>1, <3>2
  <2> QED
    BY <2>1, <2>2 DEF OneEnvelope
<1>13. DeliveredIsRecorded'
  <2>1. ASSUME NEW b \in delivered PROVE envelope'[b.call] = envelope[b.call]
    <3>1. b.call \in Calls /\ envelope[b.call] \in SeqIds
      BY <2>1 DEF IndInv, DeliveredIsRecorded, HasArrived, OnlySubmitted
    <3> QED
      BY <1>1, <1>7, <3>1, NoSeqAssumption DEF s0
  <2> QED
    BY <1>5, <2>1 DEF IndInv, DeliveredIsRecorded, HasArrived
<1> QED
  BY <1>8, <1>9, <1>10, <1>11, <1>12, <1>13 DEF IndInv, TypeInv

(***************************************************************************)
(* The RMD.  Every acknowledgement lists what is recorded, and the list    *)
(* only grows.                                                             *)
(***************************************************************************)
LEMMA AcceptKeeps ==
  ASSUME IndInv, TypeInv', OneNumbering => Numbered', UNCHANGED rmsVars, NEW m \in net,
         AcceptApp(m)
  PROVE  IndInv'
<1>1. /\ m.seq \in SeqIds /\ m.app \in submitted /\ m \in AppsIn(net)
      /\ completed \in [SeqIds -> SUBSET Nos]
  BY MessageFields DEF AcceptApp, IndInv, TypeOK, RMDTypeOK, OnlySubmitted, AppsIn
<1>2. completed' = [completed EXCEPT ![m.seq] = @ \cup {m.app.no}]
  BY DEF AcceptApp
<1>3. \A s \in SeqIds : /\ completed[s] \subseteq completed'[s]
                        /\ s # m.seq => completed'[s] = completed[s]
  BY <1>1, <1>2
<1>4. completed'[m.seq] = completed[m.seq] \cup {m.app.no}
  BY <1>1, <1>2
<1>5. AppsIn(net)' = AppsIn(net)
  BY DEF AppsIn, AcceptApp, Put, AckOf, Ack
<1>6. UNCHANGED <<outbox, envelope, pc, submitted, run, up, beans, confirmed>>
  BY DEF rmsVars, storeVars, threadVars, processVars, historyVars
<1>7. /\ delivered \subseteq delivered' /\ delivered' \subseteq delivered \cup {m.app}
      /\ EmptyBody(m.app) \/ m.app \in delivered'
  BY DEF AcceptApp
<1>8. m.seq = envelope[m.app.call]
  BY <1>1 DEF IndInv, OneEnvelope
<1>9. m.app \notin delivered
  <2> SUFFICES ASSUME m.app \in delivered PROVE FALSE
    OBVIOUS
  <2>1. m.app.no \in completed[m.seq]
    BY <1>8 DEF IndInv, DeliveredIsRecorded, HasArrived
  <2> QED
    BY <2>1 DEF AcceptApp, AlreadyReceived
<1>10. DeliveredAtMostOnce'
  BY <1>9 DEF IndInv, DeliveredAtMostOnce, AcceptApp
<1>11. InHand'
  BY <1>6 DEF IndInv, InHand
<1>12. OnlySubmitted'
  BY <1>1, <1>5, <1>6, <1>7 DEF IndInv, OnlySubmitted
<1>13. AcksHonest'
  <2> SUFFICES ASSUME NEW a \in net', a.type \in {"Ack", "CloseSequenceResponse"}
               PROVE  a.nos \subseteq completed'[a.seq]
    BY DEF AcksHonest
  <2>1. CASE a \in net
    <3>1. a.seq \in SeqIds
      BY <2>1, MessageFields DEF IndInv, TypeOK
    <3> QED
      BY <1>3, <2>1, <3>1 DEF IndInv, AcksHonest
  <2>2. CASE a = AckOf(m.seq)
    BY <2>2 DEF AckOf, Ack
  <2> QED
    BY <2>1, <2>2 DEF AcceptApp, Put
<1>14. RecordedWasDelivered'
  <2> SUFFICES ASSUME NEW s \in SeqIds, NEW n \in completed'[s]
               PROVE  \E b \in submitted' : b.no = n /\ (EmptyBody(b) \/ b \in delivered')
    BY DEF RecordedWasDelivered
  <2>1. CASE n \in completed[s]
    BY <1>6, <1>7, <2>1 DEF IndInv, RecordedWasDelivered
  <2>2. CASE n = m.app.no
    BY <1>1, <1>6, <1>7, <2>2
  <2> QED
    BY <1>3, <1>4, <2>1, <2>2
<1>15. OneEnvelope'
  BY <1>5, <1>6 DEF IndInv, OneEnvelope
<1>16. DeliveredIsRecorded'
  <2> SUFFICES ASSUME NEW b \in delivered'
               PROVE  envelope[b.call] \in SeqIds /\ b.no \in completed'[envelope[b.call]]
    BY <1>6 DEF DeliveredIsRecorded, HasArrived
  <2>1. CASE b \in delivered
    BY <1>3, <2>1 DEF IndInv, DeliveredIsRecorded, HasArrived
  <2>2. CASE b = m.app
    BY <1>1, <1>4, <1>8, <2>2
  <2> QED
    BY <1>7, <2>1, <2>2
<1> QED
  BY <1>10, <1>11, <1>12, <1>13, <1>14, <1>15, <1>16 DEF IndInv, TypeInv

LEMMA NothingDelivered ==
  ASSUME IndInv, TypeInv', OneNumbering => Numbered', UNCHANGED rmsVars,
         UNCHANGED <<delivered, redelivered>>,
         AppsIn(net)' \subseteq AppsIn(net),
         \A s \in SeqIds : completed[s] \subseteq completed'[s],
         \A s \in SeqIds : \A n \in completed'[s] \ completed[s] :
           \E b \in submitted : b.no = n /\ EmptyBody(b),
         \A m \in net' \ net : m.type \in {"Ack", "CloseSequenceResponse"} =>
           m.nos \subseteq completed'[m.seq]
  PROVE  IndInv'
<1>1. UNCHANGED <<outbox, envelope, pc, submitted, run, up, beans, confirmed>>
  BY DEF rmsVars, storeVars, threadVars, processVars, historyVars
<1>2. InHand' /\ DeliveredAtMostOnce'
  BY <1>1 DEF IndInv, InHand, DeliveredAtMostOnce
<1>3. OnlySubmitted'
  BY <1>1 DEF IndInv, OnlySubmitted
<1>4. AcksHonest'
  <2>1. \A m \in net : m.type \in {"Ack", "CloseSequenceResponse"} => m.seq \in SeqIds
    BY MessageFields DEF IndInv, TypeOK
  <2> QED
    BY <2>1 DEF IndInv, AcksHonest
<1>5. RecordedWasDelivered'
  BY <1>1 DEF IndInv, RecordedWasDelivered
<1>6. OneEnvelope'
  BY <1>1 DEF IndInv, OneEnvelope
<1>7. DeliveredIsRecorded'
  BY <1>1 DEF IndInv, DeliveredIsRecorded, HasArrived
<1> QED
  BY <1>2, <1>3, <1>4, <1>5, <1>6, <1>7 DEF IndInv, TypeInv

LEMMA RMDKeeps ==
  ASSUME IndInv, TypeInv', OneNumbering => Numbered', UNCHANGED rmsVars, NEW m \in net,
         RMDReceive(m)
  PROVE  IndInv'
<1>1. completed \in [SeqIds -> SUBSET Nos]
  BY DEF IndInv, TypeOK, RMDTypeOK
<1>2. CASE ReceiveCreateSequence(m)
  BY <1>2, NothingDelivered DEF ReceiveCreateSequence, Put, CreateSequenceResponse, AppsIn
<1>3. CASE DropDuplicate(m)
  BY <1>3, NothingDelivered DEF DropDuplicate, Put, AckOf, Ack, AppsIn, rmdVars
<1>4. CASE RefuseClosed(m)
  <2>1. m.app \in submitted /\ m.seq \in SeqIds
    BY <1>4, MessageFields DEF RefuseClosed, IndInv, TypeOK, OnlySubmitted, AppsIn
  <2>2. /\ \A s \in SeqIds : completed[s] \subseteq completed'[s]
        /\ \A s \in SeqIds : \A n \in completed'[s] \ completed[s] :
             n = m.app.no /\ EmptyBody(m.app)
    BY <1>1, <1>4, <2>1 DEF RefuseClosed
  <2>3. AppsIn(net)' \subseteq AppsIn(net)
    BY <1>4 DEF RefuseClosed, Put, SequenceClosedFault, AppsIn
  <2>4. \A a \in net' \ net : a.type = "SequenceClosed"
    BY <1>4 DEF RefuseClosed, Put, SequenceClosedFault
  <2> QED
    BY <1>4, <2>1, <2>2, <2>3, <2>4, NothingDelivered DEF RefuseClosed
<1>5. CASE AcceptApp(m)
  BY <1>5, AcceptKeeps
<1>6. CASE ReceiveCloseSequence(m)
  BY <1>6, NothingDelivered DEF ReceiveCloseSequence, Put, CloseSequenceResponse, AppsIn
<1>7. CASE ReceiveTerminateSequence(m)
  BY <1>7, NothingDelivered DEF ReceiveTerminateSequence, Put, TerminateSequenceResponse, AppsIn
<1> QED
  BY <1>2, <1>3, <1>4, <1>5, <1>6, <1>7 DEF RMDReceive

-----------------------------------------------------------------------------
LEMMA IndInit == Init => IndInv
<1> SUFFICES ASSUME Init PROVE IndInv
  OBVIOUS
<1>1. TypeInv
  BY TypeInit
<1>2. /\ net = {} /\ submitted = {} /\ delivered = {} /\ confirmed = {} /\ beans = {}
      /\ redelivered = {} /\ completed = [s \in SeqIds |-> {}]
      /\ \A c \in Calls : /\ pc[c] = "idle" /\ creator[c] = "off"
                          /\ outbox[c].call = c /\ envelope[c] = NoSeq
  BY DEF Init, RMSInit, RMDInit
<1>3. Numbered /\ InHand
  BY <1>2 DEF Numbered, OneThread, NumbersUsed, NumbersUnique, InHand, Active, Unsent, Sending
<1> QED
  BY <1>1, <1>2, <1>3
  DEF IndInv, TypeInv, OnlySubmitted, AcksHonest, RecordedWasDelivered, OneEnvelope,
      DeliveredIsRecorded, DeliveredAtMostOnce, AppsIn

LEMMA IndNext == IndInv /\ [Next]_vars => IndInv'
<1> SUFFICES ASSUME IndInv, [Next]_vars PROVE IndInv'
  OBVIOUS
<1>1. TypeInv' /\ (OneNumbering => Numbered')
  BY IndInvType, TypeNext, NumberedNext
<1>2. CASE SourceStep /\ UNCHANGED rmdVars
  <2>1. ASSUME NEW c \in Calls, NEW kind \in ChosenKinds, Send(c, kind) PROVE IndInv'
    BY <1>1, <1>2, <2>1, CallKeeps
  <2>2. ASSUME NEW c \in Calls, ThreadStep(c) PROVE IndInv'
    BY <1>1, <1>2, <2>2, CallKeeps, TransmitKeeps, QuietThread, QuietKeeps
  <2>3. ASSUME NEW c \in Calls, WorkerStep(c) PROVE IndInv'
    BY <1>1, <1>2, <2>3, QuietWorker, QuietKeeps
  <2>4. ASSUME NEW m \in net, RMSReceive(m) PROVE IndInv'
    BY <1>1, <1>2, <2>4, QuietReceive, QuietKeeps
  <2>5. ASSUME Close \/ Halt \/ Crash \/ Restart PROVE IndInv'
    BY <1>1, <1>2, <2>5, QuietProcess, QuietKeeps
  <2> QED
    BY <1>2, <2>1, <2>2, <2>3, <2>4, <2>5 DEF SourceStep
<1>3. CASE DestinationStep /\ UNCHANGED rmsVars
  BY <1>1, <1>3, RMDKeeps DEF DestinationStep
<1>4. ASSUME net' \subseteq net, UNCHANGED <<rmsVars, rmdVars>> PROVE IndInv'
  <2>1. AppsIn(net)' \subseteq AppsIn(net)
    BY <1>4 DEF AppsIn
  <2> QED
    BY <1>1, <1>4, <2>1, NothingDelivered DEF rmdVars
<1>5. CASE Lose /\ UNCHANGED <<rmsVars, rmdVars>>
  BY <1>4, <1>5 DEF Lose
<1>6. CASE UNCHANGED vars
  BY <1>4, <1>6 DEF vars
<1> QED
  BY <1>2, <1>3, <1>5, <1>6 DEF Next

(***************************************************************************)
(* What makes the safety properties inductive holds of every behaviour:    *)
(* each message has one envelope and one place where its delivery is       *)
(* recorded, and, where one thread numbers them and no worker may time the *)
(* sequence out, a number of its own.                                      *)
(***************************************************************************)
THEOREM Inductive == Spec => []IndInv
  BY IndInit, IndNext, PTL DEF Spec

(***************************************************************************)
(* Exactly-once, the "at most" half: whatever is lost, repeated, reordered *)
(* or restarted, with any policy, no message is given to the service twice.*)
(***************************************************************************)
THEOREM AtMostOnce == Spec => []DeliveredAtMostOnce
<1>1. IndInv => DeliveredAtMostOnce
  BY DEF IndInv
<1> QED
  BY IndInit, IndNext, <1>1, PTL DEF Spec

-----------------------------------------------------------------------------
(***************************************************************************)
(* What the steps do to the histories: ReadNumber submits, acknowledgements*)
(* confirm, and nothing is ever taken back.                                *)
(***************************************************************************)
LEMMA SourceHistory ==
  ASSUME SourceStep
  PROVE  \/ UNCHANGED historyVars
         \/ \E c \in Calls : ReadNumber(c)
         \/ \E m \in net : RMSReceive(m)
<1> USE DEF historyVars
<1>1. ASSUME NEW c \in Calls, NEW kind \in ChosenKinds, Send(c, kind) PROVE UNCHANGED historyVars
  BY <1>1 DEF Send
<1>2. ASSUME NEW c \in Calls, ThreadStep(c), ~ReadNumber(c) PROVE UNCHANGED historyVars
  BY <1>2
  DEF ThreadStep, NumberRefused, WriteNumber, LookForCreate, AskForSequence, InlineLookUp,
      InlineCreateResend, InlineCreateTimesOut, StoreMessage, StoreTimesOut, FirstSend, LookUp,
      CountAttempt, TimesOut, Resend
<1>3. ASSUME NEW c \in Calls, WorkerStep(c) PROVE UNCHANGED historyVars
  BY <1>3 DEF WorkerStep, WorkerLookUp, WorkerResend, WorkerTimesOut
<1>4. ASSUME Close \/ Halt \/ Crash \/ Restart PROVE UNCHANGED historyVars
  BY <1>4 DEF Close, Halt, Crash, Restart
<1> QED
  BY <1>1, <1>2, <1>3, <1>4 DEF SourceStep

LEMMA Confirms ==
  ASSUME NEW m \in net, RMSReceive(m)
  PROVE  /\ submitted' = submitted
         /\ \/ confirmed' = confirmed
            \/ /\ m.type \in {"Ack", "CloseSequenceResponse"}
               /\ \E acked \in Acknowledged(m.nos) : confirmed' = confirmed \cup acked
<1>1. CASE ReceiveCreateSequenceResponse(m)
  BY <1>1 DEF ReceiveCreateSequenceResponse, historyVars
<1>2. CASE ReceiveAck(m)
  BY <1>2 DEF ReceiveAck, Acknowledge
<1>3. CASE ReceiveCloseSequenceResponse(m)
  BY <1>3 DEF ReceiveCloseSequenceResponse, Acknowledge
<1> QED
  BY <1>1, <1>2, <1>3 DEF RMSReceive

LEMMA AckedRows ==
  ASSUME IndInv, NEW m \in net, m.type \in {"Ack", "CloseSequenceResponse"},
         NEW acked \in Acknowledged(m.nos)
  PROVE  /\ m.seq \in SeqIds /\ m.nos \subseteq completed[m.seq] /\ m.nos \subseteq Nos
         /\ acked \subseteq submitted
         /\ \A b \in acked : b.no \in completed[m.seq]
<1>1. m.seq \in SeqIds /\ m.nos \subseteq completed[m.seq] /\ m.nos \subseteq Nos
  BY MessageFields DEF IndInv, TypeOK, AcksHonest
<1> QED
  BY <1>1, InHandFacts DEF Acknowledged

(***************************************************************************)
(* With one run of the process a number that is given once is one message. *)
(***************************************************************************)
LEMMA OneRun ==
  ASSUME IndInv, Numbered, run = 1
  PROVE  \A b, c \in submitted : b.no = c.no => b = c
<1>1. \A d \in submitted : d.run \in Nat /\ d.run >= 1 /\ d.run <= 1
  BY DEF IndInv, TypeOK, RMSTypeOK, AppMsgs, Runs, Numbered, NumbersUsed
<1>2. \A d \in submitted : d.run = 1
  BY <1>1
<1> QED
  BY <1>2 DEF Numbered, NumbersUnique

LEMMA OutboxKinds ==
  ASSUME IndInv, SourceStep
  PROVE  \A c \in Calls : \/ outbox'[c].kind = outbox[c].kind
                          \/ outbox'[c].kind \in ChosenKinds
<1>1. outbox \in [Calls -> AppMsgs]
  BY InHandFacts
<1>2. ASSUME NEW c \in Calls, NEW kind \in ChosenKinds, Send(c, kind)
      PROVE  \A d \in Calls : outbox'[d].kind \in {outbox[d].kind, kind}
  BY <1>1, <1>2 DEF Send
<1>3. ASSUME NEW c \in Calls, ReadNumber(c)
      PROVE  \A d \in Calls : outbox'[d].kind = outbox[d].kind
  <2>1. PICK n \in Nos : outbox' = [outbox EXCEPT ![c].no = n]
    BY <1>3 DEF ReadNumber
  <2> QED
    BY <1>1, <2>1 DEF AppMsgs
<1>4. ASSUME NEW c \in Calls, ThreadStep(c), ~ReadNumber(c) PROVE outbox' = outbox
  BY <1>4
  DEF ThreadStep, NumberRefused, WriteNumber, LookForCreate, AskForSequence, InlineLookUp,
      InlineCreateResend, InlineCreateTimesOut, StoreMessage, StoreTimesOut, FirstSend, LookUp,
      CountAttempt, TimesOut, Resend
<1>5. ASSUME NEW c \in Calls, WorkerStep(c) PROVE outbox' = outbox
  BY <1>5 DEF WorkerStep, WorkerLookUp, WorkerResend, WorkerTimesOut
<1>6. ASSUME NEW m \in net, RMSReceive(m) PROVE outbox' = outbox
  BY <1>6 DEF RMSReceive, ReceiveCreateSequenceResponse, ReceiveAck,
              ReceiveCloseSequenceResponse, threadVars
<1>7. ASSUME Close \/ Halt \/ Crash \/ Restart PROVE outbox' = outbox
  BY <1>7 DEF Close, Halt, Crash, Restart, KillThreads, threadVars
<1> QED
  BY <1>2, <1>3, <1>4, <1>5, <1>6, <1>7 DEF SourceStep

LEMMA DeliveredGrows ==
  ASSUME [Next]_vars
  PROVE  delivered \subseteq delivered'
<1>1. CASE UNCHANGED rmdVars
  BY <1>1 DEF rmdVars
<1>2. CASE DestinationStep
  BY <1>2 DEF DestinationStep, RMDReceive, ReceiveCreateSequence, DropDuplicate, RefuseClosed,
              AcceptApp, ReceiveCloseSequence, ReceiveTerminateSequence, rmdVars
<1> QED
  BY <1>1, <1>2 DEF Next, vars

LEMMA SubmittedGrows ==
  ASSUME [Next]_vars
  PROVE  submitted \subseteq submitted'
<1>1. CASE UNCHANGED rmsVars
  BY <1>1 DEF rmsVars, historyVars
<1>2. CASE SourceStep
  BY <1>2, SourceHistory, Confirms DEF historyVars, ReadNumber
<1> QED
  BY <1>1, <1>2 DEF Next, vars

(***************************************************************************)
(* An acknowledgement removes rows of the numbers it lists, it lists what  *)
(* is recorded, and what is recorded was delivered.                        *)
(***************************************************************************)
ConfirmedInv == IndInv /\ ConfirmedNumberDelivered

LEMMA ConfirmedNumberNext == ConfirmedInv /\ [Next]_vars => ConfirmedInv'
<1> SUFFICES ASSUME ConfirmedInv, [Next]_vars PROVE ConfirmedInv'
  OBVIOUS
<1> USE DEF ConfirmedInv
<1> DEFINE Backed(b) == \E d \in submitted : d.no = b.no /\ (EmptyBody(d) \/ d \in delivered)
<1>1. IndInv' /\ delivered \subseteq delivered' /\ submitted \subseteq submitted'
  BY IndNext, DeliveredGrows, SubmittedGrows
<1>2. ASSUME \A b \in confirmed' : Backed(b) PROVE ConfirmedNumberDelivered'
  <2> SUFFICES ASSUME NEW b \in confirmed'
               PROVE  \E d \in submitted' : d.no = b.no /\ (EmptyBody(d) \/ d \in delivered')
    BY DEF ConfirmedNumberDelivered
  <2>1. PICK d \in submitted : d.no = b.no /\ (EmptyBody(d) \/ d \in delivered)
    BY <1>2
  <2> QED
    BY <1>1, <2>1
<1>3. \A b \in confirmed : Backed(b)
  BY DEF ConfirmedNumberDelivered
<1>4. ASSUME NEW m \in net, m.type \in {"Ack", "CloseSequenceResponse"},
             NEW acked \in Acknowledged(m.nos), NEW b \in acked
      PROVE  Backed(b)
  BY <1>4, AckedRows DEF IndInv, RecordedWasDelivered
<1> HIDE DEF Backed
<1>5. CASE UNCHANGED confirmed
  BY <1>1, <1>2, <1>3, <1>5
<1>6. ASSUME NEW m \in net, RMSReceive(m) PROVE \A b \in confirmed' : Backed(b)
  BY <1>3, <1>4, <1>6, Confirms
<1>7. CASE SourceStep
  BY <1>1, <1>2, <1>5, <1>6, <1>7, SourceHistory DEF historyVars, ReadNumber
<1>8. CASE UNCHANGED rmsVars
  BY <1>5, <1>8 DEF rmsVars, historyVars
<1> QED
  BY <1>7, <1>8 DEF Next, vars

(***************************************************************************)
(* What a confirmation is worth to any client, also one whose threads give *)
(* two messages one number: some message of the number was handed to the   *)
(* service, or the number is one of an empty body.                         *)
(***************************************************************************)
THEOREM ConfirmedIsDelivered == Spec => []ConfirmedNumberDelivered
<1>1. Init => ConfirmedInv
  BY IndInit DEF ConfirmedInv, ConfirmedNumberDelivered, Init, RMSInit
<1>2. ConfirmedInv => ConfirmedNumberDelivered
  BY DEF ConfirmedInv
<1> QED
  BY ConfirmedNumberNext, <1>1, <1>2, PTL DEF Spec
=============================================================================
