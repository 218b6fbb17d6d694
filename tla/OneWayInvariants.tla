-------------------------- MODULE OneWayInvariants --------------------------
(***************************************************************************)
(* The facts that make OneWay's safety properties inductive.  They are     *)
(* checked by TLC as invariants and used by OneWayProofs.                  *)
(***************************************************************************)
EXTENDS OneWay

Uncalled == {"idle", "called"}
Unsent == {"counted", "starting", "asking", "creating", "recreating", "numbered", "waiting"}
Sending == {"checking", "due", "sleeping"}

AppsIn(messages) == {m \in messages : m.type = "App"}

(***************************************************************************)
(* A message is the one its send call has in hand, from the moment it has  *)
(* a number; only a running process has threads.                           *)
(***************************************************************************)
InHand ==
  /\ \A b \in submitted : outbox[b.call] = b /\ pc[b.call] \notin Uncalled
  /\ \A c \in Calls : /\ outbox[c].call = c
                      /\ pc[c] \in Unsent \cup Sending => outbox[c] \in submitted
                      /\ pc[c] \in Active => up /\ outbox[c].run = run

(***************************************************************************)
(* Until its first transmission a message has no envelope, and then always *)
(* the same: all its copies carry it.                                      *)
(***************************************************************************)
HasEnvelope == \A c \in Calls : pc[c] \in Sending => envelope[c] # NoSeq

OneEnvelope ==
  /\ \A c \in Calls : pc[c] \in Uncalled \cup Unsent => envelope[c] = NoSeq
  /\ \A m \in AppsIn(net) : m.seq = envelope[m.app.call]

(***************************************************************************)
(* Rows of the sender table, messages on the wire, deliveries and          *)
(* confirmations are all of submitted messages.                            *)
(***************************************************************************)
OnlySubmitted ==
  /\ beans \subseteq submitted
  /\ confirmed \subseteq submitted
  /\ delivered \subseteq submitted
  /\ \A m \in AppsIn(net) : m.app \in submitted

(***************************************************************************)
(* An acknowledgement lists what the RMD has recorded, and what it has     *)
(* recorded was submitted and, if it had a body, delivered.                *)
(***************************************************************************)
AcksHonest ==
  \A m \in net :
    m.type \in {"Ack", "CloseSequenceResponse"} => m.nos \subseteq completed[m.seq]

RecordedWasDelivered ==
  \A s \in SeqIds : \A n \in completed[s] :
    \E b \in submitted : b.no = n /\ (EmptyBody(b) \/ b \in delivered)

(***************************************************************************)
(* A message has arrived if its number is recorded on the sequence of its  *)
(* envelope, the only one a copy of it can still arrive on.                *)
(***************************************************************************)
HasArrived(b) == envelope[b.call] \in SeqIds /\ b.no \in completed[envelope[b.call]]

DeliveredIsRecorded == \A b \in delivered : HasArrived(b)

(***************************************************************************)
(* With one sending thread, and nobody else who may time the sequence out, *)
(* a number is given once in a run of the process.  The number of a thread *)
(* that has not written it yet is above the one used last; after a         *)
(* time-out the count starts again at 0, but then the flag, and after it   *)
(* the exit, keep the run from sending.                                    *)
(***************************************************************************)
WorkerNeverTimesOut == CreateInline \/ (MaxAttempts = 0 /\ ~InactivityTimeout)
OneNumbering == Sequential /\ WorkerNeverTimesOut

OneThread ==
  /\ \A c, d \in Calls : pc[c] \in Active /\ pc[d] \in Active => c = d
  /\ \A c \in Calls : /\ pc[c] \in Active /\ pc[c] \notin Sending => ~timedOut
                      /\ CreateInline => creator[c] = "off"

NumbersUsed ==
  \A b \in submitted :
    /\ b.run <= run
    /\ (b.run = run /\ up /\ ~timedOut) =>
         IF pc[b.call] = "counted" THEN b.no > prevNo ELSE b.no <= prevNo

NumbersUnique ==
  \A b, c \in submitted : (b.run = c.run /\ b.no = c.no) => b = c

Numbered == OneThread /\ NumbersUsed /\ NumbersUnique

(***************************************************************************)
(* The inductive invariant: each message has one envelope and one place    *)
(* where its delivery is recorded, and, where one thread numbers them, a   *)
(* number of its own.                                                      *)
(***************************************************************************)
IndInv ==
  /\ TypeOK
  /\ InHand /\ HasEnvelope /\ OneEnvelope
  /\ OnlySubmitted
  /\ AcksHonest /\ RecordedWasDelivered /\ DeliveredIsRecorded
  /\ DeliveredAtMostOnce
  /\ OneNumbering => Numbered

(***************************************************************************)
(* With one run of the process a number that is given once identifies a    *)
(* message; nobody sends an empty body that is not the LastMessage signal. *)
(***************************************************************************)
SingleRun ==
  /\ run = 1
  /\ \A c \in Calls : outbox[c].kind # "bodiless"

-----------------------------------------------------------------------------
(***************************************************************************)
(* What makes the end of a sequence right.  What the RMD has recorded are  *)
(* numbers of messages of that sequence.                                   *)
(***************************************************************************)
RecordedHasArrived ==
  \A s \in SeqIds : \A n \in completed[s] :
    \E b \in submitted : b.no = n /\ envelope[b.call] = s

ConfirmedHasArrived == \A b \in confirmed : HasArrived(b)

(***************************************************************************)
(* Until a time-out, a thread leaves its message only when the row is      *)
(* gone, and only an acknowledgement removes rows.                         *)
(***************************************************************************)
Stored == {"waiting", "done"} \cup Sending

LeftWhenConfirmed ==
  up /\ ~timedOut =>
    \A b \in submitted :
      /\ pc[b.call] \in Active \cup {"done"}
      /\ pc[b.call] \in Stored => b \in beans \cup confirmed
      /\ pc[b.call] = "done" => b \in confirmed

ArrivalInv ==
  /\ run = 1
  /\ RecordedHasArrived /\ ConfirmedHasArrived /\ LeftWhenConfirmed

(***************************************************************************)
(* RM 1.0, one sending thread: when the last message is announced every    *)
(* other one has arrived, so only the last one itself can still be         *)
(* recorded.                                                               *)
(***************************************************************************)
LastSent == \E b \in submitted : LastIndicator(b)

AllArrivedAtLast ==
  \A b \in submitted : LastIndicator(b) =>
    \A c \in submitted : c.no <= b.no /\ (c = b \/ HasArrived(c))

LastFinishes ==
  \A c \in Calls : pc[c] # "idle" /\ LastIndicator(outbox[c]) =>
    finished /\ \A d \in Calls : pc[d] = "called" => d = c

AfterLast ==
  /\ AllArrivedAtLast /\ LastFinishes
  /\ lastOutNo > 0 => LastSent
  /\ \A m \in net : /\ m.type = "TerminateSequence" => LastSent
                    /\ m.type \notin {"CloseSequence", "CloseSequenceResponse"}
  /\ \A s \in SeqIds :
       /\ lastIn[s] # 0 => LastSent
       /\ highestIn[s] # 0 => \E b \in submitted : b.no = highestIn[s]

(***************************************************************************)
(* RM 1.1: a sequence whose last message is marked is closed.              *)
(***************************************************************************)
AfterClose ==
  /\ lastOutNo = 0
  /\ \A c \in Calls : ~LastIndicator(outbox[c])
  /\ \A m \in net :
       m.type \in {"CloseSequenceResponse", "TerminateSequence"} => m.seq \in closed
  /\ \A s \in SeqIds : lastIn[s] # 0 => s \in closed

LastInv == LastInIsHighest /\ IF Spec10 THEN AfterLast ELSE AfterClose

(***************************************************************************)
(* RM 1.1, one sending thread: the application closes when its sends have  *)
(* returned, and a timed-out sequence has no identifier to close.          *)
(***************************************************************************)
ClosedWhenComplete ==
  /\ timedOut => outSeq = NoSeq /\ createIds = {}
  /\ \/ finished /\ submitted \subseteq confirmed /\ NothingSending
     \/ /\ ~terminateAdded
        /\ \A m \in net : m.type \notin {"CloseSequence", "CloseSequenceResponse"}
=============================================================================
