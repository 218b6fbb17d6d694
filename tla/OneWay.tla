------------------------------- MODULE OneWay -------------------------------
(***************************************************************************)
(* A client sends one-way messages to a service over one reliable          *)
(* sequence: RMSource and RMDestination joined by the wire.                *)
(***************************************************************************)
EXTENDS RMSource, RMDestination

CONSTANT Lossy      \* messages may also disappear from the wire (a matter of
                    \* liveness only: not being received is always possible)
ASSUME LossyAssumption == Lossy \in BOOLEAN

vars == <<net, rmsVars, rmdVars>>

Init == net = {} /\ RMSInit /\ RMDInit

SourceStep ==
  \/ \E c \in Calls, kind \in ChosenKinds : Send(c, kind)
  \/ \E c \in Calls : ThreadStep(c) \/ WorkerStep(c)
  \/ \E m \in net : RMSReceive(m)
  \/ Close \/ Halt \/ Crash \/ Restart

DestinationStep == \E m \in net : RMDReceive(m)

(***************************************************************************)
(* The RMD would answer the next CreateSequence with a fresh identifier;   *)
(* the bound on SeqIds stops that, so the last response is not lost.       *)
(***************************************************************************)
Lose ==
  /\ Lossy
  /\ \E m \in net :
       /\ m.type = "CreateSequenceResponse" => known # SeqIds
       /\ net' = net \ {m}

Next ==
  \/ SourceStep /\ UNCHANGED rmdVars
  \/ DestinationStep /\ UNCHANGED rmsVars
  \/ Lose /\ UNCHANGED <<rmsVars, rmdVars>>

Spec == Init /\ [][Next]_vars

-----------------------------------------------------------------------------
(***************************************************************************)
(* Fairness.  Threads of a running process are scheduled.  FairChannel     *)
(* says that a message that is sent again and again arrives in the end.    *)
(***************************************************************************)
FairThreads ==
  \A c \in Calls : /\ WF_vars(ThreadStep(c) /\ UNCHANGED rmdVars)
                   /\ WF_vars(WorkerStep(c) /\ UNCHANGED rmdVars)

Arrives(m) ==
  \/ RMSReceive(m) /\ UNCHANGED rmdVars
  \/ RMDReceive(m) /\ UNCHANGED rmsVars

FairChannel ==
  /\ \A n \in Nos :
       /\ SF_vars(\E m \in net : m.type = "App" /\ m.app.no = n /\ Arrives(m))
       /\ SF_vars(\E m \in net : m.type = "Ack" /\ n \in m.nos /\ Arrives(m))
  /\ \A t \in {"CreateSequence", "CreateSequenceResponse"} :
       SF_vars(\E m \in net : m.type = t /\ Arrives(m))

FairSpec == Spec /\ FairThreads
FairChannelSpec == FairSpec /\ FairChannel

-----------------------------------------------------------------------------
(***************************************************************************)
(* Every variable keeps its type.                                          *)
(***************************************************************************)
TypeOK == net \subseteq Messages /\ RMSTypeOK /\ RMDTypeOK
(***************************************************************************)
(* What an acknowledgement has taken out of the sender table was handed to *)
(* the service at the other end; only RM 1.0's empty LastMessage signal is *)
(* for the RMD alone.  (ack_msg_processor removes rows by number, the RMD  *)
(* acknowledges by sequence: retransmissions, repeated CreateSequences and *)
(* late acknowledgements must not make the two disagree.)                  *)
(***************************************************************************)
NoMessageLost ==
  \A b \in confirmed : b.kind = "signal" \/ b \in delivered

(***************************************************************************)
(* What is left of it for every client, also for one whose threads give    *)
(* two messages the same number: a message is confirmed only when some     *)
(* message of its number was handed to the service.                        *)
(***************************************************************************)
ConfirmedNumberDelivered ==
  \A b \in confirmed : \E d \in submitted :
    d.no = b.no /\ (EmptyBody(d) \/ d \in delivered)

(***************************************************************************)
(* The composition implements ReliableDelivery: under the identity mapping *)
(* of its three histories every step is a submission, a delivery, a        *)
(* confirmation or invisible.                                              *)
(***************************************************************************)
Delivery == INSTANCE ReliableDelivery
              WITH Message <- AppMsgs,
                   Payload <- {b \in AppMsgs : b.kind # "signal"}

ImplementsReliableDelivery == Delivery!Spec

(***************************************************************************)
(* No message is handed to the service twice, however often it is resent   *)
(* and whatever became of its sequence in the meantime.                    *)
(***************************************************************************)
DeliveredAtMostOnce == redelivered = {}

(***************************************************************************)
(* The acknowledgement of a closed sequence is final: what the RMD has     *)
(* recorded for it changes no more (seq_closed fault: "The Sequence is     *)
(* closed and can not accept new messages").                               *)
(***************************************************************************)
FinalAckIsFinal ==
  [][\A s \in closed : completed'[s] = completed[s]]_vars

(***************************************************************************)
(* The sequence is terminated only when everything submitted on it has     *)
(* been acknowledged (ack_msg_processor logs "Sequence is completed" before*)
(* it adds the terminate message).                                         *)
(***************************************************************************)
TerminateOnlyWhenComplete == terminateAdded => submitted \subseteq confirmed

(***************************************************************************)
(* The message the RMD regards as the last one of a sequence is the        *)
(* highest it has accepted: nothing higher arrives after the terminate     *)
(* message or the LastMessage indicator (terminate_seq_msg_processor marks *)
(* the highest inbound message as the last one).                           *)
(***************************************************************************)
LastInIsHighest ==
  \A s \in SeqIds : lastIn[s] = 0 \/ lastIn[s] = highestIn[s]

(***************************************************************************)
(* A send call returns: no thread of the application is kept for ever in   *)
(* the CreateSequence loop, the wait for a sequence, or the resend loop.   *)
(***************************************************************************)
SendReturns == \A c \in Calls : pc[c] \in Active ~> pc[c] \in Idle

(***************************************************************************)
(* If the channel delivers, a message that was submitted is acknowledged.  *)
(***************************************************************************)
EventuallyConfirmed ==
  \A c \in Calls :
    (\E b \in submitted : b.call = c) ~> (\E b \in confirmed : b.call = c)
=============================================================================
