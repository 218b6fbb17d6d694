----------------------------- MODULE WireFacts ------------------------------
(***************************************************************************)
(* Facts about the messages of Wire that the proofs of OneWay and          *)
(* DeliveryRace rest on.                                                   *)
(***************************************************************************)
EXTENDS Wire, TLAPS

(***************************************************************************)
(* The fields of a message of each type.                                   *)
(***************************************************************************)
LEMMA MessageFields ==
  ASSUME NEW m \in Messages
  PROVE  /\ m.type = "CreateSequence" => m.id \in Calls
         /\ m.type = "CreateSequenceResponse" => m.relatesTo \in Calls /\ m.seq \in SeqIds
         /\ m.type = "App" => m.seq \in SeqIds /\ m.app \in AppMsgs
         /\ m.type \in {"Ack", "CloseSequenceResponse"} => m.seq \in SeqIds /\ m.nos \in SUBSET Nos
         /\ m.type \in {"CloseSequence", "TerminateSequence"} => m.seq \in SeqIds
  BY DEF Messages

LEMMA MessageTypes ==
  /\ \A id \in Calls : CreateSequence(id) \in Messages
  /\ \A id \in Calls, s \in SeqIds : CreateSequenceResponse(id, s) \in Messages
  /\ \A s \in SeqIds, b \in AppMsgs : App(s, b) \in Messages
  /\ \A s \in SeqIds, nos \in SUBSET Nos :
       /\ Ack(s, nos) \in Messages
       /\ CloseSequenceResponse(s, nos) \in Messages
       /\ TerminateSequenceResponse(s, nos) \in Messages
  /\ \A s \in SeqIds :
       /\ SequenceClosedFault(s) \in Messages
       /\ CloseSequence(s) \in Messages
       /\ TerminateSequence(s) \in Messages
  BY DEF Messages, CreateSequence, CreateSequenceResponse, App, Ack, SequenceClosedFault,
         CloseSequence, CloseSequenceResponse, TerminateSequence, TerminateSequenceResponse
=============================================================================
