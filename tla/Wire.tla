-------------------------------- MODULE Wire --------------------------------
(***************************************************************************)
(* What travels between the source of an outgoing sequence (the RMS) and   *)
(* its destination (the RMD).  net only grows: a message that was sent can *)
(* arrive late, twice, out of order, or (by a receive step that is never   *)
(* taken) not at all.                                                      *)
(***************************************************************************)
EXTENDS Naturals, FiniteSets

CONSTANTS MaxMsg,   \* bound: message numbers of one numbering period
          MaxCalls, \* bound: send calls of the application
          MaxRun,   \* bound: runs of the client process with one sequence key
          SeqIds,   \* identifiers the RMD gives to incoming sequences
          NoSeq,    \* a property table without an OUTGOING_SEQUENCE_ID row
          Spec10    \* the sequence is one of WS-RM 1.0 (2005/02), else of 1.1

ASSUME BoundsAssumption == {MaxMsg, MaxCalls, MaxRun} \subseteq Nat \ {0}
ASSUME NoSeqAssumption == NoSeq \notin SeqIds
ASSUME VersionAssumption == Spec10 \in BOOLEAN

VARIABLE net        \* every message sent so far

Nos == 1 .. MaxMsg
Calls == 1 .. MaxCalls
Runs == 1 .. MaxRun

(***************************************************************************)
(* An application message: the send call it comes from, the run of the     *)
(* client process and the number it is given, which another message may    *)
(* be given too.  "last" carries the LastMessage element of RM 1.0,        *)
(* "signal" is RM 1.0's LastMessage without an application payload,        *)
(* "bodiless" an application message whose SOAP body happens to be empty.  *)
(***************************************************************************)
Kinds == {"plain", "last", "signal", "bodiless"}
AppMsgs == [call : Calls, run : Runs, no : Nos, kind : Kinds]

EmptyBody(b) == b.kind \in {"signal", "bodiless"}
LastIndicator(b) == b.kind \in {"last", "signal"}

CreateSequence(id) == [type |-> "CreateSequence", id |-> id]
CreateSequenceResponse(id, s) ==
  [type |-> "CreateSequenceResponse", relatesTo |-> id, seq |-> s]
App(s, b) == [type |-> "App", seq |-> s, app |-> b]
Ack(s, nos) == [type |-> "Ack", seq |-> s, nos |-> nos]
SequenceClosedFault(s) == [type |-> "SequenceClosed", seq |-> s]
CloseSequence(s) == [type |-> "CloseSequence", seq |-> s]
CloseSequenceResponse(s, nos) ==
  [type |-> "CloseSequenceResponse", seq |-> s, nos |-> nos]
TerminateSequence(s) == [type |-> "TerminateSequence", seq |-> s]
TerminateSequenceResponse(s, nos) ==
  [type |-> "TerminateSequenceResponse", seq |-> s, nos |-> nos]

Messages ==
  [type : {"CreateSequence"}, id : Calls]
    \cup [type : {"CreateSequenceResponse"}, relatesTo : Calls, seq : SeqIds]
    \cup [type : {"App"}, seq : SeqIds, app : AppMsgs]
    \cup [type : {"Ack", "CloseSequenceResponse", "TerminateSequenceResponse"},
          seq : SeqIds, nos : SUBSET Nos]
    \cup [type : {"SequenceClosed", "CloseSequence", "TerminateSequence"},
          seq : SeqIds]

Put(m) == net' = net \cup {m}
=============================================================================
