----------------------------- MODULE MCDelivery -----------------------------
(* DeliveryRace on small instances. *)
EXTENDS DeliveryRace

Message(no, kind) == [call |-> no, run |-> 1, no |-> no, kind |-> kind]

\* Messages with and without a body, the last indicator, close and terminate.
AllRequests ==
  {App(s, Message(1, "plain")) : s \in SeqIds}
    \cup {App(s, Message(2, "bodiless")) : s \in SeqIds}
    \cup {App(s, Message(3, "last")) : s \in SeqIds}
    \cup {CloseSequence(s) : s \in SeqIds} \cup {TerminateSequence(s) : s \in SeqIds}

\* Application messages only: all of them have to arrive.
AppRequests ==
  {App(s, Message(1, "plain")) : s \in SeqIds}
    \cup {App(s, Message(2, "plain")) : s \in SeqIds}
    \cup {App(s, Message(3, "last")) : s \in SeqIds}
=============================================================================
