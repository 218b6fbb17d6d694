--------------------------- MODULE DeliverySerial ---------------------------
(***************************************************************************)
(* The receiving side as it was when no message was in hand: what          *)
(* RMDestination, which takes a message in one step, shows of it.          *)
(***************************************************************************)
EXTENDS DeliveryRace

quiet == IF \A h \in Handlers : at[h] = "idle" THEN Visible ELSE before

Atomic == INSTANCE RMDestination
            WITH known <- SeqIds, net <- quiet.net, completed <- quiet.completed,
                 highestIn <- quiet.highestIn, lastIn <- quiet.lastIn,
                 closed <- quiet.closed, delivered <- quiet.delivered,
                 redelivered <- quiet.redelivered

(***************************************************************************)
(* One handler thread handles a message as RMDestination says, as long as  *)
(* the server does not die in between.                                     *)
(***************************************************************************)
AtomicUntilCrash ==
  [][crashes' = 0 => \E m \in Requests : Atomic!RMDReceive(m)]_quiet

-----------------------------------------------------------------------------
(***************************************************************************)
(* The inductive invariant of its proof: what the statements so far have   *)
(* changed since the thread took the message in hand.                      *)
(***************************************************************************)
TerminatePlaces == {"readHighestNumber", "readHighestId", "markHighest"}
OpenPlaces == AppPlaces \ {"ackAgain", "recordEmpty", "checkClosed"}
HighestWritten == {"writeHighestId", "reread", "record", "markLast", "ack", "deliver"}

ListWritten(h) ==
  \/ at[h] \in {"markLast", "ack", "deliver"}
  \/ /\ at[h] \in {"checkClosed", "readHighest", "writeHighest", "writeHighestId", "reread"}
     /\ EmptyBody(app(h))

Answered(h) ==
  CASE at[h] \in TerminatePlaces /\ ~Spec10 ->
         {TerminateSequenceResponse(seq(h), before.completed[seq(h)])}
    [] at[h] = "deliver" -> {Ack(seq(h), completed[seq(h)])}
    [] OTHER -> {}

Changed(h) ==
  /\ net = before.net \cup Answered(h)
  /\ completed = IF ListWritten(h)
                   THEN [before.completed EXCEPT ![seq(h)] = @ \cup {app(h).no}]
                   ELSE before.completed
  /\ highestIn = IF at[h] \in HighestWritten
                   THEN [before.highestIn EXCEPT
                           ![seq(h)] = IF IsHigher(app(h).no, @) THEN app(h).no ELSE @]
                   ELSE before.highestIn
  /\ lastIn = IF at[h] \in {"ack", "deliver"} /\ LastIndicator(app(h))
                THEN [before.lastIn EXCEPT ![seq(h)] = app(h).no]
                ELSE before.lastIn
  /\ closed = IF at[h] = "answerClose" THEN before.closed \cup {seq(h)} ELSE before.closed
  /\ delivered = before.delivered /\ redelivered = before.redelivered

(***************************************************************************)
(* The way the thread has come: the decisions it made on the rows are the  *)
(* ones RMDestination makes on them all at once.                           *)
(***************************************************************************)
Decided(h) ==
  /\ at[h] \in AppPlaces =>
       (app(h).no \in before.completed[seq(h)] <=> at[h] = "ackAgain")
  /\ at[h] \in OpenPlaces => seq(h) \notin before.closed
  /\ at[h] = "writeHighestId" => IsHigher(app(h).no, before.highestIn[seq(h)])
  /\ at[h] = "record" => ~EmptyBody(app(h))
  /\ at[h] = "markLast" => LastIndicator(app(h))
  /\ at[h] \in {"markLast", "ack"} => (paused[h] <=> EmptyBody(app(h)))
  /\ at[h] = "answerClose" => msg[h].type = "CloseSequence"
  /\ at[h] \in TerminatePlaces => msg[h].type = "TerminateSequence"
  /\ at[h] \in {"readHighestId", "markHighest"} => highestIn[seq(h)] # 0

(***************************************************************************)
(* Without a crash the row of the highest message's id follows the row of  *)
(* its number.                                                             *)
(***************************************************************************)
IdFollows(h) ==
  /\ highestId = IF at[h] = "writeHighestId" THEN before.highestIn ELSE highestIn
  /\ at[h] = "writeHighest" => seen[h] = highestIn[seq(h)]
  /\ at[h] = "writeHighestId" => seen[h] = before.highestIn[seq(h)]
  /\ at[h] = "markHighest" => seen[h] = highestIn[seq(h)]

InStep(h) == IdFollows(h) /\ (at[h] # "idle" => Changed(h) /\ Decided(h))

AtomicInv == crashes = 0 => \A h \in Handlers : InStep(h)
=============================================================================
