--------------------------- MODULE ServerResponses ---------------------------
(***************************************************************************)
(* A service that answers.  One incoming sequence brings requests, some of *)
(* them to one-way operations; the responses of the others go back on one  *)
(* outgoing sequence.  In "replay" the client has no address: a response   *)
(* leaves on the connection its request came on.  In "dual" the client     *)
(* listens: every response is given to a worker thread that repeats it     *)
(* until it is acknowledged.                                               *)
(*                                                                         *)
(* An action is what a thread does up to the next point where what another *)
(* thread does could change it: in between lie the statements that read or *)
(* write the rows, each a transaction of its own.  Recording a request and *)
(* queueing its acknowledgement is one action (DeliveryRace takes it       *)
(* apart).  The model ends with the process.                               *)
(***************************************************************************)
EXTENDS Integers, FiniteSets

CONSTANTS Threads,       \* threads of the server that handle requests
          Requests,      \* message numbers of the requests the client may send
          SeqIds,        \* identifiers the client gives to response sequences
          Offer,         \* the one it gives in an Offer
          NoSeq,         \* a property table without OUTGOING_SEQUENCE_ID
          Settings,      \* the clients and policies a run starts with
          MaxAttempts    \* the policy's maximum of retransmissions

(***************************************************************************)
(* twoWay and oneWay are the requests the client sends to operations with  *)
(* and without a response, offered says that its CreateSequence had an     *)
(* Offer (in replay it has), inactivity that the policy has an inactivity  *)
(* timeout, ends that the client terminates its sequence (in replay the    *)
(* answer would be left to MakeConnection, which is not modelled), last is *)
(* the request with RM 1.0's last indicator, none under RM 1.1.            *)
(***************************************************************************)
NoRequest == 0

SettingType ==
  [channel : {"replay", "dual"}, offered : BOOLEAN, inactivity : BOOLEAN, ends : BOOLEAN,
   last : Requests \cup {NoRequest}, twoWay : SUBSET Requests, oneWay : SUBSET Requests]

ASSUME RequestsAssumption == Requests \subseteq Nat \ {0}
ASSUME NoSeqAssumption == Offer \in SeqIds /\ NoSeq \notin SeqIds
ASSUME AttemptsAssumption == MaxAttempts \in Nat \ {0}
ASSUME SettingsAssumption ==
  /\ Settings \subseteq SettingType
  /\ \A c \in Settings : /\ c.twoWay \cap c.oneWay = {}
                         /\ c.channel = "replay" => c.offered /\ ~c.ends

VARIABLES
  setting,      \* the client and the policy
  net,          \* every message sent so far except requests
  \* rows of the SQLite file
  recorded,     \* SERVER_COMPLETED_MESSAGES of the incoming sequence
  lastNo,       \* NEXT_MESSAGE_NUMBER of the outgoing one, 0 for no row
  outSeq,       \* OUTGOING_SEQUENCE_ID
  ours,         \* sequences mapped to this outgoing sequence
  createSent,   \* OUT_CREATE_SEQ_SENT
  createIds,    \* create_seq beans
  createRows,   \* CreateSequence messages of the sender table
  rows,         \* requests whose response is in the sender table
  ackRows,      \* acknowledgements of the sender table that name a sequence
  timedOut,     \* SEQ_TIMED_OUT
  completed,    \* CLIENT_COMPLETED_MESSAGES of the outgoing sequence
  relatesTo,    \* HIGHEST_OUT_RELATES_TO, the request of the newest response
  lastIn,       \* LAST_IN_MESSAGE_ID of the incoming sequence
  lastOut,      \* there is a LAST_OUT_MESSAGE_NO
  terminateAdded,          \* TERMINATE_ADDED
  stored,       \* message contexts kept for the rows
  \* threads
  at, req,      \* of a handler thread: where it is and its request
  creator, createCount,    \* a CreateSequence's worker, its attempts
  number,                  \* of a response: its number, 0 for none yet
  worker, attempts,        \* its worker, the attempts counted in its row
  envelope, carried,       \* the sequence and the acknowledgement in its message
  down,         \* the process is gone
  \* the client
  known,        \* the response sequences it has made
  clientHas,    \* responses it has received, by sequence and number
  bareGiven,    \* history: requests whose bare response its application was given
  again,        \* history: requests whose response it was given once more
  confirmed     \* history: requests whose response was acknowledged

ending == <<completed, relatesTo, lastIn, lastOut, terminateAdded>>
sequenceRows == <<lastNo, outSeq, ours, createSent, createIds, createRows, timedOut, ending>>
messageRows == <<rows, stored>>
handlers == <<at, req, number>>
creators == <<creator, createCount>>
workers == <<worker, attempts, envelope, carried>>
client == <<known, clientHas, bareGiven, again>>
vars == <<setting, net, recorded, sequenceRows, messageRows, ackRows, handlers, creators,
          workers, down, client, confirmed>>

TwoWay == setting.twoWay
OneWay == setting.oneWay
NeverSent == -1     \* sent_count of a new row

-----------------------------------------------------------------------------
(***************************************************************************)
(* Messages.  A "Bare" response has no Sequence element yet; the client's  *)
(* TerminateSequence may bring an acknowledgement of responses (nos), the  *)
(* service's one of requests (acks).                                       *)
(***************************************************************************)
Response(s, n, r, nos) == [type |-> "Response", seq |-> s, no |-> n, req |-> r, acks |-> nos]
Bare(r, nos) == [type |-> "Bare", req |-> r, acks |-> nos]
RequestAck(nos) == [type |-> "RequestAck", acks |-> nos]
ResponseAck(s, nos) == [type |-> "ResponseAck", seq |-> s, nos |-> nos]
CreateSequence(r) == [type |-> "CreateSequence", id |-> r]
CreateSequenceResponse(r, s) == [type |-> "CreateSequenceResponse", id |-> r, seq |-> s]
ClientTerminate(s, nos) == [type |-> "ClientTerminate", seq |-> s, nos |-> nos]
Terminate(s, nos) == [type |-> "Terminate", seq |-> s, acks |-> nos]

Put(m) == net' = net \cup {m}

Init ==
  /\ setting \in Settings
  /\ net = {}
  /\ recorded = {} /\ lastNo = 0
  /\ IF setting.offered
       THEN outSeq = Offer /\ ours = {Offer} /\ known = {Offer}
       ELSE outSeq = NoSeq /\ ours = {} /\ known = {}
  /\ createSent = FALSE /\ createIds = {} /\ createRows = {}
  /\ rows = {} /\ ackRows = {} /\ timedOut = FALSE /\ stored = {}
  /\ completed = {} /\ relatesTo = NoRequest /\ lastIn = NoRequest
  /\ lastOut = FALSE /\ terminateAdded = FALSE
  /\ at = [t \in Threads |-> "idle"]
  /\ req = [t \in Threads |-> NoRequest]
  /\ number = [r \in Requests |-> 0]
  /\ creator = [r \in Requests |-> "off"]
  /\ createCount = [r \in Requests |-> NeverSent]
  /\ worker = [r \in Requests |-> "off"]
  /\ attempts = [r \in Requests |-> NeverSent]
  /\ envelope = [r \in Requests |-> NoSeq]
  /\ carried = [r \in Requests |-> {}]
  /\ down = FALSE
  /\ clientHas = {} /\ bareGiven = {} /\ again = {} /\ confirmed = {}

-----------------------------------------------------------------------------
(***************************************************************************)
(* Retransmission adjuster and what it does when it gives up: the rows and *)
(* stored contexts of the outgoing sequence and its deletable properties   *)
(* go, the mapping of its identifiers, the acknowledgements and            *)
(* TERMINATE_ADDED stay.                                                   *)
(***************************************************************************)
AttemptsLeftOffByOne(c) == c <= MaxAttempts             \* mutant
AttemptsLeft(c) == c < MaxAttempts
CountedNot(c) == c                                       \* mutant
Counted(c) == c + 1
MayTimeOut(c) == ~AttemptsLeft(c) \/ setting.inactivity

TimeOutSequence ==
  /\ rows' = {}
  /\ stored' = stored \ rows
  /\ lastNo' = 0 /\ outSeq' = NoSeq
  /\ createSent' = FALSE /\ createIds' = {} /\ createRows' = {}
  /\ timedOut' = TRUE
  /\ completed' = {} /\ relatesTo' = NoRequest /\ lastOut' = FALSE
  /\ UNCHANGED <<ours, lastIn, terminateAdded>>

-----------------------------------------------------------------------------
(***************************************************************************)
(* An acknowledgement for the client.  That of a one-way request is sent.  *)
(* That of a two-way request is, in dual, left in the sender table for a   *)
(* worker to pick up (one that names no sequence is never picked up, and   *)
(* left out here; one row here stands for one or more equal rows) and, in  *)
(* replay, left to the response.                                           *)
(***************************************************************************)
AckIfRequired(r, nos) ==
  IF r \in OneWay
    THEN Put(RequestAck(nos)) /\ UNCHANGED ackRows
    ELSE /\ ackRows' = IF setting.channel = "dual" /\ outSeq # NoSeq
                         THEN ackRows \cup {[seq |-> outSeq, nos |-> nos]}
                         ELSE ackRows
         /\ UNCHANGED net

Take(t, r, to) ==
  /\ at' = [at EXCEPT ![t] = to]
  /\ req' = [req EXCEPT ![t] = IF to = "idle" THEN NoRequest ELSE r]
  /\ UNCHANGED number

AcceptRequest(t, r) ==
  /\ ~down /\ at[t] = "idle" /\ r \notin recorded
  /\ recorded' = recorded \cup {r}
  /\ lastIn' = IF r = setting.last THEN r ELSE lastIn
  /\ AckIfRequired(r, recorded')
  /\ Take(t, r, IF r \in TwoWay THEN "service" ELSE "idle")
  /\ UNCHANGED <<setting, lastNo, outSeq, ours, createSent, createIds, createRows, timedOut,
                 completed, relatesTo, lastOut, terminateAdded, messageRows, creators,
                 workers, down, client, confirmed>>

(***************************************************************************)
(* A request that was recorded before.  The row of its response is looked  *)
(* for by the number of the request.                                       *)
(***************************************************************************)
Sequenced(r) == worker[r] \in {"checking", "due", "done"}

ResponseOnNewest(r, nos) ==                              \* mutant
  IF Sequenced(r) THEN Response(outSeq, number[r], r, nos) ELSE Bare(r, nos)
ResponseTo(r, nos) ==
  IF Sequenced(r) THEN Response(envelope[r], number[r], r, nos) ELSE Bare(r, nos)

Numbered(n) == {r \in rows : number[r] = n}

RepeatResponse(t, r) ==
  /\ ~down /\ at[t] = "idle" /\ r \in recorded
  /\ \E b \in stored :
       /\ Numbered(r) = {b}
       /\ carried' = [carried EXCEPT ![b] = recorded]
       /\ Put(ResponseTo(b, recorded))
  /\ UNCHANGED <<setting, recorded, sequenceRows, messageRows, ackRows, handlers, creators,
                 worker, attempts, envelope, down, client, confirmed>>

(***************************************************************************)
(* The row is there but no message context was stored for it (in replay    *)
(* none ever is): the code goes on with a null pointer, and the process    *)
(* dies or nothing is sent.                                                *)
(***************************************************************************)
RepeatNothing(t, r) ==
  /\ ~down /\ at[t] = "idle" /\ r \in recorded
  /\ \E b \in rows \ stored : Numbered(r) = {b}
  /\ down' = TRUE
  /\ UNCHANGED <<setting, net, recorded, sequenceRows, messageRows, ackRows, handlers,
                 creators, workers, client, confirmed>>

AckAgain(t, r) ==
  /\ ~down /\ at[t] = "idle" /\ r \in recorded
  /\ Cardinality(Numbered(r)) # 1
  /\ AckIfRequired(r, recorded)
  /\ UNCHANGED <<setting, recorded, sequenceRows, messageRows, handlers, creators, workers,
                 down, client, confirmed>>

-----------------------------------------------------------------------------
(***************************************************************************)
(* The response on its way out.  A sequence that has timed out before ends *)
(* the process.                                                            *)
(***************************************************************************)
Goto(t, from, to) ==
  /\ ~down /\ at[t] = from
  /\ at' = [at EXCEPT ![t] = to]

CheckTimedOut(t) ==
  \/ /\ Goto(t, "service", "checked")
     /\ ~timedOut
     /\ UNCHANGED <<setting, net, recorded, sequenceRows, messageRows, ackRows, req, number,
                    creators, workers, down, client, confirmed>>
  \/ /\ ~down /\ at[t] = "service"
     /\ timedOut
     /\ down' = TRUE
     /\ UNCHANGED <<setting, net, recorded, sequenceRows, messageRows, ackRows, handlers,
                    creators, workers, client, confirmed>>

AlwaysFirstNo(n) == 1                                    \* mutant
NextNo(n) == n + 1

ReadLastNo(t) ==
  /\ Goto(t, "checked", "numbered")
  /\ number' = [number EXCEPT ![req[t]] = NextNo(lastNo)]
  /\ UNCHANGED <<setting, net, recorded, sequenceRows, messageRows, ackRows, req, creators,
                 workers, down, client, confirmed>>

(***************************************************************************)
(* The first number asks for a sequence if there is none and none was      *)
(* asked for when it looks.                                                *)
(***************************************************************************)
WriteLastNo(t) ==
  /\ Goto(t, "numbered", IF number[req[t]] = 1 THEN "starting" ELSE "unsaved")
  /\ lastNo' = number[req[t]]
  /\ UNCHANGED <<setting, net, recorded, outSeq, ours, createSent, createIds, createRows,
                 timedOut, ending, messageRows, ackRows, req, number, creators, workers,
                 down, client, confirmed>>

LookForCreate(t) ==
  /\ Goto(t, "starting", IF outSeq = NoSeq /\ ~createSent THEN "asking" ELSE "unsaved")
  /\ UNCHANGED <<setting, net, recorded, sequenceRows, messageRows, ackRows, req, number,
                 creators, workers, down, client, confirmed>>

AskForSequence(t) ==
  /\ Goto(t, "asking", "unsaved")
  /\ createSent' = TRUE
  /\ createIds' = createIds \cup {req[t]}
  /\ createRows' = createRows \cup {req[t]}
  /\ creator' = [creator EXCEPT ![req[t]] = "checking"]
  /\ UNCHANGED <<setting, net, recorded, lastNo, outSeq, ours, timedOut, ending, messageRows,
                 ackRows, req, number, createCount, workers, down, client, confirmed>>

WithRowRefused(r) == rows                                \* mutant
WithRow(r) == rows \cup {r}

\* A response to the request that counts as the last one is the last response.
InsertRow(t) ==
  /\ Goto(t, "unsaved", IF setting.channel = "replay" THEN "reply" ELSE "unstored")
  /\ relatesTo' = req[t]
  /\ lastOut' = (lastOut \/ lastIn = req[t])
  /\ rows' = WithRow(req[t])
  /\ UNCHANGED <<setting, net, recorded, lastNo, outSeq, ours, createSent, createIds,
                 createRows, timedOut, completed, lastIn, terminateAdded, stored, ackRows,
                 req, number, creators, workers, down, client, confirmed>>

(***************************************************************************)
(* Replay: wait for the sequence, without a bound, and answer on the       *)
(* request's connection, once.                                             *)
(***************************************************************************)
Reply(t) ==
  /\ ~down /\ at[t] = "reply" /\ outSeq # NoSeq
  /\ Put(Response(outSeq, number[req[t]], req[t], recorded))
  /\ Take(t, req[t], "idle")
  /\ UNCHANGED <<setting, recorded, sequenceRows, messageRows, ackRows, creators, workers,
                 down, client, confirmed>>

(***************************************************************************)
(* Dual: count an attempt (this one is not saved), store the message and   *)
(* start its worker.                                                       *)
(***************************************************************************)
StartWorker(t) ==
  /\ ~down /\ at[t] = "unstored"
  /\ stored' = stored \cup {req[t]}
  /\ worker' = [worker EXCEPT ![req[t]] = "starting"]
  /\ Take(t, req[t], "idle")
  /\ UNCHANGED <<setting, net, recorded, sequenceRows, rows, ackRows, creators, attempts,
                 envelope, carried, down, client, confirmed>>

StartTimesOut(t) ==
  /\ ~down /\ at[t] = "unstored" /\ setting.inactivity
  /\ TimeOutSequence
  /\ Take(t, req[t], "idle")
  /\ UNCHANGED <<setting, net, recorded, ackRows, creators, workers, down, client, confirmed>>

-----------------------------------------------------------------------------
(***************************************************************************)
(* The worker of a CreateSequence: it looks for a row, counts an attempt   *)
(* and sends, until the row is gone or it gives the sequence up.           *)
(***************************************************************************)
CreateLookUp(r) ==
  /\ ~down /\ creator[r] = "checking"
  /\ creator' = [creator EXCEPT ![r] = IF Cardinality(createRows) = 1 THEN "due" ELSE "off"]
  /\ UNCHANGED <<setting, net, recorded, sequenceRows, messageRows, ackRows, handlers,
                 createCount, workers, down, client, confirmed>>

CreateSend(r) ==
  /\ ~down /\ creator[r] = "due" /\ AttemptsLeft(createCount[r])
  /\ createCount' = [createCount EXCEPT ![r] = Counted(@)]
  /\ creator' = [creator EXCEPT ![r] = "checking"]
  /\ Put(CreateSequence(r))
  /\ UNCHANGED <<setting, recorded, sequenceRows, messageRows, ackRows, handlers, workers,
                 down, client, confirmed>>

CreateTimesOut(r) ==
  /\ ~down /\ creator[r] = "due" /\ MayTimeOut(createCount[r])
  /\ TimeOutSequence
  /\ creator' = [creator EXCEPT ![r] = "off"]
  /\ UNCHANGED <<setting, net, recorded, ackRows, handlers, createCount, workers, down,
                 client, confirmed>>

-----------------------------------------------------------------------------
(***************************************************************************)
(* The worker of a response.  It waits for the sequence, and counts the    *)
(* waiting as attempts.                                                    *)
(***************************************************************************)
WorkerGoes(r, from, to) ==
  /\ ~down /\ worker[r] = from
  /\ worker' = [worker EXCEPT ![r] = to]

AfterLook(s) == IF s = NoSeq THEN "waiting" ELSE "linked"

WorkerStarts(r) ==
  /\ WorkerGoes(r, "starting", IF r \in rows THEN AfterLook(outSeq) ELSE "done")
  /\ envelope' = [envelope EXCEPT ![r] = IF r \in rows THEN outSeq ELSE @]
  /\ UNCHANGED <<setting, net, recorded, sequenceRows, messageRows, ackRows, handlers,
                 creators, attempts, carried, down, client, confirmed>>

WorkerWaits(r) ==
  /\ WorkerGoes(r, "waiting", "looking")
  /\ AttemptsLeft(attempts[r])
  /\ attempts' = [attempts EXCEPT ![r] = Counted(@)]
  /\ UNCHANGED <<setting, net, recorded, sequenceRows, messageRows, ackRows, handlers,
                 creators, envelope, carried, down, client, confirmed>>

WorkerLooksAgain(r) ==
  /\ WorkerGoes(r, "looking", AfterLook(outSeq))
  /\ envelope' = [envelope EXCEPT ![r] = outSeq]
  /\ UNCHANGED <<setting, net, recorded, sequenceRows, messageRows, ackRows, handlers,
                 creators, attempts, carried, down, client, confirmed>>

(***************************************************************************)
(* The Sequence element goes into the message and, unless the message has  *)
(* an acknowledgement already, the oldest one that waits: its row is       *)
(* removed here.  Lists only grow, so the oldest is the smallest.          *)
(***************************************************************************)
OldestFor(s) ==
  {a \in ackRows : a.seq = s /\ \A b \in ackRows : b.seq = s => a.nos \subseteq b.nos}

PiggybackAll(a) == {ackRows \ {b \in ackRows : b.seq = a.seq}}  \* mutant
WithoutOldest(a) == {ackRows, ackRows \ {a}}

CompleteMessage(r) ==
  /\ WorkerGoes(r, "linked", "checking")
  /\ \/ /\ carried[r] # {} \/ OldestFor(envelope[r]) = {}
        /\ UNCHANGED <<carried, ackRows>>
     \/ /\ carried[r] = {}
        /\ \E a \in OldestFor(envelope[r]) :
             /\ carried' = [carried EXCEPT ![r] = a.nos]
             /\ ackRows' \in WithoutOldest(a)
  /\ UNCHANGED <<setting, net, recorded, sequenceRows, messageRows, handlers, creators,
                 attempts, envelope, down, client, confirmed>>

WorkerLooksUp(r) ==
  /\ WorkerGoes(r, "checking", IF r \in rows THEN "due" ELSE "done")
  /\ UNCHANGED <<setting, net, recorded, sequenceRows, messageRows, ackRows, handlers,
                 creators, attempts, envelope, carried, down, client, confirmed>>

WorkerSends(r) ==
  /\ WorkerGoes(r, "due", "checking")
  /\ AttemptsLeft(attempts[r])
  /\ attempts' = [attempts EXCEPT ![r] = Counted(@)]
  /\ Put(Response(envelope[r], number[r], r, carried[r]))
  /\ UNCHANGED <<setting, recorded, sequenceRows, messageRows, ackRows, handlers, creators,
                 envelope, carried, down, client, confirmed>>

WorkerTimesOut(r) ==
  /\ WorkerGoes(r, worker[r], "done")
  /\ worker[r] \in {"waiting", "due"}
  /\ MayTimeOut(attempts[r])
  /\ TimeOutSequence
  /\ UNCHANGED <<setting, net, recorded, ackRows, handlers, creators, attempts, envelope,
                 carried, down, client, confirmed>>
-----------------------------------------------------------------------------
(***************************************************************************)
(* What arrives from the client besides requests.  Every CreateSequence    *)
(* that reaches the client makes a new sequence; the last answer decides   *)
(* the identifier.                                                         *)
(***************************************************************************)
ReceiveCreateSequenceResponse(m) ==
  /\ ~down /\ m.type = "CreateSequenceResponse" /\ m.id \in createIds
  /\ outSeq' = m.seq
  /\ ours' = ours \cup {m.seq}
  /\ createRows' = IF Cardinality(createRows) = 1 THEN {} ELSE createRows
  /\ UNCHANGED <<setting, net, recorded, lastNo, createSent, createIds, timedOut, ending,
                 messageRows, ackRows, handlers, creators, workers, down, client, confirmed>>

(***************************************************************************)
(* An acknowledgement removes, for every number it lists, the first row    *)
(* with that number, and the stored message with it.                       *)
(***************************************************************************)
AckedUpTo(nos) ==                                        \* mutant
  {{r \in rows : \E n \in nos : number[r] <= n}}
OneRowEach(nos) ==
  {S \in SUBSET {r \in rows : number[r] \in nos} :
     /\ \A q, r \in S : number[q] = number[r] => q = r
     /\ \A r \in rows : number[r] \in nos => \E q \in S : number[q] = number[r]}

(***************************************************************************)
(* The list of the acknowledged is replaced (after a time-out only by an   *)
(* acknowledgement of the new sequence: the old list has become a row of   *)
(* the old one).                                                           *)
(***************************************************************************)
Acknowledge(m) ==
  /\ \E acked \in OneRowEach(m.nos) :
       /\ rows' = rows \ acked
       /\ stored' = stored \ acked
       /\ confirmed' = confirmed \cup acked
  /\ completed' = IF timedOut /\ m.seq # outSeq THEN completed ELSE m.nos

(***************************************************************************)
(* The end of the outgoing sequence: once, after which acknowledgements    *)
(* are ignored, and with the oldest waiting acknowledgement.               *)
(***************************************************************************)
SendTerminate(s, others) ==
  /\ terminateAdded' = TRUE
  /\ \/ /\ OldestFor(s) = {}
        /\ net' = net \cup others \cup {Terminate(s, {})}
        /\ UNCHANGED ackRows
     \/ \E a \in OldestFor(s) :
          /\ net' = net \cup others \cup {Terminate(s, a.nos)}
          /\ ackRows' \in WithoutOldest(a)

SendOthers(others) ==
  net' = net \cup others /\ UNCHANGED <<terminateAdded, ackRows>>

\* A last response is known: its sequence is terminated, complete or not.
ReceiveAck(m) ==
  /\ ~down /\ m.type = "ResponseAck" /\ m.seq \in ours /\ ~terminateAdded
  /\ Acknowledge(m)
  /\ IF lastOut THEN SendTerminate(m.seq, {}) ELSE SendOthers({})
  /\ UNCHANGED <<setting, recorded, lastNo, outSeq, ours, createSent, createIds, createRows,
                 timedOut, relatesTo, lastIn, lastOut, handlers, creators, workers, down, client>>

(***************************************************************************)
(* The client ends its sequence.  Under RM 1.1 it is answered with an      *)
(* acknowledgement of every request.  An acknowledgement it brings is      *)
(* processed first; the outgoing sequence is then terminated if it covers  *)
(* all numbers given out.  Without one, the highest request is taken for   *)
(* the last, and the outgoing sequence is terminated if the acknowledgement*)
(* that came last covers them, or if any has come and the newest response  *)
(* is not that to the highest request.                                     *)
(***************************************************************************)
HighestIn == CHOOSE r \in recorded : \A q \in recorded : q <= r
HighestOut == IF recorded # {} /\ relatesTo = HighestIn THEN lastNo ELSE 0

AllAckedByNothing(n) == completed = {} \/ 1 .. n \subseteq completed  \* mutant
AllAcked(n) == completed # {} /\ 1 .. n \subseteq completed

TerminateResponse == IF setting.last = NoRequest THEN {RequestAck(recorded)} ELSE {}

Covers(nos) == lastNo > 0 /\ 1 .. lastNo \subseteq nos

ReceiveTerminateWithAck(m) ==
  /\ ~down /\ m.type = "ClientTerminate" /\ m.nos # {} /\ m.seq \in ours
  /\ IF terminateAdded
       THEN SendOthers(TerminateResponse) /\ UNCHANGED <<messageRows, confirmed, completed>>
       ELSE /\ Acknowledge(m)
            /\ IF lastOut \/ Covers(m.nos)
                 THEN SendTerminate(m.seq, TerminateResponse)
                 ELSE SendOthers(TerminateResponse)
  /\ UNCHANGED <<setting, recorded, lastNo, outSeq, ours, createSent, createIds, createRows,
                 timedOut, relatesTo, lastIn, lastOut, handlers, creators, workers, down, client>>

ReceiveTerminate(m) ==
  /\ ~down /\ m.type = "ClientTerminate" /\ m.nos = {}
  /\ lastIn' = IF recorded = {} THEN lastIn ELSE HighestIn
  /\ IF outSeq # NoSeq /\ AllAcked(HighestOut)
       THEN SendTerminate(outSeq, TerminateResponse)
       ELSE SendOthers(TerminateResponse)
  /\ UNCHANGED <<setting, recorded, lastNo, outSeq, ours, createSent, createIds, createRows,
                 timedOut, completed, relatesTo, lastOut, messageRows, handlers, creators,
                 workers, down, client, confirmed>>

-----------------------------------------------------------------------------
(***************************************************************************)
(* The client is the receiving side of the response sequence.              *)
(***************************************************************************)
NumbersIn(has, s) == {x.no : x \in {y \in has : y.seq = s}}
NumbersOf(s) == NumbersIn(clientHas', s)

ClientMakesSequence(m) ==
  /\ m.type = "CreateSequence"
  /\ \E s \in SeqIds \ known :
       /\ known' = known \cup {s}
       /\ Put(CreateSequenceResponse(m.id, s))
  /\ UNCHANGED <<setting, recorded, sequenceRows, messageRows, ackRows, handlers, creators,
                 workers, down, clientHas, bareGiven, again, confirmed>>

Given == {x.req : x \in clientHas} \cup bareGiven
GivenNow(r) == again' = again \cup ({r} \cap Given)

ClientKnows(m) == \E x \in clientHas : x.seq = m.seq /\ x.no = m.no

ClientReceives(m) ==
  /\ m.type = "Response"
  /\ IF ClientKnows(m)
       THEN UNCHANGED <<clientHas, again>>
       ELSE /\ clientHas' = clientHas \cup {[seq |-> m.seq, no |-> m.no, req |-> m.req]}
            /\ GivenNow(m.req)
  /\ Put(ResponseAck(m.seq, NumbersOf(m.seq)))
  /\ UNCHANGED <<setting, recorded, sequenceRows, messageRows, ackRows, handlers, creators,
                 workers, down, known, bareGiven, confirmed>>

(***************************************************************************)
(* Without a Sequence element a response that brings an acknowledgement is *)
(* taken for an acknowledgement: the look for duplicates passes it by, no  *)
(* list records it, and, as it has a body, the application is given it.    *)
(***************************************************************************)
ClientReceivesBare(m) ==
  /\ m.type = "Bare"
  /\ bareGiven' = bareGiven \cup {m.req}
  /\ GivenNow(m.req)
  /\ UNCHANGED <<setting, net, recorded, sequenceRows, messageRows, ackRows, handlers,
                 creators, workers, down, known, clientHas, confirmed>>

(***************************************************************************)
(* It ends its sequence, once, when its requests are acknowledged (RM 1.0: *)
(* when any of them is), which its responses need not be.                  *)
(***************************************************************************)
Acked ==
  UNION {m.acks : m \in {o \in net : o.type \in {"Response", "Bare", "RequestAck", "Terminate"}}}

ClientEnds ==
  /\ setting.ends /\ Acked # {} /\ \A m \in net : m.type # "ClientTerminate"
  /\ setting.last = NoRequest => TwoWay \cup OneWay \subseteq Acked
  /\ \E s \in known : \E nos \in {{}, NumbersIn(clientHas, s)} : Put(ClientTerminate(s, nos))
  /\ UNCHANGED <<setting, recorded, sequenceRows, messageRows, ackRows, handlers, creators,
                 workers, down, client, confirmed>>

-----------------------------------------------------------------------------
Receive(t, r) ==
  AcceptRequest(t, r) \/ RepeatResponse(t, r) \/ RepeatNothing(t, r) \/ AckAgain(t, r)

Answer(t) ==
  \/ CheckTimedOut(t) \/ ReadLastNo(t) \/ WriteLastNo(t) \/ LookForCreate(t)
  \/ AskForSequence(t) \/ InsertRow(t) \/ Reply(t) \/ StartWorker(t) \/ StartTimesOut(t)

CreateWork(r) == CreateLookUp(r) \/ CreateSend(r) \/ CreateTimesOut(r)

Work(r) ==
  \/ WorkerStarts(r) \/ WorkerWaits(r) \/ WorkerLooksAgain(r) \/ CompleteMessage(r)
  \/ WorkerLooksUp(r) \/ WorkerSends(r) \/ WorkerTimesOut(r)

Exchange(m) ==
  \/ ReceiveCreateSequenceResponse(m) \/ ReceiveAck(m)
  \/ ReceiveTerminateWithAck(m) \/ ReceiveTerminate(m)
  \/ ClientMakesSequence(m) \/ ClientReceives(m) \/ ClientReceivesBare(m)

Next ==
  \/ \E t \in Threads : Answer(t) \/ \E r \in TwoWay \cup OneWay : Receive(t, r)
  \/ \E r \in Requests : CreateWork(r) \/ Work(r)
  \/ \E m \in net : Exchange(m)
  \/ ClientEnds

Spec == Init /\ [][Next]_vars

(***************************************************************************)
(* Fairness: the server's threads are scheduled.  RepeatingSpec adds a     *)
(* client that repeats a request until an acknowledgement of it is sent.   *)
(***************************************************************************)
Fairness ==
  /\ \A t \in Threads : WF_vars(Answer(t))
  /\ \A r \in Requests : WF_vars(CreateWork(r)) /\ WF_vars(Work(r))

FairSpec == Spec /\ Fairness

RepeatingSpec ==
  /\ FairSpec
  /\ \A r \in Requests :
       SF_vars(r \in (TwoWay \cup OneWay) \ Acked /\ \E t \in Threads : Receive(t, r))

-----------------------------------------------------------------------------
(***************************************************************************)
(* Every variable keeps its type.                                          *)
(***************************************************************************)
ThreadPlaces ==
  {"idle", "service", "checked", "numbered", "starting", "asking", "unsaved", "unstored", "reply"}
WorkerPlaces ==
  {"off", "starting", "waiting", "looking", "linked", "checking", "due", "done"}

MessageType ==
  [type : {"Response"}, seq : SeqIds, no : Nat \ {0}, req : Requests, acks : SUBSET Requests]
  \cup [type : {"Bare"}, req : Requests, acks : SUBSET Requests]
  \cup [type : {"RequestAck"}, acks : SUBSET Requests]
  \cup [type : {"ResponseAck"}, seq : SeqIds, nos : SUBSET (Nat \ {0})]
  \cup [type : {"ClientTerminate"}, seq : SeqIds, nos : SUBSET (Nat \ {0})]
  \cup [type : {"Terminate"}, seq : SeqIds, acks : SUBSET Requests]
  \cup [type : {"CreateSequence"}, id : Requests]
  \cup [type : {"CreateSequenceResponse"}, id : Requests, seq : SeqIds]

SequenceTypeOK ==
  /\ recorded \subseteq TwoWay \cup OneWay
  /\ lastNo \in Nat /\ outSeq \in SeqIds \cup {NoSeq} /\ ours \subseteq SeqIds
  /\ createSent \in BOOLEAN /\ createIds \subseteq TwoWay /\ createRows \subseteq TwoWay
  /\ rows \subseteq TwoWay /\ stored \subseteq TwoWay /\ timedOut \in BOOLEAN
  /\ ackRows \subseteq [seq : SeqIds, nos : SUBSET Requests]
  /\ completed \subseteq Nat \ {0} /\ relatesTo \in TwoWay \cup {NoRequest}
  /\ lastIn \in TwoWay \cup OneWay \cup {NoRequest}
  /\ lastOut \in BOOLEAN /\ terminateAdded \in BOOLEAN

HandlerTypeOK ==
  /\ at \in [Threads -> ThreadPlaces]
  /\ req \in [Threads -> TwoWay \cup {NoRequest}]
  /\ \A t \in Threads : at[t] # "idle" => req[t] \in TwoWay
  /\ number \in [Requests -> Nat]

WorkerTypeOK ==
  /\ creator \in [Requests -> {"off", "checking", "due"}]
  /\ createCount \in [Requests -> NeverSent .. MaxAttempts]
  /\ worker \in [Requests -> WorkerPlaces]
  /\ attempts \in [Requests -> NeverSent .. MaxAttempts]
  /\ envelope \in [Requests -> SeqIds \cup {NoSeq}]
  /\ carried \in [Requests -> SUBSET Requests]

ClientTypeOK ==
  /\ known \subseteq SeqIds
  /\ clientHas \subseteq [seq : SeqIds, no : Nat \ {0}, req : Requests]
  /\ bareGiven \subseteq Requests /\ again \subseteq Requests
  /\ confirmed \subseteq TwoWay

TypeOK ==
  /\ setting \in Settings
  /\ net \subseteq MessageType
  /\ SequenceTypeOK /\ HandlerTypeOK /\ WorkerTypeOK /\ ClientTypeOK
  /\ down \in BOOLEAN

(***************************************************************************)
(* A response whose row an acknowledgement removed has reached the client. *)
(* Rows are found by number whatever the sequence, and numbers are given   *)
(* out in two statements: true for one thread, and until a time-out, after *)
(* which the numbers start again.                                          *)
(***************************************************************************)
NoResponseLost ==
  timedOut \/ \A r \in confirmed : \E x \in clientHas : x.req = r

(***************************************************************************)
(* The client's application is given a response once more only if a bare   *)
(* copy brought it.  The client knows a repeated response by sequence and  *)
(* number, and a CreateSequence sent again can make a second sequence: a   *)
(* response stays with the sequence it was first sent on.                  *)
(***************************************************************************)
SecondAnswerIsBare == again \subseteq bareGiven

(***************************************************************************)
(* What the documentation promises of a response as of any message         *)
(* (xdocs/index.html, 34-35): it is delivered exactly once.                *)
(***************************************************************************)
AnsweredOnce == again = {}

(***************************************************************************)
(* Until a time-out the responses, on one sequence or on several, keep the *)
(* promise of ReliableDelivery: a response is submitted when it is given a *)
(* number and confirmed when an acknowledgement removes its row.           *)
(***************************************************************************)
Responses == INSTANCE ReliableDelivery WITH
               Message <- Requests, Payload <- Requests,
               submitted <- {r \in Requests : number[r] # 0},
               delivered <- Given,
               confirmed <- confirmed

ResponsesReliable ==
  Responses!Init /\ [][timedOut \/ [Responses!Next]_Responses!vars]_vars

(***************************************************************************)
(* The acknowledgement of a recorded request is sent or still has somebody *)
(* to send it: it waits for a worker in the sender table, a worker that    *)
(* will send has it in its message, or (replay) the request's thread is    *)
(* about to answer.  Only with an offer: without one it names no sequence. *)
(* Again for one thread: two may give one number to two responses, and the *)
(* acknowledgement of one then takes the other's row.                      *)
(***************************************************************************)
WaitsInTable(r) == \E a \in ackRows : a.seq \in ours /\ r \in a.nos
WaitsInMessage(r) == \E q \in rows : worker[q] \in {"checking", "due"} /\ r \in carried[q]
WaitsForReply(r) ==
  setting.channel = "replay" /\ \E t \in Threads : at[t] # "idle" /\ req[t] = r

AckKept ==
  setting.offered /\ ~timedOut /\ ~down =>
    \A r \in recorded : r \in Acked \/ WaitsInTable(r) \/ WaitsInMessage(r) \/ WaitsForReply(r)

(***************************************************************************)
(* When the response to the highest request has gone out, the client's     *)
(* TerminateSequence ends the outgoing sequence only if the client has     *)
(* every response numbered so far: terminate_seq_msg_processor.c (426-431) *)
(* says so.  The list consulted is that of the acknowledgement that came   *)
(* last.  Until a time-out, after which numbers start again.               *)
(***************************************************************************)
EndsWhenReceived ==
  [][\A m \in net :
       (ReceiveTerminate(m) \/ ReceiveTerminateWithAck(m))
         /\ terminateAdded' # terminateAdded /\ HighestOut > 0 /\ ~lastOut /\ ~timedOut
         => \A r \in Requests :
              number[r] \in 1 .. lastNo => \E x \in clientHas : x.req = r]_vars

(***************************************************************************)
(* A request that was recorded is answered, or the outgoing sequence is    *)
(* given up: the waits for the response sequence come to an end.           *)
(***************************************************************************)
Answered ==
  \A r \in Requests :
    r \in recorded \cap TwoWay
      ~> \/ timedOut \/ down
         \/ \E m \in net : m.type = "Response" /\ m.req = r

(***************************************************************************)
(* A worker that was started ends, whether or not the client ever creates  *)
(* a sequence or acknowledges.                                             *)
(***************************************************************************)
WorkersEnd ==
  \A r \in Requests : worker[r] # "off" ~> down \/ worker[r] = "done"

(***************************************************************************)
(* What sandesha2_in_handler.c (449-453) says of a request that is dropped *)
(* as a duplicate: its response is sent again or it is acknowledged.       *)
(***************************************************************************)
RequestsAcknowledged ==
  \A r \in Requests : r \in recorded ~> timedOut \/ down \/ r \in Acked
=============================================================================
