----------------------- MODULE ServerResponsesProofs -----------------------
(***************************************************************************)
(* Proofs about ServerResponses: its types and that only a bare copy can   *)
(* answer the client a second time, for any number of handler threads;     *)
(* and, for one thread, that no acknowledged response is lost, that no     *)
(* acknowledgement of a request is lost while the service answers, that    *)
(* the client's end ends the answers only when it has them, and that the   *)
(* responses keep the promise of ReliableDelivery until a time-out.        *)
(***************************************************************************)
EXTENDS ServerResponses, TLAPS

(***************************************************************************)
(* A request is in the hands of at most one thread, which gives it to a    *)
(* worker when it lets go of it, and has a number from ReadLastNo on.      *)
(***************************************************************************)
Busy(t) == at[t] # "idle"

HandsOK ==
  /\ \A t \in Threads : Busy(t) =>
       /\ req[t] \in recorded
       /\ worker[req[t]] = "off"
       /\ number[req[t]] = 0 <=> at[t] \in {"service", "checked"}
  /\ \A t, u \in Threads : Busy(t) /\ Busy(u) /\ req[t] = req[u] => t = u

HighestExists == recorded # {} => \E r \in recorded : \A q \in recorded : q <= r

NumbersOK ==
  /\ HighestExists
  /\ \A r \in Requests : number[r] # 0 => r \in recorded
  /\ \A r \in Requests : worker[r] # "off" => number[r] # 0
  /\ \A r \in rows \cup stored : number[r] # 0

(***************************************************************************)
(* A worker that has completed its message knows the sequence.             *)
(***************************************************************************)
EnvelopesOK ==
  \A r \in Requests :
    /\ worker[r] \in {"linked", "checking", "due"} => envelope[r] \in SeqIds
    /\ worker[r] = "done" /\ r \in rows => envelope[r] \in SeqIds

TypeInv == TypeOK /\ HandsOK /\ NumbersOK /\ EnvelopesOK

(***************************************************************************)
(* The client has what was sent, under the number its row has, and lists   *)
(* what it has; a bare copy is of a response that has a number.            *)
(***************************************************************************)
Sent(r) == \E m \in net : m.type = "Response" /\ m.req = r

SentOK == \A m \in net : m.type = "Response" => m.no = number[m.req]
BareOK == \A m \in net : m.type = "Bare" => number[m.req] # 0
ReceivedOK == \A x \in clientHas : x.no = number[x.req] /\ Sent(x.req)
ListsNumbers(m) == m.type \in {"ResponseAck", "ClientTerminate"}
ListedOK ==
  \A m \in net : ListsNumbers(m) => \A n \in m.nos : \E x \in clientHas : x.no = n

(***************************************************************************)
(* One thread: until a time-out a number is given out once.                *)
(***************************************************************************)
NumbersUnique ==
  /\ \A q, r \in Requests : number[q] = number[r] /\ number[q] # 0 => q = r
  /\ \A r \in Requests :
       number[r] <= lastNo \/ \E t \in Threads : at[t] = "numbered" /\ req[t] = r
  /\ \A t \in Threads : at[t] = "numbered" => number[req[t]] = lastNo + 1

LossInv ==
  /\ TypeInv /\ SentOK /\ BareOK /\ ReceivedOK /\ ListedOK
  /\ timedOut \/ NumbersUnique
  /\ NoResponseLost

(***************************************************************************)
(* In dual a response is sent by its worker, after its message was         *)
(* completed, and whatever acknowledgement it has then was sent with it.   *)
(***************************************************************************)
Early == {"starting", "waiting", "looking", "linked"}

ChannelOK ==
  /\ setting.channel = "replay" => stored = {} /\ \A r \in Requests : worker[r] = "off"
  /\ \A t \in Threads : at[t] = "unstored" => setting.channel = "dual"
  /\ \A t \in Threads : at[t] = "reply" => setting.channel = "replay"

SentWhole ==
  setting.channel = "dual" => \A r \in Requests : Sent(r) => Sequenced(r) /\ carried[r] \subseteq Acked

RowsKept ==
  /\ \A t \in Threads : at[t] = "unstored" => req[t] \in rows \/ Sent(req[t])
  /\ \A r \in Requests : worker[r] \in Early \cup {"checking", "due"} => r \in rows \/ Sent(r)

AckInv ==
  /\ LossInv /\ ChannelOK /\ SentWhole
  /\ timedOut \/ RowsKept
  /\ setting.offered /\ ~timedOut => outSeq \in ours
  /\ AckKept

-----------------------------------------------------------------------------
(***************************************************************************)
(* Settings and messages.                                                  *)
(***************************************************************************)
LEMMA SettingFacts ==
  ASSUME setting \in Settings
  PROVE  /\ TwoWay \subseteq Requests /\ OneWay \subseteq Requests
         /\ TwoWay \cap OneWay = {}
         /\ setting.channel \in {"replay", "dual"}
         /\ setting.channel = "replay" => setting.offered
  BY SettingsAssumption DEF SettingType, TwoWay, OneWay

LEMMA RequestFacts == Requests \subseteq Nat /\ NoRequest \notin Requests
  BY RequestsAssumption DEF NoRequest

LEMMA Made ==
  /\ \A s \in SeqIds, n \in Nat \ {0}, r \in Requests, nos \in SUBSET Requests :
       Response(s, n, r, nos) \in MessageType
  /\ \A r \in Requests, nos \in SUBSET Requests : Bare(r, nos) \in MessageType
  /\ \A nos \in SUBSET Requests : RequestAck(nos) \in MessageType
  /\ \A s \in SeqIds, nos \in SUBSET (Nat \ {0}) :
       ResponseAck(s, nos) \in MessageType /\ ClientTerminate(s, nos) \in MessageType
  /\ \A s \in SeqIds, nos \in SUBSET Requests : Terminate(s, nos) \in MessageType
  /\ \A r \in Requests : CreateSequence(r) \in MessageType
  /\ \A r \in Requests, s \in SeqIds : CreateSequenceResponse(r, s) \in MessageType
  BY DEF MessageType, Response, Bare, RequestAck, ResponseAck, CreateSequence,
         CreateSequenceResponse, ClientTerminate, Terminate

LEMMA Parts ==
  ASSUME NEW m \in MessageType
  PROVE  /\ m.type = "Response" =>
              /\ m.seq \in SeqIds /\ m.no \in Nat \ {0} /\ m.req \in Requests
              /\ m.acks \in SUBSET Requests
         /\ m.type = "Bare" => m.req \in Requests
         /\ ListsNumbers(m) => m.seq \in SeqIds /\ m.nos \in SUBSET (Nat \ {0})
         /\ m.type = "CreateSequence" => m.id \in Requests
         /\ m.type = "CreateSequenceResponse" => m.id \in Requests /\ m.seq \in SeqIds
  BY DEF MessageType, ListsNumbers

LEMMA TypeInit == Init => TypeInv
<1> SUFFICES ASSUME Init PROVE TypeInv
  OBVIOUS
<1>1. SequenceTypeOK
  <2>1. outSeq \in SeqIds \cup {NoSeq} /\ ours \subseteq SeqIds
    BY NoSeqAssumption DEF Init
  <2> QED
    BY <2>1 DEF Init, SequenceTypeOK
<1>2. HandlerTypeOK
  BY DEF Init, HandlerTypeOK, ThreadPlaces
<1>3. WorkerTypeOK
  BY AttemptsAssumption DEF Init, WorkerTypeOK, WorkerPlaces, NeverSent
<1>4. ClientTypeOK
  BY NoSeqAssumption DEF Init, ClientTypeOK
<1>5. setting \in Settings /\ net \subseteq MessageType /\ down \in BOOLEAN
  BY DEF Init
<1>6. HandsOK /\ NumbersOK /\ EnvelopesOK
  BY DEF Init, HandsOK, NumbersOK, HighestExists, EnvelopesOK, Busy
<1> QED
  BY <1>1, <1>2, <1>3, <1>4, <1>5, <1>6 DEF TypeInv, TypeOK

(***************************************************************************)
(* A thread that answers.                                                  *)
(***************************************************************************)
LEMMA TypeAnswer ==
  ASSUME TypeInv, NEW t \in Threads, Answer(t)
  PROVE  TypeInv'
<1> USE DEF sequenceRows, ending, messageRows, handlers, creators, workers, client
<1> DEFINE r == req[t]
<1>1. /\ setting \in Settings /\ net \subseteq MessageType /\ down \in BOOLEAN
      /\ TwoWay \subseteq Requests
      /\ at \in [Threads -> ThreadPlaces] /\ req \in [Threads -> TwoWay \cup {NoRequest}]
      /\ number \in [Requests -> Nat]
      /\ Busy(t) => r \in TwoWay /\ r \in Requests
  BY SettingFacts DEF TypeInv, TypeOK, HandlerTypeOK, Busy
<1>2. SequenceTypeOK /\ HandlerTypeOK /\ WorkerTypeOK /\ ClientTypeOK
  BY DEF TypeInv, TypeOK
<1>3. HandsOK /\ NumbersOK /\ EnvelopesOK
  BY DEF TypeInv
<1>4. CASE CheckTimedOut(t)
  <2>1. SequenceTypeOK' /\ WorkerTypeOK' /\ ClientTypeOK'
    BY <1>2, <1>4 DEF CheckTimedOut, SequenceTypeOK, WorkerTypeOK, ClientTypeOK, TwoWay, OneWay,
                      Sequenced
  <2>2. HandlerTypeOK' /\ setting' \in Settings /\ net' \subseteq MessageType /\ down' \in BOOLEAN
    BY <1>1, <1>2, <1>4 DEF CheckTimedOut, HandlerTypeOK, TwoWay, Goto, ThreadPlaces
  <2>3. HandsOK'
    BY <1>1, <1>3, <1>4 DEF CheckTimedOut, HandsOK, Goto, Busy
  <2>4. NumbersOK' /\ EnvelopesOK'
    BY <1>3, <1>4 DEF CheckTimedOut, NumbersOK, HighestExists, EnvelopesOK
  <2> QED
    BY <2>1, <2>2, <2>3, <2>4 DEF TypeInv, TypeOK
<1>5. CASE ReadLastNo(t)
  <2>1. SequenceTypeOK' /\ WorkerTypeOK' /\ ClientTypeOK'
    BY <1>2, <1>5 DEF ReadLastNo, SequenceTypeOK, WorkerTypeOK, ClientTypeOK, TwoWay, OneWay
  <2>0. Busy(t) /\ lastNo \in Nat /\ NextNo(lastNo) \in Nat \ {0}
    BY <1>2, <1>5 DEF ReadLastNo, Goto, Busy, SequenceTypeOK, NextNo
  <2>2. HandlerTypeOK' /\ setting' \in Settings /\ net' \subseteq MessageType /\ down' \in BOOLEAN
    BY <1>1, <1>2, <1>5, <2>0 DEF ReadLastNo, HandlerTypeOK, TwoWay, Goto, ThreadPlaces
  <2>3. HandsOK'
    BY <1>1, <1>3, <1>5, <2>0 DEF ReadLastNo, HandsOK, Goto, Busy
  <2>4. NumbersOK' /\ EnvelopesOK'
    BY <1>1, <1>3, <1>5, <2>0 DEF ReadLastNo, NumbersOK, HighestExists, EnvelopesOK, HandsOK
  <2> QED
    BY <2>1, <2>2, <2>3, <2>4 DEF TypeInv, TypeOK
<1>6. CASE WriteLastNo(t) \/ LookForCreate(t) \/ AskForSequence(t)
  <2>0. Busy(t)
    BY <1>6 DEF WriteLastNo, LookForCreate, AskForSequence, Goto, Busy
  <2>1. SequenceTypeOK'
    BY <1>1, <1>2, <1>6, <2>0
       DEF WriteLastNo, LookForCreate, AskForSequence, SequenceTypeOK, TwoWay, OneWay
  <2>2. WorkerTypeOK' /\ ClientTypeOK'
    BY <1>1, <1>2, <1>6, <2>0
       DEF WriteLastNo, LookForCreate, AskForSequence, WorkerTypeOK, ClientTypeOK, TwoWay, OneWay
  <2>3. HandlerTypeOK' /\ setting' \in Settings /\ net' \subseteq MessageType /\ down' \in BOOLEAN
    BY <1>1, <1>2, <1>6
       DEF WriteLastNo, LookForCreate, AskForSequence, HandlerTypeOK, TwoWay, Goto, ThreadPlaces
  <2>4. HandsOK'
    BY <1>1, <1>3, <1>6 DEF WriteLastNo, LookForCreate, AskForSequence, HandsOK, Goto, Busy
  <2>5. NumbersOK' /\ EnvelopesOK'
    BY <1>3, <1>6
       DEF WriteLastNo, LookForCreate, AskForSequence, NumbersOK, HighestExists, EnvelopesOK
  <2> QED
    BY <2>1, <2>2, <2>3, <2>4, <2>5 DEF TypeInv, TypeOK
<1>7. CASE InsertRow(t)
  <2>0. Busy(t) /\ number[r] # 0
    BY <1>3, <1>7 DEF InsertRow, Goto, Busy, HandsOK
  <2>1. SequenceTypeOK' /\ WorkerTypeOK' /\ ClientTypeOK'
    BY <1>1, <1>2, <1>7, <2>0 DEF InsertRow, WithRow, SequenceTypeOK, WorkerTypeOK, ClientTypeOK, TwoWay,
                             OneWay
  <2>2. HandlerTypeOK' /\ setting' \in Settings /\ net' \subseteq MessageType /\ down' \in BOOLEAN
    BY <1>1, <1>2, <1>7 DEF InsertRow, HandlerTypeOK, TwoWay, Goto, ThreadPlaces
  <2>3. HandsOK'
    BY <1>1, <1>3, <1>7 DEF InsertRow, HandsOK, Goto, Busy
  <2>4. NumbersOK' /\ EnvelopesOK'
    BY <1>3, <1>7, <2>0 DEF InsertRow, WithRow, NumbersOK, HighestExists, EnvelopesOK, HandsOK
  <2> QED
    BY <2>1, <2>2, <2>3, <2>4 DEF TypeInv, TypeOK
<1>8. CASE Reply(t)
  <2>0. Busy(t) /\ number[r] # 0 /\ recorded \in SUBSET Requests /\ outSeq \in SeqIds
    BY <1>1, <1>2, <1>3, <1>8, SettingFacts DEF Reply, Busy, HandsOK, SequenceTypeOK
  <2>1. SequenceTypeOK' /\ WorkerTypeOK' /\ ClientTypeOK'
    BY <1>2, <1>8 DEF Reply, SequenceTypeOK, WorkerTypeOK, ClientTypeOK, TwoWay, OneWay
  <2>2. HandlerTypeOK' /\ setting' \in Settings /\ down' \in BOOLEAN
    BY <1>1, <1>2, <1>8 DEF Reply, Take, HandlerTypeOK, TwoWay, ThreadPlaces
  <2>3. net' \subseteq MessageType
    BY <1>1, <1>8, <2>0, Made DEF Reply, Put
  <2>4. HandsOK'
    BY <1>1, <1>3, <1>8 DEF Reply, Take, HandsOK, Busy
  <2>5. NumbersOK' /\ EnvelopesOK'
    BY <1>3, <1>8 DEF Reply, Take, NumbersOK, HighestExists, EnvelopesOK
  <2> QED
    BY <2>1, <2>2, <2>3, <2>4, <2>5 DEF TypeInv, TypeOK
<1>9. CASE StartWorker(t)
  <2>0. Busy(t) /\ number[r] # 0
    BY <1>3, <1>9 DEF StartWorker, Busy, HandsOK
  <2>1. SequenceTypeOK' /\ WorkerTypeOK' /\ ClientTypeOK'
    BY <1>1, <1>2, <1>9, <2>0 DEF StartWorker, SequenceTypeOK, WorkerTypeOK, WorkerPlaces,
                                 ClientTypeOK, TwoWay, OneWay
  <2>2. HandlerTypeOK' /\ setting' \in Settings /\ net' \subseteq MessageType /\ down' \in BOOLEAN
    BY <1>1, <1>2, <1>9 DEF StartWorker, Take, HandlerTypeOK, TwoWay, ThreadPlaces
  <2>3. HandsOK'
    BY <1>1, <1>2, <1>3, <1>9, <2>0 DEF StartWorker, Take, HandsOK, Busy, WorkerTypeOK
  <2>4. NumbersOK' /\ EnvelopesOK'
    BY <1>1, <1>2, <1>3, <1>9, <2>0
       DEF StartWorker, Take, NumbersOK, HighestExists, EnvelopesOK, WorkerTypeOK
  <2> QED
    BY <2>1, <2>2, <2>3, <2>4 DEF TypeInv, TypeOK
<1>10. CASE StartTimesOut(t)
  <2>1. SequenceTypeOK' /\ WorkerTypeOK' /\ ClientTypeOK'
    BY <1>2, <1>10 DEF StartTimesOut, TimeOutSequence, SequenceTypeOK, WorkerTypeOK, ClientTypeOK,
                      TwoWay, OneWay
  <2>2. HandlerTypeOK' /\ setting' \in Settings /\ net' \subseteq MessageType /\ down' \in BOOLEAN
    BY <1>1, <1>2, <1>10 DEF StartTimesOut, Take, HandlerTypeOK, TwoWay, ThreadPlaces
  <2>3. HandsOK'
    BY <1>1, <1>3, <1>10 DEF StartTimesOut, Take, HandsOK, Busy
  <2>4. NumbersOK' /\ EnvelopesOK'
    BY <1>3, <1>10 DEF StartTimesOut, TimeOutSequence, Take, NumbersOK, HighestExists, EnvelopesOK
  <2> QED
    BY <2>1, <2>2, <2>3, <2>4 DEF TypeInv, TypeOK
<1> QED
  BY <1>4, <1>5, <1>6, <1>7, <1>8, <1>9, <1>10 DEF Answer

(***************************************************************************)
(* A thread that takes a request.                                          *)
(***************************************************************************)
LEMMA TypeReceive ==
  ASSUME TypeInv, NEW t \in Threads, NEW r \in TwoWay \cup OneWay, Receive(t, r)
  PROVE  TypeInv'
<1> USE DEF sequenceRows, ending, messageRows, handlers, creators, workers, client
<1>1. /\ setting \in Settings /\ net \subseteq MessageType /\ down \in BOOLEAN
      /\ TwoWay \subseteq Requests /\ OneWay \subseteq Requests /\ r \in Requests
      /\ TwoWay \cap OneWay = {}
      /\ at \in [Threads -> ThreadPlaces] /\ req \in [Threads -> TwoWay \cup {NoRequest}]
      /\ number \in [Requests -> Nat]
      /\ recorded \in SUBSET Requests
  BY SettingFacts DEF TypeInv, TypeOK, HandlerTypeOK, SequenceTypeOK
<1>2. SequenceTypeOK /\ HandlerTypeOK /\ WorkerTypeOK /\ ClientTypeOK
  BY DEF TypeInv, TypeOK
<1>3. HandsOK /\ NumbersOK /\ EnvelopesOK
  BY DEF TypeInv
<1>4. ASSUME NEW nos \in SUBSET Requests, AckIfRequired(r, nos)
      PROVE  net' \subseteq MessageType /\ ackRows' \subseteq [seq : SeqIds, nos : SUBSET Requests]
  <2>1. CASE r \in OneWay
    BY <1>1, <1>2, <1>4, <2>1, Made DEF AckIfRequired, Put, SequenceTypeOK
  <2>2. CASE r \notin OneWay
    BY <1>1, <1>2, <1>4, <2>2 DEF AckIfRequired, SequenceTypeOK
  <2> QED
    BY <2>1, <2>2
<1>5. CASE AcceptRequest(t, r)
  <2>0. recorded' \in SUBSET Requests /\ recorded' = recorded \cup {r}
    BY <1>1, <1>5 DEF AcceptRequest
  <2>1. net' \subseteq MessageType /\ ackRows' \subseteq [seq : SeqIds, nos : SUBSET Requests]
    BY <1>4, <1>5, <2>0 DEF AcceptRequest
  <2>2. SequenceTypeOK'
    BY <1>1, <1>2, <1>5, <2>0, <2>1 DEF AcceptRequest, SequenceTypeOK, TwoWay, OneWay
  <2>3. WorkerTypeOK' /\ ClientTypeOK'
    BY <1>2, <1>5 DEF AcceptRequest, Take, WorkerTypeOK, ClientTypeOK, TwoWay
  <2>4. HandlerTypeOK' /\ setting' \in Settings /\ down' \in BOOLEAN
    BY <1>1, <1>2, <1>5 DEF AcceptRequest, Take, HandlerTypeOK, TwoWay, ThreadPlaces
  <2>5. number[r] = 0 /\ worker[r] = "off"
    BY <1>1, <1>3, <1>5 DEF AcceptRequest, NumbersOK
  <2>6. HandsOK'
    BY <1>1, <1>3, <1>5, <2>0, <2>5 DEF AcceptRequest, Take, HandsOK, Busy
  <2>6a. HighestExists'
    BY <1>1, <1>3, <2>0, RequestFacts DEF NumbersOK, HighestExists
  <2>7. NumbersOK' /\ EnvelopesOK'
    BY <1>3, <1>5, <2>0, <2>6a DEF AcceptRequest, Take, NumbersOK, EnvelopesOK
  <2> QED
    BY <2>1, <2>2, <2>3, <2>4, <2>6, <2>7 DEF TypeInv, TypeOK
<1>6. CASE RepeatResponse(t, r)
  <2>1. PICK b \in stored : /\ Numbered(r) = {b}
                            /\ carried' = [carried EXCEPT ![b] = recorded]
                            /\ Put(ResponseTo(b, recorded))
    BY <1>6 DEF RepeatResponse
  <2>2. b \in rows /\ b \in Requests /\ number[b] \in Nat \ {0}
    BY <1>1, <1>2, <1>3, <2>1 DEF Numbered, SequenceTypeOK, NumbersOK
  <2>3. Sequenced(b) => envelope[b] \in SeqIds
    BY <1>3, <2>2 DEF EnvelopesOK, Sequenced
  <2>4. ResponseTo(b, recorded) \in MessageType
    BY <1>1, <2>2, <2>3, Made DEF ResponseTo
  <2>5. net' \subseteq MessageType
    BY <1>1, <2>1, <2>4 DEF Put
  <2>6. SequenceTypeOK' /\ ClientTypeOK'
    BY <1>2, <1>6 DEF RepeatResponse, SequenceTypeOK, ClientTypeOK, TwoWay, OneWay
  <2>7. WorkerTypeOK'
    BY <1>1, <1>2, <1>6, <2>1, <2>2 DEF RepeatResponse, WorkerTypeOK
  <2>8. HandlerTypeOK' /\ setting' \in Settings /\ down' \in BOOLEAN
    BY <1>1, <1>2, <1>6 DEF RepeatResponse, HandlerTypeOK, TwoWay
  <2>9. HandsOK' /\ NumbersOK' /\ EnvelopesOK'
    BY <1>3, <1>6 DEF RepeatResponse, HandsOK, NumbersOK, HighestExists, EnvelopesOK, Busy
  <2> QED
    BY <2>5, <2>6, <2>7, <2>8, <2>9 DEF TypeInv, TypeOK
<1>7. CASE RepeatNothing(t, r)
  <2>1. SequenceTypeOK' /\ ClientTypeOK' /\ WorkerTypeOK'
    BY <1>2, <1>7 DEF RepeatNothing, SequenceTypeOK, ClientTypeOK, WorkerTypeOK, TwoWay, OneWay
  <2>2. HandlerTypeOK' /\ setting' \in Settings /\ net' \subseteq MessageType /\ down' \in BOOLEAN
    BY <1>1, <1>2, <1>7 DEF RepeatNothing, HandlerTypeOK, TwoWay
  <2>3. HandsOK' /\ NumbersOK' /\ EnvelopesOK'
    BY <1>3, <1>7 DEF RepeatNothing, HandsOK, NumbersOK, HighestExists, EnvelopesOK, Busy
  <2> QED
    BY <2>1, <2>2, <2>3 DEF TypeInv, TypeOK
<1>8. CASE AckAgain(t, r)
  <2>1. net' \subseteq MessageType /\ ackRows' \subseteq [seq : SeqIds, nos : SUBSET Requests]
    BY <1>1, <1>4, <1>8 DEF AckAgain
  <2>2. SequenceTypeOK' /\ ClientTypeOK' /\ WorkerTypeOK'
    BY <1>2, <1>8, <2>1
       DEF AckAgain, SequenceTypeOK, ClientTypeOK, WorkerTypeOK, TwoWay, OneWay
  <2>3. HandlerTypeOK' /\ setting' \in Settings /\ down' \in BOOLEAN
    BY <1>1, <1>2, <1>8 DEF AckAgain, HandlerTypeOK, TwoWay
  <2>4. HandsOK' /\ NumbersOK' /\ EnvelopesOK'
    BY <1>3, <1>8 DEF AckAgain, HandsOK, NumbersOK, HighestExists, EnvelopesOK, Busy
  <2> QED
    BY <2>1, <2>2, <2>3, <2>4 DEF TypeInv, TypeOK
<1> QED
  BY <1>5, <1>6, <1>7, <1>8 DEF Receive

(***************************************************************************)
(* The workers.                                                            *)
(***************************************************************************)
LEMMA TypeTimeOut ==
  ASSUME SequenceTypeOK, TimeOutSequence, UNCHANGED <<setting, recorded, ackRows>>
  PROVE  SequenceTypeOK'
  BY DEF SequenceTypeOK, TimeOutSequence, TwoWay, OneWay

LEMMA TypeSequenceKept ==
  ASSUME SequenceTypeOK, UNCHANGED <<setting, recorded, sequenceRows, messageRows, ackRows>>
  PROVE  SequenceTypeOK'
  BY DEF SequenceTypeOK, sequenceRows, ending, messageRows, TwoWay, OneWay

LEMMA CountedType ==
  ASSUME NEW c \in NeverSent .. MaxAttempts, AttemptsLeft(c)
  PROVE  Counted(c) \in NeverSent .. MaxAttempts
  BY AttemptsAssumption DEF AttemptsLeft, Counted, NeverSent

LEMMA TypeCreateWork ==
  ASSUME TypeInv, NEW r \in Requests, CreateWork(r)
  PROVE  TypeInv'
<1> USE DEF sequenceRows, ending, messageRows, handlers, creators, workers, client
<1>1. setting \in Settings /\ net \subseteq MessageType /\ down \in BOOLEAN
  BY DEF TypeInv, TypeOK
<1>2. SequenceTypeOK /\ HandlerTypeOK /\ WorkerTypeOK /\ ClientTypeOK
  BY DEF TypeInv, TypeOK
<1>3. HandsOK /\ NumbersOK /\ EnvelopesOK
  BY DEF TypeInv
<1>4. /\ UNCHANGED <<setting, recorded, ours, ackRows, handlers, workers, down, client, confirmed>>
      /\ rows' \subseteq rows /\ stored' \subseteq stored
  BY DEF CreateWork, CreateLookUp, CreateSend, CreateTimesOut, TimeOutSequence
<1>5. SequenceTypeOK'
  BY <1>2, TypeTimeOut, TypeSequenceKept DEF CreateWork, CreateLookUp, CreateSend, CreateTimesOut
<1>6. net' \subseteq MessageType
  <2>1. CreateSequence(r) \in MessageType
    BY Made
  <2> QED
    BY <1>1, <2>1 DEF CreateWork, CreateLookUp, CreateSend, CreateTimesOut, Put
<1>7. creator' \in [Requests -> {"off", "checking", "due"}]
  BY <1>2 DEF CreateWork, CreateLookUp, CreateSend, CreateTimesOut, WorkerTypeOK
<1>8. createCount' \in [Requests -> NeverSent .. MaxAttempts]
  BY <1>2, CountedType DEF CreateWork, CreateLookUp, CreateSend, CreateTimesOut, WorkerTypeOK
<1>9. WorkerTypeOK' /\ HandlerTypeOK' /\ ClientTypeOK'
  BY <1>2, <1>4, <1>7, <1>8 DEF WorkerTypeOK, HandlerTypeOK, ClientTypeOK, TwoWay
<1>10. HandsOK' /\ NumbersOK' /\ EnvelopesOK'
  BY <1>3, <1>4 DEF HandsOK, NumbersOK, HighestExists, EnvelopesOK, Busy
<1> QED
  BY <1>1, <1>4, <1>5, <1>6, <1>9, <1>10 DEF TypeInv, TypeOK

LEMMA TypeWork ==
  ASSUME TypeInv, NEW r \in Requests, Work(r)
  PROVE  TypeInv'
<1> USE DEF sequenceRows, ending, messageRows, handlers, creators, workers, client
<1>1. /\ setting \in Settings /\ net \subseteq MessageType /\ down \in BOOLEAN
      /\ worker \in [Requests -> WorkerPlaces] /\ envelope \in [Requests -> SeqIds \cup {NoSeq}]
      /\ attempts \in [Requests -> NeverSent .. MaxAttempts] /\ carried \in [Requests -> SUBSET Requests]
      /\ outSeq \in SeqIds \cup {NoSeq}
  BY DEF TypeInv, TypeOK, WorkerTypeOK, SequenceTypeOK
<1>2. SequenceTypeOK /\ HandlerTypeOK /\ WorkerTypeOK /\ ClientTypeOK
  BY DEF TypeInv, TypeOK
<1>3. HandsOK /\ NumbersOK /\ EnvelopesOK
  BY DEF TypeInv
<1>4. /\ UNCHANGED <<setting, recorded, ours, handlers, creators, down, client, confirmed>>
      /\ rows' \subseteq rows /\ stored' \subseteq stored
      /\ \E to \in WorkerPlaces \ {"off"} :
           worker[r] # "off" /\ worker' = [worker EXCEPT ![r] = to]
  BY DEF Work, WorkerStarts, WorkerWaits, WorkerLooksAgain, CompleteMessage, WorkerLooksUp,
         WorkerSends, WorkerTimesOut, WorkerGoes, AfterLook, TimeOutSequence, WorkerPlaces
<1>5. SequenceTypeOK'
  <2>1. CASE CompleteMessage(r)
    BY <1>2, <2>1 DEF CompleteMessage, WithoutOldest, SequenceTypeOK, TwoWay, OneWay
  <2>2. CASE ~CompleteMessage(r)
    BY <1>2, <2>2, TypeTimeOut, TypeSequenceKept
       DEF Work, WorkerStarts, WorkerWaits, WorkerLooksAgain, WorkerLooksUp, WorkerSends,
           WorkerTimesOut
  <2> QED
    BY <2>1, <2>2
<1>6. net' \subseteq MessageType
  <2>1. CASE WorkerSends(r)
    <3>1. envelope[r] \in SeqIds /\ number[r] \in Nat \ {0}
      BY <1>2, <1>3, <2>1 DEF WorkerSends, WorkerGoes, EnvelopesOK, NumbersOK, HandlerTypeOK
    <3> QED
      BY <1>1, <2>1, <3>1, Made DEF WorkerSends, Put
  <2>2. CASE ~WorkerSends(r)
    BY <1>1, <2>2 DEF Work, WorkerStarts, WorkerWaits, WorkerLooksAgain, CompleteMessage,
            WorkerLooksUp, WorkerTimesOut
  <2> QED
    BY <2>1, <2>2
<1>7. worker' \in [Requests -> WorkerPlaces]
  BY <1>1, <1>4
<1>8. attempts' \in [Requests -> NeverSent .. MaxAttempts]
  BY <1>1, CountedType DEF Work, WorkerStarts, WorkerWaits, WorkerLooksAgain, CompleteMessage,
            WorkerLooksUp, WorkerSends, WorkerTimesOut
<1>9. envelope' \in [Requests -> SeqIds \cup {NoSeq}]
  BY <1>1 DEF Work, WorkerStarts, WorkerWaits, WorkerLooksAgain, CompleteMessage,
            WorkerLooksUp, WorkerSends, WorkerTimesOut
<1>10. carried' \in [Requests -> SUBSET Requests]
  <2>1. CASE CompleteMessage(r)
    <3>1. \A a \in ackRows : a.nos \in SUBSET Requests
      BY <1>2 DEF SequenceTypeOK
    <3> QED
      BY <1>1, <2>1, <3>1 DEF CompleteMessage, OldestFor
  <2>2. CASE ~CompleteMessage(r)
    BY <1>1, <2>2 DEF Work, WorkerStarts, WorkerWaits, WorkerLooksAgain, WorkerLooksUp,
            WorkerSends, WorkerTimesOut
  <2> QED
    BY <2>1, <2>2
<1>11. WorkerTypeOK' /\ HandlerTypeOK' /\ ClientTypeOK'
  BY <1>2, <1>4, <1>7, <1>8, <1>9, <1>10 DEF WorkerTypeOK, HandlerTypeOK, ClientTypeOK, TwoWay
<1>12. HandsOK' /\ NumbersOK'
  BY <1>1, <1>3, <1>4 DEF HandsOK, NumbersOK, HighestExists, Busy
<1>13. EnvelopesOK'
  <2>1. ASSUME NEW q \in Requests, q # r
        PROVE  worker'[q] = worker[q] /\ envelope'[q] = envelope[q]
    BY <1>1, <2>1 DEF Work, WorkerStarts, WorkerWaits, WorkerLooksAgain, CompleteMessage,
            WorkerLooksUp, WorkerSends, WorkerTimesOut, WorkerGoes
  <2>2. worker'[r] \in {"linked", "checking", "due"} => envelope'[r] \in SeqIds
    BY <1>1, <1>3 DEF Work, WorkerStarts, WorkerWaits, WorkerLooksAgain, CompleteMessage,
            WorkerLooksUp, WorkerSends, WorkerTimesOut, WorkerGoes, AfterLook, EnvelopesOK
  <2>3. worker'[r] = "done" /\ r \in rows' => envelope'[r] \in SeqIds
    BY <1>1, <1>3 DEF Work, WorkerStarts, WorkerWaits, WorkerLooksAgain, CompleteMessage,
            WorkerLooksUp, WorkerSends, WorkerTimesOut, WorkerGoes, AfterLook, EnvelopesOK,
            TimeOutSequence
  <2> QED
    BY <1>3, <1>4, <2>1, <2>2, <2>3 DEF EnvelopesOK
<1> QED
  BY <1>1, <1>4, <1>5, <1>6, <1>11, <1>12, <1>13 DEF TypeInv, TypeOK

(***************************************************************************)
(* What comes from the client and what goes on there.                      *)
(***************************************************************************)
LEMMA TypeAcknowledge ==
  ASSUME TypeInv, NEW m \in MessageType, ListsNumbers(m), Acknowledge(m)
  PROVE  /\ rows' \subseteq rows /\ stored' \subseteq stored /\ confirmed' \subseteq TwoWay
         /\ completed' \subseteq Nat \ {0}
<1>1. PICK acked \in OneRowEach(m.nos) : /\ rows' = rows \ acked
                                         /\ stored' = stored \ acked
                                         /\ confirmed' = confirmed \cup acked
  BY DEF Acknowledge
<1>2. acked \subseteq rows /\ rows \subseteq TwoWay /\ confirmed \subseteq TwoWay
  BY DEF OneRowEach, TypeInv, TypeOK, SequenceTypeOK, ClientTypeOK
<1>3. completed' \subseteq Nat \ {0}
  BY Parts DEF Acknowledge, TypeInv, TypeOK, SequenceTypeOK
<1> QED
  BY <1>1, <1>2, <1>3

LEMMA TypeTerminate ==
  ASSUME TypeInv, NEW s \in SeqIds, NEW others, others \subseteq MessageType,
         SendTerminate(s, others) \/ SendOthers(others)
  PROVE  net' \subseteq MessageType /\ terminateAdded' \in BOOLEAN /\ ackRows' \subseteq ackRows
<1>1. /\ net \subseteq MessageType /\ terminateAdded \in BOOLEAN
      /\ \A a \in ackRows : a.nos \in SUBSET Requests
  BY DEF TypeInv, TypeOK, SequenceTypeOK
<1>2. CASE SendOthers(others)
  BY <1>1, <1>2 DEF SendOthers
<1>3. CASE SendTerminate(s, others)
  <2>1. CASE net' = net \cup others \cup {Terminate(s, {})} /\ UNCHANGED ackRows
    BY <1>1, <1>3, <2>1, Made DEF SendTerminate
  <2>2. CASE \E a \in OldestFor(s) : /\ net' = net \cup others \cup {Terminate(s, a.nos)}
                                     /\ ackRows' \in WithoutOldest(a)
    <3>1. PICK a \in ackRows : /\ net' = net \cup others \cup {Terminate(s, a.nos)}
                               /\ ackRows' \in WithoutOldest(a)
      BY <2>2 DEF OldestFor
    <3>2. Terminate(s, a.nos) \in MessageType
      BY <1>1, Made
    <3> QED
      BY <1>1, <1>3, <3>1, <3>2 DEF SendTerminate, WithoutOldest
  <2> QED
    BY <1>3, <2>1, <2>2 DEF SendTerminate
<1> QED
  BY <1>2, <1>3

LEMMA ResponseToTerminate ==
  ASSUME TypeInv
  PROVE  /\ TerminateResponse \subseteq MessageType
         /\ \A m \in TerminateResponse : m.type = "RequestAck"
<1>1. recorded \in SUBSET Requests
  BY SettingFacts DEF TypeInv, TypeOK, SequenceTypeOK
<1>2. RequestAck(recorded) \in MessageType
  BY <1>1, Made
<1>3. RequestAck(recorded).type = "RequestAck"
  BY DEF RequestAck
<1> QED
  BY <1>2, <1>3 DEF TerminateResponse

LEMMA TypeExchange ==
  ASSUME TypeInv, NEW m \in net, Exchange(m)
  PROVE  TypeInv'
<1> USE DEF sequenceRows, ending, messageRows, handlers, creators, workers, client
<1>1. /\ setting \in Settings /\ net \subseteq MessageType /\ down \in BOOLEAN
      /\ m \in MessageType
      /\ clientHas \subseteq [seq : SeqIds, no : Nat \ {0}, req : Requests]
  BY DEF TypeInv, TypeOK, ClientTypeOK
<1>2. SequenceTypeOK /\ HandlerTypeOK /\ WorkerTypeOK /\ ClientTypeOK
  BY DEF TypeInv, TypeOK
<1>3. HandsOK /\ NumbersOK /\ EnvelopesOK
  BY DEF TypeInv
<1>4. /\ UNCHANGED <<setting, recorded, handlers, workers, creators, down>>
      /\ rows' \subseteq rows /\ stored' \subseteq stored
  BY <1>1, TypeAcknowledge
     DEF Exchange, ReceiveCreateSequenceResponse, ReceiveAck, ReceiveTerminateWithAck, ReceiveTerminate,
         ClientMakesSequence, ClientReceives, ClientReceivesBare, ListsNumbers
<1>5. WorkerTypeOK' /\ HandlerTypeOK' /\ HandsOK' /\ NumbersOK' /\ EnvelopesOK'
  BY <1>2, <1>3, <1>4 DEF WorkerTypeOK, HandlerTypeOK, HandsOK, NumbersOK, HighestExists, EnvelopesOK, Busy, TwoWay
<1>6. CASE ReceiveCreateSequenceResponse(m)
  <2>1. m.seq \in SeqIds
    BY <1>1, <1>6, Parts DEF ReceiveCreateSequenceResponse
  <2>2. SequenceTypeOK' /\ ClientTypeOK' /\ net' = net
    BY <1>2, <1>6, <2>1 DEF ReceiveCreateSequenceResponse, SequenceTypeOK, ClientTypeOK, TwoWay, OneWay
  <2> QED
    BY <1>1, <1>4, <1>5, <2>2 DEF TypeInv, TypeOK
<1>7. CASE ReceiveAck(m)
  <2>1. ListsNumbers(m) /\ m.seq \in SeqIds
    BY <1>1, <1>7, Parts DEF ReceiveAck, ListsNumbers
  <2>2. confirmed' \subseteq TwoWay /\ completed' \subseteq Nat \ {0}
    BY <1>1, <1>7, <2>1, TypeAcknowledge DEF ReceiveAck
  <2>3. net' \subseteq MessageType /\ terminateAdded' \in BOOLEAN /\ ackRows' \subseteq ackRows
    BY <1>7, <2>1, TypeTerminate DEF ReceiveAck
  <2>4. SequenceTypeOK' /\ ClientTypeOK'
    BY <1>2, <1>4, <1>7, <2>2, <2>3 DEF ReceiveAck, SequenceTypeOK, ClientTypeOK, TwoWay, OneWay
  <2> QED
    BY <1>1, <1>4, <1>5, <2>3, <2>4 DEF TypeInv, TypeOK
<1>7a. CASE ReceiveTerminateWithAck(m)
  <2>1. ListsNumbers(m) /\ m.seq \in SeqIds
    BY <1>1, <1>7a, Parts DEF ReceiveTerminateWithAck, ListsNumbers
  <2>2. confirmed' \subseteq TwoWay /\ completed' \subseteq Nat \ {0}
    BY <1>1, <1>2, <1>7a, <2>1, TypeAcknowledge
       DEF ReceiveTerminateWithAck, SequenceTypeOK, ClientTypeOK
  <2>3. net' \subseteq MessageType /\ terminateAdded' \in BOOLEAN /\ ackRows' \subseteq ackRows
    BY <1>7a, <2>1, ResponseToTerminate, TypeTerminate DEF ReceiveTerminateWithAck
  <2>4. SequenceTypeOK' /\ ClientTypeOK'
    BY <1>2, <1>4, <1>7a, <2>2, <2>3
       DEF ReceiveTerminateWithAck, SequenceTypeOK, ClientTypeOK, TwoWay, OneWay
  <2> QED
    BY <1>1, <1>4, <1>5, <2>3, <2>4 DEF TypeInv, TypeOK
<1>7b. CASE ReceiveTerminate(m)
  <2>1. recorded = {} \/ HighestIn \in recorded
    BY <1>3 DEF NumbersOK, HighestExists, HighestIn
  <2>2. net' \subseteq MessageType /\ terminateAdded' \in BOOLEAN /\ ackRows' \subseteq ackRows
    <3>1. CASE SendOthers(TerminateResponse)
      BY <3>1, NoSeqAssumption, ResponseToTerminate, TypeTerminate
    <3>2. CASE outSeq # NoSeq /\ SendTerminate(outSeq, TerminateResponse)
      BY <1>2, <3>2, ResponseToTerminate, TypeTerminate DEF SequenceTypeOK
    <3> QED
      BY <1>7b, <3>1, <3>2 DEF ReceiveTerminate
  <2>3. SequenceTypeOK' /\ ClientTypeOK'
    BY <1>2, <1>4, <1>7b, <2>1, <2>2
       DEF ReceiveTerminate, SequenceTypeOK, ClientTypeOK, TwoWay, OneWay
  <2> QED
    BY <1>1, <1>4, <1>5, <2>2, <2>3 DEF TypeInv, TypeOK
<1>8. CASE ClientMakesSequence(m)
  <2>1. net' \subseteq MessageType /\ known' \subseteq SeqIds
    BY <1>1, <1>2, <1>8, Parts, Made DEF ClientMakesSequence, ClientTypeOK, Put
  <2>2. SequenceTypeOK' /\ ClientTypeOK'
    BY <1>2, <1>8, <2>1 DEF ClientMakesSequence, SequenceTypeOK, ClientTypeOK, TwoWay, OneWay
  <2> QED
    BY <1>1, <1>4, <1>5, <2>1, <2>2 DEF TypeInv, TypeOK
<1>9. CASE ClientReceives(m)
  <2>1. m.seq \in SeqIds /\ m.no \in Nat \ {0} /\ m.req \in Requests
    BY <1>1, <1>9, Parts DEF ClientReceives
  <2>2. clientHas' \subseteq [seq : SeqIds, no : Nat \ {0}, req : Requests]
    BY <1>1, <1>9, <2>1 DEF ClientReceives
  <2>2a. again' \subseteq Requests
    BY <1>2, <1>9, <2>1 DEF ClientReceives, GivenNow, ClientTypeOK
  <2>3. NumbersOf(m.seq) \in SUBSET (Nat \ {0})
    BY <2>2 DEF NumbersOf, NumbersIn
  <2>4. net' \subseteq MessageType
    BY <1>1, <1>9, <2>1, <2>3, Made DEF ClientReceives, Put
  <2>5. SequenceTypeOK' /\ ClientTypeOK'
    BY <1>2, <1>9, <2>2, <2>2a DEF ClientReceives, SequenceTypeOK, ClientTypeOK, TwoWay, OneWay
  <2> QED
    BY <1>1, <1>4, <1>5, <2>4, <2>5 DEF TypeInv, TypeOK
<1>10. CASE ClientReceivesBare(m)
  <2>1. m.req \in Requests
    BY <1>1, <1>10, Parts DEF ClientReceivesBare
  <2>2. bareGiven' \subseteq Requests /\ again' \subseteq Requests
    BY <1>2, <1>10, <2>1 DEF ClientReceivesBare, GivenNow, ClientTypeOK
  <2>3. SequenceTypeOK' /\ ClientTypeOK' /\ net' = net
    BY <1>2, <1>10, <2>2
       DEF ClientReceivesBare, SequenceTypeOK, ClientTypeOK, TwoWay, OneWay
  <2> QED
    BY <1>1, <1>4, <1>5, <2>3 DEF TypeInv, TypeOK
<1> QED
  BY <1>6, <1>7, <1>7a, <1>7b, <1>8, <1>9, <1>10 DEF Exchange

LEMMA TypeEnds ==
  ASSUME TypeInv, ClientEnds
  PROVE  TypeInv'
<1> USE DEF sequenceRows, ending, messageRows, handlers, creators, workers, client
<1>1. clientHas \subseteq [seq : SeqIds, no : Nat \ {0}, req : Requests] /\ known \subseteq SeqIds
  BY DEF TypeInv, TypeOK, ClientTypeOK
<1>2. \A s : NumbersIn(clientHas, s) \in SUBSET (Nat \ {0})
  BY <1>1 DEF NumbersIn
<1>3. net' \subseteq MessageType
  BY <1>1, <1>2, Made DEF ClientEnds, Put, TypeInv, TypeOK
<1>4. SequenceTypeOK' /\ HandlerTypeOK' /\ WorkerTypeOK' /\ ClientTypeOK'
  BY DEF ClientEnds, TypeInv, TypeOK, SequenceTypeOK, HandlerTypeOK, WorkerTypeOK, ClientTypeOK,
         TwoWay, OneWay
<1>5. HandsOK' /\ NumbersOK' /\ EnvelopesOK'
  BY DEF ClientEnds, TypeInv, HandsOK, NumbersOK, HighestExists, EnvelopesOK, Busy
<1> QED
  BY <1>3, <1>4, <1>5 DEF ClientEnds, TypeInv, TypeOK

LEMMA TypeNext == TypeInv /\ [Next]_vars => TypeInv'
<1> SUFFICES ASSUME TypeInv, [Next]_vars PROVE TypeInv'
  OBVIOUS
<1>1. CASE UNCHANGED vars
  BY <1>1 DEF vars, sequenceRows, ending, messageRows, handlers, creators, workers, client, TypeInv, TypeOK,
       SequenceTypeOK, HandlerTypeOK, WorkerTypeOK, ClientTypeOK, HandsOK, NumbersOK, HighestExists, EnvelopesOK,
       Busy, TwoWay, OneWay
<1> QED
  BY <1>1, TypeAnswer, TypeReceive, TypeCreateWork, TypeWork, TypeExchange, TypeEnds DEF Next

(***************************************************************************)
(* Types, for any number of handler threads: a response on the wire names  *)
(* a sequence and has a number, whatever was interrupted by a time-out or  *)
(* a repeated request.                                                     *)
(***************************************************************************)
THEOREM ServerTypeCorrect == Spec => []TypeOK
<1>1. TypeInv => TypeOK
  BY DEF TypeInv
<1> QED
  BY TypeInit, TypeNext, <1>1, PTL DEF Spec

-----------------------------------------------------------------------------
(***************************************************************************)
(* No response is lost.  A step that numbers nothing and receives nothing  *)
(* at the client keeps the invariant when what it sends has the number of  *)
(* its row.                                                                *)
(***************************************************************************)
OneThread == \A t, u \in Threads : t = u

NumberedKept ==
  /\ UNCHANGED <<lastNo, timedOut>>
  /\ \A t \in Threads : /\ at'[t] = "numbered" <=> at[t] = "numbered"
                        /\ at[t] = "numbered" => req'[t] = req[t]

SendsOnly ==
  \A m \in net' \ net :
    /\ ~ListsNumbers(m)
    /\ m.type = "Response" => m.no = number[m.req]
    /\ m.type = "Bare" => number[m.req] # 0

LEMMA LossQuiet ==
  ASSUME LossInv, TypeInv', UNCHANGED <<number, clientHas, confirmed>>,
         net \subseteq net', SendsOnly, timedOut' \/ NumberedKept
  PROVE  LossInv'
<1>1. SentOK' /\ BareOK'
  BY DEF LossInv, SentOK, BareOK, SendsOnly
<1>2. ReceivedOK'
  BY DEF LossInv, ReceivedOK, Sent
<1>3. ListedOK'
  BY DEF LossInv, ListedOK, SendsOnly
<1>4. timedOut' \/ NumbersUnique'
  BY DEF LossInv, NumbersUnique, NumberedKept
<1>5. NoResponseLost'
  BY DEF LossInv, NoResponseLost, NumberedKept
<1> QED
  BY <1>1, <1>2, <1>3, <1>4, <1>5 DEF LossInv

LEMMA LossAnswer ==
  ASSUME OneThread, LossInv, TypeInv', NEW t \in Threads, Answer(t)
  PROVE  LossInv'
<1> USE DEF sequenceRows, ending, messageRows, handlers, creators, workers, client
<1> DEFINE r == req[t]
<1>1. /\ at \in [Threads -> ThreadPlaces] /\ req \in [Threads -> TwoWay \cup {NoRequest}]
      /\ number \in [Requests -> Nat] /\ lastNo \in Nat
      /\ Busy(t) => r \in Requests
      /\ net \subseteq MessageType
      /\ clientHas \subseteq [seq : SeqIds, no : Nat \ {0}, req : Requests]
  BY SettingFacts DEF LossInv, TypeInv, TypeOK, HandlerTypeOK, SequenceTypeOK, ClientTypeOK, Busy
<1>2. HandsOK /\ NumbersOK
  BY DEF LossInv, TypeInv
<1>3. CASE CheckTimedOut(t)
  <2>1. NumberedKept /\ SendsOnly
    BY <1>1, <1>3 DEF CheckTimedOut, Goto, NumberedKept, SendsOnly
  <2> QED
    BY <1>3, <2>1, LossQuiet DEF CheckTimedOut
<1>4. CASE ReadLastNo(t)
  <2>1. /\ r \in Requests /\ number[r] = 0 /\ \A u \in Threads : u = t
        /\ number' = [number EXCEPT ![r] = lastNo + 1]
        /\ at' = [at EXCEPT ![t] = "numbered"] /\ at[t] = "checked"
        /\ UNCHANGED <<net, clientHas, confirmed, timedOut, down, lastNo, req>>
    BY <1>1, <1>2, <1>4 DEF ReadLastNo, Goto, Busy, HandsOK, NextNo, OneThread
  <2>2. SentOK'
    <3>1. ASSUME NEW m \in net, m.type = "Response" PROVE m.no = number'[m.req]
      BY <1>1, <2>1, <3>1, Parts DEF LossInv, SentOK
    <3> QED
      BY <2>1, <3>1 DEF SentOK
  <2>3. ReceivedOK'
    <3>1. ASSUME NEW x \in clientHas PROVE x.no = number'[x.req]
      <4>1. x.no = number[x.req] /\ x.no # 0 /\ x.req \in Requests
        BY <1>1 DEF LossInv, ReceivedOK
      <4> QED
        BY <1>1, <2>1, <4>1
    <3> QED
      BY <2>1, <3>1 DEF LossInv, ReceivedOK, Sent
  <2>4. ListedOK' /\ NoResponseLost'
    BY <2>1 DEF LossInv, ListedOK, NoResponseLost
  <2>4a. BareOK'
    <3>1. ASSUME NEW m \in net, m.type = "Bare" PROVE number'[m.req] # 0
      BY <1>1, <2>1, <3>1, Parts DEF LossInv, BareOK
    <3> QED
      BY <2>1, <3>1 DEF BareOK
  <2>5. timedOut' \/ NumbersUnique'
    <3>1. CASE timedOut
      BY <2>1, <3>1
    <3>2. CASE NumbersUnique
      <4>1. \A q \in Requests : number[q] <= lastNo
        BY <2>1, <3>2 DEF NumbersUnique
      <4>2. \A q \in Requests : q # r => number'[q] = number[q]
        BY <1>1, <2>1
      <4>3. number'[r] = lastNo + 1
        BY <1>1, <2>1
      <4>4. \A q, p \in Requests : number'[q] = number'[p] /\ number'[q] # 0 => q = p
        BY <1>1, <3>2, <4>1, <4>2, <4>3 DEF NumbersUnique
      <4>5. at'[t] = "numbered" /\ req'[t] = r
        BY <1>1, <2>1
      <4> QED
        BY <1>1, <2>1, <4>1, <4>2, <4>3, <4>4, <4>5 DEF NumbersUnique
    <3> QED
      BY <3>1, <3>2 DEF LossInv
  <2> QED
    BY <2>2, <2>3, <2>4, <2>4a, <2>5 DEF LossInv
<1>5. CASE WriteLastNo(t)
  <2>1. /\ r \in Requests /\ \A u \in Threads : u = t
        /\ lastNo' = number[r]
        /\ at'[t] # "numbered" /\ at[t] = "numbered"
        /\ UNCHANGED <<net, clientHas, confirmed, timedOut, down, number, req>>
    BY <1>1, <1>5 DEF WriteLastNo, Goto, Busy, OneThread
  <2>2. timedOut' \/ NumbersUnique'
    <3>1. CASE timedOut
      BY <2>1, <3>1
    <3>2. CASE NumbersUnique
      <4>1. lastNo' = lastNo + 1
        BY <2>1, <3>2 DEF NumbersUnique
      <4>2. \A q \in Requests : number[q] <= lastNo'
        BY <1>1, <2>1, <3>2, <4>1 DEF NumbersUnique
      <4>3. \A u \in Threads : at'[u] # "numbered"
        BY <1>1, <2>1
      <4> QED
        BY <2>1, <3>2, <4>2, <4>3 DEF NumbersUnique
    <3> QED
      BY <3>1, <3>2 DEF LossInv
  <2> QED
    BY <2>1, <2>2 DEF LossInv, SentOK, BareOK, ReceivedOK, Sent, ListedOK, NoResponseLost
<1>5a. CASE LookForCreate(t) \/ AskForSequence(t)
  <2>1. NumberedKept /\ SendsOnly
    BY <1>1, <1>5a DEF LookForCreate, AskForSequence, Goto, NumberedKept, SendsOnly
  <2> QED
    BY <1>5a, <2>1, LossQuiet DEF LookForCreate, AskForSequence
<1>6. CASE InsertRow(t)
  <2>1. NumberedKept /\ SendsOnly
    BY <1>1, <1>6 DEF InsertRow, Goto, NumberedKept, SendsOnly
  <2> QED
    BY <1>6, <2>1, LossQuiet DEF InsertRow
<1>7. CASE Reply(t)
  <2>1. NumberedKept
    BY <1>1, <1>7 DEF Reply, Take, NumberedKept
  <2>2. SendsOnly
    BY <1>7 DEF Reply, Put, Response, SendsOnly, ListsNumbers
  <2> QED
    BY <1>7, <2>1, <2>2, LossQuiet DEF Reply, Take, Put
<1>8. CASE StartWorker(t)
  <2>1. NumberedKept /\ SendsOnly
    BY <1>1, <1>8 DEF StartWorker, Take, NumberedKept, SendsOnly
  <2> QED
    BY <1>8, <2>1, LossQuiet DEF StartWorker, Take
<1>9. CASE StartTimesOut(t)
  BY <1>9, LossQuiet DEF StartTimesOut, Take, TimeOutSequence, SendsOnly
<1> QED
  BY <1>3, <1>4, <1>5, <1>5a, <1>6, <1>7, <1>8, <1>9 DEF Answer

LEMMA LossReceive ==
  ASSUME LossInv, TypeInv', NEW t \in Threads, NEW r \in TwoWay \cup OneWay, Receive(t, r)
  PROVE  LossInv'
<1> USE DEF sequenceRows, ending, messageRows, handlers, creators, workers, client
<1>1. at \in [Threads -> ThreadPlaces] /\ req \in [Threads -> TwoWay \cup {NoRequest}]
  BY DEF LossInv, TypeInv, TypeOK, HandlerTypeOK
<1>2. ASSUME NEW nos, AckIfRequired(r, nos) PROVE net \subseteq net' /\ SendsOnly
  BY <1>2 DEF AckIfRequired, Put, RequestAck, SendsOnly, ListsNumbers
<1>3. CASE AcceptRequest(t, r)
  <2>1. NumberedKept
    BY <1>1, <1>3 DEF AcceptRequest, Take, NumberedKept
  <2>2. net \subseteq net' /\ SendsOnly
    BY <1>2, <1>3 DEF AcceptRequest
  <2> QED
    BY <1>3, <2>1, <2>2, LossQuiet DEF AcceptRequest, Take
<1>4. CASE RepeatResponse(t, r)
  <2>1. NumberedKept
    BY <1>4 DEF RepeatResponse, NumberedKept
  <2>2. PICK b \in stored : net' = net \cup {ResponseTo(b, recorded)}
    BY <1>4 DEF RepeatResponse, Put
  <2>3. number[b] # 0
    BY DEF LossInv, TypeInv, NumbersOK
  <2>4. net \subseteq net' /\ SendsOnly
    BY <2>2, <2>3 DEF ResponseTo, Response, Bare, SendsOnly, ListsNumbers
  <2> QED
    BY <1>4, <2>1, <2>4, LossQuiet DEF RepeatResponse
<1>5. CASE RepeatNothing(t, r)
  BY <1>5, LossQuiet DEF RepeatNothing, NumberedKept, SendsOnly
<1>6. CASE AckAgain(t, r)
  <2>1. net \subseteq net' /\ SendsOnly
    BY <1>2, <1>6 DEF AckAgain
  <2> QED
    BY <1>6, <2>1, LossQuiet DEF AckAgain, NumberedKept
<1> QED
  BY <1>3, <1>4, <1>5, <1>6 DEF Receive

LEMMA LossWork ==
  ASSUME LossInv, TypeInv', NEW r \in Requests, CreateWork(r) \/ Work(r)
  PROVE  LossInv'
<1> USE DEF sequenceRows, ending, messageRows, handlers, creators, workers, client
<1>1. UNCHANGED <<at, req, number, clientHas, confirmed, down>>
  BY DEF CreateWork, CreateLookUp, CreateSend, CreateTimesOut, Work, WorkerStarts, WorkerWaits,
         WorkerLooksAgain, CompleteMessage, WorkerLooksUp, WorkerSends, WorkerTimesOut
<1>2. net \subseteq net' /\ SendsOnly
  BY DEF CreateWork, CreateLookUp, CreateSend, CreateTimesOut, Work, WorkerStarts, WorkerWaits,
         WorkerLooksAgain, CompleteMessage, WorkerLooksUp, WorkerSends, WorkerTimesOut, Put,
         CreateSequence, Response, SendsOnly, ListsNumbers
<1>3. timedOut' \/ NumberedKept
  BY <1>1 DEF CreateWork, CreateLookUp, CreateSend, CreateTimesOut, Work, WorkerStarts, WorkerWaits,
         WorkerLooksAgain, CompleteMessage, WorkerLooksUp, WorkerSends, WorkerTimesOut,
         TimeOutSequence, NumberedKept
<1> QED
  BY <1>1, <1>2, <1>3, LossQuiet

(***************************************************************************)
(* The heart of the argument: the client lists numbers of responses it     *)
(* has, and until a time-out a number belongs to one response.             *)
(***************************************************************************)
LEMMA AckedIsReceived ==
  ASSUME LossInv, ~timedOut, NEW m \in net, ListsNumbers(m),
         NEW acked \in OneRowEach(m.nos), NEW r \in acked
  PROVE  \E x \in clientHas : x.req = r
<1>1. /\ number \in [Requests -> Nat] /\ rows \subseteq Requests
      /\ clientHas \subseteq [seq : SeqIds, no : Nat \ {0}, req : Requests]
  BY SettingFacts DEF LossInv, TypeInv, TypeOK, HandlerTypeOK, SequenceTypeOK, ClientTypeOK
<1>2. r \in Requests /\ number[r] \in m.nos
  BY <1>1 DEF OneRowEach
<1>3. PICK x \in clientHas : x.no = number[r]
  BY <1>2 DEF LossInv, ListedOK
<1>4. x.req \in Requests /\ x.no # 0 /\ x.no = number[x.req]
  BY <1>1 DEF LossInv, ReceivedOK
<1>5. number[x.req] = number[r] /\ number[x.req] # 0
  BY <1>3, <1>4
<1>6. x.req = r
  BY <1>2, <1>4, <1>5 DEF LossInv, NumbersUnique
<1> QED
  BY <1>6

LEMMA LossAcknowledge ==
  ASSUME LossInv, TypeInv', NEW m \in net, ListsNumbers(m), Acknowledge(m),
         net \subseteq net', SendsOnly,
         UNCHANGED <<number, clientHas, timedOut, down, lastNo, at, req>>
  PROVE  LossInv'
<1>1. PICK acked \in OneRowEach(m.nos) : confirmed' = confirmed \cup acked
  BY DEF Acknowledge
<1>2. SentOK' /\ BareOK' /\ ReceivedOK' /\ ListedOK' /\ (timedOut' \/ NumbersUnique')
  BY DEF LossInv, SentOK, BareOK, ReceivedOK, Sent, ListedOK, NumbersUnique, SendsOnly
<1>3. ASSUME ~timedOut, NEW r \in acked PROVE \E x \in clientHas : x.req = r
  BY <1>3, AckedIsReceived
<1>4. NoResponseLost'
  BY <1>1, <1>3 DEF LossInv, NoResponseLost
<1> QED
  BY <1>2, <1>4 DEF LossInv

(***************************************************************************)
(* The end of a sequence sends neither a response nor a list of responses, *)
(* and its message takes along the acknowledgement it removes.             *)
(***************************************************************************)
LEMMA EndMessages ==
  ASSUME NEW s, NEW others, \A m \in others : m.type = "RequestAck",
         SendTerminate(s, others) \/ SendOthers(others), UNCHANGED ours
  PROVE  /\ net \subseteq net' /\ SendsOnly /\ \A m \in net' \ net : m.type # "Response"
         /\ \A q : WaitsInTable(q) => WaitsInTable(q)' \/ q \in Acked'
<1>1. \A nos : /\ Terminate(s, nos).type = "Terminate"
               /\ Terminate(s, nos).acks = nos
  BY DEF Terminate
<1>2. CASE SendOthers(others)
  BY <1>2 DEF SendOthers, SendsOnly, ListsNumbers, WaitsInTable
<1>3. ASSUME NEW nos, net' = net \cup others \cup {Terminate(s, nos)}
      PROVE  /\ net \subseteq net' /\ SendsOnly /\ \A m \in net' \ net : m.type # "Response"
             /\ nos \subseteq Acked'
  <2> DEFINE m == Terminate(s, nos)
  <2>1. m.type = "Terminate" /\ m.acks = nos
    BY <1>1
  <2> HIDE DEF m
  <2>2. net \subseteq net' /\ \A o \in net' \ net : o.type \in {"RequestAck", "Terminate"}
    BY <1>3, <2>1 DEF m
  <2>3. m \in net'
    BY <1>3 DEF m
  <2> QED
    BY <2>1, <2>2, <2>3 DEF SendsOnly, ListsNumbers, Acked
<1>4. CASE net' = net \cup others \cup {Terminate(s, {})} /\ UNCHANGED ackRows
  BY <1>3, <1>4 DEF WaitsInTable
<1>5. CASE \E a \in OldestFor(s) : /\ net' = net \cup others \cup {Terminate(s, a.nos)}
                                   /\ ackRows' \in WithoutOldest(a)
  <2>1. PICK a \in ackRows : /\ net' = net \cup others \cup {Terminate(s, a.nos)}
                             /\ ackRows' \in WithoutOldest(a)
    BY <1>5 DEF OldestFor
  <2>2. /\ net \subseteq net' /\ SendsOnly /\ \A m \in net' \ net : m.type # "Response"
        /\ a.nos \subseteq Acked'
    BY <1>3, <2>1
  <2>3. ackRows \ {a} \subseteq ackRows'
    BY <2>1 DEF WithoutOldest
  <2> QED
    BY <2>2, <2>3 DEF WaitsInTable
<1> QED
  BY <1>2, <1>4, <1>5 DEF SendTerminate

LEMMA LossExchange ==
  ASSUME LossInv, TypeInv', NEW m \in net, Exchange(m)
  PROVE  LossInv'
<1> USE DEF sequenceRows, ending, messageRows, handlers, creators, workers, client
<1>1. /\ number \in [Requests -> Nat] /\ rows \subseteq Requests /\ m \in MessageType
      /\ clientHas \subseteq [seq : SeqIds, no : Nat \ {0}, req : Requests]
  BY SettingFacts DEF LossInv, TypeInv, TypeOK, HandlerTypeOK, SequenceTypeOK, ClientTypeOK
<1>0. \A o \in TerminateResponse : o.type = "RequestAck"
  BY ResponseToTerminate DEF LossInv
<1>2. CASE ReceiveCreateSequenceResponse(m)
  BY <1>2, LossQuiet DEF ReceiveCreateSequenceResponse, NumberedKept, SendsOnly
<1>3. CASE ReceiveAck(m)
  <2>1. ListsNumbers(m) /\ Acknowledge(m)
    BY <1>3 DEF ReceiveAck, ListsNumbers
  <2>2. net \subseteq net' /\ SendsOnly
    BY <1>3, EndMessages DEF ReceiveAck, TypeInv, TypeOK, SequenceTypeOK
  <2> QED
    BY <1>3, <2>1, <2>2, LossAcknowledge DEF ReceiveAck
<1>3a. CASE ReceiveTerminateWithAck(m)
  <2>1. net \subseteq net' /\ SendsOnly
    BY <1>3a, <1>0, ResponseToTerminate, EndMessages DEF ReceiveTerminateWithAck
  <2>2. CASE terminateAdded
    BY <1>3a, <2>1, <2>2, LossQuiet DEF ReceiveTerminateWithAck, NumberedKept
  <2>3. CASE ~terminateAdded
    <3>1. ListsNumbers(m) /\ Acknowledge(m)
      BY <1>3a, <2>3 DEF ReceiveTerminateWithAck, ListsNumbers
    <3> QED
      BY <1>3a, <2>1, <3>1, LossAcknowledge DEF ReceiveTerminateWithAck
  <2> QED
    BY <2>2, <2>3
<1>3b. CASE ReceiveTerminate(m)
  <2>1. net \subseteq net' /\ SendsOnly
    BY <1>3b, <1>0, ResponseToTerminate, EndMessages DEF ReceiveTerminate
  <2> QED
    BY <1>3b, <2>1, LossQuiet DEF ReceiveTerminate, NumberedKept
<1>4. CASE ClientMakesSequence(m)
  BY <1>4, LossQuiet DEF ClientMakesSequence, NumberedKept, SendsOnly, ListsNumbers, Put,
     CreateSequenceResponse
<1>5. CASE ClientReceives(m)
  <2>1. /\ m.type = "Response" /\ m.seq \in SeqIds /\ m.no = number[m.req]
        /\ UNCHANGED <<number, timedOut, down, lastNo, at, req, confirmed>>
    BY <1>1, <1>5, Parts DEF ClientReceives, LossInv, SentOK
  <2>2. net' = net \cup {ResponseAck(m.seq, NumbersOf(m.seq))}
    BY <1>5 DEF ClientReceives, Put
  <2>3. clientHas \subseteq clientHas'
    BY <1>5 DEF ClientReceives
  <2>4. \A x \in clientHas' : x.no = number[x.req] /\ Sent(x.req)
    BY <1>5, <2>1 DEF ClientReceives, LossInv, ReceivedOK, Sent
  <2>5. SentOK' /\ BareOK'
    BY <2>1, <2>2 DEF LossInv, SentOK, BareOK, ResponseAck
  <2>6. ReceivedOK'
    BY <2>1, <2>2, <2>4 DEF ReceivedOK, Sent
  <2>7. \A n \in NumbersOf(m.seq) : \E x \in clientHas' : x.no = n
    BY DEF NumbersOf, NumbersIn
  <2>8. ListedOK'
    BY <2>2, <2>3, <2>7 DEF LossInv, ListedOK, ResponseAck
  <2>9. (timedOut' \/ NumbersUnique') /\ NoResponseLost'
    BY <2>1, <2>3 DEF LossInv, NumbersUnique, NoResponseLost
  <2> QED
    BY <2>5, <2>6, <2>8, <2>9 DEF LossInv
<1>6. CASE ClientReceivesBare(m)
  BY <1>6, LossQuiet DEF ClientReceivesBare, NumberedKept, SendsOnly
<1> QED
  BY <1>2, <1>3, <1>3a, <1>3b, <1>4, <1>5, <1>6 DEF Exchange

LEMMA LossEnds ==
  ASSUME LossInv, TypeInv', ClientEnds
  PROVE  LossInv'
<1> USE DEF sequenceRows, ending, messageRows, handlers, creators, workers, client
<1>0. PICK s \in known : \E nos \in {{}, NumbersIn(clientHas, s)} :
        net' = net \cup {ClientTerminate(s, nos)}
  BY DEF ClientEnds, Put
<1>1. PICK nos \in {{}, NumbersIn(clientHas, s)} : net' = net \cup {ClientTerminate(s, nos)}
  BY <1>0
<1>2. \A n \in nos : \E x \in clientHas : x.no = n
  BY DEF NumbersIn
<1>3. ClientTerminate(s, nos).type = "ClientTerminate" /\ ClientTerminate(s, nos).nos = nos
  BY DEF ClientTerminate
<1>4. UNCHANGED <<number, clientHas, confirmed, timedOut, down, lastNo, at, req>>
  BY DEF ClientEnds
<1>5. SentOK' /\ BareOK' /\ ReceivedOK' /\ ListedOK'
  BY <1>1, <1>2, <1>3, <1>4 DEF LossInv, SentOK, BareOK, ReceivedOK, Sent, ListedOK
<1>6. (timedOut' \/ NumbersUnique') /\ NoResponseLost'
  BY <1>4 DEF LossInv, NumbersUnique, NoResponseLost
<1> QED
  BY <1>5, <1>6 DEF LossInv

LEMMA LossInit == Init => LossInv
  BY TypeInit DEF Init, LossInv, SentOK, BareOK, ReceivedOK, ListedOK, NumbersUnique, NoResponseLost

LEMMA LossNext == OneThread /\ LossInv /\ [Next]_vars => LossInv'
<1> SUFFICES ASSUME OneThread, LossInv, [Next]_vars PROVE LossInv'
  OBVIOUS
<1>1. TypeInv'
  BY TypeNext DEF LossInv
<1>2. CASE UNCHANGED vars
  BY <1>1, <1>2, LossQuiet DEF vars, sequenceRows, ending, messageRows, handlers, creators, workers, client,
       NumberedKept, SendsOnly
<1> QED
  BY <1>1, <1>2, LossAnswer, LossReceive, LossWork, LossExchange, LossEnds DEF Next

(***************************************************************************)
(* A response whose row an acknowledgement removed has reached the client, *)
(* whatever is repeated, late, lost or sent on another sequence.           *)
(***************************************************************************)
THEOREM NoAcknowledgedResponseLost ==
  ASSUME OneThread
  PROVE  Spec => []NoResponseLost
<1>1. LossInv => NoResponseLost
  BY DEF LossInv
<1> QED
  BY LossInit, LossNext, <1>1, PTL DEF Spec

-----------------------------------------------------------------------------
(***************************************************************************)
(* No acknowledgement of a request is lost.                                *)
(***************************************************************************)
LEMMA Grows ==
  ASSUME net \subseteq net'
  PROVE  Acked \subseteq Acked' /\ \A r : Sent(r) => Sent(r)'
  BY DEF Acked, Sent

LEMMA AcksSent ==
  ASSUME NEW m, net' = net \cup {m}, m.type \in {"Response", "Bare", "RequestAck", "Terminate"}
  PROVE  m.acks \subseteq Acked'
  BY DEF Acked

LEMMA AckFacts ==
  ASSUME AckInv
  PROVE  /\ TwoWay \subseteq Requests /\ OneWay \subseteq Requests
         /\ setting.channel \in {"replay", "dual"} /\ setting.offered \in BOOLEAN
         /\ timedOut \in BOOLEAN /\ down \in BOOLEAN
         /\ at \in [Threads -> ThreadPlaces] /\ req \in [Threads -> TwoWay \cup {NoRequest}]
         /\ \A t \in Threads : at[t] # "idle" => req[t] \in TwoWay
         /\ recorded \subseteq Requests /\ rows \subseteq Requests /\ stored \subseteq Requests
         /\ worker \in [Requests -> WorkerPlaces] /\ carried \in [Requests -> SUBSET Requests]
         /\ ours \subseteq SeqIds /\ NoSeq \notin SeqIds
  BY SettingFacts, SettingsAssumption, NoSeqAssumption
     DEF SettingType, AckInv, LossInv, TypeInv, TypeOK, SequenceTypeOK, HandlerTypeOK, WorkerTypeOK

(***************************************************************************)
(* A step that sends no response, takes nothing away and only moves        *)
(* threads between places where they have a request in hand.               *)
(***************************************************************************)
LEMMA AckQuiet ==
  ASSUME AckInv, LossInv',
         UNCHANGED <<setting, recorded, timedOut, rows, stored, worker, carried, req>>,
         net \subseteq net', \A m \in net' \ net : m.type # "Response",
         ackRows \subseteq ackRows', ours \subseteq ours', outSeq' = outSeq \/ outSeq' \in ours',
         \A t \in Threads : /\ at[t] # "idle" => at'[t] # "idle"
                            /\ at'[t] \in {"unstored", "reply"} => at'[t] = at[t],
         down => down'
  PROVE  AckInv'
<1>1. Acked \subseteq Acked' /\ \A r : Sent(r)' <=> Sent(r)
  BY Grows DEF Sent
<1>2. ChannelOK' /\ (timedOut' \/ RowsKept')
  BY <1>1 DEF AckInv, ChannelOK, RowsKept
<1>3. SentWhole'
  BY <1>1 DEF AckInv, SentWhole, Sequenced
<1>4. (setting.offered /\ ~timedOut => outSeq \in ours)'
  BY DEF AckInv
<1>5. AckKept'
  BY <1>1, AckFacts DEF AckInv, AckKept, WaitsInTable, WaitsInMessage, WaitsForReply
<1> QED
  BY <1>2, <1>3, <1>4, <1>5 DEF AckInv

LEMMA AckTimeOut ==
  ASSUME AckInv, LossInv', timedOut', UNCHANGED <<setting, net, carried>>,
         stored' \subseteq stored,
         \A t \in Threads : at'[t] \in {at[t], "idle"},
         \A r \in Requests : worker'[r] = worker[r] \/ (worker[r] # "off" /\ worker'[r] = "done")
  PROVE  AckInv'
<1>1. ChannelOK'
  BY DEF AckInv, ChannelOK
<1>2. SentWhole'
  BY DEF AckInv, SentWhole, Sent, Acked, Sequenced
<1>3. AckKept'
  BY DEF AckKept
<1> QED
  BY <1>1, <1>2, <1>3 DEF AckInv

(***************************************************************************)
(* A worker on its way to the first transmission, or to the next.          *)
(***************************************************************************)
LEMMA AckMove ==
  ASSUME AckInv, LossInv', NEW r \in Requests, NEW to,
         worker' = [worker EXCEPT ![r] = to],
         \/ worker[r] \in Early /\ to \in Early \cup {"done"}
         \/ worker[r] = "checking" /\ to \in {"due", "done"},
         to = "done" => r \notin rows,
         UNCHANGED <<setting, net, recorded, ours, outSeq, timedOut, rows, stored, carried,
                     ackRows, at, req, down>>
  PROVE  AckInv'
<1>1. worker \in [Requests -> WorkerPlaces]
  BY AckFacts
<1>2. (\A q : Sent(q)' <=> Sent(q)) /\ Acked' = Acked
  BY DEF Sent, Acked
<1>3. setting.channel = "dual"
  BY AckFacts DEF AckInv, ChannelOK, Early
<1>4. ChannelOK'
  BY <1>3 DEF AckInv, ChannelOK
<1>5. worker[r] \in Early => ~Sent(r)
  BY <1>3 DEF AckInv, SentWhole, Sequenced, Early
<1>6. SentWhole'
  BY <1>1, <1>2, <1>5 DEF AckInv, SentWhole, Sequenced, Early
<1>7. timedOut' \/ RowsKept'
  BY <1>1, <1>2 DEF AckInv, RowsKept, Early
<1>8. AckKept'
  <2>1. ASSUME NEW q, WaitsInMessage(q) PROVE WaitsInMessage(q)'
    BY <1>1, <2>1, AckFacts DEF WaitsInMessage, Early
  <2> QED
    BY <1>2, <2>1 DEF AckInv, AckKept, WaitsInTable, WaitsForReply
<1> QED
  BY <1>4, <1>6, <1>7, <1>8 DEF AckInv

LEMMA AckAnswer ==
  ASSUME AckInv, LossInv', NEW t \in Threads, Answer(t)
  PROVE  AckInv'
<1> USE DEF sequenceRows, ending, messageRows, handlers, creators, workers, client
<1> DEFINE r == req[t]
<1>1. /\ at \in [Threads -> ThreadPlaces] /\ req \in [Threads -> TwoWay \cup {NoRequest}]
      /\ Busy(t) => r \in Requests
      /\ setting.channel \in {"replay", "dual"} /\ rows \subseteq Requests
      /\ worker \in [Requests -> WorkerPlaces]
  BY AckFacts DEF Busy
<1>2. CASE CheckTimedOut(t)
  BY <1>1, <1>2, AckQuiet DEF CheckTimedOut, Goto
<1>3. CASE ReadLastNo(t)
  BY <1>1, <1>3, AckQuiet DEF ReadLastNo, Goto
<1>4. CASE WriteLastNo(t) \/ LookForCreate(t) \/ AskForSequence(t)
  BY <1>1, <1>4, AckQuiet DEF WriteLastNo, LookForCreate, AskForSequence, Goto
<1>5. CASE InsertRow(t)
  <2>1. /\ rows' = rows \cup {r} /\ at[t] = "unsaved"
        /\ at' = [at EXCEPT ![t] = IF setting.channel = "replay" THEN "reply" ELSE "unstored"]
        /\ UNCHANGED <<setting, net, recorded, ours, outSeq, timedOut, stored, worker, carried, ackRows,
                       req, down>>
    BY <1>5 DEF InsertRow, WithRow, Goto
  <2>2. (\A q : Sent(q)' <=> Sent(q)) /\ Acked' = Acked
    BY <2>1 DEF Sent, Acked
  <2>3. ChannelOK'
    BY <1>1, <2>1 DEF AckInv, ChannelOK
  <2>4. SentWhole' /\ (timedOut' \/ RowsKept')
    BY <1>1, <2>1, <2>2 DEF AckInv, SentWhole, Sequenced, RowsKept
  <2>5. AckKept'
    BY <1>1, <2>1, <2>2 DEF AckInv, AckKept, WaitsInTable, WaitsInMessage, WaitsForReply
  <2> QED
    BY <2>1, <2>3, <2>4, <2>5 DEF AckInv
<1>6. CASE Reply(t)
  <2>0. recorded \subseteq Acked'
    <3> DEFINE m == Response(outSeq, number[r], r, recorded)
    <3>1. net' = net \cup {m} /\ m.type = "Response" /\ m.acks = recorded
      BY <1>6 DEF Reply, Put, Response
    <3> HIDE DEF m
    <3> QED
      BY <3>1, AcksSent
  <2>1. /\ setting.channel = "replay" /\ net \subseteq net' /\ recorded \subseteq Acked'
        /\ at' = [at EXCEPT ![t] = "idle"]
        /\ UNCHANGED <<setting, recorded, ours, outSeq, timedOut, rows, stored, worker, carried, ackRows, down>>
    BY <1>6, <2>0 DEF Reply, Take, Put, AckInv, ChannelOK
  <2>2. ChannelOK' /\ SentWhole' /\ (timedOut' \/ RowsKept')
    BY <1>1, <2>1, AckFacts DEF AckInv, ChannelOK, SentWhole, RowsKept, Early
  <2>3. AckKept'
    BY <2>1 DEF AckKept
  <2> QED
    BY <2>1, <2>2, <2>3 DEF AckInv
<1>7. CASE StartWorker(t)
  <2>1. /\ at[t] = "unstored" /\ r \in Requests /\ worker[r] = "off"
        /\ stored' = stored \cup {r} /\ worker' = [worker EXCEPT ![r] = "starting"]
        /\ at' = [at EXCEPT ![t] = "idle"] /\ req' = [req EXCEPT ![t] = NoRequest]
        /\ UNCHANGED <<setting, net, recorded, ours, outSeq, timedOut, rows, carried, ackRows, down>>
    BY <1>1, <1>7 DEF StartWorker, Take, AckInv, LossInv, TypeInv, HandsOK, Busy
  <2>2. (\A q : Sent(q)' <=> Sent(q)) /\ Acked' = Acked
    BY <2>1 DEF Sent, Acked
  <2>3. setting.channel = "dual"
    BY <2>1 DEF AckInv, ChannelOK
  <2>4. ChannelOK'
    BY <1>1, <2>1, <2>3 DEF AckInv, ChannelOK
  <2>5. ~Sent(r)
    BY <2>1, <2>3 DEF AckInv, SentWhole, Sequenced
  <2>6. SentWhole'
    BY <1>1, <2>1, <2>2, <2>5 DEF AckInv, SentWhole, Sequenced
  <2>7. timedOut' \/ RowsKept'
    BY <1>1, <2>1, <2>2 DEF AckInv, RowsKept, Early
  <2>8. ASSUME NEW q, WaitsInMessage(q) PROVE WaitsInMessage(q)'
    BY <1>1, <2>1, <2>8 DEF WaitsInMessage
  <2>9. AckKept'
    BY <1>1, <2>1, <2>2, <2>3, <2>8 DEF AckInv, AckKept, WaitsInTable, WaitsForReply
  <2> QED
    BY <2>1, <2>4, <2>6, <2>7, <2>9 DEF AckInv
<1>8. CASE StartTimesOut(t)
  BY <1>1, <1>8, AckTimeOut DEF StartTimesOut, TimeOutSequence, Take
<1> QED
  BY <1>2, <1>3, <1>4, <1>5, <1>6, <1>7, <1>8 DEF Answer

LEMMA AckReceive ==
  ASSUME AckInv, LossInv', NEW t \in Threads, NEW r \in TwoWay \cup OneWay, Receive(t, r)
  PROVE  AckInv'
<1> USE DEF sequenceRows, ending, messageRows, handlers, creators, workers, client
<1>1. /\ at \in [Threads -> ThreadPlaces] /\ req \in [Threads -> TwoWay \cup {NoRequest}]
      /\ r \in Requests /\ stored \subseteq Requests
      /\ setting.channel \in {"replay", "dual"} /\ rows \subseteq Requests
      /\ worker \in [Requests -> WorkerPlaces] /\ carried \in [Requests -> SUBSET Requests]
  BY AckFacts
<1>2. ASSUME NEW nos, AckIfRequired(r, nos)
      PROVE  /\ net \subseteq net' /\ ackRows \subseteq ackRows'
             /\ \A m \in net' \ net : m.type # "Response"
             /\ r \in OneWay => nos \subseteq Acked'
             /\ r \notin OneWay /\ setting.channel = "dual" /\ outSeq # NoSeq =>
                  [seq |-> outSeq, nos |-> nos] \in ackRows'
  <2>1. CASE r \in OneWay
    <3> DEFINE m == RequestAck(nos)
    <3>1. net' = net \cup {m} /\ m.type = "RequestAck" /\ m.acks = nos
      BY <1>2, <2>1 DEF AckIfRequired, Put, RequestAck
    <3>2. ackRows' = ackRows
      BY <1>2, <2>1 DEF AckIfRequired
    <3> HIDE DEF m
    <3> QED
      BY <2>1, <3>1, <3>2, AcksSent
  <2>2. CASE r \notin OneWay
    BY <1>2, <2>2 DEF AckIfRequired
  <2> QED
    BY <2>1, <2>2
<1>3. CASE AcceptRequest(t, r)
  <2>1. /\ recorded' = recorded \cup {r} /\ at[t] = "idle" /\ r \notin recorded
        /\ AckIfRequired(r, recorded')
        /\ Take(t, r, IF r \in TwoWay THEN "service" ELSE "idle")
        /\ UNCHANGED <<setting, ours, outSeq, timedOut, rows, stored, worker, carried, down>>
    BY <1>3 DEF AcceptRequest
  <2>2. /\ net \subseteq net' /\ ackRows \subseteq ackRows'
        /\ \A m \in net' \ net : m.type # "Response"
        /\ r \in OneWay => recorded' \subseteq Acked'
        /\ r \notin OneWay /\ setting.channel = "dual" /\ outSeq # NoSeq =>
             [seq |-> outSeq, nos |-> recorded'] \in ackRows'
    BY <1>2, <2>1
  <2>3. Acked \subseteq Acked' /\ \A q : Sent(q)' <=> Sent(q)
    BY <2>2, Grows DEF Sent
  <2>4. /\ at'[t] = IF r \in TwoWay THEN "service" ELSE "idle"
        /\ r \in TwoWay => req'[t] = r
        /\ \A u \in Threads : u # t => at'[u] = at[u] /\ req'[u] = req[u]
    BY <1>1, <2>1 DEF Take
  <2>5. ChannelOK' /\ SentWhole' /\ (timedOut' \/ RowsKept')
    BY <2>1, <2>3, <2>4 DEF AckInv, ChannelOK, SentWhole, Sequenced, RowsKept
  <2>6. AckKept'
    <3> SUFFICES ASSUME setting.offered, ~timedOut, ~down, NEW q \in recorded'
                 PROVE (q \in Acked \/ WaitsInTable(q) \/ WaitsInMessage(q) \/ WaitsForReply(q))'
      BY <2>1, AckFacts DEF AckKept
    <3>1. CASE q = r /\ r \in OneWay
      BY <2>2, <3>1
    <3>2. CASE q = r /\ r \notin OneWay /\ setting.channel = "dual"
      <4>1. outSeq \in ours /\ outSeq # NoSeq
        BY AckFacts DEF AckInv
      <4> QED
        BY <2>1, <2>2, <3>2, <4>1 DEF WaitsInTable
    <3>3. CASE q = r /\ r \notin OneWay /\ setting.channel = "replay"
      BY <2>1, <2>4, <3>3 DEF WaitsForReply
    <3>4. CASE q \in recorded
      <4>1. CASE WaitsForReply(q)
        BY <2>1, <2>4, <3>4, <4>1 DEF WaitsForReply
      <4>2. CASE q \in Acked \/ WaitsInTable(q) \/ WaitsInMessage(q)
        BY <2>1, <2>2, <2>3, <3>4, <4>2 DEF WaitsInTable, WaitsInMessage
      <4> QED
        BY <3>4, <4>1, <4>2, AckFacts DEF AckInv, AckKept
    <3> QED
      BY <1>1, <2>1, <3>1, <3>2, <3>3, <3>4
  <2> QED
    BY <2>1, <2>5, <2>6 DEF AckInv
<1>4. CASE RepeatResponse(t, r)
  <2>1. PICK b \in stored : /\ carried' = [carried EXCEPT ![b] = recorded]
                            /\ Put(ResponseTo(b, recorded))
    BY <1>4 DEF RepeatResponse
  <2>2. UNCHANGED <<setting, recorded, ours, outSeq, timedOut, rows, stored, worker, ackRows, at, req, down>>
    BY <1>4 DEF RepeatResponse
  <2>3. b \in Requests /\ net \subseteq net' /\ recorded \subseteq Acked'
    <3> DEFINE m == ResponseTo(b, recorded)
    <3>1. m.type \in {"Response", "Bare"} /\ m.acks = recorded
      BY DEF ResponseTo, Response, Bare
    <3>2. net' = net \cup {m}
      BY <2>1 DEF Put
    <3> HIDE DEF m
    <3> QED
      BY <1>1, <3>1, <3>2, AcksSent
  <2>4. \A q : Sent(q)' => Sent(q) \/ (q = b /\ Sequenced(b))
    BY <2>1 DEF Sent, Put, ResponseTo, Response, Bare
  <2>5. SentWhole'
    BY <1>1, <2>1, <2>2, <2>3, <2>4, Grows DEF AckInv, SentWhole, Sequenced
  <2>6. ChannelOK' /\ (timedOut' \/ RowsKept')
    BY <2>2, <2>3, Grows DEF AckInv, ChannelOK, RowsKept
  <2>7. AckKept'
    BY <2>2, <2>3 DEF AckKept
  <2> QED
    BY <2>2, <2>5, <2>6, <2>7 DEF AckInv
<1>5. CASE RepeatNothing(t, r)
  BY <1>5, AckQuiet DEF RepeatNothing
<1>6. CASE AckAgain(t, r)
  <2>1. net \subseteq net' /\ ackRows \subseteq ackRows' /\ \A m \in net' \ net : m.type # "Response"
    BY <1>2, <1>6 DEF AckAgain
  <2> QED
    BY <1>6, <2>1, AckQuiet DEF AckAgain
<1> QED
  BY <1>3, <1>4, <1>5, <1>6 DEF Receive

LEMMA AckWork ==
  ASSUME AckInv, LossInv', NEW r \in Requests, CreateWork(r) \/ Work(r)
  PROVE  AckInv'
<1> USE DEF sequenceRows, ending, messageRows, handlers, creators, workers, client, WorkerGoes
<1>1. /\ worker \in [Requests -> WorkerPlaces] /\ carried \in [Requests -> SUBSET Requests]
      /\ setting.channel \in {"replay", "dual"}
  BY AckFacts
<1>2. CASE CreateLookUp(r)
  BY <1>2, AckQuiet DEF CreateLookUp
<1>3. CASE CreateSend(r)
  BY <1>3, AckQuiet DEF CreateSend, Put, CreateSequence
<1>4. CASE CreateTimesOut(r)
  BY <1>4, AckTimeOut DEF CreateTimesOut, TimeOutSequence
<1>5. CASE WorkerTimesOut(r)
  BY <1>1, <1>5, AckTimeOut DEF WorkerTimesOut, TimeOutSequence
<1>6. CASE WorkerStarts(r)
  <2> DEFINE to == IF r \in rows THEN AfterLook(outSeq) ELSE "done"
  <2>1. to \in Early \cup {"done"} /\ (to = "done" => r \notin rows)
    BY DEF AfterLook, Early
  <2> HIDE DEF to
  <2> QED
    BY <1>6, <2>1, AckMove DEF WorkerStarts, Early, to
<1>7. CASE WorkerWaits(r)
  BY <1>7, AckMove DEF WorkerWaits, Early
<1>8. CASE WorkerLooksAgain(r)
  BY <1>8, AckMove DEF WorkerLooksAgain, AfterLook, Early
<1>9. CASE WorkerLooksUp(r)
  BY <1>9, AckMove DEF WorkerLooksUp
<1>10. CASE CompleteMessage(r)
  <2>1. /\ worker[r] = "linked" /\ worker' = [worker EXCEPT ![r] = "checking"]
        /\ UNCHANGED <<setting, net, recorded, ours, outSeq, timedOut, rows, stored, at, req, down>>
    BY <1>10 DEF CompleteMessage
  <2>2. (\A q : Sent(q)' <=> Sent(q)) /\ Acked' = Acked
    BY <2>1 DEF Sent, Acked
  <2>3. setting.channel = "dual" /\ ~Sent(r)
    BY <1>1, <2>1 DEF AckInv, ChannelOK, SentWhole, Sequenced
  <2>4. \A q \in Requests : q # r => carried'[q] = carried[q] /\ worker'[q] = worker[q]
    BY <1>1, <1>10, <2>1 DEF CompleteMessage
  <2>5. ChannelOK' /\ SentWhole'
    BY <1>1, <2>1, <2>2, <2>3, <2>4 DEF AckInv, ChannelOK, SentWhole, Sequenced
  <2>6. timedOut' \/ RowsKept'
    BY <1>1, <2>1, <2>2 DEF AckInv, RowsKept, Early
  <2>7. AckKept'
    <3> SUFFICES ASSUME setting.offered, ~timedOut, ~down, NEW q \in recorded
                 PROVE (q \in Acked \/ WaitsInTable(q) \/ WaitsInMessage(q) \/ WaitsForReply(q))'
      BY <2>1, AckFacts DEF AckKept
    <3>1. r \in rows
      BY <2>1, <2>3 DEF AckInv, RowsKept, Early
    <3>2. WaitsInMessage(q) => WaitsInMessage(q)'
      <4> SUFFICES ASSUME NEW p \in rows, worker[p] \in {"checking", "due"}, q \in carried[p]
                   PROVE WaitsInMessage(q)'
        BY DEF WaitsInMessage
      <4>1. p # r /\ p \in Requests
        BY <2>1, AckFacts
      <4> QED
        BY <2>1, <2>4, <4>1 DEF WaitsInMessage
    <3>3. WaitsForReply(q) => WaitsForReply(q)'
      BY <2>1 DEF WaitsForReply
    <3>4. WaitsInTable(q) => WaitsInTable(q)' \/ WaitsInMessage(q)'
      <4>1. CASE ackRows' = ackRows
        BY <2>1, <4>1 DEF WaitsInTable
      <4>2. ASSUME NEW a \in OldestFor(envelope[r]), carried' = [carried EXCEPT ![r] = a.nos],
                   ackRows' \in WithoutOldest(a)
            PROVE  WaitsInTable(q) => WaitsInTable(q)' \/ WaitsInMessage(q)'
        <5>1. q \in a.nos => WaitsInMessage(q)'
          BY <1>1, <2>1, <3>1, <4>2 DEF WaitsInMessage
        <5>2. ackRows \ {a} \subseteq ackRows'
          BY <4>2 DEF WithoutOldest
        <5> QED
          BY <2>1, <5>1, <5>2 DEF WaitsInTable
      <4> QED
        BY <1>10, <4>1, <4>2 DEF CompleteMessage
    <3> QED
      BY <2>2, <3>2, <3>3, <3>4, AckFacts DEF AckInv, AckKept
  <2> QED
    BY <2>1, <2>5, <2>6, <2>7 DEF AckInv
<1>11. CASE WorkerSends(r)
  <2> DEFINE m == Response(envelope[r], number[r], r, carried[r])
  <2>1. /\ worker[r] = "due" /\ worker' = [worker EXCEPT ![r] = "checking"]
        /\ net' = net \cup {m}
        /\ UNCHANGED <<setting, recorded, ours, outSeq, timedOut, rows, stored, carried, ackRows, at, req, down>>
    BY <1>11 DEF WorkerSends, Put
  <2>2. m.type = "Response" /\ m.req = r /\ m.acks = carried[r]
    BY DEF Response
  <2> HIDE DEF m
  <2>3. carried[r] \subseteq Acked'
    BY <2>1, <2>2, AcksSent
  <2>4. \A q : Sent(q)' => Sent(q) \/ q = r
    BY <2>1, <2>2 DEF Sent
  <2>5. Acked \subseteq Acked' /\ \A q : Sent(q) => Sent(q)'
    BY <2>1, Grows
  <2>6. setting.channel = "dual"
    BY <1>1, <2>1 DEF AckInv, ChannelOK
  <2>7. ChannelOK'
    BY <2>1, <2>6 DEF AckInv, ChannelOK
  <2>8. SentWhole'
    BY <1>1, <2>1, <2>3, <2>4, <2>5 DEF AckInv, SentWhole, Sequenced
  <2>9. timedOut' \/ RowsKept'
    BY <1>1, <2>1, <2>5 DEF AckInv, RowsKept, Early
  <2>10. ASSUME NEW q, WaitsInMessage(q) PROVE WaitsInMessage(q)'
    BY <1>1, <2>1, <2>10, AckFacts DEF WaitsInMessage
  <2>11. AckKept'
    BY <2>1, <2>5, <2>10 DEF AckInv, AckKept, WaitsInTable, WaitsForReply
  <2> QED
    BY <2>1, <2>7, <2>8, <2>9, <2>11 DEF AckInv
<1> QED
  BY <1>2, <1>3, <1>4, <1>5, <1>6, <1>7, <1>8, <1>9, <1>10, <1>11 DEF CreateWork, Work

(***************************************************************************)
(* Rows that leave because the client has their responses: what these had  *)
(* to take along was sent with them.                                       *)
(***************************************************************************)
LEMMA AckRemove ==
  ASSUME AckInv, LossInv', NEW acked, ~timedOut => \A q \in acked : Sent(q),
         rows' = rows \ acked, stored' = stored \ acked,
         net \subseteq net', \A o \in net' \ net : o.type # "Response",
         \A q : WaitsInTable(q) => WaitsInTable(q)' \/ q \in Acked',
         UNCHANGED <<setting, recorded, ours, outSeq, timedOut, worker, carried, at, req, down>>
  PROVE  AckInv'
<1>1. Acked \subseteq Acked' /\ \A q : Sent(q)' <=> Sent(q)
  BY Grows DEF Sent
<1>2. ChannelOK' /\ SentWhole'
  BY <1>1 DEF AckInv, ChannelOK, SentWhole, Sequenced
<1>3. timedOut' \/ RowsKept'
  BY <1>1 DEF AckInv, RowsKept, Early
<1>4. ASSUME ~timedOut, NEW q, WaitsInMessage(q) PROVE WaitsInMessage(q)' \/ q \in Acked
  <2>1. PICK p \in rows : worker[p] \in {"checking", "due"} /\ q \in carried[p]
    BY <1>4 DEF WaitsInMessage
  <2>2. CASE p \in acked
    <3>1. p \in Requests /\ setting.channel = "dual" /\ Sent(p)
      BY <1>4, <2>1, <2>2, AckFacts DEF AckInv, ChannelOK
    <3> QED
      BY <2>1, <3>1 DEF AckInv, SentWhole
  <2>3. CASE p \notin acked
    BY <2>1, <2>3 DEF WaitsInMessage
  <2> QED
    BY <2>2, <2>3
<1>5. AckKept'
  BY <1>1, <1>4, AckFacts DEF AckInv, AckKept, WaitsForReply
<1>6. (setting.offered /\ ~timedOut => outSeq \in ours)'
  BY DEF AckInv
<1> QED
  BY <1>2, <1>3, <1>5, <1>6 DEF AckInv

LEMMA AckAcknowledge ==
  ASSUME AckInv, LossInv', NEW m \in net, ListsNumbers(m), Acknowledge(m),
         net \subseteq net', \A o \in net' \ net : o.type # "Response",
         \A q : WaitsInTable(q) => WaitsInTable(q)' \/ q \in Acked',
         UNCHANGED <<setting, recorded, ours, outSeq, timedOut, worker, carried, at, req, down>>
  PROVE  AckInv'
<1>1. PICK acked \in OneRowEach(m.nos) : rows' = rows \ acked /\ stored' = stored \ acked
  BY DEF Acknowledge
<1>2. ~timedOut => \A q \in acked : Sent(q)
  BY AckedIsReceived DEF AckInv, LossInv, ReceivedOK
<1> QED
  BY <1>1, <1>2, AckRemove

LEMMA AckExchange ==
  ASSUME AckInv, LossInv', NEW m \in net, Exchange(m)
  PROVE  AckInv'
<1> USE DEF sequenceRows, ending, messageRows, handlers, creators, workers, client
<1>0. \A o \in TerminateResponse : o.type = "RequestAck"
  BY ResponseToTerminate DEF AckInv, LossInv
<1>1. CASE ReceiveCreateSequenceResponse(m)
  BY <1>1, AckQuiet DEF ReceiveCreateSequenceResponse
<1>2. CASE ReceiveAck(m)
  <2>1. ListsNumbers(m) /\ Acknowledge(m)
    BY <1>2 DEF ReceiveAck, ListsNumbers
  <2>2. /\ net \subseteq net' /\ \A o \in net' \ net : o.type # "Response"
        /\ \A q : WaitsInTable(q) => WaitsInTable(q)' \/ q \in Acked'
    BY <1>2, EndMessages DEF ReceiveAck
  <2> QED
    BY <1>2, <2>1, <2>2, AckAcknowledge DEF ReceiveAck
<1>2a. CASE ReceiveTerminateWithAck(m)
  <2>1. /\ net \subseteq net' /\ \A o \in net' \ net : o.type # "Response"
        /\ \A q : WaitsInTable(q) => WaitsInTable(q)' \/ q \in Acked'
    BY <1>2a, <1>0, EndMessages DEF ReceiveTerminateWithAck
  <2>2. CASE terminateAdded
    BY <1>2a, <2>1, <2>2, AckRemove DEF ReceiveTerminateWithAck
  <2>3. CASE ~terminateAdded
    <3>1. ListsNumbers(m) /\ Acknowledge(m)
      BY <1>2a, <2>3 DEF ReceiveTerminateWithAck, ListsNumbers
    <3> QED
      BY <1>2a, <2>1, <3>1, AckAcknowledge DEF ReceiveTerminateWithAck
  <2> QED
    BY <2>2, <2>3
<1>2b. CASE ReceiveTerminate(m)
  <2>1. /\ net \subseteq net' /\ \A o \in net' \ net : o.type # "Response"
        /\ \A q : WaitsInTable(q) => WaitsInTable(q)' \/ q \in Acked'
    BY <1>2b, <1>0, EndMessages DEF ReceiveTerminate
  <2> QED
    BY <1>2b, <2>1, AckRemove DEF ReceiveTerminate
<1>3. CASE ClientMakesSequence(m)
  BY <1>3, AckQuiet DEF ClientMakesSequence, Put, CreateSequenceResponse
<1>4. CASE ClientReceives(m)
  BY <1>4, AckQuiet DEF ClientReceives, Put, ResponseAck
<1>5. CASE ClientReceivesBare(m)
  BY <1>5, AckQuiet DEF ClientReceivesBare
<1> QED
  BY <1>1, <1>2, <1>2a, <1>2b, <1>3, <1>4, <1>5 DEF Exchange

LEMMA AckEnds ==
  ASSUME AckInv, LossInv', ClientEnds
  PROVE  AckInv'
<1> USE DEF sequenceRows, ending, messageRows, handlers, creators, workers, client
<1>1. \A o \in net' \ net : o.type # "Response"
  BY DEF ClientEnds, Put, ClientTerminate
<1> QED
  BY <1>1, AckQuiet DEF ClientEnds, Put

LEMMA AckInit == Init => AckInv
  BY LossInit DEF Init, AckInv, ChannelOK, SentWhole, Sent, RowsKept, Early, AckKept

LEMMA AckNext == OneThread /\ AckInv /\ [Next]_vars => AckInv'
<1> SUFFICES ASSUME OneThread, AckInv, [Next]_vars PROVE AckInv'
  OBVIOUS
<1>1. LossInv'
  BY LossNext DEF AckInv
<1>2. CASE UNCHANGED vars
  BY <1>1, <1>2, AckQuiet DEF vars, sequenceRows, ending, messageRows, handlers, creators, workers, client
<1> QED
  BY <1>1, <1>2, AckAnswer, AckReceive, AckWork, AckExchange, AckEnds DEF Next

(***************************************************************************)
(* The acknowledgement of a recorded request is sent or still has somebody *)
(* to send it: a row is removed for a message only while that message's    *)
(* own row keeps its worker sending.                                       *)
(***************************************************************************)
THEOREM NoAcknowledgementLost ==
  ASSUME OneThread
  PROVE  Spec => []AckKept
<1>1. AckInv => AckKept
  BY DEF AckInv
<1> QED
  BY AckInit, AckNext, <1>1, PTL DEF Spec
-----------------------------------------------------------------------------
(***************************************************************************)
(* The end of the outgoing sequence.  The list that is consulted is one    *)
(* the client made.                                                        *)
(***************************************************************************)
CompletedOK == \A n \in completed : \E x \in clientHas : x.no = n

EndInv == LossInv /\ (timedOut \/ CompletedOK)

LEMMA CompletedFrom ==
  ASSUME [Next]_vars
  PROVE  /\ \/ completed' = completed
            \/ timedOut'
            \/ \E m \in net : ListsNumbers(m) /\ completed' = m.nos
         /\ clientHas \subseteq clientHas'
         /\ timedOut => timedOut'
<1> USE DEF sequenceRows, ending, messageRows, handlers, creators, workers, client
<1>1. CASE \E t \in Threads : Answer(t)
  BY <1>1 DEF Answer, CheckTimedOut, ReadLastNo, WriteLastNo, LookForCreate, AskForSequence,
              InsertRow, Reply, StartWorker, StartTimesOut, TimeOutSequence
<1>2. CASE \E t \in Threads, r \in TwoWay \cup OneWay : Receive(t, r)
  BY <1>2 DEF Receive, AcceptRequest, RepeatResponse, RepeatNothing, AckAgain
<1>3. CASE \E r \in Requests : CreateWork(r)
  BY <1>3 DEF CreateWork, CreateLookUp, CreateSend, CreateTimesOut, TimeOutSequence
<1>4. CASE \E r \in Requests : Work(r)
  BY <1>4 DEF Work, WorkerStarts, WorkerWaits, WorkerLooksAgain, CompleteMessage, WorkerLooksUp,
              WorkerSends, WorkerTimesOut, TimeOutSequence
<1>5. ASSUME NEW m \in net, Exchange(m)
      PROVE  /\ completed' = completed \/ (ListsNumbers(m) /\ completed' = m.nos)
             /\ clientHas \subseteq clientHas' /\ timedOut' = timedOut
  BY <1>5 DEF Exchange, ReceiveCreateSequenceResponse, ReceiveAck, ReceiveTerminateWithAck,
              ReceiveTerminate, ClientMakesSequence, ClientReceives, ClientReceivesBare, Acknowledge,
              ListsNumbers
<1>6. CASE ClientEnds
  BY <1>6 DEF ClientEnds
<1>7. CASE UNCHANGED vars
  BY <1>7 DEF vars
<1> QED
  BY <1>1, <1>2, <1>3, <1>4, <1>5, <1>6, <1>7 DEF Next

LEMMA EndNext == OneThread /\ EndInv /\ [Next]_vars => EndInv'
<1> SUFFICES ASSUME OneThread, EndInv, [Next]_vars PROVE EndInv'
  OBVIOUS
<1>1. LossInv'
  BY LossNext DEF EndInv
<1>2. timedOut' \/ CompletedOK'
  BY CompletedFrom DEF EndInv, CompletedOK, LossInv, ListedOK
<1> QED
  BY <1>1, <1>2 DEF EndInv

(***************************************************************************)
(* A list of what the client has, complete up to the last number given     *)
(* out, names every response that has a number.                            *)
(***************************************************************************)
LEMMA ListedAll ==
  ASSUME LossInv, ~timedOut, NEW nos, \A n \in nos : \E x \in clientHas : x.no = n,
         1 .. lastNo \subseteq nos, NEW r \in Requests, number[r] \in 1 .. lastNo
  PROVE  \E x \in clientHas : x.req = r
<1>1. /\ number \in [Requests -> Nat] /\ lastNo \in Nat
      /\ clientHas \subseteq [seq : SeqIds, no : Nat \ {0}, req : Requests]
  BY DEF LossInv, TypeInv, TypeOK, HandlerTypeOK, SequenceTypeOK, ClientTypeOK
<1>2. PICK x \in clientHas : x.no = number[r]
  OBVIOUS
<1>3. x.req \in Requests /\ number[x.req] = number[r] /\ number[r] # 0
  BY <1>1, <1>2 DEF LossInv, ReceivedOK
<1>4. x.req = r
  BY <1>3 DEF LossInv, NumbersUnique
<1> QED
  BY <1>4

(***************************************************************************)
(* The client's TerminateSequence ends the outgoing sequence, when the     *)
(* response to its highest request has gone out, only if the client has    *)
(* every response numbered so far.                                         *)
(***************************************************************************)
THEOREM EndsWithAllReceived ==
  ASSUME OneThread
  PROVE  Spec => EndsWhenReceived
<1>1. Init => EndInv
  BY LossInit DEF Init, EndInv, CompletedOK
<1>2. EndInv /\ [Next]_vars =>
        [\A m \in net :
           (ReceiveTerminate(m) \/ ReceiveTerminateWithAck(m))
             /\ terminateAdded' # terminateAdded /\ HighestOut > 0 /\ ~lastOut /\ ~timedOut
             => \A r \in Requests :
                  number[r] \in 1 .. lastNo => \E x \in clientHas : x.req = r]_vars
  <2> SUFFICES ASSUME EndInv, ~timedOut, NEW m \in net, terminateAdded' # terminateAdded,
                      ReceiveTerminate(m) \/ ReceiveTerminateWithAck(m),
                      HighestOut > 0, ~lastOut,
                      NEW r \in Requests, number[r] \in 1 .. lastNo
               PROVE  \E x \in clientHas : x.req = r
    OBVIOUS
  <2>1. CASE ReceiveTerminate(m)
    <3>1. AllAcked(HighestOut)
      BY <2>1 DEF ReceiveTerminate, SendOthers
    <3>2. HighestOut = lastNo
      BY DEF HighestOut
    <3>3. 1 .. lastNo \subseteq completed
      BY <3>1, <3>2 DEF AllAcked
    <3> QED
      BY <3>3, ListedAll DEF EndInv, CompletedOK
  <2>2. CASE ReceiveTerminateWithAck(m)
    <3>1. ListsNumbers(m) /\ Covers(m.nos)
      BY <2>2 DEF ReceiveTerminateWithAck, SendOthers, ListsNumbers
    <3>2. 1 .. lastNo \subseteq m.nos /\ \A n \in m.nos : \E x \in clientHas : x.no = n
      BY <3>1 DEF Covers, EndInv, LossInv, ListedOK
    <3> QED
      BY <3>2, ListedAll DEF EndInv
  <2> QED
    BY <2>1, <2>2
<1> QED
  BY <1>1, <1>2, EndNext, PTL DEF Spec, EndsWhenReceived

-----------------------------------------------------------------------------
(***************************************************************************)
(* A second answer is bare.  The sequence and the number of a response are *)
(* fixed when it is first sent: by its thread, which answers once, or by   *)
(* its worker, which looks for the sequence no more.                       *)
(***************************************************************************)
Settled(m) ==
  \/ /\ worker[m.req] = "off" /\ m.req \in recorded
     /\ \A t \in Threads : Busy(t) => req[t] # m.req
  \/ Sequenced(m.req) /\ m.seq = envelope[m.req]

OneSequence ==
  \A m, o \in net : m.type = "Response" /\ o.type = "Response" /\ m.req = o.req => m.seq = o.seq

ReceivedFrom ==
  \A x \in clientHas :
    \E m \in net : m.type = "Response" /\ m.seq = x.seq /\ m.no = x.no /\ m.req = x.req

OnceInv ==
  /\ TypeInv /\ SentOK /\ OneSequence /\ ReceivedFrom
  /\ \A m \in net : m.type = "Response" => Settled(m)
  /\ SecondAnswerIsBare

LEMMA OnceFacts ==
  ASSUME TypeInv
  PROVE  /\ at \in [Threads -> ThreadPlaces] /\ req \in [Threads -> TwoWay \cup {NoRequest}]
         /\ number \in [Requests -> Nat]
         /\ worker \in [Requests -> WorkerPlaces] /\ envelope \in [Requests -> SeqIds \cup {NoSeq}]
         /\ \A t \in Threads : Busy(t) => req[t] \in Requests
         /\ \A m \in net : m.type = "Response" => m.req \in Requests /\ m.no # 0
         /\ \A m \in net : m.type = "Bare" => m.req \in Requests
         /\ rows \subseteq Requests /\ stored \subseteq Requests /\ TwoWay \cup OneWay \subseteq Requests
  BY SettingFacts, Parts DEF TypeInv, TypeOK, HandlerTypeOK, WorkerTypeOK, SequenceTypeOK, Busy

(***************************************************************************)
(* Steps that leave every thread with its request and every worker where   *)
(* it knows, or does not yet know, its sequence.                           *)
(***************************************************************************)
HandsKept ==
  /\ UNCHANGED <<worker, envelope>> /\ recorded \subseteq recorded'
  /\ \A t \in Threads : Busy(t)' => Busy(t) /\ req'[t] = req[t]

LEMMA SettledWhenKept ==
  ASSUME HandsKept, NEW m, Settled(m)
  PROVE  Settled(m)'
  BY DEF HandsKept, Settled, Sequenced

LEMMA SettledAnswer ==
  ASSUME OnceInv, NEW t \in Threads, Answer(t), NEW m \in net, m.type = "Response"
  PROVE  Settled(m)' /\ number'[m.req] = number[m.req]
<1> USE DEF sequenceRows, ending, messageRows, handlers, creators, workers, client
<1>1. /\ at \in [Threads -> ThreadPlaces] /\ req \in [Threads -> TwoWay \cup {NoRequest}]
      /\ number \in [Requests -> Nat] /\ worker \in [Requests -> WorkerPlaces]
      /\ m.req \in Requests /\ Settled(m) /\ number[m.req] # 0
      /\ Busy(t) => req[t] \in Requests
  BY OnceFacts DEF OnceInv, SentOK
<1>2. Busy(t) => worker[req[t]] = "off" /\ req[t] # m.req
  BY DEF OnceInv, TypeInv, HandsOK, Settled, Sequenced
<1>3. CASE CheckTimedOut(t)
  BY <1>1, <1>3, SettledWhenKept DEF CheckTimedOut, Goto, HandsKept, Busy
<1>4. CASE ReadLastNo(t)
  <2>1. HandsKept
    BY <1>1, <1>4 DEF ReadLastNo, Goto, HandsKept, Busy
  <2>2. number'[m.req] = number[m.req]
    BY <1>1, <1>2, <1>4 DEF ReadLastNo, Goto, Busy
  <2> QED
    BY <1>1, <2>1, <2>2, SettledWhenKept
<1>5. CASE WriteLastNo(t) \/ LookForCreate(t) \/ AskForSequence(t) \/ InsertRow(t)
  BY <1>1, <1>5, SettledWhenKept
     DEF WriteLastNo, LookForCreate, AskForSequence, InsertRow, Goto, HandsKept, Busy
<1>6. CASE Reply(t) \/ StartTimesOut(t)
  <2>1. HandsKept
    BY <1>1, <1>6 DEF Reply, StartTimesOut, TimeOutSequence, Take, HandsKept, Busy
  <2> QED
    BY <1>1, <1>6, <2>1, SettledWhenKept DEF Reply, StartTimesOut, Take
<1>7. CASE StartWorker(t)
  <2>1. /\ worker' = [worker EXCEPT ![req[t]] = "starting"] /\ at' = [at EXCEPT ![t] = "idle"]
        /\ req' = [req EXCEPT ![t] = NoRequest]
        /\ UNCHANGED <<recorded, envelope, number>> /\ Busy(t)
    BY <1>7 DEF StartWorker, Take, Busy
  <2>2. worker'[m.req] = worker[m.req]
    BY <1>1, <1>2, <2>1
  <2> QED
    BY <1>1, <2>1, <2>2 DEF Settled, Sequenced, Busy
<1> QED
  BY <1>3, <1>4, <1>5, <1>6, <1>7 DEF Answer

LEMMA SettledReceive ==
  ASSUME OnceInv, NEW t \in Threads, NEW r \in TwoWay \cup OneWay, Receive(t, r),
         NEW m \in net, m.type = "Response"
  PROVE  Settled(m)' /\ number'[m.req] = number[m.req]
<1> USE DEF sequenceRows, ending, messageRows, handlers, creators, workers, client
<1>1. /\ at \in [Threads -> ThreadPlaces] /\ req \in [Threads -> TwoWay \cup {NoRequest}]
      /\ Settled(m)
  BY OnceFacts DEF OnceInv
<1>2. CASE AcceptRequest(t, r)
  <2>1. /\ UNCHANGED <<worker, envelope, number>>
        /\ r \notin recorded /\ recorded' = recorded \cup {r}
        /\ \A u \in Threads : Busy(u)' => (Busy(u) /\ req'[u] = req[u]) \/ req'[u] = r
    BY <1>1, <1>2 DEF AcceptRequest, Take, Busy
  <2> QED
    BY <1>1, <2>1 DEF Settled, Sequenced
<1>3. CASE RepeatResponse(t, r) \/ RepeatNothing(t, r) \/ AckAgain(t, r)
  <2>1. HandsKept /\ UNCHANGED number
    BY <1>3 DEF RepeatResponse, RepeatNothing, AckAgain, HandsKept, Busy
  <2> QED
    BY <1>1, <2>1, SettledWhenKept
<1> QED
  BY <1>2, <1>3 DEF Receive

LEMMA SettledWork ==
  ASSUME OnceInv, NEW r \in Requests, CreateWork(r) \/ Work(r), NEW m \in net, m.type = "Response"
  PROVE  Settled(m)' /\ number'[m.req] = number[m.req]
<1> USE DEF sequenceRows, ending, messageRows, handlers, creators, workers, client
<1>1. worker \in [Requests -> WorkerPlaces] /\ m.req \in Requests /\ Settled(m)
      /\ envelope \in [Requests -> SeqIds \cup {NoSeq}]
  BY OnceFacts DEF OnceInv
<1>2. UNCHANGED <<at, req, recorded, number>>
  BY DEF CreateWork, CreateLookUp, CreateSend, CreateTimesOut, Work, WorkerStarts, WorkerWaits,
         WorkerLooksAgain, CompleteMessage, WorkerLooksUp, WorkerSends, WorkerTimesOut,
         TimeOutSequence
<1>3. CASE CreateWork(r)
  <2>1. HandsKept
    BY <1>2, <1>3 DEF CreateWork, CreateLookUp, CreateSend, CreateTimesOut, HandsKept, Busy
  <2> QED
    BY <1>1, <1>2, <2>1, SettledWhenKept
<1>4. CASE WorkerStarts(r) \/ WorkerWaits(r) \/ WorkerLooksAgain(r) \/ CompleteMessage(r)
  <2>1. /\ worker[r] \in Early
        /\ \A q \in Requests : q # r => worker'[q] = worker[q] /\ envelope'[q] = envelope[q]
    BY <1>1, <1>4 DEF WorkerStarts, WorkerWaits, WorkerLooksAgain, CompleteMessage, WorkerGoes, Early
  <2>2. m.req # r
    BY <1>1, <2>1 DEF Settled, Sequenced, Early
  <2> QED
    BY <1>1, <1>2, <2>1, <2>2 DEF Settled, Sequenced, Busy
<1>5. CASE WorkerLooksUp(r) \/ WorkerSends(r) \/ WorkerTimesOut(r)
  <2>1. /\ worker[r] # "off" /\ UNCHANGED envelope
        /\ \A q \in Requests : q # r => worker'[q] = worker[q]
        /\ worker'[r] \in {"checking", "due", "done"}
    BY <1>1, <1>5 DEF WorkerLooksUp, WorkerSends, WorkerTimesOut, WorkerGoes
  <2> QED
    BY <1>1, <1>2, <2>1 DEF Settled, Sequenced, Busy
<1> QED
  BY <1>3, <1>4, <1>5 DEF Work

LEMMA SettledExchange ==
  ASSUME OnceInv, (\E i \in net : Exchange(i)) \/ ClientEnds, NEW m \in net, m.type = "Response"
  PROVE  Settled(m)' /\ number'[m.req] = number[m.req]
<1> USE DEF sequenceRows, ending, messageRows, handlers, creators, workers, client
<1>1. HandsKept /\ UNCHANGED number
  BY DEF Exchange, ReceiveCreateSequenceResponse, ReceiveAck, ReceiveTerminateWithAck,
         ReceiveTerminate, ClientMakesSequence, ClientReceives, ClientReceivesBare, ClientEnds,
         HandsKept, Busy
<1> QED
  BY <1>1, SettledWhenKept DEF OnceInv

(***************************************************************************)
(* What is sent: no response, one of a worker that knows its sequence, or  *)
(* the only answer of a thread that lets go of its request.                *)
(***************************************************************************)
SendsNoResponse == net \subseteq net' /\ \A m \in net' \ net : m.type # "Response"

SendsFor(r) ==
  /\ Sequenced(r)'
  /\ \E n : net' = net \cup {n} /\ n.req = r /\ n.seq = envelope'[r] /\ n.no = number'[r]

SendsOnlyAnswer(t) ==
  /\ Busy(t) /\ UNCHANGED <<worker, number>> /\ req[t] \in recorded'
  /\ \A u \in Threads : Busy(u)' => req'[u] # req[t]
  /\ \E n : net' = net \cup {n} /\ n.req = req[t] /\ n.no = number[req[t]]

LEMMA ResponseFields ==
  \A s, n, r, nos : /\ Response(s, n, r, nos).seq = s
                    /\ Response(s, n, r, nos).no = n
                    /\ Response(s, n, r, nos).req = r
  BY DEF Response

LEMMA SendsSettled ==
  ASSUME OnceInv, [Next]_vars
  PROVE  \/ SendsNoResponse
         \/ \E r \in Requests : SendsFor(r)
         \/ \E t \in Threads : SendsOnlyAnswer(t)
<1> USE DEF sequenceRows, ending, messageRows, handlers, creators, workers, client
<1>2. CASE UNCHANGED vars
  BY <1>2 DEF vars, SendsNoResponse
<1>3. ASSUME NEW t \in Threads, Answer(t) PROVE SendsNoResponse \/ SendsOnlyAnswer(t)
  <2>1. CASE Reply(t)
    <3>1. /\ Busy(t) /\ at' = [at EXCEPT ![t] = "idle"] /\ req' = [req EXCEPT ![t] = NoRequest]
          /\ UNCHANGED <<worker, number, recorded>>
          /\ net' = net \cup {Response(outSeq, number[req[t]], req[t], recorded)}
      BY <2>1 DEF Reply, Take, Put, Busy
    <3>2. /\ at \in [Threads -> ThreadPlaces] /\ req \in [Threads -> TwoWay \cup {NoRequest}]
          /\ req[t] \in recorded
          /\ \A u \in Threads : Busy(u) /\ req[u] = req[t] => u = t
      BY <3>1, OnceFacts DEF OnceInv, TypeInv, HandsOK
    <3>3. ASSUME NEW u \in Threads, Busy(u)' PROVE req'[u] # req[t]
      <4>1. u # t /\ Busy(u) /\ req'[u] = req[u]
        BY <3>1, <3>2, <3>3 DEF Busy
      <4> QED
        BY <3>2, <4>1
    <3> QED
      BY <3>1, <3>2, <3>3, ResponseFields DEF SendsOnlyAnswer
  <2>2. CASE ~Reply(t)
    BY <1>3, <2>2 DEF Answer, CheckTimedOut, ReadLastNo, WriteLastNo, LookForCreate,
                      AskForSequence, InsertRow, StartWorker, StartTimesOut, SendsNoResponse
  <2> QED
    BY <2>1, <2>2
<1>4. ASSUME NEW t \in Threads, NEW r \in TwoWay \cup OneWay, Receive(t, r)
      PROVE  SendsNoResponse \/ \E b \in Requests : SendsFor(b)
  <2>1. CASE RepeatResponse(t, r)
    <3>1. PICK b \in stored : net' = net \cup {ResponseTo(b, recorded)}
      BY <2>1 DEF RepeatResponse, Put
    <3>2. UNCHANGED <<worker, envelope, number>> /\ b \in Requests
      BY <2>1, OnceFacts DEF RepeatResponse, OnceInv
    <3>3. CASE Sequenced(b)
      BY <3>1, <3>2, <3>3, ResponseFields DEF ResponseTo, Sequenced, SendsFor
    <3>4. CASE ~Sequenced(b)
      BY <3>1, <3>4 DEF ResponseTo, Bare, SendsNoResponse
    <3> QED
      BY <3>2, <3>3, <3>4
  <2>2. CASE AcceptRequest(t, r) \/ RepeatNothing(t, r) \/ AckAgain(t, r)
    BY <2>2 DEF AcceptRequest, RepeatNothing, AckAgain, AckIfRequired, Put, RequestAck,
                SendsNoResponse
  <2> QED
    BY <1>4, <2>1, <2>2 DEF Receive
<1>5. ASSUME NEW r \in Requests, CreateWork(r) \/ Work(r) PROVE SendsNoResponse \/ SendsFor(r)
  <2>1. CASE WorkerSends(r)
    <3>1. worker \in [Requests -> WorkerPlaces]
      BY OnceFacts DEF OnceInv
    <3>2. worker'[r] = "checking" /\ UNCHANGED <<envelope, number>>
      BY <2>1, <3>1 DEF WorkerSends, WorkerGoes
    <3>3. net' = net \cup {Response(envelope[r], number[r], r, carried[r])}
      BY <2>1 DEF WorkerSends, Put
    <3> QED
      BY <3>2, <3>3, ResponseFields DEF SendsFor, Sequenced
  <2>2. CASE ~WorkerSends(r)
    BY <1>5, <2>2 DEF CreateWork, CreateLookUp, CreateSend, CreateTimesOut, Work, WorkerStarts,
                      WorkerWaits, WorkerLooksAgain, CompleteMessage, WorkerLooksUp,
                      WorkerTimesOut, Put, CreateSequence, SendsNoResponse
  <2> QED
    BY <2>1, <2>2
<1>6. ASSUME NEW m \in net, Exchange(m) PROVE SendsNoResponse
  <2>0. \A o \in TerminateResponse : o.type = "RequestAck"
    BY ResponseToTerminate DEF OnceInv
  <2>1. CASE ReceiveCreateSequenceResponse(m)
    BY <2>1 DEF ReceiveCreateSequenceResponse, SendsNoResponse
  <2>2. CASE ReceiveAck(m)
    BY <2>2, EndMessages DEF ReceiveAck, SendsNoResponse
  <2>3. CASE ReceiveTerminateWithAck(m)
    BY <2>0, <2>3, EndMessages DEF ReceiveTerminateWithAck, SendsNoResponse
  <2>4. CASE ReceiveTerminate(m)
    BY <2>0, <2>4, EndMessages DEF ReceiveTerminate, SendsNoResponse
  <2>5. CASE ClientMakesSequence(m) \/ ClientReceives(m) \/ ClientReceivesBare(m)
    BY <2>5 DEF ClientMakesSequence, ClientReceives, ClientReceivesBare, Put,
                CreateSequenceResponse, ResponseAck, SendsNoResponse
  <2> QED
    BY <1>6, <2>1, <2>2, <2>3, <2>4, <2>5 DEF Exchange
<1>7. CASE ClientEnds
  BY <1>7 DEF ClientEnds, Put, ClientTerminate, SendsNoResponse
<1> QED
  BY <1>2, <1>3, <1>4, <1>5, <1>6, <1>7 DEF Next

LEMMA SettledNext ==
  ASSUME OnceInv, [Next]_vars, NEW m \in net, m.type = "Response"
  PROVE  Settled(m)' /\ number'[m.req] = number[m.req]
<1>1. CASE UNCHANGED vars
  BY <1>1 DEF vars, handlers, workers, OnceInv, Settled, Sequenced, Busy
<1> QED
  BY <1>1, SettledAnswer, SettledReceive, SettledWork, SettledExchange DEF Next

LEMMA OneSequenceNext ==
  ASSUME OnceInv, [Next]_vars
  PROVE  /\ \A m \in net' : m.type = "Response" => Settled(m)' /\ m.no = number'[m.req]
         /\ OneSequence'
<1>1. \A m \in net : m.type = "Response" => Settled(m)' /\ m.no = number'[m.req]
  BY SettledNext DEF OnceInv, SentOK
<1>2. CASE SendsNoResponse
  BY <1>1, <1>2 DEF SendsNoResponse, OnceInv, OneSequence
<1>3. ASSUME NEW r \in Requests, SendsFor(r)
      PROVE  /\ \A m \in net' : m.type = "Response" => Settled(m)' /\ m.no = number'[m.req]
             /\ OneSequence'
  <2>1. PICK n : net' = net \cup {n} /\ n.req = r /\ n.seq = envelope'[r] /\ n.no = number'[r]
    BY <1>3 DEF SendsFor
  <2>2. Sequenced(r)'
    BY <1>3 DEF SendsFor
  <2>4. \A m \in net' : m.type = "Response" => Settled(m)' /\ m.no = number'[m.req]
    BY <1>1, <2>1, <2>2 DEF Settled
  <2>5. \A m \in net' : m.type = "Response" /\ m.req = r => m.seq = envelope'[r]
    BY <2>2, <2>4 DEF Settled, Sequenced
  <2>6. OneSequence'
    BY <2>1, <2>5 DEF OnceInv, OneSequence
  <2> QED
    BY <2>4, <2>6
<1>4. ASSUME NEW t \in Threads, SendsOnlyAnswer(t)
      PROVE  /\ \A m \in net' : m.type = "Response" => Settled(m)' /\ m.no = number'[m.req]
             /\ OneSequence'
  <2>1. PICK n : net' = net \cup {n} /\ n.req = req[t] /\ n.no = number[req[t]]
    BY <1>4 DEF SendsOnlyAnswer
  <2>2. UNCHANGED <<worker, number>>
    BY <1>4 DEF SendsOnlyAnswer
  <2>4. worker[req[t]] = "off"
    BY <1>4 DEF SendsOnlyAnswer, OnceInv, TypeInv, HandsOK
  <2>5. Settled(n)'
    BY <1>4, <2>1, <2>2, <2>4 DEF SendsOnlyAnswer, Settled
  <2>6. \A m \in net : m.type = "Response" => m.req # req[t]
    BY <1>4, <2>4 DEF SendsOnlyAnswer, OnceInv, Settled, Sequenced
  <2>7. OneSequence'
    BY <2>1, <2>6 DEF OnceInv, OneSequence
  <2> QED
    BY <1>1, <2>1, <2>2, <2>5, <2>7
<1> QED
  BY <1>2, <1>3, <1>4, SendsSettled

(***************************************************************************)
(* The client takes what was sent, and everything but a response and a     *)
(* list of responses leaves alone what ReliableDelivery sees.              *)
(***************************************************************************)
Taken == <<clientHas, bareGiven, again>>

LEMMA ClientTakes ==
  ASSUME [Next]_vars
  PROVE  \/ UNCHANGED Taken
         \/ \E m \in net : m.type = "Response" /\ ClientReceives(m)
         \/ \E m \in net : ClientReceivesBare(m)
<1> USE DEF sequenceRows, ending, messageRows, handlers, creators, workers, client, Taken
<1>1. ASSUME NEW t \in Threads, Answer(t) PROVE UNCHANGED Taken
  BY <1>1 DEF Answer, CheckTimedOut, ReadLastNo, WriteLastNo, LookForCreate, AskForSequence,
              InsertRow, Reply, StartWorker, StartTimesOut, TimeOutSequence
<1>2. ASSUME NEW t \in Threads, NEW r \in TwoWay \cup OneWay, Receive(t, r) PROVE UNCHANGED Taken
  BY <1>2 DEF Receive, AcceptRequest, RepeatResponse, RepeatNothing, AckAgain
<1>3. ASSUME NEW r \in Requests, CreateWork(r) \/ Work(r) PROVE UNCHANGED Taken
  BY <1>3 DEF CreateWork, CreateLookUp, CreateSend, CreateTimesOut, Work, WorkerStarts, WorkerWaits,
              WorkerLooksAgain, CompleteMessage, WorkerLooksUp, WorkerSends, WorkerTimesOut
<1>4. ASSUME NEW m \in net, Exchange(m), ~ClientReceives(m), ~ClientReceivesBare(m)
      PROVE  UNCHANGED Taken
  BY <1>4 DEF Exchange, ReceiveCreateSequenceResponse, ReceiveAck, ReceiveTerminateWithAck,
              ReceiveTerminate, ClientMakesSequence
<1>5. ASSUME NEW m \in net, ClientReceives(m) PROVE m.type = "Response"
  BY <1>5 DEF ClientReceives
<1>6. CASE ClientEnds \/ UNCHANGED vars
  BY <1>6 DEF ClientEnds, vars
<1> QED
  BY <1>1, <1>2, <1>3, <1>4, <1>5, <1>6 DEF Next

LEMMA ReceivedFromNext ==
  ASSUME OnceInv, [Next]_vars
  PROVE  ReceivedFrom'
<1>1. net \subseteq net'
  BY SendsSettled DEF SendsNoResponse, SendsFor, SendsOnlyAnswer
<1>2. CASE UNCHANGED clientHas
  BY <1>1, <1>2 DEF OnceInv, ReceivedFrom
<1>3. ASSUME NEW m \in net, m.type = "Response", ClientReceives(m) PROVE ReceivedFrom'
  <2>1. clientHas' \subseteq clientHas \cup {[seq |-> m.seq, no |-> m.no, req |-> m.req]}
    BY <1>3 DEF ClientReceives
  <2> QED
    BY <1>1, <1>3, <2>1 DEF OnceInv, ReceivedFrom
<1>4. ASSUME NEW m \in net, ClientReceivesBare(m) PROVE UNCHANGED clientHas
  BY <1>4 DEF ClientReceivesBare
<1> QED
  BY <1>2, <1>3, <1>4, ClientTakes DEF Taken

(***************************************************************************)
(* A response that was given from a sequence comes again on that sequence, *)
(* under that number, and is known.                                        *)
(***************************************************************************)
LEMMA GivenIsKnown ==
  ASSUME OnceInv, NEW m \in net, m.type = "Response", NEW x \in clientHas, x.req = m.req
  PROVE  ClientKnows(m)
<1>1. PICK o \in net : o.type = "Response" /\ o.seq = x.seq /\ o.no = x.no /\ o.req = x.req
  BY DEF OnceInv, ReceivedFrom
<1>2. x.seq = m.seq /\ x.no = m.no
  BY <1>1 DEF OnceInv, OneSequence, SentOK
<1> QED
  BY <1>2 DEF ClientKnows

LEMMA SecondAnswerNext ==
  ASSUME OnceInv, [Next]_vars
  PROVE  SecondAnswerIsBare'
<1>1. CASE UNCHANGED Taken
  BY <1>1 DEF OnceInv, SecondAnswerIsBare, Taken
<1>2. ASSUME NEW m \in net, m.type = "Response", ClientReceives(m) PROVE SecondAnswerIsBare'
  <2>1. bareGiven' = bareGiven /\ again \subseteq bareGiven
    BY <1>2 DEF ClientReceives, OnceInv, SecondAnswerIsBare
  <2>2. CASE ClientKnows(m)
    BY <1>2, <2>1, <2>2 DEF ClientReceives, SecondAnswerIsBare
  <2>3. CASE ~ClientKnows(m)
    <3>1. again' = again \cup ({m.req} \cap Given)
      BY <1>2, <2>3 DEF ClientReceives, GivenNow
    <3>2. m.req \in Given => m.req \in bareGiven
      BY <1>2, <2>3, GivenIsKnown DEF Given
    <3> QED
      BY <2>1, <3>1, <3>2 DEF SecondAnswerIsBare
  <2> QED
    BY <2>2, <2>3
<1>3. ASSUME NEW m \in net, ClientReceivesBare(m) PROVE SecondAnswerIsBare'
  BY <1>3 DEF ClientReceivesBare, GivenNow, OnceInv, SecondAnswerIsBare
<1> QED
  BY <1>1, <1>2, <1>3, ClientTakes

LEMMA OnceNext == OnceInv /\ [Next]_vars => OnceInv'
  BY TypeNext, OneSequenceNext, ReceivedFromNext, SecondAnswerNext DEF OnceInv, SentOK

(***************************************************************************)
(* A response is given to the client's application once more only if a     *)
(* bare copy brought it, with any number of handler threads, time-outs and *)
(* sequences.                                                              *)
(***************************************************************************)
THEOREM NoSecondAnswer == Spec => []SecondAnswerIsBare
<1>1. Init => OnceInv
  BY TypeInit DEF Init, OnceInv, SentOK, OneSequence, ReceivedFrom, SecondAnswerIsBare
<1>2. OnceInv => SecondAnswerIsBare
  BY DEF OnceInv
<1> QED
  BY <1>1, <1>2, OnceNext, PTL DEF Spec

-----------------------------------------------------------------------------
(***************************************************************************)
(* The responses keep the promise of ReliableDelivery: ReadLastNo submits, *)
(* the client's reception delivers, an acknowledgement confirms, and no    *)
(* other step is seen.                                                     *)
(***************************************************************************)
Seen == <<number, clientHas, bareGiven, confirmed>>
Numbers == {r \in Requests : number[r] # 0}

LEMMA SubmitResponse ==
  ASSUME TypeInv, NEW t \in Threads, ReadLastNo(t)
  PROVE  \E r \in Requests : Responses!Submit(r)
<1> USE DEF handlers, client
<1> DEFINE r == req[t]
<1>1. /\ r \in Requests /\ number[r] = 0 /\ number \in [Requests -> Nat] /\ lastNo \in Nat
      /\ number' = [number EXCEPT ![r] = lastNo + 1]
  BY OnceFacts DEF ReadLastNo, Goto, NextNo, TypeInv, TypeOK, SequenceTypeOK, HandsOK, Busy
<1> HIDE DEF r
<1>2. number'[r] = lastNo + 1 /\ \A q \in Requests : q # r => number'[q] = number[q]
  BY <1>1
<1>3. r \notin Numbers /\ Numbers' = Numbers \cup {r}
  BY <1>1, <1>2 DEF Numbers
<1>4. UNCHANGED <<Given, confirmed>>
  BY DEF ReadLastNo, Given
<1> QED
  BY <1>1, <1>3, <1>4 DEF Responses!Submit, Numbers, Given

LEMMA DeliverResponse ==
  ASSUME TypeInv, SentOK, NEW m \in net, ClientReceives(m)
  PROVE  (\E r \in Requests : Responses!Deliver(r)) \/ UNCHANGED <<Numbers, Given, confirmed>>
<1> USE DEF handlers, client
<1>1. m.req \in Requests /\ number[m.req] # 0
  BY OnceFacts DEF ClientReceives, SentOK
<1>2. UNCHANGED <<Numbers, confirmed>>
  BY DEF ClientReceives, Numbers
<1>3. CASE UNCHANGED clientHas
  BY <1>2, <1>3 DEF ClientReceives, Given
<1>4. CASE clientHas' = clientHas \cup {[seq |-> m.seq, no |-> m.no, req |-> m.req]}
  <2> DEFINE x == [seq |-> m.seq, no |-> m.no, req |-> m.req]
  <2>0. clientHas' = clientHas \cup {x} /\ x.req = m.req
    BY <1>4
  <2> HIDE DEF x
  <2>1. Given' = Given \cup {m.req}
    BY <2>0 DEF ClientReceives, Given
  <2>2. CASE m.req \in Given
    BY <1>2, <2>1, <2>2
  <2>3. CASE m.req \notin Given
    BY <1>1, <1>2, <2>1, <2>3 DEF Responses!Deliver, Numbers, Given
  <2> QED
    BY <2>2, <2>3
<1> QED
  BY <1>3, <1>4 DEF ClientReceives

LEMMA DeliverBare ==
  ASSUME TypeInv, BareOK, NEW m \in net, ClientReceivesBare(m)
  PROVE  (\E r \in Requests : Responses!Deliver(r)) \/ UNCHANGED <<Numbers, Given, confirmed>>
<1> USE DEF handlers, client
<1>1. m.req \in Requests /\ number[m.req] # 0
  BY OnceFacts DEF ClientReceivesBare, BareOK
<1>2. UNCHANGED <<Numbers, confirmed>> /\ Given' = Given \cup {m.req}
  BY DEF ClientReceivesBare, Numbers, Given
<1>3. CASE m.req \in Given
  BY <1>2, <1>3
<1>4. CASE m.req \notin Given
  BY <1>1, <1>2, <1>4 DEF Responses!Deliver, Numbers
<1> QED
  BY <1>3, <1>4

LEMMA ConfirmResponses ==
  ASSUME LossInv, ~timedOut, NEW m \in net, ListsNumbers(m), Acknowledge(m),
         UNCHANGED <<number, clientHas, bareGiven>>
  PROVE  \E batch \in SUBSET Numbers : Responses!Confirm(batch)
<1>1. PICK acked \in OneRowEach(m.nos) : confirmed' = confirmed \cup acked
  BY DEF Acknowledge
<1>2. acked \subseteq rows /\ rows \subseteq Requests /\ \A r \in rows : number[r] # 0
  BY OnceFacts DEF OneRowEach, LossInv, TypeInv, NumbersOK
<1>3. acked \subseteq Given
  BY AckedIsReceived DEF Given
<1>4. UNCHANGED <<Numbers, Given>>
  BY DEF Numbers, Given
<1> QED
  BY <1>1, <1>2, <1>3, <1>4 DEF Responses!Confirm, Numbers, Given

LEMMA ResponsesNext ==
  ASSUME LossInv, ~timedOut, [Next]_vars
  PROVE  [Responses!Next]_(Responses!vars)
<1> USE DEF sequenceRows, ending, messageRows, handlers, creators, workers, client
<1> SUFFICES Responses!Next \/ UNCHANGED <<Numbers, Given, confirmed>>
  BY DEF Responses!vars, Numbers, Given
<1>0. ASSUME UNCHANGED Seen PROVE UNCHANGED <<Numbers, Given, confirmed>>
  BY <1>0 DEF Seen, Numbers, Given
<1>1. ASSUME NEW t \in Threads, Answer(t) PROVE Responses!Next \/ UNCHANGED Seen
  <2>1. CASE ReadLastNo(t)
    BY <2>1, SubmitResponse DEF LossInv, Responses!Next
  <2>2. CASE ~ReadLastNo(t)
    BY <1>1, <2>2 DEF Answer, CheckTimedOut, WriteLastNo, LookForCreate, AskForSequence,
                      InsertRow, Reply, StartWorker, StartTimesOut, Take, Seen
  <2> QED
    BY <2>1, <2>2
<1>2. ASSUME NEW t \in Threads, NEW r \in TwoWay \cup OneWay, Receive(t, r) PROVE UNCHANGED Seen
  BY <1>2 DEF Receive, AcceptRequest, RepeatResponse, RepeatNothing, AckAgain, Take, Seen
<1>3. ASSUME NEW r \in Requests, CreateWork(r) \/ Work(r) PROVE UNCHANGED Seen
  BY <1>3 DEF CreateWork, CreateLookUp, CreateSend, CreateTimesOut, Work, WorkerStarts, WorkerWaits,
              WorkerLooksAgain, CompleteMessage, WorkerLooksUp, WorkerSends, WorkerTimesOut, Seen
<1>4. ASSUME NEW m \in net, Exchange(m)
      PROVE  Responses!Next \/ UNCHANGED <<Numbers, Given, confirmed>>
  <2>1. CASE ReceiveAck(m)
    <3>1. ListsNumbers(m) /\ Acknowledge(m) /\ UNCHANGED <<number, clientHas, bareGiven>>
      BY <2>1 DEF ReceiveAck, ListsNumbers
    <3> QED
      BY <3>1, ConfirmResponses DEF Responses!Next, Numbers
  <2>2. CASE ReceiveTerminateWithAck(m)
    <3>1. UNCHANGED Seen \/ (ListsNumbers(m) /\ Acknowledge(m) /\ UNCHANGED <<number, clientHas, bareGiven>>)
      BY <2>2 DEF ReceiveTerminateWithAck, ListsNumbers, Seen
    <3> QED
      BY <1>0, <3>1, ConfirmResponses DEF Responses!Next, Numbers
  <2>3. CASE ClientReceives(m)
    BY <2>3, DeliverResponse DEF LossInv, Responses!Next
  <2>3a. CASE ClientReceivesBare(m)
    BY <2>3a, DeliverBare DEF LossInv, Responses!Next
  <2>4. CASE ReceiveCreateSequenceResponse(m) \/ ReceiveTerminate(m) \/ ClientMakesSequence(m)
    BY <1>0, <2>4 DEF ReceiveCreateSequenceResponse, ReceiveTerminate, ClientMakesSequence, Seen
  <2> QED
    BY <1>4, <2>1, <2>2, <2>3, <2>3a, <2>4 DEF Exchange
<1>5. CASE ClientEnds \/ UNCHANGED vars
  BY <1>0, <1>5 DEF ClientEnds, vars, Seen
<1> QED
  BY <1>0, <1>1, <1>2, <1>3, <1>4, <1>5 DEF Next

(***************************************************************************)
(* The refinement: until a time-out, the responses of a service with one   *)
(* handler thread are submitted, delivered and confirmed as on a reliable  *)
(* channel, on whatever sequences they travel.                             *)
(***************************************************************************)
THEOREM ResponsesImplement ==
  ASSUME OneThread
  PROVE  Spec => ResponsesReliable
<1>1. Init => LossInv /\ Responses!Init
  BY LossInit DEF Init, Given, Responses!Init
<1>2. LossInv /\ [Next]_vars => [timedOut \/ [Responses!Next]_(Responses!vars)]_vars
  BY ResponsesNext
<1> QED
  BY <1>1, <1>2, LossNext, PTL DEF Spec, ResponsesReliable
=============================================================================
