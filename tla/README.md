# A verification of Sandesha2/C

Sandesha2/C is the WS-ReliableMessaging module of Axis2/C (RM 1.0, namespace
2005/02, and RM 1.1, namespace 2006/08 and later). It sits in the message flow of
an Axis2 client and of an Axis2 server: outgoing messages are numbered, stored and
resent until they are acknowledged; incoming ones are recorded, acknowledged and
passed on once. This directory holds TLA+ modules of that protocol as the code
carries it out, the TLC configurations that check them on small instances, and
TLAPS proofs of the main theorems for every value of the constants.

Source paths below are relative to `src/src/` unless they start with `src/`.

## 1. Inventory

### Parts, their state and their operations

| part | state it keeps | operations |
| --- | --- | --- |
| `msgprocessors/app_msg_processor.c`, client sending (RMS) | `seq_property` rows under the internal sequence id (`NEXT_MESSAGE_NUMBER`, `OUT_CREATE_SEQ_SENT`, `OUTGOING_SEQUENCE_ID`, `LAST_OUT_MESSAGE_NO`, `SEQ_TIMED_OUT`), `sender` rows, `create_seq` rows; the threads' local variables | `process_out_msg`, `send_create_seq_msg` and its worker, `send_app_msg` |
| the same file, receiving (RMD) | rows under the incoming sequence id (`SERVER_COMPLETED_MESSAGES`, `HIGHEST_IN_MSG_NUMBER`, `LAST_IN_MESSAGE_ID`, `SEQ_CLOSED`), `next_msg`, `invoker` rows | `process_in_msg`, `send_ack_if_reqd` |
| the same file, responses of a service | sender rows, stored messages, threads of the server | numbering of responses, the two-way branch of `send_app_msg`, its worker and resend step, replay mode; the end of the reply sequence (`ack_msg_processor.c`, `terminate_seq_msg_processor.c`) |
| `handlers/` | none | `in_handler` (drop duplicates, acknowledgement first, then the processor), `out_handler`, global handlers |
| `ack_msg_processor.c`, `util/ack_mgr.c` | `CLIENT_COMPLETED_MESSAGES`, `NO_OF_OUTGOING_MSGS_ACKED`, ACK rows | process an acknowledgement, generate one, piggyback stored ones |
| `create_seq*`, `close_seq*`, `terminate_seq*_msg_processor.c`, `util/terminate_mgr.c`, `util/seq_mgr.c` | the rows above, `TERMINATE_ADDED`, last activated time | life cycle of a sequence, clean-up of a timed-out one |
| `util/msg_retrans_adjuster.c` | `sent_count`, `time_to_send` of a sender row | count an attempt, give up |
| `ack_req`, `make_connection` processors, `polling/polling_mgr.c` | ACK rows; polling threads | answer AckRequested; RM 1.1 polling |
| `storage/sqlite/permanent_*.c` | seven tables in one SQLite file, one connection per statement | insert, update, find, remove, ten retries when busy |
| `client/client.c` | none | reports, close, terminate, wait for completion |
| `util/sandesha2_utils.c`, `wsrm/`, `util/msg_creator.c`, `util/msg_init.c` | none | string lists, acknowledgement ranges, XML |

All protocol state is in the SQLite file. `seq_property` has no primary key: an
insert of an existing property adds a row, a retrieve returns the row inserted
last, an update changes all of them, a remove deletes all of them. That is why an
insert is modelled as an assignment.

### How they interact

Axis2 calls the out-handler in the thread that sends and the in-handler in the
thread that received; a processor runs in that thread to its end. On a one-way
client `send_app_msg` does not return until the message is acknowledged or given
up: every message in transit occupies a thread of the application. In the dual
channel mode a worker repeats CreateSequence and a listener thread takes the
responses; with an anonymous reply address or a listener manager the sending
thread repeats CreateSequence itself and takes the response from the back channel.
Threads and handlers meet only in the SQLite file and see each other's writes one
statement at a time.

### What is hard

Messages are delayed, repeated, reordered and lost; a look-up of a row is one
statement and what follows from it another; timers count attempts while answers
are on their way; a time-out removes the rows that other threads wait for; the
process may be started again with the same sequence key on the same file; rows
with the sequence identifier as key survive every clean-up. `PROJECT.json` lists
the hazards with their lines.

### What makes each part correct

- RMD: a message reaches the service at most once; what it acknowledges has
  reached the service; a closed sequence records nothing more; the message it
  regards as the last is the highest.
- RMS: a row disappears only when its message has arrived (or the sequence is
  given up); a send call returns; a sequence is terminated only when complete.
- Both: the service sees each submitted message at most once and the sender
  believes in the arrival of nothing else: `ReliableDelivery`.
- Responses of a service: the same, with acknowledgements that ride on other
  messages and a worker per response.
- Range arithmetic: a list of numbers and its ranges denote the same set.

## 2. Modules

| module | what it is |
| --- | --- |
| `ReliableDelivery` | abstract specification: submit, deliver, confirm |
| `Wire` | messages between RMS and RMD, the set `net`, common constants |
| `RMDestination` | the receiving side: one action per kind of received message |
| `RMSource` | the sending side: the steps of the sending threads, of the worker, of the processors of returning messages, time-out, exit, crash, restart |
| `OneWay` | RMS, RMD and wire composed; all properties; fairness |
| `OneWayInvariants` | the inductive invariant `IndInv` and its parts; `ArrivalInv`, `LastInv` and `ClosedWhenComplete`, about the end of a sequence |
| `ServerResponses` | a service that answers: handler threads, the worker of each response, CreateSequence to the client, piggybacked acknowledgements, repeated requests, the end of the reply sequence |
| `AckRanges` | the loops that turn a completed list into ranges and back, count it and decide completion |
| `MCOneWay` | instance for TLC (symmetry of sequence identifiers) |
| `DeliveryRace` | the receiving side once more, one action per SQL statement, for several handler threads, with crashes of the server |
| `DeliverySerial` | that `DeliveryRace` with one handler implements `RMDestination` until the server dies; the invariants `SerialInv` and `AtomicInv` of that handler |
| `MCDelivery`, `MCDeliverySerial`, `MCServerResponses`, `MCAckRanges` | instances of these for TLC |
| `WireFacts` | lemmas on the fields of messages |
| `OneWayTypeProofs` | `TypeCorrect` |
| `OneWayProofs` | `IndInv` is inductive (`Inductive`); `AtMostOnce` |
| `OneWayDeliveryProofs` | `Implementation` (refinement), `NothingLost`, `FinalAck` |
| `OneWayEndProofs` | the end of a sequence: `LastIsHighest`, `TerminatesComplete` |
| `DeliveryProofs` | type correctness of `DeliveryRace`, `NothingUnaccounted`, and what holds with one handler thread, the refinement of `RMDestination` (`OneHandlerIsAtomic`) among it |
| `ServerResponsesProofs` | type correctness of `ServerResponses`, its safety properties, and the refinement of `ReliableDelivery` by the responses (`ResponsesImplement`) |
| `AckRangesProofs` | the invariants of the loops of `AckRanges` |

`OneWay` composes `RMSource` and `RMDestination` over `Wire`. `DeliveryRace` takes
the RMD alone, against a source reduced to what it can send (`Requests`, each any
number of times, in any order). `ServerResponses` takes the server of two-way
operations, against a client reduced to what it can send in reply. `AckRanges` justifies
that the other modules treat a completed list and an acknowledgement as sets.

### State and actions against the code

The variables of `RMSource` under "rows of the SQLite file" are the rows of the
inventory; the others are the local variables of `send_app_msg` and
`send_create_seq_msg` of the thread of send call c (`pc[c]`, `outbox[c]`,
`envelope[c]`, `sentCount[c]`; `creator[c]` is the CreateSequence worker the call has
started, `createRow[c]` the CREATE_SEQ row it found), and the process. A message is
named by its call, its run, its number and its kind, so that two messages may have one
number. `submitted`,
`confirmed`, `delivered` and `redelivered` are history variables: no guard reads
them.

| thread state `pc[c]` | where the thread is |
| --- | --- |
| `called`, `counted` | `process_out_msg` has found no time-out; has read the last number (1362) and not yet written its own (1427) |
| `starting`, `asking` | message number 1 before it looks for a sequence and for `OUT_CREATE_SEQ_SENT` (1491-1532); after it found neither |
| `creating`, `recreating` | inline loop of `send_create_seq_msg` before and after the look-up of the identifier (2356-2400) |
| `numbered` | `process_out_msg` has returned, the sender row is not yet written (up to 3057) |
| `waiting` | the loop at 3206 |
| `checking`, `due`, `sleeping` | the resend loop before the look-up, after it, and between the adjustment and the resend (3289-3363) |
| `done`, `failed`, `abandoned`, `dead` | returned with the row gone; given up by a time-out; left on a rejected response; the process died |

| action | code |
| --- | --- |
| `Send` | `process_out_msg` 1269-1322: no time-out found |
| `ReadNumber`, `NumberRefused`, `WriteNumber` | 1324-1409 with `get_prev_msg_no` 3981-4007; 1364-1396, a number chosen too low; `set_next_msg_no` 4009-4060 |
| `LookForCreate`, `AskForSequence` | 1491-1532, 1532-1619: CreateSequence for number 1 |
| `InlineLookUp`, `InlineCreateResend`, `InlineCreateTimesOut` | loop of `send_create_seq_msg` 2356-2400 |
| `WorkerLookUp`, `WorkerResend`, `WorkerTimesOut` | `create_seq_msg_worker_function` 2508-2662 |
| `StoreMessage`, `StoreTimesOut`, `FirstSend` | `send_app_msg` 3014-3283 |
| `LookUp`, `CountAttempt`, `TimesOut`, `Resend` | `send_app_msg` 3289-3363 with the adjuster |
| `ReceiveCreateSequenceResponse`, `ReceiveAck`, `ReceiveCloseSequenceResponse` | the three processors; TerminateSequenceResponse changes no state (the acknowledgement it carries meets `TERMINATE_ADDED`) |
| `Close`, `Halt`, `Crash`, `Restart` | the client API; the `exit` at 1320; the process |
| `ReceiveCreateSequence`, `DropDuplicate`, `RefuseClosed`, `AcceptApp`, `ReceiveCloseSequence`, `ReceiveTerminateSequence` | one invocation of `in_handler` each |

An action is the whole handler except in the sending threads, where the look-up
of a row and what follows from it are separate steps, because answers arrive in
between, and so are the read and the write of the number, and the look for a sequence and
the request for one: two threads may be given one number, and may both ask. A worker looks
its row up with `find_unique`, which finds nothing where two threads have stored one
(`OnlyRow`). A counter `sent_count` starts at -1 (`NeverSent`): a row is sent `MaxAttempts` + 1 times, and 0
means no limit. `RMDestination` handles one message at a
time, which `DeliverySerial` justifies; the races of two handlers are in
`DeliveryRace`.

`DeliveryRace` has the same rows, the place `at[h]` of each handler thread and its
local variables: the message, the completed list as it was read (`list`), the
highest message as it was read (`seen`), the paused flag. The code holds no lock
and opens a connection for each statement, so that any two statements of two
threads may change places.
`delivered`, `redelivered`, `cutOff` and `before` (with one handler, the receiving
side when the message was taken in hand, for `AtomicUntilCrash`) are histories.

| place `at[h]` | action | code |
| --- | --- | --- |
| `idle` | `ReadList` | `drop_if_duplicate`, the look at the list (`sandesha2_in_handler.c` 288-342), and whether the body is empty |
| `ackAgain` | `AckAgain` | `process_dropped_msg` 454-558 |
| `recordEmpty` | `RecordEmpty` | an empty body: the list as read, with the number, is written (362-394) |
| `checkClosed` | `CheckClosed` | `app_msg_processor.c` 541-591 |
| `readHighest`, `writeHighest`, `writeHighestId` | the same names | 627-700, the number and the message id of the highest message are two rows |
| `reread`, `record` | `RereadList`, `Record` | 719-749, 751-768: the second look; the list as read, with the number, is written |
| `markLast` | `MarkLastMessage` | 818-838 |
| `ack` | `SendAck` | 846-1027; the acknowledgement reads the list once more (`msg_creator.c` 1073) |
| `deliver` | `Deliver` | Axis2 passes a message that is not paused to the service |
| `idle`, `answerClose` | `InsertClosed`, `AnswerClose` | `close_seq_msg_processor.c` 149-341 |
| `idle`, `readHighestNumber`, `readHighestId`, `markHighest` | `AnswerTerminate` and the same names | `terminate_seq_msg_processor.c` 285-290, 432-596 |
| any | `Crash` | every thread is gone, the rows stay |

`ServerResponses` has the same tables once more, for one incoming sequence and the
one outgoing sequence of its responses. A handler thread t is at `at[t]` with request
`req[t]`; a response is named by its request r: `number[r]`, its worker's place
`worker[r]`, the attempts of its row, and the Sequence element (`envelope[r]`) and
acknowledgement (`carried[r]`) of its message.

| place | action | code |
| --- | --- | --- |
| thread `idle` | `AcceptRequest` | `app_msg_processor.c` 541-1028 and `send_ack_if_reqd` 1892-1961: record, acknowledge or queue the acknowledgement |
| thread `idle` | `RepeatResponse`, `RepeatNothing`, `AckAgain` | `process_dropped_msg`, `sandesha2_in_handler.c` 454-558 |
| `service` | `CheckTimedOut` | `process_out_msg` 1269-1322 |
| `checked` | `ReadLastNo` | 1362-1409, `get_prev_msg_no` |
| `numbered` | `WriteLastNo` | 1425-1438, `set_next_msg_no` |
| `starting`, `asking` | `LookForCreate`, `AskForSequence` | 1491-1532, 1532-1619: CreateSequence for number 1 |
| `unsaved` | `InsertRow` | 1625-1700 and `send_app_msg` 2838-3057 |
| `reply` | `Reply` | replay: wait for the sequence, answer on the connection, 3066-3141 |
| `unstored` | `StartWorker`, `StartTimesOut` | dual: 3383-3425 |
| creator | `CreateLookUp`, `CreateSend`, `CreateTimesOut` | `create_seq_msg_worker_function` 2508-2662 |
| worker `starting` ... `done` | `WorkerStarts`, `WorkerWaits`, `WorkerLooksAgain`, `CompleteMessage`, `WorkerLooksUp`, `WorkerSends`, `WorkerTimesOut` | the response's worker and its resend step, 3482-3867 |
| a message arrives | `ReceiveCreateSequenceResponse`, `ReceiveAck`, `ReceiveTerminateWithAck`, `ReceiveTerminate` | the processors of these messages; the last two are `terminate_seq_msg_processor.c` with `send_terminate_seq_msg` |
| the client | `ClientMakesSequence`, `ClientReceives`, `ClientEnds` | what its own Sandesha2 does, reduced to the messages |
| the client | `ClientReceivesBare` | a response repeated without a Sequence element: typed as an acknowledgement (`util/msg_init.c` 393-400), passed by the look for duplicates (`sandesha2_in_handler.c` 288), not paused since it has a body (`ack_msg_processor.c` 583-597) |

What the client's application was given is `clientHas`, under a sequence and a number, and
`bareGiven`, under neither; `again` are the requests whose response it was given twice.
The variable `setting`, which never changes, says what client there is: replay or dual, with an Offer
or not, an inactivity timeout or not, whether it ends its sequence, and which request
has RM 1.0's last indicator.

`AckRanges` has one action per round of a loop and one for a loop's end, in the order
in which an acknowledgement passes through them:

| place `at` | code |
| --- | --- |
| `max`, `sort` | `sandesha2_utils_sort` |
| `ranges` | `sandesha2_utils_get_ack_range_list` |
| `acked`, `count` | the loop over ranges of `ack_msg_processor.c`, and its count of acknowledged messages |
| `index`, `verify` | `sandesha2_ack_mgr_verify_seq_completion` |
| `upto` | `sandesha2_utils_is_all_msgs_acked_upto` |

`net` is a set that only grows (except under `Lossy`): a message can be received
any number of times and in any order, or never.

Constants that stand for settings: `MaxAttempts` and `InactivityTimeout` are the
policy; `CreateInline` the channel; `Sequential` an application with one sending
thread (it ends its sequence when its sends have returned); `UserNumbers` the
client property `Sandesha2ClientMessageNumber`; `Bodiless` messages with an empty
body; `BadResponses` a back channel whose answer Axis2 rejects; `ReuseKey` a second
run with the same key and file; `Crashes` death at any moment.

## 3. Runs

| run | question | result |
| --- | --- | --- |
| `OneWaySequential10` | RM 1.0, one sending thread, three messages, dual channel, crash: type correctness, nothing acknowledged is lost, last is highest, implements `ReliableDelivery` | holds |
| `OneWaySequential11` | RM 1.1, inline CreateSequence, three messages, close and terminate, crash: nothing acknowledged is lost, terminated only when complete, last is highest, send calls return | holds |
| `OneWayConcurrent11` | RM 1.1, two sending threads that may share a number, chosen numbers, rejected responses, time-outs, crash: every acknowledged number was delivered (`ConfirmedNumberDelivered`), final acknowledgement, last is highest | holds |
| `OneWayReuse` | crash or time-out and a second run with the same key: at most once, `IndInv` | holds |
| `OneWayArrives` | lossy channel, no limit of attempts, one sending thread: every message is confirmed | holds |
| `TerminateEarly` | RM 1.0: terminated only when complete | violated |
| `DeliverySerial` | one handler thread, messages with and without body, last indicator, close, terminate, one crash between any two statements: at most once, the highest number covers the list, what is acknowledged is accounted for, repeated messages are acknowledged in the end, refines `RMDestination` until the crash | holds |
| `DeliveryConcurrent` | two handler threads, three messages: types, what is acknowledged is accounted for, repeated messages are acknowledged in the end | holds |
| `DeliveredTwice` | two handler threads: at most once | violated |
| `AckRanges` | every list of distinct numbers up to 5 in every order: ranges name the list, do not touch, are counted right; both completion checks are right; the loops end | holds |
| `ServerResponses` | one handler thread, six kinds of client: until a time-out the responses implement `ReliableDelivery`, a response is given to the client's application twice only where a bare copy brought it (`SecondAnswerIsBare`), no acknowledged one is missing, no acknowledgement of a request is dropped, the reply sequence ends only when the client has the responses, every response is sent and every worker ends unless the sequence times out | holds |
| `DroppedUnanswered` | dual channel, no Offer: a request that is repeated is acknowledged in the end | violated |

What the violations show:

- **TerminateEarly.** The test for completion is commented out
  (`ack_msg_processor.c:569`). Messages 1 and 2 (the last) are sent, 2 arrives, its
  acknowledgement terminates the sequence; message 1 is resent, but its
  acknowledgement is ignored from then on.
- **DeliveredTwice.** Two copies of a message in two handler threads: both look at
  the completed list, find nothing, record the number and go on to the service.
- **DroppedUnanswered.** `sandesha2_in_handler.c:449-453` says that a repeated request
  whose response was acknowledged is acknowledged itself. For a two-way operation the
  call at 545 sends nothing: `send_ack_if_reqd` stores a row for a later response to
  pick up. A row stored before the reply sequence exists names no sequence and nothing
  picks it up. Request 1 is recorded, the sequence is created, the response goes out
  without an acknowledgement and is acknowledged; from then on each copy of request 1
  leaves one more row and no message.

Two further configurations are kept for a reader who wants to see the behaviour; TLC finds
a violation under each within seconds:

- **NumberShared.** `NoMessageLost` with two sending threads (`MCOneWay`,
  `NumberShared.cfg`). Both read the last number before either writes the next one
  (`app_msg_processor.c:1362`, 1427) and both messages get number 1. The service
  receives one, drops the other as a duplicate and acknowledges it again. The handler
  removes one row for each number an acknowledgement lists
  (`ack_msg_processor.c:416-436`): the first acknowledgement takes one row, its
  repetition the other. A message is then confirmed that the service was never given.
  What remains true is that *some* message of the number was delivered
  (`ConfirmedNumberDelivered`).
- **AnsweredTwice.** `AnsweredOnce` (`MCServerResponses`, `AnsweredTwice.cfg`): a request
  that is repeated while its response waits for a sequence is answered with the stored
  response and an acknowledgement and no Sequence element. The client takes that for an
  acknowledgement with a body: its application gets it, nothing records it, and the next
  copy, bare or sequenced, is given to the application again.

Both contradict `src/xdocs/index.html:34-35`, "Exactly once delivery assurance is
guaranteed", as `DeliveredTwice` does.

Further departures have no configuration of their own; each one is a condition of a property
or of a theorem, or a setting of a constant in the passing runs:

- After a time-out the row that maps the old identifier to the internal sequence
  stays. A second run with the same key starts again at number 1, and a late
  acknowledgement of the old sequence removes the row of the new message 1. That is
  why `NothingLost` and `Implementation` are about a client that does not reuse its key.
- When the worker of CreateSequence gives up it cleans the sequence, and the sending
  thread loops at `app_msg_processor.c:3206` for ever. `SendReturns` is therefore
  checked for the inline mode.
- The number is recorded and acknowledged before Axis2 invokes the service, and the
  message is stored nowhere. After a crash in between each copy is a duplicate
  (`cutOff` in `AckedIsAccountedFor`).
- An application message with an empty body is taken for RM 1.0's LastMessage signal
  under RM 1.1 too (`sandesha2_in_handler.c:362`): it is acknowledged and never handed to
  the service. Properties and proofs about lost messages exclude it (`Bodiless`).
- An older acknowledgement that arrives late replaces the completed list
  (`ack_msg_processor.c:494-527`). The reports read it, and so does the answer to the
  client's TerminateSequence: `EndsWhenReceived` shows that a shorter list only delays
  the end.
- The reply sequence is terminated although responses are not acknowledged in two
  cases that `EndsWhenReceived` excepts. If the newest response is not the one to the
  highest request, the number to be covered stays 0 and any list covers it
  (`terminate_seq_msg_processor.c:426-431` against 565). If a last response is known
  (RM 1.0), any acknowledgement terminates. Later acknowledgements are then ignored and
  the rows are resent until they time out.
- A repeated request looks its response up by the request's number
  (`sandesha2_in_handler.c:500`), which is the number of another response when one-way
  requests came before: the wrong response is repeated, harmlessly, since the client
  has its own list. In replay mode no message is stored for the row: the code goes on
  with a null pointer (`RepeatNothing`).
- Two handler threads that number their responses at once read the same last number
  (`app_msg_processor.c:1362`, 1427), as two sending threads of a client do; two rows then
  have one number, and an acknowledgement takes one of them, perhaps the other's.
  `NoResponseLost` and `AckKept` are properties of one thread.
- The CreateSequence worker of the dual channel may time the sequence out after a send has
  looked for a time-out and before it reads the last number. The send then starts again at
  1, with the same effect as two threads: `NoMessageLost` is broken even for one sending
  thread. `NoMessageLost`, its refinement and the theorems on the end of a sequence are
  therefore about a client whose worker never times out (inline mode, or neither a maximum
  nor an inactivity timeout).
- Two threads that both look for `OUT_CREATE_SEQ_SENT` before either writes it store two
  CREATE_SEQ rows; `find_unique` returns nothing when it finds two
  (`permanent_sender_mgr.c:593`), both workers end at their first look and no
  CreateSequence is sent.

What two handlers do *not* break is the less obvious part: they lose each other's
updates of the list, but a number comes back with the next copy of its message,
which is then delivered a second time, never zero times
(`AckedIsAccountedFor`, `EventuallyAcked`). They do let the highest number go
backwards, so `HighestCoversRecorded` is a property of one handler only.

### Bounds

Three messages are the least at which an early, a middle and a last one can
change places; two sending threads the least that race. `MaxCalls` bounds the send calls,
one more than `MaxMsg` numbers only where keys are reused. Two sequence identifiers
allow one repeated CreateSequence (the RMD answers each copy with a fresh one,
so with a third nothing new happens: the last response decides). A
maximum of one retransmission means that a row is sent twice before the time-out, and
`net` keeps every copy for ever, so that more attempts add no message. Two runs are the least
that reuse a key.

`DeliverySerial` has a plain message, one without a body, one with the last
indicator, close and terminate on one sequence, and one crash: rows are kept per
sequence and a statement names one, so a second sequence adds nothing but
products; one crash already leaves every half-written group of rows (a number
without its id, a record without an acknowledgement), and the proofs cover any
number of them. `DeliveryConcurrent`
has two handlers and three messages, the least at which a list that was read is
both behind and ahead of the row, and no crash, which would not fit. `ServerResponses` has one
thread, two responses (the least that can overtake each other and share an
acknowledgement) or a response behind a one-way request (the least at which the numbers
of request and response differ), on the offered sequence and in replay, one response on a
sequence that has to be created and may time out, and two sequence identifiers. Settings are kept apart because one run with all of them at once
would not fit; each names what it adds in `MCServerResponses`. `AckRanges` takes lists
up to the number 5, the least at which two ranges of more than one number are
separated by a gap. The proofs have no bound on any of these.
Deadlock is not checked: the system ends, when all calls have returned or the process
is gone.

### Fairness

`FairThreads` is weak fairness of each sending thread and of the worker: the
operating system schedules them, and every sleep of the code is bounded.
`SendReturns` uses nothing else: no message need ever arrive. `FairChannel`, used
only by `EventuallyConfirmed`, is strong fairness of the receipt of the messages
and acknowledgements of each number and of CreateSequence and its response: what
is sent again and again arrives in the end. Crashes, closing, `Halt` and `Restart`
are never fair.

`Fairness` of `DeliveryRace` is weak fairness of each handler thread that has a
message in hand, and strong fairness of the arrival of each message that is not
acknowledged yet: the source repeats it (`EventuallyConfirmed` shows that it does).
Close and terminate need never arrive, a crash is never fair.

`Fairness` of `ServerResponses` is weak fairness of each handler thread with a request
in hand, and of each worker: nothing of the client or of the channel is fair, so that
`Answered` and `WorkersEnd` hold against a client that falls silent. `RepeatingSpec`, used
only by `DroppedUnanswered`, adds strong fairness of the client's repetition of a request
no acknowledgement of which was sent. `AckRanges` needs that the program goes on.

## 4. Proofs

All theorems hold for every value of the constants that satisfies the assumptions
in `Wire`, `RMSource` and `OneWay` (bounds positive, switches Boolean).

- `TypeCorrect == Spec => []TypeOK`: one lemma per group of actions.
- `AtMostOnce == Spec => []DeliveredAtMostOnce`, also for a client that reuses its
  key, crashes, chooses its numbers or sends empty bodies. "A number is delivered
  once per sequence" is what the completed list gives; it is not enough, because a
  message could be sent again on another sequence (repeated CreateSequences give
  several, and the thread that resends might use the newest). `IndInv` therefore
  says: a message is the one its send call has in hand (`InHand`), all
  copies of a message carry one identifier, the one in its thread's hand
  (`OneEnvelope`, `HasEnvelope`), and a delivered message is recorded on the only
  sequence a copy of it can still arrive on (`DeliveredIsRecorded`). Nothing of this needs
  different numbers for different messages. That a number is given out once per run
  (`Numbered`: `NumbersUsed`, `NumbersUnique`) is part of `IndInv` only under
  `OneNumbering`: one sending thread, and a worker that never times the sequence out. Steps that
  leave numbers, envelopes and records alone are handled together
  (`QuietStep`, `QuietKeeps`); `SendKeeps`, `TransmitKeeps`, `AcceptKeeps` and
  `RMDKeeps` treat the others.
- `ConfirmedIsDelivered == Spec => []ConfirmedNumberDelivered` for every client, whatever
  its threads, numbers, runs and time-outs: an acknowledgement lists what the RMD has
  recorded (`AcksHonest`), and what it has recorded some message of the number brought
  (`RecordedWasDelivered`).
- `Implementation` proves `ImplementsReliableDelivery` for a client that satisfies
  `OneNumbering`, does not reuse its key and sends no empty bodies: with one run, a number identifies a message
  (`SingleRun`), so a number in an acknowledgement, which the RMD has recorded
  (`AcksHonest`) and so delivered (`RecordedWasDelivered`), confirms just that
  message. Each step is a submission, a delivery, a confirmation or a stutter.
- `Inductive == Spec => []IndInv`: the invariant itself, which the run `OneWayReuse` checks.
- `NothingLost` proves `[]NoMessageLost` under the conditions of `Implementation`, none of
  which can be dropped (section 3).
- `FinalAck == Spec => FinalAckIsFinal` under RM 1.1 without empty bodies: what the RMD has
  recorded for a closed sequence changes no more (`ClosedKeeps`), and each later
  acknowledgement lists what is recorded.
- `LastIsHighest == Spec => []LastInIsHighest`. Under RM 1.1 for every client: a
  TerminateSequence is sent only after a CloseSequenceResponse, so that the receiving side
  has closed the sequence whose highest number it then marks (`AfterClose`). RM 1.0 closes
  nothing; there the theorem is about a client that satisfies `OneNumbering`, has no response
  rejected and does not reuse its key. When such a client sends its last message its
  thread has left every other one with a confirmation, and what was confirmed has arrived
  (`ArrivalInv`): the highest number of the sequence was recorded when the last one comes
  (`AllArrivedAtLast`), and nothing new follows it (`AfterLast`).
- `TerminatesComplete == Spec => []TerminateOnlyWhenComplete` under RM 1.1 for a client that
  satisfies `OneNumbering`, has no response rejected and does not reuse its key. It closes when
  its sends have returned, and one that returned without a time-out was confirmed
  (`LeftWhenConfirmed`, `ClosedWhenComplete`). The code looks at no list before it terminates
  (`terminateAdded` follows the CloseSequenceResponse), so that all the completeness there is
  comes from this. `TerminateEarly` shows that RM 1.0 terminates incomplete sequences
  even under these conditions.

About `DeliveryRace`, for any set of handlers, requests and any number of crashes
(`RequestsAssumption`: a number names one message of its sequence, which `IndInv`
shows of a sender that satisfies `OneNumbering`):

- `DeliveryTypeCorrect == Spec => []TypeOK`.
- `NothingUnaccounted == Spec => []AckedIsAccountedFor`. The invariant `AccountInv`
  says of every number in a row, in a list some handler has read and will write
  back, and in an acknowledgement, that the message of that number was handed
  over, is in the hand of a handler that will, or was cut off by a crash. Since
  this is never lost again (`StaysAccounted`), stale reads and overwritten rows do
  no harm; it is the order "record, then acknowledge, then deliver" of one thread
  that makes it true (`RecordingAccounts`).
- `OneHandlerDeliversOnce` and `OneHandlerHighestCovers`: with at most one handler
  thread, `DeliveredAtMostOnce` and `HighestCoversRecorded`, through any number of
  crashes. `SerialInv` says what one thread can rely on: the list in hand is the
  list in the file, the number in hand is not in it, and what was delivered was
  recorded first. `DeliveredTwice` shows that the condition cannot be dropped.
- `OneHandlerIsAtomic == Spec => AtomicUntilCrash`: with at most one handler thread, every run
  of statements between taking a message in hand and letting go of it adds up to what
  `RMDestination` does in one step with the rows as they were at its start (`before`).
  `AtomicInv` says for each place of the handler which of the step's writes have been made
  (`Changed`), that the decisions it took on one row after the other are those
  `RMDestination` takes on all of them at once (`Decided`), and that the number it has read
  is still the one in the rows, the id of its message one statement behind (`IdFollows`).
  After a crash the half-written group of rows is a state no step of `RMDestination`
  explains, which is why the theorem ends there.

About `ServerResponses`, for any requests, settings and number of sequences:

- `ServerTypeCorrect == Spec => []TypeOK`, for any number of handler threads.
- `NoAcknowledgedResponseLost == Spec => []NoResponseLost` for one handler thread. An
  acknowledgement names numbers, and rows are found by number whatever sequence the
  response went out on; so the invariant says that a number is one response's
  (`NumbersOK`, where the one thread is needed), that a response in `net` carries its own
  number (`SentOK`), and hence that what the client has under a number, and lists, is
  that response (`ReceivedOK`, `ListedOK`).
- `NoSecondAnswer == Spec => []SecondAnswerIsBare`, for any number of threads and through
  time-outs: the client's application is given a response a second time only if a bare copy
  of it was given to it. The client knows a sequenced copy by its sequence and number, and a
  repeated CreateSequence can give the service a second sequence while responses are under
  way. `OnceInv` says that the sequenced copies of a response carry one sequence: that of the
  worker, which by then looks for it no more, or that of the one answer of a thread in replay
  mode, which has let go of its request (`Settled`).
- `ResponsesImplement == Spec => ResponsesReliable` for one thread: with "submitted" for the
  responses that have a number, "delivered" for those the client's application was given, on any sequence or bare, and
  "confirmed" for those whose row an acknowledgement removed, every step before a time-out is
  a step of `ReliableDelivery` or invisible. What an acknowledgement confirms is delivered by
  the argument of `NoAcknowledgedResponseLost`. After a time-out numbers start again while rows,
  messages and lists of the old sequence are still about, and the refinement ends there.
- `NoAcknowledgementLost == Spec => []AckKept` for one thread. A row of the acknowledgement
  table is removed when a message takes it, before that message is sent. Nothing is
  lost because the message's own row stays until its response is acknowledged, and the
  client can only acknowledge what was sent with the acknowledgement in it
  (`AckedIsReceived`).
- `EndsWithAllReceived == Spec => EndsWhenReceived` for one thread: the completed list, whichever
  acknowledgement it is from, lists only what the client has (`CompletedOK`).

With two threads the race for a number breaks `NoResponseLost`, `AckKept` and with them the
refinement; types and `SecondAnswerIsBare` do not depend on it.

About `AckRanges`, for lists of any length and numbers of any size, one theorem per
property (`AckTypeCorrect`, `AcknowledgementExact`, `AcknowledgementApart`,
`AcknowledgedCounted`, `CompletionRight`). Because the loops are actions and not a recursive
function, they rest on loop invariants (`SortInv`, `RangeInv`, `AckedInv`, `CountInv`,
`HashInv`, `VerifyInv`) in place of induction over lists: after i - 1 rounds the ranges
and the one in hand cover the first i - 1 numbers, and the last of the finished ranges
ends before the one in hand starts.

Only model-checked: the liveness properties (`SendReturns`, `EventuallyConfirmed`,
`EventuallyAcked`, `Terminates`, `Answered`, `WorkersEnd`), which are out of the prover's reach,
as is a function defined by recursion, whose value for every input would need induction with an
operator as parameter. Every invariant and every safety property of a step that a passing run
checks is a theorem.

## 5. Not modelled

- MakeConnection and polling: the client's only call that would start polling is
  commented out (`create_seq_res_msg_processor.c:570`), so no two ends of this code
  exchange a MakeConnection. With it goes the end of a reply sequence in replay mode,
  which is left for a polling client to fetch.
- AckRequested: no code of the repository creates one.
- In-order invocation: the call of the invoker is commented out
  (`app_msg_processor.c:989`), messages are stored for it and stay there.
- Of `ServerResponses`: replay without an Offer (the thread waits for a sequence the
  client is never asked for on a connection it reads), a restart of the server (the
  model ends when the process does), and interleavings inside recording and queueing
  (`DeliveryRace` has the first), inside the handling of TerminateSequence, and between a worker's first look at its row
  and at the sequence. The client acknowledges at any time what it has; the
  acknowledgements that ride on its requests are those messages. An acknowledgement row
  that names no sequence is left out, since nothing picks it up, and an
  acknowledgement's address is taken to be that of the response.
- The reports and `wait_until_seq_completed` of the client API, which read modelled rows
  only; sequences created or terminated by hand.
- A statement that fails for good (disk full, ten retries of a busy file), and a
  crash of the client in the middle of a handler.
- Time: an interval lasts any time.
- XML, WS-Security, policy parsing, the vendored SQLite, samples. The vendored
  `sqlite3.c` and `sqlite3.h` are more than half of the C lines of the repository, and
  most of the rest builds and parses XML or gets and sets fields of beans.

## 6. Plan

Done: the one-way exchange and its refinement, `DeliveryRace`, the races of numbers and
the two-way exchange (`ServerResponses`), `AckRanges`, their proofs. What is left, in order:

1. A restart of the server in `ServerResponses`: workers are gone and the rows stay.
2. The client of a two-way exchange in full, composed with `ServerResponses`, to show that
   both directions together implement two `ReliableDelivery` channels.
3. In-order invocation, MakeConnection and polling, if the code comes to call them.
