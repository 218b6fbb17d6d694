-------------------------- MODULE MCServerResponses --------------------------
(* ServerResponses on a few clients. *)
EXTENDS ServerResponses

Setting(channel, offered, inactivity, ends, last, twoWay, oneWay) ==
  [channel |-> channel, offered |-> offered, inactivity |-> inactivity, ends |-> ends,
   last |-> last, twoWay |-> twoWay, oneWay |-> oneWay]

\* A response whose number is that of a one-way request, to a client that ends its
\* sequence, under RM 1.0 (the response is to its last request) and under RM 1.1, and in
\* replay; a sequence that has to be created and may time out; and two responses, on an
\* offered sequence and in replay.
AllSettings ==
  {Setting("dual", TRUE, FALSE, TRUE, 2, {2}, {1}),
   Setting("dual", TRUE, FALSE, TRUE, NoRequest, {2}, {1}),
   Setting("dual", FALSE, TRUE, FALSE, NoRequest, {1}, {}),
   Setting("replay", TRUE, FALSE, FALSE, NoRequest, {2}, {1}),
   Setting("replay", TRUE, FALSE, FALSE, NoRequest, {1, 2}, {}),
   Setting("dual", TRUE, FALSE, FALSE, NoRequest, {1, 2}, {})}
\* A client that made no Offer: a response sequence has to be created.
UnofferedSettings == {Setting("dual", FALSE, FALSE, FALSE, NoRequest, {1}, {})}
=============================================================================
