------------------------------ MODULE AckRanges ------------------------------
(***************************************************************************)
(* What an acknowledgement says and what is understood of it.  The         *)
(* receiving side keeps the numbers of a sequence as a list in the order   *)
(* in which they arrived (SERVER_COMPLETED_MESSAGES); an acknowledgement   *)
(* carries them as ranges; the sending side takes the ranges apart again,  *)
(* counts them and decides whether the sequence is complete.  The loops of *)
(* the code are the actions of this module, one round of a loop each, so   *)
(* that the invariants speak of every list.                                *)
(***************************************************************************)
EXTENDS Integers, Sequences, FiniteSets

CONSTANTS Lists,   \* completed lists an acknowledgement may be made of
          LastNos  \* numbers the last message of the sequence may have

ASSUME ListsAssumption == Lists \subseteq Seq(Nat \ {0})
ASSUME LastNosAssumption == LastNos \subseteq Nat \ {0}

VARIABLES
  list,       \* SERVER_COMPLETED_MESSAGES
  last,       \* LAST_OUT_MESSAGE_NO of the sending side
  at,         \* the loop that is running
  i,          \* its counter
  max,        \* sandesha2_utils_sort: the highest number
  sorted,     \* sandesha2_utils_sort: the sorted list
  lower,      \* get_ack_range_list: the range being built, lower = 0 for none
  upper,
  ranges,     \* the acknowledgement's AcknowledgementRange elements
  acked,      \* CLIENT_COMPLETED_MESSAGES
  count,      \* NO_OF_OUTGOING_MSGS_ACKED
  hash,       \* verify_seq_completion: upper values by lower values
  start,      \* verify_seq_completion: the number looked for
  completed,  \* its answer
  allAcked    \* the answer of is_all_msgs_acked_upto

inputs == <<list, last>>
sender == <<acked, count, hash, start, completed, allAcked>>
vars == <<inputs, at, i, max, sorted, lower, upper, ranges, sender>>

Init ==
  /\ list \in Lists
  /\ last \in LastNos
  /\ at = "max" /\ i = 1 /\ max = 0
  /\ sorted = <<>>
  /\ lower = 0 /\ upper = 0 /\ ranges = <<>>
  /\ acked = {} /\ count = 0
  /\ hash = [l \in {} |-> 0] /\ start = 1
  /\ completed = FALSE /\ allAcked = FALSE

Elements(s) == {s[k] : k \in DOMAIN s}
Numbers(r) == r.lower .. r.upper
Covered(s) == UNION {Numbers(s[k]) : k \in DOMAIN s}

(***************************************************************************)
(* A loop's round, and its end, after which "next" counts from "from".     *)
(***************************************************************************)
Round(loop, bound) == at = loop /\ i <= bound /\ i' = i + 1 /\ at' = at

End(loop, bound, next, from) ==
  at = loop /\ i > bound /\ at' = next /\ i' = from

-----------------------------------------------------------------------------
(***************************************************************************)
(* sandesha2_utils_sort: the highest number, then every number up to it    *)
(* that the list contains.                                                 *)
(***************************************************************************)
FindMax ==
  /\ Round("max", Len(list))
  /\ max' = IF list[i] > max THEN list[i] ELSE max
  /\ UNCHANGED <<inputs, sorted, lower, upper, ranges, sender>>

MaxFoundFromZero ==                                    \* mutant
  /\ End("max", Len(list), "sort", 0)
  /\ UNCHANGED <<inputs, max, sorted, lower, upper, ranges, sender>>

MaxFound ==
  /\ End("max", Len(list), "sort", 1)
  /\ UNCHANGED <<inputs, max, sorted, lower, upper, ranges, sender>>

Contains(n) == \E k \in DOMAIN list : list[k] = n

Sort ==
  /\ Round("sort", max)
  /\ sorted' = IF Contains(i) THEN Append(sorted, i) ELSE sorted
  /\ UNCHANGED <<inputs, max, lower, upper, ranges, sender>>

Sorted ==
  /\ End("sort", max, "ranges", 1)
  /\ UNCHANGED <<inputs, max, sorted, lower, upper, ranges, sender>>

-----------------------------------------------------------------------------
(***************************************************************************)
(* get_ack_range_list: a number that follows the range extends it, any     *)
(* other one ends it and starts a new one; the last range is added at the  *)
(* end if there was a number at all.                                       *)
(***************************************************************************)
RangeInHand == [lower |-> lower, upper |-> upper]

FollowsLoosely(n, u) == n <= u + 2                     \* mutant
FollowsNever(n, u) == FALSE                            \* mutant
Follows(n, u) == n = u + 1

ExtendRange ==
  /\ Round("ranges", Len(sorted))
  /\ lower # 0 /\ Follows(sorted[i], upper)
  /\ upper' = sorted[i]
  /\ UNCHANGED <<inputs, max, sorted, lower, ranges, sender>>

NewRange ==
  /\ Round("ranges", Len(sorted))
  /\ lower = 0 \/ ~Follows(sorted[i], upper)
  /\ ranges' = IF lower = 0 THEN ranges ELSE Append(ranges, RangeInHand)
  /\ lower' = sorted[i]
  /\ upper' = sorted[i]
  /\ UNCHANGED <<inputs, max, sorted, sender>>

LastRange ==
  /\ End("ranges", Len(sorted), "acked", 1)
  /\ ranges' = IF lower = 0 THEN ranges ELSE Append(ranges, RangeInHand)
  /\ UNCHANGED <<inputs, max, sorted, lower, upper, sender>>

-----------------------------------------------------------------------------
(***************************************************************************)
(* The acknowledgement arrives: every number of every range is taken as    *)
(* acknowledged, and the numbers are counted.                              *)
(***************************************************************************)
TakeApart ==
  /\ Round("acked", Len(ranges))
  /\ acked' = acked \cup Numbers(ranges[i])
  /\ UNCHANGED <<inputs, max, sorted, lower, upper, ranges,
                 count, hash, start, completed, allAcked>>

TakenApart ==
  /\ End("acked", Len(ranges), "count", 1)
  /\ UNCHANGED <<inputs, max, sorted, lower, upper, ranges, sender>>

LengthOffByOne(r) == r.upper - r.lower                 \* mutant
Length(r) == LET diff == (r.upper - r.lower) + 1 IN IF diff > 0 THEN diff ELSE 0

CountAcked ==
  /\ Round("count", Len(ranges))
  /\ count' = count + Length(ranges[i])
  /\ UNCHANGED <<inputs, max, sorted, lower, upper, ranges,
                 acked, hash, start, completed, allAcked>>

Counted ==
  /\ End("count", Len(ranges), "index", 1)
  /\ UNCHANGED <<inputs, max, sorted, lower, upper, ranges, sender>>

-----------------------------------------------------------------------------
(***************************************************************************)
(* verify_seq_completion: the ranges go into a hash by their lower value;  *)
(* from number 1 on, the range that starts there is looked up, until one   *)
(* reaches the last message or there is none.                              *)
(***************************************************************************)
IndexRange ==
  /\ Round("index", Len(ranges))
  /\ LET r == ranges[i]
     IN hash' = [l \in DOMAIN hash \cup {r.lower} |->
                   IF l = r.lower THEN r.upper ELSE hash[l]]
  /\ UNCHANGED <<inputs, max, sorted, lower, upper, ranges,
                 acked, count, start, completed, allAcked>>

Indexed ==
  /\ End("index", Len(ranges), "verify", 1)
  /\ UNCHANGED <<inputs, max, sorted, lower, upper, ranges, sender>>

AfterSame(u) == u                                      \* mutant
After(u) == u + 1

ReachesPast(u) == u > last                             \* mutant
Reaches(u) == u >= last

NextRange ==
  /\ at = "verify" /\ start \in DOMAIN hash
  /\ ~Reaches(hash[start])
  /\ start' = After(hash[start])
  /\ UNCHANGED <<inputs, at, i, max, sorted, lower, upper, ranges,
                 acked, count, hash, completed, allAcked>>

Verified ==
  /\ at = "verify"
  /\ start \in DOMAIN hash => Reaches(hash[start])
  /\ at' = "upto" /\ i' = 1
  /\ completed' = (start \in DOMAIN hash)
  /\ UNCHANGED <<inputs, max, sorted, lower, upper, ranges,
                 acked, count, hash, start, allAcked>>

(***************************************************************************)
(* is_all_msgs_acked_upto asks the same of the stored list; an empty list  *)
(* is stored as no value and answers no.                                   *)
(***************************************************************************)
LookUp ==
  /\ acked # {} /\ i \in acked
  /\ Round("upto", last)
  /\ UNCHANGED <<inputs, max, sorted, lower, upper, ranges, sender>>

Missing ==
  /\ at = "upto" /\ (acked = {} \/ (i <= last /\ i \notin acked))
  /\ at' = "done"
  /\ UNCHANGED <<inputs, i, max, sorted, lower, upper, ranges, sender>>

AllThere ==
  /\ acked # {}
  /\ End("upto", last, "done", i)
  /\ allAcked' = TRUE
  /\ UNCHANGED <<inputs, max, sorted, lower, upper, ranges,
                 acked, count, hash, start, completed>>

Receiver == FindMax \/ MaxFound \/ Sort \/ Sorted \/ ExtendRange \/ NewRange \/ LastRange

Sender ==
  \/ TakeApart \/ TakenApart \/ CountAcked \/ Counted
  \/ IndexRange \/ Indexed \/ NextRange \/ Verified
  \/ LookUp \/ Missing \/ AllThere

Next == Receiver \/ Sender

Spec == Init /\ [][Next]_vars

(***************************************************************************)
(* Both programs go on with their loops.                                   *)
(***************************************************************************)
FairSpec == Spec /\ WF_vars(Next)

-----------------------------------------------------------------------------
Loops == {"max", "sort", "ranges", "acked", "count", "index", "verify", "upto", "done"}
SenderLoops == Loops \ {"max", "sort", "ranges"}
AfterCount == SenderLoops \ {"acked", "count"}

(***************************************************************************)
(* Types: numbers are positive, a range is a pair of them, and nothing     *)
(* that the acknowledgement does not name gets an answer.                  *)
(***************************************************************************)
RangeType == [lower : Nat \ {0}, upper : Nat \ {0}]

TypeOK ==
  /\ list \in Seq(Nat \ {0}) /\ last \in Nat \ {0}
  /\ at \in Loops
  /\ i \in Nat \ {0} /\ max \in Nat
  /\ sorted \in Seq(Nat \ {0})
  /\ lower \in Nat /\ upper \in Nat /\ (lower # 0 => upper # 0)
  /\ ranges \in Seq(RangeType)
  /\ acked \subseteq Nat \ {0} /\ count \in Nat
  /\ hash \in [DOMAIN hash -> Nat \ {0}] /\ DOMAIN hash \subseteq Nat \ {0}
  /\ start \in Nat \ {0}
  /\ completed \in BOOLEAN /\ allAcked \in BOOLEAN

(***************************************************************************)
(* The acknowledgement names exactly the numbers of the list: a number     *)
(* that was never received is never acknowledged (get_ack_range_list fills *)
(* a range with every number between its ends), and none is left out.      *)
(***************************************************************************)
RangesExact == at \in SenderLoops => Covered(ranges) = Elements(list)

(***************************************************************************)
(* The ranges are as few as can be: in ascending order, with a missing     *)
(* number between two neighbours.  verify_seq_completion depends on it.    *)
(***************************************************************************)
Apart(s) == \A k \in DOMAIN s : \A l \in DOMAIN s : k < l => s[k].upper + 1 < s[l].lower

RangesApart == at \in SenderLoops => Apart(ranges)

(***************************************************************************)
(* NO_OF_OUTGOING_MSGS_ACKED, the figure the client's report gives, is the *)
(* number of messages received, however often and in whatever order the    *)
(* list names them.                                                        *)
(***************************************************************************)
CountExact == at \in AfterCount => count = Cardinality(Elements(list))

(***************************************************************************)
(* verify_seq_completion, which looks at nothing but the starts of ranges, *)
(* and is_all_msgs_acked_upto, which looks up one number after the other,  *)
(* both find a sequence complete if, and only if, everything up to its     *)
(* last message has been received.                                         *)
(***************************************************************************)
Complete == 1 .. last \subseteq Elements(list)

CompletionExact == at = "done" => completed = Complete /\ allAcked = Complete

(***************************************************************************)
(* The loop of verify_seq_completion has no counter; with ranges that      *)
(* get_ack_range_list has made it ends.                                    *)
(***************************************************************************)
Terminates == <>(at = "done")

-----------------------------------------------------------------------------
(***************************************************************************)
(* The invariants of the loops, on which the proofs rest: what each one    *)
(* has done after i - 1 rounds.                                            *)
(***************************************************************************)
Ascending(s) == \A k \in DOMAIN s : \A l \in DOMAIN s : k < l => s[k] < s[l]

SortInv ==
  /\ at = "max" => sorted = <<>> /\ \A k \in DOMAIN list : k < i => list[k] <= max
  /\ at # "max" => \A k \in DOMAIN list : list[k] <= max
  /\ at = "sort" => Elements(sorted) = {n \in Elements(list) : n < i}
  /\ at \notin {"max", "sort"} => Elements(sorted) = Elements(list)
  /\ Ascending(sorted)

InHand == IF lower = 0 THEN {} ELSE lower .. upper

Proper(s) == \A k \in DOMAIN s : s[k].lower <= s[k].upper

RangeInv ==
  /\ at \in {"max", "sort"} => ranges = <<>> /\ lower = 0
  /\ at = "ranges" =>
       /\ i <= Len(sorted) + 1
       /\ lower = 0 <=> i = 1
       /\ lower = 0 => ranges = <<>>
       /\ lower # 0 => lower <= upper /\ upper = sorted[i - 1]
       /\ Covered(ranges) \cup InHand = {sorted[k] : k \in 1 .. i - 1}
       /\ \A k \in DOMAIN ranges : ranges[k].upper + 1 < lower
  /\ Proper(ranges) /\ Apart(ranges)
  /\ RangesExact

UpTo(k) == UNION {Numbers(ranges[l]) : l \in 1 .. k}

AckedInv ==
  /\ at \in {"max", "sort", "ranges"} => acked = {}
  /\ at \in {"acked", "count", "index"} => i <= Len(ranges) + 1
  /\ at = "acked" => acked = UpTo(i - 1)
  /\ at \in SenderLoops \ {"acked"} => acked = Elements(list)

CountInv ==
  /\ at \notin AfterCount \cup {"count"} => count = 0
  /\ at = "count" => IsFiniteSet(UpTo(i - 1)) /\ count = Cardinality(UpTo(i - 1))
  /\ CountExact

HashHolds(k) ==
  /\ DOMAIN hash = {ranges[l].lower : l \in 1 .. k}
  /\ \A l \in 1 .. k : hash[ranges[l].lower] = ranges[l].upper

HashInv ==
  /\ at \notin AfterCount => DOMAIN hash = {}
  /\ at = "index" => HashHolds(i - 1)
  /\ at \in AfterCount \ {"index"} => HashHolds(Len(ranges))

VerifyInv ==
  /\ at \notin AfterCount \ {"index"} => start = 1
  /\ at = "verify" =>
       /\ start <= last
       /\ 1 .. start - 1 \subseteq Elements(list)
       /\ start = 1 \/ \E k \in DOMAIN ranges : ranges[k].upper = start - 1
  /\ at \in {"upto", "done"} => completed = Complete
  /\ at = "upto" => i <= last + 1 /\ 1 .. i - 1 \subseteq acked
  /\ at # "done" => allAcked = FALSE
  /\ at = "done" => allAcked = Complete

AckInv ==
  /\ TypeOK /\ SortInv /\ RangeInv /\ AckedInv /\ CountInv /\ HashInv /\ VerifyInv
==============================================================================
