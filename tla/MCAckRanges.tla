----------------------------- MODULE MCAckRanges -----------------------------
(* AckRanges on every list of a few numbers, in every order of arrival. *)
EXTENDS AckRanges

CONSTANT MaxNo  \* bound: the highest number

ArrivalOrders ==
  {s \in UNION {[1 .. n -> 1 .. MaxNo] : n \in 0 .. MaxNo} :
     \A k, l \in DOMAIN s : s[k] = s[l] => k = l}

AnyLast == 1 .. MaxNo
==============================================================================
