----------------------------- MODULE AllocSpec ------------------------------
(***************************************************************************)
(* What the users of kmalloc/kfree and vmalloc/vfree may rely on           *)
(* (kernel/src/heap.rs): memory that is theirs alone until they free it.   *)
(* No blocks, no break and no pages: only the allocations that are live    *)
(* and the request that is being served.                                   *)
(***************************************************************************)
EXTENDS Integers

CONSTANTS Heaps, Base, Limit, Wants, Pointers, ALIGN

VARIABLES
  live,      \* of each heap: the payload of every live allocation -> its size
  request    \* what alloc was asked for and has not answered; want = 0: nothing

vars == <<live, request>>

Idle == [heap |-> CHOOSE h \in Heaps : TRUE, want |-> 0]

Init ==
  /\ live = [h \in Heaps |-> <<>>]
  /\ request = Idle

Request(h, want) ==
  /\ request = Idle
  /\ request' = [heap |-> h, want |-> want]
  /\ UNCHANGED live

(* [p, p + size) lies in the heap and meets no live allocation. *)
Vacant(h, p, size) ==
  /\ Base[h] <= p /\ p + size <= Limit[h]
  /\ \A q \in DOMAIN live[h] : p + size <= q \/ q + live[h][q] <= p

Grant ==
  /\ request # Idle
  /\ request' = Idle
  /\ LET h == request.heap
     IN  \E p \in Base[h] .. Limit[h] : \E size \in request.want .. (Limit[h] - p) :
           /\ p % ALIGN = 0 /\ Vacant(h, p, size)
           /\ live' = [live EXCEPT ![h] = [q \in DOMAIN @ \cup {p} |->
                                             IF q = p THEN size ELSE @[q]]]

Refuse ==
  /\ request # Idle
  /\ request' = Idle
  /\ UNCHANGED live

(* Only the free of a live pointer changes anything. *)
Free(h, p) ==
  /\ request = Idle
  /\ p \in DOMAIN live[h]
  /\ live' = [live EXCEPT ![h] = [q \in DOMAIN @ \ {p} |-> @[q]]]
  /\ UNCHANGED request

Next ==
  \/ Grant \/ Refuse
  \/ \E h \in Heaps :
       \/ \E want \in Wants \ {0} : Request(h, want)
       \/ \E p \in Pointers : Free(h, p)

(* Every request is answered. *)
Spec == Init /\ [][Next]_vars /\ (request # Idle ~> request = Idle)
=============================================================================
