---------------------------- MODULE BoundedQueues ----------------------------
(***************************************************************************)
(* What the buffers of trafficsim.c promise: on each side a FIFO queue of  *)
(* at most Cap cars.  An arriving car joins the back with the next number  *)
(* of that side (a counter modulo M); the car that enters the construction *)
(* zone is the one at the front.                                           *)
(***************************************************************************)
EXTENDS Integers, Sequences

CONSTANTS Sides,  \* the two directions of traffic
          Cap,    \* the most cars that can wait on a side
          M       \* modulus of the car numbers

VARIABLES q,      \* q[s]: the numbers of the cars waiting on side s, oldest first
          next,   \* next[s]: the number the next car of side s gets
          last    \* the number of the car that last entered the zone

vars == <<q, next, last>>

Init ==
    /\ q = [s \in Sides |-> <<>>]
    /\ next = [s \in Sides |-> 0]
    /\ last \in 0..M-1

Arrive(s) ==
    /\ Len(q[s]) < Cap
    /\ q' = [q EXCEPT ![s] = Append(@, next[s])]
    /\ next' = [next EXCEPT ![s] = (@ + 1) % M]
    /\ UNCHANGED last

Leave(s) ==
    /\ q[s] # <<>>
    /\ q' = [q EXCEPT ![s] = Tail(@)]
    /\ last' = Head(q[s])
    /\ UNCHANGED next

Next == \E s \in Sides : Arrive(s) \/ Leave(s)

Spec == Init /\ [][Next]_vars
=============================================================================
