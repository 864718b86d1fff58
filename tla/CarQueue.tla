------------------------------ MODULE CarQueue ------------------------------
(***************************************************************************)
(* The circular car queue of prodcons.c (struct car_queue, is_full,        *)
(* is_empty, enqueue, dequeue).  A queue is a record                       *)
(*   [car : [0..QCap-1 -> Vals \cup {Zero}], front, rear, size]            *)
(* where QCap is MAX_QUEUE_SIZE, front = rear = -1 means empty, and size   *)
(* is the field the flagperson reads outside the mutex.                    *)
(*                                                                         *)
(* The operators on a queue record are used by ProdCons.  The variables    *)
(* below drive them on their own: `queue' is one car_queue and `fifo' a    *)
(* history variable holding the cars that were enqueued and not yet        *)
(* dequeued, in order, i.e. what a FIFO queue would hold.                  *)
(***************************************************************************)
EXTENDS Integers, Sequences

CONSTANTS QCap,   \* MAX_QUEUE_SIZE
          Vals,   \* the car numbers that are enqueued
          Zero    \* the content of a slot of the zero-filled mmap page

ASSUME QCap \in Nat \ {0} /\ Zero \notin Vals

VARIABLES queue, fifo

qvars == <<queue, fifo>>

Slot == 0..QCap-1

\* The queue as main() leaves it: the page is zeroed by mmap and front and
\* rear are set to -1.
EmptyQueue == [car |-> [i \in Slot |-> Zero], front |-> -1, rear |-> -1, size |-> 0]

is_full(q) == \/ q.front = q.rear + 1
              \/ q.front = 0 /\ q.rear = QCap - 1

is_empty(q) == q.front = -1

\* The size computation shared by enqueue and dequeue.
SizeOf(front, rear) ==
    IF front > rear THEN QCap - front + rear + 1 ELSE rear - front + 1

\* An enqueue that omits setting front to 0 when the queue was empty.
EnqueueKeepFront(q, v) ==
    IF is_full(q) THEN q
    ELSE LET r == (q.rear + 1) % QCap
         IN  [car |-> [q.car EXCEPT ![r] = v], front |-> q.front, rear |-> r,
              size |-> SizeOf(q.front, r)]

\* enqueue(my_queue, element): a full queue is left unchanged.
enqueue(q, v) ==
    IF is_full(q) THEN q
    ELSE LET f == IF q.front = -1 THEN 0 ELSE q.front
             r == (q.rear + 1) % QCap
         IN  [car |-> [q.car EXCEPT ![r] = v], front |-> f, rear |-> r,
              size |-> SizeOf(f, r)]

\* A dequeue that forgets to wrap front around the end of the array.
DequeueNoWrap(q) ==
    IF is_empty(q) THEN [q |-> q, elem |-> -1]
    ELSE LET f == IF q.front = q.rear THEN -1 ELSE q.front + 1
             r == IF q.front = q.rear THEN -1 ELSE q.rear
         IN  [q |-> [q EXCEPT !.front = f, !.rear = r, !.size = SizeOf(f, r)],
              elem |-> q.car[q.front]]

\* dequeue(my_queue): the new queue and the element returned (-1 when empty).
dequeue(q) ==
    IF is_empty(q) THEN [q |-> q, elem |-> -1]
    ELSE LET f == IF q.front = q.rear THEN -1 ELSE (q.front + 1) % QCap
             r == IF q.front = q.rear THEN -1 ELSE q.rear
         IN  [q |-> [q EXCEPT !.front = f, !.rear = r, !.size = SizeOf(f, r)],
              elem |-> q.car[q.front]]

-----------------------------------------------------------------------------
(* The queue used on its own, by callers that enqueue and dequeue at will. *)

Init == queue = EmptyQueue /\ fifo = <<>>

Enqueue(v) ==
    /\ queue' = enqueue(queue, v)
    /\ fifo' = IF is_full(queue) THEN fifo ELSE Append(fifo, v)

Dequeue ==
    /\ queue' = dequeue(queue).q
    /\ fifo' = IF fifo = <<>> THEN fifo ELSE Tail(fifo)

Next == (\E v \in Vals : Enqueue(v)) \/ Dequeue

Spec == Init /\ [][Next]_qvars

-----------------------------------------------------------------------------
\* The queue record keeps front and rear inside the array.
TypeOK ==
    /\ queue \in [car : [Slot -> Vals \cup {Zero}], front : -1..QCap-1,
                  rear : -1..QCap-1, size : 0..QCap]
    /\ fifo \in Seq(Vals)

\* The cars stored from front to rear, going round the end of the array.
Contents(q) ==
    IF is_empty(q) THEN <<>>
    ELSE [k \in 1..SizeOf(q.front, q.rear) |-> q.car[(q.front + k - 1) % QCap]]

\* enqueue and dequeue keep the array a FIFO queue: after any sequence of
\* calls, the slots from front to rear hold exactly the cars enqueued and
\* not yet dequeued, oldest at front, and dequeue returns the oldest one.
IsFifo ==
    /\ Contents(queue) = fifo
    /\ fifo # <<>> => dequeue(queue).elem = Head(fifo)
=============================================================================
