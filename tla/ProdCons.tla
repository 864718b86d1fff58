------------------------------ MODULE ProdCons ------------------------------
(***************************************************************************)
(* prodcons.c: main() forks a north producer, a south producer and keeps   *)
(* the flagperson (consumer).  They share two car_queues and five          *)
(* csc452_sem semaphores in MAP_SHARED pages.                              *)
(*                                                                         *)
(* Each process is a program counter over the statements of its loop; a   *)
(* step is one statement.  down/up are the syscalls 443/444: down waits    *)
(* until the value is positive and decrements it, up increments it (the    *)
(* kernel side is not part of the repository; this is the semaphore the    *)
(* wrappers and the comments of prodcons.c rely on).                       *)
(*                                                                         *)
(* Data abstracted: every car number the code enqueues is 1 (lines 149    *)
(* and 171-172 advance a pointer instead of the counter), so the cars are  *)
(* the single value Car; printing, time() and the random                   *)
(* sleeps are left out, and so is is_sleep, whose copies only decide what  *)
(* is printed.                                                             *)
(***************************************************************************)
EXTENDS Integers, Sequences, FiniteSets

CONSTANTS N,      \* N, the initial value of north_empty and south_empty
          Limit,  \* the literal 10 of the flagperson's loop conditions
          QCap,   \* MAX_QUEUE_SIZE
          Car,    \* the car number every enqueue stores
          Zero    \* a slot of the zero-filled page

ASSUME N \in Nat \ {0} /\ Limit \in Nat /\ QCap > N

VARIABLES sem, queues, pc

vars == <<sem, queues, pc>>

Sides == {"north", "south"}
Procs == Sides \cup {"flag"}

Empty(s) == IF s = "north" THEN "north_empty" ELSE "south_empty"
Full(s)  == IF s = "north" THEN "north_full"  ELSE "south_full"
SemNames == {"mutex", "north_empty", "north_full", "south_empty", "south_full"}

Q == INSTANCE CarQueue WITH Vals <- {Car}, queue <- queues["north"], fifo <- <<>>

-----------------------------------------------------------------------------
(* down and up, as a step of process p from label `from' to label `to'.    *)

down(p, s, from, to) ==
    /\ pc[p] = from
    /\ sem[s] > 0
    /\ sem' = [sem EXCEPT ![s] = @ - 1]
    /\ pc' = [pc EXCEPT ![p] = to]
    /\ UNCHANGED queues

up(p, s, from, to) ==
    /\ pc[p] = from
    /\ sem' = [sem EXCEPT ![s] = @ + 1]
    /\ pc' = [pc EXCEPT ![p] = to]
    /\ UNCHANGED queues

Init ==
    /\ sem = [s \in SemNames |-> IF s = "mutex" THEN 1
                                 ELSE IF s \in {"north_empty", "south_empty"} THEN N
                                 ELSE 0]
    /\ queues = [s \in Sides |-> Q!EmptyQueue]
    /\ pc = [p \in Procs |-> IF p = "flag" THEN <<"north", "own">> ELSE "down_empty"]

-----------------------------------------------------------------------------
(* The producers: one loop iteration is down(empty), down(mutex),          *)
(* enqueue, up(mutex), up(full).                                           *)

ProducerSkipMutex(s) ==
    /\ pc[s] = "down_mutex"
    /\ pc' = [pc EXCEPT ![s] = "enqueue"]
    /\ UNCHANGED <<sem, queues>>

ProducerDownEmpty(s) == down(s, Empty(s), "down_empty", "down_mutex")
ProducerDownMutex(s) == down(s, "mutex", "down_mutex", "enqueue")

ProducerEnqueue(s) ==
    /\ pc[s] = "enqueue"
    /\ queues' = [queues EXCEPT ![s] = Q!enqueue(@, Car)]
    /\ pc' = [pc EXCEPT ![s] = "up_mutex"]
    /\ UNCHANGED sem

ProducerUpMutex(s) == up(s, "mutex", "up_mutex", "up_full")
ProducerUpFull(s)  == up(s, Full(s), "up_full", "down_empty")

Producer(s) ==
    \/ ProducerDownEmpty(s) \/ ProducerDownMutex(s) \/ ProducerEnqueue(s)
    \/ ProducerUpMutex(s) \/ ProducerUpFull(s)

-----------------------------------------------------------------------------
(* The flagperson.  pc["flag"] is <<side, step>>.  The north loop tests     *)
(*   north_queue->size > 0 && south_queue->size < 10                        *)
(* and the south loop                                                       *)
(*   north_queue->size < 10 && south_queue->size > 0,                       *)
(* each operand a separate read of shared memory, left to right, with      *)
(* short-circuit.  When a loop condition is false control passes to the    *)
(* other loop (the sleep test at the top of while(1) changes nothing but   *)
(* what is printed).                                                       *)

\* Where control goes after the loop of side s ends.
LoopExit(s) == IF s = "north" THEN <<"south", "other">> ELSE <<"north", "own">>
\* The first test of the loop of side s.
LoopHead(s) == IF s = "north" THEN <<"north", "own">> ELSE <<"south", "other">>

\* Reading one operand of a loop condition.
FlagTest(l, cond, next) ==
    /\ pc["flag"] = l
    /\ pc' = [pc EXCEPT !["flag"] = IF cond THEN next ELSE LoopExit(l[1])]
    /\ UNCHANGED <<sem, queues>>

FlagTestNorthOwn   == FlagTest(<<"north", "own">>, queues["north"].size > 0, <<"north", "other">>)
\* The north loop testing its own queue against the limit.
FlagTestNorthOtherOwn == FlagTest(<<"north", "other">>, queues["north"].size < Limit, <<"north", "down_full">>)
FlagTestNorthOther == FlagTest(<<"north", "other">>, queues["south"].size < Limit, <<"north", "down_full">>)
FlagTestSouthOther == FlagTest(<<"south", "other">>, queues["north"].size < Limit, <<"south", "own">>)
FlagTestSouthOwn   == FlagTest(<<"south", "own">>, queues["south"].size > 0, <<"south", "down_full">>)

FlagDownFull(s)  == down("flag", Full(s), <<s, "down_full">>, <<s, "down_mutex">>)
FlagDownMutex(s) == down("flag", "mutex", <<s, "down_mutex">>, <<s, "dequeue">>)

FlagDequeue(s) ==
    /\ pc["flag"] = <<s, "dequeue">>
    /\ queues' = [queues EXCEPT ![s] = Q!dequeue(@).q]
    /\ pc' = [pc EXCEPT !["flag"] = <<s, "up_mutex">>]
    /\ UNCHANGED sem

FlagUpMutex(s) == up("flag", "mutex", <<s, "up_mutex">>, <<s, "up_empty">>)

\* The south loop releasing north_empty instead of south_empty.
FlagUpEmptyCrossed(s) == up("flag", Empty("north"), <<s, "up_empty">>, LoopHead(s))

FlagUpEmpty(s) == up("flag", Empty(s), <<s, "up_empty">>, LoopHead(s))

Flagperson ==
    \/ FlagTestNorthOwn \/ FlagTestNorthOther
    \/ FlagTestSouthOther \/ FlagTestSouthOwn
    \/ \E s \in Sides :
          \/ FlagDownFull(s) \/ FlagDownMutex(s) \/ FlagDequeue(s)
          \/ FlagUpMutex(s) \/ FlagUpEmpty(s)

Step(p) == IF p = "flag" THEN Flagperson ELSE Producer(p)

Next == \E p \in Procs : Step(p)

\* Each process is scheduled whenever it can run, and a process waiting in
\* down is handed the unit by up (the kernel's wait queue), so a process
\* that is enabled infinitely often eventually runs.
Fairness == \A p \in Procs : SF_vars(Step(p))

Spec == Init /\ [][Next]_vars /\ Fairness

-----------------------------------------------------------------------------
\* The number of cars really waiting on side s.
Occupancy(s) == Len(Q!Contents(queues[s]))

Ind(b) == IF b THEN 1 ELSE 0

InCS(p) == IF p = "flag" THEN pc[p][2] \in {"dequeue", "up_mutex"}
                        ELSE pc[p] \in {"enqueue", "up_mutex"}

\* mutex makes the queue operations of the three processes mutually
\* exclusive: its value and the number of processes between down(mutex) and
\* up(mutex) add up to 1.
MutualExclusion == sem["mutex"] + Cardinality({p \in Procs : InCS(p)}) = 1

\* The full and empty semaphores of each side account for its queue: the
\* cars waiting are the units of full plus the car a producer enqueued but
\* has not yet announced, plus the car the flagperson claimed but has not
\* yet dequeued; with the units of empty and the slots claimed or freed in
\* flight they make N.  So no enqueue ever meets a full array and no
\* dequeue an empty one.
BufferAccounting ==
    \A s \in Sides :
       /\ Occupancy(s) = sem[Full(s)] + Ind(pc[s] \in {"up_mutex", "up_full"})
                        + Ind(pc["flag"] \in {<<s, "down_mutex">>, <<s, "dequeue">>})
       /\ sem[Empty(s)] + Occupancy(s) + Ind(pc[s] \in {"down_mutex", "enqueue"})
              + Ind(pc["flag"] \in {<<s, "up_mutex">>, <<s, "up_empty">>}) = N

\* The flagperson blocks in down(north_full) or down(south_full) only for a
\* car that is already in that side's queue: it tested the queue's size
\* first (lines 192, 203) and only it removes cars.
FlagWaitsOnlyForQueuedCar ==
    \A s \in Sides : pc["flag"] = <<s, "down_full">> => Occupancy(s) > 0

\* Every car waiting in a queue eventually leaves the construction zone:
\* whenever side s has a car, the flagperson later dequeues a car of s.
CarsLeave == \A s \in Sides : Occupancy(s) > 0 ~> pc["flag"] = <<s, "up_mutex">>

\* Both loop conditions false at once: each side's size has reached Limit.
BothAtLimit == \A s \in Sides : queues[s].size >= Limit

\* A waiting car is eventually let through unless both queues reach the
\* loop limit: whenever side s has a car, the flagperson later dequeues a
\* car of s, or both sizes are at Limit, the state in which neither of the
\* loops of lines 192 and 203 runs.
CarsLeaveUnlessBothAtLimit ==
    \A s \in Sides : Occupancy(s) > 0 ~> (pc["flag"] = <<s, "up_mutex">> \/ BothAtLimit)
=============================================================================
