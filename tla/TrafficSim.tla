----------------------------- MODULE TrafficSim -----------------------------
(***************************************************************************)
(* trafficsim.c: main() forks a north producer, a south producer and a     *)
(* consumer (the flagperson), which share five csc452_sem semaphores and,  *)
(* for each side, an int page holding the index counters (n_prod, n_con)   *)
(* and a BUFF_SIZE-slot buffer.  Each process is a program counter over    *)
(* the statements of its loop.                                             *)
(*                                                                         *)
(* The counters are kept modulo M, a multiple of BUFF_SIZE: then           *)
(* `*n_prod % BUFF_SIZE' and `car = *n_prod' are what the code computes,   *)
(* for every run shorter than 2^31 cars (the int counters overflow only    *)
(* after that many, over a century of 2-second passages).  The rand()      *)
(* loop, the sleeps, time() and printing are left out, and so is           *)
(* con_sleep, which decides only what is printed.                          *)
(***************************************************************************)
EXTENDS Integers, FiniteSets

CONSTANTS B,      \* BUFF_SIZE
          Limit,  \* the literal 10 of the consumer's loop conditions
          M       \* modulus of the index counters, a multiple of B

ASSUME B \in Nat \ {0} /\ Limit \in Nat /\ M \in Nat \ {0} /\ M % B = 0

VARIABLES sem, prod, con, buf, pc,
          car   \* the consumer's local car

vars == <<sem, prod, con, buf, pc, car>>

Sides == {"north", "south"}
Procs == Sides \cup {"flag"}
Empty(s) == IF s = "north" THEN "n_empty" ELSE "s_empty"
Full(s)  == IF s = "north" THEN "n_full"  ELSE "s_full"
SemNames == {"n_full", "n_empty", "s_full", "s_empty", "mutex"}
Slots == 0..B-1

\* down and up (syscalls 443 and 444) as a step of process p.
down(p, s, from, to) ==
    /\ pc[p] = from
    /\ sem[s] > 0
    /\ sem' = [sem EXCEPT ![s] = @ - 1]
    /\ pc' = [pc EXCEPT ![p] = to]
    /\ UNCHANGED <<prod, con, buf, car>>

up(p, s, from, to) ==
    /\ pc[p] = from
    /\ sem' = [sem EXCEPT ![s] = @ + 1]
    /\ pc' = [pc EXCEPT ![p] = to]
    /\ UNCHANGED <<prod, con, buf, car>>

Init ==
    /\ sem = [s \in SemNames |-> IF s = "mutex" THEN 1
                                 ELSE IF s \in {"n_empty", "s_empty"} THEN B
                                 ELSE 0]
    /\ prod = [s \in Sides |-> 0]
    /\ con = [s \in Sides |-> 0]
    /\ buf = [s \in Sides |-> [i \in Slots |-> 0]]
    /\ pc = [p \in Procs |-> IF p = "flag" THEN <<"north", "other">> ELSE "down_empty"]
    \* `int car;' is uninitialised; it is only printed after it is assigned.
    /\ car \in 0..M-1

-----------------------------------------------------------------------------
(* The producers.                                                          *)

ProducerSkipMutex(s) ==
    /\ pc[s] = "down_mutex"
    /\ pc' = [pc EXCEPT ![s] = "produce"]
    /\ UNCHANGED <<sem, prod, con, buf, car>>

ProducerDownEmpty(s) == down(s, Empty(s), "down_empty", "down_mutex")
ProducerDownMutex(s) == down(s, "mutex", "down_mutex", "produce")

\* A producer that stores the car one slot after its index.
ProduceNextSlot(s) ==
    /\ pc[s] = "produce"
    /\ buf' = [buf EXCEPT ![s][(prod[s] + 1) % B] = prod[s]]
    /\ prod' = [prod EXCEPT ![s] = (@ + 1) % M]
    /\ pc' = [pc EXCEPT ![s] = "up_mutex"]
    /\ UNCHANGED <<sem, con, car>>

\* car = *n_prod; north_buf[*n_prod % BUFF_SIZE] = car; *n_prod = *n_prod + 1;
Produce(s) ==
    /\ pc[s] = "produce"
    /\ buf' = [buf EXCEPT ![s][prod[s] % B] = prod[s]]
    /\ prod' = [prod EXCEPT ![s] = (@ + 1) % M]
    /\ pc' = [pc EXCEPT ![s] = "up_mutex"]
    /\ UNCHANGED <<sem, con, car>>

ProducerUpMutex(s) == up(s, "mutex", "up_mutex", "up_full")
ProducerUpFull(s)  == up(s, Full(s), "up_full", "down_empty")

Producer(s) ==
    \/ ProducerDownEmpty(s) \/ ProducerDownMutex(s) \/ Produce(s)
    \/ ProducerUpMutex(s) \/ ProducerUpFull(s)

-----------------------------------------------------------------------------
(* The consumer.  pc["flag"] is <<side, step>>.  The loop of side s tests  *)
(*   other side's full->value < 10 && this side's full->value > 0          *)
(* reading the semaphore values in shared memory, left to right, with     *)
(* short-circuit; when it is false control passes to the other loop (the  *)
(* sleep tests between the loops change nothing but what is printed).      *)

OtherSide(s) == IF s = "north" THEN "south" ELSE "north"

\* The first test reading this side's full semaphore for the other's.
FlagTestOtherOwnSem(s) ==
    /\ pc["flag"] = <<s, "other">>
    /\ pc' = [pc EXCEPT !["flag"] = IF sem[Full(s)] < Limit
                                    THEN <<s, "own">> ELSE <<OtherSide(s), "other">>]
    /\ UNCHANGED <<sem, prod, con, buf, car>>

FlagTestOther(s) ==
    /\ pc["flag"] = <<s, "other">>
    /\ pc' = [pc EXCEPT !["flag"] = IF sem[Full(OtherSide(s))] < Limit
                                    THEN <<s, "own">> ELSE <<OtherSide(s), "other">>]
    /\ UNCHANGED <<sem, prod, con, buf, car>>

\* The own-side test admitting a full semaphore of 0.
FlagTestOwnNonNeg(s) ==
    /\ pc["flag"] = <<s, "own">>
    /\ pc' = [pc EXCEPT !["flag"] = IF sem[Full(s)] >= 0
                                    THEN <<s, "down_full">> ELSE <<OtherSide(s), "other">>]
    /\ UNCHANGED <<sem, prod, con, buf, car>>

FlagTestOwn(s) ==
    /\ pc["flag"] = <<s, "own">>
    /\ pc' = [pc EXCEPT !["flag"] = IF sem[Full(s)] > 0
                                    THEN <<s, "down_full">> ELSE <<OtherSide(s), "other">>]
    /\ UNCHANGED <<sem, prod, con, buf, car>>

FlagDownFull(s)  == down("flag", Full(s), <<s, "down_full">>, <<s, "down_mutex">>)
FlagDownMutex(s) == down("flag", "mutex", <<s, "down_mutex">>, <<s, "consume">>)

\* A consumer that forgets to advance its index.
ConsumeNoAdvance(s) ==
    /\ pc["flag"] = <<s, "consume">>
    /\ pc' = [pc EXCEPT !["flag"] = <<s, "up_mutex">>]
    /\ UNCHANGED <<sem, prod, con, buf, car>>

\* car = *n_con; *n_con = *n_con + 1;  (then the car passes, under mutex)
Consume(s) ==
    /\ pc["flag"] = <<s, "consume">>
    /\ car' = con[s]
    /\ con' = [con EXCEPT ![s] = (@ + 1) % M]
    /\ pc' = [pc EXCEPT !["flag"] = <<s, "up_mutex">>]
    /\ UNCHANGED <<sem, prod, buf>>

FlagUpMutex(s) == up("flag", "mutex", <<s, "up_mutex">>, <<s, "up_empty">>)
FlagUpEmpty(s) == up("flag", Empty(s), <<s, "up_empty">>, <<s, "other">>)

Flagperson ==
    \E s \in Sides :
       \/ FlagTestOther(s) \/ FlagTestOwn(s) \/ FlagDownFull(s)
       \/ FlagDownMutex(s) \/ Consume(s) \/ FlagUpMutex(s) \/ FlagUpEmpty(s)

Step(p) == IF p = "flag" THEN Flagperson ELSE Producer(p)

Next == \E p \in Procs : Step(p)

\* As in ProdCons: every runnable process is scheduled, and a waiter in down
\* is handed the unit by up.
Fairness == \A p \in Procs : SF_vars(Step(p))

Spec == Init /\ [][Next]_vars /\ Fairness

-----------------------------------------------------------------------------
\* The consumer reads n_full->value and s_full->value outside the mutex
\* (lines 149, 182) and then calls down on the full semaphore: it reaches
\* down(n_full) or down(s_full) only with a unit there, so it never sleeps
\* in down(full) while holding no car to serve, whatever the producers do
\* between its test and its down.
FlagNeverWaitsOnFull ==
    \A s \in Sides : pc["flag"] = <<s, "down_full">> => sem[Full(s)] > 0

\* The cars of side s that arrived and did not yet enter the zone.
Waiting(s) == (prod[s] - con[s]) % M

Ind(b) == IF b THEN 1 ELSE 0

InCS(p) == IF p = "flag" THEN pc[p][2] \in {"consume", "up_mutex"}
                        ELSE pc[p] \in {"produce", "up_mutex"}

\* mutex excludes the three processes from the index counters and buffers:
\* its value and the number of processes between down(mutex) and up(mutex)
\* add up to 1.
MutualExclusion == sem["mutex"] + Cardinality({p \in Procs : InCS(p)}) = 1

\* The full and empty semaphores of each side account for n_prod - n_con:
\* the cars waiting are the units of full plus the one a producer counted
\* but has not announced plus the one the consumer claimed but has not
\* counted; with the units of empty and those in flight they make
\* BUFF_SIZE.  So the consumer never counts a car that did not arrive.
BufferAccounting ==
    \A s \in Sides :
       /\ Waiting(s) = sem[Full(s)] + Ind(pc[s] \in {"up_mutex", "up_full"})
                      + Ind(pc["flag"] \in {<<s, "down_mutex">>, <<s, "consume">>})
       /\ sem[Empty(s)] + Waiting(s) + Ind(pc[s] \in {"down_mutex", "produce"})
              + Ind(pc["flag"] \in {<<s, "up_mutex">>, <<s, "up_empty">>}) = B

\* Both buffers full: each full semaphore at the loop limit.
BothFull == \A s \in Sides : sem[Full(s)] = Limit

\* A car waiting on either side eventually enters the zone, unless both
\* buffers fill: then neither loop condition of the consumer holds (the
\* livelock pc_livelock shows for prodcons.c), and this is the only way
\* the consumer's alternation between the loops starves a side.
CarsServedUnlessBothFull ==
    \A s \in Sides, k \in 0..M-1 :
       (Waiting(s) > 0 /\ con[s] = k) ~> (con[s] # k \/ BothFull)

\* The cars of side s in its buffer, from slot n_con to slot n_prod - 1.
Queued(s) == [k \in 1..Waiting(s) |-> buf[s][(con[s] + k - 1) % B]]

AQ == INSTANCE BoundedQueues WITH Sides <- Sides, Cap <- B, M <- M,
                                  q <- [s \in Sides |-> Queued(s)],
                                  next <- prod, last <- car

\* The two buffers with their index counters implement a pair of bounded
\* FIFO queues: a producer's car joins the back of its side with the next
\* number, no producer overwrites a slot whose car has not been taken, and
\* the car the consumer takes and announces from *n_con is the one at the
\* front, the oldest waiting on that side.
QueuesRefined == AQ!Spec
=============================================================================
