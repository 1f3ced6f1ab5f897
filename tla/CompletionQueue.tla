---------------------------- MODULE CompletionQueue ----------------------------
(***************************************************************************)
(* The completion queue of src/iwarp/cq.c: a ring of num_cqe slots with a  *)
(* producer and a consumer index, in which one slot always stays unused so *)
(* that prod = cons means empty.  RDMAP produces into it, the application  *)
(* consumes from it, and RDMAP asks cq_isfull before it starts an          *)
(* operation that will produce an entry.                                   *)
(***************************************************************************)
EXTENDS Integers, Sequences

CONSTANTS
    Cqe,          \* completion queue entries
    MaxCqe,       \* bound: the largest ring a run creates
    ENOSPC, ENOENT, OK

ASSUME CqAssumption ==
    /\ MaxCqe \in Nat \ {0}
    /\ Cqe # {}
    /\ ENOSPC # OK

VARIABLES
    num_cqe,      \* number of slots, 0 when there is no queue
    cqe,          \* the slots, indexed 0..num_cqe-1
    prod,         \* slot the next entry goes to
    cons,         \* slot the next entry comes from
    arg,          \* the entry last passed to cq_produce
    ret           \* what the last call returned

vars == <<num_cqe, cqe, prod, cons, arg, ret>>

\* Mutant: the index runs past the end.
next_index_straight(cur, num) == cur + 1

\* next_index: one past cur, wrapping at num.
next_index(cur, num) == IF cur + 1 = num THEN 0 ELSE cur + 1

\* cq_num_occupied: the producer's lead over the consumer.
cq_num_occupied ==
    (IF prod < cons THEN prod + num_cqe ELSE prod) - cons

\* Mutant: the slot that must stay unused is counted as room.
cq_isfull_late == cq_num_occupied >= num_cqe

\* cq_isfull: RDMAP's test before it starts an operation.
cq_isfull == cq_num_occupied >= num_cqe - 1

Init ==
    /\ num_cqe = 0
    /\ cqe = [i \in {} |-> 0]
    /\ prod = 0
    /\ cons = 0
    /\ arg \in Cqe
    /\ ret = OK

\* cq_create: malloc leaves the slots with arbitrary contents.
cq_create(num) ==
    /\ num_cqe = 0
    /\ num > 0
    /\ num_cqe' = num
    /\ cqe' \in [0 .. num - 1 -> Cqe]
    /\ prod' = 0
    /\ cons' = 0
    /\ ret' = OK
    /\ UNCHANGED arg

cq_destroy ==
    /\ num_cqe # 0
    /\ num_cqe' = 0
    /\ cqe' = [i \in {} |-> 0]
    /\ prod' = 0
    /\ cons' = 0
    /\ ret' = OK
    /\ UNCHANGED arg

\* Mutant: the full ring is not recognised, and the oldest entry lost.
cq_produce_over(e) ==
    /\ num_cqe # 0
    /\ cqe' = [cqe EXCEPT ![prod] = e]
    /\ prod' = next_index(prod, num_cqe)
    /\ arg' = e
    /\ ret' = OK
    /\ UNCHANGED <<num_cqe, cons>>

\* cq_produce: the entry is stored, or refused when the ring is full.
cq_produce(e) ==
    LET nextprod == next_index(prod, num_cqe)
    IN  /\ num_cqe # 0
        /\ arg' = e
        /\ \/ /\ nextprod = cons
              /\ ret' = ENOSPC
              /\ UNCHANGED <<cqe, prod>>
           \/ /\ nextprod # cons
              /\ cqe' = [cqe EXCEPT ![prod] = e]
              /\ prod' = nextprod
              /\ ret' = OK
        /\ UNCHANGED <<num_cqe, cons>>

cq_consume ==
    /\ num_cqe # 0
    /\ \/ /\ prod = cons
          /\ ret' = ENOENT
          /\ UNCHANGED cons
       \/ /\ prod # cons
          /\ ret' = cqe[cons]
          /\ cons' = next_index(cons, num_cqe)
    /\ UNCHANGED <<num_cqe, cqe, prod, arg>>

Next ==
    \/ \E num \in 1 .. MaxCqe : cq_create(num)
    \/ cq_destroy
    \/ \E e \in Cqe : cq_produce(e)
    \/ cq_consume

Spec == Init /\ [][Next]_vars

--------------------------------------------------------------------------------
(* Properties *)

\* Both indices stay inside the ring cq_create allocated, and there is a slot
\* behind every index: no cq_produce or cq_consume touches memory outside cqe[].
TypeOK ==
    /\ num_cqe \in 0 .. MaxCqe
    /\ cqe \in [0 .. num_cqe - 1 -> Cqe]
    /\ prod \in 0 .. MaxCqe /\ cons \in 0 .. MaxCqe
    /\ num_cqe # 0 => prod < num_cqe /\ cons < num_cqe
    /\ num_cqe = 0 => prod = 0 /\ cons = 0
    /\ arg \in Cqe
    /\ ret \in Cqe \cup {OK, ENOSPC, ENOENT}

\* cq_isfull counts entries, cq_produce compares indices.  rdmap_send and
\* rdmap_rdma_write ignore cq_produce's answer because they asked cq_isfull
\* first: a call is refused exactly when cq_isfull said so before it, at every
\* position of the ring.
FullMeansOverflow ==
    [][\A e \in Cqe : cq_produce(e) => (ret' = ENOSPC <=> cq_isfull)]_vars

\* The slot that holds the i-th oldest waiting entry.
Slot(i) ==
    IF cons + i - 1 < num_cqe THEN cons + i - 1 ELSE cons + i - 1 - num_cqe

Contents == [i \in 1 .. cq_num_occupied |-> cqe[Slot(i)]]

Fifo == INSTANCE BoundedFifo WITH
    Event    <- Cqe,
    Refused  <- ENOSPC,
    Empty    <- ENOENT,
    Accepted <- OK,
    open     <- num_cqe # 0,
    cap      <- IF num_cqe = 0 THEN 0 ELSE num_cqe - 1,
    queue    <- Contents,
    offered  <- arg,
    answer   <- ret

\* The ring implements the bounded first-in first-out queue of capacity
\* num_cqe - 1: every entry consumed was produced, entries come out in the
\* order they went in, none is lost, repeated or read from a slot that was
\* never written, across any number of wrap-arounds.
RingIsFifo == Fifo!Spec
================================================================================
