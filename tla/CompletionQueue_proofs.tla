------------------------- MODULE CompletionQueue_proofs ------------------------
(***************************************************************************)
(* The ring of cq.c for every size and every set of entries: its indices   *)
(* stay inside the ring, cq_isfull predicts cq_produce, and the ring       *)
(* implements the bounded first-in first-out queue.                        *)
(***************************************************************************)
EXTENDS CompletionQueue, SequenceTheorems, TLAPS

\* next_index maps a position of the ring to a position of the ring.
LEMMA NextIndexInRing ==
    ASSUME NEW num \in Nat \ {0}, NEW cur \in 0 .. num - 1
    PROVE  next_index(cur, num) \in 0 .. num - 1
  BY DEF next_index

\* Type correctness of cq.c: TypeOK is preserved by every call.
THEOREM TypeCorrect == Spec => []TypeOK
<1>1. Init => TypeOK
  BY CqAssumption DEF Init, TypeOK
<1>2. TypeOK /\ [Next]_vars => TypeOK'
  <2> SUFFICES ASSUME TypeOK, [Next]_vars PROVE TypeOK'
    OBVIOUS
  <2> USE CqAssumption DEF TypeOK
  <2>1. ASSUME NEW num \in 1 .. MaxCqe, cq_create(num) PROVE TypeOK'
    BY <2>1 DEF cq_create
  <2>2. CASE cq_destroy
    BY <2>2 DEF cq_destroy
  <2>3. ASSUME NEW e \in Cqe, cq_produce(e) PROVE TypeOK'
    <3>1. next_index(prod, num_cqe) \in 0 .. num_cqe - 1
      BY <2>3, NextIndexInRing DEF cq_produce
    <3> QED
      BY <2>3, <3>1 DEF cq_produce
  <2>4. CASE cq_consume
    <3>1. next_index(cons, num_cqe) \in 0 .. num_cqe - 1
      BY <2>4, NextIndexInRing DEF cq_consume
    <3>2. cons \in 0 .. num_cqe - 1
      BY <2>4 DEF cq_consume
    <3>3. cqe[cons] \in Cqe
      BY <3>2
    <3> QED
      BY <2>4, <3>1, <3>3 DEF cq_consume
  <2>5. CASE UNCHANGED vars
    BY <2>5 DEF vars
  <2> QED
    BY <2>1, <2>2, <2>3, <2>4, <2>5 DEF Next
<1> QED
  BY <1>1, <1>2, PTL DEF Spec

\* Counting entries and comparing indices tell the same rings full.
LEMMA FullRing ==
    ASSUME TypeOK, num_cqe # 0
    PROVE  cq_isfull <=> next_index(prod, num_cqe) = cons
  BY CqAssumption DEF TypeOK, cq_isfull, cq_num_occupied, next_index

\* A call of cq_produce returns -ENOSPC exactly when cq_isfull held before it,
\* so a caller that saw room cannot lose its completion.
THEOREM FullPredictsOverflow == Spec => FullMeansOverflow
<1>1. ASSUME TypeOK, NEW e \in Cqe, cq_produce(e)
      PROVE  ret' = ENOSPC <=> cq_isfull
  <2>1. num_cqe # 0
    BY <1>1 DEF cq_produce
  <2>2. cq_isfull <=> next_index(prod, num_cqe) = cons
    BY <1>1, <2>1, FullRing
  <2>3. CASE next_index(prod, num_cqe) = cons
    BY <1>1, <2>2, <2>3 DEF cq_produce
  <2>4. CASE next_index(prod, num_cqe) # cons
    <3>1. ret' = OK
      BY <1>1, <2>4 DEF cq_produce
    <3> QED
      BY <2>2, <2>4, <3>1, CqAssumption
  <2> QED
    BY <2>3, <2>4
<1>2. TypeOK => [\A e \in Cqe : cq_produce(e) => (ret' = ENOSPC <=> cq_isfull)]_vars
  BY <1>1
<1> QED
  BY <1>2, TypeCorrect, PTL DEF FullMeansOverflow

--------------------------------------------------------------------------------
(* Refinement *)

\* The number of waiting entries fits in the ring with one slot to spare.
LEMMA OccupiedRange ==
    ASSUME TypeOK, num_cqe # 0
    PROVE  /\ cq_num_occupied \in 0 .. num_cqe - 1
           /\ \A i \in 1 .. cq_num_occupied : Slot(i) \in 0 .. num_cqe - 1
  BY CqAssumption DEF TypeOK, cq_num_occupied, Slot

\* The waiting entries form a sequence of that length.
ContentsTyped ==
    /\ Contents \in Seq(Cqe)
    /\ Len(Contents) = cq_num_occupied
    /\ num_cqe = 0 => Contents = <<>>

\* Every well-formed ring shows such a sequence.
LEMMA ContentsSeq == TypeOK => ContentsTyped
<1> SUFFICES ASSUME TypeOK PROVE ContentsTyped
  OBVIOUS
<1> USE DEF ContentsTyped
<1>1. CASE num_cqe = 0
  <2>1. cq_num_occupied = 0
    BY <1>1 DEF TypeOK, cq_num_occupied
  <2>2. Contents = <<>>
    BY <2>1 DEF Contents
  <2> QED
    BY <2>1, <2>2
<1>2. CASE num_cqe # 0
  <2>1. cq_num_occupied \in Nat
    BY <1>2, OccupiedRange, CqAssumption DEF TypeOK
  <2>2. \A i \in 1 .. cq_num_occupied : cqe[Slot(i)] \in Cqe
    BY <1>2, OccupiedRange DEF TypeOK
  <2> QED
    BY <1>2, <2>1, <2>2 DEF Contents
<1> QED
  BY <1>1, <1>2

\* The same after a step, for the proofs about a call's effect.
LEMMA ContentsSeqNext == TypeOK' => ContentsTyped'
  BY ContentsSeq, PTL

\* A produced entry is appended to the waiting ones.
LEMMA ProduceAppends ==
    ASSUME TypeOK, TypeOK', NEW e \in Cqe, cq_produce(e),
           next_index(prod, num_cqe) # cons
    PROVE  /\ Contents' = Append(Contents, e)
           /\ Len(Contents) < num_cqe - 1
<1> DEFINE n == cq_num_occupied
<1>1. num_cqe # 0 /\ num_cqe' = num_cqe /\ cons' = cons /\ num_cqe \in Nat
  BY DEF cq_produce, TypeOK
<1>2. prod' = next_index(prod, num_cqe) /\ cqe' = [cqe EXCEPT ![prod] = e]
  BY DEF cq_produce
<1>3. cq_num_occupied' = n + 1 /\ n \in Nat /\ n < num_cqe - 1
  BY <1>1, <1>2, CqAssumption DEF TypeOK, cq_num_occupied, next_index
<1>4. \A i \in 1 .. n + 1 : Slot(i)' = Slot(i)
  BY <1>1 DEF Slot
<1>5. Slot(n + 1) = prod
  BY <1>1, CqAssumption DEF TypeOK, cq_num_occupied, Slot
<1>6. \A i \in 1 .. n : Slot(i) # prod /\ Slot(i) \in 0 .. num_cqe - 1
  BY <1>1, CqAssumption DEF TypeOK, cq_num_occupied, Slot
<1>7. \A i \in 1 .. n : cqe'[Slot(i)] = cqe[Slot(i)]
  BY <1>2, <1>6 DEF TypeOK
<1>8. cqe'[prod] = e
  BY <1>1, <1>2 DEF TypeOK
<1>9. /\ Contents \in Seq(Cqe) /\ Len(Contents) = n
      /\ Contents' \in Seq(Cqe) /\ Len(Contents') = n + 1
  BY <1>3, ContentsSeq, ContentsSeqNext DEF ContentsTyped
<1>10. /\ \A i \in 1 .. n : Contents[i] = cqe[Slot(i)]
       /\ \A i \in 1 .. n + 1 : Contents'[i] = cqe'[Slot(i)]
  BY <1>3, <1>4 DEF Contents
<1>11. /\ Append(Contents, e) \in Seq(Cqe)
       /\ Len(Append(Contents, e)) = n + 1
       /\ \A i \in 1 .. n : Append(Contents, e)[i] = Contents[i]
       /\ Append(Contents, e)[n + 1] = e
  BY <1>9, AppendProperties
<1>12. \A i \in 1 .. n + 1 : Contents'[i] = Append(Contents, e)[i]
  BY <1>3, <1>5, <1>7, <1>8, <1>10, <1>11
<1>13. Contents' = Append(Contents, e)
  BY <1>9, <1>11, <1>12, SeqEqual
<1> QED
  BY <1>3, <1>9, <1>13

\* A consumed entry is the oldest waiting one, and the others move up.
LEMMA ConsumeTakesHead ==
    ASSUME TypeOK, TypeOK', cq_consume, prod # cons
    PROVE  /\ Contents # <<>>
           /\ ret' = Head(Contents)
           /\ Contents' = Tail(Contents)
<1> DEFINE n == cq_num_occupied
<1>1. num_cqe # 0 /\ num_cqe' = num_cqe /\ prod' = prod /\ cqe' = cqe /\ num_cqe \in Nat
  BY DEF cq_consume, TypeOK
<1>2. cons' = next_index(cons, num_cqe) /\ ret' = cqe[cons]
  BY DEF cq_consume
<1>3. cq_num_occupied' = n - 1 /\ n \in Nat /\ n > 0 /\ n - 1 \in Nat
  BY <1>1, <1>2, CqAssumption DEF TypeOK, cq_num_occupied, next_index
<1>4. Slot(1) = cons
  BY <1>1, CqAssumption DEF TypeOK, Slot
<1>5. \A i \in 1 .. n - 1 : Slot(i)' = Slot(i + 1)
  <2> TAKE i \in 1 .. n - 1
  <2>1. i \in Nat /\ i >= 1 /\ i + 1 <= n
    BY <1>3
  <2>2. Slot(i)' = IF cons' + i - 1 < num_cqe THEN cons' + i - 1
                   ELSE cons' + i - 1 - num_cqe
    BY <1>1 DEF Slot
  <2>3. Slot(i + 1) = IF cons + i < num_cqe THEN cons + i ELSE cons + i - num_cqe
    BY <2>1 DEF Slot, TypeOK
  <2>4. n < num_cqe
    BY <1>1, OccupiedRange
  <2>5. cons' = IF cons + 1 = num_cqe THEN 0 ELSE cons + 1
    BY <1>2 DEF next_index
  <2> QED
    BY <1>1, <1>3, <2>1, <2>2, <2>3, <2>4, <2>5 DEF TypeOK
<1>6. /\ Contents \in Seq(Cqe) /\ Len(Contents) = n
      /\ Contents' \in Seq(Cqe) /\ Len(Contents') = n - 1
  BY <1>3, ContentsSeq, ContentsSeqNext DEF ContentsTyped
<1>7. /\ \A i \in 1 .. n : Contents[i] = cqe[Slot(i)]
      /\ \A i \in 1 .. n - 1 : Contents'[i] = cqe[Slot(i)']
  BY <1>1, <1>3 DEF Contents
<1>8. Contents # <<>> /\ Head(Contents) = cqe[cons]
  BY <1>3, <1>4, <1>6, <1>7
<1>9. /\ Tail(Contents) \in Seq(Cqe)
      /\ Len(Tail(Contents)) = n - 1
      /\ \A i \in 1 .. n - 1 : Tail(Contents)[i] = Contents[i + 1]
  BY <1>6, <1>8, HeadTailProperties
<1>10. \A i \in 1 .. n - 1 : i + 1 \in 1 .. n
  BY <1>3
<1>11. \A i \in 1 .. n - 1 : Contents'[i] = Tail(Contents)[i]
  BY <1>5, <1>7, <1>9, <1>10
<1>12. Contents' = Tail(Contents)
  BY <1>6, <1>9, <1>11, SeqEqual
<1> QED
  BY <1>2, <1>8, <1>12

\* The empty ring shows an empty queue, and only the empty ring.
LEMMA EmptyContents ==
    ASSUME TypeOK, num_cqe # 0
    PROVE  (prod = cons) <=> (Contents = <<>>)
<1>1. (prod = cons) <=> (cq_num_occupied = 0)
  BY CqAssumption DEF TypeOK, cq_num_occupied
<1>2. Contents \in Seq(Cqe) /\ Len(Contents) = cq_num_occupied
  BY ContentsSeq DEF ContentsTyped
<1> QED
  BY <1>1, <1>2

\* A full ring shows a queue at its capacity.
LEMMA FullContents ==
    ASSUME TypeOK, num_cqe # 0, next_index(prod, num_cqe) = cons
    PROVE  Len(Contents) = num_cqe - 1
<1>1. cq_num_occupied = num_cqe - 1
  BY CqAssumption DEF TypeOK, cq_num_occupied, next_index
<1> QED
  BY <1>1, ContentsSeq DEF ContentsTyped

\* cq.c implements the bounded queue its users rely on: entries come out once
\* each, in the order they went in, and a full ring refuses without harm.
THEOREM RingImplementsFifo == Spec => RingIsFifo
<1>1. Init => Fifo!Init
  BY DEF Init, Fifo!Init, Contents, cq_num_occupied
<1>2. TypeOK /\ TypeOK' /\ [Next]_vars => [Fifo!Next]_(Fifo!fifoVars)
  <2> SUFFICES ASSUME TypeOK, TypeOK', [Next]_vars
               PROVE  [Fifo!Next]_(Fifo!fifoVars)
    OBVIOUS
  <2>1. ASSUME NEW num \in 1 .. MaxCqe, cq_create(num) PROVE Fifo!Open
    <3>1. num_cqe = 0 /\ num_cqe' = num /\ num # 0 /\ num - 1 \in Nat /\ ret' = OK
          /\ arg' = arg
      BY <2>1, CqAssumption DEF cq_create
    <3>2. cq_num_occupied' = 0
      BY <2>1, <3>1 DEF cq_create, cq_num_occupied
    <3>3. Contents' = <<>>
      BY <3>2 DEF Contents
    <3> QED
      BY <3>1, <3>3 DEF Fifo!Open
  <2>2. CASE cq_destroy
    <3>1. num_cqe # 0 /\ num_cqe' = 0 /\ ret' = OK /\ arg' = arg
      BY <2>2 DEF cq_destroy
    <3>2. Contents' = <<>>
      BY <3>1, ContentsSeqNext DEF ContentsTyped
    <3> QED
      BY <3>1, <3>2 DEF Fifo!Close, Fifo!Next
  <2>3. ASSUME NEW e \in Cqe, cq_produce(e) PROVE Fifo!Put(e) \/ Fifo!Refuse(e)
    <3>1. num_cqe # 0 /\ num_cqe' = num_cqe /\ num_cqe - 1 \in Nat /\ arg' = e
      BY <2>3 DEF cq_produce, TypeOK
    <3>2. CASE next_index(prod, num_cqe) = cons
      <4>1. ret' = ENOSPC /\ cqe' = cqe /\ prod' = prod /\ cons' = cons
        BY <2>3, <3>2 DEF cq_produce
      <4>2. Contents' = Contents
        BY <3>1, <4>1 DEF Contents, cq_num_occupied, Slot
      <4> QED
        BY <3>1, <3>2, <4>1, <4>2, FullContents DEF Fifo!Refuse
    <3>3. CASE next_index(prod, num_cqe) # cons
      <4>1. ret' = OK
        BY <2>3, <3>3 DEF cq_produce
      <4> QED
        BY <2>3, <3>1, <3>3, <4>1, ProduceAppends DEF Fifo!Put
    <3> QED
      BY <3>2, <3>3
  <2>4. CASE cq_consume
    <3>1. num_cqe # 0 /\ num_cqe' = num_cqe /\ arg' = arg
      BY <2>4 DEF cq_consume
    <3>2. CASE prod = cons
      <4>1. ret' = ENOENT /\ cqe' = cqe /\ prod' = prod /\ cons' = cons
        BY <2>4, <3>2 DEF cq_consume
      <4>2. Contents' = Contents
        BY <3>1, <4>1 DEF Contents, cq_num_occupied, Slot
      <4> QED
        BY <3>1, <3>2, <4>1, <4>2, EmptyContents DEF Fifo!TakeNothing, Fifo!Next
    <3>3. CASE prod # cons
      BY <2>4, <3>1, <3>3, ConsumeTakesHead DEF Fifo!Take, Fifo!Next
    <3> QED
      BY <3>2, <3>3
  <2>5. CASE UNCHANGED vars
    BY <2>5 DEF vars, Fifo!fifoVars, Contents, cq_num_occupied, Slot
  <2> QED
    BY <2>1, <2>2, <2>3, <2>4, <2>5 DEF Next, Fifo!Next
<1> QED
  BY <1>1, <1>2, TypeCorrect, PTL DEF Spec, RingIsFifo, Fifo!Spec
================================================================================
