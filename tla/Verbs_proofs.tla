------------------------------ MODULE Verbs_proofs -----------------------------
(***************************************************************************)
(* What holds of the verbs for every number of RNICs, queue pairs,         *)
(* domains, regions, queues, descriptors and receives.                     *)
(*                                                                         *)
(* First the shape of the records; then the sockets of the queue pairs,    *)
(* where ownership and its converse have to be proved together; then the   *)
(* receives, whose identifiers have to be distinct over the queues and the *)
(* sockets at once; then the domains.                                      *)
(***************************************************************************)
EXTENDS Verbs, SequenceTheorems, FiniteSetTheorems, TLAPS

MaybeCq == Cq \cup {<<>>}
WrT == [rnic : Rnic, qp : Qp, id : 1 .. MaxWr, ok : BOOLEAN]
QpT == [available : BOOLEAN, connected : BOOLEAN, fd : -1 .. MaxFd, scq : MaybeCq, rcq : MaybeCq]
SockT == [open : BOOLEAN, reg : BOOLEAN, scq : MaybeCq, rcq : MaybeCq, posted : Seq(WrT), reads : Int]

\* The records of the queue pairs, the sockets and the queued receives.
Typed ==
    /\ rnic \in [Rnic -> BOOLEAN]
    /\ qp_index \in [Rnic -> [Qp -> QpT]]
    /\ sock \in [Fd -> SockT]
    /\ recv_q \in [Rnic -> Seq(WrT)]

--------------------------------------------------------------------------------
(* Operators *)

\* First is an element: a set of descriptors or positions has a smallest one.
LEMMA FirstIn ==
    ASSUME NEW S \in SUBSET Nat, S # {}
    PROVE  First(S) \in S
<1>1. \E x \in S : \A y \in S : ~(<<y, x>> \in OpToRel(<, Nat))
    BY NatLessThanWellFounded, WFMin
<1>2. PICK x \in S : \A y \in S : ~(<<y, x>> \in OpToRel(<, Nat))
    BY <1>1
<1>3. \A y \in S : ~(y < x)
    BY <1>2 DEF OpToRel
<1>4. \A y \in S : x <= y
    BY <1>3
<1> QED BY <1>4 DEF First

\* A new connection takes a descriptor that is not open.
LEMMA FreeFdIn ==
    ASSUME NEW S \in SUBSET FreeFd, S # {}
    PROVE  First(S) \in S /\ First(S) \in Fd /\ First(S) # NoFd /\ ~sock[First(S)].open
<1>1. S \subseteq Nat
    BY VerbsAssumption DEF FreeFd, Fd
<1>2. First(S) \in S
    BY <1>1, FirstIn
<1>3. First(S) \in Fd /\ ~sock[First(S)].open
    BY <1>2 DEF FreeFd
<1>4. \A f \in Fd : f # NoFd
    BY VerbsAssumption DEF Fd, NoFd
<1> QED BY <1>2, <1>3, <1>4

\* One queue pair changes.
LEMMA QpUpdate ==
    ASSUME qp_index \in [Rnic -> [Qp -> QpT]], NEW r \in Rnic, NEW q \in Qp, NEW x \in QpT,
           qp_index' = [qp_index EXCEPT ![r][q] = x]
    PROVE  /\ qp_index' \in [Rnic -> [Qp -> QpT]]
           /\ qp_index'[r][q] = x
           /\ \A s \in Rnic, p \in Qp : <<s, p>> # <<r, q>> => qp_index'[s][p] = qp_index[s][p]
<1>1. qp_index' \in [Rnic -> [Qp -> QpT]] /\ qp_index'[r][q] = x
    OBVIOUS
<1>2. ASSUME NEW s \in Rnic, NEW p \in Qp, s # r \/ p # q
      PROVE  qp_index'[s][p] = qp_index[s][p]
    BY <1>2
<1> QED BY <1>1, <1>2

\* rdmap_poll unlinks a posted receive or answers a read, at one socket.
LEMMA Arrived ==
    ASSUME Typed, NEW a \in Arrivals
    PROVE  \E f \in Fd : \E x \in SockT :
             /\ a.sock = [sock EXCEPT ![f] = x]
             /\ x.open = sock[f].open /\ x.reg = sock[f].reg
             /\ \/ x.posted = sock[f].posted
                \/ sock[f].posted # <<>> /\ x.posted = Tail(sock[f].posted)
<1>1. \A f \in Fd : sock[f] \in SockT /\ sock[f].posted \in Seq(WrT)
    BY DEF Typed, SockT
<1>2. ASSUME NEW f \in Fd, sock[f].posted # <<>>, a.sock = [sock EXCEPT ![f].posted = Tail(@)]
      PROVE  \E x \in SockT :
             /\ a.sock = [sock EXCEPT ![f] = x]
             /\ x.open = sock[f].open /\ x.reg = sock[f].reg
             /\ x.posted = Tail(sock[f].posted)
  <2>1. Tail(sock[f].posted) \in Seq(WrT)
      BY <1>1, <1>2, HeadTailProperties
  <2>2. PICK t \in Seq(WrT) : t = Tail(sock[f].posted)
      BY <2>1
  <2> DEFINE x == [sock[f] EXCEPT !.posted = t]
  <2>3. x \in SockT /\ x.open = sock[f].open /\ x.reg = sock[f].reg /\ x.posted = t
      BY <1>1 DEF SockT
  <2>4. a.sock = [sock EXCEPT ![f] = x]
      BY <1>2, <2>2
  <2> QED BY <2>2, <2>3, <2>4
<1>3. ASSUME NEW f \in Fd, a.sock = [sock EXCEPT ![f].reads = @ - 1]
      PROVE  \E x \in SockT :
             /\ a.sock = [sock EXCEPT ![f] = x]
             /\ x.open = sock[f].open /\ x.reg = sock[f].reg
             /\ x.posted = sock[f].posted
  <2> DEFINE x == [sock[f] EXCEPT !.reads = @ - 1]
  <2>1. sock[f].reads \in Int
      BY <1>1 DEF SockT
  <2>2. x \in SockT /\ x.open = sock[f].open /\ x.reg = sock[f].reg /\ x.posted = sock[f].posted
      BY <1>1, <2>1 DEF SockT
  <2>3. a.sock = [sock EXCEPT ![f] = x]
      BY <1>3
  <2> QED BY <2>2, <2>3
<1>4. ASSUME NEW f \in {x \in Fd : Known(x) /\ sock[x].posted # <<>>},
             a = [sock |-> [sock EXCEPT ![f].posted = Tail(@)], cq |-> Produced(sock[f].rcq, "recv")]
      PROVE  f \in Fd /\ sock[f].posted # <<>> /\ a.sock = [sock EXCEPT ![f].posted = Tail(@)]
    BY <1>4
<1>5. ASSUME NEW f \in {x \in Fd : Known(x) /\ sock[x].reads > 0},
             a = [sock |-> [sock EXCEPT ![f].reads = @ - 1], cq |-> Produced(sock[f].scq, "read")]
      PROVE  f \in Fd /\ a.sock = [sock EXCEPT ![f].reads = @ - 1]
    BY <1>5
<1>6. \/ \E f \in Fd : sock[f].posted # <<>> /\ a.sock = [sock EXCEPT ![f].posted = Tail(@)]
      \/ \E f \in Fd : a.sock = [sock EXCEPT ![f].reads = @ - 1]
    BY <1>4, <1>5, Zenon DEF Arrivals
<1>7. CASE \E f \in Fd : sock[f].posted # <<>> /\ a.sock = [sock EXCEPT ![f].posted = Tail(@)]
  <2>1. PICK f \in Fd : sock[f].posted # <<>> /\ a.sock = [sock EXCEPT ![f].posted = Tail(@)]
      BY <1>7
  <2>2. PICK x \in SockT :
             /\ a.sock = [sock EXCEPT ![f] = x]
             /\ x.open = sock[f].open /\ x.reg = sock[f].reg
             /\ x.posted = Tail(sock[f].posted)
      BY <1>2, <2>1, Zenon
  <2> QED BY <2>1, <2>2, Zenon
<1>8. CASE \E f \in Fd : a.sock = [sock EXCEPT ![f].reads = @ - 1]
  <2>1. PICK f \in Fd : a.sock = [sock EXCEPT ![f].reads = @ - 1]
      BY <1>8
  <2>2. PICK x \in SockT :
             /\ a.sock = [sock EXCEPT ![f] = x]
             /\ x.open = sock[f].open /\ x.reg = sock[f].reg
             /\ x.posted = sock[f].posted
      BY <1>3, <2>1, Zenon
  <2> QED BY <2>2, Zenon
<1> QED BY <1>6, <1>7, <1>8
--------------------------------------------------------------------------------
(* What a step does to the queue pairs, the sockets and the receives *)

SameConnections == UNCHANGED <<rnic, qp_index, sock, recv_q>> /\ misuse \subseteq misuse'

\* At one socket a receive is used up, or only its reads change.
SocketStep ==
    /\ \E f \in Fd : \E x \in SockT :
         /\ sock' = [sock EXCEPT ![f] = x]
         /\ x.open = sock[f].open /\ x.reg = sock[f].reg
         /\ \/ x.posted = sock[f].posted
            \/ sock[f].posted # <<>> /\ x.posted = Tail(sock[f].posted)
    /\ UNCHANGED <<rnic, qp_index, recv_q, misuse>>

\* A queue pair is created or destroyed.
QpLifeStep(r) ==
    /\ \E q \in Qp : \E x \in QpT :
         /\ qp_index' = [qp_index EXCEPT ![r][q] = x]
         /\ qp_index[r][q].available \/ ~qp_index[r][q].connected
         /\ ~x.connected
    /\ UNCHANGED <<rnic, sock, recv_q, misuse>>

\* One is connected, with a descriptor that was not open.
ConnectStep(r, q) ==
    /\ Connectable(r, q)
    /\ \E f \in Fd, busy \in SUBSET Fd : ~sock[f].open /\ f \notin busy /\ Connect(r, q, f, busy)
    /\ UNCHANGED rnic

ConnectionStep(r) ==
    \/ iwarp_rnic_open(r) \/ iwarp_rnic_close(r) \/ QpLifeStep(r)
    \/ \E q \in Qp :
         \/ ConnectStep(r, q) \/ active_connect_refused(r, q) \/ iwarp_qp_disconnect(r, q)
         \/ \E id \in 1 .. MaxWr \ Outstanding :
              \/ post_rq_connected(r, q, id)
              \/ \E ok \in BOOLEAN : post_rq_queued(r, q, id, ok)

\* Polling is a step at a socket, or leaves all of them alone.
LEMMA PollIsSocketStep ==
    ASSUME Typed, NEW c \in Cq, v_poll_cq(c), UNCHANGED <<rnic, qp_index, recv_q, misuse>>
    PROVE  SocketStep \/ SameConnections
<1>1. PICK a \in Arrivals \cup {[sock |-> sock, cq |-> cq]} : sock' = a.sock
    BY DEF v_poll_cq
<1>2. CASE a \in Arrivals
    BY <1>1, <1>2, Arrived, Zenon DEF SocketStep
<1>3. CASE a = [sock |-> sock, cq |-> cq]
    BY <1>1, <1>3 DEF SameConnections
<1> QED BY <1>1, <1>2, <1>3

\* A read is posted at one socket.
LEMMA ReadIsSocketStep ==
    ASSUME Typed, NEW r \in Rnic, NEW q \in Qp, NEW signaled, post_sq_read(r, q, signaled)
    PROVE  SocketStep
<1>1. PICK f \in Fd : sock' = [sock EXCEPT ![f] = v_rdmap_rdma_read(@)]
    BY DEF post_sq_read, Known
<1> DEFINE x == [sock[f] EXCEPT !.reads = @ + 1]
<1>2. sock[f] \in SockT /\ sock[f].reads \in Int
    BY DEF Typed, SockT
<1>3. x \in SockT /\ x.open = sock[f].open /\ x.reg = sock[f].reg /\ x.posted = sock[f].posted
    BY <1>2 DEF SockT
<1>4. sock' = [sock EXCEPT ![f] = x]
    BY <1>1 DEF v_rdmap_rdma_read
<1>5. UNCHANGED <<rnic, qp_index, recv_q, misuse>>
    BY DEF post_sq_read
<1> HIDE DEF x
<1> QED BY <1>3, <1>4, <1>5, Zenon DEF SocketStep

\* Creating takes the first queue pair that is available.
LEMMA CreateIsLifeStep ==
    ASSUME Typed, NEW r \in Rnic, NEW p \in Pd, NEW scq \in Cq, NEW rcq \in Cq,
           iwarp_qp_create(r, p, scq, rcq)
    PROVE  QpLifeStep(r)
<1>1. Available(qp_index[r]) \in SUBSET Nat /\ Available(qp_index[r]) \subseteq Qp
    BY VerbsAssumption DEF Typed, Available, Qp
<1>2. First(Available(qp_index[r])) \in Available(qp_index[r])
    BY <1>1, FirstIn DEF iwarp_qp_create
<1>3. PICK q \in Qp : q = First(Available(qp_index[r])) /\ qp_index[r][q].available
    BY <1>1, <1>2 DEF Available
<1>4. qp_index[r][q] \in QpT
    BY DEF Typed
<1> DEFINE x == [qp_index[r][q] EXCEPT !.available = FALSE, !.connected = FALSE, !.scq = scq, !.rcq = rcq]
<1>5. x \in QpT /\ ~x.connected
    BY <1>4 DEF QpT, MaybeCq
<1>6. qp_index' = [qp_index EXCEPT ![r][q] = x]
    BY <1>3 DEF iwarp_qp_create
<1>7. UNCHANGED <<rnic, sock, recv_q, misuse>>
    BY DEF iwarp_qp_create
<1> HIDE DEF x
<1> QED BY <1>3, <1>5, <1>6, <1>7, Zenon DEF QpLifeStep

\* Destroying takes one that is not connected.
LEMMA DestroyIsLifeStep ==
    ASSUME Typed, NEW r \in Rnic, NEW q \in Qp, iwarp_qp_destroy(r, q)
    PROVE  QpLifeStep(r)
<1>1. qp_index[r][q] \in QpT /\ ~qp_index[r][q].connected
    BY DEF Typed, iwarp_qp_destroy, Destroyable
<1> DEFINE x == [qp_index[r][q] EXCEPT !.available = TRUE, !.scq = <<>>, !.rcq = <<>>]
<1>2. x \in QpT /\ ~x.connected
    BY <1>1 DEF QpT, MaybeCq
<1>3. qp_index' = [qp_index EXCEPT ![r][q] = x]
    BY DEF iwarp_qp_destroy, Destroyed
<1>4. UNCHANGED <<rnic, sock, recv_q, misuse>>
    BY DEF iwarp_qp_destroy
<1> HIDE DEF x
<1> QED BY <1>1, <1>2, <1>3, <1>4, Zenon DEF QpLifeStep

\* Both ways to connect.
LEMMA ActiveIsConnectStep ==
    ASSUME NEW r \in Rnic, NEW q \in Qp, iwarp_qp_active_connect(r, q)
    PROVE  ConnectStep(r, q)
<1>1. First(FreeFd) \in Fd /\ ~sock[First(FreeFd)].open
    BY FreeFdIn DEF iwarp_qp_active_connect
<1>2. Connect(r, q, First(FreeFd), {}) /\ Connectable(r, q) /\ UNCHANGED rnic
    BY DEF iwarp_qp_active_connect
<1>3. PICK f \in Fd : f = First(FreeFd)
    BY <1>1
<1>4. ~sock[f].open /\ f \notin {} /\ {} \in SUBSET Fd /\ Connect(r, q, f, {})
    BY <1>1, <1>2, <1>3, Zenon
<1> QED BY <1>2, <1>4, Zenon DEF ConnectStep

\* iwarp_qp_passive_connect opens two descriptors and keeps one, the connection.
LEMMA PassiveIsConnectStep ==
    ASSUME NEW r \in Rnic, NEW q \in Qp, iwarp_qp_passive_connect(r, q)
    PROVE  ConnectStep(r, q)
<1>1. FreeFd # {} /\ FreeFd \ {First(FreeFd)} # {}
  <2>1. IsFiniteSet(Fd) /\ FreeFd \subseteq Fd
      BY VerbsAssumption, FS_Interval DEF Fd, FreeFd
  <2>2. \A x : FreeFd \ {x} = {} => FreeFd = {} \/ FreeFd = {x}
      OBVIOUS
  <2>3. Cardinality({}) = 0 /\ \A x : Cardinality({x}) = 1
      BY FS_EmptySet, FS_Singleton
  <2>4. Cardinality(FreeFd) > 1
      BY DEF iwarp_qp_passive_connect
  <2>5. FreeFd # {} /\ \A x : FreeFd # {x}
      BY <2>3, <2>4
  <2> QED BY <2>2, <2>5
<1>2. First(FreeFd) \in FreeFd /\ First(FreeFd) \in Fd
    BY <1>1, FreeFdIn
<1>3. PICK l \in Fd : l = First(FreeFd)
    BY <1>2
<1>4. First(FreeFd \ {l}) \in FreeFd \ {l} /\ First(FreeFd \ {l}) \in Fd /\ ~sock[First(FreeFd \ {l})].open
    BY <1>1, <1>3, FreeFdIn
<1>5. PICK f \in Fd : f = First(FreeFd \ {l})
    BY <1>4
<1>6. Connect(r, q, First(FreeFd \ {l}), {l})
    BY <1>3, Zenon DEF iwarp_qp_passive_connect
<1>7. ~sock[f].open /\ f \notin {l} /\ {l} \in SUBSET Fd /\ Connect(r, q, f, {l})
    BY <1>4, <1>5, <1>6, Zenon
<1>8. Connectable(r, q) /\ UNCHANGED rnic
    BY DEF iwarp_qp_passive_connect
<1> QED BY <1>7, <1>8, Zenon DEF ConnectStep

\* What is noted as misuse stays noted.
LEMMA NoteGrows ==
    ASSUME NEW S, Note(S)
    PROVE  misuse \subseteq misuse' /\ S \subseteq misuse'
BY DEF Note

\* The rest of an RNIC's steps.
LEMMA OtherStepsAreSame ==
    ASSUME NEW r \in Rnic
    PROVE  /\ iwarp_pd_allocate(r) => SameConnections
           /\ \A p \in Pd : iwarp_pd_deallocate(r, p) => SameConnections
           /\ \A p \in Pd, m \in Region :
                iwarp_nsmr_register(r, p, m) \/ iwarp_deregister_mem(r, p, m) => SameConnections
           /\ \A m \in Region : iwarp_deallocate_stag(r, m) => SameConnections
           /\ \A q \in Qp, s \in BOOLEAN : post_sq_send(r, q, s) => SameConnections
<1>1. iwarp_pd_allocate(r) => SameConnections
    BY DEF iwarp_pd_allocate, SameConnections
<1>2. ASSUME NEW p \in Pd PROVE iwarp_pd_deallocate(r, p) => SameConnections
    BY DEF iwarp_pd_deallocate, SameConnections
<1>3. ASSUME NEW p \in Pd, NEW m \in Region
      PROVE  iwarp_nsmr_register(r, p, m) => SameConnections
    BY NoteGrows DEF iwarp_nsmr_register, SameConnections
<1>4. ASSUME NEW p \in Pd, NEW m \in Region
      PROVE  iwarp_deregister_mem(r, p, m) => SameConnections
    BY NoteGrows DEF iwarp_deregister_mem, SameConnections
<1>5. ASSUME NEW m \in Region PROVE iwarp_deallocate_stag(r, m) => SameConnections
    BY DEF iwarp_deallocate_stag, SameConnections
<1>6. ASSUME NEW q \in Qp, NEW s \in BOOLEAN PROVE post_sq_send(r, q, s) => SameConnections
    BY DEF post_sq_send, SameConnections
<1> QED BY <1>1, <1>2, <1>3, <1>4, <1>5, <1>6

\* Every step is one of these.
LEMMA StepKinds ==
    ASSUME Typed, [Next]_vars
    PROVE  SameConnections \/ SocketStep \/ \E r \in Rnic : ConnectionStep(r)
<1>1. CASE UNCHANGED vars
    BY <1>1 DEF vars, SameConnections
<1>2. CASE \E c \in Cq : iwarp_cq_create(c) \/ iwarp_cq_destroy(c)
    BY <1>2 DEF iwarp_cq_create, iwarp_cq_destroy, SameConnections
<1>3. ASSUME NEW r \in Rnic, RnicStep(r)
      PROVE  SameConnections \/ SocketStep \/ ConnectionStep(r)
  <2>1. CASE iwarp_rnic_open(r) \/ iwarp_rnic_close(r)
      BY <2>1 DEF ConnectionStep
  <2>2. CASE iwarp_rnic_advance(r)
    <3>1. PICK a \in Arrivals : sock' = a.sock
        BY <2>2 DEF iwarp_rnic_advance, v_rnic_advance
    <3>2. UNCHANGED <<rnic, qp_index, recv_q, misuse>>
        BY <2>2 DEF iwarp_rnic_advance
    <3> QED BY <3>1, <3>2, Arrived, Zenon DEF SocketStep
  <2>3. CASE \E p \in Pd : \E scq, rcq \in Cq : iwarp_qp_create(r, p, scq, rcq)
      BY <2>3, CreateIsLifeStep DEF ConnectionStep
  <2>4. CASE \E c \in Cq : iwarp_cq_poll(r, c)
      BY <2>4, PollIsSocketStep DEF iwarp_cq_poll
  <2>5. ASSUME NEW q \in Qp, QpStep(r, q)
        PROVE  SameConnections \/ SocketStep \/ ConnectionStep(r)
    <3>1. CASE iwarp_qp_destroy(r, q)
        BY <3>1, DestroyIsLifeStep DEF ConnectionStep
    <3>2. CASE iwarp_qp_active_connect(r, q) \/ iwarp_qp_passive_connect(r, q)
        BY <3>2, ActiveIsConnectStep, PassiveIsConnectStep DEF ConnectionStep
    <3>3. CASE active_connect_refused(r, q) \/ iwarp_qp_disconnect(r, q)
        BY <3>3 DEF ConnectionStep
    <3>4. CASE \E id \in 1 .. MaxWr \ Outstanding, ok \in BOOLEAN : iwarp_qp_post_rq(r, q, id, ok)
        BY <3>4 DEF ConnectionStep, iwarp_qp_post_rq
    <3>5. CASE \E signaled \in BOOLEAN : iwarp_qp_post_sq(r, q, signaled)
        BY <3>5, ReadIsSocketStep, OtherStepsAreSame DEF iwarp_qp_post_sq
    <3> QED BY <2>5, <3>1, <3>2, <3>3, <3>4, <3>5, Zenon DEF QpStep
  <2>6. CASE \/ iwarp_pd_allocate(r)
             \/ \E p \in Pd : iwarp_pd_deallocate(r, p)
             \/ \E p \in Pd, m \in Region : iwarp_nsmr_register(r, p, m) \/ iwarp_deregister_mem(r, p, m)
             \/ \E m \in Region : iwarp_deallocate_stag(r, m)
      BY <2>6, OtherStepsAreSame, Zenon
  <2> QED BY <1>3, <2>1, <2>2, <2>3, <2>4, <2>5, <2>6, Zenon DEF RnicStep
<1> QED BY <1>1, <1>2, <1>3, Zenon DEF Next

\* No step takes a note back.
LEMMA StepNotes ==
    ASSUME Typed, [Next]_vars
    PROVE  misuse \subseteq misuse'
<1>1. CASE SameConnections \/ SocketStep
    BY <1>1 DEF SameConnections, SocketStep
<1>2. ASSUME NEW r \in Rnic, ConnectionStep(r)
      PROVE  misuse \subseteq misuse'
  <2>1. CASE iwarp_rnic_open(r) \/ iwarp_rnic_close(r) \/ QpLifeStep(r)
      BY <2>1, NoteGrows DEF iwarp_rnic_open, Opens, iwarp_rnic_close, QpLifeStep
  <2>2. ASSUME NEW q \in Qp, ConnectStep(r, q) PROVE misuse \subseteq misuse'
      BY <2>2, NoteGrows DEF ConnectStep, Connect
  <2>3. ASSUME NEW q \in Qp, active_connect_refused(r, q) \/ iwarp_qp_disconnect(r, q)
        PROVE  misuse \subseteq misuse'
      BY <2>3, NoteGrows DEF active_connect_refused, iwarp_qp_disconnect
  <2>4. ASSUME NEW q \in Qp, NEW id, post_rq_connected(r, q, id)
        PROVE  misuse \subseteq misuse'
      BY <2>4 DEF post_rq_connected
  <2>5. ASSUME NEW q \in Qp, NEW id, NEW ok, post_rq_queued(r, q, id, ok)
        PROVE  misuse \subseteq misuse'
      BY <2>5, NoteGrows DEF post_rq_queued
  <2> QED BY <1>2, <2>1, <2>2, <2>3, <2>4, <2>5, Zenon DEF ConnectionStep
<1> QED BY <1>1, <1>2, StepKinds

--------------------------------------------------------------------------------
(* The records keep their shape *)

\* What a descriptor is when the process does not use it.
LEMMA NoSockT ==
    NoSock \in SockT /\ ~NoSock.open /\ ~NoSock.reg /\ NoSock.posted = <<>>
<1>1. PICK e : e = <<>> /\ e \in Seq(WrT) /\ e \in MaybeCq
    BY EmptySeq DEF MaybeCq
<1>2. \A o, g \in BOOLEAN :
        LET x == [open |-> o, reg |-> g, scq |-> e, rcq |-> e, posted |-> e, reads |-> 0]
        IN  x \in SockT /\ x.open = o /\ x.reg = g /\ x.posted = e
    BY <1>1 DEF SockT
<1>3. NoSock = [open |-> FALSE, reg |-> FALSE, scq |-> e, rcq |-> e, posted |-> e, reads |-> 0]
    BY <1>1, Zenon DEF NoSock
<1>4. NoSock \in SockT /\ NoSock.open = FALSE /\ NoSock.reg = FALSE /\ NoSock.posted = e
    BY <1>2, <1>3, Zenon
<1> QED BY <1>1, <1>4, Zenon

\* A socket table that is made or freed knows no socket.
LEMMA UnregisteredT ==
    ASSUME Typed
    PROVE  /\ Unregistered \in [Fd -> SockT]
           /\ \A f \in Fd : ~Unregistered[f].reg /\ Unregistered[f].posted = <<>>
<1>1. PICK none \in SockT : none = NoSock /\ ~none.reg /\ none.posted = <<>>
    BY NoSockT, Zenon
<1>2. \A f \in Fd : sock[f].open \in BOOLEAN
    BY DEF Typed, SockT
<1>3. \A o \in BOOLEAN : LET x == [none EXCEPT !.open = o]
                         IN  x \in SockT /\ x.reg = none.reg /\ x.posted = none.posted
    BY DEF SockT
<1>4. Unregistered = [f \in Fd |-> [none EXCEPT !.open = sock[f].open]]
    BY <1>1, Zenon DEF Unregistered
<1> QED BY <1>1, <1>2, <1>3, <1>4

\* At most the whole queue is flushed; all of it when every request is good
\* and the completion queue has room.
LEMMA DispatchedIn ==
    ASSUME NEW q \in Seq(WrT), NEW c
    PROVE  /\ Dispatched(q, c) \in 0 .. Len(q)
           /\ q = <<>> => Dispatched(q, c) = Len(q)
           /\ RecvRoom(c) /\ (\A i \in 1 .. Len(q) : q[i].ok) => Dispatched(q, c) = Len(q)
<1> DEFINE S == {i \in 1 .. Len(q) : \A j \in 1 .. i : q[j].ok}
<1>1. Len(q) \in Nat
    OBVIOUS
<1>2. IsFiniteSet(1 .. Len(q)) /\ Cardinality(1 .. Len(q)) = Len(q)
    BY <1>1, FS_Interval
<1>3. S \subseteq 1 .. Len(q)
    OBVIOUS
<1>4. IsFiniteSet(S) /\ Cardinality(S) <= Len(q) /\ Cardinality(S) \in Nat
    BY <1>2, <1>3, FS_Subset, FS_CardinalityType
<1>5. Dispatched(q, c) = IF RecvRoom(c) THEN Cardinality(S) ELSE 0
    BY DEF Dispatched
<1>6. Dispatched(q, c) \in 0 .. Len(q)
    BY <1>1, <1>4, <1>5
<1>7. CASE q = <<>>
    BY <1>6, <1>7
<1>8. ASSUME RecvRoom(c), \A i \in 1 .. Len(q) : q[i].ok
      PROVE  Dispatched(q, c) = Len(q)
  <2>1. S = 1 .. Len(q)
      BY <1>1, <1>8
  <2> QED BY <1>2, <1>5, <1>8, <2>1
<1> QED BY <1>6, <1>7, <1>8

\* A connection: the socket is the queue pair's and has what was flushed.
LEMMA Connected ==
    ASSUME Typed, NEW r \in Rnic, NEW q \in Qp, NEW f \in Fd, NEW busy \in SUBSET Fd, f \notin busy,
           Connect(r, q, f, busy)
    PROVE  /\ qp_index' \in [Rnic -> [Qp -> QpT]]
           /\ qp_index'[r][q].connected /\ qp_index'[r][q].fd = f
           /\ qp_index'[r][q].available = qp_index[r][q].available
           /\ \A s \in Rnic, p \in Qp : <<s, p>> # <<r, q>> => qp_index'[s][p] = qp_index[s][p]
           /\ sock' \in [Fd -> SockT]
           /\ sock'[f].open /\ sock'[f].reg
           /\ sock'[f].posted = SubSeq(recv_q[r], 1, Dispatched(recv_q[r], qp_index[r][q].rcq))
           /\ \A g \in Fd : g # f =>
                /\ sock'[g].reg = sock[g].reg /\ sock'[g].posted = sock[g].posted
                /\ sock[g].open => sock'[g].open
           /\ recv_q' = [recv_q EXCEPT ![r] = AfterDispatch(@, Dispatched(recv_q[r], qp_index[r][q].rcq))]
           /\ recv_q' \in [Rnic -> Seq(WrT)]
<1>1. PICK own \in QpT : own = qp_index[r][q]
    BY DEF Typed
<1>2. PICK n : n = Dispatched(recv_q[r], own.rcq)
    OBVIOUS
<1>3. recv_q[r] \in Seq(WrT) /\ n \in 0 .. Len(recv_q[r]) /\ Len(recv_q[r]) \in Nat
    BY <1>2, DispatchedIn DEF Typed
<1>4. PICK t \in Seq(WrT) : t = SubSeq(recv_q[r], 1, n)
  <2>1. n \in Int /\ 1 \in Int
      BY <1>3
  <2>2. \A i \in 1 .. n : recv_q[r][i] \in WrT
      BY <1>3, ElementOfSeq
  <2> QED BY <1>3, <2>1, <2>2, SubSeqProperties
<1>4a. PICK none \in SockT : none = NoSock
    BY NoSockT, Zenon
<1> DEFINE x == [own EXCEPT !.connected = TRUE, !.fd = f]
           z == [none EXCEPT !.open = TRUE, !.reg = TRUE, !.scq = own.scq, !.rcq = own.rcq, !.posted = t]
<1>5. f \in -1 .. MaxFd
    BY VerbsAssumption DEF Fd
<1>6. x \in QpT /\ x.connected /\ x.fd = f /\ x.available = own.available
    BY <1>5 DEF QpT
<1>7. qp_index' = [qp_index EXCEPT ![r][q] = x]
  <2>1. qp_index' = [qp_index EXCEPT ![r][q].connected = TRUE, ![r][q].fd = f]
      BY DEF Connect
  <2>2. qp_index \in [Rnic -> [Qp -> QpT]]
      BY DEF Typed
  <2>3. ASSUME NEW s \in Rnic, NEW p \in Qp
        PROVE  qp_index'[s][p] = IF s = r /\ p = q THEN x ELSE qp_index[s][p]
      BY <1>1, <2>1, <2>2 DEF QpT
  <2> QED BY <1>1, <2>1, <2>2 DEF QpT
<1>8. z \in SockT /\ z.open /\ z.reg /\ z.posted = t
    BY DEF SockT, QpT
<1>9. sock' = [g \in Fd |-> IF g = f THEN z ELSE IF g \in busy THEN [sock[g] EXCEPT !.open = TRUE] ELSE sock[g]]
  <2>1. sock' = [g \in Fd |->
             IF g = f
             THEN [v_rdmap_register_connection(own) EXCEPT !.posted = SubSeq(recv_q[r], 1, n)]
             ELSE IF g \in busy THEN [sock[g] EXCEPT !.open = TRUE] ELSE sock[g]]
      BY <1>1, <1>2, Zenon DEF Connect
  <2>2. [v_rdmap_register_connection(own) EXCEPT !.posted = SubSeq(recv_q[r], 1, n)] = z
      BY <1>4, <1>4a, Zenon DEF v_rdmap_register_connection
  <2> HIDE DEF z
  <2> QED BY <2>1, <2>2, Zenon
<1> HIDE DEF x, z
<1>10. /\ qp_index' \in [Rnic -> [Qp -> QpT]]
       /\ qp_index'[r][q] = x
       /\ \A s \in Rnic, p \in Qp : <<s, p>> # <<r, q>> => qp_index'[s][p] = qp_index[s][p]
    BY <1>6, <1>7, QpUpdate DEF Typed
<1>11. \A g \in Fd : sock[g] \in SockT
    BY DEF Typed
<1>12. \A g \in Fd : LET y == [sock[g] EXCEPT !.open = TRUE]
                     IN  y \in SockT /\ y.open /\ y.reg = sock[g].reg /\ y.posted = sock[g].posted
    BY <1>11 DEF SockT
<1>13. sock' \in [Fd -> SockT] /\ sock'[f] = z
    BY <1>8, <1>9, <1>11, <1>12
<1>14. ASSUME NEW g \in Fd, g # f
       PROVE  /\ sock'[g].reg = sock[g].reg /\ sock'[g].posted = sock[g].posted
              /\ sock[g].open => sock'[g].open
    BY <1>9, <1>12, <1>14
<1>15. recv_q' = [recv_q EXCEPT ![r] = AfterDispatch(@, n)]
    BY <1>1, <1>2, Zenon DEF Connect
<1>16. AfterDispatch(recv_q[r], n) \in Seq(WrT)
    BY <1>3, EmptySeq DEF AfterDispatch
<1>17. recv_q' \in [Rnic -> Seq(WrT)]
    BY <1>15, <1>16 DEF Typed
<1> QED BY <1>1, <1>2, <1>4, <1>6, <1>8, <1>10, <1>13, <1>14, <1>15, <1>17

\* A refused connection: its descriptor is open and remembered.
LEMMA RefusedEffect ==
    ASSUME Typed, NEW r \in Rnic, NEW q \in Qp, active_connect_refused(r, q)
    PROVE  \E f \in Fd :
             /\ ~sock[f].open
             /\ qp_index' \in [Rnic -> [Qp -> QpT]]
             /\ qp_index'[r][q].connected = qp_index[r][q].connected
             /\ qp_index'[r][q].available = qp_index[r][q].available
             /\ \A s \in Rnic, p \in Qp : <<s, p>> # <<r, q>> => qp_index'[s][p] = qp_index[s][p]
             /\ sock' \in [Fd -> SockT]
             /\ \A g \in Fd : /\ sock'[g].reg = sock[g].reg /\ sock'[g].posted = sock[g].posted
                              /\ sock[g].open => sock'[g].open
<1>1. First(FreeFd) \in Fd /\ ~sock[First(FreeFd)].open
    BY FreeFdIn DEF active_connect_refused
<1>2. PICK f \in Fd : f = First(FreeFd) /\ ~sock[f].open
    BY <1>1
<1>3. PICK own \in QpT : own = qp_index[r][q]
    BY DEF Typed
<1> DEFINE x == [own EXCEPT !.fd = f]
           z == [sock[f] EXCEPT !.open = TRUE]
<1>4. x \in QpT /\ x.connected = own.connected /\ x.available = own.available
    BY VerbsAssumption DEF QpT, Fd
<1>5. qp_index' = [qp_index EXCEPT ![r][q] = x]
    BY <1>2, <1>3 DEF active_connect_refused
<1>6. sock[f] \in SockT
    BY DEF Typed
<1>7. z \in SockT /\ z.open /\ z.reg = sock[f].reg /\ z.posted = sock[f].posted
    BY <1>6 DEF SockT
<1>8. sock' = [sock EXCEPT ![f] = z]
    BY <1>2 DEF active_connect_refused
<1> HIDE DEF x, z
<1>9. /\ qp_index' \in [Rnic -> [Qp -> QpT]]
      /\ qp_index'[r][q] = x
      /\ \A s \in Rnic, p \in Qp : <<s, p>> # <<r, q>> => qp_index'[s][p] = qp_index[s][p]
    BY <1>4, <1>5, QpUpdate DEF Typed
<1>10. sock' \in [Fd -> SockT]
    BY <1>7, <1>8 DEF Typed
<1>11. \A g \in Fd : /\ sock'[g].reg = sock[g].reg /\ sock'[g].posted = sock[g].posted
                     /\ sock[g].open => sock'[g].open
    BY <1>7, <1>8 DEF Typed
<1> QED BY <1>2, <1>3, <1>4, <1>9, <1>10, <1>11

\* A disconnect: one descriptor that RDMAP knows is deregistered and closed,
\* the queue pair's own if it was connected before.
LEMMA DisconnectEffect ==
    ASSUME Typed, NEW r \in Rnic, NEW q \in Qp, iwarp_qp_disconnect(r, q)
    PROVE  /\ qp_index' \in [Rnic -> [Qp -> QpT]]
           /\ ~qp_index'[r][q].connected
           /\ \A s \in Rnic, p \in Qp : <<s, p>> # <<r, q>> => qp_index'[s][p] = qp_index[s][p]
           /\ sock' \in [Fd -> SockT]
           /\ \A g \in Fd : sock'[g] = sock[g] \/ sock'[g] = NoSock
           /\ qp_index[r][q].fd # NoFd =>
                /\ \A g \in Fd : g # qp_index[r][q].fd => sock'[g] = sock[g]
                /\ \A g \in Fd : g = qp_index[r][q].fd => ~sock'[g].reg
<1>1. PICK own \in QpT : own = qp_index[r][q]
    BY DEF Typed
<1> DEFINE x == [own EXCEPT !.connected = FALSE]
<1>2. x \in QpT /\ ~x.connected
    BY DEF QpT
<1>3. qp_index' = [qp_index EXCEPT ![r][q] = x]
    BY <1>1 DEF iwarp_qp_disconnect, Disconnected
<1> HIDE DEF x
<1>4. /\ qp_index' \in [Rnic -> [Qp -> QpT]]
      /\ qp_index'[r][q] = x
      /\ \A s \in Rnic, p \in Qp : <<s, p>> # <<r, q>> => qp_index'[s][p] = qp_index[s][p]
    BY <1>2, <1>3, QpUpdate DEF Typed
<1>5. PICK f \in SocketFd(r, q) : sock' = v_rdmap_deregister_sock(f)
    BY DEF iwarp_qp_disconnect
<1>6. sock \in [Fd -> SockT] /\ NoSock \in SockT /\ ~NoSock.reg
    BY NoSockT DEF Typed
<1>7. /\ sock' \in [Fd -> SockT]
      /\ \A g \in Fd : g # f => sock'[g] = sock[g]
      /\ f \in Fd => ~sock'[f].reg
      /\ \A g \in Fd : sock'[g] = sock[g] \/ sock'[g] = NoSock
  <2>1. CASE Known(f)
    <3>1. f \in Fd /\ sock' = [sock EXCEPT ![f] = NoSock]
        BY <1>5, <2>1 DEF v_rdmap_deregister_sock, Known
    <3> QED BY <1>6, <3>1
  <2>2. CASE ~Known(f)
    <3>1. sock' = sock /\ (f \in Fd => ~sock[f].reg)
        BY <1>5, <2>2 DEF v_rdmap_deregister_sock, Known
    <3> QED BY <1>6, <3>1
  <2> QED BY <2>1, <2>2
<1>8. qp_index[r][q].fd # NoFd => f = qp_index[r][q].fd
    BY SMTT(30) DEF SocketFd
<1> QED BY <1>2, <1>4, <1>7, <1>8

\* A receive posted to a connection, and one queued before it.
LEMMA PostedToSocket ==
    ASSUME Typed, NEW r \in Rnic, NEW q \in Qp, NEW id \in 1 .. MaxWr, post_rq_connected(r, q, id)
    PROVE  LET f == qp_index[r][q].fd
               w == Wr(r, q, id, TRUE)
           IN  /\ w \in WrT /\ f \in Fd /\ sock' \in [Fd -> SockT]
               /\ sock'[f].open = sock[f].open /\ sock'[f].reg = sock[f].reg
               /\ sock'[f].posted = Append(sock[f].posted, w)
               /\ \A g \in Fd : g # f => sock'[g] = sock[g]
<1>1. PICK f \in Fd : f = qp_index[r][q].fd /\ sock' = [sock EXCEPT ![f] = v_rdmap_post_recv(@, Wr(r, q, id, TRUE))]
    BY DEF post_rq_connected, Known
<1>2. PICK w \in WrT : w = Wr(r, q, id, TRUE)
    BY DEF Wr, WrT
<1>3. sock[f] \in SockT /\ sock[f].posted \in Seq(WrT)
    BY DEF Typed, SockT
<1>4. PICK t \in Seq(WrT) : t = Append(sock[f].posted, w)
    BY <1>3, AppendProperties
<1> DEFINE z == [sock[f] EXCEPT !.posted = t]
<1>5. z \in SockT /\ z.open = sock[f].open /\ z.reg = sock[f].reg /\ z.posted = t
    BY <1>3 DEF SockT
<1>6. sock' = [sock EXCEPT ![f] = z]
    BY <1>1, <1>2, <1>4 DEF v_rdmap_post_recv
<1> HIDE DEF z
<1>7. sock' \in [Fd -> SockT] /\ sock'[f] = z /\ \A g \in Fd : g # f => sock'[g] = sock[g]
    BY <1>5, <1>6 DEF Typed
<1> QED BY <1>1, <1>2, <1>4, <1>5, <1>7

\* A receive posted before the connection joins the queue of its RNIC.
LEMMA QueuedForLater ==
    ASSUME Typed, NEW r \in Rnic, NEW q \in Qp, NEW id \in 1 .. MaxWr, NEW ok \in BOOLEAN,
           post_rq_queued(r, q, id, ok)
    PROVE  LET w == Wr(r, q, id, ok)
           IN  /\ w \in WrT /\ recv_q' \in [Rnic -> Seq(WrT)]
               /\ recv_q'[r] = Append(recv_q[r], w)
               /\ \A s \in Rnic : s # r => recv_q'[s] = recv_q[s]
<1>1. PICK w \in WrT : w = Wr(r, q, id, ok)
    BY DEF Wr, WrT
<1>2. recv_q[r] \in Seq(WrT)
    BY DEF Typed
<1>3. PICK t \in Seq(WrT) : t = Append(recv_q[r], w)
    BY <1>2, AppendProperties
<1>4. recv_q' = [recv_q EXCEPT ![r] = t]
    BY <1>1, <1>3 DEF post_rq_queued, Queued
<1> QED BY <1>1, <1>3, <1>4 DEF Typed

--------------------------------------------------------------------------------
(* Queue pairs own their sockets *)

Excepted == {"not connected", "again", "second RNIC"}

Conn(r, q) == rnic[r] /\ qp_index[r][q].connected

Idle == \A r \in Rnic, q \in Qp : qp_index[r][q].available => ~qp_index[r][q].connected

RegisteredOpen == \A f \in Fd : sock[f].reg => sock[f].open

OneRnic == "second RNIC" \notin misuse => \A r, s \in Rnic : rnic[r] /\ rnic[s] => r = s

Owned == \A r \in Rnic, q \in Qp : Conn(r, q) => qp_index[r][q].fd \in Fd /\ sock[qp_index[r][q].fd].reg

Apart ==
    \A r, s \in Rnic, q, p \in Qp :
        Conn(r, q) /\ Conn(s, p) /\ qp_index[r][q].fd = qp_index[s][p].fd => r = s /\ q = p

Named ==
    \A f \in Fd : sock[f].reg => \E r \in Rnic, q \in Qp : Conn(r, q) /\ qp_index[r][q].fd = f

\* The sockets of the connected queue pairs are theirs alone, and there are no
\* others: a connect (qp.c) finds a descriptor nobody uses only because every
\* socket RDMAP knows is open, a disconnect leaves no socket behind only
\* because the descriptor it remembers is its own.
ConnInv ==
    /\ Typed
    /\ Idle
    /\ RegisteredOpen
    /\ OneRnic
    /\ misuse \cap Excepted = {} => Owned /\ Apart /\ Named

\* A queue pair that is not used.
LEMMA NoQpT ==
    NoQp \in QpT /\ NoQp.available /\ ~NoQp.connected
<1>1. PICK e : e = <<>> /\ e \in MaybeCq
    BY DEF MaybeCq
<1>2. NoFd \in -1 .. MaxFd
    BY VerbsAssumption DEF NoFd
<1>3. \A o, g \in BOOLEAN :
        LET x == [available |-> o, connected |-> g, fd |-> NoFd, scq |-> e, rcq |-> e]
        IN  x \in QpT /\ x.available = o /\ x.connected = g
    BY <1>1, <1>2 DEF QpT
<1>4. NoQp = [available |-> TRUE, connected |-> FALSE, fd |-> NoFd, scq |-> e, rcq |-> e]
    BY <1>1, Zenon DEF NoQp
<1>5. NoQp \in QpT /\ NoQp.available = TRUE /\ NoQp.connected = FALSE
    BY <1>3, <1>4, Zenon
<1> QED BY <1>5, Zenon

\* At the start nothing is connected.
LEMMA ConnInit == Init => ConnInv
<1> SUFFICES ASSUME Init PROVE ConnInv
    OBVIOUS
<1>1. rnic \in [Rnic -> BOOLEAN] /\ \A r \in Rnic : ~rnic[r]
    BY DEF Init
<1>2. qp_index \in [Rnic -> [Qp -> QpT]] /\ \A r \in Rnic, q \in Qp : qp_index[r][q] = NoQp
    BY NoQpT DEF Init, NoQps
<1>3. sock \in [Fd -> SockT] /\ \A f \in Fd : sock[f] = NoSock
    BY NoSockT DEF Init
<1>4. recv_q \in [Rnic -> Seq(WrT)]
    BY EmptySeq DEF Init
<1>5. Typed
    BY <1>1, <1>2, <1>3, <1>4 DEF Typed
<1>6. Idle
    BY <1>2, NoQpT DEF Idle
<1>7. RegisteredOpen /\ Named
    BY <1>3, NoSockT DEF RegisteredOpen, Named
<1>8. OneRnic /\ Owned /\ Apart
    BY <1>1 DEF OneRnic, Owned, Apart, Conn
<1> QED BY <1>5, <1>6, <1>7, <1>8 DEF ConnInv

\* Opening an RNIC.
LEMMA ConnOpen ==
    ASSUME ConnInv, NEW r \in Rnic, iwarp_rnic_open(r)
    PROVE  ConnInv'
<1> USE DEF ConnInv
<1>1. /\ rnic' = [rnic EXCEPT ![r] = TRUE] /\ qp_index' = [qp_index EXCEPT ![r] = NoQps]
      /\ recv_q' = [recv_q EXCEPT ![r] = <<>>] /\ sock' = Unregistered
      /\ misuse \subseteq misuse' /\ ((\E x \in Rnic : rnic[x]) => "second RNIC" \in misuse')
    BY NoteGrows DEF iwarp_rnic_open, Opens
<1>2. NoQps \in [Qp -> QpT] /\ \A q \in Qp : ~NoQps[q].connected
    BY NoQpT DEF NoQps
<1>3. sock' \in [Fd -> SockT] /\ \A f \in Fd : ~sock'[f].reg
    BY <1>1, UnregisteredT
<1>4. qp_index' \in [Rnic -> [Qp -> QpT]] /\ \A q \in Qp : ~qp_index'[r][q].connected
    BY <1>1, <1>2 DEF Typed
<1>5. \A s \in Rnic : s # r => qp_index'[s] = qp_index[s] /\ rnic'[s] = rnic[s]
    BY <1>1 DEF Typed
<1>6. rnic' \in [Rnic -> BOOLEAN] /\ recv_q' \in [Rnic -> Seq(WrT)]
    BY <1>1, EmptySeq DEF Typed
<1>7. Typed'
    BY <1>3, <1>4, <1>6 DEF Typed
<1>8. Idle'
    BY <1>4, <1>5 DEF Idle
<1>9. RegisteredOpen' /\ Named'
    BY <1>3 DEF RegisteredOpen, Named
<1>10. OneRnic'
    BY <1>1, <1>5 DEF OneRnic
<1>11. ASSUME (misuse \cap Excepted = {})'
       PROVE  Owned' /\ Apart'
  <2>1. \A x \in Rnic : ~rnic[x]
      BY <1>1, <1>11 DEF Excepted
  <2>2. \A s \in Rnic, q \in Qp : ~Conn(s, q)'
      BY <1>4, <1>5, <2>1 DEF Conn
  <2> QED BY <2>2 DEF Owned, Apart
<1> QED BY <1>7, <1>8, <1>9, <1>10, <1>11

\* Closing one.
LEMMA ConnClose ==
    ASSUME ConnInv, NEW r \in Rnic, iwarp_rnic_close(r)
    PROVE  ConnInv'
<1> USE DEF ConnInv
<1>1. /\ rnic' = [rnic EXCEPT ![r] = FALSE] /\ sock' = Unregistered /\ rnic[r]
      /\ UNCHANGED <<qp_index, recv_q, misuse>>
    BY DEF iwarp_rnic_close, v_rnic_close
<1>2. sock' \in [Fd -> SockT] /\ \A f \in Fd : ~sock'[f].reg
    BY <1>1, UnregisteredT
<1>3. rnic' \in [Rnic -> BOOLEAN] /\ ~rnic'[r] /\ \A s \in Rnic : s # r => rnic'[s] = rnic[s]
    BY <1>1 DEF Typed
<1>4. Typed'
    BY <1>1, <1>2, <1>3 DEF Typed
<1>5. Idle'
    BY <1>1 DEF Idle
<1>6. RegisteredOpen' /\ Named'
    BY <1>2 DEF RegisteredOpen, Named
<1>7. OneRnic'
    BY <1>1, <1>3 DEF OneRnic
<1>8. ASSUME (misuse \cap Excepted = {})'
      PROVE  Owned' /\ Apart'
  <2>1. \A s \in Rnic : ~rnic'[s]
      BY <1>1, <1>3, <1>8 DEF OneRnic, Excepted
  <2>2. \A s \in Rnic, q \in Qp : ~Conn(s, q)'
      BY <2>1 DEF Conn
  <2> QED BY <2>2 DEF Owned, Apart
<1> QED BY <1>4, <1>5, <1>6, <1>7, <1>8

\* Creating or destroying a queue pair.
LEMMA ConnLife ==
    ASSUME ConnInv, NEW r \in Rnic, QpLifeStep(r)
    PROVE  ConnInv'
<1> USE DEF ConnInv
<1>1. PICK q \in Qp, x \in QpT :
        /\ qp_index' = [qp_index EXCEPT ![r][q] = x]
        /\ qp_index[r][q].available \/ ~qp_index[r][q].connected
        /\ ~x.connected
    BY DEF QpLifeStep
<1>2. UNCHANGED <<rnic, sock, recv_q, misuse>>
    BY DEF QpLifeStep
<1>3. /\ qp_index' \in [Rnic -> [Qp -> QpT]] /\ qp_index'[r][q] = x
      /\ \A s \in Rnic, p \in Qp : <<s, p>> # <<r, q>> => qp_index'[s][p] = qp_index[s][p]
    BY <1>1, QpUpdate DEF Typed
<1>4. Typed'
    BY <1>2, <1>3 DEF Typed
<1>5. ~qp_index[r][q].connected /\ ~qp_index'[r][q].connected
    BY <1>1, <1>3 DEF Idle
<1>6. Idle'
    BY <1>3, <1>5 DEF Idle
<1>7. \A s \in Rnic, p \in Qp : /\ Conn(s, p)' <=> Conn(s, p)
                                /\ Conn(s, p) => qp_index'[s][p] = qp_index[s][p]
    BY <1>2, <1>3, <1>5 DEF Conn
<1>8. (Owned => Owned') /\ (Apart => Apart') /\ (Named => Named')
  <2>1. Owned => Owned'
      BY <1>2, <1>7 DEF Owned
  <2>2. Apart => Apart'
      BY <1>7 DEF Apart
  <2>3. Named => Named'
      BY <1>2, <1>7 DEF Named
  <2> QED BY <2>1, <2>2, <2>3
<1>9. RegisteredOpen' /\ OneRnic'
    BY <1>2 DEF RegisteredOpen, OneRnic
<1> QED BY <1>2, <1>4, <1>6, <1>8, <1>9

\* Connecting.
LEMMA ConnConnect ==
    ASSUME ConnInv, NEW r \in Rnic, NEW q \in Qp, ConnectStep(r, q)
    PROVE  ConnInv'
<1> USE DEF ConnInv
<1>1. PICK f \in Fd, busy \in SUBSET Fd : ~sock[f].open /\ f \notin busy /\ Connect(r, q, f, busy)
    BY DEF ConnectStep
<1>2. rnic' = rnic /\ rnic[r] /\ ~qp_index[r][q].available
    BY DEF ConnectStep, Connectable
<1>3. /\ qp_index' \in [Rnic -> [Qp -> QpT]]
      /\ qp_index'[r][q].connected /\ qp_index'[r][q].fd = f
      /\ qp_index'[r][q].available = qp_index[r][q].available
      /\ \A s \in Rnic, p \in Qp : <<s, p>> # <<r, q>> => qp_index'[s][p] = qp_index[s][p]
    BY <1>1, Connected
<1>4. /\ sock' \in [Fd -> SockT]
      /\ sock'[f].open /\ sock'[f].reg
      /\ \A g \in Fd : g # f => sock'[g].reg = sock[g].reg /\ (sock[g].open => sock'[g].open)
      /\ recv_q' \in [Rnic -> Seq(WrT)]
    BY <1>1, Connected
<1>5. Typed'
    BY <1>2, <1>3, <1>4 DEF Typed
<1>6. Idle'
    BY <1>2, <1>3 DEF Idle
<1>7. RegisteredOpen'
    BY <1>4 DEF RegisteredOpen
<1>8. misuse \subseteq misuse' /\ (qp_index[r][q].connected => "again" \in misuse')
    BY <1>1, NoteGrows DEF Connect
<1>9. OneRnic'
    BY <1>2, <1>8 DEF OneRnic
<1>10. ASSUME (misuse \cap Excepted = {})'
       PROVE  Owned' /\ Apart' /\ Named'
  <2>1. misuse \cap Excepted = {} /\ ~qp_index[r][q].connected
      BY <1>8, <1>10 DEF Excepted
  <2>2. Owned /\ Apart /\ Named
      BY <2>1
  <2>3. ~sock[f].reg
      BY <1>1 DEF RegisteredOpen
  <2>4. \A s \in Rnic, p \in Qp : <<s, p>> # <<r, q>> =>
          /\ Conn(s, p)' <=> Conn(s, p)
          /\ Conn(s, p) => qp_index'[s][p].fd = qp_index[s][p].fd
      BY <1>2, <1>3 DEF Conn
  <2>5. \A s \in Rnic, p \in Qp : Conn(s, p) => qp_index[s][p].fd \in Fd /\ qp_index[s][p].fd # f
      BY <2>2, <2>3 DEF Owned
  <2>6. Conn(r, q)' /\ ~Conn(r, q)
      BY <1>2, <1>3, <2>1 DEF Conn
  <2>7. Owned'
      BY <1>3, <1>4, <2>2, <2>4, <2>5 DEF Owned
  <2>8. Apart'
      BY <1>3, <2>2, <2>4, <2>5 DEF Apart
  <2>9. Named'
    <3>1. ASSUME NEW g \in Fd, sock'[g].reg
          PROVE  \E s \in Rnic, p \in Qp : Conn(s, p)' /\ qp_index'[s][p].fd = g
      <4>1. CASE g = f
          BY <1>3, <2>6, <4>1
      <4>2. CASE g # f
        <5>1. PICK s \in Rnic, p \in Qp : Conn(s, p) /\ qp_index[s][p].fd = g
            BY <1>4, <2>2, <3>1, <4>2 DEF Named
        <5>2. <<s, p>> # <<r, q>>
            BY <2>6, <5>1
        <5> QED BY <2>4, <5>1, <5>2
      <4> QED BY <4>1, <4>2
    <3> QED BY <3>1 DEF Named
  <2> QED BY <2>7, <2>8, <2>9
<1> QED BY <1>5, <1>6, <1>7, <1>9, <1>10

\* A connection that is refused.
LEMMA ConnRefused ==
    ASSUME ConnInv, NEW r \in Rnic, NEW q \in Qp, active_connect_refused(r, q)
    PROVE  ConnInv'
<1> USE DEF ConnInv
<1>1. PICK f \in Fd :
             /\ ~sock[f].open
             /\ qp_index' \in [Rnic -> [Qp -> QpT]]
             /\ qp_index'[r][q].connected = qp_index[r][q].connected
             /\ qp_index'[r][q].available = qp_index[r][q].available
             /\ \A s \in Rnic, p \in Qp : <<s, p>> # <<r, q>> => qp_index'[s][p] = qp_index[s][p]
             /\ sock' \in [Fd -> SockT]
             /\ \A g \in Fd : /\ sock'[g].reg = sock[g].reg /\ sock'[g].posted = sock[g].posted
                              /\ sock[g].open => sock'[g].open
    BY RefusedEffect
<1>2. UNCHANGED <<rnic, recv_q>>
    BY DEF active_connect_refused
<1>3. misuse \subseteq misuse' /\ (qp_index[r][q].connected => "again" \in misuse')
    BY NoteGrows DEF active_connect_refused
<1>4. Typed'
    BY <1>1, <1>2 DEF Typed
<1>5. Idle'
    BY <1>1 DEF Idle
<1>6. RegisteredOpen'
    BY <1>1 DEF RegisteredOpen
<1>7. OneRnic'
    BY <1>2, <1>3 DEF OneRnic
<1>8. ASSUME (misuse \cap Excepted = {})'
      PROVE  Owned' /\ Apart' /\ Named'
  <2>1. Owned /\ Apart /\ Named /\ ~qp_index[r][q].connected
      BY <1>3, <1>8 DEF Excepted
  <2>2. \A s \in Rnic, p \in Qp : /\ Conn(s, p)' <=> Conn(s, p)
                                  /\ Conn(s, p) => qp_index'[s][p] = qp_index[s][p]
      BY <1>1, <1>2, <2>1 DEF Conn
  <2>3. Owned'
      BY <1>1, <2>1, <2>2 DEF Owned
  <2>4. Apart'
      BY <2>1, <2>2 DEF Apart
  <2>5. Named'
      BY <1>1, <2>1, <2>2 DEF Named
  <2> QED BY <2>3, <2>4, <2>5
<1> QED BY <1>4, <1>5, <1>6, <1>7, <1>8

\* Disconnecting.
LEMMA ConnDisconnect ==
    ASSUME ConnInv, NEW r \in Rnic, NEW q \in Qp, iwarp_qp_disconnect(r, q)
    PROVE  ConnInv'
<1> USE DEF ConnInv
<1>1. /\ qp_index' \in [Rnic -> [Qp -> QpT]]
      /\ ~qp_index'[r][q].connected
      /\ \A s \in Rnic, p \in Qp : <<s, p>> # <<r, q>> => qp_index'[s][p] = qp_index[s][p]
      /\ sock' \in [Fd -> SockT]
      /\ \A g \in Fd : sock'[g] = sock[g] \/ sock'[g] = NoSock
    BY DisconnectEffect
<1>2. qp_index[r][q].fd # NoFd =>
        /\ \A g \in Fd : g # qp_index[r][q].fd => sock'[g] = sock[g]
        /\ \A g \in Fd : g = qp_index[r][q].fd => ~sock'[g].reg
    BY DisconnectEffect
<1>3. UNCHANGED <<rnic, recv_q>> /\ rnic[r]
    BY DEF iwarp_qp_disconnect
<1>4. misuse \subseteq misuse' /\ (~qp_index[r][q].connected => "not connected" \in misuse')
    BY NoteGrows DEF iwarp_qp_disconnect, NotConnected
<1>5. Typed'
    BY <1>1, <1>3 DEF Typed
<1>6. Idle'
    BY <1>1 DEF Idle
<1>7. RegisteredOpen'
    BY <1>1, NoSockT DEF RegisteredOpen
<1>8. OneRnic'
    BY <1>3, <1>4 DEF OneRnic
<1>9. ASSUME (misuse \cap Excepted = {})'
      PROVE  Owned' /\ Apart' /\ Named'
  <2>1. Owned /\ Apart /\ Named /\ qp_index[r][q].connected
      BY <1>4, <1>9 DEF Excepted
  <2>2. Conn(r, q) /\ ~Conn(r, q)'
      BY <1>1, <1>3, <2>1 DEF Conn
  <2>3. PICK f \in Fd : f = qp_index[r][q].fd
      BY <2>1, <2>2 DEF Owned
  <2>4. f # NoFd
      BY VerbsAssumption DEF Fd, NoFd
  <2>5. ~sock'[f].reg /\ \A g \in Fd : g # f => sock'[g] = sock[g]
      BY <1>2, <2>3, <2>4
  <2>6. \A s \in Rnic, p \in Qp : <<s, p>> # <<r, q>> =>
          /\ Conn(s, p)' <=> Conn(s, p)
          /\ qp_index'[s][p].fd = qp_index[s][p].fd
          /\ Conn(s, p) => qp_index[s][p].fd # f
    <3>1. \A s \in Rnic, p \in Qp : <<s, p>> # <<r, q>> =>
            (Conn(s, p)' <=> Conn(s, p)) /\ qp_index'[s][p].fd = qp_index[s][p].fd
        BY <1>1, <1>3 DEF Conn
    <3>2. \A s \in Rnic, p \in Qp : <<s, p>> # <<r, q>> /\ Conn(s, p) => qp_index[s][p].fd # f
        BY <2>1, <2>2, <2>3 DEF Apart
    <3> QED BY <3>1, <3>2
  <2>7. Owned'
      BY <2>1, <2>2, <2>5, <2>6 DEF Owned
  <2>8. Apart'
      BY <2>1, <2>2, <2>6 DEF Apart
  <2>9. Named'
    <3>1. ASSUME NEW g \in Fd, sock'[g].reg
          PROVE  \E s \in Rnic, p \in Qp : Conn(s, p)' /\ qp_index'[s][p].fd = g
      <4>1. g # f /\ sock[g].reg
          BY <2>5, <3>1
      <4>2. PICK s \in Rnic, p \in Qp : Conn(s, p) /\ qp_index[s][p].fd = g
          BY <2>1, <4>1 DEF Named
      <4>3. <<s, p>> # <<r, q>>
          BY <2>3, <4>1, <4>2
      <4> QED BY <2>6, <4>2, <4>3
    <3> QED BY <3>1 DEF Named
  <2> QED BY <2>7, <2>8, <2>9
<1> QED BY <1>5, <1>6, <1>7, <1>8, <1>9

\* The steps that leave the queue pairs, and what is open and registered, alone.
LEMMA ConnKept ==
    ASSUME ConnInv, UNCHANGED <<rnic, qp_index>>, misuse \subseteq misuse',
           sock' \in [Fd -> SockT], recv_q' \in [Rnic -> Seq(WrT)],
           \A f \in Fd : sock'[f].open = sock[f].open /\ sock'[f].reg = sock[f].reg
    PROVE  ConnInv'
<1> USE DEF ConnInv
<1>1. Typed'
    BY DEF Typed
<1>2. Idle' /\ RegisteredOpen' /\ OneRnic'
    BY DEF Idle, RegisteredOpen, OneRnic
<1>3. \A s \in Rnic, p \in Qp : Conn(s, p)' <=> Conn(s, p)
    BY DEF Conn
<1>4. Owned => Owned'
    BY <1>3 DEF Owned
<1>5. Apart => Apart'
    BY <1>3 DEF Apart
<1>6. Named => Named'
    BY <1>3 DEF Named
<1>7. (misuse \cap Excepted = {})' => misuse \cap Excepted = {}
    OBVIOUS
<1> QED BY <1>1, <1>2, <1>4, <1>5, <1>6, <1>7

\* Every step keeps the ownership of the sockets.
LEMMA ConnStep ==
    ASSUME ConnInv, [Next]_vars
    PROVE  ConnInv'
<1>1. Typed
    BY DEF ConnInv
<1>2. CASE SameConnections
    BY <1>1, <1>2, ConnKept DEF SameConnections, Typed
<1>3. CASE SocketStep
  <2>1. PICK f \in Fd, x \in SockT : /\ sock' = [sock EXCEPT ![f] = x]
                                     /\ x.open = sock[f].open /\ x.reg = sock[f].reg
      BY <1>3 DEF SocketStep
  <2>2. sock' \in [Fd -> SockT]
      BY <1>1, <2>1 DEF Typed
  <2>3. \A g \in Fd : sock'[g].open = sock[g].open /\ sock'[g].reg = sock[g].reg
      BY <1>1, <2>1 DEF Typed
  <2>4. UNCHANGED <<rnic, qp_index>> /\ misuse \subseteq misuse' /\ recv_q' \in [Rnic -> Seq(WrT)]
      BY <1>1, <1>3 DEF SocketStep, Typed
  <2> QED BY <2>2, <2>3, <2>4, ConnKept
<1>4. ASSUME NEW r \in Rnic, ConnectionStep(r)
      PROVE  ConnInv'
  <2>1. CASE iwarp_rnic_open(r) \/ iwarp_rnic_close(r) \/ QpLifeStep(r)
      BY <2>1, ConnOpen, ConnClose, ConnLife
  <2>2. ASSUME NEW q \in Qp,
               ConnectStep(r, q) \/ active_connect_refused(r, q) \/ iwarp_qp_disconnect(r, q)
        PROVE  ConnInv'
      BY <2>2, ConnConnect, ConnRefused, ConnDisconnect
  <2>3. ASSUME NEW q \in Qp, NEW id \in 1 .. MaxWr \ Outstanding, post_rq_connected(r, q, id)
        PROVE  ConnInv'
    <3>1. PICK f \in Fd : /\ sock' \in [Fd -> SockT]
                          /\ sock'[f].open = sock[f].open /\ sock'[f].reg = sock[f].reg
                          /\ \A g \in Fd : g # f => sock'[g] = sock[g]
        BY <1>1, <2>3, PostedToSocket
    <3>2. \A g \in Fd : sock'[g].open = sock[g].open /\ sock'[g].reg = sock[g].reg
        BY <3>1
    <3>3. UNCHANGED <<rnic, qp_index>> /\ misuse \subseteq misuse' /\ recv_q' \in [Rnic -> Seq(WrT)]
        BY <1>1, <2>3 DEF post_rq_connected, Typed
    <3> QED BY <3>1, <3>2, <3>3, ConnKept
  <2>4. ASSUME NEW q \in Qp, NEW id \in 1 .. MaxWr \ Outstanding, NEW ok \in BOOLEAN,
               post_rq_queued(r, q, id, ok)
        PROVE  ConnInv'
    <3>1. recv_q' \in [Rnic -> Seq(WrT)]
        BY <1>1, <2>4, QueuedForLater
    <3>2. UNCHANGED <<rnic, qp_index, sock>> /\ misuse \subseteq misuse'
        BY <2>4, NoteGrows DEF post_rq_queued
    <3> QED BY <1>1, <3>1, <3>2, ConnKept DEF Typed
  <2> QED BY <1>4, <2>1, <2>2, <2>3, <2>4, Zenon DEF ConnectionStep
<1> QED BY <1>1, <1>2, <1>3, <1>4, StepKinds

\* The invariant of the connections holds in every behaviour.
LEMMA ConnInvHolds == Spec => []ConnInv
BY ConnInit, ConnStep, PTL DEF Spec

\* A connected queue pair has a socket of its own, open and known to RDMAP,
\* until it is disconnected, for any number of RNICs, queue pairs and
\* descriptors (qp.c; the exceptions are SocketOwned's).
THEOREM ConnectionsOwnSockets == Spec => []SocketOwned
<1>1. ConnInv => SocketOwned
  <2> SUFFICES ASSUME ConnInv, misuse \cap Excepted = {}, NEW x \in Conns, NEW y \in Conns
               PROVE  LET f == qp_index[x[1]][x[2]].fd
                      IN  /\ sock[f].open /\ sock[f].reg
                          /\ qp_index[y[1]][y[2]].fd = f => x = y
      BY DEF SocketOwned, Excepted
  <2>1. PICK r \in Rnic, q \in Qp : x = <<r, q>> /\ Conn(r, q)
      BY DEF Conns, Conn
  <2>2. PICK s \in Rnic, p \in Qp : y = <<s, p>> /\ Conn(s, p)
      BY DEF Conns, Conn
  <2>3. Owned /\ Apart /\ RegisteredOpen
      BY DEF ConnInv
  <2>4. sock[qp_index[r][q].fd].reg /\ sock[qp_index[r][q].fd].open
      BY <2>1, <2>3 DEF Owned, RegisteredOpen
  <2>5. qp_index[s][p].fd = qp_index[r][q].fd => x = y
      BY <2>1, <2>2, <2>3 DEF Apart
  <2> QED BY <2>1, <2>2, <2>4, <2>5
<1> QED BY <1>1, ConnInvHolds, PTL

\* A socket that RDMAP knows belongs to a connected queue pair: connecting,
\* closing, destroying and reusing queue pairs leaves none that nobody can
\* deregister any more (qp.c; the exceptions are NoOrphan's).
THEOREM SocketsAreConnected == Spec => []NoOrphan
<1>1. ConnInv => NoOrphan
  <2> SUFFICES ASSUME ConnInv, misuse \cap {"not connected", "again", "second RNIC", "startup failed"} = {},
                      NEW f \in Fd, sock[f].reg
               PROVE  \E x \in Conns : qp_index[x[1]][x[2]].fd = f
      BY DEF NoOrphan
  <2>1. misuse \cap Excepted = {}
      BY DEF Excepted
  <2>2. PICK r \in Rnic, q \in Qp : Conn(r, q) /\ qp_index[r][q].fd = f
      BY <2>1 DEF ConnInv, Named
  <2>3. <<r, q>> \in Conns
      BY <2>2 DEF Conns, Conn
  <2> QED BY <2>2, <2>3
<1> QED BY <1>1, ConnInvHolds, PTL

--------------------------------------------------------------------------------
(* Receives are posted once, for their own queue pair *)

RecvExcepted == {"not connected", "again", "second RNIC", "shared queue", "bad list", "no room"}

Posted(f) == sock[f].posted

\* In an RNIC's queue: its own receives, good ones, for queue pairs that are
\* not connected.
Waiting ==
    \A r \in Rnic : \A i \in 1 .. Len(recv_q[r]) :
        /\ recv_q[r][i].rnic = r /\ recv_q[r][i].ok
        /\ ~qp_index[r][recv_q[r][i].qp].connected

\* At a connection: those of its queue pair.
AtOwn ==
    \A r \in Rnic, q \in Qp, f \in Fd : Conn(r, q) /\ qp_index[r][q].fd = f =>
        \A i \in 1 .. Len(Posted(f)) : Posted(f)[i].rnic = r /\ Posted(f)[i].qp = q

\* No receive is in two places.
QueuedOnce ==
    \A r, s \in Rnic : \A i \in 1 .. Len(recv_q[r]), j \in 1 .. Len(recv_q[s]) :
        recv_q[r][i].id = recv_q[s][j].id => r = s /\ i = j

PostedOnce ==
    \A f, g \in Fd : \A i \in 1 .. Len(Posted(f)), j \in 1 .. Len(Posted(g)) :
        Posted(f)[i].id = Posted(g)[j].id => f = g /\ i = j

OneOfBoth ==
    \A r \in Rnic, f \in Fd : \A i \in 1 .. Len(recv_q[r]), j \in 1 .. Len(Posted(f)) :
        recv_q[r][i].id # Posted(f)[j].id

\* The receives.  That a request is at one socket only needs that the queue it
\* came from was emptied, so the queues and the sockets are counted together;
\* that all of the queue was flushed needs that every request in it is good.
RecvInv == Waiting /\ AtOwn /\ QueuedOnce /\ PostedOnce /\ OneOfBoth

\* What is left of a list of receives, the same, nothing or all but the
\* first, is a stretch of it.
LEMMA Stretch ==
    ASSUME NEW t \in Seq(WrT), NEW u, u = t \/ u = <<>> \/ (t # <<>> /\ u = Tail(t))
    PROVE  \E k \in 0 .. 1 : \A i \in 1 .. Len(u) : i + k \in 1 .. Len(t) /\ u[i] = t[i + k]
<1>1. CASE u = t
    BY <1>1
<1>2. CASE u = <<>>
    BY <1>2
<1>3. CASE t # <<>> /\ u = Tail(t)
  <2>1. Len(t) \in Nat \ {0} /\ Len(u) = Len(t) - 1 /\ \A i \in 1 .. Len(u) : u[i] = t[i + 1]
      BY <1>3
  <2>2. \A i \in 1 .. Len(u) : i + 1 \in 1 .. Len(t) /\ u[i] = t[i + 1]
      BY <2>1
  <2> QED BY <2>2
<1> QED BY <1>1, <1>2, <1>3

\* The steps that post nothing.
LEMMA RecvKept ==
    ASSUME Typed, Typed', RecvInv,
           \A r \in Rnic : recv_q'[r] = recv_q[r] \/ recv_q'[r] = <<>>,
           \A f \in Fd : \/ Posted(f)' = Posted(f) \/ Posted(f)' = <<>>
                         \/ Posted(f) # <<>> /\ Posted(f)' = Tail(Posted(f)),
           \A r \in Rnic, q \in Qp : qp_index'[r][q].connected => qp_index[r][q].connected,
           \A r \in Rnic, q \in Qp : Conn(r, q)' => /\ Conn(r, q)
                                                    /\ qp_index'[r][q].fd = qp_index[r][q].fd
                                                    /\ qp_index[r][q].fd \in Fd
    PROVE  RecvInv'
<1>1. \A f \in Fd : Posted(f) \in Seq(WrT)
    BY DEF Typed, SockT, Posted
<1>2. \A f \in Fd : \E k \in 0 .. 1 : \A i \in 1 .. Len(Posted(f)') :
        i + k \in 1 .. Len(Posted(f)) /\ Posted(f)'[i] = Posted(f)[i + k]
    BY <1>1, Stretch
<1>3. \A r \in Rnic : \A i \in 1 .. Len(recv_q'[r]) : i \in 1 .. Len(recv_q[r]) /\ recv_q'[r][i] = recv_q[r][i]
    OBVIOUS
<1>4. \A r \in Rnic : \A i \in 1 .. Len(recv_q[r]) : recv_q[r][i].qp \in Qp
  <2>1. \A r \in Rnic : recv_q[r] \in Seq(WrT)
      BY DEF Typed
  <2>2. \A r \in Rnic : \A i \in 1 .. Len(recv_q[r]) : recv_q[r][i] \in WrT
      BY <2>1, ElementOfSeq
  <2> QED BY <2>2 DEF WrT
<1>5. Waiting'
    BY <1>3, <1>4 DEF RecvInv, Waiting
<1>6. AtOwn'
  <2>1. ASSUME NEW r \in Rnic, NEW q \in Qp, NEW f \in Fd, Conn(r, q)', qp_index'[r][q].fd = f,
               NEW i \in 1 .. Len(Posted(f)')
        PROVE  Posted(f)'[i].rnic = r /\ Posted(f)'[i].qp = q
    <3>1. Conn(r, q) /\ qp_index[r][q].fd = f
        BY <2>1
    <3>2. PICK j \in 1 .. Len(Posted(f)) : Posted(f)'[i] = Posted(f)[j]
        BY <1>2
    <3>3. Posted(f)[j].rnic = r /\ Posted(f)[j].qp = q
        BY <3>1 DEF RecvInv, AtOwn
    <3> QED BY <3>2, <3>3
  <2> QED BY <2>1 DEF AtOwn
<1>7. QueuedOnce'
    BY <1>3 DEF RecvInv, QueuedOnce
<1>8. PostedOnce'
  <2>1. ASSUME NEW f \in Fd, NEW g \in Fd, NEW i \in 1 .. Len(Posted(f)'), NEW j \in 1 .. Len(Posted(g)'),
               Posted(f)'[i].id = Posted(g)'[j].id
        PROVE  f = g /\ i = j
    <3>1. PICK k \in 0 .. 1 : \A a \in 1 .. Len(Posted(f)') :
            a + k \in 1 .. Len(Posted(f)) /\ Posted(f)'[a] = Posted(f)[a + k]
        BY <1>2
    <3>2. PICK l \in 0 .. 1 : \A a \in 1 .. Len(Posted(g)') :
            a + l \in 1 .. Len(Posted(g)) /\ Posted(g)'[a] = Posted(g)[a + l]
        BY <1>2
    <3>3. PICK a \in 1 .. Len(Posted(f)) : a = i + k /\ Posted(f)'[i] = Posted(f)[a]
        BY <3>1
    <3>4. PICK b \in 1 .. Len(Posted(g)) : b = j + l /\ Posted(g)'[j] = Posted(g)[b]
        BY <3>2
    <3>5. f = g
        BY <2>1, <3>3, <3>4 DEF RecvInv, PostedOnce
    <3>6. PICK c \in 1 .. Len(Posted(f)) : c = j + k /\ Posted(f)'[j] = Posted(f)[c]
        BY <3>1, <3>5
    <3>7. a = c
        BY <2>1, <3>3, <3>5, <3>6 DEF RecvInv, PostedOnce
    <3>8. i \in Int /\ j \in Int /\ k \in Int
        OBVIOUS
    <3> QED BY <3>3, <3>5, <3>6, <3>7, <3>8
  <2> QED BY <2>1 DEF PostedOnce
<1>9. OneOfBoth'
  <2>1. ASSUME NEW r \in Rnic, NEW f \in Fd, NEW i \in 1 .. Len(recv_q'[r]), NEW j \in 1 .. Len(Posted(f)')
        PROVE  recv_q'[r][i].id # Posted(f)'[j].id
    <3>1. PICK k \in 1 .. Len(Posted(f)) : Posted(f)'[j] = Posted(f)[k]
        BY <1>2
    <3> QED BY <1>3, <3>1 DEF RecvInv, OneOfBoth
  <2> QED BY <2>1 DEF OneOfBoth
<1> QED BY <1>5, <1>6, <1>7, <1>8, <1>9 DEF RecvInv

\* An identifier that is not outstanding is in no queue and at no socket.
LEMMA FreshId ==
    ASSUME Typed, NEW id \in 1 .. MaxWr \ Outstanding
    PROVE  /\ \A r \in Rnic : \A i \in 1 .. Len(recv_q[r]) : recv_q[r][i].id # id
           /\ \A f \in Fd : \A i \in 1 .. Len(Posted(f)) : Posted(f)[i].id # id
<1>1. \A r \in Rnic : recv_q[r] \in Seq(WrT)
    BY DEF Typed
<1>2. \A f \in Fd : Posted(f) \in Seq(WrT)
    BY DEF Typed, SockT, Posted
<1>3. ASSUME NEW r \in Rnic, NEW i \in 1 .. Len(recv_q[r]) PROVE recv_q[r][i].id # id
  <2>1. recv_q[r][i] \in Range(recv_q[r])
      BY <1>1 DEF Range
  <2>2. recv_q[r][i].id \in {e.id : e \in Range(recv_q[r])}
      BY <2>1, Zenon
  <2>3. recv_q[r][i].id \in Outstanding
      BY <2>2, Zenon DEF Outstanding
  <2> QED BY <2>3
<1>4. ASSUME NEW f \in Fd, NEW i \in 1 .. Len(Posted(f)) PROVE Posted(f)[i].id # id
  <2>1. Posted(f)[i] \in Range(Posted(f))
      BY <1>2 DEF Range
  <2>2. Posted(f)[i].id \in {e.id : e \in Range(Posted(f))}
      BY <2>1, Zenon
  <2>3. Posted(f)[i].id \in Outstanding
      BY <2>2, Zenon DEF Outstanding, Posted
  <2> QED BY <2>3
<1> QED BY <1>3, <1>4

\* A receive is posted to a connection.
LEMMA RecvPosted ==
    ASSUME ConnInv, Owned, Apart, RecvInv, NEW r \in Rnic, NEW q \in Qp, NEW id \in 1 .. MaxWr \ Outstanding,
           post_rq_connected(r, q, id)
    PROVE  RecvInv'
<1>1. Typed
    BY DEF ConnInv
<1>2. PICK w \in WrT : w = Wr(r, q, id, TRUE)
    BY DEF Wr, WrT
<1>3. w.rnic = r /\ w.qp = q /\ w.id = id
    BY <1>2 DEF Wr
<1>4. PICK f \in Fd : f = qp_index[r][q].fd /\ Posted(f)' = Append(Posted(f), w)
                      /\ \A g \in Fd : g # f => Posted(g)' = Posted(g)
    BY <1>1, <1>2, PostedToSocket DEF Posted
<1>5. Conn(r, q)
    BY DEF post_rq_connected, Conn
<1>6. UNCHANGED <<rnic, qp_index, recv_q>>
    BY DEF post_rq_connected
<1>7. Posted(f) \in Seq(WrT) /\ Len(Posted(f)) \in Nat
    BY <1>1 DEF Typed, SockT, Posted
<1>8. Len(Posted(f)') = Len(Posted(f)) + 1
    BY <1>4, <1>7
<1>9. \A g \in Fd : \A i \in 1 .. Len(Posted(g)') :
        \/ i \in 1 .. Len(Posted(g)) /\ Posted(g)'[i] = Posted(g)[i]
        \/ g = f /\ i = Len(Posted(f)) + 1 /\ Posted(g)'[i] = w
    BY <1>4, <1>7, <1>8
<1>10. /\ \A s \in Rnic : \A i \in 1 .. Len(recv_q[s]) : recv_q[s][i].id # id
       /\ \A g \in Fd : \A i \in 1 .. Len(Posted(g)) : Posted(g)[i].id # id
    BY <1>1, FreshId
<1>11. Waiting' /\ QueuedOnce'
    BY <1>6 DEF RecvInv, Waiting, QueuedOnce
<1>12. AtOwn'
  <2>1. ASSUME NEW s \in Rnic, NEW p \in Qp, NEW g \in Fd, Conn(s, p), qp_index[s][p].fd = g,
               NEW i \in 1 .. Len(Posted(g)')
        PROVE  Posted(g)'[i].rnic = s /\ Posted(g)'[i].qp = p
    <3>1. CASE i \in 1 .. Len(Posted(g)) /\ Posted(g)'[i] = Posted(g)[i]
        BY <2>1, <3>1 DEF RecvInv, AtOwn
    <3>2. CASE g = f /\ Posted(g)'[i] = w
      <4>1. s = r /\ p = q
          BY <1>4, <1>5, <2>1, <3>2 DEF Apart
      <4> QED BY <1>3, <3>2, <4>1
    <3> QED BY <1>9, <3>1, <3>2
  <2>2. \A s \in Rnic, p \in Qp : Conn(s, p)' <=> Conn(s, p)
      BY <1>6 DEF Conn
  <2> QED BY <1>6, <2>1, <2>2 DEF AtOwn
<1>13. PostedOnce'
  <2>1. ASSUME NEW g \in Fd, NEW h \in Fd, NEW i \in 1 .. Len(Posted(g)'), NEW j \in 1 .. Len(Posted(h)'),
               Posted(g)'[i].id = Posted(h)'[j].id
        PROVE  g = h /\ i = j
    <3>1. CASE i \in 1 .. Len(Posted(g)) /\ Posted(g)'[i] = Posted(g)[i]
      <4>1. j \in 1 .. Len(Posted(h)) /\ Posted(h)'[j] = Posted(h)[j]
          BY <1>3, <1>9, <1>10, <2>1, <3>1
      <4> QED BY <2>1, <3>1, <4>1 DEF RecvInv, PostedOnce
    <3>2. CASE g = f /\ i = Len(Posted(f)) + 1 /\ Posted(g)'[i] = w
        BY <1>3, <1>9, <1>10, <2>1, <3>2
    <3> QED BY <1>9, <3>1, <3>2
  <2> QED BY <2>1 DEF PostedOnce
<1>14. OneOfBoth'
  <2>1. ASSUME NEW s \in Rnic, NEW g \in Fd, NEW i \in 1 .. Len(recv_q[s]), NEW j \in 1 .. Len(Posted(g)')
        PROVE  recv_q[s][i].id # Posted(g)'[j].id
    <3>1. CASE j \in 1 .. Len(Posted(g)) /\ Posted(g)'[j] = Posted(g)[j]
        BY <3>1 DEF RecvInv, OneOfBoth
    <3>2. CASE Posted(g)'[j] = w
        BY <1>3, <1>10, <3>2
    <3> QED BY <1>9, <3>1, <3>2
  <2> QED BY <1>6, <2>1 DEF OneOfBoth
<1> QED BY <1>11, <1>12, <1>13, <1>14 DEF RecvInv

\* One is queued, and is not refused for its list.
LEMMA RecvQueued ==
    ASSUME ConnInv, RecvInv, NEW r \in Rnic, NEW q \in Qp, NEW id \in 1 .. MaxWr \ Outstanding,
           post_rq_queued(r, q, id, TRUE)
    PROVE  RecvInv'
<1>1. Typed
    BY DEF ConnInv
<1>2. PICK w \in WrT : w = Wr(r, q, id, TRUE)
    BY DEF Wr, WrT
<1>3. w.rnic = r /\ w.qp = q /\ w.id = id /\ w.ok
    BY <1>2 DEF Wr
<1>4. recv_q'[r] = Append(recv_q[r], w) /\ \A s \in Rnic : s # r => recv_q'[s] = recv_q[s]
    BY <1>1, <1>2, QueuedForLater
<1>5. UNCHANGED <<rnic, qp_index, sock>> /\ ~qp_index[r][q].connected
    BY DEF post_rq_queued
<1>6. recv_q[r] \in Seq(WrT) /\ Len(recv_q[r]) \in Nat
    BY <1>1 DEF Typed
<1>7. Len(recv_q'[r]) = Len(recv_q[r]) + 1
    BY <1>4, <1>6
<1>8. \A s \in Rnic : \A i \in 1 .. Len(recv_q'[s]) :
        \/ i \in 1 .. Len(recv_q[s]) /\ recv_q'[s][i] = recv_q[s][i]
        \/ s = r /\ i = Len(recv_q[r]) + 1 /\ recv_q'[s][i] = w
    BY <1>4, <1>6, <1>7
<1>9. /\ \A s \in Rnic : \A i \in 1 .. Len(recv_q[s]) : recv_q[s][i].id # id
      /\ \A g \in Fd : \A i \in 1 .. Len(Posted(g)) : Posted(g)[i].id # id
    BY <1>1, FreshId
<1>10. Waiting'
  <2>1. ASSUME NEW s \in Rnic, NEW i \in 1 .. Len(recv_q'[s])
        PROVE  /\ recv_q'[s][i].rnic = s /\ recv_q'[s][i].ok
               /\ ~qp_index[s][recv_q'[s][i].qp].connected
    <3>1. CASE i \in 1 .. Len(recv_q[s]) /\ recv_q'[s][i] = recv_q[s][i]
        BY <3>1 DEF RecvInv, Waiting
    <3>2. CASE s = r /\ recv_q'[s][i] = w
        BY <1>3, <1>5, <3>2
    <3> QED BY <1>8, <3>1, <3>2
  <2> QED BY <1>5, <2>1 DEF Waiting
<1>11. QueuedOnce'
  <2>1. ASSUME NEW s \in Rnic, NEW t \in Rnic, NEW i \in 1 .. Len(recv_q'[s]), NEW j \in 1 .. Len(recv_q'[t]),
               recv_q'[s][i].id = recv_q'[t][j].id
        PROVE  s = t /\ i = j
    <3>1. CASE i \in 1 .. Len(recv_q[s]) /\ recv_q'[s][i] = recv_q[s][i]
      <4>1. j \in 1 .. Len(recv_q[t]) /\ recv_q'[t][j] = recv_q[t][j]
          BY <1>3, <1>8, <1>9, <2>1, <3>1
      <4> QED BY <2>1, <3>1, <4>1 DEF RecvInv, QueuedOnce
    <3>2. CASE s = r /\ i = Len(recv_q[r]) + 1 /\ recv_q'[s][i] = w
        BY <1>3, <1>8, <1>9, <2>1, <3>2
    <3> QED BY <1>8, <3>1, <3>2
  <2> QED BY <2>1 DEF QueuedOnce
<1>12. OneOfBoth'
  <2>1. ASSUME NEW s \in Rnic, NEW g \in Fd, NEW i \in 1 .. Len(recv_q'[s]), NEW j \in 1 .. Len(Posted(g))
        PROVE  recv_q'[s][i].id # Posted(g)[j].id
    <3>1. CASE i \in 1 .. Len(recv_q[s]) /\ recv_q'[s][i] = recv_q[s][i]
        BY <3>1 DEF RecvInv, OneOfBoth
    <3>2. CASE recv_q'[s][i] = w
        BY <1>3, <1>9, <3>2
    <3> QED BY <1>8, <3>1, <3>2
  <2> QED BY <1>5, <2>1 DEF OneOfBoth, Posted
<1>13. AtOwn' /\ PostedOnce'
    BY <1>5 DEF RecvInv, AtOwn, PostedOnce, Posted, Conn
<1> QED BY <1>10, <1>11, <1>12, <1>13 DEF RecvInv

\* A queue pair is connected and takes all of the queue.
LEMMA RecvConnected ==
    ASSUME ConnInv, Owned, RecvInv, NEW r \in Rnic, NEW q \in Qp, ConnectStep(r, q),
           (misuse \cap RecvExcepted = {})'
    PROVE  RecvInv'
<1>1. Typed /\ RegisteredOpen
    BY DEF ConnInv
<1>2. PICK f \in Fd, busy \in SUBSET Fd : ~sock[f].open /\ f \notin busy /\ Connect(r, q, f, busy)
    BY DEF ConnectStep
<1>3. rnic' = rnic /\ rnic[r]
    BY DEF ConnectStep, Connectable
<1>4. /\ qp_index'[r][q].connected /\ qp_index'[r][q].fd = f
      /\ \A s \in Rnic, p \in Qp : <<s, p>> # <<r, q>> => qp_index'[s][p] = qp_index[s][p]
      /\ Posted(f)' = SubSeq(recv_q[r], 1, Dispatched(recv_q[r], qp_index[r][q].rcq))
      /\ \A g \in Fd : g # f => Posted(g)' = Posted(g)
      /\ recv_q' = [recv_q EXCEPT ![r] = AfterDispatch(@, Dispatched(recv_q[r], qp_index[r][q].rcq))]
    BY <1>1, <1>2, Connected DEF Posted
<1>5. /\ ~(\E e \in Range(recv_q[r]) : e.qp # q)
      /\ recv_q[r] = <<>> \/ RecvRoom(qp_index[r][q].rcq)
  <2>1. PICK own : own = qp_index[r][q]
      OBVIOUS
  <2> DEFINE S == (IF own.connected THEN {"again"} ELSE {})
                    \cup (IF \E e \in Range(recv_q[r]) : e.qp # q THEN {"shared queue"} ELSE {})
                    \cup (IF recv_q[r] # <<>> /\ ~RecvRoom(own.rcq) THEN {"no room"} ELSE {})
  <2>2. Note(S)
      BY <1>2, <2>1, Zenon DEF Connect
  <2>3. /\ (\E e \in Range(recv_q[r]) : e.qp # q) => "shared queue" \in S
        /\ recv_q[r] # <<>> /\ ~RecvRoom(own.rcq) => "no room" \in S
      OBVIOUS
  <2> HIDE DEF S
  <2>4. "shared queue" \notin S /\ "no room" \notin S
      BY <2>2, NoteGrows DEF RecvExcepted
  <2> QED BY <2>1, <2>3, <2>4
<1>6. recv_q[r] \in Seq(WrT) /\ recv_q \in [Rnic -> Seq(WrT)]
    BY <1>1 DEF Typed
<1>7. \A i \in 1 .. Len(recv_q[r]) : recv_q[r][i].ok
    BY DEF RecvInv, Waiting
<1>8. Dispatched(recv_q[r], qp_index[r][q].rcq) = Len(recv_q[r])
    BY <1>5, <1>6, <1>7, DispatchedIn
<1>9. Posted(f)' = recv_q[r]
    BY <1>4, <1>6, <1>8
<1>10. recv_q'[r] = <<>> /\ \A s \in Rnic : s # r => recv_q'[s] = recv_q[s]
    BY <1>4, <1>6, <1>8 DEF AfterDispatch
<1>11. \A i \in 1 .. Len(recv_q[r]) : recv_q[r][i].qp = q /\ recv_q[r][i].rnic = r
  <2>1. \A i \in 1 .. Len(recv_q[r]) : recv_q[r][i] \in Range(recv_q[r])
      BY <1>6 DEF Range
  <2> QED BY <1>5, <2>1 DEF RecvInv, Waiting
<1>12. \A s \in Rnic, p \in Qp : <<s, p>> # <<r, q>> =>
         /\ Conn(s, p)' <=> Conn(s, p)
         /\ qp_index'[s][p].fd = qp_index[s][p].fd
         /\ Conn(s, p) => qp_index[s][p].fd # f
    BY <1>1, <1>2, <1>3, <1>4 DEF Conn, Owned, RegisteredOpen
<1>13. Waiting'
  <2>1. ASSUME NEW s \in Rnic, NEW i \in 1 .. Len(recv_q'[s])
        PROVE  /\ recv_q'[s][i].rnic = s /\ recv_q'[s][i].ok
               /\ ~qp_index'[s][recv_q'[s][i].qp].connected
    <3>1. s # r /\ recv_q'[s] = recv_q[s]
        BY <1>10
    <3>2. recv_q[s] \in Seq(WrT)
        BY <1>6
    <3>3. recv_q[s][i] \in WrT
        BY <3>1, <3>2, ElementOfSeq
    <3>4. recv_q[s][i].qp \in Qp
        BY <3>3 DEF WrT
    <3>5. qp_index'[s][recv_q[s][i].qp] = qp_index[s][recv_q[s][i].qp]
        BY <1>4, <3>1, <3>4
    <3> QED BY <3>1, <3>5 DEF RecvInv, Waiting
  <2> QED BY <2>1 DEF Waiting
<1>14. AtOwn'
  <2>1. ASSUME NEW s \in Rnic, NEW p \in Qp, NEW g \in Fd, Conn(s, p)', qp_index'[s][p].fd = g,
               NEW i \in 1 .. Len(Posted(g)')
        PROVE  Posted(g)'[i].rnic = s /\ Posted(g)'[i].qp = p
    <3>1. CASE s = r /\ p = q
        BY <1>4, <1>9, <1>11, <2>1, <3>1
    <3>2. CASE <<s, p>> # <<r, q>>
      <4>1. Conn(s, p) /\ qp_index[s][p].fd = g /\ g # f
          BY <1>12, <2>1, <3>2
      <4>2. Posted(g)' = Posted(g)
          BY <1>4, <4>1
      <4> QED BY <2>1, <4>1, <4>2 DEF RecvInv, AtOwn
    <3> QED BY <3>1, <3>2
  <2> QED BY <2>1 DEF AtOwn
<1>15. QueuedOnce'
    BY <1>10 DEF RecvInv, QueuedOnce
<1>16. PostedOnce'
  <2>1. ASSUME NEW g \in Fd, NEW h \in Fd, NEW i \in 1 .. Len(Posted(g)'), NEW j \in 1 .. Len(Posted(h)'),
               Posted(g)'[i].id = Posted(h)'[j].id
        PROVE  g = h /\ i = j
    <3>1. CASE g = f /\ h = f
        BY <1>9, <2>1, <3>1 DEF RecvInv, QueuedOnce
    <3>2. CASE g # f /\ h # f
        BY <1>4, <2>1, <3>2 DEF RecvInv, PostedOnce
    <3>3. CASE g = f /\ h # f
      <4>1. i \in 1 .. Len(recv_q[r]) /\ Posted(g)'[i] = recv_q[r][i]
          BY <1>9, <3>3
      <4>2. j \in 1 .. Len(Posted(h)) /\ Posted(h)'[j] = Posted(h)[j]
          BY <1>4, <3>3
      <4>3. recv_q[r][i].id # Posted(h)[j].id
          BY <4>1, <4>2 DEF RecvInv, OneOfBoth
      <4> QED BY <2>1, <4>1, <4>2, <4>3
    <3>4. CASE g # f /\ h = f
      <4>1. j \in 1 .. Len(recv_q[r]) /\ Posted(h)'[j] = recv_q[r][j]
          BY <1>9, <3>4
      <4>2. i \in 1 .. Len(Posted(g)) /\ Posted(g)'[i] = Posted(g)[i]
          BY <1>4, <3>4
      <4>3. recv_q[r][j].id # Posted(g)[i].id
          BY <4>1, <4>2 DEF RecvInv, OneOfBoth
      <4> QED BY <2>1, <4>1, <4>2, <4>3
    <3> QED BY <3>1, <3>2, <3>3, <3>4
  <2> QED BY <2>1 DEF PostedOnce
<1>17. OneOfBoth'
  <2>1. ASSUME NEW s \in Rnic, NEW g \in Fd, NEW i \in 1 .. Len(recv_q'[s]), NEW j \in 1 .. Len(Posted(g)')
        PROVE  recv_q'[s][i].id # Posted(g)'[j].id
    <3>1. s # r /\ recv_q'[s] = recv_q[s]
        BY <1>10
    <3>2. CASE g = f
        BY <1>9, <3>1, <3>2 DEF RecvInv, QueuedOnce
    <3>3. CASE g # f
        BY <1>4, <3>1, <3>3 DEF RecvInv, OneOfBoth
    <3> QED BY <3>2, <3>3
  <2> QED BY <2>1 DEF OneOfBoth
<1> QED BY <1>13, <1>14, <1>15, <1>16, <1>17 DEF RecvInv

\* At the start there are no receives.
LEMMA RecvInit == Init => RecvInv
<1> SUFFICES ASSUME Init PROVE RecvInv
    OBVIOUS
<1>1. \A r \in Rnic : recv_q[r] = <<>> /\ ~rnic[r]
    BY DEF Init
<1>2. \A f \in Fd : Posted(f) = <<>>
    BY NoSockT DEF Init, Posted
<1>3. Waiting /\ QueuedOnce /\ OneOfBoth
    BY <1>1 DEF Waiting, QueuedOnce, OneOfBoth
<1>4. AtOwn /\ PostedOnce
    BY <1>2 DEF AtOwn, PostedOnce
<1> QED BY <1>3, <1>4 DEF RecvInv

\* Every step keeps the receives in order, unless it is a misuse.
LEMMA RecvStep ==
    ASSUME ConnInv, ConnInv', RecvInv, [Next]_vars, (misuse \cap RecvExcepted = {})'
    PROVE  RecvInv'
<1>1. Typed /\ Typed'
    BY DEF ConnInv
<1>2. misuse \subseteq misuse' => Owned /\ Apart
    BY DEF ConnInv, Excepted, RecvExcepted
<1>3. CASE SameConnections
  <2>1. UNCHANGED <<rnic, qp_index, sock, recv_q>> /\ Owned
      BY <1>2, <1>3 DEF SameConnections
  <2>2. Waiting'
      BY <2>1 DEF RecvInv, Waiting
  <2>3. AtOwn'
      BY <2>1 DEF RecvInv, AtOwn, Posted, Conn
  <2>4. QueuedOnce' /\ PostedOnce' /\ OneOfBoth'
      BY <2>1 DEF RecvInv, QueuedOnce, PostedOnce, OneOfBoth, Posted
  <2> QED BY <2>2, <2>3, <2>4 DEF RecvInv
<1>4. CASE SocketStep
  <2>1. UNCHANGED <<rnic, qp_index, recv_q>> /\ Owned
      BY <1>2, <1>4 DEF SocketStep
  <2>2. PICK f \in Fd, x \in SockT :
          /\ sock' = [sock EXCEPT ![f] = x]
          /\ x.posted = Posted(f) \/ (Posted(f) # <<>> /\ x.posted = Tail(Posted(f)))
      BY <1>4 DEF SocketStep, Posted
  <2>3. Posted(f)' = x.posted /\ \A g \in Fd : g # f => Posted(g)' = Posted(g)
      BY <1>1, <2>2 DEF Posted, Typed
  <2>4. \A g \in Fd : \/ Posted(g)' = Posted(g) \/ Posted(g)' = <<>>
                      \/ Posted(g) # <<>> /\ Posted(g)' = Tail(Posted(g))
      BY <2>2, <2>3
  <2>5. \A r \in Rnic, q \in Qp : Conn(r, q)' => /\ Conn(r, q)
                                                 /\ qp_index'[r][q].fd = qp_index[r][q].fd
                                                 /\ qp_index[r][q].fd \in Fd
      BY <2>1 DEF Conn, Owned
  <2>6. \A r \in Rnic, q \in Qp : qp_index'[r][q].connected => qp_index[r][q].connected
      BY <2>1
  <2>7. \A r \in Rnic : recv_q'[r] = recv_q[r] \/ recv_q'[r] = <<>>
      BY <2>1
  <2> QED BY <1>1, <2>4, <2>5, <2>6, <2>7, RecvKept
<1>5. ASSUME NEW r \in Rnic, ConnectionStep(r)
      PROVE  RecvInv'
  <2>1. CASE iwarp_rnic_open(r)
    <3>1. /\ rnic' = [rnic EXCEPT ![r] = TRUE] /\ qp_index' = [qp_index EXCEPT ![r] = NoQps]
          /\ recv_q' = [recv_q EXCEPT ![r] = <<>>] /\ sock' = Unregistered /\ misuse \subseteq misuse'
        BY <2>1, NoteGrows DEF iwarp_rnic_open, Opens
    <3>2. \A q \in Qp : ~NoQps[q].connected
        BY NoQpT DEF NoQps
    <3>3. \A q \in Qp : ~qp_index'[r][q].connected
        BY <1>1, <3>1, <3>2 DEF Typed
    <3>4. \A s \in Rnic : s # r => qp_index'[s] = qp_index[s] /\ rnic'[s] = rnic[s]
        BY <1>1, <3>1 DEF Typed
    <3>5. \A f \in Fd : Posted(f)' = <<>>
        BY <1>1, <3>1, UnregisteredT DEF Posted
    <3>6. \A s \in Rnic : recv_q'[s] = recv_q[s] \/ recv_q'[s] = <<>>
        BY <1>1, <3>1 DEF Typed
    <3>7. \A s \in Rnic, q \in Qp : qp_index'[s][q].connected => qp_index[s][q].connected
        BY <3>3, <3>4
    <3>8. \A s \in Rnic, q \in Qp : Conn(s, q)' => /\ Conn(s, q)
                                                   /\ qp_index'[s][q].fd = qp_index[s][q].fd
                                                   /\ qp_index[s][q].fd \in Fd
        BY <1>2, <3>1, <3>3, <3>4 DEF Conn, Owned
    <3> QED BY <1>1, <3>5, <3>6, <3>7, <3>8, RecvKept
  <2>2. CASE iwarp_rnic_close(r)
    <3>1. /\ rnic' = [rnic EXCEPT ![r] = FALSE] /\ sock' = Unregistered
          /\ UNCHANGED <<qp_index, recv_q, misuse>>
        BY <2>2 DEF iwarp_rnic_close, v_rnic_close
    <3>2. \A s \in Rnic : rnic'[s] => rnic[s]
        BY <1>1, <3>1 DEF Typed
    <3>3. \A f \in Fd : Posted(f)' = <<>>
        BY <1>1, <3>1, UnregisteredT DEF Posted
    <3>4. \A s \in Rnic, q \in Qp : Conn(s, q)' => /\ Conn(s, q)
                                                   /\ qp_index'[s][q].fd = qp_index[s][q].fd
                                                   /\ qp_index[s][q].fd \in Fd
        BY <1>2, <3>1, <3>2 DEF Conn, Owned
    <3>5. \A s \in Rnic, q \in Qp : qp_index'[s][q].connected => qp_index[s][q].connected
        BY <3>1
    <3>6. \A s \in Rnic : recv_q'[s] = recv_q[s] \/ recv_q'[s] = <<>>
        BY <3>1
    <3> QED BY <1>1, <3>3, <3>4, <3>5, <3>6, RecvKept
  <2>3. CASE QpLifeStep(r)
    <3>1. PICK q \in Qp, x \in QpT : qp_index' = [qp_index EXCEPT ![r][q] = x] /\ ~x.connected
        BY <2>3 DEF QpLifeStep
    <3>2. UNCHANGED <<rnic, sock, recv_q, misuse>>
        BY <2>3 DEF QpLifeStep
    <3>3. /\ ~qp_index'[r][q].connected
          /\ \A s \in Rnic, p \in Qp : <<s, p>> # <<r, q>> => qp_index'[s][p] = qp_index[s][p]
        BY <1>1, <3>1, QpUpdate DEF Typed
    <3>4. \A s \in Rnic, p \in Qp : Conn(s, p)' => /\ Conn(s, p)
                                                   /\ qp_index'[s][p].fd = qp_index[s][p].fd
                                                   /\ qp_index[s][p].fd \in Fd
        BY <1>2, <3>2, <3>3 DEF Conn, Owned
    <3>5. \A s \in Rnic, p \in Qp : qp_index'[s][p].connected => qp_index[s][p].connected
        BY <3>3
    <3>6. (\A s \in Rnic : recv_q'[s] = recv_q[s]) /\ (\A f \in Fd : Posted(f)' = Posted(f))
        BY <3>2 DEF Posted
    <3> QED BY <1>1, <3>4, <3>5, <3>6, RecvKept
  <2>4. ASSUME NEW q \in Qp, ConnectStep(r, q) PROVE RecvInv'
    <3>1. misuse \subseteq misuse'
        BY <2>4, NoteGrows DEF ConnectStep, Connect
    <3> QED BY <1>2, <2>4, <3>1, RecvConnected
  <2>5. ASSUME NEW q \in Qp, active_connect_refused(r, q) PROVE RecvInv'
    <3>1. /\ qp_index'[r][q].connected = qp_index[r][q].connected
          /\ \A s \in Rnic, p \in Qp : <<s, p>> # <<r, q>> => qp_index'[s][p] = qp_index[s][p]
          /\ \A g \in Fd : Posted(g)' = Posted(g)
        BY <1>1, <2>5, RefusedEffect DEF Posted
    <3>2. UNCHANGED <<rnic, recv_q>>
        BY <2>5 DEF active_connect_refused
    <3>3. misuse \subseteq misuse' /\ ~qp_index[r][q].connected
        BY <2>5, NoteGrows DEF active_connect_refused, RecvExcepted
    <3>4. \A s \in Rnic, p \in Qp : Conn(s, p)' => /\ Conn(s, p)
                                                   /\ qp_index'[s][p].fd = qp_index[s][p].fd
                                                   /\ qp_index[s][p].fd \in Fd
        BY <1>2, <3>1, <3>2, <3>3 DEF Conn, Owned
    <3>5. \A s \in Rnic, p \in Qp : qp_index'[s][p].connected => qp_index[s][p].connected
        BY <3>1
    <3> QED BY <1>1, <3>1, <3>2, <3>4, <3>5, RecvKept
  <2>6. ASSUME NEW q \in Qp, iwarp_qp_disconnect(r, q) PROVE RecvInv'
    <3>1. /\ ~qp_index'[r][q].connected
          /\ \A s \in Rnic, p \in Qp : <<s, p>> # <<r, q>> => qp_index'[s][p] = qp_index[s][p]
          /\ \A g \in Fd : sock'[g] = sock[g] \/ sock'[g] = NoSock
        BY <1>1, <2>6, DisconnectEffect
    <3>2. UNCHANGED <<rnic, recv_q>> /\ misuse \subseteq misuse'
        BY <2>6, NoteGrows DEF iwarp_qp_disconnect
    <3>3. \A g \in Fd : Posted(g)' = Posted(g) \/ Posted(g)' = <<>>
        BY <3>1, NoSockT DEF Posted
    <3>4. \A s \in Rnic, p \in Qp : Conn(s, p)' => /\ Conn(s, p)
                                                   /\ qp_index'[s][p].fd = qp_index[s][p].fd
                                                   /\ qp_index[s][p].fd \in Fd
        BY <1>2, <3>1, <3>2 DEF Conn, Owned
    <3>5. \A s \in Rnic, p \in Qp : qp_index'[s][p].connected => qp_index[s][p].connected
        BY <3>1
    <3> QED BY <1>1, <3>2, <3>3, <3>4, <3>5, RecvKept
  <2>7. ASSUME NEW q \in Qp, NEW id \in 1 .. MaxWr \ Outstanding, post_rq_connected(r, q, id)
        PROVE  RecvInv'
    <3>1. misuse \subseteq misuse'
        BY <2>7 DEF post_rq_connected
    <3> QED BY <1>2, <2>7, <3>1, RecvPosted
  <2>8. ASSUME NEW q \in Qp, NEW id \in 1 .. MaxWr \ Outstanding, NEW ok \in BOOLEAN,
               post_rq_queued(r, q, id, ok)
        PROVE  RecvInv'
    <3>1. ok = TRUE
        BY <2>8, NoteGrows DEF post_rq_queued, RecvExcepted
    <3> QED BY <2>8, <3>1, RecvQueued
  <2> QED BY <1>5, <2>1, <2>2, <2>3, <2>4, <2>5, <2>6, <2>7, <2>8, Zenon DEF ConnectionStep
<1> QED BY <1>1, <1>3, <1>4, <1>5, StepKinds

\* A receive is posted once, for its own queue pair, and none stays behind in
\* the queue when its queue pair is connected, for any number of receives and
\* queue pairs (rwr.c, protected.c; the exceptions are RecvsExact's).
THEOREM ReceivesPostedOnce == Spec => []RecvsExact
<1> DEFINE Inv == misuse \cap RecvExcepted = {} => RecvInv
<1>1. Init => Inv
    BY RecvInit
<1>2. ConnInv /\ ConnInv' /\ Inv /\ [Next]_vars => Inv'
  <2> SUFFICES ASSUME ConnInv, ConnInv', Inv, [Next]_vars, (misuse \cap RecvExcepted = {})'
               PROVE  RecvInv'
      OBVIOUS
  <2>1. misuse \subseteq misuse'
      BY StepNotes DEF ConnInv
  <2>2. RecvInv
      BY <2>1
  <2> QED BY <2>2, RecvStep
<1>3. ConnInv /\ Inv => RecvsExact
  <2> SUFFICES ASSUME ConnInv, Inv, misuse \cap RecvExcepted = {} PROVE
        /\ \A x \in Conns :
             /\ \A e \in Range(recv_q[x[1]]) : e.qp # x[2]
             /\ \A e \in Range(sock[qp_index[x[1]][x[2]].fd].posted) : <<e.rnic, e.qp>> = x
        /\ \A f, g \in Fd : \A i \in DOMAIN sock[f].posted, j \in DOMAIN sock[g].posted :
             sock[f].posted[i].id = sock[g].posted[j].id => <<f, i>> = <<g, j>>
      BY DEF RecvsExact, RecvExcepted
  <2>1. RecvInv /\ Owned /\ Typed
      BY DEF ConnInv, Excepted, RecvExcepted
  <2>2. \A r \in Rnic : recv_q[r] \in Seq(WrT) /\ DOMAIN recv_q[r] = 1 .. Len(recv_q[r])
      BY <2>1 DEF Typed
  <2>3. \A f \in Fd : Posted(f) \in Seq(WrT) /\ DOMAIN Posted(f) = 1 .. Len(Posted(f))
      BY <2>1 DEF Typed, SockT, Posted
  <2>4. ASSUME NEW x \in Conns
        PROVE  /\ \A e \in Range(recv_q[x[1]]) : e.qp # x[2]
               /\ \A e \in Range(sock[qp_index[x[1]][x[2]].fd].posted) : <<e.rnic, e.qp>> = x
    <3>1. PICK r \in Rnic, q \in Qp : x = <<r, q>> /\ Conn(r, q)
        BY DEF Conns, Conn
    <3>2. PICK f \in Fd : f = qp_index[r][q].fd
        BY <2>1, <3>1 DEF Owned
    <3>3. ASSUME NEW e \in Range(recv_q[r]) PROVE e.qp # q
      <4>1. PICK i \in 1 .. Len(recv_q[r]) : e = recv_q[r][i]
          BY <2>2 DEF Range
      <4> QED BY <2>1, <3>1, <4>1 DEF RecvInv, Waiting, Conn
    <3>4. ASSUME NEW e \in Range(Posted(f)) PROVE e.rnic = r /\ e.qp = q
      <4>1. PICK i \in 1 .. Len(Posted(f)) : e = Posted(f)[i]
          BY <2>3 DEF Range
      <4> QED BY <2>1, <3>1, <3>2, <4>1 DEF RecvInv, AtOwn
    <3> QED BY <3>1, <3>2, <3>3, <3>4 DEF Posted
  <2>5. ASSUME NEW f \in Fd, NEW g \in Fd, NEW i \in DOMAIN Posted(f), NEW j \in DOMAIN Posted(g),
               Posted(f)[i].id = Posted(g)[j].id
        PROVE  <<f, i>> = <<g, j>>
      BY <2>1, <2>3, <2>5 DEF RecvInv, PostedOnce
  <2> QED BY <2>4, <2>5 DEF Posted
<1> QED BY <1>1, <1>2, <1>3, ConnInvHolds, PTL DEF Spec

--------------------------------------------------------------------------------
(* Domains are held by their regions *)

PdExcepted == {"no domain", "other domain", "second RNIC"}

PdT == [available : BOOLEAN, in_use : Int]
RegionT == [valid : BOOLEAN, tag : {"none", "live", "lost"}, r : Rnic \cup {<<>>}, pd : Pd]

PdTyped ==
    /\ pd_index \in [Rnic -> [Pd -> PdT]]
    /\ mr \in [Region -> RegionT]
    /\ IsFiniteSet({m \in Region : mr[m].valid})

HeldBy(r, p) == {m \in Region : mr[m].valid /\ mr[m].r = r /\ mr[m].pd = p}

\* Regions are registered with an RNIC that is open.
OfOpenRnic == \A m \in Region : mr[m].valid => mr[m].r \in Rnic /\ rnic[mr[m].r]

Counted ==
    \A r \in Rnic, p \in Pd : rnic[r] =>
        IF pd_index[r][p].available THEN HeldBy(r, p) = {}
        ELSE pd_index[r][p].in_use = Cardinality(HeldBy(r, p))

\* The count of a domain that is allocated is exact also when no region is in
\* it: otherwise it could not be deallocated.
PdInv ==
    /\ PdTyped
    /\ misuse \cap PdExcepted = {} => OfOpenRnic /\ Counted

SameDomains == UNCHANGED <<rnic, pd_index, mr>> /\ misuse \subseteq misuse'

DomainStep(r) ==
    \/ iwarp_rnic_open(r) \/ iwarp_rnic_close(r) \/ iwarp_pd_allocate(r)
    \/ \E p \in Pd :
         \/ iwarp_pd_deallocate(r, p)
         \/ \E m \in Region : iwarp_nsmr_register(r, p, m) \/ iwarp_deregister_mem(r, p, m)
    \/ \E m \in Region : iwarp_deallocate_stag(r, m)

\* The other steps leave domains and regions alone.
LEMMA DomainKinds ==
    ASSUME Typed, [Next]_vars
    PROVE  SameDomains \/ \E r \in Rnic : DomainStep(r)
<1>0. misuse \subseteq misuse'
    BY StepNotes
<1>1. CASE UNCHANGED vars
    BY <1>1 DEF vars, SameDomains
<1>2. CASE \E c \in Cq : iwarp_cq_create(c) \/ iwarp_cq_destroy(c)
    BY <1>2 DEF iwarp_cq_create, iwarp_cq_destroy, SameDomains
<1>3. ASSUME NEW r \in Rnic, RnicStep(r)
      PROVE  SameDomains \/ DomainStep(r)
  <2>1. CASE DomainStep(r)
      BY <2>1
  <2>2. CASE iwarp_rnic_advance(r) \/ \E c \in Cq : iwarp_cq_poll(r, c)
      BY <1>0, <2>2 DEF iwarp_rnic_advance, iwarp_cq_poll, SameDomains
  <2>3. CASE \E p \in Pd : \E scq, rcq \in Cq : iwarp_qp_create(r, p, scq, rcq)
      BY <1>0, <2>3 DEF iwarp_qp_create, SameDomains
  <2>4. ASSUME NEW q \in Qp, QpStep(r, q) PROVE SameDomains
    <3>1. CASE iwarp_qp_destroy(r, q) \/ active_connect_refused(r, q) \/ iwarp_qp_disconnect(r, q)
        BY <1>0, <3>1 DEF iwarp_qp_destroy, active_connect_refused, iwarp_qp_disconnect, SameDomains
    <3>2. CASE iwarp_qp_active_connect(r, q) \/ iwarp_qp_passive_connect(r, q)
        BY <1>0, <3>2 DEF iwarp_qp_active_connect, iwarp_qp_passive_connect, SameDomains
    <3>3. CASE \E id \in 1 .. MaxWr \ Outstanding, ok \in BOOLEAN : iwarp_qp_post_rq(r, q, id, ok)
        BY <1>0, <3>3 DEF iwarp_qp_post_rq, post_rq_connected, post_rq_queued, SameDomains
    <3>4. CASE \E signaled \in BOOLEAN : iwarp_qp_post_sq(r, q, signaled)
        BY <1>0, <3>4 DEF iwarp_qp_post_sq, post_sq_send, post_sq_read, SameDomains
    <3> QED BY <2>4, <3>1, <3>2, <3>3, <3>4, Zenon DEF QpStep
  <2> QED BY <1>3, <2>1, <2>2, <2>3, <2>4, Zenon DEF RnicStep, DomainStep
<1> QED BY <1>1, <1>2, <1>3, Zenon DEF Next

\* A region that is not used.
LEMMA NoRegionT == NoRegion \in RegionT /\ ~NoRegion.valid
<1>1. PICK e : e = <<>> /\ e \in Rnic \cup {<<>>}
    OBVIOUS
<1>2. 0 \in Pd
    BY VerbsAssumption DEF Pd
<1>3. \A v \in BOOLEAN : LET x == [valid |-> v, tag |-> "none", r |-> e, pd |-> 0]
                         IN  x \in RegionT /\ x.valid = v
    BY <1>1, <1>2 DEF RegionT
<1>4. NoRegion = [valid |-> FALSE, tag |-> "none", r |-> e, pd |-> 0]
    BY <1>1, Zenon DEF NoRegion
<1>5. NoRegion \in RegionT /\ NoRegion.valid = FALSE
    BY <1>3, <1>4, Zenon
<1> QED BY <1>5, Zenon

\* A new RNIC has all its protection domains to give.
LEMMA NoPdsT == NoPds \in [Pd -> PdT] /\ \A p \in Pd : NoPds[p].available
BY DEF NoPds, PdT

\* At the start there are no regions.
LEMMA PdInit == Init => PdInv
<1> SUFFICES ASSUME Init PROVE PdInv
    OBVIOUS
<1>1. mr \in [Region -> RegionT] /\ \A m \in Region : ~mr[m].valid
    BY NoRegionT DEF Init
<1>2. pd_index \in [Rnic -> [Pd -> PdT]]
    BY NoPdsT DEF Init
<1>3. {m \in Region : mr[m].valid} = {}
    BY <1>1
<1>4. IsFiniteSet({m \in Region : mr[m].valid})
    BY <1>3, FS_EmptySet
<1>5. \A r \in Rnic : ~rnic[r]
    BY DEF Init
<1>6. OfOpenRnic /\ Counted
    BY <1>1, <1>5 DEF OfOpenRnic, Counted
<1> QED BY <1>1, <1>2, <1>4, <1>6 DEF PdInv, PdTyped

\* The regions of a domain are finitely many.
LEMMA HeldFinite ==
    ASSUME PdTyped, NEW r, NEW p
    PROVE  IsFiniteSet(HeldBy(r, p)) /\ Cardinality(HeldBy(r, p)) \in Nat
<1>1. HeldBy(r, p) \subseteq {m \in Region : mr[m].valid}
    BY DEF HeldBy
<1>2. IsFiniteSet(HeldBy(r, p))
    BY <1>1, FS_Subset DEF PdTyped
<1> QED BY <1>2, FS_CardinalityType

\* One domain changes.
LEMMA PdUpdate ==
    ASSUME pd_index \in [Rnic -> [Pd -> PdT]], NEW r \in Rnic, NEW p \in Pd, NEW x \in PdT,
           pd_index' = [pd_index EXCEPT ![r][p] = x]
    PROVE  /\ pd_index' \in [Rnic -> [Pd -> PdT]]
           /\ pd_index'[r][p] = x
           /\ \A s \in Rnic, o \in Pd : s # r \/ o # p => pd_index'[s][o] = pd_index[s][o]
<1>1. pd_index' \in [Rnic -> [Pd -> PdT]] /\ pd_index'[r][p] = x
    OBVIOUS
<1>2. ASSUME NEW s \in Rnic, NEW o \in Pd, s # r \/ o # p
      PROVE  pd_index'[s][o] = pd_index[s][o]
    BY <1>2
<1> QED BY <1>1, <1>2

\* Opening: regions keep their domain, and there are none unless another RNIC
\* is open.
LEMMA PdOpen ==
    ASSUME PdInv, Typed, NEW r \in Rnic, iwarp_rnic_open(r)
    PROVE  PdInv'
<1>1. /\ rnic' = [rnic EXCEPT ![r] = TRUE] /\ pd_index' = [pd_index EXCEPT ![r] = NoPds]
      /\ mr' = [m \in Region |-> Forgotten(mr[m])]
      /\ misuse \subseteq misuse' /\ ((\E x \in Rnic : rnic[x]) => "second RNIC" \in misuse')
    BY NoteGrows DEF iwarp_rnic_open, Opens
<1>2. ASSUME NEW m \in Region
      PROVE  mr'[m] \in RegionT /\ mr'[m].valid = mr[m].valid /\ mr'[m].r = mr[m].r /\ mr'[m].pd = mr[m].pd
  <2>1. PICK x \in RegionT : x = mr[m]
      BY DEF PdInv, PdTyped
  <2>2. mr'[m] = IF x.tag = "live" THEN [x EXCEPT !.tag = "lost"] ELSE x
      BY <1>1, <2>1 DEF Forgotten
  <2> QED BY <2>1, <2>2 DEF RegionT
<1>3. mr' \in [Region -> RegionT]
    BY <1>1, <1>2
<1>4. {m \in Region : mr'[m].valid} = {m \in Region : mr[m].valid}
    BY <1>2
<1>5. pd_index' \in [Rnic -> [Pd -> PdT]] /\ \A p \in Pd : pd_index'[r][p].available
    BY <1>1, NoPdsT DEF PdInv, PdTyped
<1>6. PdTyped'
    BY <1>3, <1>4, <1>5 DEF PdInv, PdTyped
<1>7. ASSUME (misuse \cap PdExcepted = {})'
      PROVE  OfOpenRnic' /\ Counted'
  <2>1. (\A x \in Rnic : ~rnic[x]) /\ OfOpenRnic
      BY <1>1, <1>7 DEF PdInv, PdExcepted
  <2>2. \A m \in Region : ~mr[m].valid
      BY <2>1 DEF OfOpenRnic
  <2>3. \A m \in Region : ~mr'[m].valid
      BY <1>2, <2>2
  <2>4. \A x \in Rnic : x # r => ~rnic'[x]
      BY <1>1, <2>1 DEF Typed
  <2>5. \A p \in Pd : HeldBy(r, p)' = {}
      BY <2>3 DEF HeldBy
  <2> QED BY <1>5, <2>3, <2>4, <2>5 DEF OfOpenRnic, Counted
<1> QED BY <1>6, <1>7 DEF PdInv

\* Closing: it frees all regions, and no other RNIC is open.
LEMMA PdClose ==
    ASSUME PdInv, ConnInv, NEW r \in Rnic, iwarp_rnic_close(r)
    PROVE  PdInv'
<1>1. /\ rnic' = [rnic EXCEPT ![r] = FALSE] /\ rnic[r] /\ pd_index' = pd_index
      /\ mr' = [m \in Region |-> NoRegion] /\ misuse' = misuse
    BY DEF iwarp_rnic_close, v_rnic_close
<1>2. mr' \in [Region -> RegionT] /\ \A m \in Region : ~mr'[m].valid
    BY <1>1, NoRegionT
<1>3. {m \in Region : mr'[m].valid} = {}
    BY <1>2
<1>4. IsFiniteSet({m \in Region : mr'[m].valid})
    BY <1>3, FS_EmptySet
<1>5. PdTyped'
    BY <1>1, <1>2, <1>4 DEF PdInv, PdTyped
<1>6. ASSUME (misuse \cap PdExcepted = {})'
      PROVE  OfOpenRnic' /\ Counted'
  <2>1. \A s \in Rnic : rnic[s] => s = r
      BY <1>1, <1>6 DEF ConnInv, OneRnic, PdExcepted
  <2>2. \A s \in Rnic : ~rnic'[s]
      BY <1>1, <2>1 DEF ConnInv, Typed
  <2> QED BY <1>2, <2>2 DEF OfOpenRnic, Counted
<1> QED BY <1>5, <1>6 DEF PdInv

\* Allocating: the domain taken has no regions.
LEMMA PdAllocate ==
    ASSUME PdInv, NEW r \in Rnic, iwarp_pd_allocate(r)
    PROVE  PdInv'
<1>1. pd_index \in [Rnic -> [Pd -> PdT]]
    BY DEF PdInv, PdTyped
<1>2. Available(pd_index[r]) \in SUBSET Nat /\ Available(pd_index[r]) \subseteq Pd
    BY <1>1, VerbsAssumption DEF Available, Pd
<1>3. First(Available(pd_index[r])) \in Available(pd_index[r])
    BY <1>2, FirstIn DEF iwarp_pd_allocate
<1>4. PICK p \in Pd : p = First(Available(pd_index[r])) /\ pd_index[r][p].available
    BY <1>2, <1>3 DEF Available
<1>5. PICK x \in PdT : x = [available |-> FALSE, in_use |-> 0] /\ ~x.available /\ x.in_use = 0
  <2>1. \A v \in BOOLEAN : LET z == [available |-> v, in_use |-> 0]
                           IN  z \in PdT /\ z.available = v /\ z.in_use = 0
      BY DEF PdT
  <2> QED BY <2>1, Zenon
<1>6. pd_index' = [pd_index EXCEPT ![r][p] = x]
    BY <1>4, <1>5, Zenon DEF iwarp_pd_allocate
<1>7. UNCHANGED <<rnic, mr, misuse>>
    BY DEF iwarp_pd_allocate
<1>8. /\ pd_index' \in [Rnic -> [Pd -> PdT]] /\ pd_index'[r][p] = x
      /\ \A s \in Rnic, o \in Pd : s # r \/ o # p => pd_index'[s][o] = pd_index[s][o]
    BY <1>1, <1>6, PdUpdate
<1>9. PdTyped'
    BY <1>7, <1>8 DEF PdInv, PdTyped
<1>10. \A s \in Rnic, o \in Pd : HeldBy(s, o)' = HeldBy(s, o)
    BY <1>7 DEF HeldBy
<1>11. ASSUME OfOpenRnic, Counted
       PROVE  OfOpenRnic' /\ Counted'
  <2>1. OfOpenRnic'
      BY <1>7, <1>11 DEF OfOpenRnic
  <2>2. ASSUME NEW s \in Rnic, NEW o \in Pd, rnic[s]
        PROVE  IF pd_index'[s][o].available THEN HeldBy(s, o)' = {}
               ELSE pd_index'[s][o].in_use = Cardinality(HeldBy(s, o)')
    <3>1. CASE s = r /\ o = p
      <4>1. HeldBy(r, p) = {}
          BY <1>4, <1>11, <2>2, <3>1 DEF Counted
      <4>2. Cardinality(HeldBy(r, p)') = 0
          BY <1>10, <4>1, FS_EmptySet
      <4> QED BY <1>5, <1>8, <3>1, <4>2
    <3>2. CASE s # r \/ o # p
        BY <1>8, <1>10, <1>11, <2>2, <3>2 DEF Counted
    <3> QED BY <3>1, <3>2
  <2> QED BY <1>7, <2>1, <2>2 DEF Counted
<1> QED BY <1>7, <1>9, <1>11 DEF PdInv

\* Deallocating: its count says that it has none.
LEMMA PdDeallocate ==
    ASSUME PdInv, NEW r \in Rnic, NEW p \in Pd, iwarp_pd_deallocate(r, p)
    PROVE  PdInv'
<1>1. pd_index \in [Rnic -> [Pd -> PdT]]
    BY DEF PdInv, PdTyped
<1>2. PICK d \in PdT : d = pd_index[r][p]
    BY <1>1
<1> DEFINE x == [d EXCEPT !.available = TRUE]
<1>3. x \in PdT /\ x.available
    BY DEF PdT
<1>4. pd_index' = [pd_index EXCEPT ![r][p] = x]
    BY <1>1, <1>2 DEF iwarp_pd_deallocate
<1> HIDE DEF x
<1>5. UNCHANGED <<rnic, mr, misuse>> /\ rnic[r] /\ ~d.available /\ d.in_use <= 0 /\ d.in_use \in Int
    BY <1>2 DEF iwarp_pd_deallocate, PdIdle, PdT
<1>6. /\ pd_index' \in [Rnic -> [Pd -> PdT]] /\ pd_index'[r][p] = x
      /\ \A s \in Rnic, o \in Pd : s # r \/ o # p => pd_index'[s][o] = pd_index[s][o]
    BY <1>1, <1>3, <1>4, PdUpdate
<1>7. PdTyped'
    BY <1>5, <1>6 DEF PdInv, PdTyped
<1>8. \A s \in Rnic, o \in Pd : HeldBy(s, o)' = HeldBy(s, o)
    BY <1>5 DEF HeldBy
<1>9. ASSUME OfOpenRnic, Counted
      PROVE  OfOpenRnic' /\ Counted'
  <2>1. OfOpenRnic'
      BY <1>5, <1>9 DEF OfOpenRnic
  <2>2. HeldBy(r, p) = {}
    <3>1. IsFiniteSet(HeldBy(r, p)) /\ Cardinality(HeldBy(r, p)) \in Nat
        BY HeldFinite DEF PdInv
    <3>2. d.in_use = Cardinality(HeldBy(r, p))
        BY <1>2, <1>5, <1>9 DEF Counted
    <3>3. Cardinality(HeldBy(r, p)) = 0
        BY <1>5, <3>1, <3>2
    <3> QED BY <3>1, <3>3, FS_EmptySet
  <2>3. ASSUME NEW s \in Rnic, NEW o \in Pd, rnic[s]
        PROVE  IF pd_index'[s][o].available THEN HeldBy(s, o)' = {}
               ELSE pd_index'[s][o].in_use = Cardinality(HeldBy(s, o)')
    <3>1. CASE s = r /\ o = p
        BY <1>3, <1>6, <1>8, <2>2, <3>1
    <3>2. CASE s # r \/ o # p
        BY <1>6, <1>8, <1>9, <2>3, <3>2 DEF Counted
    <3> QED BY <3>1, <3>2
  <2> QED BY <1>5, <2>1, <2>3 DEF Counted
<1> QED BY <1>5, <1>7, <1>9 DEF PdInv

\* One region changes.
LEMMA RegionUpdate ==
    ASSUME PdTyped, NEW m \in Region, NEW x \in RegionT, mr' = [mr EXCEPT ![m] = x]
    PROVE  /\ mr' \in [Region -> RegionT] /\ mr'[m] = x
           /\ \A n \in Region : n # m => mr'[n] = mr[n]
           /\ IsFiniteSet({n \in Region : mr'[n].valid})
<1>1. /\ mr' \in [Region -> RegionT] /\ mr'[m] = x
      /\ \A n \in Region : n # m => mr'[n] = mr[n]
    BY DEF PdTyped
<1>2. {n \in Region : mr'[n].valid} \subseteq {n \in Region : mr[n].valid} \cup {m}
    BY <1>1
<1>3. IsFiniteSet({n \in Region : mr[n].valid} \cup {m})
    BY FS_AddElement DEF PdTyped
<1> QED BY <1>1, <1>2, <1>3, FS_Subset

\* Registering: the domain has one region more.
LEMMA PdRegister ==
    ASSUME PdInv, NEW r \in Rnic, NEW p \in Pd, NEW m \in Region, iwarp_nsmr_register(r, p, m)
    PROVE  PdInv'
<1>1. pd_index \in [Rnic -> [Pd -> PdT]] /\ PdTyped
    BY DEF PdInv, PdTyped
<1>2. PICK d \in PdT : d = pd_index[r][p]
    BY <1>1
<1> DEFINE x == [d EXCEPT !.in_use = @ + 1]
<1>3. x \in PdT /\ x.available = d.available /\ x.in_use = d.in_use + 1
    BY DEF PdT
<1>4. pd_index' = [pd_index EXCEPT ![r][p] = x]
    BY <1>1, <1>2 DEF iwarp_nsmr_register
<1> HIDE DEF x
<1>5. /\ pd_index' \in [Rnic -> [Pd -> PdT]] /\ pd_index'[r][p] = x
      /\ \A s \in Rnic, o \in Pd : s # r \/ o # p => pd_index'[s][o] = pd_index[s][o]
    BY <1>1, <1>3, <1>4, PdUpdate
<1>6. PICK y \in RegionT : y = v_mem_stag_create(r, p) /\ y.valid /\ y.r = r /\ y.pd = p
  <2>1. \A v \in BOOLEAN : LET z == [valid |-> v, tag |-> "live", r |-> r, pd |-> p]
                           IN  z \in RegionT /\ z.valid = v /\ z.r = r /\ z.pd = p
      BY DEF RegionT
  <2> QED BY <2>1, Zenon DEF v_mem_stag_create
<1>7. mr' = [mr EXCEPT ![m] = y] /\ ~mr[m].valid /\ rnic' = rnic /\ rnic[r]
    BY <1>6 DEF iwarp_nsmr_register
<1>8. /\ mr' \in [Region -> RegionT] /\ mr'[m] = y
      /\ \A n \in Region : n # m => mr'[n] = mr[n]
      /\ IsFiniteSet({n \in Region : mr'[n].valid})
    BY <1>1, <1>7, RegionUpdate
<1>9. PdTyped'
    BY <1>5, <1>8 DEF PdTyped
<1>10. misuse \subseteq misuse' /\ (pd_index[r][p].available => "no domain" \in misuse')
    BY NoteGrows DEF iwarp_nsmr_register
<1>11. ASSUME (misuse \cap PdExcepted = {})'
       PROVE  OfOpenRnic' /\ Counted'
  <2>1. OfOpenRnic /\ Counted /\ ~d.available
      BY <1>2, <1>10, <1>11 DEF PdInv, PdExcepted
  <2>2. OfOpenRnic'
      BY <1>6, <1>7, <1>8, <2>1 DEF OfOpenRnic
  <2>3. HeldBy(r, p)' = HeldBy(r, p) \cup {m} /\ m \notin HeldBy(r, p)
      BY <1>6, <1>7, <1>8 DEF HeldBy
  <2>4. \A s \in Rnic, o \in Pd : s # r \/ o # p => HeldBy(s, o)' = HeldBy(s, o)
      BY <1>6, <1>7, <1>8 DEF HeldBy
  <2>5. IsFiniteSet(HeldBy(r, p))
      BY <1>1, HeldFinite
  <2>6. Cardinality(HeldBy(r, p)') = Cardinality(HeldBy(r, p)) + 1
      BY <2>3, <2>5, FS_AddElement
  <2>7. d.in_use = Cardinality(HeldBy(r, p))
      BY <1>2, <1>7, <2>1 DEF Counted
  <2>8. ASSUME NEW s \in Rnic, NEW o \in Pd, rnic[s]
        PROVE  IF pd_index'[s][o].available THEN HeldBy(s, o)' = {}
               ELSE pd_index'[s][o].in_use = Cardinality(HeldBy(s, o)')
    <3>1. CASE s = r /\ o = p
        BY <1>3, <1>5, <2>1, <2>6, <2>7, <3>1
    <3>2. CASE s # r \/ o # p
        BY <1>5, <2>1, <2>4, <2>8, <3>2 DEF Counted
    <3> QED BY <3>1, <3>2
  <2> QED BY <1>7, <2>2, <2>8 DEF Counted
<1> QED BY <1>9, <1>11 DEF PdInv

\* Deregistering: one less.
LEMMA PdDeregister ==
    ASSUME PdInv, NEW r \in Rnic, NEW p \in Pd, NEW m \in Region, iwarp_deregister_mem(r, p, m)
    PROVE  PdInv'
<1>1. pd_index \in [Rnic -> [Pd -> PdT]] /\ PdTyped
    BY DEF PdInv, PdTyped
<1>2. PICK d \in PdT : d = pd_index[r][p]
    BY <1>1
<1> DEFINE x == [d EXCEPT !.in_use = @ - 1]
<1>3. x \in PdT /\ x.available = d.available /\ x.in_use = d.in_use - 1
    BY DEF PdT
<1>4. pd_index' = [pd_index EXCEPT ![r][p] = x]
    BY <1>1, <1>2 DEF iwarp_deregister_mem
<1> HIDE DEF x
<1>5. /\ pd_index' \in [Rnic -> [Pd -> PdT]] /\ pd_index'[r][p] = x
      /\ \A s \in Rnic, o \in Pd : s # r \/ o # p => pd_index'[s][o] = pd_index[s][o]
    BY <1>1, <1>3, <1>4, PdUpdate
<1>6. /\ mr' = [mr EXCEPT ![m] = NoRegion] /\ mr[m].valid /\ mr[m].r = r
      /\ rnic' = rnic /\ rnic[r]
    BY DEF iwarp_deregister_mem, NoTags, v_mem_deregister
<1>7. PICK y \in RegionT : y = NoRegion /\ ~y.valid
    BY NoRegionT, Zenon
<1>8. /\ mr' \in [Region -> RegionT] /\ mr'[m] = y
      /\ \A n \in Region : n # m => mr'[n] = mr[n]
      /\ IsFiniteSet({n \in Region : mr'[n].valid})
    BY <1>1, <1>6, <1>7, RegionUpdate
<1>9. PdTyped'
    BY <1>5, <1>8 DEF PdTyped
<1>10. misuse \subseteq misuse' /\ (p # mr[m].pd => "other domain" \in misuse')
    BY NoteGrows DEF iwarp_deregister_mem
<1>11. ASSUME (misuse \cap PdExcepted = {})'
       PROVE  OfOpenRnic' /\ Counted'
  <2>1. OfOpenRnic /\ Counted /\ mr[m].pd = p
      BY <1>10, <1>11 DEF PdInv, PdExcepted
  <2>2. OfOpenRnic'
      BY <1>6, <1>7, <1>8, <2>1 DEF OfOpenRnic
  <2>3. HeldBy(r, p)' = HeldBy(r, p) \ {m} /\ m \in HeldBy(r, p)
      BY <1>6, <1>7, <1>8, <2>1 DEF HeldBy
  <2>4. \A s \in Rnic, o \in Pd : s # r \/ o # p => HeldBy(s, o)' = HeldBy(s, o)
      BY <1>6, <1>7, <1>8, <2>1 DEF HeldBy
  <2>5. IsFiniteSet(HeldBy(r, p))
      BY <1>1, HeldFinite
  <2>6. Cardinality(HeldBy(r, p)') = Cardinality(HeldBy(r, p)) - 1
      BY <2>3, <2>5, FS_RemoveElement
  <2>7. ~d.available /\ d.in_use = Cardinality(HeldBy(r, p))
      BY <1>2, <1>6, <2>1, <2>3 DEF Counted
  <2>8. ASSUME NEW s \in Rnic, NEW o \in Pd, rnic[s]
        PROVE  IF pd_index'[s][o].available THEN HeldBy(s, o)' = {}
               ELSE pd_index'[s][o].in_use = Cardinality(HeldBy(s, o)')
    <3>1. CASE s = r /\ o = p
        BY <1>3, <1>5, <2>6, <2>7, <3>1
    <3>2. CASE s # r \/ o # p
        BY <1>5, <2>1, <2>4, <2>8, <3>2 DEF Counted
    <3> QED BY <3>1, <3>2
  <2> QED BY <1>6, <2>2, <2>8 DEF Counted
<1> QED BY <1>9, <1>11 DEF PdInv

\* What keeps the domains, and the domain of every region, keeps the counts.
LEMMA PdKept ==
    ASSUME PdInv, UNCHANGED <<rnic, pd_index>>, misuse \subseteq misuse', mr' \in [Region -> RegionT],
           \A m \in Region : mr'[m].valid = mr[m].valid /\ mr'[m].r = mr[m].r /\ mr'[m].pd = mr[m].pd
    PROVE  PdInv'
<1>1. {m \in Region : mr'[m].valid} = {m \in Region : mr[m].valid}
    OBVIOUS
<1>2. PdTyped'
    BY <1>1 DEF PdInv, PdTyped
<1>3. \A s \in Rnic, o \in Pd : HeldBy(s, o)' = HeldBy(s, o)
    BY DEF HeldBy
<1>4. (OfOpenRnic => OfOpenRnic') /\ (Counted => Counted')
    BY <1>3 DEF OfOpenRnic, Counted
<1>5. (misuse \cap PdExcepted = {})' => misuse \cap PdExcepted = {}
    OBVIOUS
<1> QED BY <1>2, <1>4, <1>5 DEF PdInv

\* Every step keeps the counts of the domains.
LEMMA PdStep ==
    ASSUME ConnInv, PdInv, [Next]_vars
    PROVE  PdInv'
<1>1. Typed /\ PdTyped
    BY DEF ConnInv, PdInv
<1>2. CASE SameDomains
    BY <1>1, <1>2, PdKept DEF SameDomains, PdTyped
<1>3. ASSUME NEW r \in Rnic, DomainStep(r)
      PROVE  PdInv'
  <2>1. CASE iwarp_rnic_open(r) \/ iwarp_rnic_close(r) \/ iwarp_pd_allocate(r)
      BY <1>1, <2>1, PdOpen, PdClose, PdAllocate
  <2>2. ASSUME NEW p \in Pd, iwarp_pd_deallocate(r, p) PROVE PdInv'
      BY <2>2, PdDeallocate
  <2>3. ASSUME NEW p \in Pd, NEW m \in Region, iwarp_nsmr_register(r, p, m) \/ iwarp_deregister_mem(r, p, m)
        PROVE  PdInv'
      BY <2>3, PdRegister, PdDeregister
  <2>4. ASSUME NEW m \in Region, iwarp_deallocate_stag(r, m) PROVE PdInv'
    <3>1. PICK x \in RegionT : x = mr[m]
        BY <1>1 DEF PdTyped
    <3> DEFINE y == [x EXCEPT !.tag = "none"]
    <3>2. y \in RegionT /\ y.valid = x.valid /\ y.r = x.r /\ y.pd = x.pd
        BY DEF RegionT
    <3>3. mr' = [mr EXCEPT ![m] = y]
        BY <1>1, <2>4, <3>1 DEF iwarp_deallocate_stag, v_mem_stag_destroy
    <3> HIDE DEF y
    <3>4. mr' \in [Region -> RegionT] /\ mr'[m] = y /\ \A n \in Region : n # m => mr'[n] = mr[n]
        BY <1>1, <3>2, <3>3, RegionUpdate
    <3>5. \A n \in Region : mr'[n].valid = mr[n].valid /\ mr'[n].r = mr[n].r /\ mr'[n].pd = mr[n].pd
        BY <3>1, <3>2, <3>4
    <3>6. UNCHANGED <<rnic, pd_index>> /\ misuse \subseteq misuse'
        BY <2>4 DEF iwarp_deallocate_stag
    <3> QED BY <3>4, <3>5, <3>6, PdKept
  <2> QED BY <1>3, <2>1, <2>2, <2>3, <2>4, Zenon DEF DomainStep
<1> QED BY <1>1, <1>2, <1>3, DomainKinds

\* A domain lasts as long as the regions registered in it and is counted once
\* for each, for any number of domains and regions (pd.c, rnic.c; the
\* exceptions are PdHeld's).
THEOREM RegionsHoldDomains == Spec => []PdHeld
<1>1. PdInv => PdHeld
  <2> SUFFICES ASSUME PdInv, misuse \cap PdExcepted = {}, NEW r \in Rnic, NEW p \in Pd, rnic[r],
                      HeldBy(r, p) # {}
               PROVE  ~pd_index[r][p].available /\ pd_index[r][p].in_use = Cardinality(HeldBy(r, p))
      BY DEF PdHeld, PdExcepted, HeldBy
  <2> QED BY DEF PdInv, Counted
<1> QED BY <1>1, PdInit, PdStep, ConnInvHolds, PTL DEF Spec

================================================================================
