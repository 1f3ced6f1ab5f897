---------------------------------- MODULE Verbs --------------------------------
(***************************************************************************)
(* The verbs of one process on top of the library (verbs/ without          *)
(* KERNEL_IWARP): RNICs with their protection domains, queue pairs and the *)
(* queue of receives posted before a connection, on top of what the        *)
(* process has only once, the sockets RDMAP knows, the memory regions and  *)
(* the completion queues.                                                  *)
(*                                                                         *)
(* The peers are left open: they accept, refuse, send and answer as they   *)
(* like.  What RDMAP does with a socket is in Rdmap and SocketTable.       *)
(***************************************************************************)
EXTENDS Integers, Sequences, FiniteSets, Functions

CONSTANTS
    Rnic, Cq, Region, \* handles
    MAX_QP, MAX_PROT_DOMAIN, MAX_WRQ,
    CqDepth,          \* entries a completion queue holds
    MaxFd,            \* bound: descriptors
    MaxWr,            \* bound: receives outstanding at once, one per identifier
    Misuse,           \* bound: the kinds of misuse that happen,
    MaxMisuse         \* and how many of them in one behaviour

ASSUME VerbsAssumption ==
    /\ MAX_QP \in Nat \ {0} /\ MAX_PROT_DOMAIN \in Nat \ {0}
    /\ MAX_WRQ \in Nat /\ CqDepth \in Nat /\ MaxFd \in Nat /\ MaxWr \in Nat

Qp == 0..(MAX_QP - 1)
Pd == 0..(MAX_PROT_DOMAIN - 1)
Fd == 1..MaxFd
NoFd == 0

VARIABLES
    rnic,             \* is it open
    tables,           \* are the socket table and the tag tree there
    pd_index,         \* of each RNIC: available, in_use
    qp_index,         \* of each RNIC: available, connected, socket_fd, its queues
    recv_q,           \* of each RNIC: receives posted before a connection
    sock,             \* descriptors: open, known to RDMAP, posted receives, reads
    cq,               \* completion queues: do they exist, what they hold
    mr                \* memory regions

\* History, for the properties only.
VARIABLE
    misuse            \* uses of the verbs that the properties make exceptions for

vars == <<rnic, tables, pd_index, qp_index, recv_q, sock, cq, mr, misuse>>

NoSock == [open |-> FALSE, reg |-> FALSE, scq |-> <<>>, rcq |-> <<>>, posted |-> <<>>, reads |-> 0]
NoQp == [available |-> TRUE, connected |-> FALSE, fd |-> NoFd, scq |-> <<>>, rcq |-> <<>>]
v_create_cq == [live |-> TRUE, q |-> <<>>]
v_destroy_cq == [live |-> FALSE, q |-> <<>>]
NoRegion == [valid |-> FALSE, tag |-> "none", r |-> <<>>, pd |-> 0]
NoPds == [p \in Pd |-> [available |-> TRUE, in_use |-> 0]]
NoQps == [q \in Qp |-> NoQp]

Init ==
    /\ rnic = [r \in Rnic |-> FALSE]
    /\ tables = FALSE
    /\ pd_index = [r \in Rnic |-> NoPds]
    /\ qp_index = [r \in Rnic |-> NoQps]
    /\ recv_q = [r \in Rnic |-> <<>>]
    /\ sock = [f \in Fd |-> NoSock]
    /\ cq = [c \in Cq |-> v_destroy_cq]
    /\ mr = [m \in Region |-> NoRegion]
    /\ misuse = {}

Note(what) ==
    /\ misuse' = misuse \cup what
    /\ misuse' \subseteq Misuse
    /\ Cardinality(misuse') <= MaxMisuse

--------------------------------------------------------------------------------
(* RNICs and protection domains *)

\* The sockets as a new, or a freed, socket table knows them: not at all.
Unregistered == [f \in Fd |-> [NoSock EXCEPT !.open = sock[f].open]]

\* A new tree of tags does not know the tags that regions still have.
Forgotten(m) == IF m.tag = "live" THEN [m EXCEPT !.tag = "lost"] ELSE m

\* mem_init and rdmap_init make new tables whatever is in the present ones.
\* (What becomes of the sockets is left to the caller.)
Opens(r) ==
    /\ ~rnic[r]
    /\ rnic' = [rnic EXCEPT ![r] = TRUE]
    /\ tables' = TRUE
    /\ mr' = [m \in Region |-> Forgotten(mr[m])]
    /\ pd_index' = [pd_index EXCEPT ![r] = NoPds]
    /\ qp_index' = [qp_index EXCEPT ![r] = NoQps]
    /\ recv_q' = [recv_q EXCEPT ![r] = <<>>]
    /\ Note(IF \E x \in Rnic : rnic[x] THEN {"second RNIC"} ELSE {})
    /\ UNCHANGED cq

iwarp_rnic_open(r) == Opens(r) /\ sock' = Unregistered

\* mem_fini and rdmap_fin; the sockets stay open.
v_rnic_close ==
    /\ tables' = FALSE
    /\ sock' = Unregistered
    /\ mr' = [m \in Region |-> NoRegion]

iwarp_rnic_close(r) ==
    /\ rnic[r]
    /\ tables
    /\ rnic' = [rnic EXCEPT ![r] = FALSE]
    /\ v_rnic_close
    /\ UNCHANGED <<pd_index, qp_index, recv_q, cq, misuse>>

\* The first that is available.
Available(t) == {i \in DOMAIN t : t[i].available}
First(S) == CHOOSE i \in S : \A j \in S : i <= j

iwarp_pd_allocate(r) ==
    /\ rnic[r]
    /\ Available(pd_index[r]) # {}
    /\ pd_index' = [pd_index EXCEPT
         ![r][First(Available(pd_index[r]))] = [available |-> FALSE, in_use |-> 0]]
    /\ UNCHANGED <<rnic, tables, qp_index, recv_q, sock, cq, mr, misuse>>

\* Mutant: the domain's regions are not looked at.
PdIdle_any(r, p) == ~pd_index[r][p].available

PdIdle(r, p) == pd_index[r][p].in_use <= 0 /\ ~pd_index[r][p].available

\* A queue pair of the domain does not keep it.
iwarp_pd_deallocate(r, p) ==
    /\ rnic[r]
    /\ PdIdle(r, p)
    /\ pd_index' = [pd_index EXCEPT ![r][p].available = TRUE]
    /\ UNCHANGED <<rnic, tables, qp_index, recv_q, sock, cq, mr, misuse>>

\* v_mem_register and v_mem_stag_create: a region with a tag for all of it.
v_mem_stag_create(r, p) == [valid |-> TRUE, tag |-> "live", r |-> r, pd |-> p]

\* Found in the tree of tags.
v_mem_stag_destroy(m) == [m EXCEPT !.tag = "none"]
HasTag(r, m) == mr[m].valid /\ mr[m].r = r /\ mr[m].tag = "live"

\* Refused while the region has tags, those of a tree that is gone included.
v_mem_deregister(m) == NoRegion
NoTags(r, m) == mr[m].valid /\ mr[m].r = r /\ mr[m].tag = "none"

\* The domain is not looked at, only counted up.
iwarp_nsmr_register(r, p, m) ==
    /\ rnic[r]
    /\ tables
    /\ ~mr[m].valid
    /\ mr' = [mr EXCEPT ![m] = v_mem_stag_create(r, p)]
    /\ pd_index' = [pd_index EXCEPT ![r][p].in_use = @ + 1]
    /\ Note(IF pd_index[r][p].available THEN {"no domain"} ELSE {})
    /\ UNCHANGED <<rnic, tables, qp_index, recv_q, sock, cq>>

iwarp_deallocate_stag(r, m) ==
    /\ rnic[r]
    /\ tables
    /\ HasTag(r, m)
    /\ mr' = [mr EXCEPT ![m] = v_mem_stag_destroy(@)]
    /\ UNCHANGED <<rnic, tables, pd_index, qp_index, recv_q, sock, cq, misuse>>

\* The region goes when it has no tags, and the domain the caller names is
\* counted down, its own or another one.
iwarp_deregister_mem(r, p, m) ==
    /\ rnic[r]
    /\ tables
    /\ NoTags(r, m)
    /\ mr' = [mr EXCEPT ![m] = v_mem_deregister(@)]
    /\ pd_index' = [pd_index EXCEPT ![r][p].in_use = @ - 1]
    /\ Note(IF p = mr[m].pd THEN {} ELSE {"other domain"})
    /\ UNCHANGED <<rnic, tables, qp_index, recv_q, sock, cq>>

--------------------------------------------------------------------------------
(* Completion queues *)

iwarp_cq_create(c) ==
    /\ ~cq[c].live
    /\ cq' = [cq EXCEPT ![c] = v_create_cq]
    /\ UNCHANGED <<rnic, tables, pd_index, qp_index, recv_q, sock, mr, misuse>>

\* Nothing asks whether a queue pair still uses the queue.
iwarp_cq_destroy(c) ==
    /\ cq[c].live
    /\ cq' = [cq EXCEPT ![c] = v_destroy_cq]
    /\ UNCHANGED <<rnic, tables, pd_index, qp_index, recv_q, sock, mr, misuse>>

CqFull(c) == Len(cq[c].q) = CqDepth

\* One completion more, if the queue is there and has room.  (One for a queue
\* that was destroyed goes to freed memory, which is not followed.)
Produced(c, e) ==
    IF cq[c].live /\ ~CqFull(c) THEN [cq EXCEPT ![c].q = Append(@, e)] ELSE cq

Known(f) == f \in Fd /\ sock[f].reg

\* What rdmap_poll can do to one socket: a message takes the first receive, or
\* the answer to a read arrives.
Arrivals ==
    {[sock |-> [sock EXCEPT ![f].posted = Tail(@)], cq |-> Produced(sock[f].rcq, "recv")] :
        f \in {x \in Fd : Known(x) /\ sock[x].posted # <<>>}}
    \cup
    {[sock |-> [sock EXCEPT ![f].reads = @ - 1], cq |-> Produced(sock[f].scq, "read")] :
        f \in {x \in Fd : Known(x) /\ sock[x].reads > 0}}

v_rnic_advance == \E a \in Arrivals : sock' = a.sock /\ cq' = a.cq

iwarp_rnic_advance(r) ==
    /\ rnic[r]
    /\ tables
    /\ v_rnic_advance
    /\ UNCHANGED <<rnic, tables, pd_index, qp_index, recv_q, mr, misuse>>

\* Polls RDMAP and comes back with the first completion once there is one.
\* (When it gives up, it reports a completion it has not read.)
v_poll_cq(c) ==
    \E a \in Arrivals \cup {[sock |-> sock, cq |-> cq]} :
        /\ a.cq[c].q # <<>>
        /\ sock' = a.sock
        /\ cq' = [a.cq EXCEPT ![c].q = Tail(@)]

iwarp_cq_poll(r, c) ==
    /\ rnic[r]
    /\ tables
    /\ cq[c].live
    /\ v_poll_cq(c)
    /\ UNCHANGED <<rnic, tables, pd_index, qp_index, recv_q, mr, misuse>>

--------------------------------------------------------------------------------
(* Queue pairs and their connections *)

\* The domain has to be allocated.  (On every error the attributes are lost.)
iwarp_qp_create(r, p, scq, rcq) ==
    /\ rnic[r]
    /\ Available(qp_index[r]) # {}
    /\ ~pd_index[r][p].available
    /\ cq[scq].live /\ cq[rcq].live
    /\ qp_index' = [qp_index EXCEPT ![r][First(Available(qp_index[r]))] =
         [@ EXCEPT !.available = FALSE, !.connected = FALSE, !.scq = scq, !.rcq = rcq]]
    /\ UNCHANGED <<rnic, tables, pd_index, recv_q, sock, cq, mr, misuse>>

\* Mutant: a connected queue pair is destroyed as well.
Destroyable_any(s) == ~s.available

Destroyable(s) == ~s.connected /\ ~s.available

\* The attributes are freed, socket_fd stays.
Destroyed(s) == [s EXCEPT !.available = TRUE, !.scq = <<>>, !.rcq = <<>>]

\* Receives that were posted before a connection stay in the queue.
iwarp_qp_destroy(r, q) ==
    /\ rnic[r]
    /\ Destroyable(qp_index[r][q])
    /\ qp_index' = [qp_index EXCEPT ![r][q] = Destroyed(@)]
    /\ UNCHANGED <<rnic, tables, pd_index, recv_q, sock, cq, mr, misuse>>

FreeFd == {f \in Fd : ~sock[f].open}

\* Mutant: the reset of the queue is forgotten.
AfterDispatch_keep(q, n) == q

\* iwarp_recv_event_dispatcher: the queue is emptied when all of it could be
\* posted; otherwise it stays as it is, with what was posted.
AfterDispatch(q, n) == IF n = Len(q) THEN <<>> ELSE q

\* rdmap_post_recv refuses while the completion queue is full.
RecvRoom(c) == ~CqFull(c)

\* How many of the queue's requests are posted before one fails.
Dispatched(q, c) ==
    IF RecvRoom(c) THEN Cardinality({i \in 1..Len(q) : \A j \in 1..i : q[j].ok}) ELSE 0

\* Some could not be posted: the connect call fails, its connection stays.
Undispatched(r, q) == Dispatched(recv_q[r], qp_index[r][q].rcq) < Len(recv_q[r])

\* The socket is known to RDMAP whether MPA startup succeeds or not.
v_rdmap_register_connection(own) ==
    [NoSock EXCEPT !.open = TRUE, !.reg = TRUE, !.scq = own.scq, !.rcq = own.rcq]

\* A socket registered for the queue pair, its receives flushed to it; busy
\* are the descriptors the connection has taken.
Connect(r, q, f, busy) ==
    LET own == qp_index[r][q]
        n == Dispatched(recv_q[r], own.rcq)
    IN  /\ qp_index' = [qp_index EXCEPT ![r][q].connected = TRUE, ![r][q].fd = f]
        /\ sock' = [x \in Fd |->
             IF x = f
             THEN [v_rdmap_register_connection(own) EXCEPT !.posted = SubSeq(recv_q[r], 1, n)]
             ELSE IF x \in busy THEN [sock[x] EXCEPT !.open = TRUE] ELSE sock[x]]
        /\ recv_q' = [recv_q EXCEPT ![r] = AfterDispatch(@, n)]
        /\ Note((IF own.connected THEN {"again"} ELSE {})
                  \cup (IF \E e \in Range(recv_q[r]) : e.qp # q THEN {"shared queue"} ELSE {})
                  \cup (IF recv_q[r] # <<>> /\ ~RecvRoom(own.rcq) THEN {"no room"} ELSE {}))

Connectable(r, q) == rnic[r] /\ tables /\ ~qp_index[r][q].available

\* The result of v_rdmap_register_connection is not looked at.
iwarp_qp_active_connect(r, q) ==
    /\ Connectable(r, q)
    /\ FreeFd # {}
    /\ Connect(r, q, First(FreeFd), {})
    /\ UNCHANGED <<rnic, tables, pd_index, cq, mr>>

\* All attempts are refused: the socket stays open and is remembered.
active_connect_refused(r, q) ==
    /\ Connectable(r, q)
    /\ FreeFd # {}
    /\ qp_index' = [qp_index EXCEPT ![r][q].fd = First(FreeFd)]
    /\ sock' = [sock EXCEPT ![First(FreeFd)].open = TRUE]
    /\ Note(IF qp_index[r][q].connected THEN {"again"} ELSE {})
    /\ UNCHANGED <<rnic, tables, pd_index, recv_q, cq, mr>>

\* The listening socket is forgotten and stays open.
iwarp_qp_passive_connect(r, q) ==
    /\ Connectable(r, q)
    /\ Cardinality(FreeFd) > 1
    /\ LET l == First(FreeFd) IN Connect(r, q, First(FreeFd \ {l}), {l})
    /\ UNCHANGED <<rnic, tables, pd_index, cq, mr>>

\* Mutant: the queue pair stays connected.
Disconnected_late(s) == s

Disconnected(s) == [s EXCEPT !.connected = FALSE]

\* What socket_fd can hold: before the first connection, anything.
SocketFd(r, q) == IF qp_index[r][q].fd = NoFd THEN 0..MaxFd ELSE {qp_index[r][q].fd}

\* v_rdmap_deregister_sock and close: a descriptor that RDMAP does not know is
\* not closed.
v_rdmap_deregister_sock(f) == IF Known(f) THEN [sock EXCEPT ![f] = NoSock] ELSE sock

NotConnected(r, q) == IF qp_index[r][q].connected THEN {} ELSE {"not connected"}

\* The descriptor is the one of the last connection, whoever has it now.
iwarp_qp_disconnect(r, q) ==
    /\ rnic[r]
    /\ tables
    /\ qp_index' = [qp_index EXCEPT ![r][q] = Disconnected(@)]
    /\ \E f \in SocketFd(r, q) : sock' = v_rdmap_deregister_sock(f)
    /\ Note(NotConnected(r, q))
    /\ UNCHANGED <<rnic, tables, pd_index, recv_q, cq, mr>>

--------------------------------------------------------------------------------
(* Work requests *)

Outstanding ==
    (UNION {{e.id : e \in Range(recv_q[r])} : r \in Rnic})
      \cup (UNION {{e.id : e \in Range(sock[f].posted)} : f \in Fd})

\* A receive: ok when its list has one element, which is looked at only when it
\* is handed to RDMAP.  Unsignalled ones are refused after they are posted.
Wr(r, q, id, ok) == [rnic |-> r, qp |-> q, id |-> id, ok |-> ok]

v_rdmap_post_recv(s, w) == [s EXCEPT !.posted = Append(@, w)]

post_rq_connected(r, q, id) ==
    LET f == qp_index[r][q].fd
    IN  /\ rnic[r]
        /\ tables
        /\ qp_index[r][q].connected
        /\ Known(f)
        /\ RecvRoom(sock[f].rcq)
        /\ sock' = [sock EXCEPT ![f] = v_rdmap_post_recv(@, Wr(r, q, id, TRUE))]
        /\ UNCHANGED <<rnic, tables, pd_index, qp_index, recv_q, cq, mr, misuse>>

Queued(q, w) == Append(q, w)

post_rq_queued(r, q, id, ok) ==
    /\ rnic[r]
    /\ ~qp_index[r][q].available
    /\ ~qp_index[r][q].connected
    /\ Len(recv_q[r]) < MAX_WRQ
    /\ recv_q' = [recv_q EXCEPT ![r] = Queued(@, Wr(r, q, id, ok))]
    /\ Note(IF ok THEN {} ELSE {"bad list"})
    /\ UNCHANGED <<rnic, tables, pd_index, qp_index, sock, cq, mr>>

iwarp_qp_post_rq(r, q, id, ok) ==
    \/ ok /\ post_rq_connected(r, q, id)
    \/ post_rq_queued(r, q, id, ok)

\* The first completion of the queue goes, whatever it is of.
v_throw_away_cqe(q) == Tail(q)

\* Sends, and v_rdmap_rdma_write.
v_rdmap_post_send(c) == Produced(c, "send")

v_rdmap_rdma_read(s) == [s EXCEPT !.reads = @ + 1]

\* Sends and writes complete at once into the queue the socket was registered
\* with; an unsignalled one takes the first completion of the queue pair's.
post_sq_send(r, q, signaled) ==
    LET f == qp_index[r][q].fd
        c == sock[f].scq
        after == v_rdmap_post_send(c)
    IN  /\ rnic[r]
        /\ tables
        /\ qp_index[r][q].connected
        /\ Known(f)
        /\ cq[c].live /\ ~CqFull(c)
        /\ cq' = IF signaled THEN after ELSE [after EXCEPT ![qp_index[r][q].scq].q = v_throw_away_cqe(@)]
        /\ UNCHANGED <<rnic, tables, pd_index, qp_index, recv_q, sock, mr, misuse>>

\* A read completes when its answer arrives, so an unsignalled one finds
\* another completion, or none and fails after it was sent.
post_sq_read(r, q, signaled) ==
    LET f == qp_index[r][q].fd
        c == qp_index[r][q].scq
    IN  /\ rnic[r]
        /\ tables
        /\ qp_index[r][q].connected
        /\ Known(f)
        /\ sock[f].reads < CqDepth
        /\ cq[c].live /\ ~CqFull(sock[f].scq)
        /\ sock' = [sock EXCEPT ![f] = v_rdmap_rdma_read(@)]
        /\ cq' = IF signaled \/ cq[c].q = <<>> THEN cq
                 ELSE [cq EXCEPT ![c].q = v_throw_away_cqe(@)]
        /\ UNCHANGED <<rnic, tables, pd_index, qp_index, recv_q, mr, misuse>>

iwarp_qp_post_sq(r, q, signaled) ==
    post_sq_send(r, q, signaled) \/ post_sq_read(r, q, signaled)

--------------------------------------------------------------------------------
QpStep(r, q) ==
    \/ iwarp_qp_destroy(r, q)
    \/ iwarp_qp_active_connect(r, q)
    \/ active_connect_refused(r, q)
    \/ iwarp_qp_passive_connect(r, q)
    \/ iwarp_qp_disconnect(r, q)
    \/ \E id \in 1..MaxWr \ Outstanding, ok \in BOOLEAN : iwarp_qp_post_rq(r, q, id, ok)
    \/ \E signaled \in BOOLEAN : iwarp_qp_post_sq(r, q, signaled)

RnicStep(r) ==
    \/ iwarp_rnic_open(r) \/ iwarp_rnic_close(r) \/ iwarp_rnic_advance(r)
    \/ iwarp_pd_allocate(r)
    \/ \E p \in Pd :
         \/ iwarp_pd_deallocate(r, p)
         \/ \E m \in Region : iwarp_nsmr_register(r, p, m) \/ iwarp_deregister_mem(r, p, m)
         \/ \E scq, rcq \in Cq : iwarp_qp_create(r, p, scq, rcq)
    \/ \E m \in Region : iwarp_deallocate_stag(r, m)
    \/ \E c \in Cq : iwarp_cq_poll(r, c)
    \/ \E q \in Qp : QpStep(r, q)

Next ==
    \/ \E r \in Rnic : RnicStep(r)
    \/ \E c \in Cq : iwarp_cq_create(c) \/ iwarp_cq_destroy(c)

Spec == Init /\ [][Next]_vars

--------------------------------------------------------------------------------
(* Properties *)

Conns == {x \in Rnic \X Qp : rnic[x[1]] /\ qp_index[x[1]][x[2]].connected}

\* A connected queue pair has a socket of its own, open and known to RDMAP,
\* until it is disconnected: no connect, disconnect or destroy of another one
\* (qp.c) takes it away; unless a queue pair that was not connected was
\* disconnected, one was connected again, or another RNIC was opened.
SocketOwned ==
    misuse \cap {"not connected", "again", "second RNIC"} = {} =>
        \A x, y \in Conns :
            LET f == qp_index[x[1]][x[2]].fd
            IN  /\ sock[f].open /\ sock[f].reg
                /\ qp_index[y[1]][y[2]].fd = f => x = y

\* A socket that RDMAP knows is the one of a connected queue pair: closing,
\* destroying and reusing queue pairs (qp.c) leaves none behind that nobody can
\* deregister any more; with the same exceptions, and unless the startup of
\* a connection failed (which OpenFab notes).
NoOrphan ==
    misuse \cap {"not connected", "again", "second RNIC", "startup failed"} = {} =>
        \A f \in Fd : sock[f].reg => \E x \in Conns : qp_index[x[1]][x[2]].fd = f

\* A receive is posted once and for its own queue pair, before or after the
\* connection (rwr.c, protected.c): none is left behind in the queue when its
\* queue pair is connected, none turns up at the socket of another; unless
\* a queue pair connected while the RNIC's queue held receives for another or
\* the completion queue was full, or a request with a bad list was queued.
RecvsExact ==
    misuse \cap {"not connected", "again", "second RNIC", "shared queue", "bad list",
                 "no room"} = {} =>
        /\ \A x \in Conns :
             /\ \A e \in Range(recv_q[x[1]]) : e.qp # x[2]
             /\ \A e \in Range(sock[qp_index[x[1]][x[2]].fd].posted) : <<e.rnic, e.qp>> = x
        /\ \A f, g \in Fd : \A i \in DOMAIN sock[f].posted, j \in DOMAIN sock[g].posted :
             sock[f].posted[i].id = sock[g].posted[j].id => <<f, i>> = <<g, j>>

\* A domain lasts as long as the regions registered in it, and is counted once
\* for each (pd.c, rnic.c), unless a region was registered in a domain that was
\* not allocated or deregistered from another one, or another RNIC was opened
\* (closing it frees all regions and leaves the first one's counts).
PdHeld ==
    misuse \cap {"no domain", "other domain", "second RNIC"} = {} =>
        \A r \in Rnic, p \in Pd : rnic[r] /\ tables =>
            LET held == {m \in Region : mr[m].valid /\ mr[m].r = r /\ mr[m].pd = p}
            IN  held # {} => /\ ~pd_index[r][p].available
                             /\ pd_index[r][p].in_use = Cardinality(held)

\* The comment of iwarp_rnic_open, "if NIC is in use we don't care since this
\* is all software": what is connected stays connected when an RNIC is opened
\* again.
SecondRnicHarmless ==
    \A x \in Conns : sock[qp_index[x[1]][x[2]].fd].reg
================================================================================
