----------------------------- MODULE OpenFab_proofs ----------------------------
(***************************************************************************)
(* What holds of the OpenFabrics calls for every number of identifiers,    *)
(* RNICs, queue pairs and descriptors: the identifier of a request is one  *)
(* to accept with, an established connection is up, and no socket is left  *)
(* behind.                                                                 *)
(*                                                                         *)
(* A call does one of three things to the connections (Steady, Gets,       *)
(* GivesUp); what each keeps is proved once, and then every call is shown  *)
(* to be of one of the three kinds and to treat the event accordingly.     *)
(***************************************************************************)
EXTENDS OpenFab, Verbs_proofs

IdT == [live : BOOLEAN, rnic : Rnic \cup {NoRnic}, fd : 0 .. MaxFd, qp : Qp \cup {NoCmQp}]
EventName ==
    {"unset", "CONNECT_REQUEST", "REJECTED", "ADDR_RESOLVED", "ROUTE_RESOLVED", "ESTABLISHED",
     "DISCONNECTED"}
ChanT == [live : BOOLEAN, next_event : EventName, id : Id \cup {NoId}, fd : 0 .. MaxFd,
          valid : BOOLEAN, ended : BOOLEAN]

\* The records of the channel and the identifiers; an identifier's RNIC is
\* open, for these calls never close one.
CmTyped ==
    /\ cm_id \in [Id -> IdT]
    /\ chan \in ChanT
    /\ \A i \in Id : cm_id[i].rnic # NoRnic => cm_id[i].rnic \in Rnic /\ rnic[cm_id[i].rnic]

FdOf(r, q) == qp_index[r][q].fd

\* A connected queue pair's descriptor is open, or was lost by an accept that
\* failed,
Claimed ==
    \A r \in Rnic, q \in Qp : Conn(r, q) =>
        FdOf(r, q) = BadFd \/ (FdOf(r, q) \in Fd /\ sock[FdOf(r, q)].open)

\* and is no other one's.
Distinct ==
    \A r, s \in Rnic, q, p \in Qp :
        Conn(r, q) /\ Conn(s, p) /\ FdOf(r, q) = FdOf(s, p) /\ FdOf(r, q) # BadFd
            => r = s /\ q = p

\* Unlike ConnInv, it has to say what is left when a queue pair was connected
\* again or the tables were made anew: the identifier of a request is to be
\* acceptable in these cases too.
CmConnInv ==
    /\ Typed
    /\ Idle
    /\ RegisteredOpen
    /\ "not connected" \notin misuse => (Claimed /\ Distinct)
    /\ misuse \cap Excepted = {} => Owned
    /\ misuse \cap (Excepted \cup {"startup failed"}) = {} => Named

--------------------------------------------------------------------------------
(* What a call does to the connections *)

OthersKept(r, q) ==
    \A s \in Rnic, p \in Qp : <<s, p>> # <<r, q>> => qp_index'[s][p] = qp_index[s][p]

\* Nothing: descriptors may be opened, and another RNIC, which forgets the
\* sockets that are registered.
Steady ==
    /\ Typed' /\ Idle' /\ misuse \subseteq misuse'
    /\ \A s \in Rnic : rnic[s] => rnic'[s]
    /\ \A s \in Rnic, p \in Qp : /\ Conn(s, p)' <=> Conn(s, p)
                                 /\ Conn(s, p) => FdOf(s, p)' = FdOf(s, p)
    /\ \A g \in Fd : /\ sock[g].open => sock'[g].open
                     /\ sock'[g].reg => sock[g].reg
    /\ \/ \A g \in Fd : sock'[g].reg = sock[g].reg
       \/ /\ \A g \in Fd : ~sock'[g].reg
          /\ (\E s \in Rnic : rnic[s]) => "second RNIC" \in misuse'

\* A queue pair gets a new descriptor f, one that was not open, or none: it is
\* connected, or an attempt to connect it fails.
Gets(r, q, f) ==
    /\ Typed' /\ Idle' /\ misuse \subseteq misuse'
    /\ rnic' = rnic
    /\ OthersKept(r, q)
    /\ FdOf(r, q)' = f
    /\ f = BadFd \/ (f \in Fd /\ ~sock[f].open /\ sock'[f].open)
    /\ Conn(r, q) => (Conn(r, q)' /\ "again" \in misuse')
    /\ (Conn(r, q)' /\ ~Conn(r, q)) => (f \in Fd /\ sock'[f].reg)
    /\ (f \in Fd /\ sock'[f].reg) => (Conn(r, q)' \/ "startup failed" \in misuse')
    /\ \A g \in Fd : g # f => /\ sock'[g].reg = sock[g].reg
                              /\ sock[g].open => sock'[g].open

\* One is given up, its descriptor deregistered and closed.
GivesUp(r, q) ==
    /\ Typed' /\ Idle' /\ misuse \subseteq misuse'
    /\ rnic' = rnic
    /\ OthersKept(r, q)
    /\ ~Conn(r, q)'
    /\ ~Conn(r, q) => "not connected" \in misuse'
    /\ \A g \in Fd : \/ sock'[g] = sock[g]
                     \/ sock[g].reg /\ ~sock'[g].reg
    /\ FdOf(r, q) # NoFd =>
         /\ \A g \in Fd : g # FdOf(r, q) => sock'[g] = sock[g]
         /\ \A g \in Fd : g = FdOf(r, q) => ~sock'[g].reg

\* A step that leaves the connections alone keeps what is known of them.
LEMMA SteadyConn ==
    ASSUME CmConnInv, Steady
    PROVE  CmConnInv'
<1>0. RegisteredOpen
    BY DEF CmConnInv
<1>1. RegisteredOpen'
    BY <1>0 DEF Steady, RegisteredOpen
<1>2. Claimed => Claimed'
    BY DEF Steady, Claimed
<1>3. Distinct => Distinct'
    BY DEF Steady, Distinct
<1>4. ASSUME (misuse \cap Excepted = {})', Owned
      PROVE  Owned'
  <2>1. CASE \A g \in Fd : sock'[g].reg = sock[g].reg
      BY <1>4, <2>1 DEF Steady, Owned, FdOf
  <2>2. CASE (\E s \in Rnic : rnic[s]) => "second RNIC" \in misuse'
    <3>1. \A s \in Rnic, p \in Qp : ~Conn(s, p)
        BY <1>4, <2>2 DEF Excepted, Conn
    <3> QED BY <3>1 DEF Steady, Owned
  <2> QED BY <2>1, <2>2 DEF Steady
<1>5. ASSUME Named
      PROVE  Named'
  <2>1. ASSUME NEW g \in Fd, sock'[g].reg
        PROVE  \E s \in Rnic, p \in Qp : Conn(s, p)' /\ FdOf(s, p)' = g
    <3>1. PICK s \in Rnic, p \in Qp : Conn(s, p) /\ FdOf(s, p) = g
        BY <1>5, <2>1 DEF Steady, Named, FdOf
    <3> QED BY <3>1 DEF Steady
  <2> QED BY <2>1 DEF Named, FdOf
<1>6. misuse \subseteq misuse' /\ Typed' /\ Idle'
    BY DEF Steady
<1> QED BY <1>1, <1>2, <1>3, <1>4, <1>5, <1>6 DEF CmConnInv

\* The result of an accept that failed is no descriptor.
LEMMA BadFdNone == BadFd \notin Fd /\ NoFd \notin Fd /\ BadFd # NoFd
BY VerbsAssumption DEF BadFd, NoFd, Fd

\* A queue pair that gets a descriptor nobody has takes none away.
LEMMA GetsConn ==
    ASSUME CmConnInv, NEW r \in Rnic, NEW q \in Qp, NEW f, Gets(r, q, f)
    PROVE  CmConnInv'
<1>0. RegisteredOpen
    BY DEF CmConnInv
<1>1. /\ misuse \subseteq misuse' /\ Typed' /\ Idle'
      /\ Conn(r, q) => "again" \in misuse'
      /\ FdOf(r, q)' = f
      /\ f = BadFd \/ (f \in Fd /\ ~sock[f].open /\ sock'[f].open)
    BY DEF Gets
<1>2. \A g \in Fd : g # f => sock'[g].reg = sock[g].reg /\ (sock[g].open => sock'[g].open)
    BY DEF Gets
<1>3. \A s \in Rnic, p \in Qp : <<s, p>> # <<r, q>> =>
        (Conn(s, p)' <=> Conn(s, p)) /\ FdOf(s, p)' = FdOf(s, p)
    BY DEF Gets, OthersKept, Conn, FdOf
<1>4. RegisteredOpen'
    BY <1>0, <1>1, <1>2, BadFdNone DEF RegisteredOpen
<1>5. Claimed => Claimed'
    BY <1>1, <1>2, <1>3 DEF Claimed
<1>6. Claimed /\ Distinct => Distinct'
    BY <1>1, <1>3 DEF Claimed, Distinct
<1>7. ASSUME (misuse \cap Excepted = {})'
      PROVE  Owned'
  <2>1. Owned /\ ~Conn(r, q)
      BY <1>1, <1>7 DEF Excepted, CmConnInv
  <2>2. \A s \in Rnic, p \in Qp : Conn(s, p) => FdOf(s, p) \in Fd /\ FdOf(s, p) # f /\ sock[FdOf(s, p)].reg
      BY <1>0, <1>1, <2>1, BadFdNone DEF Owned, FdOf, RegisteredOpen
  <2>3. Conn(r, q)' => f \in Fd /\ sock'[f].reg
      BY <2>1 DEF Gets
  <2> QED BY <1>1, <1>2, <1>3, <2>2, <2>3 DEF Owned, FdOf
<1>8. ASSUME (misuse \cap (Excepted \cup {"startup failed"}) = {})'
      PROVE  Named'
  <2>1. Named /\ ~Conn(r, q) /\ "startup failed" \notin misuse'
      BY <1>1, <1>8 DEF Excepted, CmConnInv
  <2>2. ASSUME NEW g \in Fd, sock'[g].reg
        PROVE  \E s \in Rnic, p \in Qp : Conn(s, p)' /\ FdOf(s, p)' = g
    <3>1. CASE g = f
        BY <1>1, <2>1, <2>2, <3>1 DEF Gets
    <3>2. CASE g # f
      <4>1. PICK s \in Rnic, p \in Qp : Conn(s, p) /\ FdOf(s, p) = g
          BY <1>2, <2>1, <2>2, <3>2 DEF Named, FdOf
      <4>2. <<s, p>> # <<r, q>>
          BY <2>1, <4>1
      <4> QED BY <1>3, <4>1, <4>2
    <3> QED BY <3>1, <3>2
  <2> QED BY <2>2 DEF Named, FdOf
<1> QED BY <1>1, <1>4, <1>5, <1>6, <1>7, <1>8 DEF CmConnInv

\* What a connected queue pair gives up is its own.
LEMMA GivesUpConn ==
    ASSUME CmConnInv, NEW r \in Rnic, NEW q \in Qp, GivesUp(r, q)
    PROVE  CmConnInv'
<1>0. RegisteredOpen
    BY DEF CmConnInv
<1>1. /\ misuse \subseteq misuse' /\ Typed' /\ Idle'
      /\ ~Conn(r, q) => "not connected" \in misuse'
      /\ ~Conn(r, q)'
    BY DEF GivesUp
<1>2. \A s \in Rnic, p \in Qp : <<s, p>> # <<r, q>> =>
        (Conn(s, p)' <=> Conn(s, p)) /\ FdOf(s, p)' = FdOf(s, p)
    BY DEF GivesUp, OthersKept, Conn, FdOf
<1>3. RegisteredOpen'
    BY <1>0 DEF GivesUp, RegisteredOpen
<1>4. ASSUME ("not connected" \notin misuse)'
      PROVE  /\ Claimed /\ Distinct /\ Conn(r, q)
             /\ \A s \in Rnic, p \in Qp : <<s, p>> # <<r, q>> /\ Conn(s, p) /\ FdOf(s, p) \in Fd =>
                    sock'[FdOf(s, p)] = sock[FdOf(s, p)]
             /\ \A g \in Fd : g # FdOf(r, q) => sock'[g] = sock[g]
             /\ \A g \in Fd : g = FdOf(r, q) => ~sock'[g].reg
  <2>1. Claimed /\ Distinct /\ Conn(r, q)
      BY <1>1, <1>4 DEF CmConnInv
  <2>2. FdOf(r, q) # NoFd
      BY <2>1, BadFdNone DEF Claimed
  <2>3. /\ \A g \in Fd : g # FdOf(r, q) => sock'[g] = sock[g]
        /\ \A g \in Fd : g = FdOf(r, q) => ~sock'[g].reg
      BY <2>2 DEF GivesUp
  <2>4. \A g \in Fd : g # BadFd
      BY BadFdNone
  <2>5. ASSUME NEW s \in Rnic, NEW p \in Qp, <<s, p>> # <<r, q>>, Conn(s, p), FdOf(s, p) \in Fd
        PROVE  FdOf(s, p) # FdOf(r, q)
      BY <2>1, <2>4, <2>5 DEF Distinct
  <2> QED BY <2>1, <2>3, <2>5
<1>5. ASSUME ("not connected" \notin misuse)'
      PROVE  Claimed' /\ Distinct'
  <2>1. Claimed'
    <3> SUFFICES ASSUME NEW s \in Rnic, NEW p \in Qp, Conn(s, p)'
                 PROVE  \/ FdOf(s, p)' = BadFd
                        \/ FdOf(s, p)' \in Fd /\ sock'[FdOf(s, p)'].open
        BY DEF Claimed
    <3>1. <<s, p>> # <<r, q>> /\ Conn(s, p) /\ FdOf(s, p)' = FdOf(s, p)
        BY <1>1, <1>2
    <3>2. FdOf(s, p) = BadFd \/ (FdOf(s, p) \in Fd /\ sock[FdOf(s, p)].open)
        BY <3>1, <1>4, <1>5 DEF Claimed
    <3>3. FdOf(s, p) \in Fd => sock'[FdOf(s, p)] = sock[FdOf(s, p)]
        BY <3>1, <1>4, <1>5
    <3> QED BY <3>1, <3>2, <3>3
  <2>2. \A s \in Rnic, p \in Qp : Conn(s, p)' => Conn(s, p) /\ FdOf(s, p)' = FdOf(s, p)
      BY <1>1, <1>2
  <2>3. Distinct
      BY <1>4, <1>5
  <2>4. Distinct'
      BY <2>2, <2>3 DEF Distinct
  <2> QED BY <2>1, <2>4
<1>6. ASSUME (misuse \cap Excepted = {})'
      PROVE  Owned'
  <2>1. Owned /\ ("not connected" \notin misuse)'
      BY <1>1, <1>6 DEF Excepted, CmConnInv
  <2>2. ASSUME NEW s \in Rnic, NEW p \in Qp, Conn(s, p)'
        PROVE  FdOf(s, p)' \in Fd /\ sock'[FdOf(s, p)'].reg
    <3>1. <<s, p>> # <<r, q>> /\ Conn(s, p) /\ FdOf(s, p)' = FdOf(s, p)
        BY <1>1, <1>2, <2>2
    <3>2. FdOf(s, p) \in Fd /\ sock[FdOf(s, p)].reg
        BY <2>1, <3>1 DEF Owned, FdOf
    <3> QED BY <1>4, <2>1, <3>1, <3>2
  <2> QED BY <2>2 DEF Owned, FdOf
<1>7. ASSUME (misuse \cap (Excepted \cup {"startup failed"}) = {})'
      PROVE  Named'
  <2>1. Named /\ ("not connected" \notin misuse)'
      BY <1>1, <1>7 DEF Excepted, CmConnInv
  <2>2. ASSUME NEW g \in Fd, sock'[g].reg
        PROVE  \E s \in Rnic, p \in Qp : Conn(s, p)' /\ FdOf(s, p)' = g
    <3>1. g # FdOf(r, q) /\ sock[g].reg
        BY <1>4, <2>1, <2>2
    <3>2. PICK s \in Rnic, p \in Qp : Conn(s, p) /\ FdOf(s, p) = g
        BY <2>1, <3>1 DEF Named, FdOf
    <3>3. <<s, p>> # <<r, q>>
        BY <3>1, <3>2
    <3> QED BY <1>2, <3>2, <3>3
  <2> QED BY <2>2 DEF Named, FdOf
<1> QED BY <1>1, <1>3, <1>5, <1>6, <1>7 DEF CmConnInv

--------------------------------------------------------------------------------
(* Each step of the verbs is of one of the three kinds *)

\* Queue pairs, and what is open and registered, are left alone.
LEMMA KeptIsSteady ==
    ASSUME CmConnInv, UNCHANGED <<rnic, qp_index>>, misuse \subseteq misuse',
           sock' \in [Fd -> SockT], recv_q' \in [Rnic -> Seq(WrT)],
           \A g \in Fd : sock'[g].open = sock[g].open /\ sock'[g].reg = sock[g].reg
    PROVE  Steady
<1>1. Typed /\ Idle
    BY DEF CmConnInv
<1>2. Typed' /\ Idle'
    BY <1>1 DEF Typed, Idle
<1>3. \A s \in Rnic, p \in Qp : (Conn(s, p)' <=> Conn(s, p)) /\ FdOf(s, p)' = FdOf(s, p)
    BY DEF Conn, FdOf
<1> QED BY <1>2, <1>3 DEF Steady

\* Domains, regions, completion queues and sends.
LEMMA SameIsSteady ==
    ASSUME CmConnInv, SameConnections
    PROVE  Steady
<1>1. Typed
    BY DEF CmConnInv
<1> QED BY <1>1, KeptIsSteady DEF SameConnections, Typed

\* Polling.
LEMMA SocketIsSteady ==
    ASSUME CmConnInv, SocketStep
    PROVE  Steady
<1>1. Typed
    BY DEF CmConnInv
<1>2. PICK f \in Fd, x \in SockT : /\ sock' = [sock EXCEPT ![f] = x]
                                   /\ x.open = sock[f].open /\ x.reg = sock[f].reg
    BY DEF SocketStep
<1>3. /\ sock' \in [Fd -> SockT]
      /\ \A g \in Fd : sock'[g].open = sock[g].open /\ sock'[g].reg = sock[g].reg
    BY <1>1, <1>2 DEF Typed
<1>4. UNCHANGED <<rnic, qp_index>> /\ misuse \subseteq misuse' /\ recv_q' \in [Rnic -> Seq(WrT)]
    BY <1>1 DEF SocketStep, Typed
<1> QED BY <1>3, <1>4, KeptIsSteady

\* Receives, posted to a connection or queued before it.
LEMMA PostIsSteady ==
    ASSUME CmConnInv, NEW r \in Rnic, NEW q \in Qp, NEW id \in 1 .. MaxWr,
           iwarp_qp_post_rq(r, q, id, TRUE)
    PROVE  Steady
<1>1. Typed
    BY DEF CmConnInv
<1>2. CASE post_rq_connected(r, q, id)
  <2>1. PICK f \in Fd : /\ sock' \in [Fd -> SockT]
                        /\ sock'[f].open = sock[f].open /\ sock'[f].reg = sock[f].reg
                        /\ \A g \in Fd : g # f => sock'[g] = sock[g]
      BY <1>1, <1>2, PostedToSocket
  <2>2. \A g \in Fd : sock'[g].open = sock[g].open /\ sock'[g].reg = sock[g].reg
      BY <2>1
  <2>3. UNCHANGED <<rnic, qp_index>> /\ misuse \subseteq misuse' /\ recv_q' \in [Rnic -> Seq(WrT)]
      BY <1>1, <1>2 DEF post_rq_connected, Typed
  <2> QED BY <2>1, <2>2, <2>3, KeptIsSteady
<1>3. CASE post_rq_queued(r, q, id, TRUE)
  <2>1. recv_q' \in [Rnic -> Seq(WrT)]
      BY <1>1, <1>3, QueuedForLater
  <2>2. UNCHANGED <<rnic, qp_index, sock>> /\ misuse \subseteq misuse'
      BY <1>3, NoteGrows DEF post_rq_queued
  <2> QED BY <1>1, <2>1, <2>2, KeptIsSteady DEF Typed
<1> QED BY <1>2, <1>3 DEF iwarp_qp_post_rq

\* A queue pair is created or destroyed only while it is not connected.
LEMMA LifeIsSteady ==
    ASSUME CmConnInv, NEW r \in Rnic, QpLifeStep(r)
    PROVE  Steady
<1>1. Typed /\ Idle
    BY DEF CmConnInv
<1>2. PICK q \in Qp, x \in QpT :
        /\ qp_index' = [qp_index EXCEPT ![r][q] = x]
        /\ qp_index[r][q].available \/ ~qp_index[r][q].connected
        /\ ~x.connected
    BY DEF QpLifeStep
<1>3. UNCHANGED <<rnic, sock, recv_q, misuse>>
    BY DEF QpLifeStep
<1>4. /\ qp_index' \in [Rnic -> [Qp -> QpT]] /\ qp_index'[r][q] = x
      /\ \A s \in Rnic, p \in Qp : <<s, p>> # <<r, q>> => qp_index'[s][p] = qp_index[s][p]
    BY <1>1, <1>2, QpUpdate DEF Typed
<1>5. Typed'
    BY <1>1, <1>3, <1>4 DEF Typed
<1>6. ~qp_index[r][q].connected /\ ~qp_index'[r][q].connected
    BY <1>1, <1>2, <1>4 DEF Idle
<1>7. Idle'
    BY <1>1, <1>4, <1>6 DEF Idle
<1>8. \A s \in Rnic, p \in Qp : /\ Conn(s, p)' <=> Conn(s, p)
                                /\ Conn(s, p) => FdOf(s, p)' = FdOf(s, p)
    BY <1>3, <1>4, <1>6 DEF Conn, FdOf
<1> QED BY <1>3, <1>5, <1>7, <1>8 DEF Steady

\* A new socket table leaves the descriptors as open as they are.
LEMMA UnregisteredOpen ==
    ASSUME Typed
    PROVE  \A g \in Fd : ~Unregistered[g].reg /\ Unregistered[g].open = sock[g].open
<1>1. \A g \in Fd : ~Unregistered[g].reg
    BY UnregisteredT
<1>2. PICK none \in SockT : none = NoSock
    BY NoSockT, Zenon
<1>3. Unregistered = [g \in Fd |-> [none EXCEPT !.open = sock[g].open]]
    BY <1>2, Zenon DEF Unregistered
<1>4. \A g \in Fd : Unregistered[g].open = sock[g].open
    BY <1>3 DEF SockT
<1> QED BY <1>1, <1>4

\* check_open, and a socket or none that is opened after it.
LEMMA OpenIsSteady ==
    ASSUME CmConnInv, CmTyped, NEW i \in Id, NEW s, check_open(i, s),
           s \in [Fd -> SockT],
           \A g \in Fd : /\ SocksAfterOpen(i)[g].open => s[g].open
                         /\ s[g].reg = SocksAfterOpen(i)[g].reg
    PROVE  Steady /\ IdRnic(i) \in Rnic /\ rnic'[IdRnic(i)]
<1>1. Typed /\ Idle
    BY DEF CmConnInv
<1>2. sock' = s
    BY DEF check_open
<1>3. CASE cm_id[i].rnic = NoRnic
  <2>1. SocksAfterOpen(i) = Unregistered /\ IdRnic(i) = NewRnic
      BY <1>3, Zenon DEF SocksAfterOpen, IdRnic
  <2>2. PICK r \in Rnic : r = NewRnic /\ ~rnic[r]
      BY <1>3 DEF check_open, NewRnic
  <2>3. /\ rnic' = [rnic EXCEPT ![r] = TRUE] /\ qp_index' = [qp_index EXCEPT ![r] = NoQps]
        /\ recv_q' = [recv_q EXCEPT ![r] = <<>>]
        /\ misuse \subseteq misuse' /\ ((\E x \in Rnic : rnic[x]) => "second RNIC" \in misuse')
      BY <1>3, <2>2, NoteGrows DEF check_open, Opens
  <2>4. NoQps \in [Qp -> QpT] /\ \A q \in Qp : ~NoQps[q].connected
      BY NoQpT DEF NoQps
  <2>5. \A g \in Fd : ~Unregistered[g].reg /\ Unregistered[g].open = sock[g].open
      BY <1>1, UnregisteredOpen
  <2>6. \A g \in Fd : ~sock'[g].reg /\ (sock[g].open => sock'[g].open)
      BY <1>2, <2>1, <2>5, Zenon
  <2>7. qp_index' \in [Rnic -> [Qp -> QpT]] /\ \A q \in Qp : ~qp_index'[r][q].connected
      BY <1>1, <2>3, <2>4 DEF Typed
  <2>8. \A x \in Rnic : x # r => qp_index'[x] = qp_index[x] /\ rnic'[x] = rnic[x]
      BY <1>1, <2>3 DEF Typed
  <2>9. rnic' \in [Rnic -> BOOLEAN] /\ recv_q' \in [Rnic -> Seq(WrT)] /\ rnic'[r]
      BY <1>1, <2>3, EmptySeq DEF Typed
  <2>10. Typed'
      BY <1>2, <2>7, <2>9 DEF Typed
  <2>11. Idle'
      BY <1>1, <2>7, <2>8 DEF Idle
  <2>12. \A x \in Rnic, p \in Qp : /\ Conn(x, p)' <=> Conn(x, p)
                                   /\ Conn(x, p) => FdOf(x, p)' = FdOf(x, p)
      BY <2>2, <2>7, <2>8 DEF Conn, FdOf
  <2>13. \A x \in Rnic : rnic[x] => rnic'[x]
      BY <2>8, <2>9
  <2>14. Steady
      BY <2>3, <2>6, <2>10, <2>11, <2>12, <2>13 DEF Steady
  <2> QED BY <2>1, <2>2, <2>9, <2>14
<1>4. CASE cm_id[i].rnic # NoRnic
  <2>1. SocksAfterOpen(i) = sock /\ IdRnic(i) = cm_id[i].rnic
      BY <1>4, Zenon DEF SocksAfterOpen, IdRnic
  <2>2. UNCHANGED <<rnic, qp_index, recv_q, misuse>>
      BY <1>4 DEF check_open
  <2>3. cm_id[i].rnic \in Rnic /\ rnic[cm_id[i].rnic]
      BY <1>4 DEF CmTyped
  <2>4. Typed' /\ Idle'
      BY <1>1, <1>2, <2>2 DEF Typed, Idle
  <2>5. \A x \in Rnic, p \in Qp : (Conn(x, p)' <=> Conn(x, p)) /\ FdOf(x, p)' = FdOf(x, p)
      BY <2>2 DEF Conn, FdOf
  <2>6. \A g \in Fd : sock'[g].reg = sock[g].reg /\ (sock[g].open => sock'[g].open)
      BY <1>2, <2>1, Zenon
  <2>7. Steady
      BY <2>2, <2>4, <2>5, <2>6 DEF Steady
  <2> QED BY <2>1, <2>2, <2>3, <2>7
<1> QED BY <1>3, <1>4

\* A connection that is made.
LEMMA ConnectGets ==
    ASSUME CmConnInv, NEW r \in Rnic, NEW q \in Qp, ConnectStep(r, q)
    PROVE  \E f \in Fd : Gets(r, q, f) /\ Conn(r, q)'
<1>1. Typed /\ Idle
    BY DEF CmConnInv
<1>2. PICK f \in Fd, busy \in SUBSET Fd : ~sock[f].open /\ f \notin busy /\ Connect(r, q, f, busy)
    BY DEF ConnectStep
<1>3. rnic' = rnic /\ rnic[r] /\ ~qp_index[r][q].available
    BY DEF ConnectStep, Connectable
<1>4. /\ qp_index' \in [Rnic -> [Qp -> QpT]]
      /\ qp_index'[r][q].connected /\ qp_index'[r][q].fd = f
      /\ qp_index'[r][q].available = qp_index[r][q].available
      /\ OthersKept(r, q)
    BY <1>1, <1>2, Connected DEF OthersKept
<1>5. /\ sock' \in [Fd -> SockT]
      /\ sock'[f].open /\ sock'[f].reg
      /\ \A g \in Fd : g # f => sock'[g].reg = sock[g].reg /\ (sock[g].open => sock'[g].open)
      /\ recv_q' \in [Rnic -> Seq(WrT)]
    BY <1>1, <1>2, Connected
<1>6. Typed'
    BY <1>1, <1>3, <1>4, <1>5 DEF Typed
<1>7. Idle'
    BY <1>1, <1>3, <1>4 DEF Idle, OthersKept
<1>8. misuse \subseteq misuse' /\ (qp_index[r][q].connected => "again" \in misuse')
    BY <1>2, NoteGrows DEF Connect
<1>9. Conn(r, q)' /\ (Conn(r, q) => "again" \in misuse') /\ FdOf(r, q)' = f
    BY <1>3, <1>4, <1>8 DEF Conn, FdOf
<1>10. Gets(r, q, f)
    BY <1>2, <1>3, <1>4, <1>5, <1>6, <1>7, <1>8, <1>9 DEF Gets
<1> QED BY <1>9, <1>10

\* An attempt that fails: the queue pair is as connected as before and has a
\* descriptor that was not open, or none.
Attempt(r, q, f) ==
    /\ UNCHANGED <<rnic, recv_q>> /\ rnic[r]
    /\ qp_index' = [qp_index EXCEPT ![r][q].fd = f]
    /\ misuse \subseteq misuse'
    /\ qp_index[r][q].connected => "again" \in misuse'
    /\ f = BadFd \/ (f \in Fd /\ ~sock[f].open /\ sock'[f].open)
    /\ (f \in Fd /\ sock'[f].reg) => "startup failed" \in misuse'
    /\ sock' \in [Fd -> SockT]
    /\ \A g \in Fd : g # f => /\ sock'[g].reg = sock[g].reg
                              /\ sock[g].open => sock'[g].open

\* It keeps what a connection that is made keeps.
LEMMA AttemptGets ==
    ASSUME CmConnInv, NEW r \in Rnic, NEW q \in Qp, NEW f, Attempt(r, q, f)
    PROVE  Gets(r, q, f)
<1>1. Typed /\ Idle
    BY DEF CmConnInv
<1>2. PICK own \in QpT : own = qp_index[r][q]
    BY <1>1 DEF Typed
<1>0. f \in -1 .. MaxFd
  <2>1. f = BadFd \/ f \in Fd
      BY DEF Attempt
  <2> QED BY <2>1, VerbsAssumption DEF BadFd, Fd
<1> DEFINE x == [own EXCEPT !.fd = f]
<1>3. x \in QpT /\ x.fd = f /\ x.connected = own.connected /\ x.available = own.available
    BY <1>0 DEF QpT
<1>4. qp_index' = [qp_index EXCEPT ![r][q] = x]
    BY <1>2 DEF Attempt
<1> HIDE DEF x
<1>5. qp_index' \in [Rnic -> [Qp -> QpT]] /\ qp_index'[r][q] = x /\ OthersKept(r, q)
  <2>1. x \in QpT /\ qp_index \in [Rnic -> [Qp -> QpT]]
      BY <1>1, <1>3 DEF Typed
  <2> QED BY <1>4, <2>1, QpUpdate DEF OthersKept
<1>6. Typed'
    BY <1>1, <1>5 DEF Typed, Attempt
<1>7. Idle'
    BY <1>1, <1>2, <1>3, <1>5 DEF Idle, OthersKept
<1>8. /\ Conn(r, q)' <=> Conn(r, q)
      /\ Conn(r, q) => "again" \in misuse'
      /\ FdOf(r, q)' = f
    BY <1>2, <1>3, <1>5 DEF Conn, FdOf, Attempt
<1> QED BY <1>5, <1>6, <1>7, <1>8 DEF Gets, Attempt

\* All attempts were refused.
LEMMA RefusedGets ==
    ASSUME CmConnInv, NEW r \in Rnic, NEW q \in Qp, active_connect_refused(r, q)
    PROVE  \E f \in Fd : Gets(r, q, f)
<1>1. Typed /\ RegisteredOpen
    BY DEF CmConnInv
<1>2. PICK f \in Fd : f = First(FreeFd) /\ ~sock[f].open
    BY FreeFdIn DEF active_connect_refused
<1>3. /\ qp_index' = [qp_index EXCEPT ![r][q].fd = f]
      /\ sock' = [sock EXCEPT ![f].open = TRUE]
      /\ UNCHANGED <<rnic, recv_q>> /\ rnic[r]
    BY <1>2 DEF active_connect_refused, Connectable
<1>4. misuse \subseteq misuse' /\ (qp_index[r][q].connected => "again" \in misuse')
    BY NoteGrows DEF active_connect_refused
<1>5. sock[f] \in SockT /\ ~sock[f].reg
    BY <1>1, <1>2 DEF Typed, RegisteredOpen
<1> DEFINE z == [sock[f] EXCEPT !.open = TRUE]
<1>6. z \in SockT /\ z.open /\ ~z.reg /\ sock' = [sock EXCEPT ![f] = z]
    BY <1>3, <1>5 DEF SockT
<1> HIDE DEF z
<1>7. /\ sock' \in [Fd -> SockT] /\ sock'[f].open /\ ~sock'[f].reg
      /\ \A g \in Fd : g # f => sock'[g].reg = sock[g].reg /\ (sock[g].open => sock'[g].open)
    BY <1>1, <1>6 DEF Typed
<1>8. Attempt(r, q, f)
    BY <1>2, <1>3, <1>4, <1>7 DEF Attempt
<1> QED BY <1>8, AttemptGets

\* A queue pair is given up: iwarp_qp_disconnect, alone or with the destroy
\* that follows it.
LEMMA DeregisterGivesUp ==
    ASSUME CmConnInv, NEW r \in Rnic, NEW q \in Qp, NEW x \in QpT, ~x.connected,
           NEW f \in SocketFd(r, q), sock' = v_rdmap_deregister_sock(f),
           qp_index' = [qp_index EXCEPT ![r][q] = x],
           UNCHANGED <<rnic, recv_q>>, rnic[r], Note(NotConnected(r, q))
    PROVE  GivesUp(r, q)
<1>1. Typed /\ Idle
    BY DEF CmConnInv
<1>2. /\ qp_index' \in [Rnic -> [Qp -> QpT]]
      /\ qp_index'[r][q] = x
      /\ OthersKept(r, q)
    BY <1>1, QpUpdate DEF Typed, OthersKept
<1>3. sock \in [Fd -> SockT] /\ NoSock \in SockT /\ ~NoSock.reg
    BY <1>1, NoSockT DEF Typed
<1>4. /\ sock' \in [Fd -> SockT]
      /\ \A g \in Fd : g # f => sock'[g] = sock[g]
      /\ f \in Fd => ~sock'[f].reg
      /\ \A g \in Fd : sock'[g] = sock[g] \/ (sock[g].reg /\ ~sock'[g].reg)
  <2>1. CASE Known(f)
    <3>1. f \in Fd /\ sock[f].reg /\ sock' = [sock EXCEPT ![f] = NoSock]
        BY <2>1 DEF v_rdmap_deregister_sock, Known
    <3> QED BY <1>3, <3>1
  <2>2. CASE ~Known(f)
    <3>1. sock' = sock /\ (f \in Fd => ~sock[f].reg)
        BY <2>2 DEF v_rdmap_deregister_sock, Known
    <3> QED BY <1>3, <3>1
  <2> QED BY <2>1, <2>2
<1>5. FdOf(r, q) # NoFd => f = FdOf(r, q)
    BY SMTT(30) DEF SocketFd, FdOf
<1>6. misuse \subseteq misuse' /\ (~qp_index[r][q].connected => "not connected" \in misuse')
    BY NoteGrows DEF NotConnected
<1>7. Typed'
    BY <1>1, <1>2, <1>4 DEF Typed
<1>8. Idle'
    BY <1>1, <1>2 DEF Idle, OthersKept
<1>9. ~Conn(r, q)' /\ (~Conn(r, q) => "not connected" \in misuse')
    BY <1>2, <1>6 DEF Conn
<1> QED BY <1>2, <1>4, <1>5, <1>6, <1>7, <1>8, <1>9 DEF GivesUp

\* iwarp_qp_disconnect.
LEMMA DisconnectGivesUp ==
    ASSUME CmConnInv, NEW r \in Rnic, NEW q \in Qp, iwarp_qp_disconnect(r, q)
    PROVE  GivesUp(r, q)
<1>1. PICK own \in QpT : own = qp_index[r][q]
    BY DEF CmConnInv, Typed
<1> DEFINE x == [own EXCEPT !.connected = FALSE]
<1>2. x \in QpT /\ ~x.connected
    BY DEF QpT
<1>3. qp_index' = [qp_index EXCEPT ![r][q] = x]
    BY <1>1 DEF iwarp_qp_disconnect, Disconnected
<1> HIDE DEF x
<1>4. PICK f \in SocketFd(r, q) : sock' = v_rdmap_deregister_sock(f)
    BY DEF iwarp_qp_disconnect
<1>5. UNCHANGED <<rnic, recv_q>> /\ rnic[r] /\ Note(NotConnected(r, q))
    BY DEF iwarp_qp_disconnect
<1> QED BY <1>2, <1>3, <1>4, <1>5, DeregisterGivesUp

--------------------------------------------------------------------------------
(* The event of the channel *)

\* A connection request can be fetched, or an established connection that
\* nobody has given up.
Request == chan.live /\ chan.next_event = "CONNECT_REQUEST" /\ chan.id # NoId
Up ==
    /\ chan.live /\ chan.next_event = "ESTABLISHED" /\ chan.valid /\ chan.id # NoId
    /\ ~chan.ended

\* The identifier of a request has a listening socket that no queue pair uses,
Requested ==
    Request =>
        /\ cm_id[chan.id].live
        /\ cm_id[chan.id].rnic \in Rnic /\ rnic[cm_id[chan.id].rnic]
        /\ cm_id[chan.id].fd = chan.fd
        /\ chan.fd \in Fd /\ sock[chan.fd].open /\ ~sock[chan.fd].reg
        /\ "not connected" \notin misuse =>
             \A r \in Rnic, q \in Qp : Conn(r, q) => FdOf(r, q) # chan.fd

\* and that of an established connection a connected queue pair.
Established ==
    Up =>
        /\ cm_id[chan.id].live
        /\ cm_id[chan.id].rnic \in Rnic /\ cm_id[chan.id].qp \in Qp
        /\ misuse \cap Excepted = {} => Conn(cm_id[chan.id].rnic, cm_id[chan.id].qp)

CmInv == CmTyped /\ CmConnInv /\ Requested /\ Established

\* A request, or an established connection, is the one there was before.
RequestKept ==
    Request' =>
        /\ Request /\ chan'.id = chan.id /\ chan'.fd = chan.fd
        /\ cm_id'[chan.id].live = cm_id[chan.id].live
        /\ cm_id'[chan.id].rnic = cm_id[chan.id].rnic
        /\ cm_id'[chan.id].fd = cm_id[chan.id].fd

UpKept ==
    Up' =>
        /\ Up /\ chan'.id = chan.id
        /\ cm_id'[chan.id].live = cm_id[chan.id].live
        /\ cm_id'[chan.id].rnic = cm_id[chan.id].rnic
        /\ cm_id'[chan.id].qp = cm_id[chan.id].qp

\* What a step of any kind leaves of a listening socket: it stays open and
\* unknown to RDMAP, and no queue pair that did not have it gets it.
Listens(f) ==
    /\ sock[f].open => (~sock[f].reg => (sock'[f].open /\ ~sock'[f].reg))
    /\ sock[f].open => \A r \in Rnic, q \in Qp : Conn(r, q)' => FdOf(r, q)' # f \/ (Conn(r, q) /\ FdOf(r, q) = f)

Gentle ==
    /\ misuse \subseteq misuse'
    /\ \A s \in Rnic : rnic[s] => rnic'[s]
    /\ \A f \in Fd : Listens(f)

\* All three kinds are gentle.
LEMMA KindsGentle ==
    /\ Steady => Gentle
    /\ \A r \in Rnic, q \in Qp : GivesUp(r, q) => Gentle
    /\ \A r \in Rnic, q \in Qp : \A f : Gets(r, q, f) => Gentle
<1>1. ASSUME Steady PROVE Gentle
  <2>1. ASSUME NEW g \in Fd PROVE Listens(g)
      BY <1>1 DEF Steady, Listens
  <2> QED BY <1>1, <2>1 DEF Steady, Gentle
<1>2. ASSUME NEW r \in Rnic, NEW q \in Qp, GivesUp(r, q) PROVE Gentle
  <2>1. \A s \in Rnic, p \in Qp : Conn(s, p)' => Conn(s, p) /\ FdOf(s, p)' = FdOf(s, p)
      BY <1>2 DEF GivesUp, OthersKept, Conn, FdOf
  <2>2. \A g \in Fd : ~sock[g].reg => sock'[g] = sock[g]
      BY <1>2 DEF GivesUp
  <2>3. ASSUME NEW g \in Fd PROVE Listens(g)
      BY <2>1, <2>2 DEF Listens
  <2>4. misuse \subseteq misuse' /\ rnic' = rnic
      BY <1>2 DEF GivesUp
  <2> QED BY <2>3, <2>4 DEF Gentle
<1>3. ASSUME NEW r \in Rnic, NEW q \in Qp, NEW f, Gets(r, q, f) PROVE Gentle
  <2>1. \A s \in Rnic, p \in Qp : <<s, p>> # <<r, q>> =>
          (Conn(s, p)' => Conn(s, p)) /\ FdOf(s, p)' = FdOf(s, p)
      BY <1>3 DEF Gets, OthersKept, Conn, FdOf
  <2>2. ASSUME NEW g \in Fd, sock[g].open
        PROVE  g # f /\ FdOf(r, q)' # g /\ sock'[g].open /\ sock'[g].reg = sock[g].reg
      BY <1>3, <2>2, BadFdNone DEF Gets
  <2>3. ASSUME NEW g \in Fd PROVE Listens(g)
      BY <2>1, <2>2 DEF Listens
  <2>4. misuse \subseteq misuse' /\ rnic' = rnic
      BY <1>3 DEF Gets
  <2> QED BY <2>3, <2>4 DEF Gentle
<1> QED BY <1>1, <1>2, <1>3

\* A request that is kept stays acceptable.
LEMMA RequestStays ==
    ASSUME Requested, Gentle, RequestKept
    PROVE  Requested'
<1> SUFFICES ASSUME Request'
             PROVE  (/\ cm_id[chan.id].live
                     /\ cm_id[chan.id].rnic \in Rnic /\ rnic[cm_id[chan.id].rnic]
                     /\ cm_id[chan.id].fd = chan.fd
                     /\ chan.fd \in Fd /\ sock[chan.fd].open /\ ~sock[chan.fd].reg
                     /\ "not connected" \notin misuse =>
                          \A r \in Rnic, q \in Qp : Conn(r, q) => FdOf(r, q) # chan.fd)'
    BY DEF Requested
<1>1. PICK i, l : i = chan.id /\ l = chan.fd
    OBVIOUS
<1>2. /\ Request /\ chan'.id = i /\ chan'.fd = l
      /\ cm_id'[i].live = cm_id[i].live /\ cm_id'[i].rnic = cm_id[i].rnic /\ cm_id'[i].fd = cm_id[i].fd
    BY <1>1 DEF RequestKept
<1>3. /\ cm_id[i].live /\ cm_id[i].rnic \in Rnic /\ rnic[cm_id[i].rnic] /\ cm_id[i].fd = l
      /\ l \in Fd /\ sock[l].open /\ ~sock[l].reg
      /\ "not connected" \notin misuse => \A r \in Rnic, q \in Qp : Conn(r, q) => FdOf(r, q) # l
    BY <1>1, <1>2 DEF Requested
<1>4. cm_id'[i].live /\ cm_id'[i].rnic \in Rnic /\ rnic'[cm_id'[i].rnic] /\ cm_id'[i].fd = l
    BY <1>2, <1>3 DEF Gentle
<1>5. Listens(l) /\ misuse \subseteq misuse'
    BY <1>3 DEF Gentle
<1>6. sock'[l].open /\ ~sock'[l].reg
    BY <1>3, <1>5 DEF Listens
<1>7. ("not connected" \notin misuse)' => \A r \in Rnic, q \in Qp : Conn(r, q)' => FdOf(r, q)' # l
    BY <1>3, <1>5 DEF Listens
<1> QED BY <1>2, <1>3, <1>4, <1>6, <1>7

\* An established connection that is kept stays up, whatever happens to other
\* queue pairs.
LEMMA UpStays ==
    ASSUME Established, UpKept, misuse \subseteq misuse',
           \A r \in Rnic, q \in Qp : Conn(r, q) => \/ Conn(r, q)'
                                                   \/ ~Up'
                                                   \/ <<cm_id[chan.id].rnic, cm_id[chan.id].qp>> # <<r, q>>
    PROVE  Established'
<1> SUFFICES ASSUME Up'
             PROVE  (/\ cm_id[chan.id].live
                     /\ cm_id[chan.id].rnic \in Rnic /\ cm_id[chan.id].qp \in Qp
                     /\ misuse \cap Excepted = {} => Conn(cm_id[chan.id].rnic, cm_id[chan.id].qp))'
    BY DEF Established
<1>1. PICK i, r, q : i = chan.id /\ r = cm_id[i].rnic /\ q = cm_id[i].qp
    OBVIOUS
<1>2. Up /\ chan'.id = i /\ cm_id'[i].live = cm_id[i].live /\ cm_id'[i].rnic = r /\ cm_id'[i].qp = q
    BY <1>1 DEF UpKept
<1>3. /\ cm_id[i].live /\ r \in Rnic /\ q \in Qp
      /\ misuse \cap Excepted = {} => Conn(r, q)
    BY <1>1, <1>2 DEF Established
<1>4. Conn(r, q) => Conn(r, q)'
    BY <1>1, <1>3
<1>5. (misuse \cap Excepted = {})' => Conn(r, q)'
    BY <1>3, <1>4
<1> QED BY <1>2, <1>3, <1>5 DEF Conn

--------------------------------------------------------------------------------
(* What a call does to the channel and the identifiers *)

\* Identifiers keep their RNIC, or have none.
LEMMA IdsTyped ==
    ASSUME CmTyped, Gentle, cm_id' \in [Id -> IdT], chan' \in ChanT,
           \A i \in Id : cm_id'[i].rnic \in {cm_id[i].rnic, NoRnic}
    PROVE  CmTyped'
BY DEF CmTyped, Gentle

\* One identifier changes.
LEMMA IdUpdate ==
    ASSUME CmTyped, NEW i \in Id, NEW x \in IdT, cm_id' = [cm_id EXCEPT ![i] = x]
    PROVE  /\ cm_id' \in [Id -> IdT] /\ cm_id'[i] = x
           /\ \A n \in Id : n # i => cm_id'[n] = cm_id[n]
BY DEF CmTyped

\* One identifier's queue pair changes.
LEMMA IdQpUpdate ==
    ASSUME CmTyped, NEW i \in Id, NEW q \in Qp \cup {NoCmQp},
           cm_id' = [cm_id EXCEPT ![i].qp = q]
    PROVE  /\ cm_id' \in [Id -> IdT]
           /\ cm_id'[i].live = cm_id[i].live /\ cm_id'[i].rnic = cm_id[i].rnic
           /\ cm_id'[i].fd = cm_id[i].fd /\ cm_id'[i].qp = q
           /\ \A n \in Id : n # i => cm_id'[n] = cm_id[n]
<1>1. cm_id[i] \in IdT
    BY DEF CmTyped
<1> DEFINE x == [cm_id[i] EXCEPT !.qp = q]
<1>2. x \in IdT /\ x.live = cm_id[i].live /\ x.rnic = cm_id[i].rnic /\ x.fd = cm_id[i].fd /\ x.qp = q
    BY <1>1 DEF IdT
<1>3. cm_id' = [cm_id EXCEPT ![i] = x]
    OBVIOUS
<1> HIDE DEF x
<1> QED BY <1>2, <1>3, IdUpdate

\* A new event.
LEMMA EventIs ==
    ASSUME CmTyped, NEW i \in Id, NEW e \in EventName, Event(e, i)
    PROVE  /\ chan' \in ChanT /\ chan'.next_event = e /\ chan'.id = i
           /\ chan'.live = chan.live /\ chan'.fd = chan.fd /\ chan'.valid = chan.valid
BY DEF CmTyped, ChanT, Event

\* One that is neither a request nor an established connection.
LEMMA OtherEvent ==
    ASSUME chan'.next_event # "CONNECT_REQUEST", chan'.next_event # "ESTABLISHED"
    PROVE  RequestKept /\ UpKept
BY DEF RequestKept, UpKept, Request, Up

\* The event of a connection that is given up does not count any more.
LEMMA EndsIs ==
    ASSUME CmTyped, NEW i \in Id, Ends(i)
    PROVE  /\ chan' \in ChanT
           /\ Request' => Request /\ chan'.id = chan.id /\ chan'.fd = chan.fd
           /\ Up' => /\ Up /\ chan'.id = chan.id
                     /\ <<cm_id[chan.id].rnic, cm_id[chan.id].qp>> # <<cm_id[i].rnic, cm_id[i].qp>>
<1>1. PICK same \in BOOLEAN :
        same = /\ chan.id # NoId
               /\ chan.next_event = "ESTABLISHED" /\ chan.valid
               /\ cm_id[chan.id].rnic = cm_id[i].rnic
               /\ cm_id[chan.id].qp = cm_id[i].qp
    OBVIOUS
<1>2. chan \in ChanT /\ chan' = [chan EXCEPT !.ended = @ \/ same]
    BY <1>1, Zenon DEF Ends, CmTyped
<1>3. PICK b \in BOOLEAN : b = (chan.ended \/ same)
    OBVIOUS
<1>4. chan' = [chan EXCEPT !.ended = b]
    BY <1>2, <1>3, Zenon
<1>5. /\ chan' \in ChanT /\ chan'.ended = b
      /\ chan'.live = chan.live /\ chan'.next_event = chan.next_event /\ chan'.id = chan.id
      /\ chan'.fd = chan.fd /\ chan'.valid = chan.valid
    BY <1>2, <1>4 DEF ChanT
<1>6. Request' => Request /\ chan'.id = chan.id /\ chan'.fd = chan.fd
    BY <1>5 DEF Request
<1>7. ASSUME Up'
      PROVE  Up /\ ~same /\ chan'.id = chan.id
  <2>1. ~b
      BY <1>5, <1>7, Zenon DEF Up
  <2>2. ~chan.ended /\ ~same
      BY <1>3, <2>1, Zenon
  <2> QED BY <1>5, <1>7, <2>2, Zenon DEF Up
<1>8. ASSUME Up, ~same
      PROVE  <<cm_id[chan.id].rnic, cm_id[chan.id].qp>> # <<cm_id[i].rnic, cm_id[i].qp>>
  <2>1. ~(cm_id[chan.id].rnic = cm_id[i].rnic /\ cm_id[chan.id].qp = cm_id[i].qp)
      BY <1>1, <1>8, Zenon DEF Up
  <2> QED BY <2>1
<1> QED BY <1>5, <1>6, <1>7, <1>8

\* A call that gives identifier i another queue pair, or leaves it the one it
\* has, and says that the old one ended.
LEMMA EndsKeeps ==
    ASSUME CmTyped, Gentle, NEW i \in Id, NEW q \in Qp \cup {NoCmQp}, Ends(i),
           cm_id' = cm_id \/ cm_id' = [cm_id EXCEPT ![i].qp = q]
    PROVE  /\ CmTyped' /\ RequestKept /\ UpKept
           /\ Up' => <<cm_id[chan.id].rnic, cm_id[chan.id].qp>> # <<cm_id[i].rnic, cm_id[i].qp>>
<1>1. /\ cm_id' \in [Id -> IdT]
      /\ cm_id'[i].live = cm_id[i].live /\ cm_id'[i].rnic = cm_id[i].rnic
      /\ cm_id'[i].fd = cm_id[i].fd
      /\ \A n \in Id : n # i => cm_id'[n] = cm_id[n]
  <2>1. CASE cm_id' = cm_id
      BY <2>1 DEF CmTyped
  <2>2. CASE cm_id' = [cm_id EXCEPT ![i].qp = q]
      BY <2>2, IdQpUpdate
  <2> QED BY <2>1, <2>2
<1>2. /\ chan' \in ChanT
      /\ Request' => Request /\ chan'.id = chan.id /\ chan'.fd = chan.fd
      /\ Up' => /\ Up /\ chan'.id = chan.id
                /\ <<cm_id[chan.id].rnic, cm_id[chan.id].qp>> # <<cm_id[i].rnic, cm_id[i].qp>>
    BY EndsIs
<1>3. chan.id # NoId => chan.id \in Id
    BY DEF CmTyped, ChanT
<1>4. \A n \in Id : /\ cm_id'[n].live = cm_id[n].live /\ cm_id'[n].rnic = cm_id[n].rnic
                    /\ cm_id'[n].fd = cm_id[n].fd
    BY <1>1
<1>5. RequestKept
    BY <1>2, <1>3, <1>4 DEF RequestKept, Request
<1>6. UpKept
  <2> SUFFICES ASSUME Up' PROVE /\ Up /\ chan'.id = chan.id
                                /\ cm_id'[chan.id].live = cm_id[chan.id].live
                                /\ cm_id'[chan.id].rnic = cm_id[chan.id].rnic
                                /\ cm_id'[chan.id].qp = cm_id[chan.id].qp
      BY DEF UpKept
  <2>1. Up /\ chan'.id = chan.id /\ chan.id # i
      BY <1>2
  <2>2. chan.id \in Id
      BY <1>3, <2>1 DEF Up
  <2> QED BY <1>1, <2>1, <2>2
<1>7. CmTyped'
    BY <1>1, <1>2, <1>4, IdsTyped
<1> QED BY <1>2, <1>5, <1>6, <1>7

--------------------------------------------------------------------------------
(* The invariant is kept by the three kinds *)

\* By a step that leaves the connections alone,
LEMMA SteadyKeeps ==
    ASSUME CmInv, Steady, CmTyped', RequestKept, UpKept
    PROVE  CmInv'
<1>1. Gentle /\ CmConnInv'
    BY KindsGentle, SteadyConn DEF CmInv
<1>2. Requested'
    BY <1>1, RequestStays DEF CmInv
<1>3. \A r \in Rnic, q \in Qp : Conn(r, q) => Conn(r, q)'
    BY DEF Steady
<1>4. misuse \subseteq misuse'
    BY <1>1 DEF Gentle
<1>5. Established'
    BY <1>3, <1>4, UpStays DEF CmInv
<1> QED BY <1>1, <1>2, <1>5 DEF CmInv

\* by one that gives a queue pair a descriptor,
LEMMA GetsKeeps ==
    ASSUME CmInv, NEW r \in Rnic, NEW q \in Qp, NEW f, Gets(r, q, f), CmTyped', RequestKept, UpKept
    PROVE  CmInv'
<1>1. Gentle /\ CmConnInv'
    BY KindsGentle, GetsConn DEF CmInv
<1>2. Requested'
    BY <1>1, RequestStays DEF CmInv
<1>3. \A s \in Rnic, p \in Qp : Conn(s, p) => Conn(s, p)'
    BY DEF Gets, OthersKept, Conn
<1>4. misuse \subseteq misuse'
    BY <1>1 DEF Gentle
<1>5. Established'
    BY <1>3, <1>4, UpStays DEF CmInv
<1> QED BY <1>1, <1>2, <1>5 DEF CmInv

\* and by one that gives up a queue pair whose connection the event is not of.
LEMMA GivesUpKeeps ==
    ASSUME CmInv, NEW r \in Rnic, NEW q \in Qp, GivesUp(r, q), CmTyped', RequestKept, UpKept,
           Up' => <<cm_id[chan.id].rnic, cm_id[chan.id].qp>> # <<r, q>>
    PROVE  CmInv'
<1>1. Gentle /\ CmConnInv'
    BY KindsGentle, GivesUpConn DEF CmInv
<1>2. Requested'
    BY <1>1, RequestStays DEF CmInv
<1>3. \A s \in Rnic, p \in Qp : <<s, p>> # <<r, q>> => (Conn(s, p) => Conn(s, p)')
    BY DEF GivesUp, OthersKept, Conn
<1>4. misuse \subseteq misuse'
    BY <1>1 DEF Gentle
<1>5. \A s \in Rnic, p \in Qp : Conn(s, p) => \/ Conn(s, p)'
                                              \/ ~Up'
                                              \/ <<cm_id[chan.id].rnic, cm_id[chan.id].qp>> # <<s, p>>
    BY <1>3
<1>6. Established'
    BY <1>4, <1>5, UpStays DEF CmInv
<1> QED BY <1>1, <1>2, <1>6 DEF CmInv

--------------------------------------------------------------------------------
(* Every call keeps it *)

\* The queue pair of an identifier, on an RNIC that is open.
LEMMA QpOfId ==
    ASSUME CmTyped, NEW i \in Id, HasQp(i)
    PROVE  /\ cm_id[i].rnic \in Rnic /\ rnic[cm_id[i].rnic] /\ cm_id[i].qp \in Qp
           /\ chan.live /\ cm_id[i].live
<1>1. cm_id[i].rnic # NoRnic /\ cm_id[i].qp # NoCmQp /\ chan.live /\ cm_id[i].live
    BY DEF HasQp, HasRnic, Usable
<1>2. cm_id[i] \in IdT
    BY DEF CmTyped
<1>3. cm_id[i].qp \in Qp
    BY <1>1, <1>2 DEF IdT
<1> QED BY <1>1, <1>3 DEF CmTyped

\* The RNIC of an identifier.
LEMMA RnicOfId ==
    ASSUME CmTyped, NEW i \in Id, HasRnic(i)
    PROVE  cm_id[i].rnic \in Rnic /\ rnic[cm_id[i].rnic]
BY DEF CmTyped, HasRnic

\* A call that changes neither the identifiers nor the event.
LEMMA QuietCall ==
    ASSUME CmInv, Steady, UNCHANGED <<chan, cm_id>>
    PROVE  CmInv'
<1>1. Gentle /\ CmTyped
    BY KindsGentle DEF CmInv
<1>2. CmTyped'
    BY <1>1, IdsTyped DEF CmTyped
<1>3. RequestKept /\ UpKept
  <2>1. Request' = Request /\ Up' = Up
      BY DEF Request, Up
  <2> QED BY <2>1 DEF RequestKept, UpKept
<1> QED BY <1>2, <1>3, SteadyKeeps

\* A connection: the event is the identifier's.
LEMMA ConnectedCall ==
    ASSUME CmInv, NEW i \in Id, HasQp(i), ConnectStep(cm_id[i].rnic, cm_id[i].qp),
           UNCHANGED cm_id,
           UNCHANGED chan \/ Event("REJECTED", i) \/ Event("ESTABLISHED", i)
    PROVE  CmInv'
<1>1. CmTyped /\ CmConnInv
    BY DEF CmInv
<1>2. PICK r \in Rnic, q \in Qp : r = cm_id[i].rnic /\ q = cm_id[i].qp
    BY <1>1, QpOfId
<1>3. ConnectStep(r, q)
    BY <1>2
<1>4. PICK f \in Fd : Gets(r, q, f) /\ Conn(r, q)'
    BY <1>1, <1>3, ConnectGets
<1>5. Gentle
    BY <1>4, KindsGentle
<1>6. CASE UNCHANGED chan
  <2>1. CmTyped'
      BY <1>1, <1>5, <1>6, IdsTyped DEF CmTyped
  <2>2. Request' = Request /\ Up' = Up
      BY <1>6 DEF Request, Up
  <2>3. RequestKept /\ UpKept
      BY <1>6, <2>2 DEF RequestKept, UpKept
  <2> QED BY <1>4, <2>1, <2>3, GetsKeeps
<1>7. CASE Event("REJECTED", i)
  <2>1. chan' \in ChanT /\ chan'.next_event = "REJECTED"
      BY <1>1, <1>7, EventIs DEF EventName
  <2>2. CmTyped'
      BY <1>1, <1>5, <2>1, IdsTyped DEF CmTyped
  <2>3. RequestKept /\ UpKept
      BY <2>1, OtherEvent
  <2> QED BY <1>4, <2>2, <2>3, GetsKeeps
<1>8. CASE Event("ESTABLISHED", i)
  <2>1. chan' \in ChanT /\ chan'.next_event = "ESTABLISHED" /\ chan'.id = i
      BY <1>1, <1>8, EventIs DEF EventName
  <2>2. CmTyped'
      BY <1>1, <1>5, <2>1, IdsTyped DEF CmTyped
  <2>3. CmConnInv'
      BY <1>1, <1>4, GetsConn
  <2>4. Requested'
      BY <2>1 DEF Requested, Request
  <2>5. cm_id'[i].live /\ cm_id'[i].rnic = r /\ cm_id'[i].qp = q
      BY <1>1, <1>2, QpOfId
  <2>6. Established'
      BY <1>4, <2>1, <2>5 DEF Established, Conn
  <2> QED BY <2>2, <2>3, <2>4, <2>6 DEF CmInv
<1> QED BY <1>6, <1>7, <1>8

\* An attempt to connect or to accept that fails.
LEMMA FailedCall ==
    ASSUME CmInv, NEW i \in Id, NEW r \in Rnic, NEW q \in Qp, NEW f, Gets(r, q, f),
           UNCHANGED cm_id, UNCHANGED chan \/ Event("REJECTED", i)
    PROVE  CmInv'
<1>1. CmTyped /\ Gentle
    BY KindsGentle DEF CmInv
<1>2. chan' \in ChanT
    BY <1>1, EventIs DEF CmTyped, EventName
<1>3. CmTyped'
    BY <1>1, <1>2, IdsTyped DEF CmTyped
<1>4. CASE UNCHANGED chan
  <2>1. Request' = Request /\ Up' = Up
      BY <1>4 DEF Request, Up
  <2>2. RequestKept /\ UpKept
      BY <1>4, <2>1 DEF RequestKept, UpKept
  <2> QED BY <1>3, <2>2, GetsKeeps
<1>5. CASE Event("REJECTED", i)
  <2>1. chan'.next_event = "REJECTED"
      BY <1>1, <1>5, EventIs DEF EventName
  <2>2. RequestKept /\ UpKept
      BY <2>1, OtherEvent
  <2> QED BY <1>3, <2>2, GetsKeeps
<1> QED BY <1>4, <1>5

\* rdma_connect.
LEMMA ConnectKeeps ==
    ASSUME CmInv, NEW i \in Id, rdma_connect(i)
    PROVE  CmInv'
<1>1. CmTyped /\ CmConnInv /\ HasQp(i) /\ UNCHANGED cm_id
    BY DEF CmInv, rdma_connect
<1>2. PICK r \in Rnic, q \in Qp : r = cm_id[i].rnic /\ q = cm_id[i].qp
    BY <1>1, QpOfId
<1>3. CASE iwarp_qp_active_connect(r, q) /\ (Refused(i) \/ Event("ESTABLISHED", i))
  <2>1. ConnectStep(cm_id[i].rnic, cm_id[i].qp)
      BY <1>2, <1>3, ActiveIsConnectStep
  <2> QED BY <1>1, <1>3, <2>1, ConnectedCall DEF Refused
<1>4. CASE active_connect_refused(r, q) /\ Refused(i)
  <2>1. PICK f \in Fd : Gets(r, q, f)
      BY <1>1, <1>4, RefusedGets
  <2> QED BY <1>1, <1>4, <2>1, FailedCall DEF Refused
<1> QED BY <1>2, <1>3, <1>4 DEF rdma_connect

\* rdma_accept.
LEMMA AcceptKeeps ==
    ASSUME CmInv, NEW i \in Id, rdma_accept(i)
    PROVE  CmInv'
<1>1. /\ HasQp(i) /\ Connectable(cm_id[i].rnic, cm_id[i].qp) /\ FreeFd # {}
      /\ Connect(cm_id[i].rnic, cm_id[i].qp, First(FreeFd), {})
      /\ UNCHANGED cm_id /\ UNCHANGED rnic
    BY DEF rdma_accept, Acceptable
<1>2. PICK f \in Fd : f = First(FreeFd) /\ ~sock[f].open
    BY <1>1, FreeFdIn
<1>3. ~sock[f].open /\ f \notin {} /\ {} \in SUBSET Fd /\ Connect(cm_id[i].rnic, cm_id[i].qp, f, {})
    BY <1>1, <1>2, Zenon
<1>4. ConnectStep(cm_id[i].rnic, cm_id[i].qp)
    BY <1>1, <1>3, Zenon DEF ConnectStep
<1>5. Event("REJECTED", i) \/ Event("ESTABLISHED", i)
    BY DEF rdma_accept
<1> QED BY <1>1, <1>4, <1>5, ConnectedCall

\* rdma_accept, MPA startup fails.
LEMMA AcceptFailsKeeps ==
    ASSUME CmInv, NEW i \in Id, rdma_accept_fails(i)
    PROVE  CmInv'
<1>1. CmTyped /\ CmConnInv /\ Typed
    BY DEF CmInv, CmConnInv
<1>2. HasQp(i) /\ FreeFd # {}
    BY DEF rdma_accept_fails, Acceptable
<1>3. PICK r \in Rnic, q \in Qp : r = cm_id[i].rnic /\ q = cm_id[i].qp /\ rnic[r]
    BY <1>1, <1>2, QpOfId
<1>4. PICK f \in Fd : f = First(FreeFd) /\ ~sock[f].open
    BY <1>2, FreeFdIn
<1>5. /\ sock' = [sock EXCEPT ![f] = v_rdmap_register_connection(qp_index[r][q])]
      /\ qp_index' = [qp_index EXCEPT ![r][q].fd = f]
      /\ Event("REJECTED", i) /\ UNCHANGED <<rnic, recv_q, cm_id>>
      /\ Note({"startup failed"} \cup (IF qp_index[r][q].connected THEN {"again"} ELSE {}))
    BY <1>3, <1>4, Zenon DEF rdma_accept_fails
<1>6. PICK own \in QpT : own = qp_index[r][q]
    BY <1>1 DEF Typed
<1>7. own.scq \in MaybeCq /\ own.rcq \in MaybeCq
    BY DEF QpT
<1>8. PICK none \in SockT : none = NoSock
    BY NoSockT, Zenon
<1> DEFINE z == [none EXCEPT !.open = TRUE, !.reg = TRUE, !.scq = own.scq, !.rcq = own.rcq]
<1>9. z \in SockT /\ z.open
    BY <1>7 DEF SockT
<1>10. sock' = [sock EXCEPT ![f] = z]
    BY <1>5, <1>6, <1>8, Zenon DEF v_rdmap_register_connection
<1> HIDE DEF z
<1>11. /\ sock' \in [Fd -> SockT] /\ sock'[f].open
       /\ \A g \in Fd : g # f => sock'[g] = sock[g]
    BY <1>1, <1>9, <1>10 DEF Typed
<1>12. /\ misuse \subseteq misuse' /\ "startup failed" \in misuse'
       /\ qp_index[r][q].connected => "again" \in misuse'
    BY <1>5 DEF Note
<1>13. Attempt(r, q, f)
    BY <1>3, <1>4, <1>5, <1>11, <1>12 DEF Attempt
<1>14. Gets(r, q, f)
    BY <1>1, <1>13, AttemptGets
<1> QED BY <1>5, <1>14, FailedCall

\* rdma_accept without a listening socket.
LEMMA AcceptNoSocketKeeps ==
    ASSUME CmInv, NEW i \in Id, rdma_accept_no_socket(i)
    PROVE  CmInv'
<1>1. CmTyped /\ CmConnInv /\ Typed
    BY DEF CmInv, CmConnInv
<1>2. PICK r \in Rnic, q \in Qp : r = cm_id[i].rnic /\ q = cm_id[i].qp /\ rnic[r]
    BY <1>1, QpOfId DEF rdma_accept_no_socket
<1>3. /\ qp_index' = [qp_index EXCEPT ![r][q].fd = BadFd]
      /\ Event("REJECTED", i) /\ UNCHANGED <<rnic, recv_q, sock, cm_id>>
      /\ Note(IF qp_index[r][q].connected THEN {"again"} ELSE {})
    BY <1>2, Zenon DEF rdma_accept_no_socket
<1>4. misuse \subseteq misuse' /\ (qp_index[r][q].connected => "again" \in misuse')
    BY <1>3, NoteGrows
<1>5. sock' \in [Fd -> SockT]
    BY <1>1, <1>3 DEF Typed
<1>6. Attempt(r, q, BadFd)
    BY <1>2, <1>3, <1>4, <1>5, BadFdNone DEF Attempt
<1>7. Gets(r, q, BadFd)
    BY <1>1, <1>6, AttemptGets
<1> QED BY <1>3, <1>7, FailedCall

\* rdma_disconnect.
LEMMA DisconnectKeeps ==
    ASSUME CmInv, NEW i \in Id, rdma_disconnect(i)
    PROVE  CmInv'
<1>1. CmTyped /\ CmConnInv /\ HasQp(i) /\ UNCHANGED cm_id /\ Ends(i)
    BY DEF CmInv, rdma_disconnect
<1>2. PICK r \in Rnic, q \in Qp : r = cm_id[i].rnic /\ q = cm_id[i].qp
    BY <1>1, QpOfId
<1>3. GivesUp(r, q)
    BY <1>1, <1>2, DisconnectGivesUp DEF rdma_disconnect
<1>4. Gentle
    BY <1>3, KindsGentle
<1>5. /\ CmTyped' /\ RequestKept /\ UpKept
      /\ Up' => <<cm_id[chan.id].rnic, cm_id[chan.id].qp>> # <<r, q>>
    BY <1>1, <1>2, <1>4, EndsKeeps
<1> QED BY <1>3, <1>5, GivesUpKeeps

\* ibv_destroy_qp.
LEMMA IbvDestroyKeeps ==
    ASSUME CmInv, NEW i \in Id, ibv_destroy_qp(i)
    PROVE  CmInv'
<1>1. CmTyped /\ CmConnInv /\ HasQp(i) /\ Ends(i)
    BY DEF CmInv, ibv_destroy_qp
<1>2. PICK r \in Rnic, q \in Qp : r = cm_id[i].rnic /\ q = cm_id[i].qp /\ rnic[r]
    BY <1>1, QpOfId
<1>3. PICK own \in QpT : own = qp_index[r][q]
    BY <1>1 DEF CmConnInv, Typed
<1> DEFINE x == [own EXCEPT !.connected = FALSE]
           y == [x EXCEPT !.available = TRUE, !.scq = <<>>, !.rcq = <<>>]
<1>4. x \in QpT /\ ~x.connected /\ y \in QpT /\ ~y.connected
    BY DEF QpT, MaybeCq
<1>5. PICK f \in SocketFd(r, q) :
        /\ sock' = v_rdmap_deregister_sock(f)
        /\ \/ /\ qp_index' = [qp_index EXCEPT ![r][q] = Destroyed(Disconnected(@))]
              /\ cm_id' = [cm_id EXCEPT ![i].qp = NoCmQp]
           \/ /\ qp_index' = [qp_index EXCEPT ![r][q] = Disconnected(@)]
              /\ UNCHANGED cm_id
    BY <1>2 DEF ibv_destroy_qp
<1>6. UNCHANGED <<rnic, recv_q>> /\ Note(NotConnected(r, q))
    BY <1>2, Zenon DEF ibv_destroy_qp
<1>7. qp_index' = [qp_index EXCEPT ![r][q] = y] \/ qp_index' = [qp_index EXCEPT ![r][q] = x]
    BY <1>3, <1>5 DEF Destroyed, Disconnected
<1> HIDE DEF x, y
<1>8. GivesUp(r, q)
    BY <1>1, <1>2, <1>4, <1>5, <1>6, <1>7, DeregisterGivesUp
<1>9. Gentle
    BY <1>8, KindsGentle
<1>10. NoCmQp \in Qp \cup {NoCmQp}
    OBVIOUS
<1>11. cm_id' = cm_id \/ cm_id' = [cm_id EXCEPT ![i].qp = NoCmQp]
    BY <1>5
<1>12. /\ CmTyped' /\ RequestKept /\ UpKept
       /\ Up' => <<cm_id[chan.id].rnic, cm_id[chan.id].qp>> # <<r, q>>
    BY <1>1, <1>2, <1>9, <1>10, <1>11, EndsKeeps
<1> QED BY <1>8, <1>12, GivesUpKeeps

\* rdma_create_qp and rdma_destroy_qp: the queue pair that is created was not
\* connected, the one that is destroyed is not.
LEMMA LifeKeeps ==
    ASSUME CmInv, NEW i \in Id, Steady, Ends(i), NEW q \in Qp \cup {NoCmQp},
           cm_id' = [cm_id EXCEPT ![i].qp = q]
    PROVE  CmInv'
<1>1. CmTyped /\ Gentle
    BY KindsGentle DEF CmInv
<1>2. CmTyped' /\ RequestKept /\ UpKept
    BY <1>1, EndsKeeps
<1> QED BY <1>2, SteadyKeeps

\* rdma_create_qp.
LEMMA CreateKeeps ==
    ASSUME CmInv, NEW i \in Id, NEW p \in Pd, NEW scq \in Cq, NEW rcq \in Cq,
           rdma_create_qp(i, p, scq, rcq)
    PROVE  CmInv'
<1>1. CmTyped /\ CmConnInv /\ Typed /\ HasRnic(i) /\ Ends(i)
    BY DEF CmInv, CmConnInv, rdma_create_qp
<1>2. PICK r \in Rnic : r = cm_id[i].rnic
    BY <1>1, RnicOfId
<1>3. CASE /\ iwarp_qp_create(r, p, scq, rcq)
           /\ cm_id' = [cm_id EXCEPT ![i].qp = First(Available(qp_index[r]))]
  <2>1. Available(qp_index[r]) \in SUBSET Nat /\ Available(qp_index[r]) \subseteq Qp
      BY <1>1, VerbsAssumption DEF Typed, Available, Qp
  <2>2. First(Available(qp_index[r])) \in Available(qp_index[r])
      BY <1>3, <2>1, FirstIn DEF iwarp_qp_create
  <2>3. PICK q \in Qp : q = First(Available(qp_index[r]))
      BY <2>1, <2>2
  <2>4. cm_id' = [cm_id EXCEPT ![i].qp = q] /\ q \in Qp \cup {NoCmQp}
      BY <1>3, <2>3
  <2>5. QpLifeStep(r)
      BY <1>1, <1>3, CreateIsLifeStep
  <2>6. Steady
      BY <1>1, <2>5, LifeIsSteady
  <2> QED BY <1>1, <2>4, <2>6, LifeKeeps
<1>4. CASE cm_id' = [cm_id EXCEPT ![i].qp = NoCmQp] /\ UNCHANGED vars
  <2>1. SameConnections
      BY <1>4 DEF vars, SameConnections
  <2>2. Steady
      BY <1>1, <2>1, SameIsSteady
  <2>3. NoCmQp \in Qp \cup {NoCmQp}
      OBVIOUS
  <2> QED BY <1>1, <1>4, <2>2, <2>3, LifeKeeps
<1> QED BY <1>2, <1>3, <1>4, Zenon DEF rdma_create_qp

\* rdma_destroy_qp.
LEMMA DestroyKeeps ==
    ASSUME CmInv, NEW i \in Id, rdma_destroy_qp(i)
    PROVE  CmInv'
<1>1. /\ CmTyped /\ CmConnInv /\ Typed /\ HasQp(i) /\ Ends(i)
      /\ cm_id' = [cm_id EXCEPT ![i].qp = NoCmQp]
    BY DEF CmInv, CmConnInv, rdma_destroy_qp
<1>2. PICK r \in Rnic, q \in Qp : r = cm_id[i].rnic /\ q = cm_id[i].qp
    BY <1>1, QpOfId
<1>3. Steady
  <2>1. CASE iwarp_qp_destroy(r, q)
      BY <1>1, <2>1, DestroyIsLifeStep, LifeIsSteady
  <2>2. CASE UNCHANGED vars
    <3>1. SameConnections
        BY <2>2 DEF vars, SameConnections
    <3> QED BY <1>1, <3>1, SameIsSteady
  <2> QED BY <1>2, <2>1, <2>2 DEF rdma_destroy_qp
<1>4. NoCmQp \in Qp \cup {NoCmQp}
    OBVIOUS
<1> QED BY <1>1, <1>3, <1>4, LifeKeeps

\* A channel without an event.
LEMMA NoChanT == NoChan \in ChanT /\ NoChan.next_event = "unset"
<1>1. NoFd \in 0 .. MaxFd
    BY VerbsAssumption DEF NoFd
<1>2. \A b, c, d \in BOOLEAN :
        LET x == [live |-> b, next_event |-> "unset", id |-> NoId, fd |-> NoFd, valid |-> c, ended |-> d]
        IN  x \in ChanT /\ x.next_event = "unset"
    BY <1>1 DEF ChanT, EventName
<1> QED BY <1>2, Zenon DEF NoChan

\* Channels, and fetching an event.
LEMMA ChannelKeeps ==
    ASSUME CmInv,
           rdma_create_event_channel \/ rdma_destroy_event_channel \/ rdma_get_cm_event
    PROVE  CmInv'
<1>1. CmTyped /\ CmConnInv
    BY DEF CmInv
<1>2. UNCHANGED <<vars, cm_id>>
    BY DEF rdma_create_event_channel, rdma_destroy_event_channel, rdma_get_cm_event
<1>3. SameConnections
    BY <1>2 DEF vars, SameConnections
<1>4. Steady
    BY <1>1, <1>3, SameIsSteady
<1>5. Gentle
    BY <1>4, KindsGentle
<1>6. /\ NoChan \in ChanT /\ NoChan.next_event = "unset"
      /\ [NoChan EXCEPT !.live = TRUE] \in ChanT
      /\ [NoChan EXCEPT !.live = TRUE].next_event = "unset"
    BY NoChanT DEF ChanT
<1>7. CASE rdma_create_event_channel \/ rdma_destroy_event_channel
  <2>1. chan' \in ChanT /\ chan'.next_event = "unset"
      BY <1>6, <1>7 DEF rdma_create_event_channel, rdma_destroy_event_channel
  <2>2. RequestKept /\ UpKept
      BY <2>1, OtherEvent
  <2>3. CmTyped'
      BY <1>1, <1>2, <1>5, <2>1, IdsTyped DEF CmTyped
  <2> QED BY <1>4, <2>2, <2>3, SteadyKeeps
<1>8. CASE rdma_get_cm_event
  <2>1. chan \in ChanT
      BY <1>1 DEF CmTyped
  <2>2. \/ chan' = chan /\ chan.next_event # "ESTABLISHED"
        \/ chan' = [chan EXCEPT !.valid = FALSE, !.ended = FALSE] /\ chan.next_event = "ESTABLISHED"
        \/ chan' = [chan EXCEPT !.next_event = "DISCONNECTED"]
      BY <1>8 DEF rdma_get_cm_event
  <2>3. CASE chan' = chan
      BY <1>2, <1>4, <2>3, QuietCall
  <2>4. CASE chan' = [chan EXCEPT !.valid = FALSE, !.ended = FALSE] /\ chan.next_event = "ESTABLISHED"
    <3>1. chan' \in ChanT /\ ~chan'.valid /\ chan'.next_event = "ESTABLISHED"
        BY <2>1, <2>4 DEF ChanT
    <3>2. RequestKept /\ UpKept
        BY <3>1 DEF RequestKept, UpKept, Request, Up
    <3>3. CmTyped'
        BY <1>1, <1>2, <1>5, <3>1, IdsTyped DEF CmTyped
    <3> QED BY <1>4, <3>2, <3>3, SteadyKeeps
  <2>5. CASE chan' = [chan EXCEPT !.next_event = "DISCONNECTED"]
    <3>1. chan' \in ChanT /\ chan'.next_event = "DISCONNECTED"
        BY <2>1, <2>5 DEF ChanT, EventName
    <3>2. RequestKept /\ UpKept
        BY <3>1, OtherEvent
    <3>3. CmTyped'
        BY <1>1, <1>2, <1>5, <3>1, IdsTyped DEF CmTyped
    <3> QED BY <1>4, <3>2, <3>3, SteadyKeeps
  <2> QED BY <2>2, <2>3, <2>4, <2>5
<1> QED BY <1>7, <1>8

\* What rdma_create_id makes, and what rdma_destroy_id leaves.
LEMMA NewIdT ==
    /\ NewId \in IdT /\ NewId.rnic = NoRnic
    /\ DeadId \in IdT /\ DeadId.rnic = NoRnic /\ ~DeadId.live
<1>1. NoFd \in 0 .. MaxFd
    BY VerbsAssumption DEF NoFd
<1>2. \A b \in BOOLEAN : LET x == [live |-> b, rnic |-> NoRnic, fd |-> NoFd, qp |-> NoCmQp]
                         IN  x \in IdT /\ x.rnic = NoRnic /\ x.live = b
    BY <1>1 DEF IdT
<1>3. NewId = [live |-> TRUE, rnic |-> NoRnic, fd |-> NoFd, qp |-> NoCmQp]
    BY Zenon DEF NewId
<1>4. NewId \in IdT /\ NewId.rnic = NoRnic
    BY <1>2, <1>3, Zenon
<1>5. PICK x \in IdT : x = NewId /\ x.rnic = NoRnic
    BY <1>4, Zenon
<1>6. /\ [x EXCEPT !.live = FALSE] \in IdT /\ [x EXCEPT !.live = FALSE].rnic = NoRnic
      /\ [x EXCEPT !.live = FALSE].live = FALSE
    BY <1>5 DEF IdT
<1>7. DeadId = [x EXCEPT !.live = FALSE]
    BY <1>5, Zenon DEF DeadId
<1> QED BY <1>4, <1>6, <1>7, Zenon

\* An identifier that does not exist has no event; one that goes takes its
\* event's identifier with it.
LEMMA IdKeeps ==
    ASSUME CmInv, NEW i \in Id, rdma_create_id(i) \/ rdma_destroy_id(i)
    PROVE  CmInv'
<1>1. CmTyped /\ CmConnInv /\ Requested /\ Established /\ chan \in ChanT
    BY DEF CmInv, CmTyped
<1>2. SameConnections
    BY DEF rdma_create_id, rdma_destroy_id, vars, SameConnections
<1>3. Steady
    BY <1>1, <1>2, SameIsSteady
<1>4. Gentle
    BY <1>3, KindsGentle
<1>5. PICK x \in IdT : x.rnic = NoRnic /\ cm_id' = [cm_id EXCEPT ![i] = x]
    BY NewIdT DEF rdma_create_id, rdma_destroy_id
<1>6. cm_id' \in [Id -> IdT] /\ cm_id'[i] = x /\ \A n \in Id : n # i => cm_id'[n] = cm_id[n]
    BY <1>1, <1>5, IdUpdate
<1>7. chan.id # NoId => chan.id \in Id
    BY <1>1 DEF ChanT
<1>8. CASE rdma_create_id(i)
  <2>1. ~cm_id[i].live /\ chan' = chan
      BY <1>8 DEF rdma_create_id
  <2>2. (Request => chan.id # i) /\ (Up => chan.id # i)
      BY <1>1, <2>1 DEF Requested, Established
  <2>3. Request' = Request /\ Up' = Up
      BY <2>1 DEF Request, Up
  <2>4. RequestKept /\ UpKept
      BY <1>6, <1>7, <2>1, <2>2, <2>3 DEF RequestKept, UpKept, Request, Up
  <2>5. CmTyped'
      BY <1>1, <1>4, <1>5, <1>6, <2>1, IdsTyped DEF CmTyped
  <2> QED BY <1>3, <2>4, <2>5, SteadyKeeps
<1>9. CASE rdma_destroy_id(i)
  <2>1. chan' = [chan EXCEPT !.id = IF @ = i THEN NoId ELSE @]
      BY <1>9 DEF rdma_destroy_id
  <2>2. /\ chan' \in ChanT /\ chan'.id = IF chan.id = i THEN NoId ELSE chan.id
        /\ chan'.live = chan.live /\ chan'.next_event = chan.next_event
        /\ chan'.fd = chan.fd /\ chan'.valid = chan.valid /\ chan'.ended = chan.ended
      BY <1>1, <2>1 DEF ChanT
  <2>3. Request' => Request /\ chan'.id = chan.id /\ chan.id # i
      BY <2>2 DEF Request
  <2>4. Up' => Up /\ chan'.id = chan.id /\ chan.id # i
      BY <2>2 DEF Up
  <2>5. RequestKept /\ UpKept
      BY <1>6, <1>7, <2>2, <2>3, <2>4 DEF RequestKept, UpKept, Request, Up
  <2>6. CmTyped'
      BY <1>1, <1>4, <1>5, <1>6, <2>2, IdsTyped
  <2> QED BY <1>3, <2>5, <2>6, SteadyKeeps
<1> QED BY <1>8, <1>9

\* The descriptors after check_open: as open as before, and not known if they
\* were not.
LEMMA AfterOpen ==
    ASSUME CmConnInv, NEW i \in Id
    PROVE  /\ SocksAfterOpen(i) \in [Fd -> SockT]
           /\ \A g \in Fd : /\ SocksAfterOpen(i)[g].open = sock[g].open
                            /\ SocksAfterOpen(i)[g].reg => sock[g].reg
<1>1. Typed
    BY DEF CmConnInv
<1>2. Unregistered \in [Fd -> SockT]
    BY <1>1, UnregisteredT
<1>3. \A g \in Fd : ~Unregistered[g].reg /\ Unregistered[g].open = sock[g].open
    BY <1>1, UnregisteredOpen
<1>4. CASE cm_id[i].rnic = NoRnic
  <2>1. SocksAfterOpen(i) = Unregistered
      BY <1>4, Zenon DEF SocksAfterOpen
  <2> QED BY <1>2, <1>3, <2>1
<1>5. CASE cm_id[i].rnic # NoRnic
  <2>1. SocksAfterOpen(i) = sock
      BY <1>5, Zenon DEF SocksAfterOpen
  <2> QED BY <1>1, <2>1 DEF Typed
<1> QED BY <1>4, <1>5

\* A listening socket is opened.
LEMMA ListenSteady ==
    ASSUME CmInv, NEW i \in Id, FreeFd # {},
           check_open(i, [SocksAfterOpen(i) EXCEPT ![First(FreeFd)].open = TRUE])
    PROVE  /\ Steady /\ IdRnic(i) \in Rnic /\ rnic'[IdRnic(i)]
           /\ First(FreeFd) \in Fd /\ ~sock[First(FreeFd)].open
           /\ sock'[First(FreeFd)].open /\ ~sock'[First(FreeFd)].reg
<1>1. CmTyped /\ CmConnInv /\ RegisteredOpen
    BY DEF CmInv, CmConnInv
<1>2. PICK l \in Fd : l = First(FreeFd) /\ ~sock[l].open
    BY FreeFdIn
<1>3. PICK a \in [Fd -> SockT] :
        /\ a = SocksAfterOpen(i)
        /\ \A g \in Fd : a[g].open = sock[g].open /\ (a[g].reg => sock[g].reg)
    BY <1>1, AfterOpen
<1> DEFINE z == [a[l] EXCEPT !.open = TRUE]
           s == [a EXCEPT ![l] = z]
<1>4. z \in SockT /\ z.open /\ z.reg = a[l].reg
    BY DEF SockT
<1>5. s = [SocksAfterOpen(i) EXCEPT ![First(FreeFd)].open = TRUE]
    BY <1>2, <1>3
<1> HIDE DEF z
<1>6. /\ s \in [Fd -> SockT] /\ s[l] = z
      /\ \A g \in Fd : (a[g].open => s[g].open) /\ s[g].reg = a[g].reg
    BY <1>4
<1>7. check_open(i, s) /\ sock' = s
    BY <1>5 DEF check_open
<1> HIDE DEF s
<1>8. \A g \in Fd : /\ SocksAfterOpen(i)[g].open => s[g].open
                    /\ s[g].reg = SocksAfterOpen(i)[g].reg
    BY <1>3, <1>6
<1>9. Steady /\ IdRnic(i) \in Rnic /\ rnic'[IdRnic(i)]
    BY <1>1, <1>6, <1>7, <1>8, OpenIsSteady
<1>10. ~sock[l].reg
    BY <1>1, <1>2 DEF RegisteredOpen
<1>11. sock'[l].open /\ ~sock'[l].reg
    BY <1>3, <1>4, <1>6, <1>7, <1>10
<1> QED BY <1>2, <1>9, <1>11

\* Identifiers keep their RNIC, or get one that is open.
LEMMA IdsOpened ==
    ASSUME CmTyped, Gentle, NEW r \in Rnic, rnic'[r], cm_id' \in [Id -> IdT], chan' \in ChanT,
           \A n \in Id : cm_id'[n].rnic \in {cm_id[n].rnic, r}
    PROVE  CmTyped'
BY DEF CmTyped, Gentle

\* rdma_listen, bind or listen fails.
LEMMA ListenFailsKeeps ==
    ASSUME CmInv, NEW i \in Id, rdma_listen_fails(i)
    PROVE  CmInv'
<1>1. CmTyped /\ CmConnInv
    BY DEF CmInv
<1>2. /\ FreeFd # {}
      /\ check_open(i, [SocksAfterOpen(i) EXCEPT ![First(FreeFd)].open = TRUE])
      /\ cm_id' = [cm_id EXCEPT ![i].rnic = IdRnic(i), ![i].fd = First(FreeFd)]
      /\ Event("REJECTED", i)
    BY Zenon DEF rdma_listen_fails
<1>3. /\ Steady /\ IdRnic(i) \in Rnic /\ rnic'[IdRnic(i)] /\ First(FreeFd) \in Fd
    BY <1>2, ListenSteady
<1>4. PICK r \in Rnic, l \in Fd : r = IdRnic(i) /\ l = First(FreeFd) /\ rnic'[r]
    BY <1>3
<1>5. cm_id[i] \in IdT /\ l \in 0 .. MaxFd
    BY <1>1, VerbsAssumption DEF CmTyped, Fd
<1> DEFINE x == [cm_id[i] EXCEPT !.rnic = r, !.fd = l]
<1>6. x \in IdT /\ x.rnic = r
    BY <1>5 DEF IdT
<1>7. cm_id' = [cm_id EXCEPT ![i] = x]
    BY <1>1, <1>2, <1>4 DEF CmTyped
<1> HIDE DEF x
<1>8. cm_id' \in [Id -> IdT] /\ \A n \in Id : cm_id'[n].rnic \in {cm_id[n].rnic, r}
    BY <1>1, <1>6, <1>7, IdUpdate
<1>9. chan' \in ChanT /\ chan'.next_event = "REJECTED"
    BY <1>1, <1>2, EventIs DEF EventName
<1>10. Gentle
    BY <1>3, KindsGentle
<1>11. CmTyped'
    BY <1>1, <1>4, <1>8, <1>9, <1>10, IdsOpened
<1>12. RequestKept /\ UpKept
    BY <1>9, OtherEvent
<1> QED BY <1>3, <1>11, <1>12, SteadyKeeps

\* rdma_resolve_addr and rdma_resolve_route.
LEMMA ResolveKeeps ==
    ASSUME CmInv, NEW i \in Id, rdma_resolve_addr(i) \/ rdma_resolve_route(i)
    PROVE  CmInv'
<1>1. CmTyped /\ CmConnInv
    BY DEF CmInv
<1>2. CASE rdma_resolve_addr(i)
  <2>1. /\ check_open(i, SocksAfterOpen(i))
        /\ cm_id' = [cm_id EXCEPT ![i].rnic = IdRnic(i)]
        /\ Event("ADDR_RESOLVED", i)
      BY <1>2, Zenon DEF rdma_resolve_addr
  <2>2. PICK s \in [Fd -> SockT] : s = SocksAfterOpen(i)
      BY <1>1, AfterOpen
  <2>3. check_open(i, s)
      BY <2>1, <2>2
  <2>4. \A g \in Fd : /\ SocksAfterOpen(i)[g].open => s[g].open
                      /\ s[g].reg = SocksAfterOpen(i)[g].reg
      BY <2>2
  <2>5. Steady /\ IdRnic(i) \in Rnic /\ rnic'[IdRnic(i)]
      BY <1>1, <2>3, <2>4, OpenIsSteady
  <2>6. PICK r \in Rnic : r = IdRnic(i) /\ rnic'[r]
      BY <2>5
  <2>7. cm_id[i] \in IdT
      BY <1>1 DEF CmTyped
  <2> DEFINE x == [cm_id[i] EXCEPT !.rnic = r]
  <2>8. x \in IdT /\ x.rnic = r
      BY <2>7 DEF IdT
  <2>9. cm_id' = [cm_id EXCEPT ![i] = x]
      BY <2>1, <2>6
  <2> HIDE DEF x
  <2>10. cm_id' \in [Id -> IdT] /\ \A n \in Id : cm_id'[n].rnic \in {cm_id[n].rnic, r}
      BY <1>1, <2>8, <2>9, IdUpdate
  <2>11. chan' \in ChanT /\ chan'.next_event = "ADDR_RESOLVED"
      BY <1>1, <2>1, EventIs DEF EventName
  <2>12. Gentle
      BY <2>5, KindsGentle
  <2>13. CmTyped'
      BY <1>1, <2>6, <2>10, <2>11, <2>12, IdsOpened
  <2>14. RequestKept /\ UpKept
      BY <2>11, OtherEvent
  <2> QED BY <2>5, <2>13, <2>14, SteadyKeeps
<1>3. CASE rdma_resolve_route(i)
  <2>1. UNCHANGED <<vars, cm_id>> /\ Event("ROUTE_RESOLVED", i)
      BY <1>3 DEF rdma_resolve_route
  <2>2. SameConnections
      BY <2>1 DEF vars, SameConnections
  <2>3. Steady
      BY <1>1, <2>2, SameIsSteady
  <2>4. chan' \in ChanT /\ chan'.next_event = "ROUTE_RESOLVED"
      BY <1>1, <2>1, EventIs DEF EventName
  <2>5. Gentle
      BY <2>3, KindsGentle
  <2>6. CmTyped'
      BY <1>1, <2>1, <2>4, <2>5, IdsTyped DEF CmTyped
  <2>7. RequestKept /\ UpKept
      BY <2>4, OtherEvent
  <2> QED BY <2>3, <2>6, <2>7, SteadyKeeps
<1> QED BY <1>2, <1>3

\* rdma_listen: the new identifier has the listening socket, which nobody had.
LEMMA ListenKeeps ==
    ASSUME CmInv, NEW i \in Id, NEW n \in Id \ {i}, rdma_listen(i, n)
    PROVE  CmInv'
<1>1. CmTyped /\ CmConnInv
    BY DEF CmInv
<1>2. /\ FreeFd # {} /\ chan.live
      /\ check_open(i, [SocksAfterOpen(i) EXCEPT ![First(FreeFd)].open = TRUE])
      /\ cm_id' = [cm_id EXCEPT ![i].rnic = IdRnic(i), ![i].fd = First(FreeFd),
                                ![n] = Child(i, First(FreeFd))]
      /\ chan' = [chan EXCEPT !.next_event = "CONNECT_REQUEST", !.id = n, !.fd = First(FreeFd),
                              !.ended = FALSE]
    BY Zenon DEF rdma_listen, Usable
<1>3. /\ Steady /\ IdRnic(i) \in Rnic /\ rnic'[IdRnic(i)] /\ First(FreeFd) \in Fd
      /\ ~sock[First(FreeFd)].open
      /\ sock'[First(FreeFd)].open /\ ~sock'[First(FreeFd)].reg
    BY <1>2, ListenSteady
<1>4. PICK r \in Rnic, l \in Fd :
        /\ r = IdRnic(i) /\ l = First(FreeFd) /\ rnic'[r]
        /\ ~sock[l].open /\ sock'[l].open /\ ~sock'[l].reg
    BY <1>3
<1>5. cm_id[i] \in IdT /\ l \in 0 .. MaxFd
    BY <1>1, VerbsAssumption DEF CmTyped, Fd
<1> DEFINE x == [cm_id[i] EXCEPT !.rnic = r, !.fd = l]
<1>6. x \in IdT /\ x.rnic = r
    BY <1>5 DEF IdT
<1>7. PICK c \in IdT : /\ c = Child(i, l) /\ c.rnic = r /\ c.fd = l /\ c.live
  <2>1. PICK new \in IdT : new = NewId /\ new.live
      BY NewIdT DEF NewId
  <2> DEFINE c == [new EXCEPT !.rnic = r, !.fd = l, !.qp = cm_id[i].qp]
  <2>2. cm_id[i].qp \in Qp \cup {NoCmQp}
      BY <1>5 DEF IdT
  <2>3. c \in IdT /\ c.rnic = r /\ c.fd = l /\ c.live
      BY <1>5, <2>1, <2>2 DEF IdT
  <2>4. c = Child(i, l)
      BY <1>4, <2>1, Zenon DEF Child
  <2> QED BY <2>3, <2>4
<1>8. /\ cm_id' \in [Id -> IdT] /\ cm_id'[n] = c
      /\ \A m \in Id : cm_id'[m].rnic \in {cm_id[m].rnic, r}
  <2>1. cm_id' = [[cm_id EXCEPT ![i] = x] EXCEPT ![n] = c]
      BY <1>1, <1>2, <1>4, <1>7 DEF CmTyped
  <2> HIDE DEF x
  <2> QED BY <1>1, <1>6, <1>7, <2>1 DEF CmTyped
<1> HIDE DEF x
<1>9. /\ chan' \in ChanT /\ chan'.next_event = "CONNECT_REQUEST"
      /\ chan'.id = n /\ chan'.fd = l
    BY <1>1, <1>2, <1>4, <1>5 DEF CmTyped, ChanT, EventName
<1>10. Gentle
    BY <1>3, KindsGentle
<1>11. CmTyped'
    BY <1>1, <1>4, <1>8, <1>9, <1>10, IdsOpened
<1>12. CmConnInv'
    BY <1>1, <1>3, SteadyConn
<1>13. ("not connected" \notin misuse)' => \A s \in Rnic, q \in Qp : Conn(s, q)' => FdOf(s, q)' # l
  <2>1. misuse \subseteq misuse'
      BY <1>10 DEF Gentle
  <2>2. "not connected" \notin misuse => Claimed
      BY <1>1 DEF CmConnInv
  <2>3. Claimed => \A s \in Rnic, q \in Qp : Conn(s, q) => FdOf(s, q) # l
      BY <1>4, BadFdNone DEF Claimed
  <2>4. \A s \in Rnic, q \in Qp : Conn(s, q)' => Conn(s, q) /\ FdOf(s, q)' = FdOf(s, q)
      BY <1>3 DEF Steady
  <2> QED BY <2>1, <2>2, <2>3, <2>4
<1>14. Requested'
    BY <1>4, <1>7, <1>8, <1>9, <1>13 DEF Requested
<1>15. Established'
    BY <1>9 DEF Established, Up
<1> QED BY <1>11, <1>12, <1>14, <1>15 DEF CmInv

\* Domains, regions, completion queues, work requests and polling.
LEMMA WorkKeeps ==
    ASSUME CmInv, NEW i \in Id,
           \/ ibv_alloc_pd(i)
           \/ \E p \in Pd : ibv_dealloc_pd(i, p) \/ \E m \in Region : ibv_reg_mr(i, p, m)
           \/ \E m \in Region : ibv_dereg_mr(i, m)
           \/ \E c \in Cq : ibv_create_cq(i, c) \/ ibv_destroy_cq(i, c) \/ ibv_poll_cq(i, c)
           \/ \E id \in 1 .. MaxWr \ Outstanding : ibv_post_recv(i, id)
           \/ \E signaled \in BOOLEAN : ibv_post_send(i, signaled)
           \/ ibv_advance_sw_rnic(i)
    PROVE  CmInv'
<1>1. CmTyped /\ CmConnInv /\ Typed
    BY DEF CmInv, CmConnInv
<1>2. CASE ibv_alloc_pd(i)
  <2>1. SameConnections /\ UNCHANGED <<chan, cm_id>>
      BY <1>2 DEF ibv_alloc_pd, iwarp_pd_allocate, SameConnections
  <2> QED BY <1>1, <2>1, SameIsSteady, QuietCall
<1>3. ASSUME NEW p \in Pd, ibv_dealloc_pd(i, p) PROVE CmInv'
  <2>1. SameConnections /\ UNCHANGED <<chan, cm_id>>
      BY <1>3 DEF ibv_dealloc_pd, iwarp_pd_deallocate, SameConnections
  <2> QED BY <1>1, <2>1, SameIsSteady, QuietCall
<1>4. ASSUME NEW p \in Pd, NEW m \in Region, ibv_reg_mr(i, p, m) PROVE CmInv'
  <2>1. SameConnections /\ UNCHANGED <<chan, cm_id>>
      BY <1>4 DEF ibv_reg_mr, iwarp_nsmr_register, SameConnections, cmVars, Note
  <2> QED BY <1>1, <2>1, SameIsSteady, QuietCall
<1>5. ASSUME NEW m \in Region, ibv_dereg_mr(i, m) PROVE CmInv'
  <2>1. SameConnections /\ UNCHANGED <<chan, cm_id>>
      BY <1>5 DEF ibv_dereg_mr, SameConnections, cmVars
  <2> QED BY <1>1, <2>1, SameIsSteady, QuietCall
<1>6. ASSUME NEW c \in Cq, ibv_create_cq(i, c) \/ ibv_destroy_cq(i, c) PROVE CmInv'
  <2>1. SameConnections /\ UNCHANGED <<chan, cm_id>>
      BY <1>6 DEF ibv_create_cq, ibv_destroy_cq, iwarp_cq_create, iwarp_cq_destroy, SameConnections,
                  cmVars
  <2> QED BY <1>1, <2>1, SameIsSteady, QuietCall
<1>7. ASSUME NEW c \in Cq, ibv_poll_cq(i, c) PROVE CmInv'
  <2>1. v_poll_cq(c) /\ UNCHANGED <<rnic, qp_index, recv_q, misuse>> /\ UNCHANGED <<chan, cm_id>>
      BY <1>7 DEF ibv_poll_cq, iwarp_cq_poll, cmVars
  <2>2. SocketStep \/ SameConnections
      BY <1>1, <2>1, PollIsSocketStep
  <2> QED BY <1>1, <2>1, <2>2, SocketIsSteady, SameIsSteady, QuietCall
<1>8. ASSUME NEW id \in 1 .. MaxWr \ Outstanding, ibv_post_recv(i, id) PROVE CmInv'
  <2>1. HasQp(i) /\ iwarp_qp_post_rq(cm_id[i].rnic, cm_id[i].qp, id, TRUE) /\ UNCHANGED <<chan, cm_id>>
      BY <1>8 DEF ibv_post_recv, cmVars
  <2>2. PICK r \in Rnic, q \in Qp : r = cm_id[i].rnic /\ q = cm_id[i].qp
      BY <1>1, <2>1, QpOfId
  <2>3. iwarp_qp_post_rq(r, q, id, TRUE) /\ id \in 1 .. MaxWr
      BY <2>1, <2>2
  <2>4. Steady
      BY <1>1, <2>3, PostIsSteady
  <2> QED BY <2>1, <2>4, QuietCall
<1>9. ASSUME NEW signaled \in BOOLEAN, ibv_post_send(i, signaled) PROVE CmInv'
  <2>1. SameConnections /\ UNCHANGED <<chan, cm_id>>
      BY <1>9, Zenon DEF ibv_post_send, post_sq_send, SameConnections, cmVars
  <2> QED BY <1>1, <2>1, SameIsSteady, QuietCall
<1>10. CASE ibv_advance_sw_rnic(i)
  <2>1. v_rnic_advance /\ UNCHANGED <<rnic, qp_index, recv_q, misuse>> /\ UNCHANGED <<chan, cm_id>>
      BY <1>10 DEF ibv_advance_sw_rnic, iwarp_rnic_advance, cmVars
  <2>2. PICK a \in Arrivals : sock' = a.sock
      BY <2>1 DEF v_rnic_advance
  <2>3. SocketStep
      BY <1>1, <2>1, <2>2, Arrived, Zenon DEF SocketStep
  <2> QED BY <1>1, <2>1, <2>3, SocketIsSteady, QuietCall
<1> QED BY <1>2, <1>3, <1>4, <1>5, <1>6, <1>7, <1>8, <1>9, <1>10, Zenon

\* At the start there is no identifier and nothing is connected.
LEMMA CmInvInit == CmInit => CmInv
<1> SUFFICES ASSUME CmInit PROVE CmInv
    OBVIOUS
<1>1. Init /\ chan = NoChan /\ cm_id = [i \in Id |-> DeadId]
    BY DEF CmInit
<1>2. ConnInv /\ misuse = {}
    BY <1>1, ConnInit DEF Init
<1>3. Typed /\ Idle /\ RegisteredOpen /\ Owned /\ Apart /\ Named
    BY <1>2 DEF ConnInv
<1>4. Claimed /\ Distinct
    BY <1>3 DEF Claimed, Distinct, Owned, Apart, FdOf, RegisteredOpen
<1>5. CmConnInv
    BY <1>3, <1>4 DEF CmConnInv
<1>6. CmTyped
    BY <1>1, NewIdT, NoChanT DEF CmTyped
<1>7. Requested /\ Established
    BY <1>1, NoChanT DEF Requested, Established, Request, Up
<1> QED BY <1>5, <1>6, <1>7 DEF CmInv

\* Every call keeps the invariant.
LEMMA CmInvStep ==
    ASSUME CmInv, [CmNext]_<<vars, cmVars>>
    PROVE  CmInv'
<1>1. CASE UNCHANGED <<vars, cmVars>>
  <2>1. CmConnInv /\ SameConnections /\ UNCHANGED <<chan, cm_id>>
      BY <1>1 DEF CmInv, vars, cmVars, SameConnections
  <2> QED BY <2>1, SameIsSteady, QuietCall
<1>2. CASE rdma_create_event_channel \/ rdma_destroy_event_channel \/ rdma_get_cm_event
    BY <1>2, ChannelKeeps
<1>3. ASSUME NEW i \in Id, Connecting(i) PROVE CmInv'
  <2>1. CASE rdma_create_id(i) \/ rdma_destroy_id(i)
      BY <2>1, IdKeeps
  <2>2. ASSUME NEW n \in Id \ {i}, rdma_listen(i, n) PROVE CmInv'
      BY <2>2, ListenKeeps
  <2>3. CASE rdma_listen_fails(i)
      BY <2>3, ListenFailsKeeps
  <2>4. CASE rdma_resolve_addr(i) \/ rdma_resolve_route(i)
      BY <2>4, ResolveKeeps
  <2>5. CASE rdma_connect(i)
      BY <2>5, ConnectKeeps
  <2>6. CASE rdma_accept(i)
      BY <2>6, AcceptKeeps
  <2>7. CASE rdma_accept_fails(i)
      BY <2>7, AcceptFailsKeeps
  <2>8. CASE rdma_accept_no_socket(i)
      BY <2>8, AcceptNoSocketKeeps
  <2>9. CASE rdma_disconnect(i)
      BY <2>9, DisconnectKeeps
  <2> QED BY <1>3, <2>1, <2>2, <2>3, <2>4, <2>5, <2>6, <2>7, <2>8, <2>9, Zenon DEF Connecting
<1>4. ASSUME NEW i \in Id, Working(i) PROVE CmInv'
  <2>1. ASSUME NEW p \in Pd, NEW scq \in Cq, NEW rcq \in Cq, rdma_create_qp(i, p, scq, rcq)
        PROVE  CmInv'
      BY <2>1, CreateKeeps
  <2>2. CASE rdma_destroy_qp(i)
      BY <2>2, DestroyKeeps
  <2>3. CASE ibv_destroy_qp(i)
      BY <2>3, IbvDestroyKeeps
  <2>4. CASE \/ ibv_alloc_pd(i)
             \/ \E p \in Pd : ibv_dealloc_pd(i, p) \/ \E m \in Region : ibv_reg_mr(i, p, m)
             \/ \E m \in Region : ibv_dereg_mr(i, m)
             \/ \E c \in Cq : ibv_create_cq(i, c) \/ ibv_destroy_cq(i, c) \/ ibv_poll_cq(i, c)
             \/ \E id \in 1 .. MaxWr \ Outstanding : ibv_post_recv(i, id)
             \/ \E signaled \in BOOLEAN : ibv_post_send(i, signaled)
             \/ ibv_advance_sw_rnic(i)
      BY <2>4, WorkKeeps
  <2> QED BY <1>4, <2>1, <2>2, <2>3, <2>4, Zenon DEF Working
<1> QED BY <1>1, <1>2, <1>3, <1>4, Zenon DEF CmNext

\* The invariant holds in every behaviour.
LEMMA CmInvHolds == CmSpec => []CmInv
BY CmInvInit, CmInvStep, PTL DEF CmSpec

--------------------------------------------------------------------------------
(* The theorems *)

\* The identifier of a connection request is one to accept with, as long as it
\* exists, for any number of identifiers, RNICs and descriptors (rdma_listen,
\* rdma_get_cm_event; the exception is RequestAcceptable's).
THEOREM RequestsAreAcceptable == CmSpec => []RequestAcceptable
<1>1. CmInv => RequestAcceptable
  <2> SUFFICES ASSUME CmInv, Request, "not connected" \notin misuse
               PROVE  /\ cm_id[chan.id].live
                      /\ cm_id[chan.id].fd = chan.fd /\ Listening(cm_id[chan.id].fd)
                      /\ rnic[cm_id[chan.id].rnic]
                      /\ \A x \in Conns : qp_index[x[1]][x[2]].fd # cm_id[chan.id].fd
      BY DEF RequestAcceptable, Request
  <2>1. /\ cm_id[chan.id].live /\ rnic[cm_id[chan.id].rnic] /\ cm_id[chan.id].fd = chan.fd
        /\ chan.fd \in Fd /\ sock[chan.fd].open /\ ~sock[chan.fd].reg
        /\ \A r \in Rnic, q \in Qp : Conn(r, q) => FdOf(r, q) # chan.fd
      BY DEF CmInv, Requested
  <2>2. Listening(chan.fd)
      BY <2>1 DEF Listening
  <2>3. \A x \in Conns : qp_index[x[1]][x[2]].fd # chan.fd
      BY <2>1 DEF Conns, Conn, FdOf
  <2> QED BY <2>1, <2>2, <2>3
<1> QED BY <1>1, CmInvHolds, PTL

\* An established connection is up: its queue pair is connected over a socket
\* RDMAP knows, whatever other identifiers do (rdma_connect, rdma_accept; the
\* exceptions are EstablishedUp's).
THEOREM EstablishedConnectionsAreUp == CmSpec => []EstablishedUp
<1>1. CmInv => EstablishedUp
  <2> SUFFICES ASSUME CmInv, Up, misuse \cap Excepted = {}
               PROVE  /\ <<cm_id[chan.id].rnic, cm_id[chan.id].qp>> \in Conns
                      /\ sock[qp_index[cm_id[chan.id].rnic][cm_id[chan.id].qp].fd].reg
      BY DEF EstablishedUp, Up, Excepted
  <2>1. PICK r \in Rnic, q \in Qp : r = cm_id[chan.id].rnic /\ q = cm_id[chan.id].qp /\ Conn(r, q)
      BY DEF CmInv, Established
  <2>2. sock[qp_index[r][q].fd].reg
      BY <2>1 DEF CmInv, CmConnInv, Owned
  <2>3. <<r, q>> \in Conns
      BY <2>1 DEF Conns, Conn
  <2> QED BY <2>1, <2>2, <2>3
<1> QED BY <1>1, CmInvHolds, PTL

\* A program that uses nothing but these calls leaves no socket behind that
\* RDMAP knows and no queue pair does (openfab.c; the exceptions are
\* NoOrphan's, a failed startup in rdma_accept among them).
THEOREM CallsLeaveNoOrphan == CmSpec => []NoOrphan
<1>1. CmInv => NoOrphan
  <2> SUFFICES ASSUME CmInv, misuse \cap {"not connected", "again", "second RNIC", "startup failed"} = {},
                      NEW f \in Fd, sock[f].reg
               PROVE  \E x \in Conns : qp_index[x[1]][x[2]].fd = f
      BY DEF NoOrphan
  <2>1. misuse \cap (Excepted \cup {"startup failed"}) = {}
      BY DEF Excepted
  <2>2. PICK r \in Rnic, q \in Qp : Conn(r, q) /\ qp_index[r][q].fd = f
      BY <2>1 DEF CmInv, CmConnInv, Named
  <2>3. <<r, q>> \in Conns
      BY <2>2 DEF Conns, Conn
  <2> QED BY <2>2, <2>3
<1> QED BY <1>1, CmInvHolds, PTL

\* A connected queue pair has a socket of its own under these calls too, which
\* share queue pairs between identifiers and give descriptors away when an
\* accept fails (openfab.c; the exceptions are SocketOwned's).
THEOREM CallsKeepSocketsOwned == CmSpec => []SocketOwned
<1>1. CmInv => SocketOwned
  <2> SUFFICES ASSUME CmInv, misuse \cap Excepted = {}, NEW x \in Conns, NEW y \in Conns
               PROVE  LET f == qp_index[x[1]][x[2]].fd
                      IN  /\ sock[f].open /\ sock[f].reg
                          /\ qp_index[y[1]][y[2]].fd = f => x = y
      BY DEF SocketOwned, Excepted
  <2>1. PICK r \in Rnic, q \in Qp : x = <<r, q>> /\ Conn(r, q)
      BY DEF Conns, Conn
  <2>2. PICK s \in Rnic, p \in Qp : y = <<s, p>> /\ Conn(s, p)
      BY DEF Conns, Conn
  <2>3. Owned /\ Distinct /\ RegisteredOpen
      BY DEF CmInv, CmConnInv, Excepted
  <2>4. FdOf(r, q) \in Fd /\ sock[FdOf(r, q)].reg /\ sock[FdOf(r, q)].open
      BY <2>1, <2>3 DEF Owned, RegisteredOpen, FdOf
  <2>5. FdOf(s, p) = FdOf(r, q) => x = y
      BY <2>1, <2>2, <2>3, <2>4, BadFdNone DEF Distinct
  <2> QED BY <2>1, <2>2, <2>4, <2>5 DEF FdOf
<1> QED BY <1>1, CmInvHolds, PTL
================================================================================
