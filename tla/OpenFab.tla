---------------------------------- MODULE OpenFab ------------------------------
(***************************************************************************)
(* The emulation of the OpenFabrics calls (verbs/openfab.c) on top of the  *)
(* verbs: connection identifiers, each with an RNIC of its own that is     *)
(* opened when it is first needed, and the event channel, which holds one  *)
(* event, the one of the last call.                                        *)
(*                                                                         *)
(* Every call of a program that uses nothing but these calls is an action  *)
(* here.  Ports, host names and private data are left out.                 *)
(***************************************************************************)
EXTENDS Verbs

CONSTANTS
    Id,               \* bound: identifiers
    NoId,
    NoRnic            \* rnic_hndl 0

BadFd == -1           \* accept failed
NoCmQp == -1          \* id->qp is NULL, freed or was not created

VARIABLES
    chan,             \* the rdma_event_channel; ended, for the properties only: was
                      \* the queue pair of its event's identifier given up since
    cm_id,            \* identifiers: rnic_hndl, fd, qp
    pd_context        \* of each domain of each RNIC: the identifier it is from

cmVars == <<chan, cm_id, pd_context>>

NewId == [live |-> TRUE, rnic |-> NoRnic, fd |-> NoFd, qp |-> NoCmQp]

DeadId == [NewId EXCEPT !.live = FALSE]
NoChan == [live |-> FALSE, next_event |-> "unset", id |-> NoId, fd |-> NoFd,
           valid |-> TRUE, ended |-> FALSE]

CmInit ==
    /\ Init
    /\ chan = NoChan
    /\ cm_id = [i \in Id |-> DeadId]
    /\ pd_context = [r \in Rnic |-> [p \in Pd |-> NoId]]

\* An event replaces the one before it, fetched or not.
Event(e, i) == chan' = [chan EXCEPT !.next_event = e, !.id = i, !.ended = FALSE]

\* The queue pair of identifier i is given up.
Ends(i) ==
    chan' = [chan EXCEPT !.ended = @ \/ /\ chan.id # NoId
                                        /\ chan.next_event = "ESTABLISHED" /\ chan.valid
                                        /\ cm_id[chan.id].rnic = cm_id[i].rnic
                                        /\ cm_id[chan.id].qp = cm_id[i].qp]

Usable(i) == chan.live /\ cm_id[i].live
HasRnic(i) == Usable(i) /\ cm_id[i].rnic # NoRnic
HasQp(i) == HasRnic(i) /\ cm_id[i].qp # NoCmQp

NewRnic == CHOOSE r \in Rnic : ~rnic[r]
IdRnic(i) == IF cm_id[i].rnic = NoRnic THEN NewRnic ELSE cm_id[i].rnic

--------------------------------------------------------------------------------
(* Channels and identifiers *)

rdma_create_event_channel ==
    /\ ~chan.live
    /\ chan' = [NoChan EXCEPT !.live = TRUE]
    /\ UNCHANGED <<vars, cm_id, pd_context>>

\* (Identifiers that are left point to freed memory: that is not followed.)
rdma_destroy_event_channel ==
    /\ chan.live
    /\ \A i \in Id : ~cm_id[i].live
    /\ chan' = NoChan
    /\ UNCHANGED <<vars, cm_id, pd_context>>

rdma_create_id(i) ==
    /\ chan.live
    /\ ~cm_id[i].live
    /\ cm_id' = [cm_id EXCEPT ![i] = NewId]
    /\ UNCHANGED <<vars, chan, pd_context>>

\* Its queue pair, domains and regions, and its descriptor, are left as they
\* are, and its event has no identifier any more.
rdma_destroy_id(i) ==
    /\ Usable(i)
    /\ cm_id' = [cm_id EXCEPT ![i] = DeadId]
    /\ chan' = [chan EXCEPT !.id = IF @ = i THEN NoId ELSE @]
    /\ UNCHANGED <<vars, pd_context>>

\* check_open, with s the sockets the rest of the call leaves.
check_open(i, s) ==
    /\ sock' = s
    /\ IF cm_id[i].rnic = NoRnic
       THEN /\ \E r \in Rnic : ~rnic[r]
            /\ Opens(NewRnic)
       ELSE UNCHANGED <<rnic, tables, pd_index, qp_index, recv_q, cq, mr, misuse>>

SocksAfterOpen(i) == IF cm_id[i].rnic = NoRnic THEN Unregistered ELSE sock

--------------------------------------------------------------------------------
(* Connecting *)

\* Mutant: the new identifier is not given the listening socket.
Child_unset(i, l) == [NewId EXCEPT !.rnic = IdRnic(i), !.qp = cm_id[i].qp]

\* The identifier for the connection shares RNIC, socket and queue pair with
\* the listening one.
Child(i, l) == [NewId EXCEPT !.rnic = IdRnic(i), !.fd = l, !.qp = cm_id[i].qp]

\* The new identifier is made now, before anybody connects, and again by
\* every call.
rdma_listen(i, n) ==
    LET l == First(FreeFd)
    IN  /\ Usable(i)
        /\ ~cm_id[n].live
        /\ FreeFd # {}
        /\ check_open(i, [SocksAfterOpen(i) EXCEPT ![l].open = TRUE])
        /\ cm_id' = [cm_id EXCEPT ![i].rnic = IdRnic(i), ![i].fd = l, ![n] = Child(i, l)]
        /\ chan' = [chan EXCEPT !.next_event = "CONNECT_REQUEST", !.id = n, !.fd = l,
                                 !.ended = FALSE]
        /\ UNCHANGED pd_context

\* bind or listen fails: the socket stays open.
rdma_listen_fails(i) ==
    LET l == First(FreeFd)
    IN  /\ Usable(i)
        /\ FreeFd # {}
        /\ check_open(i, [SocksAfterOpen(i) EXCEPT ![l].open = TRUE])
        /\ cm_id' = [cm_id EXCEPT ![i].rnic = IdRnic(i), ![i].fd = l]
        /\ Event("REJECTED", i)
        /\ UNCHANGED pd_context

rdma_resolve_addr(i) ==
    /\ Usable(i)
    /\ check_open(i, SocksAfterOpen(i))
    /\ cm_id' = [cm_id EXCEPT ![i].rnic = IdRnic(i)]
    /\ Event("ADDR_RESOLVED", i)
    /\ UNCHANGED pd_context

rdma_resolve_route(i) ==
    /\ Usable(i)
    /\ Event("ROUTE_RESOLVED", i)
    /\ UNCHANGED <<vars, cm_id, pd_context>>

\* Mutant: a connection that was refused is reported as well.
Refused_reported(i) == Event("ESTABLISHED", i)

\* iwarp_qp_active_connect failed, for want of a peer or because a receive that
\* was posted before could not be handed on: no event.
Refused(i) == UNCHANGED chan

rdma_connect(i) ==
    /\ HasQp(i)
    /\ \/ /\ iwarp_qp_active_connect(cm_id[i].rnic, cm_id[i].qp)
          /\ IF Undispatched(cm_id[i].rnic, cm_id[i].qp) THEN Refused(i)
             ELSE Event("ESTABLISHED", i)
       \/ /\ active_connect_refused(cm_id[i].rnic, cm_id[i].qp)
          /\ Refused(i)
    /\ UNCHANGED <<cm_id, pd_context>>

Listening(f) == f \in Fd /\ sock[f].open /\ ~sock[f].reg

\* A peer is waiting at the listening socket.
Acceptable(i) ==
    /\ HasQp(i)
    /\ Connectable(cm_id[i].rnic, cm_id[i].qp)
    /\ Listening(cm_id[i].fd)
    /\ FreeFd # {}

rdma_accept(i) ==
    /\ Acceptable(i)
    /\ Connect(cm_id[i].rnic, cm_id[i].qp, First(FreeFd), {})
    /\ Event(IF Undispatched(cm_id[i].rnic, cm_id[i].qp) THEN "REJECTED" ELSE "ESTABLISHED", i)
    /\ UNCHANGED <<rnic, tables, pd_index, cq, mr, cm_id, pd_context>>

\* MPA startup fails: the socket stays open and known to RDMAP.
rdma_accept_fails(i) ==
    LET r == cm_id[i].rnic
        q == cm_id[i].qp
        own == qp_index[r][q]
    IN  /\ Acceptable(i)
        /\ sock' = [sock EXCEPT ![First(FreeFd)] =
             v_rdmap_register_connection(own)]
        /\ qp_index' = [qp_index EXCEPT ![r][q].fd = First(FreeFd)]
        /\ Event("REJECTED", i)
        /\ Note({"startup failed"} \cup (IF own.connected THEN {"again"} ELSE {}))
        /\ UNCHANGED <<rnic, tables, pd_index, recv_q, cq, mr, cm_id, pd_context>>

\* accept fails: the identifier has no listening socket.
rdma_accept_no_socket(i) ==
    LET r == cm_id[i].rnic
        q == cm_id[i].qp
    IN  /\ HasQp(i)
        /\ Connectable(r, q)
        /\ ~Listening(cm_id[i].fd)
        /\ qp_index' = [qp_index EXCEPT ![r][q].fd = BadFd]
        /\ Event("REJECTED", i)
        /\ Note(IF qp_index[r][q].connected THEN {"again"} ELSE {})
        /\ UNCHANGED <<rnic, tables, pd_index, recv_q, sock, cq, mr, cm_id, pd_context>>

\* The event stays.  ESTABLISHED is given once per channel; later it turns
\* into DISCONNECTED as soon as a read of channel->fd fails: at once when that
\* is a listening socket, or was never set and is no open one.  (Otherwise the
\* call takes bytes from that socket, and comes back when its peer resets it.)
rdma_get_cm_event ==
    /\ chan.live
    /\ chan' = IF chan.next_event # "ESTABLISHED" THEN chan
               ELSE IF chan.valid THEN [chan EXCEPT !.valid = FALSE, !.ended = FALSE]
               ELSE [chan EXCEPT !.next_event = "DISCONNECTED"]
    /\ UNCHANGED <<vars, cm_id, pd_context>>

--------------------------------------------------------------------------------
(* Queue pairs *)

\* The domain has to come from the same identifier.
PdMatches(i, p) == pd_context[cm_id[i].rnic][p] = i

rdma_create_qp(i, p, scq, rcq) ==
    LET r == cm_id[i].rnic
    IN  /\ HasRnic(i)
        /\ PdMatches(i, p)
        /\ \/ /\ iwarp_qp_create(r, p, scq, rcq)
              /\ cm_id' = [cm_id EXCEPT ![i].qp = First(Available(qp_index[r]))]
           \/ /\ Available(qp_index[r]) = {} \/ pd_index[r][p].available
              /\ cq[scq].live /\ cq[rcq].live
              /\ cm_id' = [cm_id EXCEPT ![i].qp = NoCmQp]
              /\ UNCHANGED vars
        /\ Ends(i)
        /\ UNCHANGED pd_context

\* The structure is freed even when the queue pair is connected and stays.
rdma_destroy_qp(i) ==
    /\ HasQp(i)
    /\ \/ iwarp_qp_destroy(cm_id[i].rnic, cm_id[i].qp)
       \/ ~Destroyable(qp_index[cm_id[i].rnic][cm_id[i].qp]) /\ UNCHANGED vars
    /\ cm_id' = [cm_id EXCEPT ![i].qp = NoCmQp]
    /\ Ends(i)
    /\ UNCHANGED pd_context

rdma_disconnect(i) ==
    /\ HasQp(i)
    /\ iwarp_qp_disconnect(cm_id[i].rnic, cm_id[i].qp)
    /\ Ends(i)
    /\ UNCHANGED <<cm_id, pd_context>>

\* iwarp_qp_disconnect, then, if that worked, iwarp_qp_destroy.
ibv_destroy_qp(i) ==
    LET r == cm_id[i].rnic
        q == cm_id[i].qp
    IN  /\ HasQp(i)
        /\ \E f \in SocketFd(r, q) :
             /\ sock' = v_rdmap_deregister_sock(f)
             /\ IF Known(f) /\ Destroyable(Disconnected(qp_index[r][q]))
                THEN /\ qp_index' = [qp_index EXCEPT
                          ![r][q] = Destroyed(Disconnected(@))]
                     /\ cm_id' = [cm_id EXCEPT ![i].qp = NoCmQp]
                ELSE /\ qp_index' = [qp_index EXCEPT ![r][q] = Disconnected(@)]
                     /\ UNCHANGED cm_id
        /\ Ends(i)
        /\ Note(NotConnected(r, q))
        /\ UNCHANGED <<rnic, tables, pd_index, recv_q, cq, mr, pd_context>>

--------------------------------------------------------------------------------
(* The rest hands on to the verbs *)

ibv_alloc_pd(i) ==
    LET r == cm_id[i].rnic
    IN  /\ HasRnic(i)
        /\ iwarp_pd_allocate(r)
        /\ pd_context' = [pd_context EXCEPT ![r][First(Available(pd_index[r]))] = i]
        /\ UNCHANGED <<chan, cm_id>>

ibv_dealloc_pd(i, p) ==
    /\ HasRnic(i)
    /\ PdMatches(i, p)
    /\ iwarp_pd_deallocate(cm_id[i].rnic, p)
    /\ pd_context' = [pd_context EXCEPT ![cm_id[i].rnic][p] = NoId]
    /\ UNCHANGED <<chan, cm_id>>

ibv_create_cq(i, c) == HasRnic(i) /\ iwarp_cq_create(c) /\ UNCHANGED cmVars

ibv_destroy_cq(i, c) == HasRnic(i) /\ iwarp_cq_destroy(c) /\ UNCHANGED cmVars

ibv_reg_mr(i, p, m) ==
    /\ HasRnic(i)
    /\ PdMatches(i, p)
    /\ iwarp_nsmr_register(cm_id[i].rnic, p, m)
    /\ UNCHANGED cmVars

\* iwarp_deallocate_stag and iwarp_deregister_mem, which fails when the first
\* did.
ibv_dereg_mr(i, m) ==
    LET r == cm_id[i].rnic
    IN  /\ HasRnic(i)
        /\ tables
        /\ HasTag(r, m)
        /\ PdMatches(i, mr[m].pd)
        /\ mr' = [mr EXCEPT ![m] = v_mem_deregister(v_mem_stag_destroy(@))]
        /\ pd_index' = [pd_index EXCEPT ![r][mr[m].pd].in_use = @ - 1]
        /\ UNCHANGED <<rnic, tables, qp_index, recv_q, sock, cq, misuse, cmVars>>

ibv_post_recv(i, id) ==
    /\ HasQp(i)
    /\ iwarp_qp_post_rq(cm_id[i].rnic, cm_id[i].qp, id, TRUE)
    /\ UNCHANGED cmVars

\* Sends and writes; no reads.
ibv_post_send(i, signaled) ==
    /\ HasQp(i)
    /\ post_sq_send(cm_id[i].rnic, cm_id[i].qp, signaled)
    /\ UNCHANGED cmVars

\* Waits for ever: it comes back with a completion.
ibv_poll_cq(i, c) == HasRnic(i) /\ iwarp_cq_poll(cm_id[i].rnic, c) /\ UNCHANGED cmVars

ibv_advance_sw_rnic(i) == HasRnic(i) /\ iwarp_rnic_advance(cm_id[i].rnic) /\ UNCHANGED cmVars

--------------------------------------------------------------------------------
Connecting(i) ==
    \/ rdma_create_id(i) \/ rdma_destroy_id(i)
    \/ \E n \in Id \ {i} : rdma_listen(i, n)
    \/ rdma_listen_fails(i)
    \/ rdma_resolve_addr(i) \/ rdma_resolve_route(i)
    \/ rdma_connect(i)
    \/ rdma_accept(i) \/ rdma_accept_fails(i) \/ rdma_accept_no_socket(i)
    \/ rdma_disconnect(i)

Working(i) ==
    \/ \E p \in Pd, scq, rcq \in Cq : rdma_create_qp(i, p, scq, rcq)
    \/ rdma_destroy_qp(i) \/ ibv_destroy_qp(i)
    \/ ibv_alloc_pd(i)
    \/ \E p \in Pd : ibv_dealloc_pd(i, p) \/ \E m \in Region : ibv_reg_mr(i, p, m)
    \/ \E m \in Region : ibv_dereg_mr(i, m)
    \/ \E c \in Cq : ibv_create_cq(i, c) \/ ibv_destroy_cq(i, c) \/ ibv_poll_cq(i, c)
    \/ \E id \in 1..MaxWr \ Outstanding : ibv_post_recv(i, id)
    \/ \E signaled \in BOOLEAN : ibv_post_send(i, signaled)
    \/ ibv_advance_sw_rnic(i)

CmNext ==
    \/ rdma_create_event_channel \/ rdma_destroy_event_channel
    \/ rdma_get_cm_event
    \/ \E i \in Id : Connecting(i) \/ Working(i)

CmSpec == CmInit /\ [][CmNext]_<<vars, cmVars>>

--------------------------------------------------------------------------------
(* Properties *)

\* The identifier of a connection request (rdma_listen, rdma_get_cm_event) is
\* one to accept with, as long as it exists: its socket is the one that is
\* waited at, open and neither RDMAP's nor a queue pair's, and its RNIC is
\* open; unless a queue pair that was not connected was disconnected, which
\* closes any descriptor.
RequestAcceptable ==
    (chan.live /\ chan.next_event = "CONNECT_REQUEST" /\ chan.id # NoId
       /\ "not connected" \notin misuse) =>
        LET i == cm_id[chan.id]
        IN  /\ i.live
            /\ i.fd = chan.fd /\ Listening(i.fd)
            /\ rnic[i.rnic]
            /\ \A x \in Conns : qp_index[x[1]][x[2]].fd # i.fd

\* An ESTABLISHED event that a program can fetch names an identifier whose
\* connection is up: its queue pair is connected over a socket RDMAP knows
\* (rdma_connect, rdma_accept); unless the program itself has given the
\* connection up since, connected twice or disconnected an unconnected queue
\* pair, or another identifier's RNIC was opened.
EstablishedUp ==
    (chan.live /\ chan.next_event = "ESTABLISHED" /\ chan.valid /\ chan.id # NoId
       /\ ~chan.ended /\ misuse \cap {"not connected", "again", "second RNIC"} = {}) =>
        LET i == cm_id[chan.id]
        IN  /\ <<i.rnic, i.qp>> \in Conns
            /\ sock[qp_index[i.rnic][i.qp].fd].reg
================================================================================
