------------------------------- MODULE SocketTable -----------------------------
(***************************************************************************)
(* The sockets of one process: the hash table of end points (iwsk.c, ht.c),*)
(* the array MPA hands to poll(2) (mpa.c) and the two end points RDMAP     *)
(* remembers from its last call (rdmap.c).  The three name the same        *)
(* sockets in three ways, by descriptor, by position and by address, and   *)
(* every registration and deregistration has to keep them together.        *)
(*                                                                         *)
(* An end point is an object at an address that malloc picks among the     *)
(* free ones, so a freed address can come back for another socket.         *)
(***************************************************************************)
EXTENDS Integers, Sequences, FiniteSets

CONSTANTS
    Sock,             \* socket descriptors, connected to some peer
    Addr, NULL,       \* addresses of end points
    MAX_SOCKETS,      \* entries of pollsks.sks
    MaxPending        \* bound: segments waiting on a socket

ASSUME SocketAssumption ==
    /\ NULL \notin Addr
    /\ MAX_SOCKETS \in Nat \ {0}
    /\ MaxPending \in Nat

(***************************************************************************)
(* status: "up"; or why the process is gone: ht.c's error() on a duplicate *)
(* key ("duplicate"), ddp_deregister_sock's error() ("outstanding"), a     *)
(* null end point in mpa_poll_generic ("null"), a read that blocks on a    *)
(* socket that does not have what it is to read ("stuck"), a store past    *)
(* the end of pollsks.sks ("overrun").                                     *)
(***************************************************************************)
Status == {"up", "duplicate", "outstanding", "null", "stuck", "overrun"}

VARIABLES
    status,
    iwht,             \* the hash table: address of a socket's end point
    iwsk,             \* the end points: socket, skidx, is it initialised
    sks,              \* pollsks.sks[0 .. numsks-1], oldest registration first
    last_send_sk, last_recv_sk,
    pending,          \* segments waiting in the kernel for each socket
    torn,             \* sockets whose reader stopped inside a segment
    failed            \* the socket at which the last poll returned an error,
                      \* NULL when it returned 0

\* History, for the properties only.
VARIABLE
    shifted           \* was a socket deregistered from the middle of sks

table == <<iwht, iwsk, sks, last_send_sk, last_recv_sk, shifted>>

traffic == <<pending, torn, failed>>

vars == <<status, table, traffic>>

numsks == Len(sks)

Up == status = "up"

Free == Addr \ {iwht[s] : s \in Sock}

Init ==
    /\ Up
    /\ iwht = [s \in Sock |-> NULL]
    /\ iwsk \in [Addr -> {[sk |-> NULL, skidx |-> 0, ready |-> FALSE]}]
    /\ sks = <<>>
    /\ last_send_sk = NULL
    /\ last_recv_sk = NULL
    /\ pending = [s \in Sock |-> 0]
    /\ torn = {}
    /\ failed = NULL
    /\ shifted = FALSE

\* Nothing is received any more.
Stop(why) ==
    /\ status' = why
    /\ pending' = [s \in Sock |-> 0]
    /\ torn' = {}
    /\ failed' = NULL
    /\ UNCHANGED table

--------------------------------------------------------------------------------
(* Registration *)

\* Mutant: iwsk_insert does not store the descriptor.
NewIwsk_zeroed(s, idx, ok) == [sk |-> NULL, skidx |-> idx, ready |-> ok]

\* Mutant: numsks is counted up before it is noted.
NewIwsk_past(s, idx, ok) == [sk |-> s, skidx |-> idx + 1, ready |-> ok]

\* The end point after iwsk_insert and the layers' initialisation, ok when
\* they all succeeded.
NewIwsk(s, idx, ok) == [sk |-> s, skidx |-> idx, ready |-> ok]

\* iwsk_insert, then the layers from RDMAP down to MPA.
rdmap_register_sock(s) ==
    /\ Up
    /\ iwht[s] = NULL
    /\ numsks < MAX_SOCKETS
    /\ \E a \in Free :
         /\ iwht' = [iwht EXCEPT ![s] = a]
         /\ iwsk' = [iwsk EXCEPT ![a] = NewIwsk(s, numsks, TRUE)]
    /\ sks' = Append(sks, s)
    /\ UNCHANGED <<status, last_send_sk, last_recv_sk, traffic, shifted>>

\* mpa_get_mtu fails: the socket stays in the hash table, zeroed.
register_fails(s) ==
    /\ Up
    /\ iwht[s] = NULL
    /\ \E a \in Free :
         /\ iwht' = [iwht EXCEPT ![s] = a]
         /\ iwsk' = [iwsk EXCEPT ![a] = NewIwsk(s, 0, FALSE)]
    /\ UNCHANGED <<status, sks, last_send_sk, last_recv_sk, traffic, shifted>>

\* ht_insert finds the key: the program ends.
register_duplicate(s) ==
    /\ Up
    /\ iwht[s] # NULL
    /\ Stop("duplicate")

\* mpa_register_sock does not compare numsks with the size of the array.
register_overrun(s) ==
    /\ Up
    /\ iwht[s] = NULL
    /\ numsks = MAX_SOCKETS
    /\ Stop("overrun")

\* Mutant: numsks is not counted down.
Removed_uncounted(q, i) ==
    IF i < Len(q) - 1 THEN SubSeq(q, 1, i) \o SubSeq(q, i + 2, Len(q)) \o <<q[Len(q)]>>
    ELSE q

\* mpa_deregister_sock: position i (from 0) is closed up, or the last entry
\* is erased when i is not before it.
Removed(q, i) ==
    IF i < Len(q) - 1 THEN SubSeq(q, 1, i) \o SubSeq(q, i + 2, Len(q))
    ELSE SubSeq(q, 1, Len(q) - 1)

\* Mutant: the remembered end point is kept.
Forget_not(last, a) == last

\* A remembered end point that is freed is forgotten.
Forget(last, a) == IF last = a THEN NULL ELSE last

\* DDP, MPA, the hash table and the remembered end points, in that order.
\* The positions that the other end points hold are left as they are.  A
\* connection given up inside a segment is not registered again: a later
\* registration of the descriptor is another connection's.
rdmap_deregister_sock(s) ==
    LET a == iwht[s]
        i == iwsk[a].skidx
    IN  /\ Up
        /\ a # NULL
        /\ iwsk[a].ready
        /\ sks' = Removed(sks, i)
        /\ iwht' = [iwht EXCEPT ![s] = NULL]
        /\ last_send_sk' = Forget(last_send_sk, a)
        /\ last_recv_sk' = Forget(last_recv_sk, a)
        /\ shifted' = (shifted \/ i < numsks - 1)
        /\ torn' = torn \ {s}
        /\ UNCHANGED <<status, iwsk, pending, failed>>

\* The lists of an end point whose registration failed are not empty lists.
deregister_failed(s) ==
    /\ Up
    /\ iwht[s] # NULL
    /\ ~iwsk[iwht[s]].ready
    /\ Stop("outstanding")

--------------------------------------------------------------------------------
(* Calls that find their end point through the remembered one *)

\* The end point a call on s uses: the remembered one if it is of s.
Found(last, s) == IF last # NULL /\ iwsk[last].sk = s THEN last ELSE iwht[s]

\* rdmap_send, rdmap_rdma_write and rdmap_rdma_read.
send_side(s) ==
    LET a == Found(last_send_sk, s)
    IN  /\ Up
        /\ last_send_sk' = a
        /\ UNCHANGED <<status, iwht, iwsk, sks, last_recv_sk, traffic, shifted>>

\* rdmap_post_recv.
recv_side(s) ==
    LET a == Found(last_recv_sk, s)
    IN  /\ Up
        /\ last_recv_sk' = a
        /\ UNCHANGED <<status, iwht, iwsk, sks, last_send_sk, traffic, shifted>>

--------------------------------------------------------------------------------
(* Polling *)

\* A segment of the peer arrives on an open connection.
arrive(s) ==
    /\ Up
    /\ pending[s] < MaxPending
    /\ pending' = [pending EXCEPT ![s] = @ + 1]
    /\ UNCHANGED <<status, table, torn, failed>>

\* Mutant: the last entry of the array is not polled.
Readable_short == {i \in 1 .. numsks - 1 : pending[sks[i]] > 0}

\* Positions poll(2) reports.
Readable == {i \in 1 .. numsks : pending[sks[i]] > 0}

\* How often the loop calls mpa_recv for s, up to position n.
Turns(s, n) == Cardinality({i \in Readable : i <= n /\ sks[i] = s})

\* At its turn, position i has an end point and a segment to read.
HasTurn(i) ==
    /\ iwht[sks[i]] # NULL
    /\ Turns(sks[i], i) <= pending[sks[i]]

\* Every socket reported is read, one segment at a position.
poll_all ==
    /\ \A i \in Readable : HasTurn(i)
    /\ pending' = [s \in Sock |-> pending[s] - Turns(s, numsks)]
    /\ failed' = NULL
    /\ UNCHANGED <<status, table, torn>>

\* mpa_recv at position i returns an error.  Either the segment was read: its
\* marker or its CRC is wrong, or markers and CRC are both in use, for which
\* the test is always taken.  Or the reader of marked segments got no sink and
\* returned after the header: the rest of the segment, if it has one, is what
\* the next read takes for a segment.
recv_fails(i) ==
    /\ HasTurn(i)
    /\ \E rest \in {0, 1} :
         /\ pending' = [s \in Sock |->
                          pending[s] - Turns(s, i) + (IF s = sks[i] THEN rest ELSE 0)]
         /\ \/ rest = 0 /\ torn' = torn
            \/ torn' = torn \cup {sks[i]}
    /\ failed' = sks[i]
    /\ UNCHANGED <<status, table>>

\* The loop comes to position i and no further: what it did before does not
\* matter when the process is gone, and a position behind i is not read.
poll_stops(i) ==
    /\ \A j \in Readable : j < i => HasTurn(j)
    /\ \/ iwht[sks[i]] = NULL /\ Stop("null")
       \/ /\ iwht[sks[i]] # NULL
          /\ sks[i] \in torn \/ Turns(sks[i], i) > pending[sks[i]]
          /\ Stop("stuck")
       \/ recv_fails(i)

\* mpa_poll_generic: the positions reported, in order, up to the first error.
mpa_poll ==
    /\ Up
    /\ Readable # {}
    /\ poll_all \/ \E i \in Readable : poll_stops(i)

Next ==
    \/ \E s \in Sock :
         \/ rdmap_register_sock(s)
         \/ register_fails(s)
         \/ register_duplicate(s)
         \/ register_overrun(s)
         \/ rdmap_deregister_sock(s)
         \/ deregister_failed(s)
         \/ send_side(s)
         \/ recv_side(s)
         \/ arrive(s)
    \/ mpa_poll

Spec == Init /\ [][Next]_vars

\* An application keeps polling.
FairSpec == Spec /\ WF_vars(mpa_poll)

--------------------------------------------------------------------------------
(* Properties *)

Registered == {s \in Sock : iwht[s] # NULL /\ iwsk[iwht[s]].ready}

\* The stores of the process hold sockets, addresses and positions; two
\* sockets never share an end point, and an end point knows its socket.
TypeOK ==
    /\ status \in Status
    /\ iwht \in [Sock -> Addr \cup {NULL}]
    /\ iwsk \in [Addr -> [sk : Sock \cup {NULL}, skidx : Nat, ready : BOOLEAN]]
    /\ sks \in Seq(Sock)
    /\ last_send_sk \in Addr \cup {NULL} /\ last_recv_sk \in Addr \cup {NULL}
    /\ pending \in [Sock -> 0 .. MaxPending]
    /\ torn \subseteq Sock /\ failed \in Sock \cup {NULL}
    /\ shifted \in BOOLEAN
    /\ \A s \in Sock : iwht[s] # NULL => iwsk[iwht[s]].sk = s

\* A remembered end point is one the hash table still owns: no call works on
\* freed memory, and a call on a socket works on that socket's end point even
\* after a descriptor or an address has been used again.
CacheFresh ==
    /\ \A last \in {last_send_sk, last_recv_sk} \ {NULL} : iwht[iwsk[last].sk] = last
    /\ \A s \in Sock : Found(last_send_sk, s) = iwht[s] /\ Found(last_recv_sk, s) = iwht[s]

\* The poll array has one entry per registered socket, in the order of
\* registration, and skidx is the entry's position, as long as sockets were
\* deregistered last-in first-out.
PollSetExact ==
    ~shifted =>
        /\ Len(sks) = Cardinality(Registered)
        /\ {sks[i] : i \in 1 .. numsks} = Registered
        /\ \A s \in Registered :
             LET i == iwsk[iwht[s]].skidx + 1 IN i <= numsks /\ sks[i] = s

\* Whatever the order, the number of entries is the number of registered
\* sockets, so the array is overrun only by the socket that really is one too
\* many.
CountExact ==
    /\ numsks = Cardinality(Registered)
    /\ status = "overrun" => Cardinality(Registered) = MAX_SOCKETS

\* The sockets that the poll loop reads no later than s.
InFront(s) ==
    {sks[i] : i \in {k \in 1 .. numsks : \E j \in k .. numsks : sks[j] = s}}

\* A segment that waits on a registered socket is received, unless the socket
\* is deregistered, the process ends or the array has been shifted.  The loop
\* of mpa_poll_generic gives up at the first socket that fails, so this holds
\* for a socket as long as those in front of it, and it itself, do not go on
\* failing; what happens at the sockets behind it cannot keep it waiting.
Served ==
    \A s \in Sock :
        <>[](failed \notin InFront(s)) =>
            (pending[s] > 0 /\ s \in Registered
                ~> (pending[s] = 0 \/ s \notin Registered \/ ~Up \/ shifted))
================================================================================
