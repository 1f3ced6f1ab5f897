------------------------------ MODULE KernelContext ----------------------------
(***************************************************************************)
(* The kernel port (src/kiwarp): what one process owns through the iwarp   *)
(* device, and how long each of it lives.  The process opens the device,   *)
(* creates completion queues, registers sockets, memory and STags, posts   *)
(* work, and closes files in any order; the peers' segments arrive in      *)
(* between.  One thread of the process is inside the device at a time.     *)
(*                                                                         *)
(* Messages are their control effect only: which descriptor, tag and queue *)
(* a handler reaches.  Lengths and order of the bytes are the subject of   *)
(* Rdmap.  A handler that follows a pointer to freed memory makes the      *)
(* kernel's state arbitrary: `wild` names it and the behaviour ends.       *)
(***************************************************************************)
EXTENDS Integers, Sequences, FiniteSets, Functions

CONSTANTS
    File, NoAddr,
    Addr,             \* addresses kmalloc has for receive descriptors
    Slot,             \* entries of the region array: at most DELTA, no growth
    CqDepth,          \* num_cqe of every queue
    Access,           \* access the tags are created with
    MaxOpens, MaxCq, MaxStag, MaxStartups, MaxReads,   \* bounds
    MaxRrr, MaxTagged      \* bounds: read requests and tagged segments received

ASSUME KernelAssumption ==
    /\ NoAddr \notin Addr
    /\ IsFiniteSet(File)
    /\ Slot \subseteq Nat
    /\ CqDepth \in Nat \ {0}
    /\ Access \subseteq SUBSET {"R", "W"}
    /\ {MaxOpens, MaxCq, MaxStag, MaxStartups, MaxReads, MaxRrr, MaxTagged} \subseteq Nat

VARIABLES
    opened,           \* is there a user_context; opens so far
    cqs, next_handle, \* cq_list: handle -> reference count and entries held
    socks,            \* fdhash: struct file -> iwarp_sock
    fds, refs,        \* open descriptors of the process; references of a file
    mr,               \* mem_region[].valid
    stags, next_stag, \* stag_ht: tag -> region and access
    heap,             \* receive descriptors by address
    wild,             \* the handler that used freed memory, or "no"
    count             \* bounded events, and the misuse of the process

vars == <<opened, cqs, next_handle, socks, fds, refs, mr, stags, next_stag, heap, wild, count>>

res == <<cqs, next_handle, mr, stags, next_stag>>
files == <<fds, refs>>

Free == [kind |-> "free"]

Without(f, x) == Restrict(f, DOMAIN f \ {x})
Plus(f, x, v) == [y \in DOMAIN f \cup {x} |-> IF y = x THEN v ELSE f[y]]

--------------------------------------------------------------------------------
(* The device: iwarp_open and iwarp_release *)

Init ==
    /\ opened = [uc |-> FALSE, n |-> 0]
    /\ cqs = <<>> /\ next_handle = 1
    /\ socks = <<>>
    /\ fds = File /\ refs = [f \in File |-> 1]
    /\ mr = [i \in Slot |-> FALSE]
    /\ stags = <<>> /\ next_stag = 1
    /\ heap = [a \in Addr |-> Free]
    /\ wild = "no"
    /\ count = [startup |-> [f \in File |-> 0], rrr |-> 0, tagged |-> 0, reads |-> 0,
                misuse |-> FALSE]

\* The device is open and the kernel is sane.
Up == opened.uc /\ wild = "no"

\* A second open by the process is refused with EBUSY.
iwarp_open ==
    /\ ~opened.uc /\ wild = "no"
    /\ opened.n < MaxOpens
    /\ opened' = [uc |-> TRUE, n |-> opened.n + 1]
    /\ cqs' = <<>> /\ next_handle' = 1
    /\ mr' = [i \in Slot |-> FALSE]
    /\ stags' = <<>> /\ next_stag' = 1
    /\ UNCHANGED <<socks, files, heap, wild, count>>

Elems(s) == {s[i] : i \in DOMAIN s}

\* The receives posted on the sockets of S.
Posted(S) == UNION {Elems(socks[f].buf_q) : f \in S}

\* Mutant: the posted receives are not freed with the socket.
FreePosted_keep(S) == heap

\* rdmap_release_sock_res frees what is posted on each socket of S.
FreePosted(S) == [a \in Addr |-> IF a \in Posted(S) THEN Free ELSE heap[a]]

\* The references the sockets of S hold on queue c.
Uses(S, c) == Cardinality({f \in S : socks[f].scq = c}) + Cardinality({f \in S : socks[f].rcq = c})

\* cq_put on both queues of each socket of S.
CqPut(S) == [c \in DOMAIN cqs |-> [cqs[c] EXCEPT !.refcnt = @ - Uses(S, c)]]

\* Mutant: the queues are destroyed while the sockets still hold them.
DestroyCqs_first == {c \in DOMAIN cqs : cqs[c].refcnt = 0}

\* The queues cq_destroy accepts once the sockets are gone.
DestroyCqs == {c \in DOMAIN cqs : CqPut(DOMAIN socks)[c].refcnt = 0}

\* The sockets first, then the tags, then the queues.  Regions that are still
\* registered are forgotten with their pages pinned.
iwarp_release ==
    /\ Up
    /\ opened' = [opened EXCEPT !.uc = FALSE]
    /\ socks' = <<>>
    /\ heap' = FreePosted(DOMAIN socks)
    /\ refs' = [f \in File |-> refs[f] - (IF f \in DOMAIN socks THEN 1 ELSE 0)]
    /\ stags' = <<>>
    /\ cqs' = Restrict(CqPut(DOMAIN socks), DOMAIN cqs \ DestroyCqs)
    /\ UNCHANGED <<fds, next_handle, mr, next_stag, wild, count>>

--------------------------------------------------------------------------------
(* Completion queues *)

cq_create ==
    /\ Up
    /\ next_handle <= MaxCq
    /\ cqs' = Plus(cqs, next_handle, [refcnt |-> 0, occ |-> 0])
    /\ next_handle' = next_handle + 1
    /\ UNCHANGED <<opened, socks, files, mr, stags, next_stag, heap, wild, count>>

\* Mutant: the reference count is not looked at.
CqIdle_any(c) == TRUE

\* cq_destroy refuses a queue in use with EBUSY.
CqIdle(c) == cqs[c].refcnt = 0

cq_destroy(c) ==
    /\ Up
    /\ CqIdle(c)
    /\ cqs' = Without(cqs, c)
    /\ UNCHANGED <<opened, next_handle, socks, files, mr, stags, next_stag, heap, wild, count>>

\* Entries of queue c after cq_produce was called n times.
Produced(c, n) == IF cqs[c].occ + n < CqDepth THEN cqs[c].occ + n ELSE CqDepth - 1

\* rdmap_poll takes an entry, if there is one.
rdmap_poll(c) ==
    /\ Up
    /\ cqs[c].occ > 0
    /\ cqs' = [cqs EXCEPT ![c].occ = @ - 1]
    /\ UNCHANGED <<opened, next_handle, socks, files, mr, stags, next_stag, heap, wild, count>>

--------------------------------------------------------------------------------
(* Sockets.  A descriptor the process closed names no file any more: fget    *)
(* refuses it and the call changes nothing.                                  *)

Known(f) == Up /\ f \in fds /\ f \in DOMAIN socks

\* Mutant: a queue used for both directions is counted once.
CqGet_once(s, r) == [c \in DOMAIN cqs |-> [cqs[c] EXCEPT !.refcnt = IF c \in {s, r} THEN @ + 1 ELSE @]]

\* cq_get on the send and on the receive queue.
CqGet(s, r) ==
    [c \in DOMAIN cqs |->
       [cqs[c] EXCEPT !.refcnt = @ + (IF c = s THEN 1 ELSE 0) + (IF c = r THEN 1 ELSE 0)]]

\* The reference fget took stays with the hash entry.  A file that is in the
\* hash already is refused and everything taken is given back.
rdmap_register_sock(f, s, r) ==
    /\ Up /\ f \in fds /\ f \notin DOMAIN socks
    /\ socks' = Plus(socks, f, [scq |-> s, rcq |-> r, buf_q |-> <<>>, rrr |-> NoAddr,
                                rwrq |-> <<>>, sync |-> TRUE])
    /\ refs' = [refs EXCEPT ![f] = @ + 1]
    /\ cqs' = CqGet(s, r)
    /\ UNCHANGED <<opened, next_handle, fds, mr, stags, next_stag, heap, wild, count>>

\* Mutant: the local reference is all that is given back.
DeregRefs_local(f) == refs

\* The hash entry's reference.
DeregRefs(f) == [refs EXCEPT ![f] = @ - 1]

rdmap_deregister_sock(f) ==
    /\ Known(f)
    /\ heap' = FreePosted({f})
    /\ cqs' = CqPut({f})
    /\ refs' = DeregRefs(f)
    /\ socks' = Without(socks, f)
    /\ UNCHANGED <<opened, next_handle, fds, mr, stags, next_stag, wild, count>>

\* rdmap_init_startup never gives its reference back, and neither does
\* rdmap_set_sock_attrs for a socket it does not find.
TakesRef(f) ==
    /\ Up /\ f \in fds
    /\ count.startup[f] < MaxStartups
    /\ refs' = [refs EXCEPT ![f] = @ + 1]
    /\ count' = [count EXCEPT !.startup[f] = @ + 1]
    /\ UNCHANGED <<opened, socks, fds, res, heap, wild>>

rdmap_init_startup(f) == TakesRef(f)

rdmap_set_sock_attrs(f) == f \notin DOMAIN socks /\ TakesRef(f)

\* close(2) on the socket, by the process or at its end.
close(f) ==
    /\ wild = "no" /\ f \in fds
    /\ fds' = fds \ {f}
    /\ refs' = [refs EXCEPT ![f] = @ - 1]
    /\ UNCHANGED <<opened, socks, res, heap, wild, count>>

--------------------------------------------------------------------------------
(* Memory *)

\* The first slot that is not valid; growth of the array is out of bounds.
mem_register ==
    /\ Up
    /\ \E i \in Slot :
         /\ ~mr[i] /\ \A j \in Slot : j < i => mr[j]
         /\ mr' = [mr EXCEPT ![i] = TRUE]
    /\ UNCHANGED <<opened, cqs, next_handle, socks, files, stags, next_stag, heap, wild, count>>

\* Mutant: the list of tags is not looked at.
NoTags_any(i) == TRUE

\* list_empty(&mr->stag_list)
NoTags(i) == \A t \in DOMAIN stags : stags[t].mr # i

mem_deregister(i) ==
    /\ Up /\ mr[i]
    /\ NoTags(i)
    /\ mr' = [mr EXCEPT ![i] = FALSE]
    /\ UNCHANGED <<opened, cqs, next_handle, socks, files, stags, next_stag, heap, wild, count>>

\* The process names a region it has registered and a range inside it.
mem_stag_create(i, rw) ==
    /\ Up /\ mr[i]
    /\ next_stag <= MaxStag
    /\ stags' = Plus(stags, next_stag, [mr |-> i, rw |-> rw])
    /\ next_stag' = next_stag + 1
    /\ UNCHANGED <<opened, cqs, next_handle, socks, files, mr, heap, wild, count>>

\* Nothing keeps a tag alive that a posted receive points to.
mem_stag_destroy(t) ==
    /\ Up
    /\ stags' = Without(stags, t)
    /\ count' = [count EXCEPT !.misuse = @ \/ \E a \in Addr : heap[a] = [kind |-> "recv", sd |-> t]]
    /\ UNCHANGED <<opened, cqs, next_handle, socks, files, mr, next_stag, heap, wild>>

\* mem_stag_desc, for a range inside the tag.
mem_stag_desc(t, rw) == t \in DOMAIN stags /\ rw \in stags[t].rw

--------------------------------------------------------------------------------
(* Work requests *)

rdmap_post_recv(f, t, a) ==
    /\ Known(f) /\ mem_stag_desc(t, "W")
    /\ heap[a] = Free
    /\ heap' = [heap EXCEPT ![a] = [kind |-> "recv", sd |-> t]]
    /\ socks' = [socks EXCEPT ![f].buf_q = Append(@, a)]
    /\ UNCHANGED <<opened, files, res, wild, count>>

\* rdmap_send and rdmap_rdma_write: the message goes out whether or not its
\* completion finds room.
rdmap_send(f, t) ==
    /\ Known(f) /\ mem_stag_desc(t, "R")
    /\ LET c == socks[f].scq
       IN  IF c \in DOMAIN cqs
           THEN cqs' = [cqs EXCEPT ![c].occ = Produced(c, 1)] /\ UNCHANGED wild
           ELSE wild' = "send" /\ UNCHANGED cqs
    /\ UNCHANGED <<opened, next_handle, socks, files, mr, stags, next_stag, heap, count>>

\* The sink tag is not looked at until the response arrives.
rdmap_rdma_read(f, t) ==
    /\ Known(f)
    /\ count.reads < MaxReads
    /\ socks' = [socks EXCEPT ![f].rwrq = Append(@, [stag |-> t, done |-> FALSE])]
    /\ count' = [count EXCEPT !.reads = @ + 1]
    /\ UNCHANGED <<opened, files, res, heap, wild>>

--------------------------------------------------------------------------------
(* A segment arrives for a socket in the hash, whether or not the process    *)
(* still has a descriptor for it.  When it has no sink its payload stays in  *)
(* the stream, which cannot be followed from there on.                       *)

Arrives(f) == Up /\ socks[f].sync

Desync(f) == socks' = [socks EXCEPT ![f].sync = FALSE]

\* A send without a posted receive or longer than it, a tag the socket's owner
\* does not have, a read request without memory for its header.
ddp_get_sink_fails(f) ==
    /\ Arrives(f)
    /\ Desync(f)
    /\ UNCHANGED <<opened, files, res, heap, wild, count>>

\* Mutant: the descriptor is freed but stays on the list.
Unlink_not(q) == q

\* list_del of the first posted receive.
Unlink(q) == Tail(q)

\* A segment of a send that is not the last is placed through the first posted
\* receive; the last one also completes and frees it.
rdmap_recv_send(f, last) ==
    /\ Arrives(f)
    /\ socks[f].buf_q # <<>>
    /\ LET a == Head(socks[f].buf_q)
           c == socks[f].rcq
           safe == /\ heap[a].kind = "recv" /\ heap[a].sd \in DOMAIN stags
                   /\ mr[stags[heap[a].sd].mr]
                   /\ last => c \in DOMAIN cqs
       IN  /\ wild' = IF safe THEN "no" ELSE "recv"
           /\ IF safe /\ last
              THEN /\ cqs' = [cqs EXCEPT ![c].occ = Produced(c, 1)]
                   /\ heap' = [heap EXCEPT ![a] = Free]
                   /\ socks' = [socks EXCEPT ![f].buf_q = Unlink(@)]
              ELSE UNCHANGED <<cqs, heap, socks>>
    /\ UNCHANGED <<opened, next_handle, files, mr, stags, next_stag, count>>

\* The sink of a read request is put at the end of its list and the handler
\* takes the first.  It frees that without unlinking it, so the list keeps
\* pointing at the address: the next request only works when kmalloc returns
\* the same address again.
rdmap_recv_rrr(f, a) ==
    /\ Arrives(f)
    /\ count.rrr < MaxRrr
    /\ heap[a] = Free
    /\ LET first == IF socks[f].rrr = NoAddr THEN a ELSE socks[f].rrr
       IN  /\ wild' = IF first = a THEN "no" ELSE "rrr"
           /\ socks' = [socks EXCEPT ![f].rrr = first]
    /\ count' = [count EXCEPT !.rrr = @ + 1]
    /\ UNCHANGED <<opened, files, res, heap>>

\* The descriptor rdmap_get_tag_sink allocates is never freed.
Leak(a) ==
    /\ heap[a] = Free
    /\ count.tagged < MaxTagged
    /\ heap' = [heap EXCEPT ![a] = [kind |-> "tag"]]
    /\ count' = [count EXCEPT !.tagged = @ + 1]

\* A segment of an RDMA write, one of a read response before the last, or a
\* response that matches no request.
recv_tagged(f, t, a) ==
    /\ Arrives(f) /\ mem_stag_desc(t, "W")
    /\ Leak(a)
    /\ wild' = IF mr[stags[t].mr] THEN "no" ELSE "tagged"
    /\ UNCHANGED <<opened, socks, files, res>>

\* The requests rdmap_reap_rwr marks, and how many from the front are done.
Marked(q, t) == [i \in DOMAIN q |-> [q[i] EXCEPT !.done = @ \/ q[i].stag = t]]
DoneCount(q) == CHOOSE n \in 0 .. Len(q) :
                    /\ \A i \in 1 .. n : q[i].done
                    /\ n < Len(q) => ~q[n + 1].done

\* rdmap_reap_rwr: done requests are reported in order until the queue is full;
\* the rest stay on the list.
rdmap_reap_rwr(f, t, a) ==
    /\ Arrives(f) /\ mem_stag_desc(t, "W")
    /\ Leak(a)
    /\ \E i \in DOMAIN socks[f].rwrq : socks[f].rwrq[i].stag = t
    /\ LET c == socks[f].scq
           q == Marked(socks[f].rwrq, t)
           done == DoneCount(q)
           fits == Produced(c, done) - cqs[c].occ
       IN  IF mr[stags[t].mr] /\ c \in DOMAIN cqs
           THEN /\ cqs' = [cqs EXCEPT ![c].occ = @ + fits]
                /\ socks' = [socks EXCEPT ![f].rwrq = SubSeq(q, fits + 1, Len(q))]
                /\ UNCHANGED wild
           ELSE wild' = "tagged" /\ UNCHANGED <<cqs, socks>>
    /\ UNCHANGED <<opened, next_handle, files, mr, stags, next_stag>>

--------------------------------------------------------------------------------
Device == iwarp_open \/ iwarp_release

\* iwarp_write: the commands.
iwarp_write ==
    \/ cq_create
    \/ \E c \in DOMAIN cqs : cq_destroy(c) \/ rdmap_poll(c)
    \/ \E f \in File, s \in DOMAIN cqs, r \in DOMAIN cqs : rdmap_register_sock(f, s, r)
    \/ \E f \in File : \/ rdmap_deregister_sock(f)
                       \/ rdmap_init_startup(f)
                       \/ rdmap_set_sock_attrs(f)
    \/ mem_register
    \/ \E i \in Slot : mem_deregister(i) \/ \E rw \in Access : mem_stag_create(i, rw)
    \/ \E t \in DOMAIN stags : mem_stag_destroy(t)
    \/ \E f \in File, t \in DOMAIN stags :
         \/ rdmap_send(f, t)
         \/ rdmap_rdma_read(f, t)
         \/ \E a \in Addr : rdmap_post_recv(f, t, a)

\* mpa_encourage_one on a socket of the hash.
mpa_encourage_one(f) ==
    \/ ddp_get_sink_fails(f)
    \/ \E last \in BOOLEAN : rdmap_recv_send(f, last)
    \/ \E a \in Addr : \/ rdmap_recv_rrr(f, a)
                       \/ \E t \in DOMAIN stags : recv_tagged(f, t, a) \/ rdmap_reap_rwr(f, t, a)

Next ==
    \/ Device
    \/ iwarp_write
    \/ \E f \in File : close(f)
    \/ \E f \in DOMAIN socks : mpa_encourage_one(f)

Spec == Init /\ [][Next]_vars

--------------------------------------------------------------------------------
(* Properties *)

\* Every variable has its type: no count goes below zero and no list holds
\* anything but descriptors.
TypeOK ==
    /\ opened \in [uc : BOOLEAN, n : 0 .. MaxOpens]
    /\ DOMAIN cqs \subseteq 1 .. MaxCq
    /\ \A c \in DOMAIN cqs : cqs[c].refcnt \in Nat /\ cqs[c].occ \in 0 .. CqDepth - 1
    /\ next_handle \in 1 .. MaxCq + 1
    /\ DOMAIN socks \subseteq File
    /\ \A f \in DOMAIN socks :
         /\ {socks[f].scq, socks[f].rcq} \subseteq 1 .. MaxCq
         /\ Elems(socks[f].buf_q) \subseteq Addr
         /\ socks[f].rrr \in Addr \cup {NoAddr}
         /\ socks[f].sync \in BOOLEAN
    /\ fds \subseteq File /\ refs \in [File -> Nat]
    /\ mr \in [Slot -> BOOLEAN]
    /\ DOMAIN stags \subseteq 1 .. MaxStag
    /\ \A t \in DOMAIN stags : stags[t].mr \in Slot /\ stags[t].rw \in Access
    /\ next_stag \in 1 .. MaxStag + 1
    /\ DOMAIN heap = Addr /\ wild \in {"no", "send", "recv", "rrr", "tagged"}

\* A completion queue that a registered socket produces into has not been
\* destroyed: the reference counts of cq_get and cq_put are exact, also when one
\* queue serves both directions (rdmap_register_sock, rdmap_release_sock_res).
CqInUse ==
    \A f \in DOMAIN socks : {socks[f].scq, socks[f].rcq} \subseteq DOMAIN cqs

\* The pages behind every existing tag are pinned: mem_deregister gives no
\* region up that a peer can still reach.
RegionsHeld == \A t \in DOMAIN stags : mr[stags[t].mr]

\* A posted receive is on exactly one list once, and what is on a list is a
\* posted receive: nothing is freed twice, lost, or left behind when its
\* socket goes.
PostedExact ==
    /\ Posted(DOMAIN socks) = {a \in Addr : heap[a].kind = "recv"}
    /\ \A f, g \in DOMAIN socks : \A i \in DOMAIN socks[f].buf_q, j \in DOMAIN socks[g].buf_q :
         socks[f].buf_q[i] = socks[g].buf_q[j] => f = g /\ i = j

\* No handler follows a pointer to freed memory, whatever is closed, destroyed
\* or deregistered in whatever order, unless the process destroyed a tag under
\* a posted receive.
WildOnlyIfMisused == wild # "no" => count.misuse

\* iwarp_release leaves no queue, socket, tag or posted receive behind: the
\* sockets go first, so no queue is refused with EBUSY.
NothingLeft ==
    ~opened.uc => /\ socks = <<>> /\ cqs = <<>> /\ stags = <<>>
                  /\ \A a \in Addr : heap[a].kind # "recv"

\* A file is referenced by its descriptor, by its hash entry, and once more for
\* each startup that kept its reference: the file of a hash entry is never
\* freed, and one without a startup is freed when both are gone.
FileRefsExact ==
    \A f \in File :
      refs[f] = Cardinality({f} \cap fds) + Cardinality({f} \cap DOMAIN socks) + count.startup[f]

\* rdmap_get_rrr_sink: "will be freed in rdmap_recv_rrr".  The descriptor that
\* rdmap_recv_rrr uses and frees is the one made for the request.
RrrSinkFreed == wild # "rrr"
================================================================================
