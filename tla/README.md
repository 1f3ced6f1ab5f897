# A TLA+ model of software iWARP

The repository is a software implementation of iWARP: RDMA over TCP. It has a
userspace library (`src/iwarp`), a port of it into the Linux kernel
(`src/kiwarp`) and a verbs interface over either (`src/verbs`). This directory
holds TLA+ modules that model it, TLC configurations that check them on small
instances, and TLAPS proofs.

## 1. The system

### Userspace library, `src/iwarp`

One single-threaded process per end point. Every call runs to its end before
anything else happens in the process, and data is received only inside
`mpa_poll`. What is concurrent is the two processes at the ends of a connection,
joined by TCP.

| Component | State | Operations | Hard part |
|---|---|---|---|
| Completion queue, `cq.c` | ring of slots, producer and consumer index | create, destroy, is-full, produce, consume | fullness is computed in two ways; callers ignore produce's refusal |
| RDMAP, `rdmap.c` | per socket: posted receives, reads in flight, expected MSN; process-wide: the end point of the last send-side and receive-side call | register, deregister, send, RDMA write, RDMA read, post receive, handlers for each arriving message | matching of read responses, order of completions, fullness checked long before the completion is produced |
| DDP, `ddp.c` | per socket: send and receive MSN, byte counts of unfinished messages; process-wide: payload lengths | segmentation, sink lookup, reassembly | MSNs shared by two queues; tagged messages are told apart by STag only; empty messages |
| MPA, `mpa.c` | per socket: markers, CRC, stream positions, place in the poll array; process-wide: poll array, scratch buffers | startup handshake, framing with or without markers, poll, receive | poll array bookkeeping, marker arithmetic, negotiation |
| Socket table, `iwsk.c`, `ht.c` | hash table from descriptor to end point | insert, delete, look up; a duplicate or a missing key ends the program | end points are freed and their addresses used again |
| Memory, `mem.c` | array of regions, list of tags per region, tree of tags, tag counter | register, deregister, create and destroy tag, access check | array growth moves the regions; access arithmetic |
| Helpers, `util.c` | none | full reads and writes, `error()` which exits | end of stream in the middle of a segment |

Calls go down (application → RDMAP → DDP → MPA → socket) and received segments
go up (`mpa_poll` → MPA → DDP → RDMAP → completion queue), DDP asking RDMAP for
the place of a segment on the way. `iw_assert` is compiled out, so what the code
asserts is not checked at run time; `error()` ends the process.

What makes the parts correct: the ring is a first-in first-out queue and never
loses an entry it had room for; messages arrive whole, in order and in the buffer
meant for them; a receive completes only after the writes issued before the send
are in memory; reads complete in order, once, with all their bytes, and do
complete; every registered socket is polled and no other; a call works on its own
socket's end point; a peer reaches only memory of live regions through live tags.

### Kernel port, `src/kiwarp`

The same layers behind a character device (`init.c`). Several threads of a
process share one context, nothing serialises their calls, polls may block, and
completion queues are reference counted. Its hard parts are interleavings:
the MSN is read and later incremented by concurrent senders; a read request is
freed while still on its list; error paths leak file references.

### Verbs, `src/verbs`

| Component | State | Operations | Hard part |
|---|---|---|---|
| Verbs, `rnic.c`, `pd.c`, `qp.c`, `cq.c`, `rwr.c`, `swr.c`, `protected.c`, over `stubs.c` | per RNIC: domains with a count, queue pairs with a descriptor, one queue of receives posted before a connection; process-wide: the socket table, regions and tags below | open, close; allocate and give up domains, regions, tags, queues, queue pairs; connect, accept, disconnect; post; poll | the receive queue is shared by all queue pairs of an RNIC; descriptors are kept after they are closed; results are ignored; a second RNIC shares, and replaces, the process-wide tables |
| OpenFabrics emulation, `openfab.c` | identifiers, each with an RNIC opened when first needed; an event channel with room for one event | the calls of the connection manager and the `ibv_` calls | each event replaces the last; one identifier is made for a connection before anybody connects |

What makes them correct: a connected queue pair has a registered socket that is its
own, and every registered socket has a queue pair; a receive is posted once, for the
queue pair it was meant for; a domain lasts as long as its regions; an event names a
request or a connection that is there.

## 2. Modules

| Module | Models | Used by |
|---|---|---|
| `BoundedFifo` | what a completion queue promises (abstract) | `CompletionQueue` |
| `CompletionQueue` | `cq.c` | `MCCompletionQueue`, `CompletionQueue_proofs` |
| `Ddp` | `ddp.c`: segmentation and reassembly as operators | `Rdmap` |
| `Rdmap` | `rdmap.c` over `ddp.c` at the two ends of a connection | `MCRdmap`, `Rdmap_proofs` |
| `SocketTable` | registration, poll array, remembered end points: `iwsk.c`, `ht.c`, parts of `mpa.c`, `ddp.c`, `rdmap.c` | `MCSocketTable`, `SocketTable_proofs` |
| `MemRegions` | `mem.c` | `MCMemRegions`, `MemRegions_proofs` |
| `MpaStartup` | the startup exchange between two ends, each the library or the kernel port: `mpa_init_startup` of `iwarp/mpa.c` and `kiwarp/mpa.c` | `Mpa` |
| `Mpa` | a connection from startup on, byte by byte: the writers and readers of FPDUs in both stacks | `MCMpa`, `Mpa_proofs` |
| `Verbs` | the verbs of one process in the userspace build | `MCVerbs`, `OpenFab`, `Verbs_proofs`, `OpenFab_proofs` |
| `OpenFab` | `openfab.c` over `Verbs` | `MCOpenFab`, `OpenFab_proofs` |
| `KernelContext` | the kernel port's objects and their lifetimes: `kiwarp/init.c`, `cq.c`, `ht.c`, `mem.c`, `rdmap.c` | `MCKernelContext`, `KernelContext_proofs` |

### CompletionQueue

Variables are the fields of `cq_t` and the last result; one action per function.
`cq_create` leaves arbitrary entries in the slots, as `malloc` does.
`BoundedFifo` is a queue of capacity `num_cqe - 1` that refuses when full;
`Contents` maps the ring to it.

### Ddp and Rdmap

`wire[h]` is the sequence of segments on the way to end `h`: TCP is reliable and
ordered. A segment carries the header fields the receiver looks at (kind, opcode,
queue, MSN, STag, offsets, LAST), its length, and in `what.for` the number of the
operation its bytes belong to. A message handed to DDP becomes its run of segments
in one step, since the process does nothing else until all are written. Receiving
handles one segment per step: `mpa_recv` with everything DDP and RDMAP do for it.
`status[h]` says why a process is gone: each `error()` a segment can run into, a
null pointer, the end of the stream, or `"wild"`, the use of the descriptor that
`ddp_get_sink` left uninitialised; after that the model claims nothing more.

Completion queues are bounded sequences, justified by `CompletionQueue`
implementing `BoundedFifo`. A tag is a name with a length and access rights,
existing at an end until `mem_stag_destroy`. Offsets are relative to the start of
the tagged range.

`ops`, `posts`, `rcvd`, `reads`, `placed`, `lost` and `over` are history that only
properties read.

Not in this model: terminate messages (no code of this layer sends one), a write
that fails half-way, TCP flow control, markers, CRC and padding, and more than one
connection in a process.

### SocketTable

End points are objects at addresses that come back after `free`. `sks` is the used
part of `pollsks.sks`, the position in it is `skidx`. `mpa_poll` is one pass of
`mpa_poll_generic` over the positions that `poll(2)` reports, in their order: it reads a
segment at each of them (`poll_all`), or stops at one of them (`poll_stops`), where
there is no end point, where the read blocks for lack of data, or where the receive
fails (`recv_fails`), in which case the positions before it have been read and those
behind it have not. Which segments fail is left open: a wrong marker or CRC, any segment
with both markers and CRC (the braces missing at mpa.c:744), and a segment for which the
reader of marked segments finds no sink. After the last the reader is inside a segment
(`torn`) and takes what is left for the next one, which may block. `failed` is what the
last poll returned. What the plain reader does without a sink is in `Rdmap`. A socket
that is deregistered inside a segment is taken to be closed.

### MemRegions

A pointer into the region array is a pair of the array's generation and the slot.
A pointer of an old generation is refused by `mr_from_md` when the application
passes it in; followed from a tag's descriptor it reaches freed memory (`wild`).
It is assumed that a newly allocated array never overlaps the place of an older
one. Applications do not use a handle after giving it back.

### KernelContext

Everything one process owns through the device: queues with their reference
counts, the hash of sockets keyed by `struct file`, regions, tags, posted receive
descriptors at their addresses. The process issues commands and closes descriptors
in any order, a socket keeps receiving after its descriptor is closed, and
`iwarp_release` takes everything down in the code's order. `heap` is the part of
`kmalloc` that hands out receive descriptors: any free address may be returned, the
one just freed included. A handler that would follow a pointer to a freed queue,
tag, region or descriptor sets `wild`, and the model claims nothing after that.

`count` holds the bounded events, how many startups kept a file reference, and
`misuse`: the process destroyed a tag while a receive posted with it was waiting,
which the code does not refuse. Processes only pass handles of regions they have
registered and ranges inside them, and the region array does not grow (growth is
the subject of `MemRegions`). A segment without a sink leaves its payload in the
stream, so the socket gets no further segments (`sync`). One thread of the process
is inside the device at a time.

### MpaStartup and Mpa

`wire[e]` is the bytes on their way to end `e`. A startup frame is one element for
its fixed part and one per byte of private data; an FPDU is its bytes, each saying
what it is (start of the header, header, payload, marker with its `fpduptr`, pad,
CRC, or the stale block that `writev_full` appends when it is told a length that
counts a CRC that is off). Writer and reader each compute where these go from their
own `send_sp`, `send_mp` and `recv_sp`, `recv_mp`, modulo `Wrap`; a reader that finds
other bytes than it takes them for is `lost`, and the model follows it no further.

The verbs ignore the result of the startup, so an end whose call failed may send and
read; a reader that needs more bytes than there are waits. The FPDUs of a responder
that refused reach an initiator that still waits for the reply and are taken for it
(`recv_reply_other`). Closing a socket with
unread bytes resets the connection. `trouble` records the six circumstances under
which the code itself loses step (they are listed at `InStep`), `unread` bounds the
FPDUs on the way.

A CRC is never wrong: the code's check (`mpa.c:744`) lacks braces and reports every
FPDU with a CRC as bad after having read and counted it, which changes no state.

### Verbs and OpenFab

A descriptor is open or not and known to RDMAP or not; behind a known one the model
keeps the receives posted to it and the number of reads in flight. The peers do as
they like: they accept or refuse, and `rdmap_poll` completes any waiting receive or
read. `qp_index[r][q].fd` is `socket_fd`, which nothing initialises and disconnecting
leaves as it was, so `iwarp_qp_disconnect` may be aimed at any descriptor. A region
whose tag went down with an older tag tree can never be deregistered (`"lost"`).
`misuse` is history: what a program did that the properties make an exception for,
each defined by the call's arguments and the state it is made in.

`OpenFab` extends `Verbs` and reaches its state only through the `rdma_` and `ibv_`
calls. `chan.ended` is history. When `ESTABLISHED` has been fetched once, the next
`rdma_get_cm_event` turns it into `DISCONNECTED` as soon as a read of `channel->fd`
fails: with a listening socket there, as `rdma_listen` leaves it, that is at once,
whether the connection is up or not.

Calls that the code answers with an error before it has changed anything are steps
that leave everything as it is, and are left out. Completions for a queue that was
destroyed go to freed memory; what that does is not followed.

## 3. Runs

| Run | Checks | Bounds |
|---|---|---|
| `cq` | indices in the ring; `cq_produce` refuses exactly when `cq_isfull` said so; refinement of `BoundedFifo`, its refusals included | rings of 1 to 4 slots, three distinct entries: every position of producer and consumer, and wrap-around of each |
| `rdmap` | MSNs in step, one unfinished message, sends delivered exactly, writes before sends, undefined behaviour only without a fitting receive | A issues up to three operations with lengths 0, 1 and 3 over two-byte segments, B posts two receives and destroys tags: empty, one-segment and two-segment messages in every order, missing and stale tags |
| `rdmap_duplex` | reads in order, once, with all bytes; responses find their request; completions lost only to overcommitted queues; reads complete | both ends active, two operations of A and one of B, shared queue of two entries at A, no receive queue at B |
| `rdmap_empty_read` | *violation:* reads complete when a read may be empty | two reads |
| `sockets` | remembered end points fresh, poll array exact while sockets leave last-in first-out, count exact always, waiting segments served unless a socket in front, or the socket itself, goes on failing | three sockets, array of two, two addresses, so that one socket is too many, and addresses and descriptors are used again |
| `mem` | slots have one owner, tags belong to live regions, granted access stays in a region | an array of two slots growing to four (`GROW` is 10 in the code; two are enough to fill, free, fill again and grow), two overlapping buffers, two tags, eight addresses with the buffers at the end, so that offset and length wrap |
| `kernel` | queue references exact, no region given up under a tag, posted receives on one list once, freed memory reached only after misuse, release leaves nothing, file references exact | two sockets, two queues of one entry, one region, tag, read, read request and tagged segment, two descriptor addresses: a queue shared by both directions and by both sockets, an address used again, every order of closing |
| `kernel_rrr` | *violation:* a read request's descriptor is the one that is used and freed | two read requests |
| `mpa` | after a successful startup both ends frame alike; readers stay in step with writers; the initiator's call comes back | eight kinds of end (library or kernel, wishes for markers and CRC, private data that fits or does not), words of 2, a marker every 16 and positions modulo 64 bytes (4, 512 and 2^32 in the code), headers of 8 and 10, payloads of 0, 1, 4 and 17 bytes: a marker before, inside and right after the header, in and after the payload and after the pad, chunks of more than a period, positions that wrap; one FPDU on the way at a time, from the initiator, or from a responder that refused while the initiator still waits |
| `verbs` | sockets, receives and domains stay with their owners | one RNIC, two queue pairs, two descriptors, two receives, one queue of one entry, region and domain; at most one kind of misuse in a behaviour, five kinds allowed: descriptors and queue pairs are used again, the completion queue is full, receives are queued for both queue pairs |
| `verbs_second` | *violation:* opening an RNIC leaves connections alone | two RNICs |
| `cm` | events name requests and connections that are there; no registered socket without a queue pair | two interchangeable identifiers on one RNIC (a listening one and the one made for its connection, or two that connect), one queue pair, two descriptors, one kind of misuse |

Deadlock is not checked where the applications' work is finite and the system may
simply be done. Each property has a mutant of the code under which TLC finds it
violated (`PROJECT.json`).

Every branch of every action is taken in some passing run, with three exceptions that
the properties rule out or the peers never cause: a send and a read response of the
kernel port that find their completion queue destroyed (`CqInUse`), and a responder
that gets a frame without the request's key.

**Fairness.** `rdmap_duplex` and `rdmap_empty_read` assume weak fairness of
`mpa_recv` at both ends, `sockets` weak fairness of `mpa_poll`: an application that
waits for a completion polls until it gets it (every test and benchmark does), and
TCP delivers. `Served` needs more than polling: the loop gives up at the first receive
that fails, so a socket is only served if from some time on no poll fails at it or in
front of it; without that condition TLC shows a socket that starves behind a failing
one. `mpa` assumes weak fairness of the startup steps: each end is inside its
startup call until that returns, and reads blockingly there. Nothing is assumed about applications issuing work or consuming
completions.

### Disagreements between the code and what it says

* `rdmap_empty_read`: a read of zero bytes is never answered and blocks the
  completion of all later reads, which should "be completed eventually".
* `kernel_rrr`: `rdmap_recv_rrr` frees the first read request of the list without
  unlinking it, so a later request is read from the earlier one's freed memory,
  which is freed again; its own is not "freed in rdmap_recv_rrr".
* `verbs_second`: `iwarp_rnic_open` makes new process-wide tables, so RDMAP forgets
  the connections of an RNIC that "is in use".

The passing runs state the properties that remain, and name what they except. The
exceptions are behaviours of the code that the models have and that a reader should
know of:

* Two reads in flight into one sink tag: the first response completes both
  (`rdmap.c:475`). The runs set `DistinctSinks`.
* Sockets deregistered in another order than last-in first-out leave stale `skidx`
  behind (`mpa.c:179`), after which the wrong socket leaves the poll array: `shifted`.
* The registration that makes the region array grow invalidates every earlier handle
  (`mem.c:123`); a later `mem_stag_destroy` works on the freed array: `wild`.
* An FPDU that ends where a marker is due has the marker, but `num_mrkrs` does not
  count it (`mpa.c:430`), and writer and reader part; the assertion at `mpa.c:513`
  that would tell is compiled out. Likewise the marker after an empty FPDU is not
  read, and with markers and no CRC the writer appends a stale block.
* The kernel's reader pads by the last piece of the sink (`kiwarp/mpa.c:401`).
* Receives that were queued for one queue pair go to whichever connects first, and a
  dispatch that fails half-way is repeated from the start (`protected.c:51`).
* `iwarp_qp_disconnect` of a queue pair that is not connected closes whatever has its
  old descriptor now (`qp.c:446`).
* When startup fails, `rdma_accept` leaves the socket registered (`openfab.c:446`),
  and `iwarp_qp_passive_connect` and `iwarp_qp_active_connect` report success.

## 4. Proofs

Every theorem is of the form `Spec => []P` for all values of the module's
constants, under the assumptions named there. Almost no `P` is inductive; for each
module the inductive invariant is given with what it adds and why. Operators of the
model are turned into facts once, in lemmas of their own, and the step of an
invariant has one case per action.

### CompletionQueue_proofs

From `CqAssumption` (at least one slot, at least one entry value, `-ENOSPC` is not 0):

* `TypeCorrect`: `TypeOK` is inductive: it bounds the indices by `num_cqe` itself.
* `FullPredictsOverflow`: a call of `cq_produce` from a state with `TypeOK` is refused
  exactly when `cq_isfull` held (`FullRing`: arithmetic on the two indices).
* `RingImplementsFifo`: the refinement. `ProduceAppends` and `ConsumeTakesHead`
  show what a call does to `Contents` by comparing both sides as sequences of equal
  length, element by element; the slots of the waiting entries differ from the slot
  being written because the ring never fills completely. A refused call is the queue's
  `Refuse`: a full ring shows as many entries as the queue holds (`FullContents`).

### Rdmap_proofs

From `RdmapAssumption` and `PayldAssumption` only: any lengths, payload sizes, tags,
number of operations and receives, queues of any capacity, used for one direction,
for both or for none.

* *Messages.* `UntaggedMessage` and `TaggedMessage` say what the loops of `ddp.c`
  produce: a `Message`, whose segments follow each other without a gap and whose last
  one, and no other, is marked LAST and reaches the end. The arithmetic of
  `num_sgmnts` is in `SgmntsEnough` and `SgmntLens`.
* *Steps.* One lemma per call and handler (`SendStep` ... `RespStep`) says what it
  does with its local names made explicit, and that it keeps the types.
  `RdmapTypeCorrect` follows (`Typed` also types the history).
* *Wires.* `WireInv` says of each direction that the wire is whole messages but for
  the front (`Framed`), that DDP's two lists hold exactly the part of the front
  message that was taken off (`Partial`), and that the untagged messages are numbered
  (`Numbered`, `MsnOfCount`) from the receiver's MSN up to the sender's. Numbers along
  the wire are a function the invariant says exists, so that no count over the wire has
  to be defined recursively. `OneMessageUnfinished` and `MsnsInStep` follow.
  `MsnInSync` alone is not inductive: that the next segment has the expected MSN after
  a LAST segment needs the numbering of all that follow.
* *Completions.* `RoomInv`: unless the application outran a queue, what waits in it
  and what outstanding receives and reads will still produce fit in it together
  (`Fits`). `NothingLostUnlessOvercommitted` follows. The cases are an operation that
  completes at once, one that will complete later, and the reaping of several reads.
* *Delivery.* `DeliverInv` adds to `WireInv`, for each direction, what arrived
  (`Arrival`). Sends are counted by `Rank`, the number of sends up to one. `SendLink`:
  sends on the wire have consecutive ranks starting after the receives that completed,
  the receives that wait are those posted after these, the first of them holds what was
  taken of the message at the front, and those that completed hold the sends of their
  rank. `WriteLink`: every write is in memory or its last segment is on the wire ahead
  of all later sends (`Coming`). `SendsArriveExactly`, `WritesLandBeforeSends` and
  `WildOnlyWithoutReceive` follow.
* *Reads.* `ReadInv` relates, for each end, its outgoing wire, its incoming wire, `rwrq`
  and its memory. `ReadWires`: every request on the way out and every response on the
  way in belongs to an unmarked read of `rwrq` and names its sink; a read is asked for
  once, answered by one message, and never both at a time. `InFlight`: `rwrq` holds
  reads in the order of issue, no two with one sink. `ReadState`: a marked read has all
  its bytes in memory, one whose response is partly taken off has those before the
  segment in front, and nothing is placed beyond a read's end. `ReadsCompleteExactly`
  and `ResponsesFindRequest` follow. What a step leaves of a wire is described by
  `Embeds`, an order-keeping map from the new wire into the old, so each handler is
  judged by what it adds. Both theorems have `DistinctSinks` as hypothesis, and so
  has the run: `rdmap_reap_rwr` matches a response to its read by STag alone.

### SocketTable_proofs

From `SocketAssumption`. `SocketInv` adds to the types that a remembered end point is
in the hash table (`Owned`), that `numsks` counts the table (`Counted`) and, as long as
sockets went last-in first-out, that array and `skidx` point to each other (`InPlace`,
both ways: `PollSetExact` has one, and removing an entry needs the other).
That a poll, stopped or not, takes from no socket more than waits there is
`TurnsCovered`: the last position of a socket has counted all its turns.
`SocketTypeCorrect`, `CacheStaysFresh`, `ArrayCountsSockets`, `ArrayListsSockets`.

### MemRegions_proofs

From `MemAssumption`. `MemInv` is the types, `SlotOwned`, `TagsOfLiveRegions`, that no two
tags have one number (`UniqueTags`) and that a tag's range lies in its region
(`TagBounds`). `SlotsHaveOneOwner`, `TagsNameLiveRegions`, `MemTypeCorrect`.
`AccessStaysInRegion` covers the wrap of `off + len` in `size_t`: the proof needs, and
the assumption says, that a buffer ends before the address space does and that its
length and the longest message together do not pass it. Without the second the check of
`mem_stag_location` can be passed by a sum that wrapped.

### KernelContext_proofs

From `KernelAssumption` (finitely many files; any addresses, region slots and bounds):

* `QueuesOutliveSockets`: `CqInUse` is not inductive: nothing in it stops
  `cq_destroy`. `RefInv` adds that each count is the number of sockets using the
  queue, by direction, that handles are fresh, that a closed device has no sockets, and
  the shape of the records. Registration and deregistration are shown by counting the
  users with one element more or less (`CountAdd`, `CountRemove`); `DestroyKeeps` is the
  point: a count of zero means both sets of users are empty.
* `TagsKeepRegions` with the types of regions and tags; `FilesCounted` with the types of
  the counts and that a closed device has no sockets.
* `ReceivesOnOneList`: `HeapInv` is `PostedExact` taken apart (what is on a list is a
  posted receive, every posted receive is on a list, none twice) with the types of the
  cells and, for the next theorem, that the tag of a posted receive exists until the
  process misuses it.
* `OnlyMisuseGoesWild`: `Spec => [](RrrSinkFreed => WildOnlyIfMisused)`. The one other way
  to follow a stale pointer is the freed read request, which `RrrSinkFreed` excludes and
  the run `kernel_rrr` shows to happen; every other handler is safe by the
  three invariants above.
* `ReleaseLeavesNothing`: `Tidy` says what a closed device has not; that no posted
  receive is left follows from `HeapInv`.
* `KernelTypeCorrect`: that no reference count is negative follows from what the counts
  count (`CountsNatural`), the lists of receives from `HeapInv`; new are the ranges of
  handles, tags and queue entries. `ReapTyped` is the case that needs an argument: the
  number of finished reads at the front exists (`DonePrefix`), and no more entries are
  produced than fit.

### Verbs_proofs

From `VerbsAssumption`; any number of RNICs, queue pairs, domains, regions, descriptors
and requests.

* `ConnectionsOwnSockets` and `SocketsAreConnected` from `ConnInv`: unless one of the
  excepted misuses was noted, a connected queue pair's socket is open, registered and its
  own, and every registered socket is named by a queue pair; always, a registered
  socket is open, and an unused queue pair is not connected. The last two are why a new
  connection cannot get a descriptor that is in use.
* `ReceivesPostedOnce` from `RecvInv`, which counts the requests in the RNIC's queue
  and at the sockets together: that a request is at one socket only needs that the queue
  it came from was emptied.
* `RegionsHoldDomains` from `PdInv`. The attempt to prove it showed that the exceptions
  lacked the second RNIC: closing it frees all regions and leaves the first
  one's counts. `PdHeld` names it now.

### OpenFab_proofs

From `VerbsAssumption` and the types of `Verbs_proofs`, for any number of identifiers,
RNICs, queue pairs and descriptors. A call does one of three things to the connections:
it leaves them alone and may open descriptors or an RNIC (`Steady`), a queue pair gets a
fresh descriptor or loses the one it had to a failed attempt (`Gets`), or one is given up
(`GivesUp`). What each kind keeps is proved once (`SteadyConn`, `GetsConn`,
`GivesUpConn`); then every call is shown to be of one kind and to treat the event
accordingly.

* `RequestsAreAcceptable` and `EstablishedConnectionsAreUp` from `CmInv`. `ConnInv` of
  `Verbs_proofs` is not enough: it says nothing once a queue pair was connected again or
  a second RNIC was opened, and a request has to stay acceptable after both. `CmConnInv`
  therefore keeps, as long as no unconnected queue pair was disconnected, that the
  descriptors of connected queue pairs are open (`Claimed`) and different (`Distinct`),
  so none of them can be the listening socket. `Requested` and `Established` follow the
  event from the call that raises it to the one that fetches it; that an identifier's
  RNIC is open rests on these calls never closing one.
* `CallsLeaveNoOrphan` and `CallsKeepSocketsOwned`: the two socket invariants of `Verbs`
  hold also of programs that use these calls, which share queue pairs between
  identifiers and give a descriptor away when an accept fails.

### Mpa_proofs

`StartupAgrees`: `Spec => []Agreement` for every set of kinds of ends, every size of
words, headers, marker periods and payloads (`ConfAssumption`, `FramingAssumption`) and
any number of FPDUs either way. `Agreement` compares the two ends after the fact; to be
inductive it needs where the reply came from. `StartupInv` follows the flags from the
initiator's wishes into the request (`Asked`), into the responder (`Granted`) and back
in the reply (`Awaited`), and says that what looks like a reply is one. That last part
is why the FPDU writers enter the proof: the bytes of every FPDU, with markers or
without, hold no startup frame (`CleanMrkrFpdu`, `CleanPlainFpdu`), which needs that the
writer's positions are numbers (`Positions`) and that headers are shorter than the
distance between markers. `AfterStartup` states once what an end may do after its own
call returned.

`ReadersStayInStep`: `Spec => []InStep` under the same assumptions, so also for the 512
and 2^32 of the code, for FPDUs in both directions at once and any number of them on the
way, of which the run allows one. `InStep` speaks of the reader's positions and says
nothing of the bytes between it and the writer. The proof has three layers:

* *Arithmetic.* Divisors are constants, so the provers know nothing of a quotient or a
  remainder but their definition. `DivModUnique` and `ModDifference` give what the code's
  positions modulo `Wrap` need; `Words` (a multiple of `WORD_SZ`) is what the headers,
  the marker period and a padded FPDU keep, and why a marker never falls into the pad.
* *One FPDU.* `MarkersCounted`: the number of markers computed beforehand, by which
  `send_mp` is moved, is the number written, unless the FPDU ends where a marker is due.
  `ReaderAgrees`: what `mpa_rd_mrkr_fpdu` reads and counts is then what was written.
  `PlainPad` and `LastIovPad` are the same for the pad the two plain readers expect.
* *The stream.* `Stream(s, u, ...)` says that the bytes `s` are those of the frames `u`,
  by a function with the places where they end and one with the distance to the next
  marker at each (`Cut`), which lead from the reader's to the writer's. Writing extends
  it at the end (`StreamPut`), reading takes off its front (`StreamFront`).

`StepInv` ties this to the startup: until the request is read it is all there is
(`Unasked`); while the initiator waits for the reply of a responder that accepted, FPDUs
may already follow the reply (`Between`); afterwards each direction is a `Stream`, or a
reset has dropped what was on the way (`Running`).

### Only model-checked

The liveness properties (`ReadsComplete`, `Served`, `Answered`): TLAPS has neither
fairness nor ENABLED. Every invariant and every action property of the runs that pass
is stated by a theorem.

## 5. Plan

1. Kernel port: threads of a process calling send, write, read, post and poll on a
   shared context; MSN uniqueness, lookups that take no reference.
2. Bounded socket buffers under `Rdmap`: two ends that block in a write.

## 6. Not modelled

`avl.c`, `list.h` and `crc32c.c` are utilities without protocol logic; the AVL tree
is the set it holds, the CRC a token. `errno.c` is a table of texts. Tests and
benchmarks are programs that use the libraries. The `KERNEL_IWARP` branches of
`stubs.c` hand each call to the device whose commands `KernelContext` models.
`iwarp_rnic_query`, `ibv_query_device`, `rdma_bind_addr` and `rdma_ack_cm_event`
keep no state that anything else depends on. The memory of the scatter lists that
`iwarp_qp_post_rq` copies is not followed: the dispatcher frees the first list of the
queue, whether one was queued or not, and no other (`protected.c:62`). Threads of a
process inside the kernel device are planned. Terminate messages are received but
never sent by either stack and are left out.
