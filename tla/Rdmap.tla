---------------------------------- MODULE Rdmap --------------------------------
(***************************************************************************)
(* RDMAP over DDP (src/iwarp/rdmap.c and ddp.c) at the two ends A and B of *)
(* one connection.  Each end is a single-threaded process: an API call or  *)
(* the processing of one received segment runs to its end before anything  *)
(* else happens in that process, and the processes interleave.  TCP is a   *)
(* pair of reliable first-in first-out wires of segments.                  *)
(*                                                                         *)
(* A completion queue is the bounded queue that CompletionQueue is shown   *)
(* to implement.  Both ends may use one queue for both directions, or none *)
(* (NoCq) for one of them.                                                 *)
(***************************************************************************)
EXTENDS Ddp, FiniteSets

CONSTANTS
    A, B,             \* the two ends
    Cq, NoCq,         \* completion queues; the absent one
    Scq, Rcq,         \* the queues given to rdmap_register_sock
    CqCap,            \* entries a queue holds: num_cqe - 1
    Stag,             \* steering tags, the same names at both ends
    StagLen,          \* bytes behind a tag
    StagAcc,          \* access each tag allows: a subset of {"R", "W"}
    SendLens, WriteLens, ReadLens, BufLens,   \* lengths the applications use
    Work,             \* calls each application makes
    WriteTo,          \* tagged offset of the writes
    MaxOps, MaxPosts, \* bound: sends, writes, reads / receives per end
    DistinctSinks     \* no application reuses the sink tag of a read in flight

Host == {A, B}
Peer(h) == IF h = A THEN B ELSE A

ASSUME RdmapAssumption ==
    /\ A # B
    /\ NoCq \notin Cq
    /\ Scq \in [Host -> Cq \cup {NoCq}] /\ Rcq \in [Host -> Cq \cup {NoCq}]
    /\ {Scq[A], Rcq[A]} \cap {Scq[B], Rcq[B]} \subseteq {NoCq}
    /\ CqCap \in [Cq -> Nat]
    /\ StagLen \in Nat \ {0}
    /\ StagAcc \in [Stag -> SUBSET {"R", "W"}]
    /\ SendLens \subseteq Nat /\ WriteLens \subseteq Nat
    /\ ReadLens \subseteq Nat /\ BufLens \subseteq Nat
    /\ Work \in [Host -> SUBSET {"SEND", "WRITE", "READ", "DESTROY"}]
    /\ WriteTo \in Nat
    /\ MaxOps \in [Host -> Nat] /\ MaxPosts \in [Host -> Nat]
    /\ DistinctSinks \in BOOLEAN

(***************************************************************************)
(* status: "up"; or why the process is gone: error() because a tagged      *)
(* segment has no sink ("nosink"), a read request names no readable memory *)
(* ("nosrc") or a read response finds no request ("norwr"), a null pointer *)
(* ("null"), the end of the stream ("eof"); or "wild" once a segment was   *)
(* received through a descriptor that ddp_get_sink left uninitialised.     *)
(***************************************************************************)
Status == {"up", "nosink", "nosrc", "norwr", "null", "eof", "wild"}

VARIABLES
    status,           \* of each process
    wire,             \* segments on their way to each end
    send_msn, recv_msn, sink_msn,
    buf_q,            \* buf_qs[SEND_Q]: posted receives, oldest first
    outst_tag, outst_untag,
    rwrq,             \* reads in flight, in the order they were issued
    cq,               \* contents of the completion queues
    stags             \* tags that exist at each end

\* History, for the properties only.
VARIABLES
    ops,              \* sends, writes and reads issued by each end
    posts,            \* lengths of the receives posted
    rcvd,             \* receives completed, with the bytes in the buffer
    reads,            \* reads completed, with the bytes placed by then
    placed,           \* bytes placed in tagged memory
    lost,             \* completions that found their queue full
    over              \* did the application outrun a completion queue

conn == <<send_msn, recv_msn, sink_msn, outst_tag, outst_untag>>
hist == <<ops, posts, rcvd, reads, placed, lost, over>>
vars == <<status, wire, conn, buf_q, rwrq, cq, stags, hist>>

--------------------------------------------------------------------------------
(* Completion queues *)

\* Mutant: cq_isfull is one entry late.
IsFull_late(c) == c # NoCq /\ Len(cq[c]) > CqCap[c]

\* cq_isfull; an absent queue is never full.
IsFull(c) == c # NoCq /\ Len(cq[c]) >= CqCap[c]

\* cq_produce for each entry of es in turn; what does not fit is dropped.
Produce(q, es, cap) ==
    LET all == q \o es
    IN  SubSeq(all, 1, IF Len(all) < cap THEN Len(all) ELSE cap)

ProduceAll(c, es) ==
    IF c = NoCq THEN cq ELSE [cq EXCEPT ![c] = Produce(@, es, CqCap[c])]

Dropped(c, es) ==
    IF c = NoCq THEN 0 ELSE Len(cq[c]) + Len(es) - Len(Produce(cq[c], es, CqCap[c]))

\* Work of h that will still produce into c.
Pending(h, c) ==
    (IF Rcq[h] = c THEN Len(buf_q[h]) ELSE 0) + (IF Scq[h] = c THEN Len(rwrq[h]) ELSE 0)

\* The room left in c is already spoken for by work that is outstanding.
Overcommits(h, c) ==
    c # NoCq /\ Pending(h, c) > 0 /\ Len(cq[c]) + Pending(h, c) >= CqCap[c]

--------------------------------------------------------------------------------
(* Memory *)

\* mem_stag_location: does the tag exist, allow the access and hold the range.
mem_stag_location(h, stag, off, len, acc) ==
    /\ stag \in stags[h]
    /\ acc \in StagAcc[stag]
    /\ off < StagLen
    /\ off + len <= StagLen

--------------------------------------------------------------------------------
(* The application's calls *)

Init ==
    /\ status = [h \in Host |-> "up"]
    /\ wire = [h \in Host |-> <<>>]
    /\ send_msn = [h \in Host |-> 1]
    /\ recv_msn = [h \in Host |-> 1]
    /\ sink_msn = [h \in Host |-> 1]
    /\ buf_q = [h \in Host |-> <<>>]
    /\ outst_tag = [h \in Host |-> {}]
    /\ outst_untag = [h \in Host |-> {}]
    /\ rwrq = [h \in Host |-> <<>>]
    /\ cq = [c \in Cq |-> <<>>]
    /\ stags = [h \in Host |-> Stag]
    /\ ops = [h \in Host |-> <<>>]
    /\ posts = [h \in Host |-> <<>>]
    /\ rcvd = [h \in Host |-> <<>>]
    /\ reads = [h \in Host |-> <<>>]
    /\ placed = [h \in Host |-> {}]
    /\ lost = [h \in Host |-> 0]
    /\ over = [h \in Host |-> FALSE]

\* The model makes no claim once a process runs on undefined values.
Sane == \A h \in Host : status[h] # "wild"

Running(h) == Sane /\ status[h] = "up"

\* An operation of the send side: a full send queue is refused with -ENOSPC.
Issue(h, op) ==
    /\ Running(h)
    /\ op.op \in Work[h]
    /\ Len(ops[h]) < MaxOps[h]
    /\ ~IsFull(Scq[h])
    /\ ops' = [ops EXCEPT ![h] = Append(@, op)]
    /\ over' = [over EXCEPT ![h] = @ \/ Overcommits(h, Scq[h])]

\* The wire position an operation's bytes are named by.
OpId(h) == Len(ops[h]) + 1

SendCqe(op, id, len) == [op |-> op, id |-> id, len |-> len]

rdmap_send(h, len) ==
    /\ Issue(h, [op |-> "SEND", len |-> len])
    /\ wire' = [wire EXCEPT ![Peer(h)] =
                  @ \o ddp_send_untagged("SEND", SEND_Q, send_msn[h], len,
                                         [for |-> OpId(h)])]
    /\ send_msn' = [send_msn EXCEPT ![h] = @ + 1]
    /\ LET es == <<SendCqe("OP_SEND", OpId(h), len)>>
       IN  /\ cq' = ProduceAll(Scq[h], es)
           /\ lost' = [lost EXCEPT ![h] = @ + Dropped(Scq[h], es)]
    /\ UNCHANGED <<status, recv_msn, sink_msn, outst_tag, outst_untag, buf_q, rwrq,
                   stags, posts, rcvd, reads, placed>>

rdmap_rdma_write(h, stag, to, len) ==
    /\ Issue(h, [op |-> "WRITE", len |-> len])
    /\ wire' = [wire EXCEPT ![Peer(h)] =
                  @ \o ddp_send_tagged("RDMA_WRITE", stag, to, len, [for |-> OpId(h)])]
    /\ LET es == <<SendCqe("OP_RDMA_WRITE", OpId(h), len)>>
       IN  /\ cq' = ProduceAll(Scq[h], es)
           /\ lost' = [lost EXCEPT ![h] = @ + Dropped(Scq[h], es)]
    /\ UNCHANGED <<status, conn, buf_q, rwrq, stags, posts, rcvd, reads, placed>>

\* The request is one segment: its header is shorter than any payload.  The
\* entry joins rwrq and waits for rdmap_reap_rwr.
rdmap_rdma_read(h, sink, len, src) ==
    /\ Issue(h, [op |-> "READ", len |-> len])
    /\ DistinctSinks => \A i \in 1 .. Len(rwrq[h]) : rwrq[h][i].stag # sink
    /\ rwrq' = [rwrq EXCEPT ![h] =
                  Append(@, [id |-> OpId(h), stag |-> sink, done |-> FALSE, len |-> 0])]
    /\ wire' = [wire EXCEPT ![Peer(h)] =
                  @ \o ddp_send_untagged("RDMA_READ_REQ", RDMAREQ_Q, send_msn[h], 1,
                         [sink_stag |-> sink, rdma_rd_sz |-> len, src_stag |-> src,
                          for |-> OpId(h)])]
    /\ send_msn' = [send_msn EXCEPT ![h] = @ + 1]
    /\ UNCHANGED <<status, recv_msn, sink_msn, outst_tag, outst_untag, buf_q, cq,
                   stags, posts, rcvd, reads, placed, lost>>

\* The receive queue is only asked for room now, not when the entry completes.
rdmap_post_recv(h, len) ==
    /\ Running(h)
    /\ Len(posts[h]) < MaxPosts[h]
    /\ ~IsFull(Rcq[h])
    /\ buf_q' = [buf_q EXCEPT ![h] =
                   Append(@, [id |-> Len(posts[h]) + 1, len |-> len, got |-> {}])]
    /\ posts' = [posts EXCEPT ![h] = Append(@, len)]
    /\ over' = [over EXCEPT ![h] = @ \/ Overcommits(h, Rcq[h])]
    /\ UNCHANGED <<status, wire, conn, rwrq, cq, stags, ops, rcvd, reads, placed, lost>>

\* cq_consume by the application.
cq_consume(h, c) ==
    /\ Running(h)
    /\ c \in {Scq[h], Rcq[h]} \ {NoCq}
    /\ cq[c] # <<>>
    /\ cq' = [cq EXCEPT ![c] = Tail(@)]
    /\ UNCHANGED <<status, wire, conn, buf_q, rwrq, stags, hist>>

mem_stag_destroy(h, stag) ==
    /\ Running(h)
    /\ "DESTROY" \in Work[h]
    /\ stag \in stags[h]
    /\ stags' = [stags EXCEPT ![h] = @ \ {stag}]
    /\ UNCHANGED <<status, wire, conn, buf_q, rwrq, cq, hist>>

--------------------------------------------------------------------------------
(* Receiving: mpa_recv on the next segment, through DDP to RDMAP *)

Next_seg(h) == Head(wire[h])

Arrives(h) ==
    /\ Running(h)
    /\ wire[h] # <<>>

\* The process ends: error(), a signal or undefined behaviour.
Stop(h, why) ==
    /\ status' = [status EXCEPT ![h] = why]
    /\ wire' = [wire EXCEPT ![h] = Tail(@)]
    /\ UNCHANGED <<conn, buf_q, rwrq, cq, stags, hist>>

\* Mutant: a message that fills its buffer exactly is refused.
HasUntagSink_strict(h) ==
    /\ buf_q[h] # <<>>
    /\ Next_seg(h).off + Next_seg(h).len < Head(buf_q[h]).len

\* rdmap_get_untag_sink and ddp_get_sink: the oldest posted receive, if the
\* segment fits in it.
HasUntagSink(h) ==
    /\ buf_q[h] # <<>>
    /\ Next_seg(h).off + Next_seg(h).len <= Head(buf_q[h]).len

\* mpa_rd_plain_fpdu ignores ddp_get_sink's error and goes on with the
\* uninitialised buffer descriptor.
recv_send_no_sink(h) ==
    /\ Arrives(h)
    /\ Next_seg(h).op = "SEND"
    /\ ~HasUntagSink(h)
    /\ Stop(h, "wild")

\* ddp_process_ulpdu and rdmap_untag_recv for SEND_Q.
recv_send(h) ==
    LET seg == Next_seg(h)
        buf == [Head(buf_q[h]) EXCEPT !.got = @ \cup Bytes(seg)]
        len == Accumulated(outst_untag[h], seg)
        es  == <<[op |-> "OP_RECV", id |-> buf.id, len |-> len]>>
    IN  /\ Arrives(h)
        /\ seg.op = "SEND"
        /\ HasUntagSink(h)
        /\ wire' = [wire EXCEPT ![h] = Tail(@)]
        /\ outst_untag' = [outst_untag EXCEPT ![h] = Outstanding(@, seg)]
        /\ \/ /\ ~seg.last
              /\ buf_q' = [buf_q EXCEPT ![h] = <<buf>> \o Tail(@)]
              /\ UNCHANGED <<recv_msn, sink_msn, cq, rcvd, lost>>
           \/ /\ seg.last
              /\ buf_q' = [buf_q EXCEPT ![h] = Tail(@)]
              /\ cq' = ProduceAll(Rcq[h], es)
              /\ lost' = [lost EXCEPT ![h] = @ + Dropped(Rcq[h], es)]
              /\ rcvd' = [rcvd EXCEPT ![h] =
                            Append(@, [id |-> buf.id, len |-> len, got |-> buf.got])]
              /\ sink_msn' = [sink_msn EXCEPT ![h] = @ + 1]
              /\ recv_msn' = [recv_msn EXCEPT ![h] = @ + 1]
        /\ UNCHANGED <<status, send_msn, outst_tag, rwrq, stags, ops, posts, reads,
                       placed, over>>

\* rdmap_untag_recv for RDMAREQ_Q: answer from the named memory.
recv_rdma_read_req(h) ==
    LET req == Next_seg(h).what
    IN  /\ Arrives(h)
        /\ Next_seg(h).op = "RDMA_READ_REQ"
        /\ mem_stag_location(h, req.src_stag, 0, req.rdma_rd_sz, "R")
        /\ wire' = [wire EXCEPT
                      ![h] = Tail(@),
                      ![Peer(h)] = @ \o ddp_send_tagged("RDMA_READ_RESP", req.sink_stag, 0,
                                                        req.rdma_rd_sz, [for |-> req.for])]
        /\ outst_untag' = [outst_untag EXCEPT ![h] = Outstanding(@, Next_seg(h))]
        /\ sink_msn' = [sink_msn EXCEPT ![h] = @ + 1]
        /\ recv_msn' = [recv_msn EXCEPT ![h] = @ + 1]
        /\ UNCHANGED <<status, send_msn, outst_tag, buf_q, rwrq, cq, stags, hist>>

recv_rdma_read_req_no_src(h) ==
    LET req == Next_seg(h).what
    IN  /\ Arrives(h)
        /\ Next_seg(h).op = "RDMA_READ_REQ"
        /\ ~mem_stag_location(h, req.src_stag, 0, req.rdma_rd_sz, "R")
        /\ Stop(h, "nosrc")

\* rdmap_get_tag_sink fails: the data is read through a null pointer, readv
\* reports EFAULT and readv_full gives up.
recv_tagged_no_sink(h) ==
    LET seg == Next_seg(h)
    IN  /\ Arrives(h)
        /\ seg.tagged
        /\ ~mem_stag_location(h, seg.stag, seg.to, seg.len, "W")
        /\ Stop(h, "nosink")

\* Mutant: a response completes every read in flight.
Matches_any(d, seg) == TRUE

\* rdmap_reap_rwr, first loop: which requests a finished response completes.
Matches(d, seg) == d.stag = seg.stag

Marked(q, seg, len) ==
    [i \in 1 .. Len(q) |->
       IF Matches(q[i], seg) THEN [q[i] EXCEPT !.done = TRUE, !.len = len] ELSE q[i]]

\* Mutant: requests that are still pending are taken off the list too.
DoneCount_all(q) == Len(q)

\* rdmap_reap_rwr, second loop: how many requests at the front are finished.
DoneCount(q) ==
    CHOOSE k \in 0 .. Len(q) :
        /\ \A i \in 1 .. k : q[i].done
        /\ k < Len(q) => ~q[k + 1].done

\* Bytes placed by a tagged segment: of the peer's write, or of h's own read.
PlacedBy(h, seg) ==
    LET who == IF seg.op = "RDMA_WRITE" THEN Peer(h) ELSE h
    IN  {<<who, b[1], b[2]>> : b \in Bytes(seg)}

\* Placement of a tagged segment and DDP's bookkeeping for it.
Place(h, seg) ==
    /\ Arrives(h)
    /\ seg.tagged
    /\ mem_stag_location(h, seg.stag, seg.to, seg.len, "W")
    /\ wire' = [wire EXCEPT ![h] = Tail(@)]
    /\ placed' = [placed EXCEPT ![h] = @ \cup PlacedBy(h, seg)]
    /\ outst_tag' = [outst_tag EXCEPT ![h] = Outstanding(@, seg)]
    /\ UNCHANGED <<send_msn, recv_msn, sink_msn, outst_untag, buf_q, stags, ops, posts,
                   rcvd, over>>

Finishes_read(seg) == seg.op = "RDMA_READ_RESP" /\ seg.last

recv_tagged(h) ==
    /\ Place(h, Next_seg(h))
    /\ ~Finishes_read(Next_seg(h))
    /\ UNCHANGED <<status, rwrq, cq, reads, lost>>

\* rdmap_tag_recv and rdmap_reap_rwr: error() if no request matches; the
\* completions of the finished requests at the front go to the send queue,
\* but only if there is a receive queue.
recv_read_resp(h) ==
    LET seg  == Next_seg(h)
        q    == Marked(rwrq[h], seg, Accumulated(outst_tag[h], seg))
        why  == CASE \A i \in 1 .. Len(q) : ~Matches(q[i], seg) -> "norwr"
                  [] DoneCount(q) > 0 /\ Rcq[h] # NoCq /\ Scq[h] = NoCq -> "null"
                  [] OTHER -> "up"
        k    == IF why = "up" THEN DoneCount(q) ELSE 0
        c    == IF Rcq[h] = NoCq THEN NoCq ELSE Scq[h]
        es   == [i \in 1 .. k |-> [op |-> "OP_RDMA_READ", id |-> q[i].id, len |-> q[i].len]]
    IN  /\ Place(h, seg)
        /\ Finishes_read(seg)
        /\ status' = [status EXCEPT ![h] = why]
        /\ rwrq' = [rwrq EXCEPT ![h] = SubSeq(q, k + 1, Len(q))]
        /\ cq' = ProduceAll(c, es)
        /\ lost' = [lost EXCEPT ![h] = @ + Dropped(c, es)]
        /\ reads' = [reads EXCEPT ![h] = @ \o
                       [i \in 1 .. k |->
                          [id |-> q[i].id, len |-> q[i].len,
                           got |-> {b \in placed'[h] : b[1] = h /\ b[2] = q[i].id}]]]

\* read_full meets the end of the stream, or a reset, after the peer is gone.
recv_eof(h) ==
    /\ Running(h)
    /\ status[Peer(h)] # "up"
    /\ status' = [status EXCEPT ![h] = "eof"]
    /\ UNCHANGED <<wire, conn, buf_q, rwrq, cq, stags, hist>>

\* One turn of mpa_poll on the connection.
mpa_recv(h) ==
    \/ recv_send(h)
    \/ recv_send_no_sink(h)
    \/ recv_rdma_read_req(h)
    \/ recv_rdma_read_req_no_src(h)
    \/ recv_tagged(h)
    \/ recv_read_resp(h)
    \/ recv_tagged_no_sink(h)

Next ==
    \E h \in Host :
        \/ \E len \in SendLens : rdmap_send(h, len)
        \/ \E stag \in Stag, len \in WriteLens : rdmap_rdma_write(h, stag, WriteTo, len)
        \/ \E sink \in Stag, src \in Stag, len \in ReadLens : rdmap_rdma_read(h, sink, len, src)
        \/ \E len \in BufLens : rdmap_post_recv(h, len)
        \/ \E c \in Cq : cq_consume(h, c)
        \/ \E stag \in Stag : mem_stag_destroy(h, stag)
        \/ mpa_recv(h)
        \/ recv_eof(h)

Spec == Init /\ [][Next]_vars

\* An application keeps polling the connection.
FairSpec == Spec /\ \A h \in Host : WF_vars(mpa_recv(h))

--------------------------------------------------------------------------------
(* Properties *)

UntaggedSeg == [tagged : {FALSE}, op : {"SEND", "RDMA_READ_REQ"}, qn : {SEND_Q, RDMAREQ_Q},
                msn : Nat, off : Nat, len : Nat, last : BOOLEAN,
                what : [for : Nat]
                       \cup [sink_stag : Stag, rdma_rd_sz : Nat, src_stag : Stag,
                             for : Nat]]

TaggedSeg == [tagged : {TRUE}, op : {"RDMA_WRITE", "RDMA_READ_RESP"}, stag : Stag,
              off : Nat, to : Nat, len : Nat, last : BOOLEAN, what : [for : Nat]]

\* Every variable has its type; the fields of a segment are those of its kind.
TypeOK ==
    /\ status \in [Host -> Status]
    /\ wire \in [Host -> Seq(UntaggedSeg \cup TaggedSeg)]
    /\ send_msn \in [Host -> Nat] /\ recv_msn \in [Host -> Nat] /\ sink_msn \in [Host -> Nat]
    /\ buf_q \in [Host -> Seq([id : Nat, len : Nat, got : SUBSET (Nat \X Nat)])]
    /\ outst_tag \in [Host -> SUBSET [key : Seq(Stag), len : Nat]]
    /\ outst_untag \in [Host -> SUBSET [key : Seq(Nat), len : Nat]]
    /\ rwrq \in [Host -> Seq([id : Nat, stag : Stag, done : BOOLEAN, len : Nat])]
    /\ cq \in [Cq -> Seq([op : {"OP_SEND", "OP_RECV", "OP_RDMA_WRITE", "OP_RDMA_READ"},
                          id : Nat, len : Nat])]
    /\ stags \in [Host -> SUBSET Stag]

Untagged(h) == {i \in 1 .. Len(wire[h]) : ~wire[h][i].tagged}

\* MSNs: while both ends are up, the receiver's DDP and RDMAP counters agree,
\* every untagged segment in flight carries an MSN the receiver has not yet
\* finished, MSNs never go back along the wire, and the segment that arrives
\* next has exactly the MSN the receiver expects.  rdmap.c:282 and ddp.c:380
\* assert this of each arriving segment.
MsnInSync ==
    \A h \in Host : Sane /\ status[h] = "up" =>
        /\ sink_msn[h] = recv_msn[h]
        /\ \A i \in Untagged(h) :
             /\ wire[h][i].msn \in recv_msn[h] .. send_msn[Peer(h)] - 1
             /\ \A j \in Untagged(h) : i < j => wire[h][i].msn <= wire[h][j].msn
        /\ wire[h] # <<>> /\ ~Next_seg(h).tagged => Next_seg(h).msn = recv_msn[h]
        /\ Untagged(h) = {} => recv_msn[h] = send_msn[Peer(h)]

\* DDP never has more than one unfinished message per connection, of either
\* kind, because a sender emits all segments of a message before the next.
\* The reassembly lists are keyed by STag alone, so two unfinished messages
\* for one STag would add up their lengths.
OneUnfinished ==
    \A h \in Host : status[h] = "up" =>
        Cardinality(outst_tag[h]) + Cardinality(outst_untag[h]) <= 1

OpsOf(h, name) == {i \in 1 .. Len(ops[h]) : ops[h][i].op = name}

\* The k-th completed receive holds exactly the bytes of the peer's k-th send,
\* in the k-th buffer that was posted, and reports its length.
SendsDelivered ==
    \A h \in Host : \A k \in 1 .. Len(rcvd[h]) :
        \E i \in OpsOf(Peer(h), "SEND") :
            /\ Cardinality({j \in OpsOf(Peer(h), "SEND") : j <= i}) = k
            /\ rcvd[h][k] = [id |-> k, len |-> ops[Peer(h)][i].len,
                             got |-> {i} \X (0 .. ops[Peer(h)][i].len - 1)]

\* A receive that completes tells the application that all RDMA writes its
\* peer issued before that send are in memory.
WritesBeforeSend ==
    \A h \in Host : \A k \in 1 .. Len(rcvd[h]) : \A i \in OpsOf(Peer(h), "WRITE") :
        (\E s \in OpsOf(Peer(h), "SEND") :
            s > i /\ Cardinality({j \in OpsOf(Peer(h), "SEND") : j <= s}) = k)
        => {Peer(h)} \X {i} \X (0 .. ops[Peer(h)][i].len - 1) \subseteq placed[h]

\* Reads complete in the order they were issued, each once, with the length
\* asked for and with all their bytes in the sink.
ReadsExact ==
    \A h \in Host : \A k \in 1 .. Len(reads[h]) :
        \E i \in OpsOf(h, "READ") :
            /\ Cardinality({j \in OpsOf(h, "READ") : j <= i}) = k
            /\ reads[h][k] = [id |-> i, len |-> ops[h][i].len,
                              got |-> {h} \X {i} \X (0 .. ops[h][i].len - 1)]

\* A read response always finds the request it answers: the process never
\* ends in rdmap_reap_rwr's or rdmap_tag_recv's error().
ReadRespExpected == \A h \in Host : status[h] # "norwr"

\* A completion is dropped by a full queue only after a call was accepted
\* although outstanding receives and reads had already claimed all the room:
\* cq_isfull is asked when an operation starts and sees the entries waiting,
\* not those still to come.  An operation that completes at once never loses
\* its completion.
LossOnlyIfOvercommitted == \A h \in Host : lost[h] > 0 => over[h]

\* A process runs into undefined behaviour only when its application had not
\* posted a receive for the send that arrived, or one that was too short.
WildOnlyIfUnposted ==
    \A h \in Host : status[h] = "wild" =>
        LET k == Len(rcvd[h]) + 1
        IN  \E i \in OpsOf(Peer(h), "SEND") :
               /\ Cardinality({j \in OpsOf(Peer(h), "SEND") : j <= i}) = k
               /\ Len(posts[h]) >= k => posts[h][k] < ops[Peer(h)][i].len

\* Every read in flight is completed, unless a process stops.
ReadsComplete ==
    \A h \in Host :
        rwrq[h] # <<>> ~> (rwrq[h] = <<>> \/ \E g \in Host : status[g] # "up")
================================================================================
