------------------------------ MODULE Rdmap_proofs -----------------------------
(***************************************************************************)
(* What holds of RDMAP over DDP for every payload size, message length,    *)
(* number of operations, tags and completion queues.                       *)
(*                                                                         *)
(* The argument follows the wire.  A message is a run of segments, each of *)
(* which continues the one before it; the wire is a sequence of whole      *)
(* messages, but for the first, of which the receiver may already have     *)
(* taken a part.  What DDP keeps for the receiver is exactly that part.    *)
(***************************************************************************)
EXTENDS Rdmap, SequenceTheorems, FiniteSetTheorems, NaturalsInduction, WellFoundedInduction, TLAPS

SendSeg == [tagged : {FALSE}, op : {"SEND"}, qn : {SEND_Q}, msn : Nat, off : Nat, len : Nat,
            last : BOOLEAN, what : [for : Nat]]

\* A read request is one segment.
ReqSeg ==
    {s \in [tagged : {FALSE}, op : {"RDMA_READ_REQ"}, qn : {RDMAREQ_Q}, msn : Nat, off : Nat,
            len : Nat, last : BOOLEAN,
            what : [sink_stag : Stag, rdma_rd_sz : Nat, src_stag : Stag, for : Nat]] :
       s.last /\ s.off = 0}

Seg == SendSeg \cup ReqSeg \cup TaggedSeg

\* b is the next segment of a's message.
Continues(a, b) ==
    /\ b.tagged = a.tagged /\ b.op = a.op /\ b.what = a.what /\ Key(b) = Key(a)
    /\ b.off = a.off + a.len /\ b.off # 0

\* The segments of one message, in order; an empty tagged one has none.
Message(s) ==
    /\ s \in Seq(Seg)
    /\ \A i \in 1 .. Len(s) :
         /\ s[i].last <=> i = Len(s)
         /\ i = 1 => s[i].off = 0
         /\ i < Len(s) => Continues(s[i], s[i + 1])

\* The message of an operation: what it carries, and that its segments stay
\* within its m bytes, the last one reaching the end.
Carries(s, op, what, m) ==
    /\ Message(s) /\ (m > 0 => s # <<>>)
    /\ \A i \in 1 .. Len(s) :
         /\ s[i].op = op /\ s[i].what = what
         /\ s[i].off + s[i].len <= m
         /\ s[i].last => s[i].off + s[i].len = m

\* An untagged message: never without a segment, and numbered.
UntaggedMsg(s, op, what, m, msn) ==
    /\ Carries(s, op, what, m) /\ s # <<>>
    /\ \A i \in 1 .. Len(s) : ~s[i].tagged /\ s[i].msn = msn

--------------------------------------------------------------------------------
(* Segments *)

\* The fields of a segment.
LEMMA SegFields ==
    ASSUME NEW s \in Seg
    PROVE  /\ s.tagged \in BOOLEAN /\ s.last \in BOOLEAN
           /\ s.off \in Nat /\ s.len \in Nat /\ s.what.for \in Nat
           /\ s.tagged => s.op \in {"RDMA_WRITE", "RDMA_READ_RESP"} /\ s.stag \in Stag /\ s.to \in Nat
                          /\ s \in TaggedSeg
           /\ ~s.tagged => s.op \in {"SEND", "RDMA_READ_REQ"} /\ s.msn \in Nat /\ s.qn \in {SEND_Q, RDMAREQ_Q}
           /\ s.op = "SEND" => ~s.tagged
           /\ s.op = "RDMA_READ_REQ" =>
                /\ ~s.tagged /\ s.last /\ s.off = 0
                /\ s.what.sink_stag \in Stag /\ s.what.src_stag \in Stag /\ s.what.rdma_rd_sz \in Nat
<1>1. CASE s \in SendSeg
    BY <1>1 DEF SendSeg
<1>2. CASE s \in ReqSeg
  <2>1. s.what \in [sink_stag : Stag, rdma_rd_sz : Nat, src_stag : Stag, for : Nat]
      BY <1>2 DEF ReqSeg
  <2>2. /\ s.what.sink_stag \in Stag /\ s.what.src_stag \in Stag /\ s.what.rdma_rd_sz \in Nat
        /\ s.what.for \in Nat
      BY <2>1
  <2>3. s.tagged \in BOOLEAN /\ s.last \in BOOLEAN /\ ~s.tagged /\ s.last
      BY <1>2 DEF ReqSeg
  <2>4. s.off = 0 /\ s.len \in Nat /\ s.op = "RDMA_READ_REQ" /\ s.msn \in Nat /\ s.qn = RDMAREQ_Q
      BY <1>2 DEF ReqSeg
  <2> QED BY <2>2, <2>3, <2>4
<1>3. CASE s \in TaggedSeg
    BY <1>3 DEF TaggedSeg
<1> QED BY <1>1, <1>2, <1>3 DEF Seg

\* How many segments a message takes: all its bytes fit, and the last segment
\* is not superfluous.
LEMMA SgmntsEnough ==
    ASSUME NEW m \in Nat, NEW p \in Nat \ {0}
    PROVE  LET n == num_sgmnts(m, p)
           IN  n \in Nat /\ n * p >= m /\ (n = 0 \/ (n - 1) * p < m) /\ (n = 0 <=> m = 0)
BY DEF num_sgmnts

\* The lengths of the segments add up.
LEMMA SgmntLens ==
    ASSUME NEW m \in Nat, NEW p \in Nat \ {0}, NEW n \in Nat, n = num_sgmnts(m, p) \/ (m = 0 /\ n = 1),
           NEW i \in 1 .. n
    PROVE  /\ SgmntLen(i, n, m, p) \in Nat /\ (i - 1) * p \in Nat
           /\ i < n => SgmntLen(i, n, m, p) = p /\ i * p = (i - 1) * p + p /\ i * p # 0
           /\ (i - 1) * p + SgmntLen(i, n, m, p) <= m
           /\ i = n => (i - 1) * p + SgmntLen(i, n, m, p) = m
<1>1. (n - 1) * p \in Nat /\ (i - 1) * p \in Nat
  <2>1. n - 1 \in Nat /\ i - 1 \in Nat
      OBVIOUS
  <2>2. \A k \in Nat : k * p \in Nat
      OBVIOUS
  <2> QED BY <2>1, <2>2
<1>2. i * p = (i - 1) * p + p
    OBVIOUS
<1>3. (n - 1) * p <= m
  <2>1. CASE n = num_sgmnts(m, p)
    <3>1. n = 0 \/ (n - 1) * p < m
        BY <2>1, SgmntsEnough
    <3> QED BY <1>1, <3>1
  <2>2. CASE m = 0 /\ n = 1
      BY <2>2
  <2> QED BY <2>1, <2>2
<1>4. m - (n - 1) * p \in Nat
    BY <1>1, <1>3
<1>5. CASE i = n
    BY <1>1, <1>4, <1>5 DEF SgmntLen
<1>6. CASE i < n
  <2>1. i <= n - 1 /\ i \in Nat /\ n - 1 \in Nat
      BY <1>6
  <2>2. \A a, b \in Nat : a <= b => a * p <= b * p
      OBVIOUS
  <2>3. i * p <= (n - 1) * p
      BY <2>1, <2>2
  <2>4. i * p # 0 /\ i * p \in Nat
      BY <2>1
  <2> QED BY <1>1, <1>2, <1>3, <1>6, <2>3, <2>4 DEF SgmntLen
<1> QED BY <1>5, <1>6

\* ddp_send_untagged makes one message of segments with the MSN it was given.
LEMMA UntaggedMessage ==
    ASSUME NEW msn \in Nat, NEW m \in Nat, NEW op, NEW qn, NEW what,
           \/ op = "SEND" /\ qn = SEND_Q /\ what \in [for : Nat]
           \/ /\ op = "RDMA_READ_REQ" /\ qn = RDMAREQ_Q /\ m = 1
              /\ what \in [sink_stag : Stag, rdma_rd_sz : Nat, src_stag : Stag, for : Nat],
           NEW s, s = ddp_send_untagged(op, qn, msn, m, what)
    PROVE  UntaggedMsg(s, op, what, m, msn)
<1> DEFINE P == UNTAGGED_PAYLD_LEN
<1>1. PICK n \in Nat \ {0} : /\ n = untagged_sgmnts(m) /\ (n = num_sgmnts(m, P) \/ (m = 0 /\ n = 1))
                             /\ (m = 1 => n = 1)
  <2>1. P \in Nat \ {0}
      BY PayldAssumption
  <2>2. PICK k \in Nat : k = num_sgmnts(m, P) /\ (k = 0 \/ (k - 1) * P < m) /\ (k = 0 <=> m = 0)
      BY <2>1, SgmntsEnough
  <2>3. m = 1 => k = 1
    <3> SUFFICES ASSUME m = 1, k # 1 PROVE FALSE
        OBVIOUS
    <3>1. k # 0 /\ k - 1 \in Nat \ {0} /\ (k - 1) * P < 1
        BY <2>2
    <3>2. \A a, b \in Nat \ {0} : a * b >= 1
        OBVIOUS
    <3> QED BY <2>1, <3>1, <3>2
  <2> QED BY <2>2, <2>3 DEF untagged_sgmnts
<1>2. P \in Nat \ {0}
    BY PayldAssumption
<1>3. s = [i \in 1 .. n |->
             [tagged |-> FALSE, op |-> op, qn |-> qn, msn |-> msn, off |-> (i - 1) * P,
              len |-> SgmntLen(i, n, m, P), last |-> i = n, what |-> what]]
  <2>1. s = UntaggedSgmnts(n, op, qn, msn, m, what)
      BY <1>1, Zenon DEF ddp_send_untagged
  <2> QED BY <2>1, Zenon DEF UntaggedSgmnts
<1>4. ASSUME NEW i \in 1 .. n
      PROVE  /\ SgmntLen(i, n, m, P) \in Nat /\ (i - 1) * P \in Nat
             /\ i < n => SgmntLen(i, n, m, P) = P /\ i * P = (i - 1) * P + P /\ i * P # 0
             /\ (i - 1) * P + SgmntLen(i, n, m, P) <= m
             /\ i = n => (i - 1) * P + SgmntLen(i, n, m, P) = m
  <2>1. PICK p \in Nat \ {0} : p = P
      BY <1>2
  <2>2. n \in Nat /\ (n = num_sgmnts(m, p) \/ (m = 0 /\ n = 1))
      BY <1>1, <2>1
  <2> HIDE DEF P
  <2>3. /\ SgmntLen(i, n, m, p) \in Nat /\ (i - 1) * p \in Nat
        /\ i < n => SgmntLen(i, n, m, p) = p /\ i * p = (i - 1) * p + p /\ i * p # 0
        /\ (i - 1) * p + SgmntLen(i, n, m, p) <= m
        /\ i = n => (i - 1) * p + SgmntLen(i, n, m, p) = m
      BY <2>2, SgmntLens
  <2> QED BY <2>1, <2>3, Zenon
<1> HIDE DEF P
<1>5. ASSUME NEW i \in 1 .. n
      PROVE  /\ s[i] \in Seg /\ (s[i].last <=> i = n) /\ s[i].off = (i - 1) * P
             /\ s[i].len = SgmntLen(i, n, m, P) /\ s[i].qn = qn
             /\ ~s[i].tagged /\ s[i].msn = msn /\ s[i].op = op /\ s[i].what = what
  <2>1. PICK o \in Nat, l \in Nat : o = (i - 1) * P /\ l = SgmntLen(i, n, m, P)
      BY <1>4
  <2>2. PICK b \in BOOLEAN : b = (i = n)
      OBVIOUS
  <2> DEFINE x == [tagged |-> FALSE, op |-> op, qn |-> qn, msn |-> msn, off |-> o, len |-> l,
                   last |-> b, what |-> what]
  <2>3. s[i] = x
      BY <1>3, <2>1, <2>2
  <2>4. /\ x.off = o /\ x.len = l /\ x.qn = qn /\ x.msn = msn /\ x.op = op /\ x.what = what
        /\ x.last = b /\ x.tagged = FALSE
      OBVIOUS
  <2>5. x \in Seg
    <3>1. CASE op = "SEND" /\ qn = SEND_Q /\ what \in [for : Nat]
        BY <3>1 DEF Seg, SendSeg
    <3>2. CASE /\ op = "RDMA_READ_REQ" /\ qn = RDMAREQ_Q /\ m = 1
               /\ what \in [sink_stag : Stag, rdma_rd_sz : Nat, src_stag : Stag, for : Nat]
      <4>1. i = 1 /\ n = 1
          BY <1>1, <3>2
      <4>2. o = 0
          BY <1>2, <2>1, <4>1
      <4>3. b = TRUE
          BY <2>2, <4>1
      <4> QED BY <3>2, <4>2, <4>3 DEF Seg, ReqSeg
    <3> QED BY <3>1, <3>2
  <2> HIDE DEF x
  <2>6. s[i].last = b /\ s[i].tagged = FALSE
      BY <2>3, <2>4, Zenon
  <2>7. (s[i].last <=> i = n) /\ ~s[i].tagged
      BY <2>2, <2>6, Zenon
  <2> QED BY <2>1, <2>3, <2>4, <2>5, <2>7
<1>6. s \in Seq(Seg) /\ Len(s) = n
    BY <1>3, <1>5, SeqDef
<1>7. ASSUME NEW i \in 1 .. n, i < n PROVE Continues(s[i], s[i + 1])
  <2>1. i + 1 \in 1 .. n /\ (i + 1) - 1 = i
      BY <1>7
  <2>2. s[i + 1].off = i * P /\ s[i].off = (i - 1) * P /\ s[i].len = P
      BY <1>4, <1>5, <1>7, <2>1
  <2>3. s[i + 1].off = s[i].off + s[i].len /\ s[i + 1].off # 0
      BY <1>4, <1>7, <2>2
  <2>4. /\ ~s[i].tagged /\ ~s[i + 1].tagged /\ s[i + 1].op = s[i].op /\ s[i + 1].what = s[i].what
        /\ s[i].qn = s[i + 1].qn /\ s[i].msn = s[i + 1].msn
      BY <1>5, <2>1
  <2>5. s[i + 1].tagged = s[i].tagged
      BY <1>5, <2>1, <2>4, SegFields
  <2> QED BY <2>3, <2>4, <2>5 DEF Continues, Key
<1>8. s[1].off = 0
    BY <1>2, <1>5
<1>9. Message(s) /\ s # <<>>
    BY <1>1, <1>5, <1>6, <1>7, <1>8 DEF Message
<1>10. ASSUME NEW i \in 1 .. n
       PROVE  /\ s[i].off + s[i].len <= m
              /\ s[i].last => s[i].off + s[i].len = m
  <2>1. PICK a \in Nat, b \in Nat : /\ a = (i - 1) * P /\ b = SgmntLen(i, n, m, P)
                                    /\ a + b <= m /\ (i = n => a + b = m)
      BY <1>4, Zenon
  <2>2. s[i].off = a /\ s[i].len = b /\ (s[i].last <=> i = n)
      BY <1>5, <2>1, Zenon
  <2> QED BY <2>1, <2>2
<1>11. Carries(s, op, what, m)
    BY <1>5, <1>6, <1>9, <1>10 DEF Carries
<1> QED BY <1>5, <1>6, <1>9, <1>11 DEF UntaggedMsg

\* The message of a send.
LEMMA SendMessage ==
    ASSUME NEW msn \in Nat, NEW m \in Nat, NEW what \in [for : Nat],
           NEW s, s = ddp_send_untagged("SEND", SEND_Q, msn, m, what)
    PROVE  UntaggedMsg(s, "SEND", what, m, msn)
<1>1. PICK op, qn : op = "SEND" /\ qn = SEND_Q
    OBVIOUS
<1>2. \/ op = "SEND" /\ qn = SEND_Q /\ what \in [for : Nat]
      \/ /\ op = "RDMA_READ_REQ" /\ qn = RDMAREQ_Q /\ m = 1
         /\ what \in [sink_stag : Stag, rdma_rd_sz : Nat, src_stag : Stag, for : Nat]
    BY <1>1
<1>3. s = ddp_send_untagged(op, qn, msn, m, what)
    BY <1>1
<1>4. UntaggedMsg(s, op, what, m, msn)
    BY <1>2, <1>3, UntaggedMessage
<1> QED BY <1>1, <1>4

\* The message of a read request.
LEMMA RequestMessage ==
    ASSUME NEW msn \in Nat,
           NEW what \in [sink_stag : Stag, rdma_rd_sz : Nat, src_stag : Stag, for : Nat],
           NEW s, s = ddp_send_untagged("RDMA_READ_REQ", RDMAREQ_Q, msn, 1, what)
    PROVE  UntaggedMsg(s, "RDMA_READ_REQ", what, 1, msn)
<1>1. PICK op, qn : op = "RDMA_READ_REQ" /\ qn = RDMAREQ_Q
    OBVIOUS
<1>2. PICK m \in Nat : m = 1
    OBVIOUS
<1>3. \/ op = "SEND" /\ qn = SEND_Q /\ what \in [for : Nat]
      \/ /\ op = "RDMA_READ_REQ" /\ qn = RDMAREQ_Q /\ m = 1
         /\ what \in [sink_stag : Stag, rdma_rd_sz : Nat, src_stag : Stag, for : Nat]
    BY <1>1, <1>2
<1>4. s = ddp_send_untagged(op, qn, msn, m, what)
    BY <1>1, <1>2
<1>5. UntaggedMsg(s, op, what, m, msn)
    BY <1>3, <1>4, UntaggedMessage
<1> QED BY <1>1, <1>2, <1>5

\* ddp_send_tagged makes one message, or nothing of an empty one.
LEMMA TaggedMessage ==
    ASSUME NEW op \in {"RDMA_WRITE", "RDMA_READ_RESP"}, NEW stag \in Stag, NEW to \in Nat, NEW m \in Nat,
           NEW what \in [for : Nat], NEW s, s = ddp_send_tagged(op, stag, to, m, what)
    PROVE  /\ Carries(s, op, what, m)
           /\ \A i \in 1 .. Len(s) : s[i].tagged /\ s[i].stag = stag
<1> DEFINE P == TAGGED_PAYLD_LEN
<1>1. P \in Nat \ {0}
    BY PayldAssumption
<1>2. PICK n \in Nat : n = num_sgmnts(m, P)
    BY <1>1, SgmntsEnough
<1>3. s = [i \in 1 .. n |->
             [tagged |-> TRUE, op |-> op, stag |-> stag, off |-> (i - 1) * P, to |-> to + (i - 1) * P,
              len |-> SgmntLen(i, n, m, P), last |-> i = n, what |-> what]]
    BY <1>2 DEF ddp_send_tagged, TaggedSgmnts
<1>4. ASSUME NEW i \in 1 .. n
      PROVE  /\ SgmntLen(i, n, m, P) \in Nat /\ (i - 1) * P \in Nat
             /\ i < n => SgmntLen(i, n, m, P) = P /\ i * P = (i - 1) * P + P /\ i * P # 0
             /\ (i - 1) * P + SgmntLen(i, n, m, P) <= m
             /\ i = n => (i - 1) * P + SgmntLen(i, n, m, P) = m
    BY <1>1, <1>2, SgmntLens
<1> HIDE DEF P
<1>5. ASSUME NEW i \in 1 .. n
      PROVE  /\ s[i] \in Seg /\ (s[i].last <=> i = n) /\ s[i].off = (i - 1) * P
             /\ s[i].len = SgmntLen(i, n, m, P)
             /\ s[i].tagged /\ s[i].stag = stag /\ s[i].op = op /\ s[i].what = what
  <2>1. PICK o \in Nat, l \in Nat : o = (i - 1) * P /\ l = SgmntLen(i, n, m, P)
      BY <1>4
  <2>2. PICK b \in BOOLEAN : b = (i = n)
      OBVIOUS
  <2> DEFINE x == [tagged |-> TRUE, op |-> op, stag |-> stag, off |-> o, to |-> to + o, len |-> l,
                   last |-> b, what |-> what]
  <2>3. s[i] = x
      BY <1>3, <2>1, <2>2
  <2>4. /\ x.off = o /\ x.len = l /\ x.stag = stag /\ x.op = op /\ x.what = what
        /\ x.last = b /\ x.tagged = TRUE
      OBVIOUS
  <2>5. x \in Seg
      BY DEF Seg, TaggedSeg
  <2> HIDE DEF x
  <2>6. s[i].last = b /\ s[i].tagged = TRUE
      BY <2>3, <2>4, Zenon
  <2>7. (s[i].last <=> i = n) /\ s[i].tagged
      BY <2>2, <2>6, Zenon
  <2> QED BY <2>1, <2>3, <2>4, <2>5, <2>7
<1>6. s \in Seq(Seg) /\ Len(s) = n
    BY <1>3, <1>5, SeqDef
<1>7. ASSUME NEW i \in 1 .. n, i < n PROVE Continues(s[i], s[i + 1])
  <2>1. i + 1 \in 1 .. n /\ (i + 1) - 1 = i
      BY <1>7
  <2>2. s[i + 1].off = i * P /\ s[i].off = (i - 1) * P /\ s[i].len = P
      BY <1>4, <1>5, <1>7, <2>1
  <2>3. s[i + 1].off = s[i].off + s[i].len /\ s[i + 1].off # 0
      BY <1>4, <1>7, <2>2
  <2>4. /\ s[i].tagged /\ s[i + 1].tagged /\ s[i + 1].op = s[i].op /\ s[i + 1].what = s[i].what
        /\ s[i].stag = s[i + 1].stag
      BY <1>5, <2>1
  <2>5. s[i + 1].tagged = s[i].tagged
      BY <1>5, <2>1, <2>4, SegFields
  <2> QED BY <2>3, <2>4, <2>5 DEF Continues, Key
<1>8. n > 0 => s[1].off = 0
    BY <1>1, <1>5
<1>9. Message(s)
    BY <1>5, <1>6, <1>7, <1>8 DEF Message
<1>10. ASSUME NEW i \in 1 .. n
       PROVE  /\ s[i].off + s[i].len <= m
              /\ s[i].last => s[i].off + s[i].len = m
  <2>1. PICK a \in Nat, b \in Nat : /\ a = (i - 1) * P /\ b = SgmntLen(i, n, m, P)
                                    /\ a + b <= m /\ (i = n => a + b = m)
      BY <1>4, Zenon
  <2>2. s[i].off = a /\ s[i].len = b /\ (s[i].last <=> i = n)
      BY <1>5, <2>1, Zenon
  <2> QED BY <2>1, <2>2
<1>11. m > 0 => s # <<>>
  <2>1. m > 0 => n # 0
      BY <1>1, <1>2, SgmntsEnough DEF P
  <2> QED BY <1>6, <2>1
<1>12. Carries(s, op, what, m)
    BY <1>5, <1>6, <1>9, <1>10, <1>11 DEF Carries
<1> QED BY <1>5, <1>6, <1>12

--------------------------------------------------------------------------------
(* The wire *)

\* Whole messages one after the other, but for the front.
Framed(w) ==
    /\ \A i \in 1 .. Len(w) - 1 : IF w[i].last THEN w[i + 1].off = 0 ELSE Continues(w[i], w[i + 1])
    /\ w # <<>> => w[Len(w)].last

\* Another message keeps the wire framed.
LEMMA FramedAppend ==
    ASSUME NEW w \in Seq(Seg), Framed(w), NEW s, Message(s)
    PROVE  Framed(w \o s) /\ w \o s \in Seq(Seg)
<1>1. s \in Seq(Seg) /\ Len(s) \in Nat /\ Len(w) \in Nat
    BY DEF Message
<1>2. /\ w \o s \in Seq(Seg) /\ Len(w \o s) = Len(w) + Len(s)
      /\ \A i \in 1 .. Len(w) : (w \o s)[i] = w[i]
      /\ \A i \in Len(w) + 1 .. Len(w) + Len(s) : (w \o s)[i] = s[i - Len(w)]
    BY <1>1, ConcatProperties
<1>3. PICK t \in Seq(Seg) : t = w \o s
    BY <1>2
<1>4. ASSUME NEW i \in 1 .. Len(t) - 1
      PROVE  IF t[i].last THEN t[i + 1].off = 0 ELSE Continues(t[i], t[i + 1])
  <2>1. CASE i < Len(w)
      BY <1>1, <1>2, <1>3, <2>1 DEF Framed
  <2>2. CASE i = Len(w)
    <3>1. t[i] = w[i] /\ w[i].last
        BY <1>1, <1>2, <1>3, <2>2 DEF Framed
    <3>2. t[i + 1] = s[1] /\ 1 \in 1 .. Len(s)
        BY <1>1, <1>2, <1>3, <2>2
    <3>3. s[1].off = 0
        BY <3>2 DEF Message
    <3> QED BY <3>1, <3>2, <3>3
  <2>3. CASE i > Len(w)
    <3>1. PICK m \in Nat, n \in Nat : m = Len(w) /\ n = Len(s)
        BY <1>1
    <3>2. Len(t) = m + n /\ \A k \in m + 1 .. m + n : t[k] = s[k - m]
        BY <1>2, <1>3, <3>1
    <3> DEFINE j == i - m
    <3>3. i \in Nat /\ i > m /\ i < m + n
        BY <2>3, <3>1, <3>2
    <3>4. /\ j \in 1 .. n /\ j < n /\ i \in m + 1 .. m + n /\ i + 1 \in m + 1 .. m + n
          /\ (i + 1) - m = j + 1
        BY <3>3
    <3>5. t[i] = s[j] /\ t[i + 1] = s[j + 1]
        BY <3>2, <3>4
    <3> HIDE DEF j
    <3>6. ~s[j].last /\ Continues(s[j], s[j + 1])
        BY <3>1, <3>4 DEF Message
    <3> QED BY <3>5, <3>6
  <2> QED BY <1>1, <2>1, <2>2, <2>3
<1>5. t # <<>> => t[Len(t)].last
  <2>1. CASE s = <<>>
      BY <1>1, <1>2, <1>3, <2>1 DEF Framed
  <2>2. CASE s # <<>>
    <3>1. Len(s) \in 1 .. Len(s) /\ t[Len(t)] = s[Len(s)]
        BY <1>1, <1>2, <1>3, <2>2
    <3> QED BY <3>1 DEF Message
  <2> QED BY <2>1, <2>2
<1> QED BY <1>2, <1>3, <1>4, <1>5 DEF Framed

\* So does taking the segment in front; it ends its message or is continued.
LEMMA FramedTail ==
    ASSUME NEW w \in Seq(Seg), Framed(w), w # <<>>
    PROVE  /\ Framed(Tail(w)) /\ Tail(w) \in Seq(Seg) /\ Len(Tail(w)) = Len(w) - 1
           /\ \A i \in 1 .. Len(w) - 1 : Tail(w)[i] = w[i + 1]
           /\ Head(w) = w[1] /\ Head(w) \in Seg
           /\ IF Head(w).last THEN Tail(w) # <<>> => Head(Tail(w)).off = 0
              ELSE Tail(w) # <<>> /\ Continues(Head(w), Head(Tail(w)))
<1>1. Len(w) \in Nat \ {0}
    OBVIOUS
<1>2. PICK t \in Seq(Seg) : /\ t = Tail(w) /\ Len(t) = Len(w) - 1
                            /\ \A i \in 1 .. Len(w) - 1 : t[i] = w[i + 1]
  <2>1. Tail(w) \in Seq(Seg)
      BY HeadTailProperties
  <2>2. Len(Tail(w)) = Len(w) - 1 /\ \A i \in 1 .. Len(w) - 1 : Tail(w)[i] = w[i + 1]
      BY <1>1
  <2> QED BY <2>1, <2>2, Zenon
<1>3. Head(w) = w[1] /\ w[1] \in Seg
    BY <1>1, ElementOfSeq
<1>4. \A i \in 1 .. Len(t) - 1 : IF t[i].last THEN t[i + 1].off = 0 ELSE Continues(t[i], t[i + 1])
  <2>1. ASSUME NEW i \in 1 .. Len(t) - 1
        PROVE  IF t[i].last THEN t[i + 1].off = 0 ELSE Continues(t[i], t[i + 1])
    <3>1. i + 1 \in 1 .. Len(w) - 1 /\ t[i] = w[i + 1] /\ t[i + 1] = w[(i + 1) + 1]
        BY <1>1, <1>2
    <3> QED BY <3>1 DEF Framed
  <2> QED BY <2>1
<1>5. t # <<>> => t[Len(t)].last
  <2>1. t # <<>> => Len(t) \in 1 .. Len(w) - 1 /\ t[Len(t)] = w[Len(w)]
      BY <1>1, <1>2
  <2> QED BY <2>1 DEF Framed
<1>6. t # <<>> => Head(t) = w[2] /\ 1 \in 1 .. Len(w) - 1
  <2> SUFFICES ASSUME t # <<>> PROVE Head(t) = w[2] /\ 1 \in 1 .. Len(w) - 1
      OBVIOUS
  <2>1. Len(t) \in Nat \ {0} /\ Head(t) = t[1]
      OBVIOUS
  <2>2. 1 \in 1 .. Len(w) - 1
      BY <1>1, <1>2, <2>1
  <2>3. t[1] = w[1 + 1]
      BY <1>2, <2>2
  <2> QED BY <2>1, <2>2, <2>3
<1>7. t = <<>> => Len(w) = 1
  <2>1. t = <<>> => Len(t) = 0
      OBVIOUS
  <2> QED BY <1>1, <1>2, <2>1
<1>8. IF w[1].last THEN t # <<>> => Head(t).off = 0
      ELSE t # <<>> /\ Continues(w[1], Head(t))
  <2>1. t # <<>> => IF w[1].last THEN w[2].off = 0 ELSE Continues(w[1], w[2])
      BY <1>6 DEF Framed
  <2>2. t = <<>> => w[1].last
      BY <1>7 DEF Framed
  <2> QED BY <1>6, <2>1, <2>2
<1> QED BY <1>2, <1>3, <1>4, <1>5, <1>8 DEF Framed

--------------------------------------------------------------------------------
(* The operators the actions are built from *)

\* The two ends.
LEMMA Peers ==
    ASSUME NEW h \in Host
    PROVE  Peer(h) \in Host /\ Peer(h) # h /\ Peer(Peer(h)) = h /\ Host = {h, Peer(h)}
<1>1. A # B
    BY RdmapAssumption
<1>2. CASE h = A
    BY <1>1, <1>2 DEF Host, Peer
<1>3. CASE h = B
    BY <1>1, <1>3 DEF Host, Peer
<1> QED BY <1>2, <1>3 DEF Host

\* cq_produce keeps what is in the queue and drops only what does not fit.
LEMMA ProduceSeq ==
    ASSUME NEW T, NEW q \in Seq(T), NEW es \in Seq(T), NEW cap \in Nat
    PROVE  /\ Produce(q, es, cap) \in Seq(T)
           /\ Len(Produce(q, es, cap)) = IF Len(q) + Len(es) < cap THEN Len(q) + Len(es) ELSE cap
<1>0. PICK s \in Seq(T) : s = q \o es /\ Len(s) = Len(q) + Len(es)
    BY ConcatProperties
<1>1. PICK n \in Nat : s = q \o es /\ n = Len(s) /\ n = Len(q) + Len(es)
    BY <1>0
<1>2. PICK m \in 0 .. n : m = IF n < cap THEN n ELSE cap
    OBVIOUS
<1>3. Produce(q, es, cap) = SubSeq(s, 1, m)
    BY <1>1, <1>2 DEF Produce
<1>4. \A i \in 1 .. m : s[i] \in T
    BY <1>1, <1>2, ElementOfSeq
<1>5. SubSeq(s, 1, m) \in Seq(T) /\ Len(SubSeq(s, 1, m)) = m
    BY <1>2, <1>4, SubSeqProperties
<1> QED BY <1>1, <1>2, <1>3, <1>5

Rwr == [id : Nat, stag : Stag, done : BOOLEAN, len : Nat]

\* rdmap_reap_rwr stops at the first request that is not finished.
LEMMA DonePrefix ==
    ASSUME NEW q \in Seq(Rwr)
    PROVE  /\ DoneCount(q) \in 0 .. Len(q)
           /\ \A i \in 1 .. DoneCount(q) : q[i].done
           /\ DoneCount(q) < Len(q) => ~q[DoneCount(q) + 1].done
<1>1. PICK n \in Nat : n = Len(q)
    OBVIOUS
<1> DEFINE Stops == {k \in 0 .. n : k < n => ~q[k + 1].done}
<1>2. Stops \subseteq Nat /\ n \in Stops
    OBVIOUS
<1> HIDE DEF Stops
<1>3. PICK k \in Stops : \A j \in Stops : ~(<<j, k>> \in OpToRel(<, Nat))
    BY <1>2, NatLessThanWellFounded, WFMin
<1>4. \A j \in Stops : ~(j < k)
    BY <1>2, <1>3 DEF OpToRel
<1>5. k \in 0 .. n /\ (k < n => ~q[k + 1].done)
    BY <1>3 DEF Stops
<1>6. \A i \in 1 .. k : q[i].done
  <2> SUFFICES ASSUME NEW i \in 1 .. k, ~q[i].done PROVE FALSE
      OBVIOUS
  <2>1. PICK j \in 0 .. n : j = i - 1 /\ j + 1 = i /\ j < k
      BY <1>5
  <2>2. j \in Stops
      BY <2>1 DEF Stops
  <2> QED BY <1>4, <2>1, <2>2
<1>7. /\ k \in 0 .. Len(q)
      /\ \A i \in 1 .. k : q[i].done
      /\ k < Len(q) => ~q[k + 1].done
    BY <1>1, <1>5, <1>6
<1> QED BY <1>7 DEF DoneCount

\* Marking the finished requests changes nothing else.
LEMMA MarkedSeq ==
    ASSUME NEW q \in Seq(Rwr), NEW seg, NEW len \in Nat
    PROVE  LET m == Marked(q, seg, len)
           IN  /\ m \in Seq(Rwr) /\ Len(m) = Len(q)
               /\ \A i \in 1 .. Len(q) :
                    /\ m[i].id = q[i].id /\ m[i].stag = q[i].stag
                    /\ q[i].stag = seg.stag => m[i].done /\ m[i].len = len
                    /\ q[i].stag # seg.stag => m[i] = q[i]
<1> DEFINE m == Marked(q, seg, len)
<1>1. PICK n \in Nat : n = Len(q)
    OBVIOUS
<1>2. m = [i \in 1 .. n |-> IF q[i].stag = seg.stag THEN [q[i] EXCEPT !.done = TRUE, !.len = len]
                            ELSE q[i]]
    BY <1>1 DEF Marked, Matches
<1>3. ASSUME NEW x \in Rwr
      PROVE  LET y == [x EXCEPT !.done = TRUE, !.len = len]
             IN  y \in Rwr /\ y.id = x.id /\ y.stag = x.stag /\ y.done /\ y.len = len
    BY DEF Rwr
<1>4. ASSUME NEW i \in 1 .. n
      PROVE  /\ m[i] \in Rwr /\ m[i].id = q[i].id /\ m[i].stag = q[i].stag
             /\ q[i].stag = seg.stag => m[i].done /\ m[i].len = len
             /\ q[i].stag # seg.stag => m[i] = q[i]
  <2>1. PICK x \in Rwr : x = q[i]
      BY <1>1, ElementOfSeq
  <2>2. m[i] = IF x.stag = seg.stag THEN [x EXCEPT !.done = TRUE, !.len = len] ELSE x
      BY <1>2, <2>1
  <2> HIDE DEF m
  <2>3. CASE x.stag = seg.stag
    <3>1. m[i] = [x EXCEPT !.done = TRUE, !.len = len]
        BY <2>2, <2>3, Zenon
    <3>2. m[i] \in Rwr /\ m[i].id = x.id /\ m[i].stag = x.stag /\ m[i].done /\ m[i].len = len
        BY <1>3, <3>1, Zenon
    <3> QED BY <2>1, <2>3, <3>2
  <2>4. CASE x.stag # seg.stag
      BY <2>1, <2>2, <2>4
  <2> QED BY <2>3, <2>4
<1>5. m \in [1 .. n -> Rwr]
  <2>1. DOMAIN m = 1 .. n /\ m = [i \in 1 .. n |-> m[i]]
      BY <1>2
  <2> HIDE DEF m
  <2> QED BY <1>4, <2>1
<1>6. m \in Seq(Rwr) /\ Len(m) = n
  <2> HIDE DEF m
  <2> QED BY <1>5, SeqDef
<1> HIDE DEF m
<1> QED BY <1>1, <1>4, <1>6 DEF m

\* Keys of unfinished messages.
LEMMA Keys ==
    ASSUME NEW s \in Seg
    PROVE  /\ s.tagged => Key(s) \in Seq(Stag)
           /\ ~s.tagged => Key(s) \in Seq(Nat)
<1>1. CASE s.tagged
  <2>1. PICK t \in Stag : t = s.stag
      BY <1>1, SegFields
  <2>2. <<t>> \in Seq(Stag)
      OBVIOUS
  <2> QED BY <1>1, <2>1, <2>2 DEF Key
<1>2. CASE ~s.tagged
  <2>1. PICK a \in Nat, b \in Nat : a = s.qn /\ b = s.msn
      BY <1>2, SegFields DEF SEND_Q, RDMAREQ_Q
  <2>2. <<a, b>> \in Seq(Nat)
      OBVIOUS
  <2> QED BY <1>2, <2>1, <2>2 DEF Key
<1> QED BY <1>1, <1>2

\* DDP's bookkeeping for one segment.
LEMMA OutstandingType ==
    ASSUME NEW K, NEW o \in SUBSET [key : K, len : Nat], NEW s \in Seg, Key(s) \in K
    PROVE  Outstanding(o, s) \in SUBSET [key : K, len : Nat] /\ Accumulated(o, s) \in Nat
<1>1. Accumulated(o, s) \in Nat
  <2> DEFINE same == {u \in o : u.key = Key(s)}
  <2>1. s.len \in Nat
      BY SegFields
  <2>2. CASE same = {}
      BY <2>1, <2>2 DEF Accumulated
  <2>3. CASE same # {}
    <3>1. PICK v : v = CHOOSE u \in same : TRUE
        OBVIOUS
    <3>2. v \in same
        BY <2>3, <3>1
    <3>3. v.len \in Nat
        BY <3>2
    <3> QED BY <2>1, <2>3, <3>1, <3>3 DEF Accumulated
  <2> QED BY <2>2, <2>3
<1>2. PICK n \in Nat : n = Accumulated(o, s)
    BY <1>1
<1>3. PICK k \in K : k = Key(s)
    OBVIOUS
<1>4. [key |-> k, len |-> n] \in [key : K, len : Nat]
    OBVIOUS
<1> QED BY <1>1, <1>2, <1>3, <1>4 DEF Outstanding

\* The bytes of a segment are those of one operation.
LEMMA BytesType ==
    ASSUME NEW s \in Seg
    PROVE  Bytes(s) \in SUBSET (Nat \X Nat)
<1>1. PICK f \in Nat, o \in Nat, l \in Nat : f = s.what.for /\ o = s.off /\ l = s.len
    BY SegFields
<1> QED BY <1>1 DEF Bytes

Cqe == [op : {"OP_SEND", "OP_RECV", "OP_RDMA_WRITE", "OP_RDMA_READ"}, id : Nat, len : Nat]

\* The completion queues after cq_produce, and how many entries were dropped.
LEMMA Produced ==
    ASSUME cq \in [Cq -> Seq(Cqe)], NEW c \in Cq \cup {NoCq}, NEW es \in Seq(Cqe)
    PROVE  /\ ProduceAll(c, es) \in [Cq -> Seq(Cqe)] /\ Dropped(c, es) \in Nat
           /\ c = NoCq => ProduceAll(c, es) = cq /\ Dropped(c, es) = 0
           /\ c # NoCq =>
                /\ c \in Cq /\ CqCap[c] \in Nat
                /\ \A d \in Cq : d # c => ProduceAll(c, es)[d] = cq[d]
                /\ Len(ProduceAll(c, es)[c]) =
                     IF Len(cq[c]) + Len(es) < CqCap[c] THEN Len(cq[c]) + Len(es) ELSE CqCap[c]
                /\ Len(cq[c]) <= CqCap[c] =>
                     Dropped(c, es) = Len(cq[c]) + Len(es) - Len(ProduceAll(c, es)[c])
                /\ Len(cq[c]) + Len(es) <= CqCap[c] => Dropped(c, es) = 0
<1>1. CASE c = NoCq
    BY <1>1 DEF ProduceAll, Dropped
<1>2. CASE c # NoCq
  <2>1. c \in Cq /\ CqCap[c] \in Nat
      BY <1>2, RdmapAssumption
  <2>2. PICK cap \in Nat, q \in Seq(Cqe) : cap = CqCap[c] /\ q = cq[c]
      BY <2>1
  <2>3. PICK r \in Seq(Cqe) : r = Produce(q, es, cap)
                              /\ Len(r) = IF Len(q) + Len(es) < cap THEN Len(q) + Len(es) ELSE cap
    <3>1. /\ Produce(q, es, cap) \in Seq(Cqe)
          /\ Len(Produce(q, es, cap)) = IF Len(q) + Len(es) < cap THEN Len(q) + Len(es) ELSE cap
        BY ProduceSeq
    <3> QED BY <3>1, Zenon
  <2>4. ProduceAll(c, es) = [cq EXCEPT ![c] = r] /\ Dropped(c, es) = Len(q) + Len(es) - Len(r)
      BY <1>2, <2>2, <2>3 DEF ProduceAll, Dropped
  <2>5. ProduceAll(c, es) \in [Cq -> Seq(Cqe)] /\ ProduceAll(c, es)[c] = r
        /\ \A d \in Cq : d # c => ProduceAll(c, es)[d] = cq[d]
      BY <2>1, <2>4
  <2>6. PICK a \in Nat, b \in Nat : a = Len(q) /\ b = Len(es)
      OBVIOUS
  <2>7. /\ Dropped(c, es) = a + b - Len(r) /\ Dropped(c, es) \in Nat
        /\ a + b <= cap => Dropped(c, es) = 0
        /\ Len(r) = IF a + b < cap THEN a + b ELSE cap
    <3>1. Dropped(c, es) = a + b - Len(r) /\ Len(r) = IF a + b < cap THEN a + b ELSE cap
        BY <2>3, <2>4, <2>6
    <3>2. CASE a + b < cap
        BY <3>1, <3>2
    <3>3. CASE ~(a + b < cap)
        BY <3>1, <3>3
    <3> QED BY <3>2, <3>3
  <2>8. /\ Len(ProduceAll(c, es)[c]) = IF Len(cq[c]) + Len(es) < CqCap[c] THEN Len(cq[c]) + Len(es) ELSE CqCap[c]
        /\ Dropped(c, es) = Len(cq[c]) + Len(es) - Len(ProduceAll(c, es)[c])
        /\ Len(cq[c]) + Len(es) <= CqCap[c] => Dropped(c, es) = 0
      BY <2>2, <2>5, <2>6, <2>7
  <2> QED BY <1>2, <2>1, <2>5, <2>7, <2>8
<1> QED BY <1>1, <1>2

--------------------------------------------------------------------------------
(* Types *)

Buf == [id : Nat, len : Nat, got : SUBSET (Nat \X Nat)]
Op == [op : {"SEND", "WRITE", "READ"}, len : Nat]
Placed == SUBSET (Host \X Nat \X Nat)

TypedConn ==
    /\ status \in [Host -> Status]
    /\ wire \in [Host -> Seq(Seg)]
    /\ send_msn \in [Host -> Nat] /\ recv_msn \in [Host -> Nat] /\ sink_msn \in [Host -> Nat]
    /\ outst_tag \in [Host -> SUBSET [key : Seq(Stag), len : Nat]]
    /\ outst_untag \in [Host -> SUBSET [key : Seq(Nat), len : Nat]]

TypedWork ==
    /\ buf_q \in [Host -> Seq(Buf)]
    /\ rwrq \in [Host -> Seq(Rwr)]
    /\ cq \in [Cq -> Seq(Cqe)]
    /\ stags \in [Host -> SUBSET Stag]

TypedHist ==
    /\ ops \in [Host -> Seq(Op)]
    /\ posts \in [Host -> Seq(Nat)]
    /\ rcvd \in [Host -> Seq(Buf)]
    /\ reads \in [Host -> Seq([id : Nat, len : Nat, got : Placed])]
    /\ placed \in [Host -> Placed]
    /\ lost \in [Host -> Nat]
    /\ over \in [Host -> BOOLEAN]

\* Every variable has its type, the history included.
Typed == TypedConn /\ TypedWork /\ TypedHist

\* A segment that arrives.
LEMMA ArrivingSeg ==
    ASSUME TypedConn, NEW h \in Host, Arrives(h)
    PROVE  Next_seg(h) \in Seg /\ Tail(wire[h]) \in Seq(Seg) /\ wire[h] \in Seq(Seg) /\ wire[h] # <<>>
<1>1. PICK w \in Seq(Seg) : w = wire[h] /\ w # <<>>
    BY DEF TypedConn, Arrives
<1>2. Head(w) \in Seg /\ Tail(w) \in Seq(Seg)
    BY <1>1, HeadTailProperties
<1> QED BY <1>1, <1>2 DEF Next_seg

\* A call of the send side is recorded.
LEMMA IssueTyped ==
    ASSUME Typed, NEW h \in Host, NEW op, op.op \in {"SEND", "WRITE", "READ"}, op.len \in Nat,
           op = [op |-> op.op, len |-> op.len], Issue(h, op)
    PROVE  /\ ops' \in [Host -> Seq(Op)] /\ over' \in [Host -> BOOLEAN]
           /\ OpId(h) \in Nat /\ OpId(h) = Len(ops[h]) + 1
           /\ op \in Op
<1>1. op \in Op
    BY DEF Op
<1>2. PICK s \in Seq(Op) : s = ops[h]
    BY DEF Typed, TypedHist
<1>3. Append(s, op) \in Seq(Op) /\ Len(s) + 1 \in Nat
    BY <1>1, AppendProperties
<1>4. ops' = [ops EXCEPT ![h] = Append(s, op)]
    BY <1>2 DEF Issue
<1>5. ops' \in [Host -> Seq(Op)]
    BY <1>3, <1>4 DEF Typed, TypedHist
<1>6. over' \in [Host -> BOOLEAN]
    BY DEF Issue, Typed, TypedHist
<1> QED BY <1>1, <1>2, <1>3, <1>5, <1>6 DEF OpId

\* The completion of a send or a write is an entry.
LEMMA SendCqeType ==
    ASSUME NEW op \in {"OP_SEND", "OP_RECV", "OP_RDMA_WRITE", "OP_RDMA_READ"}, NEW id \in Nat, NEW len \in Nat
    PROVE  <<[op |-> op, id |-> id, len |-> len]>> \in Seq(Cqe)
           /\ Len(<<[op |-> op, id |-> id, len |-> len]>>) = 1
<1>1. PICK e \in Cqe : e = [op |-> op, id |-> id, len |-> len]
    BY DEF Cqe
<1>2. <<e>> \in Seq(Cqe) /\ Len(<<e>>) = 1
    OBVIOUS
<1> QED BY <1>1, <1>2

\* The queues of an end.
LEMMA QueueOf ==
    ASSUME NEW h \in Host
    PROVE  Scq[h] \in Cq \cup {NoCq} /\ Rcq[h] \in Cq \cup {NoCq}
BY RdmapAssumption

--------------------------------------------------------------------------------
(* What each call and each handler does, on typed states: rdmap_send ... *)

\* rdmap_send puts one whole message on the wire.
LEMMA SendStep ==
    ASSUME Typed, NEW h \in Host, NEW len \in SendLens, rdmap_send(h, len)
    PROVE  /\ Typed'
           /\ \E s : /\ UntaggedMsg(s, "SEND", [for |-> OpId(h)], len, send_msn[h])
                     /\ wire' = [wire EXCEPT ![Peer(h)] = @ \o s]
<1>1. len \in Nat
    BY RdmapAssumption
<1>2. Issue(h, [op |-> "SEND", len |-> len])
    BY DEF rdmap_send
<1>3. /\ ops' \in [Host -> Seq(Op)] /\ over' \in [Host -> BOOLEAN] /\ OpId(h) \in Nat
    BY <1>1, <1>2, IssueTyped
<1>4. PICK id \in Nat, msn \in Nat : id = OpId(h) /\ msn = send_msn[h]
    BY <1>3 DEF Typed, TypedConn
<1>5. PICK what \in [for : Nat] : what = [for |-> id]
    OBVIOUS
<1>6. PICK s : s = ddp_send_untagged("SEND", SEND_Q, msn, len, what)
    OBVIOUS
<1>7. UntaggedMsg(s, "SEND", what, len, msn)
    BY <1>1, <1>6, SendMessage
<1>8. wire' = [wire EXCEPT ![Peer(h)] = @ \o s]
    BY <1>4, <1>5, <1>6, Zenon DEF rdmap_send
<1>9. Peer(h) \in Host
    BY Peers
<1>10. wire' \in [Host -> Seq(Seg)]
  <2>1. PICK w \in Seq(Seg) : w = wire[Peer(h)]
      BY <1>9 DEF Typed, TypedConn
  <2>2. w \o s \in Seq(Seg)
      BY <1>7, ConcatProperties DEF UntaggedMsg, Carries, Message
  <2> QED BY <1>8, <2>1, <2>2 DEF Typed, TypedConn
<1>11. PICK es \in Seq(Cqe) : es = <<SendCqe("OP_SEND", id, len)>>
    BY <1>1, SendCqeType DEF SendCqe
<1>12. cq' = ProduceAll(Scq[h], es) /\ lost' = [lost EXCEPT ![h] = @ + Dropped(Scq[h], es)]
    BY <1>4, <1>11 DEF rdmap_send
<1>13. cq' \in [Cq -> Seq(Cqe)] /\ Dropped(Scq[h], es) \in Nat
    BY <1>12, QueueOf, Produced DEF Typed, TypedWork
<1>14. lost' \in [Host -> Nat]
    BY <1>12, <1>13 DEF Typed, TypedHist
<1>15. send_msn' \in [Host -> Nat]
    BY DEF rdmap_send, Typed, TypedConn
<1>16. Typed'
    BY <1>3, <1>10, <1>13, <1>14, <1>15 DEF rdmap_send, Typed, TypedConn, TypedWork, TypedHist
<1> QED BY <1>4, <1>5, <1>7, <1>8, <1>16

\* rdmap_rdma_write puts one whole message on the wire, or nothing.
LEMMA WriteStep ==
    ASSUME Typed, NEW h \in Host, NEW stag \in Stag, NEW len \in WriteLens,
           rdmap_rdma_write(h, stag, WriteTo, len)
    PROVE  /\ Typed'
           /\ \E s : /\ Carries(s, "RDMA_WRITE", [for |-> OpId(h)], len)
                     /\ \A i \in 1 .. Len(s) : s[i].tagged
                     /\ wire' = [wire EXCEPT ![Peer(h)] = @ \o s]
<1>1. len \in Nat /\ WriteTo \in Nat
    BY RdmapAssumption
<1>2. Issue(h, [op |-> "WRITE", len |-> len])
    BY DEF rdmap_rdma_write
<1>3. /\ ops' \in [Host -> Seq(Op)] /\ over' \in [Host -> BOOLEAN] /\ OpId(h) \in Nat
    BY <1>1, <1>2, IssueTyped
<1>4. PICK id \in Nat : id = OpId(h)
    BY <1>3
<1>5. PICK what \in [for : Nat] : what = [for |-> id]
    OBVIOUS
<1>6. PICK s : s = ddp_send_tagged("RDMA_WRITE", stag, WriteTo, len, what)
    OBVIOUS
<1>7. Carries(s, "RDMA_WRITE", what, len) /\ \A i \in 1 .. Len(s) : s[i].tagged
    BY <1>1, <1>6, TaggedMessage
<1>8. wire' = [wire EXCEPT ![Peer(h)] = @ \o s]
    BY <1>4, <1>5, <1>6 DEF rdmap_rdma_write
<1>9. Peer(h) \in Host
    BY Peers
<1>10. wire' \in [Host -> Seq(Seg)]
  <2>1. PICK w \in Seq(Seg) : w = wire[Peer(h)]
      BY <1>9 DEF Typed, TypedConn
  <2>2. w \o s \in Seq(Seg)
      BY <1>7, ConcatProperties DEF Carries, Message
  <2> QED BY <1>8, <2>1, <2>2 DEF Typed, TypedConn
<1>11. PICK es \in Seq(Cqe) : es = <<SendCqe("OP_RDMA_WRITE", id, len)>>
    BY <1>1, SendCqeType DEF SendCqe
<1>12. cq' = ProduceAll(Scq[h], es) /\ lost' = [lost EXCEPT ![h] = @ + Dropped(Scq[h], es)]
    BY <1>4, <1>11 DEF rdmap_rdma_write
<1>13. cq' \in [Cq -> Seq(Cqe)] /\ Dropped(Scq[h], es) \in Nat
    BY <1>12, QueueOf, Produced DEF Typed, TypedWork
<1>14. lost' \in [Host -> Nat]
    BY <1>12, <1>13 DEF Typed, TypedHist
<1>15. Typed'
    BY <1>3, <1>10, <1>13, <1>14 DEF rdmap_rdma_write, conn, Typed, TypedConn, TypedWork, TypedHist
<1> QED BY <1>4, <1>5, <1>7, <1>8, <1>15

\* h asks for len bytes, for the tag sink, with the request s.
Requests(h, sink, len, s, what) ==
    /\ UntaggedMsg(s, "RDMA_READ_REQ", what, 1, send_msn[h])
    /\ what.sink_stag = sink /\ what.rdma_rd_sz = len /\ what.for = OpId(h)
    /\ wire' = [wire EXCEPT ![Peer(h)] = @ \o s]

\* rdmap_rdma_read puts a request on the wire and an entry in rwrq.
LEMMA ReadStep ==
    ASSUME Typed, NEW h \in Host, NEW sink \in Stag, NEW src \in Stag, NEW len \in ReadLens,
           rdmap_rdma_read(h, sink, len, src)
    PROVE  /\ Typed'
           /\ \E s, what : Requests(h, sink, len, s, what)
<1>1. len \in Nat
    BY RdmapAssumption
<1>2. Issue(h, [op |-> "READ", len |-> len])
    BY DEF rdmap_rdma_read
<1>3. /\ ops' \in [Host -> Seq(Op)] /\ over' \in [Host -> BOOLEAN] /\ OpId(h) \in Nat
    BY <1>1, <1>2, IssueTyped
<1>4. PICK id \in Nat, msn \in Nat : id = OpId(h) /\ msn = send_msn[h]
    BY <1>3 DEF Typed, TypedConn
<1>5. PICK what \in [sink_stag : Stag, rdma_rd_sz : Nat, src_stag : Stag, for : Nat] :
         /\ what = [sink_stag |-> sink, rdma_rd_sz |-> len, src_stag |-> src, for |-> id]
         /\ what.sink_stag = sink /\ what.rdma_rd_sz = len /\ what.for = id
  <2>1. LET r == [sink_stag |-> sink, rdma_rd_sz |-> len, src_stag |-> src, for |-> id]
        IN  /\ r \in [sink_stag : Stag, rdma_rd_sz : Nat, src_stag : Stag, for : Nat]
            /\ r.sink_stag = sink /\ r.rdma_rd_sz = len /\ r.for = id
      BY <1>1
  <2> QED BY <2>1, Zenon
<1>6. PICK s : s = ddp_send_untagged("RDMA_READ_REQ", RDMAREQ_Q, msn, 1, what)
    OBVIOUS
<1>7. UntaggedMsg(s, "RDMA_READ_REQ", what, 1, msn)
    BY <1>6, RequestMessage
<1>8. wire' = [wire EXCEPT ![Peer(h)] = @ \o s]
    BY <1>4, <1>5, <1>6 DEF rdmap_rdma_read
<1>9. Peer(h) \in Host
    BY Peers
<1>10. wire' \in [Host -> Seq(Seg)]
  <2>1. PICK w \in Seq(Seg) : w = wire[Peer(h)]
      BY <1>9 DEF Typed, TypedConn
  <2>2. w \o s \in Seq(Seg)
      BY <1>7, ConcatProperties DEF UntaggedMsg, Carries, Message
  <2> QED BY <1>8, <2>1, <2>2 DEF Typed, TypedConn
<1>11. rwrq' \in [Host -> Seq(Rwr)]
  <2>1. PICK e \in Rwr : e = [id |-> id, stag |-> sink, done |-> FALSE, len |-> 0]
      BY DEF Rwr
  <2>2. PICK q \in Seq(Rwr) : q = rwrq[h]
      BY DEF Typed, TypedWork
  <2>3. Append(q, e) \in Seq(Rwr)
      BY AppendProperties
  <2>4. rwrq' = [rwrq EXCEPT ![h] = Append(q, e)]
      BY <1>4, <2>1, <2>2 DEF rdmap_rdma_read
  <2> QED BY <2>3, <2>4 DEF Typed, TypedWork
<1>12. send_msn' \in [Host -> Nat]
    BY DEF rdmap_rdma_read, Typed, TypedConn
<1>13. Typed'
    BY <1>3, <1>10, <1>11, <1>12 DEF rdmap_rdma_read, Typed, TypedConn, TypedWork, TypedHist
<1>14. Requests(h, sink, len, s, what)
    BY <1>4, <1>5, <1>7, <1>8 DEF Requests
<1> QED BY <1>13, <1>14

\* rdmap_post_recv.
LEMMA PostStep ==
    ASSUME Typed, NEW h \in Host, NEW len \in BufLens, rdmap_post_recv(h, len)
    PROVE  Typed'
<1>1. len \in Nat
    BY RdmapAssumption
<1>2. PICK p \in Seq(Nat), q \in Seq(Buf) : p = posts[h] /\ q = buf_q[h]
    BY DEF Typed, TypedHist, TypedWork
<1>3. PICK n \in Nat : n = Len(posts[h]) + 1
    BY <1>2
<1>4. PICK e \in Buf : e = [id |-> n, len |-> len, got |-> {}]
    BY <1>1 DEF Buf
<1>5. Append(q, e) \in Seq(Buf) /\ Append(p, len) \in Seq(Nat)
    BY <1>1, AppendProperties
<1>6. buf_q' = [buf_q EXCEPT ![h] = Append(q, e)] /\ posts' = [posts EXCEPT ![h] = Append(p, len)]
    BY <1>2, <1>3, <1>4 DEF rdmap_post_recv
<1>7. buf_q' \in [Host -> Seq(Buf)] /\ posts' \in [Host -> Seq(Nat)]
    BY <1>5, <1>6 DEF Typed, TypedHist, TypedWork
<1>8. over' \in [Host -> BOOLEAN]
    BY DEF rdmap_post_recv, Typed, TypedHist
<1> QED BY <1>7, <1>8 DEF rdmap_post_recv, conn, Typed, TypedConn, TypedWork, TypedHist

\* cq_consume.
LEMMA ConsumeStep ==
    ASSUME Typed, NEW h \in Host, NEW c \in Cq, cq_consume(h, c)
    PROVE  /\ Typed' /\ cq' = [cq EXCEPT ![c] = Tail(@)] /\ Len(cq'[c]) = Len(cq[c]) - 1
           /\ \A d \in Cq : d # c => cq'[d] = cq[d]
<1>1. PICK q \in Seq(Cqe) : q = cq[c] /\ q # <<>>
    BY DEF Typed, TypedWork, cq_consume
<1>2. Tail(q) \in Seq(Cqe) /\ Len(Tail(q)) = Len(q) - 1
    BY <1>1, HeadTailProperties
<1>3. cq' = [cq EXCEPT ![c] = Tail(@)]
    BY DEF cq_consume
<1>4. cq' \in [Cq -> Seq(Cqe)] /\ cq'[c] = Tail(q) /\ \A d \in Cq : d # c => cq'[d] = cq[d]
    BY <1>1, <1>2, <1>3 DEF Typed, TypedWork
<1>5. Typed'
    BY <1>4 DEF cq_consume, conn, hist, Typed, TypedConn, TypedWork, TypedHist
<1> QED BY <1>1, <1>2, <1>3, <1>4, <1>5

\* mem_stag_destroy.
LEMMA DestroyStep ==
    ASSUME Typed, NEW h \in Host, NEW stag \in Stag, mem_stag_destroy(h, stag)
    PROVE  Typed'
<1>1. stags' \in [Host -> SUBSET Stag]
    BY DEF mem_stag_destroy, Typed, TypedWork
<1> QED BY <1>1 DEF mem_stag_destroy, conn, hist, Typed, TypedConn, TypedWork, TypedHist

\* The end of the stream.
LEMMA EofStep ==
    ASSUME Typed, NEW h \in Host, recv_eof(h)
    PROVE  Typed'
<1>1. status' \in [Host -> Status]
    BY DEF recv_eof, Typed, TypedConn, Status
<1> QED BY <1>1 DEF recv_eof, conn, hist, Typed, TypedConn, TypedWork, TypedHist

\* The process ends on a segment it cannot take.
LEMMA StopStep ==
    ASSUME Typed, NEW h \in Host, Arrives(h), NEW why \in Status, Stop(h, why)
    PROVE  Typed'
<1>1. status' \in [Host -> Status]
    BY DEF Stop, Typed, TypedConn
<1>2. wire' \in [Host -> Seq(Seg)]
  <2>1. PICK t \in Seq(Seg) : t = Tail(wire[h])
      BY ArrivingSeg DEF Typed
  <2>2. wire' = [wire EXCEPT ![h] = t]
      BY <2>1 DEF Stop
  <2> QED BY <2>2 DEF Typed, TypedConn
<1> QED BY <1>1, <1>2 DEF Stop, conn, hist, Typed, TypedConn, TypedWork, TypedHist

\* The oldest posted receive, with the bytes of a segment.
LEMMA FilledBuf ==
    ASSUME NEW b \in Buf, NEW s \in Seg
    PROVE  LET f == [b EXCEPT !.got = @ \cup Bytes(s)]
           IN  f \in Buf /\ f.id = b.id /\ f.len = b.len /\ f.got = b.got \cup Bytes(s)
BY BytesType DEF Buf

\* recv_send with its local names: f is the receive b that it fills, the first
\* of the queue q, and len the bytes of the message so far.
RecvSend(h, seg, b, f, len, q) ==
    /\ seg = Next_seg(h) /\ seg.op = "SEND" /\ ~seg.tagged
    /\ q = buf_q[h] /\ q # <<>> /\ b = Head(q) /\ seg.off + seg.len <= b.len
    /\ f.id = b.id /\ f.len = b.len /\ f.got = b.got \cup Bytes(seg)
    /\ len = Accumulated(outst_untag[h], seg)
    /\ IF seg.last
       THEN /\ buf_q' = [buf_q EXCEPT ![h] = Tail(q)]
            /\ rcvd' = [rcvd EXCEPT ![h] = Append(@, [id |-> b.id, len |-> len, got |-> f.got])]
            /\ \E es \in Seq(Cqe) :
                 /\ Len(es) = 1 /\ cq' = ProduceAll(Rcq[h], es)
                 /\ lost' = [lost EXCEPT ![h] = @ + Dropped(Rcq[h], es)]
       ELSE /\ buf_q' = [buf_q EXCEPT ![h] = <<f>> \o Tail(q)]
            /\ UNCHANGED <<rcvd, cq, lost>>

\* A segment of a send.
LEMMA RecvSendStep ==
    ASSUME Typed, NEW h \in Host, recv_send(h)
    PROVE  /\ Typed'
           /\ \E seg \in Seg, b \in Buf, f \in Buf, len \in Nat, q \in Seq(Buf) :
                RecvSend(h, seg, b, f, len, q)
<1>1. Arrives(h) /\ HasUntagSink(h)
    BY DEF recv_send
<1>2. PICK seg \in Seg : seg = Next_seg(h)
    BY <1>1, ArrivingSeg DEF Typed
<1>3. seg.op = "SEND" /\ ~seg.tagged /\ seg.last \in BOOLEAN
  <2>1. seg.op = "SEND"
      BY <1>2 DEF recv_send
  <2> QED BY <2>1, SegFields
<1>4. PICK q \in Seq(Buf) : q = buf_q[h] /\ q # <<>>
    BY <1>1 DEF Typed, TypedWork, HasUntagSink
<1>5. PICK b \in Buf : b = Head(q)
    BY <1>4, HeadTailProperties
<1>6. PICK f \in Buf : f = [b EXCEPT !.got = @ \cup Bytes(seg)] /\ f.id = b.id /\ f.len = b.len
                       /\ f.got = b.got \cup Bytes(seg)
    BY FilledBuf
<1>7. PICK o \in SUBSET [key : Seq(Nat), len : Nat] : o = outst_untag[h]
    BY DEF Typed, TypedConn
<1>8. Key(seg) \in Seq(Nat)
    BY <1>3, Keys
<1>9. PICK len \in Nat : len = Accumulated(o, seg)
    BY <1>8, OutstandingType
<1>10. Outstanding(o, seg) \in SUBSET [key : Seq(Nat), len : Nat]
    BY <1>8, OutstandingType
<1>11. outst_untag' = [outst_untag EXCEPT ![h] = Outstanding(o, seg)]
    BY <1>2, <1>7 DEF recv_send
<1>12. outst_untag' \in [Host -> SUBSET [key : Seq(Nat), len : Nat]]
    BY <1>10, <1>11 DEF Typed, TypedConn
<1>13. wire' \in [Host -> Seq(Seg)]
  <2>1. PICK t \in Seq(Seg) : t = Tail(wire[h])
      BY <1>1, ArrivingSeg DEF Typed
  <2>2. wire' = [wire EXCEPT ![h] = t]
      BY <2>1 DEF recv_send
  <2> QED BY <2>2 DEF Typed, TypedConn
<1>14. PICK es \in Seq(Cqe) : es = <<[op |-> "OP_RECV", id |-> b.id, len |-> len]>> /\ Len(es) = 1
  <2>1. PICK i \in Nat : i = b.id
      BY DEF Buf
  <2>2. /\ <<[op |-> "OP_RECV", id |-> i, len |-> len]>> \in Seq(Cqe)
        /\ Len(<<[op |-> "OP_RECV", id |-> i, len |-> len]>>) = 1
      BY SendCqeType
  <2> QED BY <2>1, <2>2, Zenon
<1>15. IF seg.last
       THEN /\ buf_q' = [buf_q EXCEPT ![h] = Tail(q)]
            /\ rcvd' = [rcvd EXCEPT ![h] = Append(@, [id |-> b.id, len |-> len, got |-> f.got])]
            /\ cq' = ProduceAll(Rcq[h], es) /\ lost' = [lost EXCEPT ![h] = @ + Dropped(Rcq[h], es)]
            /\ sink_msn' = [sink_msn EXCEPT ![h] = @ + 1] /\ recv_msn' = [recv_msn EXCEPT ![h] = @ + 1]
       ELSE /\ buf_q' = [buf_q EXCEPT ![h] = <<f>> \o Tail(q)]
            /\ UNCHANGED <<recv_msn, sink_msn, cq, rcvd, lost>>
  <2>1. Next_seg(h) = seg /\ buf_q[h] = q /\ Head(q) = b /\ outst_untag[h] = o
        /\ [b EXCEPT !.got = @ \cup Bytes(seg)] = f /\ Accumulated(o, seg) = len
      BY <1>2, <1>4, <1>5, <1>6, <1>7, <1>9
  <2>2. <<[op |-> "OP_RECV", id |-> f.id, len |-> len]>> = es
      BY <1>6, <1>14
  <2>3. CASE seg.last
    <3>1. /\ buf_q' = [buf_q EXCEPT ![h] = Tail(@)]
          /\ cq' = ProduceAll(Rcq[h], es) /\ lost' = [lost EXCEPT ![h] = @ + Dropped(Rcq[h], es)]
          /\ rcvd' = [rcvd EXCEPT ![h] = Append(@, [id |-> f.id, len |-> len, got |-> f.got])]
          /\ sink_msn' = [sink_msn EXCEPT ![h] = @ + 1] /\ recv_msn' = [recv_msn EXCEPT ![h] = @ + 1]
        BY <2>1, <2>2, <2>3, Zenon DEF recv_send
    <3> QED BY <1>4, <1>6, <2>3, <3>1
  <2>4. CASE ~seg.last
    <3>1. /\ buf_q' = [buf_q EXCEPT ![h] = <<f>> \o Tail(@)]
          /\ UNCHANGED <<recv_msn, sink_msn, cq, rcvd, lost>>
        BY <2>1, <2>4, Zenon DEF recv_send
    <3> QED BY <1>4, <2>4, <3>1
  <2> QED BY <2>3, <2>4
<1>16. Tail(q) \in Seq(Buf) /\ <<f>> \o Tail(q) \in Seq(Buf)
  <2>1. Tail(q) \in Seq(Buf)
      BY <1>4, HeadTailProperties
  <2>2. <<f>> \in Seq(Buf)
      OBVIOUS
  <2> QED BY <2>1, <2>2, ConcatProperties
<1>17. buf_q' \in [Host -> Seq(Buf)]
    BY <1>3, <1>15, <1>16 DEF Typed, TypedWork
<1>18. rcvd' \in [Host -> Seq(Buf)]
  <2>1. PICK e \in Buf : e = [id |-> b.id, len |-> len, got |-> f.got]
      BY DEF Buf
  <2>2. PICK r \in Seq(Buf) : r = rcvd[h]
      BY DEF Typed, TypedHist
  <2>3. Append(r, e) \in Seq(Buf)
      BY AppendProperties
  <2>4. CASE seg.last
    <3>1. rcvd' = [rcvd EXCEPT ![h] = Append(r, e)]
        BY <1>15, <2>1, <2>2, <2>4
    <3> QED BY <2>3, <3>1 DEF Typed, TypedHist
  <2>5. CASE ~seg.last
      BY <1>15, <2>5 DEF Typed, TypedHist
  <2> QED BY <2>4, <2>5
<1>19. cq' \in [Cq -> Seq(Cqe)] /\ lost' \in [Host -> Nat]
  <2>1. ProduceAll(Rcq[h], es) \in [Cq -> Seq(Cqe)] /\ Dropped(Rcq[h], es) \in Nat
      BY QueueOf, Produced DEF Typed, TypedWork
  <2>2. CASE seg.last
    <3>1. PICK d \in Nat : d = Dropped(Rcq[h], es)
        BY <2>1
    <3>2. cq' = ProduceAll(Rcq[h], es) /\ lost' = [lost EXCEPT ![h] = @ + d]
        BY <1>15, <2>2, <3>1
    <3>3. lost' \in [Host -> Nat]
        BY <3>2 DEF Typed, TypedHist
    <3> QED BY <2>1, <3>2, <3>3
  <2>3. CASE ~seg.last
      BY <1>15, <2>3 DEF Typed, TypedHist, TypedWork
  <2> QED BY <2>2, <2>3
<1>20. sink_msn' \in [Host -> Nat] /\ recv_msn' \in [Host -> Nat]
  <2>1. CASE seg.last
    <3>1. sink_msn' = [sink_msn EXCEPT ![h] = @ + 1] /\ recv_msn' = [recv_msn EXCEPT ![h] = @ + 1]
        BY <1>15, <2>1
    <3> QED BY <3>1 DEF Typed, TypedConn
  <2>2. CASE ~seg.last
      BY <1>15, <2>2 DEF Typed, TypedConn
  <2> QED BY <2>1, <2>2
<1>21. Typed'
  <2>1. TypedConn'
      BY <1>12, <1>13, <1>20 DEF recv_send, Typed, TypedConn
  <2>2. TypedWork'
      BY <1>17, <1>19 DEF recv_send, Typed, TypedWork
  <2>3. TypedHist'
      BY <1>18, <1>19 DEF recv_send, Typed, TypedHist
  <2> QED BY <2>1, <2>2, <2>3 DEF Typed
<1>22. seg.off + seg.len <= b.len
    BY <1>1, <1>2, <1>4, <1>5 DEF HasUntagSink
<1>23. IF seg.last
       THEN /\ buf_q' = [buf_q EXCEPT ![h] = Tail(q)]
            /\ rcvd' = [rcvd EXCEPT ![h] = Append(@, [id |-> b.id, len |-> len, got |-> f.got])]
            /\ \E e \in Seq(Cqe) :
                 /\ Len(e) = 1 /\ cq' = ProduceAll(Rcq[h], e)
                 /\ lost' = [lost EXCEPT ![h] = @ + Dropped(Rcq[h], e)]
       ELSE /\ buf_q' = [buf_q EXCEPT ![h] = <<f>> \o Tail(q)]
            /\ UNCHANGED <<rcvd, cq, lost>>
    BY <1>14, <1>15, Zenon
<1>24. len = Accumulated(outst_untag[h], seg)
    BY <1>7, <1>9
<1>25. RecvSend(h, seg, b, f, len, q)
    BY <1>2, <1>3, <1>4, <1>5, <1>6, <1>22, <1>23, <1>24, Zenon DEF RecvSend
<1> QED BY <1>21, <1>25, Zenon

\* A read request is answered with one message, or with nothing.
LEMMA RequestStep ==
    ASSUME Typed, NEW h \in Host, recv_rdma_read_req(h)
    PROVE  /\ Typed'
           /\ \E seg \in Seg : \E s, what :
                /\ seg = Next_seg(h) /\ seg.op = "RDMA_READ_REQ" /\ ~seg.tagged /\ seg.last
                /\ Carries(s, "RDMA_READ_RESP", what, seg.what.rdma_rd_sz)
                /\ what.for = seg.what.for
                /\ \A i \in 1 .. Len(s) : s[i].tagged /\ s[i].stag = seg.what.sink_stag
                /\ wire' = [wire EXCEPT ![h] = Tail(@), ![Peer(h)] = @ \o s]
<1>1. Arrives(h)
    BY DEF recv_rdma_read_req
<1>2. PICK seg \in Seg : seg = Next_seg(h)
    BY <1>1, ArrivingSeg DEF Typed
<1>3. seg.op = "RDMA_READ_REQ"
    BY <1>2 DEF recv_rdma_read_req
<1>4. /\ ~seg.tagged /\ seg.last /\ seg.what.sink_stag \in Stag /\ seg.what.rdma_rd_sz \in Nat
      /\ seg.what.for \in Nat
    BY <1>3, SegFields
<1>5. PICK stag \in Stag, m \in Nat, id \in Nat :
         stag = seg.what.sink_stag /\ m = seg.what.rdma_rd_sz /\ id = seg.what.for
    BY <1>4
<1>6. PICK what \in [for : Nat] : what = [for |-> id] /\ what.for = id
  <2>1. [for |-> id] \in [for : Nat] /\ [for |-> id].for = id
      OBVIOUS
  <2> QED BY <2>1, Zenon
<1>7. PICK s : s = ddp_send_tagged("RDMA_READ_RESP", stag, 0, m, what)
    OBVIOUS
<1>8. Carries(s, "RDMA_READ_RESP", what, m) /\ \A i \in 1 .. Len(s) : s[i].tagged /\ s[i].stag = stag
    BY <1>7, TaggedMessage
<1>9. wire' = [wire EXCEPT ![h] = Tail(@), ![Peer(h)] = @ \o s]
    BY <1>2, <1>5, <1>6, <1>7 DEF recv_rdma_read_req
<1>10. wire' \in [Host -> Seq(Seg)]
  <2>1. Peer(h) \in Host /\ Peer(h) # h
      BY Peers
  <2>2. PICK t \in Seq(Seg), w \in Seq(Seg) : t = Tail(wire[h]) /\ w = wire[Peer(h)]
      BY <1>1, <2>1, ArrivingSeg DEF Typed, TypedConn
  <2>3. w \o s \in Seq(Seg)
      BY <1>8, ConcatProperties DEF Carries, Message
  <2>4. wire' = [wire EXCEPT ![h] = t, ![Peer(h)] = w \o s]
      BY <1>9, <2>1, <2>2
  <2> QED BY <2>1, <2>3, <2>4 DEF Typed, TypedConn
<1>11. outst_untag' \in [Host -> SUBSET [key : Seq(Nat), len : Nat]]
  <2>1. PICK o \in SUBSET [key : Seq(Nat), len : Nat] : o = outst_untag[h]
      BY DEF Typed, TypedConn
  <2>2. Key(seg) \in Seq(Nat)
      BY <1>4, Keys
  <2>3. Outstanding(o, seg) \in SUBSET [key : Seq(Nat), len : Nat]
      BY <2>2, OutstandingType
  <2>4. outst_untag' = [outst_untag EXCEPT ![h] = Outstanding(o, seg)]
      BY <1>2, <2>1 DEF recv_rdma_read_req
  <2> QED BY <2>3, <2>4 DEF Typed, TypedConn
<1>12. sink_msn' \in [Host -> Nat] /\ recv_msn' \in [Host -> Nat]
    BY DEF recv_rdma_read_req, Typed, TypedConn
<1>13. Typed'
    BY <1>10, <1>11, <1>12 DEF recv_rdma_read_req, hist, Typed, TypedConn, TypedWork, TypedHist
<1> QED BY <1>2, <1>3, <1>4, <1>5, <1>6, <1>8, <1>9, <1>13

\* The placement of a tagged segment.
LEMMA PlaceStep ==
    ASSUME Typed, NEW h \in Host, Place(h, Next_seg(h))
    PROVE  /\ Next_seg(h) \in Seg /\ Next_seg(h).tagged
           /\ wire' \in [Host -> Seq(Seg)] /\ placed' \in [Host -> Placed]
           /\ outst_tag' \in [Host -> SUBSET [key : Seq(Stag), len : Nat]]
           /\ Accumulated(outst_tag[h], Next_seg(h)) \in Nat
<1>1. Arrives(h)
    BY DEF Place
<1>2. PICK seg \in Seg : seg = Next_seg(h)
    BY <1>1, ArrivingSeg DEF Typed
<1>3. seg.tagged
    BY <1>2 DEF Place
<1>4. wire' \in [Host -> Seq(Seg)]
  <2>1. PICK t \in Seq(Seg) : t = Tail(wire[h])
      BY <1>1, ArrivingSeg DEF Typed
  <2>2. wire' = [wire EXCEPT ![h] = t]
      BY <2>1 DEF Place
  <2> QED BY <2>2 DEF Typed, TypedConn
<1>5. placed' \in [Host -> Placed]
  <2>1. PICK who \in Host : who = IF seg.op = "RDMA_WRITE" THEN Peer(h) ELSE h
      BY Peers
  <2>2. PICK bs \in SUBSET (Nat \X Nat) : bs = Bytes(seg)
      BY BytesType
  <2>3. PICK new : new = {<<who, b[1], b[2]>> : b \in bs}
      OBVIOUS
  <2>4. new \in Placed
      BY <2>3 DEF Placed
  <2>5. PlacedBy(h, seg) = new
      BY <2>1, <2>2, <2>3 DEF PlacedBy
  <2>6. placed' = [placed EXCEPT ![h] = @ \cup new]
      BY <1>2, <2>5 DEF Place
  <2>7. placed[h] \cup new \in Placed
      BY <2>4 DEF Typed, TypedHist, Placed
  <2> QED BY <2>6, <2>7 DEF Typed, TypedHist
<1>6. PICK o \in SUBSET [key : Seq(Stag), len : Nat] : o = outst_tag[h]
    BY DEF Typed, TypedConn
<1>7. Key(seg) \in Seq(Stag)
    BY <1>3, Keys
<1>8. Outstanding(o, seg) \in SUBSET [key : Seq(Stag), len : Nat] /\ Accumulated(o, seg) \in Nat
    BY <1>7, OutstandingType
<1>9. outst_tag' = [outst_tag EXCEPT ![h] = Outstanding(o, seg)]
    BY <1>2, <1>6 DEF Place
<1>10. outst_tag' \in [Host -> SUBSET [key : Seq(Stag), len : Nat]]
    BY <1>8, <1>9 DEF Typed, TypedConn
<1> QED BY <1>2, <1>3, <1>4, <1>5, <1>6, <1>8, <1>10

\* A tagged segment that finishes no read.
LEMMA TaggedStep ==
    ASSUME Typed, NEW h \in Host, recv_tagged(h)
    PROVE  Typed'
<1>1. Place(h, Next_seg(h))
    BY DEF recv_tagged
<1>2. /\ wire' \in [Host -> Seq(Seg)] /\ placed' \in [Host -> Placed]
      /\ outst_tag' \in [Host -> SUBSET [key : Seq(Stag), len : Nat]]
    BY <1>1, PlaceStep
<1> QED BY <1>1, <1>2 DEF recv_tagged, Place, Typed, TypedConn, TypedWork, TypedHist

\* The record of the requests m at the front, k of which are reaped.
Reaped(h, m, k) ==
    [i \in 1 .. k |-> [id |-> m[i].id, len |-> m[i].len,
                       got |-> {b \in placed'[h] : b[1] = h /\ b[2] = m[i].id}]]

\* recv_read_resp with its local names: m is rwrq with the finished requests
\* marked, k of which are reaped with the completions es.
RecvResp(h, seg, m, len, k, why, es) ==
    /\ seg = Next_seg(h) /\ seg.op = "RDMA_READ_RESP" /\ seg.last /\ seg.tagged
    /\ len = Accumulated(outst_tag[h], seg)
    /\ m = Marked(rwrq[h], seg, len)
    /\ k \in 0 .. Len(m)
    /\ \A i \in 1 .. k : m[i].done
    /\ why \in {"up", "null", "norwr"} /\ status' = [status EXCEPT ![h] = why]
    /\ why = "up" /\ k < Len(m) => ~m[k + 1].done
    /\ why = "norwr" => \A i \in 1 .. Len(m) : m[i].stag # seg.stag
    /\ rwrq' = [rwrq EXCEPT ![h] = SubSeq(m, k + 1, Len(m))]
    /\ Len(es) = k
    /\ LET c == IF Rcq[h] = NoCq THEN NoCq ELSE Scq[h]
       IN  cq' = ProduceAll(c, es) /\ lost' = [lost EXCEPT ![h] = @ + Dropped(c, es)]
    /\ reads' = [reads EXCEPT ![h] = @ \o Reaped(h, m, k)]

\* A read response that is complete.
LEMMA RespStep ==
    ASSUME Typed, NEW h \in Host, recv_read_resp(h)
    PROVE  /\ Typed'
           /\ \E seg \in Seg, m \in Seq(Rwr), len \in Nat, k \in Nat, why \in Status, es \in Seq(Cqe) :
                RecvResp(h, seg, m, len, k, why, es)
<1>1. Place(h, Next_seg(h)) /\ Finishes_read(Next_seg(h))
    BY DEF recv_read_resp
<1>2. PICK seg \in Seg : seg = Next_seg(h) /\ seg.tagged /\ seg.op = "RDMA_READ_RESP" /\ seg.last
    BY <1>1, PlaceStep DEF Finishes_read
<1>3. /\ wire' \in [Host -> Seq(Seg)] /\ placed' \in [Host -> Placed]
      /\ outst_tag' \in [Host -> SUBSET [key : Seq(Stag), len : Nat]]
    BY <1>1, PlaceStep
<1>4. PICK len \in Nat : len = Accumulated(outst_tag[h], seg)
    BY <1>1, <1>2, PlaceStep
<1>5. PICK q \in Seq(Rwr) : q = rwrq[h]
    BY DEF Typed, TypedWork
<1>6. PICK m \in Seq(Rwr) : m = Marked(q, seg, len)
    BY MarkedSeq
<1>7. PICK dc \in 0 .. Len(m) : dc = DoneCount(m) /\ (\A i \in 1 .. dc : m[i].done)
                                /\ (dc < Len(m) => ~m[dc + 1].done)
    BY DonePrefix
<1>8. PICK n \in Nat : n = Len(m)
    OBVIOUS
<1> DEFINE why == CASE \A i \in 1 .. n : ~Matches(m[i], seg) -> "norwr"
                    [] dc > 0 /\ Rcq[h] # NoCq /\ Scq[h] = NoCq -> "null"
                    [] OTHER -> "up"
           k == IF why = "up" THEN dc ELSE 0
           c == IF Rcq[h] = NoCq THEN NoCq ELSE Scq[h]
           es == [i \in 1 .. k |-> [op |-> "OP_RDMA_READ", id |-> m[i].id, len |-> m[i].len]]
<1>9. /\ status' = [status EXCEPT ![h] = why]
      /\ rwrq' = [rwrq EXCEPT ![h] = SubSeq(m, k + 1, n)]
      /\ cq' = ProduceAll(c, es) /\ lost' = [lost EXCEPT ![h] = @ + Dropped(c, es)]
      /\ reads' = [reads EXCEPT ![h] = @ \o Reaped(h, m, k)]
  <2>1. Next_seg(h) = seg /\ Accumulated(outst_tag[h], seg) = len /\ rwrq[h] = q
        /\ Marked(q, seg, len) = m /\ DoneCount(m) = dc /\ Len(m) = n
      BY <1>2, <1>4, <1>5, <1>6, <1>7, <1>8
  <2> QED BY <2>1, Zenon DEF recv_read_resp, Reaped
<1>10. why \in {"up", "null", "norwr"} /\ (why = "norwr" => \A i \in 1 .. n : m[i].stag # seg.stag)
  <2>1. CASE \A i \in 1 .. n : ~Matches(m[i], seg)
    <3>1. \A i \in 1 .. n : m[i].stag # seg.stag
        BY <2>1 DEF Matches
    <3>2. why = "norwr" \/ why = "null" \/ why = "up"
        OBVIOUS
    <3> QED BY <3>1, <3>2
  <2>2. CASE ~(\A i \in 1 .. n : ~Matches(m[i], seg))
      BY <2>2
  <2> QED BY <2>1, <2>2
<1> HIDE DEF why
<1>11. k \in 0 .. n /\ k \in Nat /\ (\A i \in 1 .. k : m[i].done) /\ (why = "up" /\ k < n => ~m[k + 1].done)
  <2>1. CASE why = "up"
      BY <1>7, <1>8, <2>1
  <2>2. CASE why # "up"
      BY <1>8, <2>2
  <2> QED BY <2>1, <2>2
<1> HIDE DEF k
<1>12. \A i \in 1 .. n : m[i] \in Rwr
    BY <1>8, ElementOfSeq
<1>13. es \in Seq(Cqe) /\ Len(es) = k
  <2>1. ASSUME NEW i \in 1 .. k PROVE [op |-> "OP_RDMA_READ", id |-> m[i].id, len |-> m[i].len] \in Cqe
    <3>1. m[i] \in Rwr
        BY <1>11, <1>12
    <3> QED BY <3>1 DEF Rwr, Cqe
  <2>2. es \in [1 .. k -> Cqe]
      BY <2>1
  <2> HIDE DEF es
  <2> QED BY <1>11, <2>2, SeqDef
<1> HIDE DEF es
<1>14. cq' \in [Cq -> Seq(Cqe)] /\ lost' \in [Host -> Nat]
  <2>1. c \in Cq \cup {NoCq}
      BY QueueOf
  <2> HIDE DEF c
  <2>2. ProduceAll(c, es) \in [Cq -> Seq(Cqe)] /\ Dropped(c, es) \in Nat
      BY <1>13, <2>1, Produced DEF Typed, TypedWork
  <2>3. PICK d \in Nat : d = Dropped(c, es)
      BY <2>2
  <2>4. lost' = [lost EXCEPT ![h] = @ + d]
      BY <1>9, <2>3
  <2>5. lost' \in [Host -> Nat]
      BY <2>4 DEF Typed, TypedHist
  <2> QED BY <1>9, <2>2, <2>5
<1>15. rwrq' \in [Host -> Seq(Rwr)]
  <2>1. \A i \in k + 1 .. n : m[i] \in Rwr
      BY <1>11, <1>12
  <2>2. SubSeq(m, k + 1, n) \in Seq(Rwr)
      BY <1>11, <2>1, SubSeqProperties
  <2> QED BY <1>9, <2>2 DEF Typed, TypedWork
<1>16. reads' \in [Host -> Seq([id : Nat, len : Nat, got : Placed])]
  <2> DEFINE R == [id : Nat, len : Nat, got : Placed]
  <2>1. ASSUME NEW i \in 1 .. k
        PROVE  [id |-> m[i].id, len |-> m[i].len, got |-> {b \in placed'[h] : b[1] = h /\ b[2] = m[i].id}] \in R
    <3>1. m[i] \in Rwr
        BY <1>11, <1>12
    <3>2. placed'[h] \in Placed
        BY <1>3
    <3>3. PICK g \in Placed : g = {b \in placed'[h] : b[1] = h /\ b[2] = m[i].id}
        BY <3>2 DEF Placed
    <3>4. [id |-> m[i].id, len |-> m[i].len, got |-> g] \in R
        BY <3>1 DEF Rwr
    <3> QED BY <3>3, <3>4
  <2>2. Reaped(h, m, k) \in [1 .. k -> R]
      BY <2>1 DEF Reaped
  <2>3. Reaped(h, m, k) \in Seq(R)
    <3> HIDE DEF R
    <3>1. PICK s \in [1 .. k -> R] : s = Reaped(h, m, k)
        BY <2>2
    <3>2. s \in Seq(R)
        BY <1>11, SeqDef
    <3> QED BY <3>1, <3>2
  <2>4. PICK a \in Seq(R) : a = reads[h]
      BY DEF Typed, TypedHist
  <2>5. a \o Reaped(h, m, k) \in Seq(R)
      BY <2>3, ConcatProperties
  <2>6. reads' = [reads EXCEPT ![h] = a \o Reaped(h, m, k)]
      BY <1>9, <2>4
  <2> QED BY <2>5, <2>6 DEF Typed, TypedHist
<1>17. status' \in [Host -> Status]
    BY <1>9, <1>10 DEF Typed, TypedConn, Status
<1>18. Typed'
  <2>1. TypedConn'
      BY <1>1, <1>3, <1>17 DEF Place, Typed, TypedConn
  <2>2. TypedWork'
      BY <1>1, <1>14, <1>15 DEF Place, Typed, TypedWork
  <2>3. TypedHist'
      BY <1>1, <1>3, <1>14, <1>16 DEF Place, Typed, TypedHist
  <2> QED BY <2>1, <2>2, <2>3 DEF Typed
<1>19. RecvResp(h, seg, m, len, k, why, es)
  <2>1. Len(m) = n /\ m = Marked(rwrq[h], seg, len)
      BY <1>5, <1>6, <1>8
  <2> QED BY <1>2, <1>4, <1>9, <1>10, <1>11, <1>13, <2>1, Zenon DEF RecvResp
<1>20. why \in Status
    BY <1>10 DEF Status
<1> QED BY <1>11, <1>13, <1>18, <1>19, <1>20, Zenon

--------------------------------------------------------------------------------
(* The type invariant *)

\* The program starts with everything empty.
LEMMA TypedInit ==
    ASSUME Init
    PROVE  Typed
<1>1. TypedConn
  <2>1. PICK e : e = <<>> /\ e \in Seq(Seg)
      BY EmptySeq
  <2>2. wire \in [Host -> Seq(Seg)]
      BY <2>1 DEF Init
  <2> QED BY <2>2 DEF Init, TypedConn, Status
<1>2. TypedWork
  <2>1. PICK e : e = <<>> /\ e \in Seq(Buf) /\ e \in Seq(Rwr) /\ e \in Seq(Cqe)
      BY EmptySeq
  <2>2. /\ buf_q \in [Host -> Seq(Buf)] /\ rwrq \in [Host -> Seq(Rwr)]
        /\ cq \in [Cq -> Seq(Cqe)]
      BY <2>1 DEF Init
  <2> QED BY <2>2 DEF Init, TypedWork
<1>3. TypedHist
  <2>1. PICK R : R = [id : Nat, len : Nat, got : Placed]
      OBVIOUS
  <2>2. PICK e : e = <<>> /\ e \in Seq(Op) /\ e \in Seq(Nat) /\ e \in Seq(Buf) /\ e \in Seq(R)
      BY EmptySeq
  <2>3. /\ ops \in [Host -> Seq(Op)] /\ posts \in [Host -> Seq(Nat)]
        /\ rcvd \in [Host -> Seq(Buf)] /\ reads \in [Host -> Seq(R)]
      BY <2>2 DEF Init
  <2>4. placed \in [Host -> Placed]
      BY DEF Init, Placed
  <2>5. over \in [Host -> BOOLEAN] /\ lost \in [Host -> Nat]
      BY DEF Init
  <2> QED BY <2>1, <2>3, <2>4, <2>5 DEF TypedHist
<1> QED BY <1>1, <1>2, <1>3 DEF Typed

\* The handlers that end the process.
LEMMA Stops ==
    ASSUME NEW h \in Host,
           recv_send_no_sink(h) \/ recv_rdma_read_req_no_src(h) \/ recv_tagged_no_sink(h)
    PROVE  Arrives(h) /\ \E why \in Status : why # "up" /\ why # "norwr" /\ Stop(h, why)
<1>1. CASE recv_send_no_sink(h)
    BY <1>1 DEF recv_send_no_sink, Status
<1>2. CASE recv_rdma_read_req_no_src(h)
    BY <1>2 DEF recv_rdma_read_req_no_src, Status
<1>3. CASE recv_tagged_no_sink(h)
    BY <1>3 DEF recv_tagged_no_sink, Status
<1> QED BY <1>1, <1>2, <1>3

\* One step keeps the types.
LEMMA TypedNext ==
    ASSUME Typed, [Next]_vars
    PROVE  Typed'
<1>1. CASE UNCHANGED vars
    BY <1>1 DEF vars, conn, hist, Typed, TypedConn, TypedWork, TypedHist
<1>2. CASE Next
  <2>1. PICK h \in Host :
          \/ \E len \in SendLens : rdmap_send(h, len)
          \/ \E stag \in Stag, len \in WriteLens : rdmap_rdma_write(h, stag, WriteTo, len)
          \/ \E sink \in Stag, src \in Stag, len \in ReadLens : rdmap_rdma_read(h, sink, len, src)
          \/ \E len \in BufLens : rdmap_post_recv(h, len)
          \/ \E c \in Cq : cq_consume(h, c)
          \/ \E stag \in Stag : mem_stag_destroy(h, stag)
          \/ mpa_recv(h)
          \/ recv_eof(h)
      BY <1>2 DEF Next
  <2>2. ASSUME NEW len \in SendLens, rdmap_send(h, len) PROVE Typed'
      BY <2>2, SendStep
  <2>3. ASSUME NEW stag \in Stag, NEW len \in WriteLens, rdmap_rdma_write(h, stag, WriteTo, len) PROVE Typed'
      BY <2>3, WriteStep
  <2>4. ASSUME NEW sink \in Stag, NEW src \in Stag, NEW len \in ReadLens, rdmap_rdma_read(h, sink, len, src)
        PROVE  Typed'
      BY <2>4, ReadStep
  <2>5. ASSUME NEW len \in BufLens, rdmap_post_recv(h, len) PROVE Typed'
      BY <2>5, PostStep
  <2>6. ASSUME NEW c \in Cq, cq_consume(h, c) PROVE Typed'
      BY <2>6, ConsumeStep
  <2>7. ASSUME NEW stag \in Stag, mem_stag_destroy(h, stag) PROVE Typed'
      BY <2>7, DestroyStep
  <2>8. CASE recv_eof(h)
      BY <2>8, EofStep
  <2>9. CASE recv_send(h)
      BY <2>9, RecvSendStep
  <2>10. CASE recv_rdma_read_req(h)
      BY <2>10, RequestStep
  <2>11. CASE recv_tagged(h)
      BY <2>11, TaggedStep
  <2>12. CASE recv_read_resp(h)
      BY <2>12, RespStep
  <2>13. CASE recv_send_no_sink(h) \/ recv_rdma_read_req_no_src(h) \/ recv_tagged_no_sink(h)
      BY <2>13, Stops, StopStep
  <2> QED BY <2>1, <2>2, <2>3, <2>4, <2>5, <2>6, <2>7, <2>8, <2>9, <2>10, <2>11, <2>12, <2>13 DEF mpa_recv
<1> QED BY <1>1, <1>2

\* The types hold throughout.
LEMMA TypedAlways == Spec => []Typed
<1>1. Init => Typed
    BY TypedInit
<1>2. Typed /\ [Next]_vars => Typed'
    BY TypedNext
<1> QED BY <1>1, <1>2, PTL DEF Spec

\* Every variable of RDMAP and DDP keeps its type, and a segment on the wire
\* has the fields of its kind, for any payload size and any lengths.
THEOREM RdmapTypeCorrect == Spec => []TypeOK
<1>1. Typed => TypeOK
  <2> SUFFICES ASSUME Typed PROVE TypeOK
      OBVIOUS
  <2>1. Seg \subseteq UntaggedSeg \cup TaggedSeg
    <3>1. ASSUME NEW s \in SendSeg PROVE s \in UntaggedSeg
        BY DEF SendSeg, UntaggedSeg
    <3>2. ASSUME NEW s \in ReqSeg PROVE s \in UntaggedSeg
        BY DEF ReqSeg, UntaggedSeg
    <3> QED BY <3>1, <3>2 DEF Seg
  <2>2. wire \in [Host -> Seq(UntaggedSeg \cup TaggedSeg)]
    <3>1. PICK U : U = UntaggedSeg \cup TaggedSeg
        OBVIOUS
    <3>2. PICK S : S = Seg /\ S \subseteq U
        BY <2>1, <3>1
    <3>3. \A s \in Seq(S) : s \in Seq(U)
        BY <3>2, SeqMonotonic
    <3>4. wire \in [Host -> Seq(S)]
        BY <3>2 DEF Typed, TypedConn
    <3>5. wire \in [Host -> Seq(U)]
        BY <3>3, <3>4
    <3> QED BY <3>1, <3>5
  <2> QED BY <2>2 DEF Typed, TypedConn, TypedWork, TypeOK, Buf, Rwr, Cqe
<1> QED BY <1>1, TypedAlways, PTL

--------------------------------------------------------------------------------
(* What DDP keeps of an unfinished message *)

\* The reassembly lists hold the part of the first message that was taken off
\* the wire, and nothing else.
Partial(w, t, u) ==
    IF w = <<>> \/ w[1].off = 0 THEN t = {} /\ u = {}
    ELSE IF w[1].tagged THEN t = {[key |-> Key(w[1]), len |-> w[1].off]} /\ u = {}
    ELSE t = {} /\ u = {[key |-> Key(w[1]), len |-> w[1].off]}

\* The list of the segment's kind, when it holds only the segment's message.
LEMMA OutstandingOne ==
    ASSUME NEW s \in Seg, NEW o,
           IF s.off = 0 THEN o = {} ELSE o = {[key |-> Key(s), len |-> s.off]}
    PROVE  /\ Accumulated(o, s) = s.off + s.len
           /\ Outstanding(o, s) = IF s.last THEN {} ELSE {[key |-> Key(s), len |-> s.off + s.len]}
<1>1. s.off \in Nat /\ s.len \in Nat
    BY SegFields
<1>2. PICK k : k = Key(s)
    OBVIOUS
<1>3. CASE s.off = 0
  <2>1. o = {}
      BY <1>3
  <2>2. Accumulated(o, s) = s.len
      BY <1>1, <2>1 DEF Accumulated
  <2>3. Accumulated(o, s) = s.off + s.len
      BY <1>1, <1>3, <2>2
  <2>4. Outstanding(o, s) = IF s.last THEN {} ELSE {[key |-> Key(s), len |-> Accumulated(o, s)]}
      BY <2>1 DEF Outstanding
  <2> QED BY <2>3, <2>4
<1>4. CASE s.off # 0
  <2>1. PICK e : e = [key |-> k, len |-> s.off] /\ e.key = k /\ e.len = s.off
    <3>1. [key |-> k, len |-> s.off].key = k /\ [key |-> k, len |-> s.off].len = s.off
        OBVIOUS
    <3> QED BY <3>1, Zenon
  <2>2. o = {e}
      BY <1>2, <1>4, <2>1
  <2>3. {u \in o : u.key = Key(s)} = {e} /\ {u \in o : u.key # Key(s)} = {}
      BY <1>2, <2>1, <2>2
  <2>4. (CHOOSE u \in {e} : TRUE) = e
      OBVIOUS
  <2>5. Accumulated(o, s) = s.len + e.len
      BY <2>3, <2>4 DEF Accumulated
  <2>6. Accumulated(o, s) = s.off + s.len
      BY <1>1, <2>1, <2>5
  <2>7. Outstanding(o, s) = IF s.last THEN {} ELSE {[key |-> Key(s), len |-> Accumulated(o, s)]}
      BY <2>3 DEF Outstanding
  <2> QED BY <2>6, <2>7
<1> QED BY <1>3, <1>4

\* Taking the first segment.
LEMMA PartialTake ==
    ASSUME NEW w \in Seq(Seg), Framed(w), w # <<>>, NEW t, NEW u, Partial(w, t, u),
           NEW seg, seg = Head(w)
    PROVE  /\ seg.tagged => /\ Partial(Tail(w), Outstanding(t, seg), u)
                            /\ Accumulated(t, seg) = seg.off + seg.len
           /\ ~seg.tagged => /\ Partial(Tail(w), t, Outstanding(u, seg))
                             /\ Accumulated(u, seg) = seg.off + seg.len
<1>1. PICK v \in Seq(Seg) : v = Tail(w)
    BY FramedTail
<1>2. seg = w[1] /\ seg \in Seg
    BY FramedTail
<1>3. IF seg.last THEN v # <<>> => Head(v).off = 0 ELSE v # <<>> /\ Continues(seg, Head(v))
    BY <1>1, FramedTail
<1>4. v # <<>> => Head(v) = v[1]
    OBVIOUS
<1>5. seg.off \in Nat /\ seg.len \in Nat /\ seg.tagged \in BOOLEAN /\ seg.last \in BOOLEAN
    BY <1>2, SegFields
<1>6. CASE seg.tagged
  <2>1. u = {} /\ IF seg.off = 0 THEN t = {} ELSE t = {[key |-> Key(seg), len |-> seg.off]}
      BY <1>2, <1>6 DEF Partial
  <2>2. /\ Accumulated(t, seg) = seg.off + seg.len
        /\ Outstanding(t, seg) = IF seg.last THEN {} ELSE {[key |-> Key(seg), len |-> seg.off + seg.len]}
      BY <1>2, <2>1, OutstandingOne
  <2>3. ASSUME seg.last PROVE Partial(v, Outstanding(t, seg), u)
    <3>1. Outstanding(t, seg) = {} /\ (v = <<>> \/ v[1].off = 0)
        BY <1>3, <1>4, <2>2, <2>3, Zenon
    <3> QED BY <2>1, <3>1, Zenon DEF Partial
  <2>4. ASSUME ~seg.last PROVE Partial(v, Outstanding(t, seg), u)
    <3>1. v # <<>> /\ v[1].tagged = seg.tagged /\ Key(v[1]) = Key(seg) /\ v[1].off = seg.off + seg.len /\ v[1].off # 0
        BY <1>3, <1>4, <2>4 DEF Continues
    <3> QED BY <1>6, <2>1, <2>2, <2>4, <3>1, <1>1, Zenon DEF Partial
  <2> QED BY <1>1, <1>5, <1>6, <2>2, <2>3, <2>4
<1>7. CASE ~seg.tagged
  <2>1. t = {} /\ IF seg.off = 0 THEN u = {} ELSE u = {[key |-> Key(seg), len |-> seg.off]}
      BY <1>2, <1>7 DEF Partial
  <2>2. /\ Accumulated(u, seg) = seg.off + seg.len
        /\ Outstanding(u, seg) = IF seg.last THEN {} ELSE {[key |-> Key(seg), len |-> seg.off + seg.len]}
      BY <1>2, <2>1, OutstandingOne
  <2>3. ASSUME seg.last PROVE Partial(v, t, Outstanding(u, seg))
    <3>1. Outstanding(u, seg) = {} /\ (v = <<>> \/ v[1].off = 0)
        BY <1>3, <1>4, <2>2, <2>3, Zenon
    <3> QED BY <2>1, <3>1, Zenon DEF Partial
  <2>4. ASSUME ~seg.last PROVE Partial(v, t, Outstanding(u, seg))
    <3>1. v # <<>> /\ v[1].tagged = seg.tagged /\ Key(v[1]) = Key(seg) /\ v[1].off = seg.off + seg.len /\ v[1].off # 0
        BY <1>3, <1>4, <2>4 DEF Continues
    <3> QED BY <1>7, <2>1, <2>2, <2>4, <3>1, <1>1, Zenon DEF Partial
  <2> QED BY <1>1, <1>5, <1>7, <2>2, <2>3, <2>4
<1> QED BY <1>5, <1>6, <1>7

\* A new message behind the others changes nothing for the receiver.
LEMMA PartialAppend ==
    ASSUME NEW w \in Seq(Seg), NEW s, Message(s), NEW t, NEW u, Partial(w, t, u)
    PROVE  Partial(w \o s, t, u)
<1>1. s \in Seq(Seg)
    BY DEF Message
<1>2. PICK v \in Seq(Seg) : v = w \o s
    BY <1>1, ConcatProperties
<1>3. CASE w = <<>>
  <2>1. v = s
      BY <1>1, <1>2, <1>3, ConcatEmptySeq
  <2>2. s # <<>> => s[1].off = 0
    <3>1. s # <<>> => 1 \in 1 .. Len(s)
        BY <1>1, EmptySeq
    <3> QED BY <3>1 DEF Message
  <2> QED BY <1>2, <1>3, <2>1, <2>2 DEF Partial
<1>4. CASE w # <<>>
  <2>1. PICK m \in Nat, n \in Nat : m = Len(w) /\ n = Len(s) /\ m # 0
      BY <1>1, <1>4, EmptySeq
  <2>2. Len(v) = m + n /\ \A i \in 1 .. m + n : v[i] = IF i <= m THEN w[i] ELSE s[i - m]
      BY <1>1, <1>2, <2>1, ConcatProperties
  <2>3. v[1] = w[1] /\ v # <<>>
    <3>1. 1 \in 1 .. m + n /\ 1 <= m
        BY <2>1
    <3>2. Len(v) # 0
        BY <2>1, <2>2
    <3>3. v # <<>>
        BY <3>2, EmptySeq
    <3> QED BY <2>2, <3>1, <3>3
  <2> QED BY <1>2, <1>4, <2>3 DEF Partial
<1> QED BY <1>3, <1>4

\* There is at most one unfinished message.
LEMMA PartialIsOne ==
    ASSUME NEW w, NEW t, NEW u, Partial(w, t, u)
    PROVE  Cardinality(t) + Cardinality(u) <= 1
<1>1. Cardinality({}) = 0 /\ \A x : Cardinality({x}) = 1
    BY FS_EmptySet, FS_Singleton
<1>2. PICK e : e = [key |-> Key(w[1]), len |-> w[1].off]
    OBVIOUS
<1>3. (t = {} \/ t = {e}) /\ (u = {} \/ u = {e}) /\ (t = {} \/ u = {})
    BY <1>2, Zenon DEF Partial
<1> QED BY <1>1, <1>3

--------------------------------------------------------------------------------
(* Counting messages along the wire *)

\* f counts the messages of kind K: f[i] is the number of the message under way
\* at segment i, and top the number of the next one to be sent.
Numbered(w, K, f, top) ==
    /\ f \in [1 .. Len(w) + 1 -> Nat]
    /\ f[Len(w) + 1] = top
    /\ \A i \in 1 .. Len(w) :
         /\ f[i + 1] = IF w[i] \in K /\ w[i].last THEN f[i] + 1 ELSE f[i]
         /\ w[i] \in K => f[i] < top
         /\ (\A j \in i .. Len(w) : w[j] \notin K) => f[i] = top
    /\ \A i, j \in 1 .. Len(w) + 1 : i <= j => f[i] <= f[j]

\* The count behind the first segment.
LEMMA NumberedTail ==
    ASSUME NEW w \in Seq(Seg), w # <<>>, NEW K, NEW f, NEW top, Numbered(w, K, f, top)
    PROVE  \E g : /\ Numbered(Tail(w), K, g, top)
                  /\ \A i \in 1 .. Len(w) : g[i] = f[i + 1]
<1>1. PICK m \in Nat : Len(w) = m + 1
  <2>1. Len(w) \in Nat \ {0}
      BY EmptySeq
  <2>2. Len(w) - 1 \in Nat /\ Len(w) = (Len(w) - 1) + 1
      BY <2>1
  <2> QED BY <2>2
<1>2. PICK t \in Seq(Seg) : t = Tail(w) /\ Len(t) = m /\ \A i \in 1 .. m : t[i] = w[i + 1]
  <2>1. Tail(w) \in Seq(Seg) /\ Len(Tail(w)) = Len(w) - 1 /\ \A i \in 1 .. Len(Tail(w)) : Tail(w)[i] = w[i + 1]
      BY HeadTailProperties
  <2>2. Len(Tail(w)) = m
      BY <1>1, <2>1
  <2> QED BY <2>1, <2>2, Zenon
<1>3. PICK g : g = [i \in 1 .. m + 1 |-> f[i + 1]]
    OBVIOUS
<1>4. /\ f \in [1 .. (m + 1) + 1 -> Nat]
      /\ f[(m + 1) + 1] = top
      /\ \A i \in 1 .. m + 1 :
           /\ f[i + 1] = IF w[i] \in K /\ w[i].last THEN f[i] + 1 ELSE f[i]
           /\ w[i] \in K => f[i] < top
           /\ (\A j \in i .. m + 1 : w[j] \notin K) => f[i] = top
      /\ \A i, j \in 1 .. (m + 1) + 1 : i <= j => f[i] <= f[j]
    BY <1>1 DEF Numbered
<1>5. \A i \in 1 .. m + 1 : i + 1 \in 1 .. (m + 1) + 1 /\ g[i] = f[i + 1]
    BY <1>3
<1>6. g \in [1 .. m + 1 -> Nat] /\ g[m + 1] = top
    BY <1>3, <1>4, <1>5
<1>7. ASSUME NEW i \in 1 .. m
      PROVE  /\ g[i + 1] = IF t[i] \in K /\ t[i].last THEN g[i] + 1 ELSE g[i]
             /\ t[i] \in K => g[i] < top
             /\ (\A j \in i .. m : t[j] \notin K) => g[i] = top
  <2>1. i + 1 \in 1 .. m + 1 /\ i \in 1 .. m + 1
      OBVIOUS
  <2>2. g[i + 1] = f[(i + 1) + 1] /\ g[i] = f[i + 1] /\ t[i] = w[i + 1]
      BY <1>2, <1>5, <2>1
  <2>3. ASSUME \A j \in i .. m : t[j] \notin K PROVE g[i] = top
    <3>1. ASSUME NEW j \in i + 1 .. m + 1 PROVE w[j] \notin K
      <4>1. PICK l \in i .. m : j = l + 1
        <5>1. j - 1 \in i .. m /\ j = (j - 1) + 1
            OBVIOUS
        <5> QED BY <5>1
      <4>2. l \in 1 .. m
          OBVIOUS
      <4> QED BY <1>2, <2>3, <4>1, <4>2
    <3> QED BY <1>4, <2>1, <2>2, <3>1
  <2> QED BY <1>4, <2>1, <2>2, <2>3
<1>8. ASSUME NEW i \in 1 .. m + 1, NEW j \in 1 .. m + 1, i <= j PROVE g[i] <= g[j]
  <2>1. i + 1 <= j + 1
      BY <1>8
  <2> QED BY <1>4, <1>5, <2>1
<1>9. Numbered(t, K, g, top)
    BY <1>2, <1>6, <1>7, <1>8 DEF Numbered
<1> QED BY <1>1, <1>2, <1>5, <1>9

\* g counts on from f over the message s.
Recounted(w, s, K, f, top, g, top2) ==
    /\ Numbered(w \o s, K, g, top2) /\ g[1] = f[1]
    /\ \A i \in 1 .. Len(w) : g[i] = f[i]
    /\ \A i \in Len(w) + 1 .. Len(w) + Len(s) : g[i] = top

\* The count with a new message behind the others, of kind K or not.
LEMMA NumberedAppend ==
    ASSUME NEW w \in Seq(Seg), NEW K, NEW f, NEW top \in Nat, Numbered(w, K, f, top),
           NEW s, Message(s), NEW top2 \in Nat,
           \/ s # <<>> /\ top2 = top + 1 /\ \A i \in 1 .. Len(s) : s[i] \in K
           \/ top2 = top /\ \A i \in 1 .. Len(s) : s[i] \notin K
    PROVE  \E g : Recounted(w, s, K, f, top, g, top2)
<1>1. s \in Seq(Seg)
    BY DEF Message
<1>2. PICK m \in Nat, n \in Nat : m = Len(w) /\ n = Len(s)
    BY <1>1
<1>3. PICK v \in Seq(Seg) : v = w \o s /\ Len(v) = m + n
                            /\ \A i \in 1 .. m + n : v[i] = IF i <= m THEN w[i] ELSE s[i - m]
  <2>1. /\ w \o s \in Seq(Seg) /\ Len(w \o s) = m + n
        /\ \A i \in 1 .. m + n : (w \o s)[i] = IF i <= m THEN w[i] ELSE s[i - m]
      BY <1>1, <1>2, ConcatProperties
  <2> QED BY <2>1, Zenon
<1>4. /\ f \in [1 .. m + 1 -> Nat]
      /\ f[m + 1] = top
      /\ \A i \in 1 .. m :
           /\ f[i + 1] = IF w[i] \in K /\ w[i].last THEN f[i] + 1 ELSE f[i]
           /\ w[i] \in K => f[i] < top
           /\ (\A j \in i .. m : w[j] \notin K) => f[i] = top
      /\ \A i, j \in 1 .. m + 1 : i <= j => f[i] <= f[j]
    BY <1>2 DEF Numbered
<1>5. PICK g : g = [i \in 1 .. (m + n) + 1 |-> IF i <= m THEN f[i] ELSE IF i <= m + n THEN top ELSE top2]
    OBVIOUS
<1>6. /\ \A i \in 1 .. m : g[i] = f[i]
      /\ \A i \in m + 1 .. m + n : g[i] = top
      /\ g[(m + n) + 1] = top2
    BY <1>5
<1>7. top2 >= top /\ (n = 0 => top2 = top) /\ (n > 0 /\ top2 # top => top2 = top + 1 /\ \A i \in 1 .. n : s[i] \in K)
      /\ (n > 0 /\ top2 = top => \A i \in 1 .. n : s[i] \notin K)
  <2>1. s # <<>> => n # 0
      BY <1>1, <1>2, EmptySeq
  <2>2. top + 1 # top /\ top + 1 >= top
      OBVIOUS
  <2>3. n = 0 => s = <<>>
      BY <1>1, <1>2, EmptySeq
  <2> QED BY <1>2, <2>1, <2>2, <2>3
<1>8. \A i \in 1 .. m : f[i] \in Nat /\ f[i] <= top
  <2>1. ASSUME NEW i \in 1 .. m PROVE f[i] \in Nat /\ f[i] <= top
    <3>1. i \in 1 .. m + 1 /\ m + 1 \in 1 .. m + 1 /\ i <= m + 1
        OBVIOUS
    <3> QED BY <1>4, <3>1
  <2> QED BY <2>1
<1>9. g \in [1 .. (m + n) + 1 -> Nat]
    BY <1>5, <1>8
<1>10. ASSUME NEW i \in 1 .. m + n
       PROVE  /\ g[i + 1] = IF v[i] \in K /\ v[i].last THEN g[i] + 1 ELSE g[i]
              /\ v[i] \in K => g[i] < top2
              /\ (\A j \in i .. m + n : v[j] \notin K) => g[i] = top2
  <2>1. CASE i <= m
    <3>1. v[i] = w[i] /\ g[i] = f[i] /\ i \in 1 .. m
        BY <1>3, <1>6, <2>1
    <3>2. g[i + 1] = f[i + 1]
      <4>1. CASE i < m
          BY <1>6, <4>1
      <4>2. CASE i = m
        <5>1. i + 1 = m + 1 /\ f[i + 1] = top
            BY <1>4, <4>2
        <5>2. CASE n = 0
            BY <1>6, <1>7, <5>1, <5>2
        <5>3. CASE n > 0
            BY <1>6, <5>1, <5>3
        <5> QED BY <5>2, <5>3
      <4> QED BY <2>1, <4>1, <4>2
    <3>3. v[i] \in K => g[i] < top2
      <4>1. v[i] \in K => f[i] < top
          BY <1>4, <3>1
      <4>2. f[i] \in Nat
          BY <1>8, <3>1
      <4> QED BY <1>7, <3>1, <4>1, <4>2
    <3>4. ASSUME \A j \in i .. m + n : v[j] \notin K PROVE g[i] = top2
      <4>1. \A j \in i .. m : w[j] \notin K
        <5>1. ASSUME NEW j \in i .. m PROVE w[j] \notin K
          <6>1. j \in i .. m + n /\ j \in 1 .. m + n /\ j <= m
              OBVIOUS
          <6> QED BY <1>3, <3>4, <6>1
        <5> QED BY <5>1
      <4>2. f[i] = top
          BY <1>4, <3>1, <4>1
      <4>3. n > 0 => s[1] \notin K
        <5>1. n > 0 => m + 1 \in i .. m + n /\ m + 1 \in 1 .. m + n /\ ~(m + 1 <= m) /\ (m + 1) - m = 1
            BY <2>1
        <5> QED BY <1>3, <3>4, <5>1
      <4>4. top2 = top
          BY <1>7, <4>3
      <4> QED BY <3>1, <4>2, <4>4
    <3> QED BY <1>4, <3>1, <3>2, <3>3, <3>4
  <2>2. CASE i > m
    <3>1. PICK k \in 1 .. n : k = i - m /\ i = m + k
      <4>1. i - m \in 1 .. n /\ i = m + (i - m)
          BY <2>2
      <4> QED BY <4>1
    <3>2. v[i] = s[k] /\ i \in m + 1 .. m + n /\ g[i] = top
        BY <1>3, <1>6, <2>2, <3>1
    <3>3. s[k].last <=> k = n
        BY <1>2 DEF Message
    <3>4. g[i + 1] = IF k = n THEN top2 ELSE top
      <4>1. CASE k = n
          BY <1>6, <3>1, <4>1
      <4>2. CASE k # n
          BY <1>6, <3>1, <4>2
      <4> QED BY <4>1, <4>2
    <3>5. s[k] \in K => top2 = top + 1
        BY <1>7
    <3>6. s[k] \notin K => top2 = top
        BY <1>7
    <3>7. (\A j \in i .. m + n : v[j] \notin K) => s[k] \notin K
        BY <3>2
    <3> QED BY <3>2, <3>3, <3>4, <3>5, <3>6, <3>7
  <2> QED BY <2>1, <2>2
<1>11. ASSUME NEW i \in 1 .. (m + n) + 1, NEW j \in 1 .. (m + n) + 1, i <= j PROVE g[i] <= g[j]
  <2>1. g[i] = IF i <= m THEN f[i] ELSE IF i <= m + n THEN top ELSE top2
      BY <1>5
  <2>2. g[j] = IF j <= m THEN f[j] ELSE IF j <= m + n THEN top ELSE top2
      BY <1>5
  <2>3. CASE j <= m
    <3>1. i <= m /\ i \in 1 .. m + 1 /\ j \in 1 .. m + 1
        BY <1>11, <2>3
    <3> QED BY <1>4, <1>11, <2>1, <2>2, <2>3, <3>1
  <2>4. CASE j > m
    <3>1. i <= m => f[i] \in Nat /\ f[i] <= top
        BY <1>8
    <3> QED BY <1>7, <1>11, <2>1, <2>2, <2>4, <3>1
  <2> QED BY <2>3, <2>4
<1>12. Numbered(v, K, g, top2)
    BY <1>3, <1>6, <1>9, <1>10, <1>11 DEF Numbered
<1>13. g[1] = f[1]
  <2>1. CASE m = 0
    <3>1. f[1] = top
        BY <1>4, <2>1
    <3>2. g[1] = top
      <4>1. CASE n = 0
          BY <1>6, <1>7, <2>1, <4>1
      <4>2. CASE n > 0
          BY <1>6, <2>1, <4>2
      <4> QED BY <4>1, <4>2
    <3> QED BY <3>1, <3>2
  <2>2. CASE m > 0
      BY <1>6, <2>2
  <2> QED BY <2>1, <2>2
<1>14. Recounted(w, s, K, f, top, g, top2)
    BY <1>2, <1>3, <1>6, <1>12, <1>13 DEF Recounted
<1> QED BY <1>14

--------------------------------------------------------------------------------
(* What a step does to the wires and to DDP's state *)

\* No process comes back.
NoneRevived == \A g \in Host : status'[g] = "up" => status[g] = "up"

\* The wires and DDP are left alone.
Quiet == UNCHANGED <<wire, conn>> /\ NoneRevived

\* h hands the message s to DDP, which numbers it if it is untagged.
Emits(h, s) ==
    /\ Message(s)
    /\ wire'[Peer(h)] = wire[Peer(h)] \o s /\ wire'[h] = wire[h]
    /\ UNCHANGED <<status, recv_msn, sink_msn, outst_tag, outst_untag>>
    /\ \/ /\ s # <<>> /\ \A i \in 1 .. Len(s) : ~s[i].tagged /\ s[i].msn = send_msn[h]
          /\ send_msn' = [send_msn EXCEPT ![h] = @ + 1]
       \/ /\ \A i \in 1 .. Len(s) : s[i].tagged
          /\ send_msn' = send_msn

\* h ends on the segment that arrives.
Drops(h) ==
    /\ Arrives(h)
    /\ wire'[h] = Tail(wire[h]) /\ wire'[Peer(h)] = wire[Peer(h)]
    /\ status'[h] # "up" /\ NoneRevived
    /\ UNCHANGED conn

\* h takes the segment that arrives, and may answer it with a tagged message.
Takes(h) ==
    /\ Arrives(h)
    /\ NoneRevived
    /\ wire'[h] = Tail(wire[h])
    /\ \/ wire'[Peer(h)] = wire[Peer(h)]
       \/ \E s : /\ Message(s) /\ \A i \in 1 .. Len(s) : s[i].tagged
                 /\ wire'[Peer(h)] = wire[Peer(h)] \o s
    /\ UNCHANGED send_msn
    /\ IF Next_seg(h).tagged
       THEN /\ outst_tag' = [outst_tag EXCEPT ![h] = Outstanding(@, Next_seg(h))]
            /\ UNCHANGED <<outst_untag, recv_msn, sink_msn>>
       ELSE /\ outst_untag' = [outst_untag EXCEPT ![h] = Outstanding(@, Next_seg(h))]
            /\ UNCHANGED outst_tag
            /\ IF Next_seg(h).last
               THEN recv_msn' = [recv_msn EXCEPT ![h] = @ + 1] /\ sink_msn' = [sink_msn EXCEPT ![h] = @ + 1]
               ELSE UNCHANGED <<recv_msn, sink_msn>>

\* Handlers that take a segment.
LEMMA TakeKinds ==
    ASSUME Typed, NEW h \in Host,
           recv_send(h) \/ recv_rdma_read_req(h) \/ recv_tagged(h) \/ recv_read_resp(h)
    PROVE  Takes(h)
<1>1. Peer(h) \in Host /\ Peer(h) # h /\ wire[h] \in Seq(Seg) /\ wire \in [Host -> Seq(Seg)]
      /\ status \in [Host -> Status]
    BY Peers DEF Typed, TypedConn
<1>2. CASE recv_send(h)
  <2>0. PICK seg \in Seg, b \in Buf, f \in Buf, len \in Nat, q \in Seq(Buf) :
          RecvSend(h, seg, b, f, len, q)
      BY <1>2, RecvSendStep
  <2>1. seg = Next_seg(h) /\ ~seg.tagged /\ seg.last \in BOOLEAN
      BY <2>0, SegFields DEF RecvSend
  <2>2. /\ Arrives(h) /\ wire'[h] = Tail(wire[h]) /\ wire'[Peer(h)] = wire[Peer(h)] /\ NoneRevived
        /\ UNCHANGED <<send_msn, outst_tag>>
        /\ outst_untag' = [outst_untag EXCEPT ![h] = Outstanding(@, Next_seg(h))]
      BY <1>1, <1>2 DEF recv_send, NoneRevived
  <2>3. IF seg.last
        THEN recv_msn' = [recv_msn EXCEPT ![h] = @ + 1] /\ sink_msn' = [sink_msn EXCEPT ![h] = @ + 1]
        ELSE UNCHANGED <<recv_msn, sink_msn>>
      BY <1>2, <2>1 DEF recv_send
  <2> QED BY <2>1, <2>2, <2>3 DEF Takes
<1>3. CASE recv_rdma_read_req(h)
  <2>1. PICK seg \in Seg : \E s, what :
          /\ seg = Next_seg(h) /\ ~seg.tagged /\ seg.last
          /\ Carries(s, "RDMA_READ_RESP", what, seg.what.rdma_rd_sz)
          /\ \A i \in 1 .. Len(s) : s[i].tagged
          /\ wire' = [wire EXCEPT ![h] = Tail(@), ![Peer(h)] = @ \o s]
      BY <1>3, RequestStep, Zenon
  <2>2. PICK s, what :
          /\ seg = Next_seg(h) /\ ~seg.tagged /\ seg.last
          /\ Carries(s, "RDMA_READ_RESP", what, seg.what.rdma_rd_sz)
          /\ \A i \in 1 .. Len(s) : s[i].tagged
          /\ wire' = [wire EXCEPT ![h] = Tail(@), ![Peer(h)] = @ \o s]
      BY <2>1
  <2>3. Message(s)
      BY <2>2 DEF Carries
  <2>4. wire'[h] = Tail(wire[h]) /\ wire'[Peer(h)] = wire[Peer(h)] \o s
      BY <1>1, <2>2
  <2>5. /\ Arrives(h) /\ NoneRevived
        /\ UNCHANGED <<send_msn, outst_tag>>
        /\ outst_untag' = [outst_untag EXCEPT ![h] = Outstanding(@, Next_seg(h))]
        /\ recv_msn' = [recv_msn EXCEPT ![h] = @ + 1] /\ sink_msn' = [sink_msn EXCEPT ![h] = @ + 1]
      BY <1>3 DEF recv_rdma_read_req, NoneRevived
  <2>6. \E x : /\ Message(x) /\ \A i \in 1 .. Len(x) : x[i].tagged
               /\ wire'[Peer(h)] = wire[Peer(h)] \o x
      BY <2>2, <2>3, <2>4
  <2> QED BY <2>2, <2>4, <2>5, <2>6, Zenon DEF Takes
<1>4. ASSUME Place(h, Next_seg(h)), NoneRevived PROVE Takes(h)
  <2>1. Next_seg(h).tagged
      BY <1>4, PlaceStep
  <2>2. /\ Arrives(h) /\ wire'[h] = Tail(wire[h]) /\ wire'[Peer(h)] = wire[Peer(h)]
        /\ UNCHANGED <<send_msn, outst_untag, recv_msn, sink_msn>>
        /\ outst_tag' = [outst_tag EXCEPT ![h] = Outstanding(@, Next_seg(h))]
      BY <1>1, <1>4 DEF Place
  <2> QED BY <1>4, <2>1, <2>2 DEF Takes
<1>5. CASE recv_tagged(h)
    BY <1>4, <1>5 DEF recv_tagged, NoneRevived
<1>6. CASE recv_read_resp(h)
  <2>1. PICK why \in Status : status' = [status EXCEPT ![h] = why]
      BY <1>6, RespStep DEF RecvResp
  <2>2. status[h] = "up" /\ Place(h, Next_seg(h))
      BY <1>6 DEF recv_read_resp, Place, Arrives, Running
  <2>3. NoneRevived
      BY <1>1, <2>1, <2>2 DEF NoneRevived
  <2> QED BY <1>4, <2>2, <2>3
<1> QED BY <1>2, <1>3, <1>5, <1>6

\* Every step is one of these.
LEMMA WireStep ==
    ASSUME Typed, [Next]_vars
    PROVE  Quiet \/ \E h \in Host : Takes(h) \/ Drops(h) \/ \E s : Emits(h, s)
<1>1. /\ wire \in [Host -> Seq(Seg)] /\ status \in [Host -> Status]
      /\ \A h \in Host : Peer(h) \in Host /\ Peer(h) # h
    BY Peers DEF Typed, TypedConn
<1>2. CASE UNCHANGED vars
    BY <1>2 DEF vars, conn, Quiet, NoneRevived
<1>3. CASE Next
  <2>1. PICK h \in Host :
          \/ \E len \in SendLens : rdmap_send(h, len)
          \/ \E stag \in Stag, len \in WriteLens : rdmap_rdma_write(h, stag, WriteTo, len)
          \/ \E sink \in Stag, src \in Stag, len \in ReadLens : rdmap_rdma_read(h, sink, len, src)
          \/ \E len \in BufLens : rdmap_post_recv(h, len)
          \/ \E c \in Cq : cq_consume(h, c)
          \/ \E stag \in Stag : mem_stag_destroy(h, stag)
          \/ mpa_recv(h)
          \/ recv_eof(h)
      BY <1>3 DEF Next
  <2>2. ASSUME NEW len \in SendLens, rdmap_send(h, len) PROVE \E s : Emits(h, s)
    <3>1. PICK s : /\ UntaggedMsg(s, "SEND", [for |-> OpId(h)], len, send_msn[h])
                   /\ wire' = [wire EXCEPT ![Peer(h)] = @ \o s]
        BY <2>2, SendStep
    <3>2. /\ Message(s) /\ wire'[Peer(h)] = wire[Peer(h)] \o s /\ wire'[h] = wire[h]
          /\ s # <<>> /\ \A i \in 1 .. Len(s) : ~s[i].tagged /\ s[i].msn = send_msn[h]
        BY <1>1, <3>1 DEF UntaggedMsg, Carries
    <3>3. /\ UNCHANGED <<status, recv_msn, sink_msn, outst_tag, outst_untag>>
          /\ send_msn' = [send_msn EXCEPT ![h] = @ + 1]
        BY <2>2 DEF rdmap_send
    <3>4. Emits(h, s)
        BY <3>1, <3>2, <3>3 DEF Emits
    <3> QED BY <3>4
  <2>3. ASSUME NEW stag \in Stag, NEW len \in WriteLens, rdmap_rdma_write(h, stag, WriteTo, len)
        PROVE  \E s : Emits(h, s)
    <3>1. PICK s : /\ Carries(s, "RDMA_WRITE", [for |-> OpId(h)], len)
                   /\ \A i \in 1 .. Len(s) : s[i].tagged
                   /\ wire' = [wire EXCEPT ![Peer(h)] = @ \o s]
        BY <2>3, WriteStep
    <3>2. Message(s) /\ wire'[Peer(h)] = wire[Peer(h)] \o s /\ wire'[h] = wire[h]
        BY <1>1, <3>1 DEF Carries
    <3>3. UNCHANGED <<status, recv_msn, sink_msn, outst_tag, outst_untag, send_msn>>
        BY <2>3, Zenon DEF rdmap_rdma_write, conn
    <3>4. Emits(h, s)
        BY <3>1, <3>2, <3>3 DEF Emits
    <3> QED BY <3>4
  <2>4. ASSUME NEW sink \in Stag, NEW src \in Stag, NEW len \in ReadLens, rdmap_rdma_read(h, sink, len, src)
        PROVE  \E s : Emits(h, s)
    <3>1. PICK s, what : Requests(h, sink, len, s, what)
        BY <2>4, ReadStep
    <3>2. /\ Message(s) /\ wire'[Peer(h)] = wire[Peer(h)] \o s /\ wire'[h] = wire[h]
          /\ s # <<>> /\ \A i \in 1 .. Len(s) : ~s[i].tagged /\ s[i].msn = send_msn[h]
        BY <1>1, <3>1 DEF Requests, UntaggedMsg, Carries
    <3>3. /\ UNCHANGED <<status, recv_msn, sink_msn, outst_tag, outst_untag>>
          /\ send_msn' = [send_msn EXCEPT ![h] = @ + 1]
        BY <2>4 DEF rdmap_rdma_read
    <3>4. Emits(h, s)
        BY <3>1, <3>2, <3>3 DEF Emits
    <3> QED BY <3>4
  <2>5. ASSUME NEW len \in BufLens, rdmap_post_recv(h, len) PROVE Quiet
      BY <2>5 DEF rdmap_post_recv, Quiet, NoneRevived
  <2>6. ASSUME NEW c \in Cq, cq_consume(h, c) PROVE Quiet
      BY <2>6 DEF cq_consume, Quiet, NoneRevived
  <2>7. ASSUME NEW stag \in Stag, mem_stag_destroy(h, stag) PROVE Quiet
      BY <2>7 DEF mem_stag_destroy, Quiet, NoneRevived
  <2>8. CASE recv_eof(h)
    <3>1. NoneRevived
        BY <1>1, <2>8 DEF recv_eof, NoneRevived
    <3> QED BY <2>8, <3>1 DEF recv_eof, Quiet
  <2>9. CASE recv_send(h) \/ recv_rdma_read_req(h) \/ recv_tagged(h) \/ recv_read_resp(h)
      BY <2>9, TakeKinds
  <2>10. CASE recv_send_no_sink(h) \/ recv_rdma_read_req_no_src(h) \/ recv_tagged_no_sink(h)
    <3>1. PICK why \in Status : Arrives(h) /\ why # "up" /\ Stop(h, why)
        BY <2>10, Stops
    <3>2. status'[h] # "up" /\ NoneRevived
        BY <1>1, <3>1 DEF Stop, NoneRevived
    <3>3. wire'[h] = Tail(wire[h]) /\ wire'[Peer(h)] = wire[Peer(h)] /\ UNCHANGED conn
        BY <1>1, <3>1 DEF Stop
    <3> QED BY <3>1, <3>2, <3>3 DEF Drops
  <2> QED BY <2>1, <2>2, <2>3, <2>4, <2>5, <2>6, <2>7, <2>8, <2>9, <2>10 DEF mpa_recv
<1> QED BY <1>2, <1>3

--------------------------------------------------------------------------------
(* MSNs and unfinished messages *)

Untag == {x \in Seg : ~x.tagged}

\* Every untagged segment carries the number of its message.
MsnOfCount(w, f) == \A i \in 1 .. Len(w) : w[i] \in Untag => w[i].msn = f[i]

\* The wire to h: whole messages numbered up to top, the first of which DDP may
\* have taken in part; if h is up, it waits for the number r the wire starts with.
Link(w, up, t, u, r, top) ==
    /\ Framed(w)
    /\ up => Partial(w, t, u)
    /\ \E f : /\ Numbered(w, Untag, f, top) /\ MsnOfCount(w, f)
              /\ up => f[1] = r

\* The inductive invariant of DDP at both ends.
WireInv ==
    /\ Typed
    /\ \A h \in Host :
         /\ Link(wire[h], status[h] = "up", outst_tag[h], outst_untag[h], recv_msn[h], send_msn[Peer(h)])
         /\ sink_msn[h] = recv_msn[h]

\* A new message behind the others, of the sender's MSN if it is untagged.
LEMMA LinkAppend ==
    ASSUME NEW w \in Seq(Seg), NEW up \in BOOLEAN, NEW t, NEW u, NEW r, NEW top \in Nat, NEW top2 \in Nat,
           Link(w, up, t, u, r, top), NEW s, Message(s),
           \/ /\ s # <<>> /\ top2 = top + 1
              /\ \A i \in 1 .. Len(s) : ~s[i].tagged /\ s[i].msn = top
           \/ top2 = top /\ \A i \in 1 .. Len(s) : s[i].tagged
    PROVE  Link(w \o s, up, t, u, r, top2)
<1>1. PICK f : Numbered(w, Untag, f, top) /\ MsnOfCount(w, f) /\ (up => f[1] = r)
    BY DEF Link
<1>2. s \in Seq(Seg)
    BY DEF Message
<1>3. \A i \in 1 .. Len(s) : s[i] \in Seg
    BY <1>2, ElementOfSeq
<1>4. \/ s # <<>> /\ top2 = top + 1 /\ \A i \in 1 .. Len(s) : s[i] \in Untag
      \/ top2 = top /\ \A i \in 1 .. Len(s) : s[i] \notin Untag
    BY <1>3 DEF Untag
<1>5. PICK g : /\ Numbered(w \o s, Untag, g, top2) /\ g[1] = f[1]
               /\ \A i \in 1 .. Len(w) : g[i] = f[i]
               /\ \A i \in Len(w) + 1 .. Len(w) + Len(s) : g[i] = top
  <2>1. PICK g : Recounted(w, s, Untag, f, top, g, top2)
      BY <1>1, <1>4, NumberedAppend
  <2> QED BY <2>1 DEF Recounted
<1>6. MsnOfCount(w \o s, g)
  <2>1. PICK m \in Nat, n \in Nat : m = Len(w) /\ n = Len(s)
      BY <1>2
  <2>2. /\ Len(w \o s) = m + n
        /\ \A i \in 1 .. m + n : (w \o s)[i] = IF i <= m THEN w[i] ELSE s[i - m]
      BY <1>2, <2>1, ConcatProperties
  <2>3. ASSUME NEW i \in 1 .. m + n, (w \o s)[i] \in Untag PROVE (w \o s)[i].msn = g[i]
    <3>1. CASE i <= m
      <4>1. (w \o s)[i] = w[i] /\ g[i] = f[i] /\ i \in 1 .. Len(w)
          BY <1>5, <2>1, <2>2, <3>1
      <4> QED BY <1>1, <2>3, <4>1 DEF MsnOfCount
    <3>2. CASE i > m
      <4>1. PICK j \in 1 .. n : j = i - m
        <5>1. i - m \in 1 .. n
            BY <3>2
        <5> QED BY <5>1
      <4>2. (w \o s)[i] = s[j] /\ i \in m + 1 .. m + n /\ g[i] = top
          BY <1>5, <2>1, <2>2, <3>2, <4>1
      <4>3. ~s[j].tagged
          BY <2>3, <4>2 DEF Untag
      <4>4. s[j].msn = top
          BY <2>1, <4>3
      <4> QED BY <4>2, <4>4
    <3>3. i <= m \/ i > m
        OBVIOUS
    <3> QED BY <3>1, <3>2, <3>3, Zenon
  <2> QED BY <2>2, <2>3 DEF MsnOfCount
<1>7. Framed(w \o s)
    BY FramedAppend DEF Link
<1>8. up => Partial(w \o s, t, u)
    BY PartialAppend DEF Link
<1> QED BY <1>1, <1>5, <1>6, <1>7, <1>8 DEF Link

\* The first segment leaves the wire: the receiver takes it, or is gone.
LEMMA LinkTail ==
    ASSUME NEW w \in Seq(Seg), w # <<>>, NEW up \in BOOLEAN, NEW t, NEW u, NEW r \in Nat, NEW top \in Nat,
           Link(w, up, t, u, r, top), NEW up2 \in BOOLEAN, up2 => up,
           NEW t2, NEW u2, NEW r2, NEW seg, seg = Head(w),
           up2 => IF seg.tagged THEN t2 = Outstanding(t, seg) /\ u2 = u /\ r2 = r
                  ELSE t2 = t /\ u2 = Outstanding(u, seg) /\ r2 = IF seg.last THEN r + 1 ELSE r
    PROVE  Link(Tail(w), up2, t2, u2, r2, top)
<1>1. PICK f : Numbered(w, Untag, f, top) /\ MsnOfCount(w, f) /\ (up => f[1] = r)
    BY DEF Link
<1>2. PICK m \in Nat : Len(w) = m + 1
  <2>1. Len(w) \in Nat \ {0}
      BY EmptySeq
  <2>2. Len(w) - 1 \in Nat /\ Len(w) = (Len(w) - 1) + 1
      BY <2>1
  <2> QED BY <2>2
<1>3. Framed(w)
    BY DEF Link
<1>4. /\ Framed(Tail(w)) /\ Tail(w) \in Seq(Seg) /\ Len(Tail(w)) = m
      /\ \A i \in 1 .. m : Tail(w)[i] = w[i + 1]
      /\ seg = w[1] /\ seg \in Seg
  <2>1. (m + 1) - 1 = m
      OBVIOUS
  <2> QED BY <1>2, <1>3, <2>1, FramedTail
<1>5. PICK g : Numbered(Tail(w), Untag, g, top) /\ \A i \in 1 .. m + 1 : g[i] = f[i + 1]
    BY <1>1, <1>2, NumberedTail
<1>6. MsnOfCount(Tail(w), g)
  <2>1. ASSUME NEW i \in 1 .. m, Tail(w)[i] \in Untag PROVE Tail(w)[i].msn = g[i]
    <3>1. i + 1 \in 1 .. m + 1 /\ i \in 1 .. m + 1
        OBVIOUS
    <3> QED BY <1>1, <1>2, <1>4, <1>5, <2>1, <3>1 DEF MsnOfCount
  <2> QED BY <1>4, <2>1 DEF MsnOfCount
<1>7. up2 => Partial(Tail(w), t2, u2)
    BY <1>3, <1>4, PartialTake, SegFields DEF Link
<1>8. up2 => g[1] = r2
  <2> SUFFICES ASSUME up2 PROVE g[1] = r2
      OBVIOUS
  <2>1. 1 \in 1 .. m + 1 /\ g[1] = f[1 + 1] /\ f[1] = r
      BY <1>1, <1>5
  <2>2. f[1 + 1] = IF w[1] \in Untag /\ w[1].last THEN f[1] + 1 ELSE f[1]
      BY <1>1, <1>2, <2>1 DEF Numbered
  <2>3. w[1] \in Untag <=> ~seg.tagged
      BY <1>4 DEF Untag
  <2> QED BY <1>4, <2>1, <2>2, <2>3
<1> QED BY <1>4, <1>5, <1>6, <1>7, <1>8 DEF Link

\* A wire that is left alone: its receiver may stop.
LEMMA LinkSame ==
    ASSUME NEW w, NEW up, NEW t, NEW u, NEW r, NEW top, Link(w, up, t, u, r, top), NEW up2, up2 => up
    PROVE  Link(w, up2, t, u, r, top)
BY DEF Link

\* At the start nothing is under way.
LEMMA WireInit ==
    ASSUME Init
    PROVE  WireInv
<1>1. Typed
    BY TypedInit
<1>2. PICK e \in Seq(Seg) : e = <<>> /\ Len(e) = 0
    BY EmptySeq
<1>3. Link(e, TRUE, {}, {}, 1, 1)
  <2>1. Framed(e)
      BY <1>2 DEF Framed
  <2>2. Partial(e, {}, {})
      BY <1>2 DEF Partial
  <2>3. PICK f : f = [i \in 1 .. Len(e) + 1 |-> 1]
      OBVIOUS
  <2>4. Numbered(e, Untag, f, 1) /\ f[1] = 1
      BY <1>2, <2>3 DEF Numbered
  <2>5. MsnOfCount(e, f)
      BY <1>2 DEF MsnOfCount
  <2> QED BY <2>1, <2>2, <2>4, <2>5 DEF Link
<1>4. ASSUME NEW h \in Host
      PROVE  /\ Link(wire[h], status[h] = "up", outst_tag[h], outst_untag[h], recv_msn[h], send_msn[Peer(h)])
             /\ sink_msn[h] = recv_msn[h]
  <2>1. Peer(h) \in Host
      BY Peers
  <2>2. /\ wire[h] = e /\ status[h] = "up" /\ outst_tag[h] = {} /\ outst_untag[h] = {}
        /\ recv_msn[h] = 1 /\ send_msn[Peer(h)] = 1 /\ sink_msn[h] = 1
      BY <1>2, <2>1 DEF Init
  <2>3. (status[h] = "up") = TRUE
      BY <2>2
  <2> QED BY <1>3, <2>2, <2>3
<1> QED BY <1>1, <1>4 DEF WireInv

\* Every step keeps the invariant of the wires.
LEMMA WireNext ==
    ASSUME WireInv, [Next]_vars
    PROVE  WireInv'
<1>1. Typed /\ Typed'
    BY TypedNext DEF WireInv
<1>2. /\ wire \in [Host -> Seq(Seg)] /\ wire' \in [Host -> Seq(Seg)]
      /\ send_msn \in [Host -> Nat] /\ recv_msn \in [Host -> Nat] /\ sink_msn \in [Host -> Nat]
      /\ outst_tag \in [Host -> SUBSET [key : Seq(Stag), len : Nat]]
      /\ outst_untag \in [Host -> SUBSET [key : Seq(Nat), len : Nat]]
    BY <1>1 DEF Typed, TypedConn
<1> DEFINE L(g) == Link(wire[g], status[g] = "up", outst_tag[g], outst_untag[g], recv_msn[g], send_msn[Peer(g)])
<1>3. ASSUME NEW g \in Host PROVE L(g) /\ sink_msn[g] = recv_msn[g]
    BY DEF WireInv
<1>4. CASE Quiet
  <2>1. ASSUME NEW g \in Host PROVE (L(g) /\ sink_msn[g] = recv_msn[g])'
    <3>1. (status'[g] = "up") => (status[g] = "up")
        BY <1>4 DEF Quiet, NoneRevived
    <3>2. Link(wire[g], status'[g] = "up", outst_tag[g], outst_untag[g], recv_msn[g], send_msn[Peer(g)])
        BY <1>3, <3>1, LinkSame
    <3>3. UNCHANGED <<wire, send_msn, recv_msn, sink_msn, outst_tag, outst_untag>>
        BY <1>4 DEF Quiet, conn
    <3> QED BY <1>3, <3>2, <3>3
  <2> QED BY <1>1, <2>1 DEF WireInv
<1>5. ASSUME NEW h \in Host, Takes(h) \/ Drops(h) PROVE WireInv'
  <2>1. PICK p \in Host : p = Peer(h) /\ p # h /\ Peer(p) = h /\ Host = {h, p}
      BY Peers
  <2>2. Arrives(h) /\ NoneRevived /\ wire'[h] = Tail(wire[h]) /\ send_msn' = send_msn
      BY <1>5 DEF Takes, Drops, conn
  <2>3. PICK w \in Seq(Seg) : w = wire[h] /\ w # <<>>
      BY <1>2, <2>2 DEF Arrives
  <2>4. PICK seg \in Seg : seg = Head(w) /\ seg = Next_seg(h)
      BY <2>3, HeadTailProperties DEF Next_seg
  <2>5. seg.tagged \in BOOLEAN /\ seg.last \in BOOLEAN
      BY SegFields
  <2>6. Takes(h) =>
          /\ IF seg.tagged
             THEN /\ outst_tag'[h] = Outstanding(outst_tag[h], seg) /\ outst_untag'[h] = outst_untag[h]
                  /\ recv_msn'[h] = recv_msn[h] /\ sink_msn'[h] = sink_msn[h]
             ELSE /\ outst_tag'[h] = outst_tag[h] /\ outst_untag'[h] = Outstanding(outst_untag[h], seg)
                  /\ recv_msn'[h] = IF seg.last THEN recv_msn[h] + 1 ELSE recv_msn[h]
                  /\ sink_msn'[h] = IF seg.last THEN sink_msn[h] + 1 ELSE sink_msn[h]
          /\ outst_tag'[p] = outst_tag[p] /\ outst_untag'[p] = outst_untag[p]
          /\ recv_msn'[p] = recv_msn[p] /\ sink_msn'[p] = sink_msn[p]
      BY <1>2, <2>1, <2>4, <2>5 DEF Takes
  <2>7. Drops(h) => status'[h] # "up" /\ UNCHANGED <<recv_msn, sink_msn, outst_tag, outst_untag>>
      BY DEF Drops, conn
  <2>8. L(h)'
    <3>1. PICK up \in BOOLEAN, up2 \in BOOLEAN : up = (status[h] = "up") /\ up2 = (status'[h] = "up")
        OBVIOUS
    <3>2. up2 => up
        BY <2>2, <3>1 DEF NoneRevived
    <3>3. Link(w, up, outst_tag[h], outst_untag[h], recv_msn[h], send_msn[p])
        BY <1>3, <2>1, <2>3, <3>1
    <3>4. up2 => IF seg.tagged
                 THEN outst_tag'[h] = Outstanding(outst_tag[h], seg) /\ outst_untag'[h] = outst_untag[h]
                      /\ recv_msn'[h] = recv_msn[h]
                 ELSE outst_tag'[h] = outst_tag[h] /\ outst_untag'[h] = Outstanding(outst_untag[h], seg)
                      /\ recv_msn'[h] = IF seg.last THEN recv_msn[h] + 1 ELSE recv_msn[h]
        BY <1>5, <2>6, <2>7, <3>1
    <3>5. recv_msn[h] \in Nat /\ send_msn[p] \in Nat
        BY <1>2
    <3>6. Link(Tail(w), up2, outst_tag'[h], outst_untag'[h], recv_msn'[h], send_msn[p])
        BY <2>3, <2>4, <3>2, <3>3, <3>4, <3>5, LinkTail
    <3> QED BY <2>1, <2>2, <2>3, <3>1, <3>6
  <2>9. L(p)'
    <3>1. PICK v \in Seq(Seg) : v = wire[p]
        BY <1>2
    <3>2. PICK up \in BOOLEAN, up2 \in BOOLEAN : up = (status[p] = "up") /\ up2 = (status'[p] = "up")
        OBVIOUS
    <3>3. up2 => up
        BY <2>2, <3>2 DEF NoneRevived
    <3>4. Link(v, up2, outst_tag[p], outst_untag[p], recv_msn[p], send_msn[h])
        BY <1>3, <2>1, <3>1, <3>2, <3>3, LinkSame
    <3>5. Link(wire'[p], up2, outst_tag[p], outst_untag[p], recv_msn[p], send_msn[h])
      <4>1. CASE wire'[p] = wire[p]
          BY <3>1, <3>4, <4>1
      <4>2. CASE wire'[p] # wire[p]
        <5>1. PICK s : Message(s) /\ (\A i \in 1 .. Len(s) : s[i].tagged) /\ wire'[p] = wire[p] \o s
            BY <1>5, <2>1, <4>2 DEF Takes, Drops
        <5>2. send_msn[h] \in Nat
            BY <1>2
        <5>3. Link(v \o s, up2, outst_tag[p], outst_untag[p], recv_msn[p], send_msn[h])
            BY <3>4, <5>1, <5>2, LinkAppend
        <5> QED BY <3>1, <5>1, <5>3
      <4> QED BY <4>1, <4>2
    <3>6. outst_tag'[p] = outst_tag[p] /\ outst_untag'[p] = outst_untag[p] /\ recv_msn'[p] = recv_msn[p]
        BY <1>5, <2>6, <2>7
    <3> QED BY <2>1, <2>2, <3>2, <3>5, <3>6
  <2>10. sink_msn'[h] = recv_msn'[h] /\ sink_msn'[p] = recv_msn'[p]
      BY <1>3, <1>5, <2>5, <2>6, <2>7
  <2>11. ASSUME NEW g \in Host PROVE (L(g) /\ sink_msn[g] = recv_msn[g])'
      BY <2>1, <2>8, <2>9, <2>10
  <2> QED BY <1>1, <2>11 DEF WireInv
<1>6. ASSUME NEW h \in Host, NEW s, Emits(h, s) PROVE WireInv'
  <2>1. PICK p \in Host : p = Peer(h) /\ p # h /\ Peer(p) = h /\ Host = {h, p}
      BY Peers
  <2>2. /\ Message(s) /\ wire'[p] = wire[p] \o s /\ wire'[h] = wire[h]
        /\ UNCHANGED <<status, recv_msn, sink_msn, outst_tag, outst_untag>>
      BY <1>6, <2>1 DEF Emits
  <2>3. PICK v \in Seq(Seg) : v = wire[p]
      BY <1>2
  <2>4. PICK top \in Nat, top2 \in Nat : top = send_msn[h] /\ top2 = send_msn'[h]
      BY <1>2, <1>6 DEF Emits
  <2>5. \/ /\ s # <<>> /\ top2 = top + 1
           /\ \A i \in 1 .. Len(s) : ~s[i].tagged /\ s[i].msn = top
        \/ top2 = top /\ \A i \in 1 .. Len(s) : s[i].tagged
      BY <1>2, <1>6, <2>4 DEF Emits
  <2>6. PICK up \in BOOLEAN : up = (status[p] = "up")
      OBVIOUS
  <2>7. Link(v, up, outst_tag[p], outst_untag[p], recv_msn[p], top)
      BY <1>3, <2>1, <2>3, <2>4, <2>6
  <2>8. Link(v \o s, up, outst_tag[p], outst_untag[p], recv_msn[p], top2)
      BY <2>2, <2>5, <2>7, LinkAppend
  <2>9. L(p)'
      BY <2>1, <2>2, <2>3, <2>4, <2>6, <2>8
  <2>10. send_msn'[p] = send_msn[p]
      BY <1>2, <1>6, <2>1 DEF Emits
  <2>11. L(h)'
      BY <1>3, <2>1, <2>2, <2>10
  <2>12. ASSUME NEW g \in Host PROVE (L(g) /\ sink_msn[g] = recv_msn[g])'
      BY <1>3, <2>1, <2>2, <2>9, <2>11
  <2> QED BY <1>1, <2>12 DEF WireInv
<1> QED BY <1>1, <1>4, <1>5, <1>6, WireStep

\* The invariant of the wires holds throughout.
LEMMA WireAlways == Spec => []WireInv
<1>1. Init => WireInv
    BY WireInit
<1>2. WireInv /\ [Next]_vars => WireInv'
    BY WireNext
<1> QED BY <1>1, <1>2, PTL DEF Spec

\* DDP never has more than one unfinished message on a connection, of either
\* kind, however many operations both ends have under way: keying the
\* reassembly lists by STag alone (ddp.c) cannot add up two messages.
THEOREM OneMessageUnfinished == Spec => []OneUnfinished
<1>1. WireInv => OneUnfinished
    BY PartialIsOne DEF WireInv, Link, OneUnfinished
<1> QED BY <1>1, WireAlways, PTL

\* The counters of both ends stay in step, and the untagged segment that
\* arrives has exactly the MSN that the assertions of rdmap.c and ddp.c expect.
THEOREM MsnsInStep == Spec => []MsnInSync
<1>1. ASSUME WireInv, NEW h \in Host, status[h] = "up"
      PROVE  /\ \A i \in Untagged(h) :
                  /\ wire[h][i].msn \in recv_msn[h] .. send_msn[Peer(h)] - 1
                  /\ \A j \in Untagged(h) : i < j => wire[h][i].msn <= wire[h][j].msn
             /\ wire[h] # <<>> /\ ~Next_seg(h).tagged => Next_seg(h).msn = recv_msn[h]
             /\ Untagged(h) = {} => recv_msn[h] = send_msn[Peer(h)]
  <2>1. PICK w \in Seq(Seg), r \in Nat, top \in Nat : w = wire[h] /\ r = recv_msn[h] /\ top = send_msn[Peer(h)]
      BY <1>1, Peers DEF WireInv, Typed, TypedConn
  <2>2. PICK f : Numbered(w, Untag, f, top) /\ MsnOfCount(w, f) /\ f[1] = r
      BY <1>1, <2>1 DEF WireInv, Link
  <2>3. PICK n \in Nat : n = Len(w)
      OBVIOUS
  <2>4. /\ f \in [1 .. n + 1 -> Nat] /\ f[n + 1] = top
        /\ \A i \in 1 .. n : /\ w[i] \in Untag => f[i] < top /\ w[i].msn = f[i]
                             /\ (\A j \in i .. n : w[j] \notin Untag) => f[i] = top
        /\ \A i, j \in 1 .. n + 1 : i <= j => f[i] <= f[j]
      BY <2>2, <2>3 DEF Numbered, MsnOfCount
  <2>5. \A i \in 1 .. n : w[i] \in Seg
      BY <2>3, ElementOfSeq
  <2>6. Untagged(h) = {i \in 1 .. n : w[i] \in Untag}
      BY <2>1, <2>3, <2>5 DEF Untagged, Untag
  <2>7. ASSUME NEW i \in Untagged(h)
        PROVE  /\ w[i].msn \in r .. top - 1
               /\ \A j \in Untagged(h) : i < j => w[i].msn <= w[j].msn
    <3>1. i \in 1 .. n /\ i \in 1 .. n + 1 /\ 1 \in 1 .. n + 1 /\ 1 <= i /\ w[i] \in Untag
        BY <2>6
    <3>2. w[i].msn = f[i] /\ f[i] < top /\ f[i] \in Nat
        BY <2>4, <3>1
    <3>3. f[1] <= f[i]
        BY <2>4, <3>1
    <3>4. w[i].msn \in r .. top - 1
        BY <2>2, <3>2, <3>3
    <3>5. ASSUME NEW j \in Untagged(h), i < j PROVE w[i].msn <= w[j].msn
      <4>1. j \in 1 .. n /\ j \in 1 .. n + 1 /\ w[j] \in Untag
          BY <2>6
      <4>2. w[j].msn = f[j] /\ f[i] <= f[j]
          BY <2>4, <3>1, <3>5, <4>1
      <4> QED BY <3>2, <4>2
    <3> QED BY <3>4, <3>5
  <2>8. w # <<>> /\ ~Head(w).tagged => Head(w).msn = r
    <3> SUFFICES ASSUME w # <<>>, ~Head(w).tagged PROVE Head(w).msn = r
        OBVIOUS
    <3>1. n # 0
        BY <2>3, EmptySeq
    <3>2. 1 \in 1 .. n /\ Head(w) = w[1]
        BY <2>3, <3>1
    <3>3. w[1] \in Untag
        BY <2>5, <3>2 DEF Untag
    <3> QED BY <2>2, <2>4, <3>2, <3>3
  <2>9. Untagged(h) = {} => r = top
    <3> SUFFICES ASSUME Untagged(h) = {} PROVE r = top
        OBVIOUS
    <3>1. CASE n = 0
        BY <2>2, <2>4, <3>1
    <3>2. CASE n # 0
      <4>1. 1 \in 1 .. n /\ \A j \in 1 .. n : w[j] \notin Untag
          BY <2>6, <3>2
      <4>2. f[1] = top
          BY <2>4, <4>1
      <4> QED BY <2>2, <4>2
    <3> QED BY <3>1, <3>2
  <2> QED BY <2>1, <2>7, <2>8, <2>9 DEF Next_seg
<1>2. WireInv => MsnInSync
    BY <1>1 DEF WireInv, MsnInSync
<1> QED BY <1>2, WireAlways, PTL

--------------------------------------------------------------------------------
(* Completions that are lost *)

\* The completion queues of an end.
Own(h) == {Scq[h], Rcq[h]} \ {NoCq}

\* Unless the application outran a queue, there is room for all that is still
\* to come, and nothing was lost.
Fits(h) ==
    /\ \A c \in Own(h) :
         /\ Len(cq[c]) <= CqCap[c]
         /\ ~over[h] /\ Pending(h, c) > 0 => Len(cq[c]) + Pending(h, c) <= CqCap[c]
    /\ ~over[h] => lost[h] = 0

\* The inductive invariant of the completion queues.
RoomInv == Typed /\ \A h \in Host : Fits(h)

\* A step of h leaves the other end's queues and work alone.
OnlyOf(h) ==
    /\ \A d \in Cq : d \notin Own(h) => cq'[d] = cq[d]
    /\ \A g \in Host : g # h => /\ buf_q'[g] = buf_q[g] /\ rwrq'[g] = rwrq[g]
                                /\ over'[g] = over[g] /\ lost'[g] = lost[g]

\* The ends share no queue.
LEMMA OwnQueues ==
    ASSUME NEW h \in Host
    PROVE  /\ Own(h) \subseteq Cq /\ \A c \in Own(h) : CqCap[c] \in Nat
           /\ \A g \in Host : g # h => Own(g) \cap Own(h) = {}
<1>1. Own(h) \subseteq Cq
    BY QueueOf DEF Own
<1>2. \A c \in Own(h) : CqCap[c] \in Nat
    BY <1>1, RdmapAssumption
<1>3. Own(A) \cap Own(B) = {}
    BY RdmapAssumption DEF Own
<1> QED BY <1>1, <1>2, <1>3 DEF Host

\* The work that will still produce, in numbers.
LEMMA PendingNat ==
    ASSUME Typed, NEW h \in Host, NEW c
    PROVE  /\ Len(buf_q[h]) \in Nat /\ Len(rwrq[h]) \in Nat /\ Pending(h, c) \in Nat
           /\ Pending(h, c) = (IF Rcq[h] = c THEN Len(buf_q[h]) ELSE 0) + (IF Scq[h] = c THEN Len(rwrq[h]) ELSE 0)
<1>1. Len(buf_q[h]) \in Nat /\ Len(rwrq[h]) \in Nat
    BY DEF Typed, TypedWork
<1>2. PICK b \in Nat, q \in Nat : b = Len(buf_q[h]) /\ q = Len(rwrq[h])
    BY <1>1
<1>3. Pending(h, c) = (IF Rcq[h] = c THEN b ELSE 0) + (IF Scq[h] = c THEN q ELSE 0)
    BY <1>2 DEF Pending
<1>4. Pending(h, c) \in Nat
    BY <1>3
<1> QED BY <1>1, <1>2, <1>3, <1>4

\* A queue in numbers.
LEMMA QueueNums ==
    ASSUME Typed, NEW h \in Host, NEW c \in Own(h)
    PROVE  Len(cq[c]) \in Nat /\ Pending(h, c) \in Nat /\ CqCap[c] \in Nat
<1>1. c \in Cq /\ CqCap[c] \in Nat
    BY OwnQueues
<1>2. Len(cq[c]) \in Nat
    BY <1>1 DEF Typed, TypedWork
<1> QED BY <1>1, <1>2, PendingNat

\* The other end is not affected.
LEMMA FitsOther ==
    ASSUME NEW h \in Host, NEW g \in Host, g # h, Fits(g), OnlyOf(h)
    PROVE  Fits(g)'
<1>1. \A d \in Own(g) : d \in Cq /\ cq'[d] = cq[d]
    BY OwnQueues DEF OnlyOf
<1>2. buf_q'[g] = buf_q[g] /\ rwrq'[g] = rwrq[g] /\ over'[g] = over[g] /\ lost'[g] = lost[g]
    BY DEF OnlyOf
<1>3. \A d : Pending(g, d)' = Pending(g, d)
    BY <1>2 DEF Pending
<1> QED BY <1>1, <1>2, <1>3 DEF Fits, Own

\* A call that the queue c has room for, and that completes at once.
LEMMA FitsAtOnce ==
    ASSUME Typed, NEW h \in Host, Fits(h), NEW c, c = Scq[h], ~IsFull(c), NEW es \in Seq(Cqe), Len(es) = 1,
           cq' = ProduceAll(c, es), lost' = [lost EXCEPT ![h] = @ + Dropped(c, es)],
           over' = [over EXCEPT ![h] = @ \/ Overcommits(h, c)], UNCHANGED <<buf_q, rwrq>>
    PROVE  Fits(h)' /\ OnlyOf(h)
<1>1. /\ over \in [Host -> BOOLEAN] /\ lost \in [Host -> Nat] /\ cq \in [Cq -> Seq(Cqe)]
    BY DEF Typed, TypedHist, TypedWork
<1>2. c \in Cq \cup {NoCq}
    BY QueueOf
<1>3. ~over'[h] => ~over[h] /\ ~Overcommits(h, c)
    BY <1>1
<1>4. \A g \in Host : g # h => over'[g] = over[g] /\ lost'[g] = lost[g]
    BY <1>1
<1>5. lost'[h] = lost[h] + Dropped(c, es)
    BY <1>1
<1>6. \A d : Pending(h, d)' = Pending(h, d)
    BY DEF Pending
<1>7. CASE c = NoCq
  <2>1. cq' = cq /\ Dropped(c, es) = 0
      BY <1>1, <1>2, <1>7, Produced
  <2>2. ~over'[h] => lost'[h] = 0
      BY <1>1, <1>3, <1>5, <2>1 DEF Fits
  <2>3. Fits(h)'
      BY <1>3, <1>6, <2>1, <2>2 DEF Fits, Own
  <2>4. OnlyOf(h)
      BY <1>4, <2>1 DEF OnlyOf
  <2> QED BY <2>3, <2>4
<1>8. CASE c # NoCq
  <2>1. /\ c \in Cq /\ c \in Own(h)
        /\ \A d \in Cq : d # c => cq'[d] = cq[d]
      BY <1>1, <1>2, <1>8, Produced DEF Own
  <2>2. PICK L \in Nat, P \in Nat, cap \in Nat : L = Len(cq[c]) /\ P = Pending(h, c) /\ cap = CqCap[c]
      BY <2>1, QueueNums, Zenon
  <2>3. L < cap
      BY <1>8, <2>2 DEF IsFull
  <2>4. Len(cq'[c]) = L + 1 /\ Dropped(c, es) = 0
    <3>1. Len(cq'[c]) = IF L + 1 < cap THEN L + 1 ELSE cap
        BY <1>1, <1>2, <1>8, <2>2, Produced
    <3>2. L + 1 <= cap => Dropped(c, es) = 0
        BY <1>1, <1>2, <1>8, <2>2, Produced
    <3> QED BY <2>3, <3>1, <3>2
  <2>5. ~over'[h] /\ P > 0 => (L + 1) + P <= cap
      BY <1>3, <1>8, <2>2 DEF Overcommits
  <2>6. ASSUME NEW d \in Own(h)
        PROVE  /\ Len(cq'[d]) <= CqCap[d]
               /\ ~over'[h] /\ Pending(h, d)' > 0 => Len(cq'[d]) + Pending(h, d)' <= CqCap[d]
    <3>1. CASE d = c
        BY <1>6, <2>2, <2>3, <2>4, <2>5, <3>1
    <3>2. CASE d # c
      <4>1. cq'[d] = cq[d]
          BY <2>1, <3>2, OwnQueues
      <4> QED BY <1>3, <1>6, <4>1 DEF Fits
    <3> QED BY <3>1, <3>2
  <2>7. ~over'[h] => lost'[h] = 0
      BY <1>1, <1>3, <1>5, <2>4 DEF Fits
  <2>8. Fits(h)'
      BY <2>6, <2>7 DEF Fits, Own
  <2>9. OnlyOf(h)
      BY <1>4, <2>1 DEF OnlyOf
  <2> QED BY <2>8, <2>9
<1> QED BY <1>7, <1>8

\* A call that the queue c has room for now, and that completes later.
LEMMA FitsLater ==
    ASSUME Typed, Typed', NEW h \in Host, Fits(h), NEW c, ~IsFull(c), UNCHANGED <<cq, lost>>,
           over' = [over EXCEPT ![h] = @ \/ Overcommits(h, c)],
           \A g \in Host : g # h => buf_q'[g] = buf_q[g] /\ rwrq'[g] = rwrq[g],
           \/ c = Rcq[h] /\ Len(buf_q'[h]) = Len(buf_q[h]) + 1 /\ rwrq'[h] = rwrq[h]
           \/ c = Scq[h] /\ Len(rwrq'[h]) = Len(rwrq[h]) + 1 /\ buf_q'[h] = buf_q[h]
    PROVE  Fits(h)' /\ OnlyOf(h)
<1>1. over \in [Host -> BOOLEAN] /\ cq \in [Cq -> Seq(Cqe)]
    BY DEF Typed, TypedHist, TypedWork
<1>2. ~over'[h] => ~over[h] /\ ~Overcommits(h, c)
    BY <1>1
<1>3. \A g \in Host : g # h => over'[g] = over[g]
    BY <1>1
<1>4. OnlyOf(h)
    BY <1>3 DEF OnlyOf
<1>5. ASSUME NEW d \in Own(h)
      PROVE  Pending(h, d)' = IF d = c THEN Pending(h, d) + 1 ELSE Pending(h, d)
  <2>1. PICK b \in Nat, q \in Nat : b = Len(buf_q[h]) /\ q = Len(rwrq[h])
      BY PendingNat
  <2>2. Pending(h, d) = (IF Rcq[h] = d THEN b ELSE 0) + (IF Scq[h] = d THEN q ELSE 0)
      BY <2>1 DEF Pending
  <2>3. CASE c = Rcq[h] /\ Len(buf_q'[h]) = Len(buf_q[h]) + 1 /\ rwrq'[h] = rwrq[h]
    <3>1. Pending(h, d)' = (IF Rcq[h] = d THEN b + 1 ELSE 0) + (IF Scq[h] = d THEN q ELSE 0)
        BY <2>1, <2>3 DEF Pending
    <3> QED BY <2>2, <2>3, <3>1
  <2>4. CASE c = Scq[h] /\ Len(rwrq'[h]) = Len(rwrq[h]) + 1 /\ buf_q'[h] = buf_q[h]
    <3>1. Pending(h, d)' = (IF Rcq[h] = d THEN b ELSE 0) + (IF Scq[h] = d THEN q + 1 ELSE 0)
        BY <2>1, <2>4 DEF Pending
    <3> QED BY <2>2, <2>4, <3>1
  <2> QED BY <2>3, <2>4
<1>6. ASSUME NEW d \in Own(h)
      PROVE  /\ Len(cq[d]) <= CqCap[d]
             /\ ~over'[h] /\ Pending(h, d)' > 0 => Len(cq[d]) + Pending(h, d)' <= CqCap[d]
  <2>1. PICK L \in Nat, P \in Nat, cap \in Nat : L = Len(cq[d]) /\ P = Pending(h, d) /\ cap = CqCap[d]
      BY QueueNums, Zenon
  <2>2. L <= cap /\ (~over[h] /\ P > 0 => L + P <= cap)
      BY <2>1 DEF Fits
  <2>3. CASE d = c
    <3>1. L < cap
        BY <2>1, <2>3 DEF IsFull, Own
    <3>2. ~over'[h] /\ P > 0 => L + P < cap
        BY <1>2, <2>1, <2>3 DEF Overcommits, Own
    <3> QED BY <1>5, <2>1, <2>3, <3>1, <3>2
  <2>4. CASE d # c
      BY <1>2, <1>5, <2>1, <2>2, <2>4
  <2> QED BY <2>3, <2>4
<1>7. ~over'[h] => lost'[h] = 0
    BY <1>2 DEF Fits
<1>8. Fits(h)'
    BY <1>6, <1>7 DEF Fits, Own
<1> QED BY <1>4, <1>8

\* Work that completes: n requests leave the lists and n completions are
\* produced, into the queue they wait for or into none.
LEMMA FitsDone ==
    ASSUME Typed, Typed', NEW h \in Host, Fits(h), NEW c \in Cq \cup {NoCq}, NEW n \in Nat,
           NEW es \in Seq(Cqe), Len(es) = n,
           cq' = ProduceAll(c, es), lost' = [lost EXCEPT ![h] = @ + Dropped(c, es)], UNCHANGED over,
           \A g \in Host : g # h => buf_q'[g] = buf_q[g] /\ rwrq'[g] = rwrq[g],
           \/ /\ c \in {Rcq[h], NoCq} /\ rwrq'[h] = rwrq[h]
              /\ Len(buf_q[h]) = Len(buf_q'[h]) + n
           \/ /\ c \in {Scq[h], NoCq} /\ buf_q'[h] = buf_q[h]
              /\ Len(rwrq[h]) = Len(rwrq'[h]) + n
    PROVE  Fits(h)' /\ OnlyOf(h)
<1>1. /\ over \in [Host -> BOOLEAN] /\ lost \in [Host -> Nat] /\ cq \in [Cq -> Seq(Cqe)]
    BY DEF Typed, TypedHist, TypedWork
<1>2. lost'[h] = lost[h] + Dropped(c, es) /\ \A g \in Host : g # h => lost'[g] = lost[g]
    BY <1>1
<1>3. PICK b \in Nat, q \in Nat, b2 \in Nat, q2 \in Nat :
         b = Len(buf_q[h]) /\ q = Len(rwrq[h]) /\ b2 = Len(buf_q'[h]) /\ q2 = Len(rwrq'[h])
  <2>1. Len(buf_q'[h]) \in Nat /\ Len(rwrq'[h]) \in Nat
      BY DEF Typed, TypedWork
  <2> QED BY <2>1, PendingNat
<1>4. ASSUME NEW d \in Own(h)
      PROVE  /\ Pending(h, d)' \in Nat /\ Pending(h, d)' <= Pending(h, d)
             /\ d = c => Pending(h, d) = Pending(h, d)' + n
  <2>1. /\ Pending(h, d) = (IF Rcq[h] = d THEN b ELSE 0) + (IF Scq[h] = d THEN q ELSE 0)
        /\ Pending(h, d)' = (IF Rcq[h] = d THEN b2 ELSE 0) + (IF Scq[h] = d THEN q2 ELSE 0)
      BY <1>3 DEF Pending
  <2>2. \/ c \in {Rcq[h], NoCq} /\ q2 = q /\ b = b2 + n
        \/ c \in {Scq[h], NoCq} /\ b2 = b /\ q = q2 + n
      BY <1>3
  <2>3. d # NoCq
      BY DEF Own
  <2> QED BY <2>1, <2>2, <2>3
<1>5. CASE c = NoCq
  <2>1. cq' = cq /\ Dropped(c, es) = 0
      BY <1>1, <1>5, Produced
  <2>2. ASSUME NEW d \in Own(h)
        PROVE  /\ Len(cq'[d]) <= CqCap[d]
               /\ ~over'[h] /\ Pending(h, d)' > 0 => Len(cq'[d]) + Pending(h, d)' <= CqCap[d]
    <3>1. PICK L \in Nat, P \in Nat, P2 \in Nat, cap \in Nat :
             L = Len(cq[d]) /\ P = Pending(h, d) /\ P2 = Pending(h, d)' /\ cap = CqCap[d]
        BY <1>4, QueueNums, Zenon
    <3>2. P2 <= P /\ L <= cap /\ (~over[h] /\ P > 0 => L + P <= cap)
        BY <1>4, <3>1 DEF Fits
    <3> QED BY <2>1, <3>1, <3>2
  <2>3. ~over'[h] => lost'[h] = 0
      BY <1>1, <1>2, <2>1 DEF Fits
  <2>4. Fits(h)'
      BY <2>2, <2>3 DEF Fits, Own
  <2>5. OnlyOf(h)
      BY <1>2, <2>1 DEF OnlyOf
  <2> QED BY <2>4, <2>5
<1>6. CASE c # NoCq
  <2>1. /\ c \in Cq /\ c \in Own(h)
        /\ \A d \in Cq : d # c => cq'[d] = cq[d]
      BY <1>1, <1>6, Produced DEF Own
  <2>2. PICK L \in Nat, P \in Nat, P2 \in Nat, cap \in Nat :
           L = Len(cq[c]) /\ P = Pending(h, c) /\ P2 = Pending(h, c)' /\ cap = CqCap[c]
      BY <1>4, <2>1, QueueNums, Zenon
  <2>3. P = P2 + n /\ L <= cap /\ (~over[h] /\ P > 0 => L + P <= cap)
      BY <1>4, <2>1, <2>2 DEF Fits
  <2>4. /\ Len(cq'[c]) = IF L + n < cap THEN L + n ELSE cap
        /\ L + n <= cap => Dropped(c, es) = 0
      BY <1>1, <1>6, <2>2, Produced
  <2>5. ~over[h] => Dropped(c, es) = 0
    <3>1. CASE n = 0
        BY <2>3, <2>4, <3>1
    <3>2. CASE n > 0
        BY <2>3, <2>4, <3>2
    <3> QED BY <3>1, <3>2
  <2>6. ASSUME NEW d \in Own(h)
        PROVE  /\ Len(cq'[d]) <= CqCap[d]
               /\ ~over'[h] /\ Pending(h, d)' > 0 => Len(cq'[d]) + Pending(h, d)' <= CqCap[d]
    <3>1. CASE d = c
      <4>1. Len(cq'[c]) <= cap
          BY <2>4
      <4>2. ~over[h] /\ P2 > 0 => Len(cq'[c]) + P2 <= cap
          BY <2>3, <2>4
      <4> QED BY <2>2, <3>1, <4>1, <4>2
    <3>2. CASE d # c
      <4>1. cq'[d] = cq[d]
          BY <2>1, <3>2, OwnQueues
      <4>2. PICK M \in Nat, Q \in Nat, Q2 \in Nat, cap2 \in Nat :
               M = Len(cq[d]) /\ Q = Pending(h, d) /\ Q2 = Pending(h, d)' /\ cap2 = CqCap[d]
          BY <1>4, QueueNums, Zenon
      <4>3. Q2 <= Q /\ M <= cap2 /\ (~over[h] /\ Q > 0 => M + Q <= cap2)
          BY <1>4, <4>2 DEF Fits
      <4> QED BY <4>1, <4>2, <4>3
    <3> QED BY <3>1, <3>2
  <2>7. ~over'[h] => lost'[h] = 0
      BY <1>1, <1>2, <2>5 DEF Fits
  <2>8. Fits(h)'
      BY <2>6, <2>7 DEF Fits, Own
  <2>9. OnlyOf(h)
      BY <1>2, <2>1 DEF OnlyOf
  <2> QED BY <2>8, <2>9
<1> QED BY <1>5, <1>6

\* At the start the queues are empty.
LEMMA RoomInit ==
    ASSUME Init
    PROVE  RoomInv
<1>1. Typed
    BY TypedInit
<1>2. ASSUME NEW h \in Host PROVE Fits(h)
  <2>1. Len(<<>>) = 0
      BY EmptySeq
  <2>2. buf_q[h] = <<>> /\ rwrq[h] = <<>> /\ lost[h] = 0 /\ \A c \in Own(h) : Len(cq[c]) = 0
      BY <2>1, OwnQueues DEF Init
  <2>3. \A c : Pending(h, c) = 0
      BY <2>1, <2>2 DEF Pending
  <2> QED BY <2>2, <2>3, OwnQueues DEF Fits
<1> QED BY <1>1, <1>2 DEF RoomInv

\* Every step keeps the invariant of the completion queues.
LEMMA RoomNext ==
    ASSUME RoomInv, [Next]_vars
    PROVE  RoomInv'
<1>1. Typed /\ Typed'
    BY TypedNext DEF RoomInv
<1>2. \A h \in Host : Fits(h)
    BY DEF RoomInv
<1>3. ASSUME NEW h \in Host, Fits(h)' /\ OnlyOf(h) PROVE RoomInv'
  <2>1. ASSUME NEW g \in Host PROVE Fits(g)'
      BY <1>2, <1>3, FitsOther
  <2> QED BY <1>1, <2>1 DEF RoomInv
<1>4. ASSUME UNCHANGED <<cq, buf_q, rwrq, over, lost>> PROVE RoomInv'
  <2>1. ASSUME NEW g \in Host PROVE Fits(g)'
      BY <1>2, <1>4 DEF Fits, Own, Pending
  <2> QED BY <1>1, <2>1 DEF RoomInv
<1>5. /\ buf_q \in [Host -> Seq(Buf)] /\ rwrq \in [Host -> Seq(Rwr)] /\ ops \in [Host -> Seq(Op)]
      /\ posts \in [Host -> Seq(Nat)]
    BY <1>1 DEF Typed, TypedWork, TypedHist
<1>6. CASE UNCHANGED vars
    BY <1>4, <1>6 DEF vars, hist
<1>7. CASE Next
  <2>1. PICK h \in Host :
          \/ \E len \in SendLens : rdmap_send(h, len)
          \/ \E stag \in Stag, len \in WriteLens : rdmap_rdma_write(h, stag, WriteTo, len)
          \/ \E sink \in Stag, src \in Stag, len \in ReadLens : rdmap_rdma_read(h, sink, len, src)
          \/ \E len \in BufLens : rdmap_post_recv(h, len)
          \/ \E c \in Cq : cq_consume(h, c)
          \/ \E stag \in Stag : mem_stag_destroy(h, stag)
          \/ mpa_recv(h)
          \/ recv_eof(h)
      BY <1>7 DEF Next
  <2>2. Fits(h)
      BY <1>2
  <2>3. ASSUME NEW len \in SendLens, rdmap_send(h, len) PROVE RoomInv'
    <3>1. len \in Nat /\ OpId(h) \in Nat
        BY <1>5, RdmapAssumption DEF OpId
    <3>2. PICK es \in Seq(Cqe) : es = <<SendCqe("OP_SEND", OpId(h), len)>> /\ Len(es) = 1
      <4>1. <<SendCqe("OP_SEND", OpId(h), len)>> \in Seq(Cqe) /\ Len(<<SendCqe("OP_SEND", OpId(h), len)>>) = 1
          BY <3>1, SendCqeType DEF SendCqe
      <4> QED BY <4>1, Zenon
    <3>3. cq' = ProduceAll(Scq[h], es) /\ lost' = [lost EXCEPT ![h] = @ + Dropped(Scq[h], es)]
          /\ UNCHANGED <<buf_q, rwrq>>
        BY <2>3, <3>2 DEF rdmap_send
    <3>4. ~IsFull(Scq[h]) /\ over' = [over EXCEPT ![h] = @ \/ Overcommits(h, Scq[h])]
        BY <2>3 DEF rdmap_send, Issue
    <3> QED BY <1>1, <1>3, <2>2, <3>2, <3>3, <3>4, FitsAtOnce
  <2>4. ASSUME NEW stag \in Stag, NEW len \in WriteLens, rdmap_rdma_write(h, stag, WriteTo, len) PROVE RoomInv'
    <3>1. len \in Nat /\ OpId(h) \in Nat
        BY <1>5, RdmapAssumption DEF OpId
    <3>2. PICK es \in Seq(Cqe) : es = <<SendCqe("OP_RDMA_WRITE", OpId(h), len)>> /\ Len(es) = 1
      <4>1. /\ <<SendCqe("OP_RDMA_WRITE", OpId(h), len)>> \in Seq(Cqe)
            /\ Len(<<SendCqe("OP_RDMA_WRITE", OpId(h), len)>>) = 1
          BY <3>1, SendCqeType DEF SendCqe
      <4> QED BY <4>1, Zenon
    <3>3. cq' = ProduceAll(Scq[h], es) /\ lost' = [lost EXCEPT ![h] = @ + Dropped(Scq[h], es)]
          /\ UNCHANGED <<buf_q, rwrq>>
        BY <2>4, <3>2 DEF rdmap_rdma_write
    <3>4. ~IsFull(Scq[h]) /\ over' = [over EXCEPT ![h] = @ \/ Overcommits(h, Scq[h])]
        BY <2>4 DEF rdmap_rdma_write, Issue
    <3> QED BY <1>1, <1>3, <2>2, <3>2, <3>3, <3>4, FitsAtOnce
  <2>5. ASSUME NEW sink \in Stag, NEW src \in Stag, NEW len \in ReadLens, rdmap_rdma_read(h, sink, len, src)
        PROVE  RoomInv'
    <3>1. /\ ~IsFull(Scq[h]) /\ over' = [over EXCEPT ![h] = @ \/ Overcommits(h, Scq[h])]
          /\ UNCHANGED <<cq, lost, buf_q>>
        BY <2>5 DEF rdmap_rdma_read, Issue
    <3>2. PICK e \in Rwr : rwrq' = [rwrq EXCEPT ![h] = Append(@, e)]
      <4>1. OpId(h) \in Nat
          BY <1>5 DEF OpId
      <4>2. [id |-> OpId(h), stag |-> sink, done |-> FALSE, len |-> 0] \in Rwr
          BY <4>1 DEF Rwr
      <4>3. rwrq' = [rwrq EXCEPT ![h] = Append(@, [id |-> OpId(h), stag |-> sink, done |-> FALSE, len |-> 0])]
          BY <2>5 DEF rdmap_rdma_read
      <4> QED BY <4>2, <4>3, Zenon
    <3>3. PICK q \in Seq(Rwr) : q = rwrq[h]
        BY <1>5
    <3>4. Len(Append(q, e)) = Len(q) + 1
        BY AppendProperties
    <3>5. Len(rwrq'[h]) = Len(rwrq[h]) + 1 /\ \A g \in Host : g # h => rwrq'[g] = rwrq[g]
        BY <1>5, <3>2, <3>3, <3>4
    <3> QED BY <1>1, <1>3, <2>2, <3>1, <3>5, FitsLater
  <2>6. ASSUME NEW len \in BufLens, rdmap_post_recv(h, len) PROVE RoomInv'
    <3>1. /\ ~IsFull(Rcq[h]) /\ over' = [over EXCEPT ![h] = @ \/ Overcommits(h, Rcq[h])]
          /\ UNCHANGED <<cq, lost, rwrq>>
        BY <2>6 DEF rdmap_post_recv
    <3>2. PICK e \in Buf : buf_q' = [buf_q EXCEPT ![h] = Append(@, e)]
      <4>1. Len(posts[h]) + 1 \in Nat /\ len \in Nat
          BY <1>5, RdmapAssumption
      <4>2. [id |-> Len(posts[h]) + 1, len |-> len, got |-> {}] \in Buf
          BY <4>1 DEF Buf
      <4>3. buf_q' = [buf_q EXCEPT ![h] = Append(@, [id |-> Len(posts[h]) + 1, len |-> len, got |-> {}])]
          BY <2>6 DEF rdmap_post_recv
      <4> QED BY <4>2, <4>3, Zenon
    <3>3. PICK q \in Seq(Buf) : q = buf_q[h]
        BY <1>5
    <3>4. Len(Append(q, e)) = Len(q) + 1
        BY AppendProperties
    <3>5. Len(buf_q'[h]) = Len(buf_q[h]) + 1 /\ \A g \in Host : g # h => buf_q'[g] = buf_q[g]
        BY <1>5, <3>2, <3>3, <3>4
    <3> QED BY <1>1, <1>3, <2>2, <3>1, <3>5, FitsLater
  <2>7. ASSUME NEW c \in Cq, cq_consume(h, c) PROVE RoomInv'
    <3>1. Len(cq'[c]) = Len(cq[c]) - 1 /\ \A d \in Cq : d # c => cq'[d] = cq[d]
        BY <1>1, <2>7, ConsumeStep
    <3>2. c \in Own(h) /\ UNCHANGED <<buf_q, rwrq, over, lost>>
        BY <2>7 DEF cq_consume, hist, Own
    <3>3. \A d : Pending(h, d)' = Pending(h, d)
        BY <3>2 DEF Pending
    <3>4. ASSUME NEW d \in Own(h)
          PROVE  /\ Len(cq'[d]) <= CqCap[d]
                 /\ ~over[h] /\ Pending(h, d) > 0 => Len(cq'[d]) + Pending(h, d) <= CqCap[d]
      <4>1. PICK L \in Nat, P \in Nat, cap \in Nat : L = Len(cq[d]) /\ P = Pending(h, d) /\ cap = CqCap[d]
          BY <1>1, QueueNums, Zenon
      <4>2. L <= cap /\ (~over[h] /\ P > 0 => L + P <= cap)
          BY <2>2, <4>1 DEF Fits
      <4>3. Len(cq'[d]) = L \/ Len(cq'[d]) = L - 1
          BY <3>1, <4>1, OwnQueues
      <4> QED BY <4>1, <4>2, <4>3
    <3>5. Fits(h)'
        BY <2>2, <3>2, <3>3, <3>4 DEF Fits, Own
    <3>6. OnlyOf(h)
        BY <3>1, <3>2 DEF OnlyOf
    <3> QED BY <1>3, <3>5, <3>6
  <2>8. ASSUME NEW stag \in Stag, mem_stag_destroy(h, stag) PROVE RoomInv'
      BY <1>4, <2>8 DEF mem_stag_destroy, hist
  <2>9. CASE recv_eof(h)
      BY <1>4, <2>9 DEF recv_eof, hist
  <2>10. CASE recv_send(h)
    <3>1. PICK seg \in Seg, b \in Buf, f \in Buf, len \in Nat, q \in Seq(Buf) : RecvSend(h, seg, b, f, len, q)
        BY <1>1, <2>10, RecvSendStep
    <3>2. seg.last \in BOOLEAN /\ q = buf_q[h] /\ q # <<>> /\ UNCHANGED <<rwrq, over>>
        BY <2>10, <3>1, SegFields DEF RecvSend, recv_send
    <3>3. Tail(q) \in Seq(Buf) /\ Len(Tail(q)) = Len(q) - 1 /\ Len(q) \in Nat \ {0}
        BY <3>2, HeadTailProperties, EmptySeq
    <3>4. CASE seg.last
      <4>1. PICK es \in Seq(Cqe) :
              /\ Len(es) = 1 /\ cq' = ProduceAll(Rcq[h], es)
              /\ lost' = [lost EXCEPT ![h] = @ + Dropped(Rcq[h], es)]
          BY <3>1, <3>4 DEF RecvSend
      <4>2. buf_q' = [buf_q EXCEPT ![h] = Tail(q)]
          BY <3>1, <3>4 DEF RecvSend
      <4>3. \A g \in Host : g # h => buf_q'[g] = buf_q[g] /\ rwrq'[g] = rwrq[g]
          BY <1>5, <3>2, <4>2
      <4>4. Len(buf_q[h]) = Len(buf_q'[h]) + 1 /\ rwrq'[h] = rwrq[h]
          BY <1>5, <3>2, <3>3, <4>2
      <4>5. Rcq[h] \in Cq \cup {NoCq}
          BY QueueOf
      <4> QED BY <1>1, <1>3, <2>2, <3>2, <4>1, <4>3, <4>4, <4>5, FitsDone
    <3>5. CASE ~seg.last
      <4>1. buf_q' = [buf_q EXCEPT ![h] = <<f>> \o Tail(q)] /\ UNCHANGED <<cq, lost>>
          BY <3>1, <3>5 DEF RecvSend
      <4>2. <<f>> \in Seq(Buf) /\ Len(<<f>>) = 1
          OBVIOUS
      <4>3. Len(<<f>> \o Tail(q)) = 1 + (Len(q) - 1)
          BY <3>3, <4>2, ConcatProperties
      <4>4. Len(buf_q'[h]) = Len(buf_q[h]) /\ \A g \in Host : g # h => buf_q'[g] = buf_q[g]
          BY <1>5, <3>2, <3>3, <4>1, <4>3
      <4>5. \A d : Pending(h, d)' = Pending(h, d)
          BY <3>2, <4>4 DEF Pending
      <4>6. Fits(h)'
          BY <2>2, <3>2, <4>1, <4>5 DEF Fits, Own
      <4>7. OnlyOf(h)
          BY <3>2, <4>1, <4>4 DEF OnlyOf
      <4> QED BY <1>3, <4>6, <4>7
    <3> QED BY <3>2, <3>4, <3>5
  <2>11. CASE recv_rdma_read_req(h)
      BY <1>4, <2>11 DEF recv_rdma_read_req, hist
  <2>12. CASE recv_tagged(h)
      BY <1>4, <2>12 DEF recv_tagged, Place
  <2>13. CASE recv_read_resp(h)
    <3>1. PICK seg \in Seg, m \in Seq(Rwr), len \in Nat, k \in Nat, why \in Status, es \in Seq(Cqe) :
            RecvResp(h, seg, m, len, k, why, es)
        BY <1>1, <2>13, RespStep
    <3>2. PICK q \in Seq(Rwr) : q = rwrq[h]
        BY <1>5
    <3>3. m = Marked(q, seg, len) /\ Len(m) = Len(q) /\ Len(q) \in Nat
        BY <3>1, <3>2, MarkedSeq DEF RecvResp
    <3>4. k \in 0 .. Len(m) /\ rwrq' = [rwrq EXCEPT ![h] = SubSeq(m, k + 1, Len(m))]
        BY <3>1 DEF RecvResp
    <3>5. Len(SubSeq(m, k + 1, Len(m))) = Len(m) - k
      <4>1. \A i \in k + 1 .. Len(m) : m[i] \in Rwr
          BY <3>4, ElementOfSeq
      <4>2. Len(SubSeq(m, k + 1, Len(m))) = IF k + 1 <= Len(m) THEN Len(m) - (k + 1) + 1 ELSE 0
          BY <3>3, <3>4, <4>1, SubSeqProperties
      <4> QED BY <3>3, <3>4, <4>2
    <3>6. Len(rwrq[h]) = Len(rwrq'[h]) + k /\ \A g \in Host : g # h => rwrq'[g] = rwrq[g]
        BY <1>5, <3>2, <3>3, <3>4, <3>5
    <3>7. UNCHANGED <<buf_q, over>>
        BY <2>13 DEF recv_read_resp, Place
    <3>8. PICK c \in Cq \cup {NoCq} : c = IF Rcq[h] = NoCq THEN NoCq ELSE Scq[h]
        BY QueueOf
    <3>9. cq' = ProduceAll(c, es) /\ lost' = [lost EXCEPT ![h] = @ + Dropped(c, es)] /\ Len(es) = k
        BY <3>1, <3>8 DEF RecvResp
    <3>10. c \in {Scq[h], NoCq}
        BY <3>8
    <3>11. \A g \in Host : g # h => buf_q'[g] = buf_q[g] /\ rwrq'[g] = rwrq[g]
        BY <3>6, <3>7
    <3>12. buf_q'[h] = buf_q[h] /\ UNCHANGED over
        BY <3>7
    <3> QED BY <1>1, <1>3, <2>2, <3>6, <3>9, <3>10, <3>11, <3>12, FitsDone
  <2>14. CASE recv_send_no_sink(h) \/ recv_rdma_read_req_no_src(h) \/ recv_tagged_no_sink(h)
    <3>1. PICK why \in Status : Stop(h, why)
        BY <2>14, Stops
    <3> QED BY <1>4, <3>1 DEF Stop, hist
  <2> QED BY <2>1, <2>3, <2>4, <2>5, <2>6, <2>7, <2>8, <2>9, <2>10, <2>11, <2>12, <2>13, <2>14 DEF mpa_recv
<1> QED BY <1>6, <1>7

\* A completion is dropped by a full queue only after the application was let
\* in although receives and reads under way had claimed all the room, for any
\* queue sizes and whether or not the directions share a queue.
THEOREM NothingLostUnlessOvercommitted == Spec => []LossOnlyIfOvercommitted
<1>1. Init => RoomInv
    BY RoomInit
<1>2. RoomInv /\ [Next]_vars => RoomInv'
    BY RoomNext
<1>3. RoomInv => LossOnlyIfOvercommitted
  <2>1. ASSUME RoomInv, NEW h \in Host, lost[h] > 0 PROVE over[h]
    <3>1. over[h] \in BOOLEAN /\ (~over[h] => lost[h] = 0)
        BY <2>1 DEF RoomInv, Typed, TypedHist, Fits
    <3> QED BY <2>1, <3>1
  <2> QED BY <2>1 DEF LossOnlyIfOvercommitted
<1> QED BY <1>1, <1>2, <1>3, PTL DEF Spec

--------------------------------------------------------------------------------
(* The operations of one kind, counted *)

\* The operations of a kind, those up to the i-th operation, and their number.
Among(o, name) == {i \in 1 .. Len(o) : o[i].op = name}
Upto(o, name, i) == {j \in Among(o, name) : j <= i}
Rank(o, name, i) == Cardinality(Upto(o, name, i))
Total(o, name) == Cardinality(Among(o, name))

\* Operations of a kind have different ranks, in their order.
LEMMA RankOrder ==
    ASSUME NEW o \in Seq(Op), NEW name
    PROVE  /\ IsFiniteSet(Among(o, name)) /\ Total(o, name) \in Nat
           /\ \A i \in Nat : Rank(o, name, i) \in Nat /\ Rank(o, name, i) <= Total(o, name)
           /\ \A i, j \in Among(o, name) : i < j => Rank(o, name, i) < Rank(o, name, j)
           /\ \A i, j \in Among(o, name) : Rank(o, name, i) = Rank(o, name, j) => i = j
<1>1. PICK n \in Nat : n = Len(o)
    OBVIOUS
<1>2. PICK S \in SUBSET (1 .. n) : S = Among(o, name)
    BY <1>1 DEF Among
<1>3. IsFiniteSet(S) /\ Cardinality(S) \in Nat
  <2>1. IsFiniteSet(1 .. n)
      BY FS_Interval
  <2> QED BY <2>1, FS_Subset, FS_CardinalityType
<1>4. ASSUME NEW i \in Nat
      PROVE  /\ Rank(o, name, i) \in Nat /\ Rank(o, name, i) <= Cardinality(S)
             /\ IsFiniteSet(Upto(o, name, i))
  <2>1. Upto(o, name, i) \in SUBSET S
      BY <1>2 DEF Upto
  <2> QED BY <1>3, <2>1, FS_Subset, FS_CardinalityType DEF Rank
<1>5. ASSUME NEW i \in S, NEW j \in S, i < j PROVE Rank(o, name, i) < Rank(o, name, j)
  <2>1. i \in Nat /\ j \in Nat
      OBVIOUS
  <2>2. PICK T, U : T = Upto(o, name, i) /\ U = Upto(o, name, j)
      OBVIOUS
  <2>3. T \in SUBSET U /\ j \in U /\ j \notin T
      BY <1>2, <1>5, <2>1, <2>2 DEF Upto
  <2>4. IsFiniteSet(U) /\ Cardinality(T) \in Nat /\ Cardinality(U) \in Nat
      BY <1>4, <2>1, <2>2 DEF Rank
  <2>5. Cardinality(T) <= Cardinality(U) /\ Cardinality(T) # Cardinality(U)
      BY <2>3, <2>4, FS_Subset
  <2> QED BY <2>2, <2>4, <2>5 DEF Rank
<1>6. ASSUME NEW i \in S, NEW j \in S, Rank(o, name, i) = Rank(o, name, j) PROVE i = j
  <2>1. i \in Nat /\ j \in Nat
      OBVIOUS
  <2>2. Rank(o, name, i) \in Nat /\ Rank(o, name, j) \in Nat
      BY <1>4, <2>1
  <2>3. ~(i < j) /\ ~(j < i)
      BY <1>5, <1>6, <2>2
  <2> QED BY <2>1, <2>3
<1> QED BY <1>2, <1>3, <1>4, <1>5, <1>6 DEF Total

\* p is o with the operation e behind it: no earlier rank changes.
Longer(o, e, p, name) ==
    /\ p \in Seq(Op) /\ Len(p) = Len(o) + 1 /\ p[Len(o) + 1] = e
    /\ \A i \in 1 .. Len(o) : p[i] = o[i] /\ Rank(p, name, i) = Rank(o, name, i)
    /\ Among(p, name) = IF e.op = name THEN Among(o, name) \cup {Len(o) + 1} ELSE Among(o, name)
    /\ Total(p, name) = IF e.op = name THEN Total(o, name) + 1 ELSE Total(o, name)
    /\ e.op = name => Rank(p, name, Len(o) + 1) = Total(o, name) + 1

\* A new operation.
LEMMA RankAppend ==
    ASSUME NEW o \in Seq(Op), NEW e \in Op, NEW name, NEW p, p = Append(o, e)
    PROVE  Longer(o, e, p, name)
<1>1. PICK n \in Nat : n = Len(o)
    OBVIOUS
<1>2. /\ p \in Seq(Op) /\ Len(p) = n + 1 /\ p[n + 1] = e
      /\ \A i \in 1 .. n : p[i] = o[i]
    BY <1>1, AppendProperties
<1>3. PICK S, T : S = Among(o, name) /\ T = Among(p, name)
    OBVIOUS
<1>4. S \in SUBSET (1 .. n)
    BY <1>1, <1>3 DEF Among
<1>5. T = IF e.op = name THEN S \cup {n + 1} ELSE S
  <2>1. ASSUME NEW i PROVE i \in T <=> (i \in S \/ (i = n + 1 /\ e.op = name))
    <3>1. i \in 1 .. n + 1 <=> (i \in 1 .. n \/ i = n + 1)
        OBVIOUS
    <3>2. n + 1 \notin 1 .. n
        OBVIOUS
    <3> QED BY <1>1, <1>2, <1>3, <3>1, <3>2 DEF Among
  <2> QED BY <2>1
<1>6. IsFiniteSet(S) /\ Cardinality(S) \in Nat /\ Cardinality(S) = Total(o, name)
    BY <1>3, RankOrder DEF Total
<1>7. Total(p, name) = IF e.op = name THEN Total(o, name) + 1 ELSE Total(o, name)
  <2>1. n + 1 \notin S
      BY <1>4
  <2>2. Cardinality(S \cup {n + 1}) = Cardinality(S) + 1
      BY <1>6, <2>1, FS_AddElement
  <2> QED BY <1>3, <1>5, <1>6, <2>2 DEF Total
<1>8. ASSUME NEW i \in 1 .. n PROVE Rank(p, name, i) = Rank(o, name, i)
  <2>1. ~(n + 1 <= i)
      OBVIOUS
  <2>2. Upto(p, name, i) = Upto(o, name, i)
      BY <1>3, <1>5, <2>1 DEF Upto
  <2> QED BY <2>2 DEF Rank
<1>9. e.op = name => Rank(p, name, n + 1) = Total(o, name) + 1
  <2>1. \A i \in T : i <= n + 1
      BY <1>4, <1>5
  <2>2. Upto(p, name, n + 1) = T
      BY <1>3, <2>1 DEF Upto
  <2> QED BY <1>3, <1>7, <2>2 DEF Rank, Total
<1> QED BY <1>1, <1>2, <1>3, <1>5, <1>7, <1>8, <1>9 DEF Longer

\* A sequence over a set is one over any larger set.
LEMMA SeqWithin ==
    ASSUME NEW X, NEW Y, NEW w \in Seq(X), \A i \in 1 .. Len(w) : w[i] \in Y
    PROVE  w \in Seq(Y)
<1>1. PICK n \in Nat : n = Len(w)
    OBVIOUS
<1>2. w = [i \in 1 .. n |-> w[i]]
    BY <1>1
<1>3. [i \in 1 .. n |-> w[i]] \in [1 .. n -> Y]
    BY <1>1
<1>4. w \in [1 .. n -> Y]
    BY <1>2, <1>3
<1> QED BY <1>4, SeqDef

--------------------------------------------------------------------------------
(* Segments and the operations they belong to *)

\* Segments of kind op belong to operations of their kind and stay within them.
Within(op, o, name) ==
    {x \in Seg : x.op = op => /\ x.what.for \in Among(o, name)
                              /\ x.off + x.len <= o[x.what.for].len
                              /\ x.last => x.off + x.len = o[x.what.for].len}

\* An operation of its kind adds its own segments, any other adds others.
LEMMA WithinIssue ==
    ASSUME NEW o \in Seq(Op), NEW e \in Op, NEW p, p = Append(o, e), NEW op, NEW name,
           NEW w \in Seq(Within(op, o, name)),
           NEW s, NEW sop, NEW what, NEW m, Carries(s, sop, what, m),
           sop = op => e.op = name /\ m = e.len /\ what.for = Len(o) + 1
    PROVE  w \o s \in Seq(Within(op, p, name))
<1>0. Longer(o, e, p, name)
    BY RankAppend
<1>1. PICK n \in Nat : n = Len(o)
    OBVIOUS
<1>2. /\ \A i \in 1 .. n : p[i] = o[i]
      /\ p[n + 1] = e
      /\ Among(p, name) = IF e.op = name THEN Among(o, name) \cup {n + 1} ELSE Among(o, name)
    BY <1>0, <1>1 DEF Longer
<1>3. PICK X, Y : X = Within(op, o, name) /\ Y = Within(op, p, name)
    OBVIOUS
<1>4. X \subseteq Y
  <2>1. ASSUME NEW x \in X PROVE x \in Y
    <3>1. x \in Seg
        BY <1>3 DEF Within
    <3>2. CASE x.op # op
        BY <1>3, <3>1, <3>2 DEF Within
    <3>3. CASE x.op = op
      <4>1. /\ x.what.for \in Among(o, name)
            /\ x.off + x.len <= o[x.what.for].len
            /\ x.last => x.off + x.len = o[x.what.for].len
          BY <1>3, <3>3 DEF Within
      <4>2. x.what.for \in 1 .. n
          BY <1>1, <4>1 DEF Among
      <4>3. p[x.what.for] = o[x.what.for] /\ x.what.for \in Among(p, name)
          BY <1>2, <4>1, <4>2
      <4> QED BY <1>3, <3>1, <4>1, <4>3 DEF Within
    <3> QED BY <3>2, <3>3
  <2> QED BY <2>1
<1>5. w \in Seq(Y)
  <2>1. w \in Seq(X)
      BY <1>3
  <2>2. \A i \in 1 .. Len(w) : w[i] \in Y
      BY <1>4, <2>1, ElementOfSeq
  <2> QED BY <2>1, <2>2, SeqWithin
<1>6. s \in Seq(Seg)
    BY DEF Carries, Message
<1>7. ASSUME NEW i \in 1 .. Len(s) PROVE s[i] \in Y
  <2>1. /\ s[i].op = sop /\ s[i].what = what /\ s[i].off + s[i].len <= m
        /\ s[i].last => s[i].off + s[i].len = m
      BY DEF Carries
  <2>2. s[i] \in Seg
      BY <1>6, ElementOfSeq
  <2>3. sop = op => what.for = n + 1 /\ n + 1 \in Among(p, name) /\ p[n + 1].len = m
      BY <1>1, <1>2
  <2> QED BY <1>3, <2>1, <2>2, <2>3 DEF Within
<1>8. s \in Seq(Y)
    BY <1>6, <1>7, SeqWithin
<1> QED BY <1>3, <1>5, <1>8, ConcatProperties

\* A message of another kind.
LEMMA WithinOther ==
    ASSUME NEW o, NEW op, NEW name, NEW w \in Seq(Within(op, o, name)),
           NEW s, NEW sop, NEW what, NEW m, Carries(s, sop, what, m), sop # op
    PROVE  w \o s \in Seq(Within(op, o, name))
<1>1. PICK X : X = Within(op, o, name)
    OBVIOUS
<1>2. s \in Seq(Seg)
    BY DEF Carries, Message
<1>3. ASSUME NEW i \in 1 .. Len(s) PROVE s[i] \in X
  <2>1. s[i].op = sop /\ s[i] \in Seg
      BY <1>2, ElementOfSeq DEF Carries
  <2> QED BY <1>1, <2>1 DEF Within
<1>4. s \in Seq(X)
    BY <1>2, <1>3, SeqWithin
<1> QED BY <1>1, <1>4, ConcatProperties

--------------------------------------------------------------------------------
(* Sends *)

SendK == {x \in Seg : x.op = "SEND"}

\* g numbers the sends of o along the wire.
SendCount(w, o, g) ==
    /\ Numbered(w, SendK, g, Total(o, "SEND") + 1)
    /\ \A i \in 1 .. Len(w) : w[i].op = "SEND" => Rank(o, "SEND", w[i].what.for) = g[i]

\* The sends are numbered, starting with the number n.
SendNums(w, o, n) == \E g : SendCount(w, o, g) /\ g[1] = n

\* The numbers after an operation was issued.
LEMMA SendCountIssue ==
    ASSUME NEW o \in Seq(Op), NEW e \in Op, NEW p, p = Append(o, e),
           NEW w \in Seq(Seg), w \in Seq(Within("SEND", o, "SEND")), NEW first, SendNums(w, o, first),
           NEW s, NEW sop, NEW what, NEW m, Carries(s, sop, what, m),
           sop = "SEND" <=> e.op = "SEND",
           sop = "SEND" => what.for = Len(o) + 1 /\ s # <<>>
    PROVE  SendNums(w \o s, p, first)
<1>a. PICK g : SendCount(w, o, g) /\ g[1] = first
    BY DEF SendNums
<1>0. Longer(o, e, p, "SEND")
    BY RankAppend
<1>1. PICK n \in Nat : n = Len(o)
    OBVIOUS
<1>2. PICK N \in Nat, M \in Nat : N = Total(o, "SEND") + 1 /\ M = Total(p, "SEND") + 1
  <2>1. p \in Seq(Op)
      BY <1>0 DEF Longer
  <2>2. Total(o, "SEND") \in Nat /\ Total(p, "SEND") \in Nat
      BY <2>1, RankOrder
  <2> QED BY <2>2
<1>3. /\ \A i \in 1 .. n : Rank(p, "SEND", i) = Rank(o, "SEND", i)
      /\ M = IF e.op = "SEND" THEN N + 1 ELSE N
      /\ e.op = "SEND" => Rank(p, "SEND", n + 1) = N
  <2>1. Total(o, "SEND") \in Nat
      BY RankOrder
  <2>2. /\ \A i \in 1 .. n : Rank(p, "SEND", i) = Rank(o, "SEND", i)
        /\ Total(p, "SEND") = IF e.op = "SEND" THEN Total(o, "SEND") + 1 ELSE Total(o, "SEND")
        /\ e.op = "SEND" => Rank(p, "SEND", n + 1) = Total(o, "SEND") + 1
      BY <1>0, <1>1 DEF Longer
  <2> QED BY <1>2, <2>1, <2>2
<1>4. Message(s) /\ s \in Seq(Seg)
    BY DEF Carries, Message
<1>5. \A i \in 1 .. Len(s) : s[i] \in Seg /\ s[i].op = sop /\ s[i].what = what
    BY <1>4, ElementOfSeq DEF Carries
<1>6. \/ s # <<>> /\ M = N + 1 /\ \A i \in 1 .. Len(s) : s[i] \in SendK
      \/ M = N /\ \A i \in 1 .. Len(s) : s[i] \notin SendK
    BY <1>3, <1>5 DEF SendK
<1>7. PICK k : /\ Numbered(w \o s, SendK, k, M) /\ k[1] = g[1]
               /\ \A i \in 1 .. Len(w) : k[i] = g[i]
               /\ \A i \in Len(w) + 1 .. Len(w) + Len(s) : k[i] = N
  <2>1. Numbered(w, SendK, g, N)
      BY <1>a, <1>2 DEF SendCount
  <2>2. PICK k : Recounted(w, s, SendK, g, N, k, M)
      BY <1>4, <1>6, <2>1, NumberedAppend
  <2> QED BY <2>2 DEF Recounted
<1>8. PICK a \in Nat, b \in Nat : a = Len(w) /\ b = Len(s)
    BY <1>4
<1>9. PICK v \in Seq(Seg) : v = w \o s /\ Len(v) = a + b
                            /\ \A i \in 1 .. a + b : v[i] = IF i <= a THEN w[i] ELSE s[i - a]
  <2>1. /\ w \o s \in Seq(Seg) /\ Len(w \o s) = a + b
        /\ \A i \in 1 .. a + b : (w \o s)[i] = IF i <= a THEN w[i] ELSE s[i - a]
      BY <1>4, <1>8, ConcatProperties
  <2> QED BY <2>1, Zenon
<1>10. ASSUME NEW i \in 1 .. a + b, v[i].op = "SEND" PROVE Rank(p, "SEND", v[i].what.for) = k[i]
  <2>1. CASE i <= a
    <3>1. i \in 1 .. Len(w) /\ v[i] = w[i] /\ k[i] = g[i]
        BY <1>7, <1>8, <1>9, <2>1
    <3>2. Rank(o, "SEND", w[i].what.for) = g[i]
        BY <1>a, <1>10, <3>1 DEF SendCount
    <3>3. w[i] \in Within("SEND", o, "SEND")
        BY <3>1, ElementOfSeq
    <3>4. w[i].what.for \in 1 .. n
        BY <1>1, <1>10, <3>1, <3>3 DEF Within, Among
    <3> QED BY <1>3, <3>1, <3>2, <3>4
  <2>2. CASE i > a
    <3>1. PICK j \in 1 .. b : j = i - a
      <4>1. i - a \in 1 .. b
          BY <2>2
      <4> QED BY <4>1
    <3>2. v[i] = s[j] /\ i \in a + 1 .. a + b
        BY <1>9, <2>2, <3>1
    <3>3. k[i] = N
        BY <1>7, <1>8, <3>2
    <3>4. sop = "SEND" /\ v[i].what.for = n + 1
        BY <1>1, <1>5, <1>8, <1>10, <3>2
    <3> QED BY <1>3, <3>3, <3>4
  <2>3. i <= a \/ i > a
      OBVIOUS
  <2> QED BY <2>1, <2>2, <2>3, Zenon
<1>11. SendCount(w \o s, p, k)
    BY <1>2, <1>7, <1>9, <1>10 DEF SendCount
<1> QED BY <1>a, <1>7, <1>11 DEF SendNums

\* The bytes of the message at the front that the receiver already has.
Taken(w) == IF w # <<>> /\ w[1].op = "SEND" THEN {w[1].what.for} \X (0 .. w[1].off - 1) ELSE {}

\* The receives that wait are those posted after the n that completed, in their
\* order; the first one holds what was taken of the message at the front.
Waiting(w, b, ps, n) ==
    /\ n + Len(b) = Len(ps)
    /\ b = <<>> => Taken(w) = {}
    /\ \A j \in 1 .. Len(b) : /\ b[j].id = n + j /\ b[j].len = ps[n + j]
                              /\ b[j].got = IF j = 1 THEN Taken(w) ELSE {}

\* The receives rc that completed hold the sends of o.
Delivered(o, rc) ==
    \A k \in 1 .. Len(rc) :
        \E i \in Among(o, "SEND") :
            /\ Rank(o, "SEND", i) = k
            /\ rc[k].id = k /\ rc[k].len = o[i].len /\ rc[k].got = {i} \X (0 .. o[i].len - 1)

\* The wire to an end with the peer's operations o, and what was delivered.
SendLink(w, o, up, b, ps, rc) ==
    /\ w \in Seq(Within("SEND", o, "SEND"))
    /\ \E n : SendNums(w, o, n) /\ (up => n = Len(rc) + 1)
    /\ up => Waiting(w, b, ps, Len(rc))
    /\ Delivered(o, rc)

\* The bytes of a segment follow those before it.
LEMMA BytesFollow ==
    ASSUME NEW x \in Seg
    PROVE  LET f == x.what.for
           IN  ({f} \X (0 .. x.off - 1)) \cup Bytes(x) = {f} \X (0 .. (x.off + x.len) - 1)
<1>1. PICK f \in Nat, o \in Nat, l \in Nat : f = x.what.for /\ o = x.off /\ l = x.len
    BY SegFields
<1>2. Bytes(x) = {f} \X (o .. (o + l) - 1)
  <2>1. Bytes(x) = {<<f, o + j>> : j \in 0 .. l - 1}
      BY <1>1 DEF Bytes
  <2>2. ASSUME NEW y \in {<<f, o + j>> : j \in 0 .. l - 1} PROVE y \in {f} \X (o .. (o + l) - 1)
    <3>1. PICK j \in 0 .. l - 1 : y = <<f, o + j>>
        OBVIOUS
    <3>2. o + j \in o .. (o + l) - 1
        OBVIOUS
    <3> QED BY <3>1, <3>2
  <2>3. ASSUME NEW y \in {f} \X (o .. (o + l) - 1) PROVE y \in {<<f, o + j>> : j \in 0 .. l - 1}
    <3>1. PICK z \in o .. (o + l) - 1 : y = <<f, z>>
        OBVIOUS
    <3>2. z - o \in 0 .. l - 1 /\ z = o + (z - o)
        OBVIOUS
    <3>3. PICK j \in 0 .. l - 1 : z = o + j
        BY <3>2
    <3>4. y = <<f, o + j>>
        BY <3>1, <3>3
    <3> QED BY <3>4
  <2> QED BY <2>1, <2>2, <2>3
<1>3. (0 .. o - 1) \cup (o .. (o + l) - 1) = 0 .. (o + l) - 1
    OBVIOUS
<1>4. PICK U, V, W : U = 0 .. o - 1 /\ V = o .. (o + l) - 1 /\ W = 0 .. (o + l) - 1 /\ U \cup V = W
    BY <1>3
<1>5. ({f} \X U) \cup ({f} \X V) = {f} \X W
    BY <1>4
<1>6. ({f} \X (0 .. o - 1)) \cup Bytes(x) = {f} \X (0 .. (o + l) - 1)
    BY <1>2, <1>4, <1>5
<1> QED BY <1>1, <1>6

\* Operations that were delivered stay as they are.
LEMMA DeliveredIssue ==
    ASSUME NEW o \in Seq(Op), NEW e \in Op, NEW p, p = Append(o, e), NEW rc, Delivered(o, rc)
    PROVE  Delivered(p, rc)
<1>1. Longer(o, e, p, "SEND")
    BY RankAppend
<1>2. ASSUME NEW k \in 1 .. Len(rc)
      PROVE  \E i \in Among(p, "SEND") :
               /\ Rank(p, "SEND", i) = k
               /\ rc[k].id = k /\ rc[k].len = p[i].len /\ rc[k].got = {i} \X (0 .. p[i].len - 1)
  <2>1. PICK i \in Among(o, "SEND") :
          /\ Rank(o, "SEND", i) = k
          /\ rc[k].id = k /\ rc[k].len = o[i].len /\ rc[k].got = {i} \X (0 .. o[i].len - 1)
      BY DEF Delivered
  <2>2. i \in 1 .. Len(o) /\ i \in Among(p, "SEND")
      BY <1>1 DEF Among, Longer
  <2>3. p[i] = o[i] /\ Rank(p, "SEND", i) = Rank(o, "SEND", i)
      BY <1>1, <2>2 DEF Longer
  <2> QED BY <2>1, <2>2, <2>3
<1> QED BY <1>2 DEF Delivered

\* A message behind the others takes nothing from the front.
LEMMA TakenAppend ==
    ASSUME NEW w \in Seq(Seg), NEW s, Message(s)
    PROVE  Taken(w \o s) = Taken(w)
<1>1. s \in Seq(Seg)
    BY DEF Message
<1>2. CASE w = <<>>
  <2>1. w \o s = s
      BY <1>1, <1>2, ConcatEmptySeq
  <2>2. s # <<>> => s[1].off = 0
    <3>1. s # <<>> => 1 \in 1 .. Len(s)
        BY <1>1, EmptySeq
    <3> QED BY <3>1 DEF Message
  <2>3. \A f : {f} \X (0 .. 0 - 1) = {}
      OBVIOUS
  <2> QED BY <1>2, <2>1, <2>2, <2>3 DEF Taken
<1>3. CASE w # <<>>
  <2>1. PICK m \in Nat, n \in Nat : m = Len(w) /\ n = Len(s) /\ m # 0
      BY <1>1, <1>3, EmptySeq
  <2>2. PICK v \in Seq(Seg) : v = w \o s
      BY <1>1, ConcatProperties
  <2>3. Len(v) = m + n /\ \A i \in 1 .. m + n : v[i] = IF i <= m THEN w[i] ELSE s[i - m]
      BY <1>1, <2>1, <2>2, ConcatProperties
  <2>4. v[1] = w[1] /\ v # <<>>
    <3>1. 1 \in 1 .. m + n /\ 1 <= m
        BY <2>1
    <3>2. Len(v) # 0
        BY <2>1, <2>3
    <3>3. v # <<>>
        BY <3>2, EmptySeq
    <3> QED BY <2>3, <3>1, <3>3
  <2> QED BY <1>3, <2>2, <2>4 DEF Taken
<1> QED BY <1>2, <1>3

\* The peer issues an operation.
LEMMA SendLinkIssue ==
    ASSUME NEW o \in Seq(Op), NEW e \in Op, NEW p, p = Append(o, e),
           NEW w \in Seq(Seg), NEW up, NEW b, NEW ps, NEW rc, SendLink(w, o, up, b, ps, rc),
           NEW s, NEW sop, NEW what, NEW m, Carries(s, sop, what, m),
           sop = "SEND" <=> e.op = "SEND",
           sop = "SEND" => m = e.len /\ what.for = Len(o) + 1 /\ s # <<>>
    PROVE  SendLink(w \o s, p, up, b, ps, rc)
<1>1. w \in Seq(Within("SEND", o, "SEND"))
    BY DEF SendLink
<1>2. w \o s \in Seq(Within("SEND", p, "SEND"))
    BY <1>1, WithinIssue
<1>3. PICK n : SendNums(w, o, n) /\ (up => n = Len(rc) + 1)
    BY DEF SendLink
<1>4. SendNums(w \o s, p, n)
    BY <1>1, <1>3, SendCountIssue
<1>5. Taken(w \o s) = Taken(w)
    BY TakenAppend DEF Carries
<1>6. up => Waiting(w \o s, b, ps, Len(rc))
    BY <1>5 DEF SendLink, Waiting
<1>7. Delivered(p, rc)
    BY DeliveredIssue DEF SendLink
<1> QED BY <1>2, <1>3, <1>4, <1>6, <1>7 DEF SendLink

\* The numbers with a message of another kind behind the others.
LEMMA SendNumsOther ==
    ASSUME NEW o \in Seq(Op), NEW w \in Seq(Seg), NEW first, SendNums(w, o, first),
           NEW s, NEW sop, NEW what, NEW m, Carries(s, sop, what, m), sop # "SEND"
    PROVE  SendNums(w \o s, o, first)
<1>1. PICK g : SendCount(w, o, g) /\ g[1] = first
    BY DEF SendNums
<1>2. PICK N \in Nat : N = Total(o, "SEND") + 1
    BY RankOrder
<1>3. Message(s) /\ s \in Seq(Seg)
    BY DEF Carries, Message
<1>4. \A i \in 1 .. Len(s) : s[i].op # "SEND" /\ s[i] \notin SendK
    BY DEF Carries, SendK
<1>5. Numbered(w, SendK, g, N)
    BY <1>1, <1>2 DEF SendCount
<1>6. PICK k : Recounted(w, s, SendK, g, N, k, N)
    BY <1>3, <1>4, <1>5, NumberedAppend
<1>7. PICK a \in Nat, b \in Nat : a = Len(w) /\ b = Len(s)
    BY <1>3
<1>8. PICK v \in Seq(Seg) : v = w \o s /\ Len(v) = a + b
                            /\ \A i \in 1 .. a + b : v[i] = IF i <= a THEN w[i] ELSE s[i - a]
  <2>1. /\ w \o s \in Seq(Seg) /\ Len(w \o s) = a + b
        /\ \A i \in 1 .. a + b : (w \o s)[i] = IF i <= a THEN w[i] ELSE s[i - a]
      BY <1>3, <1>7, ConcatProperties
  <2> QED BY <2>1, Zenon
<1>9. ASSUME NEW i \in 1 .. a + b, v[i].op = "SEND" PROVE Rank(o, "SEND", v[i].what.for) = k[i]
  <2>1. CASE i <= a
    <3>1. i \in 1 .. Len(w) /\ v[i] = w[i]
        BY <1>7, <1>8, <2>1
    <3>2. k[i] = g[i]
        BY <1>6, <3>1 DEF Recounted
    <3> QED BY <1>1, <1>9, <3>1, <3>2 DEF SendCount
  <2>2. CASE i > a
    <3>1. PICK j \in 1 .. b : j = i - a
      <4>1. i - a \in 1 .. b
          BY <2>2
      <4> QED BY <4>1
    <3>2. v[i] = s[j]
        BY <1>8, <2>2, <3>1
    <3> QED BY <1>4, <1>7, <1>9, <3>1, <3>2
  <2>3. i <= a \/ i > a
      OBVIOUS
  <2> QED BY <2>1, <2>2, <2>3, Zenon
<1>10. SendCount(w \o s, o, k) /\ k[1] = g[1]
    BY <1>2, <1>6, <1>8, <1>9 DEF SendCount, Recounted
<1> QED BY <1>1, <1>10 DEF SendNums

\* The numbers behind the first segment.
LEMMA SendNumsTail ==
    ASSUME NEW o \in Seq(Op), NEW w \in Seq(Seg), w # <<>>, NEW first, SendNums(w, o, first)
    PROVE  /\ SendNums(Tail(w), o, IF w[1].op = "SEND" /\ w[1].last THEN first + 1 ELSE first)
           /\ w[1].op = "SEND" => Rank(o, "SEND", w[1].what.for) = first
<1>1. PICK f : SendCount(w, o, f) /\ f[1] = first
    BY DEF SendNums
<1>2. PICK m \in Nat : Len(w) = m + 1
  <2>1. Len(w) \in Nat \ {0}
      BY EmptySeq
  <2>2. Len(w) - 1 \in Nat /\ Len(w) = (Len(w) - 1) + 1
      BY <2>1
  <2> QED BY <2>2
<1>3. PICK t \in Seq(Seg) : t = Tail(w) /\ Len(t) = m /\ \A i \in 1 .. m : t[i] = w[i + 1]
  <2>1. Tail(w) \in Seq(Seg) /\ Len(Tail(w)) = Len(w) - 1 /\ \A i \in 1 .. Len(Tail(w)) : Tail(w)[i] = w[i + 1]
      BY HeadTailProperties
  <2>2. Len(Tail(w)) = m
      BY <1>2, <2>1
  <2> QED BY <2>1, <2>2, Zenon
<1>4. PICK N : N = Total(o, "SEND") + 1
    OBVIOUS
<1>5. Numbered(w, SendK, f, N)
    BY <1>1, <1>4 DEF SendCount
<1>6. PICK g : Numbered(Tail(w), SendK, g, N) /\ \A i \in 1 .. m + 1 : g[i] = f[i + 1]
    BY <1>2, <1>5, NumberedTail
<1>7. ASSUME NEW i \in 1 .. m, t[i].op = "SEND" PROVE Rank(o, "SEND", t[i].what.for) = g[i]
  <2>1. i + 1 \in 1 .. m + 1 /\ i \in 1 .. m + 1
      OBVIOUS
  <2>2. t[i] = w[i + 1] /\ g[i] = f[i + 1] /\ i + 1 \in 1 .. Len(w)
      BY <1>2, <1>3, <1>6, <2>1
  <2> QED BY <1>1, <1>7, <2>2 DEF SendCount
<1>8. SendCount(Tail(w), o, g)
    BY <1>3, <1>4, <1>6, <1>7 DEF SendCount
<1>9. 1 \in 1 .. m + 1 /\ 1 \in 1 .. Len(w) /\ w[1] \in Seg
    BY <1>2, ElementOfSeq
<1>10. g[1] = IF w[1].op = "SEND" /\ w[1].last THEN first + 1 ELSE first
  <2>1. g[1] = f[1 + 1]
      BY <1>6, <1>9
  <2>2. f[1 + 1] = IF w[1] \in SendK /\ w[1].last THEN f[1] + 1 ELSE f[1]
      BY <1>5, <1>9 DEF Numbered
  <2>3. w[1] \in SendK <=> w[1].op = "SEND"
      BY <1>9 DEF SendK
  <2> QED BY <1>1, <2>1, <2>2, <2>3
<1>11. w[1].op = "SEND" => Rank(o, "SEND", w[1].what.for) = first
    BY <1>1, <1>9 DEF SendCount
<1> QED BY <1>8, <1>10, <1>11 DEF SendNums

\* A message that answers a read request.
LEMMA SendLinkOther ==
    ASSUME NEW o \in Seq(Op), NEW w \in Seq(Seg), NEW up, NEW b, NEW ps, NEW rc,
           SendLink(w, o, up, b, ps, rc),
           NEW s, NEW sop, NEW what, NEW m, Carries(s, sop, what, m), sop # "SEND"
    PROVE  SendLink(w \o s, o, up, b, ps, rc)
<1>1. PICK n : SendNums(w, o, n) /\ (up => n = Len(rc) + 1)
    BY DEF SendLink
<1>2. SendNums(w \o s, o, n)
    BY <1>1, SendNumsOther
<1>3. w \in Seq(Within("SEND", o, "SEND"))
    BY DEF SendLink
<1>4. w \o s \in Seq(Within("SEND", o, "SEND"))
    BY <1>3, WithinOther
<1>5. Taken(w \o s) = Taken(w)
    BY TakenAppend DEF Carries
<1>6. up => Waiting(w \o s, b, ps, Len(rc))
    BY <1>5 DEF SendLink, Waiting
<1> QED BY <1>1, <1>2, <1>4, <1>6 DEF SendLink

\* The receiver takes a segment of another kind, or is gone.
LEMMA SendLinkTail ==
    ASSUME NEW o \in Seq(Op), NEW w \in Seq(Seg), w # <<>>, Framed(w), NEW up, NEW b, NEW ps, NEW rc,
           SendLink(w, o, up, b, ps, rc), NEW up2, up2 => up /\ w[1].op # "SEND"
    PROVE  SendLink(Tail(w), o, up2, b, ps, rc)
<1>1. PICK n : SendNums(w, o, n) /\ (up => n = Len(rc) + 1)
    BY DEF SendLink
<1>2. PICK k : SendNums(Tail(w), o, k) /\ (w[1].op # "SEND" => k = n)
    BY <1>1, SendNumsTail
<1>3. PICK X : X = Within("SEND", o, "SEND")
    OBVIOUS
<1>4. w \in Seq(X)
    BY <1>3 DEF SendLink
<1>5. Tail(w) \in Seq(X)
    BY <1>4, HeadTailProperties
<1>6. up2 => Taken(w) = {} /\ Taken(Tail(w)) = {}
  <2> SUFFICES ASSUME up2 PROVE Taken(w) = {} /\ Taken(Tail(w)) = {}
      OBVIOUS
  <2>1. Taken(w) = {}
      BY DEF Taken
  <2>2. PICK t \in Seq(Seg) : t = Tail(w)
      BY FramedTail
  <2>3. CASE t = <<>>
      BY <2>2, <2>3 DEF Taken
  <2>4. CASE t # <<>>
    <3>1. Head(t) = t[1] /\ Head(w) = w[1] /\ w[1] \in Seg
        BY <2>4, FramedTail
    <3>2. w[1].last \in BOOLEAN
        BY <3>1, SegFields
    <3>3. w[1].last => t[1].off = 0
        BY <2>2, <2>4, <3>1, FramedTail
    <3>4. ~w[1].last => t[1].op = w[1].op
        BY <2>2, <3>1, FramedTail DEF Continues
    <3>5. \A f : {f} \X (0 .. 0 - 1) = {}
        OBVIOUS
    <3>6. Taken(t) = {}
        BY <3>2, <3>3, <3>4, <3>5 DEF Taken
    <3> QED BY <2>1, <2>2, <3>6
  <2> QED BY <2>1, <2>2, <2>3, <2>4
<1>7. up2 => Waiting(Tail(w), b, ps, Len(rc))
    BY <1>6 DEF SendLink, Waiting
<1> QED BY <1>1, <1>2, <1>3, <1>5, <1>7 DEF SendLink

\* A receive is posted.
LEMMA SendLinkPost ==
    ASSUME NEW o, NEW w, NEW up, NEW b \in Seq(Buf), NEW ps \in Seq(Nat), NEW rc \in Seq(Buf),
           SendLink(w, o, up, b, ps, rc),
           NEW x \in Buf, NEW len \in Nat, x.id = Len(ps) + 1, x.len = len, x.got = {}
    PROVE  SendLink(w, o, up, Append(b, x), Append(ps, len), rc)
<1>1. PICK m \in Nat, n \in Nat, k \in Nat : m = Len(b) /\ n = Len(rc) /\ k = Len(ps)
    OBVIOUS
<1>2. PICK c, q : c = Append(b, x) /\ q = Append(ps, len)
    OBVIOUS
<1>3. /\ Len(c) = m + 1 /\ c[m + 1] = x /\ \A i \in 1 .. m : c[i] = b[i]
      /\ Len(q) = k + 1 /\ q[k + 1] = len /\ \A i \in 1 .. k : q[i] = ps[i]
      /\ c \in Seq(Buf)
    BY <1>1, <1>2, AppendProperties
<1>4. ASSUME up PROVE Waiting(w, c, q, n)
  <2>1. /\ n + m = k
        /\ b = <<>> => Taken(w) = {}
        /\ \A j \in 1 .. m : /\ b[j].id = n + j /\ b[j].len = ps[n + j]
                             /\ b[j].got = IF j = 1 THEN Taken(w) ELSE {}
      BY <1>1, <1>4 DEF SendLink, Waiting
  <2>2. c # <<>>
      BY <1>3, EmptySeq
  <2>3. ASSUME NEW j \in 1 .. m + 1
        PROVE  c[j].id = n + j /\ c[j].len = q[n + j] /\ c[j].got = IF j = 1 THEN Taken(w) ELSE {}
    <3>1. CASE j <= m
      <4>1. j \in 1 .. m /\ n + j \in 1 .. k
          BY <2>1, <3>1
      <4> QED BY <1>3, <2>1, <4>1
    <3>2. CASE j = m + 1
      <4>1. c[j] = x /\ n + j = k + 1
          BY <1>3, <2>1, <3>2
      <4>2. j = 1 => b = <<>>
          BY <1>1, <3>2, EmptySeq
      <4> QED BY <1>1, <1>3, <2>1, <4>1, <4>2
    <3> QED BY <3>1, <3>2
  <2>4. n + Len(c) = Len(q)
      BY <1>3, <2>1
  <2> QED BY <1>3, <2>2, <2>3, <2>4 DEF Waiting
<1> QED BY <1>1, <1>2, <1>4 DEF SendLink

\* What the receive at the front holds after a segment of a send.
LEMMA TakenTail ==
    ASSUME NEW w \in Seq(Seg), w # <<>>, Framed(w), NEW seg, seg = w[1], seg.op = "SEND"
    PROVE  /\ Taken(w) \cup Bytes(seg) = {seg.what.for} \X (0 .. (seg.off + seg.len) - 1)
           /\ Taken(Tail(w)) = IF seg.last THEN {}
                               ELSE {seg.what.for} \X (0 .. (seg.off + seg.len) - 1)
<1>1. seg \in Seg /\ seg = Head(w)
    BY FramedTail
<1>2. Taken(w) \cup Bytes(seg) = {seg.what.for} \X (0 .. (seg.off + seg.len) - 1)
    BY <1>1, BytesFollow DEF Taken
<1>3. PICK t \in Seq(Seg) : t = Tail(w)
    BY FramedTail
<1>4. t # <<>> => Head(t) = t[1]
    OBVIOUS
<1>5. CASE seg.last
  <2>1. t # <<>> => t[1].off = 0
      BY <1>1, <1>3, <1>4, <1>5, FramedTail
  <2>2. \A f : {f} \X (0 .. 0 - 1) = {}
      OBVIOUS
  <2>3. Taken(t) = {}
      BY <2>1, <2>2 DEF Taken
  <2> QED BY <1>2, <1>3, <1>5, <2>3
<1>6. CASE ~seg.last
  <2>1. t # <<>> /\ Continues(seg, Head(t))
      BY <1>1, <1>3, <1>6, FramedTail
  <2>2. t[1].op = "SEND" /\ t[1].what = seg.what /\ t[1].off = seg.off + seg.len
      BY <1>4, <2>1 DEF Continues
  <2>3. Taken(t) = {seg.what.for} \X (0 .. (seg.off + seg.len) - 1)
      BY <2>1, <2>2 DEF Taken
  <2> QED BY <1>2, <1>3, <1>6, <2>3
<1>7. seg.last \in BOOLEAN
    BY <1>1, SegFields
<1> QED BY <1>5, <1>6, <1>7

\* The receiver takes a segment of a send that is not the last one.
LEMMA SendLinkMore ==
    ASSUME NEW o \in Seq(Op), NEW w \in Seq(Seg), w # <<>>, Framed(w),
           NEW b \in Seq(Buf), b # <<>>, NEW ps, NEW rc, SendLink(w, o, TRUE, b, ps, rc),
           NEW seg, seg = w[1], seg.op = "SEND", ~seg.last,
           NEW f \in Buf, f.id = Head(b).id, f.len = Head(b).len, f.got = Head(b).got \cup Bytes(seg)
    PROVE  SendLink(Tail(w), o, TRUE, <<f>> \o Tail(b), ps, rc)
<1>1. PICK n : SendNums(w, o, n) /\ n = Len(rc) + 1
    BY DEF SendLink
<1>2. SendNums(Tail(w), o, n)
    BY <1>1, SendNumsTail
<1>3. PICK X : X = Within("SEND", o, "SEND")
    OBVIOUS
<1>4. Tail(w) \in Seq(X)
  <2>1. w \in Seq(X)
      BY <1>3 DEF SendLink
  <2> QED BY <2>1, HeadTailProperties
<1>5. PICK m \in Nat : Len(b) = m + 1
  <2>1. Len(b) \in Nat \ {0}
      BY EmptySeq
  <2>2. Len(b) - 1 \in Nat /\ Len(b) = (Len(b) - 1) + 1
      BY <2>1
  <2> QED BY <2>2
<1>6. PICK c \in Seq(Buf) : /\ c = <<f>> \o Tail(b) /\ Len(c) = m + 1 /\ c[1] = f
                            /\ \A j \in 2 .. m + 1 : c[j] = b[j]
  <2>1. PICK u \in Seq(Buf) : u = Tail(b) /\ Len(u) = m /\ \A i \in 1 .. m : u[i] = b[i + 1]
    <3>1. Tail(b) \in Seq(Buf) /\ Len(Tail(b)) = Len(b) - 1 /\ \A i \in 1 .. Len(Tail(b)) : Tail(b)[i] = b[i + 1]
        BY HeadTailProperties
    <3>2. Len(Tail(b)) = m
        BY <1>5, <3>1
    <3> QED BY <3>1, <3>2, Zenon
  <2>2. PICK d \in Seq(Buf) : d = <<f>> /\ Len(d) = 1 /\ d[1] = f
    <3>1. <<f>> \in Seq(Buf) /\ Len(<<f>>) = 1 /\ <<f>>[1] = f
        OBVIOUS
    <3> QED BY <3>1, Zenon
  <2>3. PICK c \in Seq(Buf) : c = d \o u
      BY ConcatProperties
  <2>4. Len(c) = 1 + m /\ \A i \in 1 .. 1 + m : c[i] = IF i <= 1 THEN d[i] ELSE u[i - 1]
      BY <2>1, <2>2, <2>3, ConcatProperties
  <2>5. c[1] = f
    <3>1. 1 \in 1 .. 1 + m /\ 1 <= 1
        OBVIOUS
    <3> QED BY <2>2, <2>4, <3>1
  <2>6. ASSUME NEW j \in 2 .. m + 1 PROVE c[j] = b[j]
    <3>1. j \in 1 .. 1 + m /\ ~(j <= 1)
        OBVIOUS
    <3>2. PICK i \in 1 .. m : i = j - 1 /\ i + 1 = j
      <4>1. j - 1 \in 1 .. m /\ (j - 1) + 1 = j
          OBVIOUS
      <4> QED BY <4>1
    <3>3. c[j] = u[i] /\ u[i] = b[i + 1]
        BY <2>1, <2>4, <3>1, <3>2
    <3> QED BY <3>2, <3>3
  <2>7. c = <<f>> \o Tail(b) /\ Len(c) = m + 1
      BY <2>1, <2>2, <2>3, <2>4
  <2> QED BY <2>5, <2>6, <2>7
<1>7. PICK k : k = Len(rc)
    OBVIOUS
<1>8. /\ k + (m + 1) = Len(ps)
      /\ \A j \in 1 .. m + 1 : /\ b[j].id = k + j /\ b[j].len = ps[k + j]
                               /\ b[j].got = IF j = 1 THEN Taken(w) ELSE {}
    BY <1>5, <1>7 DEF SendLink, Waiting
<1>9. Head(b) = b[1] /\ 1 \in 1 .. m + 1
    BY <1>5
<1>10. Taken(Tail(w)) = Taken(w) \cup Bytes(seg)
    BY TakenTail
<1>11. ASSUME NEW j \in 1 .. m + 1
       PROVE  /\ c[j].id = k + j /\ c[j].len = ps[k + j]
              /\ c[j].got = IF j = 1 THEN Taken(Tail(w)) ELSE {}
  <2>1. CASE j = 1
    <3>1. b[1].id = k + 1 /\ b[1].len = ps[k + 1] /\ b[1].got = Taken(w)
        BY <1>8, <1>9
    <3> QED BY <1>6, <1>9, <1>10, <2>1, <3>1
  <2>2. CASE j # 1
    <3>1. j \in 2 .. m + 1
        BY <2>2
    <3> QED BY <1>6, <1>8, <2>2, <3>1
  <2> QED BY <2>1, <2>2
<1>12. c # <<>>
    BY <1>6, EmptySeq
<1>13. Waiting(Tail(w), c, ps, k)
    BY <1>6, <1>8, <1>11, <1>12 DEF Waiting
<1> QED BY <1>1, <1>2, <1>3, <1>4, <1>6, <1>7, <1>13 DEF SendLink

\* The receiver takes the last segment of a send.
LEMMA SendLinkDone ==
    ASSUME NEW o \in Seq(Op), NEW w \in Seq(Seg), w # <<>>, Framed(w),
           NEW b \in Seq(Buf), b # <<>>, NEW ps, NEW rc \in Seq(Buf), SendLink(w, o, TRUE, b, ps, rc),
           NEW seg, seg = w[1], seg.op = "SEND", seg.last,
           NEW x \in Buf, x.id = Head(b).id, x.len = seg.off + seg.len, x.got = Head(b).got \cup Bytes(seg)
    PROVE  SendLink(Tail(w), o, TRUE, Tail(b), ps, Append(rc, x))
<1>1. PICK k \in Nat : k = Len(rc)
    OBVIOUS
<1>2. SendNums(w, o, k + 1)
    BY <1>1 DEF SendLink
<1>3. SendNums(Tail(w), o, (k + 1) + 1) /\ Rank(o, "SEND", seg.what.for) = k + 1
    BY <1>2, SendNumsTail
<1>4. PICK X : X = Within("SEND", o, "SEND")
    OBVIOUS
<1>5. w \in Seq(X)
    BY <1>4 DEF SendLink
<1>6. Tail(w) \in Seq(X) /\ seg \in X
    BY <1>5, HeadTailProperties
<1>7. PICK m \in Nat : Len(b) = m + 1
  <2>1. Len(b) \in Nat \ {0}
      BY EmptySeq
  <2>2. Len(b) - 1 \in Nat /\ Len(b) = (Len(b) - 1) + 1
      BY <2>1
  <2> QED BY <2>2
<1>8. PICK u \in Seq(Buf) : u = Tail(b) /\ Len(u) = m /\ \A i \in 1 .. m : u[i] = b[i + 1]
  <2>1. Tail(b) \in Seq(Buf) /\ Len(Tail(b)) = Len(b) - 1 /\ \A i \in 1 .. Len(Tail(b)) : Tail(b)[i] = b[i + 1]
      BY HeadTailProperties
  <2>2. Len(Tail(b)) = m
      BY <1>7, <2>1
  <2> QED BY <2>1, <2>2, Zenon
<1>9. PICK c \in Seq(Buf) : /\ c = Append(rc, x) /\ Len(c) = k + 1 /\ c[k + 1] = x
                            /\ \A i \in 1 .. k : c[i] = rc[i]
  <2>1. /\ Append(rc, x) \in Seq(Buf) /\ Len(Append(rc, x)) = k + 1 /\ Append(rc, x)[k + 1] = x
        /\ \A i \in 1 .. k : Append(rc, x)[i] = rc[i]
      BY <1>1, AppendProperties
  <2> QED BY <2>1, Zenon
<1>10. /\ k + (m + 1) = Len(ps)
       /\ \A j \in 1 .. m + 1 : /\ b[j].id = k + j /\ b[j].len = ps[k + j]
                                /\ b[j].got = IF j = 1 THEN Taken(w) ELSE {}
    BY <1>1, <1>7 DEF SendLink, Waiting
<1>11. Head(b) = b[1] /\ 1 \in 1 .. m + 1
    BY <1>7
<1>12. /\ Taken(Tail(w)) = {}
       /\ Taken(w) \cup Bytes(seg) = {seg.what.for} \X (0 .. (seg.off + seg.len) - 1)
    BY TakenTail
<1>13. Waiting(Tail(w), u, ps, k + 1)
  <2>1. ASSUME NEW j \in 1 .. m
        PROVE  u[j].id = (k + 1) + j /\ u[j].len = ps[(k + 1) + j] /\ u[j].got = IF j = 1 THEN {} ELSE {}
    <3>1. j + 1 \in 1 .. m + 1 /\ j + 1 # 1 /\ k + (j + 1) = (k + 1) + j
        OBVIOUS
    <3>2. b[j + 1].id = k + (j + 1) /\ b[j + 1].len = ps[k + (j + 1)] /\ b[j + 1].got = {}
        BY <1>10, <3>1
    <3>3. u[j] = b[j + 1]
        BY <1>8
    <3> QED BY <3>1, <3>2, <3>3
  <2>2. (k + 1) + m = Len(ps)
      BY <1>10
  <2> QED BY <1>8, <1>12, <2>1, <2>2 DEF Waiting
<1>14. Delivered(o, c)
  <2>1. ASSUME NEW j \in 1 .. k + 1
        PROVE  \E i \in Among(o, "SEND") :
                 /\ Rank(o, "SEND", i) = j
                 /\ c[j].id = j /\ c[j].len = o[i].len /\ c[j].got = {i} \X (0 .. o[i].len - 1)
    <3>1. CASE j <= k
      <4>1. j \in 1 .. k /\ c[j] = rc[j]
          BY <1>9, <3>1
      <4>2. Delivered(o, rc)
          BY DEF SendLink
      <4>3. PICK i \in Among(o, "SEND") :
              /\ Rank(o, "SEND", i) = j
              /\ rc[j].id = j /\ rc[j].len = o[i].len /\ rc[j].got = {i} \X (0 .. o[i].len - 1)
          BY <1>1, <4>1, <4>2 DEF Delivered
      <4> QED BY <4>1, <4>3, Zenon
    <3>2. CASE j = k + 1
      <4>1. PICK i : i = seg.what.for
          OBVIOUS
      <4>2. i \in Among(o, "SEND") /\ seg.off + seg.len = o[i].len /\ Rank(o, "SEND", i) = j
          BY <1>3, <1>4, <1>6, <3>2, <4>1 DEF Within
      <4>3. c[j] = x /\ x.id = k + 1 /\ x.len = o[i].len
          BY <1>9, <1>10, <1>11, <3>2, <4>2
      <4>4. x.got = Taken(w) \cup Bytes(seg)
          BY <1>10, <1>11
      <4>5. x.got = {i} \X (0 .. o[i].len - 1)
          BY <1>12, <4>1, <4>2, <4>4
      <4>6. c[j].id = j /\ c[j].len = o[i].len /\ c[j].got = {i} \X (0 .. o[i].len - 1)
          BY <3>2, <4>3, <4>5, Zenon
      <4> QED BY <4>2, <4>6, Zenon
    <3>3. j <= k \/ j = k + 1
        OBVIOUS
    <3> QED BY <3>1, <3>2, <3>3, Zenon
  <2> QED BY <1>9, <2>1 DEF Delivered
<1> QED BY <1>3, <1>4, <1>6, <1>8, <1>9, <1>13, <1>14 DEF SendLink

\* A send for which there is no receive that is long enough.
Unposted(o, ps, rc) ==
    \E i \in Among(o, "SEND") :
        /\ Rank(o, "SEND", i) = Len(rc) + 1
        /\ Len(ps) >= Len(rc) + 1 => ps[Len(rc) + 1] < o[i].len

\* A segment that does not fit in the receive at the front.
LEMMA SendLinkWild ==
    ASSUME NEW o \in Seq(Op), NEW w \in Seq(Seg), w # <<>>,
           NEW b \in Seq(Buf), NEW ps \in Seq(Nat), NEW rc \in Seq(Buf), SendLink(w, o, TRUE, b, ps, rc),
           NEW seg, seg = w[1], seg.op = "SEND", b # <<>> => ~(seg.off + seg.len <= Head(b).len)
    PROVE  Unposted(o, ps, rc)
<1>1. PICK k \in Nat : k = Len(rc)
    OBVIOUS
<1>2. SendNums(w, o, k + 1)
    BY <1>1 DEF SendLink
<1>3. Rank(o, "SEND", seg.what.for) = k + 1
    BY <1>2, SendNumsTail
<1>4. PICK X : X = Within("SEND", o, "SEND")
    OBVIOUS
<1>5. w \in Seq(X)
    BY <1>4 DEF SendLink
<1>6. seg \in X
    BY <1>5, HeadTailProperties
<1>7. PICK i : i = seg.what.for
    OBVIOUS
<1>8. seg \in Seg /\ i \in Among(o, "SEND") /\ seg.off + seg.len <= o[i].len /\ Rank(o, "SEND", i) = k + 1
    BY <1>3, <1>4, <1>6, <1>7 DEF Within
<1>9. i \in 1 .. Len(o) /\ o[i].len \in Nat
  <2>1. i \in 1 .. Len(o)
      BY <1>8 DEF Among
  <2>2. o[i] \in Op
      BY <2>1, ElementOfSeq
  <2> QED BY <2>1, <2>2 DEF Op
<1>10. seg.off \in Nat /\ seg.len \in Nat
    BY <1>8, SegFields
<1>11. k + Len(b) = Len(ps) /\ \A j \in 1 .. Len(b) : b[j].len = ps[k + j]
    BY <1>1 DEF SendLink, Waiting
<1>12. Len(ps) >= k + 1 => ps[k + 1] < o[i].len
  <2> SUFFICES ASSUME Len(ps) >= k + 1 PROVE ps[k + 1] < o[i].len
      OBVIOUS
  <2>1. Len(b) \in Nat \ {0}
      BY <1>11
  <2>2. b # <<>> /\ 1 \in 1 .. Len(b) /\ Head(b) = b[1]
      BY <2>1
  <2>3. Head(b).len = ps[k + 1] /\ ps[k + 1] \in Nat
    <3>1. k + 1 \in 1 .. Len(ps)
        OBVIOUS
    <3> QED BY <1>11, <2>2, <3>1, ElementOfSeq
  <2>4. PICK a \in Nat, l \in Nat, y \in Nat, z \in Nat :
          a = seg.off /\ l = seg.len /\ y = ps[k + 1] /\ z = o[i].len
      BY <1>9, <1>10, <2>3
  <2>5. ~(a + l <= y) /\ a + l <= z
      BY <1>8, <2>2, <2>3, <2>4
  <2>6. y < z
      BY <2>5
  <2> QED BY <2>4, <2>6
<1> QED BY <1>1, <1>8, <1>12 DEF Unposted

\* It stays so, whatever the peer issues next.
LEMMA UnpostedIssue ==
    ASSUME NEW o \in Seq(Op), NEW e \in Op, NEW p, p = Append(o, e), NEW ps, NEW rc, Unposted(o, ps, rc)
    PROVE  Unposted(p, ps, rc)
<1>1. Longer(o, e, p, "SEND")
    BY RankAppend
<1>2. PICK i \in Among(o, "SEND") :
        /\ Rank(o, "SEND", i) = Len(rc) + 1
        /\ Len(ps) >= Len(rc) + 1 => ps[Len(rc) + 1] < o[i].len
    BY DEF Unposted
<1>3. i \in 1 .. Len(o) /\ i \in Among(p, "SEND")
    BY <1>1 DEF Among, Longer
<1>4. p[i] = o[i] /\ Rank(p, "SEND", i) = Rank(o, "SEND", i)
    BY <1>1, <1>3 DEF Longer
<1> QED BY <1>2, <1>3, <1>4 DEF Unposted

--------------------------------------------------------------------------------
(* Writes *)

\* All bytes of p's operation i.
All(p, o, i) == {p} \X {i} \X (0 .. o[i].len - 1)

\* The last segment of write i is on the wire, ahead of every later send.
Coming(w, i) ==
    \E j \in 1 .. Len(w) :
        /\ w[j].op = "RDMA_WRITE" /\ w[j].what.for = i /\ w[j].last
        /\ \A k \in 1 .. j : w[k].op = "SEND" => w[k].what.for < i

\* What was taken of a message of kind op at the front of the wire, with bytes
\* of p's operation, is in memory.
Front(op, p, w, pl) ==
    w # <<>> /\ w[1].op = op => {p} \X {w[1].what.for} \X (0 .. w[1].off - 1) \subseteq pl

\* Every write is in memory or on its way.
Underway(p, w, o, pl) == \A i \in Among(o, "WRITE") : All(p, o, i) \subseteq pl \/ Coming(w, i)

\* The writes before the first n sends are in memory.
Landed(p, o, pl, n) ==
    \A i \in Among(o, "WRITE"), s \in Among(o, "SEND") :
        i < s /\ Rank(o, "SEND", s) <= n => All(p, o, i) \subseteq pl

\* The wire from p to an end at which n sends arrived and the bytes pl.
WriteLink(p, w, o, up, pl, n) ==
    /\ w \in Seq(Within("RDMA_WRITE", o, "WRITE"))
    /\ up => Front("RDMA_WRITE", p, w, pl) /\ Underway(p, w, o, pl)
    /\ Landed(p, o, pl, n)

\* More messages do not delay a write.
LEMMA ComingAppend ==
    ASSUME NEW w \in Seq(Seg), NEW s \in Seq(Seg), NEW i, Coming(w, i)
    PROVE  Coming(w \o s, i)
<1>1. PICK j \in 1 .. Len(w) :
        /\ w[j].op = "RDMA_WRITE" /\ w[j].what.for = i /\ w[j].last
        /\ \A k \in 1 .. j : w[k].op = "SEND" => w[k].what.for < i
    BY DEF Coming
<1>2. PICK m \in Nat, n \in Nat : m = Len(w) /\ n = Len(s)
    OBVIOUS
<1>3. PICK v \in Seq(Seg) : v = w \o s
    BY ConcatProperties
<1>4. Len(v) = m + n /\ \A k \in 1 .. m + n : v[k] = IF k <= m THEN w[k] ELSE s[k - m]
    BY <1>2, <1>3, ConcatProperties
<1>5. ASSUME NEW k \in 1 .. j PROVE v[k] = w[k]
  <2>1. k \in 1 .. m + n /\ k <= m
      BY <1>2
  <2> QED BY <1>4, <2>1
<1>6. j \in 1 .. m + n /\ j \in 1 .. j
    BY <1>2
<1>7. v[j] = w[j]
    BY <1>5, <1>6
<1> QED BY <1>1, <1>3, <1>4, <1>5, <1>6, <1>7 DEF Coming

\* A write on its way, when the first segment is taken.
LEMMA ComingTail ==
    ASSUME NEW w \in Seq(Seg), w # <<>>, NEW i, Coming(w, i)
    PROVE  /\ \/ Coming(Tail(w), i)
              \/ w[1].op = "RDMA_WRITE" /\ w[1].what.for = i /\ w[1].last
           /\ w[1].op = "SEND" => w[1].what.for < i
<1>1. PICK j \in 1 .. Len(w) :
        /\ w[j].op = "RDMA_WRITE" /\ w[j].what.for = i /\ w[j].last
        /\ \A k \in 1 .. j : w[k].op = "SEND" => w[k].what.for < i
    BY DEF Coming
<1>2. PICK m \in Nat : Len(w) = m + 1
  <2>1. Len(w) \in Nat \ {0}
      BY EmptySeq
  <2>2. Len(w) - 1 \in Nat /\ Len(w) = (Len(w) - 1) + 1
      BY <2>1
  <2> QED BY <2>2
<1>3. PICK t \in Seq(Seg) : t = Tail(w) /\ Len(t) = m /\ \A k \in 1 .. m : t[k] = w[k + 1]
  <2>1. Tail(w) \in Seq(Seg) /\ Len(Tail(w)) = Len(w) - 1 /\ \A k \in 1 .. Len(Tail(w)) : Tail(w)[k] = w[k + 1]
      BY HeadTailProperties
  <2>2. Len(Tail(w)) = m
      BY <1>2, <2>1
  <2> QED BY <2>1, <2>2, Zenon
<1>4. w[1].op = "SEND" => w[1].what.for < i
  <2>1. 1 \in 1 .. j
      BY <1>2
  <2> QED BY <1>1, <2>1
<1>5. CASE j = 1
    BY <1>1, <1>4, <1>5
<1>6. CASE j # 1
  <2>1. PICK l \in 1 .. m : l + 1 = j
    <3>1. j - 1 \in 1 .. m /\ (j - 1) + 1 = j
        BY <1>2, <1>6
    <3> QED BY <3>1
  <2>2. t[l] = w[j]
      BY <1>3, <2>1
  <2>3. ASSUME NEW k \in 1 .. l, t[k].op = "SEND" PROVE t[k].what.for < i
    <3>1. k + 1 \in 1 .. j /\ k \in 1 .. m
        BY <2>1
    <3> QED BY <1>1, <1>3, <2>3, <3>1
  <2>4. l \in 1 .. Len(t) /\ t[l].op = "RDMA_WRITE" /\ t[l].what.for = i /\ t[l].last
      BY <1>1, <1>3, <2>2
  <2>5. Coming(t, i)
      BY <2>3, <2>4, Zenon DEF Coming
  <2> QED BY <1>3, <1>4, <2>5
<1> QED BY <1>5, <1>6

\* A message behind the others leaves the front.
LEMMA FrontAppend ==
    ASSUME NEW w \in Seq(Seg), NEW s, Message(s), NEW op, NEW p, NEW pl, Front(op, p, w, pl)
    PROVE  Front(op, p, w \o s, pl)
<1>1. s \in Seq(Seg)
    BY DEF Message
<1>2. CASE w = <<>>
  <2>1. w \o s = s
      BY <1>1, <1>2, ConcatEmptySeq
  <2>2. s # <<>> => s[1].off = 0
    <3>1. s # <<>> => 1 \in 1 .. Len(s)
        BY <1>1, EmptySeq
    <3> QED BY <3>1 DEF Message
  <2>3. \A f : {p} \X {f} \X (0 .. 0 - 1) = {}
    <3>1. 0 .. 0 - 1 = {}
        OBVIOUS
    <3> QED BY <3>1
  <2> QED BY <2>1, <2>2, <2>3 DEF Front
<1>3. CASE w # <<>>
  <2>1. PICK m \in Nat, n \in Nat : m = Len(w) /\ n = Len(s) /\ m # 0
      BY <1>1, <1>3, EmptySeq
  <2>2. PICK v \in Seq(Seg) : v = w \o s
      BY <1>1, ConcatProperties
  <2>3. Len(v) = m + n /\ \A i \in 1 .. m + n : v[i] = IF i <= m THEN w[i] ELSE s[i - m]
      BY <1>1, <2>1, <2>2, ConcatProperties
  <2>4. v[1] = w[1]
    <3>1. 1 \in 1 .. m + n /\ 1 <= m
        BY <2>1
    <3> QED BY <2>3, <3>1
  <2> QED BY <1>3, <2>2, <2>4 DEF Front
<1> QED BY <1>2, <1>3

\* The bytes of a segment follow those before it in memory.
LEMMA PlacedFollow ==
    ASSUME NEW x \in Seg, NEW p, NEW pl, {p} \X {x.what.for} \X (0 .. x.off - 1) \subseteq pl,
           \A b \in Bytes(x) : <<p, b[1], b[2]>> \in pl
    PROVE  {p} \X {x.what.for} \X (0 .. (x.off + x.len) - 1) \subseteq pl
<1>1. PICK f, U, W : f = x.what.for /\ U = 0 .. x.off - 1 /\ W = 0 .. (x.off + x.len) - 1
    OBVIOUS
<1>2. ({f} \X U) \cup Bytes(x) = {f} \X W
    BY <1>1, BytesFollow
<1>3. ASSUME NEW y \in {p} \X {f} \X W PROVE y \in pl
  <2>1. PICK z \in W : y = <<p, f, z>>
      OBVIOUS
  <2>2. PICK b : b = <<f, z>> /\ b[1] = f /\ b[2] = z
    <3>1. <<f, z>>[1] = f /\ <<f, z>>[2] = z
        OBVIOUS
    <3> QED BY <3>1, Zenon
  <2>3. b \in {f} \X W
      BY <2>1, <2>2
  <2>4. b \in {f} \X U \/ b \in Bytes(x)
      BY <1>2, <2>3
  <2>5. CASE b \in {f} \X U
    <3>1. z \in U
        BY <2>2, <2>5
    <3>2. y \in {p} \X {f} \X U
        BY <2>1, <3>1
    <3> QED BY <1>1, <3>2
  <2>6. CASE b \in Bytes(x)
      BY <2>1, <2>2, <2>6
  <2> QED BY <2>4, <2>5, <2>6
<1> QED BY <1>1, <1>3

\* With the bytes of its first segment more of the message is in memory.
LEMMA FrontBytes ==
    ASSUME NEW w \in Seq(Seg), w # <<>>, NEW seg \in Seg, seg = w[1], NEW p, NEW pl, NEW pl2,
           pl \subseteq pl2, Front(seg.op, p, w, pl), \A b \in Bytes(seg) : <<p, b[1], b[2]>> \in pl2
    PROVE  {p} \X {seg.what.for} \X (0 .. (seg.off + seg.len) - 1) \subseteq pl2
<1>1. {p} \X {seg.what.for} \X (0 .. seg.off - 1) \subseteq pl
    BY DEF Front
<1>2. {p} \X {seg.what.for} \X (0 .. seg.off - 1) \subseteq pl2
    BY <1>1
<1> QED BY <1>2, PlacedFollow

\* The first segment is taken.
LEMMA FrontTail ==
    ASSUME NEW w \in Seq(Seg), w # <<>>, Framed(w), NEW op, NEW p, NEW pl, NEW pl2, pl \subseteq pl2,
           Front(op, p, w, pl), NEW seg, seg = w[1],
           seg.op = op => \A b \in Bytes(seg) : <<p, b[1], b[2]>> \in pl2
    PROVE  Front(op, p, Tail(w), pl2)
<1>1. PICK t \in Seq(Seg) : t = Tail(w)
    BY FramedTail
<1>2. seg \in Seg /\ seg = Head(w) /\ seg.last \in BOOLEAN
    BY FramedTail, SegFields
<1>3. ASSUME seg.op = op
      PROVE  {p} \X {seg.what.for} \X (0 .. (seg.off + seg.len) - 1) \subseteq pl2
    BY <1>2, <1>3, FrontBytes
<1>4. Front(op, p, t, pl2)
  <2> SUFFICES ASSUME t # <<>>, t[1].op = op
               PROVE  {p} \X {t[1].what.for} \X (0 .. t[1].off - 1) \subseteq pl2
      BY DEF Front
  <2>1. Head(t) = t[1]
      OBVIOUS
  <2>2. CASE seg.last
    <3>1. t[1].off = 0
        BY <1>1, <1>2, <2>1, <2>2, FramedTail
    <3>2. 0 .. 0 - 1 = {}
        OBVIOUS
    <3> QED BY <3>1, <3>2
  <2>3. CASE ~seg.last
    <3>1. t[1].op = seg.op /\ t[1].what = seg.what /\ t[1].off = seg.off + seg.len
        BY <1>1, <1>2, <2>1, <2>3, FramedTail DEF Continues
    <3> QED BY <1>3, <3>1
  <2> QED BY <1>2, <2>2, <2>3
<1> QED BY <1>1, <1>4

\* The write of an operation without bytes needs no segment.
LEMMA AllOfNone ==
    ASSUME NEW p, NEW o, NEW i, o[i].len = 0
    PROVE  All(p, o, i) = {}
<1>1. 0 .. 0 - 1 = {}
    OBVIOUS
<1> QED BY <1>1 DEF All

\* The peer issues an operation.
LEMMA WriteLinkIssue ==
    ASSUME NEW o \in Seq(Op), NEW e \in Op, NEW q, q = Append(o, e),
           NEW w \in Seq(Seg), NEW p, NEW up, NEW pl, NEW n \in Nat, WriteLink(p, w, o, up, pl, n),
           n <= Total(o, "SEND"), w \in Seq(Within("SEND", o, "SEND")),
           NEW s, NEW sop, NEW what, NEW m, Carries(s, sop, what, m),
           sop = "RDMA_WRITE" <=> e.op = "WRITE",
           sop = "RDMA_WRITE" => m = e.len /\ what.for = Len(o) + 1
    PROVE  WriteLink(p, w \o s, q, up, pl, n)
<1>1. Longer(o, e, q, "WRITE") /\ Longer(o, e, q, "SEND")
    BY RankAppend
<1>2. PICK c \in Nat : c = Len(o)
    OBVIOUS
<1>3. /\ Among(q, "WRITE") = IF e.op = "WRITE" THEN Among(o, "WRITE") \cup {c + 1} ELSE Among(o, "WRITE")
      /\ Among(q, "SEND") = IF e.op = "SEND" THEN Among(o, "SEND") \cup {c + 1} ELSE Among(o, "SEND")
      /\ \A i \in 1 .. c : q[i] = o[i] /\ Rank(q, "SEND", i) = Rank(o, "SEND", i)
      /\ q[c + 1] = e
      /\ e.op = "SEND" => Rank(q, "SEND", c + 1) = Total(o, "SEND") + 1
    BY <1>1, <1>2 DEF Longer
<1>4. Among(o, "WRITE") \subseteq 1 .. c /\ Among(o, "SEND") \subseteq 1 .. c
    BY <1>2 DEF Among
<1>5. s \in Seq(Seg) /\ Message(s)
    BY DEF Carries, Message
<1>6. w \o s \in Seq(Within("RDMA_WRITE", q, "WRITE"))
  <2>1. w \in Seq(Within("RDMA_WRITE", o, "WRITE"))
      BY DEF WriteLink
  <2> QED BY <2>1, WithinIssue
<1>7. \A i \in 1 .. c : All(p, q, i) = All(p, o, i)
    BY <1>3 DEF All
<1>8. ASSUME up PROVE Front("RDMA_WRITE", p, w \o s, pl)
    BY <1>5, <1>8, FrontAppend DEF WriteLink
<1>9. ASSUME up, NEW i \in Among(q, "WRITE") PROVE All(p, q, i) \subseteq pl \/ Coming(w \o s, i)
  <2>1. CASE i \in Among(o, "WRITE")
    <3>1. i \in 1 .. c
        BY <1>4, <2>1
    <3>2. All(p, o, i) \subseteq pl \/ Coming(w, i)
        BY <1>9, <2>1 DEF WriteLink, Underway
    <3>3. Coming(w, i) => Coming(w \o s, i)
        BY <1>5, ComingAppend
    <3> QED BY <1>7, <3>1, <3>2, <3>3
  <2>2. CASE i \notin Among(o, "WRITE")
    <3>1. i = c + 1 /\ e.op = "WRITE" /\ sop = "RDMA_WRITE" /\ m = e.len /\ what.for = c + 1
        BY <1>2, <1>3, <1>9, <2>2
    <3>2. CASE e.len = 0
      <4>1. q[i].len = 0
          BY <1>3, <3>1, <3>2
      <4> QED BY <4>1, AllOfNone
    <3>3. CASE e.len # 0
      <4>1. s # <<>>
          BY <3>1, <3>3 DEF Carries, Op
      <4>2. PICK a \in Nat, b \in Nat : a = Len(w) /\ b = Len(s) /\ b # 0
          BY <1>5, <4>1, EmptySeq
      <4>3. PICK v \in Seq(Seg) : v = w \o s
          BY <1>5, ConcatProperties
      <4>4. Len(v) = a + b /\ \A k \in 1 .. a + b : v[k] = IF k <= a THEN w[k] ELSE s[k - a]
          BY <1>5, <4>2, <4>3, ConcatProperties
      <4>5. \A k \in 1 .. b : s[k].op = "RDMA_WRITE" /\ s[k].what = what /\ (s[k].last <=> k = b)
          BY <3>1, <4>2 DEF Carries, Message
      <4>6. ASSUME NEW k \in 1 .. a + b, v[k].op = "SEND" PROVE v[k].what.for < i
        <5>1. CASE k <= a
          <6>1. k \in 1 .. Len(w) /\ v[k] = w[k]
              BY <4>2, <4>4, <5>1
          <6>2. w[k] \in Within("SEND", o, "SEND")
              BY <6>1, ElementOfSeq
          <6>3. w[k].what.for \in Among(o, "SEND")
              BY <4>6, <6>1, <6>2 DEF Within
          <6>4. w[k].what.for \in 1 .. c
              BY <1>4, <6>3
          <6>5. w[k].what.for < c + 1
              BY <6>4
          <6> QED BY <3>1, <6>1, <6>5
        <5>2. CASE k > a
          <6>1. PICK j \in 1 .. b : j = k - a
            <7>1. k - a \in 1 .. b
                BY <5>2
            <7> QED BY <7>1
          <6>2. ~(k <= a)
              BY <5>2
          <6>3. v[k] = s[j]
              BY <4>4, <6>1, <6>2
          <6> QED BY <4>5, <4>6, <6>3
        <5>3. k <= a \/ k > a
            OBVIOUS
        <5> QED BY <5>1, <5>2, <5>3, Zenon
      <4>7. PICK l \in 1 .. a + b : l = a + b
          BY <4>2
      <4>8. v[l].op = "RDMA_WRITE" /\ v[l].what.for = i /\ v[l].last
        <5>1. ~(l <= a) /\ l - a = b /\ b \in 1 .. b
            BY <4>2, <4>7
        <5>2. v[l] = s[b]
            BY <4>4, <5>1
        <5> QED BY <3>1, <4>5, <5>1, <5>2
      <4>9. l \in 1 .. Len(v) /\ \A k \in 1 .. l : v[k].op = "SEND" => v[k].what.for < i
          BY <4>4, <4>6, <4>7
      <4>10. Coming(v, i)
          BY <4>8, <4>9, Zenon DEF Coming
      <4> QED BY <4>3, <4>10
    <3> QED BY <3>2, <3>3
  <2> QED BY <2>1, <2>2
<1>10. ASSUME NEW i \in Among(q, "WRITE"), NEW x \in Among(q, "SEND"), i < x, Rank(q, "SEND", x) <= n
       PROVE  All(p, q, i) \subseteq pl
  <2>1. x \in Among(o, "SEND")
    <3> SUFFICES ASSUME x \notin Among(o, "SEND") PROVE FALSE
        OBVIOUS
    <3>1. x = c + 1 /\ Rank(q, "SEND", x) = Total(o, "SEND") + 1
        BY <1>3
    <3>2. Total(o, "SEND") \in Nat
        BY RankOrder
    <3> QED BY <1>10, <3>1, <3>2
  <2>2. x \in 1 .. c /\ Rank(o, "SEND", x) <= n
      BY <1>3, <1>4, <1>10, <2>1
  <2>3. i \in Among(o, "WRITE") /\ i \in 1 .. c
    <3>1. i # c + 1
      <4>1. i = c + 1 => ~(i < x)
          BY <2>2
      <4> QED BY <1>10, <4>1
    <3> QED BY <1>3, <1>4, <3>1
  <2>4. All(p, o, i) \subseteq pl
      BY <1>10, <2>1, <2>2, <2>3 DEF WriteLink, Landed
  <2> QED BY <1>7, <2>3, <2>4
<1>11. up => Underway(p, w \o s, q, pl)
    BY <1>9 DEF Underway
<1>12. Landed(p, q, pl, n)
    BY <1>10 DEF Landed
<1> QED BY <1>6, <1>8, <1>11, <1>12 DEF WriteLink

\* A message that answers a read request.
LEMMA WriteLinkOther ==
    ASSUME NEW o, NEW w \in Seq(Seg), NEW p, NEW up, NEW pl, NEW n, WriteLink(p, w, o, up, pl, n),
           NEW s, NEW sop, NEW what, NEW m, Carries(s, sop, what, m), sop # "RDMA_WRITE"
    PROVE  WriteLink(p, w \o s, o, up, pl, n)
<1>1. s \in Seq(Seg) /\ Message(s)
    BY DEF Carries, Message
<1>2. w \in Seq(Within("RDMA_WRITE", o, "WRITE"))
    BY DEF WriteLink
<1>3. w \o s \in Seq(Within("RDMA_WRITE", o, "WRITE"))
    BY <1>2, WithinOther
<1>4. up => Front("RDMA_WRITE", p, w \o s, pl)
    BY <1>1, FrontAppend DEF WriteLink
<1>5. \A i : Coming(w, i) => Coming(w \o s, i)
    BY <1>1, ComingAppend
<1>6. up => Underway(p, w \o s, o, pl)
    BY <1>5 DEF WriteLink, Underway
<1> QED BY <1>3, <1>4, <1>6 DEF WriteLink

\* The receiver takes the first segment, or is gone: pl2 is then in memory, and
\* n2 sends have arrived.
LEMMA WriteLinkTail ==
    ASSUME NEW o \in Seq(Op), NEW w \in Seq(Seg), w # <<>>, Framed(w), NEW p, NEW up, NEW up2, up2 => up,
           NEW pl, NEW pl2, pl \subseteq pl2, NEW n \in Nat, NEW n2, WriteLink(p, w, o, up, pl, n),
           NEW seg, seg = w[1],
           up2 /\ seg.op = "RDMA_WRITE" => \A b \in Bytes(seg) : <<p, b[1], b[2]>> \in pl2,
           \/ n2 = n
           \/ up /\ seg.op = "SEND" /\ seg.what.for \in Among(o, "SEND")
              /\ Rank(o, "SEND", seg.what.for) = n + 1 /\ n2 = n + 1
    PROVE  WriteLink(p, Tail(w), o, up2, pl2, n2)
<1>1. PICK X : X = Within("RDMA_WRITE", o, "WRITE")
    OBVIOUS
<1>2. w \in Seq(X)
    BY <1>1 DEF WriteLink
<1>3. Tail(w) \in Seq(X) /\ seg \in X /\ seg \in Seg /\ seg = Head(w)
  <2>1. Tail(w) \in Seq(X) /\ Head(w) \in X
      BY <1>2, HeadTailProperties
  <2> QED BY <2>1, FramedTail
<1>4. PICK t \in Seq(Seg) : t = Tail(w)
    BY FramedTail
<1>5. seg.last \in BOOLEAN
    BY <1>3, SegFields
<1>6. ASSUME up2, seg.op = "RDMA_WRITE"
      PROVE  {p} \X {seg.what.for} \X (0 .. (seg.off + seg.len) - 1) \subseteq pl2
  <2>1. Front("RDMA_WRITE", p, w, pl)
      BY <1>6 DEF WriteLink
  <2>2. \A b \in Bytes(seg) : <<p, b[1], b[2]>> \in pl2
      BY <1>6
  <2>3. Front(seg.op, p, w, pl) /\ seg \in Seg
      BY <1>3, <1>6, <2>1
  <2> QED BY <2>2, <2>3, FrontBytes
<1>7. ASSUME up2 PROVE Front("RDMA_WRITE", p, t, pl2)
  <2>1. Front("RDMA_WRITE", p, w, pl)
      BY <1>7 DEF WriteLink
  <2> QED BY <1>4, <1>7, <2>1, FrontTail, Zenon
<1>8. ASSUME up2, NEW i \in Among(o, "WRITE") PROVE All(p, o, i) \subseteq pl2 \/ Coming(t, i)
  <2>1. All(p, o, i) \subseteq pl \/ Coming(w, i)
      BY <1>8 DEF WriteLink, Underway
  <2>2. CASE Coming(w, i) /\ ~Coming(t, i)
    <3>1. seg.op = "RDMA_WRITE" /\ seg.what.for = i /\ seg.last
        BY <1>4, <2>2, ComingTail
    <3>2. seg.off + seg.len = o[i].len
        BY <1>1, <1>3, <3>1 DEF Within
    <3> QED BY <1>6, <1>8, <3>1, <3>2 DEF All
  <2> QED BY <2>1, <2>2
<1>9. ASSUME NEW i \in Among(o, "WRITE"), NEW x \in Among(o, "SEND"), i < x, Rank(o, "SEND", x) <= n2
      PROVE  All(p, o, i) \subseteq pl2
  <2>1. i \in Nat /\ x \in Nat /\ Rank(o, "SEND", x) \in Nat
    <3>1. i \in Nat /\ x \in Nat
        BY DEF Among
    <3> QED BY <3>1, RankOrder
  <2>2. CASE Rank(o, "SEND", x) <= n
    <3>1. All(p, o, i) \subseteq pl
        BY <1>9, <2>2 DEF WriteLink, Landed
    <3> QED BY <3>1
  <2>3. CASE ~(Rank(o, "SEND", x) <= n)
    <3>1. /\ up /\ seg.op = "SEND" /\ seg.what.for \in Among(o, "SEND")
          /\ Rank(o, "SEND", seg.what.for) = n + 1 /\ n2 = n + 1
        BY <1>9, <2>3
    <3>2. Rank(o, "SEND", x) = n + 1
        BY <1>9, <2>1, <2>3, <3>1
    <3>3. x = seg.what.for
        BY <3>1, <3>2, RankOrder
    <3>4. ~Coming(w, i)
      <4>1. Coming(w, i) => x < i
          BY <3>1, <3>3, ComingTail
      <4>2. ~(x < i)
          BY <1>9, <2>1
      <4> QED BY <4>1, <4>2
    <3>5. All(p, o, i) \subseteq pl
        BY <3>1, <3>4 DEF WriteLink, Underway
    <3> QED BY <3>5
  <2> QED BY <2>2, <2>3
<1>10. up2 => Front("RDMA_WRITE", p, t, pl2) /\ Underway(p, t, o, pl2)
    BY <1>7, <1>8 DEF Underway
<1>11. Landed(p, o, pl2, n2)
    BY <1>9 DEF Landed
<1> QED BY <1>1, <1>3, <1>4, <1>10, <1>11 DEF WriteLink

--------------------------------------------------------------------------------
(* What arrived *)

\* The wire from p, which issued o, to an end of status st, and all that
\* arrived there.
Arrival(p, w, o, st, b, ps, rc, pl) ==
    /\ SendLink(w, o, st = "up", b, ps, rc)
    /\ st = "wild" => Unposted(o, ps, rc)
    /\ WriteLink(p, w, o, st = "up", pl, Len(rc))

\* No more sends arrive than were issued.
LEMMA DeliveredBound ==
    ASSUME NEW o \in Seq(Op), NEW rc \in Seq(Buf), Delivered(o, rc)
    PROVE  Len(rc) <= Total(o, "SEND")
<1>1. PICK k \in Nat : k = Len(rc)
    OBVIOUS
<1>2. Total(o, "SEND") \in Nat
    BY RankOrder
<1>3. CASE k = 0
    BY <1>1, <1>2, <1>3
<1>4. CASE k # 0
  <2>1. k \in 1 .. k
      BY <1>4
  <2>2. PICK i \in Among(o, "SEND") : Rank(o, "SEND", i) = k
      BY <1>1, <2>1 DEF Delivered
  <2>3. i \in Nat
      BY DEF Among
  <2> QED BY <1>1, <2>2, <2>3, RankOrder
<1> QED BY <1>3, <1>4

\* The send at the front is the one that is expected.
LEMMA SendAtFront ==
    ASSUME NEW o \in Seq(Op), NEW w \in Seq(Seg), w # <<>>, NEW b, NEW ps, NEW rc,
           SendLink(w, o, TRUE, b, ps, rc), w[1].op = "SEND"
    PROVE  w[1].what.for \in Among(o, "SEND") /\ Rank(o, "SEND", w[1].what.for) = Len(rc) + 1
<1>1. PICK n : SendNums(w, o, n) /\ n = Len(rc) + 1
    BY DEF SendLink
<1>2. Rank(o, "SEND", w[1].what.for) = Len(rc) + 1
    BY <1>1, SendNumsTail
<1>3. PICK X : X = Within("SEND", o, "SEND")
    OBVIOUS
<1>4. w \in Seq(X)
    BY <1>3 DEF SendLink
<1>5. w[1] \in X
    BY <1>4, HeadTailProperties
<1> QED BY <1>2, <1>3, <1>5 DEF Within

\* The peer issues an operation.
LEMMA ArrivalIssue ==
    ASSUME NEW o \in Seq(Op), NEW e \in Op, NEW q, q = Append(o, e), NEW w \in Seq(Seg), NEW p,
           NEW st, NEW b, NEW ps, NEW rc \in Seq(Buf), NEW pl, Arrival(p, w, o, st, b, ps, rc, pl),
           NEW s, NEW sop, NEW what, NEW m, Carries(s, sop, what, m),
           sop = "SEND" <=> e.op = "SEND", sop = "RDMA_WRITE" <=> e.op = "WRITE",
           sop = "SEND" => s # <<>>,
           sop \in {"SEND", "RDMA_WRITE"} => m = e.len /\ what.for = Len(o) + 1
    PROVE  Arrival(p, w \o s, q, st, b, ps, rc, pl)
<1>1. PICK up \in BOOLEAN : up = (st = "up")
    OBVIOUS
<1>2. SendLink(w, o, up, b, ps, rc) /\ WriteLink(p, w, o, up, pl, Len(rc))
    BY <1>1 DEF Arrival
<1>3. SendLink(w \o s, q, up, b, ps, rc)
    BY <1>2, SendLinkIssue
<1>4. w \in Seq(Within("SEND", o, "SEND")) /\ Len(rc) \in Nat /\ Len(rc) <= Total(o, "SEND")
    BY <1>2, DeliveredBound DEF SendLink
<1>5. WriteLink(p, w \o s, q, up, pl, Len(rc))
    BY <1>2, <1>4, WriteLinkIssue
<1>6. st = "wild" => Unposted(q, ps, rc)
    BY UnpostedIssue DEF Arrival
<1> QED BY <1>1, <1>3, <1>5, <1>6 DEF Arrival

\* The peer answers a read request.
LEMMA ArrivalAnswer ==
    ASSUME NEW o \in Seq(Op), NEW w \in Seq(Seg), NEW p,
           NEW st, NEW b, NEW ps, NEW rc, NEW pl, Arrival(p, w, o, st, b, ps, rc, pl),
           NEW s, NEW what, NEW m, Carries(s, "RDMA_READ_RESP", what, m)
    PROVE  Arrival(p, w \o s, o, st, b, ps, rc, pl)
<1>1. PICK up \in BOOLEAN : up = (st = "up")
    OBVIOUS
<1>2. SendLink(w, o, up, b, ps, rc) /\ WriteLink(p, w, o, up, pl, Len(rc))
    BY <1>1 DEF Arrival
<1>3. SendLink(w \o s, o, up, b, ps, rc)
    BY <1>2, SendLinkOther
<1>4. WriteLink(p, w \o s, o, up, pl, Len(rc))
    BY <1>2, WriteLinkOther
<1> QED BY <1>1, <1>3, <1>4 DEF Arrival

\* The process ends; no segment is involved.
LEMMA ArrivalStop ==
    ASSUME NEW p, NEW w, NEW o, NEW b, NEW ps, NEW rc, NEW pl, Arrival(p, w, o, "up", b, ps, rc, pl)
    PROVE  Arrival(p, w, o, "eof", b, ps, rc, pl)
<1>1. SendLink(w, o, TRUE, b, ps, rc) /\ WriteLink(p, w, o, TRUE, pl, Len(rc))
    BY DEF Arrival
<1>2. SendLink(w, o, FALSE, b, ps, rc)
    BY <1>1 DEF SendLink
<1>3. WriteLink(p, w, o, FALSE, pl, Len(rc))
    BY <1>1 DEF WriteLink
<1>4. ("eof" = "up") = FALSE
    OBVIOUS
<1> QED BY <1>2, <1>3, <1>4 DEF Arrival

\* A receive is posted.
LEMMA ArrivalPost ==
    ASSUME NEW p, NEW w, NEW o, NEW b \in Seq(Buf), NEW ps \in Seq(Nat), NEW rc \in Seq(Buf), NEW pl,
           Arrival(p, w, o, "up", b, ps, rc, pl),
           NEW x \in Buf, NEW len \in Nat, x.id = Len(ps) + 1, x.len = len, x.got = {}
    PROVE  Arrival(p, w, o, "up", Append(b, x), Append(ps, len), rc, pl)
<1>1. SendLink(w, o, TRUE, b, ps, rc) /\ WriteLink(p, w, o, TRUE, pl, Len(rc))
    BY DEF Arrival
<1>2. SendLink(w, o, TRUE, Append(b, x), Append(ps, len), rc)
    BY <1>1, SendLinkPost
<1> QED BY <1>1, <1>2 DEF Arrival

\* The first segment is taken and is not of a send, or the process ends on it.
LEMMA ArrivalTail ==
    ASSUME NEW o \in Seq(Op), NEW w \in Seq(Seg), w # <<>>, Framed(w), NEW p,
           NEW b \in Seq(Buf), NEW ps \in Seq(Nat), NEW rc \in Seq(Buf), NEW pl,
           Arrival(p, w, o, "up", b, ps, rc, pl),
           NEW seg, seg = w[1], NEW st2, NEW pl2, pl \subseteq pl2,
           st2 = "up" => seg.op # "SEND",
           seg.op = "RDMA_WRITE" /\ st2 = "up" => \A y \in Bytes(seg) : <<p, y[1], y[2]>> \in pl2,
           st2 = "wild" => seg.op = "SEND" /\ (b # <<>> => ~(seg.off + seg.len <= Head(b).len))
    PROVE  Arrival(p, Tail(w), o, st2, b, ps, rc, pl2)
<1>1. PICK up2 \in BOOLEAN : up2 = (st2 = "up")
    OBVIOUS
<1>0. PICK n \in Nat : n = Len(rc)
    OBVIOUS
<1>2. SendLink(w, o, TRUE, b, ps, rc) /\ WriteLink(p, w, o, TRUE, pl, Len(rc))
    BY DEF Arrival
<1>3. SendLink(Tail(w), o, up2, b, ps, rc)
    BY <1>1, <1>2, SendLinkTail
<1>4. WriteLink(p, Tail(w), o, up2, pl2, Len(rc))
  <2>1. up2 /\ seg.op = "RDMA_WRITE" => \A y \in Bytes(seg) : <<p, y[1], y[2]>> \in pl2
      BY <1>1
  <2>2. WriteLink(p, w, o, TRUE, pl, n)
      BY <1>0, <1>2
  <2>3. WriteLink(p, Tail(w), o, up2, pl2, n)
      BY <2>1, <2>2, WriteLinkTail
  <2> QED BY <1>0, <2>3
<1>5. st2 = "wild" => Unposted(o, ps, rc)
    BY <1>2, SendLinkWild
<1> QED BY <1>1, <1>3, <1>4, <1>5 DEF Arrival

\* A segment of a send that is not the last one.
LEMMA ArrivalMore ==
    ASSUME NEW o \in Seq(Op), NEW w \in Seq(Seg), w # <<>>, Framed(w), NEW p,
           NEW b \in Seq(Buf), b # <<>>, NEW ps \in Seq(Nat), NEW rc \in Seq(Buf), NEW pl,
           Arrival(p, w, o, "up", b, ps, rc, pl),
           NEW seg, seg = w[1], seg.op = "SEND", ~seg.last,
           NEW f \in Buf, f.id = Head(b).id, f.len = Head(b).len, f.got = Head(b).got \cup Bytes(seg)
    PROVE  Arrival(p, Tail(w), o, "up", <<f>> \o Tail(b), ps, rc, pl)
<1>0. Len(rc) \in Nat
    OBVIOUS
<1>1. SendLink(w, o, TRUE, b, ps, rc) /\ WriteLink(p, w, o, TRUE, pl, Len(rc))
    BY DEF Arrival
<1>2. SendLink(Tail(w), o, TRUE, <<f>> \o Tail(b), ps, rc)
    BY <1>1, SendLinkMore
<1>3. WriteLink(p, Tail(w), o, TRUE, pl, Len(rc))
    BY <1>0, <1>1, WriteLinkTail
<1> QED BY <1>2, <1>3 DEF Arrival

\* The last segment of a send.
LEMMA ArrivalDone ==
    ASSUME NEW o \in Seq(Op), NEW w \in Seq(Seg), w # <<>>, Framed(w), NEW p,
           NEW b \in Seq(Buf), b # <<>>, NEW ps \in Seq(Nat), NEW rc \in Seq(Buf), NEW pl,
           Arrival(p, w, o, "up", b, ps, rc, pl),
           NEW seg, seg = w[1], seg.op = "SEND", seg.last,
           NEW x \in Buf, x.id = Head(b).id, x.len = seg.off + seg.len, x.got = Head(b).got \cup Bytes(seg)
    PROVE  Arrival(p, Tail(w), o, "up", Tail(b), ps, Append(rc, x), pl)
<1>0. Len(rc) \in Nat
    OBVIOUS
<1>1. SendLink(w, o, TRUE, b, ps, rc) /\ WriteLink(p, w, o, TRUE, pl, Len(rc))
    BY DEF Arrival
<1>2. SendLink(Tail(w), o, TRUE, Tail(b), ps, Append(rc, x))
    BY <1>1, SendLinkDone
<1>3. seg.what.for \in Among(o, "SEND") /\ Rank(o, "SEND", seg.what.for) = Len(rc) + 1
    BY <1>1, SendAtFront
<1>4. WriteLink(p, Tail(w), o, TRUE, pl, Len(rc) + 1)
    BY <1>0, <1>1, <1>3, WriteLinkTail
<1>5. Len(Append(rc, x)) = Len(rc) + 1
    BY AppendProperties
<1> QED BY <1>2, <1>4, <1>5 DEF Arrival

Arrived(h) ==
    Arrival(Peer(h), wire[h], ops[Peer(h)], status[h], buf_q[h], posts[h], rcvd[h], placed[h])

\* The inductive invariant of delivery.
DeliverInv == WireInv /\ \A h \in Host : Arrived(h)

\* At the start nothing was issued and nothing has arrived.
LEMMA DeliverInit ==
    ASSUME Init
    PROVE  DeliverInv
<1>1. WireInv
    BY WireInit
<1>2. PICK e : e = <<>> /\ Len(e) = 0
    OBVIOUS
<1>3. \A X : e \in Seq(X)
    BY <1>2
<1>4. \A name : Among(e, name) = {}
    BY <1>2 DEF Among
<1>5. Total(e, "SEND") = 0
    BY <1>4, FS_EmptySet DEF Total
<1>6. SendLink(e, e, TRUE, e, e, e)
  <2>1. PICK g : g = [i \in 1 .. Len(e) + 1 |-> 1]
      OBVIOUS
  <2>2. Numbered(e, SendK, g, 1) /\ g[1] = 1
      BY <1>2, <2>1 DEF Numbered
  <2>3. SendCount(e, e, g)
      BY <1>2, <1>5, <2>2 DEF SendCount
  <2>4. SendNums(e, e, Len(e) + 1)
      BY <1>2, <2>2, <2>3 DEF SendNums
  <2>5. Taken(e) = {}
      BY <1>2 DEF Taken
  <2>6. Waiting(e, e, e, Len(e))
      BY <1>2, <2>5 DEF Waiting
  <2>7. Delivered(e, e)
      BY <1>2 DEF Delivered
  <2> QED BY <1>3, <2>4, <2>6, <2>7 DEF SendLink
<1>7. ASSUME NEW p PROVE WriteLink(p, e, e, TRUE, {}, Len(e))
    BY <1>2, <1>3, <1>4 DEF WriteLink, Front, Underway, Landed
<1>8. ASSUME NEW p PROVE Arrival(p, e, e, "up", e, e, e, {})
    BY <1>6, <1>7 DEF Arrival
<1>9. ASSUME NEW h \in Host PROVE Arrived(h)
  <2>1. Peer(h) \in Host
      BY Peers
  <2>2. /\ wire[h] = e /\ ops[Peer(h)] = e /\ status[h] = "up" /\ buf_q[h] = e /\ posts[h] = e
        /\ rcvd[h] = e /\ placed[h] = {}
      BY <1>2, <2>1 DEF Init
  <2> QED BY <1>8, <2>2 DEF Arrived
<1> QED BY <1>1, <1>9 DEF DeliverInv

\* Every step keeps the invariant of delivery.
LEMMA DeliverNext ==
    ASSUME DeliverInv, [Next]_vars
    PROVE  DeliverInv'
<1>1. WireInv /\ WireInv' /\ Typed /\ Typed'
    BY WireNext, TypedNext DEF DeliverInv, WireInv
<1>2. /\ wire \in [Host -> Seq(Seg)] /\ buf_q \in [Host -> Seq(Buf)] /\ ops \in [Host -> Seq(Op)]
      /\ posts \in [Host -> Seq(Nat)] /\ rcvd \in [Host -> Seq(Buf)] /\ placed \in [Host -> Placed]
      /\ status \in [Host -> Status]
    BY <1>1 DEF Typed, TypedConn, TypedWork, TypedHist
<1>3. \A h \in Host : Arrived(h)
    BY DEF DeliverInv
<1>4. ASSUME UNCHANGED <<wire, ops, status, buf_q, posts, rcvd, placed>> PROVE DeliverInv'
  <2>1. ASSUME NEW g \in Host PROVE Arrived(g)'
      BY <1>3, <1>4 DEF Arrived
  <2> QED BY <1>1, <2>1 DEF DeliverInv
<1>5. CASE UNCHANGED vars
    BY <1>4, <1>5 DEF vars, hist
<1>6. CASE Next
  <2>1. PICK h \in Host :
          \/ \E len \in SendLens : rdmap_send(h, len)
          \/ \E stag \in Stag, len \in WriteLens : rdmap_rdma_write(h, stag, WriteTo, len)
          \/ \E sink \in Stag, src \in Stag, len \in ReadLens : rdmap_rdma_read(h, sink, len, src)
          \/ \E len \in BufLens : rdmap_post_recv(h, len)
          \/ \E c \in Cq : cq_consume(h, c)
          \/ \E stag \in Stag : mem_stag_destroy(h, stag)
          \/ mpa_recv(h)
          \/ recv_eof(h)
      BY <1>6 DEF Next
  <2>2. PICK p \in Host : p = Peer(h) /\ p # h /\ Peer(p) = h /\ Host = {h, p}
      BY Peers
  <2>3. Arrived(h) /\ Arrived(p)
      BY <1>3
  <2>4. ASSUME Arrived(h)', Arrived(p)' PROVE DeliverInv'
    <3>1. ASSUME NEW g \in Host PROVE Arrived(g)'
        BY <2>2, <2>4
    <3> QED BY <1>1, <3>1 DEF DeliverInv
  \* An operation of h arrives at p.
  <2>5. PICK o \in Seq(Op), w \in Seq(Seg), rc \in Seq(Buf) : o = ops[h] /\ w = wire[p] /\ rc = rcvd[p]
      BY <1>2
  <2>6. ASSUME NEW e \in Op, Issue(h, e), NEW s, NEW sop, NEW what, NEW m, Carries(s, sop, what, m),
               sop = "SEND" <=> e.op = "SEND", sop = "RDMA_WRITE" <=> e.op = "WRITE",
               sop = "SEND" => s # <<>>,
               sop \in {"SEND", "RDMA_WRITE"} => m = e.len /\ what.for = OpId(h),
               wire' = [wire EXCEPT ![Peer(h)] = @ \o s],
               UNCHANGED <<status, buf_q, posts, rcvd, placed>>
        PROVE  DeliverInv'
    <3>1. ops'[h] = Append(o, e) /\ ops'[p] = ops[p] /\ wire'[p] = w \o s /\ wire'[h] = wire[h]
        BY <1>2, <2>2, <2>5, <2>6 DEF Issue
    <3>2. Arrival(h, w, o, status[p], buf_q[p], posts[p], rc, placed[p])
        BY <2>2, <2>3, <2>5 DEF Arrived
    <3>3. sop \in {"SEND", "RDMA_WRITE"} => m = e.len /\ what.for = Len(o) + 1
        BY <2>5, <2>6 DEF OpId
    <3>4. PICK q : q = Append(o, e)
        OBVIOUS
    <3>5. Arrival(h, w \o s, q, status[p], buf_q[p], posts[p], rc, placed[p])
        BY <2>6, <3>2, <3>3, <3>4, ArrivalIssue
    <3>6. Arrived(p)'
        BY <2>2, <2>5, <2>6, <3>1, <3>4, <3>5 DEF Arrived
    <3>7. Arrived(h)'
        BY <2>2, <2>3, <2>6, <3>1 DEF Arrived
    <3> QED BY <2>4, <3>6, <3>7
  <2>7. ASSUME NEW len \in SendLens, rdmap_send(h, len) PROVE DeliverInv'
    <3>1. PICK s : /\ UntaggedMsg(s, "SEND", [for |-> OpId(h)], len, send_msn[h])
                   /\ wire' = [wire EXCEPT ![Peer(h)] = @ \o s]
        BY <1>1, <2>7, SendStep
    <3>2. Carries(s, "SEND", [for |-> OpId(h)], len) /\ s # <<>>
        BY <3>1 DEF UntaggedMsg
    <3>3. PICK what : what = [for |-> OpId(h)] /\ what.for = OpId(h)
      <4>1. [for |-> OpId(h)].for = OpId(h)
          OBVIOUS
      <4> QED BY <4>1, Zenon
    <3>4. PICK e \in Op : e = [op |-> "SEND", len |-> len] /\ e.op = "SEND" /\ e.len = len
      <4>1. len \in Nat
          BY RdmapAssumption
      <4>2. LET e == [op |-> "SEND", len |-> len] IN e \in Op /\ e.op = "SEND" /\ e.len = len
          BY <4>1 DEF Op
      <4> QED BY <4>2, Zenon
    <3>5. Issue(h, e) /\ UNCHANGED <<status, buf_q, posts, rcvd, placed>>
        BY <2>7, <3>4 DEF rdmap_send
    <3>6. Carries(s, "SEND", what, len)
        BY <3>2, <3>3
    <3> QED BY <2>6, <3>1, <3>2, <3>3, <3>4, <3>5, <3>6
  <2>8. ASSUME NEW stag \in Stag, NEW len \in WriteLens, rdmap_rdma_write(h, stag, WriteTo, len)
        PROVE  DeliverInv'
    <3>1. PICK s : /\ Carries(s, "RDMA_WRITE", [for |-> OpId(h)], len)
                   /\ wire' = [wire EXCEPT ![Peer(h)] = @ \o s]
        BY <1>1, <2>8, WriteStep
    <3>2. PICK what : what = [for |-> OpId(h)] /\ what.for = OpId(h)
      <4>1. [for |-> OpId(h)].for = OpId(h)
          OBVIOUS
      <4> QED BY <4>1, Zenon
    <3>3. PICK e \in Op : e = [op |-> "WRITE", len |-> len] /\ e.op = "WRITE" /\ e.len = len
      <4>1. len \in Nat
          BY RdmapAssumption
      <4>2. LET e == [op |-> "WRITE", len |-> len] IN e \in Op /\ e.op = "WRITE" /\ e.len = len
          BY <4>1 DEF Op
      <4> QED BY <4>2, Zenon
    <3>4. Issue(h, e) /\ UNCHANGED <<status, buf_q, posts, rcvd, placed>>
        BY <2>8, <3>3 DEF rdmap_rdma_write
    <3>5. Carries(s, "RDMA_WRITE", what, len)
        BY <3>1, <3>2
    <3> QED BY <2>6, <3>1, <3>2, <3>3, <3>4, <3>5
  <2>9. ASSUME NEW sink \in Stag, NEW src \in Stag, NEW len \in ReadLens, rdmap_rdma_read(h, sink, len, src)
        PROVE  DeliverInv'
    <3>1. PICK s, what : Requests(h, sink, len, s, what)
        BY <1>1, <2>9, ReadStep
    <3>2. Carries(s, "RDMA_READ_REQ", what, 1) /\ wire' = [wire EXCEPT ![Peer(h)] = @ \o s]
        BY <3>1 DEF Requests, UntaggedMsg
    <3>3. PICK e \in Op : e = [op |-> "READ", len |-> len] /\ e.op = "READ" /\ e.len = len
      <4>1. len \in Nat
          BY RdmapAssumption
      <4>2. LET e == [op |-> "READ", len |-> len] IN e \in Op /\ e.op = "READ" /\ e.len = len
          BY <4>1 DEF Op
      <4> QED BY <4>2, Zenon
    <3>4. Issue(h, e) /\ UNCHANGED <<status, buf_q, posts, rcvd, placed>>
        BY <2>9, <3>3 DEF rdmap_rdma_read
    <3> QED BY <2>6, <3>2, <3>3, <3>4
  <2>10. ASSUME NEW len \in BufLens, rdmap_post_recv(h, len) PROVE DeliverInv'
    <3>1. len \in Nat /\ status[h] = "up"
        BY <2>10, RdmapAssumption DEF rdmap_post_recv, Running
    <3>2. PICK b \in Seq(Buf), ps \in Seq(Nat), r \in Seq(Buf) : b = buf_q[h] /\ ps = posts[h] /\ r = rcvd[h]
        BY <1>2
    <3>3. PICK n \in Nat : n = Len(ps) + 1
        OBVIOUS
    <3>4. PICK x \in Buf : x = [id |-> n, len |-> len, got |-> {}] /\ x.id = n /\ x.len = len /\ x.got = {}
      <4>1. LET x == [id |-> n, len |-> len, got |-> {}] IN x \in Buf /\ x.id = n /\ x.len = len /\ x.got = {}
          BY <3>1 DEF Buf
      <4> QED BY <4>1, Zenon
    <3>5. /\ buf_q' = [buf_q EXCEPT ![h] = Append(@, x)] /\ posts' = [posts EXCEPT ![h] = Append(@, len)]
          /\ UNCHANGED <<wire, ops, status, rcvd, placed>>
        BY <2>10, <3>2, <3>3, <3>4 DEF rdmap_post_recv
    <3>6. Arrival(p, wire[h], ops[p], "up", b, ps, r, placed[h])
        BY <2>2, <2>3, <3>1, <3>2 DEF Arrived
    <3>7. Arrival(p, wire[h], ops[p], "up", Append(b, x), Append(ps, len), r, placed[h])
        BY <3>1, <3>3, <3>4, <3>6, ArrivalPost
    <3>8. /\ buf_q'[h] = Append(b, x) /\ posts'[h] = Append(ps, len)
          /\ buf_q'[p] = buf_q[p] /\ posts'[p] = posts[p]
        BY <1>2, <2>2, <3>2, <3>5
    <3>9. Arrived(h)'
        BY <2>2, <3>1, <3>2, <3>5, <3>7, <3>8 DEF Arrived
    <3>10. Arrived(p)'
        BY <2>2, <2>3, <3>5, <3>8 DEF Arrived
    <3> QED BY <2>4, <3>9, <3>10
  <2>11. ASSUME NEW c \in Cq, cq_consume(h, c) PROVE DeliverInv'
      BY <1>4, <2>11 DEF cq_consume, hist
  <2>12. ASSUME NEW stag \in Stag, mem_stag_destroy(h, stag) PROVE DeliverInv'
      BY <1>4, <2>12 DEF mem_stag_destroy, hist
  <2>13. CASE recv_eof(h)
    <3>1. status[h] = "up" /\ status' = [status EXCEPT ![h] = "eof"]
          /\ UNCHANGED <<wire, ops, buf_q, posts, rcvd, placed>>
        BY <2>13 DEF recv_eof, Running, hist
    <3>2. Arrival(p, wire[h], ops[p], "up", buf_q[h], posts[h], rcvd[h], placed[h])
        BY <2>2, <2>3, <3>1 DEF Arrived
    <3>3. Arrival(p, wire[h], ops[p], "eof", buf_q[h], posts[h], rcvd[h], placed[h])
        BY <3>2, ArrivalStop
    <3>4. status'[h] = "eof" /\ status'[p] = status[p]
        BY <1>2, <2>2, <3>1
    <3>5. Arrived(h)'
        BY <2>2, <3>1, <3>3, <3>4 DEF Arrived
    <3>6. Arrived(p)'
        BY <2>2, <2>3, <3>1, <3>4 DEF Arrived
    <3> QED BY <2>4, <3>5, <3>6
  \* A segment arrives at h.
  <2>14. ASSUME Arrives(h)
         PROVE  /\ wire[h] \in Seq(Seg) /\ wire[h] # <<>> /\ Framed(wire[h])
                /\ wire[h][1] = Next_seg(h) /\ Next_seg(h) \in Seg
                /\ Partial(wire[h], outst_tag[h], outst_untag[h]) /\ Next_seg(h) = Head(wire[h])
                /\ Arrival(p, wire[h], ops[p], "up", buf_q[h], posts[h], rcvd[h], placed[h])
    <3>1. status[h] = "up" /\ wire[h] # <<>>
        BY <2>14 DEF Arrives, Running
    <3>2. Framed(wire[h]) /\ Partial(wire[h], outst_tag[h], outst_untag[h])
        BY <1>1, <3>1 DEF WireInv, Link
    <3>3. wire[h] \in Seq(Seg)
        BY <1>2
    <3>4. Head(wire[h]) = wire[h][1] /\ Head(wire[h]) \in Seg
        BY <3>1, <3>2, <3>3, FramedTail
    <3> QED BY <2>2, <2>3, <3>1, <3>2, <3>3, <3>4 DEF Next_seg, Arrived
  <2>15. CASE recv_send(h)
    <3>1. PICK seg \in Seg, b \in Buf, f \in Buf, len \in Nat, q \in Seq(Buf) : RecvSend(h, seg, b, f, len, q)
        BY <1>1, <2>15, RecvSendStep
    <3>2. /\ Arrives(h) /\ wire' = [wire EXCEPT ![h] = Tail(@)]
          /\ UNCHANGED <<status, ops, posts, placed>> /\ status[h] = "up"
        BY <2>15 DEF recv_send, Arrives, Running
    <3>3. PICK v \in Seq(Seg) : v = wire[h]
        BY <1>2
    <3>4. /\ v # <<>> /\ Framed(v) /\ seg = v[1] /\ seg = Head(v) /\ Partial(v, outst_tag[h], outst_untag[h])
          /\ Arrival(p, v, ops[p], "up", q, posts[h], rcvd[h], placed[h])
        BY <2>14, <3>1, <3>2, <3>3 DEF RecvSend
    <3>5. /\ seg.op = "SEND" /\ ~seg.tagged /\ q = buf_q[h] /\ q # <<>> /\ b = Head(q)
          /\ f.id = b.id /\ f.len = b.len /\ f.got = b.got \cup Bytes(seg)
          /\ len = Accumulated(outst_untag[h], seg) /\ seg.last \in BOOLEAN
        BY <3>1, SegFields DEF RecvSend
    <3>6. len = seg.off + seg.len
        BY <3>4, <3>5, PartialTake
    <3>7. /\ wire'[h] = Tail(v) /\ wire'[p] = wire[p]
          /\ ops[p] \in Seq(Op) /\ posts[h] \in Seq(Nat) /\ rcvd[h] \in Seq(Buf)
        BY <1>2, <2>2, <3>2, <3>3
    <3>8. CASE ~seg.last
      <4>1. buf_q' = [buf_q EXCEPT ![h] = <<f>> \o Tail(q)] /\ UNCHANGED rcvd
          BY <3>1, <3>8 DEF RecvSend
      <4>2. Arrival(p, Tail(v), ops[p], "up", <<f>> \o Tail(q), posts[h], rcvd[h], placed[h])
          BY <3>4, <3>5, <3>7, <3>8, ArrivalMore
      <4>3. buf_q'[h] = <<f>> \o Tail(q) /\ buf_q'[p] = buf_q[p]
          BY <1>2, <2>2, <4>1
      <4>4. Arrived(h)'
          BY <2>2, <3>2, <3>7, <4>1, <4>2, <4>3 DEF Arrived
      <4>5. Arrived(p)'
          BY <2>2, <2>3, <3>2, <3>7, <4>1, <4>3 DEF Arrived
      <4> QED BY <2>4, <4>4, <4>5
    <3>9. CASE seg.last
      <4>1. PICK x \in Buf : x = [id |-> b.id, len |-> len, got |-> f.got]
                             /\ x.id = b.id /\ x.len = len /\ x.got = f.got
        <5>1. LET x == [id |-> b.id, len |-> len, got |-> f.got]
              IN  x \in Buf /\ x.id = b.id /\ x.len = len /\ x.got = f.got
            BY DEF Buf
        <5> QED BY <5>1, Zenon
      <4>2. buf_q' = [buf_q EXCEPT ![h] = Tail(q)] /\ rcvd' = [rcvd EXCEPT ![h] = Append(@, x)]
          BY <3>1, <3>9, <4>1 DEF RecvSend
      <4>3. Arrival(p, Tail(v), ops[p], "up", Tail(q), posts[h], Append(rcvd[h], x), placed[h])
          BY <3>4, <3>5, <3>6, <3>7, <3>9, <4>1, ArrivalDone
      <4>4. /\ buf_q'[h] = Tail(q) /\ buf_q'[p] = buf_q[p]
            /\ rcvd'[h] = Append(rcvd[h], x) /\ rcvd'[p] = rcvd[p]
          BY <1>2, <2>2, <4>2
      <4>5. Arrived(h)'
          BY <2>2, <3>2, <3>7, <4>3, <4>4 DEF Arrived
      <4>6. Arrived(p)'
          BY <2>2, <2>3, <3>2, <3>7, <4>4 DEF Arrived
      <4> QED BY <2>4, <4>5, <4>6
    <3> QED BY <3>5, <3>8, <3>9
  \* A segment that is taken and is not of a send, or on which h ends.
  <2>16. ASSUME Arrives(h), NEW pl, placed' = [placed EXCEPT ![h] = pl], placed[h] \subseteq pl,
                NEW st, status' = [status EXCEPT ![h] = st],
                st = "up" => Next_seg(h).op # "SEND",
                Next_seg(h).op = "RDMA_WRITE" /\ st = "up" => \A y \in Bytes(Next_seg(h)) : <<p, y[1], y[2]>> \in pl,
                st = "wild" => Next_seg(h).op = "SEND" /\ ~HasUntagSink(h),
                wire'[h] = Tail(wire[h]), UNCHANGED <<ops, buf_q, posts, rcvd>>
         PROVE  Arrived(h)' /\ status'[p] = status[p] /\ placed'[p] = placed[p]
    <3>1. PICK v \in Seq(Seg), seg \in Seg : v = wire[h] /\ seg = Next_seg(h)
        BY <2>14, <2>16
    <3>2. /\ v # <<>> /\ Framed(v) /\ seg = v[1]
          /\ Arrival(p, v, ops[p], "up", buf_q[h], posts[h], rcvd[h], placed[h])
        BY <2>14, <2>16, <3>1
    <3>3. st = "wild" => seg.op = "SEND" /\ (buf_q[h] # <<>> => ~(seg.off + seg.len <= Head(buf_q[h]).len))
        BY <2>16, <3>1 DEF HasUntagSink
    <3>4. ops[p] \in Seq(Op) /\ posts[h] \in Seq(Nat) /\ rcvd[h] \in Seq(Buf) /\ buf_q[h] \in Seq(Buf)
        BY <1>2
    <3>5. /\ st = "up" => seg.op # "SEND"
          /\ seg.op = "RDMA_WRITE" /\ st = "up" => \A y \in Bytes(seg) : <<p, y[1], y[2]>> \in pl
        BY <2>16, <3>1
    <3>6. Arrival(p, Tail(v), ops[p], st, buf_q[h], posts[h], rcvd[h], pl)
        BY <2>16, <3>2, <3>3, <3>4, <3>5, ArrivalTail
    <3>7. status'[h] = st /\ placed'[h] = pl /\ status'[p] = status[p] /\ placed'[p] = placed[p]
        BY <1>2, <2>2, <2>16
    <3> QED BY <2>2, <2>16, <3>1, <3>6, <3>7 DEF Arrived
  <2>17. CASE recv_rdma_read_req(h)
    <3>1. PICK seg \in Seg : \E s, what :
            /\ seg = Next_seg(h) /\ seg.op = "RDMA_READ_REQ"
            /\ Carries(s, "RDMA_READ_RESP", what, seg.what.rdma_rd_sz)
            /\ wire' = [wire EXCEPT ![h] = Tail(@), ![Peer(h)] = @ \o s]
        BY <1>1, <2>17, RequestStep, Zenon
    <3>2. PICK s, what :
            /\ seg = Next_seg(h) /\ seg.op = "RDMA_READ_REQ"
            /\ Carries(s, "RDMA_READ_RESP", what, seg.what.rdma_rd_sz)
            /\ wire' = [wire EXCEPT ![h] = Tail(@), ![Peer(h)] = @ \o s]
        BY <3>1
    <3>3. wire'[h] = Tail(wire[h]) /\ wire'[p] = w \o s
        BY <1>2, <2>2, <2>5, <3>2
    <3>4. Arrives(h) /\ UNCHANGED <<status, ops, buf_q, posts, rcvd, placed>> /\ status[h] = "up"
        BY <2>17 DEF recv_rdma_read_req, hist, Arrives, Running
    <3>5. status' = [status EXCEPT ![h] = "up"] /\ placed' = [placed EXCEPT ![h] = placed[h]]
        BY <1>2, <3>4
    <3>6. Arrived(h)'
        BY <2>16, <3>2, <3>3, <3>4, <3>5
    <3>7. Arrival(h, w, o, status[p], buf_q[p], posts[p], rc, placed[p])
        BY <2>2, <2>3, <2>5 DEF Arrived
    <3>8. Arrival(h, w \o s, o, status[p], buf_q[p], posts[p], rc, placed[p])
        BY <3>2, <3>7, ArrivalAnswer
    <3>9. Arrived(p)'
        BY <2>2, <2>5, <3>3, <3>4, <3>8 DEF Arrived
    <3> QED BY <2>4, <3>6, <3>9
  <2>18. ASSUME Place(h, Next_seg(h)), NEW why \in Status, why # "wild", status' = [status EXCEPT ![h] = why]
         PROVE  DeliverInv'
    <3>1. PICK seg \in Seg : seg = Next_seg(h) /\ seg.tagged
        BY <1>1, <2>18, PlaceStep
    <3>2. seg.op # "SEND"
        BY <3>1, SegFields
    <3>3. PICK pl : pl = placed[h] \cup PlacedBy(h, seg)
        OBVIOUS
    <3>4. /\ placed' = [placed EXCEPT ![h] = pl] /\ wire' = [wire EXCEPT ![h] = Tail(@)] /\ Arrives(h)
          /\ UNCHANGED <<ops, buf_q, posts, rcvd>>
        BY <2>18, <3>1, <3>3 DEF Place
    <3>5. seg.op = "RDMA_WRITE" => \A y \in Bytes(seg) : <<p, y[1], y[2]>> \in pl
        BY <2>2, <3>3 DEF PlacedBy
    <3>6. wire'[h] = Tail(wire[h]) /\ wire'[p] = wire[p] /\ placed[h] \subseteq pl
        BY <1>2, <2>2, <3>3, <3>4
    <3>7. Arrived(h)' /\ status'[p] = status[p] /\ placed'[p] = placed[p]
        BY <2>16, <2>18, <3>1, <3>2, <3>4, <3>5, <3>6
    <3>8. Arrived(p)'
        BY <2>2, <2>3, <3>4, <3>6, <3>7 DEF Arrived
    <3> QED BY <2>4, <3>7, <3>8
  <2>19. CASE recv_tagged(h)
    <3>1. Place(h, Next_seg(h)) /\ UNCHANGED status /\ status[h] = "up"
        BY <2>19 DEF recv_tagged, Place, Arrives, Running
    <3>2. status' = [status EXCEPT ![h] = "up"] /\ "up" \in Status /\ "up" # "wild"
        BY <1>2, <3>1 DEF Status
    <3> QED BY <2>18, <3>1, <3>2
  <2>20. CASE recv_read_resp(h)
    <3>1. PICK seg \in Seg, mq \in Seq(Rwr), len \in Nat, k \in Nat, why \in Status, es \in Seq(Cqe) :
            RecvResp(h, seg, mq, len, k, why, es)
        BY <1>1, <2>20, RespStep
    <3>2. why # "wild" /\ status' = [status EXCEPT ![h] = why]
        BY <3>1 DEF RecvResp
    <3>3. Place(h, Next_seg(h))
        BY <2>20 DEF recv_read_resp
    <3> QED BY <2>18, <3>2, <3>3
  <2>21. CASE recv_send_no_sink(h) \/ recv_rdma_read_req_no_src(h) \/ recv_tagged_no_sink(h)
    <3>1. PICK why \in Status : /\ Arrives(h) /\ why # "up" /\ Stop(h, why)
                                /\ why = "wild" => Next_seg(h).op = "SEND" /\ ~HasUntagSink(h)
      <4>1. CASE recv_send_no_sink(h)
          BY <4>1 DEF recv_send_no_sink, Status
      <4>2. CASE recv_rdma_read_req_no_src(h)
          BY <4>2 DEF recv_rdma_read_req_no_src, Status
      <4>3. CASE recv_tagged_no_sink(h)
          BY <4>3 DEF recv_tagged_no_sink, Status
      <4> QED BY <2>21, <4>1, <4>2, <4>3
    <3>2. /\ status' = [status EXCEPT ![h] = why] /\ wire'[h] = Tail(wire[h]) /\ wire'[p] = wire[p]
          /\ UNCHANGED <<ops, buf_q, posts, rcvd, placed>>
        BY <1>2, <2>2, <3>1 DEF Stop, hist
    <3>3. placed' = [placed EXCEPT ![h] = placed[h]]
        BY <1>2, <3>2
    <3>4. Arrived(h)' /\ status'[p] = status[p]
        BY <2>16, <3>1, <3>2, <3>3
    <3>5. Arrived(p)'
        BY <2>2, <2>3, <3>2, <3>4 DEF Arrived
    <3> QED BY <2>4, <3>4, <3>5
  <2> QED BY <2>1, <2>7, <2>8, <2>9, <2>10, <2>11, <2>12, <2>13, <2>15, <2>17, <2>19, <2>20, <2>21 DEF mpa_recv
<1> QED BY <1>5, <1>6

\* The invariant of delivery holds throughout.
LEMMA DeliverAlways == Spec => []DeliverInv
<1>1. Init => DeliverInv
    BY DeliverInit
<1>2. DeliverInv /\ [Next]_vars => DeliverInv'
    BY DeliverNext
<1> QED BY <1>1, <1>2, PTL DEF Spec

\* The k-th receive holds the k-th send of o.
Holds(o, rc, k) ==
    \E i \in Among(o, "SEND") :
        /\ Rank(o, "SEND", i) = k
        /\ rc[k] = [id |-> k, len |-> o[i].len, got |-> {i} \X (0 .. o[i].len - 1)]

\* What a receive that completed holds, at one end.
LEMMA DeliveredRecords ==
    ASSUME NEW o, NEW rc \in Seq(Buf), Delivered(o, rc), NEW k \in 1 .. Len(rc)
    PROVE  Holds(o, rc, k)
<1>1. PICK i \in Among(o, "SEND") :
        /\ Rank(o, "SEND", i) = k
        /\ rc[k].id = k /\ rc[k].len = o[i].len /\ rc[k].got = {i} \X (0 .. o[i].len - 1)
    BY DEF Delivered
<1>2. PICK x \in Buf : x = rc[k]
    BY ElementOfSeq
<1>3. x = [id |-> x.id, len |-> x.len, got |-> x.got]
    BY DEF Buf
<1>4. PICK l, g : l = o[i].len /\ g = {i} \X (0 .. o[i].len - 1)
    OBVIOUS
<1>5. x = [id |-> k, len |-> l, got |-> g]
    BY <1>1, <1>2, <1>3, <1>4
<1> QED BY <1>1, <1>2, <1>4, <1>5 DEF Holds

\* Whatever both ends have under way and however their messages are cut into
\* segments, the k-th completed receive is the k-th one posted, holds exactly
\* the bytes of the peer's k-th send and reports its length: ddp.c's cumulative
\* count and rdmap_untag_recv's oldest buffer never mix two messages.
THEOREM SendsArriveExactly == Spec => []SendsDelivered
<1>1. DeliverInv => SendsDelivered
  <2> SUFFICES ASSUME DeliverInv, NEW h \in Host, NEW k \in 1 .. Len(rcvd[h])
               PROVE  \E i \in OpsOf(Peer(h), "SEND") :
                        /\ Cardinality({j \in OpsOf(Peer(h), "SEND") : j <= i}) = k
                        /\ rcvd[h][k] = [id |-> k, len |-> ops[Peer(h)][i].len,
                                         got |-> {i} \X (0 .. ops[Peer(h)][i].len - 1)]
      BY DEF SendsDelivered
  <2>1. PICK o \in Seq(Op), rc \in Seq(Buf) : o = ops[Peer(h)] /\ rc = rcvd[h]
      BY Peers DEF DeliverInv, WireInv, Typed, TypedHist
  <2>2. Delivered(o, rc)
      BY <2>1 DEF DeliverInv, Arrived, Arrival, SendLink
  <2>3. PICK i \in Among(o, "SEND") :
          /\ Rank(o, "SEND", i) = k
          /\ rc[k] = [id |-> k, len |-> o[i].len, got |-> {i} \X (0 .. o[i].len - 1)]
    <3>1. k \in 1 .. Len(rc)
        BY <2>1
    <3>2. Holds(o, rc, k)
        BY <2>2, <3>1, DeliveredRecords
    <3> QED BY <3>2 DEF Holds
  <2>4. OpsOf(Peer(h), "SEND") = Among(o, "SEND")
      BY <2>1 DEF OpsOf, Among
  <2>5. Cardinality({j \in Among(o, "SEND") : j <= i}) = k
      BY <2>3 DEF Rank, Upto
  <2> QED BY <2>1, <2>3, <2>4, <2>5, Zenon
<1> QED BY <1>1, DeliverAlways, PTL

\* A receive that completes tells the application that the writes its peer
\* issued before that send are all in memory: RDMAP may signal a finished write
\* with a send, although writes complete silently at the target.
THEOREM WritesLandBeforeSends == Spec => []WritesBeforeSend
<1>1. DeliverInv => WritesBeforeSend
  <2> SUFFICES ASSUME DeliverInv, NEW h \in Host, NEW k \in 1 .. Len(rcvd[h]), NEW i \in OpsOf(Peer(h), "WRITE"),
                      NEW s \in OpsOf(Peer(h), "SEND"), s > i,
                      Cardinality({j \in OpsOf(Peer(h), "SEND") : j <= s}) = k
               PROVE  {Peer(h)} \X {i} \X (0 .. ops[Peer(h)][i].len - 1) \subseteq placed[h]
      BY DEF WritesBeforeSend
  <2>1. PICK o \in Seq(Op), n \in Nat : o = ops[Peer(h)] /\ n = Len(rcvd[h])
      BY Peers DEF DeliverInv, WireInv, Typed, TypedHist
  <2>2. Landed(Peer(h), o, placed[h], n)
      BY <2>1 DEF DeliverInv, Arrived, Arrival, WriteLink
  <2>3. i \in Among(o, "WRITE") /\ s \in Among(o, "SEND") /\ Rank(o, "SEND", s) = k
      BY <2>1 DEF OpsOf, Among, Rank, Upto
  <2>4. i < s /\ k <= n
    <3>1. i \in Nat /\ s \in Nat
        BY <2>3 DEF Among
    <3> QED BY <2>1, <3>1
  <2>5. All(Peer(h), o, i) \subseteq placed[h]
      BY <2>2, <2>3, <2>4 DEF Landed
  <2> QED BY <2>1, <2>5 DEF All
<1> QED BY <1>1, DeliverAlways, PTL

\* A process receives through the descriptor that ddp_get_sink left
\* uninitialised only when its application had not posted a receive for the
\* send that arrived, or one that was too short; never because the receives
\* were handed out wrongly.
THEOREM WildOnlyWithoutReceive == Spec => []WildOnlyIfUnposted
<1>1. DeliverInv => WildOnlyIfUnposted
  <2> SUFFICES ASSUME DeliverInv, NEW h \in Host, status[h] = "wild"
               PROVE  \E i \in OpsOf(Peer(h), "SEND") :
                        /\ Cardinality({j \in OpsOf(Peer(h), "SEND") : j <= i}) = Len(rcvd[h]) + 1
                        /\ Len(posts[h]) >= Len(rcvd[h]) + 1 =>
                             posts[h][Len(rcvd[h]) + 1] < ops[Peer(h)][i].len
      BY DEF WildOnlyIfUnposted
  <2>1. PICK o, ps, rc : o = ops[Peer(h)] /\ ps = posts[h] /\ rc = rcvd[h]
      OBVIOUS
  <2>2. Unposted(o, ps, rc)
      BY <2>1 DEF DeliverInv, Arrived, Arrival
  <2>3. PICK i \in Among(o, "SEND") :
          /\ Rank(o, "SEND", i) = Len(rc) + 1
          /\ Len(ps) >= Len(rc) + 1 => ps[Len(rc) + 1] < o[i].len
      BY <2>2 DEF Unposted
  <2>4. i \in OpsOf(Peer(h), "SEND")
      BY <2>1 DEF OpsOf, Among
  <2>5. Cardinality({j \in OpsOf(Peer(h), "SEND") : j <= i}) = Len(rc) + 1
      BY <2>1, <2>3 DEF OpsOf, Among, Rank, Upto
  <2> QED BY <2>1, <2>3, <2>4, <2>5
<1> QED BY <1>1, DeliverAlways, PTL

--------------------------------------------------------------------------------
(* Reads: the wires *)

Req == {x \in Seg : x.op = "RDMA_READ_REQ"}
Resp == {x \in Seg : x.op = "RDMA_READ_RESP"}

\* The segments of kind K on v are some of those on w, in the same order: f says
\* where on w each of them is.
EmbedsBy(K, v, w, f) ==
    \A i \in 1 .. Len(v) : v[i] \in K =>
        /\ f[i] \in 1 .. Len(w) /\ w[f[i]] = v[i]
        /\ \A j \in 1 .. Len(v) : v[j] \in K /\ i < j => f[i] < f[j]

Embeds(K, v, w) == \E f : EmbedsBy(K, v, w, f)

\* Every wire embeds in itself.
LEMMA EmbedSame ==
    ASSUME NEW w \in Seq(Seg), NEW K
    PROVE  Embeds(K, w, w)
<1>1. PICK f : f = [i \in 1 .. Len(w) |-> i]
    OBVIOUS
<1>2. EmbedsBy(K, w, w, f)
    BY <1>1 DEF EmbedsBy
<1> QED BY <1>2 DEF Embeds

\* The rest of a wire embeds in it.
LEMMA EmbedTail ==
    ASSUME NEW w \in Seq(Seg), w # <<>>, NEW K
    PROVE  Embeds(K, Tail(w), w)
<1>1. PICK m \in Nat : Len(w) = m + 1
  <2>1. Len(w) \in Nat \ {0}
      BY EmptySeq
  <2>2. Len(w) - 1 \in Nat /\ Len(w) = (Len(w) - 1) + 1
      BY <2>1
  <2> QED BY <2>2
<1>2. PICK t \in Seq(Seg) : t = Tail(w) /\ Len(t) = m /\ \A k \in 1 .. m : t[k] = w[k + 1]
  <2>1. Tail(w) \in Seq(Seg) /\ Len(Tail(w)) = Len(w) - 1 /\ \A k \in 1 .. Len(Tail(w)) : Tail(w)[k] = w[k + 1]
      BY HeadTailProperties
  <2>2. Len(Tail(w)) = m
      BY <1>1, <2>1
  <2> QED BY <2>1, <2>2, Zenon
<1>3. PICK f : f = [i \in 1 .. m |-> i + 1]
    OBVIOUS
<1>4. EmbedsBy(K, t, w, f)
  <2>1. ASSUME NEW i \in 1 .. m
        PROVE  f[i] \in 1 .. m + 1 /\ w[f[i]] = t[i] /\ \A j \in 1 .. m : i < j => f[i] < f[j]
    <3>1. f[i] = i + 1 /\ i + 1 \in 1 .. m + 1
        BY <1>3
    <3>2. w[f[i]] = t[i]
        BY <1>2, <3>1
    <3>3. \A j \in 1 .. m : i < j => f[i] < f[j]
        BY <1>3
    <3> QED BY <3>1, <3>2, <3>3
  <2> QED BY <1>1, <1>2, <2>1 DEF EmbedsBy
<1> QED BY <1>2, <1>4 DEF Embeds

\* A segment of w followed by s is one of w or one of s.
LEMMA BehindWire ==
    ASSUME NEW w \in Seq(Seg), NEW s \in Seq(Seg), NEW k \in 1 .. Len(w \o s)
    PROVE  \/ k \in 1 .. Len(w) /\ (w \o s)[k] = w[k]
           \/ \E j \in 1 .. Len(s) : k = Len(w) + j /\ (w \o s)[k] = s[j]
<1>1. PICK a \in Nat, b \in Nat : a = Len(w) /\ b = Len(s)
    OBVIOUS
<1>2. PICK v \in Seq(Seg) : v = w \o s
    BY ConcatProperties
<1>3. Len(v) = a + b /\ \A i \in 1 .. a + b : v[i] = IF i <= a THEN w[i] ELSE s[i - a]
    BY <1>1, <1>2, ConcatProperties
<1>4. k \in 1 .. a + b
    BY <1>2, <1>3
<1>5. CASE k <= a
  <2>1. k \in 1 .. a /\ v[k] = w[k]
      BY <1>3, <1>4, <1>5
  <2> QED BY <1>1, <1>2, <2>1
<1>6. CASE k > a
  <2>1. PICK j \in 1 .. b : j = k - a
    <3>1. k - a \in 1 .. b
        BY <1>4, <1>6
    <3> QED BY <3>1
  <2>2. ~(k <= a) /\ k = a + j
      BY <1>4, <1>6, <2>1
  <2>3. v[k] = s[j]
      BY <1>3, <1>4, <2>1, <2>2
  <2> QED BY <1>1, <1>2, <2>2, <2>3
<1>7. k <= a \/ k > a
    BY <1>4
<1> QED BY <1>5, <1>6, <1>7, Zenon

\* A message of another kind adds nothing.
LEMMA EmbedAppend ==
    ASSUME NEW w \in Seq(Seg), NEW K, NEW s \in Seq(Seg), \A i \in 1 .. Len(s) : s[i] \notin K
    PROVE  Embeds(K, w \o s, w)
<1>1. PICK v \in Seq(Seg) : v = w \o s
    BY ConcatProperties
<1>2. ASSUME NEW k \in 1 .. Len(v), v[k] \in K PROVE k \in 1 .. Len(w) /\ w[k] = v[k]
    BY <1>1, <1>2, BehindWire
<1>3. PICK f : f = [i \in 1 .. Len(v) |-> i]
    OBVIOUS
<1>4. EmbedsBy(K, v, w, f)
    BY <1>2, <1>3 DEF EmbedsBy
<1> QED BY <1>1, <1>4 DEF Embeds

\* A read in flight, not yet marked, of operation id and sink stag.
Expected(q, id, stag) == \E j \in 1 .. Len(q) : q[j].id = id /\ q[j].stag = stag /\ ~q[j].done

\* Every request on v asks for all of a read in flight, and only once.
Asks(x, q, o) ==
    /\ Expected(q, x.what.for, x.what.sink_stag)
    /\ x.what.rdma_rd_sz = o[x.what.for].len

Asked(v, q, o) ==
    /\ \A i \in 1 .. Len(v) : v[i] \in Req => Asks(v[i], q, o)
    /\ \A i, j \in 1 .. Len(v) : v[i] \in Req /\ v[j] \in Req /\ i < j => v[i].what.for # v[j].what.for

\* Every response on w is of a read in flight, and is the only one to it.
Answers(x, q, o) ==
    /\ Expected(q, x.what.for, x.stag)
    /\ x.off + x.len <= o[x.what.for].len
    /\ x.last => x.off + x.len = o[x.what.for].len

Answered(w, q, o) ==
    /\ \A i \in 1 .. Len(w) : w[i] \in Resp => Answers(w[i], q, o)
    /\ \A i, j \in 1 .. Len(w) :
         w[i] \in Resp /\ w[j] \in Resp /\ i < j /\ w[i].what.for = w[j].what.for => ~w[i].last

\* No read is asked for and answered at the same time.
OnlyOne(v, w) ==
    \A i \in 1 .. Len(v), j \in 1 .. Len(w) : v[i] \in Req /\ w[j] \in Resp => v[i].what.for # w[j].what.for

\* The reads q of the operations o between v, the wire that carries the
\* requests, and w, the one that carries the responses.
ReadWires(v, w, q, o) == Asked(v, q, o) /\ Answered(w, q, o) /\ OnlyOne(v, w)

\* Fewer segments.
LEMMA WiresEmbed ==
    ASSUME NEW v, NEW w, NEW v2, NEW w2, NEW q, NEW o, ReadWires(v, w, q, o),
           Embeds(Req, v2, v), Embeds(Resp, w2, w)
    PROVE  ReadWires(v2, w2, q, o)
<1>1. PICK f, g : EmbedsBy(Req, v2, v, f) /\ EmbedsBy(Resp, w2, w, g)
    BY DEF Embeds
<1>2. ASSUME NEW i \in 1 .. Len(v2), v2[i] \in Req
      PROVE  f[i] \in 1 .. Len(v) /\ v[f[i]] = v2[i] /\ Asks(v2[i], q, o)
  <2>1. f[i] \in 1 .. Len(v) /\ v[f[i]] = v2[i]
      BY <1>1, <1>2 DEF EmbedsBy
  <2> QED BY <1>2, <2>1 DEF ReadWires, Asked
<1>3. ASSUME NEW i \in 1 .. Len(w2), w2[i] \in Resp
      PROVE  g[i] \in 1 .. Len(w) /\ w[g[i]] = w2[i] /\ Answers(w2[i], q, o)
  <2>1. g[i] \in 1 .. Len(w) /\ w[g[i]] = w2[i]
      BY <1>1, <1>3 DEF EmbedsBy
  <2> QED BY <1>3, <2>1 DEF ReadWires, Answered
<1>4. ASSUME NEW i \in 1 .. Len(v2), NEW j \in 1 .. Len(v2), v2[i] \in Req, v2[j] \in Req, i < j
      PROVE  v2[i].what.for # v2[j].what.for
  <2>1. f[i] < f[j]
      BY <1>1, <1>4 DEF EmbedsBy
  <2>2. /\ f[i] \in 1 .. Len(v) /\ v[f[i]] = v2[i]
        /\ f[j] \in 1 .. Len(v) /\ v[f[j]] = v2[j]
      BY <1>2, <1>4
  <2> QED BY <1>4, <2>1, <2>2 DEF ReadWires, Asked
<1>5. ASSUME NEW i \in 1 .. Len(w2), NEW j \in 1 .. Len(w2), w2[i] \in Resp, w2[j] \in Resp, i < j,
             w2[i].what.for = w2[j].what.for
      PROVE  ~w2[i].last
  <2>1. g[i] < g[j]
      BY <1>1, <1>5 DEF EmbedsBy
  <2>2. /\ g[i] \in 1 .. Len(w) /\ w[g[i]] = w2[i]
        /\ g[j] \in 1 .. Len(w) /\ w[g[j]] = w2[j]
      BY <1>3, <1>5
  <2> QED BY <1>5, <2>1, <2>2 DEF ReadWires, Answered
<1>6. ASSUME NEW i \in 1 .. Len(v2), NEW j \in 1 .. Len(w2), v2[i] \in Req, w2[j] \in Resp
      PROVE  v2[i].what.for # w2[j].what.for
  <2>1. f[i] \in 1 .. Len(v) /\ v[f[i]] = v2[i]
      BY <1>2, <1>6
  <2>2. g[j] \in 1 .. Len(w) /\ w[g[j]] = w2[j]
      BY <1>3, <1>6
  <2> QED BY <1>6, <2>1, <2>2 DEF ReadWires, OnlyOne
<1> QED BY <1>2, <1>3, <1>4, <1>5, <1>6 DEF ReadWires, Asked, Answered, OnlyOne

--------------------------------------------------------------------------------
(* Reads: the requests in flight and what is in memory *)

\* The reads in flight, after n that are finished: in the order of their issue,
\* each with a sink of its own.
InFlight(q, o, n) ==
    /\ n + Len(q) = Total(o, "READ")
    /\ \A j \in 1 .. Len(q) : q[j].id \in Among(o, "READ") /\ Rank(o, "READ", q[j].id) = n + j
    /\ \A i, j \in 1 .. Len(q) : q[i].stag = q[j].stag => i = j

\* A read that is marked has its length and all its bytes.
Filled(h, q, o, pl) ==
    \A j \in 1 .. Len(q) : q[j].done => q[j].len = o[q[j].id].len /\ All(h, o, q[j].id) \subseteq pl

\* Bytes of h's operations in its memory are bytes of its reads.
Bounded(h, o, pl) ==
    \A y \in pl : y[1] = h => y[2] \in Among(o, "READ") /\ y[3] \in 0 .. o[y[2]].len - 1

\* The k-th record is that of the k-th read.
Recorded(h, o, r) ==
    \A k \in 1 .. Len(r) : \E i \in Among(o, "READ") :
        /\ Rank(o, "READ", i) = k
        /\ r[k].id = i /\ r[k].len = o[i].len /\ r[k].got = All(h, o, i)

ReadState(h, v, w, q, o, pl, r) ==
    ReadWires(v, w, q, o) /\ Filled(h, q, o, pl) /\ Bounded(h, o, pl) /\ Recorded(h, o, r)

\* The reads of h, which issued o: requests leave on v, responses come on w.
ReadLink(h, v, w, q, o, up, pl, r) ==
    /\ InFlight(q, o, Len(r))
    /\ ReadState(h, v, w, q, o, pl, r)
    /\ up => Front("RDMA_READ_RESP", h, w, pl)

\* o2 has the reads of o, in the same places.
KeepsReads(o, o2) ==
    \A i \in Among(o, "READ") :
        i \in Among(o2, "READ") /\ o2[i] = o[i] /\ Rank(o2, "READ", i) = Rank(o, "READ", i)

\* A new operation changes no read.
LEMMA IssueKeepsReads ==
    ASSUME NEW o \in Seq(Op), NEW e \in Op, NEW o2, o2 = Append(o, e)
    PROVE  KeepsReads(o, o2) /\ (e.op # "READ" => Total(o2, "READ") = Total(o, "READ"))
<1>1. Longer(o, e, o2, "READ")
    BY RankAppend
<1>2. Among(o, "READ") \subseteq 1 .. Len(o)
    BY DEF Among
<1> QED BY <1>1, <1>2 DEF Longer, KeepsReads

\* What is expected is a read of o.
LEMMA ExpectedRead ==
    ASSUME NEW q, NEW o, NEW n, InFlight(q, o, n), NEW id, NEW stag, Expected(q, id, stag)
    PROVE  id \in Among(o, "READ")
BY DEF InFlight, Expected

\* The state of the reads only depends on the reads.
LEMMA ReadStateKept ==
    ASSUME NEW h, NEW v, NEW w, NEW q, NEW o, NEW o2, NEW pl, NEW r, NEW n, InFlight(q, o, n),
           ReadState(h, v, w, q, o, pl, r), KeepsReads(o, o2)
    PROVE  ReadState(h, v, w, q, o2, pl, r)
<1>1. ASSUME NEW i \in Among(o, "READ")
      PROVE  /\ i \in Among(o2, "READ") /\ o2[i] = o[i] /\ All(h, o2, i) = All(h, o, i)
             /\ Rank(o2, "READ", i) = Rank(o, "READ", i)
    BY DEF KeepsReads, All
<1>2. ASSUME NEW x, Asks(x, q, o) PROVE Asks(x, q, o2)
    BY <1>1, <1>2, ExpectedRead DEF Asks
<1>3. ASSUME NEW x, Answers(x, q, o) PROVE Answers(x, q, o2)
    BY <1>1, <1>3, ExpectedRead DEF Answers
<1>4. ReadWires(v, w, q, o2)
    BY <1>2, <1>3 DEF ReadState, ReadWires, Asked, Answered
<1>5. Filled(h, q, o2, pl)
  <2> SUFFICES ASSUME NEW j \in 1 .. Len(q), q[j].done
               PROVE  q[j].len = o2[q[j].id].len /\ All(h, o2, q[j].id) \subseteq pl
      BY DEF Filled
  <2>1. q[j].id \in Among(o, "READ")
      BY DEF InFlight
  <2> QED BY <1>1, <2>1 DEF ReadState, Filled
<1>6. Bounded(h, o2, pl)
    BY <1>1 DEF ReadState, Bounded
<1>7. Recorded(h, o2, r)
  <2> SUFFICES ASSUME NEW k \in 1 .. Len(r)
               PROVE  \E i \in Among(o2, "READ") :
                        /\ Rank(o2, "READ", i) = k
                        /\ r[k].id = i /\ r[k].len = o2[i].len /\ r[k].got = All(h, o2, i)
      BY DEF Recorded
  <2>1. PICK i \in Among(o, "READ") :
        /\ Rank(o, "READ", i) = k
        /\ r[k].id = i /\ r[k].len = o[i].len /\ r[k].got = All(h, o, i)
      BY DEF ReadState, Recorded
  <2> QED BY <1>1, <2>1
<1> QED BY <1>4, <1>5, <1>6, <1>7 DEF ReadState

\* A step that finishes no read: operations that are no reads, fewer requests
\* and responses under way, more in memory.
LEMMA ReadLinkLess ==
    ASSUME NEW h, NEW v, NEW w, NEW q, NEW o, NEW up, NEW pl, NEW r,
           ReadLink(h, v, w, q, o, up, pl, r),
           NEW v2, NEW w2, NEW o2, NEW up2, NEW pl2, Embeds(Req, v2, v), Embeds(Resp, w2, w),
           KeepsReads(o, o2), Total(o2, "READ") = Total(o, "READ"),
           pl \subseteq pl2, Bounded(h, o, pl2), up2 => Front("RDMA_READ_RESP", h, w2, pl2)
    PROVE  ReadLink(h, v2, w2, q, o2, up2, pl2, r)
<1>1. InFlight(q, o, Len(r)) /\ ReadState(h, v, w, q, o, pl, r)
    BY DEF ReadLink
<1>2. ReadWires(v2, w2, q, o)
    BY <1>1, WiresEmbed DEF ReadState
<1>3. Filled(h, q, o, pl2)
    BY <1>1 DEF ReadState, Filled
<1>4. ReadState(h, v2, w2, q, o, pl2, r)
    BY <1>1, <1>2, <1>3 DEF ReadState
<1>5. ReadState(h, v2, w2, q, o2, pl2, r)
    BY <1>1, <1>4, ReadStateKept
<1>6. InFlight(q, o2, Len(r))
    BY <1>1 DEF InFlight, KeepsReads
<1> QED BY <1>5, <1>6 DEF ReadLink

\* rdmap_rdma_read: the request of a new read.
LEMMA ReadLinkAsk ==
    ASSUME NEW h, NEW v \in Seq(Seg), NEW w, NEW q \in Seq(Rwr), NEW o \in Seq(Op), NEW up, NEW pl,
           NEW r, Len(r) \in Nat, ReadLink(h, v, w, q, o, up, pl, r),
           NEW e \in Op, e.op = "READ", NEW o2, o2 = Append(o, e),
           NEW x \in Rwr, x.id = Len(o) + 1, ~x.done, \A i \in 1 .. Len(q) : q[i].stag # x.stag,
           NEW q2, q2 = Append(q, x),
           NEW s, NEW what, Carries(s, "RDMA_READ_REQ", what, 1),
           what.for = x.id, what.sink_stag = x.stag, what.rdma_rd_sz = e.len
    PROVE  ReadLink(h, v \o s, w, q2, o2, up, pl, r)
<1>1. PICK n \in Nat, c \in Nat, m \in Nat : n = Len(r) /\ c = Len(o) /\ m = Len(q)
    OBVIOUS
<1>2. InFlight(q, o, n) /\ ReadState(h, v, w, q, o, pl, r)
    BY <1>1 DEF ReadLink
<1>3. KeepsReads(o, o2)
    BY IssueKeepsReads
<1>4. ReadState(h, v, w, q, o2, pl, r)
    BY <1>2, <1>3, ReadStateKept
<1>5. /\ c + 1 \in Among(o2, "READ") /\ o2[c + 1] = e
      /\ Total(o2, "READ") = Total(o, "READ") + 1 /\ Rank(o2, "READ", c + 1) = Total(o, "READ") + 1
  <2>1. Longer(o, e, o2, "READ")
      BY RankAppend
  <2> QED BY <1>1, <2>1 DEF Longer
<1>6. /\ q2 \in Seq(Rwr) /\ Len(q2) = m + 1 /\ q2[m + 1] = x
      /\ \A i \in 1 .. m : q2[i] = q[i]
    BY <1>1, AppendProperties
<1>7. InFlight(q2, o2, n)
  <2>1. n + m = Total(o, "READ")
      BY <1>1, <1>2 DEF InFlight
  <2>2. PICK T \in Nat : T = Total(o, "READ")
      BY <2>1
  <2>3. n + (m + 1) = T + 1
      BY <2>1, <2>2
  <2>4. ASSUME NEW j \in 1 .. m + 1
        PROVE  q2[j].id \in Among(o2, "READ") /\ Rank(o2, "READ", q2[j].id) = n + j
    <3>1. CASE j \in 1 .. m
      <4>1. q2[j] = q[j] /\ q[j].id \in Among(o, "READ") /\ Rank(o, "READ", q[j].id) = n + j
          BY <1>1, <1>2, <1>6, <3>1 DEF InFlight
      <4> QED BY <1>3, <4>1 DEF KeepsReads
    <3>2. CASE j = m + 1
        BY <1>1, <1>5, <1>6, <2>2, <2>3, <3>2
    <3>3. j \in 1 .. m \/ j = m + 1
        OBVIOUS
    <3> QED BY <3>1, <3>2, <3>3
  <2>5. ASSUME NEW i \in 1 .. m + 1, NEW j \in 1 .. m + 1, q2[i].stag = q2[j].stag PROVE i = j
    <3>1. CASE i \in 1 .. m /\ j \in 1 .. m
        BY <1>1, <1>2, <1>6, <2>5, <3>1 DEF InFlight
    <3>2. CASE i = m + 1 /\ j \in 1 .. m
        BY <1>1, <1>6, <2>5, <3>2
    <3>3. CASE i \in 1 .. m /\ j = m + 1
        BY <1>1, <1>6, <2>5, <3>3
    <3>4. (i \in 1 .. m \/ i = m + 1) /\ (j \in 1 .. m \/ j = m + 1)
        OBVIOUS
    <3> QED BY <3>1, <3>2, <3>3, <3>4
  <2> QED BY <1>5, <1>6, <2>2, <2>3, <2>4, <2>5 DEF InFlight
<1>8. ASSUME NEW id, NEW stag, Expected(q, id, stag) PROVE Expected(q2, id, stag) /\ id # c + 1
  <2>1. PICK j \in 1 .. m : q[j].id = id /\ q[j].stag = stag /\ ~q[j].done
      BY <1>1, <1>8 DEF Expected
  <2>2. q2[j] = q[j] /\ j \in 1 .. m + 1
      BY <1>6
  <2>3. Expected(q2, id, stag)
      BY <1>6, <2>1, <2>2, Zenon DEF Expected
  <2>4. id \in Among(o, "READ")
      BY <1>2, <1>8, ExpectedRead
  <2>5. id \in 1 .. c
      BY <1>1, <2>4 DEF Among
  <2>6. id # c + 1
      BY <2>5
  <2> QED BY <2>3, <2>6
<1>9. Expected(q2, c + 1, x.stag)
  <2>1. m + 1 \in 1 .. Len(q2) /\ q2[m + 1].id = c + 1 /\ q2[m + 1].stag = x.stag /\ ~q2[m + 1].done
      BY <1>1, <1>6
  <2> QED BY <2>1, Zenon DEF Expected
<1>10. s \in Seq(Seg) /\ \A i \in 1 .. Len(s) : s[i].what = what /\ s[i].op = "RDMA_READ_REQ" /\ i = Len(s)
  <2>1. s \in Seq(Seg)
      BY DEF Carries, Message
  <2>2. ASSUME NEW i \in 1 .. Len(s) PROVE s[i].what = what /\ s[i].op = "RDMA_READ_REQ" /\ i = Len(s)
    <3>1. s[i].what = what /\ s[i].op = "RDMA_READ_REQ" /\ (s[i].last <=> i = Len(s))
        BY DEF Carries, Message
    <3>2. s[i] \in Seg
        BY <2>1, ElementOfSeq
    <3>3. s[i].last
        BY <3>1, <3>2, SegFields
    <3> QED BY <3>1, <3>3
  <2> QED BY <2>1, <2>2
<1>11. PICK u \in Seq(Seg) : u = v \o s
    BY <1>10, ConcatProperties
<1>12. ASSUME NEW i \in 1 .. Len(u), u[i] \in Req
       PROVE  \/ i \in 1 .. Len(v) /\ u[i] = v[i] /\ v[i].what.for # c + 1
              \/ i = Len(v) + Len(s) /\ u[i].what = what
  <2>1. CASE i \in 1 .. Len(v) /\ u[i] = v[i]
    <3>1. Asks(v[i], q, o)
        BY <1>2, <1>12, <2>1 DEF ReadState, ReadWires, Asked
    <3> QED BY <1>8, <2>1, <3>1 DEF Asks
  <2>2. CASE \E j \in 1 .. Len(s) : i = Len(v) + j /\ u[i] = s[j]
      BY <1>10, <2>2
  <2> QED BY <1>10, <1>11, <1>12, <2>1, <2>2, BehindWire
<1>13. Asked(u, q2, o2)
  <2>1. ASSUME NEW i \in 1 .. Len(u), u[i] \in Req PROVE Asks(u[i], q2, o2)
    <3>1. CASE i \in 1 .. Len(v) /\ u[i] = v[i]
      <4>1. Asks(v[i], q, o2)
          BY <1>4, <2>1, <3>1 DEF ReadState, ReadWires, Asked
      <4> QED BY <1>8, <3>1, <4>1 DEF Asks
    <3>2. CASE u[i].what = what
        BY <1>1, <1>5, <1>9, <3>2 DEF Asks
    <3> QED BY <1>12, <2>1, <3>1, <3>2
  <2>2. ASSUME NEW i \in 1 .. Len(u), NEW j \in 1 .. Len(u), u[i] \in Req, u[j] \in Req, i < j
        PROVE  u[i].what.for # u[j].what.for
    <3>1. PICK a \in Nat, b \in Nat : a = Len(v) /\ b = Len(s) /\ Len(u) = a + b
        BY <1>10, <1>11, ConcatProperties
    <3>2. i # a + b
        BY <2>2, <3>1
    <3>3. i \in 1 .. Len(v) /\ u[i] = v[i] /\ v[i].what.for # c + 1
        BY <1>12, <2>2, <3>1, <3>2
    <3>4. CASE j \in 1 .. Len(v) /\ u[j] = v[j]
        BY <1>2, <2>2, <3>3, <3>4 DEF ReadState, ReadWires, Asked
    <3>5. CASE u[j].what = what
        BY <1>1, <3>3, <3>5
    <3> QED BY <1>12, <2>2, <3>4, <3>5
  <2> QED BY <2>1, <2>2 DEF Asked
<1>14. Answered(w, q2, o2)
  <2>1. Answered(w, q, o2)
      BY <1>4 DEF ReadState, ReadWires
  <2>2. ASSUME NEW y, Answers(y, q, o2) PROVE Answers(y, q2, o2)
      BY <1>8, <2>2 DEF Answers
  <2> QED BY <2>1, <2>2 DEF Answered
<1>15. OnlyOne(u, w)
  <2>1. ASSUME NEW i \in 1 .. Len(u), NEW j \in 1 .. Len(w), u[i] \in Req, w[j] \in Resp
        PROVE  u[i].what.for # w[j].what.for
    <3>1. CASE i \in 1 .. Len(v) /\ u[i] = v[i]
        BY <1>2, <2>1, <3>1 DEF ReadState, ReadWires, OnlyOne
    <3>2. CASE u[i].what = what
      <4>1. Answers(w[j], q, o)
          BY <1>2, <2>1 DEF ReadState, ReadWires, Answered
      <4>2. w[j].what.for # c + 1
          BY <1>8, <4>1 DEF Answers
      <4> QED BY <1>1, <3>2, <4>2
    <3> QED BY <1>12, <2>1, <3>1, <3>2
  <2> QED BY <2>1 DEF OnlyOne
<1>16. Filled(h, q2, o2, pl)
  <2>1. ASSUME NEW j \in 1 .. m + 1, q2[j].done
        PROVE  q2[j].len = o2[q2[j].id].len /\ All(h, o2, q2[j].id) \subseteq pl
    <3>1. j # m + 1
        BY <1>6, <2>1
    <3>2. j \in 1 .. m
        BY <3>1
    <3> QED BY <1>1, <1>4, <1>6, <2>1, <3>2 DEF ReadState, Filled
  <2> QED BY <1>6, <2>1 DEF Filled
<1>17. ReadState(h, u, w, q2, o2, pl, r)
    BY <1>4, <1>13, <1>14, <1>15, <1>16 DEF ReadState, ReadWires
<1>18. up => Front("RDMA_READ_RESP", h, w, pl)
    BY DEF ReadLink
<1> QED BY <1>1, <1>7, <1>11, <1>17, <1>18 DEF ReadLink

\* rdmap_untag_recv answers the request in front of v.
LEMMA ReadLinkAnswer ==
    ASSUME NEW h, NEW v \in Seq(Seg), v # <<>>, NEW w \in Seq(Seg), NEW q, NEW o, NEW up, NEW pl, NEW r,
           ReadLink(h, v, w, q, o, up, pl, r), NEW x \in Req, x = v[1],
           NEW s, NEW what, Carries(s, "RDMA_READ_RESP", what, x.what.rdma_rd_sz),
           what.for = x.what.for, \A i \in 1 .. Len(s) : s[i].stag = x.what.sink_stag
    PROVE  ReadLink(h, Tail(v), w \o s, q, o, up, pl, r)
<1>1. InFlight(q, o, Len(r)) /\ ReadState(h, v, w, q, o, pl, r)
    BY DEF ReadLink
<1>2. PICK f, n : f = x.what.for /\ n = Len(v)
    OBVIOUS
<1>3. n \in Nat \ {0} /\ 1 \in 1 .. n
    BY <1>2, EmptySeq
<1>4. Expected(q, f, x.what.sink_stag) /\ x.what.rdma_rd_sz = o[f].len
    BY <1>1, <1>2, <1>3 DEF ReadState, ReadWires, Asked, Asks
<1>5. PICK t \in Seq(Seg) : t = Tail(v) /\ Len(t) = n - 1 /\ \A i \in 1 .. n - 1 : t[i] = v[i + 1]
  <2>1. Tail(v) \in Seq(Seg) /\ Len(Tail(v)) = n - 1
      BY <1>2, HeadTailProperties
  <2>2. \A i \in 1 .. n - 1 : Tail(v)[i] = v[i + 1]
      BY <1>2, <2>1, HeadTailProperties
  <2> QED BY <2>1, <2>2
<1>6. ASSUME NEW i \in 1 .. Len(t), t[i] \in Req
      PROVE  /\ i + 1 \in 1 .. n /\ t[i] = v[i + 1] /\ t[i].what.for # f
  <2>1. i + 1 \in 1 .. n /\ 1 < i + 1 /\ t[i] = v[i + 1]
      BY <1>3, <1>5
  <2> QED BY <1>1, <1>2, <1>3, <1>6, <2>1 DEF ReadState, ReadWires, Asked
<1>7. s \in Seq(Seg) /\ Message(s)
    BY DEF Carries, Message
<1>8. ASSUME NEW i \in 1 .. Len(s)
      PROVE  /\ s[i].what.for = f /\ s[i].stag = x.what.sink_stag
             /\ s[i].off + s[i].len <= o[f].len
             /\ s[i].last => s[i].off + s[i].len = o[f].len
             /\ s[i].last <=> i = Len(s)
    BY <1>2, <1>4, <1>7 DEF Carries, Message
<1>9. PICK u \in Seq(Seg) : u = w \o s
    BY <1>7, ConcatProperties
<1>10. ASSUME NEW i \in 1 .. Len(u)
       PROVE  \/ i \in 1 .. Len(w) /\ u[i] = w[i]
              \/ \E j \in 1 .. Len(s) : i = Len(w) + j /\ u[i] = s[j]
    BY <1>7, <1>9, BehindWire
<1>11. ASSUME NEW i \in 1 .. Len(w), w[i] \in Resp PROVE w[i].what.for # f
    BY <1>1, <1>2, <1>3, <1>11 DEF ReadState, ReadWires, OnlyOne
<1>12. Asked(t, q, o)
  <2>1. ASSUME NEW i \in 1 .. Len(t), t[i] \in Req PROVE Asks(t[i], q, o)
      BY <1>1, <1>2, <1>6, <2>1 DEF ReadState, ReadWires, Asked
  <2>2. ASSUME NEW i \in 1 .. Len(t), NEW j \in 1 .. Len(t), t[i] \in Req, t[j] \in Req, i < j
        PROVE  t[i].what.for # t[j].what.for
    <3>1. i + 1 < j + 1
        BY <2>2
    <3>2. i + 1 \in 1 .. n /\ t[i] = v[i + 1] /\ j + 1 \in 1 .. n /\ t[j] = v[j + 1]
        BY <1>6, <2>2
    <3> QED BY <1>1, <1>2, <2>2, <3>1, <3>2 DEF ReadState, ReadWires, Asked
  <2> QED BY <2>1, <2>2 DEF Asked
<1>13. Answered(u, q, o)
  <2>1. ASSUME NEW i \in 1 .. Len(u), u[i] \in Resp PROVE Answers(u[i], q, o)
    <3>1. CASE i \in 1 .. Len(w) /\ u[i] = w[i]
        BY <1>1, <2>1, <3>1 DEF ReadState, ReadWires, Answered
    <3>2. CASE \E j \in 1 .. Len(s) : i = Len(w) + j /\ u[i] = s[j]
        BY <1>4, <1>8, <3>2 DEF Answers
    <3> QED BY <1>10, <3>1, <3>2
  <2>2. ASSUME NEW i \in 1 .. Len(u), NEW j \in 1 .. Len(u), u[i] \in Resp, u[j] \in Resp, i < j,
               u[i].what.for = u[j].what.for
        PROVE  ~u[i].last
    <3>1. CASE i \in 1 .. Len(w) /\ u[i] = w[i] /\ j \in 1 .. Len(w) /\ u[j] = w[j]
        BY <1>1, <2>2, <3>1 DEF ReadState, ReadWires, Answered
    <3>2. CASE i \in 1 .. Len(w) /\ u[i] = w[i] /\ \E k \in 1 .. Len(s) : u[j] = s[k]
        BY <1>8, <1>11, <2>2, <3>2
    <3>3. CASE \E k \in 1 .. Len(s) : i = Len(w) + k /\ u[i] = s[k]
      <4>1. PICK k \in 1 .. Len(s) : i = Len(w) + k /\ u[i] = s[k]
          BY <3>3
      <4>2. PICK a \in Nat, b \in Nat : a = Len(w) /\ b = Len(s)
          BY <1>7
      <4>3. j <= a + b
        <5>1. Len(u) = a + b
            BY <1>7, <1>9, <4>2, ConcatProperties
        <5> QED BY <5>1
      <4>4. k # b
          BY <2>2, <4>1, <4>2, <4>3
      <4> QED BY <1>8, <4>1, <4>2, <4>4
    <3> QED BY <1>10, <3>1, <3>2, <3>3
  <2> QED BY <2>1, <2>2 DEF Answered
<1>14. OnlyOne(t, u)
  <2>1. ASSUME NEW i \in 1 .. Len(t), NEW j \in 1 .. Len(u), t[i] \in Req, u[j] \in Resp
        PROVE  t[i].what.for # u[j].what.for
    <3>1. i + 1 \in 1 .. n /\ t[i] = v[i + 1] /\ t[i].what.for # f
        BY <1>6, <2>1
    <3>2. CASE j \in 1 .. Len(w) /\ u[j] = w[j]
        BY <1>1, <1>2, <2>1, <3>1, <3>2 DEF ReadState, ReadWires, OnlyOne
    <3>3. CASE \E k \in 1 .. Len(s) : u[j] = s[k]
        BY <1>8, <3>1, <3>3
    <3> QED BY <1>10, <3>2, <3>3
  <2> QED BY <2>1 DEF OnlyOne
<1>15. ReadState(h, t, u, q, o, pl, r)
    BY <1>1, <1>12, <1>13, <1>14 DEF ReadState, ReadWires
<1>16. up => Front("RDMA_READ_RESP", h, u, pl)
    BY <1>7, <1>9, FrontAppend DEF ReadLink
<1> QED BY <1>1, <1>5, <1>9, <1>15, <1>16 DEF ReadLink

\* The bytes in memory of a read that is complete are its bytes.
LEMMA BytesOfRead ==
    ASSUME NEW h, NEW o, NEW pl \in Placed, Bounded(h, o, pl), NEW i, All(h, o, i) \subseteq pl
    PROVE  {b \in pl : b[1] = h /\ b[2] = i} = All(h, o, i)
<1>1. PICK L : L = 0 .. o[i].len - 1
    OBVIOUS
<1>2. All(h, o, i) = {h} \X {i} \X L
    BY <1>1 DEF All
<1>3. ASSUME NEW b \in pl, b[1] = h, b[2] = i PROVE b \in {h} \X {i} \X L
  <2>1. b = <<b[1], b[2], b[3]>>
      BY DEF Placed
  <2>2. b[3] \in L
      BY <1>1, <1>3 DEF Bounded
  <2> QED BY <1>3, <2>1, <2>2
<1>4. ASSUME NEW b \in {h} \X {i} \X L PROVE b[1] = h /\ b[2] = i
    BY <1>4
<1> QED BY <1>2, <1>3, <1>4

\* The sinks of the reads in flight differ: a response completes the read it
\* answers and no other.
MarksOne(q, m, seg, len) ==
    \E d \in 1 .. Len(q) :
        /\ q[d].id = seg.what.for /\ q[d].stag = seg.stag /\ ~q[d].done
        /\ m[d].done /\ m[d].len = len
        /\ \A i \in 1 .. Len(q) : i # d => m[i] = q[i]

\* rdmap_reap_rwr, first loop.
LEMMA MarkedOne ==
    ASSUME NEW q \in Seq(Rwr), NEW o, NEW n, InFlight(q, o, n), NEW seg, Expected(q, seg.what.for, seg.stag),
           NEW len \in Nat, NEW m, m = Marked(q, seg, len)
    PROVE  MarksOne(q, m, seg, len)
<1>1. PICK d \in 1 .. Len(q) : q[d].id = seg.what.for /\ q[d].stag = seg.stag /\ ~q[d].done
    BY DEF Expected
<1>2. /\ Len(m) = Len(q)
      /\ \A i \in 1 .. Len(q) :
           /\ q[i].stag = seg.stag => m[i].done /\ m[i].len = len
           /\ q[i].stag # seg.stag => m[i] = q[i]
    BY MarkedSeq
<1>3. \A i \in 1 .. Len(q) : i # d => q[i].stag # seg.stag
    BY <1>1 DEF InFlight
<1>4. m[d].done /\ m[d].len = len /\ \A i \in 1 .. Len(q) : i # d => m[i] = q[i]
    BY <1>1, <1>2, <1>3
<1> QED BY <1>1, <1>4, Zenon DEF MarksOne

\* The bytes of a message up to the end of its segment are in memory.
InMemory(h, seg, pl) == {h} \X {seg.what.for} \X (0 .. (seg.off + seg.len) - 1) \subseteq pl

\* Some read in flight has the sink of the segment.
HasSink(q, seg) == \E i \in 1 .. Len(q) : q[i].stag = seg.stag

\* The last segment of a response is taken and its read is marked.
LEMMA ReadMarked ==
    ASSUME NEW h, NEW v, NEW w \in Seq(Seg), w # <<>>, NEW q \in Seq(Rwr), NEW o, NEW n, NEW r, NEW pl,
           InFlight(q, o, n), ReadState(h, v, w, q, o, pl, r),
           NEW seg \in Resp, seg = w[1], seg.last, NEW len \in Nat, len = seg.off + seg.len,
           NEW m, m = Marked(q, seg, len),
           NEW pl2, pl \subseteq pl2, Bounded(h, o, pl2), InMemory(h, seg, pl2)
    PROVE  InFlight(m, o, n) /\ ReadState(h, v, Tail(w), m, o, pl2, r) /\ HasSink(m, seg)
<1>1. PICK f, c : f = seg.what.for /\ c = Len(w)
    OBVIOUS
<1>2. c \in Nat \ {0} /\ 1 \in 1 .. c
    BY <1>1, EmptySeq
<1>3. Answers(seg, q, o)
    BY <1>1, <1>2 DEF ReadState, ReadWires, Answered
<1>4. Expected(q, f, seg.stag) /\ len = o[f].len
    BY <1>1, <1>3 DEF Answers
<1>5. PICK d \in 1 .. Len(q) :
        /\ q[d].id = f /\ q[d].stag = seg.stag /\ ~q[d].done
        /\ m[d].done /\ m[d].len = len
        /\ \A i \in 1 .. Len(q) : i # d => m[i] = q[i]
  <2>1. MarksOne(q, m, seg, len)
      BY <1>1, <1>4, MarkedOne
  <2> QED BY <1>1, <2>1 DEF MarksOne
<1>6. Len(m) = Len(q) /\ \A i \in 1 .. Len(q) : m[i].id = q[i].id /\ m[i].stag = q[i].stag
    BY MarkedSeq
<1>7. InFlight(m, o, n)
  <2>1. n + Len(m) = Total(o, "READ")
      BY <1>6 DEF InFlight
  <2>2. ASSUME NEW j \in 1 .. Len(m)
        PROVE  m[j].id \in Among(o, "READ") /\ Rank(o, "READ", m[j].id) = n + j
      BY <1>6 DEF InFlight
  <2>3. ASSUME NEW i \in 1 .. Len(m), NEW j \in 1 .. Len(m), m[i].stag = m[j].stag PROVE i = j
    <3>1. q[i].stag = q[j].stag /\ i \in 1 .. Len(q) /\ j \in 1 .. Len(q)
        BY <1>6, <2>3
    <3> QED BY <3>1 DEF InFlight
  <2> QED BY <2>1, <2>2, <2>3 DEF InFlight
<1>8. ASSUME NEW id, NEW stag, Expected(q, id, stag), id # f PROVE Expected(m, id, stag)
  <2>1. PICK j \in 1 .. Len(q) : q[j].id = id /\ q[j].stag = stag /\ ~q[j].done
      BY <1>8 DEF Expected
  <2>2. j # d
      BY <1>5, <1>8, <2>1
  <2>3. m[j] = q[j]
      BY <1>5, <2>2
  <2> QED BY <1>6, <2>1, <2>3 DEF Expected
<1>9. PICK t \in Seq(Seg) : t = Tail(w) /\ Len(t) = c - 1 /\ \A i \in 1 .. c - 1 : t[i] = w[i + 1]
  <2>1. Tail(w) \in Seq(Seg) /\ Len(Tail(w)) = c - 1
      BY <1>1, HeadTailProperties
  <2>2. \A i \in 1 .. c - 1 : Tail(w)[i] = w[i + 1]
      BY <1>1, <2>1, HeadTailProperties
  <2> QED BY <2>1, <2>2
<1>10. ReadWires(v, t, q, o)
  <2>1. Embeds(Resp, t, w)
      BY <1>9, EmbedTail
  <2>2. Embeds(Req, v, v)
    <3>1. PICK g : g = [i \in 1 .. Len(v) |-> i]
        OBVIOUS
    <3>2. EmbedsBy(Req, v, v, g)
        BY <3>1 DEF EmbedsBy
    <3> QED BY <3>2 DEF Embeds
  <2> QED BY <2>1, <2>2, WiresEmbed DEF ReadState
<1>11. ASSUME NEW i \in 1 .. Len(t), t[i] \in Resp PROVE t[i].what.for # f
  <2>1. i + 1 \in 1 .. c /\ 1 < i + 1 /\ t[i] = w[i + 1]
      BY <1>2, <1>9
  <2> QED BY <1>1, <1>2, <1>11, <2>1 DEF ReadState, ReadWires, Answered
<1>12. ASSUME NEW i \in 1 .. Len(v), v[i] \in Req PROVE v[i].what.for # f
    BY <1>1, <1>2, <1>12 DEF ReadState, ReadWires, OnlyOne
<1>13. Asked(v, m, o)
  <2>1. ASSUME NEW i \in 1 .. Len(v), v[i] \in Req PROVE Asks(v[i], m, o)
      BY <1>8, <1>10, <1>12, <2>1 DEF ReadWires, Asked, Asks
  <2> QED BY <1>10, <2>1 DEF ReadWires, Asked
<1>14. Answered(t, m, o)
  <2>1. ASSUME NEW i \in 1 .. Len(t), t[i] \in Resp PROVE Answers(t[i], m, o)
      BY <1>8, <1>10, <1>11, <2>1 DEF ReadWires, Answered, Answers
  <2> QED BY <1>10, <2>1 DEF ReadWires, Answered
<1>15. Filled(h, m, o, pl2)
  <2>1. ASSUME NEW j \in 1 .. Len(q), m[j].done
        PROVE  m[j].len = o[m[j].id].len /\ All(h, o, m[j].id) \subseteq pl2
    <3>1. CASE j = d
        BY <1>1, <1>4, <1>5, <1>6, <3>1 DEF All, InMemory
    <3>2. CASE j # d
      <4>1. m[j] = q[j]
          BY <1>5, <3>2
      <4>2. q[j].len = o[q[j].id].len /\ All(h, o, q[j].id) \subseteq pl
          BY <2>1, <4>1 DEF ReadState, Filled
      <4> QED BY <4>1, <4>2
    <3> QED BY <3>1, <3>2
  <2> QED BY <1>6, <2>1 DEF Filled
<1>16. ReadState(h, v, t, m, o, pl2, r)
    BY <1>10, <1>13, <1>14, <1>15 DEF ReadState, ReadWires
<1>17. HasSink(m, seg)
    BY <1>5, <1>6 DEF HasSink
<1> QED BY <1>7, <1>9, <1>16, <1>17

\* The records of the first k reads of m.
Records(h, m, pl, k, rec) ==
    \A i \in 1 .. k : /\ rec[i].id = m[i].id /\ rec[i].len = m[i].len
                      /\ rec[i].got = {b \in pl : b[1] = h /\ b[2] = m[i].id}

\* rdmap_reap_rwr, second loop: the k finished reads in front complete.
LEMMA ReadReaped ==
    ASSUME NEW h, NEW v, NEW w, NEW m \in Seq(Rwr), NEW o, NEW X, NEW r \in Seq(X), NEW pl \in Placed,
           InFlight(m, o, Len(r)), ReadState(h, v, w, m, o, pl, r),
           NEW k \in 0 .. Len(m), \A i \in 1 .. k : m[i].done,
           NEW q, q = SubSeq(m, k + 1, Len(m)),
           NEW rec \in Seq(X), Len(rec) = k, Records(h, m, pl, k, rec), NEW r2, r2 = r \o rec
    PROVE  InFlight(q, o, Len(r2)) /\ ReadState(h, v, w, q, o, pl, r2)
<1>1. PICK n \in Nat, c \in Nat : n = Len(r) /\ c = Len(m) /\ k \in Nat /\ k <= c
    OBVIOUS
<1>2. PICK d \in Nat : c = k + d
  <2>1. c - k \in Nat /\ c = k + (c - k)
      BY <1>1
  <2> QED BY <2>1
<1>3. /\ Len(q) = d
      /\ \A i \in 1 .. d : k + i \in 1 .. c /\ q[i] = m[k + i]
  <2>1. \A i \in 1 .. d : k + i \in 1 .. c /\ i + (k + 1) - 1 = k + i
      BY <1>1, <1>2
  <2>2. Len(q) = d
      BY <1>1, <1>2, SubSeqProperties
  <2>3. ASSUME NEW i \in 1 .. d PROVE q[i] = m[k + i]
      BY <1>1, <1>2, <2>1, <2>2, SubSeqProperties
  <2> QED BY <2>1, <2>2, <2>3
<1>4. /\ r2 \in Seq(X) /\ Len(r2) = n + k
      /\ \A i \in 1 .. n + k : r2[i] = IF i <= n THEN r[i] ELSE rec[i - n]
    BY <1>1, ConcatProperties
<1>5. /\ n + c = Total(o, "READ")
      /\ \A j \in 1 .. c : m[j].id \in Among(o, "READ") /\ Rank(o, "READ", m[j].id) = n + j
      /\ \A i, j \in 1 .. c : m[i].stag = m[j].stag => i = j
    BY <1>1 DEF InFlight
<1>6. InFlight(q, o, n + k)
  <2>1. (n + k) + d = Total(o, "READ")
      BY <1>1, <1>2, <1>5
  <2>2. ASSUME NEW j \in 1 .. d PROVE q[j].id \in Among(o, "READ") /\ Rank(o, "READ", q[j].id) = (n + k) + j
    <3>1. n + (k + j) = (n + k) + j
        BY <1>1
    <3> QED BY <1>3, <1>5, <3>1
  <2>3. ASSUME NEW i \in 1 .. d, NEW j \in 1 .. d, q[i].stag = q[j].stag PROVE i = j
    <3>1. PICK a \in 1 .. c, b \in 1 .. c : a = k + i /\ b = k + j /\ q[i] = m[a] /\ q[j] = m[b]
        BY <1>3
    <3>2. a = b
        BY <1>5, <2>3, <3>1
    <3> QED BY <1>1, <3>1, <3>2
  <2> QED BY <1>3, <2>1, <2>2, <2>3 DEF InFlight
<1>7. ASSUME NEW id, NEW stag, Expected(m, id, stag) PROVE Expected(q, id, stag)
  <2>1. PICK j \in 1 .. c : m[j].id = id /\ m[j].stag = stag /\ ~m[j].done
      BY <1>1, <1>7 DEF Expected
  <2>2. ~(j <= k)
      BY <2>1
  <2>3. PICK i \in 1 .. d : j = k + i
    <3>1. j - k \in 1 .. d /\ j = k + (j - k)
        BY <1>1, <1>2, <2>2
    <3> QED BY <3>1
  <2>4. q[i] = m[j]
      BY <1>3, <2>3
  <2> QED BY <1>3, <2>1, <2>4 DEF Expected
<1>8. ReadWires(v, w, q, o)
  <2>1. ASSUME NEW x, Asks(x, m, o) PROVE Asks(x, q, o)
      BY <1>7, <2>1 DEF Asks
  <2>2. ASSUME NEW x, Answers(x, m, o) PROVE Answers(x, q, o)
      BY <1>7, <2>2 DEF Answers
  <2> QED BY <2>1, <2>2 DEF ReadState, ReadWires, Asked, Answered
<1>9. Filled(h, q, o, pl)
    BY <1>1, <1>3 DEF ReadState, Filled
<1>10. Recorded(h, o, r2)
  <2> SUFFICES ASSUME NEW l \in 1 .. n + k
               PROVE  \E i \in Among(o, "READ") :
                        /\ Rank(o, "READ", i) = l
                        /\ r2[l].id = i /\ r2[l].len = o[i].len /\ r2[l].got = All(h, o, i)
      BY <1>4 DEF Recorded
  <2>1. CASE l <= n
    <3>1. l \in 1 .. Len(r) /\ r2[l] = r[l]
        BY <1>1, <1>4, <2>1
    <3> QED BY <3>1 DEF ReadState, Recorded
  <2>2. CASE l > n
    <3>1. PICK j \in 1 .. k : l = n + j
      <4>1. l - n \in 1 .. k /\ l = n + (l - n)
          BY <1>1, <2>2
      <4> QED BY <4>1
    <3>2. ~(l <= n) /\ l - n = j
        BY <1>1, <2>2, <3>1
    <3>3. r2[l] = rec[j]
        BY <1>4, <3>2
    <3>4. j \in 1 .. c /\ m[j].done
        BY <1>1, <3>1
    <3>5. PICK id \in Among(o, "READ") : id = m[j].id /\ Rank(o, "READ", id) = l
        BY <1>5, <3>1, <3>4
    <3>6. m[j].len = o[id].len /\ All(h, o, id) \subseteq pl
        BY <1>1, <3>4, <3>5 DEF ReadState, Filled
    <3>7. {b \in pl : b[1] = h /\ b[2] = id} = All(h, o, id)
        BY <3>6, BytesOfRead DEF ReadState
    <3>8. rec[j].id = id /\ rec[j].len = o[id].len /\ rec[j].got = All(h, o, id)
        BY <3>5, <3>6, <3>7 DEF Records
    <3> QED BY <3>3, <3>5, <3>8
  <2>3. l <= n \/ l > n
      BY <1>1
  <2> QED BY <2>1, <2>2, <2>3, Zenon
<1> QED BY <1>4, <1>6, <1>8, <1>9, <1>10 DEF ReadState

--------------------------------------------------------------------------------
(* Reads: the steps of both ends *)

\* The reads of h, an end of status st.
ReadsOf(h, v, w, q, o, st, pl, r) == st # "norwr" /\ ReadLink(h, v, w, q, o, st = "up", pl, r)

\* What a step that finishes no read leaves of them.
LEMMA ReadsLess ==
    ASSUME NEW h, NEW v, NEW w, NEW q, NEW o, NEW st, NEW pl, NEW r,
           ReadsOf(h, v, w, q, o, st, pl, r),
           NEW v2, NEW w2, NEW o2, NEW st2, NEW pl2, Embeds(Req, v2, v), Embeds(Resp, w2, w),
           KeepsReads(o, o2), Total(o2, "READ") = Total(o, "READ"),
           pl \subseteq pl2, Bounded(h, o, pl2), st2 # "norwr",
           st2 = "up" => Front("RDMA_READ_RESP", h, w2, pl2)
    PROVE  ReadsOf(h, v2, w2, q, o2, st2, pl2, r)
<1>1. PICK up \in BOOLEAN, up2 \in BOOLEAN : up = (st = "up") /\ up2 = (st2 = "up")
    OBVIOUS
<1>2. ReadLink(h, v, w, q, o, up, pl, r)
    BY <1>1 DEF ReadsOf
<1>3. up2 => Front("RDMA_READ_RESP", h, w2, pl2)
    BY <1>1
<1>4. ReadLink(h, v2, w2, q, o2, up2, pl2, r)
    BY <1>2, <1>3, ReadLinkLess
<1> QED BY <1>1, <1>4 DEF ReadsOf

\* Operations stay as they are.
LEMMA KeptReads ==
    ASSUME NEW o
    PROVE  KeepsReads(o, o)
BY DEF KeepsReads

\* The bytes in memory, and of a response at the front, in a state of the reads.
LEMMA ReadsBounded ==
    ASSUME NEW h, NEW v, NEW w, NEW q, NEW o, NEW st, NEW pl, NEW r, ReadsOf(h, v, w, q, o, st, pl, r)
    PROVE  /\ Bounded(h, o, pl)
           /\ st = "up" => Front("RDMA_READ_RESP", h, w, pl)
BY DEF ReadsOf, ReadLink, ReadState

\* h puts a message on the wire that is no request.
LEMMA ReadsSent ==
    ASSUME NEW h, NEW v \in Seq(Seg), NEW w \in Seq(Seg), NEW q, NEW o, NEW st, NEW pl, NEW r,
           ReadsOf(h, v, w, q, o, st, pl, r),
           NEW o2, KeepsReads(o, o2), Total(o2, "READ") = Total(o, "READ"),
           NEW s, NEW op, NEW what, NEW m, Carries(s, op, what, m), op # "RDMA_READ_REQ"
    PROVE  ReadsOf(h, v \o s, w, q, o2, st, pl, r)
<1>1. s \in Seq(Seg) /\ \A i \in 1 .. Len(s) : s[i] \notin Req
    BY DEF Carries, Message, Req
<1>2. Embeds(Req, v \o s, v) /\ Embeds(Resp, w, w)
    BY <1>1, EmbedAppend, EmbedSame
<1>3. st # "norwr" /\ Bounded(h, o, pl) /\ (st = "up" => Front("RDMA_READ_RESP", h, w, pl))
    BY ReadsBounded DEF ReadsOf
<1> QED BY <1>2, <1>3, ReadsLess

\* The peer puts a message on the wire that is no response.
LEMMA ReadsHeard ==
    ASSUME NEW h, NEW v \in Seq(Seg), NEW w \in Seq(Seg), NEW q, NEW o, NEW st, NEW pl, NEW r,
           ReadsOf(h, v, w, q, o, st, pl, r),
           NEW s, NEW op, NEW what, NEW m, Carries(s, op, what, m), op # "RDMA_READ_RESP"
    PROVE  ReadsOf(h, v, w \o s, q, o, st, pl, r)
<1>1. s \in Seq(Seg) /\ Message(s) /\ \A i \in 1 .. Len(s) : s[i] \notin Resp
    BY DEF Carries, Message, Resp
<1>2. Embeds(Req, v, v) /\ Embeds(Resp, w \o s, w)
    BY <1>1, EmbedAppend, EmbedSame
<1>3. st # "norwr" /\ Bounded(h, o, pl) /\ (st = "up" => Front("RDMA_READ_RESP", h, w, pl))
    BY ReadsBounded DEF ReadsOf
<1>4. st = "up" => Front("RDMA_READ_RESP", h, w \o s, pl)
    BY <1>1, <1>3, FrontAppend
<1> QED BY <1>2, <1>3, <1>4, KeptReads, ReadsLess

\* The peer takes a segment off the wire.
LEMMA ReadsGone ==
    ASSUME NEW h, NEW v \in Seq(Seg), v # <<>>, NEW w \in Seq(Seg), NEW q, NEW o, NEW st, NEW pl, NEW r,
           ReadsOf(h, v, w, q, o, st, pl, r)
    PROVE  ReadsOf(h, Tail(v), w, q, o, st, pl, r)
<1>1. Embeds(Req, Tail(v), v) /\ Embeds(Resp, w, w)
    BY EmbedTail, EmbedSame
<1>2. st # "norwr" /\ Bounded(h, o, pl) /\ (st = "up" => Front("RDMA_READ_RESP", h, w, pl))
    BY ReadsBounded DEF ReadsOf
<1> QED BY <1>1, <1>2, KeptReads, ReadsLess

\* h ends.
LEMMA ReadsStop ==
    ASSUME NEW h, NEW v \in Seq(Seg), NEW w \in Seq(Seg), NEW q, NEW o, NEW st, NEW pl, NEW r,
           ReadsOf(h, v, w, q, o, st, pl, r), NEW st2, st2 # "norwr", st2 # "up"
    PROVE  ReadsOf(h, v, w, q, o, st2, pl, r)
<1>1. Embeds(Req, v, v) /\ Embeds(Resp, w, w)
    BY EmbedSame
<1>2. Bounded(h, o, pl)
    BY ReadsBounded
<1> QED BY <1>1, <1>2, KeptReads, ReadsLess

\* h takes a segment that finishes no read, or ends on it.
LEMMA ReadsTake ==
    ASSUME NEW h, NEW v \in Seq(Seg), NEW w \in Seq(Seg), w # <<>>, Framed(w), NEW q, NEW o, NEW pl, NEW r,
           ReadsOf(h, v, w, q, o, "up", pl, r), NEW seg, seg = w[1],
           NEW pl2, pl \subseteq pl2, Bounded(h, o, pl2), NEW st, st # "norwr",
           st = "up" /\ seg.op = "RDMA_READ_RESP" => \A b \in Bytes(seg) : <<h, b[1], b[2]>> \in pl2
    PROVE  ReadsOf(h, v, Tail(w), q, o, st, pl2, r)
<1>1. Embeds(Req, v, v) /\ Embeds(Resp, Tail(w), w)
    BY EmbedTail, EmbedSame
<1>2. Front("RDMA_READ_RESP", h, w, pl)
    BY ReadsBounded
<1>3. st = "up" => Front("RDMA_READ_RESP", h, Tail(w), pl2)
  <2> SUFFICES ASSUME st = "up" PROVE Front("RDMA_READ_RESP", h, Tail(w), pl2)
      OBVIOUS
  <2>1. seg.op = "RDMA_READ_RESP" => \A b \in Bytes(seg) : <<h, b[1], b[2]>> \in pl2
      OBVIOUS
  <2> QED BY <1>2, <2>1, FrontTail
<1> QED BY <1>1, <1>3, KeptReads, ReadsLess

\* A response at the front of the wire is of a read, and within it.
LEMMA RespAtFront ==
    ASSUME NEW h, NEW v, NEW w \in Seq(Seg), w # <<>>, NEW q, NEW o, NEW st, NEW pl, NEW r,
           ReadsOf(h, v, w, q, o, st, pl, r), w[1] \in Resp
    PROVE  /\ w[1].what.for \in Among(o, "READ")
           /\ w[1].off + w[1].len <= o[w[1].what.for].len
<1>1. 1 \in 1 .. Len(w)
    BY EmptySeq
<1>2. Answers(w[1], q, o) /\ InFlight(q, o, Len(r))
    BY <1>1 DEF ReadsOf, ReadLink, ReadState, ReadWires, Answered
<1> QED BY <1>2, ExpectedRead DEF Answers

\* The bytes of a tagged segment.
LEMMA BoundedPlace ==
    ASSUME NEW h \in Host, NEW o \in Seq(Op), NEW pl, Bounded(h, o, pl), NEW seg \in Seg, seg.tagged,
           seg \in Resp => /\ seg.what.for \in Among(o, "READ")
                           /\ seg.off + seg.len <= o[seg.what.for].len
    PROVE  Bounded(h, o, pl \cup PlacedBy(h, seg))
<1>1. Peer(h) # h
    BY Peers
<1>2. ASSUME NEW y \in PlacedBy(h, seg), y[1] = h
      PROVE  y[2] \in Among(o, "READ") /\ y[3] \in 0 .. o[y[2]].len - 1
  <2>1. PICK who, f, a, n : /\ who = (IF seg.op = "RDMA_WRITE" THEN Peer(h) ELSE h)
                            /\ f = seg.what.for /\ a = seg.off /\ n = seg.len
      OBVIOUS
  <2>2. PICK b \in Bytes(seg) : y = <<who, b[1], b[2]>>
      BY <2>1 DEF PlacedBy
  <2>3. who = h
      BY <1>2, <2>2
  <2>4. seg.op # "RDMA_WRITE"
      BY <1>1, <2>1, <2>3
  <2>5. seg \in Resp
      BY <2>4, SegFields DEF Resp
  <2>6. f \in Among(o, "READ") /\ a + n <= o[f].len /\ a \in Nat /\ n \in Nat
      BY <2>1, <2>5, SegFields
  <2>7. PICK j \in 0 .. n - 1 : b = <<f, a + j>>
      BY <2>1 DEF Bytes
  <2>8. y[2] = f /\ y[3] = a + j
      BY <2>2, <2>7
  <2>9. PICK l \in Nat : l = o[f].len
    <3>1. o[f] \in Op
        BY <2>6, ElementOfSeq DEF Among
    <3> QED BY <3>1 DEF Op
  <2>10. a + j \in 0 .. l - 1
      BY <2>6, <2>9
  <2> QED BY <2>6, <2>8, <2>9, <2>10
<1> QED BY <1>2 DEF Bounded

\* The last segment of a response completes the first k reads of m, which is q
\* with its own read marked; pl is then in memory and rec is recorded.
Finishes(h, seg, q, m, k, st, pl, rec) ==
    /\ seg \in Resp /\ seg.last /\ m \in Seq(Rwr) /\ m = Marked(q, seg, seg.off + seg.len)
    /\ \A b \in Bytes(seg) : <<h, b[1], b[2]>> \in pl
    /\ st = "norwr" => \A i \in 1 .. Len(m) : m[i].stag # seg.stag
    /\ k \in 0 .. Len(m) /\ \A i \in 1 .. k : m[i].done
    /\ Len(rec) = k /\ Records(h, m, pl, k, rec)

\* h takes that segment.
LEMMA ReadsDone ==
    ASSUME NEW h, NEW v, NEW w \in Seq(Seg), w # <<>>, Framed(w),
           NEW q \in Seq(Rwr), NEW o, NEW pl, NEW X, NEW r \in Seq(X), ReadsOf(h, v, w, q, o, "up", pl, r),
           NEW pl2 \in Placed, pl \subseteq pl2, Bounded(h, o, pl2),
           NEW m, NEW k, NEW st, NEW rec \in Seq(X), Finishes(h, w[1], q, m, k, st, pl2, rec),
           NEW z, z = SubSeq(m, k + 1, Len(m)), NEW r2, r2 = r \o rec
    PROVE  ReadsOf(h, v, Tail(w), z, o, st, pl2, r2)
<1>0. PICK seg : seg = w[1] /\ Finishes(h, seg, q, m, k, st, pl2, rec)
    OBVIOUS
<1>1. InFlight(q, o, Len(r)) /\ ReadState(h, v, w, q, o, pl, r) /\ Front("RDMA_READ_RESP", h, w, pl)
    BY DEF ReadsOf, ReadLink
<1>2. /\ seg.op = "RDMA_READ_RESP" /\ seg \in Seg /\ seg \in Resp /\ seg.last
      /\ \A b \in Bytes(seg) : <<h, b[1], b[2]>> \in pl2
    BY <1>0 DEF Finishes, Resp
<1>3. Front(seg.op, h, w, pl)
    BY <1>1, <1>2
<1>4. InMemory(h, seg, pl2)
    BY <1>0, <1>2, <1>3, FrontBytes DEF InMemory
<1>5. InFlight(m, o, Len(r)) /\ ReadState(h, v, Tail(w), m, o, pl2, r) /\ HasSink(m, seg)
  <2>1. PICK len \in Nat : len = seg.off + seg.len
      BY <1>2, SegFields
  <2>2. m = Marked(q, seg, len)
      BY <1>0, <2>1 DEF Finishes
  <2>3. seg = w[1] /\ seg \in Resp /\ seg.last
      BY <1>0, <1>2
  <2>4. PICK n : n = Len(r) /\ InFlight(q, o, n) /\ ReadState(h, v, w, q, o, pl, r)
      BY <1>1
  <2>5. InFlight(m, o, n) /\ ReadState(h, v, Tail(w), m, o, pl2, r) /\ HasSink(m, seg)
      BY <1>4, <2>1, <2>2, <2>3, <2>4, ReadMarked
  <2> QED BY <2>4, <2>5
<1>6. st # "norwr"
    BY <1>0, <1>5 DEF HasSink, Finishes
<1>7. InFlight(z, o, Len(r2)) /\ ReadState(h, v, Tail(w), z, o, pl2, r2)
  <2>1. /\ m \in Seq(Rwr) /\ k \in 0 .. Len(m) /\ \A i \in 1 .. k : m[i].done
        /\ Len(rec) = k /\ Records(h, m, pl2, k, rec)
      BY <1>0 DEF Finishes
  <2> QED BY <1>5, <2>1, ReadReaped
<1>8. Front("RDMA_READ_RESP", h, Tail(w), pl2)
    BY <1>0, <1>1, <1>2, FrontTail
<1> QED BY <1>6, <1>7, <1>8 DEF ReadsOf, ReadLink

\* The reads of h.
ReadLinked(h) ==
    ReadsOf(h, wire[Peer(h)], wire[h], rwrq[h], ops[h], status[h], placed[h], reads[h])

\* The inductive invariant of reads.
ReadInv == WireInv /\ \A h \in Host : ReadLinked(h)

\* At the start no read was issued.
LEMMA ReadInit ==
    ASSUME Init
    PROVE  ReadInv
<1>1. WireInv
    BY WireInit
<1>2. PICK e : e = <<>> /\ Len(e) = 0
    OBVIOUS
<1>3. Among(e, "READ") = {}
    BY <1>2 DEF Among
<1>4. Total(e, "READ") = 0
    BY <1>3, FS_EmptySet DEF Total
<1>5. InFlight(e, e, Len(e))
    BY <1>2, <1>4 DEF InFlight
<1>6. ReadWires(e, e, e, e)
    BY <1>2 DEF ReadWires, Asked, Answered, OnlyOne
<1>7. ASSUME NEW h PROVE ReadsOf(h, e, e, e, e, "up", {}, e)
  <2>1. Filled(h, e, e, {}) /\ Bounded(h, e, {}) /\ Recorded(h, e, e)
      BY <1>2 DEF Filled, Bounded, Recorded
  <2>2. Front("RDMA_READ_RESP", h, e, {})
      BY <1>2 DEF Front
  <2> QED BY <1>5, <1>6, <2>1, <2>2 DEF ReadsOf, ReadLink, ReadState
<1>8. ASSUME NEW h \in Host PROVE ReadLinked(h)
  <2>1. Peer(h) \in Host
      BY Peers
  <2>2. /\ wire[Peer(h)] = e /\ wire[h] = e /\ rwrq[h] = e /\ ops[h] = e /\ status[h] = "up"
        /\ placed[h] = {} /\ reads[h] = e
      BY <1>2, <2>1 DEF Init
  <2> QED BY <1>7, <2>2 DEF ReadLinked
<1> QED BY <1>1, <1>8 DEF ReadInv

\* Every step keeps the invariant of reads, if no application gives a read the
\* sink of another that is in flight.
LEMMA ReadNext ==
    ASSUME DistinctSinks, ReadInv, [Next]_vars
    PROVE  ReadInv'
<1>1. WireInv /\ WireInv' /\ Typed /\ Typed'
    BY WireNext, TypedNext DEF ReadInv, WireInv
<1>2. PICK R : R = [id : Nat, len : Nat, got : Placed]
    OBVIOUS
<1>3. /\ wire \in [Host -> Seq(Seg)] /\ rwrq \in [Host -> Seq(Rwr)] /\ ops \in [Host -> Seq(Op)]
      /\ reads \in [Host -> Seq(R)] /\ placed \in [Host -> Placed] /\ status \in [Host -> Status]
    BY <1>1, <1>2 DEF Typed, TypedConn, TypedWork, TypedHist
<1>4. \A h \in Host : ReadLinked(h)
    BY DEF ReadInv
<1>5. ASSUME UNCHANGED <<wire, rwrq, ops, status, placed, reads>> PROVE ReadInv'
  <2>1. ASSUME NEW g \in Host PROVE ReadLinked(g)'
      BY <1>4, <1>5 DEF ReadLinked
  <2> QED BY <1>1, <2>1 DEF ReadInv
<1>6. CASE UNCHANGED vars
    BY <1>5, <1>6 DEF vars, hist
<1>7. CASE Next
  <2>1. PICK h \in Host :
          \/ \E len \in SendLens : rdmap_send(h, len)
          \/ \E stag \in Stag, len \in WriteLens : rdmap_rdma_write(h, stag, WriteTo, len)
          \/ \E sink \in Stag, src \in Stag, len \in ReadLens : rdmap_rdma_read(h, sink, len, src)
          \/ \E len \in BufLens : rdmap_post_recv(h, len)
          \/ \E c \in Cq : cq_consume(h, c)
          \/ \E stag \in Stag : mem_stag_destroy(h, stag)
          \/ mpa_recv(h)
          \/ recv_eof(h)
      BY <1>7 DEF Next
  <2>2. PICK p \in Host : p = Peer(h) /\ p # h /\ Peer(p) = h /\ Host = {h, p}
      BY Peers
  <2>3. PICK v \in Seq(Seg), w \in Seq(Seg), q \in Seq(Rwr), o \in Seq(Op), pl \in Placed, r \in Seq(R) :
          v = wire[p] /\ w = wire[h] /\ q = rwrq[h] /\ o = ops[h] /\ pl = placed[h] /\ r = reads[h]
      BY <1>3
  <2>4. /\ ReadsOf(h, v, w, q, o, status[h], pl, r)
        /\ ReadsOf(p, w, v, rwrq[p], ops[p], status[p], placed[p], reads[p])
      BY <1>4, <2>2, <2>3 DEF ReadLinked
  <2>5. ASSUME ReadLinked(h)', ReadLinked(p)' PROVE ReadInv'
    <3>1. ASSUME NEW g \in Host PROVE ReadLinked(g)'
        BY <2>2, <2>5
    <3> QED BY <1>1, <3>1 DEF ReadInv
  \* An operation of h reaches the peer's wire, which does not answer it yet.
  <2>6. ASSUME NEW s, NEW sop, NEW what, NEW m, Carries(s, sop, what, m), sop # "RDMA_READ_RESP",
               wire'[p] = v \o s, wire'[h] = w, ops'[p] = ops[p], rwrq'[p] = rwrq[p],
               UNCHANGED <<status, placed, reads>>
        PROVE  ReadLinked(p)'
    <3>1. ReadsOf(p, w, v \o s, rwrq[p], ops[p], status[p], placed[p], reads[p])
        BY <2>4, <2>6, ReadsHeard
    <3> QED BY <2>2, <2>6, <3>1 DEF ReadLinked
  <2>7. ASSUME NEW e \in Op, e.op # "READ", Issue(h, e), NEW s, NEW sop, NEW what, NEW m,
               Carries(s, sop, what, m), sop # "RDMA_READ_REQ", sop # "RDMA_READ_RESP",
               wire' = [wire EXCEPT ![Peer(h)] = @ \o s], UNCHANGED <<status, rwrq, placed, reads>>
        PROVE  ReadInv'
    <3>1. PICK o2 : o2 = Append(o, e)
        OBVIOUS
    <3>2. ops'[h] = o2 /\ ops'[p] = ops[p] /\ wire'[p] = v \o s /\ wire'[h] = w
        BY <1>3, <2>2, <2>3, <2>7, <3>1 DEF Issue
    <3>3. KeepsReads(o, o2) /\ Total(o2, "READ") = Total(o, "READ")
        BY <2>7, <3>1, IssueKeepsReads
    <3>4. ReadsOf(h, v \o s, w, q, o2, status[h], pl, r)
        BY <2>4, <2>7, <3>3, ReadsSent
    <3>5. ReadLinked(h)'
        BY <2>2, <2>3, <2>7, <3>2, <3>4 DEF ReadLinked
    <3>6. ReadLinked(p)'
        BY <2>6, <2>7, <3>2
    <3> QED BY <2>5, <3>5, <3>6
  <2>8. ASSUME NEW len \in SendLens, rdmap_send(h, len) PROVE ReadInv'
    <3>1. PICK s : /\ UntaggedMsg(s, "SEND", [for |-> OpId(h)], len, send_msn[h])
                   /\ wire' = [wire EXCEPT ![Peer(h)] = @ \o s]
        BY <1>1, <2>8, SendStep
    <3>2. PICK what : Carries(s, "SEND", what, len)
        BY <3>1 DEF UntaggedMsg
    <3>3. PICK e \in Op : e = [op |-> "SEND", len |-> len] /\ e.op = "SEND"
      <4>1. len \in Nat
          BY RdmapAssumption
      <4>2. LET e == [op |-> "SEND", len |-> len] IN e \in Op /\ e.op = "SEND"
          BY <4>1 DEF Op
      <4> QED BY <4>2, Zenon
    <3>4. Issue(h, e) /\ UNCHANGED <<status, rwrq, placed, reads>>
        BY <2>8, <3>3 DEF rdmap_send
    <3> QED BY <2>7, <3>1, <3>2, <3>3, <3>4
  <2>9. ASSUME NEW stag \in Stag, NEW len \in WriteLens, rdmap_rdma_write(h, stag, WriteTo, len)
        PROVE  ReadInv'
    <3>1. PICK s : /\ Carries(s, "RDMA_WRITE", [for |-> OpId(h)], len)
                   /\ wire' = [wire EXCEPT ![Peer(h)] = @ \o s]
        BY <1>1, <2>9, WriteStep
    <3>2. PICK what : Carries(s, "RDMA_WRITE", what, len)
        BY <3>1
    <3>3. PICK e \in Op : e = [op |-> "WRITE", len |-> len] /\ e.op = "WRITE"
      <4>1. len \in Nat
          BY RdmapAssumption
      <4>2. LET e == [op |-> "WRITE", len |-> len] IN e \in Op /\ e.op = "WRITE"
          BY <4>1 DEF Op
      <4> QED BY <4>2, Zenon
    <3>4. Issue(h, e) /\ UNCHANGED <<status, rwrq, placed, reads>>
        BY <2>9, <3>3 DEF rdmap_rdma_write
    <3> QED BY <2>7, <3>1, <3>2, <3>3, <3>4
  <2>10. ASSUME NEW sink \in Stag, NEW src \in Stag, NEW len \in ReadLens, rdmap_rdma_read(h, sink, len, src)
         PROVE  ReadInv'
    <3>1. PICK s, what : Requests(h, sink, len, s, what)
        BY <1>1, <2>10, ReadStep
    <3>2. /\ Carries(s, "RDMA_READ_REQ", what, 1) /\ wire' = [wire EXCEPT ![Peer(h)] = @ \o s]
          /\ what.sink_stag = sink /\ what.rdma_rd_sz = len /\ what.for = OpId(h)
        BY <3>1 DEF Requests, UntaggedMsg
    <3>3. PICK e \in Op : e = [op |-> "READ", len |-> len] /\ e.op = "READ" /\ e.len = len
      <4>1. len \in Nat
          BY RdmapAssumption
      <4>2. LET e == [op |-> "READ", len |-> len] IN e \in Op /\ e.op = "READ" /\ e.len = len
          BY <4>1 DEF Op
      <4> QED BY <4>2, Zenon
    <3>4. PICK id \in Nat : id = Len(o) + 1 /\ id = OpId(h)
        BY <2>3 DEF OpId
    <3>5. PICK x \in Rwr : /\ x = [id |-> id, stag |-> sink, done |-> FALSE, len |-> 0]
                           /\ x.id = id /\ x.stag = sink /\ ~x.done
      <4>1. LET x == [id |-> id, stag |-> sink, done |-> FALSE, len |-> 0]
            IN  x \in Rwr /\ x.id = id /\ x.stag = sink /\ ~x.done
          BY DEF Rwr
      <4> QED BY <4>1, Zenon
    <3>6. PICK o2, q2 : o2 = Append(o, e) /\ q2 = Append(q, x)
        OBVIOUS
    <3>7. /\ Issue(h, e) /\ UNCHANGED <<status, placed, reads>>
          /\ rwrq' = [rwrq EXCEPT ![h] = Append(@, x)]
          /\ \A i \in 1 .. Len(q) : q[i].stag # x.stag
        BY <2>3, <2>10, <3>3, <3>4, <3>5 DEF rdmap_rdma_read
    <3>8. /\ ops'[h] = o2 /\ ops'[p] = ops[p] /\ wire'[p] = v \o s /\ wire'[h] = w
          /\ rwrq'[h] = q2 /\ rwrq'[p] = rwrq[p]
        BY <1>3, <2>2, <2>3, <3>2, <3>6, <3>7 DEF Issue
    <3>9. PICK up \in BOOLEAN : up = (status[h] = "up")
        OBVIOUS
    <3>10. status[h] # "norwr" /\ ReadLink(h, v, w, q, o, up, pl, r) /\ Len(r) \in Nat
        BY <2>4, <3>9 DEF ReadsOf
    <3>11. ReadLink(h, v \o s, w, q2, o2, up, pl, r)
        BY <3>2, <3>3, <3>4, <3>5, <3>6, <3>7, <3>10, ReadLinkAsk
    <3>12. ReadsOf(h, v \o s, w, q2, o2, status[h], pl, r)
        BY <3>9, <3>10, <3>11 DEF ReadsOf
    <3>13. ReadLinked(h)'
        BY <2>2, <2>3, <3>7, <3>8, <3>12 DEF ReadLinked
    <3>14. ReadLinked(p)'
        BY <2>6, <3>2, <3>7, <3>8
    <3> QED BY <2>5, <3>13, <3>14
  <2>11. ASSUME NEW len \in BufLens, rdmap_post_recv(h, len) PROVE ReadInv'
      BY <1>5, <2>11 DEF rdmap_post_recv
  <2>12. ASSUME NEW c \in Cq, cq_consume(h, c) PROVE ReadInv'
      BY <1>5, <2>12 DEF cq_consume, hist
  <2>13. ASSUME NEW stag \in Stag, mem_stag_destroy(h, stag) PROVE ReadInv'
      BY <1>5, <2>13 DEF mem_stag_destroy, hist
  <2>14. CASE recv_eof(h)
    <3>1. status' = [status EXCEPT ![h] = "eof"] /\ UNCHANGED <<wire, rwrq, ops, placed, reads>>
        BY <2>14 DEF recv_eof, hist
    <3>2. ReadsOf(h, v, w, q, o, "eof", pl, r)
        BY <2>4, ReadsStop
    <3>3. status'[h] = "eof" /\ status'[p] = status[p]
        BY <1>3, <2>2, <3>1
    <3>4. ReadLinked(h)'
        BY <2>2, <2>3, <3>1, <3>2, <3>3 DEF ReadLinked
    <3>5. ReadLinked(p)'
        BY <1>4, <2>2, <3>1, <3>3 DEF ReadLinked
    <3> QED BY <2>5, <3>4, <3>5
  \* A segment arrives at h.
  <2>15. ASSUME Arrives(h)
         PROVE  /\ w # <<>> /\ Framed(w) /\ w[1] = Next_seg(h) /\ Next_seg(h) \in Seg
                /\ Head(w) = Next_seg(h) /\ status[h] = "up"
                /\ Partial(w, outst_tag[h], outst_untag[h])
                /\ ReadsOf(h, v, w, q, o, "up", pl, r)
    <3>1. status[h] = "up" /\ w # <<>>
        BY <2>3, <2>15 DEF Arrives, Running
    <3>2. Framed(w) /\ Partial(w, outst_tag[h], outst_untag[h])
        BY <1>1, <2>3, <3>1 DEF WireInv, Link
    <3>3. Head(w) = w[1] /\ Head(w) \in Seg
        BY <3>1, <3>2, FramedTail
    <3> QED BY <2>3, <2>4, <3>1, <3>2, <3>3 DEF Next_seg
  \* It leaves the wire that carries the peer's requests.
  <2>16. ASSUME Arrives(h), wire'[h] = Tail(w), wire'[p] = v, status'[p] = status[p], placed'[p] = placed[p],
                ops'[p] = ops[p], rwrq'[p] = rwrq[p], reads'[p] = reads[p]
         PROVE  ReadLinked(p)'
    <3>1. ReadsOf(p, Tail(w), v, rwrq[p], ops[p], status[p], placed[p], reads[p])
        BY <2>4, <2>15, <2>16, ReadsGone
    <3> QED BY <2>2, <2>16, <3>1 DEF ReadLinked
  <2>17. CASE recv_send(h)
    <3>1. /\ Arrives(h) /\ Next_seg(h).op = "SEND" /\ wire' = [wire EXCEPT ![h] = Tail(@)]
          /\ UNCHANGED <<status, rwrq, ops, placed, reads>>
        BY <2>17 DEF recv_send
    <3>2. Next_seg(h).op # "RDMA_READ_RESP" /\ Bounded(h, o, pl)
        BY <2>4, <3>1, ReadsBounded
    <3>3. ReadsOf(h, v, Tail(w), q, o, "up", pl, r)
        BY <2>15, <3>1, <3>2, ReadsTake
    <3>4. wire'[h] = Tail(w) /\ wire'[p] = v
        BY <1>3, <2>2, <2>3, <3>1
    <3>5. ReadLinked(h)'
        BY <2>2, <2>3, <2>15, <3>1, <3>3, <3>4 DEF ReadLinked
    <3>6. ReadLinked(p)'
        BY <2>16, <3>1, <3>4
    <3> QED BY <2>5, <3>5, <3>6
  <2>18. CASE recv_rdma_read_req(h)
    <3>1. PICK seg \in Seg : \E s, what :
            /\ seg = Next_seg(h) /\ seg.op = "RDMA_READ_REQ"
            /\ Carries(s, "RDMA_READ_RESP", what, seg.what.rdma_rd_sz)
            /\ what.for = seg.what.for
            /\ \A i \in 1 .. Len(s) : s[i].tagged /\ s[i].stag = seg.what.sink_stag
            /\ wire' = [wire EXCEPT ![h] = Tail(@), ![Peer(h)] = @ \o s]
        BY <1>1, <2>18, RequestStep, Zenon
    <3>2. PICK s, what :
            /\ seg = Next_seg(h) /\ seg.op = "RDMA_READ_REQ"
            /\ Carries(s, "RDMA_READ_RESP", what, seg.what.rdma_rd_sz)
            /\ what.for = seg.what.for
            /\ \A i \in 1 .. Len(s) : s[i].tagged /\ s[i].stag = seg.what.sink_stag
            /\ wire' = [wire EXCEPT ![h] = Tail(@), ![Peer(h)] = @ \o s]
        BY <3>1
    <3>3. Arrives(h) /\ UNCHANGED <<status, rwrq, ops, placed, reads>>
        BY <2>18 DEF recv_rdma_read_req, hist
    <3>4. wire'[h] = Tail(w) /\ wire'[p] = v \o s
        BY <1>3, <2>2, <2>3, <3>2
    <3>5. seg.op # "RDMA_READ_RESP" /\ Bounded(h, o, pl) /\ seg \in Req /\ Tail(w) \in Seq(Seg)
      <4>1. Tail(w) \in Seq(Seg)
          BY <2>15, <3>3, FramedTail
      <4> QED BY <2>4, <3>2, <4>1, ReadsBounded DEF Req
    <3>6. ReadsOf(h, v, Tail(w), q, o, "up", pl, r)
        BY <2>15, <3>2, <3>3, <3>5, ReadsTake
    <3>7. ReadsOf(h, v \o s, Tail(w), q, o, "up", pl, r)
        BY <3>2, <3>5, <3>6, KeptReads, ReadsSent
    <3>8. ReadLinked(h)'
        BY <2>2, <2>3, <2>15, <3>3, <3>4, <3>7 DEF ReadLinked
    <3>9. PICK up \in BOOLEAN : up = (status[p] = "up")
        OBVIOUS
    <3>10. ReadLink(p, w, v, rwrq[p], ops[p], up, placed[p], reads[p]) /\ status[p] # "norwr"
        BY <2>4, <3>9 DEF ReadsOf
    <3>11. ReadLink(p, Tail(w), v \o s, rwrq[p], ops[p], up, placed[p], reads[p])
      <4>1. w # <<>> /\ seg = w[1] /\ \A i \in 1 .. Len(s) : s[i].stag = seg.what.sink_stag
          BY <2>15, <3>2, <3>3
      <4> QED BY <3>2, <3>5, <3>10, <4>1, ReadLinkAnswer
    <3>12. ReadsOf(p, Tail(w), v \o s, rwrq[p], ops[p], status[p], placed[p], reads[p])
        BY <3>9, <3>10, <3>11 DEF ReadsOf
    <3>13. ReadLinked(p)'
        BY <2>2, <3>3, <3>4, <3>12 DEF ReadLinked
    <3> QED BY <2>5, <3>8, <3>13
  \* A tagged segment and what is in memory after it.
  <2>19. ASSUME Place(h, Next_seg(h))
         PROVE  \E seg \in Seg, pl2 \in Placed :
                  /\ seg = Next_seg(h) /\ seg.tagged /\ Arrives(h) /\ seg = w[1]
                  /\ wire'[h] = Tail(w) /\ wire'[p] = v /\ UNCHANGED ops
                  /\ placed'[h] = pl2 /\ placed'[p] = placed[p]
                  /\ pl \subseteq pl2 /\ Bounded(h, o, pl2)
                  /\ seg.op = "RDMA_READ_RESP" => \A b \in Bytes(seg) : <<h, b[1], b[2]>> \in pl2
    <3>1. PICK seg \in Seg : seg = Next_seg(h) /\ seg.tagged
        BY <1>1, <2>19, PlaceStep
    <3>2. Arrives(h)
        BY <2>19 DEF Place
    <3>3. seg = w[1] /\ w # <<>>
        BY <2>15, <3>1, <3>2
    <3>4. /\ wire' = [wire EXCEPT ![h] = Tail(@)]
          /\ placed' = [placed EXCEPT ![h] = @ \cup PlacedBy(h, seg)] /\ UNCHANGED ops
        BY <2>19, <3>1 DEF Place
    <3>5. PICK pl2 : pl2 = pl \cup PlacedBy(h, seg)
        OBVIOUS
    <3>6. placed'[h] = pl2 /\ placed'[p] = placed[p] /\ wire'[h] = Tail(w) /\ wire'[p] = v
        BY <1>3, <2>2, <2>3, <3>4, <3>5
    <3>7. pl2 \in Placed
        BY <1>1, <3>6 DEF Typed, TypedHist
    <3>8. seg.op = "RDMA_READ_RESP" => \A b \in Bytes(seg) : <<h, b[1], b[2]>> \in pl2
        BY <3>5 DEF PlacedBy
    <3>9. seg \in Resp => /\ seg.what.for \in Among(o, "READ")
                          /\ seg.off + seg.len <= o[seg.what.for].len
        BY <2>4, <3>3, RespAtFront
    <3>10. Bounded(h, o, pl)
        BY <2>4, ReadsBounded
    <3>11. Bounded(h, o, pl2)
        BY <3>1, <3>5, <3>9, <3>10, BoundedPlace
    <3>12. pl \subseteq pl2
        BY <3>5
    <3> QED BY <3>1, <3>2, <3>3, <3>4, <3>6, <3>7, <3>8, <3>11, <3>12, Zenon
  <2>20. CASE recv_tagged(h)
    <3>1. Place(h, Next_seg(h)) /\ UNCHANGED <<status, rwrq, reads>>
        BY <2>20 DEF recv_tagged
    <3>2. PICK seg \in Seg, pl2 \in Placed :
            /\ seg = Next_seg(h) /\ Arrives(h) /\ seg = w[1]
            /\ wire'[h] = Tail(w) /\ wire'[p] = v /\ UNCHANGED ops
            /\ placed'[h] = pl2 /\ placed'[p] = placed[p]
            /\ pl \subseteq pl2 /\ Bounded(h, o, pl2)
            /\ seg.op = "RDMA_READ_RESP" => \A b \in Bytes(seg) : <<h, b[1], b[2]>> \in pl2
        BY <2>19, <3>1, Zenon
    <3>3. ReadsOf(h, v, Tail(w), q, o, "up", pl2, r)
        BY <2>15, <3>2, ReadsTake
    <3>4. ReadLinked(h)'
        BY <2>2, <2>3, <2>15, <3>1, <3>2, <3>3 DEF ReadLinked
    <3>5. ReadLinked(p)'
        BY <2>16, <3>1, <3>2
    <3> QED BY <2>5, <3>4, <3>5
  <2>21. CASE recv_read_resp(h)
    <3>1. PICK seg \in Seg, m \in Seq(Rwr), len \in Nat, k \in Nat, why \in Status, es \in Seq(Cqe) :
            RecvResp(h, seg, m, len, k, why, es)
        BY <1>1, <2>21, RespStep
    <3>2. Place(h, Next_seg(h))
        BY <2>21 DEF recv_read_resp
    <3>3. PICK sg \in Seg, pl2 \in Placed :
            /\ sg = Next_seg(h) /\ Arrives(h) /\ sg = w[1]
            /\ wire'[h] = Tail(w) /\ wire'[p] = v /\ UNCHANGED ops
            /\ placed'[h] = pl2 /\ placed'[p] = placed[p]
            /\ pl \subseteq pl2 /\ Bounded(h, o, pl2)
            /\ sg.op = "RDMA_READ_RESP" => \A b \in Bytes(sg) : <<h, b[1], b[2]>> \in pl2
        BY <2>19, <3>2, Zenon
    <3>4. /\ seg = Next_seg(h) /\ seg \in Resp /\ seg.last /\ seg.tagged
          /\ len = Accumulated(outst_tag[h], seg) /\ m = Marked(q, seg, len)
          /\ k \in 0 .. Len(m) /\ \A i \in 1 .. k : m[i].done
        BY <2>3, <3>1 DEF RecvResp, Resp
    <3>5. /\ status' = [status EXCEPT ![h] = why]
          /\ why = "norwr" => \A i \in 1 .. Len(m) : m[i].stag # seg.stag
          /\ rwrq' = [rwrq EXCEPT ![h] = SubSeq(m, k + 1, Len(m))]
          /\ reads' = [reads EXCEPT ![h] = @ \o Reaped(h, m, k)]
        BY <3>1 DEF RecvResp
    <3>6. len = seg.off + seg.len
      <4>1. w # <<>> /\ Framed(w) /\ Partial(w, outst_tag[h], outst_untag[h]) /\ seg = Head(w)
          BY <2>15, <3>3, <3>4
      <4>2. Accumulated(outst_tag[h], seg) = seg.off + seg.len
          BY <3>4, <4>1, PartialTake
      <4> QED BY <3>4, <4>2
    <3>7. PICK rec : rec = Reaped(h, m, k)
        OBVIOUS
    <3>8. rec \in Seq(R) /\ Len(rec) = k /\ Records(h, m, pl2, k, rec)
      <4>1. ASSUME NEW i \in 1 .. k
            PROVE  LET x == [id |-> m[i].id, len |-> m[i].len, got |-> {b \in pl2 : b[1] = h /\ b[2] = m[i].id}]
                   IN  /\ x \in R
                       /\ x.id = m[i].id /\ x.len = m[i].len /\ x.got = {b \in pl2 : b[1] = h /\ b[2] = m[i].id}
        <5>1. i \in 1 .. Len(m)
            BY <3>4
        <5>2. m[i] \in Rwr
            BY <5>1, ElementOfSeq
        <5>3. PICK g \in Placed : g = {b \in pl2 : b[1] = h /\ b[2] = m[i].id}
            BY DEF Placed
        <5>4. LET x == [id |-> m[i].id, len |-> m[i].len, got |-> g]
              IN  x \in R /\ x.id = m[i].id /\ x.len = m[i].len /\ x.got = g
            BY <1>2, <5>2 DEF Rwr
        <5> QED BY <5>3, <5>4
      <4>2. rec = [i \in 1 .. k |-> [id |-> m[i].id, len |-> m[i].len,
                                     got |-> {b \in pl2 : b[1] = h /\ b[2] = m[i].id}]]
          BY <3>3, <3>7 DEF Reaped
      <4>3. rec \in [1 .. k -> R]
          BY <4>1, <4>2
      <4>4. rec \in Seq(R) /\ Len(rec) = k
          BY <4>3, SeqDef
      <4>5. Records(h, m, pl2, k, rec)
          BY <4>1, <4>2 DEF Records
      <4> QED BY <4>4, <4>5
    <3>9. /\ seg = w[1] /\ seg.op = "RDMA_READ_RESP" /\ w # <<>> /\ Framed(w)
          /\ \A b \in Bytes(seg) : <<h, b[1], b[2]>> \in pl2
        BY <2>15, <3>3, <3>4 DEF Resp
    <3>10. ReadsOf(h, v, w, q, o, "up", pl, r)
        BY <2>15, <3>3
    <3>11. Finishes(h, w[1], q, m, k, why, pl2, rec)
      <4>1. m = Marked(q, seg, seg.off + seg.len)
          BY <3>4, <3>6
      <4> QED BY <3>4, <3>5, <3>8, <3>9, <4>1 DEF Finishes
    <3>12. PICK z, r2 : z = SubSeq(m, k + 1, Len(m)) /\ r2 = r \o rec
        OBVIOUS
    <3>13. ReadsOf(h, v, Tail(w), z, o, why, pl2, r2)
      <4>1. pl \subseteq pl2 /\ Bounded(h, o, pl2) /\ w # <<>> /\ Framed(w) /\ rec \in Seq(R)
          BY <3>3, <3>8, <3>9
      <4> QED BY <3>10, <3>11, <3>12, <4>1, ReadsDone
    <3>14. /\ status'[h] = why /\ rwrq'[h] = z /\ reads'[h] = r2
           /\ status'[p] = status[p] /\ rwrq'[p] = rwrq[p] /\ reads'[p] = reads[p]
        BY <1>3, <2>2, <2>3, <3>5, <3>7, <3>12
    <3>15. ReadLinked(h)'
        BY <2>2, <2>3, <3>3, <3>13, <3>14 DEF ReadLinked
    <3>16. ReadLinked(p)'
        BY <2>16, <3>3, <3>14
    <3> QED BY <2>5, <3>15, <3>16
  <2>22. CASE recv_send_no_sink(h) \/ recv_rdma_read_req_no_src(h) \/ recv_tagged_no_sink(h)
    <3>1. PICK why \in Status : Arrives(h) /\ why # "up" /\ why # "norwr" /\ Stop(h, why)
      <4>1. CASE recv_send_no_sink(h)
          BY <4>1 DEF recv_send_no_sink, Status
      <4>2. CASE recv_rdma_read_req_no_src(h)
          BY <4>2 DEF recv_rdma_read_req_no_src, Status
      <4>3. CASE recv_tagged_no_sink(h)
          BY <4>3 DEF recv_tagged_no_sink, Status
      <4> QED BY <2>22, <4>1, <4>2, <4>3
    <3>2. /\ status'[h] = why /\ status'[p] = status[p] /\ wire'[h] = Tail(w) /\ wire'[p] = v
          /\ UNCHANGED <<rwrq, ops, placed, reads>>
        BY <1>3, <2>2, <2>3, <3>1 DEF Stop, hist
    <3>3. Bounded(h, o, pl)
        BY <2>4, ReadsBounded
    <3>4. ReadsOf(h, v, Tail(w), q, o, why, pl, r)
        BY <2>15, <3>1, <3>3, ReadsTake
    <3>5. ReadLinked(h)'
        BY <2>2, <2>3, <3>2, <3>4 DEF ReadLinked
    <3>6. ReadLinked(p)'
        BY <2>16, <3>1, <3>2
    <3> QED BY <2>5, <3>5, <3>6
  <2> QED BY <2>1, <2>8, <2>9, <2>10, <2>11, <2>12, <2>13, <2>14, <2>17, <2>18, <2>20, <2>21, <2>22 DEF mpa_recv
<1> QED BY <1>6, <1>7

\* The invariant of reads holds throughout.
LEMMA ReadAlways ==
    ASSUME DistinctSinks
    PROVE  Spec => []ReadInv
<1>1. Init => ReadInv
    BY ReadInit
<1>2. ReadInv /\ [Next]_vars => ReadInv'
    BY ReadNext
<1> QED BY <1>1, <1>2, PTL DEF Spec

\* When no application gives a read the sink of another in flight, reads
\* complete in the order they were issued, each once, with the length asked for
\* and with all their bytes, and no others, in memory: rdmap_reap_rwr's match by
\* STag alone and its reaping from the front suffice.
THEOREM ReadsCompleteExactly == DistinctSinks => (Spec => []ReadsExact)
<1> SUFFICES ASSUME DistinctSinks PROVE Spec => []ReadsExact
    OBVIOUS
<1>1. ReadInv => ReadsExact
  <2> SUFFICES ASSUME ReadInv, NEW h \in Host, NEW k \in 1 .. Len(reads[h])
               PROVE  \E i \in OpsOf(h, "READ") :
                        /\ Cardinality({j \in OpsOf(h, "READ") : j <= i}) = k
                        /\ reads[h][k] = [id |-> i, len |-> ops[h][i].len,
                                          got |-> {h} \X {i} \X (0 .. ops[h][i].len - 1)]
      BY DEF ReadsExact
  <2>1. PICK o \in Seq(Op), r \in Seq([id : Nat, len : Nat, got : Placed]) : o = ops[h] /\ r = reads[h]
      BY DEF ReadInv, WireInv, Typed, TypedHist
  <2>2. Recorded(h, o, r)
      BY <2>1 DEF ReadInv, ReadLinked, ReadsOf, ReadLink, ReadState
  <2>3. k \in 1 .. Len(r)
      BY <2>1
  <2>4. PICK i \in Among(o, "READ") :
          /\ Rank(o, "READ", i) = k
          /\ r[k].id = i /\ r[k].len = o[i].len /\ r[k].got = All(h, o, i)
      BY <2>2, <2>3 DEF Recorded
  <2>5. r[k] \in [id : Nat, len : Nat, got : Placed]
      BY <2>3, ElementOfSeq
  <2>6. PICK l, g : l = o[i].len /\ g = All(h, o, i)
      OBVIOUS
  <2>7. r[k] = [id |-> i, len |-> l, got |-> g]
      BY <2>4, <2>5, <2>6
  <2>8. OpsOf(h, "READ") = Among(o, "READ")
      BY <2>1 DEF OpsOf, Among
  <2>9. Cardinality({j \in Among(o, "READ") : j <= i}) = k
      BY <2>4 DEF Rank, Upto
  <2>10. reads[h][k] = [id |-> i, len |-> ops[h][i].len, got |-> {h} \X {i} \X (0 .. ops[h][i].len - 1)]
      BY <2>1, <2>6, <2>7, Zenon DEF All
  <2> QED BY <2>8, <2>9, <2>10, Zenon
<1> QED BY <1>1, ReadAlways, PTL

\* A read response always finds the request it answers: the process never ends
\* in rdmap_reap_rwr's or rdmap_tag_recv's error().
THEOREM ResponsesFindRequest == DistinctSinks => (Spec => []ReadRespExpected)
<1> SUFFICES ASSUME DistinctSinks PROVE Spec => []ReadRespExpected
    OBVIOUS
<1>1. ReadInv => ReadRespExpected
    BY DEF ReadInv, ReadLinked, ReadsOf, ReadRespExpected
<1> QED BY <1>1, ReadAlways, PTL

================================================================================
