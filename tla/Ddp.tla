----------------------------------- MODULE Ddp ---------------------------------
(***************************************************************************)
(* The segmentation and reassembly of src/iwarp/ddp.c.  A message handed   *)
(* to DDP becomes a run of segments, one FPDU each; the receiving side     *)
(* keeps, per unfinished message, how many payload bytes it has seen, and  *)
(* tells RDMAP the total when the segment marked LAST arrives.             *)
(*                                                                         *)
(* `what` stands for a segment's payload: what.for numbers the operation   *)
(* the bytes belong to, so that a receiver can be asked which bytes it     *)
(* holds, and a read request carries its header in the other fields.       *)
(***************************************************************************)
EXTENDS Integers, Sequences

CONSTANTS
    UNTAGGED_PAYLD_LEN,    \* payload bytes of a full untagged segment
    TAGGED_PAYLD_LEN       \* payload bytes of a full tagged segment

ASSUME PayldAssumption ==
    /\ UNTAGGED_PAYLD_LEN \in Nat \ {0}
    /\ TAGGED_PAYLD_LEN \in Nat \ {0}

SEND_Q == 0
RDMAREQ_Q == 1

\* Segments needed for msg_len bytes, payld bytes in each.
num_sgmnts(msg_len, payld) == (msg_len + payld - 1) \div payld

\* Mutant: one payload too many is taken off the last segment.
SgmntLen_short(i, n, msg_len, payld) ==
    IF i = n THEN msg_len - n * payld ELSE payld

\* Length of segment i of n: the last one carries what is left.
SgmntLen(i, n, msg_len, payld) ==
    IF i = n THEN msg_len - (n - 1) * payld ELSE payld

\* An empty untagged message still takes one segment.
untagged_sgmnts(msg_len) ==
    LET n == num_sgmnts(msg_len, UNTAGGED_PAYLD_LEN) IN IF n = 0 THEN 1 ELSE n

\* The loop over the n segments of an untagged message.
UntaggedSgmnts(n, op, qn, msn, msg_len, what) ==
    [i \in 1 .. n |->
       [tagged |-> FALSE, op |-> op, qn |-> qn, msn |-> msn,
        off |-> (i - 1) * UNTAGGED_PAYLD_LEN,
        len |-> SgmntLen(i, n, msg_len, UNTAGGED_PAYLD_LEN),
        last |-> i = n, what |-> what]]

\* Mutant: the MSN is advanced before it is used.
ddp_send_untagged_early(op, qn, msn, msg_len, what) ==
    UntaggedSgmnts(untagged_sgmnts(msg_len), op, qn, msn + 1, msg_len, what)

\* ddp_send_untagged: every segment carries the queue number and the MSN.
ddp_send_untagged(op, qn, msn, msg_len, what) ==
    UntaggedSgmnts(untagged_sgmnts(msg_len), op, qn, msn, msg_len, what)

\* The loop over the segments of a tagged message, up to the m-th of n.
TaggedSgmnts(m, n, op, stag, to, msg_len, what) ==
    [i \in 1 .. m |->
       [tagged |-> TRUE, op |-> op, stag |-> stag,
        off |-> (i - 1) * TAGGED_PAYLD_LEN,
        to |-> to + (i - 1) * TAGGED_PAYLD_LEN,
        len |-> SgmntLen(i, n, msg_len, TAGGED_PAYLD_LEN),
        last |-> i = n, what |-> what]]

\* Mutant: the loop stops one segment early.
ddp_send_tagged_early(op, stag, to, msg_len, what) ==
    LET n == num_sgmnts(msg_len, TAGGED_PAYLD_LEN)
    IN  TaggedSgmnts(n - 1, n, op, stag, to, msg_len, what)

\* ddp_send_tagged: the tagged offset advances with the payload.  An empty
\* message takes no segment, so nothing is sent.
ddp_send_tagged(op, stag, to, msg_len, what) ==
    LET n == num_sgmnts(msg_len, TAGGED_PAYLD_LEN)
    IN  TaggedSgmnts(n, n, op, stag, to, msg_len, what)

--------------------------------------------------------------------------------
(* Reassembly.  outst_tag and outst_untag are sets of [key, len]: the key is *)
(* the STag of a tagged message and (qn, msn) of an untagged one.            *)

Key(seg) == IF seg.tagged THEN <<seg.stag>> ELSE <<seg.qn, seg.msn>>

\* Mutant: only the last segment is counted.
Accumulated_last(outst, seg) == seg.len

\* The bytes of seg's message that arrived, this segment included.
Accumulated(outst, seg) ==
    LET same == {u \in outst : u.key = Key(seg)}
    IN  seg.len + (IF same = {} THEN 0 ELSE (CHOOSE u \in same : TRUE).len)

\* Mutant: the entry of a finished message is not removed.
Outstanding_keep(outst, seg) ==
    {u \in outst : u.key # Key(seg)}
      \cup {[key |-> Key(seg), len |-> Accumulated(outst, seg)]}

\* The list of unfinished messages after seg.
Outstanding(outst, seg) ==
    {u \in outst : u.key # Key(seg)}
      \cup IF seg.last THEN {}
           ELSE {[key |-> Key(seg), len |-> Accumulated(outst, seg)]}

\* The bytes a segment carries.
Bytes(seg) == {<<seg.what.for, seg.off + j>> : j \in 0 .. seg.len - 1}
================================================================================
