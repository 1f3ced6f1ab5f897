----------------------------------- MODULE Mpa ---------------------------------
(***************************************************************************)
(* One MPA connection from startup on: the exchange of MpaStartup, then    *)
(* FPDUs in both directions, framed by the library (mpa_wrt_mrkr_fpdu and  *)
(* mpa_wrt_plain_fpdu, read by mpa_rd_mrkr_fpdu and mpa_rd_plain_fpdu of   *)
(* iwarp/mpa.c) or by the kernel port (kiwarp/mpa.c).  Writer and reader   *)
(* compute the places of markers, pad and CRC each on its own, from its    *)
(* own stream and marker positions, so the model keeps the bytes.          *)
(*                                                                         *)
(* A marker every MARKER_PERIOD bytes, arithmetic modulo Wrap: the         *)
(* instances scale both down, the formulas are the code's.                 *)
(***************************************************************************)
EXTENDS MpaStartup

CONSTANTS
    WORD_SZ,          \* also the size of a marker, a CRC and ddp_hdr_start_t
    MARKER_PERIOD,
    Wrap,             \* 2^32: positions are 32-bit
    TAGGED_HDR_SZ, UNTAGGED_HDR_SZ,
    PAGE_SIZE,        \* kernel: sinks are mapped page by page
    PayldLen,         \* lengths of DDP payloads
    Offset,           \* kernel: where in its page a sink starts
    Stale,            \* lengths a left-over entry of blks can have
    Sender,           \* bound: the ends that send at any time
    Refuser,          \* bound: the FPDUs sent by the others, after they refused the startup
    MaxFrames         \* bound: FPDUs on their way to one end

MARKER_SZ == WORD_SZ
CRC_SZ == WORD_SZ
PAYLD_CHNK == MARKER_PERIOD - MARKER_SZ

ASSUME FramingAssumption ==
    /\ WORD_SZ \in Nat \ {0} /\ MARKER_PERIOD \in Nat /\ Wrap \in Nat \ {0}
    /\ UNTAGGED_HDR_SZ \in Nat /\ TAGGED_HDR_SZ \in Nat
    /\ UNTAGGED_HDR_SZ % WORD_SZ = 0 /\ TAGGED_HDR_SZ % WORD_SZ = 0
    /\ PAGE_SIZE \in Nat \ {0}
    /\ PAGE_SIZE % WORD_SZ = 0 /\ MARKER_PERIOD % WORD_SZ = 0
    /\ WORD_SZ < TAGGED_HDR_SZ /\ WORD_SZ < UNTAGGED_HDR_SZ
    /\ TAGGED_HDR_SZ < PAYLD_CHNK /\ UNTAGGED_HDR_SZ < PAYLD_CHNK
    /\ Wrap % MARKER_PERIOD = 0
    /\ PayldLen \subseteq Nat /\ Offset \subseteq 0..(PAGE_SIZE - 1) /\ Stale \subseteq Nat
    /\ Sender \subseteq End /\ Refuser \subseteq [tagged : BOOLEAN, len : PayldLen]

VARIABLES
    mpask,            \* send_sp, send_mp, recv_sp, recv_mp of each end
    lost              \* has the end's reader taken other bytes for a header,
                      \* a marker, the payload or the CRC, or given up on one

\* History, for the properties only.
VARIABLES
    unread,           \* the FPDUs written to an end that it has not read
    trouble           \* what happened to the bytes on their way to an end

vars == <<startupVars, mpask, lost, unread, trouble>>

mpaVars == <<mpask, lost, unread, trouble>>

Init ==
    /\ StartupInit
    /\ mpask = [e \in End |-> [send_sp |-> 0, send_mp |-> 0, recv_sp |-> 0, recv_mp |-> 0]]
    /\ lost = [e \in End |-> FALSE]
    /\ unread = [e \in End |-> <<>>]
    /\ trouble = [e \in End |-> {}]

--------------------------------------------------------------------------------
(* Bytes *)

Bytes(n, b) == [i \in 1..n |-> b]

Pad(len) == WORD_SZ * ((len + WORD_SZ - 1) \div WORD_SZ) - len

Least(a, b) == IF a < b THEN a ELSE b

HdrSz(tagged) == IF tagged THEN TAGGED_HDR_SZ ELSE UNTAGGED_HDR_SZ

Hdr(f) == [i \in 1..HdrSz(f.tagged) |->
              IF i = 1 THEN [t |-> "start", tagged |-> f.tagged, len |-> f.len]
              ELSE [t |-> "hdr", at |-> i]]

Payld(f) == [i \in 1..f.len |-> [t |-> "data", at |-> i]]

Mrkr(p) == Bytes(MARKER_SZ, [t |-> "mrkr", fpduptr |-> p])

PadBytes(f) == Bytes(Pad(HdrSz(f.tagged) + f.len), [t |-> "pad"])

Crc(e) == IF use_crc[e] THEN Bytes(CRC_SZ, [t |-> "crc"]) ELSE <<>>

--------------------------------------------------------------------------------
(* mpa_wrt_mrkr_fpdu *)

\* The header, with the marker that falls before or into it.
MrkrHdr(f, mp) ==
    IF mp < HdrSz(f.tagged)
    THEN SubSeq(Hdr(f), 1, mp) \o Mrkr(mp) \o SubSeq(Hdr(f), mp + 1, HdrSz(f.tagged))
    ELSE Hdr(f)

\* Position of the first marker after the header.
AfterHdr(f, mp) == IF mp < HdrSz(f.tagged) THEN mp + MARKER_PERIOD ELSE mp

\* Payload up to that marker.
HeadLen(f, mp) == Least(AfterHdr(f, mp) - Len(MrkrHdr(f, mp)), f.len)

\* How many markers follow, one before each chunk, and where the next belongs.
BodyMrkrs(f, mp) == (f.len - HeadLen(f, mp) + PAYLD_CHNK - 1) \div PAYLD_CHNK

NextMp(f, mp) == AfterHdr(f, mp) + BodyMrkrs(f, mp) * MARKER_PERIOD

\* The rest of the payload, each chunk behind its marker.
MrkrChunks(f, mp) ==
    LET first == HeadLen(f, mp)
    IN  [i \in 1..(f.len - first + BodyMrkrs(f, mp) * MARKER_SZ) |->
            LET chunk == (i - 1) \div MARKER_PERIOD
                off == (i - 1) % MARKER_PERIOD
            IN  IF off < MARKER_SZ
                THEN [t |-> "mrkr", fpduptr |-> AfterHdr(f, mp) + chunk * MARKER_PERIOD]
                ELSE [t |-> "data", at |-> first + chunk * PAYLD_CHNK + off - MARKER_SZ + 1]]

MrkrBody(f, mp) == SubSeq(Payld(f), 1, HeadLen(f, mp)) \o MrkrChunks(f, mp)

\* The FPDU before its CRC; a marker follows when it ends at a marker's place.
MrkrFpdu(f, mp) ==
    LET b == MrkrHdr(f, mp) \o MrkrBody(f, mp) \o PadBytes(f)
    IN  IF Len(b) = NextMp(f, mp) THEN b \o Mrkr(NextMp(f, mp)) ELSE b

\* Header, payload and pad.
FpduLen(f) == HdrSz(f.tagged) + f.len + Pad(HdrSz(f.tagged) + f.len)

\* The number the code computes beforehand, and moves send_mp by.
num_mrkrs(f, mp) == IF FpduLen(f) > mp THEN 1 + (FpduLen(f) - mp) \div PAYLD_CHNK ELSE 0

\* Where the next marker belongs, seen from the start of the FPDU.
SendMp(e) == (mpask[e].send_mp - mpask[e].send_sp) % Wrap
RecvMp(e) == (mpask[e].recv_mp - mpask[e].recv_sp) % Wrap

Frames == [tagged : BOOLEAN, len : PayldLen]

Sendable(e) ==
    IF e \in Sender THEN Frames
    ELSE IF ret[e] # "ok" /\ phase[Peer(e)] = "wait" THEN Refuser ELSE {}

Sending(e) ==
    /\ phase[e] = "done"
    /\ open[e]
    /\ open[Peer(e)]
    /\ Len(unread[Peer(e)]) < MaxFrames

Put(e, f, bytes) ==
    /\ wire' = [wire EXCEPT ![Peer(e)] = @ \o bytes]
    /\ unread' = [unread EXCEPT ![Peer(e)] = Append(@, f)]

Note(e, what) == trouble' = [trouble EXCEPT ![e] = @ \cup what]

Sent(e, f, mp) ==
    mpask' = [mpask EXCEPT ![e].send_mp = (@ + num_mrkrs(f, mp) * MARKER_PERIOD) % Wrap,
                           ![e].send_sp = (@ + Len(MrkrFpdu(f, mp))) % Wrap]

\* writev_full is told a length that counts a CRC even when there is none.
\* It then writes, after the FPDU, the entry of blks that an earlier FPDU left
\* behind, if any.
wrt_mrkr_fpdu(e, f) ==
    LET mp == SendMp(e)
        atMarker == IF FpduLen(f) = mp THEN {"ends at a marker"} ELSE {}
    IN  /\ Sending(e)
        /\ ~conf[e].kernel
        /\ use_mrkr[e]
        /\ Sent(e, f, mp)
        /\ \/ /\ use_crc[e]
              /\ Put(e, f, MrkrFpdu(f, mp) \o Crc(e))
              /\ Note(Peer(e), atMarker)
           \/ /\ ~use_crc[e]
              /\ \E n \in Stale : Put(e, f, MrkrFpdu(f, mp) \o Bytes(n, [t |-> "stale"]))
              /\ Note(Peer(e), atMarker \cup {"overlong"})
        /\ UNCHANGED <<conf, use_mrkr, use_crc, phase, ret, open, lost>>

\* mpa_wrt_plain_fpdu, and mpa_send_plain_fpdu of the kernel port, which
\* moves send_sp only when the write failed.
wrt_plain_fpdu(e, f) ==
    LET bytes == Hdr(f) \o Payld(f) \o PadBytes(f) \o Crc(e)
    IN  /\ Sending(e)
        /\ ~use_mrkr[e]
        /\ Put(e, f, bytes)
        /\ mpask' = IF conf[e].kernel THEN mpask
                    ELSE [mpask EXCEPT ![e].send_sp = (@ + Len(bytes)) % Wrap]
        /\ UNCHANGED <<conf, use_mrkr, use_crc, phase, ret, open, lost, trouble>>

mpa_send(e, f) == wrt_mrkr_fpdu(e, f) \/ wrt_plain_fpdu(e, f)

--------------------------------------------------------------------------------
(* Reading *)

Reading(e) ==
    /\ phase[e] = "done"
    /\ open[e]
    /\ ~lost[e]
    /\ wire[e] # <<>>

\* The next n bytes of the stream.  A reader that wants more than there are
\* blocks, and takes the first bytes of a later FPDU for the rest of this one.
Ahead(e, n) == SubSeq(wire[e], 1, Least(n, Len(wire[e])))

Loses(e) ==
    /\ lost' = [lost EXCEPT ![e] = TRUE]
    /\ UNCHANGED <<startupVars, mpask, unread, trouble>>

\* Takes n bytes off the stream.
Takes(e, n) ==
    /\ wire' = [wire EXCEPT ![e] = SubSeq(@, n + 1, Len(@))]
    /\ unread' = [unread EXCEPT ![e] = Tail(@)]

\* The frame a reader sees whose next marker is mp bytes away: ddp_hdr_start_t
\* comes first, or after the marker that is due at once.
StartAt(mp) == IF mp = 0 THEN MARKER_SZ ELSE 0
FrameAt(e, mp) ==
    LET s == wire[e][StartAt(mp) + 1] IN [tagged |-> s.tagged, len |-> s.len]
IsStart(e, mp) == Len(wire[e]) > StartAt(mp) /\ wire[e][StartAt(mp) + 1].t = "start"

\* Mutant: the marker after the last byte of the payload is not read.
ReadMrkrs_short(f, mp) == BodyMrkrs(f, mp)

\* mpa_rd_mrkr_fpdu: markers read after the header.  The loop looks for one
\* behind each chunk and behind the pad, but does not run for an empty payload.
ReadMrkrs(f, mp) ==
    IF f.len = 0 THEN 0
    ELSE BodyMrkrs(f, mp)
           + (IF Len(MrkrHdr(f, mp) \o MrkrBody(f, mp) \o PadBytes(f)) = NextMp(f, mp)
              THEN 1 ELSE 0)

\* The bytes the reader takes for the frame, before the CRC.
ReadFpdu(f, mp) ==
    IF f.len = 0 THEN MrkrHdr(f, mp)
    ELSE LET b == MrkrHdr(f, mp) \o MrkrBody(f, mp) \o PadBytes(f)
         IN  IF ReadMrkrs(f, mp) > BodyMrkrs(f, mp) THEN b \o Mrkr(NextMp(f, mp)) ELSE b

\* The library with markers.  Bytes that are not what the positions say fail
\* the check of fpduptr or are delivered as payload.  With CRC the brace that is
\* missing makes every FPDU bad; it has been read and counted all the same.
rd_mrkr_fpdu(e) ==
    LET mp == RecvMp(e)
        f == FrameAt(e, mp)
        b == ReadFpdu(f, mp)
        hdr == IF mp < HdrSz(f.tagged) THEN 1 ELSE 0
    IN  /\ Reading(e)
        /\ ~conf[e].kernel
        /\ use_mrkr[e]
        /\ IF ~IsStart(e, mp) \/ Ahead(e, Len(b \o Crc(e))) # b \o Crc(e)
           THEN Loses(e)
           ELSE /\ Takes(e, Len(b \o Crc(e)))
                /\ mpask' = [mpask EXCEPT
                     ![e].recv_sp = (@ + Len(b)) % Wrap,
                     ![e].recv_mp = (@ + (hdr + ReadMrkrs(f, mp)) * MARKER_PERIOD) % Wrap]
                /\ Note(e, IF f.len = 0 /\ b # MrkrFpdu(f, mp) THEN {"marker left"} ELSE {})
                /\ UNCHANGED <<conf, use_mrkr, use_crc, phase, ret, open, lost>>

\* No sink: the header, and a marker in it, are gone from the stream, but
\* nothing is counted.
rd_mrkr_no_sink(e) ==
    /\ Reading(e)
    /\ ~conf[e].kernel
    /\ use_mrkr[e]
    /\ IsStart(e, RecvMp(e))
    /\ lost' = [lost EXCEPT ![e] = TRUE]
    /\ Note(e, {"no sink"})
    /\ UNCHANGED <<startupVars, mpask, unread>>

\* mpa_rd_plain_fpdu.
rd_plain_fpdu(e) ==
    LET f == FrameAt(e, 1)
        b == Hdr(f) \o Payld(f) \o Bytes(Pad(f.len), [t |-> "pad"]) \o Crc(e)
    IN  /\ Reading(e)
        /\ ~conf[e].kernel
        /\ ~use_mrkr[e]
        /\ IF ~IsStart(e, 1) \/ Ahead(e, Len(b)) # b
           THEN Loses(e)
           ELSE /\ Takes(e, Len(b))
                /\ mpask' = [mpask EXCEPT ![e].recv_sp = (@ + Len(b)) % Wrap]
                /\ UNCHANGED <<conf, use_mrkr, use_crc, phase, ret, open, lost, trouble>>

\* mem_fill_iovec: the length of the last piece of a sink that starts off
\* bytes into a page; without payload the last entry is the header.
LastIov(f, off) ==
    IF f.len = 0 THEN HdrSz(f.tagged)
    ELSE IF off + f.len <= PAGE_SIZE THEN f.len
    ELSE IF (off + f.len) % PAGE_SIZE = 0 THEN PAGE_SIZE
    ELSE (off + f.len) % PAGE_SIZE

\* mpa_recv_plain_fpdu of the kernel port: the pad it expects is the last
\* piece's, not the payload's.
recv_plain_fpdu(e) ==
    LET f == FrameAt(e, 1)
    IN  /\ Reading(e)
        /\ conf[e].kernel
        /\ ~use_mrkr[e]
        /\ IF ~IsStart(e, 1) THEN Loses(e)
           ELSE \E off \in Offset :
             LET pad == Pad(LastIov(f, off))
                 n == HdrSz(f.tagged) + f.len + pad + Len(Crc(e))
                 b == Hdr(f) \o Payld(f) \o PadBytes(f) \o Crc(e)
             IN  IF n = Len(b) /\ Ahead(e, n) = b
                 THEN /\ Takes(e, n)
                      /\ mpask' = [mpask EXCEPT ![e].recv_sp = (@ + n) % Wrap]
                      /\ UNCHANGED <<conf, use_mrkr, use_crc, phase, ret, open, lost, trouble>>
                 ELSE /\ lost' = [lost EXCEPT ![e] = TRUE]
                      /\ Note(e, IF off % WORD_SZ = 0 THEN {} ELSE {"unaligned"})
                      /\ UNCHANGED <<startupVars, mpask, unread>>

\* The peer has closed: error() ends the program that uses the library; the
\* kernel's recvmsg loop reports success and a header of old bytes is used.
recv_eof(e) ==
    /\ phase[e] = "done"
    /\ open[e]
    /\ ~lost[e]
    /\ wire[e] = <<>>
    /\ ~open[Peer(e)]
    /\ IF conf[e].kernel
       THEN ~use_mrkr[e] /\ lost' = [lost EXCEPT ![e] = TRUE] /\ UNCHANGED phase
       ELSE phase' = [phase EXCEPT ![e] = "exit"] /\ UNCHANGED lost
    /\ Note(e, {"eof"})
    /\ UNCHANGED <<conf, use_mrkr, use_crc, ret, wire, open, mpask, unread>>

mpa_recv(e) ==
    rd_mrkr_fpdu(e) \/ rd_mrkr_no_sink(e) \/ rd_plain_fpdu(e) \/ recv_plain_fpdu(e)

\* A socket that is closed takes what was on its way with it.
Close(e) ==
    /\ close(e)
    /\ unread' = [x \in End |-> IF wire'[x] = <<>> THEN <<>> ELSE unread[x]]
    /\ UNCHANGED <<mpask, lost, trouble>>

Startup == StartupStep /\ UNCHANGED mpaVars

Next ==
    \/ Startup
    \/ \E e \in End : Close(e) \/ mpa_recv(e) \/ recv_eof(e)
    \/ \E e \in End : \E f \in Sendable(e) : mpa_send(e, f)

\* Both ends are in their startup call until it returns.
Spec == Init /\ [][Next]_vars /\ WF_vars(Startup)

--------------------------------------------------------------------------------
(* Properties *)

Framed(e) == /\ \A x \in End : ret[x] = "ok"
             /\ trouble[e] = {}

\* The readers of FPDUs stay in step with the writers: once both startup calls
\* succeeded, an end never takes other bytes for a header, a marker, payload or
\* CRC (mpa_rd_mrkr_fpdu, mpa_rd_plain_fpdu, mpa_recv_plain_fpdu), and with
\* nothing on the way its positions are the writer's, through any number of
\* FPDUs and of wraps; unless the writer miscounted the markers of an FPDU that
\* ends where a marker is due or wrote past its end for want of a CRC, the
\* reader left the marker behind an empty FPDU, found no sink, filled a kernel
\* sink that starts within a word, or met the end of the stream.
InStep ==
    \A e \in End : Framed(e) =>
        /\ ~lost[e]
        /\ (wire[e] = <<>> /\ open[e] /\ open[Peer(e)] /\ use_mrkr[e]
              /\ ~conf[e].kernel /\ ~conf[Peer(e)].kernel)
             => SendMp(Peer(e)) = RecvMp(e)
================================================================================
