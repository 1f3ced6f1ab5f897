------------------------------- MODULE Mpa_proofs ------------------------------
(***************************************************************************)
(* Two results, for any kinds of ends, any sizes and any number of FPDUs,  *)
(* those of an end whose own startup failed included.                      *)
(*                                                                         *)
(* Both ends agree after MPA startup.  Agreement is not inductive: it has  *)
(* to be known where the reply came from.  StartupInv follows the flags    *)
(* from the initiator's wishes into the request, from the request into the *)
(* responder, and from there into the reply, and says that nothing else on *)
(* the wire looks like a reply.                                            *)
(*                                                                         *)
(* The readers stay in step with the writers.  InStep says nothing of the  *)
(* bytes on their way.  StepInv says that they are the FPDUs not yet read, *)
(* one after the other, each with its markers where they belong, and that  *)
(* the positions of the markers lead from the reader's to the writer's.    *)
(***************************************************************************)
EXTENDS Mpa, SequenceTheorems, TLAPS

--------------------------------------------------------------------------------
(* Sequences of bytes *)

IsSeq(s) == \E S : s \in Seq(S)

\* A sequence without startup frames.
Clean(s) == \E S : s \in Seq(S) /\ \A x \in S : x.t # "rrf"

\* A sequence given by its bytes.
LEMMA CleanMap ==
    ASSUME NEW n \in Nat, NEW s, s = [i \in 1..n |-> s[i]], \A i \in 1..n : s[i].t # "rrf"
    PROVE  Clean(s)
<1> DEFINE S == {s[i] : i \in 1..n}
<1>1. s \in [1..n -> S]
    OBVIOUS
<1>2. s \in Seq(S)
    BY <1>1, SeqDef
<1>3. \A x \in S : x.t # "rrf"
    OBVIOUS
<1> QED BY <1>2, <1>3 DEF Clean

\* Two clean sequences make a clean one.
LEMMA CleanConcat ==
    ASSUME NEW s, NEW t, Clean(s), Clean(t)
    PROVE  Clean(s \o t)
<1>1. PICK S : s \in Seq(S) /\ \A x \in S : x.t # "rrf"
    BY DEF Clean
<1>2. PICK T : t \in Seq(T) /\ \A x \in T : x.t # "rrf"
    BY DEF Clean
<1>3. s \o t \in Seq(S \cup T)
    BY <1>1, <1>2
<1> QED BY <1>1, <1>2, <1>3 DEF Clean

\* A part of a clean sequence is clean.
LEMMA CleanSubSeq ==
    ASSUME NEW s, Clean(s), NEW a \in Nat \ {0}, NEW b \in Nat, a <= b + 1, b <= Len(s)
    PROVE  Clean(SubSeq(s, a, b))
<1>1. PICK S : s \in Seq(S) /\ \A x \in S : x.t # "rrf"
    BY DEF Clean
<1>2. SubSeq(s, a, b) \in Seq(S)
    BY <1>1
<1> QED BY <1>1, <1>2 DEF Clean

\* What is appended to the stream leaves its head alone, and is the head of an
\* empty one.
LEMMA HeadAfter ==
    ASSUME NEW s, NEW t, IsSeq(s), Clean(t)
    PROVE  /\ IsSeq(s \o t)
           /\ s # <<>> => (s \o t) # <<>> /\ (s \o t)[1] = s[1]
           /\ s = <<>> => (s \o t = <<>> \/ (s \o t)[1].t # "rrf")
<1>1. PICK S : s \in Seq(S)
    BY DEF IsSeq
<1>2. PICK T : t \in Seq(T) /\ \A x \in T : x.t # "rrf"
    BY DEF Clean
<1>3. s \o t \in Seq(S \cup T)
    BY <1>1, <1>2
<1>4. ASSUME s # <<>> PROVE (s \o t) # <<>> /\ (s \o t)[1] = s[1]
    BY <1>1, <1>2, <1>4
<1>5. ASSUME s = <<>> PROVE s \o t = <<>> \/ (s \o t)[1].t # "rrf"
  <2>1. s \o t = t
      BY <1>2, <1>5
  <2>2. t # <<>> => t[1] \in T
      BY <1>2
  <2> QED BY <2>1, <2>2, <1>2
<1> QED BY <1>3, <1>4, <1>5 DEF IsSeq

--------------------------------------------------------------------------------
(* An FPDU has no startup frame in it *)

\* Runs of equal bytes.
LEMMA CleanBytes ==
    ASSUME NEW n \in Nat, NEW b, b.t # "rrf"
    PROVE  Clean(Bytes(n, b)) /\ Len(Bytes(n, b)) = n
<1> DEFINE s == Bytes(n, b)
<1>1. s = [i \in 1..n |-> s[i]] /\ \A i \in 1..n : s[i].t # "rrf"
    BY DEF Bytes
<1>2. Clean(s)
    BY <1>1, CleanMap
<1>3. Len(s) = n
    BY DEF Bytes
<1> QED BY <1>2, <1>3

\* The sizes of a header.
LEMMA HdrSzNat ==
    ASSUME NEW f \in Frames
    PROVE  /\ HdrSz(f.tagged) \in Nat \ {0} /\ HdrSz(f.tagged) < PAYLD_CHNK
           /\ f.len \in Nat /\ f.tagged \in BOOLEAN
           /\ MARKER_SZ \in Nat \ {0} /\ PAYLD_CHNK \in Nat \ {0}
           /\ MARKER_PERIOD = PAYLD_CHNK + MARKER_SZ
<1>1. f.len \in Nat /\ f.tagged \in BOOLEAN
    BY FramingAssumption DEF Frames
<1>2. HdrSz(f.tagged) \in {TAGGED_HDR_SZ, UNTAGGED_HDR_SZ}
    BY <1>1 DEF HdrSz
<1>3. /\ WORD_SZ \in Nat \ {0} /\ MARKER_PERIOD \in Nat
      /\ TAGGED_HDR_SZ \in Nat /\ UNTAGGED_HDR_SZ \in Nat
      /\ WORD_SZ < TAGGED_HDR_SZ /\ WORD_SZ < UNTAGGED_HDR_SZ
      /\ TAGGED_HDR_SZ < PAYLD_CHNK /\ UNTAGGED_HDR_SZ < PAYLD_CHNK
    BY FramingAssumption
<1>4. MARKER_PERIOD = PAYLD_CHNK + MARKER_SZ /\ PAYLD_CHNK \in Int
    BY <1>3 DEF PAYLD_CHNK, MARKER_SZ
<1> QED BY <1>1, <1>2, <1>3, <1>4 DEF MARKER_SZ

\* The pad is a number of bytes.
LEMMA PadNat ==
    ASSUME NEW n \in Nat
    PROVE  Pad(n) \in Nat
<1>1. WORD_SZ \in Nat \ {0}
    BY FramingAssumption
<1> DEFINE q == (n + WORD_SZ - 1) \div WORD_SZ
           r == (n + WORD_SZ - 1) % WORD_SZ
<1>2. q \in Int /\ r \in 0..(WORD_SZ - 1) /\ n + WORD_SZ - 1 = WORD_SZ * q + r
    BY <1>1
<1>3. Pad(n) = WORD_SZ * q - n
    BY DEF Pad
<1>4. WORD_SZ * q \in Int
    BY <1>1, <1>2
<1> HIDE DEF q, r
<1> QED BY <1>1, <1>2, <1>3, <1>4

\* Header, payload and pad.
LEMMA CleanParts ==
    ASSUME NEW f \in Frames
    PROVE  /\ Clean(Hdr(f)) /\ Len(Hdr(f)) = HdrSz(f.tagged)
           /\ Clean(Payld(f)) /\ Len(Payld(f)) = f.len
           /\ Clean(PadBytes(f))
<1>0. HdrSz(f.tagged) \in Nat /\ f.len \in Nat
    BY HdrSzNat
<1>1. Clean(Hdr(f)) /\ Len(Hdr(f)) = HdrSz(f.tagged)
  <2> DEFINE s == Hdr(f)
  <2>1. s = [i \in 1..HdrSz(f.tagged) |-> s[i]]
      BY DEF Hdr
  <2>2. \A i \in 1..HdrSz(f.tagged) : s[i].t # "rrf"
      BY DEF Hdr
  <2>3. Clean(s)
      BY <1>0, <2>1, <2>2, CleanMap
  <2>4. Len(s) = HdrSz(f.tagged)
      BY <1>0 DEF Hdr
  <2> QED BY <2>3, <2>4
<1>2. Clean(Payld(f)) /\ Len(Payld(f)) = f.len
  <2> DEFINE s == Payld(f)
  <2>1. s = [i \in 1..f.len |-> s[i]] /\ \A i \in 1..f.len : s[i].t # "rrf"
      BY DEF Payld
  <2>2. Clean(s)
      BY <1>0, <2>1, CleanMap
  <2>3. Len(s) = f.len
      BY <1>0 DEF Payld
  <2> QED BY <2>2, <2>3
<1>3. Clean(PadBytes(f))
  <2>1. Pad(HdrSz(f.tagged) + f.len) \in Nat
      BY <1>0, PadNat
  <2> QED BY <2>1, CleanBytes DEF PadBytes
<1> QED BY <1>1, <1>2, <1>3

\* A marker.
LEMMA CleanMrkr ==
    ASSUME NEW p
    PROVE  Clean(Mrkr(p)) /\ Len(Mrkr(p)) = MARKER_SZ
<1>1. MARKER_SZ \in Nat
    BY FramingAssumption DEF MARKER_SZ
<1> QED BY <1>1, CleanBytes DEF Mrkr

\* The header with the marker that falls into it.
LEMMA CleanMrkrHdr ==
    ASSUME NEW f \in Frames, NEW mp \in Nat
    PROVE  /\ Clean(MrkrHdr(f, mp))
           /\ Len(MrkrHdr(f, mp)) = HdrSz(f.tagged) + (IF mp < HdrSz(f.tagged) THEN MARKER_SZ ELSE 0)
<1> DEFINE h == HdrSz(f.tagged)
<1>0. h \in Nat \ {0} /\ MARKER_SZ \in Nat
    BY HdrSzNat
<1>1. Clean(Hdr(f)) /\ Len(Hdr(f)) = h
    BY CleanParts
<1>2. CASE mp < h
  <2> DEFINE a == SubSeq(Hdr(f), 1, mp)
             b == SubSeq(Hdr(f), mp + 1, h)
  <2>1. Clean(a) /\ Clean(b)
      BY <1>0, <1>1, <1>2, CleanSubSeq
  <2>2. Clean(Mrkr(mp)) /\ Len(Mrkr(mp)) = MARKER_SZ
      BY CleanMrkr
  <2>3. MrkrHdr(f, mp) = a \o Mrkr(mp) \o b
      BY <1>2 DEF MrkrHdr
  <2>4. Clean(a \o Mrkr(mp) \o b)
      BY <2>1, <2>2, CleanConcat
  <2>5. Len(a) = mp /\ Len(b) = h - mp
    <3>1. PICK S : Hdr(f) \in Seq(S)
        BY <1>1 DEF Clean
    <3> QED BY <3>1, <1>0, <1>1, <1>2
  <2>6. Len(a \o Mrkr(mp) \o b) = h + MARKER_SZ
    <3>1. PICK A : a \in Seq(A)
        BY <2>1 DEF Clean
    <3>2. PICK B : b \in Seq(B)
        BY <2>1 DEF Clean
    <3>3. PICK M : Mrkr(mp) \in Seq(M)
        BY <2>2 DEF Clean
    <3> HIDE DEF a, b
    <3>4. a \o Mrkr(mp) \in Seq(A \cup M) /\ Len(a \o Mrkr(mp)) = Len(a) + Len(Mrkr(mp))
        BY <3>1, <3>3
    <3>5. Len(a \o Mrkr(mp) \o b) = Len(a) + Len(Mrkr(mp)) + Len(b)
        BY <3>2, <3>4
    <3> HIDE DEF h
    <3> QED BY <3>5, <2>5, <2>2, <1>0
  <2> QED BY <1>2, <2>3, <2>4, <2>6
<1>3. CASE ~(mp < h)
    BY <1>0, <1>1, <1>3 DEF MrkrHdr
<1> QED BY <1>2, <1>3

\* An FPDU with its markers, as mpa_wrt_mrkr_fpdu puts it together.
LEMMA CleanMrkrFpdu ==
    ASSUME NEW f \in Frames, NEW mp \in Nat
    PROVE  Clean(MrkrFpdu(f, mp))
<1> DEFINE h == HdrSz(f.tagged)
           n == BodyMrkrs(f, mp)
           first == HeadLen(f, mp)
<1>0. /\ h \in Nat \ {0} /\ h < PAYLD_CHNK /\ f.len \in Nat
      /\ MARKER_SZ \in Nat \ {0} /\ PAYLD_CHNK \in Nat \ {0}
      /\ MARKER_PERIOD = PAYLD_CHNK + MARKER_SZ
    BY HdrSzNat
<1>1. Clean(MrkrHdr(f, mp))
    BY CleanMrkrHdr
<1>2. first \in 0..f.len
  <2> DEFINE l == Len(MrkrHdr(f, mp))
             a == AfterHdr(f, mp)
  <2>1. l = h + (IF mp < h THEN MARKER_SZ ELSE 0)
      BY CleanMrkrHdr
  <2>2. a = IF mp < h THEN mp + MARKER_PERIOD ELSE mp
      BY DEF AfterHdr
  <2>3. first = IF a - l < f.len THEN a - l ELSE f.len
      BY DEF HeadLen, Least
  <2> HIDE DEF l, a, first, h
  <2>4. a - l \in Nat
      BY <1>0, <2>1, <2>2
  <2> QED BY <1>0, <2>3, <2>4
<1>3. n \in Nat
  <2> DEFINE x == f.len - first + PAYLD_CHNK - 1
  <2>1. x \in Nat
      BY <1>0, <1>2
  <2>2. n = x \div PAYLD_CHNK
      BY DEF BodyMrkrs
  <2> HIDE DEF x, n
  <2> QED BY <1>0, <2>1, <2>2
<1>4. Clean(MrkrChunks(f, mp))
  <2> DEFINE len == f.len - first + n * MARKER_SZ
             s == MrkrChunks(f, mp)
  <2>1. n * MARKER_SZ \in Nat
      BY <1>0, <1>3
  <2>2. len \in Nat
    <3> HIDE DEF first, n
    <3> QED BY <1>0, <1>2, <2>1
  <2>3. s = [i \in 1..len |-> s[i]]
      BY DEF MrkrChunks
  <2>4. \A i \in 1..len : s[i].t # "rrf"
      BY DEF MrkrChunks
  <2> HIDE DEF s, len
  <2>5. Clean(s)
      BY <2>2, <2>3, <2>4, CleanMap
  <2> QED BY <2>5 DEF s
<1>5. Clean(MrkrBody(f, mp))
  <2>1. Clean(SubSeq(Payld(f), 1, first))
    <3>1. Clean(Payld(f)) /\ Len(Payld(f)) = f.len
        BY CleanParts
    <3> HIDE DEF first
    <3> QED BY <1>0, <1>2, <3>1, CleanSubSeq
  <2> QED BY <2>1, <1>4, CleanConcat DEF MrkrBody
<1> DEFINE b == MrkrHdr(f, mp) \o MrkrBody(f, mp) \o PadBytes(f)
<1>6. Clean(b)
    BY <1>1, <1>5, CleanParts, CleanConcat
<1>7. Clean(b \o Mrkr(NextMp(f, mp)))
  <2>1. Clean(Mrkr(NextMp(f, mp)))
      BY CleanMrkr
  <2> HIDE DEF b
  <2> QED BY <1>6, <2>1, CleanConcat
<1> QED BY <1>6, <1>7 DEF MrkrFpdu

\* Nothing at all.
LEMMA CleanEmpty ==
    Clean(<<>>)
<1> DEFINE b == [t |-> "pad"]
<1>1. Clean(Bytes(0, b))
    BY CleanBytes
<1>2. Bytes(0, b) = <<>>
    BY DEF Bytes
<1> QED BY <1>1, <1>2

\* The CRC of an end.
LEMMA CleanCrc ==
    ASSUME NEW e \in End
    PROVE  Clean(Crc(e))
<1>1. CRC_SZ \in Nat
    BY FramingAssumption DEF CRC_SZ
<1>2. Clean(Bytes(CRC_SZ, [t |-> "crc"]))
    BY <1>1, CleanBytes
<1> QED BY <1>2, CleanEmpty DEF Crc

\* An FPDU without markers, as mpa_wrt_plain_fpdu puts it together.
LEMMA CleanPlainFpdu ==
    ASSUME NEW e \in End, NEW f \in Frames
    PROVE  Clean(Hdr(f) \o Payld(f) \o PadBytes(f) \o Crc(e))
<1>1. Clean(Hdr(f)) /\ Clean(Payld(f)) /\ Clean(PadBytes(f)) /\ Clean(Crc(e))
    BY CleanParts, CleanCrc
<1>2. Clean(Hdr(f) \o Payld(f))
    BY <1>1, CleanConcat
<1>3. Clean((Hdr(f) \o Payld(f)) \o PadBytes(f))
    BY <1>1, <1>2, CleanConcat
<1> QED BY <1>1, <1>3, CleanConcat

\* A clean sequence has a length.
LEMMA CleanLen ==
    ASSUME NEW s, Clean(s)
    PROVE  Len(s) \in Nat
<1>1. PICK S : s \in Seq(S)
    BY DEF Clean
<1> QED BY <1>1

--------------------------------------------------------------------------------
(* The inductive invariant *)

Phases == {"start", "wait", "done", "exit"}

Shapes ==
    /\ conf \in [End -> Conf]
    /\ use_mrkr \in [End -> BOOLEAN] /\ use_crc \in [End -> BOOLEAN]
    /\ phase \in [End -> Phases]
    /\ open \in [End -> BOOLEAN]
    /\ ret = [e \in End |-> ret[e]]
    /\ wire = [e \in End |-> wire[e]]

\* The writer's positions are numbers.
Positions ==
    \E S : mpask \in [End -> [send_sp : Int, send_mp : Int, recv_sp : S, recv_mp : S]]

\* An end has the flags its user asked for.
Own(e) == use_mrkr[e] = conf[e].mrkr /\ use_crc[e] = conf[e].crc

\* The first byte of the stream to e is a frame with the flags m and c.
Carries(e, m, c) == wire[e] # <<>> /\ wire[e][1].m = m /\ wire[e][1].c = c

\* Before the responder has read the request, nothing was decided.
Asked ==
    phase["res"] = "start" =>
        /\ phase["ini"] \in {"start", "wait"}
        /\ phase["ini"] = "start" => wire["res"] = <<>>
        /\ phase["ini"] = "wait" => Carries("res", conf["ini"].mrkr, conf["ini"].crc)
        /\ open["res"] /\ wire["ini"] = <<>> /\ ret["res"] = "none" /\ Own("res")

\* Before the initiator has read the reply, it has its own flags; what looks
\* like a reply is one, with the responder's.
Awaited ==
    /\ phase["ini"] = "start" => phase["res"] = "start"
    /\ phase["ini"] \in {"start", "wait"} => Own("ini") /\ ret["ini"] = "none"
    /\ phase["ini"] = "wait" =>
         /\ IsSeq(wire["ini"])
         /\ HasFrame("ini") => ret["res"] = "ok" /\ Carries("ini", use_mrkr["res"], use_crc["res"])

\* A responder that accepted uses what either end asked for.
Granted ==
    ret["res"] = "ok" =>
        /\ phase["res"] # "start"
        /\ \A e \in End : /\ conf[e].mrkr => use_mrkr["res"]
                          /\ conf[e].crc => use_crc["res"]

StartupInv == Shapes /\ Positions /\ Asked /\ Awaited /\ Granted /\ Agreement

--------------------------------------------------------------------------------
(* Steps of the connection after startup *)

\* What an end does once its own startup call is back: it may take bytes off
\* its stream, put bytes that hold no startup frame on the peer's, drop the
\* connection or exit.
LEMMA AfterStartup ==
    ASSUME StartupInv, NEW e \in End, phase[e] = "done",
           UNCHANGED <<conf, use_mrkr, use_crc, ret>>,
           phase' \in {phase, [phase EXCEPT ![e] = "exit"]},
           open' \in {open, [open EXCEPT ![e] = FALSE]},
           wire' = [x \in End |-> wire'[x]],
           \/ wire'[Peer(e)] = wire[Peer(e)]
           \/ wire'[Peer(e)] = <<>>
           \/ \E t : Clean(t) /\ wire'[Peer(e)] = wire[Peer(e)] \o t,
           Positions'
    PROVE  StartupInv'
<1> USE DEF StartupInv
<1>0. "ini" \in End /\ "res" \in End /\ End = {"ini", "res"}
    BY DEF End
<1>1. Shapes'
    BY DEF Shapes, Phases
<1>2. /\ phase'["ini"] \in {"start", "wait"} => phase'["ini"] = phase["ini"]
      /\ phase'["res"] = "start" => phase["res"] = "start"
      /\ phase["res"] = "start" => phase'["res"] = "start"
      /\ phase["ini"] \in {"start", "wait"} => phase'["ini"] = phase["ini"]
    BY <1>0 DEF Shapes, Phases
<1>3. phase["res"] = "start" => FALSE
    BY <1>0 DEF Asked
<1>4. Asked'
    BY <1>2, <1>3 DEF Asked
<1>5. phase'["ini"] # "start"
    BY <1>2, <1>3 DEF Awaited
<1>6. ASSUME phase'["ini"] = "wait"
      PROVE  /\ IsSeq(wire'["ini"])
             /\ wire'["ini"] # <<>> /\ wire'["ini"][1].t = "rrf" =>
                  /\ ret["res"] = "ok"
                  /\ wire'["ini"][1].m = use_mrkr["res"] /\ wire'["ini"][1].c = use_crc["res"]
  <2>1. phase["ini"] = "wait" /\ e = "res" /\ Peer(e) = "ini"
      BY <1>0, <1>2, <1>6 DEF Peer
  <2>2. /\ IsSeq(wire["ini"])
        /\ wire["ini"] # <<>> /\ wire["ini"][1].t = "rrf" =>
             /\ ret["res"] = "ok"
             /\ wire["ini"][1].m = use_mrkr["res"] /\ wire["ini"][1].c = use_crc["res"]
      BY <2>1 DEF Awaited, HasFrame, Carries
  <2>3. CASE wire'["ini"] = wire["ini"]
      BY <2>2, <2>3
  <2>4. CASE wire'["ini"] = <<>>
    <3>1. IsSeq(<<>>)
        BY CleanEmpty DEF IsSeq, Clean
    <3> QED BY <2>4, <3>1
  <2>5. ASSUME NEW t, Clean(t), wire'["ini"] = wire["ini"] \o t
        PROVE  <1>6!2
    <3>1. /\ IsSeq(wire'["ini"])
          /\ wire["ini"] # <<>> => wire'["ini"] # <<>> /\ wire'["ini"][1] = wire["ini"][1]
          /\ wire["ini"] = <<>> => (wire'["ini"] = <<>> \/ wire'["ini"][1].t # "rrf")
        BY <2>2, <2>5, HeadAfter
    <3> QED BY <2>2, <3>1
  <2> QED BY <2>1, <2>3, <2>4, <2>5
<1>7. Awaited'
    BY <1>2, <1>5, <1>6 DEF Awaited, HasFrame, Carries, Own
<1>8. Granted'
    BY <1>2 DEF Granted
<1>9. Agreement'
    BY DEF Agreement
<1> QED BY <1>1, <1>4, <1>7, <1>8, <1>9

\* Writing moves the writer's positions only.
LEMMA SendPositions ==
    ASSUME Positions, NEW e \in End, NEW sp \in Int, NEW mp \in Int,
           \/ mpask' = [mpask EXCEPT ![e].send_sp = sp]
           \/ mpask' = [mpask EXCEPT ![e].send_mp = mp, ![e].send_sp = sp]
    PROVE  Positions'
<1>1. PICK S : mpask \in [End -> [send_sp : Int, send_mp : Int, recv_sp : S, recv_mp : S]]
    BY DEF Positions
<1>2. mpask' \in [End -> [send_sp : Int, send_mp : Int, recv_sp : S, recv_mp : S]]
    BY <1>1
<1> QED BY <1>2 DEF Positions

\* An FPDU on its way: mpa_wrt_mrkr_fpdu, mpa_wrt_plain_fpdu and
\* mpa_send_plain_fpdu.
LEMMA SendKeeps ==
    ASSUME StartupInv, NEW e \in End, NEW f \in Sendable(e), mpa_send(e, f)
    PROVE  StartupInv'
<1>0. f \in Frames
    BY FramingAssumption DEF Sendable, Frames
<1>1. wire = [x \in End |-> wire[x]] /\ Peer(e) \in End
    BY DEF StartupInv, Shapes, Peer, End
<1>2. Positions
    BY DEF StartupInv
<1>3. CASE wrt_mrkr_fpdu(e, f)
  <2> DEFINE mp == SendMp(e)
  <2>1. mp \in Nat
    <3>1. Wrap \in Nat \ {0}
        BY FramingAssumption
    <3>2. mpask[e].send_mp - mpask[e].send_sp \in Int
        BY <1>2 DEF Positions
    <3> QED BY <3>1, <3>2 DEF SendMp
  <2>2. Clean(MrkrFpdu(f, mp))
      BY <1>0, <2>1, CleanMrkrFpdu
  <2>3. \E t : Clean(t) /\ wire' = [wire EXCEPT ![Peer(e)] = @ \o t]
    <3>1. CASE Put(e, f, MrkrFpdu(f, mp) \o Crc(e))
        BY <2>2, <3>1, CleanCrc, CleanConcat DEF Put
    <3>2. CASE \E n \in Stale : Put(e, f, MrkrFpdu(f, mp) \o Bytes(n, [t |-> "stale"]))
      <4>1. PICK n \in Stale : Put(e, f, MrkrFpdu(f, mp) \o Bytes(n, [t |-> "stale"]))
          BY <3>2
      <4>2. n \in Nat
          BY FramingAssumption
      <4>3. Clean(Bytes(n, [t |-> "stale"]))
          BY <4>2, CleanBytes
      <4> QED BY <2>2, <4>1, <4>3, CleanConcat DEF Put
    <3> QED BY <1>3, <3>1, <3>2 DEF wrt_mrkr_fpdu
  <2>4. Positions'
    <3> DEFINE up == num_mrkrs(f, mp) * MARKER_PERIOD
               on == Len(MrkrFpdu(f, mp))
    <3>1. mpask' = [mpask EXCEPT ![e].send_mp = (@ + up) % Wrap, ![e].send_sp = (@ + on) % Wrap]
        BY <1>3 DEF wrt_mrkr_fpdu, Sent
    <3>2. on \in Int
        BY <2>2, CleanLen
    <3>3. up \in Int
      <4>1. FpduLen(f) \in Nat /\ PAYLD_CHNK \in Nat \ {0}
          BY <1>0, HdrSzNat, PadNat DEF FpduLen
      <4>2. num_mrkrs(f, mp) \in Int
        <5> HIDE DEF mp
        <5> QED BY <2>1, <4>1 DEF num_mrkrs
      <4>3. MARKER_PERIOD \in Int
          BY FramingAssumption
      <4> HIDE DEF mp
      <4> QED BY <4>2, <4>3
    <3>4. Wrap \in Nat \ {0}
        BY FramingAssumption
    <3> DEFINE newMp == (mpask[e].send_mp + up) % Wrap
               newSp == (mpask[e].send_sp + on) % Wrap
    <3>5. mpask' = [mpask EXCEPT ![e].send_mp = newMp, ![e].send_sp = newSp]
        BY <3>1, <1>2 DEF Positions
    <3> HIDE DEF up, on
    <3>6. newMp \in Int /\ newSp \in Int
        BY <1>2, <3>2, <3>3, <3>4 DEF Positions
    <3> HIDE DEF newMp, newSp
    <3> QED BY <1>2, <3>5, <3>6, SendPositions
  <2> QED
    <3>1. /\ phase[e] = "done" /\ phase' = phase /\ open' = open
          /\ UNCHANGED <<conf, use_mrkr, use_crc, ret>>
        BY <1>3 DEF wrt_mrkr_fpdu, Sending
    <3> QED BY <1>1, <2>3, <2>4, <3>1, AfterStartup
<1>4. CASE wrt_plain_fpdu(e, f)
  <2> DEFINE bytes == Hdr(f) \o Payld(f) \o PadBytes(f) \o Crc(e)
  <2>1. Clean(bytes)
      BY <1>0, CleanPlainFpdu
  <2>2. wire' = [wire EXCEPT ![Peer(e)] = @ \o bytes]
      BY <1>4 DEF wrt_plain_fpdu, Put
  <2>3. Positions'
    <3> DEFINE on == Len(bytes)
    <3>1. mpask' = mpask \/ mpask' = [mpask EXCEPT ![e].send_sp = (@ + on) % Wrap]
        BY <1>4 DEF wrt_plain_fpdu
    <3>2. on \in Int /\ Wrap \in Nat \ {0}
        BY <2>1, CleanLen, FramingAssumption
    <3> DEFINE newSp == (mpask[e].send_sp + on) % Wrap
    <3>3. mpask' = mpask \/ mpask' = [mpask EXCEPT ![e].send_sp = newSp]
        BY <3>1, <1>2 DEF Positions
    <3> HIDE DEF on
    <3>4. newSp \in Int
        BY <1>2, <3>2 DEF Positions
    <3> HIDE DEF newSp
    <3>5. CASE mpask' = mpask
        BY <1>2, <3>5 DEF Positions
    <3>6. CASE mpask' = [mpask EXCEPT ![e].send_sp = newSp]
        BY <1>2, <3>4, <3>6, SendPositions
    <3> QED BY <3>3, <3>5, <3>6
  <2>4. /\ phase[e] = "done" /\ phase' = phase /\ open' = open
        /\ UNCHANGED <<conf, use_mrkr, use_crc, ret>>
      BY <1>4 DEF wrt_plain_fpdu, Sending
  <2> HIDE DEF bytes
  <2> QED BY <1>1, <2>1, <2>2, <2>3, <2>4, AfterStartup
<1> QED BY <1>3, <1>4 DEF mpa_send

\* Reading moves the reader's positions only.
LEMMA RecvPositions ==
    ASSUME Positions, NEW e \in End, NEW sp, NEW mp,
           \/ mpask' = mpask
           \/ mpask' = [mpask EXCEPT ![e].recv_sp = sp]
           \/ mpask' = [mpask EXCEPT ![e].recv_sp = sp, ![e].recv_mp = mp]
    PROVE  Positions'
<1>1. PICK S : mpask \in [End -> [send_sp : Int, send_mp : Int, recv_sp : S, recv_mp : S]]
    BY DEF Positions
<1> DEFINE T == S \cup {sp, mp}
<1>2. mpask \in [End -> [send_sp : Int, send_mp : Int, recv_sp : T, recv_mp : T]]
    BY <1>1
<1>3. sp \in T /\ mp \in T
    OBVIOUS
<1> HIDE DEF T
<1>4. mpask' \in [End -> [send_sp : Int, send_mp : Int, recv_sp : T, recv_mp : T]]
    BY <1>2, <1>3
<1> QED BY <1>4 DEF Positions

\* An FPDU read: mpa_rd_mrkr_fpdu, mpa_rd_plain_fpdu and mpa_recv_plain_fpdu.
LEMMA RecvKeeps ==
    ASSUME StartupInv, NEW e \in End, mpa_recv(e)
    PROVE  StartupInv'
<1>1. wire = [x \in End |-> wire[x]] /\ Peer(e) \in End /\ Peer(e) # e
    BY DEF StartupInv, Shapes, Peer, End
<1>2. phase[e] = "done"
    BY DEF mpa_recv, rd_mrkr_fpdu, rd_mrkr_no_sink, rd_plain_fpdu, recv_plain_fpdu, Reading
<1>3. UNCHANGED <<conf, use_mrkr, use_crc, phase, ret, open>>
    BY DEF mpa_recv, rd_mrkr_fpdu, rd_mrkr_no_sink, rd_plain_fpdu, recv_plain_fpdu, Loses,
           startupVars
<1>4. wire' = wire \/ \E n : wire' = [wire EXCEPT ![e] = SubSeq(@, n + 1, Len(@))]
    BY DEF mpa_recv, rd_mrkr_fpdu, rd_mrkr_no_sink, rd_plain_fpdu, recv_plain_fpdu, Loses, Takes,
           startupVars
<1>5. wire' = [x \in End |-> wire'[x]] /\ wire'[Peer(e)] = wire[Peer(e)]
    BY <1>1, <1>4
<1>6. Positions'
  <2>1. \E sp, mp : \/ mpask' = mpask
                    \/ mpask' = [mpask EXCEPT ![e].recv_sp = sp]
                    \/ mpask' = [mpask EXCEPT ![e].recv_sp = sp, ![e].recv_mp = mp]
      BY DEF mpa_recv, rd_mrkr_fpdu, rd_mrkr_no_sink, rd_plain_fpdu, recv_plain_fpdu, Loses
  <2> QED BY <2>1, RecvPositions DEF StartupInv
<1> QED BY <1>2, <1>3, <1>5, <1>6, AfterStartup

\* The end of the stream, and an end that closes.
LEMMA CloseKeeps ==
    ASSUME StartupInv, NEW e \in End, recv_eof(e) \/ Close(e)
    PROVE  StartupInv'
<1>1. wire = [x \in End |-> wire[x]] /\ Peer(e) \in End /\ Positions
    BY DEF StartupInv, Shapes, Peer, End
<1>2. CASE recv_eof(e)
  <2>1. /\ phase[e] = "done"
        /\ UNCHANGED <<conf, use_mrkr, use_crc, ret, wire, open, mpask>>
        /\ phase' = phase \/ phase' = [phase EXCEPT ![e] = "exit"]
      BY <1>2 DEF recv_eof
  <2>2. Positions'
      BY <1>1, <2>1 DEF Positions
  <2> QED BY <1>1, <2>1, <2>2, AfterStartup
<1>3. CASE Close(e)
  <2>1. /\ phase[e] = "done"
        /\ UNCHANGED <<conf, use_mrkr, use_crc, phase, ret, mpask>>
        /\ open' = [open EXCEPT ![e] = FALSE]
        /\ wire' = wire \/ wire' = [x \in End |-> <<>>]
      BY <1>3 DEF Close, close
  <2>2. Positions'
      BY <1>1, <2>1 DEF Positions
  <2>3. wire' = [x \in End |-> wire'[x]] /\ (wire'[Peer(e)] = wire[Peer(e)] \/ wire'[Peer(e)] = <<>>)
      BY <1>1, <2>1
  <2> QED BY <2>1, <2>2, <2>3, AfterStartup
<1> QED BY <1>2, <1>3

--------------------------------------------------------------------------------
(* Steps of the exchange *)

\* The request and the reply as they are put on the wire.
LEMMA FrameHead ==
    ASSUME conf \in [End -> Conf], NEW e \in End, NEW key, NEW m, NEW c
    PROVE  LET r == Rrf(key, e, m, c)
           IN  IsSeq(r) /\ r # <<>> /\ <<>> \o r = r /\ r[1].m = m /\ r[1].c = c
<1> DEFINE h == [t |-> "rrf", key |-> key, m |-> m, c |-> c, len |-> conf[e].pd]
           p == [i \in 1..conf[e].pd |-> [t |-> "pd"]]
           r == Rrf(key, e, m, c)
<1>1. conf[e].pd \in Nat
    BY ConfAssumption
<1>2. p \in Seq({[t |-> "pd"]})
    BY <1>1, SeqDef
<1>3. <<h>> \in Seq({h}) /\ Len(<<h>>) = 1 /\ <<h>>[1] = h
    OBVIOUS
<1>4. r = <<h>> \o p
    BY DEF Rrf
<1>5. h.m = m /\ h.c = c
    OBVIOUS
<1> HIDE DEF h, p, r
<1>6. r \in Seq({h, [t |-> "pd"]}) /\ Len(r) >= 1 /\ r[1] = h
    BY <1>2, <1>3, <1>4
<1>7. <<>> \o r = r /\ r # <<>>
    BY <1>6
<1> QED BY <1>5, <1>6, <1>7 DEF IsSeq, r

\* The initiator sends its request.
LEMMA RequestKeeps ==
    ASSUME StartupInv, send_request, UNCHANGED mpaVars
    PROVE  StartupInv'
<1> USE DEF StartupInv
<1>0. "ini" \in End /\ "res" \in End /\ End = {"ini", "res"}
    BY DEF End
<1>1. /\ phase["ini"] = "start" /\ phase["res"] = "start"
      /\ UNCHANGED <<conf, use_mrkr, use_crc, ret, open, mpask>>
      /\ phase' = [phase EXCEPT !["ini"] = "wait"]
      /\ wire["res"] = <<>> /\ wire["ini"] = <<>> /\ Own("ini") /\ Own("res")
      /\ ret["ini"] = "none" /\ ret["res"] = "none" /\ open["res"]
    BY DEF send_request, mpaVars, Asked, Awaited
<1> DEFINE r == Rrf("req", "ini", use_mrkr["ini"], use_crc["ini"])
<1>2. wire' = [wire EXCEPT !["res"] = @ \o r]
    BY DEF send_request
<1>3. <<>> \o r = r /\ r # <<>> /\ r[1].m = use_mrkr["ini"] /\ r[1].c = use_crc["ini"]
    BY <1>0, FrameHead DEF Shapes
<1> HIDE DEF r
<1>4. wire'["res"] = r /\ wire'["ini"] = <<>> /\ wire' = [x \in End |-> wire'[x]]
    BY <1>0, <1>1, <1>2, <1>3 DEF Shapes
<1>5. phase'["ini"] = "wait" /\ phase'["res"] = "start" /\ phase' \in [End -> Phases]
    BY <1>0, <1>1 DEF Shapes, Phases
<1>6. Shapes' /\ Positions'
    BY <1>1, <1>4, <1>5 DEF Shapes, Positions
<1>7. Asked'
    BY <1>0, <1>1, <1>3, <1>4, <1>5 DEF Asked, Carries, Own
<1>8. Awaited'
  <2>1. IsSeq(<<>>)
      BY CleanEmpty DEF IsSeq, Clean
  <2> QED BY <2>1, <1>1, <1>4, <1>5 DEF Awaited, Own, HasFrame
<1>9. Granted' /\ Agreement'
    BY <1>1 DEF Granted, Agreement
<1> QED BY <1>6, <1>7, <1>8, <1>9

\* The initiator is done waiting: it has the responder's flags if it says so.
LEMMA ReplyKeeps ==
    ASSUME StartupInv, UNCHANGED mpaVars,
           recv_reply_user \/ recv_reply_kernel \/ recv_reply_other \/ recv_reply_eof
    PROVE  StartupInv'
<1> USE DEF StartupInv
<1>0. "ini" \in End /\ "res" \in End /\ End = {"ini", "res"}
    BY DEF End
<1>1. phase["ini"] = "wait" /\ (wire["ini"] # <<>> \/ ~open["res"])
      /\ UNCHANGED <<conf, open, mpask>>
    BY DEF recv_reply_user, recv_reply_kernel, recv_reply_other, recv_reply_eof, HasFrame, mpaVars
<1>2. phase["res"] # "start" /\ ret["ini"] = "none"
    BY <1>1 DEF Asked, Awaited
<1>3. \E q \in {"done", "exit"} : phase' = [phase EXCEPT !["ini"] = q]
    BY DEF recv_reply_user, recv_reply_kernel, recv_reply_other, recv_reply_eof, Returns
<1>4. \E v : ret' = [ret EXCEPT !["ini"] = v]
  <2>1. CASE ret' = ret
      BY <2>1, <1>0 DEF Shapes
  <2> QED BY <2>1
         DEF recv_reply_user, recv_reply_kernel, recv_reply_other, recv_reply_eof, Returns
<1>5. wire' = wire \/ \E v : wire' = [wire EXCEPT !["ini"] = v]
    BY DEF recv_reply_user, recv_reply_kernel, recv_reply_other, recv_reply_eof
<1>6. HasFrame("ini") =>
        /\ ret["res"] = "ok"
        /\ wire["ini"][1].m = use_mrkr["res"] /\ wire["ini"][1].c = use_crc["res"]
    BY <1>1 DEF Awaited, Carries
<1>7. use_mrkr' \in [End -> BOOLEAN] /\ use_mrkr'["res"] = use_mrkr["res"]
  <2>1. CASE use_mrkr' = use_mrkr
      BY <2>1 DEF Shapes
  <2>2. CASE HasFrame("ini") /\ use_mrkr' = [use_mrkr EXCEPT !["ini"] = wire["ini"][1].m]
      BY <2>2, <1>0, <1>6 DEF Shapes
  <2>3. CASE \E m \in BOOLEAN : use_mrkr' = [use_mrkr EXCEPT !["ini"] = m]
      BY <2>3, <1>0 DEF Shapes
  <2> QED BY <2>1, <2>2, <2>3
         DEF recv_reply_user, recv_reply_kernel, recv_reply_other, recv_reply_eof, TakeReply
<1>8. use_crc' \in [End -> BOOLEAN] /\ use_crc'["res"] = use_crc["res"]
  <2>1. CASE use_crc' = use_crc
      BY <2>1 DEF Shapes
  <2>2. CASE HasFrame("ini") /\ use_crc' = [use_crc EXCEPT !["ini"] = wire["ini"][1].c]
      BY <2>2, <1>0, <1>6 DEF Shapes
  <2>3. CASE \E c \in BOOLEAN : use_crc' = [use_crc EXCEPT !["ini"] = c]
      BY <2>3, <1>0 DEF Shapes
  <2> QED BY <2>1, <2>2, <2>3
         DEF recv_reply_user, recv_reply_kernel, recv_reply_other, recv_reply_eof, TakeReply
<1>9. Shapes' /\ Positions'
    BY <1>0, <1>1, <1>3, <1>4, <1>5, <1>7, <1>8 DEF Shapes, Positions, Phases
<1>10. /\ phase'["ini"] \in {"done", "exit"} /\ phase'["res"] = phase["res"]
       /\ ret'["res"] = ret["res"]
    BY <1>0, <1>3, <1>4 DEF Shapes
<1>11. Asked' /\ Awaited'
    BY <1>2, <1>10 DEF Asked, Awaited
<1>12. Granted'
    BY <1>1, <1>7, <1>8, <1>10 DEF Granted
<1>13. Agreement'
  <2> SUFFICES ASSUME ret'["ini"] = "ok" PROVE Agreement'
      BY DEF Agreement
  <2>1. /\ HasFrame("ini")
        /\ use_mrkr' = [use_mrkr EXCEPT !["ini"] = wire["ini"][1].m]
        /\ use_crc' = [use_crc EXCEPT !["ini"] = wire["ini"][1].c]
    <3>1. ASSUME NEW v, ret' = [ret EXCEPT !["ini"] = v] PROVE v = "ok"
        BY <3>1, <1>0 DEF Shapes
    <3>2. ret' # ret
        BY <1>2
    <3> QED BY <3>1, <3>2
           DEF recv_reply_user, recv_reply_kernel, recv_reply_other, recv_reply_eof, TakeReply,
               Returns
  <2>2. use_mrkr'["ini"] = use_mrkr'["res"] /\ use_crc'["ini"] = use_crc'["res"]
      BY <1>0, <1>6, <1>7, <1>8, <2>1 DEF Shapes
  <2> QED BY <1>0, <1>1, <1>6, <1>10, <1>12, <2>1, <2>2 DEF Agreement, Granted
<1> QED BY <1>9, <1>11, <1>12, <1>13

\* What a responder may do: refuse in silence, or settle on what both ends want
\* and say so in its reply.
Refuses ==
    /\ ret' = [ret EXCEPT !["res"] = "EBADMSG"] \/ ret' = [ret EXCEPT !["res"] = "EINVAL"]
    /\ \E v : wire' = [wire EXCEPT !["res"] = v]
    /\ use_mrkr' = use_mrkr \/ use_mrkr' = [use_mrkr EXCEPT !["res"] = Settled(@, wire["res"][1].m)]
    /\ use_crc' = use_crc \/ use_crc' = [use_crc EXCEPT !["res"] = Settled(@, wire["res"][1].c)]

Consents ==
    LET m == Settled(use_mrkr["res"], wire["res"][1].m)
        c == Settled(use_crc["res"], wire["res"][1].c)
    IN  /\ ret' = [ret EXCEPT !["res"] = "ok"]
        /\ Reply(m, c)
        /\ use_mrkr' = [use_mrkr EXCEPT !["res"] = m]
        /\ use_crc' = [use_crc EXCEPT !["res"] = c]

\* The responder reads the request.
LEMMA RespondKeeps ==
    ASSUME StartupInv, UNCHANGED mpaVars, respond_user \/ respond_kernel
    PROVE  StartupInv'
<1> USE DEF StartupInv
<1>0. "ini" \in End /\ "res" \in End /\ End = {"ini", "res"} /\ "ini" # "res"
    BY DEF End
<1>1. /\ phase["res"] = "start" /\ wire["res"] # <<>>
      /\ UNCHANGED <<conf, open, mpask>>
      /\ phase' = [phase EXCEPT !["res"] = "done"]
    BY DEF respond_user, respond_kernel, HasFrame, Returns, mpaVars
<1>2. /\ phase["ini"] = "wait" /\ wire["ini"] = <<>> /\ Own("res") /\ Own("ini")
      /\ wire["res"][1].m = conf["ini"].mrkr /\ wire["res"][1].c = conf["ini"].crc
      /\ ret["ini"] = "none"
    BY <1>1 DEF Asked, Awaited, Carries
<1>3. Refuses \/ Consents
    BY DEF respond_user, respond_kernel, Returns, Refuses, Consents, Reply
<1> DEFINE m == Settled(use_mrkr["res"], wire["res"][1].m)
           c == Settled(use_crc["res"], wire["res"][1].c)
<1>4. /\ m \in BOOLEAN /\ c \in BOOLEAN
      /\ conf["ini"].mrkr => m
      /\ conf["res"].mrkr => m
      /\ conf["ini"].crc => c
      /\ conf["res"].crc => c
  <2>1. conf["ini"] \in Conf /\ conf["res"] \in Conf
      BY <1>0 DEF Shapes
  <2>2. /\ conf["ini"].mrkr \in BOOLEAN /\ conf["ini"].crc \in BOOLEAN
        /\ conf["res"].mrkr \in BOOLEAN /\ conf["res"].crc \in BOOLEAN
      BY <2>1, ConfAssumption
  <2>3. m = IF conf["res"].mrkr THEN conf["res"].mrkr ELSE conf["ini"].mrkr
      BY <1>2 DEF Settled, Own
  <2>4. c = IF conf["res"].crc THEN conf["res"].crc ELSE conf["ini"].crc
      BY <1>2 DEF Settled, Own
  <2> HIDE DEF m, c
  <2> QED BY <2>2, <2>3, <2>4
<1>5. phase' \in [End -> Phases] /\ phase'["ini"] = "wait" /\ phase'["res"] = "done"
    BY <1>0, <1>1, <1>2 DEF Shapes, Phases
<1>6. Asked'
    BY <1>5 DEF Asked
<1>7. CASE Refuses
  <2>1. /\ wire' = [x \in End |-> wire'[x]] /\ wire'["ini"] = <<>>
        /\ ret' = [x \in End |-> ret'[x]] /\ ret'["ini"] = "none" /\ ret'["res"] # "ok"
      BY <1>0, <1>2, <1>7 DEF Refuses, Shapes
  <2>2. /\ use_mrkr' = use_mrkr \/ use_mrkr' = [use_mrkr EXCEPT !["res"] = m]
        /\ use_crc' = use_crc \/ use_crc' = [use_crc EXCEPT !["res"] = c]
      BY <1>7 DEF Refuses
  <2> HIDE DEF m, c
  <2>3. /\ use_mrkr' \in [End -> BOOLEAN] /\ use_mrkr'["ini"] = use_mrkr["ini"]
        /\ use_crc' \in [End -> BOOLEAN] /\ use_crc'["ini"] = use_crc["ini"]
      BY <1>0, <1>4, <2>2 DEF Shapes
  <2>4. Shapes' /\ Positions'
      BY <1>1, <1>5, <2>1, <2>3 DEF Shapes, Positions
  <2>5. IsSeq(<<>>)
      BY CleanEmpty DEF IsSeq, Clean
  <2>6. Awaited'
      BY <1>1, <1>2, <1>5, <2>1, <2>3, <2>5 DEF Awaited, Own, HasFrame
  <2>7. Granted' /\ Agreement'
      BY <2>1 DEF Granted, Agreement
  <2> QED BY <1>6, <2>4, <2>6, <2>7
<1>8. CASE Consents
  <2> DEFINE r == Rrf("rep", "res", m, c)
  <2>1. /\ ret' = [ret EXCEPT !["res"] = "ok"]
        /\ wire' = [wire EXCEPT !["res"] = AfterFrame("res"), !["ini"] = @ \o r]
        /\ use_mrkr' = [use_mrkr EXCEPT !["res"] = m]
        /\ use_crc' = [use_crc EXCEPT !["res"] = c]
      BY <1>8 DEF Consents, Reply
  <2>2. IsSeq(r) /\ <<>> \o r = r /\ r # <<>> /\ r[1].m = m /\ r[1].c = c
      BY <1>0, FrameHead DEF Shapes
  <2> HIDE DEF m, c, r
  <2>3. wire' = [x \in End |-> wire'[x]] /\ wire'["ini"] = r
    <3>1. wire'["ini"] = wire["ini"] \o r /\ wire' = [x \in End |-> wire'[x]]
        BY <1>0, <2>1 DEF Shapes
    <3> QED BY <1>2, <2>2, <3>1
  <2>4. /\ use_mrkr' \in [End -> BOOLEAN] /\ use_mrkr'["ini"] = use_mrkr["ini"]
        /\ use_crc' \in [End -> BOOLEAN] /\ use_crc'["ini"] = use_crc["ini"]
        /\ use_mrkr'["res"] = m /\ use_crc'["res"] = c
        /\ ret' = [x \in End |-> ret'[x]] /\ ret'["ini"] = "none" /\ ret'["res"] = "ok"
      BY <1>0, <1>2, <1>4, <2>1 DEF Shapes
  <2>5. Shapes' /\ Positions'
      BY <1>1, <1>5, <2>3, <2>4 DEF Shapes, Positions
  <2>6. Awaited'
      BY <1>1, <1>2, <1>5, <2>2, <2>3, <2>4 DEF Awaited, Own, HasFrame, Carries
  <2>7. Granted'
      BY <1>0, <1>1, <1>4, <1>5, <2>4 DEF Granted
  <2>8. Agreement'
      BY <2>4 DEF Agreement
  <2> QED BY <1>6, <2>5, <2>6, <2>7, <2>8
<1> QED BY <1>3, <1>7, <1>8

--------------------------------------------------------------------------------
(* The theorem *)

\* In the beginning nothing was said.
LEMMA StartupInvInit ==
    Init => StartupInv
<1> SUFFICES ASSUME Init PROVE StartupInv
    OBVIOUS
<1>0. "ini" \in End /\ "res" \in End
    BY DEF End
<1>1. /\ conf \in [End -> Conf]
      /\ \A e \in End : /\ conf[e].mrkr \in BOOLEAN /\ conf[e].crc \in BOOLEAN
                        /\ use_mrkr[e] = conf[e].mrkr /\ use_crc[e] = conf[e].crc
                        /\ phase[e] = "start" /\ ret[e] = "none" /\ wire[e] = <<>> /\ open[e]
  <2>1. conf \in [End -> Conf]
      BY DEF Init, StartupInit
  <2>2. \A e \in End : conf[e].mrkr \in BOOLEAN /\ conf[e].crc \in BOOLEAN
      BY <2>1, ConfAssumption
  <2> QED BY <2>1, <2>2 DEF Init, StartupInit
<1>2. Shapes
    BY <1>1 DEF Init, StartupInit, Shapes, Phases
<1>3. Positions
  <2>1. mpask \in [End -> [send_sp : Int, send_mp : Int, recv_sp : Int, recv_mp : Int]]
      BY DEF Init
  <2> QED BY <2>1 DEF Positions
<1>4. Asked /\ Awaited /\ Granted /\ Agreement
    BY <1>0, <1>1 DEF Asked, Awaited, Granted, Agreement, Own
<1> QED BY <1>2, <1>3, <1>4 DEF StartupInv

\* Every step keeps the invariant.
LEMMA StartupInvNext ==
    StartupInv /\ [Next]_vars => StartupInv'
<1> SUFFICES ASSUME StartupInv, [Next]_vars PROVE StartupInv'
    OBVIOUS
<1>1. CASE Startup
    BY <1>1, RequestKeeps, ReplyKeeps, RespondKeeps DEF Startup, StartupStep
<1>2. ASSUME NEW e \in End, Close(e) \/ mpa_recv(e) \/ recv_eof(e) PROVE StartupInv'
    BY <1>2, CloseKeeps, RecvKeeps
<1>3. ASSUME NEW e \in End, NEW f \in Sendable(e), mpa_send(e, f) PROVE StartupInv'
    BY <1>3, SendKeeps
<1>4. CASE UNCHANGED vars
    BY <1>4 DEF vars, startupVars, StartupInv, Shapes, Positions, Asked, Awaited, Granted,
                Agreement, Own, Carries, HasFrame
<1> QED BY <1>1, <1>2, <1>3, <1>4 DEF Next

\* mpa_init_startup: whatever the two ends are and ask for, the initiator's call
\* succeeds only if the responder's did, both then frame alike, and each has what
\* it asked for; and this stays so while FPDUs go either way, are misread, or
\* the connection is closed.
THEOREM StartupAgrees == Spec => []Agreement
<1>1. StartupInv => Agreement
    BY DEF StartupInv
<1> QED BY <1>1, StartupInvInit, StartupInvNext, PTL DEF Spec

--------------------------------------------------------------------------------
(* Division by a constant *)

\* Products are ordered as their factors.
LEMMA MulStrict ==
    ASSUME NEW a \in Int, NEW b \in Int, NEW w \in Nat \ {0}, a < b
    PROVE  a * w + w <= b * w
<1>1. PICK d \in Nat : b = a + 1 + d
  <2>1. b - a - 1 \in Nat /\ b = a + 1 + (b - a - 1)
      OBVIOUS
  <2> QED BY <2>1
<1>2. d * w >= 0
    OBVIOUS
<1>3. (a + 1 + d) * w = a * w + w + d * w
    OBVIOUS
<1>4. a * w \in Int /\ d * w \in Int
    OBVIOUS
<1> QED BY <1>1, <1>2, <1>3, <1>4

\* Quotient and remainder are the only ones that fit.
LEMMA DivModUnique ==
    ASSUME NEW n \in Int, NEW w \in Nat \ {0}, NEW q \in Int, NEW r \in Int,
           n = q * w + r, 0 <= r, r < w
    PROVE  n \div w = q /\ n % w = r
<1> DEFINE p == n \div w
           s == n % w
<1>1. p \in Int /\ s \in Int /\ 0 <= s /\ s < w /\ n = w * p + s
    OBVIOUS
<1>2. w * p = p * w /\ p * w \in Int /\ q * w \in Int
    BY <1>1
<1> HIDE DEF p, s
<1>3. ~(p < q)
  <2> SUFFICES ASSUME p < q PROVE FALSE
      OBVIOUS
  <2>1. p * w + w <= q * w
      BY <1>1, MulStrict
  <2> QED BY <1>1, <1>2, <2>1
<1>4. ~(q < p)
  <2> SUFFICES ASSUME q < p PROVE FALSE
      OBVIOUS
  <2>1. q * w + w <= p * w
      BY <1>1, MulStrict
  <2> QED BY <1>1, <1>2, <2>1
<1>5. p = q
    BY <1>1, <1>3, <1>4
<1>6. s = r
    BY <1>1, <1>2, <1>5
<1> QED BY <1>5, <1>6 DEF p, s

Congruent(x, y, w) == \E k \in Int : x = y + k * w

\* Numbers that differ by a multiple of the divisor have one remainder.
LEMMA ModSame ==
    ASSUME NEW x \in Int, NEW y \in Int, NEW w \in Nat \ {0}, Congruent(x, y, w)
    PROVE  x % w = y % w
<1>0. PICK k \in Int : x = y + k * w
    BY DEF Congruent
<1> DEFINE p == y \div w
           s == y % w
<1>1. p \in Int /\ s \in Int /\ 0 <= s /\ s < w /\ y = w * p + s
    OBVIOUS
<1> HIDE DEF p, s
<1>2. x = (p + k) * w + s
  <2>1. (p + k) * w = w * p + k * w /\ k * w \in Int /\ w * p \in Int
      BY <1>1
  <2> QED BY <1>0, <1>1, <2>1
<1>3. p + k \in Int
    BY <1>1
<1>4. x % w = s
    BY <1>1, <1>2, <1>3, DivModUnique
<1> QED BY <1>4 DEF s

\* A position that is moved modulo w, seen from another one.
LEMMA ModDifference ==
    ASSUME NEW a \in Int, NEW b \in Int, NEW x \in Int, NEW y \in Int, NEW w \in Nat \ {0}
    PROVE  (((a + x) % w) - ((b + y) % w)) % w = (((a - b) % w) + x - y) % w
<1> DEFINE p == (a + x) \div w
           s == (a + x) % w
           q == (b + y) \div w
           t == (b + y) % w
           o == (a - b) \div w
           u == (a - b) % w
<1>1. /\ p \in Int /\ s \in Int /\ a + x = w * p + s
      /\ q \in Int /\ t \in Int /\ b + y = w * q + t
      /\ o \in Int /\ u \in Int /\ a - b = w * o + u
    OBVIOUS
<1> HIDE DEF p, s, q, t, o, u
<1>2. s - t = u + x - y + (o + q - p) * w
  <2>1. (o + q - p) * w = w * o + w * q - w * p
      BY <1>1
  <2>2. w * o \in Int /\ w * q \in Int /\ w * p \in Int
      BY <1>1
  <2> QED BY <1>1, <2>1, <2>2
<1>3. (s - t) % w = (u + x - y) % w
  <2>1. PICK c \in Int, d \in Int, k \in Int :
            c = s - t /\ d = u + x - y /\ k = o + q - p
      BY <1>1
  <2>2. Congruent(c, d, w)
      BY <1>2, <2>1 DEF Congruent
  <2>3. c % w = d % w
      BY <2>2, ModSame
  <2> QED BY <2>1, <2>3
<1> QED BY <1>3 DEF s, t, u

--------------------------------------------------------------------------------
(* Whole words *)

Words(n) == n \in Int /\ \E k \in Int : n = k * WORD_SZ

\* Sums and differences of whole words are whole words,
LEMMA WordsSum ==
    ASSUME NEW x, NEW y, Words(x), Words(y)
    PROVE  Words(x + y) /\ Words(x - y)
<1>0. WORD_SZ \in Nat \ {0}
    BY FramingAssumption
<1>1. PICK k \in Int : x = k * WORD_SZ
    BY DEF Words
<1>2. PICK l \in Int : y = l * WORD_SZ
    BY DEF Words
<1>3. x \in Int /\ y \in Int
    BY DEF Words
<1>4. x + y = (k + l) * WORD_SZ /\ x - y = (k - l) * WORD_SZ
    BY <1>0, <1>1, <1>2
<1> QED BY <1>3, <1>4 DEF Words

\* and so are multiples of them.
LEMMA WordsTimes ==
    ASSUME NEW x, Words(x), NEW n \in Int
    PROVE  Words(n * x)
<1>0. WORD_SZ \in Nat \ {0}
    BY FramingAssumption
<1>1. PICK k \in Int : x = k * WORD_SZ
    BY DEF Words
<1>2. n * x = (n * k) * WORD_SZ /\ n * x \in Int /\ n * k \in Int
    BY <1>0, <1>1
<1> QED BY <1>2 DEF Words

\* What leaves no remainder is a number of whole words.
LEMMA WordsMod ==
    ASSUME NEW x \in Int, x % WORD_SZ = 0
    PROVE  Words(x)
<1>0. WORD_SZ \in Nat \ {0}
    BY FramingAssumption
<1> DEFINE q == x \div WORD_SZ
<1>1. q \in Int /\ x = WORD_SZ * q + (x % WORD_SZ)
    BY <1>0
<1>2. x = q * WORD_SZ
  <2>1. WORD_SZ * q = q * WORD_SZ /\ q * WORD_SZ \in Int
      BY <1>0, <1>1
  <2> HIDE DEF q
  <2> QED BY <1>1, <2>1
<1> QED BY <1>1, <1>2 DEF Words

\* Less than one word more is not more.
LEMMA WordsLess ==
    ASSUME NEW x, NEW y, Words(x), Words(y), x < y + WORD_SZ
    PROVE  x <= y
<1>0. WORD_SZ \in Nat \ {0}
    BY FramingAssumption
<1>1. PICK k \in Int : x = k * WORD_SZ
    BY DEF Words
<1>2. PICK l \in Int : y = l * WORD_SZ
    BY DEF Words
<1>3. x \in Int /\ y \in Int
    BY DEF Words
<1>4. SUFFICES ASSUME y < x PROVE FALSE
    BY <1>3
<1>5. l < k
  <2> SUFFICES ASSUME ~(l < k) PROVE FALSE
      OBVIOUS
  <2>1. CASE k = l
      BY <2>1, <1>1, <1>2, <1>3, <1>4
  <2>2. CASE k < l
    <3>1. k * WORD_SZ + WORD_SZ <= l * WORD_SZ
        BY <1>0, <2>2, MulStrict
    <3> QED BY <3>1, <1>0, <1>1, <1>2, <1>3, <1>4
  <2> QED BY <2>1, <2>2
<1>6. l * WORD_SZ + WORD_SZ <= k * WORD_SZ
    BY <1>0, <1>5, MulStrict
<1> QED BY <1>0, <1>1, <1>2, <1>3, <1>6

\* The constants that are whole words.
LEMMA WordsConstants ==
    /\ Words(WORD_SZ) /\ Words(MARKER_SZ) /\ Words(CRC_SZ) /\ Words(MARKER_PERIOD)
    /\ Words(PAYLD_CHNK) /\ Words(Wrap) /\ Words(PAGE_SIZE) /\ Words(0)
<1>0. /\ WORD_SZ \in Nat \ {0} /\ MARKER_PERIOD \in Nat /\ PAGE_SIZE \in Nat \ {0}
      /\ Wrap \in Nat \ {0}
      /\ PAGE_SIZE % WORD_SZ = 0 /\ MARKER_PERIOD % WORD_SZ = 0 /\ Wrap % MARKER_PERIOD = 0
    BY FramingAssumption
<1>1. Words(WORD_SZ) /\ Words(0)
  <2>1. WORD_SZ = 1 * WORD_SZ /\ 0 = 0 * WORD_SZ
      BY <1>0
  <2> QED BY <1>0, <2>1 DEF Words
<1>2. Words(MARKER_PERIOD) /\ Words(PAGE_SIZE)
    BY <1>0, WordsMod
<1>3. Words(PAYLD_CHNK)
    BY <1>1, <1>2, WordsSum DEF PAYLD_CHNK, MARKER_SZ
<1>4. Words(Wrap)
  <2>1. MARKER_PERIOD # 0
      BY <1>0, FramingAssumption DEF PAYLD_CHNK, MARKER_SZ
  <2> DEFINE q == Wrap \div MARKER_PERIOD
  <2>2. q \in Int /\ Wrap = MARKER_PERIOD * q + (Wrap % MARKER_PERIOD)
      BY <1>0, <2>1
  <2>3. MARKER_PERIOD * q = q * MARKER_PERIOD /\ q * MARKER_PERIOD \in Int
      BY <1>0, <2>2
  <2> HIDE DEF q
  <2>4. Wrap = q * MARKER_PERIOD
      BY <1>0, <2>2, <2>3
  <2> QED BY <1>2, <2>2, <2>4, WordsTimes
<1> QED BY <1>1, <1>2, <1>3, <1>4 DEF MARKER_SZ, CRC_SZ

\* A position taken modulo Wrap keeps to words.
LEMMA WordsWrap ==
    ASSUME NEW x, Words(x)
    PROVE  Words(x % Wrap) /\ x % Wrap \in Nat
<1>0. Wrap \in Nat \ {0} /\ Words(Wrap) /\ x \in Int
    BY FramingAssumption, WordsConstants DEF Words
<1> DEFINE q == x \div Wrap
           r == x % Wrap
<1>1. q \in Int /\ r \in Nat /\ x = Wrap * q + r
    BY <1>0
<1>2. Wrap * q = q * Wrap /\ q * Wrap \in Int
    BY <1>0, <1>1
<1>3. Words(q * Wrap)
    BY <1>0, <1>1, WordsTimes
<1> HIDE DEF q, r
<1>4. r = x - q * Wrap
    BY <1>0, <1>1, <1>2
<1>5. Words(x - q * Wrap)
    BY <1>3, WordsSum
<1> QED BY <1>1, <1>4, <1>5 DEF r

--------------------------------------------------------------------------------
(* Pad and markers *)

\* The pad fills the last word.
LEMMA PadFills ==
    ASSUME NEW n \in Nat
    PROVE  Pad(n) \in Nat /\ Pad(n) < WORD_SZ /\ Words(n + Pad(n))
<1>0. WORD_SZ \in Nat \ {0}
    BY FramingAssumption
<1> DEFINE q == (n + WORD_SZ - 1) \div WORD_SZ
           r == (n + WORD_SZ - 1) % WORD_SZ
<1>1. q \in Int /\ r \in 0..(WORD_SZ - 1) /\ n + WORD_SZ - 1 = WORD_SZ * q + r
    BY <1>0
<1>2. Pad(n) = WORD_SZ * q - n
    BY DEF Pad
<1>3. WORD_SZ * q \in Int /\ WORD_SZ * q = q * WORD_SZ
    BY <1>0, <1>1
<1> HIDE DEF q, r
<1>4. Pad(n) \in Nat /\ Pad(n) < WORD_SZ /\ n + Pad(n) = q * WORD_SZ
    BY <1>0, <1>1, <1>2, <1>3
<1> QED BY <1>1, <1>3, <1>4 DEF Words

\* Only what a length has beyond whole words matters to its pad.
LEMMA PadSame ==
    ASSUME NEW x \in Nat, NEW y \in Nat, Words(x - y)
    PROVE  Pad(x) = Pad(y)
<1>1. /\ Pad(x) \in Nat /\ Pad(x) < WORD_SZ /\ Words(x + Pad(x))
      /\ Pad(y) \in Nat /\ Pad(y) < WORD_SZ /\ Words(y + Pad(y))
      /\ WORD_SZ \in Nat
    BY PadFills, FramingAssumption
<1>2. Words((x - y) + (y + Pad(y)))
    BY <1>1, WordsSum
<1>3. (x - y) + (y + Pad(y)) = x + Pad(y)
    BY <1>1
<1>4. Words(x + Pad(y))
    BY <1>2, <1>3
<1>5. x + Pad(x) <= x + Pad(y)
  <2>1. x + Pad(x) < x + Pad(y) + WORD_SZ
      BY <1>1
  <2> QED BY <1>1, <1>4, <2>1, WordsLess
<1>6. x + Pad(y) <= x + Pad(x)
  <2>1. x + Pad(y) < x + Pad(x) + WORD_SZ
      BY <1>1
  <2> QED BY <1>1, <1>4, <2>1, WordsLess
<1> QED BY <1>1, <1>5, <1>6

\* An FPDU's header, payload and pad.
LEMMA FrameSizes ==
    ASSUME NEW f \in Frames
    PROVE  /\ Words(HdrSz(f.tagged))
           /\ Pad(HdrSz(f.tagged) + f.len) = Pad(f.len)
           /\ Pad(f.len) \in Nat
           /\ FpduLen(f) = HdrSz(f.tagged) + f.len + Pad(f.len)
           /\ Words(FpduLen(f)) /\ FpduLen(f) \in Nat
           /\ f.len = 0 => Pad(f.len) = 0
           /\ FpduLen(f) < HdrSz(f.tagged) + f.len + WORD_SZ
<1> DEFINE h == HdrSz(f.tagged)
           n == f.len
<1>1. h \in Nat /\ n \in Nat /\ f.tagged \in BOOLEAN
    BY HdrSzNat
<1>2. Words(h)
  <2>1. h \in {TAGGED_HDR_SZ, UNTAGGED_HDR_SZ}
      BY <1>1 DEF HdrSz
  <2>2. h % WORD_SZ = 0
      BY <2>1, FramingAssumption
  <2> QED BY <1>1, <2>2, WordsMod
<1>3. FpduLen(f) = h + n + Pad(h + n)
    BY DEF FpduLen
<1>4. h = HdrSz(f.tagged) /\ n = f.len
    OBVIOUS
<1> HIDE DEF h, n
<1>5. h + n \in Nat /\ (h + n) - n = h
    BY <1>1
<1>6. Pad(h + n) = Pad(n)
    BY <1>1, <1>2, <1>5, PadSame
<1>7. Pad(n) \in Nat /\ Words(h + n + Pad(h + n)) /\ Pad(n) < WORD_SZ
    BY <1>1, <1>5, PadFills
<1>8. n = 0 => Pad(n) = 0
  <2> SUFFICES ASSUME n = 0 PROVE Pad(0) = 0
      OBVIOUS
  <2>1. Words(0 + Pad(0)) /\ Words(0) /\ Pad(0) \in Nat /\ Pad(0) < WORD_SZ
      BY PadFills, WordsConstants
  <2>2. 0 + Pad(0) <= 0
    <3>1. 0 + Pad(0) < 0 + WORD_SZ
        BY <2>1, FramingAssumption
    <3> QED BY <2>1, <3>1, WordsLess
  <2> QED BY <2>1, <2>2
<1>9. WORD_SZ \in Nat
    BY FramingAssumption
<1> QED BY <1>1, <1>2, <1>3, <1>4, <1>6, <1>7, <1>8, <1>9

\* A quotient that is rounded up.
LEMMA Ceiling ==
    ASSUME NEW r \in Nat, NEW c \in Nat \ {0}
    PROVE  LET k == (r + c - 1) \div c
           IN  k \in Nat /\ k * c \in Nat /\ r <= k * c /\ k * c < r + c /\ (r = 0 => k = 0)
<1> DEFINE k == (r + c - 1) \div c
           s == (r + c - 1) % c
<1>1. k \in Int /\ s \in 0..(c - 1) /\ r + c - 1 = c * k + s
    OBVIOUS
<1>2. k \in Nat
    OBVIOUS
<1>3. c * k = k * c /\ k * c \in Nat
    BY <1>2
<1>4. r = 0 => k = 0
  <2> SUFFICES ASSUME r = 0 PROVE (c - 1) \div c = 0
      OBVIOUS
  <2>1. c - 1 = 0 * c + (c - 1)
      OBVIOUS
  <2> QED
    <3>1. PICK n \in Nat : n = c - 1
        OBVIOUS
    <3>2. n = 0 * c + n /\ 0 <= n /\ n < c
        BY <3>1
    <3>3. n \div c = 0
        BY <3>2, DivModUnique
    <3> QED BY <3>1, <3>3
<1> HIDE DEF k, s
<1>5. r <= k * c /\ k * c < r + c
    BY <1>1, <1>3
<1> QED BY <1>2, <1>3, <1>4, <1>5 DEF k

\* Where the first marker after the header falls, the markers not counted.
Base(f, mp) == IF mp < HdrSz(f.tagged) THEN mp + PAYLD_CHNK ELSE mp

\* The payload behind that marker, and its chunks.
Rest(f, mp) == f.len - HeadLen(f, mp)

\* The parts of an FPDU with markers and their lengths.
LEMMA MrkrSizes ==
    ASSUME NEW f \in Frames, NEW mp \in Nat, Words(mp)
    PROVE  /\ Base(f, mp) \in Nat /\ Words(Base(f, mp)) /\ HdrSz(f.tagged) <= Base(f, mp)
           /\ HeadLen(f, mp) \in 0..f.len
           /\ Rest(f, mp) \in Nat
           /\ Rest(f, mp) = 0 => HdrSz(f.tagged) + f.len <= Base(f, mp)
           /\ Rest(f, mp) > 0 => Rest(f, mp) = HdrSz(f.tagged) + f.len - Base(f, mp)
           /\ Base(f, mp) + Len(MrkrHdr(f, mp)) = AfterHdr(f, mp) + HdrSz(f.tagged)
<1> DEFINE h == HdrSz(f.tagged)
           n == f.len
           l == Len(MrkrHdr(f, mp))
           a == AfterHdr(f, mp)
           b == Base(f, mp)
           first == HeadLen(f, mp)
           rest == Rest(f, mp)
<1>0. /\ h \in Nat \ {0} /\ h < PAYLD_CHNK /\ n \in Nat
      /\ MARKER_SZ \in Nat \ {0} /\ PAYLD_CHNK \in Nat \ {0}
      /\ MARKER_PERIOD = PAYLD_CHNK + MARKER_SZ
    BY HdrSzNat
<1>1. l = h + (IF mp < h THEN MARKER_SZ ELSE 0)
    BY CleanMrkrHdr
<1>2. a = IF mp < h THEN mp + MARKER_PERIOD ELSE mp
    BY DEF AfterHdr
<1>3. first = IF a - l < n THEN a - l ELSE n
    BY DEF HeadLen, Least
<1>4. b = (IF mp < h THEN mp + PAYLD_CHNK ELSE mp) /\ rest = n - first
    BY DEF Base, Rest
<1>5. Words(b)
    BY WordsConstants, WordsSum DEF Base
<1> HIDE DEF h, n, l, a, b, first, rest
<1>6. b \in Nat /\ h <= b /\ b + l = a + h
    BY <1>0, <1>1, <1>2, <1>4
<1>7. first \in 0..n /\ rest \in Nat
    BY <1>0, <1>1, <1>2, <1>3, <1>4
<1>8. (rest = 0 => h + n <= b) /\ (rest > 0 => rest = h + n - b)
    BY <1>0, <1>1, <1>2, <1>3, <1>4
<1> QED BY <1>5, <1>6, <1>7, <1>8 DEF h, n, l, a, b, first, rest

\* The last chunk is not empty, and with its pad not longer than a chunk.
LEMMA LastChunk ==
    ASSUME NEW f \in Frames, NEW mp \in Nat, Words(mp)
    PROVE  LET k == BodyMrkrs(f, mp)
           IN  /\ k \in Nat /\ k * PAYLD_CHNK \in Nat
               /\ FpduLen(f) <= Base(f, mp) + k * PAYLD_CHNK
               /\ Rest(f, mp) = 0 => k = 0
               /\ Rest(f, mp) > 0 =>
                    k > 0 /\ Base(f, mp) + k * PAYLD_CHNK < FpduLen(f) + PAYLD_CHNK
<1> DEFINE k == BodyMrkrs(f, mp)
           c == PAYLD_CHNK
           h == HdrSz(f.tagged)
           n == f.len
           b == Base(f, mp)
           rest == Rest(f, mp)
           F == FpduLen(f)
<1>0. h \in Nat /\ n \in Nat /\ c \in Nat \ {0} /\ WORD_SZ \in Nat
    BY HdrSzNat, FramingAssumption
<1>1. /\ b \in Nat /\ Words(b) /\ rest \in Nat
      /\ rest = 0 => h + n <= b
      /\ rest > 0 => rest = h + n - b
    BY MrkrSizes
<1>2. /\ F = h + n + Pad(n) /\ Words(F) /\ F \in Nat /\ Pad(n) \in Nat
      /\ F < h + n + WORD_SZ
    BY FrameSizes
<1>3. k = (rest + c - 1) \div c
    BY DEF BodyMrkrs, Rest
<1>4. Words(c)
    BY WordsConstants
<1> HIDE DEF k, c, h, n, b, rest, F
<1>5. k \in Nat /\ k * c \in Nat /\ rest <= k * c /\ k * c < rest + c /\ (rest = 0 => k = 0)
    BY <1>0, <1>1, <1>3, Ceiling
<1>6. Words(b + k * c)
    BY <1>1, <1>4, <1>5, WordsTimes, WordsSum
<1>7. F < (b + k * c) + WORD_SZ
    BY <1>0, <1>1, <1>2, <1>5
<1>8. F <= b + k * c
    BY <1>2, <1>6, <1>7, WordsLess
<1>9. rest > 0 => k > 0 /\ b + k * c < F + c
  <2> SUFFICES ASSUME rest > 0 PROVE k > 0 /\ b + k * c < F + c
      OBVIOUS
  <2>1. k # 0
    <3>1. 0 * c = 0
        BY <1>0
    <3> QED BY <1>1, <1>5, <3>1
  <2>2. b + k * c < F + c
      BY <1>0, <1>1, <1>2, <1>5
  <2> QED BY <1>5, <2>1, <2>2
<1> QED BY <1>5, <1>8, <1>9 DEF k, c, b, rest, F

\* Two sequences of bytes in a row.
LEMMA CleanLength ==
    ASSUME NEW s, NEW t, Clean(s), Clean(t)
    PROVE  Len(s) \in Nat /\ Len(t) \in Nat /\ Len(s \o t) = Len(s) + Len(t)
<1>1. PICK S : s \in Seq(S)
    BY DEF Clean
<1>2. PICK T : t \in Seq(T)
    BY DEF Clean
<1>3. s \in Seq(S \cup T) /\ t \in Seq(S \cup T)
    BY <1>1, <1>2
<1> QED BY <1>3

\* Header, payload and pad with the markers between them.
Inner(f, mp) == MrkrHdr(f, mp) \o MrkrBody(f, mp) \o PadBytes(f)

\* Payload with markers.
LEMMA MrkrBodySize ==
    ASSUME NEW f \in Frames, NEW mp \in Nat, Words(mp)
    PROVE  /\ Clean(MrkrBody(f, mp))
           /\ Len(MrkrBody(f, mp)) = f.len + BodyMrkrs(f, mp) * MARKER_SZ
<1> DEFINE n == f.len
           k == BodyMrkrs(f, mp)
           first == HeadLen(f, mp)
           len == n - first + k * MARKER_SZ
           s == MrkrChunks(f, mp)
           p == SubSeq(Payld(f), 1, first)
<1>0. n \in Nat /\ MARKER_SZ \in Nat \ {0}
    BY HdrSzNat
<1>1. first \in 0..n
    BY MrkrSizes
<1>2. k \in Nat /\ k * MARKER_SZ \in Nat
  <2>1. k \in Nat
      BY LastChunk
  <2> HIDE DEF k
  <2> QED BY <1>0, <2>1
<1>3. len \in Nat
  <2> HIDE DEF n, first, k
  <2> QED BY <1>0, <1>1, <1>2
<1>4. s = [i \in 1..len |-> s[i]] /\ \A i \in 1..len : s[i].t # "rrf"
    BY DEF MrkrChunks
<1>5. Clean(s)
  <2> HIDE DEF s, len
  <2> QED BY <1>3, <1>4, CleanMap
<1>6. Len(s) = len
  <2> HIDE DEF s, len
  <2> QED BY <1>3, <1>4
<1>7. Clean(p) /\ Len(p) = first
  <2>1. Clean(Payld(f)) /\ Len(Payld(f)) = n
      BY CleanParts
  <2>2. PICK S : Payld(f) \in Seq(S)
      BY <2>1 DEF Clean
  <2> HIDE DEF n, first
  <2>3. Clean(SubSeq(Payld(f), 1, first))
      BY <1>0, <1>1, <2>1, CleanSubSeq
  <2>4. Len(SubSeq(Payld(f), 1, first)) = first
      BY <1>0, <1>1, <2>1, <2>2
  <2> QED BY <2>3, <2>4
<1>8. MrkrBody(f, mp) = p \o s
    BY DEF MrkrBody
<1>9. Clean(p \o s) /\ Len(p \o s) = Len(p) + Len(s)
  <2> HIDE DEF p, s
  <2> QED BY <1>5, <1>7, CleanConcat, CleanLength
<1> HIDE DEF p, s
<1>10. Len(MrkrBody(f, mp)) = first + len
    BY <1>6, <1>7, <1>8, <1>9
<1>11. first + len = n + k * MARKER_SZ
  <2> HIDE DEF n, first, k
  <2> QED BY <1>0, <1>1, <1>2
<1> QED BY <1>8, <1>9, <1>10, <1>11

\* The FPDU ends at a marker's place when its last chunk is full.
LEMMA InnerSize ==
    ASSUME NEW f \in Frames, NEW mp \in Nat, Words(mp)
    PROVE  LET k == BodyMrkrs(f, mp)
           IN  /\ Clean(Inner(f, mp))
               /\ Words(Len(Inner(f, mp)))
               /\ Len(Inner(f, mp)) = NextMp(f, mp) <=> FpduLen(f) = Base(f, mp) + k * PAYLD_CHNK
<1> DEFINE n == f.len
           k == BodyMrkrs(f, mp)
           h == HdrSz(f.tagged)
           l == Len(MrkrHdr(f, mp))
           a == AfterHdr(f, mp)
           b == Base(f, mp)
           F == FpduLen(f)
           body == MrkrBody(f, mp)
           c == PAYLD_CHNK
           m == MARKER_SZ
<1>0. /\ n \in Nat /\ h \in Nat /\ m \in Nat \ {0} /\ c \in Nat \ {0}
      /\ MARKER_PERIOD = c + m /\ k \in Nat
    BY HdrSzNat, LastChunk
<1>1. Clean(MrkrHdr(f, mp)) /\ l = h + (IF mp < h THEN m ELSE 0)
    BY CleanMrkrHdr
<1>2. Clean(body) /\ Len(body) = n + k * m
    BY MrkrBodySize
<1>3. Clean(PadBytes(f)) /\ Len(PadBytes(f)) = Pad(n) /\ F = h + n + Pad(n) /\ Pad(n) \in Nat
  <2>1. Pad(h + n) = Pad(n) /\ Pad(n) \in Nat /\ F = h + n + Pad(n)
      BY FrameSizes
  <2>2. [t |-> "pad"].t # "rrf"
      OBVIOUS
  <2> QED BY <2>1, <2>2, CleanBytes DEF PadBytes
<1>4. /\ Clean(MrkrHdr(f, mp) \o body)
      /\ Len(MrkrHdr(f, mp) \o body) = l + Len(body)
    BY <1>1, <1>2, CleanConcat, CleanLength
<1>5. /\ Clean(Inner(f, mp))
      /\ Len(Inner(f, mp)) = l + Len(body) + Pad(n)
    BY <1>3, <1>4, CleanConcat, CleanLength DEF Inner
<1>6. NextMp(f, mp) = a + k * (c + m)
    BY <1>0 DEF NextMp
<1>7. b + l = a + h /\ b \in Nat
    BY MrkrSizes
<1>8. Words(F) /\ F \in Nat /\ Words(m)
    BY FrameSizes, WordsConstants
<1>9. a = IF mp < h THEN mp + MARKER_PERIOD ELSE mp
    BY DEF AfterHdr
<1> HIDE DEF n, k, h, l, a, b, F, body, c, m
<1>10. k * (c + m) = k * c + k * m /\ k * c \in Nat /\ k * m \in Nat
    BY <1>0
<1>11. l \in Nat /\ a \in Nat
    BY <1>0, <1>1, <1>9
<1>12. Len(Inner(f, mp)) = l - h + F + k * m
    BY <1>0, <1>2, <1>3, <1>5, <1>10, <1>11
<1>13. Len(Inner(f, mp)) = NextMp(f, mp) <=> F = b + k * c
    BY <1>0, <1>6, <1>7, <1>8, <1>10, <1>11, <1>12
<1>14. Words(l - h)
  <2>1. l - h = m \/ l - h = 0
      BY <1>0, <1>1
  <2> QED BY <2>1, <1>8, WordsConstants
<1>15. Words(l - h + F + k * m)
  <2>1. Words(l - h + F)
      BY <1>8, <1>14, WordsSum
  <2>2. Words(k * m)
    <3>1. k \in Int
        BY <1>0
    <3> QED BY <1>8, <3>1, WordsTimes, Zenon
  <2> QED BY <2>1, <2>2, WordsSum
<1> QED BY <1>5, <1>12, <1>13, <1>15 DEF k, b, F, c

\* mpa_wrt_mrkr_fpdu computes the number of markers before it places them, and
\* it is the number of those placed in the header, before the chunks and at the
\* end; but for an FPDU without a marker that ends where one is due.
LEMMA MarkersCounted ==
    ASSUME NEW f \in Frames, NEW mp \in Nat, Words(mp), FpduLen(f) # mp
    PROVE  num_mrkrs(f, mp) =
             (IF mp < HdrSz(f.tagged) THEN 1 ELSE 0) + BodyMrkrs(f, mp)
               + (IF Len(Inner(f, mp)) = NextMp(f, mp) THEN 1 ELSE 0)
<1> DEFINE k == BodyMrkrs(f, mp)
           h == HdrSz(f.tagged)
           b == Base(f, mp)
           F == FpduLen(f)
           c == PAYLD_CHNK
           rest == Rest(f, mp)
<1>0. h \in Nat /\ c \in Nat \ {0} /\ h < c /\ f.len \in Nat /\ Pad(f.len) \in Nat
    BY HdrSzNat, FrameSizes
<1>1. /\ k \in Nat /\ k * c \in Nat /\ F <= b + k * c
      /\ rest = 0 => k = 0
      /\ rest > 0 => k > 0 /\ b + k * c < F + c
    BY LastChunk
<1>2. b \in Nat /\ h <= b /\ rest \in Nat /\ b = (IF mp < h THEN mp + c ELSE mp)
    BY MrkrSizes DEF Base
<1>3. Len(Inner(f, mp)) = NextMp(f, mp) <=> F = b + k * c
    BY InnerSize
<1>4. num_mrkrs(f, mp) = IF F > mp THEN 1 + ((F - mp) \div c) ELSE 0
    BY DEF num_mrkrs
<1>5. F \in Nat /\ h <= F
  <2>1. F = h + f.len + Pad(f.len) /\ F \in Nat
      BY FrameSizes
  <2> HIDE DEF h, F
  <2> QED BY <1>0, <2>1
<1>6. F # mp
    OBVIOUS
<1> HIDE DEF k, h, b, F, c, rest
<1> SUFFICES num_mrkrs(f, mp) = (IF mp < h THEN 1 ELSE 0) + k + (IF F = b + k * c THEN 1 ELSE 0)
    BY <1>3 DEF k, h
<1>7. CASE F = b + k * c
  <2>1. CASE mp < h
    <3>1. F > mp /\ F - mp = (k + 1) * c + 0 /\ F - mp \in Int /\ k + 1 \in Int
      <4>1. (k + 1) * c = k * c + c
          BY <1>0, <1>1
      <4> QED BY <4>1, <1>0, <1>1, <1>2, <1>5, <1>7, <2>1
    <3>2. (F - mp) \div c = k + 1
        BY <3>1, <1>0, DivModUnique
    <3> QED BY <1>1, <1>4, <1>7, <2>1, <3>1, <3>2
  <2>2. CASE ~(mp < h)
    <3>1. F > mp /\ F - mp = k * c + 0 /\ F - mp \in Int
        BY <1>1, <1>2, <1>5, <1>6, <1>7, <2>2
    <3>2. (F - mp) \div c = k
        BY <3>1, <1>0, <1>1, DivModUnique
    <3> QED BY <1>1, <1>4, <1>7, <2>2, <3>1, <3>2
  <2> QED BY <2>1, <2>2
<1>8. CASE F # b + k * c /\ rest > 0
  <2> DEFINE r == F + c - (b + k * c)
  <2>1. r \in Int /\ 0 <= r /\ r < c
      BY <1>0, <1>1, <1>2, <1>5, <1>8
  <2>2. (k - 1) * c = k * c - c /\ k - 1 \in Int
      BY <1>0, <1>1
  <2>3. CASE mp < h
    <3>1. F > mp /\ F - mp = k * c + r /\ F - mp \in Int
        BY <1>0, <1>1, <1>2, <1>5, <2>3
    <3> HIDE DEF r
    <3>2. (F - mp) \div c = k
        BY <3>1, <2>1, <1>0, <1>1, DivModUnique
    <3> QED BY <1>1, <1>4, <1>8, <2>3, <3>1, <3>2
  <2>4. CASE ~(mp < h)
    <3>1. F > mp /\ F - mp = (k - 1) * c + r /\ F - mp \in Int
      <4>1. F - mp = (k - 1) * c + r
          BY <1>0, <1>1, <1>2, <1>5, <2>2, <2>4
      <4>2. (k - 1) * c >= 0
        <5>1. PICK d \in Nat : d = k - 1
            BY <1>1, <1>8
        <5>2. d * c \in Nat
            BY <1>0
        <5> QED BY <5>1, <5>2
      <4>3. r > 0
          BY <1>0, <1>1, <1>2, <1>5, <1>8
      <4> QED BY <4>1, <4>2, <4>3, <2>1, <2>2, <1>0, <1>1, <1>5
    <3> HIDE DEF r
    <3>2. (F - mp) \div c = k - 1
        BY <3>1, <2>1, <2>2, <1>0, <1>1, DivModUnique
    <3> QED BY <1>1, <1>4, <1>8, <2>4, <3>1, <3>2
  <2> QED BY <2>3, <2>4
<1>9. CASE F # b + k * c /\ rest = 0
  <2>1. k = 0 /\ F < b
    <3>1. k = 0
        BY <1>1, <1>9
    <3>2. 0 * c = 0
        BY <1>0
    <3> QED BY <3>1, <3>2, <1>1, <1>2, <1>5, <1>9
  <2>2. CASE mp < h
    <3>1. F > mp /\ F - mp = 0 * c + (F - mp) /\ F - mp \in Int /\ 0 <= F - mp /\ F - mp < c
        BY <1>0, <1>2, <1>5, <2>1, <2>2
    <3>2. (F - mp) \div c = 0
        BY <3>1, <1>0, DivModUnique
    <3> QED BY <1>4, <1>9, <2>1, <2>2, <3>1, <3>2
  <2>3. CASE ~(mp < h)
      BY <1>2, <1>4, <1>5, <1>9, <2>1, <2>3
  <2> QED BY <2>2, <2>3
<1> QED BY <1>2, <1>7, <1>8, <1>9

--------------------------------------------------------------------------------
(* An FPDU as the reader sees it *)

\* The position of the next marker after an FPDU, for writer and reader.
MpAfter(f, mp) == (mp + num_mrkrs(f, mp) * MARKER_PERIOD - Len(MrkrFpdu(f, mp))) % Wrap

\* An FPDU with markers is a number of words, and so the next position is.
LEMMA MrkrFpduSize ==
    ASSUME NEW f \in Frames, NEW mp \in Nat, Words(mp)
    PROVE  /\ Clean(MrkrFpdu(f, mp)) /\ Len(MrkrFpdu(f, mp)) \in Nat
           /\ num_mrkrs(f, mp) \in Int
           /\ MpAfter(f, mp) \in Nat /\ Words(MpAfter(f, mp))
<1> DEFINE b == Inner(f, mp)
           m == Mrkr(NextMp(f, mp))
           l == Len(MrkrFpdu(f, mp))
           n == num_mrkrs(f, mp)
<1>1. Clean(b) /\ Words(Len(b))
    BY InnerSize
<1>2. Clean(m) /\ Len(m) = MARKER_SZ
    BY CleanMrkr
<1>3. MrkrFpdu(f, mp) = b \/ MrkrFpdu(f, mp) = b \o m
    BY DEF MrkrFpdu, Inner
<1>4. Clean(b \o m) /\ Len(b \o m) = Len(b) + Len(m)
  <2> HIDE DEF b, m
  <2> QED BY <1>1, <1>2, CleanConcat, CleanLength
<1>5. Clean(MrkrFpdu(f, mp)) /\ Words(l)
  <2>1. Words(Len(b) + MARKER_SZ)
      BY <1>1, WordsConstants, WordsSum
  <2> HIDE DEF b, m
  <2> QED BY <1>1, <1>2, <1>3, <1>4, <2>1
<1>6. n \in Int
  <2>1. FpduLen(f) \in Nat /\ PAYLD_CHNK \in Nat \ {0}
      BY FrameSizes, HdrSzNat
  <2> QED BY <2>1 DEF num_mrkrs
<1>7. Words(n * MARKER_PERIOD)
  <2> HIDE DEF n
  <2> QED BY <1>6, WordsConstants, WordsTimes, Zenon
<1>8. l \in Nat
    BY <1>5, CleanLen
<1> HIDE DEF l, n
<1>9. Words(mp + n * MARKER_PERIOD - l)
    BY <1>5, <1>7, WordsSum
<1>10. MpAfter(f, mp) = (mp + n * MARKER_PERIOD - l) % Wrap
    BY DEF MpAfter, n, l
<1>11. MpAfter(f, mp) \in Nat /\ Words(MpAfter(f, mp))
    BY <1>9, <1>10, WordsWrap
<1> QED BY <1>5, <1>6, <1>8, <1>11 DEF l, n

\* A reader that knows the position takes the bytes that were written.
LEMMA ReaderAgrees ==
    ASSUME NEW f \in Frames, NEW mp \in Nat, Words(mp), FpduLen(f) # mp
    PROVE  /\ ReadFpdu(f, mp) = MrkrFpdu(f, mp)
           /\ (IF mp < HdrSz(f.tagged) THEN 1 ELSE 0) + ReadMrkrs(f, mp) = num_mrkrs(f, mp)
<1> DEFINE k == BodyMrkrs(f, mp)
           h == HdrSz(f.tagged)
           b == Inner(f, mp)
           hdr == IF mp < h THEN 1 ELSE 0
           x == IF Len(b) = NextMp(f, mp) THEN 1 ELSE 0
<1>1. num_mrkrs(f, mp) = hdr + k + x
    BY MarkersCounted
<1>2. k \in Nat
    BY LastChunk
<1>3. CASE f.len # 0
  <2>1. ReadMrkrs(f, mp) = k + x
      BY <1>3 DEF ReadMrkrs, Inner
  <2>2. ReadMrkrs(f, mp) > k <=> Len(b) = NextMp(f, mp)
    <3> HIDE DEF k, b
    <3> QED BY <1>2, <2>1
  <2>3. ReadFpdu(f, mp) = MrkrFpdu(f, mp)
      BY <1>3, <2>2 DEF ReadFpdu, MrkrFpdu, Inner
  <2>4. hdr + (k + x) = hdr + k + x
    <3> HIDE DEF k, b
    <3> QED BY <1>2
  <2> HIDE DEF hdr, k, x
  <2>5. hdr + ReadMrkrs(f, mp) = num_mrkrs(f, mp)
      BY <1>1, <2>1, <2>4
  <2> QED BY <2>3, <2>5 DEF hdr
<1>4. CASE f.len = 0
  <2>1. ReadMrkrs(f, mp) = 0 /\ ReadFpdu(f, mp) = MrkrHdr(f, mp)
      BY <1>4 DEF ReadMrkrs, ReadFpdu
  <2>2. Rest(f, mp) = 0 /\ k = 0
    <3>1. HeadLen(f, mp) \in 0..0 /\ Rest(f, mp) = f.len - HeadLen(f, mp)
        BY <1>4, MrkrSizes DEF Rest
    <3>2. Rest(f, mp) = 0
        BY <1>4, <3>1
    <3> QED BY <3>2, LastChunk
  <2>3. Len(b) # NextMp(f, mp)
    <3>1. Len(b) = NextMp(f, mp) <=> FpduLen(f) = Base(f, mp) + k * PAYLD_CHNK
        BY InnerSize
    <3>2. k * PAYLD_CHNK = 0
      <4>1. 0 * PAYLD_CHNK = 0
          BY HdrSzNat
      <4> QED BY <2>2, <4>1
    <3>3. FpduLen(f) = h /\ h \in Nat /\ h < PAYLD_CHNK /\ PAYLD_CHNK \in Nat
      <4>1. /\ FpduLen(f) = h + f.len + Pad(f.len) /\ Pad(f.len) = 0
            /\ h \in Nat /\ h < PAYLD_CHNK /\ PAYLD_CHNK \in Nat
          BY <1>4, FrameSizes, HdrSzNat
      <4> HIDE DEF h
      <4> QED BY <1>4, <4>1
    <3>4. Base(f, mp) \in Nat /\ Base(f, mp) = IF mp < h THEN mp + PAYLD_CHNK ELSE mp
        BY MrkrSizes DEF Base
    <3> HIDE DEF h, k, b
    <3> QED BY <3>1, <3>2, <3>3, <3>4
  <2>4. MrkrFpdu(f, mp) = Inner(f, mp)
      BY <2>3 DEF MrkrFpdu, Inner
  <2>5. Clean(MrkrBody(f, mp)) /\ Len(MrkrBody(f, mp)) = 0
    <3>1. Clean(MrkrBody(f, mp)) /\ Len(MrkrBody(f, mp)) = f.len + k * MARKER_SZ
        BY MrkrBodySize
    <3>2. 0 * MARKER_SZ = 0
        BY HdrSzNat
    <3> HIDE DEF k
    <3> QED BY <1>4, <2>2, <3>1, <3>2
  <2>6. MrkrBody(f, mp) = <<>>
    <3>1. PICK S : MrkrBody(f, mp) \in Seq(S)
        BY <2>5 DEF Clean
    <3> QED BY <2>5, <3>1, EmptySeq
  <2>7. PadBytes(f) = <<>>
    <3>1. Pad(h + f.len) = 0
        BY <1>4, FrameSizes
    <3> HIDE DEF h
    <3>2. Bytes(0, [t |-> "pad"]) = <<>>
        BY DEF Bytes
    <3> QED BY <3>1, <3>2 DEF PadBytes, h
  <2>8. MrkrHdr(f, mp) \o <<>> \o <<>> = MrkrHdr(f, mp)
    <3>1. PICK S : MrkrHdr(f, mp) \in Seq(S)
        BY CleanMrkrHdr DEF Clean
    <3> QED BY <3>1
  <2>9. ReadFpdu(f, mp) = MrkrFpdu(f, mp)
      BY <2>1, <2>4, <2>6, <2>7, <2>8 DEF Inner
  <2>10. hdr + ReadMrkrs(f, mp) = num_mrkrs(f, mp)
    <3>1. x = 0
        BY <2>3
    <3> HIDE DEF b, k, h
    <3> QED BY <1>1, <2>1, <2>2, <3>1
  <2> QED BY <2>9, <2>10
<1> QED BY <1>3, <1>4

\* The first byte after a marker that is due at once is the header's.
LEMMA StartOfFpdu ==
    ASSUME NEW f \in Frames, NEW mp \in Nat, Words(mp)
    PROVE  LET b == MrkrFpdu(f, mp)
           IN  Len(b) > StartAt(mp)
               /\ b[StartAt(mp) + 1] = [t |-> "start", tagged |-> f.tagged, len |-> f.len]
<1> DEFINE h == HdrSz(f.tagged)
           st == [t |-> "start", tagged |-> f.tagged, len |-> f.len]
           hd == MrkrHdr(f, mp)
           H == Hdr(f)
           m == Mrkr(mp)
<1>0. h \in Nat \ {0} /\ MARKER_SZ \in Nat \ {0}
    BY HdrSzNat
<1>1. Clean(H) /\ Len(H) = h /\ H[1] = st
  <2>1. 1 \in 1..h
      BY <1>0
  <2> QED BY <2>1, CleanParts DEF Hdr
<1>2. Clean(m) /\ Len(m) = MARKER_SZ
    BY CleanMrkr
<1>3. Clean(hd) /\ Len(hd) > StartAt(mp) /\ hd[StartAt(mp) + 1] = st
  <2>1. Clean(hd) /\ Len(hd) = h + (IF mp < h THEN MARKER_SZ ELSE 0)
      BY CleanMrkrHdr
  <2>2. hd = IF mp < h THEN SubSeq(H, 1, mp) \o m \o SubSeq(H, mp + 1, h) ELSE H
      BY DEF MrkrHdr
  <2>3. PICK S : H \in Seq(S)
      BY <1>1 DEF Clean
  <2>4. PICK T : m \in Seq(T)
      BY <1>2 DEF Clean
  <2> HIDE DEF h, st, hd, H, m
  <2>5. CASE mp = 0
    <3>1. hd = (SubSeq(H, 1, 0) \o m) \o SubSeq(H, 1, h) /\ StartAt(mp) = MARKER_SZ
        BY <1>0, <2>2, <2>5 DEF StartAt
    <3>2. SubSeq(H, 1, 0) = <<>> /\ SubSeq(H, 1, h) = H
        BY <1>0, <1>1, <2>3
    <3>3. hd = m \o H
      <4>1. <<>> \o m = m
          BY <2>4
      <4> QED BY <3>1, <3>2, <4>1
    <3>4. m \in Seq(S \cup T) /\ H \in Seq(S \cup T)
        BY <2>3, <2>4
    <3>5. (m \o H)[MARKER_SZ + 1] = H[1]
        BY <1>0, <1>1, <1>2, <3>4
    <3> QED BY <1>0, <1>1, <2>1, <2>5, <3>1, <3>3, <3>5
  <2>6. CASE mp # 0 /\ mp < h
    <3> DEFINE p == SubSeq(H, 1, mp)
               q == SubSeq(H, mp + 1, h)
    <3>1. hd = (p \o m) \o q /\ StartAt(mp) = 0
        BY <2>2, <2>6 DEF StartAt
    <3>2. p \in Seq(S) /\ q \in Seq(S) /\ Len(p) = mp /\ p[1] = H[1]
        BY <1>0, <1>1, <2>3, <2>6
    <3> HIDE DEF p, q
    <3>3. p \in Seq(S \cup T) /\ q \in Seq(S \cup T) /\ m \in Seq(S \cup T)
        BY <2>4, <3>2
    <3>4. p \o m \in Seq(S \cup T) /\ (p \o m)[1] = H[1] /\ Len(p \o m) >= 1
        BY <3>2, <3>3, <2>6
    <3>5. ((p \o m) \o q)[1] = H[1]
        BY <3>3, <3>4
    <3> QED BY <1>0, <1>1, <2>1, <2>6, <3>1, <3>5
  <2>7. CASE ~(mp < h)
      BY <1>0, <1>1, <2>1, <2>2, <2>7 DEF StartAt
  <2> QED BY <2>5, <2>6, <2>7
<1> DEFINE body == MrkrBody(f, mp)
           pad == PadBytes(f)
           tail == Mrkr(NextMp(f, mp))
           b == MrkrFpdu(f, mp)
<1>4. Clean(body) /\ Clean(pad) /\ Clean(tail)
    BY MrkrBodySize, CleanParts, CleanMrkr
<1>5. b = (hd \o body) \o pad \/ b = ((hd \o body) \o pad) \o tail
    BY DEF MrkrFpdu
<1> DEFINE i == StartAt(mp)
<1>6. i \in Nat
    BY <1>0 DEF StartAt
<1> HIDE DEF h, st, hd, H, m, body, pad, tail, b, i
<1>7. ASSUME NEW s, NEW t, Clean(s), Clean(t), Len(s) > i, s[i + 1] = st
      PROVE  Clean(s \o t) /\ Len(s \o t) > i /\ (s \o t)[i + 1] = st
  <2>1. PICK S : s \in Seq(S)
      BY <1>7 DEF Clean
  <2>2. PICK T : t \in Seq(T)
      BY <1>7 DEF Clean
  <2>3. s \in Seq(S \cup T) /\ t \in Seq(S \cup T)
      BY <2>1, <2>2
  <2>4. Clean(s \o t)
      BY <1>7, CleanConcat
  <2> QED BY <1>6, <1>7, <2>3, <2>4
<1>8. Len(hd) > i /\ hd[i + 1] = st /\ Clean(hd)
    BY <1>3 DEF i
<1>9. Len(hd \o body) > i /\ (hd \o body)[i + 1] = st /\ Clean(hd \o body)
    BY <1>4, <1>7, <1>8
<1>10. /\ Len((hd \o body) \o pad) > i /\ ((hd \o body) \o pad)[i + 1] = st
       /\ Clean((hd \o body) \o pad)
    BY <1>4, <1>7, <1>9
<1>11. /\ Len(((hd \o body) \o pad) \o tail) > i
       /\ (((hd \o body) \o pad) \o tail)[i + 1] = st
    BY <1>4, <1>7, <1>10
<1>12. Len(b) > i /\ b[i + 1] = st
    BY <1>5, <1>10, <1>11
<1> QED BY <1>12 DEF b, i, st

\* The pad a reader of an FPDU without markers expects.
LEMMA PlainPad ==
    ASSUME NEW f \in Frames
    PROVE  Bytes(Pad(f.len), [t |-> "pad"]) = PadBytes(f)
BY FrameSizes DEF PadBytes

\* mem_fill_iovec: the last piece of a sink that starts at a word is padded
\* like the payload.
LEMMA LastIovPad ==
    ASSUME NEW f \in Frames, NEW off \in Offset, off % WORD_SZ = 0
    PROVE  Pad(LastIov(f, off)) = Pad(HdrSz(f.tagged) + f.len)
<1> DEFINE h == HdrSz(f.tagged)
           n == f.len
           z == PAGE_SIZE
           q == (off + n) \div z
           r == (off + n) % z
<1>0. /\ h \in Nat /\ n \in Nat /\ Words(h) /\ Pad(h + n) = Pad(n)
      /\ z \in Nat \ {0} /\ Words(z) /\ off \in Nat
    BY HdrSzNat, FrameSizes, WordsConstants, FramingAssumption
<1>1. Words(off)
    BY <1>0, WordsMod
<1>2. q \in Int /\ r \in Nat /\ off + n = z * q + r
    BY <1>0
<1>3. LastIov(f, off) = IF n = 0 THEN h
                        ELSE IF off + n <= z THEN n
                        ELSE IF r = 0 THEN z
                        ELSE r
    BY DEF LastIov
<1>4. Words(z * q)
  <2>1. z * q = q * z
      BY <1>0, <1>2
  <2> HIDE DEF q, z
  <2> QED BY <1>0, <1>2, <2>1, WordsTimes, Zenon
<1> HIDE DEF h, n, z, q, r
<1>5. z * q \in Int
    BY <1>4 DEF Words
<1>6. CASE n = 0
  <2>1. h + n = h
      BY <1>0, <1>6
  <2> QED BY <1>3, <1>6, <2>1 DEF h, n
<1>7. CASE n # 0 /\ off + n <= z
    BY <1>0, <1>3, <1>7 DEF h, n
<1>8. CASE r = 0 /\ n # 0 /\ ~(off + n <= z)
  <2>1. Words(z + off - (z * q))
      BY <1>0, <1>1, <1>4, WordsSum
  <2>2. z + off - (z * q) = z - n
      BY <1>0, <1>2, <1>5, <1>8
  <2>3. Pad(z) = Pad(n)
      BY <1>0, <2>1, <2>2, PadSame
  <2> QED BY <1>0, <1>3, <1>8, <2>3 DEF h, n
<1>9. CASE r # 0 /\ n # 0 /\ ~(off + n <= z)
  <2>1. Words(off - (z * q))
      BY <1>1, <1>4, WordsSum
  <2>2. off - (z * q) = r - n
      BY <1>0, <1>2, <1>5
  <2>3. Pad(r) = Pad(n)
      BY <1>0, <1>2, <2>1, <2>2, PadSame
  <2> QED BY <1>0, <1>3, <1>9, <2>3 DEF h, n
<1> QED BY <1>6, <1>7, <1>8, <1>9

--------------------------------------------------------------------------------
(* A stream of FPDUs *)

CrcBytes(cr) == IF cr THEN Bytes(CRC_SZ, [t |-> "crc"]) ELSE <<>>

\* What is written for a frame, with markers or without.
FpduBytes(mk, cr, f, mp) ==
    IF mk THEN MrkrFpdu(f, mp) \o CrcBytes(cr)
    ELSE Hdr(f) \o Payld(f) \o PadBytes(f) \o CrcBytes(cr)

\* An FPDU that starts with the next marker mp bytes away leaves it next away.
Moves(f, mp, next) ==
    mp \in Nat /\ Words(mp) /\ FpduLen(f) # mp /\ next = MpAfter(f, mp)

\* The bytes s are those of the frames u one after the other: b are the places
\* where they end, m the positions of the next marker there, which lead the
\* reader from where it is to where the writer is.  No FPDU ends where a marker is
\* due without having counted it.
Cut(s, u, mk, cr, from, to, b, m) ==
    /\ b \in [0..Len(u) -> 0..Len(s)] /\ m \in [0..Len(u) -> Nat]
    /\ b[0] = 0 /\ b[Len(u)] = Len(s)
    /\ \A i, j \in 0..Len(u) : i <= j => b[i] <= b[j]
    /\ \A i \in 1..Len(u) :
         LET c == FpduBytes(mk, cr, u[i], m[i - 1])
         IN  /\ b[i] = b[i - 1] + Len(c)
             /\ \A k \in 1..Len(c) : s[b[i - 1] + k] = c[k]
    /\ mk => /\ m[0] = from /\ m[Len(u)] = to
             /\ \A i \in 0..Len(u) : Words(m[i])
             /\ \A i \in 1..Len(u) : Moves(u[i], m[i - 1], m[i])

Stream(s, u, mk, cr, from, to) ==
    /\ IsSeq(s) /\ u \in Seq(Frames)
    /\ \E b, m : Cut(s, u, mk, cr, from, to, b, m)

\* The CRC.
LEMMA CleanCrcBytes ==
    ASSUME NEW cr \in BOOLEAN
    PROVE  Clean(CrcBytes(cr))
<1>1. CRC_SZ \in Nat
    BY FramingAssumption DEF CRC_SZ
<1>2. Clean(Bytes(CRC_SZ, [t |-> "crc"]))
    BY <1>1, CleanBytes
<1> QED BY <1>2, CleanEmpty DEF CrcBytes

\* Every FPDU has some bytes.
LEMMA FpduSome ==
    ASSUME NEW mk \in BOOLEAN, NEW cr \in BOOLEAN, NEW f \in Frames, NEW mp \in Nat,
           mk => Words(mp)
    PROVE  LET c == FpduBytes(mk, cr, f, mp) IN Clean(c) /\ Len(c) \in Nat /\ Len(c) > 0
<1>0. Clean(CrcBytes(cr))
    BY CleanCrcBytes
<1>1. CASE mk
  <2> DEFINE a == MrkrFpdu(f, mp)
             c == CrcBytes(cr)
  <2>1. Clean(a) /\ Len(a) > StartAt(mp)
      BY <1>1, MrkrFpduSize, StartOfFpdu
  <2>2. StartAt(mp) \in Nat
      BY FramingAssumption DEF StartAt, MARKER_SZ
  <2>3. FpduBytes(mk, cr, f, mp) = a \o c
      BY <1>1 DEF FpduBytes
  <2> HIDE DEF a, c
  <2>4. Clean(a \o c) /\ Len(a \o c) = Len(a) + Len(c) /\ Len(a) \in Nat /\ Len(c) \in Nat
      BY <1>0, <2>1, CleanConcat, CleanLength DEF c
  <2> QED BY <2>1, <2>2, <2>3, <2>4
<1>2. CASE ~mk
  <2> DEFINE h == Hdr(f)
             p == Payld(f)
             q == PadBytes(f)
             c == CrcBytes(cr)
  <2>1. Clean(h) /\ Len(h) \in Nat \ {0} /\ Clean(p) /\ Clean(q) /\ Clean(c)
      BY <1>0, CleanParts, HdrSzNat
  <2>2. FpduBytes(mk, cr, f, mp) = ((h \o p) \o q) \o c
      BY <1>2 DEF FpduBytes
  <2> HIDE DEF h, p, q, c
  <2>3. Clean(h \o p) /\ Len(h \o p) = Len(h) + Len(p) /\ Len(p) \in Nat
      BY <2>1, CleanConcat, CleanLength
  <2>4. Clean((h \o p) \o q) /\ Len((h \o p) \o q) = Len(h \o p) + Len(q) /\ Len(q) \in Nat
      BY <2>1, <2>3, CleanConcat, CleanLength
  <2>5. /\ Clean(((h \o p) \o q) \o c)
        /\ Len(((h \o p) \o q) \o c) = Len((h \o p) \o q) + Len(c) /\ Len(c) \in Nat
      BY <2>1, <2>4, CleanConcat, CleanLength
  <2> QED BY <2>1, <2>2, <2>3, <2>4, <2>5
<1> QED BY <1>1, <1>2

\* Without markers their positions do not matter.
LEMMA StreamPlain ==
    ASSUME NEW s, NEW u, NEW cr, NEW x, NEW y, NEW v, NEW w, Stream(s, u, FALSE, cr, x, y)
    PROVE  Stream(s, u, FALSE, cr, v, w)
BY DEF Stream, Cut

\* Nothing on the way.
LEMMA StreamNone ==
    ASSUME NEW mk \in BOOLEAN, NEW cr, NEW from, NEW to,
           mk => from \in Nat /\ Words(from) /\ from = to
    PROVE  Stream(<<>>, <<>>, mk, cr, from, to)
<1>1. IsSeq(<<>>) /\ <<>> \in Seq(Frames) /\ Len(<<>>) = 0
    BY CleanEmpty DEF IsSeq, Clean
<1> DEFINE b == [i \in {0} |-> 0]
           m == [i \in {0} |-> IF mk THEN from ELSE 0]
<1>2. 0..0 = {0} /\ 1..0 = {}
    OBVIOUS
<1>3. b \in [0..0 -> 0..0] /\ m \in [0..0 -> Nat] /\ b[0] = 0 /\ (mk => m[0] = from)
    BY <1>2
<1> HIDE DEF b, m
<1>4. \A i, j \in 0..0 : i <= j => b[i] <= b[j]
    BY <1>2, <1>3
<1>5. Cut(<<>>, <<>>, mk, cr, from, to, b, m)
    BY <1>1, <1>2, <1>3, <1>4 DEF Cut
<1> QED BY <1>1, <1>5 DEF Stream

\* With no bytes on the way there is no frame, and the reader is where the
\* writer is.
LEMMA StreamEmpty ==
    ASSUME NEW u, NEW mk \in BOOLEAN, NEW cr \in BOOLEAN, NEW from, NEW to,
           Stream(<<>>, u, mk, cr, from, to)
    PROVE  u = <<>> /\ (mk => from = to /\ from \in Nat /\ Words(from))
<1>1. u \in Seq(Frames) /\ Len(<<>>) = 0 /\ Len(u) \in Nat
    BY DEF Stream
<1>2. PICK b, m : Cut(<<>>, u, mk, cr, from, to, b, m)
    BY DEF Stream
<1>3. Len(u) = 0
  <2> SUFFICES ASSUME Len(u) # 0 PROVE FALSE
      OBVIOUS
  <2> DEFINE c == FpduBytes(mk, cr, u[1], m[0])
  <2>1. u[1] \in Frames /\ m[0] \in Nat /\ (mk => Words(m[0])) /\ 1 \in 1..Len(u)
      BY <1>1, <1>2 DEF Cut
  <2>2. Len(c) \in Nat /\ Len(c) > 0
      BY <2>1, FpduSome
  <2>3. b[1] = b[0] + Len(c)
      BY <1>2, <2>1 DEF Cut
  <2>4. b[1] = 0 /\ b[0] = 0
      BY <1>1, <1>2, <2>1 DEF Cut
  <2> HIDE DEF c
  <2> QED BY <2>2, <2>3, <2>4
<1>4. u = <<>>
    BY <1>1, <1>3, EmptySeq
<1>5. mk => from = to /\ from \in Nat /\ Words(from)
    BY <1>1, <1>2, <1>3 DEF Cut
<1> QED BY <1>4, <1>5

\* The writer appends an FPDU.
LEMMA StreamPut ==
    ASSUME NEW s, NEW u, NEW mk \in BOOLEAN, NEW cr \in BOOLEAN, NEW from, NEW to, NEW next,
           NEW f \in Frames, NEW mp \in Nat, Stream(s, u, mk, cr, from, to),
           mk => mp = to /\ Moves(f, to, next)
    PROVE  Stream(s \o FpduBytes(mk, cr, f, mp), Append(u, f), mk, cr, from, next)
<1> DEFINE c == FpduBytes(mk, cr, f, mp)
           v == Append(u, f)
           n == Len(u)
           t == s \o c
<1>1. u \in Seq(Frames) /\ n \in Nat /\ v \in Seq(Frames) /\ Len(v) = n + 1
      /\ v[n + 1] = f /\ \A i \in 1..n : v[i] = u[i]
    BY DEF Stream
<1>2. PICK b, m : Cut(s, u, mk, cr, from, to, b, m)
    BY DEF Stream
<1>3. Clean(c) /\ Len(c) \in Nat /\ Len(c) > 0
  <2>1. mk => Words(mp)
      BY DEF Moves
  <2> QED BY <2>1, FpduSome
<1>4. IsSeq(t) /\ Len(s) \in Nat /\ Len(t) = Len(s) + Len(c)
      /\ (\A i \in 1..Len(s) : t[i] = s[i]) /\ \A i \in 1..Len(c) : t[Len(s) + i] = c[i]
  <2>1. PICK S : s \in Seq(S)
      BY DEF Stream, IsSeq
  <2>2. PICK T : c \in Seq(T)
      BY <1>3 DEF Clean
  <2>3. s \in Seq(S \cup T) /\ c \in Seq(S \cup T)
      BY <2>1, <2>2
  <2> HIDE DEF c
  <2>4. s \o c \in Seq(S \cup T)
      BY <2>3
  <2> QED BY <2>3, <2>4, ConcatProperties DEF IsSeq
<1> HIDE DEF c, v, n, t
<1> DEFINE b2 == [i \in 0..(n + 1) |-> IF i <= n THEN b[i] ELSE Len(t)]
           m2 == [i \in 0..(n + 1) |-> IF i < n THEN m[i]
                                       ELSE IF i = n THEN (IF mk THEN m[n] ELSE mp)
                                       ELSE IF mk THEN next ELSE 0]
<1>5. /\ b \in [0..n -> 0..Len(s)] /\ m \in [0..n -> Nat]
      /\ b[0] = 0 /\ b[n] = Len(s)
      /\ \A i, j \in 0..n : i <= j => b[i] <= b[j]
      /\ mk => /\ m[0] = from /\ m[n] = to
               /\ \A i \in 0..n : Words(m[i])
               /\ \A i \in 1..n : Moves(u[i], m[i - 1], m[i])
    BY <1>2 DEF Cut, n
<1>6. \A i \in 1..n : /\ b[i] = b[i - 1] + Len(FpduBytes(mk, cr, u[i], m[i - 1]))
                      /\ \A k \in 1..Len(FpduBytes(mk, cr, u[i], m[i - 1])) :
                            s[b[i - 1] + k] = FpduBytes(mk, cr, u[i], m[i - 1])[k]
    BY <1>2 DEF Cut, n
<1>7. mk => next \in Nat /\ Words(next)
    BY MrkrFpduSize DEF Moves
<1>8. /\ b2 \in [0..(n + 1) -> 0..Len(t)] /\ m2 \in [0..(n + 1) -> Nat]
      /\ b2[0] = 0 /\ b2[n + 1] = Len(t)
    BY <1>1, <1>3, <1>4, <1>5, <1>7
<1>9. \A i, j \in 0..(n + 1) : i <= j => b2[i] <= b2[j]
  <2>1. TAKE i, j \in 0..(n + 1)
  <2>2. HAVE i <= j
  <2>3. CASE j <= n
    <3>1. i \in 0..n /\ j \in 0..n
        BY <1>1, <2>2, <2>3
    <3> QED BY <1>5, <2>2, <3>1, <2>3
  <2>4. CASE ~(j <= n)
    <3>1. b2[j] = Len(t) /\ b2[i] \in 0..Len(t)
        BY <1>8, <2>4
    <3> HIDE DEF b2
    <3> QED BY <3>1, <1>3, <1>4
  <2> QED BY <2>3, <2>4
<1>10. mk => /\ m2[0] = from /\ m2[n + 1] = next
             /\ \A i \in 0..(n + 1) : Words(m2[i])
             /\ \A i \in 1..(n + 1) : Moves(v[i], m2[i - 1], m2[i])
  <2> SUFFICES ASSUME mk
               PROVE  /\ m2[0] = from /\ m2[n + 1] = next
                      /\ \A i \in 0..(n + 1) : Words(m2[i])
                      /\ \A i \in 1..(n + 1) : Moves(v[i], m2[i - 1], m2[i])
      OBVIOUS
  <2>1. \A i \in 0..n : m2[i] = m[i]
      BY <1>1
  <2>2. m2[n + 1] = next
      BY <1>1
  <2> HIDE DEF m2
  <2>3. \A i \in 0..(n + 1) : i \in 0..n \/ i = n + 1
      BY <1>1
  <2>4. m2[0] = from /\ \A i \in 0..(n + 1) : Words(m2[i])
      BY <1>1, <1>5, <1>7, <2>1, <2>2, <2>3
  <2>5. ASSUME NEW i \in 1..(n + 1) PROVE Moves(v[i], m2[i - 1], m2[i])
    <3>1. CASE i \in 1..n
      <4>1. i \in 0..n /\ i - 1 \in 0..n /\ v[i] = u[i]
          BY <1>1, <3>1
      <4> QED BY <1>5, <2>1, <3>1, <4>1
    <3>2. CASE i = n + 1
      <4>1. i - 1 = n /\ n \in 0..n /\ v[i] = f
          BY <1>1, <3>2
      <4> QED BY <1>5, <2>1, <2>2, <3>2, <4>1
    <3> QED BY <1>1, <3>1, <3>2
  <2> QED BY <2>2, <2>4, <2>5
<1>11. ASSUME NEW i \in 1..(n + 1)
       PROVE  LET d == FpduBytes(mk, cr, v[i], m2[i - 1])
              IN  /\ b2[i] = b2[i - 1] + Len(d)
                  /\ \A k \in 1..Len(d) : t[b2[i - 1] + k] = d[k]
  <2>1. CASE i \in 1..n
    <3>0. i \in 0..n /\ i - 1 \in 0..n /\ i - 1 < n /\ v[i] = u[i]
        BY <1>1, <2>1
    <3>1. b2[i] = b[i] /\ b2[i - 1] = b[i - 1] /\ m2[i - 1] = m[i - 1]
        BY <1>1, <3>0
    <3> DEFINE d == FpduBytes(mk, cr, u[i], m[i - 1])
    <3>2. b[i] = b[i - 1] + Len(d) /\ \A k \in 1..Len(d) : s[b[i - 1] + k] = d[k]
        BY <1>6, <2>1
    <3>3. u[i] \in Frames /\ m[i - 1] \in Nat /\ (mk => Words(m[i - 1]))
        BY <1>1, <1>5, <2>1, <3>0
    <3>4. Len(d) \in Nat
        BY <3>3, FpduSome
    <3>5. b[i - 1] \in 0..Len(s) /\ b[i] \in 0..Len(s)
        BY <1>5, <3>0
    <3> HIDE DEF d, b2, m2
    <3>6. ASSUME NEW k \in 1..Len(d) PROVE t[b[i - 1] + k] = d[k]
      <4>1. b[i - 1] + k \in 1..Len(s)
          BY <1>4, <3>2, <3>4, <3>5
      <4> QED BY <1>4, <3>2, <4>1
    <3>7. b2[i] = b2[i - 1] + Len(d) /\ \A k \in 1..Len(d) : t[b2[i - 1] + k] = d[k]
        BY <3>1, <3>2, <3>6
    <3> QED BY <3>0, <3>1, <3>7 DEF d
  <2>2. CASE i = n + 1
    <3>1. b2[i] = Len(t) /\ b2[i - 1] = Len(s) /\ v[i] = f
        BY <1>1, <1>5, <2>2
    <3>2. m2[i - 1] = mp
        BY <1>1, <1>5, <2>2
    <3> HIDE DEF b2, m2
    <3> QED BY <1>4, <3>1, <3>2 DEF c
  <2>3. i \in 1..n \/ i = n + 1
      BY <1>1
  <2> QED BY <2>1, <2>2, <2>3, Zenon
<1> HIDE DEF b2, m2
<1>12. Cut(t, v, mk, cr, from, next, b2, m2)
    BY <1>1, <1>8, <1>9, <1>10, <1>11 DEF Cut
<1> QED BY <1>1, <1>4, <1>12 DEF Stream, t, v, c

\* The bytes s start with the first frame of u, the bytes r of the others follow.
Leads(s, u, mk, cr, from, to, mp, r) ==
    /\ u # <<>> /\ u[1] \in Frames /\ mp \in Nat /\ IsSeq(r)
    /\ mk => mp = from /\ Words(from) /\ FpduLen(u[1]) # from
    /\ s = FpduBytes(mk, cr, u[1], mp) \o r
    /\ Stream(r, Tail(u), mk, cr, MpAfter(u[1], from), to)

\* The reader finds the bytes of the first frame in front, and behind them those
\* of the others.
LEMMA StreamFront ==
    ASSUME NEW s, NEW u, NEW mk \in BOOLEAN, NEW cr \in BOOLEAN, NEW from, NEW to,
           Stream(s, u, mk, cr, from, to), s # <<>>
    PROVE  \E mp, r : Leads(s, u, mk, cr, from, to, mp, r)
<1> DEFINE n == Len(u)
<1>1. u \in Seq(Frames) /\ n \in Nat
    BY DEF Stream
<1>2. PICK b, m : Cut(s, u, mk, cr, from, to, b, m)
    BY DEF Stream
<1>3. PICK S : s \in Seq(S) /\ Len(s) \in Nat /\ Len(s) # 0
  <2>1. PICK S : s \in Seq(S)
      BY DEF Stream, IsSeq
  <2> QED BY <2>1, EmptySeq
<1>4. /\ b \in [0..n -> 0..Len(s)] /\ m \in [0..n -> Nat]
      /\ b[0] = 0 /\ b[n] = Len(s)
      /\ \A i, j \in 0..n : i <= j => b[i] <= b[j]
      /\ mk => /\ m[0] = from /\ m[n] = to
               /\ \A i \in 0..n : Words(m[i])
               /\ \A i \in 1..n : Moves(u[i], m[i - 1], m[i])
    BY <1>2 DEF Cut
<1>5. \A i \in 1..n : /\ b[i] = b[i - 1] + Len(FpduBytes(mk, cr, u[i], m[i - 1]))
                      /\ \A k \in 1..Len(FpduBytes(mk, cr, u[i], m[i - 1])) :
                            s[b[i - 1] + k] = FpduBytes(mk, cr, u[i], m[i - 1])[k]
    BY <1>2 DEF Cut
<1>6. n # 0
    BY <1>3, <1>4
<1> DEFINE f == u[1]
           mp == m[0]
           c == FpduBytes(mk, cr, f, mp)
           l == Len(c)
           v == Tail(u)
<1>7. f \in Frames /\ mp \in Nat /\ (mk => mp = from /\ Words(mp) /\ Moves(f, mp, m[1]))
  <2>1. 1 \in 1..n /\ 0 \in 0..n /\ 1 - 1 = 0
      BY <1>1, <1>6
  <2> QED BY <1>1, <1>4, <2>1
<1>8. Clean(c) /\ l \in Nat /\ l > 0
    BY <1>7, FpduSome
<1>9. b[1] = l /\ l <= Len(s) /\ \A k \in 1..l : s[k] = c[k]
  <2>1. 1 \in 1..n /\ 1 \in 0..n /\ 1 - 1 = 0
      BY <1>1, <1>6
  <2>2. b[1] = b[0] + l /\ \A k \in 1..l : s[b[0] + k] = c[k]
      BY <1>5, <2>1
  <2> HIDE DEF c, l
  <2>3. b[1] = l /\ \A k \in 1..l : s[k] = c[k]
      BY <1>4, <1>8, <2>2
  <2> QED BY <1>3, <1>4, <2>1, <2>3
<1> DEFINE r == SubSeq(s, l + 1, Len(s))
<1>10. r \in Seq(S) /\ Len(r) = Len(s) - l /\ \A i \in 1..Len(r) : r[i] = s[l + i]
  <2> HIDE DEF l
  <2> QED BY <1>3, <1>8, <1>9
<1>11. s = c \o r
  <2>1. PICK T : c \in Seq(T)
      BY <1>8 DEF Clean
  <2>2. Len(c) = l
      OBVIOUS
  <2> HIDE DEF c, r, l
  <2>3. c \in Seq(S \cup T) /\ r \in Seq(S \cup T) /\ s \in Seq(S \cup T)
      BY <1>3, <1>10, <2>1
  <2>4. /\ Len(c \o r) = Len(s)
        /\ c \o r \in Seq(S \cup T)
        /\ \A i \in 1..Len(s) : (c \o r)[i] = IF i <= l THEN c[i] ELSE r[i - l]
      BY <1>3, <1>8, <1>9, <1>10, <2>2, <2>3
  <2>5. \A i \in 1..Len(s) : (c \o r)[i] = s[i]
    <3>1. TAKE i \in 1..Len(s)
    <3>2. CASE i <= l
      <4>1. i \in 1..l
          BY <1>3, <1>8, <3>2
      <4> QED BY <1>9, <2>4, <3>2, <4>1
    <3>3. CASE ~(i <= l)
      <4>1. i - l \in 1..Len(r) /\ l + (i - l) = i
          BY <1>3, <1>8, <1>9, <1>10, <3>3
      <4>2. r[i - l] = s[l + (i - l)]
          BY <1>10, <4>1
      <4> QED BY <2>4, <3>3, <4>1, <4>2
    <3> QED BY <3>2, <3>3
  <2> QED BY <2>3, <2>4, <2>5, SeqEqual
<1>12. v \in Seq(Frames) /\ Len(v) = n - 1 /\ \A i \in 1..(n - 1) : v[i] = u[i + 1]
    BY <1>1, <1>6
<1> HIDE DEF n, f, mp, c, l, v, r
<1> DEFINE b2 == [i \in 0..(n - 1) |-> b[i + 1] - l]
           m2 == [i \in 0..(n - 1) |-> m[i + 1]]
           next == MpAfter(f, from)
<1>13. \A i \in 0..(n - 1) : i + 1 \in 0..n /\ i + 1 \in 1..n /\ 1 <= i + 1 /\ 1 \in 0..n
    BY <1>1, <1>6
<1>14. b2 \in [0..(n - 1) -> 0..Len(r)]
  <2>1. ASSUME NEW i \in 0..(n - 1) PROVE b[i + 1] - l \in 0..Len(r)
    <3>1. b[1] <= b[i + 1] /\ b[i + 1] \in 0..Len(s)
        BY <1>4, <1>13
    <3> QED BY <1>3, <1>8, <1>9, <1>10, <3>1
  <2> QED BY <2>1
<1>15. m2 \in [0..(n - 1) -> Nat]
    BY <1>4, <1>13
<1>16. b2[0] = 0 /\ b2[n - 1] = Len(r)
  <2>1. 0 \in 0..(n - 1) /\ n - 1 \in 0..(n - 1) /\ (n - 1) + 1 = n /\ 0 + 1 = 1
      BY <1>1, <1>6
  <2> QED BY <2>1, <1>3, <1>4, <1>8, <1>9, <1>10
<1>17. \A i, j \in 0..(n - 1) : i <= j => b2[i] <= b2[j]
  <2>1. TAKE i, j \in 0..(n - 1)
  <2>2. HAVE i <= j
  <2>3. b[i + 1] <= b[j + 1]
    <3>1. i + 1 \in 0..n /\ j + 1 \in 0..n /\ i + 1 <= j + 1
        BY <1>13, <2>2
    <3> QED BY <1>4, <3>1
  <2>4. b[i + 1] \in Nat /\ b[j + 1] \in Nat
      BY <1>3, <1>4, <1>13
  <2> QED BY <1>8, <2>3, <2>4
<1>18. mk => /\ m2[0] = next /\ m2[n - 1] = to
             /\ \A i \in 0..(n - 1) : Words(m2[i])
             /\ \A i \in 1..(n - 1) : Moves(v[i], m2[i - 1], m2[i])
  <2> SUFFICES ASSUME mk
               PROVE  /\ m2[0] = next /\ m2[n - 1] = to
                      /\ \A i \in 0..(n - 1) : Words(m2[i])
                      /\ \A i \in 1..(n - 1) : Moves(v[i], m2[i - 1], m2[i])
      OBVIOUS
  <2>1. 0 \in 0..(n - 1) /\ n - 1 \in 0..(n - 1) /\ (n - 1) + 1 = n /\ 0 + 1 = 1
      BY <1>1, <1>6
  <2>2. m2[0] = m[1] /\ m[1] = next
      BY <1>7, <2>1 DEF Moves
  <2>3. m2[n - 1] = to
      BY <1>4, <2>1
  <2>4. \A i \in 0..(n - 1) : Words(m2[i])
      BY <1>4, <1>13
  <2>5. ASSUME NEW i \in 1..(n - 1) PROVE Moves(v[i], m2[i - 1], m2[i])
    <3>1. /\ i \in 0..(n - 1) /\ i - 1 \in 0..(n - 1) /\ (i - 1) + 1 = i
          /\ i + 1 \in 1..n /\ (i + 1) - 1 = i
        BY <1>1, <1>6
    <3>2. m2[i] = m[i + 1] /\ m2[i - 1] = m[i] /\ v[i] = u[i + 1]
        BY <1>12, <3>1
    <3>3. Moves(u[i + 1], m[(i + 1) - 1], m[i + 1])
        BY <1>4, <3>1
    <3> QED BY <3>1, <3>2, <3>3
  <2> QED BY <2>2, <2>3, <2>4, <2>5
<1>19. ASSUME NEW i \in 1..(n - 1)
       PROVE  LET d == FpduBytes(mk, cr, v[i], m2[i - 1])
              IN  /\ b2[i] = b2[i - 1] + Len(d)
                  /\ \A k \in 1..Len(d) : r[b2[i - 1] + k] = d[k]
  <2>1. /\ i \in 0..(n - 1) /\ i - 1 \in 0..(n - 1) /\ (i - 1) + 1 = i
        /\ i + 1 \in 1..n /\ (i + 1) - 1 = i /\ i \in 0..n /\ i + 1 \in 0..n /\ 1 <= i /\ 1 \in 0..n
      BY <1>1, <1>6
  <2>2. /\ m2[i - 1] = m[i] /\ v[i] = u[i + 1]
        /\ b2[i] = b[i + 1] - l /\ b2[i - 1] = b[i] - l
      BY <1>12, <2>1
  <2> DEFINE d == FpduBytes(mk, cr, u[i + 1], m[i])
  <2>3. b[i + 1] = b[i] + Len(d) /\ \A k \in 1..Len(d) : s[b[i] + k] = d[k]
    <3>1. PICK j \in 1..n : j = i + 1 /\ j - 1 = i
        BY <2>1
    <3>2. /\ b[j] = b[j - 1] + Len(FpduBytes(mk, cr, u[j], m[j - 1]))
          /\ \A k \in 1..Len(FpduBytes(mk, cr, u[j], m[j - 1])) :
                s[b[j - 1] + k] = FpduBytes(mk, cr, u[j], m[j - 1])[k]
        BY <1>5 DEF n
    <3> QED BY <3>1, <3>2
  <2>4. u[i + 1] \in Frames /\ m[i] \in Nat /\ (mk => Words(m[i]))
      BY <1>1, <1>4, <2>1 DEF n
  <2>5. Len(d) \in Nat
      BY <2>4, FpduSome
  <2>6. b[i] \in 0..Len(s) /\ b[i + 1] \in 0..Len(s) /\ l <= b[i]
      BY <1>4, <1>9, <2>1
  <2> HIDE DEF d, b2, m2
  <2>7. b2[i] = b2[i - 1] + Len(d)
      BY <1>3, <1>8, <2>2, <2>3, <2>5, <2>6
  <2>8. ASSUME NEW k \in 1..Len(d) PROVE r[b2[i - 1] + k] = d[k]
    <3>1. b2[i - 1] + k \in 1..Len(r) /\ l + (b2[i - 1] + k) = b[i] + k
      <4>1. PICK x \in Int, y \in Int, z \in Int, p \in Int :
                x = b[i] /\ y = b[i + 1] /\ z = Len(s) /\ p = Len(r)
          BY <1>3, <1>8, <1>10, <2>6
      <4>2. /\ b2[i - 1] = x - l /\ l <= x /\ y = x + Len(d) /\ y <= z /\ p = z - l
          BY <4>1, <2>2, <2>3, <2>6, <1>10
      <4>3. (x - l) + k \in 1..p /\ l + ((x - l) + k) = x + k
          BY <1>8, <2>5, <4>2
      <4> QED BY <4>1, <4>2, <4>3
    <3>2. r[b2[i - 1] + k] = s[l + (b2[i - 1] + k)]
        BY <1>10, <3>1
    <3> QED BY <2>3, <3>1, <3>2
  <2> QED BY <2>2, <2>7, <2>8 DEF d
<1> HIDE DEF b2, m2
<1>20. Cut(r, v, mk, cr, next, to, b2, m2)
  <2>1. Len(v) = n - 1
      BY <1>12
  <2> HIDE DEF next
  <2> QED BY <2>1, <1>14, <1>15, <1>16, <1>17, <1>18, <1>19 DEF Cut
<1>21. IsSeq(r)
    BY <1>10 DEF IsSeq
<1>22. Stream(r, v, mk, cr, next, to)
    BY <1>12, <1>20, <1>21 DEF Stream
<1>23. u # <<>>
    BY <1>6 DEF n
<1>24. mk => mp = from /\ Words(from) /\ FpduLen(f) # from
    BY <1>7 DEF Moves
<1>25. Leads(s, u, mk, cr, from, to, mp, r)
    BY <1>7, <1>11, <1>21, <1>22, <1>23, <1>24 DEF Leads, f, v, c, next
<1> QED BY <1>25

--------------------------------------------------------------------------------
(* The invariant of the streams *)

Zero == [send_sp |-> 0, send_mp |-> 0, recv_sp |-> 0, recv_mp |-> 0]

Tables ==
    /\ lost = [e \in End |-> lost[e]]
    /\ unread = [e \in End |-> unread[e]]
    /\ trouble = [e \in End |-> trouble[e]]

\* The initiator keeps its socket while it waits.
Attached == phase["ini"] \in {"start", "wait"} => open["ini"]

\* The bytes s on their way to an end are the frames it has not read, and it is
\* where it has to be to read them.
Flow(e, s) ==
    /\ ~lost[e]
    /\ mpask[e].recv_sp \in Int /\ mpask[e].recv_mp \in Int
    /\ Stream(s, unread[e], use_mrkr[Peer(e)], use_crc[Peer(e)], RecvMp(e), SendMp(Peer(e)))

\* A reset took everything, and nothing will follow.
Dropped(e) == ~lost[e] /\ wire[e] = <<>> /\ ~(open[e] /\ open[Peer(e)])

Link(e) == trouble[e] = {} => Flow(e, wire[e]) \/ Dropped(e)

\* Before the responder has read the request, it is all there is.
Unasked ==
    phase["res"] = "start" =>
        /\ phase["ini"] = "wait" =>
             wire["res"] = Rrf("req", "ini", use_mrkr["ini"], use_crc["ini"])
        /\ mpask = [e \in End |-> Zero]
        /\ \A e \in End : ~lost[e] /\ unread[e] = <<>>

\* While the initiator waits for the reply of a responder that accepted, it has
\* written nothing, and what the responder wrote follows the reply.
Between ==
    (phase["ini"] = "wait" /\ ret["res"] = "ok") =>
        /\ wire["res"] = <<>> /\ unread["res"] = <<>> /\ ~lost["res"]
        /\ mpask["ini"] = Zero /\ mpask["res"].recv_sp = 0 /\ mpask["res"].recv_mp = 0
        /\ \E s : /\ IsSeq(s)
                  /\ wire["ini"] = Rrf("rep", "res", use_mrkr["res"], use_crc["res"]) \o s
                  /\ trouble["ini"] = {} => Flow("ini", s)

\* From then on each stream is in order.
Running == ret["ini"] = "ok" => \A e \in End : Link(e)

StepInv == StartupInv /\ Tables /\ Attached /\ Unasked /\ Between /\ Running

\* What a step does not touch keeps flowing.
LEMMA FlowKept ==
    ASSUME NEW e \in End, NEW s, Flow(e, s),
           lost'[e] = lost[e], unread'[e] = unread[e],
           mpask'[e].recv_sp = mpask[e].recv_sp, mpask'[e].recv_mp = mpask[e].recv_mp,
           mpask'[Peer(e)].send_sp = mpask[Peer(e)].send_sp,
           mpask'[Peer(e)].send_mp = mpask[Peer(e)].send_mp,
           use_mrkr'[Peer(e)] = use_mrkr[Peer(e)], use_crc'[Peer(e)] = use_crc[Peer(e)]
    PROVE  Flow(e, s)'
<1>1. RecvMp(e)' = RecvMp(e) /\ SendMp(Peer(e))' = SendMp(Peer(e))
    BY DEF RecvMp, SendMp
<1> QED BY <1>1 DEF Flow

\* The same for a link.
LEMMA LinkKept ==
    ASSUME NEW e \in End, Link(e), trouble[e] \subseteq trouble'[e], wire'[e] = wire[e],
           lost'[e] = lost[e], unread'[e] = unread[e],
           mpask'[e].recv_sp = mpask[e].recv_sp, mpask'[e].recv_mp = mpask[e].recv_mp,
           mpask'[Peer(e)].send_sp = mpask[Peer(e)].send_sp,
           mpask'[Peer(e)].send_mp = mpask[Peer(e)].send_mp,
           use_mrkr'[Peer(e)] = use_mrkr[Peer(e)], use_crc'[Peer(e)] = use_crc[Peer(e)],
           open'[e] => open[e], open'[Peer(e)] => open[Peer(e)]
    PROVE  Link(e)'
<1> SUFFICES ASSUME trouble'[e] = {} PROVE (Flow(e, wire[e]) \/ Dropped(e))'
    BY DEF Link
<1>1. trouble[e] = {}
    OBVIOUS
<1>2. CASE Flow(e, wire[e])
  <2>1. PICK s : s = wire[e]
      OBVIOUS
  <2>2. Flow(e, s)
      BY <1>2, <2>1
  <2>3. Flow(e, s)'
      BY <2>2, FlowKept
  <2> QED BY <2>1, <2>3 DEF Flow
<1>3. CASE Dropped(e)
    BY <1>3 DEF Dropped
<1> QED BY <1>1, <1>2, <1>3 DEF Link

\* The position of the next marker, as writing moves it.
LEMMA SendMoves ==
    ASSUME Positions, NEW e \in End, NEW x \in Int, NEW y \in Int,
           mpask' = [mpask EXCEPT ![e].send_mp = (@ + x) % Wrap, ![e].send_sp = (@ + y) % Wrap]
    PROVE  SendMp(e)' = (SendMp(e) + x - y) % Wrap
<1>0. Wrap \in Nat \ {0}
    BY FramingAssumption
<1>1. PICK S : mpask \in [End -> [send_sp : Int, send_mp : Int, recv_sp : S, recv_mp : S]]
    BY DEF Positions
<1>2. PICK a \in Int, b \in Int : a = mpask[e].send_mp /\ b = mpask[e].send_sp
    BY <1>1
<1>3. mpask'[e].send_mp = (a + x) % Wrap /\ mpask'[e].send_sp = (b + y) % Wrap
    BY <1>1, <1>2
<1>4. (((a + x) % Wrap) - ((b + y) % Wrap)) % Wrap = (((a - b) % Wrap) + x - y) % Wrap
    BY <1>0, ModDifference
<1>5. SendMp(e)' = (((a + x) % Wrap) - ((b + y) % Wrap)) % Wrap
    BY <1>3 DEF SendMp
<1>6. SendMp(e) = (a - b) % Wrap
    BY <1>2 DEF SendMp
<1> QED BY <1>4, <1>5, <1>6

\* and reading.
LEMMA RecvMoves ==
    ASSUME Positions, NEW e \in End, NEW x \in Int, NEW y \in Int,
           mpask[e].recv_sp \in Int, mpask[e].recv_mp \in Int,
           mpask' = [mpask EXCEPT ![e].recv_sp = (@ + y) % Wrap, ![e].recv_mp = (@ + x) % Wrap]
    PROVE  /\ RecvMp(e)' = (RecvMp(e) + x - y) % Wrap
           /\ mpask'[e].recv_sp \in Int /\ mpask'[e].recv_mp \in Int
<1>0. Wrap \in Nat \ {0}
    BY FramingAssumption
<1>1. PICK S : mpask \in [End -> [send_sp : Int, send_mp : Int, recv_sp : S, recv_mp : S]]
    BY DEF Positions
<1>2. PICK a \in Int, b \in Int : a = mpask[e].recv_mp /\ b = mpask[e].recv_sp
    OBVIOUS
<1>3. mpask'[e].recv_mp = (a + x) % Wrap /\ mpask'[e].recv_sp = (b + y) % Wrap
    BY <1>1, <1>2
<1>4. (((a + x) % Wrap) - ((b + y) % Wrap)) % Wrap = (((a - b) % Wrap) + x - y) % Wrap
    BY <1>0, ModDifference
<1>5. RecvMp(e)' = (((a + x) % Wrap) - ((b + y) % Wrap)) % Wrap
    BY <1>3 DEF RecvMp
<1>6. RecvMp(e) = (a - b) % Wrap
    BY <1>2 DEF RecvMp
<1>7. (a + x) % Wrap \in Int /\ (b + y) % Wrap \in Int
    BY <1>0
<1> QED BY <1>3, <1>4, <1>5, <1>6, <1>7

\* What a reader of n bytes sees of a stream that starts with c, and what it
\* leaves.
LEMMA Front ==
    ASSUME NEW e \in End, NEW c, NEW r, Clean(c), IsSeq(r), wire[e] = c \o r
    PROVE  /\ Ahead(e, Len(c)) = c
           /\ SubSeq(wire[e], Len(c) + 1, Len(wire[e])) = r
           /\ Len(wire[e]) \in Nat /\ Len(c) \in Nat /\ Len(c) <= Len(wire[e])
           /\ \A i \in 1..Len(c) : wire[e][i] = c[i]
<1>1. PICK S : c \in Seq(S)
    BY DEF Clean
<1>2. PICK T : r \in Seq(T)
    BY DEF IsSeq
<1>3. c \in Seq(S \cup T) /\ r \in Seq(S \cup T)
    BY <1>1, <1>2
<1>4. /\ Len(wire[e]) = Len(c) + Len(r) /\ Len(c) \in Nat /\ Len(r) \in Nat
      /\ wire[e] \in Seq(S \cup T)
      /\ \A i \in 1..Len(c) : wire[e][i] = c[i]
      /\ \A i \in 1..Len(r) : wire[e][Len(c) + i] = r[i]
    BY <1>3
<1>5. Ahead(e, Len(c)) = SubSeq(wire[e], 1, Len(c))
    BY <1>4 DEF Ahead, Least
<1>6. SubSeq(wire[e], 1, Len(c)) = c
  <2> DEFINE a == SubSeq(wire[e], 1, Len(c))
  <2>1. a \in Seq(S \cup T) /\ Len(a) = Len(c) /\ \A i \in 1..Len(c) : a[i] = wire[e][i]
      BY <1>4
  <2> HIDE DEF a
  <2>2. a = c
      BY <1>3, <1>4, <2>1, SeqEqual
  <2> QED BY <2>2 DEF a
<1>7. SubSeq(wire[e], Len(c) + 1, Len(wire[e])) = r
  <2> DEFINE a == SubSeq(wire[e], Len(c) + 1, Len(wire[e]))
  <2>1. a \in Seq(S \cup T) /\ Len(a) = Len(r) /\ \A i \in 1..Len(r) : a[i] = wire[e][Len(c) + i]
      BY <1>4
  <2> HIDE DEF a
  <2>2. a = r
      BY <1>3, <1>4, <2>1, SeqEqual
  <2> QED BY <2>2 DEF a
<1> QED BY <1>4, <1>5, <1>6, <1>7

\* The initial positions.
LEMMA ZeroMp ==
    ASSUME NEW e \in End
    PROVE  /\ (mpask[e].send_sp = 0 /\ mpask[e].send_mp = 0) => SendMp(e) = 0
           /\ (mpask[e].recv_sp = 0 /\ mpask[e].recv_mp = 0) => RecvMp(e) = 0
<1>1. Wrap \in Nat \ {0}
    BY FramingAssumption
<1>2. (0 - 0) % Wrap = 0
  <2>1. 0 - 0 = 0 * Wrap + 0 /\ 0 - 0 \in Int
      BY <1>1
  <2>2. (0 - 0) % Wrap = 0
      BY <1>1, <2>1, DivModUnique
  <2> QED BY <2>2
<1> QED BY <1>2 DEF SendMp, RecvMp

--------------------------------------------------------------------------------
(* Writing *)

\* An FPDU is appended to the stream, in the writer's flags and at its position.
LEMMA SendFlow ==
    ASSUME StepInv, NEW e \in End, NEW f \in Frames, mpa_send(e, f)
    PROVE  \E c : /\ Clean(c)
                  /\ wire' = [wire EXCEPT ![Peer(e)] = @ \o c]
                  /\ trouble[Peer(e)] \subseteq trouble'[Peer(e)]
                  /\ \A s : (Flow(Peer(e), s) /\ trouble'[Peer(e)] = {}) => Flow(Peer(e), s \o c)'
<1> DEFINE p == Peer(e)
           mp == SendMp(e)
           mk == use_mrkr[e]
           cr == use_crc[e]
<1>0. p \in End /\ Peer(p) = e /\ p # e
    BY DEF Peer, End
<1>1. /\ Positions /\ use_mrkr \in [End -> BOOLEAN] /\ use_crc \in [End -> BOOLEAN]
      /\ unread = [x \in End |-> unread[x]] /\ trouble = [x \in End |-> trouble[x]]
      /\ lost = [x \in End |-> lost[x]]
    BY DEF StepInv, StartupInv, Shapes, Tables
<1>2. mk \in BOOLEAN /\ cr \in BOOLEAN
    BY <1>1
<1>3. PICK S : mpask \in [End -> [send_sp : Int, send_mp : Int, recv_sp : S, recv_mp : S]]
    BY <1>1 DEF Positions
<1>4. mp \in Nat
  <2>1. Wrap \in Nat \ {0} /\ mpask[e].send_mp - mpask[e].send_sp \in Int
      BY <1>3, FramingAssumption
  <2> QED BY <2>1 DEF SendMp
<1>5. UNCHANGED <<use_mrkr, use_crc, lost>>
    BY DEF mpa_send, wrt_mrkr_fpdu, wrt_plain_fpdu
<1>6. Crc(e) = CrcBytes(cr) /\ Clean(CrcBytes(cr))
    BY <1>2, CleanCrcBytes DEF Crc, CrcBytes
<1>7. ASSUME NEW c, Put(e, f, c)
      PROVE  wire' = [wire EXCEPT ![p] = @ \o c] /\ unread'[p] = Append(unread[p], f)
    BY <1>0, <1>1, <1>7 DEF Put
<1>8. CASE wrt_mrkr_fpdu(e, f)
  <2>1. mk /\ Sent(e, f, mp)
      BY <1>8 DEF wrt_mrkr_fpdu
  <2>2. Clean(MrkrFpdu(f, mp))
      BY <1>4, CleanMrkrFpdu
  <2>3. CASE ~cr \/ FpduLen(f) = mp
    <3>1. \E c : Clean(c) /\ Put(e, f, c)
      <4>1. CASE cr
          BY <2>2, <4>1, <1>6, <1>8, CleanConcat DEF wrt_mrkr_fpdu
      <4>2. CASE ~cr
        <5>1. PICK n \in Stale : Put(e, f, MrkrFpdu(f, mp) \o Bytes(n, [t |-> "stale"]))
            BY <4>2, <1>8 DEF wrt_mrkr_fpdu
        <5>2. n \in Nat
            BY FramingAssumption
        <5>3. Clean(Bytes(n, [t |-> "stale"]))
            BY <5>2, CleanBytes
        <5> QED BY <2>2, <5>1, <5>3, CleanConcat
      <4> QED BY <4>1, <4>2
    <3>2. \E what : trouble' = [trouble EXCEPT ![p] = @ \cup what] /\ what # {}
      <4> DEFINE at == IF FpduLen(f) = mp THEN {"ends at a marker"} ELSE {}
      <4>1. CASE cr
        <5>1. Note(p, at)
            BY <1>8, <4>1 DEF wrt_mrkr_fpdu
        <5>2. at # {}
            BY <2>3, <4>1
        <5> QED BY <5>1, <5>2 DEF Note
      <4>2. CASE ~cr
        <5>1. Note(p, at \cup {"overlong"})
            BY <1>8, <4>2 DEF wrt_mrkr_fpdu
        <5>2. at \cup {"overlong"} # {}
            OBVIOUS
        <5> QED BY <5>1, <5>2 DEF Note
      <4> QED BY <4>1, <4>2
    <3>3. trouble'[p] # {} /\ trouble[p] \subseteq trouble'[p]
      <4>1. PICK what : trouble' = [trouble EXCEPT ![p] = @ \cup what] /\ what # {}
          BY <3>2
      <4>2. trouble'[p] = trouble[p] \cup what
          BY <4>1, <1>0, <1>1
      <4> QED BY <4>1, <4>2
    <3>4. PICK c : Clean(c) /\ Put(e, f, c)
        BY <3>1
    <3>5. wire' = [wire EXCEPT ![p] = @ \o c]
        BY <1>7, <3>4
    <3> QED BY <3>3, <3>4, <3>5
  <2>4. CASE cr /\ FpduLen(f) # mp
    <3>0. PICK c : c = MrkrFpdu(f, mp) \o CrcBytes(cr)
        OBVIOUS
    <3>1. Put(e, f, c) /\ trouble' = [trouble EXCEPT ![p] = @ \cup {}]
        BY <1>6, <1>8, <2>4, <3>0 DEF wrt_mrkr_fpdu, Note
    <3>2. Clean(c)
        BY <3>0, <1>6, <2>2, CleanConcat
    <3>3. c = FpduBytes(mk, cr, f, mp)
        BY <2>1, <3>0 DEF FpduBytes
    <3>4. trouble'[p] = trouble[p]
        BY <1>0, <1>1, <3>1
    <3> DEFINE x == num_mrkrs(f, mp) * MARKER_PERIOD
               y == Len(MrkrFpdu(f, mp))
    <3>5. mpask' = [mpask EXCEPT ![e].send_mp = (@ + x) % Wrap, ![e].send_sp = (@ + y) % Wrap]
        BY <2>1 DEF Sent
    <3>6. y \in Int /\ x \in Int
      <4>1. num_mrkrs(f, mp) \in Int
        <5>1. FpduLen(f) \in Nat /\ PAYLD_CHNK \in Nat \ {0}
            BY FrameSizes, HdrSzNat
        <5> HIDE DEF mp
        <5> QED BY <1>4, <5>1 DEF num_mrkrs
      <4>2. MARKER_PERIOD \in Int
          BY FramingAssumption
      <4>3. y \in Int
          BY <2>2, CleanLen
      <4> HIDE DEF mp
      <4> QED BY <4>1, <4>2, <4>3
    <3>7. SendMp(e)' = MpAfter(f, mp)
      <4> HIDE DEF x, y
      <4>1. SendMp(e)' = (mp + x - y) % Wrap
          BY <1>1, <3>5, <3>6, SendMoves
      <4> QED BY <4>1 DEF x, y, MpAfter
    <3>8. mpask'[p] = mpask[p]
        BY <1>0, <1>3, <3>5
    <3> HIDE DEF x, y
    <3>9. ASSUME NEW s, Flow(p, s) PROVE Flow(p, s \o c)'
      <4>1. Stream(s, unread[p], mk, cr, RecvMp(p), mp)
          BY <1>0, <3>9 DEF Flow
      <4>2. mp \in Nat /\ Words(mp)
        <5>1. PICK u, from, to : u = unread[p] /\ from = RecvMp(p) /\ to = mp
            OBVIOUS
        <5>2. Stream(s, u, mk, cr, from, to)
            BY <4>1, <5>1
        <5>3. PICK b, m : Cut(s, u, mk, cr, from, to, b, m)
            BY <5>2 DEF Stream
        <5>4. Len(u) \in Nat
            BY <5>2 DEF Stream
        <5>5. Words(m[Len(u)]) /\ m[Len(u)] = to
            BY <2>1, <5>3, <5>4 DEF Cut
        <5> QED BY <1>4, <5>1, <5>5
      <4>3. Moves(f, mp, SendMp(e)')
          BY <2>4, <3>7, <4>2 DEF Moves
      <4>4. PICK u, from, to, next : /\ u = unread[p] /\ from = RecvMp(p) /\ to = mp
                                     /\ next = SendMp(e)'
          OBVIOUS
      <4>5. Stream(s \o FpduBytes(mk, cr, f, to), Append(u, f), mk, cr, from, next)
        <5>1. Stream(s, u, mk, cr, from, to) /\ Moves(f, to, next) /\ to \in Nat
            BY <1>4, <4>1, <4>3, <4>4
        <5> QED BY <1>2, <5>1, StreamPut
      <4>6. unread'[p] = Append(u, f) /\ RecvMp(p)' = from /\ SendMp(Peer(p))' = next
        <5>1. unread'[p] = Append(unread[p], f)
            BY <1>7, <3>1
        <5> QED BY <1>0, <3>8, <4>4, <5>1 DEF RecvMp
      <4>7. Stream(s \o c, unread'[p], use_mrkr'[Peer(p)], use_crc'[Peer(p)], RecvMp(p)',
                   SendMp(Peer(p))')
          BY <1>0, <1>5, <3>3, <4>4, <4>5, <4>6
      <4>8. ~lost'[p] /\ mpask'[p].recv_sp \in Int /\ mpask'[p].recv_mp \in Int
          BY <1>5, <3>8, <3>9 DEF Flow
      <4> QED BY <4>7, <4>8 DEF Flow
    <3>10. wire' = [wire EXCEPT ![p] = @ \o c]
        BY <1>7, <3>1
    <3> QED BY <3>2, <3>4, <3>9, <3>10
  <2> QED BY <2>3, <2>4
<1>9. CASE wrt_plain_fpdu(e, f)
  <2>0. PICK c : c = Hdr(f) \o Payld(f) \o PadBytes(f) \o CrcBytes(cr)
      OBVIOUS
  <2>1. /\ mk = FALSE /\ trouble' = trouble
        /\ mpask' = mpask \/ \E sp : mpask' = [mpask EXCEPT ![e].send_sp = sp]
      BY <1>2, <1>9 DEF wrt_plain_fpdu
  <2>2. Put(e, f, c)
      BY <1>6, <1>9, <2>0 DEF wrt_plain_fpdu
  <2>3. c = FpduBytes(FALSE, cr, f, 0)
      BY <2>0 DEF FpduBytes
  <2>4. Clean(c)
      BY <1>6, <2>0, CleanPlainFpdu
  <2>5. mpask'[p] = mpask[p]
      BY <1>0, <1>3, <2>1
  <2>6. ASSUME NEW s, Flow(p, s) PROVE Flow(p, s \o c)'
    <3>1. Stream(s, unread[p], FALSE, cr, RecvMp(p), mp)
        BY <1>0, <2>1, <2>6 DEF Flow
    <3>2. PICK u, from, to, next : /\ u = unread[p] /\ from = RecvMp(p) /\ to = mp
                                   /\ next = SendMp(e)'
        OBVIOUS
    <3>3. Stream(s \o FpduBytes(FALSE, cr, f, 0), Append(u, f), FALSE, cr, from, next)
      <4>1. Stream(s, u, FALSE, cr, from, to)
          BY <3>1, <3>2
      <4>2. 0 \in Nat /\ FALSE \in BOOLEAN
          OBVIOUS
      <4> QED BY <1>2, <4>1, <4>2, StreamPut
    <3>4. unread'[p] = Append(u, f) /\ RecvMp(p)' = from /\ SendMp(Peer(p))' = next
      <4>1. unread'[p] = Append(unread[p], f)
          BY <1>7, <2>2
      <4> QED BY <1>0, <2>5, <3>2, <4>1 DEF RecvMp
    <3>5. Stream(s \o c, unread'[p], use_mrkr'[Peer(p)], use_crc'[Peer(p)], RecvMp(p)',
                 SendMp(Peer(p))')
        BY <1>0, <1>5, <2>1, <2>3, <3>3, <3>4
    <3>6. ~lost'[p] /\ mpask'[p].recv_sp \in Int /\ mpask'[p].recv_mp \in Int
        BY <1>5, <2>5, <2>6 DEF Flow
    <3> QED BY <3>5, <3>6 DEF Flow
  <2>7. wire' = [wire EXCEPT ![p] = @ \o c]
      BY <1>7, <2>2
  <2> QED BY <2>1, <2>4, <2>6, <2>7
<1> QED BY <1>8, <1>9 DEF mpa_send

\* Appending to what is left behind a frame.
LEMMA ConcatAssoc ==
    ASSUME NEW r, NEW s, NEW t, IsSeq(r), IsSeq(s), Clean(t)
    PROVE  (r \o s) \o t = r \o (s \o t) /\ IsSeq(s \o t)
<1>1. PICK R : r \in Seq(R)
    BY DEF IsSeq
<1>2. PICK S : s \in Seq(S)
    BY DEF IsSeq
<1>3. PICK T : t \in Seq(T)
    BY DEF Clean
<1>4. PICK A : A = R \cup S \cup T
    OBVIOUS
<1>5. r \in Seq(A) /\ s \in Seq(A) /\ t \in Seq(A)
    BY <1>1, <1>2, <1>3, <1>4
<1>6. s \o t \in Seq(A) /\ (r \o s) \o t = r \o (s \o t)
    BY <1>5
<1> QED BY <1>6 DEF IsSeq

\* Writing keeps the streams in order.
LEMMA SendStep ==
    ASSUME StepInv, NEW e \in End, NEW f \in Sendable(e), mpa_send(e, f)
    PROVE  StepInv'
<1> DEFINE p == Peer(e)
<1>0. p \in End /\ Peer(p) = e /\ p # e /\ "ini" \in End /\ "res" \in End /\ End = {"ini", "res"}
    BY DEF Peer, End
<1>1. f \in Frames
    BY FramingAssumption DEF Sendable, Frames
<1>2. /\ StartupInv /\ Tables /\ Attached /\ Unasked /\ Between /\ Running
    BY DEF StepInv
<1>3. /\ phase[e] = "done" /\ open[e] /\ open[p]
      /\ UNCHANGED <<conf, use_mrkr, use_crc, phase, ret, open, lost>>
    BY DEF mpa_send, wrt_mrkr_fpdu, wrt_plain_fpdu, Sending
<1>4. StartupInv'
    BY <1>2, SendKeeps
<1>5. PICK c : /\ Clean(c)
               /\ wire' = [wire EXCEPT ![p] = @ \o c]
               /\ trouble[p] \subseteq trouble'[p]
               /\ \A s : (Flow(p, s) /\ trouble'[p] = {}) => Flow(p, s \o c)'
    BY <1>1, SendFlow
<1>6. /\ \E v : unread' = [unread EXCEPT ![p] = v]
      /\ trouble' = trouble \/ \E v : trouble' = [trouble EXCEPT ![p] = v]
  <2>1. \E v : unread' = [unread EXCEPT ![p] = v]
      BY DEF mpa_send, wrt_mrkr_fpdu, wrt_plain_fpdu, Put
  <2>2. trouble' = trouble \/ \E v : trouble' = [trouble EXCEPT ![p] = v]
      BY DEF mpa_send, wrt_mrkr_fpdu, wrt_plain_fpdu, Note
  <2> QED BY <2>1, <2>2
<1>7. /\ Tables' /\ unread'[e] = unread[e] /\ trouble'[e] = trouble[e] /\ wire'[e] = wire[e]
      /\ wire'[p] = wire[p] \o c
  <2>1. wire = [x \in End |-> wire[x]]
      BY <1>2 DEF StartupInv, Shapes
  <2>2. /\ lost = [x \in End |-> lost[x]] /\ unread = [x \in End |-> unread[x]]
        /\ trouble = [x \in End |-> trouble[x]]
      BY <1>2 DEF Tables
  <2>3. unread' = [x \in End |-> unread'[x]] /\ unread'[e] = unread[e]
      BY <1>0, <1>6, <2>2
  <2>4. trouble' = [x \in End |-> trouble'[x]] /\ trouble'[e] = trouble[e]
      BY <1>0, <1>6, <2>2
  <2>5. wire'[e] = wire[e] /\ wire'[p] = wire[p] \o c
      BY <1>0, <1>5, <2>1
  <2> QED BY <1>3, <2>2, <2>3, <2>4, <2>5 DEF Tables
<1>8. /\ mpask'[p] = mpask[p]
      /\ mpask'[e].recv_sp = mpask[e].recv_sp /\ mpask'[e].recv_mp = mpask[e].recv_mp
  <2>1. PICK S : mpask \in [End -> [send_sp : Int, send_mp : Int, recv_sp : S, recv_mp : S]]
      BY <1>2 DEF StartupInv, Positions
  <2>2. \/ mpask' = mpask
        \/ \E sp : mpask' = [mpask EXCEPT ![e].send_sp = sp]
        \/ \E sp, mp : mpask' = [mpask EXCEPT ![e].send_mp = mp, ![e].send_sp = sp]
      BY <2>1 DEF mpa_send, wrt_mrkr_fpdu, wrt_plain_fpdu, Sent
  <2> QED BY <1>0, <2>1, <2>2
<1>9. Attached'
    BY <1>2, <1>3 DEF Attached
<1>10. phase["res"] # "start"
    BY <1>0, <1>2, <1>3 DEF StartupInv, Asked
<1>11. Unasked'
    BY <1>3, <1>10 DEF Unasked
<1>12. Between'
  <2> SUFFICES ASSUME phase["ini"] = "wait", ret["res"] = "ok"
               PROVE  Between'
      BY <1>3 DEF Between
  <2>1. e = "res" /\ p = "ini"
      BY <1>0, <1>3
  <2>2. PICK s : /\ IsSeq(s)
                 /\ wire["ini"] = Rrf("rep", "res", use_mrkr["res"], use_crc["res"]) \o s
                 /\ trouble["ini"] = {} => Flow("ini", s)
      BY <1>2 DEF Between
  <2>3. PICK r : r = Rrf("rep", "res", use_mrkr["res"], use_crc["res"])
      OBVIOUS
  <2>4. IsSeq(r)
    <3>1. conf \in [End -> Conf]
        BY <1>2 DEF StartupInv, Shapes
    <3> QED BY <1>0, <2>3, <3>1, FrameHead
  <2>5. Rrf("rep", "res", use_mrkr["res"], use_crc["res"])' = r
      BY <1>3, <2>3 DEF Rrf
  <2>6. wire'["ini"] = r \o (s \o c) /\ IsSeq(s \o c)
    <3>1. (r \o s) \o c = r \o (s \o c) /\ IsSeq(s \o c)
        BY <1>5, <2>2, <2>4, ConcatAssoc
    <3> QED BY <1>7, <2>1, <2>2, <2>3, <3>1
  <2>7. trouble'["ini"] = {} => Flow("ini", s \o c)'
    <3> SUFFICES ASSUME trouble'["ini"] = {} PROVE Flow("ini", s \o c)'
        OBVIOUS
    <3>1. trouble["ini"] = {}
        BY <1>5, <2>1
    <3> QED BY <1>5, <2>1, <2>2, <3>1
  <2>8. PICK t : t = s \o c
      OBVIOUS
  <2>9. /\ wire'["res"] = <<>> /\ unread'["res"] = <<>> /\ ~lost'["res"]
        /\ mpask'["ini"] = Zero /\ mpask'["res"].recv_sp = 0 /\ mpask'["res"].recv_mp = 0
      BY <1>2, <1>3, <1>7, <1>8, <2>1 DEF Between
  <2>10. \E t1 : /\ IsSeq(t1)
                 /\ wire'["ini"] = Rrf("rep", "res", use_mrkr["res"], use_crc["res"])' \o t1
                 /\ trouble'["ini"] = {} => Flow("ini", t1)'
      BY <2>5, <2>6, <2>7, <2>8
  <2> QED BY <2>9, <2>10 DEF Between
<1>13. Running'
  <2> SUFFICES ASSUME ret["ini"] = "ok" PROVE Link(e)' /\ Link(p)'
      BY <1>0, <1>3 DEF Running
  <2>1. Link(e) /\ Link(p)
      BY <1>0, <1>2 DEF Running
  <2>2. Link(e)'
      BY <1>0, <1>3, <1>7, <1>8, <2>1, LinkKept
  <2>3. Link(p)'
    <3> SUFFICES ASSUME trouble'[p] = {} PROVE Flow(p, wire[p])'
        BY DEF Link
    <3>1. trouble[p] = {}
        BY <1>5
    <3>2. Flow(p, wire[p])
        BY <1>0, <1>3, <2>1, <3>1 DEF Link, Dropped
    <3>3. PICK s : s = wire[p]
        OBVIOUS
    <3>4. Flow(p, s \o c)'
        BY <1>5, <3>2, <3>3
    <3> QED BY <1>7, <3>3, <3>4 DEF Flow
  <2> QED BY <2>2, <2>3
<1> QED BY <1>4, <1>7, <1>9, <1>11, <1>12, <1>13 DEF StepInv

--------------------------------------------------------------------------------
(* Reading *)

\* What a reader finds on a stream that is in order.
Finds(e, f, mp, c, r) ==
    /\ f \in Frames /\ mp \in Nat /\ Clean(c) /\ IsSeq(r)
    /\ wire[e] = c \o r /\ c = FpduBytes(use_mrkr[e], use_crc[e], f, mp)
    /\ unread[e] # <<>> /\ f = unread[e][1]
    /\ use_mrkr[e] => Words(mp) /\ mp = RecvMp(e) /\ FpduLen(f) # mp
    /\ Stream(r, Tail(unread[e]), use_mrkr[e], use_crc[e], MpAfter(f, RecvMp(e)), SendMp(Peer(e)))

\* It does find an FPDU.
LEMMA ReaderFinds ==
    ASSUME StepInv, NEW e \in End, ret["ini"] = "ok", Flow(e, wire[e]), wire[e] # <<>>
    PROVE  \E f, mp, c, r : Finds(e, f, mp, c, r)
<1> DEFINE p == Peer(e)
<1>0. p \in End /\ Peer(p) = e /\ End = {"ini", "res"}
    BY DEF Peer, End
<1>1. /\ use_mrkr \in [End -> BOOLEAN] /\ use_crc \in [End -> BOOLEAN] /\ Agreement
    BY DEF StepInv, StartupInv, Shapes
<1>2. use_mrkr[e] = use_mrkr[p] /\ use_crc[e] = use_crc[p]
    BY <1>0, <1>1 DEF Agreement, Peer
<1>3. PICK s, u, mk, cr, from, to :
         /\ s = wire[e] /\ u = unread[e] /\ mk = use_mrkr[e] /\ cr = use_crc[e]
         /\ from = RecvMp(e) /\ to = SendMp(p)
    OBVIOUS
<1>4. /\ mk \in BOOLEAN /\ cr \in BOOLEAN /\ s # <<>>
      /\ Stream(s, u, mk, cr, from, to)
  <2>1. mk \in BOOLEAN /\ cr \in BOOLEAN /\ s # <<>>
      BY <1>1, <1>3
  <2>2. Stream(wire[e], unread[e], use_mrkr[p], use_crc[p], RecvMp(e), SendMp(p))
      BY DEF Flow
  <2> QED BY <1>2, <1>3, <2>1, <2>2
<1>5. PICK mp, r : Leads(s, u, mk, cr, from, to, mp, r)
    BY <1>4, StreamFront
<1>6. /\ u # <<>> /\ u[1] \in Frames /\ mp \in Nat /\ IsSeq(r)
      /\ mk => mp = from /\ Words(from) /\ FpduLen(u[1]) # from
      /\ s = FpduBytes(mk, cr, u[1], mp) \o r
      /\ Stream(r, Tail(u), mk, cr, MpAfter(u[1], from), to)
    BY <1>5 DEF Leads
<1>7. PICK f, c : f = u[1] /\ c = FpduBytes(mk, cr, f, mp)
    OBVIOUS
<1>8. Clean(c)
  <2>1. f \in Frames /\ (mk => Words(mp))
      BY <1>6, <1>7
  <2>2. Clean(FpduBytes(mk, cr, f, mp))
      BY <1>4, <1>6, <2>1, FpduSome
  <2> QED BY <1>7, <2>2
<1>9. Finds(e, f, mp, c, r)
    BY <1>3, <1>6, <1>7, <1>8 DEF Finds
<1> QED BY <1>9

\* The reader is past it.
LEMMA ReaderPasses ==
    ASSUME StepInv, NEW e \in End, NEW f, NEW mp, NEW c, NEW r, Finds(e, f, mp, c, r),
           Flow(e, wire[e]), ret["ini"] = "ok",
           wire' = [wire EXCEPT ![e] = r], unread' = [unread EXCEPT ![e] = Tail(@)],
           UNCHANGED <<use_mrkr, use_crc, lost>>,
           mpask'[e].recv_sp \in Int, mpask'[e].recv_mp \in Int,
           mpask'[Peer(e)].send_sp = mpask[Peer(e)].send_sp,
           mpask'[Peer(e)].send_mp = mpask[Peer(e)].send_mp,
           use_mrkr[e] => RecvMp(e)' = MpAfter(f, RecvMp(e))
    PROVE  Flow(e, wire[e])'
<1> DEFINE p == Peer(e)
<1>0. p \in End /\ Peer(p) = e /\ End = {"ini", "res"}
    BY DEF Peer, End
<1>1. /\ use_mrkr \in [End -> BOOLEAN] /\ use_crc \in [End -> BOOLEAN] /\ Agreement
      /\ wire = [x \in End |-> wire[x]] /\ unread = [x \in End |-> unread[x]]
    BY DEF StepInv, StartupInv, Shapes, Tables
<1>2. use_mrkr[e] = use_mrkr[p] /\ use_crc[e] = use_crc[p]
    BY <1>0, <1>1 DEF Agreement, Peer
<1>3. wire'[e] = r /\ unread'[e] = Tail(unread[e])
    BY <1>1
<1>4. SendMp(p)' = SendMp(p)
    BY DEF SendMp
<1>5. Stream(r, Tail(unread[e]), use_mrkr[e], use_crc[e], MpAfter(f, RecvMp(e)), SendMp(p))
    BY DEF Finds
<1>6. Stream(r, unread'[e], use_mrkr[e], use_crc[e], RecvMp(e)', SendMp(p))
  <2>1. CASE use_mrkr[e]
      BY <1>3, <1>5, <2>1
  <2>2. CASE use_mrkr[e] = FALSE
    <3>1. PICK v, cr, x, y, z : /\ v = Tail(unread[e]) /\ cr = use_crc[e]
                                /\ x = MpAfter(f, RecvMp(e)) /\ y = SendMp(p) /\ z = RecvMp(e)'
        OBVIOUS
    <3>2. Stream(r, v, FALSE, cr, x, y)
        BY <1>5, <2>2, <3>1
    <3>3. Stream(r, v, FALSE, cr, z, y)
        BY <3>2, StreamPlain
    <3> QED BY <1>3, <2>2, <3>1, <3>3
  <2>3. use_mrkr[e] \in BOOLEAN
      BY <1>1
  <2> QED BY <2>1, <2>2, <2>3
<1>7. ~lost'[e]
    BY DEF Flow
<1> QED BY <1>2, <1>3, <1>4, <1>6, <1>7 DEF Flow

\* A frame is what its first byte says.
LEMMA FrameRecord ==
    ASSUME NEW f \in Frames
    PROVE  LET s == [t |-> "start", tagged |-> f.tagged, len |-> f.len]
           IN  f = [tagged |-> s.tagged, len |-> s.len] /\ s.t = "start"
BY DEF Frames

\* mpa_rd_mrkr_fpdu.
LEMMA MrkrReaderFlows ==
    ASSUME StepInv, NEW e \in End, ret["ini"] = "ok", Flow(e, wire[e]), rd_mrkr_fpdu(e)
    PROVE  Flow(e, wire[e])'
<1>0. wire[e] # <<>> /\ use_mrkr[e]
    BY DEF rd_mrkr_fpdu, Reading
<1>1. PICK f, mp, c, r : Finds(e, f, mp, c, r)
    BY <1>0, ReaderFinds
<1>2. /\ f \in Frames /\ mp \in Nat /\ Words(mp) /\ mp = RecvMp(e) /\ FpduLen(f) # mp
      /\ Clean(c) /\ IsSeq(r) /\ wire[e] = c \o r
    BY <1>0, <1>1 DEF Finds
<1>3. PICK b : b = MrkrFpdu(f, mp)
    OBVIOUS
<1>4. c = b \o Crc(e)
  <2>1. Crc(e) = CrcBytes(use_crc[e])
      BY DEF Crc, CrcBytes
  <2> QED BY <1>0, <1>1, <1>3, <2>1 DEF Finds, FpduBytes
<1>5. ReadFpdu(f, mp) = b
      /\ (IF mp < HdrSz(f.tagged) THEN 1 ELSE 0) + ReadMrkrs(f, mp) = num_mrkrs(f, mp)
    BY <1>2, <1>3, ReaderAgrees
<1>6. Clean(b) /\ Len(b) \in Nat /\ num_mrkrs(f, mp) \in Int
    BY <1>2, <1>3, MrkrFpduSize
<1>7. /\ Ahead(e, Len(c)) = c
      /\ SubSeq(wire[e], Len(c) + 1, Len(wire[e])) = r
      /\ Len(wire[e]) \in Nat /\ Len(c) \in Nat /\ Len(c) <= Len(wire[e])
      /\ \A i \in 1..Len(c) : wire[e][i] = c[i]
    BY <1>2, Front
<1>8. IsStart(e, mp) /\ FrameAt(e, mp) = f
  <2> DEFINE st == [t |-> "start", tagged |-> f.tagged, len |-> f.len]
             i == StartAt(mp) + 1
  <2>1. Len(b) > StartAt(mp) /\ b[i] = st
      BY <1>2, <1>3, StartOfFpdu
  <2>2. StartAt(mp) \in Nat
      BY FramingAssumption DEF StartAt, MARKER_SZ
  <2>3. Len(c) >= Len(b) /\ c[i] = b[i] /\ i \in 1..Len(b)
    <3>0. i \in 1..Len(b)
        BY <1>6, <2>1, <2>2
    <3>1. PICK S : b \in Seq(S)
        BY <1>6 DEF Clean
    <3>2. PICK T : Crc(e) \in Seq(T)
        BY CleanCrc DEF Clean
    <3>3. b \in Seq(S \cup T) /\ Crc(e) \in Seq(S \cup T)
        BY <3>1, <3>2
    <3> HIDE DEF i
    <3> QED BY <1>4, <3>0, <3>3
  <2>4. i \in 1..Len(c)
      BY <1>6, <1>7, <2>3
  <2>5. wire[e][i] = st /\ Len(wire[e]) > StartAt(mp)
    <3>1. wire[e][i] = st
        BY <1>7, <2>1, <2>3, <2>4
    <3>2. Len(wire[e]) > StartAt(mp)
        BY <1>6, <1>7, <2>1, <2>2, <2>3
    <3> QED BY <3>1, <3>2
  <2>6. f = [tagged |-> st.tagged, len |-> st.len] /\ st.t = "start"
      BY <1>2, FrameRecord
  <2> HIDE DEF st
  <2> QED BY <2>5, <2>6 DEF IsStart, FrameAt
<1> DEFINE x == num_mrkrs(f, mp) * MARKER_PERIOD
           y == Len(b)
<1>9. /\ Takes(e, Len(c)) /\ UNCHANGED <<use_mrkr, use_crc, lost>>
      /\ mpask' = [mpask EXCEPT ![e].recv_sp = (@ + y) % Wrap, ![e].recv_mp = (@ + x) % Wrap]
    BY <1>2, <1>4, <1>5, <1>7, <1>8 DEF rd_mrkr_fpdu
<1>10. x \in Int /\ y \in Int
  <2>1. MARKER_PERIOD \in Int
      BY FramingAssumption
  <2> QED BY <1>6, <2>1
<1>11. Positions /\ mpask[e].recv_sp \in Int /\ mpask[e].recv_mp \in Int
    BY DEF StepInv, StartupInv, Flow
<1>12. MpAfter(f, mp) = (mp + x - y) % Wrap
    BY <1>3 DEF MpAfter
<1> HIDE DEF x, y
<1>13. /\ RecvMp(e)' = MpAfter(f, RecvMp(e))
       /\ mpask'[e].recv_sp \in Int /\ mpask'[e].recv_mp \in Int
  <2>1. /\ RecvMp(e)' = (RecvMp(e) + x - y) % Wrap
        /\ mpask'[e].recv_sp \in Int /\ mpask'[e].recv_mp \in Int
      BY <1>9, <1>10, <1>11, RecvMoves
  <2> QED BY <1>2, <1>12, <2>1
<1>14. mpask'[Peer(e)] = mpask[Peer(e)]
  <2>1. PICK S : mpask \in [End -> [send_sp : Int, send_mp : Int, recv_sp : S, recv_mp : S]]
      BY <1>11 DEF Positions
  <2>2. Peer(e) \in End /\ Peer(e) # e
      BY DEF Peer, End
  <2> QED BY <1>9, <2>1, <2>2
<1>15. wire' = [wire EXCEPT ![e] = r] /\ unread' = [unread EXCEPT ![e] = Tail(@)]
    BY <1>7, <1>9 DEF Takes
<1> QED BY <1>1, <1>9, <1>13, <1>14, <1>15, ReaderPasses

\* What follows does not change the first byte.
LEMMA FirstOf ==
    ASSUME NEW s, NEW t, Clean(s), Clean(t), Len(s) > 0
    PROVE  Clean(s \o t) /\ Len(s \o t) = Len(s) + Len(t) /\ (s \o t)[1] = s[1]
<1>1. PICK S : s \in Seq(S)
    BY DEF Clean
<1>2. PICK T : t \in Seq(T)
    BY DEF Clean
<1>3. s \in Seq(S \cup T) /\ t \in Seq(S \cup T) /\ Len(s) \in Nat
    BY <1>1, <1>2
<1>4. 1 \in 1..Len(s)
    BY <1>3
<1>5. Len(s \o t) = Len(s) + Len(t) /\ (s \o t)[1] = s[1]
    BY <1>3, <1>4
<1> QED BY <1>5, CleanConcat

\* mpa_rd_plain_fpdu, and mpa_recv_plain_fpdu with a sink that starts at a word.
LEMMA PlainReaderFlows ==
    ASSUME StepInv, NEW e \in End, ret["ini"] = "ok", Flow(e, wire[e]),
           rd_plain_fpdu(e) \/ recv_plain_fpdu(e), trouble'[e] = {}
    PROVE  Flow(e, wire[e])'
<1>0. wire[e] # <<>> /\ ~use_mrkr[e]
    BY DEF rd_plain_fpdu, recv_plain_fpdu, Reading
<1>1. PICK f, mp, c, r : Finds(e, f, mp, c, r)
    BY <1>0, ReaderFinds
<1>2. /\ f \in Frames /\ Clean(c) /\ IsSeq(r) /\ wire[e] = c \o r
      /\ c = Hdr(f) \o Payld(f) \o PadBytes(f) \o Crc(e)
  <2>1. Crc(e) = CrcBytes(use_crc[e])
      BY DEF Crc, CrcBytes
  <2> QED BY <1>0, <1>1, <2>1 DEF Finds, FpduBytes
<1>3. /\ Ahead(e, Len(c)) = c
      /\ SubSeq(wire[e], Len(c) + 1, Len(wire[e])) = r
      /\ Len(wire[e]) \in Nat /\ Len(c) \in Nat /\ Len(c) <= Len(wire[e])
      /\ \A i \in 1..Len(c) : wire[e][i] = c[i]
    BY <1>2, Front
<1> DEFINE h == Hdr(f)
           p == Payld(f)
           q == PadBytes(f)
           k == Crc(e)
           st == [t |-> "start", tagged |-> f.tagged, len |-> f.len]
<1>4. /\ Clean(h) /\ Len(h) = HdrSz(f.tagged) /\ Clean(p) /\ Len(p) = f.len /\ Clean(q)
      /\ Len(q) = Pad(HdrSz(f.tagged) + f.len) /\ Clean(k) /\ h[1] = st /\ Len(h) \in Nat \ {0}
  <2>1. HdrSz(f.tagged) \in Nat \ {0} /\ f.len \in Nat /\ 1 \in 1..HdrSz(f.tagged)
      BY <1>2, HdrSzNat
  <2>2. h[1] = st
      BY <2>1 DEF Hdr
  <2>3. Len(q) = Pad(HdrSz(f.tagged) + f.len)
    <3>1. Pad(HdrSz(f.tagged) + f.len) \in Nat
        BY <2>1, PadNat
    <3>2. [t |-> "pad"].t # "rrf"
        OBVIOUS
    <3> QED BY <3>1, <3>2, CleanBytes DEF PadBytes
  <2> QED BY <1>2, <2>1, <2>2, <2>3, CleanParts, CleanCrc
<1>5. c = ((h \o p) \o q) \o k
    BY <1>2
<1>6. /\ Len(c) = Len(h) + Len(p) + Len(q) + Len(k) /\ c[1] = st
      /\ Len(p) \in Nat /\ Len(q) \in Nat /\ Len(k) \in Nat
  <2> HIDE DEF h, p, q, k, st
  <2>1. Len(h) \in Nat /\ Len(p) \in Nat /\ Len(q) \in Nat /\ Len(k) \in Nat /\ Len(h) > 0
      BY <1>4, CleanLen
  <2>2. Clean(h \o p) /\ Len(h \o p) = Len(h) + Len(p) /\ (h \o p)[1] = h[1]
      BY <1>4, <2>1, FirstOf
  <2>3. PICK a : a = h \o p
      OBVIOUS
  <2>4. Clean(a \o q) /\ Len(a \o q) = Len(a) + Len(q) /\ (a \o q)[1] = a[1]
    <3>1. Clean(a) /\ Len(a) > 0
        BY <2>1, <2>2, <2>3
    <3> QED BY <1>4, <3>1, FirstOf
  <2>5. PICK b : b = a \o q
      OBVIOUS
  <2>6. Len(b \o k) = Len(b) + Len(k) /\ (b \o k)[1] = b[1]
    <3>1. Clean(b) /\ Len(b) > 0
        BY <2>1, <2>2, <2>3, <2>4, <2>5
    <3> QED BY <1>4, <3>1, FirstOf
  <2>7. c = b \o k
      BY <1>5, <2>3, <2>5
  <2>8. c[1] = st
      BY <1>4, <2>2, <2>3, <2>4, <2>5, <2>6, <2>7
  <2>9. Len(c) = Len(h) + Len(p) + Len(q) + Len(k)
      BY <2>1, <2>2, <2>3, <2>4, <2>5, <2>6, <2>7
  <2> QED BY <2>1, <2>8, <2>9
<1>7. IsStart(e, 1) /\ FrameAt(e, 1) = f
  <2>1. StartAt(1) = 0
      BY DEF StartAt
  <2>2. 1 \in 1..Len(c)
      BY <1>3, <1>4, <1>6
  <2>3. wire[e][0 + 1] = st /\ Len(wire[e]) > 0
      BY <1>3, <1>6, <2>2
  <2>4. f = [tagged |-> st.tagged, len |-> st.len] /\ st.t = "start"
      BY <1>2, FrameRecord
  <2> HIDE DEF st
  <2> QED BY <2>1, <2>3, <2>4 DEF IsStart, FrameAt
<1>8. PICK S : mpask \in [End -> [send_sp : Int, send_mp : Int, recv_sp : S, recv_mp : S]]
    BY DEF StepInv, StartupInv, Positions
<1>9. mpask[e].recv_sp \in Int /\ mpask[e].recv_mp \in Int
    BY DEF Flow
<1>10. /\ Takes(e, Len(c)) /\ UNCHANGED <<use_mrkr, use_crc, lost>>
       /\ mpask' = [mpask EXCEPT ![e].recv_sp = (@ + Len(c)) % Wrap]
  <2>1. CASE rd_plain_fpdu(e)
    <3>1. Bytes(Pad(f.len), [t |-> "pad"]) = PadBytes(f)
        BY <1>2, PlainPad
    <3> QED BY <1>2, <1>3, <1>7, <2>1, <3>1 DEF rd_plain_fpdu
  <2>2. CASE recv_plain_fpdu(e)
    <3>1. PICK off \in Offset :
            LET n == HdrSz(f.tagged) + f.len + Pad(LastIov(f, off)) + Len(Crc(e))
            IN  IF n = Len(c) /\ Ahead(e, n) = c
                THEN /\ Takes(e, n)
                     /\ mpask' = [mpask EXCEPT ![e].recv_sp = (@ + n) % Wrap]
                     /\ UNCHANGED <<conf, use_mrkr, use_crc, phase, ret, open, lost, trouble>>
                ELSE Note(e, IF off % WORD_SZ = 0 THEN {} ELSE {"unaligned"})
        BY <1>2, <1>7, <2>2 DEF recv_plain_fpdu
    <3> DEFINE n == HdrSz(f.tagged) + f.len + Pad(LastIov(f, off)) + Len(Crc(e))
    <3>2. n = Len(c)
      <4>1. CASE off % WORD_SZ = 0
        <5>1. Pad(LastIov(f, off)) = Pad(HdrSz(f.tagged) + f.len)
            BY <1>2, <4>1, LastIovPad
        <5> QED BY <1>4, <1>6, <5>1
      <4>2. CASE off % WORD_SZ # 0
        <5> SUFFICES ASSUME n # Len(c) PROVE FALSE
            OBVIOUS
        <5>1. Note(e, {"unaligned"})
            BY <3>1, <4>2
        <5>2. trouble'[e] = trouble[e] \cup {"unaligned"}
            BY <5>1 DEF Note, StepInv, Tables
        <5> QED BY <5>2
      <4> QED BY <4>1, <4>2
    <3> HIDE DEF n
    <3>3. /\ Takes(e, n) /\ UNCHANGED <<use_mrkr, use_crc, lost>>
          /\ mpask' = [mpask EXCEPT ![e].recv_sp = (@ + n) % Wrap]
        BY <1>3, <3>1, <3>2 DEF n
    <3> QED BY <3>2, <3>3
  <2> QED BY <2>1, <2>2
<1>11. mpask'[e].recv_sp \in Int /\ mpask'[e].recv_mp \in Int /\ mpask'[Peer(e)] = mpask[Peer(e)]
  <2>1. Peer(e) \in End /\ Peer(e) # e /\ Wrap \in Nat \ {0}
      BY FramingAssumption DEF Peer, End
  <2>2. (mpask[e].recv_sp + Len(c)) % Wrap \in Int
      BY <1>3, <1>9, <2>1
  <2> QED BY <1>8, <1>9, <1>10, <2>1, <2>2
<1>12. wire' = [wire EXCEPT ![e] = r] /\ unread' = [unread EXCEPT ![e] = Tail(@)]
    BY <1>3, <1>10 DEF Takes
<1> QED BY <1>0, <1>1, <1>10, <1>11, <1>12, ReaderPasses

\* What a step of mpa_recv leaves alone.
LEMMA RecvFrame ==
    ASSUME StepInv, NEW e \in End, mpa_recv(e)
    PROVE  /\ phase[e] = "done" /\ open[e] /\ wire[e] # <<>>
           /\ UNCHANGED <<conf, use_mrkr, use_crc, phase, ret, open>>
           /\ Tables' /\ trouble[e] \subseteq trouble'[e]
           /\ LET p == Peer(e)
              IN  /\ wire'[p] = wire[p] /\ lost'[p] = lost[p] /\ unread'[p] = unread[p]
                  /\ trouble'[p] = trouble[p] /\ mpask'[p] = mpask[p]
           /\ mpask'[e].send_sp = mpask[e].send_sp /\ mpask'[e].send_mp = mpask[e].send_mp
<1> DEFINE p == Peer(e)
<1>0. p \in End /\ p # e
    BY DEF Peer, End
<1>1. phase[e] = "done" /\ open[e] /\ wire[e] # <<>>
    BY DEF mpa_recv, rd_mrkr_fpdu, rd_mrkr_no_sink, rd_plain_fpdu, recv_plain_fpdu, Reading
<1>2. UNCHANGED <<conf, use_mrkr, use_crc, phase, ret, open>>
    BY DEF mpa_recv, rd_mrkr_fpdu, rd_mrkr_no_sink, rd_plain_fpdu, recv_plain_fpdu, Loses,
           startupVars
<1>3. wire = [x \in End |-> wire[x]] /\ Tables
    BY DEF StepInv, StartupInv, Shapes
<1>4. wire'[p] = wire[p]
  <2>1. wire' = wire \/ \E v : wire' = [wire EXCEPT ![e] = v]
      BY DEF mpa_recv, rd_mrkr_fpdu, rd_mrkr_no_sink, rd_plain_fpdu, recv_plain_fpdu, Loses, Takes,
             startupVars
  <2> QED BY <1>0, <1>3, <2>1
<1>5. lost' = [x \in End |-> lost'[x]] /\ lost'[p] = lost[p]
  <2>1. lost' = lost \/ lost' = [lost EXCEPT ![e] = TRUE]
      BY DEF mpa_recv, rd_mrkr_fpdu, rd_mrkr_no_sink, rd_plain_fpdu, recv_plain_fpdu, Loses
  <2> QED BY <1>0, <1>3, <2>1 DEF Tables
<1>6. unread' = [x \in End |-> unread'[x]] /\ unread'[p] = unread[p]
  <2>1. unread' = unread \/ \E v : unread' = [unread EXCEPT ![e] = v]
      BY DEF mpa_recv, rd_mrkr_fpdu, rd_mrkr_no_sink, rd_plain_fpdu, recv_plain_fpdu, Loses, Takes
  <2> QED BY <1>0, <1>3, <2>1 DEF Tables
<1>7. /\ trouble' = [x \in End |-> trouble'[x]] /\ trouble'[p] = trouble[p]
      /\ trouble[e] \subseteq trouble'[e]
  <2>1. trouble' = trouble \/ \E v : trouble' = [trouble EXCEPT ![e] = @ \cup v]
      BY DEF mpa_recv, rd_mrkr_fpdu, rd_mrkr_no_sink, rd_plain_fpdu, recv_plain_fpdu, Loses, Note
  <2>2. trouble = [x \in End |-> trouble[x]]
      BY <1>3 DEF Tables
  <2>3. CASE trouble' = trouble
      BY <2>2, <2>3
  <2>4. CASE \E v : trouble' = [trouble EXCEPT ![e] = @ \cup v]
    <3>1. PICK v : trouble' = [trouble EXCEPT ![e] = @ \cup v]
        BY <2>4
    <3>2. trouble'[e] = trouble[e] \cup v
        BY <2>2, <3>1
    <3> QED BY <1>0, <2>2, <3>1, <3>2
  <2> QED BY <2>1, <2>3, <2>4
<1>8. /\ mpask'[p] = mpask[p]
      /\ mpask'[e].send_sp = mpask[e].send_sp /\ mpask'[e].send_mp = mpask[e].send_mp
  <2>1. PICK S : mpask \in [End -> [send_sp : Int, send_mp : Int, recv_sp : S, recv_mp : S]]
      BY DEF StepInv, StartupInv, Positions
  <2>2. \/ mpask' = mpask
        \/ \E sp : mpask' = [mpask EXCEPT ![e].recv_sp = sp]
        \/ \E sp, mp : mpask' = [mpask EXCEPT ![e].recv_sp = sp, ![e].recv_mp = mp]
      BY DEF mpa_recv, rd_mrkr_fpdu, rd_mrkr_no_sink, rd_plain_fpdu, recv_plain_fpdu, Loses
  <2> QED BY <1>0, <2>1, <2>2
<1> QED BY <1>1, <1>2, <1>4, <1>5, <1>6, <1>7, <1>8 DEF Tables

\* Reading keeps the streams in order.
LEMMA RecvStep ==
    ASSUME StepInv, NEW e \in End, mpa_recv(e)
    PROVE  StepInv'
<1> DEFINE p == Peer(e)
<1>0. p \in End /\ Peer(p) = e /\ p # e /\ End = {"ini", "res"} /\ End = {e, p}
    BY DEF Peer, End
<1>1. StartupInv /\ Tables /\ Attached /\ Unasked /\ Between /\ Running
    BY DEF StepInv
<1>2. /\ phase[e] = "done" /\ open[e] /\ wire[e] # <<>>
      /\ UNCHANGED <<conf, use_mrkr, use_crc, phase, ret, open>>
      /\ Tables' /\ trouble[e] \subseteq trouble'[e]
      /\ wire'[p] = wire[p] /\ lost'[p] = lost[p] /\ unread'[p] = unread[p]
      /\ trouble'[p] = trouble[p] /\ mpask'[p] = mpask[p]
      /\ mpask'[e].send_sp = mpask[e].send_sp /\ mpask'[e].send_mp = mpask[e].send_mp
    BY RecvFrame
<1>3. StartupInv'
    BY <1>1, RecvKeeps
<1>4. Attached'
    BY <1>1, <1>2 DEF Attached
<1>5. phase["res"] # "start"
    BY <1>0, <1>1, <1>2 DEF StartupInv, Asked
<1>6. Unasked'
    BY <1>2, <1>5 DEF Unasked
<1>7. Between'
  <2>1. ~(phase["ini"] = "wait" /\ ret["res"] = "ok")
      BY <1>0, <1>1, <1>2 DEF Between
  <2> QED BY <1>2, <2>1 DEF Between
<1>8. Running'
  <2> SUFFICES ASSUME ret["ini"] = "ok" PROVE Link(e)' /\ Link(p)'
      BY <1>0, <1>2 DEF Running
  <2>1. Link(e) /\ Link(p)
      BY <1>0, <1>1 DEF Running
  <2>2. Link(p)'
      BY <1>0, <1>2, <2>1, LinkKept
  <2>3. Link(e)'
    <3> SUFFICES ASSUME trouble'[e] = {} PROVE Flow(e, wire[e])'
        BY DEF Link
    <3>1. trouble[e] = {}
        BY <1>2
    <3>2. Flow(e, wire[e])
        BY <1>2, <2>1, <3>1 DEF Link, Dropped
    <3>3. ~rd_mrkr_no_sink(e)
      <4> SUFFICES ASSUME rd_mrkr_no_sink(e) PROVE FALSE
          OBVIOUS
      <4>1. trouble' = [trouble EXCEPT ![e] = @ \cup {"no sink"}]
          BY DEF rd_mrkr_no_sink, Note
      <4>2. trouble'[e] = trouble[e] \cup {"no sink"}
          BY <1>1, <4>1 DEF Tables
      <4> QED BY <4>2
    <3>4. CASE rd_mrkr_fpdu(e)
        BY <3>2, <3>4, MrkrReaderFlows
    <3>5. CASE rd_plain_fpdu(e) \/ recv_plain_fpdu(e)
        BY <3>2, <3>5, PlainReaderFlows
    <3> QED BY <3>3, <3>4, <3>5 DEF mpa_recv
  <2> QED BY <2>2, <2>3
<1> QED BY <1>2, <1>3, <1>4, <1>6, <1>7, <1>8 DEF StepInv

\* The end of the stream.
LEMMA EofStep ==
    ASSUME StepInv, NEW e \in End, recv_eof(e)
    PROVE  StepInv'
<1> DEFINE p == Peer(e)
<1>0. p \in End /\ Peer(p) = e /\ p # e /\ End = {"ini", "res"} /\ End = {e, p}
      /\ (e = "res" => p = "ini")
    BY DEF Peer, End
<1>1. StartupInv /\ Tables /\ Attached /\ Unasked /\ Between /\ Running
    BY DEF StepInv
<1>2. /\ phase[e] = "done" /\ ~open[p]
      /\ UNCHANGED <<conf, use_mrkr, use_crc, ret, wire, open, mpask, unread>>
      /\ phase' = phase \/ phase' = [phase EXCEPT ![e] = "exit"]
      /\ lost' = lost \/ lost' = [lost EXCEPT ![e] = TRUE]
      /\ trouble' = [trouble EXCEPT ![e] = @ \cup {"eof"}]
    BY DEF recv_eof, Note
<1>3. StartupInv'
    BY <1>1, CloseKeeps
<1>4. /\ lost = [x \in End |-> lost[x]] /\ unread = [x \in End |-> unread[x]]
      /\ trouble = [x \in End |-> trouble[x]] /\ phase \in [End -> Phases]
    BY <1>1 DEF Tables, StartupInv, Shapes
<1>5. /\ lost' = [x \in End |-> lost'[x]] /\ lost'[p] = lost[p]
      /\ trouble'[e] = trouble[e] \cup {"eof"} /\ trouble'[p] = trouble[p]
      /\ trouble' = [x \in End |-> trouble'[x]]
    BY <1>0, <1>2, <1>4
<1>6. Tables'
    BY <1>2, <1>4, <1>5 DEF Tables
<1>7. /\ phase["res"] # "start" /\ ~(phase["ini"] \in {"start", "wait"})
  <2>1. phase["res"] # "start"
      BY <1>0, <1>1, <1>2 DEF StartupInv, Asked
  <2>2. ~(phase["ini"] \in {"start", "wait"})
      BY <1>0, <1>1, <1>2 DEF Attached
  <2> QED BY <2>1, <2>2
<1>8. phase'["res"] # "start" /\ ~(phase'["ini"] \in {"start", "wait"})
    BY <1>0, <1>2, <1>4, <1>7
<1>9. Attached' /\ Unasked' /\ Between'
    BY <1>8 DEF Attached, Unasked, Between
<1>10. Running'
  <2> SUFFICES ASSUME ret["ini"] = "ok" PROVE Link(e)' /\ Link(p)'
      BY <1>0, <1>2 DEF Running
  <2>1. Link(p)
      BY <1>0, <1>1 DEF Running
  <2>2. Link(p)'
      BY <1>0, <1>2, <1>5, <2>1, LinkKept
  <2>3. Link(e)'
      BY <1>5 DEF Link
  <2> QED BY <2>2, <2>3
<1> QED BY <1>3, <1>6, <1>9, <1>10 DEF StepInv

\* Behind a startup frame with d bytes of private data the stream w goes on with s.
GoesOn(w, d, s) ==
    /\ w # <<>> /\ w[1].len = d
    /\ SubSeq(w, 2 + d, Len(w)) = s

\* A startup frame that is taken off the stream leaves what followed it.
LEMMA FrameTaken ==
    ASSUME conf \in [End -> Conf], NEW e \in End, NEW key, NEW m, NEW c, NEW s, NEW w,
           IsSeq(s), w = Rrf(key, e, m, c) \o s
    PROVE  GoesOn(w, conf[e].pd, s)
<1> DEFINE h == [t |-> "rrf", key |-> key, m |-> m, c |-> c, len |-> conf[e].pd]
           p == [i \in 1..conf[e].pd |-> [t |-> "pd"]]
           d == conf[e].pd
<1>1. d \in Nat
    BY ConfAssumption
<1>2. p \in Seq({[t |-> "pd"]}) /\ Len(p) = d
    BY <1>1, SeqDef
<1>3. <<h>> \in Seq({h}) /\ Len(<<h>>) = 1 /\ <<h>>[1] = h /\ h.t = "rrf" /\ h.len = d
    OBVIOUS
<1>4. PICK S : s \in Seq(S)
    BY DEF IsSeq
<1>5. PICK A : A = {h, [t |-> "pd"]} \cup S
    OBVIOUS
<1>6. w = (<<h>> \o p) \o s
    BY DEF Rrf
<1> HIDE DEF h, p, d
<1>7. <<h>> \in Seq(A) /\ p \in Seq(A) /\ s \in Seq(A) /\ Len(s) \in Nat
    BY <1>2, <1>3, <1>4, <1>5
<1>8. PICK r : r = <<h>> \o p
    OBVIOUS
<1>9. r \in Seq(A) /\ Len(r) = 1 + d /\ r[1] = h
    BY <1>1, <1>2, <1>3, <1>7, <1>8
<1>10. /\ w \in Seq(A) /\ Len(w) = 1 + d + Len(s)
       /\ w[1] = h /\ \A i \in 1..Len(s) : w[(1 + d) + i] = s[i]
  <2>1. w = r \o s /\ Len(r) \in Nat /\ 1 \in 1..Len(r)
      BY <1>1, <1>6, <1>8, <1>9
  <2>2. /\ w \in Seq(A) /\ Len(w) = Len(r) + Len(s) /\ w[1] = r[1]
        /\ \A i \in 1..Len(s) : w[Len(r) + i] = s[i]
    <3>1. w \in Seq(A) /\ Len(w) = Len(r) + Len(s)
        BY <1>7, <1>9, <2>1, ConcatProperties
    <3>2. w[1] = r[1]
        BY <1>7, <1>9, <2>1
    <3>3. ASSUME NEW i \in 1..Len(s) PROVE w[Len(r) + i] = s[i]
        BY <1>7, <1>9, <2>1, <3>3
    <3> QED BY <3>1, <3>2, <3>3
  <2> QED BY <1>9, <2>2
<1>11. w # <<>>
    BY <1>1, <1>7, <1>10
<1> DEFINE a == SubSeq(w, 2 + d, Len(w))
<1>12. a \in Seq(A) /\ Len(a) = Len(s) /\ \A i \in 1..Len(s) : a[i] = w[(1 + d) + i]
    BY <1>1, <1>7, <1>10
<1> HIDE DEF a
<1>13. a = s
    BY <1>7, <1>10, <1>12, SeqEqual
<1> QED BY <1>3, <1>10, <1>11, <1>13 DEF a, d, GoesOn

\* Nothing is on the way to an end, and both positions are where they started.
LEMMA FlowNone ==
    ASSUME NEW e \in End, use_mrkr' \in [End -> BOOLEAN], ~lost'[e], unread'[e] = <<>>,
           UNCHANGED mpask, mpask[e].recv_sp = 0, mpask[e].recv_mp = 0,
           mpask[Peer(e)].send_sp = 0, mpask[Peer(e)].send_mp = 0
    PROVE  Flow(e, <<>>)'
<1>0. Peer(e) \in End
    BY DEF Peer, End
<1>1. RecvMp(e) = 0 /\ SendMp(Peer(e)) = 0
    BY <1>0, ZeroMp
<1>2. RecvMp(e)' = 0 /\ SendMp(Peer(e))' = 0
    BY <1>1 DEF RecvMp, SendMp
<1>3. PICK mk, cr : mk = use_mrkr'[Peer(e)] /\ cr = use_crc'[Peer(e)]
    OBVIOUS
<1>4. Words(0)
    BY WordsConstants
<1>5. Stream(<<>>, <<>>, mk, cr, 0, 0)
  <2>1. mk \in BOOLEAN
      BY <1>0, <1>3
  <2> QED BY <1>4, <2>1, StreamNone
<1>6. mpask'[e].recv_sp \in Int /\ mpask'[e].recv_mp \in Int
    OBVIOUS
<1> QED BY <1>2, <1>3, <1>5, <1>6 DEF Flow

\* A socket that is closed, in order or with a reset.
LEMMA CloseStep ==
    ASSUME StepInv, NEW e \in End, Close(e)
    PROVE  StepInv'
<1>0. End = {"ini", "res"} /\ "ini" \in End /\ "res" \in End
    BY DEF End
<1>1. StartupInv /\ Tables /\ Attached /\ Unasked /\ Between /\ Running
    BY DEF StepInv
<1>2. /\ phase[e] = "done"
      /\ open' = [open EXCEPT ![e] = FALSE]
      /\ wire' = IF wire[e] = <<>> THEN wire ELSE [x \in End |-> <<>>]
      /\ unread' = [x \in End |-> IF wire'[x] = <<>> THEN <<>> ELSE unread[x]]
      /\ UNCHANGED <<conf, use_mrkr, use_crc, phase, ret, mpask, lost, trouble>>
    BY DEF Close, close
<1>3. StartupInv'
    BY <1>1, CloseKeeps
<1>4. /\ conf \in [End -> Conf] /\ open \in [End -> BOOLEAN]
      /\ use_mrkr \in [End -> BOOLEAN] /\ use_crc \in [End -> BOOLEAN]
    BY <1>1 DEF StartupInv, Shapes
<1>5. Tables'
    BY <1>1, <1>2 DEF Tables
<1>6. ~open'[e] /\ \A x \in End : open'[x] => open[x]
    BY <1>2, <1>4
<1>7. Attached'
  <2>1. phase["ini"] \in {"start", "wait"} => e # "ini"
      BY <1>2
  <2> QED BY <1>0, <1>1, <1>2, <1>4, <2>1 DEF Attached
<1>8. Unasked'
  <2>1. phase["res"] # "start"
      BY <1>0, <1>1, <1>2 DEF StartupInv, Asked
  <2> QED BY <1>2, <2>1 DEF Unasked
<1>9. Between'
  <2> SUFFICES ASSUME phase["ini"] = "wait", ret["res"] = "ok"
               PROVE  Between'
      BY <1>2 DEF Between
  <2>1. /\ wire["res"] = <<>> /\ unread["res"] = <<>> /\ ~lost["res"]
        /\ mpask["ini"] = Zero /\ mpask["res"].recv_sp = 0 /\ mpask["res"].recv_mp = 0
      BY <1>1 DEF Between
  <2>2. PICK s : /\ IsSeq(s)
                 /\ wire["ini"] = Rrf("rep", "res", use_mrkr["res"], use_crc["res"]) \o s
                 /\ trouble["ini"] = {} => Flow("ini", s)
      BY <1>1 DEF Between
  <2>3. e = "res"
      BY <1>0, <1>2
  <2>4. wire' = wire
      BY <1>2, <2>1, <2>3
  <2>5. wire["ini"] # <<>>
    <3>1. PICK w, x, y : w = wire["ini"] /\ x = use_mrkr["res"] /\ y = use_crc["res"]
        OBVIOUS
    <3>2. w = Rrf("rep", "res", x, y) \o s
        BY <2>2, <3>1
    <3>3. GoesOn(w, conf["res"].pd, s)
        BY <1>0, <1>4, <2>2, <3>2, FrameTaken
    <3> QED BY <3>1, <3>3 DEF GoesOn
  <2>6. unread'["ini"] = unread["ini"] /\ unread'["res"] = <<>>
      BY <1>0, <1>2, <2>1, <2>4, <2>5
  <2>7. trouble'["ini"] = {} => Flow("ini", s)'
      BY <1>0, <1>2, <2>2, <2>6, FlowKept
  <2>8. wire'["ini"] = Rrf("rep", "res", use_mrkr["res"], use_crc["res"])' \o s
      BY <1>2, <2>2, <2>4 DEF Rrf
  <2>9. \E t : /\ IsSeq(t)
               /\ wire'["ini"] = Rrf("rep", "res", use_mrkr["res"], use_crc["res"])' \o t
               /\ trouble'["ini"] = {} => Flow("ini", t)'
      BY <2>2, <2>7, <2>8
  <2> QED BY <1>2, <2>1, <2>4, <2>6, <2>9 DEF Between
<1>10. Running'
  <2> SUFFICES ASSUME ret["ini"] = "ok", NEW x \in End, trouble[x] = {}
               PROVE  Flow(x, wire[x])' \/ Dropped(x)'
      BY <1>2 DEF Running, Link
  <2>0. Peer(x) \in End /\ (e = x \/ e = Peer(x))
      BY DEF Peer, End
  <2>1. Flow(x, wire[x]) \/ Dropped(x)
      BY <1>1 DEF Running, Link
  <2>2. ~lost[x]
      BY <2>1 DEF Flow, Dropped
  <2>3. CASE wire'[x] = <<>>
    <3>1. ~(open'[x] /\ open'[Peer(x)])
        BY <1>6, <2>0
    <3> QED BY <1>2, <2>2, <2>3, <3>1 DEF Dropped
  <2>4. CASE wire'[x] # <<>>
    <3>1. wire'[x] = wire[x] /\ unread'[x] = unread[x]
        BY <1>2, <2>4
    <3>2. PICK s : s = wire[x]
        OBVIOUS
    <3>3. Flow(x, s)
        BY <2>1, <2>4, <3>1, <3>2 DEF Dropped
    <3>4. Flow(x, s)'
        BY <1>2, <3>1, <3>3, FlowKept
    <3> QED BY <3>1, <3>2, <3>4 DEF Flow
  <2> QED BY <2>3, <2>4
<1> QED BY <1>3, <1>5, <1>7, <1>8, <1>9, <1>10 DEF StepInv

\* The request.
LEMMA RequestStep ==
    ASSUME StepInv, send_request, UNCHANGED mpaVars
    PROVE  StepInv'
<1>0. "ini" \in End /\ "res" \in End /\ "ini" # "res"
    BY DEF End
<1>1. StartupInv /\ Tables /\ Attached /\ Unasked /\ Between /\ Running
    BY DEF StepInv
<1>2. StartupInv'
    BY <1>1, RequestKeeps
<1>3. /\ phase["ini"] = "start" /\ phase' = [phase EXCEPT !["ini"] = "wait"]
      /\ UNCHANGED <<conf, use_mrkr, use_crc, ret, open, mpask, lost, unread, trouble>>
      /\ wire' = [wire EXCEPT !["res"] = @ \o Rrf("req", "ini", use_mrkr["ini"], use_crc["ini"])]
    BY DEF send_request, mpaVars
<1>4. /\ phase["res"] = "start" /\ wire["res"] = <<>>
      /\ ret["ini"] = "none" /\ ret["res"] = "none"
    BY <1>1, <1>3 DEF StartupInv, Awaited, Asked
<1>5. Shapes
    BY <1>1 DEF StartupInv
<1>6. PICK r : r = Rrf("req", "ini", use_mrkr["ini"], use_crc["ini"])
    OBVIOUS
<1>7. <<>> \o r = r
    BY <1>0, <1>5, <1>6, FrameHead DEF Shapes
<1>8. wire'["res"] = r
  <2>1. wire'["res"] = wire["res"] \o r
      BY <1>0, <1>3, <1>5, <1>6 DEF Shapes
  <2> QED BY <1>4, <1>7, <2>1
<1>9. Rrf("req", "ini", use_mrkr["ini"], use_crc["ini"])' = r
    BY <1>3, <1>6 DEF Rrf
<1>10. Unasked'
    BY <1>1, <1>3, <1>4, <1>8, <1>9 DEF Unasked
<1>11. Tables' /\ Attached'
    BY <1>1, <1>3 DEF Tables, Attached
<1>12. Between' /\ Running'
    BY <1>3, <1>4 DEF Between, Running
<1> QED BY <1>2, <1>10, <1>11, <1>12 DEF StepInv

\* The responder's answer.
LEMMA RespondStep ==
    ASSUME StepInv, UNCHANGED mpaVars, respond_user \/ respond_kernel
    PROVE  StepInv'
<1>0. "ini" \in End /\ "res" \in End /\ "ini" # "res" /\ Peer("ini") = "res"
    BY DEF End, Peer
<1>1. StartupInv /\ Tables /\ Attached /\ Unasked /\ Between /\ Running
    BY DEF StepInv
<1>2. StartupInv'
    BY <1>1, RespondKeeps
<1>3. /\ phase["res"] = "start" /\ wire["res"] # <<>>
      /\ UNCHANGED <<conf, open, mpask, lost, unread, trouble>>
      /\ phase' = [phase EXCEPT !["res"] = "done"]
    BY DEF respond_user, respond_kernel, HasFrame, Returns, mpaVars
<1>4. /\ phase["ini"] = "wait" /\ wire["ini"] = <<>> /\ ret["ini"] = "none"
    BY <1>1, <1>3 DEF StartupInv, Asked, Awaited
<1>5. Shapes
    BY <1>1 DEF StartupInv
<1>6. phase'["ini"] = "wait" /\ phase'["res"] = "done"
    BY <1>0, <1>3, <1>4, <1>5 DEF Shapes
<1>7. Tables' /\ Attached' /\ Unasked'
    BY <1>1, <1>3, <1>4, <1>6 DEF Tables, Attached, Unasked
<1>8. Refuses \/ Consents
    BY DEF respond_user, respond_kernel, Returns, Refuses, Consents, Reply
<1>9. ret'["ini"] = "none" /\ (Refuses => ret'["res"] # "ok")
    BY <1>0, <1>4, <1>5, <1>8 DEF Refuses, Consents, Shapes
<1>10. Running'
    BY <1>9 DEF Running
<1>11. CASE Refuses
  <2>1. Between'
      BY <1>9, <1>11 DEF Between
  <2> QED BY <1>2, <1>7, <1>10, <2>1 DEF StepInv
<1>12. CASE Consents
  <2>1. PICK m, c : /\ m = Settled(use_mrkr["res"], wire["res"][1].m)
                    /\ c = Settled(use_crc["res"], wire["res"][1].c)
      OBVIOUS
  <2>2. PICK r : r = Rrf("rep", "res", m, c)
      OBVIOUS
  <2>3. /\ wire' = [wire EXCEPT !["res"] = AfterFrame("res"), !["ini"] = @ \o r]
        /\ use_mrkr' = [use_mrkr EXCEPT !["res"] = m]
        /\ use_crc' = [use_crc EXCEPT !["res"] = c]
      BY <1>12, <2>1, <2>2 DEF Consents, Reply
  <2>4. IsSeq(r) /\ <<>> \o r = r
      BY <1>0, <1>5, <2>2, FrameHead DEF Shapes
  <2>5. IsSeq(<<>>) /\ r \o <<>> = r
    <3>1. PICK S : r \in Seq(S)
        BY <2>4 DEF IsSeq
    <3>2. IsSeq(<<>>)
        BY CleanEmpty DEF IsSeq, Clean
    <3>3. r \o <<>> = r
        BY <3>1, ConcatEmptySeq
    <3> QED BY <3>2, <3>3
  <2>6. wire["res"] = Rrf("req", "ini", use_mrkr["ini"], use_crc["ini"])
        /\ mpask = [e \in End |-> Zero]
        /\ \A e \in End : ~lost[e] /\ unread[e] = <<>>
      BY <1>1, <1>3, <1>4 DEF Unasked
  <2>7. AfterFrame("res") = <<>>
    <3>1. PICK w : w = wire["res"]
        OBVIOUS
    <3>2. IsSeq(w) /\ w \o <<>> = w
      <4>1. IsSeq(w)
          BY <1>0, <1>5, <2>6, <3>1, FrameHead DEF Shapes
      <4>2. PICK S : w \in Seq(S)
          BY <4>1 DEF IsSeq
      <4> QED BY <4>1, <4>2, ConcatEmptySeq
    <3>3. PICK x, y, z : x = use_mrkr["ini"] /\ y = use_crc["ini"] /\ z = <<>>
        OBVIOUS
    <3>4. w = Rrf("req", "ini", x, y) \o z /\ IsSeq(z)
        BY <2>5, <2>6, <3>1, <3>2, <3>3
    <3>5. conf \in [End -> Conf]
        BY <1>5 DEF Shapes
    <3>6. GoesOn(w, conf["ini"].pd, z)
        BY <1>0, <3>4, <3>5, FrameTaken
    <3> QED BY <3>1, <3>3, <3>6 DEF AfterFrame, PD_Length, GoesOn
  <2>8. wire'["res"] = <<>> /\ wire'["ini"] = r \o <<>>
    <3>1. wire'["res"] = AfterFrame("res") /\ wire'["ini"] = wire["ini"] \o r
        BY <1>0, <1>5, <2>3 DEF Shapes
    <3> QED BY <1>4, <2>4, <2>5, <2>7, <3>1
  <2>9. Rrf("rep", "res", use_mrkr["res"], use_crc["res"])' = r
    <3>1. use_mrkr'["res"] = m /\ use_crc'["res"] = c
        BY <1>0, <1>5, <2>3 DEF Shapes
    <3> QED BY <1>3, <2>2, <3>1 DEF Rrf
  <2>10. /\ mpask["ini"] = Zero /\ mpask["res"] = Zero
         /\ \A e \in End : /\ mpask[e].recv_sp = 0 /\ mpask[e].recv_mp = 0
                           /\ mpask[e].send_sp = 0 /\ mpask[e].send_mp = 0
      BY <1>0, <2>6 DEF Zero
  <2>11. Flow("ini", <<>>)'
    <3>1. use_mrkr' \in [End -> BOOLEAN]
        BY <1>2 DEF StartupInv, Shapes
    <3> QED BY <1>0, <1>3, <2>6, <2>10, <3>1, FlowNone
  <2>12. \E s : /\ IsSeq(s)
                /\ wire'["ini"] = Rrf("rep", "res", use_mrkr["res"], use_crc["res"])' \o s
                /\ trouble'["ini"] = {} => Flow("ini", s)'
      BY <2>5, <2>8, <2>9, <2>11
  <2>13. Between'
      BY <1>0, <1>3, <2>6, <2>8, <2>10, <2>12 DEF Between
  <2> QED BY <1>2, <1>7, <1>10, <2>13 DEF StepInv
<1> QED BY <1>8, <1>11, <1>12

\* The initiator takes the reply, and the streams start.
LEMMA ReplyStep ==
    ASSUME StepInv, UNCHANGED mpaVars,
           recv_reply_user \/ recv_reply_kernel \/ recv_reply_other \/ recv_reply_eof
    PROVE  StepInv'
<1>0. /\ "ini" \in End /\ "res" \in End /\ End = {"ini", "res"}
      /\ Peer("ini") = "res" /\ Peer("res") = "ini"
    BY DEF End, Peer
<1>1. StartupInv /\ Tables /\ Attached /\ Unasked /\ Between /\ Running
    BY DEF StepInv
<1>2. StartupInv'
    BY <1>1, ReplyKeeps
<1>3. /\ phase["ini"] = "wait" /\ UNCHANGED <<conf, open, mpask, lost, unread, trouble>>
      /\ wire["ini"] # <<>> \/ ~open["res"]
    BY DEF recv_reply_user, recv_reply_kernel, recv_reply_other, recv_reply_eof, HasFrame, mpaVars
<1>4. phase["res"] # "start" /\ ret["ini"] = "none"
    BY <1>1, <1>3 DEF StartupInv, Asked, Awaited
<1>5. Shapes
    BY <1>1 DEF StartupInv
<1>6. phase'["ini"] \in {"done", "exit"} /\ phase'["res"] = phase["res"]
  <2>1. \E q \in {"done", "exit"} : phase' = [phase EXCEPT !["ini"] = q]
      BY DEF recv_reply_user, recv_reply_kernel, recv_reply_other, recv_reply_eof, Returns
  <2> QED BY <1>0, <1>5, <2>1 DEF Shapes
<1>7. Tables' /\ Attached' /\ Unasked' /\ Between'
    BY <1>1, <1>3, <1>4, <1>6 DEF Tables, Attached, Unasked, Between
<1>8. Running'
  <2> SUFFICES ASSUME ret'["ini"] = "ok"
               PROVE  Link("ini")' /\ Link("res")'
      BY <1>0 DEF Running
  <2>1. /\ HasFrame("ini")
        /\ wire' = [wire EXCEPT !["ini"] = AfterFrame("ini")]
        /\ use_mrkr' = [use_mrkr EXCEPT !["ini"] = wire["ini"][1].m]
        /\ use_crc' = [use_crc EXCEPT !["ini"] = wire["ini"][1].c]
    <3>1. ASSUME NEW v, ret' = [ret EXCEPT !["ini"] = v] PROVE v = "ok"
        BY <1>0, <1>5, <3>1 DEF Shapes
    <3>2. ret' # ret
        BY <1>4
    <3> QED BY <3>1, <3>2
           DEF recv_reply_user, recv_reply_kernel, recv_reply_other, recv_reply_eof, TakeReply,
               Returns
  <2>2. ret["res"] = "ok"
      BY <1>1, <1>3, <2>1 DEF StartupInv, Awaited
  <2>3. /\ wire["res"] = <<>> /\ unread["res"] = <<>> /\ ~lost["res"]
        /\ mpask["ini"] = Zero /\ mpask["res"].recv_sp = 0 /\ mpask["res"].recv_mp = 0
      BY <1>1, <1>3, <2>2 DEF Between
  <2>4. PICK s : /\ IsSeq(s)
                 /\ wire["ini"] = Rrf("rep", "res", use_mrkr["res"], use_crc["res"]) \o s
                 /\ trouble["ini"] = {} => Flow("ini", s)
      BY <1>1, <1>3, <2>2 DEF Between
  <2>5. AfterFrame("ini") = s
    <3>1. PICK w, x, y : w = wire["ini"] /\ x = use_mrkr["res"] /\ y = use_crc["res"]
        OBVIOUS
    <3>2. w = Rrf("rep", "res", x, y) \o s /\ IsSeq(s)
        BY <2>4, <3>1
    <3>3. conf \in [End -> Conf]
        BY <1>5 DEF Shapes
    <3>4. GoesOn(w, conf["res"].pd, s)
        BY <1>0, <3>2, <3>3, FrameTaken
    <3> QED BY <3>1, <3>4 DEF AfterFrame, PD_Length, GoesOn
  <2>6. /\ wire'["ini"] = s /\ wire'["res"] = <<>>
        /\ use_mrkr'["res"] = use_mrkr["res"] /\ use_crc'["res"] = use_crc["res"]
      BY <1>0, <1>5, <2>1, <2>3, <2>5 DEF Shapes
  <2>7. Link("ini")'
    <3> SUFFICES ASSUME trouble'["ini"] = {} PROVE Flow("ini", wire["ini"])'
        BY DEF Link
    <3>1. Flow("ini", s)'
        BY <1>0, <1>3, <2>4, <2>6, FlowKept
    <3> QED BY <2>6, <3>1 DEF Flow
  <2>8. Link("res")'
    <3>1. use_mrkr' \in [End -> BOOLEAN]
        BY <1>2 DEF StartupInv, Shapes
    <3>2. mpask["ini"].send_sp = 0 /\ mpask["ini"].send_mp = 0
        BY <2>3 DEF Zero
    <3>3. Flow("res", <<>>)'
        BY <1>0, <1>3, <2>3, <3>1, <3>2, FlowNone
    <3> QED BY <2>6, <3>3 DEF Link, Flow
  <2> QED BY <2>7, <2>8
<1> QED BY <1>2, <1>7, <1>8 DEF StepInv

--------------------------------------------------------------------------------
(* The readers stay in step *)

\* In the beginning nothing is on the way.
LEMMA StepInvInit ==
    Init => StepInv
<1> SUFFICES ASSUME Init PROVE StepInv
    OBVIOUS
<1>0. "ini" \in End /\ "res" \in End
    BY DEF End
<1>1. StartupInv
    BY StartupInvInit
<1>2. /\ phase = [e \in End |-> "start"] /\ ret = [e \in End |-> "none"]
      /\ open = [e \in End |-> TRUE] /\ mpask = [e \in End |-> Zero]
      /\ lost = [e \in End |-> FALSE] /\ unread = [e \in End |-> <<>>]
      /\ trouble = [e \in End |-> {}]
    BY DEF Init, StartupInit, Zero
<1>3. phase["ini"] = "start" /\ ret["ini"] = "none" /\ ret["res"] = "none" /\ open["ini"]
    BY <1>0, <1>2
<1>4. Tables /\ Attached
    BY <1>2, <1>3 DEF Tables, Attached
<1>5. Unasked
    BY <1>2, <1>3 DEF Unasked
<1>6. Between /\ Running
    BY <1>3 DEF Between, Running
<1> QED BY <1>1, <1>4, <1>5, <1>6 DEF StepInv

\* A stuttering step.
LEMMA StepInvStutters ==
    ASSUME StepInv, UNCHANGED vars
    PROVE  StepInv'
<1>1. StartupInv /\ Tables /\ Attached /\ Unasked /\ Between /\ Running
    BY DEF StepInv
<1>2. UNCHANGED <<conf, use_mrkr, use_crc, phase, ret, wire, open, mpask, lost, unread, trouble>>
    BY DEF vars, startupVars
<1>3. StartupInv'
    BY <1>1, StartupInvNext
<1>4. Tables' /\ Attached'
    BY <1>1, <1>2 DEF Tables, Attached
<1>5. Unasked'
    BY <1>1, <1>2 DEF Unasked, Rrf
<1>6. ASSUME NEW e \in End, NEW s PROVE Flow(e, s)' <=> Flow(e, s)
  <2>1. RecvMp(e)' = RecvMp(e) /\ SendMp(Peer(e))' = SendMp(Peer(e))
      BY <1>2 DEF RecvMp, SendMp
  <2> QED BY <1>2, <2>1 DEF Flow
<1>7. Between'
    BY <1>1, <1>2, <1>6 DEF Between, Rrf, End
<1>8. Running'
  <2> SUFFICES ASSUME ret["ini"] = "ok", NEW e \in End PROVE Link(e)'
      BY <1>2 DEF Running
  <2>1. Link(e)
      BY <1>1 DEF Running
  <2> QED BY <1>2, <2>1, LinkKept
<1> QED BY <1>3, <1>4, <1>5, <1>7, <1>8 DEF StepInv

\* Every step keeps the invariant.
LEMMA StepInvNext ==
    StepInv /\ [Next]_vars => StepInv'
<1> SUFFICES ASSUME StepInv, [Next]_vars PROVE StepInv'
    OBVIOUS
<1>1. CASE Startup
    BY <1>1, RequestStep, ReplyStep, RespondStep DEF Startup, StartupStep
<1>2. ASSUME NEW e \in End, Close(e) \/ mpa_recv(e) \/ recv_eof(e) PROVE StepInv'
    BY <1>2, CloseStep, RecvStep, EofStep
<1>3. ASSUME NEW e \in End, NEW f \in Sendable(e), mpa_send(e, f) PROVE StepInv'
    BY <1>3, SendStep
<1>4. CASE UNCHANGED vars
    BY <1>4, StepInvStutters
<1> QED BY <1>1, <1>2, <1>3, <1>4 DEF Next

\* The invariant says that the readers are in step.
LEMMA StepInvInStep ==
    StepInv => InStep
<1> SUFFICES ASSUME StepInv, NEW e \in End, Framed(e)
             PROVE  /\ ~lost[e]
                    /\ (wire[e] = <<>> /\ open[e] /\ open[Peer(e)] /\ use_mrkr[e])
                         => SendMp(Peer(e)) = RecvMp(e)
    BY DEF InStep
<1>0. "ini" \in End /\ Peer(e) \in End /\ End = {"ini", "res"}
    BY DEF End, Peer
<1>1. ret["ini"] = "ok" /\ trouble[e] = {}
    BY <1>0 DEF Framed
<1>2. Flow(e, wire[e]) \/ Dropped(e)
    BY <1>1 DEF StepInv, Running, Link
<1>3. ~lost[e]
    BY <1>2 DEF Flow, Dropped
<1>4. ASSUME wire[e] = <<>>, open[e], open[Peer(e)], use_mrkr[e]
      PROVE  SendMp(Peer(e)) = RecvMp(e)
  <2>1. Flow(e, wire[e])
      BY <1>2, <1>4 DEF Dropped
  <2>2. /\ use_mrkr \in [End -> BOOLEAN] /\ use_crc \in [End -> BOOLEAN] /\ Agreement
      BY DEF StepInv, StartupInv, Shapes
  <2>3. use_mrkr[Peer(e)]
      BY <1>0, <1>1, <1>4, <2>2 DEF Agreement, Peer
  <2>4. PICK u, cr, from, to :
           /\ u = unread[e] /\ cr = use_crc[Peer(e)]
           /\ from = RecvMp(e) /\ to = SendMp(Peer(e))
      OBVIOUS
  <2>5. use_mrkr[Peer(e)] = TRUE
      BY <1>0, <2>2, <2>3
  <2>6. cr \in BOOLEAN /\ Stream(<<>>, u, TRUE, cr, from, to)
      BY <1>0, <1>4, <2>1, <2>2, <2>4, <2>5 DEF Flow
  <2>7. TRUE => from = to /\ from \in Nat /\ Words(from)
      BY <2>6, StreamEmpty
  <2> QED BY <2>4, <2>7
<1> QED BY <1>3, <1>4

\* The FPDU readers and writers of iwarp/mpa.c and kiwarp/mpa.c, whatever the
\* sizes of words, headers, payloads and marker periods and through any number of
\* FPDUs: the places the reader computes for markers, pad and CRC are those the
\* writer computed, and with nothing on the way their positions are equal, unless
\* one of the things recorded in trouble happened to the stream.
THEOREM ReadersStayInStep == Spec => []InStep
BY StepInvInit, StepInvNext, StepInvInStep, PTL DEF Spec

================================================================================
