------------------------------- MODULE MpaStartup ------------------------------
(***************************************************************************)
(* The MPA startup exchange between the two ends of one TCP connection     *)
(* (mpa_init_startup of iwarp/mpa.c and of kiwarp/mpa.c): the initiator    *)
(* sends a request frame with its wishes for markers and CRC and private   *)
(* data, the responder answers, and both settle on what the FPDUs that     *)
(* follow look like.  Either end may be the library or the kernel port.    *)
(*                                                                         *)
(* The verbs go on whatever the exchange returned (qp.c:268, qp.c:383), so *)
(* an end whose startup failed sends and receives all the same: see Mpa.   *)
(***************************************************************************)
EXTENDS Integers, Sequences

CONSTANT
    Conf              \* what an end can be like: see ConfAssumption

(***************************************************************************)
(* kernel: the kernel port; mrkr, crc: what the user asked for with        *)
(* rdmap_mpa_use_markers and rdmap_mpa_use_crc; pd: bytes of private data  *)
(* it sends; rpd: room the caller has for the private data of the peer.    *)
(***************************************************************************)
ASSUME ConfAssumption ==
    Conf \subseteq [kernel : BOOLEAN, mrkr : BOOLEAN, crc : BOOLEAN, pd : Nat, rpd : Nat]

End == {"ini", "res"}
Peer(e) == IF e = "ini" THEN "res" ELSE "ini"

VARIABLES
    conf,             \* the ends of this connection
    use_mrkr, use_crc,
    phase,            \* "start", "wait" for the reply, "done", "exit" (error())
    ret,              \* what mpa_init_startup returned
    wire,             \* the bytes on their way to each end
    open              \* has the end not yet closed its socket

startupVars == <<conf, use_mrkr, use_crc, phase, ret, wire, open>>

\* A startup frame: the fixed part, then the private data.
Rrf(key, e, m, c) ==
    <<[t |-> "rrf", key |-> key, m |-> m, c |-> c, len |-> conf[e].pd]>>
        \o [i \in 1..conf[e].pd |-> [t |-> "pd"]]

HasFrame(e) == wire[e] # <<>> /\ wire[e][1].t = "rrf"
PD_Length(e) == wire[e][1].len

\* What is left of the stream once the fixed part, or all of it, is read.
AfterHeader(e) == Tail(wire[e])
AfterFrame(e) == SubSeq(wire[e], 2 + PD_Length(e), Len(wire[e]))

StartupInit ==
    /\ conf \in [End -> Conf]
    /\ use_mrkr = [e \in End |-> conf[e].mrkr]
    /\ use_crc = [e \in End |-> conf[e].crc]
    /\ phase = [e \in End |-> "start"]
    /\ ret = [e \in End |-> "none"]
    /\ wire = [e \in End |-> <<>>]
    /\ open = [e \in End |-> TRUE]

Returns(e, r) ==
    /\ phase' = [phase EXCEPT ![e] = "done"]
    /\ ret' = [ret EXCEPT ![e] = r]

--------------------------------------------------------------------------------
(* The initiator *)

send_request ==
    /\ phase["ini"] = "start"
    /\ wire' = [wire EXCEPT !["res"] = @ \o Rrf("req", "ini", use_mrkr["ini"], use_crc["ini"])]
    /\ phase' = [phase EXCEPT !["ini"] = "wait"]
    /\ UNCHANGED <<conf, use_mrkr, use_crc, ret, open>>

\* The initiator agrees with the responder.
TakeReply ==
    /\ use_mrkr' = [use_mrkr EXCEPT !["ini"] = wire["ini"][1].m]
    /\ use_crc' = [use_crc EXCEPT !["ini"] = wire["ini"][1].c]

\* The library: private data that does not fit stays in the stream, and the
\* flags stay the initiator's own; a wrong key is found last.
recv_reply_user ==
    /\ phase["ini"] = "wait"
    /\ ~conf["ini"].kernel
    /\ HasFrame("ini")
    /\ IF PD_Length("ini") > conf["ini"].rpd
       THEN /\ Returns("ini", "EMSGSIZE")
            /\ wire' = [wire EXCEPT !["ini"] = AfterHeader("ini")]
            /\ UNCHANGED <<use_mrkr, use_crc>>
       ELSE /\ Returns("ini", IF wire["ini"][1].key = "rep" THEN "ok" ELSE "EBADMSG")
            /\ wire' = [wire EXCEPT !["ini"] = AfterFrame("ini")]
            /\ TakeReply
    /\ UNCHANGED <<conf, open>>

\* The kernel port looks at the length and the key before anything else.
Refused(e, key) == PD_Length(e) > conf[e].rpd \/ wire[e][1].key # key

recv_reply_kernel ==
    /\ phase["ini"] = "wait"
    /\ conf["ini"].kernel
    /\ HasFrame("ini")
    /\ IF Refused("ini", "rep")
       THEN /\ Returns("ini", "EINVAL")
            /\ wire' = [wire EXCEPT !["ini"] = AfterHeader("ini")]
            /\ UNCHANGED <<use_mrkr, use_crc>>
       ELSE /\ Returns("ini", "ok")
            /\ wire' = [wire EXCEPT !["ini"] = AfterFrame("ini")]
            /\ TakeReply
    /\ UNCHANGED <<conf, open>>

\* The responder refused and sends FPDUs all the same, whose bytes are taken for
\* the reply: its length does not fit, or its key is wrong, which the library
\* finds after it has taken over the flags.
recv_reply_other ==
    /\ phase["ini"] = "wait"
    /\ wire["ini"] # <<>>
    /\ ~HasFrame("ini")
    /\ wire' = [wire EXCEPT !["ini"] = AfterHeader("ini")]
    /\ \/ /\ Returns("ini", IF conf["ini"].kernel THEN "EINVAL" ELSE "EMSGSIZE")
          /\ UNCHANGED <<use_mrkr, use_crc>>
       \/ /\ ~conf["ini"].kernel
          /\ Returns("ini", "EBADMSG")
          /\ \E m, c \in BOOLEAN : /\ use_mrkr' = [use_mrkr EXCEPT !["ini"] = m]
                                   /\ use_crc' = [use_crc EXCEPT !["ini"] = c]
    /\ UNCHANGED <<conf, open>>

\* The responder closed without an answer.  The library's read_full ends the
\* program; the kernel's recvmsg loop reports success and the frame buffer
\* still holds the request, whose key is the wrong one.
recv_reply_eof ==
    /\ phase["ini"] = "wait"
    /\ wire["ini"] = <<>>
    /\ ~open["res"]
    /\ IF conf["ini"].kernel
       THEN Returns("ini", "EINVAL")
       ELSE phase' = [phase EXCEPT !["ini"] = "exit"] /\ UNCHANGED ret
    /\ UNCHANGED <<conf, use_mrkr, use_crc, wire, open>>

--------------------------------------------------------------------------------
(* The responder *)

\* A flag the responder insists on has to be set in the request.
Accepts(mine, theirs) == mine => theirs

\* Mutant: the responder does not take over what the initiator asks for.
Settled_own(mine, theirs) == mine

\* What the responder uses: the request's flag unless it insists itself.
Settled(mine, theirs) == IF mine THEN mine ELSE theirs

\* Mutant: the reply is forgotten.
Reply_not(m, c) == wire' = [wire EXCEPT !["res"] = AfterFrame("res")]

\* The reply carries the flags as they are now, the markers' included when
\* only the CRC's were changed.
Reply(m, c) ==
    wire' = [wire EXCEPT !["res"] = AfterFrame("res"),
                         !["ini"] = @ \o Rrf("rep", "res", m, c)]

\* The library: markers, then CRC, are settled as soon as the fixed part is
\* read, and a disagreement returns at once: nothing is answered and the
\* private data stays in the stream.  The length of the private data is not
\* compared with the room for it.
respond_user ==
    LET m == wire["res"][1].m
        c == wire["res"][1].c
        Mine == Settled(use_mrkr["res"], m)
        MineCrc == Settled(use_crc["res"], c)
    IN  /\ phase["res"] = "start"
        /\ ~conf["res"].kernel
        /\ HasFrame("res")
        /\ \/ /\ ~Accepts(use_mrkr["res"], m)
              /\ Returns("res", "EBADMSG")
              /\ wire' = [wire EXCEPT !["res"] = AfterHeader("res")]
              /\ UNCHANGED <<use_mrkr, use_crc>>
           \/ /\ Accepts(use_mrkr["res"], m)
              /\ use_mrkr' = [use_mrkr EXCEPT !["res"] = Mine]
              /\ IF ~Accepts(use_crc["res"], c)
                 THEN /\ Returns("res", "EBADMSG")
                      /\ wire' = [wire EXCEPT !["res"] = AfterHeader("res")]
                      /\ UNCHANGED use_crc
                 ELSE /\ use_crc' = [use_crc EXCEPT !["res"] = MineCrc]
                      /\ IF wire["res"][1].key = "req"
                         THEN Returns("res", "ok") /\ Reply(Mine, MineCrc)
                         ELSE /\ Returns("res", "EBADMSG")
                              /\ wire' = [wire EXCEPT !["res"] = AfterFrame("res")]
        /\ UNCHANGED <<conf, open>>

\* The kernel port: length and key first, then the whole frame, then the
\* flags.
respond_kernel ==
    LET m == wire["res"][1].m
        c == wire["res"][1].c
        Mine == Settled(use_mrkr["res"], m)
        MineCrc == Settled(use_crc["res"], c)
    IN  /\ phase["res"] = "start"
        /\ conf["res"].kernel
        /\ HasFrame("res")
        /\ \/ /\ Refused("res", "req")
              /\ Returns("res", "EINVAL")
              /\ wire' = [wire EXCEPT !["res"] = AfterHeader("res")]
              /\ UNCHANGED <<use_mrkr, use_crc>>
           \/ /\ ~Refused("res", "req")
              /\ ~Accepts(use_mrkr["res"], m)
              /\ Returns("res", "EBADMSG")
              /\ wire' = [wire EXCEPT !["res"] = AfterFrame("res")]
              /\ UNCHANGED <<use_mrkr, use_crc>>
           \/ /\ ~Refused("res", "req")
              /\ Accepts(use_mrkr["res"], m)
              /\ use_mrkr' = [use_mrkr EXCEPT !["res"] = Mine]
              /\ IF ~Accepts(use_crc["res"], c)
                 THEN /\ Returns("res", "EBADMSG")
                      /\ wire' = [wire EXCEPT !["res"] = AfterFrame("res")]
                      /\ UNCHANGED use_crc
                 ELSE /\ use_crc' = [use_crc EXCEPT !["res"] = MineCrc]
                      /\ Returns("res", "ok")
                      /\ Reply(Mine, MineCrc)
        /\ UNCHANGED <<conf, open>>

--------------------------------------------------------------------------------
\* iwarp_qp_disconnect, possible as soon as the connect call is back.  With
\* unread bytes at hand TCP resets the connection and drops what it carries.
close(e) ==
    /\ phase[e] = "done"
    /\ open[e]
    /\ open' = [open EXCEPT ![e] = FALSE]
    /\ wire' = IF wire[e] = <<>> THEN wire ELSE [x \in End |-> <<>>]
    /\ UNCHANGED <<conf, use_mrkr, use_crc, phase, ret>>

StartupStep ==
    \/ send_request
    \/ recv_reply_user
    \/ recv_reply_kernel
    \/ recv_reply_other
    \/ recv_reply_eof
    \/ respond_user
    \/ respond_kernel

StartupNext == StartupStep \/ \E e \in End : close(e)

StartupSpec == StartupInit /\ [][StartupNext]_startupVars

--------------------------------------------------------------------------------
(* Properties *)

\* The initiator's call succeeds only if the responder's did, and the two
\* ends then frame alike: they agree on markers and CRC, and an end that asked
\* for one of them has it.
Agreement ==
    ret["ini"] = "ok" =>
        /\ ret["res"] = "ok"
        /\ use_mrkr["ini"] = use_mrkr["res"]
        /\ use_crc["ini"] = use_crc["res"]
        /\ \A e \in End : (conf[e].mrkr => use_mrkr[e]) /\ (conf[e].crc => use_crc[e])

\* The initiator's call comes back, unless the responder has refused the
\* request, which it does without an answer.
Answered ==
    phase["ini"] = "wait" ~> (phase["ini"] # "wait" \/ ret["res"] \notin {"none", "ok"})
================================================================================
