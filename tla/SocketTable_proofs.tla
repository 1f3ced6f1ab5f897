--------------------------- MODULE SocketTable_proofs --------------------------
(***************************************************************************)
(* What holds of the socket table for every set of descriptors and         *)
(* addresses and every size of the poll array.                             *)
(*                                                                         *)
(* The remembered end points are shown to be ones the hash table owns; the *)
(* freshness of the cache follows, because an owned end point knows its    *)
(* socket.  The count of the array needs that its sockets are finitely     *)
(* many, and its order, that position and skidx determine each other.      *)
(***************************************************************************)
EXTENDS SocketTable, SequenceTheorems, FiniteSetTheorems, TLAPS

\* A remembered end point is one that the hash table owns.
Owned(last) == last # NULL => \E s \in Sock : iwht[s] = last

\* As many entries as registered sockets.
Counted ==
    /\ IsFiniteSet(Registered)
    /\ numsks = Cardinality(Registered)
    /\ status = "overrun" => numsks = MAX_SOCKETS

\* Positions and sockets determine each other.
InPlace ==
    ~shifted =>
        /\ \A k \in 1 .. numsks :
             sks[k] \in Registered /\ iwsk[iwht[sks[k]]].skidx + 1 = k
        /\ \A s \in Registered :
             LET i == iwsk[iwht[s]].skidx + 1 IN i <= numsks /\ sks[i] = s

SocketInv ==
    TypeOK /\ Owned(last_send_sk) /\ Owned(last_recv_sk) /\ Counted /\ InPlace

--------------------------------------------------------------------------------
(* The array *)

\* Closing up a position, or erasing the last one, takes one entry away.
LEMMA RemovedIsShorter ==
    ASSUME NEW q \in Seq(Sock), NEW i \in Nat, Len(q) >= 1
    PROVE  Removed(q, i) \in Seq(Sock) /\ Len(Removed(q, i)) = Len(q) - 1
<1>1. CASE i < Len(q) - 1
  <2>1. Len(q) \in Nat /\ 1 \in Int /\ i + 2 \in Int /\ i <= Len(q)
      BY <1>1, LenProperties
  <2>2. SubSeq(q, 1, i) \in Seq(Sock) /\ Len(SubSeq(q, 1, i)) = i
      BY <1>1, <2>1, SubSeqProperties
  <2>3. /\ SubSeq(q, i + 2, Len(q)) \in Seq(Sock)
        /\ Len(SubSeq(q, i + 2, Len(q))) = Len(q) - i - 1
      BY <1>1, <2>1, SubSeqProperties
  <2> DEFINE left == SubSeq(q, 1, i)
             right == SubSeq(q, i + 2, Len(q))
  <2>4. Removed(q, i) = left \o right
      BY <1>1 DEF Removed
  <2> HIDE DEF left, right
  <2>5. left \o right \in Seq(Sock) /\ Len(left \o right) = Len(left) + Len(right)
      BY <2>2, <2>3, ConcatProperties DEF left, right
  <2>6. i + (Len(q) - i - 1) = Len(q) - 1
      BY <2>1
  <2> QED BY <2>2, <2>3, <2>4, <2>5, <2>6 DEF left, right
<1>2. CASE ~(i < Len(q) - 1)
  <2>1. Len(q) \in Nat
      BY LenProperties
  <2>2. SubSeq(q, 1, Len(q) - 1) \in Seq(Sock) /\ Len(SubSeq(q, 1, Len(q) - 1)) = Len(q) - 1
    <3>1. \A k \in 1 .. Len(q) - 1 : q[k] \in Sock
        BY <2>1, ElementOfSeq
    <3>2. PICK n \in Nat : n = Len(q) - 1
        BY <2>1
    <3>3. SubSeq(q, 1, n) \in Seq(Sock) /\ Len(SubSeq(q, 1, n)) = IF 1 <= n THEN n - 1 + 1 ELSE 0
      <4>1. 1 \in Int /\ n \in Int /\ \A k \in 1 .. n : q[k] \in Sock
          BY <3>1, <3>2
      <4> QED BY ONLY <4>1, SubSeqProperties
    <3>4. (IF 1 <= n THEN n - 1 + 1 ELSE 0) = n
        OBVIOUS
    <3> QED BY <3>2, <3>3, <3>4
  <2> QED BY <1>2, <2>2, SMTT(30) DEF Removed
<1> QED BY <1>1, <1>2

\* Erasing the last entry keeps the others where they are.
LEMMA RemovedAtEnd ==
    ASSUME NEW q \in Seq(Sock), NEW i \in Nat, Len(q) >= 1, ~(i < Len(q) - 1)
    PROVE  \A k \in 1 .. Len(q) - 1 : Removed(q, i)[k] = q[k]
<1>1. Len(q) \in Nat
    BY LenProperties
<1>2. \A k \in 1 .. Len(q) - 1 : q[k] \in Sock
    BY <1>1, ElementOfSeq
<1>3. \A k \in 1 .. Len(q) - 1 : SubSeq(q, 1, Len(q) - 1)[k] = q[k]
    BY <1>1, <1>2, SubSeqProperties
<1> QED BY <1>3 DEF Removed

--------------------------------------------------------------------------------
(* Registration *)

\* A new end point is nobody's: the other sockets keep theirs as it was.
LEMMA Others ==
    ASSUME TypeOK, NEW s \in Sock, iwht[s] = NULL, NEW a \in Free,
           NEW i \in Nat, NEW ok \in BOOLEAN,
           iwht' = [iwht EXCEPT ![s] = a], iwsk' = [iwsk EXCEPT ![a] = NewIwsk(s, i, ok)]
    PROVE  /\ iwht' \in [Sock -> Addr \cup {NULL}]
           /\ iwsk' \in [Addr -> [sk : Sock \cup {NULL}, skidx : Nat, ready : BOOLEAN]]
           /\ a \in Addr /\ a # NULL
           /\ iwht'[s] = a /\ iwsk'[a].skidx = i /\ iwsk'[a].ready = ok
           /\ \A t \in Sock \ {s} : iwht'[t] = iwht[t] /\ (iwht[t] # NULL => iwsk'[iwht[t]] = iwsk[iwht[t]])
           /\ \A t \in Sock : iwht'[t] # NULL => iwsk'[iwht'[t]].sk = t
           /\ \A t \in Sock \ {s} : t \in Registered' <=> t \in Registered
           /\ s \notin Registered
<1>1. a \in Addr /\ a # NULL /\ \A t \in Sock : iwht[t] # a
    BY SocketAssumption DEF Free
<1>2. iwht \in [Sock -> Addr \cup {NULL}] /\ iwsk \in [Addr -> [sk : Sock \cup {NULL}, skidx : Nat, ready : BOOLEAN]]
    BY DEF TypeOK
<1>3. iwht' \in [Sock -> Addr \cup {NULL}] /\ iwht'[s] = a
    BY <1>1, <1>2
<1> DEFINE x == NewIwsk(s, i, ok)
<1>9. /\ x \in [sk : Sock \cup {NULL}, skidx : Nat, ready : BOOLEAN]
      /\ x.sk = s /\ x.skidx = i /\ x.ready = ok
    BY DEF NewIwsk
<1> HIDE DEF x
<1>10. iwsk' = [iwsk EXCEPT ![a] = x]
    BY DEF x
<1>4. iwsk' \in [Addr -> [sk : Sock \cup {NULL}, skidx : Nat, ready : BOOLEAN]] /\ iwsk'[a] = x
    BY <1>1, <1>2, <1>9, <1>10
<1>5. ASSUME NEW t \in Sock \ {s}
      PROVE  iwht'[t] = iwht[t] /\ (iwht[t] # NULL => iwsk'[iwht[t]] = iwsk[iwht[t]])
    BY <1>1, <1>2, <1>10
<1>6. ASSUME NEW t \in Sock, iwht'[t] # NULL PROVE iwsk'[iwht'[t]].sk = t
    BY <1>3, <1>4, <1>5, <1>6, <1>9 DEF TypeOK
<1>7. \A t \in Sock \ {s} : t \in Registered' <=> t \in Registered
    BY <1>5 DEF Registered
<1>8. s \notin Registered
    BY DEF Registered
<1> QED BY <1>1, <1>3, <1>4, <1>5, <1>6, <1>7, <1>8, <1>9

\* A remembered end point stays owned while nothing is freed.
LEMMA StillOwned ==
    ASSUME TypeOK, NEW s \in Sock, iwht[s] = NULL, NEW last,
           \A t \in Sock \ {s} : iwht'[t] = iwht[t], Owned(last)
    PROVE  last # NULL => \E t \in Sock : iwht'[t] = last
BY DEF Owned

\* A registered socket is one more entry, at the end of the array.
LEMMA RegisterKeeps ==
    ASSUME SocketInv, NEW s \in Sock, rdmap_register_sock(s)
    PROVE  SocketInv'
<1>1. PICK a \in Free : iwht' = [iwht EXCEPT ![s] = a] /\ iwsk' = [iwsk EXCEPT ![a] = NewIwsk(s, numsks, TRUE)]
    BY DEF rdmap_register_sock
<1>2. /\ TypeOK /\ iwht[s] = NULL /\ sks' = Append(sks, s)
      /\ UNCHANGED <<status, last_send_sk, last_recv_sk, pending, torn, failed, shifted>>
      /\ status = "up"
    BY DEF rdmap_register_sock, SocketInv, Up, traffic
<1>3. sks \in Seq(Sock) /\ numsks \in Nat
    BY <1>2, LenProperties DEF TypeOK, numsks
<1>4. PICK n \in Nat : n = numsks
    BY <1>3
<1>5. iwht' = [iwht EXCEPT ![s] = a] /\ iwsk' = [iwsk EXCEPT ![a] = NewIwsk(s, n, TRUE)]
    BY <1>1, <1>4
<1>6. /\ iwht' \in [Sock -> Addr \cup {NULL}]
      /\ iwsk' \in [Addr -> [sk : Sock \cup {NULL}, skidx : Nat, ready : BOOLEAN]]
      /\ a \in Addr /\ a # NULL
      /\ iwht'[s] = a /\ iwsk'[a].skidx = n /\ iwsk'[a].ready = TRUE
      /\ \A t \in Sock \ {s} : iwht'[t] = iwht[t] /\ (iwht[t] # NULL => iwsk'[iwht[t]] = iwsk[iwht[t]])
      /\ \A t \in Sock : iwht'[t] # NULL => iwsk'[iwht'[t]].sk = t
      /\ \A t \in Sock \ {s} : t \in Registered' <=> t \in Registered
      /\ s \notin Registered
    BY <1>2, <1>5, Others
<1>7. /\ sks' \in Seq(Sock) /\ numsks' = numsks + 1 /\ sks'[numsks + 1] = s
      /\ \A k \in 1 .. numsks : sks'[k] = sks[k]
    BY <1>2, <1>3, AppendProperties DEF numsks
<1>8. TypeOK'
    BY <1>2, <1>6, <1>7 DEF TypeOK
<1>9. Owned(last_send_sk)' /\ Owned(last_recv_sk)'
    BY <1>2, <1>6, StillOwned DEF SocketInv, Owned
<1>10. Registered' = Registered \cup {s}
    BY <1>6 DEF Registered
<1>11. Counted'
  <2>1. PICK R : R = Registered
      OBVIOUS
  <2>2. IsFiniteSet(R) /\ s \notin R /\ Registered' = R \cup {s}
      BY <1>6, <1>10, <2>1 DEF SocketInv, Counted
  <2>3. IsFiniteSet(R \cup {s}) /\ Cardinality(R \cup {s}) = Cardinality(R) + 1
      BY <2>2, FS_AddElement
  <2>4. numsks' = numsks + 1
      BY <1>7
  <2> QED BY <1>2, <2>1, <2>2, <2>3, <2>4 DEF SocketInv, Counted
<1>12. InPlace'
  <2> SUFFICES ASSUME ~shifted
               PROVE  /\ \A k \in 1 .. numsks' :
                           sks'[k] \in Registered' /\ iwsk'[iwht'[sks'[k]]].skidx + 1 = k
                      /\ \A t \in Registered' :
                           LET i == iwsk'[iwht'[t]].skidx + 1 IN i <= numsks' /\ sks'[i] = t
      BY <1>2 DEF InPlace
  <2>1. ASSUME NEW t \in Registered
        PROVE  t # s /\ iwht[t] # NULL /\ iwsk'[iwht'[t]] = iwsk[iwht[t]] /\ iwsk[iwht[t]].skidx \in Nat
      BY <1>2, <1>6 DEF Registered, TypeOK
  <2>2. ASSUME NEW k \in 1 .. numsks'
        PROVE  sks'[k] \in Registered' /\ iwsk'[iwht'[sks'[k]]].skidx + 1 = k
    <3>1. CASE k = numsks + 1
        BY <3>1, <1>4, <1>6, <1>7, <1>10
    <3>2. CASE k \in 1 .. numsks
      <4>1. sks[k] \in Registered /\ iwsk[iwht[sks[k]]].skidx + 1 = k /\ sks'[k] = sks[k]
          BY <3>2, <1>7 DEF SocketInv, InPlace
      <4> QED BY <4>1, <2>1, <1>10
    <3> QED BY <3>1, <3>2, <1>3, <1>7
  <2>3. ASSUME NEW t \in Registered'
        PROVE  iwsk'[iwht'[t]].skidx + 1 <= numsks' /\ sks'[iwsk'[iwht'[t]].skidx + 1] = t
    <3>1. CASE t = s
        BY <3>1, <1>3, <1>4, <1>6, <1>7
    <3>2. CASE t \in Registered
      <4> DEFINE i == iwsk[iwht[t]].skidx
      <4>1. i + 1 <= numsks /\ sks[i + 1] = t /\ i \in Nat
          BY <3>2, <2>1 DEF SocketInv, InPlace
      <4>2. iwsk'[iwht'[t]].skidx = i
          BY <3>2, <2>1
      <4> HIDE DEF i
      <4>3. i + 1 <= numsks' /\ sks'[i + 1] = t
          BY <4>1, <1>3, <1>7
      <4> QED BY <4>2, <4>3
    <3> QED BY <3>1, <3>2, <1>10
  <2> QED BY <2>2, <2>3
<1> QED BY <1>8, <1>9, <1>11, <1>12 DEF SocketInv

\* A registration that fails leaves a socket that is not one of the array's.
LEMMA FailKeeps ==
    ASSUME SocketInv, NEW s \in Sock, register_fails(s)
    PROVE  SocketInv'
<1>1. PICK a \in Free : iwht' = [iwht EXCEPT ![s] = a] /\ iwsk' = [iwsk EXCEPT ![a] = NewIwsk(s, 0, FALSE)]
    BY DEF register_fails
<1>2. /\ TypeOK /\ iwht[s] = NULL
      /\ UNCHANGED <<status, sks, last_send_sk, last_recv_sk, pending, torn, failed, shifted>>
    BY DEF register_fails, SocketInv, traffic
<1>6. /\ iwht' \in [Sock -> Addr \cup {NULL}]
      /\ iwsk' \in [Addr -> [sk : Sock \cup {NULL}, skidx : Nat, ready : BOOLEAN]]
      /\ a # NULL /\ iwht'[s] = a /\ iwsk'[a].ready = FALSE
      /\ \A t \in Sock \ {s} : iwht'[t] = iwht[t] /\ (iwht[t] # NULL => iwsk'[iwht[t]] = iwsk[iwht[t]])
      /\ \A t \in Sock : iwht'[t] # NULL => iwsk'[iwht'[t]].sk = t
      /\ \A t \in Sock \ {s} : t \in Registered' <=> t \in Registered
      /\ s \notin Registered
    BY <1>1, <1>2, Others
<1>8. TypeOK' /\ numsks' = numsks
    BY <1>2, <1>6 DEF TypeOK, numsks
<1>9. Owned(last_send_sk)' /\ Owned(last_recv_sk)'
    BY <1>2, <1>6, StillOwned DEF SocketInv, Owned
<1>10. Registered' = Registered
    BY <1>6 DEF Registered
<1>11. Counted'
    BY <1>2, <1>8, <1>10 DEF SocketInv, Counted
<1>12. InPlace'
  <2>1. ASSUME NEW t \in Registered PROVE iwsk'[iwht'[t]] = iwsk[iwht[t]]
      BY <1>6 DEF Registered
  <2> QED BY <1>2, <1>8, <1>10, <2>1 DEF SocketInv, InPlace
<1> QED BY <1>8, <1>9, <1>11, <1>12 DEF SocketInv

\* A socket that is deregistered takes one entry with it: its own, when it is
\* the last one.
LEMMA DeregisterKeeps ==
    ASSUME SocketInv, NEW s \in Sock, rdmap_deregister_sock(s)
    PROVE  SocketInv'
<1>1. /\ TypeOK /\ status = "up" /\ iwht[s] # NULL /\ s \in Registered
      /\ sks' = Removed(sks, iwsk[iwht[s]].skidx)
      /\ iwht' = [iwht EXCEPT ![s] = NULL]
      /\ last_send_sk' = Forget(last_send_sk, iwht[s])
      /\ last_recv_sk' = Forget(last_recv_sk, iwht[s])
      /\ torn' = torn \ {s}
      /\ UNCHANGED <<status, iwsk, pending, failed>>
    BY DEF rdmap_deregister_sock, SocketInv, Up, Registered
<1>2. PICK i \in Nat : i = iwsk[iwht[s]].skidx
    BY <1>1 DEF TypeOK
<1>3. shifted' = (shifted \/ i < numsks - 1)
    BY <1>2 DEF rdmap_deregister_sock
<1>4. /\ sks \in Seq(Sock) /\ numsks \in Nat /\ numsks >= 1
  <2>1. sks \in Seq(Sock) /\ numsks \in Nat
      BY <1>1, LenProperties DEF TypeOK, numsks
  <2>2. Registered # {} /\ IsFiniteSet(Registered) /\ numsks = Cardinality(Registered)
      BY <1>1 DEF SocketInv, Counted
  <2>3. numsks # 0
      BY <2>2, FS_EmptySet
  <2> QED BY <2>1, <2>3
<1>5. sks' \in Seq(Sock) /\ numsks' = numsks - 1
  <2>1. PICK q \in Seq(Sock) : q = sks
      BY <1>4
  <2>2. Removed(q, i) \in Seq(Sock) /\ Len(Removed(q, i)) = Len(q) - 1
      BY <1>4, <2>1, RemovedIsShorter DEF numsks
  <2> QED BY <1>1, <1>2, <2>1, <2>2 DEF numsks
<1>6. /\ iwht' \in [Sock -> Addr \cup {NULL}] /\ iwht'[s] = NULL
      /\ \A t \in Sock \ {s} : iwht'[t] = iwht[t]
    BY <1>1 DEF TypeOK
<1>7. TypeOK'
  <2>1. shifted' \in BOOLEAN
      BY <1>3
  <2>2. last_send_sk' \in Addr \cup {NULL} /\ last_recv_sk' \in Addr \cup {NULL}
      BY <1>1 DEF TypeOK, Forget
  <2>3. \A t \in Sock : iwht'[t] # NULL => iwsk'[iwht'[t]].sk = t
      BY <1>1, <1>6 DEF TypeOK
  <2> QED BY <1>1, <1>5, <1>6, <2>1, <2>2, <2>3 DEF TypeOK
<1>8. ASSUME NEW last, Owned(last), Forget(last, iwht[s]) # NULL
      PROVE  \E t \in Sock : iwht'[t] = Forget(last, iwht[s])
    BY <1>1, <1>6, <1>8 DEF Owned, Forget
<1>9. Owned(last_send_sk)' /\ Owned(last_recv_sk)'
  <2>1. PICK snd, rcv : snd = last_send_sk /\ rcv = last_recv_sk
      OBVIOUS
  <2>2. Owned(snd) /\ Owned(rcv)
      BY <2>1 DEF SocketInv, Owned
  <2> QED BY <1>1, <1>8, <2>1, <2>2 DEF Owned
<1>10. Registered' = Registered \ {s}
    BY <1>1, <1>6 DEF Registered
<1>11. Counted'
    BY <1>1, <1>4, <1>5, <1>10, FS_RemoveElement DEF SocketInv, Counted
<1>12. InPlace'
  <2> SUFFICES ASSUME ~shifted, ~(i < numsks - 1)
               PROVE  /\ \A k \in 1 .. numsks' :
                           sks'[k] \in Registered' /\ iwsk'[iwht'[sks'[k]]].skidx + 1 = k
                      /\ \A t \in Registered' :
                           LET j == iwsk'[iwht'[t]].skidx + 1 IN j <= numsks' /\ sks'[j] = t
      BY <1>3 DEF InPlace
  <2>1. \A k \in 1 .. numsks : sks[k] \in Registered /\ iwsk[iwht[sks[k]]].skidx + 1 = k
      BY DEF SocketInv, InPlace
  <2>2. \A t \in Registered :
          LET j == iwsk[iwht[t]].skidx + 1 IN j <= numsks /\ sks[j] = t
      BY DEF SocketInv, InPlace
  <2>3. i + 1 = numsks /\ sks[numsks] = s
      BY <1>1, <1>2, <1>4, <2>2
  <2>4. \A k \in 1 .. numsks' : sks'[k] = sks[k] /\ k \in 1 .. numsks /\ k # numsks
    <3>1. PICK q \in Seq(Sock) : q = sks
        BY <1>4
    <3>2. \A k \in 1 .. Len(q) - 1 : Removed(q, i)[k] = q[k]
        BY <1>4, <3>1, RemovedAtEnd DEF numsks
    <3>3. \A k \in 1 .. numsks' : sks'[k] = sks[k]
        BY <1>1, <1>2, <1>5, <3>1, <3>2 DEF numsks
    <3> QED BY <1>4, <1>5, <3>3
  <2>5. ASSUME NEW t \in Registered \ {s}
        PROVE  iwsk'[iwht'[t]] = iwsk[iwht[t]] /\ iwsk[iwht[t]].skidx \in Nat
      BY <1>1, <1>6 DEF Registered, TypeOK
  <2>6. ASSUME NEW k \in 1 .. numsks'
        PROVE  sks'[k] \in Registered' /\ iwsk'[iwht'[sks'[k]]].skidx + 1 = k
    <3>1. sks[k] \in Registered /\ iwsk[iwht[sks[k]]].skidx + 1 = k
        BY <2>1, <2>4
    <3>2. sks[k] # s
        BY <1>2, <2>3, <2>4, <3>1
    <3> QED BY <1>10, <2>4, <2>5, <3>1, <3>2
  <2>7. ASSUME NEW t \in Registered'
        PROVE  iwsk'[iwht'[t]].skidx + 1 <= numsks' /\ sks'[iwsk'[iwht'[t]].skidx + 1] = t
    <3>1. PICK j \in Nat : j = iwsk[iwht[t]].skidx
        BY <1>10, <2>5
    <3>2. j + 1 <= numsks /\ sks[j + 1] = t /\ t # s
        BY <1>10, <2>2, <3>1
    <3>3. j + 1 # numsks
        BY <2>3, <3>2
    <3>4. j + 1 <= numsks' /\ sks'[j + 1] = t
        BY <1>4, <1>5, <2>4, <3>2, <3>3
    <3> QED BY <1>10, <2>5, <3>1, <3>4
  <2> QED BY <2>6, <2>7
<1> QED BY <1>7, <1>9, <1>11, <1>12 DEF SocketInv

--------------------------------------------------------------------------------
(* Calls and polling *)

\* The end point a call finds is owned if it is one.
LEMMA FoundIsOwned ==
    ASSUME TypeOK, NEW last \in Addr \cup {NULL}, Owned(last), NEW s \in Sock
    PROVE  Found(last, s) = iwht[s]
BY DEF Found, Owned, TypeOK

\* The calls change nothing but the end point that is remembered.
LEMMA CallsKeep ==
    ASSUME SocketInv, NEW s \in Sock, send_side(s) \/ recv_side(s)
    PROVE  SocketInv'
<1>1. TypeOK /\ Owned(last_send_sk) /\ Owned(last_recv_sk)
    BY DEF SocketInv
<1>2. UNCHANGED <<status, iwht, iwsk, sks, pending, torn, failed, shifted>>
    BY DEF send_side, recv_side, traffic
<1>3. ASSUME NEW last \in {last_send_sk', last_recv_sk'}
      PROVE  last \in Addr \cup {NULL} /\ (last # NULL => \E t \in Sock : iwht[t] = last)
  <2>1. \/ last = last_send_sk \/ last = last_recv_sk
        \/ last = Found(last_send_sk, s) \/ last = Found(last_recv_sk, s)
      BY DEF send_side, recv_side
  <2>2. last \in {last_send_sk, last_recv_sk, iwht[s]}
      BY <1>1, <2>1 DEF Found
  <2> QED BY <1>1, <2>2 DEF TypeOK, Owned
<1>4. TypeOK'
    BY <1>1, <1>2, <1>3 DEF TypeOK
<1>5. Registered' = Registered /\ numsks' = numsks
    BY <1>2 DEF Registered, numsks
<1>6. Owned(last_send_sk)' /\ Owned(last_recv_sk)'
    BY <1>2, <1>3 DEF Owned
<1>7. Counted' /\ InPlace'
    BY <1>2, <1>5 DEF SocketInv, Counted, InPlace
<1> QED BY <1>4, <1>6, <1>7 DEF SocketInv

\* How often a socket has its turn is a number.
LEMMA TurnsIsNat ==
    ASSUME TypeOK, NEW s \in Sock, NEW n
    PROVE  Turns(s, n) \in Nat
<1> DEFINE P == {i \in Readable : i <= n /\ sks[i] = s}
<1>1. numsks \in Nat
    BY LenProperties DEF TypeOK, numsks
<1>2. IsFiniteSet(1 .. numsks)
    BY <1>1, FS_Interval
<1>3. P \subseteq 1 .. numsks
    BY DEF Readable
<1>4. IsFiniteSet(P)
    BY <1>2, <1>3, FS_Subset
<1> QED BY <1>4, FS_CardinalityType DEF Turns

\* Some positions of an array have a last one.
LEMMA LastPosition ==
    ASSUME NEW n \in Nat, NEW P, P \subseteq 1 .. n, P # {}
    PROVE  \E m \in P : \A i \in P : i <= m
<1> DEFINE D == {n - i : i \in P}
<1>1. D \subseteq Nat /\ D # {}
  <2>1. \A i \in P : n - i \in Nat
      OBVIOUS
  <2> QED BY <2>1, Zenon
<1>2. \E x \in D : \A y \in D : ~(<<y, x>> \in OpToRel(<, Nat))
    BY <1>1, NatLessThanWellFounded, WFMin
<1>3. PICK m \in P : \A y \in D : ~(<<y, n - m>> \in OpToRel(<, Nat))
    BY <1>2
<1>4. ASSUME NEW i \in P PROVE i <= m
  <2>1. ~(n - i < n - m)
    <3>1. n - i \in D /\ n - i \in Nat /\ n - m \in Nat
        BY <1>1
    <3> QED BY <1>3, <3>1 DEF OpToRel
  <2> QED BY <2>1
<1> QED BY <1>4

\* While every position up to n finds a segment at its turn, no socket gives
\* more than it has: the last position of a socket has counted all its turns.
LEMMA TurnsCovered ==
    ASSUME TypeOK, NEW s \in Sock, NEW n \in 0 .. numsks,
           \A i \in Readable : i <= n => HasTurn(i)
    PROVE  Turns(s, n) <= pending[s]
<1>1. numsks \in Nat /\ pending[s] \in Nat
    BY LenProperties, SocketAssumption DEF TypeOK, numsks
<1> DEFINE P == {i \in Readable : i <= n /\ sks[i] = s}
<1>2. P \subseteq 1 .. numsks
    BY DEF Readable
<1>3. CASE P = {}
    BY <1>1, <1>3, FS_EmptySet DEF Turns
<1>4. CASE P # {}
  <2>1. PICK m \in P : \A i \in P : i <= m
      BY <1>1, <1>2, <1>4, LastPosition
  <2>2. P = {i \in Readable : i <= m /\ sks[i] = s}
      BY <1>1, <2>1 DEF Readable
  <2>3. Turns(s, n) = Turns(s, m)
      BY <2>2 DEF Turns
  <2>4. HasTurn(m) /\ sks[m] = s
      BY <2>1
  <2> QED BY <2>3, <2>4 DEF HasTurn
<1> QED BY <1>3, <1>4

\* Segments come and go, and the table stays.
LEMMA TrafficKeeps ==
    ASSUME SocketInv,
           pending' \in [Sock -> 0 .. MaxPending],
           torn' \subseteq Sock, failed' \in Sock \cup {NULL},
           UNCHANGED <<status, table>>
    PROVE  SocketInv'
<1>1. UNCHANGED <<status, iwht, iwsk, sks, last_send_sk, last_recv_sk, shifted>>
    BY DEF table
<1>2. TypeOK'
    BY <1>1 DEF SocketInv, TypeOK
<1>3. Registered' = Registered /\ numsks' = numsks
    BY <1>1 DEF Registered, numsks
<1>4. Owned(last_send_sk)' /\ Owned(last_recv_sk)' /\ Counted' /\ InPlace'
    BY <1>1, <1>3 DEF SocketInv, Owned, Counted, InPlace
<1> QED BY <1>2, <1>4 DEF SocketInv

\* A process that ends leaves its table as it is.
LEMMA StopKeeps ==
    ASSUME SocketInv, NEW why \in Status, Stop(why), why = "overrun" => numsks = MAX_SOCKETS
    PROVE  SocketInv'
<1>1. /\ UNCHANGED <<iwht, iwsk, sks, last_send_sk, last_recv_sk, shifted>> /\ status' = why
      /\ pending' = [s \in Sock |-> 0] /\ torn' = {} /\ failed' = NULL
    BY DEF Stop, table
<1>2. pending' \in [Sock -> 0 .. MaxPending]
    BY <1>1, SocketAssumption
<1>3. TypeOK'
    BY <1>1, <1>2 DEF SocketInv, TypeOK
<1>4. Registered' = Registered /\ numsks' = numsks
    BY <1>1 DEF Registered, numsks
<1>5. Owned(last_send_sk)' /\ Owned(last_recv_sk)' /\ Counted' /\ InPlace'
    BY <1>1, <1>4 DEF SocketInv, Owned, Counted, InPlace
<1> QED BY <1>3, <1>5 DEF SocketInv

\* A poll takes from each socket no more than waits there, whether it comes to
\* the end of the array or stops on the way.
LEMMA PollKeeps ==
    ASSUME SocketInv, mpa_poll
    PROVE  SocketInv'
<1>1. /\ TypeOK /\ numsks \in Nat
      /\ pending \in [Sock -> 0 .. MaxPending] /\ torn \subseteq Sock /\ MaxPending \in Nat
    BY LenProperties, SocketAssumption DEF SocketInv, TypeOK, numsks
<1>2. CASE poll_all
  <2>1. \A i \in Readable : i <= numsks => HasTurn(i)
      BY <1>2 DEF poll_all
  <2>2. ASSUME NEW s \in Sock PROVE pending[s] - Turns(s, numsks) \in 0 .. MaxPending
    <3>1. numsks \in 0 .. numsks
        BY <1>1
    <3>2. Turns(s, numsks) \in Nat /\ Turns(s, numsks) <= pending[s]
        BY <1>1, <2>1, <3>1, TurnsIsNat, TurnsCovered
    <3> QED BY <1>1, <3>2
  <2>3. pending' \in [Sock -> 0 .. MaxPending]
      BY <1>2, <2>2 DEF poll_all
  <2> QED BY <1>1, <1>2, <2>3, TrafficKeeps DEF poll_all
<1>3. ASSUME NEW i \in Readable, poll_stops(i) PROVE SocketInv'
  <2>1. CASE Stop("null") \/ Stop("stuck")
      BY <2>1, StopKeeps DEF Status
  <2>2. CASE recv_fails(i)
    <3>1. i \in 1 .. numsks /\ sks[i] \in Sock /\ HasTurn(i)
        BY <1>1, <2>2, ElementOfSeq DEF Readable, recv_fails, TypeOK, numsks
    <3>2. \A j \in Readable : j <= i => HasTurn(j)
        BY <1>1, <1>3, <3>1 DEF poll_stops, Readable
    <3>3. PICK rest \in {0, 1} :
            /\ pending' = [s \in Sock |->
                             pending[s] - Turns(s, i) + (IF s = sks[i] THEN rest ELSE 0)]
            /\ torn' = torn \/ torn' = torn \cup {sks[i]}
        BY <2>2 DEF recv_fails
    <3>4. Turns(sks[i], i) >= 1
      <4>1. i \in {j \in Readable : j <= i /\ sks[j] = sks[i]}
          BY <3>1
      <4>2. IsFiniteSet({j \in Readable : j <= i /\ sks[j] = sks[i]})
          BY <1>1, FS_Interval, FS_Subset DEF Readable
      <4>3. Cardinality({j \in Readable : j <= i /\ sks[j] = sks[i]}) # 0
          BY <4>1, <4>2, FS_EmptySet
      <4>4. Turns(sks[i], i) \in Nat
          BY <1>1, <3>1, TurnsIsNat
      <4> QED BY <4>3, <4>4 DEF Turns
    <3>5. ASSUME NEW s \in Sock
          PROVE  pending[s] - Turns(s, i) + (IF s = sks[i] THEN rest ELSE 0) \in 0 .. MaxPending
      <4>1. Turns(s, i) \in Nat /\ Turns(s, i) <= pending[s] /\ pending[s] \in 0 .. MaxPending
          BY <1>1, <3>1, <3>2, TurnsIsNat, TurnsCovered
      <4> HIDE DEF Turns
      <4> QED BY <1>1, <3>4, <4>1
    <3>6. pending' \in [Sock -> 0 .. MaxPending]
        BY <3>3, <3>5
    <3>7. torn' \subseteq Sock /\ failed' = sks[i] /\ UNCHANGED <<status, table>>
        BY <1>1, <2>2, <3>1, <3>3 DEF recv_fails
    <3> QED BY <3>1, <3>6, <3>7, TrafficKeeps
  <2> QED BY <1>3, <2>1, <2>2 DEF poll_stops
<1> QED BY <1>2, <1>3 DEF mpa_poll

--------------------------------------------------------------------------------
(* The theorems *)

\* The properties of the run, strengthened, hold of every behaviour.
LEMMA SocketInvHolds == Spec => []SocketInv
<1>1. Init => SocketInv
  <2> SUFFICES ASSUME Init PROVE SocketInv
      OBVIOUS
  <2>1. Registered = {} /\ numsks = 0 /\ sks \in Seq(Sock)
      BY EmptySeq DEF Init, Registered, numsks
  <2>2. /\ status = "up" /\ iwht = [s \in Sock |-> NULL] /\ pending = [s \in Sock |-> 0]
        /\ last_send_sk = NULL /\ last_recv_sk = NULL /\ torn = {} /\ failed = NULL
      BY DEF Init, Up
  <2>3. shifted \in BOOLEAN
      BY Zenon DEF Init
  <2>4. iwsk \in [Addr -> [sk : Sock \cup {NULL}, skidx : Nat, ready : BOOLEAN]]
    <3>1. [sk |-> NULL, skidx |-> 0, ready |-> FALSE] \in [sk : Sock \cup {NULL}, skidx : Nat, ready : BOOLEAN]
        OBVIOUS
    <3>2. ASSUME NEW R, NEW e \in R, iwsk \in [Addr -> {e}] PROVE iwsk \in [Addr -> R]
        BY <3>2
    <3> QED BY <3>1, <3>2 DEF Init
  <2>5. pending \in [Sock -> 0 .. MaxPending]
      BY <2>2, SocketAssumption
  <2>6. TypeOK
      BY <2>1, <2>2, <2>3, <2>4, <2>5 DEF TypeOK, Status
  <2>7. Owned(last_send_sk) /\ Owned(last_recv_sk)
      BY <2>2 DEF Owned
  <2>8. Counted
      BY <2>1, <2>2, FS_EmptySet DEF Counted
  <2>9. InPlace
      BY <2>1 DEF InPlace
  <2> QED BY <2>6, <2>7, <2>8, <2>9 DEF SocketInv
<1>2. SocketInv /\ [Next]_vars => SocketInv'
  <2> SUFFICES ASSUME SocketInv, [Next]_vars PROVE SocketInv'
      OBVIOUS
  <2>1. ASSUME NEW s \in Sock, rdmap_register_sock(s) PROVE SocketInv'
      BY <2>1, RegisterKeeps
  <2>2. ASSUME NEW s \in Sock, register_fails(s) PROVE SocketInv'
      BY <2>2, FailKeeps
  <2>3. ASSUME NEW s \in Sock, register_duplicate(s) \/ deregister_failed(s) PROVE SocketInv'
      BY <2>3, StopKeeps DEF register_duplicate, deregister_failed, Status
  <2>4. ASSUME NEW s \in Sock, register_overrun(s) PROVE SocketInv'
      BY <2>4, StopKeeps DEF register_overrun, Status
  <2>5. ASSUME NEW s \in Sock, rdmap_deregister_sock(s) PROVE SocketInv'
      BY <2>5, DeregisterKeeps
  <2>6. ASSUME NEW s \in Sock, send_side(s) \/ recv_side(s) PROVE SocketInv'
      BY <2>6, CallsKeep
  <2>7. ASSUME NEW s \in Sock, arrive(s) PROVE SocketInv'
    <3>1. pending[s] \in 0 .. MaxPending /\ pending[s] < MaxPending
        BY <2>7 DEF arrive, SocketInv, TypeOK
    <3>2. pending[s] + 1 \in 0 .. MaxPending
        BY <3>1, SocketAssumption
    <3>3. pending' \in [Sock -> 0 .. MaxPending]
        BY <2>7, <3>2 DEF arrive, SocketInv, TypeOK
    <3>4. torn' \subseteq Sock /\ failed' \in Sock \cup {NULL} /\ UNCHANGED <<status, table>>
        BY <2>7 DEF arrive, SocketInv, TypeOK
    <3> QED BY <3>3, <3>4, TrafficKeeps
  <2>8. CASE mpa_poll
      BY <2>8, PollKeeps
  <2>9. CASE UNCHANGED vars
    <3>1. /\ pending' \in [Sock -> 0 .. MaxPending]
          /\ torn' \subseteq Sock /\ failed' \in Sock \cup {NULL}
        BY <2>9 DEF vars, traffic, SocketInv, TypeOK
    <3> QED BY <2>9, <3>1, TrafficKeeps DEF vars
  <2> QED BY <2>1, <2>2, <2>3, <2>4, <2>5, <2>6, <2>7, <2>8, <2>9 DEF Next
<1> QED BY <1>1, <1>2, PTL DEF Spec

\* An end point that rdmap.c remembers is one the hash table owns, and a call
\* on a socket uses that socket's end point, however often descriptors and
\* addresses are used again.
THEOREM CacheStaysFresh == Spec => []CacheFresh
<1>1. SocketInv => CacheFresh
  <2> SUFFICES ASSUME SocketInv PROVE CacheFresh
      OBVIOUS
  <2>1. /\ TypeOK /\ Owned(last_send_sk) /\ Owned(last_recv_sk)
        /\ last_send_sk \in Addr \cup {NULL} /\ last_recv_sk \in Addr \cup {NULL}
      BY DEF SocketInv, TypeOK
  <2>2. ASSUME NEW last \in {last_send_sk, last_recv_sk} \ {NULL}
        PROVE  iwht[iwsk[last].sk] = last
      BY <2>1 DEF Owned, TypeOK
  <2>3. ASSUME NEW s \in Sock
        PROVE  Found(last_send_sk, s) = iwht[s] /\ Found(last_recv_sk, s) = iwht[s]
      BY <2>1, FoundIsOwned
  <2> QED BY <2>2, <2>3 DEF CacheFresh
<1> QED BY <1>1, SocketInvHolds, PTL

\* The poll array has as many entries as there are registered sockets, and is
\* overrun only by the socket that is one too many for it.
THEOREM ArrayCountsSockets == Spec => []CountExact
<1>1. SocketInv => CountExact
    BY DEF SocketInv, Counted, CountExact
<1> QED BY <1>1, SocketInvHolds, PTL

\* While sockets are deregistered last-in first-out, the poll array lists the
\* registered sockets and skidx is where each is found.
THEOREM ArrayListsSockets == Spec => []PollSetExact
<1>1. SocketInv => PollSetExact
  <2> SUFFICES ASSUME SocketInv, ~shifted PROVE PollSetExact
      BY DEF PollSetExact
  <2>1. /\ \A k \in 1 .. numsks : sks[k] \in Registered
        /\ \A s \in Registered :
             LET i == iwsk[iwht[s]].skidx + 1 IN i <= numsks /\ sks[i] = s
      BY DEF SocketInv, InPlace
  <2>2. Len(sks) = Cardinality(Registered)
      BY DEF SocketInv, Counted, numsks
  <2>3. numsks \in Nat /\ \A s \in Registered : iwsk[iwht[s]].skidx \in Nat
      BY LenProperties DEF SocketInv, TypeOK, Registered, numsks
  <2>4. \A s \in Registered : iwsk[iwht[s]].skidx + 1 \in 1 .. numsks
      BY <2>1, <2>3
  <2>5. {sks[i] : i \in 1 .. numsks} = Registered
      BY <2>1, <2>4
  <2> QED BY <2>1, <2>2, <2>5 DEF PollSetExact
<1> QED BY <1>1, SocketInvHolds, PTL

\* The table is well formed: an end point has one socket, and knows it.
THEOREM SocketTypeCorrect == Spec => []TypeOK
<1>1. SocketInv => TypeOK
    BY DEF SocketInv
<1> QED BY <1>1, SocketInvHolds, PTL

================================================================================
