-------------------------- MODULE KernelContext_proofs -------------------------
(***************************************************************************)
(* Reference counting in the kernel port: no completion queue is destroyed *)
(* while a socket produces into it, and no region is given up under a tag, *)
(* for any number of files, queues, tags, regions and calls.               *)
(***************************************************************************)
EXTENDS KernelContext, SequenceTheorems, FiniteSetTheorems, TLAPS

SockKeys == {"scq", "rcq", "buf_q", "rrr", "rwrq", "sync"}

\* The shape of the queues' and sockets' descriptors.
Shape ==
    /\ DOMAIN socks \subseteq File
    /\ \A f \in DOMAIN socks : socks[f] = [k \in SockKeys |-> socks[f][k]]
    /\ \A c \in DOMAIN cqs : cqs[c] = [k \in {"refcnt", "occ"} |-> cqs[c][k]]
    /\ opened = [k \in {"uc", "n"} |-> opened[k]]

\* Handles are given out in order, so a new queue never takes an old handle.
Fresh == next_handle \in Nat /\ \A c \in DOMAIN cqs : c \in Nat /\ c < next_handle

\* The count of every queue is the number of sockets that use it, by direction.
Counted == \A c \in DOMAIN cqs : cqs[c].refcnt = Uses(DOMAIN socks, c)

\* A closed device has no sockets.
ClosedEmpty == ~opened.uc => DOMAIN socks = {}

RefInv == Shape /\ Fresh /\ Counted /\ ClosedEmpty /\ CqInUse

--------------------------------------------------------------------------------
(* Counting *)

\* What a subset of a finite set loses with an element.
LEMMA CountRemove ==
    ASSUME NEW A, IsFiniteSet(A), NEW f
    PROVE  /\ Cardinality(A) \in Nat
           /\ Cardinality(A \cap {f}) \in Nat
           /\ Cardinality(A \ {f}) = Cardinality(A) - Cardinality(A \cap {f})
<1>1. Cardinality(A) \in Nat
  BY FS_CardinalityType
<1>2. CASE f \in A
  <2>1. A \cap {f} = {f} /\ Cardinality({f}) = 1
    BY <1>2, FS_Singleton
  <2>2. Cardinality(A \ {f}) = Cardinality(A) - 1
    BY <1>2, FS_RemoveElement
  <2> QED BY <1>1, <2>1, <2>2
<1>3. CASE f \notin A
  <2>1. A \cap {f} = {} /\ A \ {f} = A /\ Cardinality({}) = 0
    BY <1>3, FS_EmptySet
  <2> QED BY <1>1, <2>1
<1> QED BY <1>2, <1>3

\* What it gains with one.
LEMMA CountAdd ==
    ASSUME NEW A, IsFiniteSet(A), NEW f, f \notin A, NEW b \in BOOLEAN
    PROVE  Cardinality(A \cup (IF b THEN {f} ELSE {})) = Cardinality(A) + (IF b THEN 1 ELSE 0)
<1>1. Cardinality(A) \in Nat
  BY FS_CardinalityType
<1>2. CASE b
  <2>1. Cardinality(A \cup {f}) = Cardinality(A) + 1
    BY FS_AddElement
  <2> QED BY <1>2, <2>1
<1>3. CASE ~b
  <2>1. A \cup (IF b THEN {f} ELSE {}) = A
    BY <1>3
  <2> QED BY <1>1, <1>3, <2>1
<1> QED BY <1>2, <1>3

\* The two sets that Uses counts are finite.
LEMMA UsersFinite ==
    ASSUME Shape, NEW S \in SUBSET DOMAIN socks, NEW c
    PROVE  /\ IsFiniteSet({f \in S : socks[f].scq = c})
           /\ IsFiniteSet({f \in S : socks[f].rcq = c})
<1>1. S \subseteq File
  BY DEF Shape
<1>2. IsFiniteSet(S)
  BY <1>1, KernelAssumption, FS_Subset
<1> QED BY <1>2, FS_Subset

--------------------------------------------------------------------------------
(* The inductive invariant *)

\* A step that registers and releases no socket, and takes and gives back no
\* reference, keeps it.
LEMMA KeepsCounts ==
    ASSUME RefInv, Shape',
           DOMAIN socks' = DOMAIN socks,
           \A f \in DOMAIN socks : socks'[f].scq = socks[f].scq /\ socks'[f].rcq = socks[f].rcq,
           DOMAIN cqs' = DOMAIN cqs,
           \A c \in DOMAIN cqs : cqs'[c].refcnt = cqs[c].refcnt,
           UNCHANGED <<opened, next_handle>>
    PROVE  RefInv'
<1>1. \A c : Uses(DOMAIN socks, c)' = Uses(DOMAIN socks, c)
  <2> TAKE c
  <2>1. {f \in DOMAIN socks' : socks'[f].scq = c} = {f \in DOMAIN socks : socks[f].scq = c}
    OBVIOUS
  <2>2. {f \in DOMAIN socks' : socks'[f].rcq = c} = {f \in DOMAIN socks : socks[f].rcq = c}
    OBVIOUS
  <2> QED BY <2>1, <2>2 DEF Uses
<1>2. Counted'
  BY <1>1 DEF Counted, RefInv
<1>3. Fresh' /\ ClosedEmpty' /\ CqInUse'
  BY DEF RefInv, Fresh, ClosedEmpty, CqInUse
<1> QED BY <1>2, <1>3 DEF RefInv

\* An entry is produced into or consumed from a queue.
LEMMA EntryOnly ==
    ASSUME RefInv, NEW c \in DOMAIN cqs, NEW n, cqs' = [cqs EXCEPT ![c].occ = n]
    PROVE  /\ DOMAIN cqs' = DOMAIN cqs
           /\ \A d \in DOMAIN cqs : cqs'[d].refcnt = cqs[d].refcnt
           /\ \A d \in DOMAIN cqs' : cqs'[d] = [k \in {"refcnt", "occ"} |-> cqs'[d][k]]
<1>2. DOMAIN cqs' = DOMAIN cqs
  OBVIOUS
<1>3. \A d \in DOMAIN cqs : d # c => cqs'[d] = cqs[d]
  OBVIOUS
<1>4. cqs'[c] = [cqs[c] EXCEPT !.occ = n]
  OBVIOUS
<1>5. \A d \in DOMAIN cqs : cqs[d] = [k \in {"refcnt", "occ"} |-> cqs[d][k]]
  BY DEF RefInv, Shape
<1>6. cqs'[c].refcnt = cqs[c].refcnt /\ cqs'[c] = [k \in {"refcnt", "occ"} |-> cqs'[c][k]]
  BY <1>4, <1>5
<1> QED BY <1>2, <1>3, <1>5, <1>6

\* A field of a socket other than its queues changes.
LEMMA FieldOnly ==
    ASSUME RefInv, NEW f \in DOMAIN socks, NEW k \in SockKeys \ {"scq", "rcq"}, NEW v,
           socks' = [socks EXCEPT ![f] = [socks[f] EXCEPT ![k] = v]]
    PROVE  /\ DOMAIN socks' = DOMAIN socks
           /\ \A g \in DOMAIN socks : socks'[g].scq = socks[g].scq /\ socks'[g].rcq = socks[g].rcq
           /\ \A g \in DOMAIN socks' : socks'[g] = [l \in SockKeys |-> socks'[g][l]]
<1>1. \A g \in DOMAIN socks : socks[g] = [l \in SockKeys |-> socks[g][l]]
  BY DEF RefInv, Shape
<1>2. DOMAIN socks' = DOMAIN socks /\ \A g \in DOMAIN socks : g # f => socks'[g] = socks[g]
  OBVIOUS
<1>3. socks'[f] = [socks[f] EXCEPT ![k] = v]
  OBVIOUS
<1>4. /\ socks'[f].scq = socks[f].scq /\ socks'[f].rcq = socks[f].rcq
      /\ socks'[f] = [l \in SockKeys |-> socks'[f][l]]
  BY <1>1, <1>3 DEF SockKeys
<1>5. \A g \in DOMAIN socks : socks'[g] = [l \in SockKeys |-> socks'[g][l]]
  <2> SUFFICES ASSUME NEW g \in DOMAIN socks
               PROVE  socks'[g] = [l \in SockKeys |-> socks'[g][l]]
    OBVIOUS
  <2>1. CASE g = f
    BY <2>1, <1>4
  <2>2. CASE g # f
    BY <2>2, <1>1, <1>2
  <2> QED BY <2>1, <2>2
<1> QED BY <1>2, <1>4, <1>5

--------------------------------------------------------------------------------
(* The actions that change the references *)

\* rdmap_register_sock takes one reference for each direction the socket uses.
LEMMA RegisterKeeps ==
    ASSUME RefInv, NEW f \in File, NEW s \in DOMAIN cqs, NEW r \in DOMAIN cqs,
           rdmap_register_sock(f, s, r)
    PROVE  RefInv'
<1> DEFINE new == [scq |-> s, rcq |-> r, buf_q |-> <<>>, rrr |-> NoAddr, rwrq |-> <<>>, sync |-> TRUE]
<1>1. /\ f \notin DOMAIN socks /\ opened.uc
      /\ DOMAIN socks' = DOMAIN socks \cup {f}
      /\ \A g \in DOMAIN socks : socks'[g] = socks[g]
      /\ socks'[f] = new
      /\ UNCHANGED <<opened, next_handle>>
  BY DEF rdmap_register_sock, Plus, Up
<1>2. /\ DOMAIN cqs' = DOMAIN cqs
      /\ \A c \in DOMAIN cqs : cqs'[c] = [cqs[c] EXCEPT !.refcnt =
            cqs[c].refcnt + (IF c = s THEN 1 ELSE 0) + (IF c = r THEN 1 ELSE 0)]
  BY DEF rdmap_register_sock, CqGet
<1>3. \A c \in DOMAIN cqs :
        /\ cqs'[c].refcnt = cqs[c].refcnt + (IF c = s THEN 1 ELSE 0) + (IF c = r THEN 1 ELSE 0)
        /\ cqs'[c] = [k \in {"refcnt", "occ"} |-> cqs'[c][k]]
  BY <1>2 DEF RefInv, Shape
<1>4. Shape'
  <2>1. new = [k \in SockKeys |-> new[k]]
    BY DEF SockKeys
  <2>2. \A g \in DOMAIN socks' : socks'[g] = [k \in SockKeys |-> socks'[g][k]]
    BY <1>1, <2>1 DEF RefInv, Shape
  <2> QED BY <1>1, <1>2, <1>3, <2>2 DEF RefInv, Shape
<1>5. Counted'
  <2> SUFFICES ASSUME NEW c \in DOMAIN cqs
               PROVE  cqs'[c].refcnt = Uses(DOMAIN socks, c)'
    BY <1>2 DEF Counted
  <2> DEFINE S == {g \in DOMAIN socks : socks[g].scq = c}
             R == {g \in DOMAIN socks : socks[g].rcq = c}
  <2>1. IsFiniteSet(S) /\ IsFiniteSet(R)
    BY UsersFinite DEF RefInv
  <2>2. {g \in DOMAIN socks' : socks'[g].scq = c} = S \cup (IF c = s THEN {f} ELSE {})
    BY <1>1
  <2>3. {g \in DOMAIN socks' : socks'[g].rcq = c} = R \cup (IF c = r THEN {f} ELSE {})
    BY <1>1
  <2>4. f \notin S /\ f \notin R
    BY <1>1
  <2>5. Cardinality(S \cup (IF c = s THEN {f} ELSE {})) = Cardinality(S) + (IF c = s THEN 1 ELSE 0)
    <3> HIDE DEF S, R
    <3> QED BY <2>1, <2>4, CountAdd
  <2>6. Cardinality(R \cup (IF c = r THEN {f} ELSE {})) = Cardinality(R) + (IF c = r THEN 1 ELSE 0)
    <3> HIDE DEF S, R
    <3> QED BY <2>1, <2>4, CountAdd
  <2>7. cqs[c].refcnt = Cardinality(S) + Cardinality(R)
    BY DEF RefInv, Counted, Uses
  <2>8. Cardinality(S) \in Nat /\ Cardinality(R) \in Nat
    BY <2>1, FS_CardinalityType
  <2>9. Uses(DOMAIN socks, c)' = Cardinality(S \cup (IF c = s THEN {f} ELSE {}))
                               + Cardinality(R \cup (IF c = r THEN {f} ELSE {}))
    BY <2>2, <2>3 DEF Uses
  <2>10. cqs'[c].refcnt = cqs[c].refcnt + (IF c = s THEN 1 ELSE 0) + (IF c = r THEN 1 ELSE 0)
    BY <1>3
  <2> HIDE DEF S, R
  <2>11. cqs'[c].refcnt = Cardinality(S) + (IF c = s THEN 1 ELSE 0) + (Cardinality(R) + (IF c = r THEN 1 ELSE 0))
    BY <2>7, <2>8, <2>10
  <2> QED BY <2>5, <2>6, <2>9, <2>11
<1>6. Fresh' /\ ClosedEmpty' /\ CqInUse'
  BY <1>1, <1>2 DEF RefInv, Fresh, ClosedEmpty, CqInUse
<1> QED BY <1>4, <1>5, <1>6 DEF RefInv

\* rdmap_deregister_sock gives back the references of one socket.
LEMMA DeregisterKeeps ==
    ASSUME RefInv, NEW f \in File, rdmap_deregister_sock(f)
    PROVE  RefInv'
<1>1. /\ f \in DOMAIN socks /\ opened.uc
      /\ DOMAIN socks' = DOMAIN socks \ {f}
      /\ \A g \in DOMAIN socks \ {f} : socks'[g] = socks[g]
      /\ UNCHANGED <<opened, next_handle>>
  BY DEF rdmap_deregister_sock, Known, Without, Restrict, Up
<1>2. /\ DOMAIN cqs' = DOMAIN cqs
      /\ \A c \in DOMAIN cqs : cqs'[c] = [cqs[c] EXCEPT !.refcnt = cqs[c].refcnt - Uses({f}, c)]
  BY DEF rdmap_deregister_sock, CqPut
<1>3. \A c \in DOMAIN cqs :
        /\ cqs'[c].refcnt = cqs[c].refcnt - Uses({f}, c)
        /\ cqs'[c] = [k \in {"refcnt", "occ"} |-> cqs'[c][k]]
  BY <1>2 DEF RefInv, Shape
<1>4. Shape'
  BY <1>1, <1>2, <1>3 DEF RefInv, Shape
<1>5. Counted'
  <2> SUFFICES ASSUME NEW c \in DOMAIN cqs
               PROVE  cqs'[c].refcnt = Uses(DOMAIN socks, c)'
    BY <1>2 DEF Counted
  <2> DEFINE S == {g \in DOMAIN socks : socks[g].scq = c}
             R == {g \in DOMAIN socks : socks[g].rcq = c}
  <2>1. IsFiniteSet(S) /\ IsFiniteSet(R)
    BY UsersFinite DEF RefInv
  <2>2. /\ {g \in DOMAIN socks' : socks'[g].scq = c} = S \ {f}
        /\ {g \in DOMAIN socks' : socks'[g].rcq = c} = R \ {f}
    BY <1>1
  <2>3. /\ {g \in {f} : socks[g].scq = c} = S \cap {f}
        /\ {g \in {f} : socks[g].rcq = c} = R \cap {f}
    BY <1>1
  <2>4. cqs[c].refcnt = Cardinality(S) + Cardinality(R)
    BY DEF RefInv, Counted, Uses
  <2>5. Uses({f}, c) = Cardinality(S \cap {f}) + Cardinality(R \cap {f})
    BY <2>3 DEF Uses
  <2>6. Uses(DOMAIN socks, c)' = Cardinality(S \ {f}) + Cardinality(R \ {f})
    BY <2>2 DEF Uses
  <2> HIDE DEF S, R
  <2>7. /\ Cardinality(S) \in Nat /\ Cardinality(S \cap {f}) \in Nat
        /\ Cardinality(S \ {f}) = Cardinality(S) - Cardinality(S \cap {f})
    BY <2>1, CountRemove
  <2>8. /\ Cardinality(R) \in Nat /\ Cardinality(R \cap {f}) \in Nat
        /\ Cardinality(R \ {f}) = Cardinality(R) - Cardinality(R \cap {f})
    BY <2>1, CountRemove
  <2>9. cqs'[c].refcnt = cqs[c].refcnt - Uses({f}, c)
    BY <1>3
  <2>10. cqs'[c].refcnt = (Cardinality(S) - Cardinality(S \cap {f}))
                        + (Cardinality(R) - Cardinality(R \cap {f}))
    BY <2>4, <2>5, <2>7, <2>8, <2>9
  <2> QED BY <2>6, <2>7, <2>8, <2>10
<1>6. Fresh' /\ ClosedEmpty' /\ CqInUse'
  BY <1>1, <1>2 DEF RefInv, Fresh, ClosedEmpty, CqInUse
<1> QED BY <1>4, <1>5, <1>6 DEF RefInv

\* With the sockets gone, no queue is in use.
LEMMA EmptiedQueues ==
    ASSUME RefInv
    PROVE  DOMAIN cqs \ DestroyCqs = {}
<1> SUFFICES ASSUME NEW c \in DOMAIN cqs
             PROVE  CqPut(DOMAIN socks)[c].refcnt = 0
  BY DEF DestroyCqs
<1>1. cqs[c].refcnt = Uses(DOMAIN socks, c)
  BY DEF RefInv, Counted
<1>2. Uses(DOMAIN socks, c) \in Nat
  <2>1. /\ IsFiniteSet({f \in DOMAIN socks : socks[f].scq = c})
        /\ IsFiniteSet({f \in DOMAIN socks : socks[f].rcq = c})
    BY UsersFinite DEF RefInv
  <2>2. /\ Cardinality({f \in DOMAIN socks : socks[f].scq = c}) \in Nat
        /\ Cardinality({f \in DOMAIN socks : socks[f].rcq = c}) \in Nat
    BY <2>1, FS_CardinalityType
  <2> QED BY <2>2 DEF Uses
<1>3. CqPut(DOMAIN socks)[c] = [cqs[c] EXCEPT !.refcnt = cqs[c].refcnt - Uses(DOMAIN socks, c)]
  BY DEF CqPut
<1>4. CqPut(DOMAIN socks)[c].refcnt = cqs[c].refcnt - Uses(DOMAIN socks, c)
  BY <1>3 DEF RefInv, Shape
<1> QED BY <1>1, <1>2, <1>4

\* iwarp_release empties the context: sockets first, then the queues.
LEMMA ReleaseKeeps ==
    ASSUME RefInv, iwarp_release
    PROVE  RefInv'
<1>1. DOMAIN socks' = {} /\ opened' = [opened EXCEPT !.uc = FALSE] /\ UNCHANGED next_handle
  BY DEF iwarp_release
<1>2. DOMAIN cqs' = {}
  BY EmptiedQueues DEF iwarp_release, Restrict
<1>3. Shape' /\ Fresh' /\ Counted' /\ ClosedEmpty' /\ CqInUse'
  BY <1>1, <1>2 DEF RefInv, Shape, Fresh, Counted, ClosedEmpty, CqInUse
<1> QED BY <1>3 DEF RefInv

\* iwarp_open starts with an empty context.
LEMMA OpenKeeps ==
    ASSUME RefInv, iwarp_open
    PROVE  RefInv'
<1>1. DOMAIN socks = {} /\ DOMAIN cqs' = {} /\ UNCHANGED socks /\ next_handle' = 1
  BY DEF iwarp_open, RefInv, ClosedEmpty
<1>2. opened' = [k \in {"uc", "n"} |-> opened'[k]]
  BY DEF iwarp_open
<1>3. Shape' /\ Fresh' /\ Counted' /\ ClosedEmpty' /\ CqInUse'
  BY <1>1, <1>2 DEF Shape, Fresh, Counted, ClosedEmpty, CqInUse
<1> QED BY <1>3 DEF RefInv

\* cq_create makes a queue under a handle that is not in use, without users.
LEMMA CreateKeeps ==
    ASSUME RefInv, cq_create
    PROVE  RefInv'
<1>1. /\ DOMAIN cqs' = DOMAIN cqs \cup {next_handle}
      /\ next_handle \notin DOMAIN cqs
      /\ \A c \in DOMAIN cqs : cqs'[c] = cqs[c]
      /\ cqs'[next_handle] = [refcnt |-> 0, occ |-> 0]
      /\ next_handle' = next_handle + 1
      /\ UNCHANGED <<opened, socks>>
  BY DEF cq_create, Plus, RefInv, Fresh
<1>2. Shape'
  <2>1. cqs'[next_handle] = [k \in {"refcnt", "occ"} |-> cqs'[next_handle][k]]
    BY <1>1
  <2> QED BY <1>1, <2>1 DEF RefInv, Shape
<1>3. \A c : Uses(DOMAIN socks, c)' = Uses(DOMAIN socks, c)
  BY <1>1 DEF Uses
<1>4. Uses(DOMAIN socks, next_handle) = 0
  <2>1. /\ {f \in DOMAIN socks : socks[f].scq = next_handle} = {}
        /\ {f \in DOMAIN socks : socks[f].rcq = next_handle} = {}
    BY <1>1 DEF RefInv, CqInUse
  <2>2. Uses(DOMAIN socks, next_handle) = Cardinality({}) + Cardinality({})
    BY <2>1 DEF Uses
  <2> QED BY <2>2, FS_EmptySet
<1>5. Counted'
  BY <1>1, <1>3, <1>4 DEF RefInv, Counted
<1>6. Fresh' /\ ClosedEmpty' /\ CqInUse'
  BY <1>1 DEF RefInv, Fresh, ClosedEmpty, CqInUse
<1> QED BY <1>2, <1>5, <1>6 DEF RefInv

\* The queue whose count is zero is used by no socket: the heart of the theorem.
LEMMA DestroyKeeps ==
    ASSUME RefInv, NEW c \in DOMAIN cqs, cq_destroy(c)
    PROVE  RefInv'
<1>1. /\ DOMAIN cqs' = DOMAIN cqs \ {c}
      /\ \A d \in DOMAIN cqs' : cqs'[d] = cqs[d]
      /\ UNCHANGED <<opened, socks, next_handle>>
  BY DEF cq_destroy, Without, Restrict
<1>2. \A f \in DOMAIN socks : socks[f].scq # c /\ socks[f].rcq # c
  <2> DEFINE S == {f \in DOMAIN socks : socks[f].scq = c}
             R == {f \in DOMAIN socks : socks[f].rcq = c}
  <2>1. IsFiniteSet(S) /\ IsFiniteSet(R)
    BY UsersFinite DEF RefInv
  <2>2. Cardinality(S) + Cardinality(R) = 0
    BY DEF RefInv, Counted, Uses, cq_destroy, CqIdle
  <2>3. S = {} /\ R = {}
    <3> HIDE DEF S, R
    <3>1. Cardinality(S) \in Nat /\ Cardinality(R) \in Nat
      BY <2>1, FS_CardinalityType
    <3>2. Cardinality(S) = 0 /\ Cardinality(R) = 0
      BY <2>2, <3>1
    <3> QED BY <2>1, <3>2, FS_EmptySet
  <2> QED BY <2>3
<1>3. \A d : Uses(DOMAIN socks, d)' = Uses(DOMAIN socks, d)
  BY <1>1 DEF Uses
<1>4. Counted'
  BY <1>1, <1>3 DEF RefInv, Counted
<1>5. Shape' /\ Fresh' /\ ClosedEmpty' /\ CqInUse'
  BY <1>1, <1>2 DEF RefInv, Shape, Fresh, ClosedEmpty, CqInUse
<1> QED BY <1>4, <1>5 DEF RefInv

--------------------------------------------------------------------------------
(* The actions that leave the references alone *)

\* A step that changes neither queues nor sockets.
LEMMA UnchangedKeeps ==
    ASSUME RefInv, UNCHANGED <<opened, cqs, next_handle, socks>>
    PROVE  RefInv'
<1>1. Shape'
  BY DEF RefInv, Shape
<1> QED BY <1>1, KeepsCounts

\* Entries come and go, nothing else.
LEMMA EntryKeeps ==
    ASSUME RefInv, NEW c \in DOMAIN cqs, NEW n, cqs' = [cqs EXCEPT ![c].occ = n],
           UNCHANGED <<opened, next_handle, socks>>
    PROVE  RefInv'
<1>1. Shape'
  BY EntryOnly DEF RefInv, Shape
<1> QED BY <1>1, EntryOnly, KeepsCounts

\* A list or a flag of one socket changes, nothing else.
LEMMA FieldKeeps ==
    ASSUME RefInv, NEW f \in DOMAIN socks, NEW k \in SockKeys \ {"scq", "rcq"}, NEW v,
           socks' = [socks EXCEPT ![f] = [socks[f] EXCEPT ![k] = v]],
           UNCHANGED <<opened, cqs, next_handle>>
    PROVE  RefInv'
<1>1. Shape'
  BY FieldOnly DEF RefInv, Shape
<1> QED BY <1>1, FieldOnly, KeepsCounts

\* Both at once: a receive or a read completes.
LEMMA CompletionKeeps ==
    ASSUME RefInv, NEW f \in DOMAIN socks, NEW k \in SockKeys \ {"scq", "rcq"}, NEW v,
           socks' = [socks EXCEPT ![f] = [socks[f] EXCEPT ![k] = v]],
           NEW c \in DOMAIN cqs, NEW n, cqs' = [cqs EXCEPT ![c].occ = n],
           UNCHANGED <<opened, next_handle>>
    PROVE  RefInv'
<1>1. Shape'
  BY FieldOnly, EntryOnly DEF RefInv, Shape
<1> QED BY <1>1, FieldOnly, EntryOnly, KeepsCounts

\* A segment that arrives changes entries and fields, never who uses a queue.
LEMMA ArrivalKeeps ==
    ASSUME RefInv, NEW f \in DOMAIN socks, mpa_encourage_one(f)
    PROVE  RefInv'
<1> USE DEF SockKeys
<1>1. CASE ddp_get_sink_fails(f)
  BY <1>1, FieldKeeps DEF ddp_get_sink_fails, Desync, res
<1>2. ASSUME NEW last \in BOOLEAN, rdmap_recv_send(f, last)
      PROVE  RefInv'
  <2>1. CASE UNCHANGED <<cqs, heap, socks>>
    BY <1>2, <2>1, UnchangedKeeps DEF rdmap_recv_send
  <2>2. CASE ~UNCHANGED <<cqs, heap, socks>>
    <3> DEFINE c == socks[f].rcq
    <3>1. /\ c \in DOMAIN cqs
          /\ cqs' = [cqs EXCEPT ![c].occ = Produced(c, 1)]
          /\ socks' = [socks EXCEPT ![f] = [socks[f] EXCEPT !["buf_q"] = Unlink(socks[f].buf_q)]]
          /\ UNCHANGED <<opened, next_handle>>
      BY <1>2, <2>2 DEF rdmap_recv_send, RefInv, CqInUse
    <3> QED BY <3>1, CompletionKeeps
  <2> QED BY <2>1, <2>2
<1>3. ASSUME NEW a \in Addr, rdmap_recv_rrr(f, a)
      PROVE  RefInv'
  <2>1. PICK v : socks' = [socks EXCEPT ![f] = [socks[f] EXCEPT !["rrr"] = v]]
    BY <1>3 DEF rdmap_recv_rrr
  <2>2. UNCHANGED <<opened, cqs, next_handle>>
    BY <1>3 DEF rdmap_recv_rrr, res
  <2> QED BY <2>1, <2>2, FieldKeeps
<1>4. ASSUME NEW a \in Addr, NEW t \in DOMAIN stags, recv_tagged(f, t, a)
      PROVE  RefInv'
  BY <1>4, UnchangedKeeps DEF recv_tagged, res
<1>5. ASSUME NEW a \in Addr, NEW t \in DOMAIN stags, rdmap_reap_rwr(f, t, a)
      PROVE  RefInv'
  <2>1. CASE UNCHANGED <<cqs, socks>>
    BY <1>5, <2>1, UnchangedKeeps DEF rdmap_reap_rwr
  <2>2. CASE ~UNCHANGED <<cqs, socks>>
    <3> DEFINE c == socks[f].scq
               q == Marked(socks[f].rwrq, t)
               fits == Produced(c, DoneCount(q)) - cqs[c].occ
    <3>1. /\ c \in DOMAIN cqs
          /\ cqs' = [cqs EXCEPT ![c].occ = cqs[c].occ + fits]
          /\ socks' = [socks EXCEPT ![f] = [socks[f] EXCEPT !["rwrq"] = SubSeq(q, fits + 1, Len(q))]]
          /\ UNCHANGED <<opened, next_handle>>
      BY <1>5, <2>2 DEF rdmap_reap_rwr, RefInv, CqInUse
    <3> QED BY <3>1, CompletionKeeps
  <2> QED BY <2>1, <2>2
<1> QED BY <1>1, <1>2, <1>3, <1>4, <1>5 DEF mpa_encourage_one

\* Every command written to the device keeps the counts.
LEMMA CommandKeeps ==
    ASSUME RefInv, iwarp_write
    PROVE  RefInv'
<1> USE DEF SockKeys
<1>1. CASE cq_create
  BY <1>1, CreateKeeps
<1>2. ASSUME NEW c \in DOMAIN cqs, cq_destroy(c)
      PROVE  RefInv'
  BY <1>2, DestroyKeeps
<1>3. ASSUME NEW c \in DOMAIN cqs, rdmap_poll(c)
      PROVE  RefInv'
  BY <1>3, EntryKeeps DEF rdmap_poll
<1>4. ASSUME NEW f \in File, NEW s \in DOMAIN cqs, NEW r \in DOMAIN cqs, rdmap_register_sock(f, s, r)
      PROVE  RefInv'
  BY <1>4, RegisterKeeps
<1>5. ASSUME NEW f \in File, rdmap_deregister_sock(f)
      PROVE  RefInv'
  BY <1>5, DeregisterKeeps
<1>6. ASSUME NEW f \in File, rdmap_init_startup(f) \/ rdmap_set_sock_attrs(f)
      PROVE  RefInv'
  BY <1>6, UnchangedKeeps DEF rdmap_init_startup, rdmap_set_sock_attrs, TakesRef, res
<1>7. CASE mem_register
  BY <1>7, UnchangedKeeps DEF mem_register
<1>8. ASSUME NEW i \in Slot, mem_deregister(i) \/ \E rw \in Access : mem_stag_create(i, rw)
      PROVE  RefInv'
  BY <1>8, UnchangedKeeps DEF mem_deregister, mem_stag_create
<1>9. ASSUME NEW t \in DOMAIN stags, mem_stag_destroy(t)
      PROVE  RefInv'
  BY <1>9, UnchangedKeeps DEF mem_stag_destroy
<1>10. ASSUME NEW f \in File, NEW t \in DOMAIN stags, rdmap_send(f, t)
       PROVE  RefInv'
  <2>1. f \in DOMAIN socks /\ socks[f].scq \in DOMAIN cqs
    BY <1>10 DEF rdmap_send, Known, RefInv, CqInUse
  <2> QED BY <1>10, <2>1, EntryKeeps DEF rdmap_send
<1>11. ASSUME NEW f \in File, NEW t \in DOMAIN stags, rdmap_rdma_read(f, t)
       PROVE  RefInv'
  BY <1>11, FieldKeeps DEF rdmap_rdma_read, Known, res
<1>12. ASSUME NEW f \in File, NEW t \in DOMAIN stags, NEW a \in Addr, rdmap_post_recv(f, t, a)
       PROVE  RefInv'
  BY <1>12, FieldKeeps DEF rdmap_post_recv, Known, res
<1> QED BY <1>1, <1>2, <1>3, <1>4, <1>5, <1>6, <1>7, <1>8, <1>9, <1>10, <1>11, <1>12 DEF iwarp_write

\* The counts are exact in every behaviour.
LEMMA RefInvHolds == Spec => []RefInv
<1>1. Init => RefInv
  <2> SUFFICES ASSUME Init PROVE RefInv
    OBVIOUS
  <2>1. DOMAIN socks = {} /\ DOMAIN cqs = {} /\ next_handle = 1
    BY DEF Init
  <2>2. opened = [k \in {"uc", "n"} |-> opened[k]]
    BY DEF Init
  <2> QED BY <2>1, <2>2 DEF RefInv, Shape, Fresh, Counted, ClosedEmpty, CqInUse
<1>2. RefInv /\ [Next]_vars => RefInv'
  <2> SUFFICES ASSUME RefInv, [Next]_vars PROVE RefInv'
    OBVIOUS
  <2>1. CASE Device
    BY <2>1, OpenKeeps, ReleaseKeeps DEF Device
  <2>2. CASE iwarp_write
    BY <2>2, CommandKeeps
  <2>3. ASSUME NEW f \in File, close(f)
        PROVE  RefInv'
    BY <2>3, UnchangedKeeps DEF close, res
  <2>4. ASSUME NEW f \in DOMAIN socks, mpa_encourage_one(f)
        PROVE  RefInv'
    BY <2>4, ArrivalKeeps
  <2>5. CASE UNCHANGED vars
    BY <2>5, UnchangedKeeps DEF vars
  <2> QED BY <2>1, <2>2, <2>3, <2>4, <2>5 DEF Next
<1> QED BY <1>1, <1>2, PTL DEF Spec

\* For any number of files, queues and calls, the count kept by cq_get and cq_put
\* is the number of uses, so that a queue a registered socket produces into is
\* never destroyed (cq_destroy, rdmap_register_sock, rdmap_release_sock_res).
THEOREM QueuesOutliveSockets == Spec => []CqInUse
<1>1. RefInv => CqInUse
  BY DEF RefInv
<1> QED BY <1>1, RefInvHolds, PTL

--------------------------------------------------------------------------------
(* Regions *)

RegionInv ==
    /\ mr \in [Slot -> BOOLEAN]
    /\ \A t \in DOMAIN stags : stags[t].mr \in Slot
    /\ RegionsHeld

\* The regions of the tags are valid in every behaviour.
LEMMA RegionInvHolds == Spec => []RegionInv
<1>1. Init => RegionInv
  BY DEF Init, RegionInv, RegionsHeld
<1>2. RegionInv /\ [Next]_vars => RegionInv'
  <2> SUFFICES ASSUME RegionInv, [Next]_vars PROVE RegionInv'
    OBVIOUS
  <2>1. CASE UNCHANGED <<mr, stags>>
    BY <2>1 DEF RegionInv, RegionsHeld
  <2>2. CASE iwarp_open
    BY <2>2 DEF iwarp_open, RegionInv, RegionsHeld
  <2>3. CASE iwarp_release
    BY <2>3 DEF iwarp_release, RegionInv, RegionsHeld
  <2>4. CASE mem_register
    BY <2>4 DEF mem_register, RegionInv, RegionsHeld
  <2>5. ASSUME NEW i \in Slot, mem_deregister(i)
        PROVE  RegionInv'
    BY <2>5 DEF mem_deregister, NoTags, RegionInv, RegionsHeld
  <2>6. ASSUME NEW i \in Slot, NEW rw \in Access, mem_stag_create(i, rw)
        PROVE  RegionInv'
    BY <2>6 DEF mem_stag_create, Plus, RegionInv, RegionsHeld
  <2>7. ASSUME NEW t \in DOMAIN stags, mem_stag_destroy(t)
        PROVE  RegionInv'
    BY <2>7 DEF mem_stag_destroy, Without, Restrict, RegionInv, RegionsHeld
  <2>8. ASSUME iwarp_write
        PROVE  RegionInv'
    <3>1. ASSUME NEW c \in DOMAIN cqs, cq_destroy(c) \/ rdmap_poll(c)
          PROVE  RegionInv'
      BY <2>1, <3>1 DEF cq_destroy, rdmap_poll
    <3>2. ASSUME NEW f \in File, NEW s \in DOMAIN cqs, NEW r \in DOMAIN cqs, rdmap_register_sock(f, s, r)
          PROVE  RegionInv'
      BY <2>1, <3>2 DEF rdmap_register_sock
    <3>3. ASSUME NEW f \in File,
                 rdmap_deregister_sock(f) \/ rdmap_init_startup(f) \/ rdmap_set_sock_attrs(f)
          PROVE  RegionInv'
      BY <2>1, <3>3 DEF rdmap_deregister_sock, rdmap_init_startup, rdmap_set_sock_attrs, TakesRef, res
    <3>4. ASSUME NEW f \in File, NEW t \in DOMAIN stags, rdmap_send(f, t) \/ rdmap_rdma_read(f, t)
          PROVE  RegionInv'
      BY <2>1, <3>4 DEF rdmap_send, rdmap_rdma_read, res
    <3>5. ASSUME NEW f \in File, NEW t \in DOMAIN stags, NEW a \in Addr, rdmap_post_recv(f, t, a)
          PROVE  RegionInv'
      BY <2>1, <3>5 DEF rdmap_post_recv, res
    <3>6. CASE cq_create
      BY <2>1, <3>6 DEF cq_create
    <3> QED BY <2>4, <2>5, <2>6, <2>7, <2>8, <3>1, <3>2, <3>3, <3>4, <3>5, <3>6 DEF iwarp_write
  <2>9. ASSUME NEW f \in DOMAIN socks, mpa_encourage_one(f)
        PROVE  RegionInv'
    <3>1. UNCHANGED <<mr, stags>>
      BY <2>9 DEF mpa_encourage_one, ddp_get_sink_fails, rdmap_recv_send, rdmap_recv_rrr,
                  recv_tagged, rdmap_reap_rwr, res
    <3> QED BY <2>1, <3>1
  <2>10. ASSUME NEW f \in File, close(f)
         PROVE  RegionInv'
    BY <2>1, <2>10 DEF close, res
  <2>11. CASE UNCHANGED vars
    BY <2>1, <2>11 DEF vars
  <2> QED BY <2>2, <2>3, <2>8, <2>9, <2>10, <2>11 DEF Next, Device
<1> QED BY <1>1, <1>2, PTL DEF Spec

\* For any number of regions and tags, mem_deregister never gives up a region that
\* a tag names, so a peer that knows a tag reaches pinned pages only.
THEOREM TagsKeepRegions == Spec => []RegionsHeld
<1>1. RegionInv => RegionsHeld
  BY DEF RegionInv
<1> QED BY <1>1, RegionInvHolds, PTL

--------------------------------------------------------------------------------
(* File references *)

CountKeys == {"startup", "rrr", "tagged", "reads", "misuse"}

FileInv ==
    /\ refs \in [File -> Int]
    /\ fds \subseteq File /\ DOMAIN socks \subseteq File
    /\ count = [k \in CountKeys |-> count[k]]
    /\ count.startup \in [File -> Nat]
    /\ ~opened.uc => DOMAIN socks = {}
    /\ opened = [k \in {"uc", "n"} |-> opened[k]]
    /\ FileRefsExact

\* Membership of one file as a number.
LEMMA One ==
    ASSUME NEW f, NEW S
    PROVE  Cardinality({f} \cap S) = IF f \in S THEN 1 ELSE 0
<1>1. CASE f \in S
  <2>1. {f} \cap S = {f}
    BY <1>1
  <2> QED BY <1>1, <2>1, FS_Singleton
<1>2. CASE f \notin S
  <2>1. {f} \cap S = {}
    BY <1>2
  <2> QED BY <1>2, <2>1, FS_EmptySet
<1> QED BY <1>1, <1>2

\* FileRefsExact with the cardinalities as numbers, before and after a step.
LEMMA Refs ==
    /\ FileRefsExact <=>
         \A f \in File : refs[f] = (IF f \in fds THEN 1 ELSE 0)
                                 + (IF f \in DOMAIN socks THEN 1 ELSE 0) + count.startup[f]
    /\ FileRefsExact' <=>
         \A f \in File : refs'[f] = (IF f \in fds' THEN 1 ELSE 0)
                                  + (IF f \in DOMAIN socks' THEN 1 ELSE 0) + count'.startup[f]
  BY One DEF FileRefsExact

\* A step that opens, closes, registers and starts up nothing.
LEMMA FilesKept ==
    ASSUME FileInv, UNCHANGED <<refs, fds, opened>>, DOMAIN socks' = DOMAIN socks,
           count' = [k \in CountKeys |-> count'[k]], count'.startup = count.startup
    PROVE  FileInv'
<1>1. FileRefsExact'
  <2>1. FileRefsExact
    BY DEF FileInv
  <2> QED BY <2>1 DEF FileRefsExact
<1>2. /\ refs' \in [File -> Int] /\ fds' \subseteq File /\ DOMAIN socks' \subseteq File
      /\ count'.startup \in [File -> Nat]
  BY DEF FileInv
<1>3. (~opened'.uc => DOMAIN socks' = {}) /\ opened' = [k \in {"uc", "n"} |-> opened'[k]]
  BY DEF FileInv
<1> QED BY <1>1, <1>2, <1>3 DEF FileInv

\* A counter or the flag other than the startups changes.
LEMMA CountKept ==
    ASSUME FileInv, NEW k \in CountKeys \ {"startup"}, NEW v, count' = [count EXCEPT ![k] = v]
    PROVE  count' = [l \in CountKeys |-> count'[l]] /\ count'.startup = count.startup
  BY DEF FileInv, CountKeys

\* The references of the files are exact in every behaviour.
LEMMA FileInvHolds == Spec => []FileInv
<1> USE DEF CountKeys
<1>1. Init => FileInv
  <2> SUFFICES ASSUME Init PROVE FileInv
    OBVIOUS
  <2>1. /\ refs = [f \in File |-> 1] /\ fds = File /\ DOMAIN socks = {}
        /\ count.startup = [f \in File |-> 0]
    BY DEF Init
  <2>2. count = [k \in CountKeys |-> count[k]]
    BY DEF Init
  <2>3. opened = [k \in {"uc", "n"} |-> opened[k]]
    BY DEF Init
  <2>4. FileRefsExact
    BY <2>1, Refs
  <2> QED BY <2>1, <2>2, <2>3, <2>4 DEF FileInv
<1>2. FileInv /\ [Next]_vars => FileInv'
  <2> SUFFICES ASSUME FileInv, [Next]_vars PROVE FileInv'
    OBVIOUS
  <2>1. ASSUME UNCHANGED <<refs, fds, opened, count>>, DOMAIN socks' = DOMAIN socks
        PROVE  FileInv'
    BY <2>1, FilesKept DEF FileInv
  <2>2. CASE iwarp_open
    <3>1. DOMAIN socks = {} /\ UNCHANGED <<refs, fds, socks, count>>
      BY <2>2 DEF iwarp_open, FileInv, files
    <3>2. opened' = [k \in {"uc", "n"} |-> opened'[k]]
      BY <2>2 DEF iwarp_open
    <3> QED BY <3>1, <3>2, Refs DEF FileInv
  <2>3. CASE iwarp_release
    <3>1. /\ DOMAIN socks' = {} /\ UNCHANGED <<fds, count>>
          /\ refs' = [f \in File |-> refs[f] - (IF f \in DOMAIN socks THEN 1 ELSE 0)]
          /\ opened' = [opened EXCEPT !.uc = FALSE]
      BY <2>3 DEF iwarp_release
    <3>2. refs' \in [File -> Int]
      BY <3>1 DEF FileInv
    <3>3. FileRefsExact'
      BY <3>1, Refs DEF FileInv
    <3>4. opened' = [k \in {"uc", "n"} |-> opened'[k]]
      BY <3>1 DEF FileInv
    <3> QED BY <3>1, <3>2, <3>3, <3>4 DEF FileInv
  <2>4. ASSUME NEW f \in File, NEW s \in DOMAIN cqs, NEW r \in DOMAIN cqs, rdmap_register_sock(f, s, r)
        PROVE  FileInv'
    <3>1. /\ f \notin DOMAIN socks /\ DOMAIN socks' = DOMAIN socks \cup {f}
          /\ refs' = [refs EXCEPT ![f] = @ + 1] /\ opened.uc
          /\ UNCHANGED <<fds, count, opened>>
      BY <2>4 DEF rdmap_register_sock, Plus, Up
    <3> QED BY <3>1, Refs DEF FileInv
  <2>5. ASSUME NEW f \in File, rdmap_deregister_sock(f)
        PROVE  FileInv'
    <3>1. /\ f \in DOMAIN socks /\ DOMAIN socks' = DOMAIN socks \ {f}
          /\ refs' = [refs EXCEPT ![f] = @ - 1]
          /\ UNCHANGED <<fds, count, opened>>
      BY <2>5 DEF rdmap_deregister_sock, DeregRefs, Known, Without, Restrict
    <3> QED BY <3>1, Refs DEF FileInv
  <2>6. ASSUME NEW f \in File, TakesRef(f)
        PROVE  FileInv'
    <3>1. /\ refs' = [refs EXCEPT ![f] = @ + 1]
          /\ count' = [count EXCEPT !.startup = [count.startup EXCEPT ![f] = @ + 1]]
          /\ UNCHANGED <<fds, socks, opened>>
      BY <2>6 DEF TakesRef
    <3>2. /\ count' = [k \in CountKeys |-> count'[k]]
          /\ count'.startup = [count.startup EXCEPT ![f] = @ + 1]
      BY <3>1 DEF FileInv
    <3> QED BY <3>1, <3>2, Refs DEF FileInv
  <2>7. ASSUME NEW f \in File, close(f)
        PROVE  FileInv'
    <3>1. /\ f \in fds /\ fds' = fds \ {f} /\ refs' = [refs EXCEPT ![f] = @ - 1]
          /\ UNCHANGED <<socks, count, opened>>
      BY <2>7 DEF close
    <3> QED BY <3>1, Refs DEF FileInv
  <2>8. ASSUME NEW k \in CountKeys \ {"startup"}, NEW v, count' = [count EXCEPT ![k] = v],
               UNCHANGED <<refs, fds, opened>>, DOMAIN socks' = DOMAIN socks
        PROVE  FileInv'
    BY <2>8, CountKept, FilesKept
  <2>9. ASSUME NEW t \in DOMAIN stags, mem_stag_destroy(t)
        PROVE  FileInv'
    <3>1. PICK v : count' = [count EXCEPT !["misuse"] = v]
      BY <2>9 DEF mem_stag_destroy
    <3> QED BY <2>8, <2>9, <3>1 DEF mem_stag_destroy, files
  <2>10. CASE iwarp_write
    <3>1. CASE cq_create \/ mem_register
      BY <2>1, <3>1 DEF cq_create, mem_register, files
    <3>2. ASSUME NEW c \in DOMAIN cqs, cq_destroy(c) \/ rdmap_poll(c)
          PROVE  FileInv'
      BY <2>1, <3>2 DEF cq_destroy, rdmap_poll, files
    <3>3. ASSUME NEW i \in Slot, mem_deregister(i) \/ \E rw \in Access : mem_stag_create(i, rw)
          PROVE  FileInv'
      BY <2>1, <3>3 DEF mem_deregister, mem_stag_create, files
    <3>4. ASSUME NEW f \in File, NEW t \in DOMAIN stags, rdmap_send(f, t)
          PROVE  FileInv'
      BY <2>1, <3>4 DEF rdmap_send, files
    <3>5. ASSUME NEW f \in File, NEW t \in DOMAIN stags, rdmap_rdma_read(f, t)
          PROVE  FileInv'
      BY <2>8, <3>5 DEF rdmap_rdma_read, files
    <3>6. ASSUME NEW f \in File, NEW t \in DOMAIN stags, NEW a \in Addr, rdmap_post_recv(f, t, a)
          PROVE  FileInv'
      BY <2>1, <3>6 DEF rdmap_post_recv, files
    <3> QED BY <2>4, <2>5, <2>6, <2>9, <2>10, <3>1, <3>2, <3>3, <3>4, <3>5, <3>6
            DEF iwarp_write, rdmap_init_startup, rdmap_set_sock_attrs
  <2>11. ASSUME NEW f \in DOMAIN socks, mpa_encourage_one(f)
         PROVE  FileInv'
    <3>1. CASE ddp_get_sink_fails(f)
      BY <2>1, <3>1 DEF ddp_get_sink_fails, Desync, files
    <3>2. ASSUME NEW last \in BOOLEAN, rdmap_recv_send(f, last)
          PROVE  FileInv'
      BY <2>1, <3>2 DEF rdmap_recv_send, files
    <3>3. ASSUME NEW a \in Addr, rdmap_recv_rrr(f, a)
          PROVE  FileInv'
      BY <2>8, <3>3 DEF rdmap_recv_rrr, files
    <3>4. ASSUME NEW a \in Addr, NEW t \in DOMAIN stags, recv_tagged(f, t, a)
          PROVE  FileInv'
      BY <2>8, <3>4 DEF recv_tagged, Leak, files
    <3>5. ASSUME NEW a \in Addr, NEW t \in DOMAIN stags, rdmap_reap_rwr(f, t, a)
          PROVE  FileInv'
      BY <2>8, <3>5 DEF rdmap_reap_rwr, Leak, files
    <3> QED BY <2>11, <3>1, <3>2, <3>3, <3>4, <3>5 DEF mpa_encourage_one
  <2>12. CASE UNCHANGED vars
    BY <2>1, <2>12 DEF vars
  <2> QED BY <2>2, <2>3, <2>7, <2>10, <2>11, <2>12 DEF Next, Device
<1> QED BY <1>1, <1>2, PTL DEF Spec

\* For any number of files, sockets and calls, a file has one reference for its
\* descriptor, one for its hash entry and one for each startup that kept its own:
\* rdmap_release_sock_res never drops a reference that rdmap_register_sock did
\* not take, and the file a hash entry names is never freed under it.
THEOREM FilesCounted == Spec => []FileRefsExact
<1>1. FileInv => FileRefsExact
  BY DEF FileInv
<1> QED BY <1>1, FileInvHolds, PTL

--------------------------------------------------------------------------------
(* Posted receives *)

IsRecv(a) == heap[a].kind = "recv"

\* The receives posted on f.
Q(f) == socks[f].buf_q

\* What kmalloc gave out, and for what.
Cells ==
    /\ heap = [a \in Addr |-> heap[a]]
    /\ \A a \in Addr : IsRecv(a) => heap[a] = [kind |-> "recv", sd |-> heap[a].sd]

\* The lists hold posted receives.
Lists ==
    \A f \in DOMAIN socks :
        Q(f) \in Seq(Addr) /\ \A i \in 1 .. Len(Q(f)) : IsRecv(Q(f)[i])

\* Every posted receive is on a list.
Held ==
    \A a \in Addr : IsRecv(a) => \E f \in DOMAIN socks : \E i \in 1 .. Len(Q(f)) : Q(f)[i] = a

\* None is there twice.
Once ==
    \A f, g \in DOMAIN socks : \A i \in 1 .. Len(Q(f)), j \in 1 .. Len(Q(g)) :
        Q(f)[i] = Q(g)[j] => f = g /\ i = j

\* Without misuse, a posted receive points to a tag that exists.
TagsLive == ~count.misuse => \A a \in Addr : IsRecv(a) => heap[a].sd \in DOMAIN stags

HeapInv == Cells /\ Lists /\ Held /\ Once /\ TagsLive

\* Steps that touch no list, free nothing and destroy no tag.
LEMMA ListsKept ==
    ASSUME HeapInv, UNCHANGED heap, DOMAIN socks' = DOMAIN socks,
           \A f \in DOMAIN socks : socks'[f].buf_q = socks[f].buf_q,
           count'.misuse = count.misuse, DOMAIN stags \subseteq DOMAIN stags'
    PROVE  HeapInv'
<1>1. Cells' /\ TagsLive'
  BY DEF HeapInv, Cells, TagsLive, IsRecv
<1>2. Lists' /\ Held' /\ Once'
  BY DEF HeapInv, Lists, Held, Once, Q, IsRecv
<1> QED BY <1>1, <1>2 DEF HeapInv

\* A descriptor that no list will ever hold is allocated.
LEMMA LeakKeeps ==
    ASSUME HeapInv, NEW a \in Addr, heap[a] = Free, heap' = [heap EXCEPT ![a] = [kind |-> "tag"]],
           DOMAIN socks' = DOMAIN socks,
           \A f \in DOMAIN socks : socks'[f].buf_q = socks[f].buf_q,
           count'.misuse = count.misuse, UNCHANGED stags
    PROVE  HeapInv'
<1>1. /\ ~IsRecv(a) /\ ~IsRecv(a)' /\ heap' = [b \in Addr |-> heap'[b]]
      /\ \A b \in Addr \ {a} : heap'[b] = heap[b]
  BY DEF IsRecv, Free, HeapInv, Cells
<1>2. \A b \in Addr : (IsRecv(b)' <=> IsRecv(b)) /\ (IsRecv(b) => heap'[b] = heap[b])
  BY <1>1 DEF IsRecv
<1>3. Cells' /\ TagsLive'
  BY <1>1, <1>2 DEF HeapInv, Cells, TagsLive
<1>4. \A f \in DOMAIN socks : \A i \in 1 .. Len(Q(f)) : Q(f)[i] \in Addr
  BY ElementOfSeq DEF HeapInv, Lists
<1>5. Lists' /\ Held' /\ Once'
  BY <1>2, <1>4 DEF HeapInv, Lists, Held, Once, Q
<1> QED BY <1>3, <1>5 DEF HeapInv

\* rdmap_post_recv: a new descriptor at the end of one list.
LEMMA PostKeeps ==
    ASSUME HeapInv, Shape, NEW f \in File, NEW t \in DOMAIN stags, NEW a \in Addr, rdmap_post_recv(f, t, a)
    PROVE  HeapInv'
<1>1. /\ f \in DOMAIN socks /\ heap[a] = Free
      /\ heap' = [heap EXCEPT ![a] = [kind |-> "recv", sd |-> t]]
      /\ socks' = [socks EXCEPT ![f] = [socks[f] EXCEPT !.buf_q = Append(socks[f].buf_q, a)]]
      /\ UNCHANGED <<stags, count>>
  BY DEF rdmap_post_recv, Known, res
<1>2. /\ ~IsRecv(a) /\ heap' = [b \in Addr |-> heap'[b]]
      /\ \A b \in Addr \ {a} : heap'[b] = heap[b]
      /\ heap'[a] = [kind |-> "recv", sd |-> t]
  BY <1>1 DEF IsRecv, Free, HeapInv, Cells
<1>3. /\ IsRecv(a)' /\ heap'[a].sd = t
      /\ \A b \in Addr \ {a} : IsRecv(b)' <=> IsRecv(b)
  BY <1>2 DEF IsRecv
<1>4. Cells' /\ TagsLive'
  BY <1>1, <1>2, <1>3 DEF HeapInv, Cells, TagsLive
<1>5. /\ DOMAIN socks' = DOMAIN socks
      /\ \A g \in DOMAIN socks \ {f} : Q(g)' = Q(g)
      /\ Q(f)' = Append(Q(f), a)
  BY <1>1 DEF Shape, SockKeys, Q
<1>6. /\ Q(f)' \in Seq(Addr) /\ Len(Q(f)) \in Nat /\ Len(Q(f)') = Len(Q(f)) + 1
      /\ \A i \in 1 .. Len(Q(f)) : Q(f)'[i] = Q(f)[i]
      /\ Q(f)'[Len(Q(f)) + 1] = a
  BY <1>1, <1>5, AppendProperties, LenProperties DEF HeapInv, Lists
<1>7. \A g \in DOMAIN socks : \A i \in 1 .. Len(Q(g)) :
        Q(g)[i] \in Addr /\ IsRecv(Q(g)[i]) /\ Q(g)[i] # a
  BY <1>2, ElementOfSeq DEF HeapInv, Lists
<1>8. Lists'
  <2>1. ASSUME NEW g \in DOMAIN socks \ {f}
        PROVE  Q(g)' \in Seq(Addr) /\ \A i \in 1 .. Len(Q(g)') : IsRecv(Q(g)[i])'
    BY <1>3, <1>5, <1>7 DEF HeapInv, Lists
  <2>2. \A i \in 1 .. Len(Q(f)') : IsRecv(Q(f)[i])'
    <3> SUFFICES ASSUME NEW i \in 1 .. Len(Q(f)') PROVE IsRecv(Q(f)[i])'
      OBVIOUS
    <3>1. CASE i = Len(Q(f)) + 1
      BY <1>3, <1>6, <3>1
    <3>2. CASE i \in 1 .. Len(Q(f))
      <4>1. Q(f)'[i] = Q(f)[i] /\ Q(f)[i] \in Addr \ {a} /\ IsRecv(Q(f)[i])
        BY <1>1, <1>6, <1>7, <3>2
      <4> QED BY <1>2, <4>1 DEF IsRecv
    <3> QED BY <1>6, <3>1, <3>2
  <2> QED BY <1>5, <1>6, <2>1, <2>2 DEF Lists
<1>9. Held'
  <2> SUFFICES ASSUME NEW b \in Addr, IsRecv(b)'
               PROVE  \E g \in DOMAIN socks' : \E i \in 1 .. Len(Q(g)') : Q(g)'[i] = b
    BY DEF Held
  <2>1. CASE b = a
    <3>1. Len(Q(f)) + 1 \in 1 .. Len(Q(f)')
      BY <1>6
    <3> QED BY <1>1, <1>5, <1>6, <2>1, <3>1
  <2>2. CASE b # a
    <3>0. PICK g \in DOMAIN socks : \E i \in 1 .. Len(Q(g)) : Q(g)[i] = b
      BY <1>3, <2>2 DEF HeapInv, Held
    <3>1. PICK i \in 1 .. Len(Q(g)) : Q(g)[i] = b
      BY <3>0
    <3>2. CASE g = f
      <4>1. i \in 1 .. Len(Q(f)') /\ Q(f)'[i] = b
        BY <1>6, <3>1, <3>2
      <4> QED BY <1>1, <1>5, <4>1
    <3>3. CASE g # f
      BY <1>5, <3>1, <3>3
    <3> QED BY <3>2, <3>3
  <2> QED BY <2>1, <2>2
<1>10. Once'
  <2> SUFFICES ASSUME NEW g \in DOMAIN socks, NEW h \in DOMAIN socks,
                      NEW i \in 1 .. Len(Q(g)'), NEW j \in 1 .. Len(Q(h)'), Q(g)'[i] = Q(h)'[j]
               PROVE  g = h /\ i = j
    BY <1>5 DEF Once
  <2>1. \A k \in DOMAIN socks : \A l \in 1 .. Len(Q(k)') :
          \/ k = f /\ l = Len(Q(f)) + 1 /\ Q(k)'[l] = a
          \/ l \in 1 .. Len(Q(k)) /\ Q(k)'[l] = Q(k)[l] /\ Q(k)[l] # a
    <3> TAKE k \in DOMAIN socks
    <3> TAKE l \in 1 .. Len(Q(k)')
    <3>1. CASE k # f
      BY <1>5, <1>7, <3>1
    <3>2. CASE k = f /\ l = Len(Q(f)) + 1
      BY <1>6, <3>2
    <3>3. CASE k = f /\ l # Len(Q(f)) + 1
      BY <1>6, <1>7, <3>3
    <3> QED BY <3>1, <3>2, <3>3
  <2>2. CASE Q(g)'[i] = a
    <3>1. g = f /\ i = Len(Q(f)) + 1
      BY <2>1, <2>2
    <3>2. h = f /\ j = Len(Q(f)) + 1
      BY <2>1, <2>2
    <3> QED BY <3>1, <3>2
  <2>3. CASE Q(g)'[i] # a
    <3>1. i \in 1 .. Len(Q(g)) /\ j \in 1 .. Len(Q(h)) /\ Q(g)[i] = Q(h)[j]
      BY <2>1, <2>3
    <3> QED BY <3>1 DEF HeapInv, Once
  <2> QED BY <2>2, <2>3
<1> QED BY <1>4, <1>8, <1>9, <1>10 DEF HeapInv

\* rdmap_recv_send: the first descriptor of one list is unlinked and freed.
LEMMA UnlinkKeeps ==
    ASSUME HeapInv, Shape, NEW f \in DOMAIN socks, Q(f) # <<>>,
           NEW a, a = Head(Q(f)), heap' = [heap EXCEPT ![a] = Free],
           socks' = [socks EXCEPT ![f] = [socks[f] EXCEPT !.buf_q = Tail(socks[f].buf_q)]],
           UNCHANGED <<stags, count>>
    PROVE  HeapInv'
<1>1. /\ DOMAIN socks' = DOMAIN socks
      /\ \A g \in DOMAIN socks \ {f} : Q(g)' = Q(g)
      /\ Q(f)' = Tail(Q(f))
  BY DEF Shape, SockKeys, Q
<1>2. /\ Q(f)' \in Seq(Addr) /\ Len(Q(f)) \in Nat \ {0} /\ Len(Q(f)') = Len(Q(f)) - 1
      /\ \A i \in 1 .. Len(Q(f)') : Q(f)'[i] = Q(f)[i + 1] /\ i + 1 \in 1 .. Len(Q(f))
      /\ a = Q(f)[1]
  <2>1. PICK q \in Seq(Addr) : q = Q(f)
    BY DEF HeapInv, Lists
  <2>2. q # <<>> /\ Len(q) \in Nat \ {0} /\ a = q[1]
    BY <2>1, LenProperties, EmptySeq
  <2>3. /\ Tail(q) \in Seq(Addr) /\ Len(Tail(q)) = Len(q) - 1
        /\ \A i \in 1 .. Len(Tail(q)) : Tail(q)[i] = q[i + 1]
    BY <2>2, HeadTailProperties
  <2>4. \A i \in 1 .. Len(Tail(q)) : i + 1 \in 1 .. Len(q)
    BY <2>2, <2>3
  <2> QED BY <1>1, <2>1, <2>2, <2>3, <2>4
<1>3. \A g \in DOMAIN socks : \A i \in 1 .. Len(Q(g)) : Q(g)[i] \in Addr /\ IsRecv(Q(g)[i])
  BY ElementOfSeq DEF HeapInv, Lists
<1>4. a \in Addr /\ IsRecv(a) /\ 1 \in 1 .. Len(Q(f))
  BY <1>2, <1>3
<1>5. \A g \in DOMAIN socks : \A i \in 1 .. Len(Q(g)) : Q(g)[i] = a => g = f /\ i = 1
  <2>1. Once /\ a = Q(f)[1] /\ 1 \in 1 .. Len(Q(f))
    BY <1>2, <1>4 DEF HeapInv
  <2>2. ASSUME NEW g \in DOMAIN socks, NEW i \in 1 .. Len(Q(g)), Q(g)[i] = Q(f)[1] PROVE g = f /\ i = 1
    BY <2>1, <2>2, Zenon DEF Once
  <2> QED BY <2>1, <2>2
<1>6. /\ heap' = [b \in Addr |-> heap'[b]]
      /\ \A b \in Addr \ {a} : heap'[b] = heap[b]
      /\ heap'[a] = Free
  BY <1>4 DEF HeapInv, Cells
<1>7. ~IsRecv(a)' /\ \A b \in Addr \ {a} : IsRecv(b)' <=> IsRecv(b)
  BY <1>6 DEF IsRecv, Free
<1>8. Cells' /\ TagsLive'
  <2>1. \A b \in Addr : IsRecv(b)' => IsRecv(b) /\ heap'[b] = heap[b]
    BY <1>6, <1>7
  <2>2. Cells'
    BY <1>6, <2>1 DEF HeapInv, Cells
  <2>3. TagsLive'
    BY <2>1 DEF HeapInv, TagsLive
  <2> QED BY <2>2, <2>3
\* Where an entry was before.
<1> DEFINE was(g, i) == IF g = f THEN i + 1 ELSE i
<1>9. \A g \in DOMAIN socks : \A i \in 1 .. Len(Q(g)') :
        was(g, i) \in 1 .. Len(Q(g)) /\ Q(g)'[i] = Q(g)[was(g, i)] /\ Q(g)[was(g, i)] # a
  <2> TAKE g \in DOMAIN socks
  <2> TAKE i \in 1 .. Len(Q(g)')
  <2>1. CASE g = f
    <3>1. i + 1 # 1
      OBVIOUS
    <3> QED BY <1>2, <1>5, <2>1, <3>1
  <2>2. CASE g # f
    BY <1>1, <1>5, <2>2
  <2> QED BY <2>1, <2>2
<1>10. Lists'
  <2> SUFFICES ASSUME NEW g \in DOMAIN socks
               PROVE  Q(g)' \in Seq(Addr) /\ \A i \in 1 .. Len(Q(g)') : heap'[Q(g)'[i]].kind = "recv"
    BY <1>1 DEF Lists, IsRecv
  <2>1. Q(g)' \in Seq(Addr)
    BY <1>1, <1>2 DEF HeapInv, Lists
  <2>2. ASSUME NEW i \in 1 .. Len(Q(g)') PROVE heap'[Q(g)'[i]].kind = "recv"
    <3> HIDE DEF was
    <3> QED BY <1>3, <1>6, <1>9 DEF IsRecv
  <2> QED BY <2>1, <2>2
<1>11. Held'
  <2> SUFFICES ASSUME NEW b \in Addr, IsRecv(b)'
               PROVE  \E g \in DOMAIN socks' : \E i \in 1 .. Len(Q(g)') : Q(g)'[i] = b
    BY DEF Held
  <2>1. b # a /\ IsRecv(b)
    BY <1>7
  <2>2. PICK g \in DOMAIN socks : \E i \in 1 .. Len(Q(g)) : Q(g)[i] = b
    BY <2>1 DEF HeapInv, Held
  <2>3. PICK i \in 1 .. Len(Q(g)) : Q(g)[i] = b
    BY <2>2
  <2>4. CASE g # f
    BY <1>1, <2>3, <2>4
  <2>5. CASE g = f
    <3>1. i # 1
      BY <1>2, <2>1, <2>3, <2>5
    <3>2. i - 1 \in 1 .. Len(Q(f)') /\ Q(f)'[i - 1] = b
      BY <1>2, <2>3, <2>5, <3>1
    <3> QED BY <1>1, <3>2
  <2> QED BY <2>4, <2>5
<1>12. Once'
  <2> SUFFICES ASSUME NEW g \in DOMAIN socks, NEW h \in DOMAIN socks,
                      NEW i \in 1 .. Len(Q(g)'), NEW j \in 1 .. Len(Q(h)'), Q(g)'[i] = Q(h)'[j]
               PROVE  g = h /\ i = j
    BY <1>1 DEF Once
  <2>1. g = h /\ was(g, i) = was(h, j)
    <3> HIDE DEF was
    <3> QED BY <1>9 DEF HeapInv, Once
  <2> QED BY <2>1
<1> QED BY <1>8, <1>10, <1>11, <1>12 DEF HeapInv

\* What Posted collects.
LEMMA PostedIs ==
    ASSUME HeapInv, NEW S \in SUBSET DOMAIN socks, NEW a
    PROVE  a \in Posted(S) <=> \E f \in S : \E i \in 1 .. Len(Q(f)) : Q(f)[i] = a
<1>1. \A f \in S : DOMAIN Q(f) = 1 .. Len(Q(f))
  BY LenProperties DEF HeapInv, Lists
<1> QED BY <1>1 DEF Posted, Elems, Q

\* rdmap_release_sock_res: the sockets of S go with what is posted on them.
LEMMA FreeKeeps ==
    ASSUME HeapInv, NEW S \in SUBSET DOMAIN socks,
           DOMAIN socks' = DOMAIN socks \ S, \A g \in DOMAIN socks' : socks'[g] = socks[g],
           heap' = FreePosted(S), stags' = stags \/ S = DOMAIN socks, UNCHANGED count
    PROVE  HeapInv'
<1>1. /\ heap' = [b \in Addr |-> heap'[b]]
      /\ \A b \in Addr : heap'[b] = IF b \in Posted(S) THEN Free ELSE heap[b]
  BY DEF FreePosted
<1>2. /\ \A b \in Addr : IsRecv(b)' <=> IsRecv(b) /\ b \notin Posted(S)
      /\ \A b \in Addr : b \notin Posted(S) => heap'[b] = heap[b]
  BY <1>1 DEF IsRecv, Free
<1>3. \A g \in DOMAIN socks' : Q(g)' = Q(g) /\ g \in DOMAIN socks \ S
  BY DEF Q
<1>4. \A g \in DOMAIN socks : \A i \in 1 .. Len(Q(g)) : Q(g)[i] \in Addr /\ IsRecv(Q(g)[i])
  BY ElementOfSeq DEF HeapInv, Lists
<1>5. \A g \in DOMAIN socks' : \A i \in 1 .. Len(Q(g)) : Q(g)[i] \notin Posted(S)
  BY <1>3, PostedIs DEF HeapInv, Once
<1>6. Cells'
  BY <1>1, <1>2 DEF HeapInv, Cells
<1>7. TagsLive'
  <2>1. CASE stags' = stags
    BY <1>2, <2>1 DEF HeapInv, TagsLive
  <2>2. CASE S = DOMAIN socks
    <3>1. \A b \in Addr : ~IsRecv(b)'
      BY <1>2, <2>2, PostedIs DEF HeapInv, Held
    <3> QED BY <3>1 DEF TagsLive
  <2> QED BY <2>1, <2>2
<1>8. Lists'
  <2> SUFFICES ASSUME NEW g \in DOMAIN socks'
               PROVE  Q(g)' \in Seq(Addr) /\ \A i \in 1 .. Len(Q(g)') : heap'[Q(g)'[i]].kind = "recv"
    BY DEF Lists, IsRecv
  <2>1. Q(g)' = Q(g) /\ Q(g) \in Seq(Addr)
    BY <1>3 DEF HeapInv, Lists
  <2>2. ASSUME NEW i \in 1 .. Len(Q(g)) PROVE heap'[Q(g)[i]].kind = "recv"
    BY <1>2, <1>3, <1>4, <1>5 DEF IsRecv
  <2> QED BY <2>1, <2>2
<1>9. Held'
  <2> SUFFICES ASSUME NEW b \in Addr, IsRecv(b)'
               PROVE  \E g \in DOMAIN socks' : \E i \in 1 .. Len(Q(g)') : Q(g)'[i] = b
    BY DEF Held
  <2>1. b \notin Posted(S) /\ IsRecv(b)
    BY <1>2
  <2>2. PICK g \in DOMAIN socks : \E i \in 1 .. Len(Q(g)) : Q(g)[i] = b
    BY <2>1 DEF HeapInv, Held
  <2>3. g \notin S
    BY <2>1, <2>2, PostedIs
  <2> QED BY <1>3, <2>2, <2>3
<1>10. Once'
  BY <1>3 DEF HeapInv, Once
<1> QED BY <1>6, <1>7, <1>8, <1>9, <1>10 DEF HeapInv

\* A field of a socket other than its list changes.
LEMMA OtherField ==
    ASSUME Shape, NEW f \in DOMAIN socks, NEW k \in SockKeys \ {"buf_q"}, NEW v,
           socks' = [socks EXCEPT ![f] = [socks[f] EXCEPT ![k] = v]]
    PROVE  DOMAIN socks' = DOMAIN socks /\ \A g \in DOMAIN socks : socks'[g].buf_q = socks[g].buf_q
BY DEF Shape, SockKeys

\* A counter other than the flag changes.
LEMMA OtherCount ==
    ASSUME FileInv, NEW k \in CountKeys \ {"misuse"}, NEW v, count' = [count EXCEPT ![k] = v]
    PROVE  count'.misuse = count.misuse
BY DEF FileInv, CountKeys

\* Destroying a tag under a posted receive is the misuse that is noted.
LEMMA DestroyTagKeeps ==
    ASSUME HeapInv, FileInv, NEW t \in DOMAIN stags, mem_stag_destroy(t)
    PROVE  HeapInv' /\ (count.misuse => count'.misuse)
<1>1. UNCHANGED <<heap, socks>> /\ DOMAIN stags' = DOMAIN stags \ {t}
  BY DEF mem_stag_destroy, Without, Restrict
<1>2. count'.misuse <=> count.misuse \/ \E a \in Addr : heap[a] = [kind |-> "recv", sd |-> t]
  BY DEF mem_stag_destroy, FileInv, CountKeys
<1>3. TagsLive'
  <2> SUFFICES ASSUME ~count'.misuse, NEW a \in Addr, IsRecv(a)
               PROVE  heap[a].sd \in DOMAIN stags \ {t}
    BY <1>1 DEF TagsLive, IsRecv
  <2>1. ~count.misuse /\ heap[a] # [kind |-> "recv", sd |-> t]
    BY <1>2
  <2>2. heap[a] = [kind |-> "recv", sd |-> heap[a].sd] /\ heap[a].sd \in DOMAIN stags
    BY <2>1 DEF HeapInv, Cells, TagsLive
  <2> QED BY <2>1, <2>2
<1>4. Cells' /\ Lists' /\ Held' /\ Once'
  BY <1>1 DEF HeapInv, Cells, Lists, Held, Once, Q, IsRecv
<1> QED BY <1>2, <1>3, <1>4 DEF HeapInv

\* The commands keep the lists.
LEMMA CommandKeepsLists ==
    ASSUME HeapInv, Shape, FileInv, iwarp_write
    PROVE  HeapInv'
<1>1. CASE UNCHANGED <<heap, socks, stags, count>>
  BY <1>1, ListsKept
<1>2. CASE cq_create \/ mem_register
  BY <1>1, <1>2 DEF cq_create, mem_register
<1>3. ASSUME NEW c \in DOMAIN cqs, cq_destroy(c) \/ rdmap_poll(c)
      PROVE  HeapInv'
  BY <1>1, <1>3 DEF cq_destroy, rdmap_poll
<1>4. ASSUME NEW f \in File, NEW s \in DOMAIN cqs, NEW r \in DOMAIN cqs, rdmap_register_sock(f, s, r)
      PROVE  HeapInv'
  <2>1. /\ f \notin DOMAIN socks /\ DOMAIN socks' = DOMAIN socks \cup {f}
        /\ \A g \in DOMAIN socks : socks'[g] = socks[g]
        /\ socks'[f].buf_q = <<>>
        /\ UNCHANGED <<heap, stags, count>>
    BY <1>4 DEF rdmap_register_sock, Plus
  <2>2. \A g \in DOMAIN socks : Q(g)' = Q(g) /\ g # f
    BY <2>1 DEF Q
  <2>3. Q(f)' \in Seq(Addr) /\ 1 .. Len(Q(f)') = {}
    BY <2>1, EmptySeq DEF Q
  <2>4. Cells' /\ TagsLive'
    BY <2>1 DEF HeapInv, Cells, TagsLive, IsRecv
  <2>5. \A a : IsRecv(a)' <=> IsRecv(a)
    BY <2>1 DEF IsRecv
  <2>6. Lists'
    <3>1. ASSUME NEW g \in DOMAIN socks
          PROVE  Q(g)' \in Seq(Addr) /\ \A i \in 1 .. Len(Q(g)') : heap'[Q(g)'[i]].kind = "recv"
      BY <2>1, <2>2 DEF HeapInv, Lists, IsRecv
    <3> QED BY <2>1, <2>3, <3>1 DEF Lists, IsRecv
  <2>7. Held'
    BY <2>1, <2>2, <2>5 DEF HeapInv, Held
  <2>8. Once'
    BY <2>1, <2>2, <2>3 DEF HeapInv, Once
  <2> QED BY <2>4, <2>6, <2>7, <2>8 DEF HeapInv
<1>5. ASSUME NEW f \in File, rdmap_deregister_sock(f)
      PROVE  HeapInv'
  <2>1. /\ {f} \in SUBSET DOMAIN socks /\ DOMAIN socks' = DOMAIN socks \ {f}
        /\ \A g \in DOMAIN socks' : socks'[g] = socks[g]
        /\ heap' = FreePosted({f}) /\ UNCHANGED <<stags, count>>
    BY <1>5 DEF rdmap_deregister_sock, Known, Without, Restrict
  <2> QED BY <2>1, FreeKeeps
<1>6. ASSUME NEW f \in File, TakesRef(f)
      PROVE  HeapInv'
  <2>1. PICK v : count' = [count EXCEPT !["startup"] = v]
    BY <1>6 DEF TakesRef
  <2>2. count'.misuse = count.misuse
    BY <2>1, OtherCount DEF CountKeys
  <2> QED BY <1>6, <2>2, ListsKept DEF TakesRef, res
<1>7. ASSUME NEW i \in Slot, mem_deregister(i)
      PROVE  HeapInv'
  BY <1>1, <1>7 DEF mem_deregister
<1>8. ASSUME NEW i \in Slot, NEW rw \in Access, mem_stag_create(i, rw)
      PROVE  HeapInv'
  <2>1. UNCHANGED <<heap, socks, count>> /\ DOMAIN stags \subseteq DOMAIN stags'
    BY <1>8 DEF mem_stag_create, Plus
  <2> QED BY <2>1, ListsKept
<1>9. ASSUME NEW t \in DOMAIN stags, mem_stag_destroy(t)
      PROVE  HeapInv'
  BY <1>9, DestroyTagKeeps
<1>10. ASSUME NEW f \in File, NEW t \in DOMAIN stags, rdmap_send(f, t)
       PROVE  HeapInv'
  BY <1>1, <1>10 DEF rdmap_send
<1>11. ASSUME NEW f \in File, NEW t \in DOMAIN stags, rdmap_rdma_read(f, t)
       PROVE  HeapInv'
  <2>1. PICK v : f \in DOMAIN socks /\ socks' = [socks EXCEPT ![f] = [socks[f] EXCEPT !["rwrq"] = v]]
    BY <1>11 DEF rdmap_rdma_read, Known
  <2>2. PICK w : count' = [count EXCEPT !["reads"] = w]
    BY <1>11 DEF rdmap_rdma_read
  <2>3. DOMAIN socks' = DOMAIN socks /\ \A g \in DOMAIN socks : socks'[g].buf_q = socks[g].buf_q
    BY <2>1, OtherField DEF SockKeys
  <2>4. count'.misuse = count.misuse
    BY <2>2, OtherCount DEF CountKeys
  <2> QED BY <1>11, <2>3, <2>4, ListsKept DEF rdmap_rdma_read, res
<1>12. ASSUME NEW f \in File, NEW t \in DOMAIN stags, NEW a \in Addr, rdmap_post_recv(f, t, a)
       PROVE  HeapInv'
  BY <1>12, PostKeeps
<1> QED BY <1>2, <1>3, <1>4, <1>5, <1>6, <1>7, <1>8, <1>9, <1>10, <1>11, <1>12
        DEF iwarp_write, rdmap_init_startup, rdmap_set_sock_attrs

\* What arrives keeps the lists.
LEMMA ArrivalKeepsLists ==
    ASSUME HeapInv, Shape, FileInv, NEW f \in DOMAIN socks, mpa_encourage_one(f)
    PROVE  HeapInv'
<1>1. CASE ddp_get_sink_fails(f)
  <2>1. socks' = [socks EXCEPT ![f] = [socks[f] EXCEPT !["sync"] = FALSE]]
    BY <1>1 DEF ddp_get_sink_fails, Desync
  <2>2. DOMAIN socks' = DOMAIN socks /\ \A g \in DOMAIN socks : socks'[g].buf_q = socks[g].buf_q
    BY <2>1, OtherField DEF SockKeys
  <2> QED BY <1>1, <2>2, ListsKept DEF ddp_get_sink_fails, res
<1>2. ASSUME NEW last \in BOOLEAN, rdmap_recv_send(f, last)
      PROVE  HeapInv'
  <2>1. CASE UNCHANGED <<cqs, heap, socks>>
    BY <1>2, <2>1, ListsKept DEF rdmap_recv_send
  <2>2. CASE ~UNCHANGED <<cqs, heap, socks>>
    <3>1. PICK a : a = Head(Q(f))
      OBVIOUS
    <3>2. /\ Q(f) # <<>> /\ heap' = [heap EXCEPT ![a] = Free]
          /\ socks' = [socks EXCEPT ![f] = [socks[f] EXCEPT !.buf_q = Tail(socks[f].buf_q)]]
          /\ UNCHANGED <<stags, count>>
      BY <1>2, <2>2, <3>1 DEF rdmap_recv_send, Q, Unlink
    <3> QED BY <3>1, <3>2, UnlinkKeeps
  <2> QED BY <2>1, <2>2
<1>3. ASSUME NEW a \in Addr, rdmap_recv_rrr(f, a)
      PROVE  HeapInv'
  <2>1. PICK v : socks' = [socks EXCEPT ![f] = [socks[f] EXCEPT !["rrr"] = v]]
    BY <1>3 DEF rdmap_recv_rrr
  <2>2. PICK w : count' = [count EXCEPT !["rrr"] = w]
    BY <1>3 DEF rdmap_recv_rrr
  <2>3. DOMAIN socks' = DOMAIN socks /\ \A g \in DOMAIN socks : socks'[g].buf_q = socks[g].buf_q
    BY <2>1, OtherField DEF SockKeys
  <2>4. count'.misuse = count.misuse
    BY <2>2, OtherCount DEF CountKeys
  <2> QED BY <1>3, <2>3, <2>4, ListsKept DEF rdmap_recv_rrr, res
<1>4. ASSUME NEW a \in Addr, Leak(a)
      PROVE  /\ heap[a] = Free /\ heap' = [heap EXCEPT ![a] = [kind |-> "tag"]]
             /\ count'.misuse = count.misuse
  <2>1. PICK w : count' = [count EXCEPT !["tagged"] = w]
    BY <1>4 DEF Leak
  <2>2. count'.misuse = count.misuse
    BY <2>1, OtherCount DEF CountKeys
  <2> QED BY <1>4, <2>2 DEF Leak
<1>5. ASSUME NEW a \in Addr, NEW t \in DOMAIN stags, recv_tagged(f, t, a)
      PROVE  HeapInv'
  <2>1. Leak(a) /\ UNCHANGED <<socks, stags>>
    BY <1>5 DEF recv_tagged, res
  <2> QED BY <1>4, <2>1, LeakKeeps
<1>6. ASSUME NEW a \in Addr, NEW t \in DOMAIN stags, rdmap_reap_rwr(f, t, a)
      PROVE  HeapInv'
  <2>1. Leak(a) /\ UNCHANGED stags
    BY <1>6 DEF rdmap_reap_rwr
  <2>2. UNCHANGED socks \/ \E v : socks' = [socks EXCEPT ![f] = [socks[f] EXCEPT !["rwrq"] = v]]
    BY <1>6 DEF rdmap_reap_rwr
  <2>3. DOMAIN socks' = DOMAIN socks /\ \A g \in DOMAIN socks : socks'[g].buf_q = socks[g].buf_q
    BY <2>2, OtherField DEF SockKeys
  <2> QED BY <1>4, <2>1, <2>3, LeakKeeps
<1> QED BY <1>1, <1>2, <1>3, <1>5, <1>6 DEF mpa_encourage_one

\* The lists and the posted receives agree in every behaviour.
LEMMA HeapInvHolds == Spec => []HeapInv
<1>1. Init => HeapInv
  <2> SUFFICES ASSUME Init PROVE HeapInv
    OBVIOUS
  <2>1. DOMAIN socks = {} /\ heap = [a \in Addr |-> Free]
    BY DEF Init
  <2>2. heap = [a \in Addr |-> heap[a]] /\ \A a \in Addr : ~IsRecv(a)
    BY <2>1 DEF IsRecv, Free
  <2> QED BY <2>1, <2>2 DEF HeapInv, Cells, Lists, Held, Once, TagsLive
<1>2. HeapInv /\ RefInv /\ FileInv /\ [Next]_vars => HeapInv'
  <2> SUFFICES ASSUME HeapInv, RefInv, FileInv, [Next]_vars PROVE HeapInv'
    OBVIOUS
  <2>1. Shape
    BY DEF RefInv
  <2>2. CASE iwarp_open
    <3>1. DOMAIN socks = {} /\ UNCHANGED <<socks, heap, count>>
      BY <2>2 DEF iwarp_open, FileInv
    <3>2. \A a \in Addr : ~IsRecv(a) /\ ~IsRecv(a)'
      BY <3>1 DEF HeapInv, Held, IsRecv
    <3>3. TagsLive'
      BY <3>2 DEF TagsLive
    <3>4. Cells' /\ Lists' /\ Held' /\ Once'
      BY <3>1, <3>2 DEF HeapInv, Cells, Lists, Held, Once
    <3> QED BY <3>3, <3>4 DEF HeapInv
  <2>3. CASE iwarp_release
    <3>1. /\ DOMAIN socks' = DOMAIN socks \ DOMAIN socks
          /\ heap' = FreePosted(DOMAIN socks) /\ UNCHANGED count
      BY <2>3 DEF iwarp_release
    <3>2. PICK S \in SUBSET DOMAIN socks : S = DOMAIN socks
      OBVIOUS
    <3> QED BY <3>1, <3>2, FreeKeeps
  <2>4. CASE iwarp_write
    BY <2>1, <2>4, CommandKeepsLists
  <2>5. ASSUME NEW f \in File, close(f)
        PROVE  HeapInv'
    BY <2>5, ListsKept DEF close, res
  <2>6. ASSUME NEW f \in DOMAIN socks, mpa_encourage_one(f)
        PROVE  HeapInv'
    BY <2>1, <2>6, ArrivalKeepsLists
  <2>7. CASE UNCHANGED vars
    BY <2>7, ListsKept DEF vars
  <2> QED BY <2>2, <2>3, <2>4, <2>5, <2>6, <2>7 DEF Next, Device
<1> QED BY <1>1, <1>2, RefInvHolds, FileInvHolds, PTL DEF Spec

\* Whatever is posted, received, deregistered and released in whatever order, the
\* descriptors on the sockets' lists are the posted receives, each once: nothing
\* is freed twice and nothing is left behind when a socket goes.
THEOREM ReceivesOnOneList == Spec => []PostedExact
<1>1. HeapInv => PostedExact
  <2> SUFFICES ASSUME HeapInv PROVE PostedExact
    OBVIOUS
  <2>1. \A f \in DOMAIN socks : DOMAIN Q(f) = 1 .. Len(Q(f)) /\ \A i \in 1 .. Len(Q(f)) : Q(f)[i] \in Addr
    BY LenProperties, ElementOfSeq DEF HeapInv, Lists
  <2>2. \A a : a \in Posted(DOMAIN socks) <=> a \in {b \in Addr : IsRecv(b)}
    <3>1. PICK S \in SUBSET DOMAIN socks : S = DOMAIN socks
      OBVIOUS
    <3>2. \A a : a \in Posted(S) <=> \E f \in S : \E i \in 1 .. Len(Q(f)) : Q(f)[i] = a
      BY PostedIs
    <3> QED BY <2>1, <3>1, <3>2 DEF HeapInv, Lists, Held
  <2>3. Posted(DOMAIN socks) = {a \in Addr : heap[a].kind = "recv"}
    BY <2>2 DEF IsRecv
  <2> QED BY <2>1, <2>3 DEF PostedExact, HeapInv, Once, Q
<1> QED BY <1>1, HeapInvHolds, PTL

--------------------------------------------------------------------------------
(* Freed memory *)

\* Apart from the read requests' descriptors, only misuse reaches freed memory.
WildInv == wild \in {"no", "rrr"} \/ count.misuse

\* A closed device has no queue, socket or tag.
Tidy == ~opened.uc => socks = <<>> /\ cqs = <<>> /\ stags = <<>>

\* The step of WildInv, in a state where the counts and lists are exact.
LEMMA WildKeeps ==
    ASSUME WildInv, HeapInv, RefInv, RegionInv, FileInv, [Next]_vars
    PROVE  WildInv'
<1>1. ASSUME UNCHANGED <<wild, count>> PROVE WildInv'
  BY <1>1 DEF WildInv
<1>2. ASSUME UNCHANGED wild, count'.misuse = count.misuse PROVE WildInv'
  BY <1>2 DEF WildInv
<1>3. ASSUME NEW f \in File, NEW t \in DOMAIN stags, rdmap_send(f, t)
      PROVE  WildInv'
  BY <1>1, <1>3 DEF rdmap_send, Known, RefInv, CqInUse
<1>4. ASSUME NEW f \in DOMAIN socks, NEW last \in BOOLEAN, rdmap_recv_send(f, last)
      PROVE  WildInv'
  <2> DEFINE a == Head(Q(f))
  <2>1. Q(f) # <<>> /\ UNCHANGED count
    BY <1>4 DEF rdmap_recv_send, Q
  <2>2. a \in Addr /\ IsRecv(a)
    <3>1. Q(f) \in Seq(Addr) /\ \A i \in 1 .. Len(Q(f)) : IsRecv(Q(f)[i])
      BY DEF HeapInv, Lists
    <3>2. 1 \in 1 .. Len(Q(f)) /\ a = Q(f)[1]
      BY <2>1, <3>1, LenProperties, EmptySeq
    <3> QED BY <3>1, <3>2, ElementOfSeq
  <2>3. CASE count.misuse
    BY <2>1, <2>3 DEF WildInv
  <2>4. CASE ~count.misuse
    <3>1. heap[a].sd \in DOMAIN stags
      BY <2>2, <2>4 DEF HeapInv, TagsLive
    <3>2. mr[stags[heap[a].sd].mr]
      BY <3>1 DEF RegionInv, RegionsHeld
    <3>3. socks[f].rcq \in DOMAIN cqs
      BY DEF RefInv, CqInUse
    <3>4. wild' = "no"
      BY <1>4, <2>2, <3>1, <3>2, <3>3 DEF rdmap_recv_send, IsRecv, Q
    <3> QED BY <3>4 DEF WildInv
  <2> QED BY <2>3, <2>4
<1>5. ASSUME NEW f \in DOMAIN socks, NEW a \in Addr, rdmap_recv_rrr(f, a)
      PROVE  WildInv'
  BY <1>5 DEF rdmap_recv_rrr, WildInv
<1>6. ASSUME NEW f \in DOMAIN socks, NEW a \in Addr, NEW t \in DOMAIN stags,
             recv_tagged(f, t, a) \/ rdmap_reap_rwr(f, t, a)
      PROVE  WildInv'
  <2>1. mr[stags[t].mr] /\ socks[f].scq \in DOMAIN cqs
    BY DEF RegionInv, RegionsHeld, RefInv, CqInUse
  <2>2. wild = "no"
    BY <1>6 DEF recv_tagged, rdmap_reap_rwr, Arrives, Up
  <2>3. wild' = "no"
    BY <1>6, <2>1, <2>2 DEF recv_tagged, rdmap_reap_rwr
  <2> QED BY <2>3 DEF WildInv
<1>7. ASSUME NEW f \in DOMAIN socks, mpa_encourage_one(f)
      PROVE  WildInv'
  BY <1>1, <1>4, <1>5, <1>6, <1>7 DEF mpa_encourage_one, ddp_get_sink_fails
<1>8. ASSUME NEW t \in DOMAIN stags, mem_stag_destroy(t)
      PROVE  WildInv'
  BY <1>8, DestroyTagKeeps DEF mem_stag_destroy, WildInv
<1>9. ASSUME NEW f \in File, TakesRef(f)
      PROVE  WildInv'
  <2>1. PICK v : count' = [count EXCEPT !["startup"] = v]
    BY <1>9 DEF TakesRef
  <2> QED BY <1>2, <1>9, <2>1, OtherCount DEF TakesRef, CountKeys
<1>10. ASSUME NEW f \in File, NEW t \in DOMAIN stags, rdmap_rdma_read(f, t)
       PROVE  WildInv'
  <2>1. PICK v : count' = [count EXCEPT !["reads"] = v]
    BY <1>10 DEF rdmap_rdma_read
  <2> QED BY <1>2, <1>10, <2>1, OtherCount DEF rdmap_rdma_read, CountKeys
<1>11. CASE iwarp_write
  <2>1. CASE cq_create \/ mem_register
    BY <1>1, <2>1 DEF cq_create, mem_register
  <2>2. ASSUME NEW c \in DOMAIN cqs, cq_destroy(c) \/ rdmap_poll(c)
        PROVE  WildInv'
    BY <1>1, <2>2 DEF cq_destroy, rdmap_poll
  <2>3. ASSUME NEW f \in File, NEW s \in DOMAIN cqs, NEW r \in DOMAIN cqs, rdmap_register_sock(f, s, r)
        PROVE  WildInv'
    BY <1>1, <2>3 DEF rdmap_register_sock
  <2>4. ASSUME NEW f \in File, rdmap_deregister_sock(f)
        PROVE  WildInv'
    BY <1>1, <2>4 DEF rdmap_deregister_sock
  <2>5. ASSUME NEW i \in Slot, mem_deregister(i) \/ \E rw \in Access : mem_stag_create(i, rw)
        PROVE  WildInv'
    BY <1>1, <2>5 DEF mem_deregister, mem_stag_create
  <2>6. ASSUME NEW f \in File, NEW t \in DOMAIN stags, NEW a \in Addr, rdmap_post_recv(f, t, a)
        PROVE  WildInv'
    BY <1>1, <2>6 DEF rdmap_post_recv
  <2> QED BY <1>3, <1>8, <1>9, <1>10, <1>11, <2>1, <2>2, <2>3, <2>4, <2>5, <2>6
          DEF iwarp_write, rdmap_init_startup, rdmap_set_sock_attrs
<1>12. CASE Device \/ UNCHANGED vars
  BY <1>1, <1>12 DEF Device, iwarp_open, iwarp_release, vars
<1>13. ASSUME NEW f \in File, close(f)
       PROVE  WildInv'
  BY <1>1, <1>13 DEF close
<1> QED BY <1>7, <1>11, <1>12, <1>13 DEF Next

\* No handler of the kernel port reaches freed memory, in whatever order sockets
\* are closed and queues, tags and regions destroyed, unless the process destroyed
\* a tag under a posted receive, or a read request's descriptor was used after
\* rdmap_recv_rrr had freed it, the one way that kernel_rrr shows.
THEOREM OnlyMisuseGoesWild == Spec => [](RrrSinkFreed => WildOnlyIfMisused)
<1>1. Init => WildInv
  BY DEF Init, WildInv
<1>2. WildInv => (RrrSinkFreed => WildOnlyIfMisused)
  BY DEF WildInv, RrrSinkFreed, WildOnlyIfMisused
<1> QED BY <1>1, <1>2, WildKeeps, HeapInvHolds, RefInvHolds, RegionInvHolds, FileInvHolds, PTL DEF Spec

\* The step of Tidy: a device is closed by iwarp_release and by nothing else.
LEMMA TidyKeeps ==
    ASSUME Tidy, RefInv, [Next]_vars
    PROVE  Tidy'
<1>1. CASE iwarp_release
  <2>1. socks' = <<>> /\ stags' = <<>> /\ DOMAIN cqs' = DOMAIN cqs \ DestroyCqs
    BY <1>1 DEF iwarp_release, Restrict
  <2>2. DOMAIN cqs \ DestroyCqs = {}
    BY EmptiedQueues
  <2>3. cqs' = Restrict(CqPut(DOMAIN socks), {})
    BY <1>1, <2>2 DEF iwarp_release
  <2>4. cqs' = <<>>
    BY <2>3 DEF Restrict
  <2> QED BY <2>1, <2>4 DEF Tidy
<1>2. CASE iwarp_open
  BY <1>2 DEF iwarp_open, Tidy
<1>3. ASSUME opened.uc, UNCHANGED opened PROVE Tidy'
  BY <1>3 DEF Tidy
<1>4. CASE iwarp_write
  <2>1. opened.uc /\ UNCHANGED opened
    BY <1>4 DEF iwarp_write, Up, Known, cq_create, cq_destroy, rdmap_poll, rdmap_register_sock,
         rdmap_deregister_sock, rdmap_init_startup, rdmap_set_sock_attrs, TakesRef, mem_register,
         mem_deregister, mem_stag_create, mem_stag_destroy, rdmap_send, rdmap_rdma_read, rdmap_post_recv
  <2> QED BY <1>3, <2>1
<1>5. ASSUME NEW f \in DOMAIN socks, mpa_encourage_one(f) PROVE Tidy'
  <2>1. opened.uc /\ UNCHANGED opened
    BY <1>5 DEF mpa_encourage_one, Arrives, Up, ddp_get_sink_fails, rdmap_recv_send, rdmap_recv_rrr,
         recv_tagged, rdmap_reap_rwr
  <2> QED BY <1>3, <2>1
<1>6. ASSUME NEW f \in File, close(f) PROVE Tidy'
  BY <1>6 DEF close, res, Tidy
<1>7. CASE UNCHANGED vars
  BY <1>7 DEF vars, Tidy
<1> QED BY <1>1, <1>2, <1>4, <1>5, <1>6, <1>7 DEF Next, Device

\* iwarp_release leaves no queue, socket, tag or posted receive of the process:
\* with the sockets gone every queue's count is zero, so none is refused.
THEOREM ReleaseLeavesNothing == Spec => []NothingLeft
<1>1. Init => Tidy
  BY DEF Init, Tidy
<1>2. Tidy /\ HeapInv => NothingLeft
  <2> SUFFICES ASSUME Tidy, HeapInv, ~opened.uc PROVE NothingLeft
    BY DEF NothingLeft
  <2>1. socks = <<>> /\ cqs = <<>> /\ stags = <<>> /\ DOMAIN socks = {}
    BY DEF Tidy
  <2>2. \A a \in Addr : ~IsRecv(a)
    BY <2>1 DEF HeapInv, Held
  <2> QED BY <2>1, <2>2 DEF NothingLeft, IsRecv
<1> QED BY <1>1, <1>2, TidyKeeps, HeapInvHolds, RefInvHolds, PTL DEF Spec
--------------------------------------------------------------------------------
(* Types *)

\* The device; tags; queues; sockets, as far as nothing above says it.
DeviceTyped ==
    /\ opened \in [uc : BOOLEAN, n : 0 .. MaxOpens]
    /\ wild \in {"no", "send", "recv", "rrr", "tagged"}

TagsTyped ==
    /\ next_stag \in 1 .. MaxStag + 1
    /\ \A t \in DOMAIN stags : t \in 1 .. MaxStag /\ stags[t].rw \in Access

QueuesTyped ==
    /\ next_handle \in 1 .. MaxCq + 1
    /\ \A c \in DOMAIN cqs : c \in 1 .. MaxCq /\ cqs[c].occ \in 0 .. CqDepth - 1

Rwr == [stag : Nat, done : BOOLEAN]

SockTyped(s) == s.rrr \in Addr \cup {NoAddr} /\ s.sync \in BOOLEAN /\ s.rwrq \in Seq(Rwr)

SocksTyped == \A f \in DOMAIN socks : SockTyped(socks[f])

\* rdmap_reap_rwr stops at the first request that is not done.
LEMMA DonePrefix ==
    ASSUME NEW q \in Seq(Rwr)
    PROVE  DoneCount(q) \in 0 .. Len(q)
<1>1. PICK n \in Nat : n = Len(q)
  OBVIOUS
<1> DEFINE Stops == {k \in 0 .. n : k < n => ~q[k + 1].done}
<1>2. Stops \subseteq Nat /\ n \in Stops
  OBVIOUS
<1> HIDE DEF Stops
<1>3. PICK k \in Stops : \A j \in Stops : ~(<<j, k>> \in OpToRel(<, Nat))
  BY <1>2, NatLessThanWellFounded, WFMin
<1>4. \A j \in Stops : ~(j < k)
  BY <1>2, <1>3 DEF OpToRel
<1>5. k \in 0 .. n /\ (k < n => ~q[k + 1].done)
  BY <1>3 DEF Stops
<1>6. \A i \in 1 .. k : q[i].done
  <2> SUFFICES ASSUME NEW i \in 1 .. k, ~q[i].done PROVE FALSE
    OBVIOUS
  <2>1. PICK j \in 0 .. n : j = i - 1 /\ j + 1 = i /\ j < k
    BY <1>5
  <2>2. j \in Stops
    BY <2>1 DEF Stops
  <2> QED BY <1>4, <2>1, <2>2
<1>7. k \in 0 .. Len(q) /\ (\A i \in 1 .. k : q[i].done) /\ (k < Len(q) => ~q[k + 1].done)
  BY <1>1, <1>5, <1>6
<1> QED BY <1>7 DEF DoneCount

\* Marking keeps the list of requests a list of requests.
LEMMA MarkedTyped ==
    ASSUME NEW q \in Seq(Rwr), NEW t
    PROVE  Marked(q, t) \in Seq(Rwr)
<1>1. PICK n \in Nat : Len(q) = n /\ DOMAIN q = 1 .. n /\ \A i \in 1 .. n : q[i] \in Rwr
  BY ElementOfSeq
<1>2. \A i \in 1 .. n : [q[i] EXCEPT !.done = q[i].done \/ q[i].stag = t] \in Rwr
  BY <1>1 DEF Rwr
<1>3. Marked(q, t) \in [1 .. n -> Rwr]
  BY <1>1, <1>2 DEF Marked
<1> QED BY <1>3, SeqDef

\* What rdmap_reap_rwr leaves is a rest of the list.
LEMMA RestTyped ==
    ASSUME NEW q \in Seq(Rwr), NEW k \in Nat
    PROVE  SubSeq(q, k + 1, Len(q)) \in Seq(Rwr)
<1>1. PICK n \in Nat : Len(q) = n /\ \A i \in 1 .. n : q[i] \in Rwr
  BY ElementOfSeq
<1>2. \A i \in k + 1 .. n : q[i] \in Rwr
  BY <1>1
<1> QED BY <1>1, <1>2, SubSeqProperties

\* cq_produce never fills the last slot.
LEMMA ProducedFits ==
    ASSUME QueuesTyped, NEW c \in DOMAIN cqs, NEW n \in Nat
    PROVE  /\ Produced(c, n) \in 0 .. CqDepth - 1
           /\ Produced(c, n) - cqs[c].occ \in Nat
           /\ cqs[c].occ + (Produced(c, n) - cqs[c].occ) = Produced(c, n)
<1>1. PICK o \in 0 .. CqDepth - 1 : o = cqs[c].occ
  BY DEF QueuesTyped
<1>2. CqDepth \in Nat \ {0}
  BY KernelAssumption
<1> QED BY <1>1, <1>2 DEF Produced

\* Entries of one queue come or go.
LEMMA QueueEntry ==
    ASSUME QueuesTyped, Shape, NEW c \in DOMAIN cqs, NEW n \in 0 .. CqDepth - 1,
           cqs' = [cqs EXCEPT ![c].occ = n], UNCHANGED next_handle
    PROVE  QueuesTyped'
<1>1. DOMAIN cqs' = DOMAIN cqs /\ \A d \in DOMAIN cqs : d # c => cqs'[d] = cqs[d]
  OBVIOUS
<1>2. cqs'[c].occ = n
  BY DEF Shape
<1> QED BY <1>1, <1>2 DEF QueuesTyped

\* A field of one socket changes.
LEMMA SockField ==
    ASSUME SocksTyped, Shape, NEW f \in DOMAIN socks, NEW s,
           s.rrr \in Addr \cup {NoAddr}, s.sync \in BOOLEAN, s.rwrq \in Seq(Rwr),
           socks' = [socks EXCEPT ![f] = s]
    PROVE  SocksTyped'
BY DEF SocksTyped, SockTyped

\* The step of DeviceTyped.
LEMMA DeviceTypedKeeps ==
    ASSUME DeviceTyped, [Next]_vars
    PROVE  DeviceTyped'
<1>1. ASSUME UNCHANGED opened, wild' \in {"no", "send", "recv", "rrr", "tagged"} PROVE DeviceTyped'
  BY <1>1 DEF DeviceTyped
<1>2. ASSUME UNCHANGED <<opened, wild>> PROVE DeviceTyped'
  BY <1>2 DEF DeviceTyped
<1>3. CASE Device
  <2>1. PICK uc \in BOOLEAN, n \in 0 .. MaxOpens : opened' = [uc |-> uc, n |-> n]
    <3>1. opened = [uc |-> opened.uc, n |-> opened.n] /\ opened.n \in 0 .. MaxOpens
      BY DEF DeviceTyped
    <3>2. CASE iwarp_open
      <4>1. opened.n + 1 \in 0 .. MaxOpens
        BY <3>1, <3>2, KernelAssumption DEF iwarp_open
      <4> QED BY <3>2, <4>1 DEF iwarp_open
    <3>3. CASE iwarp_release
      BY <3>1, <3>3 DEF iwarp_release
    <3> QED BY <1>3, <3>2, <3>3 DEF Device
  <2>2. UNCHANGED wild
    BY <1>3 DEF Device, iwarp_open, iwarp_release
  <2> QED BY <2>1, <2>2 DEF DeviceTyped
<1>4. CASE iwarp_write
  <2>1. ASSUME NEW f \in File, NEW t \in DOMAIN stags, rdmap_send(f, t) PROVE DeviceTyped'
    BY <1>1, <1>2, <2>1 DEF rdmap_send
  <2>2. UNCHANGED <<opened, wild>> \/ \E f \in File, t \in DOMAIN stags : rdmap_send(f, t)
    BY <1>4 DEF iwarp_write, cq_create, cq_destroy, rdmap_poll, rdmap_register_sock,
         rdmap_deregister_sock, rdmap_init_startup, rdmap_set_sock_attrs, TakesRef, mem_register,
         mem_deregister, mem_stag_create, mem_stag_destroy, rdmap_rdma_read, rdmap_post_recv
  <2> QED BY <1>2, <2>1, <2>2
<1>5. ASSUME NEW f \in DOMAIN socks, mpa_encourage_one(f) PROVE DeviceTyped'
  <2>1. UNCHANGED opened
    BY <1>5, Zenon DEF mpa_encourage_one, ddp_get_sink_fails, rdmap_recv_send, rdmap_recv_rrr,
                recv_tagged, rdmap_reap_rwr
  <2>2. UNCHANGED wild \/ wild' \in {"no", "recv", "rrr", "tagged"}
    BY <1>5, Zenon DEF mpa_encourage_one, ddp_get_sink_fails, rdmap_recv_send, rdmap_recv_rrr,
                recv_tagged, rdmap_reap_rwr
  <2> QED BY <1>1, <1>2, <2>1, <2>2
<1>6. ASSUME NEW f \in File, close(f) PROVE DeviceTyped'
  BY <1>2, <1>6 DEF close
<1>7. CASE UNCHANGED vars
  BY <1>2, <1>7 DEF vars
<1> QED BY <1>3, <1>4, <1>5, <1>6, <1>7 DEF Next

\* The step of TagsTyped.
LEMMA TagsTypedKeeps ==
    ASSUME TagsTyped, [Next]_vars
    PROVE  TagsTyped'
<1>1. ASSUME UNCHANGED <<next_stag, stags>> PROVE TagsTyped'
  BY <1>1 DEF TagsTyped
<1>2. CASE Device
  <2>1. DOMAIN stags' = {} /\ (next_stag' = 1 \/ UNCHANGED next_stag)
    BY <1>2 DEF Device, iwarp_open, iwarp_release
  <2> QED BY <2>1, KernelAssumption DEF TagsTyped
<1>3. ASSUME NEW i \in Slot, NEW rw \in Access, mem_stag_create(i, rw) PROVE TagsTyped'
  <2>1. /\ DOMAIN stags' = DOMAIN stags \cup {next_stag} /\ stags'[next_stag].rw = rw
        /\ \A t \in DOMAIN stags : t # next_stag => stags'[t] = stags[t]
        /\ next_stag' = next_stag + 1 /\ next_stag <= MaxStag
    BY <1>3 DEF mem_stag_create, Plus
  <2> QED BY <2>1, KernelAssumption DEF TagsTyped
<1>4. ASSUME NEW t \in DOMAIN stags, mem_stag_destroy(t) PROVE TagsTyped'
  BY <1>4 DEF mem_stag_destroy, Without, Restrict, TagsTyped
<1>5. CASE iwarp_write
  <2>1. \/ UNCHANGED <<next_stag, stags>>
        \/ \E i \in Slot : \E rw \in Access : mem_stag_create(i, rw)
        \/ \E t \in DOMAIN stags : mem_stag_destroy(t)
    BY <1>5, Zenon DEF iwarp_write, cq_create, cq_destroy, rdmap_poll, rdmap_register_sock, res,
         rdmap_deregister_sock, rdmap_init_startup, rdmap_set_sock_attrs, TakesRef, mem_register,
         mem_deregister, rdmap_send, rdmap_rdma_read, rdmap_post_recv
  <2> QED BY <1>1, <1>3, <1>4, <2>1
<1>6. ASSUME NEW f \in DOMAIN socks, mpa_encourage_one(f) PROVE TagsTyped'
  <2>1. UNCHANGED <<next_stag, stags>>
    BY <1>6, Zenon DEF mpa_encourage_one, ddp_get_sink_fails, rdmap_recv_send, rdmap_recv_rrr, res,
                recv_tagged, rdmap_reap_rwr
  <2> QED BY <1>1, <2>1
<1>7. ASSUME NEW f \in File, close(f) PROVE TagsTyped'
  BY <1>1, <1>7 DEF close, res
<1>8. CASE UNCHANGED vars
  BY <1>1, <1>8 DEF vars
<1> QED BY <1>2, <1>5, <1>6, <1>7, <1>8 DEF Next

\* The requests a response completes: as many entries appear as requests go.
LEMMA ReapTyped ==
    ASSUME QueuesTyped, SocksTyped, RefInv, NEW f \in DOMAIN socks, NEW t \in DOMAIN stags,
           NEW a \in Addr, rdmap_reap_rwr(f, t, a)
    PROVE  QueuesTyped' /\ SocksTyped'
<1>1. CASE UNCHANGED <<cqs, socks>>
  BY <1>1 DEF rdmap_reap_rwr, QueuesTyped, SocksTyped
<1>2. CASE ~UNCHANGED <<cqs, socks>>
  <2>1. PICK c \in DOMAIN cqs : c = socks[f].scq
    BY DEF RefInv, CqInUse
  <2>2. socks[f].rwrq \in Seq(Rwr) /\ socks[f].rrr \in Addr \cup {NoAddr} /\ socks[f].sync \in BOOLEAN
    BY DEF SocksTyped, SockTyped
  <2>3. PICK q \in Seq(Rwr) : q = Marked(socks[f].rwrq, t)
    BY <2>2, MarkedTyped
  <2>4. PICK done \in Nat : done = DoneCount(q)
    BY DonePrefix
  <2>5. PICK n \in 0 .. CqDepth - 1, fits \in Nat :
          n = Produced(c, done) /\ fits = n - cqs[c].occ /\ cqs[c].occ + fits = n
    <3>1. PICK m \in 0 .. CqDepth - 1 : m = Produced(c, done)
      BY ProducedFits
    <3>2. PICK k \in Nat : k = m - cqs[c].occ /\ cqs[c].occ + k = m
      BY <3>1, ProducedFits
    <3> QED BY <3>1, <3>2
  <2>6. /\ cqs' = [cqs EXCEPT ![c].occ = n]
        /\ socks' = [socks EXCEPT ![f].rwrq = SubSeq(q, fits + 1, Len(q))]
        /\ UNCHANGED next_handle
    BY <1>2, <2>1, <2>3, <2>4, <2>5 DEF rdmap_reap_rwr
  <2>7. QueuesTyped'
    BY <2>6, QueueEntry DEF RefInv
  <2>8. PICK v \in Seq(Rwr) : v = SubSeq(q, fits + 1, Len(q))
    BY RestTyped
  <2>9. PICK s : s = [socks[f] EXCEPT !.rwrq = v]
    OBVIOUS
  <2>10. s.rrr = socks[f].rrr /\ s.sync = socks[f].sync /\ s.rwrq = v
    BY <2>9 DEF RefInv, Shape, SockKeys
  <2>11. socks' = [socks EXCEPT ![f] = s]
    BY <2>6, <2>8, <2>9
  <2>12. SocksTyped'
    BY <2>2, <2>10, <2>11, SockField DEF RefInv
  <2> QED BY <2>7, <2>12
<1> QED BY <1>1, <1>2

\* The step of QueuesTyped.
LEMMA QueuesTypedKeeps ==
    ASSUME QueuesTyped, SocksTyped, RefInv, [Next]_vars
    PROVE  QueuesTyped'
<1>0. Shape
  BY DEF RefInv
<1>1. ASSUME UNCHANGED <<cqs, next_handle>> PROVE QueuesTyped'
  BY <1>1 DEF QueuesTyped
<1>2. CASE iwarp_open
  <2>1. DOMAIN cqs' = {} /\ next_handle' = 1
    BY <1>2 DEF iwarp_open
  <2> QED BY <2>1, KernelAssumption DEF QueuesTyped
<1>3. CASE iwarp_release
  <2>1. DOMAIN cqs' = {} /\ UNCHANGED next_handle
    BY <1>3, EmptiedQueues DEF iwarp_release, Restrict
  <2> QED BY <2>1 DEF QueuesTyped
<1>4. CASE cq_create
  <2>1. /\ DOMAIN cqs' = DOMAIN cqs \cup {next_handle} /\ cqs'[next_handle].occ = 0
        /\ \A c \in DOMAIN cqs : c # next_handle => cqs'[c] = cqs[c]
        /\ next_handle' = next_handle + 1 /\ next_handle <= MaxCq
    BY <1>4 DEF cq_create, Plus
  <2> QED BY <2>1, KernelAssumption DEF QueuesTyped
<1>5. ASSUME NEW c \in DOMAIN cqs, cq_destroy(c) PROVE QueuesTyped'
  BY <1>5 DEF cq_destroy, Without, Restrict, QueuesTyped
<1>6. ASSUME NEW c \in DOMAIN cqs, rdmap_poll(c) PROVE QueuesTyped'
  <2>1. PICK o \in 0 .. CqDepth - 1 : o = cqs[c].occ
    BY DEF QueuesTyped
  <2>2. o > 0 /\ cqs' = [cqs EXCEPT ![c].occ = o - 1] /\ UNCHANGED next_handle
    BY <1>6, <2>1 DEF rdmap_poll
  <2>3. o - 1 \in 0 .. CqDepth - 1
    BY <2>1, <2>2, KernelAssumption
  <2> QED BY <1>0, <2>2, <2>3, QueueEntry
<1>7. ASSUME NEW f \in File, NEW s \in DOMAIN cqs, NEW r \in DOMAIN cqs, rdmap_register_sock(f, s, r)
      PROVE  QueuesTyped'
  <2>1. /\ DOMAIN cqs' = DOMAIN cqs /\ UNCHANGED next_handle
        /\ \A c \in DOMAIN cqs : \E n : cqs'[c] = [cqs[c] EXCEPT !.refcnt = n]
    BY <1>7 DEF rdmap_register_sock, CqGet
  <2>2. \A c \in DOMAIN cqs : cqs'[c].occ = cqs[c].occ
    BY <1>0, <2>1 DEF Shape
  <2> QED BY <2>1, <2>2 DEF QueuesTyped
<1>8. ASSUME NEW f \in File, rdmap_deregister_sock(f) PROVE QueuesTyped'
  <2>1. /\ DOMAIN cqs' = DOMAIN cqs /\ UNCHANGED next_handle
        /\ \A c \in DOMAIN cqs : \E n : cqs'[c] = [cqs[c] EXCEPT !.refcnt = n]
    BY <1>8 DEF rdmap_deregister_sock, CqPut
  <2>2. \A c \in DOMAIN cqs : cqs'[c].occ = cqs[c].occ
    BY <1>0, <2>1 DEF Shape
  <2> QED BY <2>1, <2>2 DEF QueuesTyped
<1>9. ASSUME NEW c \in DOMAIN cqs, cqs' = [cqs EXCEPT ![c].occ = Produced(c, 1)], UNCHANGED next_handle
      PROVE  QueuesTyped'
  <2>1. Produced(c, 1) \in 0 .. CqDepth - 1
    BY ProducedFits
  <2> QED BY <1>0, <1>9, <2>1, QueueEntry
<1>10. ASSUME NEW f \in File, NEW t \in DOMAIN stags, rdmap_send(f, t) PROVE QueuesTyped'
  <2>1. PICK c \in DOMAIN cqs : c = socks[f].scq
    BY <1>10 DEF rdmap_send, Known, RefInv, CqInUse
  <2>2. cqs' = [cqs EXCEPT ![c].occ = Produced(c, 1)] /\ UNCHANGED next_handle
    BY <1>10, <2>1 DEF rdmap_send
  <2> QED BY <1>9, <2>2
<1>11. CASE iwarp_write
  <2>1. \/ UNCHANGED <<cqs, next_handle>>
        \/ cq_create
        \/ \E c \in DOMAIN cqs : cq_destroy(c) \/ rdmap_poll(c)
        \/ \E f \in File, s \in DOMAIN cqs, r \in DOMAIN cqs : rdmap_register_sock(f, s, r)
        \/ \E f \in File : rdmap_deregister_sock(f)
        \/ \E f \in File, t \in DOMAIN stags : rdmap_send(f, t)
    BY <1>11 DEF iwarp_write, res, rdmap_init_startup, rdmap_set_sock_attrs, TakesRef, mem_register,
         mem_deregister, mem_stag_create, mem_stag_destroy, rdmap_rdma_read, rdmap_post_recv
  <2> QED BY <1>1, <1>4, <1>5, <1>6, <1>7, <1>8, <1>10, <2>1
<1>12. ASSUME NEW f \in DOMAIN socks, NEW last \in BOOLEAN, rdmap_recv_send(f, last) PROVE QueuesTyped'
  <2>1. PICK c \in DOMAIN cqs : c = socks[f].rcq
    BY DEF RefInv, CqInUse
  <2>2. (UNCHANGED cqs \/ cqs' = [cqs EXCEPT ![c].occ = Produced(c, 1)]) /\ UNCHANGED next_handle
    BY <1>12, <2>1 DEF rdmap_recv_send
  <2> QED BY <1>1, <1>9, <2>2
<1>13. ASSUME NEW f \in DOMAIN socks, mpa_encourage_one(f) PROVE QueuesTyped'
  <2>1. \/ UNCHANGED <<cqs, next_handle>>
        \/ \E last \in BOOLEAN : rdmap_recv_send(f, last)
        \/ \E a \in Addr, t \in DOMAIN stags : rdmap_reap_rwr(f, t, a)
    BY <1>13 DEF mpa_encourage_one, ddp_get_sink_fails, rdmap_recv_rrr, recv_tagged, res
  <2> QED BY <1>1, <1>12, <2>1, ReapTyped
<1>14. ASSUME NEW f \in File, close(f) PROVE QueuesTyped'
  BY <1>1, <1>14 DEF close, res
<1>15. CASE UNCHANGED vars
  BY <1>1, <1>15 DEF vars
<1> QED BY <1>2, <1>3, <1>11, <1>13, <1>14, <1>15 DEF Next, Device

\* The step of SocksTyped.
LEMMA SocksTypedKeeps ==
    ASSUME QueuesTyped, SocksTyped, TagsTyped, RefInv, [Next]_vars
    PROVE  SocksTyped'
<1>0. Shape
  BY DEF RefInv
<1>1. ASSUME UNCHANGED socks PROVE SocksTyped'
  BY <1>1 DEF SocksTyped
<1>2. ASSUME NEW f \in DOMAIN socks, NEW k \in SockKeys, NEW v,
             socks' = [socks EXCEPT ![f] = [socks[f] EXCEPT ![k] = v]],
             k = "rrr" => v \in Addr \cup {NoAddr}, k = "sync" => v \in BOOLEAN,
             k = "rwrq" => v \in Seq(Rwr)
      PROVE  SocksTyped'
  <2>1. PICK s : s = [socks[f] EXCEPT ![k] = v]
    OBVIOUS
  <2>2. /\ s.rrr = IF k = "rrr" THEN v ELSE socks[f].rrr
        /\ s.sync = IF k = "sync" THEN v ELSE socks[f].sync
        /\ s.rwrq = IF k = "rwrq" THEN v ELSE socks[f].rwrq
    BY <1>0, <2>1 DEF Shape, SockKeys
  <2>3. s.rrr \in Addr \cup {NoAddr} /\ s.sync \in BOOLEAN /\ s.rwrq \in Seq(Rwr)
    BY <1>2, <2>2 DEF SocksTyped, SockTyped
  <2> QED BY <1>0, <1>2, <2>1, <2>3, SockField
<1>3. CASE iwarp_release
  BY <1>3 DEF iwarp_release, SocksTyped
<1>4. ASSUME NEW f \in File, NEW s \in DOMAIN cqs, NEW r \in DOMAIN cqs, rdmap_register_sock(f, s, r)
      PROVE  SocksTyped'
  <2>1. /\ DOMAIN socks' = DOMAIN socks \cup {f} /\ f \notin DOMAIN socks
        /\ \A g \in DOMAIN socks : socks'[g] = socks[g]
        /\ socks'[f].rrr = NoAddr /\ socks'[f].sync = TRUE /\ socks'[f].rwrq = <<>>
    BY <1>4 DEF rdmap_register_sock, Plus
  <2>2. SockTyped(socks'[f])
    BY <2>1, EmptySeq DEF SockTyped
  <2> QED BY <2>1, <2>2 DEF SocksTyped
<1>5. ASSUME NEW f \in File, rdmap_deregister_sock(f) PROVE SocksTyped'
  BY <1>5 DEF rdmap_deregister_sock, Without, Restrict, SocksTyped
<1>6. ASSUME NEW f \in File, NEW t \in DOMAIN stags, rdmap_rdma_read(f, t) PROVE SocksTyped'
  <2>1. f \in DOMAIN socks /\ t \in Nat
    BY <1>6 DEF rdmap_rdma_read, Known, TagsTyped
  <2>2. socks[f].rwrq \in Seq(Rwr) /\ [stag |-> t, done |-> FALSE] \in Rwr
    BY <2>1 DEF SocksTyped, SockTyped, Rwr
  <2>3. PICK v \in Seq(Rwr) : v = Append(socks[f].rwrq, [stag |-> t, done |-> FALSE])
    BY <2>2, AppendProperties
  <2>4. socks' = [socks EXCEPT ![f] = [socks[f] EXCEPT !["rwrq"] = v]]
    BY <1>6, <2>3 DEF rdmap_rdma_read
  <2> QED BY <1>2, <2>1, <2>4 DEF SockKeys
<1>7. ASSUME NEW f \in File, NEW t \in DOMAIN stags, NEW a \in Addr, rdmap_post_recv(f, t, a)
      PROVE  SocksTyped'
  <2>1. f \in DOMAIN socks
    BY <1>7 DEF rdmap_post_recv, Known
  <2>2. PICK v : socks' = [socks EXCEPT ![f] = [socks[f] EXCEPT !["buf_q"] = v]]
    BY <1>7 DEF rdmap_post_recv
  <2> QED BY <1>2, <2>1, <2>2 DEF SockKeys
<1>8. CASE iwarp_write
  <2>1. \/ UNCHANGED socks
        \/ \E f \in File, s \in DOMAIN cqs, r \in DOMAIN cqs : rdmap_register_sock(f, s, r)
        \/ \E f \in File : rdmap_deregister_sock(f)
        \/ \E f \in File, t \in DOMAIN stags : rdmap_rdma_read(f, t)
        \/ \E f \in File, t \in DOMAIN stags, a \in Addr : rdmap_post_recv(f, t, a)
    BY <1>8 DEF iwarp_write, cq_create, cq_destroy, rdmap_poll, rdmap_init_startup, TakesRef,
         rdmap_set_sock_attrs, mem_register, mem_deregister, mem_stag_create, mem_stag_destroy, rdmap_send
  <2> QED BY <1>1, <1>4, <1>5, <1>6, <1>7, <2>1
<1>9. ASSUME NEW f \in DOMAIN socks, mpa_encourage_one(f) PROVE SocksTyped'
  <2>1. CASE ddp_get_sink_fails(f)
    <3>1. socks' = [socks EXCEPT ![f] = [socks[f] EXCEPT !["sync"] = FALSE]]
      BY <2>1 DEF ddp_get_sink_fails, Desync
    <3> QED BY <1>2, <3>1 DEF SockKeys
  <2>2. ASSUME NEW last \in BOOLEAN, rdmap_recv_send(f, last) PROVE SocksTyped'
    <3>1. UNCHANGED socks \/ \E v : socks' = [socks EXCEPT ![f] = [socks[f] EXCEPT !["buf_q"] = v]]
      BY <2>2 DEF rdmap_recv_send
    <3> QED BY <1>1, <1>2, <3>1 DEF SockKeys
  <2>3. ASSUME NEW a \in Addr, rdmap_recv_rrr(f, a) PROVE SocksTyped'
    <3>1. PICK v \in Addr \cup {NoAddr} : v = IF socks[f].rrr = NoAddr THEN a ELSE socks[f].rrr
      BY DEF SocksTyped, SockTyped
    <3>2. socks' = [socks EXCEPT ![f] = [socks[f] EXCEPT !["rrr"] = v]]
      BY <2>3, <3>1 DEF rdmap_recv_rrr
    <3> QED BY <1>2, <3>2 DEF SockKeys
  <2>4. ASSUME NEW a \in Addr, NEW t \in DOMAIN stags, recv_tagged(f, t, a) PROVE SocksTyped'
    BY <1>1, <2>4 DEF recv_tagged
  <2>5. ASSUME NEW a \in Addr, NEW t \in DOMAIN stags, rdmap_reap_rwr(f, t, a) PROVE SocksTyped'
    BY <2>5, ReapTyped
  <2> QED BY <1>9, <2>1, <2>2, <2>3, <2>4, <2>5 DEF mpa_encourage_one
<1>10. ASSUME NEW f \in File, close(f) PROVE SocksTyped'
  BY <1>1, <1>10 DEF close
<1>11. CASE iwarp_open \/ UNCHANGED vars
  BY <1>1, <1>11 DEF iwarp_open, vars
<1> QED BY <1>3, <1>8, <1>9, <1>10, <1>11 DEF Next, Device

\* The references of a queue, and of a file, are never below zero: both count
\* something.
LEMMA CountsNatural ==
    ASSUME RefInv, FileInv
    PROVE  (\A c \in DOMAIN cqs : cqs[c].refcnt \in Nat) /\ refs \in [File -> Nat]
<1>1. ASSUME NEW c \in DOMAIN cqs PROVE cqs[c].refcnt \in Nat
  <2>1. PICK S \in SUBSET DOMAIN socks : S = DOMAIN socks
    OBVIOUS
  <2>2. /\ Cardinality({f \in DOMAIN socks : socks[f].scq = c}) \in Nat
        /\ Cardinality({f \in DOMAIN socks : socks[f].rcq = c}) \in Nat
    BY <2>1, UsersFinite, FS_CardinalityType DEF RefInv
  <2>3. cqs[c].refcnt = Uses(DOMAIN socks, c)
    BY DEF RefInv, Counted
  <2> QED BY <2>2, <2>3 DEF Uses
<1>2. ASSUME NEW f \in File PROVE refs[f] \in Nat
  <2>1. FileRefsExact /\ count.startup[f] \in Nat
    BY DEF FileInv
  <2>2. refs[f] = (IF f \in fds THEN 1 ELSE 0) + (IF f \in DOMAIN socks THEN 1 ELSE 0) + count.startup[f]
    BY <2>1, Refs
  <2> QED BY <2>1, <2>2
<1>3. refs \in [File -> Nat]
  BY <1>2 DEF FileInv
<1> QED BY <1>1, <1>3

\* The types of the kernel port for any number of files, queues, tags and calls: no
\* reference count goes below zero, no queue holds more entries than it has room
\* for, however many reads a response completes, and the list of posted
\* receives holds descriptors only (cq_get, cq_put, cq_produce, rdmap_reap_rwr).
THEOREM KernelTypeCorrect == Spec => []TypeOK
<1>1. Init => DeviceTyped /\ TagsTyped /\ QueuesTyped /\ SocksTyped
  <2> SUFFICES ASSUME Init PROVE DeviceTyped /\ TagsTyped /\ QueuesTyped /\ SocksTyped
    OBVIOUS
  <2>1. DOMAIN stags = {} /\ DOMAIN cqs = {} /\ DOMAIN socks = {} /\ next_stag = 1 /\ next_handle = 1
    BY DEF Init
  <2>2. TagsTyped /\ QueuesTyped /\ SocksTyped
    BY <2>1, KernelAssumption DEF TagsTyped, QueuesTyped, SocksTyped
  <2>3. DeviceTyped
    BY KernelAssumption DEF Init, DeviceTyped
  <2> QED BY <2>2, <2>3
<1>2. (/\ DeviceTyped /\ TagsTyped /\ QueuesTyped /\ SocksTyped
       /\ RefInv /\ FileInv /\ RegionInv /\ HeapInv) => TypeOK
  <2> SUFFICES ASSUME DeviceTyped, TagsTyped, QueuesTyped, SocksTyped,
                      RefInv, FileInv, RegionInv, HeapInv
               PROVE  TypeOK
    OBVIOUS
  <2>1. \A c \in DOMAIN cqs : cqs[c].refcnt \in Nat /\ cqs[c].occ \in 0 .. CqDepth - 1
    BY CountsNatural DEF QueuesTyped
  <2>2. ASSUME NEW f \in DOMAIN socks
        PROVE  /\ {socks[f].scq, socks[f].rcq} \subseteq 1 .. MaxCq
               /\ Elems(socks[f].buf_q) \subseteq Addr
               /\ socks[f].rrr \in Addr \cup {NoAddr}
               /\ socks[f].sync \in BOOLEAN
    <3>1. {socks[f].scq, socks[f].rcq} \subseteq 1 .. MaxCq
      BY DEF RefInv, CqInUse, QueuesTyped
    <3>2. Elems(socks[f].buf_q) \subseteq Addr
      <4>1. socks[f].buf_q \in Seq(Addr)
        BY DEF HeapInv, Lists, Q
      <4> QED BY <4>1, ElementOfSeq DEF Elems
    <3>3. socks[f].rrr \in Addr \cup {NoAddr} /\ socks[f].sync \in BOOLEAN
      BY DEF SocksTyped, SockTyped
    <3> QED BY <3>1, <3>2, <3>3
  <2>3. \A t \in DOMAIN stags : stags[t].mr \in Slot /\ stags[t].rw \in Access
    BY DEF TagsTyped, RegionInv
  <2>4. mr \in [Slot -> BOOLEAN] /\ fds \subseteq File /\ refs \in [File -> Nat]
    BY CountsNatural DEF RegionInv, FileInv
  <2>5. DOMAIN heap = Addr /\ DOMAIN socks \subseteq File
    BY DEF HeapInv, Cells, FileInv
  <2>6. /\ DOMAIN cqs \subseteq 1 .. MaxCq /\ next_handle \in 1 .. MaxCq + 1
        /\ DOMAIN stags \subseteq 1 .. MaxStag /\ next_stag \in 1 .. MaxStag + 1
    BY DEF QueuesTyped, TagsTyped
  <2>7. opened \in [uc : BOOLEAN, n : 0 .. MaxOpens] /\ wild \in {"no", "send", "recv", "rrr", "tagged"}
    BY DEF DeviceTyped
  <2> QED BY <2>1, <2>2, <2>3, <2>4, <2>5, <2>6, <2>7 DEF TypeOK
<1> QED BY <1>1, <1>2, DeviceTypedKeeps, TagsTypedKeeps, QueuesTypedKeeps, SocksTypedKeeps,
           RefInvHolds, FileInvHolds, RegionInvHolds, HeapInvHolds, PTL DEF Spec
================================================================================
