----------------------------- MODULE MemRegions_proofs -------------------------
(***************************************************************************)
(* Registered memory for any number of regions, tags and growths of the    *)
(* array: slots have one owner, no region goes while it has tags, and what *)
(* a peer may access stays inside one region.                              *)
(*                                                                         *)
(* The types come first; on them SlotOwned is inductive.  TagsOfLiveRegions*)
(* needs both, and that tags are unique (mem_stag_destroy takes the tag off*)
(* the list by its number).  AccessInRegion needs where the bounds of a tag*)
(* come from: those of the region its slot still belongs to.               *)
(***************************************************************************)
EXTENDS MemRegions, SequenceTheorems, TLAPS

Handle == [md : Nat \X Nat, buf : Buf]
Desc == [stag : Nat, mr : Nat \X Nat, start : Nat, end : Nat, sk : Stream, rw : Acc]

\* TypeOK and what the records are made of.
Typed ==
    /\ TypeOK
    /\ num_mem_region > 0 => gen > 0
    /\ stag_next_counter \in Nat \ {0}
    /\ handles \subseteq Handle
    /\ stag_avl \subseteq Desc

\* A tag names one descriptor, and lies within the bounds of its slot.
UniqueTags == \A d, e \in stag_avl : d.stag = e.stag => d = e

TagBounds ==
    ~wild => \A sd \in stag_avl :
        LET mr == mem_region[sd.mr[2]] IN mr.addr <= sd.start /\ sd.end <= mr.addr + mr.len

MemInv == Typed /\ SlotOwned /\ UniqueTags /\ TagsOfLiveRegions /\ TagBounds

--------------------------------------------------------------------------------
(* Types *)

\* A buffer as the assumption has it.
LEMMA BufFacts ==
    ASSUME NEW b \in Buf
    PROVE  /\ b[1] \in Nat /\ b[2] \in Nat \ {0} /\ b[1] + b[2] < SIZE_T
           /\ NewRegion(b) \in Region
           /\ b = <<b[1], b[2]>>
<1>1. b \in (1 .. SIZE_T - 1) \X (1 .. SIZE_T - 1) /\ SIZE_T \in Nat /\ b[1] + b[2] < SIZE_T
    BY MemAssumption
<1>2. b[1] \in 1 .. SIZE_T - 1 /\ b[2] \in 1 .. SIZE_T - 1 /\ b = <<b[1], b[2]>>
    BY <1>1
<1>3. b[1] \in Nat /\ b[2] \in Nat \ {0}
    BY <1>1, <1>2
<1> QED BY <1>1, <1>2, <1>3 DEF NewRegion, Region

\* The longer array holds the old slots, the new region and free ones.
LEMMA Grown ==
    ASSUME NEW q \in Seq(Region), NEW x \in Region
    PROVE  LET g == q \o <<x>> \o [j \in 1 .. GROW - 1 |-> Unused]
           IN  /\ g \in Seq(Region)
               /\ Len(g) = Len(q) + GROW
               /\ \A i \in 1 .. Len(q) : g[i] = q[i]
               /\ g[Len(q) + 1] = x
               /\ \A i \in Len(q) + 2 .. Len(g) : g[i] = Unused
<1> DEFINE u == [j \in 1 .. GROW - 1 |-> Unused]
           f == q \o <<x>>
           g == f \o u
<1>1. GROW \in Nat \ {0}
    BY MemAssumption
<1>2. Unused \in Region
    BY DEF Unused, Region
<1>3. u \in Seq(Region) /\ Len(u) = GROW - 1 /\ \A j \in 1 .. GROW - 1 : u[j] = Unused
  <2>1. u \in [1 .. GROW - 1 -> Region]
      BY <1>2
  <2>2. GROW - 1 \in Nat
      BY <1>1
  <2> QED BY <2>1, <2>2, SeqDef
<1>4. f \in Seq(Region) /\ Len(f) = Len(q) + 1 /\ \A i \in 1 .. Len(q) : f[i] = q[i]
    OBVIOUS
<1>5. f[Len(q) + 1] = x
    OBVIOUS
<1> HIDE DEF f, u
<1>6. /\ g \in Seq(Region) /\ Len(g) = Len(f) + Len(u)
      /\ \A i \in 1 .. Len(f) + Len(u) : g[i] = IF i <= Len(f) THEN f[i] ELSE u[i - Len(f)]
  <2>1. f \in Seq(Region) /\ u \in Seq(Region)
      BY <1>3, <1>4
  <2> QED BY <2>1, ConcatProperties
<1> HIDE DEF g
<1>7. \A i \in 1 .. Len(f) : g[i] = f[i]
    BY <1>1, <1>3, <1>4, <1>6
<1>8. \A i \in Len(f) + 1 .. Len(g) : g[i] = u[i - Len(f)]
    BY <1>1, <1>3, <1>4, <1>6
<1>9. Len(q) \in Nat
    OBVIOUS
<1>10. Len(g) = Len(q) + GROW
    BY <1>1, <1>3, <1>4, <1>6, <1>9
<1>11. \A i \in 1 .. Len(q) : g[i] = q[i]
    BY <1>4, <1>7, <1>9
<1>12. g[Len(q) + 1] = x
    BY <1>4, <1>5, <1>7, <1>9
<1>13. \A i \in Len(q) + 2 .. Len(g) : g[i] = Unused
  <2> SUFFICES ASSUME NEW i \in Len(q) + 2 .. Len(g) PROVE g[i] = Unused
      OBVIOUS
  <2>1. i \in Len(f) + 1 .. Len(g) /\ i - Len(f) \in 1 .. GROW - 1
      BY <1>1, <1>4, <1>9, <1>10
  <2> QED BY <1>3, <1>8, <2>1
<1>14. g = q \o <<x>> \o [j \in 1 .. GROW - 1 |-> Unused]
    BY DEF g, f, u
<1> QED BY <1>6, <1>10, <1>11, <1>12, <1>13, <1>14

\* One slot is written.
LEMMA SlotWritten ==
    ASSUME mem_region \in Seq(Region), NEW i \in 1 .. num_mem_region, NEW x \in Region,
           mem_region' = [mem_region EXCEPT ![i] = x]
    PROVE  /\ mem_region' \in Seq(Region)
           /\ num_mem_region' = num_mem_region
           /\ \A j \in 1 .. num_mem_region : mem_region'[j] = IF j = i THEN x ELSE mem_region[j]
BY ExceptSeq DEF num_mem_region

\* What the types say of the slots, tags and handles.
LEMMA Facts ==
    ASSUME Typed
    PROVE  /\ mem_region \in Seq(Region) /\ num_mem_region \in Nat /\ gen \in Nat
           /\ \A i \in 1 .. num_mem_region :
                /\ mem_region[i] \in Region
                /\ mem_region[i].addr \in Nat /\ mem_region[i].len \in Nat
                /\ mem_region[i].valid \in BOOLEAN /\ mem_region[i].stag_list \subseteq Nat
           /\ \A r \in handles : /\ r \in Handle /\ r.buf \in Buf
                                 /\ r.md = <<r.md[1], r.md[2]>>
                                 /\ r.md[1] \in 1 .. gen /\ r.md[2] \in 1 .. num_mem_region
           /\ \A sd \in stag_avl : /\ sd \in Desc /\ sd.stag \in Nat
                                   /\ sd.start \in Nat /\ sd.end \in Nat
                                   /\ sd.mr[1] \in 1 .. gen /\ sd.mr[2] \in 1 .. num_mem_region
<1>1. mem_region \in Seq(Region) /\ num_mem_region \in Nat /\ gen \in Nat
    BY DEF Typed, TypeOK, num_mem_region
<1>2. \A i \in 1 .. num_mem_region : mem_region[i] \in Region
    BY <1>1, ElementOfSeq DEF num_mem_region
<1> QED BY <1>1, <1>2 DEF Typed, TypeOK, Region, Handle, Desc

--------------------------------------------------------------------------------
(* Registration *)

\* mem_register takes a free slot, which no handle and no tag names.
LEMMA RegisterKeeps ==
    ASSUME MemInv, NEW b \in Buf, mem_register(b)
    PROVE  MemInv'
<1> USE DEF MemInv
<1>0. Typed /\ SlotOwned /\ UniqueTags /\ TagsOfLiveRegions /\ TagBounds /\ ~wild
    BY DEF mem_register
<1>1. PICK i \in 1 .. num_mem_region :
        /\ FreeSlot(i)
        /\ mem_region' = [mem_region EXCEPT ![i] = NewRegion(b)]
        /\ handles' = handles \cup {[md |-> <<gen, i>>, buf |-> b]}
    BY DEF mem_register
<1>2. UNCHANGED <<gen, stag_avl, stag_next_counter, wild>> /\ ~mem_region[i].valid
    BY <1>1 DEF mem_register, FreeSlot
<1>3. /\ mem_region' \in Seq(Region) /\ num_mem_region' = num_mem_region
      /\ \A j \in 1 .. num_mem_region :
           mem_region'[j] = IF j = i THEN NewRegion(b) ELSE mem_region[j]
    BY <1>0, <1>1, Facts, SlotWritten, BufFacts, ZenonT(40)
<1>4. /\ \A r \in handles : r.md[2] # i
      /\ \A sd \in stag_avl : sd.mr[2] # i
    BY <1>0, <1>2 DEF SlotOwned, TagsOfLiveRegions
<1> DEFINE h == [md |-> <<gen, i>>, buf |-> b]
<1>5. /\ h \in Handle /\ h.md[1] = gen /\ h.md[2] = i /\ h.buf = b
      /\ gen \in Nat /\ num_mem_region \in Nat /\ i \in Nat
    BY <1>0, Facts DEF Handle
<1>6. gen \in 1 .. gen
    BY <1>0, <1>5 DEF Typed
<1>7. Typed'
    BY <1>0, <1>1, <1>2, <1>3, <1>5, <1>6 DEF Typed, TypeOK
<1>8. SlotOwned'
  <2>1. \A r, q \in handles' : r # q => r.md[2] # q.md[2]
      BY <1>0, <1>1, <1>4, <1>5 DEF SlotOwned
  <2>2. \A r \in handles' :
          mem_region'[r.md[2]].valid
            /\ <<mem_region'[r.md[2]].addr, mem_region'[r.md[2]].len>> = r.buf
    <3>1. NewRegion(b).valid /\ <<NewRegion(b).addr, NewRegion(b).len>> = b
        BY BufFacts DEF NewRegion
    <3>2. mem_region'[i] = NewRegion(b)
        BY <1>3
    <3>3. \A r \in handles : mem_region'[r.md[2]] = mem_region[r.md[2]]
        BY <1>0, <1>3, <1>4, Facts
    <3>4. ASSUME NEW r \in handles
          PROVE  mem_region'[r.md[2]].valid
                   /\ <<mem_region'[r.md[2]].addr, mem_region'[r.md[2]].len>> = r.buf
        BY <1>0, <3>3 DEF SlotOwned
    <3> QED BY <1>1, <1>5, <3>1, <3>2, <3>4
  <2>3. \A j \in 1 .. num_mem_region' :
          mem_region'[j].valid => \E r \in handles' : r.md[2] = j
    <3>1. h \in handles' /\ h.md[2] = i /\ handles \subseteq handles'
        BY <1>1, <1>5
    <3> HIDE DEF h
    <3> QED BY <1>0, <1>3, <3>1 DEF SlotOwned
  <2> QED BY <2>1, <2>2, <2>3 DEF SlotOwned
<1>9. UniqueTags'
    BY <1>0, <1>2 DEF UniqueTags
<1>10. \A sd \in stag_avl : mem_region'[sd.mr[2]] = mem_region[sd.mr[2]]
    BY <1>0, <1>3, <1>4, Facts
<1>11. TagsOfLiveRegions'
  <2>1. ASSUME NEW j \in 1 .. num_mem_region, mem_region'[j].valid
        PROVE  mem_region'[j].stag_list = {sd.stag : sd \in {d \in stag_avl : d.mr[2] = j}}
    <3>1. CASE j = i
      <4>1. mem_region'[j].stag_list = {}
          BY <1>3, <3>1 DEF NewRegion
      <4>2. {d \in stag_avl : d.mr[2] = j} = {}
          BY <1>4, <3>1
      <4> QED BY <4>1, <4>2
    <3>2. CASE j # i
        BY <1>0, <1>3, <2>1, <3>2 DEF TagsOfLiveRegions
    <3> QED BY <3>1, <3>2
  <2> QED BY <1>0, <1>2, <1>3, <1>10, <2>1 DEF TagsOfLiveRegions
<1>12. TagBounds'
    BY <1>0, <1>2, <1>10 DEF TagBounds
<1> QED BY <1>7, <1>8, <1>9, <1>11, <1>12

\* mem_register on a full array: the old slots keep their places.
LEMMA GrowKeeps ==
    ASSUME MemInv, NEW b \in Buf, mem_register_grow(b)
    PROVE  MemInv'
<1> USE DEF MemInv
<1> DEFINE n == num_mem_region
           h == [md |-> <<gen + 1, n + 1>>, buf |-> b]
<1>0. Typed /\ SlotOwned /\ UniqueTags /\ TagsOfLiveRegions /\ TagBounds /\ ~wild
    BY DEF mem_register_grow
<1>1. /\ gen' = gen + 1
      /\ handles' = handles \cup {h}
      /\ UNCHANGED <<stag_avl, stag_next_counter, wild>>
      /\ mem_region' = mem_region \o <<NewRegion(b)>> \o [j \in 1 .. GROW - 1 |-> Unused]
    BY DEF mem_register_grow
<1>2. GROW \in Nat \ {0} /\ n \in Nat /\ gen \in Nat
    BY <1>0, Facts, MemAssumption
<1>3. /\ mem_region' \in Seq(Region) /\ num_mem_region' = n + GROW
      /\ \A j \in 1 .. n : mem_region'[j] = mem_region[j]
      /\ mem_region'[n + 1] = NewRegion(b)
      /\ \A j \in n + 2 .. num_mem_region' : mem_region'[j] = Unused
  <2>1. mem_region \in Seq(Region) /\ NewRegion(b) \in Region
      BY <1>0, Facts, BufFacts
  <2> QED BY <1>1, <2>1, Grown DEF num_mem_region
<1> HIDE DEF n
<1>4. h \in Handle /\ h.md[1] = gen + 1 /\ h.md[2] = n + 1 /\ h.buf = b
    BY <1>2 DEF Handle
<1>5. /\ \A r \in handles : r.md[1] \in 1 .. gen /\ r.md[2] \in 1 .. n
      /\ \A sd \in stag_avl : sd.mr[1] \in 1 .. gen /\ sd.mr[2] \in 1 .. n
    BY <1>0, Facts DEF n
<1> HIDE DEF h
<1>6. Typed'
  <2>1. \A r \in handles' : r.md[1] \in 1 .. gen' /\ r.md[2] \in 1 .. num_mem_region'
    <3>1. \A r \in handles : r.md[1] \in 1 .. gen + 1 /\ r.md[2] \in 1 .. n + GROW
        BY <1>2, <1>5
    <3>2. h.md[1] \in 1 .. gen + 1 /\ h.md[2] \in 1 .. n + GROW
        BY <1>2, <1>4
    <3> QED BY <1>1, <1>3, <3>1, <3>2
  <2>2. \A sd \in stag_avl : sd.mr[1] \in 1 .. gen' /\ sd.mr[2] \in 1 .. num_mem_region'
      BY <1>1, <1>2, <1>3, <1>5
  <2> QED BY <1>0, <1>1, <1>2, <1>3, <1>4, <2>1, <2>2, SMTT(30) DEF Typed, TypeOK
<1>7. SlotOwned'
  <2>0. \A r \in handles : r.md[2] # n + 1
      BY <1>2, <1>5
  <2>1. \A r, q \in handles' : r # q => r.md[2] # q.md[2]
    <3>1. \A r, q \in handles : r # q => r.md[2] # q.md[2]
        BY <1>0 DEF SlotOwned
    <3> QED BY <1>1, <1>4, <2>0, <3>1
  <2>2. \A r \in handles' :
          mem_region'[r.md[2]].valid
            /\ <<mem_region'[r.md[2]].addr, mem_region'[r.md[2]].len>> = r.buf
    <3>1. NewRegion(b).valid /\ <<NewRegion(b).addr, NewRegion(b).len>> = b
        BY BufFacts DEF NewRegion
    <3>2. ASSUME NEW r \in handles
          PROVE  mem_region'[r.md[2]].valid
                   /\ <<mem_region'[r.md[2]].addr, mem_region'[r.md[2]].len>> = r.buf
      <4>1. mem_region'[r.md[2]] = mem_region[r.md[2]]
          BY <1>3, <1>5
      <4> QED BY <1>0, <4>1 DEF SlotOwned
    <3>3. mem_region'[h.md[2]] = NewRegion(b)
        BY <1>3, <1>4
    <3> QED BY <1>1, <1>4, <3>1, <3>2, <3>3
  <2>3. ASSUME NEW j \in 1 .. num_mem_region', mem_region'[j].valid
        PROVE  \E r \in handles' : r.md[2] = j
    <3>1. CASE j \in 1 .. n
        BY <1>0, <1>1, <1>3, <2>3, <3>1 DEF SlotOwned, n
    <3>2. CASE j = n + 1
        BY <1>1, <1>4, <3>2
    <3>3. CASE j \in n + 2 .. num_mem_region'
        BY <1>3, <2>3, <3>3 DEF Unused
    <3>4. j \in 1 .. n \/ j = n + 1 \/ j \in n + 2 .. num_mem_region'
        BY <1>2, <1>3
    <3> QED BY <3>1, <3>2, <3>3, <3>4
  <2> QED BY <2>1, <2>2, <2>3 DEF SlotOwned
<1>8. UniqueTags'
    BY <1>0, <1>1 DEF UniqueTags
<1>9. \A sd \in stag_avl : mem_region'[sd.mr[2]] = mem_region[sd.mr[2]]
    BY <1>3, <1>5
<1>10. TagsOfLiveRegions'
  <2>1. ASSUME NEW j \in 1 .. num_mem_region', mem_region'[j].valid
        PROVE  mem_region'[j].stag_list = {sd.stag : sd \in {d \in stag_avl : d.mr[2] = j}}
    <3>1. CASE j \in 1 .. n
        BY <1>0, <1>3, <2>1, <3>1 DEF TagsOfLiveRegions, n
    <3>2. CASE j = n + 1
      <4>1. mem_region'[j].stag_list = {}
          BY <1>3, <3>2 DEF NewRegion
      <4>2. {d \in stag_avl : d.mr[2] = j} = {}
          BY <1>2, <1>5, <3>2
      <4> QED BY <4>1, <4>2
    <3>3. CASE j \in n + 2 .. num_mem_region'
        BY <1>3, <2>1, <3>3 DEF Unused
    <3>4. j \in 1 .. n \/ j = n + 1 \/ j \in n + 2 .. num_mem_region'
        BY <1>2, <1>3
    <3> QED BY <3>1, <3>2, <3>3, <3>4
  <2> QED BY <1>0, <1>1, <1>9, <2>1 DEF TagsOfLiveRegions
<1>11. TagBounds'
    BY <1>0, <1>1, <1>9 DEF TagBounds
<1> QED BY <1>6, <1>7, <1>8, <1>10, <1>11

\* mem_deregister: the list of the region is empty, so no tag names its slot;
\* no other handle does.
LEMMA DeregisterKeeps ==
    ASSUME MemInv, NEW r \in handles, mem_deregister(r.md)
    PROVE  MemInv'
<1> USE DEF MemInv
<1> DEFINE i == r.md[2]
<1>0. Typed /\ SlotOwned /\ UniqueTags /\ TagsOfLiveRegions /\ TagBounds /\ ~wild
    BY DEF mem_deregister
<1>1. /\ mem_region' = [mem_region EXCEPT ![i].valid = FALSE]
      /\ handles' = {q \in handles : q.md # r.md}
      /\ UNCHANGED <<gen, stag_avl, stag_next_counter, wild>>
      /\ mem_region[i].stag_list = {}
    BY DEF mem_deregister, Deregisterable
<1>2. i \in 1 .. num_mem_region /\ mem_region[i] \in Region /\ mem_region[i].valid
    BY <1>0, Facts DEF SlotOwned
<1> DEFINE x == [mem_region[i] EXCEPT !.valid = FALSE]
<1>3. x \in Region /\ x.valid = FALSE
    BY <1>2 DEF Region
<1>4. mem_region' = [mem_region EXCEPT ![i] = x]
    BY <1>1
<1> HIDE DEF x
<1>5. /\ mem_region' \in Seq(Region) /\ num_mem_region' = num_mem_region
      /\ \A j \in 1 .. num_mem_region : mem_region'[j] = IF j = i THEN x ELSE mem_region[j]
  <2>1. mem_region \in Seq(Region)
      BY <1>0, Facts
  <2> HIDE DEF i
  <2> QED BY <1>2, <1>3, <1>4, <2>1, SlotWritten
<1>6. \A sd \in stag_avl : sd.mr[2] # i
  <2> SUFFICES ASSUME NEW sd \in stag_avl, sd.mr[2] = i PROVE FALSE
      OBVIOUS
  <2>1. sd.stag \in {d.stag : d \in {e \in stag_avl : e.mr[2] = i}}
      OBVIOUS
  <2>2. mem_region[i].stag_list = {d.stag : d \in {e \in stag_avl : e.mr[2] = i}}
      BY <1>0, <1>2 DEF TagsOfLiveRegions
  <2> QED BY <1>1, <2>1, <2>2
<1>7. \A q \in handles' : q \in handles /\ q.md[2] # i
    BY <1>0, <1>1 DEF SlotOwned
<1>8. Typed'
    BY <1>0, <1>1, <1>5, <1>7 DEF Typed, TypeOK
<1>9. SlotOwned'
  <2>1. \A q \in handles' : mem_region'[q.md[2]] = mem_region[q.md[2]]
      BY <1>0, <1>5, <1>7, Facts
  <2>2. \A q \in handles' :
          mem_region'[q.md[2]].valid
            /\ <<mem_region'[q.md[2]].addr, mem_region'[q.md[2]].len>> = q.buf
      BY <1>0, <1>7, <2>1 DEF SlotOwned
  <2>3. ASSUME NEW j \in 1 .. num_mem_region', mem_region'[j].valid
        PROVE  \E q \in handles' : q.md[2] = j
    <3>1. j # i /\ mem_region[j].valid
        BY <1>3, <1>5, <2>3
    <3>2. PICK q \in handles : q.md[2] = j
        BY <1>0, <1>5, <3>1 DEF SlotOwned
    <3> QED BY <1>1, <3>1, <3>2
  <2> QED BY <1>0, <1>7, <2>2, <2>3 DEF SlotOwned
<1>10. UniqueTags'
    BY <1>0, <1>1 DEF UniqueTags
<1>11. \A sd \in stag_avl : mem_region'[sd.mr[2]] = mem_region[sd.mr[2]]
    BY <1>0, <1>5, <1>6, Facts
<1>12. \A j \in 1 .. num_mem_region : mem_region'[j].valid => mem_region'[j] = mem_region[j]
    BY <1>3, <1>5
<1>13. TagsOfLiveRegions' /\ TagBounds'
    BY <1>0, <1>1, <1>5, <1>11, <1>12 DEF TagsOfLiveRegions, TagBounds
<1> QED BY <1>8, <1>9, <1>10, <1>13

--------------------------------------------------------------------------------
(* Tags *)

\* mem_stag_create: the handle is of the present array and owns its slot.
LEMMA CreateKeeps ==
    ASSUME MemInv, NEW r \in handles, NEW sk \in Stream, NEW start \in Offsets,
           NEW end \in Offsets, NEW rw \in Acc, mem_stag_create(sk, r.md, start, end, rw)
    PROVE  MemInv'
<1> USE DEF MemInv
<1> DEFINE i == r.md[2]
           mr == mem_region[i]
           c == stag_next_counter
           sd == [stag |-> c, mr |-> r.md, start |-> mr.addr + start,
                  end |-> mr.addr + end, sk |-> sk, rw |-> rw]
           x == [mem_region[i] EXCEPT !.stag_list = @ \cup {c}]
<1>0. Typed /\ SlotOwned /\ UniqueTags /\ TagsOfLiveRegions /\ TagBounds /\ ~wild
    BY DEF mem_stag_create
<1>1. /\ mr_from_md(r.md)
      /\ start < end /\ end <= mr.len
      /\ mem_region' = [mem_region EXCEPT ![i].stag_list = @ \cup {c}]
      /\ stag_avl' = stag_avl \cup {sd}
      /\ stag_next_counter' = c + 1
      /\ UNCHANGED <<gen, handles, wild>>
    BY DEF mem_stag_create, InRegion
<1>2. /\ i \in 1 .. num_mem_region /\ r.md[1] \in 1 .. gen /\ r.md \in Nat \X Nat
      /\ mr \in Region /\ mr.addr \in Nat /\ mr.len \in Nat /\ mr.valid
      /\ mr.stag_list \subseteq Nat /\ c \in Nat \ {0}
    BY <1>0, Facts DEF SlotOwned, Typed, Handle
<1>3. start \in Nat /\ end \in Nat
    BY MemAssumption DEF Offsets
<1>4. /\ x \in Region /\ x.valid = mr.valid /\ x.addr = mr.addr /\ x.len = mr.len
      /\ x.stag_list = mr.stag_list \cup {c}
    BY <1>2 DEF Region
<1>5. mem_region' = [mem_region EXCEPT ![i] = x]
    BY <1>1
<1>6. /\ sd.stag = c /\ sd.mr = r.md /\ sd.start = mr.addr + start /\ sd.end = mr.addr + end
      /\ sd.sk = sk /\ sd.rw = rw /\ sd \in Desc
    BY <1>2, <1>3 DEF Desc
<1> HIDE DEF x, sd, mr
<1>7. /\ mem_region' \in Seq(Region) /\ num_mem_region' = num_mem_region
      /\ \A j \in 1 .. num_mem_region : mem_region'[j] = IF j = i THEN x ELSE mem_region[j]
  <2>1. mem_region \in Seq(Region)
      BY <1>0, Facts
  <2> HIDE DEF i
  <2> QED BY <1>2, <1>4, <1>5, <2>1, SlotWritten
<1>8. \A j \in 1 .. num_mem_region :
        /\ mem_region'[j].valid = mem_region[j].valid
        /\ mem_region'[j].addr = mem_region[j].addr /\ mem_region'[j].len = mem_region[j].len
    BY <1>4, <1>7 DEF mr
<1>9. \A d \in stag_avl : d.stag \in 1 .. c - 1
    BY <1>0 DEF Typed, TypeOK
<1>10. Typed'
  <2>1. /\ sd.stag \in 1 .. stag_next_counter' - 1 /\ sd.start < sd.end
        /\ sd.mr[1] \in 1 .. gen /\ sd.mr[2] \in 1 .. num_mem_region
    <3>1. c \in 1 .. (c + 1) - 1 /\ mr.addr + start < mr.addr + end
        BY <1>1, <1>2, <1>3
    <3> QED BY <1>1, <1>2, <1>6, <3>1
  <2>2. \A d \in stag_avl : d.stag \in 1 .. stag_next_counter' - 1
      BY <1>1, <1>2, <1>9
  <2>3. stag_next_counter' \in Nat \ {0} /\ stag_avl' \subseteq Desc
      BY <1>0, <1>1, <1>2, <1>6 DEF Typed
  <2> QED BY <1>0, <1>1, <1>6, <1>7, <2>1, <2>2, <2>3 DEF Typed, TypeOK
<1>11. SlotOwned'
    BY <1>0, <1>1, <1>7, <1>8, Facts DEF SlotOwned
<1>12. UniqueTags'
  <2>1. \A d \in stag_avl : d.stag # sd.stag
      BY <1>2, <1>6, <1>9
  <2> QED BY <1>0, <1>1, <2>1 DEF UniqueTags
<1>13. TagsOfLiveRegions'
  <2>1. ASSUME NEW j \in 1 .. num_mem_region, mem_region'[j].valid
        PROVE  mem_region'[j].stag_list = {d.stag : d \in {e \in stag_avl' : e.mr[2] = j}}
    <3>1. mem_region[j].stag_list = {d.stag : d \in {e \in stag_avl : e.mr[2] = j}}
        BY <1>0, <1>8, <2>1 DEF TagsOfLiveRegions
    <3>2. CASE j = i
      <4>1. {e \in stag_avl' : e.mr[2] = j} = {e \in stag_avl : e.mr[2] = j} \cup {sd}
          BY <1>1, <1>6, <3>2
      <4>2. mem_region'[j].stag_list = mem_region[j].stag_list \cup {sd.stag}
          BY <1>4, <1>6, <1>7, <3>2 DEF mr
      <4> QED BY <3>1, <4>1, <4>2
    <3>3. CASE j # i
      <4>1. {e \in stag_avl' : e.mr[2] = j} = {e \in stag_avl : e.mr[2] = j}
          BY <1>1, <1>6, <3>3
      <4> QED BY <1>7, <3>1, <3>3, <4>1
    <3> QED BY <3>2, <3>3
  <2>2. \A d \in stag_avl' : mem_region'[d.mr[2]].valid
    <3>1. \A d \in stag_avl : mem_region'[d.mr[2]].valid
        BY <1>0, <1>8, Facts DEF TagsOfLiveRegions
    <3>2. mem_region'[sd.mr[2]].valid
        BY <1>2, <1>6, <1>8 DEF mr
    <3> QED BY <1>1, <3>1, <3>2
  <2> QED BY <1>7, <2>1, <2>2 DEF TagsOfLiveRegions
<1>14. TagBounds'
  <2>1. \A d \in stag_avl : /\ mem_region'[d.mr[2]].addr = mem_region[d.mr[2]].addr
                            /\ mem_region'[d.mr[2]].len = mem_region[d.mr[2]].len
      BY <1>0, <1>8, Facts
  <2>2. /\ mem_region'[sd.mr[2]].addr <= sd.start
        /\ sd.end <= mem_region'[sd.mr[2]].addr + mem_region'[sd.mr[2]].len
    <3>1. mem_region'[sd.mr[2]].addr = mr.addr /\ mem_region'[sd.mr[2]].len = mr.len
        BY <1>2, <1>6, <1>8 DEF mr
    <3>2. mr.addr <= mr.addr + start /\ mr.addr + end <= mr.addr + mr.len
        BY <1>1, <1>2, <1>3
    <3> QED BY <1>6, <3>1, <3>2
  <2> QED BY <1>0, <1>1, <2>1, <2>2 DEF TagBounds
<1> QED BY <1>10, <1>11, <1>12, <1>13, <1>14

\* mem_stag_destroy: through a pointer into the present array the tag, and no
\* other, leaves the list of its region.
LEMMA DestroyKeeps ==
    ASSUME MemInv, NEW sd \in stag_avl, mem_stag_destroy(sd)
    PROVE  MemInv'
<1> USE DEF MemInv
<1>0. Typed /\ SlotOwned /\ UniqueTags /\ TagsOfLiveRegions /\ TagBounds /\ ~wild
    BY DEF mem_stag_destroy
<1>1. /\ stag_avl' = stag_avl \ {sd}
      /\ mem_region' = Unlinked(sd)
      /\ wild' = (sd.mr[1] # gen)
      /\ UNCHANGED <<gen, stag_next_counter, handles>>
    BY DEF mem_stag_destroy
<1>2. wild' \in BOOLEAN
    BY <1>1
<1>3. UniqueTags'
    BY <1>0, <1>1 DEF UniqueTags
<1>4. CASE sd.mr[1] # gen
  <2>1. mem_region' = mem_region /\ wild'
      BY <1>1, <1>4 DEF Unlinked
  <2>2. Typed'
      BY <1>0, <1>1, <1>2, <2>1 DEF Typed, TypeOK, num_mem_region
  <2>3. SlotOwned'
      BY <1>0, <1>1, <2>1 DEF SlotOwned, num_mem_region
  <2> QED BY <1>3, <2>1, <2>2, <2>3 DEF TagsOfLiveRegions, TagBounds
<1>5. CASE sd.mr[1] = gen
  <2> DEFINE i == sd.mr[2]
             x == [mem_region[i] EXCEPT !.stag_list = @ \ {sd.stag}]
  <2>1. mem_region' = [mem_region EXCEPT ![i] = x] /\ ~wild'
      BY <1>1, <1>5 DEF Unlinked
  <2>2. i \in 1 .. num_mem_region /\ mem_region[i] \in Region
      BY <1>0, Facts
  <2>3. /\ x \in Region /\ x.valid = mem_region[i].valid /\ x.addr = mem_region[i].addr
        /\ x.len = mem_region[i].len /\ x.stag_list = mem_region[i].stag_list \ {sd.stag}
      BY <2>2 DEF Region
  <2> HIDE DEF x
  <2>4. /\ mem_region' \in Seq(Region) /\ num_mem_region' = num_mem_region
        /\ \A j \in 1 .. num_mem_region : mem_region'[j] = IF j = i THEN x ELSE mem_region[j]
    <3>1. mem_region \in Seq(Region)
        BY <1>0, Facts
    <3> HIDE DEF i
    <3> QED BY <2>1, <2>2, <2>3, <3>1, SlotWritten
  <2>5. \A j \in 1 .. num_mem_region :
          /\ mem_region'[j].valid = mem_region[j].valid
          /\ mem_region'[j].addr = mem_region[j].addr /\ mem_region'[j].len = mem_region[j].len
      BY <2>3, <2>4
  <2>6. Typed'
      BY <1>0, <1>1, <1>2, <2>4 DEF Typed, TypeOK
  <2>7. SlotOwned'
      BY <1>0, <1>1, <2>4, <2>5, Facts, ZenonT(60) DEF SlotOwned
  <2>8. ASSUME NEW j \in 1 .. num_mem_region, mem_region'[j].valid
        PROVE  mem_region'[j].stag_list = {d.stag : d \in {e \in stag_avl' : e.mr[2] = j}}
    <3>1. mem_region[j].stag_list = {d.stag : d \in {e \in stag_avl : e.mr[2] = j}}
        BY <1>0, <2>5, <2>8 DEF TagsOfLiveRegions
    <3>2. CASE j = i
      <4>1. mem_region'[j].stag_list = mem_region[j].stag_list \ {sd.stag}
          BY <2>3, <2>4, <3>2
      <4>2. \A d \in stag_avl : d.stag = sd.stag => d = sd
          BY <1>0 DEF UniqueTags
      <4> QED BY <1>1, <3>1, <4>1, <4>2
    <3>3. CASE j # i
        BY <1>1, <2>4, <3>1, <3>3
    <3> QED BY <3>2, <3>3
  <2>9. \A d \in stag_avl' : /\ d \in stag_avl
                             /\ mem_region'[d.mr[2]].valid = mem_region[d.mr[2]].valid
                             /\ mem_region'[d.mr[2]].addr = mem_region[d.mr[2]].addr
                             /\ mem_region'[d.mr[2]].len = mem_region[d.mr[2]].len
      BY <1>0, <1>1, <2>5, Facts
  <2>10. TagsOfLiveRegions'
      BY <1>0, <2>4, <2>8, <2>9 DEF TagsOfLiveRegions
  <2>11. TagBounds'
      BY <1>0, <2>9 DEF TagBounds
  <2> QED BY <1>3, <2>6, <2>7, <2>10, <2>11
<1> QED BY <1>4, <1>5

\* mem_fini leaves nothing.
LEMMA FiniKeeps ==
    ASSUME MemInv, mem_fini
    PROVE  MemInv'
<1>1. /\ mem_region' = <<>> /\ stag_avl' = {} /\ handles' = {}
      /\ stag_next_counter' = stag_next_counter
    BY DEF mem_fini
<1>2. wild' \in BOOLEAN
    BY DEF mem_fini
<1>3. gen' \in Nat
    BY DEF mem_fini, MemInv, Typed, TypeOK
<1>4. mem_region' \in Seq(Region) /\ num_mem_region' = 0
    BY <1>1, EmptySeq DEF num_mem_region
<1>5. Typed'
    BY <1>1, <1>2, <1>3, <1>4 DEF MemInv, Typed, TypeOK
<1>6. SlotOwned' /\ UniqueTags' /\ TagsOfLiveRegions' /\ TagBounds'
    BY <1>1, <1>4 DEF SlotOwned, UniqueTags, TagsOfLiveRegions, TagBounds
<1> QED BY <1>5, <1>6 DEF MemInv

--------------------------------------------------------------------------------
(* The theorems *)

\* The invariant of the runs, strengthened, holds of every behaviour.
LEMMA MemInvHolds == Spec => []MemInv
<1>1. Init => MemInv
  <2> SUFFICES ASSUME Init PROVE MemInv
      OBVIOUS
  <2>1. mem_region \in Seq(Region) /\ num_mem_region = 0
      BY EmptySeq DEF Init, num_mem_region
  <2>2. stag_avl = {} /\ handles = {} /\ stag_next_counter = 1 /\ gen = 0
      BY DEF Init
  <2>3. Typed
    <3>1. gen \in Nat /\ stag_next_counter \in Nat \ {0}
        BY <2>2
    <3>2. wild \in BOOLEAN
        BY Zenon DEF Init
    <3>3. TypeOK
        BY <2>1, <2>2, <3>1, <3>2 DEF TypeOK
    <3> QED BY <2>1, <2>2, <3>1, <3>3 DEF Typed
  <2>4. SlotOwned /\ UniqueTags /\ TagsOfLiveRegions /\ TagBounds
      BY <2>1, <2>2 DEF SlotOwned, UniqueTags, TagsOfLiveRegions, TagBounds
  <2> QED BY <2>3, <2>4 DEF MemInv
<1>2. MemInv /\ [Next]_vars => MemInv'
  <2> SUFFICES ASSUME MemInv, [Next]_vars PROVE MemInv'
      OBVIOUS
  <2>1. ASSUME NEW b \in Buf, mem_register(b) \/ mem_register_grow(b) PROVE MemInv'
      BY <2>1, RegisterKeeps, GrowKeeps
  <2>2. ASSUME NEW r \in handles, mem_deregister(r.md) PROVE MemInv'
      BY <2>2, DeregisterKeeps
  <2>3. ASSUME NEW r \in handles, NEW sk \in Stream, NEW start \in Offsets, NEW end \in Offsets,
               NEW rw \in Acc, mem_stag_create(sk, r.md, start, end, rw)
        PROVE  MemInv'
      BY <2>3, CreateKeeps
  <2>4. ASSUME NEW sd \in stag_avl, mem_stag_destroy(sd) PROVE MemInv'
      BY <2>4, DestroyKeeps
  <2>5. CASE mem_fini
      BY <2>5, FiniKeeps
  <2>6. CASE UNCHANGED vars
      BY <2>6 DEF vars, MemInv, Typed, TypeOK, SlotOwned, UniqueTags, TagsOfLiveRegions, TagBounds,
                  num_mem_region
  <2> QED BY <2>1, <2>2, <2>3, <2>4, <2>5, <2>6 DEF Next
<1> QED BY <1>1, <1>2, PTL DEF Spec

\* mem_register, mem_deregister, mem_fini: a slot belongs to one registration
\* until it is given back, across any number of growths of the array.
THEOREM SlotsHaveOneOwner == Spec => []SlotOwned
<1>1. MemInv => SlotOwned
    BY DEF MemInv
<1> QED BY <1>1, MemInvHolds, PTL

\* mem_deregister's "-EBUSY": no region goes while it has tags, and tree and
\* lists hold the same tags, as long as no freed array was written through.
THEOREM TagsNameLiveRegions == Spec => []TagsOfLiveRegions
<1>1. MemInv => TagsOfLiveRegions
    BY DEF MemInv
<1> QED BY <1>1, MemInvHolds, PTL

\* mem_stag_location: whatever offset and length a peer asks for, it gets at
\* bytes of one registered region only, the wrap of size_t included.
THEOREM AccessStaysInRegion == Spec => []AccessInRegion
<1>1. MemInv => AccessInRegion
  <2> SUFFICES ASSUME MemInv, ~wild, NEW sd \in stag_avl, NEW off \in Offsets,
                      NEW len \in 0 .. MSG_LEN - 1, NEW rw \in Acc,
                      mem_stag_location(sd, off, len, rw)
               PROVE  LET mr == mem_region[sd.mr[2]]
                      IN  mr.valid /\ mr.addr <= off /\ off + len <= mr.addr + mr.len
      BY DEF AccessInRegion
  <2> DEFINE mr == mem_region[sd.mr[2]]
             addr == mr.addr
             size == mr.len
             last == (off + len) % SIZE_T
  <2>1. /\ mr.valid /\ addr \in Nat /\ size \in Nat /\ sd.start \in Nat /\ sd.end \in Nat
        /\ addr <= sd.start /\ sd.end <= addr + size
      BY Facts DEF MemInv, TagsOfLiveRegions, TagBounds
  <2>2. addr + size < SIZE_T /\ size + MSG_LEN <= SIZE_T
    <3>1. PICK r \in handles : r.md[2] = sd.mr[2]
        BY <2>1, Facts DEF MemInv, SlotOwned
    <3>2. <<addr, size>> = r.buf /\ r.buf \in Buf
        BY <3>1, Facts DEF MemInv, SlotOwned
    <3>3. r.buf[1] = addr /\ r.buf[2] = size
        BY <3>2
    <3> QED BY <3>2, <3>3, MemAssumption
  <2>3. off >= sd.start /\ off < sd.end /\ last >= sd.start /\ last <= sd.end
      BY DEF mem_stag_location
  <2>4. /\ SIZE_T \in Nat \ {0} /\ MSG_LEN \in Nat /\ 2 * MSG_LEN <= SIZE_T
        /\ off \in 0 .. SIZE_T - 1
      BY MemAssumption DEF Offsets
  <2> HIDE DEF addr, size
  <2>5. last = IF off + len < SIZE_T THEN off + len ELSE off + len - SIZE_T
      BY <2>4
  <2> HIDE DEF last
  <2>6. addr <= off /\ off + len <= addr + size
      BY <2>1, <2>2, <2>3, <2>4, <2>5
  <2> QED BY <2>1, <2>6 DEF addr, size
<1> QED BY <1>1, MemInvHolds, PTL

\* The stores are well formed.
THEOREM MemTypeCorrect == Spec => []TypeOK
<1>1. MemInv => TypeOK
    BY DEF MemInv, Typed
<1> QED BY <1>1, MemInvHolds, PTL

================================================================================
