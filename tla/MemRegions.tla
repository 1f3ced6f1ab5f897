------------------------------- MODULE MemRegions ------------------------------
(***************************************************************************)
(* Registered memory and steering tags of src/iwarp/mem.c.  Regions live   *)
(* in an array that mem_register replaces by a longer copy when it is      *)
(* full; a tag's descriptor points to its region's slot and is reachable   *)
(* both from the region's list and from the tree of all tags.              *)
(*                                                                         *)
(* A pointer into the array is <<gen, i>>: slot i of the gen-th array that *)
(* was allocated.  Only the newest array exists, and no array comes to lie *)
(* where an older one was.  Applications are well behaved: they use a      *)
(* region's handle until they deregister it, and no longer.  A buffer      *)
(* leaves room for a message in the address space: mem_stag_location adds  *)
(* offset and length in size_t, and in a buffer of nearly all of it the    *)
(* sum could wrap to a place inside the buffer again.                      *)
(***************************************************************************)
EXTENDS Integers, Sequences, FiniteSets

CONSTANTS
    GROW,             \* slots added when the array is full (10 in mem.c)
    Buf,              \* buffers an application may register: <<addr, len>>
    Stream,           \* sockets
    SIZE_T, MSG_LEN,  \* number of values of size_t and of msg_len_t
    MaxRegions,       \* bound: slots
    MaxStag           \* bound: tags created, far below the range of stag_t

ASSUME MemAssumption ==
    /\ GROW \in Nat \ {0}
    /\ SIZE_T \in Nat \ {0} /\ MSG_LEN \in Nat /\ 2 * MSG_LEN <= SIZE_T
    /\ Buf \subseteq (1 .. SIZE_T - 1) \X (1 .. SIZE_T - 1)
    /\ \A b \in Buf : b[1] + b[2] < SIZE_T /\ b[2] + MSG_LEN <= SIZE_T
    /\ MaxRegions \in Nat /\ MaxStag \in Nat

Acc == {{"R"}, {"W"}, {"R", "W"}}

VARIABLES
    mem_region,       \* the array; its length is num_mem_region
    gen,              \* which array it is
    stag_avl,         \* the descriptors in the tree
    stag_next_counter,
    handles,          \* handles the application holds, each with its buffer
    wild              \* did a store go to an array that was freed

vars == <<mem_region, gen, stag_avl, stag_next_counter, handles, wild>>

num_mem_region == Len(mem_region)

Region == [addr : Nat, len : Nat, valid : BOOLEAN, stag_list : SUBSET Nat]

Unused == [addr |-> 0, len |-> 0, valid |-> FALSE, stag_list |-> {}]

Init ==
    /\ mem_region = <<>>
    /\ gen = 0
    /\ stag_avl = {}
    /\ stag_next_counter = 1
    /\ handles = {}
    /\ wild = FALSE

\* Mutant: the first slot is taken whether it is valid or not.
FreeSlot_first(i) == i = 1

\* The first slot that is not valid.
FreeSlot(i) ==
    /\ ~mem_region[i].valid
    /\ \A j \in 1 .. i - 1 : mem_region[j].valid

Full == \A i \in 1 .. num_mem_region : mem_region[i].valid

NewRegion(b) == [addr |-> b[1], len |-> b[2], valid |-> TRUE, stag_list |-> {}]

\* mem_register with a free slot.
mem_register(b) ==
    /\ ~wild
    /\ \E i \in 1 .. num_mem_region :
         /\ FreeSlot(i)
         /\ mem_region' = [mem_region EXCEPT ![i] = NewRegion(b)]
         /\ handles' = handles \cup {[md |-> <<gen, i>>, buf |-> b]}
    /\ UNCHANGED <<gen, stag_avl, stag_next_counter, wild>>

\* mem_register on a full array: the slots are copied to a longer one and the
\* array is freed; handles and descriptors keep pointing to it.
mem_register_grow(b) ==
    /\ ~wild
    /\ Full
    /\ num_mem_region + GROW <= MaxRegions
    /\ mem_region' = mem_region \o <<NewRegion(b)>> \o [j \in 1 .. GROW - 1 |-> Unused]
    /\ gen' = gen + 1
    /\ handles' = handles \cup {[md |-> <<gen + 1, num_mem_region + 1>>, buf |-> b]}
    /\ UNCHANGED <<stag_avl, stag_next_counter, wild>>

\* mr_from_md: a handle is accepted if it points into the array.
mr_from_md(md) == md[1] = gen /\ md[2] \in 1 .. num_mem_region

\* Mutant: a region that still has tags is given up.
Deregisterable_busy(md) == mr_from_md(md)

\* mem_deregister answers -EINVAL to a handle it does not know and -EBUSY
\* while there are tags.
Deregisterable(md) == mr_from_md(md) /\ mem_region[md[2]].stag_list = {}

mem_deregister(md) ==
    /\ ~wild
    /\ Deregisterable(md)
    /\ mem_region' = [mem_region EXCEPT ![md[2]].valid = FALSE]
    /\ handles' = {r \in handles : r.md # md}
    /\ UNCHANGED <<gen, stag_avl, stag_next_counter, wild>>

\* Mutant: an empty range is accepted.
InRegion_empty(mr, start, end) == start <= end /\ end <= mr.len

\* The range a tag is asked for lies in its region.
InRegion(mr, start, end) == start < end /\ end <= mr.len

\* mem_stag_create; the counter's values are all fresh below MaxStag.
mem_stag_create(sk, md, start, end, rw) ==
    LET mr == mem_region[md[2]]
        sd == [stag |-> stag_next_counter, mr |-> md, start |-> mr.addr + start,
               end |-> mr.addr + end, sk |-> sk, rw |-> rw]
    IN  /\ ~wild
        /\ mr_from_md(md)
        /\ InRegion(mr, start, end)
        /\ stag_next_counter <= MaxStag
        /\ mem_region' = [mem_region EXCEPT ![md[2]].stag_list = @ \cup {sd.stag}]
        /\ stag_avl' = stag_avl \cup {sd}
        /\ stag_next_counter' = stag_next_counter + 1
        /\ UNCHANGED <<gen, handles, wild>>

\* The regions after sd is taken off the list its mr points to.
Unlinked(sd) ==
    IF sd.mr[1] # gen THEN mem_region
    ELSE [mem_region EXCEPT ![sd.mr[2]].stag_list = @ \ {sd.stag}]

\* mem_stag_destroy: through a pointer to a freed array the list that is
\* walked and changed is not the region's.
mem_stag_destroy(sd) ==
    /\ ~wild
    /\ stag_avl' = stag_avl \ {sd}
    /\ mem_region' = Unlinked(sd)
    /\ wild' = (sd.mr[1] # gen)
    /\ UNCHANGED <<gen, stag_next_counter, handles>>

\* mem_fini, and mem_init for the next use: mem_stag_destroy for every tag of
\* every region, then the array is freed.  Nothing points to it or to an older
\* one any more, so counting the arrays starts again.
mem_fini ==
    /\ ~wild
    /\ num_mem_region > 0
    /\ mem_region' = <<>>
    /\ stag_avl' = {}
    /\ handles' = {}
    /\ wild' = (\E sd \in stag_avl : sd.mr[1] # gen)
    /\ gen' = IF wild' THEN gen ELSE 0
    /\ UNCHANGED stag_next_counter

\* Mutant: only the first byte is looked at.
mem_stag_location_first(sd, off, len, rw) ==
    rw \subseteq sd.rw /\ off >= sd.start /\ off < sd.end

\* mem_stag_location: may len bytes at off be accessed through the tag.
mem_stag_location(sd, off, len, rw) ==
    LET last == (off + len) % SIZE_T
    IN  /\ rw \subseteq sd.rw
        /\ off >= sd.start /\ off < sd.end
        /\ last >= sd.start /\ last <= sd.end

Offsets == 0 .. SIZE_T - 1

Next ==
    \/ \E b \in Buf : mem_register(b) \/ mem_register_grow(b)
    \/ \E r \in handles :
         \/ mem_deregister(r.md)
         \/ \E sk \in Stream, start \in Offsets, end \in Offsets, rw \in Acc :
              mem_stag_create(sk, r.md, start, end, rw)
    \/ \E sd \in stag_avl : mem_stag_destroy(sd)
    \/ mem_fini

Spec == Init /\ [][Next]_vars

--------------------------------------------------------------------------------
(* Properties *)

\* The slots, descriptors and handles are well formed; a descriptor's range
\* is not empty.
TypeOK ==
    /\ mem_region \in Seq(Region)
    /\ gen \in Nat
    /\ \A sd \in stag_avl :
         /\ sd.stag \in 1 .. stag_next_counter - 1
         /\ sd.mr[1] \in 1 .. gen /\ sd.mr[2] \in 1 .. num_mem_region
         /\ sd.start < sd.end /\ sd.rw \in Acc /\ sd.sk \in Stream
    /\ \A r \in handles : r.md[1] \in 1 .. gen /\ r.md[2] \in 1 .. num_mem_region
    /\ wild \in BOOLEAN

\* The handles of two registrations never name the same slot, and the slot
\* of a registration stays its own, with the bounds it was given, until the
\* application gives it back: no free slot has a handle, even across growth.
SlotOwned ==
    /\ \A r, q \in handles : r # q => r.md[2] # q.md[2]
    /\ \A r \in handles :
         LET mr == mem_region[r.md[2]] IN mr.valid /\ <<mr.addr, mr.len>> = r.buf
    /\ \A i \in 1 .. num_mem_region :
         mem_region[i].valid => \E r \in handles : r.md[2] = i

\* "cannot deregister until all stags have been invalidated": the tree and
\* the lists hold the same tags, and every tag points to a region that is
\* still registered.
TagsOfLiveRegions ==
    ~wild =>
        /\ \A i \in 1 .. num_mem_region : mem_region[i].valid =>
              mem_region[i].stag_list = {sd.stag : sd \in {d \in stag_avl : d.mr[2] = i}}
        /\ \A sd \in stag_avl : mem_region[sd.mr[2]].valid

\* Access granted to a peer stays inside one registered region, and within
\* what its tag allows, whatever offset and length the peer asks for.
AccessInRegion ==
    ~wild => \A sd \in stag_avl, off \in Offsets, len \in 0 .. MSG_LEN - 1, rw \in Acc :
        mem_stag_location(sd, off, len, rw) =>
            LET mr == mem_region[sd.mr[2]]
            IN  mr.valid /\ mr.addr <= off /\ off + len <= mr.addr + mr.len
================================================================================
