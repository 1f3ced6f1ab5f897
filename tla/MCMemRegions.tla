------------------------------ MODULE MCMemRegions -----------------------------
(* Two overlapping buffers at the end of an address space of eight bytes, so  *)
(* that offset and length can wrap, and an array that grows by two, to four.  *)
EXTENDS MemRegions

Overlapping == {<<4, 2>>, <<5, 2>>}
================================================================================
