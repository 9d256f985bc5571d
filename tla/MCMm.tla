--------------------------------- MODULE MCMm ---------------------------------
(***************************************************************************)
(* Small instances of Mm.  Every slot is filled with its own word, written *)
(* to look like the tag of a block: an allocator that read a payload as a  *)
(* tag would believe it.                                                   *)
(***************************************************************************)
EXTENDS MmProps

MCPattern == [i \in Ids |-> [size |-> 4 * i, alloc |-> i % 2]]
MCGarbage == {[size |-> 6, alloc |-> 0]}
=============================================================================
