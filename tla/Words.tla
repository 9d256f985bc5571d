--------------------------------- MODULE Words ---------------------------------
(***************************************************************************)
(* Units of the allocator modules: memory is an array of 8-byte words, an  *)
(* address is a word's index and never NULL, a size asked for is in bytes. *)
(***************************************************************************)
EXTENDS Integers

NULL == 0
WordBytes == 8

\* Words that hold size bytes, and the words of the payload at p.
WordsOf(size) == (size + WordBytes - 1) \div WordBytes
Payload(p, size) == p .. p + WordsOf(size) - 1

Smaller(x, y) == IF x < y THEN x ELSE y
=============================================================================
