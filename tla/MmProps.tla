-------------------------------- MODULE MmProps --------------------------------
(***************************************************************************)
(* What makes the allocator of Mm correct: its client's blocks, the list   *)
(* of blocks their tags form, the search through it, and the promise of    *)
(* Malloc that all of it keeps.                                            *)
(***************************************************************************)
EXTENDS Mm

\* What the calls and the heap are made of

Call == [op : {"malloc", "realloc"}, index : Ids, size : Sizes]

\* The type of every variable: what each of them may hold, and that a call is
\* in progress exactly outside "idle".
TypeOK ==
  /\ mem \in [Addr -> Word]
  /\ mem_brk \in mem_start_brk .. mem_start_brk + MAX_HEAP
  /\ heap_listp \in {NULL, Prologue}
  /\ pc \in {"idle", "find_fit", "returned"}
  /\ call \in Call \cup {NoCall}
  /\ call = NoCall <=> pc = "idle"
  /\ bp \in Nat
  /\ blocks \in [Ids -> Nat]
  /\ block_sizes \in [Ids -> Sizes \cup {0}]

\* The slots whose pointer the client may use.
Live == {i \in Ids : blocks[i] # NULL}

\* p is where a block with room for size bytes of payload starts: aligned, with
\* equal allocated tags, header and footer inside the heap.
HasRoom(p, size) ==
  /\ p % DSIZE = 0
  /\ p - WSIZE >= mem_start_brk
  /\ p + block_size(mem, p - WSIZE) - WSIZE <= mem_brk - WSIZE
  /\ block_size(mem, p - WSIZE) >= DSIZE + WordsOf(size)
  /\ is_allocated(mem, p - WSIZE)
  /\ mem[obtener_footer(mem, p)] = mem[p - WSIZE]

\* The words from a block's header to its footer.
Extent(p) == p - WSIZE .. p + block_size(mem, p - WSIZE) - DSIZE

\* Every payload the client holds lies in the heap, is aligned and is as large
\* as it asked, between tags that agree: what mdriver.c's add_range checks and
\* what mm_free and coalesce read later (mm.c:159, mm.c:235).
BlocksHaveRoom == \A i \in Live : HasRoom(blocks[i], block_sizes[i])

\* No two blocks the client holds share a word, tags included: place never
\* hands out words of a block in use, however blocks were split and joined.
BlocksDisjoint ==
  \A i, j \in Live : i # j => Extent(blocks[i]) \cap Extent(blocks[j]) = {}

\* Nobody but the client writes the payload of a block it holds: after any
\* calls for other slots, failed ones included, its pattern is still there.
ContentsIntact ==
  \A i \in Live : \A a \in Payload(blocks[i], block_sizes[i]) : mem[a] = Pattern[i]

\* When mm_realloc returns a block it holds the old contents, up to the
\* smaller of both sizes, although the old block was freed, and perhaps
\* coalesced, after the copy; and it is apart from every block still held.
ReallocPreserves ==
  pc = "returned" /\ call.op = "realloc" /\ bp # NULL =>
    /\ HasRoom(bp, call.size)
    /\ \A a \in Payload(bp, Smaller(block_sizes[call.index], call.size)) :
         mem[a] = Pattern[call.index]
    /\ \A i \in Live : Extent(bp) \cap Extent(blocks[i]) = {}

-----------------------------------------------------------------------------
\* The list of blocks

\* S is the set of block addresses, from the prologue to the epilogue, that
\* the tags in memory m chain, in both directions, over the heap up to brk.
Chained(m, brk, S) ==
  /\ Prologue \in S /\ brk \in S /\ S \subseteq Prologue .. brk
  /\ m[Prologue - WSIZE] = pack_word(DSIZE, 1)
  /\ m[brk - WSIZE] = pack_word(0, 1)
  /\ \A b \in S : b % DSIZE = 0
  /\ \A b \in S \ {brk} :
       /\ block_size(m, obtener_header(b)) >= (IF b = Prologue THEN DSIZE ELSE 2 * DSIZE)
       /\ m[obtener_footer(m, b)] = m[obtener_header(b)]
       /\ proximo_bloque(m, b) \in S
       /\ \A c \in S : c <= b \/ c >= proximo_bloque(m, b)
  /\ \A b \in S \ {Prologue} :
       /\ bloque_anterior(m, b) \in S \ {brk}
       /\ proximo_bloque(m, bloque_anterior(m, b)) = b

\* No free block is followed by a free one.
Joined(m, brk, S) ==
  \A b \in S \ {brk} :
    is_allocated(m, obtener_header(b)) \/ is_allocated(m, obtener_header(proximo_bloque(m, b)))

\* The blocks find_fit's loop would visit from the prologue on.
Walk ==
  LET reach[b \in heap_listp .. mem_brk] ==
        LET next == proximo_bloque(mem, b)
        IN  {b} \cup (IF next > b /\ next <= mem_brk THEN reach[next] ELSE {})
  IN  reach[heap_listp]

\* Between any two steps the list tiles the whole heap, can be walked both
\* ways, no block is smaller than 32 bytes, and every call to check_heap finds
\* nothing to print.
ListWellFormed == heap_listp # NULL => Chained(mem, mem_brk, Walk)

\* Immediate coalescing leaves no two free neighbours (mm.c:85).
Coalesced == heap_listp # NULL => Joined(mem, mem_brk, Walk)

\* Nothing leaks: the allocated blocks of the list are the prologue, the
\* epilogue, the client's blocks and the result it is about to take.
NoLeak ==
  heap_listp # NULL =>
    {b \in Walk : is_allocated(mem, obtener_header(b))} \ {heap_listp, mem_brk} =
      {blocks[i] : i \in Live} \cup (IF pc = "returned" /\ bp # NULL THEN {bp} ELSE {})

\* Could the free block b hold the request in progress?
Suits(b) ==
  /\ ~is_allocated(mem, obtener_header(b))
  /\ block_size(mem, obtener_header(b)) >= adjusted_size(call.size)

\* First fit: find_fit has passed over no block that would do, so the one it
\* takes is the lowest.
FirstFit == pc = "find_fit" => \A b \in Walk : b < bp => ~Suits(b)

\* A request for something fails only when no block would do and the heap
\* cannot grow by what extend_heap asks for.
NullMeansFull ==
  pc = "returned" /\ bp = NULL /\ call.size > 0 =>
    /\ \A b \in Walk : ~Suits(b)
    /\ mem_brk + ExtendSize > mem_start_brk + MAX_HEAP

\* The loop of find_fit ends, whatever the heap looks like when it starts.
CallReturns == pc = "find_fit" ~> pc = "returned"

-----------------------------------------------------------------------------
\* What the client sees of the heap, as a Malloc

HeldBy(p, size) == [p |-> p, data |-> [a \in Payload(p, size) |-> mem[a]]]
Nobody == [p |-> NULL, data |-> <<>>]

Held == [i \in Ids |-> IF i \in Live THEN HeldBy(blocks[i], block_sizes[i]) ELSE Nobody]
Phase == IF pc = "find_fit" THEN "busy" ELSE pc
Answer == IF pc = "returned" /\ bp # NULL THEN HeldBy(bp, call.size) ELSE Nobody

Promise == INSTANCE Malloc WITH
  Arena <- Addr, held <- Held, phase <- Phase, asked <- call, answer <- Answer

\* mm.c on memlib.c is an allocator: no step, whatever it does to tags and
\* neighbours, shows in any payload the client holds, a realloc moves contents
\* and a call that fails changes nothing the client can see.
KeepsPromise == Promise!Spec
=============================================================================
