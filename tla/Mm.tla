---------------------------------- MODULE Mm ----------------------------------
(***************************************************************************)
(* The allocator of "Labs grupales/malloc": mm.c (implicit list, first     *)
(* fit, boundary tags, immediate coalescing) on the memory model of        *)
(* memlib.c, used by one client that keeps a table of blocks, fills every  *)
(* payload it gets and passes back only pointers it holds, as mdriver.c    *)
(* does.                                                                   *)
(*                                                                         *)
(* Units: memory is an array of 8-byte words; addresses and block sizes    *)
(* are counted in words (WSIZE is 1), requests in bytes, as the calls      *)
(* give them.  A word is what block_size and is_allocated read from it.    *)
(***************************************************************************)
EXTENDS Words

CONSTANTS
  mem_start_brk,  \* first word of the heap
  MAX_HEAP,       \* words mem_init reserves
  CHUNKSIZE,      \* words the heap grows by at least
  INT_MAX,        \* largest C int, in bytes: mem_sbrk takes an int
  Ids,            \* the slots of the client's table
  Sizes,          \* sizes, in bytes, the client asks for
  Pattern,        \* the word with which the client fills slot i's payload
  Garbage         \* words the heap may hold before the program writes them

WSIZE == 1
DSIZE == 2

Addr == mem_start_brk .. mem_start_brk + MAX_HEAP - 1
Prologue == mem_start_brk + 2 * WSIZE
Word == [size : Nat, alloc : {0, 1}]

ASSUME StartAssumption == mem_start_brk \in Nat \ {0} /\ mem_start_brk % 2 = 0
ASSUME HeapAssumption == MAX_HEAP \in Nat /\ MAX_HEAP >= 4
ASSUME ChunkAssumption == CHUNKSIZE \in Nat /\ CHUNKSIZE >= 4 /\ CHUNKSIZE % 2 = 0
ASSUME IntAssumption ==
  /\ INT_MAX \in Nat
  /\ WordBytes * MAX_HEAP <= INT_MAX
  /\ WordBytes * CHUNKSIZE <= INT_MAX
\* The conversion in mem_sbrk drops no bits of any request the client makes:
\* the traces hold ints, so nothing above INT_MAX is ever asked for.
ASSUME SizesAssumption == Sizes \subseteq 0 .. INT_MAX
ASSUME PatternAssumption == Pattern \in [Ids -> Word]
ASSUME GarbageAssumption == Garbage \subseteq Word /\ Garbage # {}

VARIABLES
  mem,         \* contents of the heap, mem_init's array
  mem_brk,     \* first word past the heap
  heap_listp,  \* the prologue block, or NULL before mm_init
  pc,          \* "idle", in the loop of "find_fit", or "returned" to the client
  call,        \* the mm_malloc or mm_realloc call in progress
  bp,          \* find_fit's block_found; the call's result once it returned
  blocks,      \* the client's pointer for each slot, NULL when it holds none
  block_sizes  \* the size asked for each slot, in bytes

vars == <<mem, mem_brk, heap_listp, pc, call, bp, blocks, block_sizes>>

NoCall == [op |-> "none"]

-----------------------------------------------------------------------------
\* memlib.c

\* uint64_t bytes converted to mem_sbrk's int parameter.
AsInt(n) ==
  LET r == n % (2 * (INT_MAX + 1))
  IN  IF r > INT_MAX THEN r - 2 * (INT_MAX + 1) ELSE r

\* mem_sbrk of a number of words, at break brk.
SbrkFails(brk, words) ==
  LET incr == AsInt(WordBytes * words)
  IN  incr < 0 \/ WordBytes * brk + incr > WordBytes * (mem_start_brk + MAX_HEAP)

SbrkEnd(brk, words) == brk + AsInt(WordBytes * words) \div WordBytes

-----------------------------------------------------------------------------
\* The accessors of mm.c, on an explicit memory m

pack_word(size, alloc) == [size |-> size, alloc |-> alloc]
escribir_header(m, header, val) == [m EXCEPT ![header] = val]
block_size(m, p) == m[p].size
is_allocated(m, p) == m[p].alloc = 1
obtener_header(block) == block - WSIZE
obtener_footer(m, block) == block + block_size(m, obtener_header(block)) - DSIZE
proximo_bloque(m, block) == block + block_size(m, obtener_header(block))
bloque_anterior(m, block) == block - block_size(m, block - DSIZE)

\* Header, then footer, where the new header puts it.
WriteTags(m, block, val) ==
  LET h == escribir_header(m, obtener_header(block), val)
  IN  escribir_header(h, obtener_footer(h, block), val)

\* Mutant: joined to its predecessor, the block keeps its own header.
coalesce_KeepsHeader(m, block) ==
  LET prev == bloque_anterior(m, block)
      next == proximo_bloque(m, block)
      size == block_size(m, obtener_header(block))
      with_next == size + block_size(m, obtener_header(next))
      with_prev == size + block_size(m, obtener_header(prev))
  IN  IF ~is_allocated(m, obtener_header(prev))
      THEN [mem |-> escribir_header(
                      escribir_header(m, obtener_footer(m, block), pack_word(with_prev, 0)),
                      obtener_header(block), pack_word(with_prev, 0)),
            block |-> prev]
      ELSE IF ~is_allocated(m, obtener_header(next))
      THEN [mem |-> WriteTags(m, block, pack_word(with_next, 0)), block |-> block]
      ELSE [mem |-> m, block |-> block]

\* Joins the free block with its free neighbours: the new memory and block.
coalesce(m, block) ==
  LET prev == bloque_anterior(m, block)
      next == proximo_bloque(m, block)
      prev_alloc == is_allocated(m, obtener_footer(m, prev))
      next_alloc == is_allocated(m, obtener_header(next))
      size == block_size(m, obtener_header(block))
      with_next == size + block_size(m, obtener_header(next))
      with_prev == size + block_size(m, obtener_header(prev))
      with_both == with_prev + block_size(m, obtener_footer(m, next))
  IN  CASE prev_alloc /\ next_alloc ->
             [mem |-> m, block |-> block]
        [] prev_alloc /\ ~next_alloc ->
             [mem |-> WriteTags(m, block, pack_word(with_next, 0)), block |-> block]
        [] ~prev_alloc /\ next_alloc ->
             [mem |-> escribir_header(
                        escribir_header(m, obtener_footer(m, block), pack_word(with_prev, 0)),
                        obtener_header(prev), pack_word(with_prev, 0)),
              block |-> prev]
        [] ~prev_alloc /\ ~next_alloc ->
             [mem |-> LET h == escribir_header(m, obtener_header(prev), pack_word(with_both, 0))
                      IN  escribir_header(h, obtener_footer(h, next), pack_word(with_both, 0)),
              block |-> prev]

\* mem_sbrk, then a free block with a new epilogue behind it, coalesced.
\* block is NULL when the heap is exhausted.
extend_heap(m, brk, words) ==
  LET size == IF words % 2 = 1 THEN words + 1 ELSE words
      tagged == WriteTags(m, brk, pack_word(size, 0))
      ended == escribir_header(tagged, obtener_header(proximo_bloque(tagged, brk)), pack_word(0, 1))
      joined == coalesce(ended, brk)
  IN  IF SbrkFails(brk, size)
      THEN [mem |-> m, brk |-> brk, block |-> NULL]
      ELSE [mem |-> joined.mem, brk |-> SbrkEnd(brk, size), block |-> joined.block]

\* The padding word, the prologue and the epilogue at the start of the heap.
\* HeapAssumption is what makes this first mem_sbrk succeed.
Skeleton(m, lo) ==
  [m EXCEPT ![lo] = pack_word(0, 0),
            ![lo + WSIZE] = pack_word(DSIZE, 1),
            ![lo + 2 * WSIZE] = pack_word(DSIZE, 1),
            ![lo + 3 * WSIZE] = pack_word(0, 1)]

\* A failing extension leaves the empty list in place: the callers do not
\* look at mm_init's result, or look for a negative one that it never returns.
mm_init(m, brk) ==
  LET extended == extend_heap(Skeleton(m, brk), SbrkEnd(brk, 4 * WSIZE), CHUNKSIZE)
  IN  [mem |-> extended.mem, brk |-> extended.brk, list |-> brk + 2 * WSIZE]

place(m, block, size) ==
  LET old == block_size(m, obtener_header(block))
      head == WriteTags(m, block, pack_word(size, 1))
  IN  IF old - size >= 2 * DSIZE
      THEN WriteTags(head, proximo_bloque(head, block), pack_word(old - size, 0))
      ELSE WriteTags(m, block, pack_word(old, 1))

\* Mutant: rounds down to the alignment.
adjusted_size_Down(size) ==
  IF size <= WordBytes * DSIZE THEN 2 * DSIZE ELSE DSIZE * ((size + 16) \div 16)

\* Words of the block for a request of size bytes: header, footer, alignment.
adjusted_size(size) ==
  IF size <= WordBytes * DSIZE THEN 2 * DSIZE
  ELSE DSIZE * ((size + 31) \div 16)

\* Mutant: the comment above mm_free, "Freeing a block does nothing".
mm_free_Nothing(m, ptr) == m

\* Mutant: no coalescing.
mm_free_Apart(m, ptr) == WriteTags(m, ptr, pack_word(block_size(m, obtener_header(ptr)), 0))

mm_free(m, ptr) ==
  LET size == block_size(m, obtener_header(ptr))
  IN  coalesce(WriteTags(m, ptr, pack_word(size, 0)), ptr).mem

-----------------------------------------------------------------------------
\* Payloads

memset(m, p, size, val) == [a \in Addr |-> IF a \in Payload(p, size) THEN val ELSE m[a]]

\* memcpy of the words of n bytes from src to dst.
memcpy(m, dst, src, n) ==
  [a \in Addr |-> IF a \in Payload(dst, n) THEN m[a - dst + src] ELSE m[a]]

-----------------------------------------------------------------------------
\* The calls

Init ==
  /\ mem \in [Addr -> Garbage]
  /\ mem_brk = mem_start_brk
  /\ heap_listp = NULL
  /\ pc = "idle" /\ call = NoCall /\ bp = NULL
  /\ blocks = [i \in Ids |-> NULL]
  /\ block_sizes = [i \in Ids |-> 0]

\* The driver starts a trace: mem_reset_brk, its table cleared, mm_init.
Restart ==
  /\ pc = "idle"
  /\ LET heap == mm_init(mem, mem_start_brk)
     IN  mem' = heap.mem /\ mem_brk' = heap.brk /\ heap_listp' = heap.list
  /\ blocks' = [i \in Ids |-> NULL]
  /\ block_sizes' = [i \in Ids |-> 0]
  /\ UNCHANGED <<pc, call, bp>>

\* mm_malloc up to the loop of find_fit; the first call may have to mm_init.
EnterMalloc(op, i, size) ==
  /\ LET heap == IF heap_listp = NULL THEN mm_init(mem, mem_brk)
                 ELSE [mem |-> mem, brk |-> mem_brk, list |-> heap_listp]
     IN  /\ mem' = heap.mem /\ mem_brk' = heap.brk /\ heap_listp' = heap.list
         /\ bp' = heap.list
  /\ pc' = "find_fit"
  /\ call' = [op |-> op, index |-> i, size |-> size]
  /\ UNCHANGED <<blocks, block_sizes>>

\* mm_malloc(0), which returns NULL without looking at the heap.
MallocNothing(i) ==
  /\ pc = "idle" /\ blocks[i] = NULL /\ 0 \in Sizes
  /\ pc' = "returned" /\ bp' = NULL
  /\ call' = [op |-> "malloc", index |-> i, size |-> 0]
  /\ UNCHANGED <<mem, mem_brk, heap_listp, blocks, block_sizes>>

\* mm_malloc(size), and mm_realloc(NULL, size), which is the same call.
Malloc(i, size) ==
  /\ pc = "idle" /\ blocks[i] = NULL /\ size > 0
  /\ EnterMalloc("malloc", i, size)

\* mm_free of a pointer the client holds, so after mm_init.
Free(i) ==
  /\ pc = "idle" /\ blocks[i] # NULL
  /\ mem' = mm_free(mem, blocks[i])
  /\ blocks' = [blocks EXCEPT ![i] = NULL]
  /\ block_sizes' = [block_sizes EXCEPT ![i] = 0]
  /\ UNCHANGED <<mem_brk, heap_listp, pc, call, bp>>

\* mm_realloc of a block to nothing, which frees it.
ReallocNothing(i) ==
  /\ pc = "idle" /\ blocks[i] # NULL /\ 0 \in Sizes
  /\ mem' = mm_free(mem, blocks[i])
  /\ blocks' = [blocks EXCEPT ![i] = NULL]
  /\ block_sizes' = [block_sizes EXCEPT ![i] = 0]
  /\ pc' = "returned" /\ bp' = NULL
  /\ call' = [op |-> "realloc", index |-> i, size |-> 0]
  /\ UNCHANGED <<mem_brk, heap_listp>>

Realloc(i, size) ==
  /\ pc = "idle" /\ blocks[i] # NULL /\ size > 0
  /\ EnterMalloc("realloc", i, size)

\* Mutant: find_fit does not look at the allocated bit.
Fits_InUse == block_size(mem, obtener_header(bp)) >= adjusted_size(call.size)

\* Mutant: a block of just the size does not fit.
Fits_Larger == /\ ~is_allocated(mem, obtener_header(bp))
               /\ block_size(mem, obtener_header(bp)) > adjusted_size(call.size)

Fits == /\ ~is_allocated(mem, obtener_header(bp))
        /\ block_size(mem, obtener_header(bp)) >= adjusted_size(call.size)

\* Mutant: the loop moves two blocks at a time.
FindNext_Skips ==
  /\ pc = "find_fit"
  /\ block_size(mem, obtener_header(bp)) > 0
  /\ ~Fits
  /\ bp' = proximo_bloque(mem, proximo_bloque(mem, bp))
  /\ UNCHANGED <<mem, mem_brk, heap_listp, pc, call, blocks, block_sizes>>

\* Mutant: the loop moves past blocks in use only.
FindNext_Stays ==
  /\ pc = "find_fit"
  /\ block_size(mem, obtener_header(bp)) > 0
  /\ ~Fits
  /\ bp' = IF is_allocated(mem, obtener_header(bp)) THEN proximo_bloque(mem, bp) ELSE bp
  /\ UNCHANGED <<mem, mem_brk, heap_listp, pc, call, blocks, block_sizes>>

\* One iteration of find_fit's loop that does not find the block.
FindNext ==
  /\ pc = "find_fit"
  /\ block_size(mem, obtener_header(bp)) > 0
  /\ ~Fits
  /\ bp' = proximo_bloque(mem, bp)
  /\ UNCHANGED <<mem, mem_brk, heap_listp, pc, call, blocks, block_sizes>>

\* Mutant: mm_realloc frees the old block without copying it.
Return_NoCopy(m, p) ==
  /\ pc' = "returned" /\ bp' = p
  /\ IF call.op = "realloc" /\ p # NULL
     THEN /\ mem' = mm_free(m, blocks[call.index])
          /\ blocks' = [blocks EXCEPT ![call.index] = NULL]
     ELSE mem' = m /\ UNCHANGED blocks
  /\ UNCHANGED <<heap_listp, call, block_sizes>>

\* Mutant: mm_realloc frees the old block when it gets no new one, too.
Return_FreesAnyway(m, p) ==
  LET i == call.index
      old == blocks[i]
      oldsize == Smaller(WordBytes * block_size(m, obtener_header(old)), call.size)
  IN  /\ pc' = "returned" /\ bp' = p
      /\ IF call.op = "realloc"
         THEN /\ mem' = mm_free(IF p = NULL THEN m ELSE memcpy(m, p, old, oldsize), old)
              /\ blocks' = [blocks EXCEPT ![i] = NULL]
         ELSE mem' = m /\ UNCHANGED blocks
      /\ UNCHANGED <<heap_listp, call, block_sizes>>

\* mm_malloc's result p, with memory m: the end of mm_malloc, or the rest of
\* mm_realloc, which copies and frees the old block when it got a new one.
\* The client's pointer is dead from then on, so its slot is emptied here.
Return(m, p) ==
  LET i == call.index
      old == blocks[i]
      oldsize == Smaller(WordBytes * block_size(m, obtener_header(old)), call.size)
  IN  /\ pc' = "returned" /\ bp' = p
      /\ IF call.op = "realloc" /\ p # NULL
         THEN /\ mem' = mm_free(memcpy(m, p, old, oldsize), old)
              /\ blocks' = [blocks EXCEPT ![i] = NULL]
         ELSE mem' = m /\ UNCHANGED blocks
      /\ UNCHANGED <<heap_listp, call, block_sizes>>

FindHit ==
  /\ pc = "find_fit"
  /\ block_size(mem, obtener_header(bp)) > 0
  /\ Fits
  /\ Return(place(mem, bp, adjusted_size(call.size)), bp)
  /\ UNCHANGED mem_brk

ExtendSize == IF adjusted_size(call.size) > CHUNKSIZE THEN adjusted_size(call.size) ELSE CHUNKSIZE

\* The epilogue ends the loop: the heap grows, or the call fails.
FindMiss ==
  /\ pc = "find_fit"
  /\ block_size(mem, obtener_header(bp)) = 0
  /\ LET heap == extend_heap(mem, mem_brk, ExtendSize)
     IN  /\ mem_brk' = heap.brk
         /\ IF heap.block = NULL THEN Return(heap.mem, NULL)
            ELSE Return(place(heap.mem, heap.block, adjusted_size(call.size)), heap.block)

\* The client takes the result: it fills its payload and records it.  A NULL
\* leaves its table as it was.
Accept ==
  /\ pc = "returned"
  /\ IF bp = NULL THEN UNCHANGED <<mem, blocks, block_sizes>>
     ELSE /\ mem' = memset(mem, bp, call.size, Pattern[call.index])
          /\ blocks' = [blocks EXCEPT ![call.index] = bp]
          /\ block_sizes' = [block_sizes EXCEPT ![call.index] = call.size]
  /\ pc' = "idle" /\ call' = NoCall /\ bp' = NULL
  /\ UNCHANGED <<mem_brk, heap_listp>>

\* The allocator's own steps, and the client's.
Step == FindNext \/ FindHit \/ FindMiss
Client ==
  \/ Restart \/ Accept
  \/ \E i \in Ids : MallocNothing(i) \/ ReallocNothing(i) \/ Free(i)
  \/ \E i \in Ids, size \in Sizes : Malloc(i, size) \/ Realloc(i, size)

Next == Step \/ Client

Spec == Init /\ [][Next]_vars

\* A call that started runs on: the program has one thread.
FairSpec == Spec /\ WF_vars(Step)
=============================================================================
