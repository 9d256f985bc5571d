# Orga20201c in TLA+

The repository holds the laboratory work of one course, in C: a heap allocator
with its driver, a cache simulator, a set of bit puzzles with its test harness, and three
smaller programs. This directory
holds TLA+ specifications of it, the TLC configurations that check them and
proofs checked by TLAPS.

## 1. The system

The programs are separate processes; inside one, components interact by calls.

| Component | State | Operations | Used by |
|---|---|---|---|
| `mm.c` | heap words (in memlib's array), `heap_listp` | `mm_init`, `mm_malloc`, `mm_free`, `mm_realloc` | mdriver |
| `memlib.c` | array, `mem_brk` | `mem_init`, `mem_reset_brk`, `mem_sbrk` | mm, mdriver |
| `mdriver.c` | trace, `blocks`, `block_sizes`, range list | three passes over each trace | - |
| `mm-naive.c` | break only | as mm.c | not built |
| `fcyc.c`, `clock.c`, `ftimer.c`, `fsecs.c` | samples, counters | timing | mdriver |
| `alpha4.0.c` | sets of lines, clock, metrics; the file and the allocations of `main` | check the arguments, allocate, one access of the trace, give back | - |
| `cp57.c` | descriptors, buffer, `errno` | `main`, `copyfd`, `writeall` | kernel |
| `ls57.c` | directory stream | `lsdir`, `getsize` | kernel |
| `recode57.c`, `recode57_alu.c` | input buffer, leftover bytes, BOM | read, convert, write | kernel |
| `btest.c` with `decl.c` | alarm, `envbuf`, test values, totals | run each puzzle on sampled values | - |
| `bits.c`, `tests.c` | none | thirteen puzzles and their references | btest |

What is hard in each, and what makes it correct:

* **mm/memlib.** Nothing runs concurrently. What is hard is long sequences of
  legal calls: each call rewrites a few tags, and a wrong one shows only calls
  later. Correct: the tags always form a list that tiles the heap; what the
  client holds is disjoint, large enough and untouched; adjacent free blocks
  are joined; a failing call, in the middle of `mm_realloc` too,
  leaves everything usable; find_fit ends.
* **mdriver.** It judges an allocator it knows nothing of, with a list of ranges
  and a table of pointers that outlive the trace and the pass they belong to.
  Correct: it rejects no correct allocator, notices the broken ones, counts each
  trace once, and its utilisation is that of the trace.
* **alpha4.0.c.** The victim is chosen by time stamps that one function
  computes and a clock that another advances, and the metrics are counted by
  a third. Correct: it is a write-back cache with LRU replacement, and its
  metrics are those of that cache, whichever of the three worked them out. `main` checks a size that is a long as an int, divides by a
  product that may overflow, allocates in a loop that may fail half way, and reads a trace with a
  format that ends of lines mean nothing to, without looking at how many fields were read. Correct: what it accepts is a geometry, the masks
  split an address as that geometry says, and its exit code is true.
* **cp57.c.** Every system call may fail, be interrupted or do part of its
  work. Correct: no byte is repeated or reordered, descriptors are closed, the
  program ends, and what it reports is true.
* **recode57.c.** Unchecked failures, and code points cut by the end of a buffer. Correct: after
  each iteration the output is the text of the bytes consumed.
* **btest.c, bits.c.** An alarm is set for each test and cancelled for none, and jumps to a frame
  that may be gone; a sample decides what is noticed; sums overflow at the ends of the range.
  Correct: a puzzle gets its points only if it is right where the sample must reach, no
  puzzle that runs is ended by another's alarm, and the totals are those of the verdicts.
* **ls57.c.** A failing `fstatat` leaves the printed mode and size unwritten.

`PROJECT.json` lists the hazards with their lines.

## 2. Modules

| Module | Models |
|---|---|
| `Words` | units: an address counts 8-byte words, a request is in bytes |
| `Malloc` | abstract: what an allocator promises a client, in payloads only |
| `Mm` | `mm.c` on `memlib.c`, with the client that `mdriver.c` is |
| `MmProps` | properties of `Mm`, and `Malloc` as their refinement |
| `MCMm` | constants for TLC |
| `MmProofs` | proofs: the heap's functions; invariants, refinement |
| `MDriver` | `mdriver.c`'s loop, passes and range list, one request per step |
| `MDriverProps`, `MCMDriver` | its properties, and what its comments say; traces for TLC |
| `SumProofs` | proofs: sums over finite sets, powers of two, the numbers that sets of bits write |
| `MDriverProofs` | proofs: range list, verdicts, utilisation |
| `LRU` | abstract: a set-associative write-back cache with LRU replacement |
| `CacheSim` | `alpha4.0.c`, one access per step |
| `CacheSimProps` | its properties, and `LRU` as their refinement |
| `CacheSimProofs` | proofs: invariants, refinement |
| `CacheMain` | `alpha4.0.c`'s `main`: arguments, allocations, the reading of the trace, the masks |
| `CacheMainProps`, `MCCacheMain` | its properties; command lines and traces for TLC |
| `CacheMainProofs` | proofs: the masks, the geometries accepted, the end of the program |
| `Cp57` | `cp57.c`, one system call per step |
| `Cp57Props` | its properties, and what `cp57.h` says |
| `Cp57Proofs` | proofs: order, completeness, descriptors |
| `Recode57` | `recode57.c` and `recode57_alu.c`, one iteration of the loop per step |
| `Recode57Props`, `MCRecode57` | its properties, and what `recode57.h` says; texts for TLC |
| `Recode57Proofs` | proofs: the codecs, the detection, the conversion |
| `BitWords` | C's int of W bits as the set of its one bits, with its operators |
| `Bits` | the puzzles of `bits.c` and their references in `tests.c` |
| `BTest` | `btest.c` and `decl.c`, one comparison per step, with the alarm |
| `BTestProps`, `MCBTest` | properties of both, and what `bits.c` says; options for TLC |
| `BitsProofs` | proofs: puzzles against references, at every width; the harness's jumps, totals, arrays and verdicts |

Definitions whose names end in a suffix such as `_NoEpilogue` and whose comment
starts with "Mutant:" are not used by any specification: each is a plausible bug
in the definition below it, kept to show that the properties would notice it.

### 2.1 Mm

`mem` is the array as a function from word addresses to words. A word is a
record of what `block_size` and `is_allocated` read from it; payload words are
words too, so an allocator that took a payload for a tag would see one (the
patterns in `MCMm` look like tags on purpose). Addresses and block sizes are in
words: `WSIZE` is 1 and `DSIZE` 2. Requests are in bytes, so that rounding is
modelled.

The accessors keep their C names and take the memory as an argument; `coalesce`,
`extend_heap`, `place`, `mm_init` and `mm_free` are functions from memory to
memory that perform the writes of the C functions in their order. `find_fit`'s
loop runs step by step (`pc = "find_fit"`, `bp` is `block_found`), so that its
termination is a property and not an assumption. A call then ends in one step
(`FindHit`, `FindMiss`), with everything `mm_malloc` and `mm_realloc` do after the
search. `Restart` is the start of a trace: `mem_reset_brk` and `mm_init` over the
words the last trace left.

The client keeps a table of slots, frees only what it holds, fills every payload
with its slot's word. Unlike the driver it goes on after a NULL, so failing calls
are part of every behaviour. `mm_free(NULL)` and the `mm_init` inside `mm_free`
cannot be reached by such a client and do nothing it could see.

`MAX_HEAP`, `CHUNKSIZE` and `INT_MAX` are constants. Their assumptions: the heap
has room for the four words of the skeleton, it and the chunk fit in an int, the
array is aligned. `SizesAssumption` keeps requests in an int, as the traces do.
Beyond it, `mem_sbrk`'s int parameter drops bits (`AsInt` models this).

Places where documents and code differ, without effect on what is checked: the
malloc README shows a prologue of size 8 (line 73), the code writes 16; it
subtracts `WSIZE` in `proximo_bloque` (line 128), the code does not; it gives 16
bytes as the smallest free block, `place` splits only when 32 remain; the comment
above `mm_free` says that it does nothing.

### 2.2 MDriver

`Mm` has the driver as a client that cannot go wrong; here it is the other way
round. The allocator is external and of one of three kinds, chosen at the start:
correct, correct but free to fail at any call, or arbitrary: any address, and
payloads overwritten. `handed` is what a correct allocator has handed out and
binds only that one. The driver's state keeps its C names.

`Alloc`, `Realloc`, `Free`, `BeginPass` and `EndPass` stand for the same case of
`eval_mm_valid`, `eval_mm_util` and `eval_mm_speed`, which differ in what they do
besides the call: `pass` says which one runs. `Fail` is `malloc_error` and a return
in the first and `app_error` in the others. A byte has `Low` values; `Char` is how the
comparison after `mm_realloc` reads it. `Repeats` is how often `fsecs` calls `eval_mm_speed`: ten
times in this build, where `config.h` selects `gettimeofday` and `fsecs.c` passes 10 to
`ftimer_gettod`. The runs use two, since what one call leaves for the next is already there
in the second.

`DriverAssumption` asks of a trace what the assertions in `read_trace` and `add_range`
ask: its ids are in the table and its sizes are positive. `TracesAssumption`, of `MDriverProps`, says that
it allocates only ids it does not hold, and resizes and frees only those it does. No assertion asks
this, but on any other trace the driver would read a pointer that nothing has written.

### 2.3 CacheSim

A step is one iteration of the loop of `simular_cache_simple` or
`simular_cache_modo_verboso`, which differ only in the operation number that the
second stores in the lines; the simple mode is the empty verbose range.
`MissLibre`, `MissDesalojo` and `Hit` are the three outcomes. `actualizar_ciclos`
keeps that the code looks for the tag alone when it refreshes a line, and
`cargar_linea` that it stamps a line by a rule of its own: a load that evicts a
dirty line is stamped 100 cycles before the clock it produces. `Contar` advances the clock by what
`resultado` says, and hands `resultado` to `actualizar_metricas`, which works the cost of the
access out again. `resultado` is a local variable that nothing initializes; a hit resets it (line
390), which changes nothing, since `actualizar_metricas` looks at it only after a miss.

`LRU` has no lines, stamps or clock: per set, the tags held, the dirty ones and
the pairs of tags ordered by use. It also remembers the last access; without it,
a cache that forgot to refresh a line would look like one that had a hit on
another.

### 2.4 Cp57

The kernel is external. `Fallas` says which failures it may answer with; a read may
always return less than asked. `fallos` records which failures there were, so
that a property can say what follows from which. A byte of the source is its
position. `mismo` is whether both arguments name one file, which the destination's
`O_TRUNC` then empties.

`errno` is state: no successful call resets it. A read that fails is followed by
`writeall` of -1 bytes, a count that `write` refuses.

### 2.5 Recode57

The decoders and encoders work on bytes, with shifts and masks written as division and
remainder. The input is a text and the bytes that it has in its encoding. Those bytes come from
a table (`Formas`, in `MCRecode57`: the first and last code points of each length with what the
Unicode standard gives them), so that the code is compared with the standard and not with
itself. `FormasAssumption` says what such a table is: the sequences that the standard allows in UTF-8 and
UTF-16, each with the number that it writes. `Consumidos` and `Codepoint` are the two results of
`read_codepoint`; the second, and `Escrito`, have one operator for each family of encodings.

A read returns any number of bytes, and with `Fallas` may fail; a write may take half. `pc` is
"indefinido" once the program has used bytes that it never read: what it does then is not
modelled, and `IndefinidoSoloSi` says when it happens. `memcpy` of the leftover bytes may overlap by
a byte (UTF-16, five bytes of which three are left); it is taken to copy.

### 2.6 CacheMain

`CacheSim` starts from a geometry that divides; `CacheMain` is how the program gets there. An int has
W bits (`INT_MAX` is the constant that goes with it) and a long is a number, so the conversions and the
product that wraps are those of the code. `vivos` is the set of what was opened or allocated
and not given back; each allocation may fail.

The trace is text: a sequence of pieces (`Trozo`), each a run of digits, a run of white space or a
single other character. A call of `fscanf` goes through the directives of `FORMATO` one step at a
time, each taking of the text what C's standard says. White space in the format takes ends of lines
like any other, and so does the search for a number: `fscanf` knows nothing of lines, and a line cut
short in the middle of the text takes its missing fields from the next one. A directive that finds no
match puts nothing back but what it did not take, and the call returns how many fields it filled:
the loop simulates an access with whatever `traza` holds, unless the text was at its end before the
first number. Signs, `0x` and numbers of more than 16 digits, whose value is not that of their last
eight, are not among the pieces. What the fields other than the address and the letter hold is read and
not kept, since the program does not use it.

`calcular_set_y_tag` is translated mask by mask. Shifts out of range, and the logarithm of a
block size that is not positive, give anything. They happen only for sizes above `INT_MAX`;
what the simulation does with a set out of range is not modelled.

### 2.7 Bits and BTest

A word is the set of its one bits, so `&`, `|`, `~` and `^` are set operations, and `Add` is defined by
where carries arise; the provers can follow this at any width. The functions keep the steps
and names of the C code. The hardware's float arithmetic behind `tests.c` is external.

`BTest` starts with one of its `Ordenes`: the options, and a defect of the solution linked
with it. The defect is none, which is the repository's `bits.c`, or one puzzle that answers wrongly
or never returns at one value of its first argument: a test harness is judged by what it
notices. `ArgumentosAssumption` keeps the numbers given with `-1`, `-2` and `-3` in the ranges of `decl.c`; btest
does not check them, and `bits.c` says which arguments a puzzle may assume (lines 177 and 217): others
would be shift amounts that C leaves undefined. `AzarAssumption` is that random values are integers. `loop` is the
`while` of `test_floatPower2`, a function of the exponent left, the result and `p2`. `gen_vals` is translated with all of its four cases. `Tupla` is the order of the nested loops.
`alarma` and `envbuf` hold the number of the test that set them. An alarm may ring between
any two steps (`Suena`); when the frame in `envbuf` is that of a finished call, `pc` becomes
"indefinido" and nothing is said of what follows.

## 3. Runs

| Run | Bounds | Shows |
|---|---|---|
| `heap` | 18 words, chunk 6, three slots, requests of 0, 1, 24 and 1023 bytes | all four cases of `coalesce`, in every order of calls: list well formed, coalesced, no leak, blocks disjoint and with room, contents intact and kept by `mm_realloc`, first fit, NULL only when full |
| `calls` | 16 words, chunk 8, two slots, five sizes | `Mm` implements `Malloc`; every call returns |
| `driver` | two runs of three traces of two blocks, 8 bytes of heap, bytes of two values, three kinds of allocator | the range list is the set of blocks; no correct allocator is rejected; which overlaps pass; utilisation, termination |
| `cache` | two sets of three lines, four blocks that share a set, five accesses | `CacheSim` implements `LRU`; stamps and notes; the clock, the times, the traffic and the stores agree |
| `cache_args` | int of 6 bits, arguments from -1 to 16, sizes from -8 to 72, traces of up to two lines, either cut short at each of its eleven pieces, any allocation failing | what `main` accepts, how masks split an address, which accesses `fscanf` makes of the text, what each end leaves behind, termination |
| `copy` | files up to 5 bytes, buffer of 2, every failure any number of times | what a copy holds after which failures; descriptors; termination |
| `recode` | every pair of encodings, eight texts, buffer of 6, reads of every length | what is detected and written after each iteration; when bytes that were not read are used; termination |
| `recode_cut` | as `recode`, no failures | `recode57.h` is not what the code does (see 6) |
| `copy_short_write`, `copy_eintr` | files up to 3 bytes, one kind of failure | the contract in `cp57.h` is broken (see 6) |
| `btest` | words of 8 bits, `TEST_RANGE` 4, up to two alarms that end a test, every number as argument | verdicts, which borders the samples reach and which they do not, totals, where an alarm jumps, array bounds, termination |
| `bits_power2` | words of 8 bits, `floatPower2` of every number | `bits.c` is not what its comment says (see 6) |

Why the bounds suffice. `coalesce` looks at one neighbour on each side, so three
blocks and the rest of the heap give it every situation, the prologue and the
epilogue as neighbours among them; 18 words hold three minimal blocks and the
skeleton. The sizes are one below and one above the minimal
block, one larger than a fresh chunk, and one larger than the heap. Larger heaps grow the state
space quickly, because the words that freed blocks leave behind are state. In
`cache`, five accesses fill a set, reorder its lines and evict one, the first
length at which LRU and its rivals differ. In `driver`, the second trace meets what
the first left in the range list and the tables; two blocks and 8 bytes give every
way in which two payloads lie, and of the two ids one has a fill byte that is
negative as a char. In `copy`, five bytes are two full
buffers and a last short one. In `recode`, six bytes cannot hold two long sequences, so
leftovers of every length occur, and every text is longer than a buffer in some encoding or
shorter than the first four bytes. In `cache_args`, powers of two up to 16 in a 6-bit int
have products that wrap to the smallest int and to 0, and 64 and 72 are sizes of which an
int keeps 0 and 8. Two lines are enough for the one to take the fields of the other; a line has at most
eleven pieces, and `MaxVueltas`, the length up to which accesses are counted, is that of two lines:
none of the texts makes more accesses unless it makes them for ever. In `btest`, 8 bits are four bytes of two bits, and a float with a fraction
of four bits has every kind of value; with `TEST_RANGE` 4 the floats fill `gen_vals`' array to the last
element; two alarms are one that ends a test and one more after it. No solution has two
puzzles that hang, so the bound keeps none of them waiting.

Deadlock is checked for the allocator, whose client can always restart. The
driver, the cache simulator, cp57, recode57 and btest end, so their runs do not check it.

## 4. Fairness

* `Mm!FairSpec`: weak fairness of the allocator's own steps. The program has one
  thread: a call that started runs on. Nothing is assumed of the client.
* `MDriver!FairSpec`: weak fairness of every step: the driver has one thread and the
  allocator answers each call. (That `mm.c` does is `CallReturns`.)
* `Cp57!FairSpec`: weak fairness of the program: it runs on whenever a call
  answers. `ServedSpec` adds that a read, or a write, made again and again does not
  fail each time (strong fairness of the successful outcomes). `Acaba` needs this: both
  loops repeat calls that fail. Without it `copyfd` need not return: a read that keeps failing,
  as on a directory, never ends its loop.
* `Recode57!FairSpec`: weak fairness of the program's steps, the failing read excluded: the
  program has one thread and a read with something to return returns it.
* `CacheMain!FairSpec`: weak fairness of `Next`: one thread, which runs on; every call it makes answers.
* `BTest!FairSpec`: weak fairness of `Next`. The program runs on while it can; in a puzzle that never
  returns the alarm is the only step left, and time passes, so it rings.

## 5. Proofs

Each theorem below holds for every value of the constants that the named
assumptions allow. All but a few follow one pattern: an inductive invariant, one lemma per action that it
is preserved, and the property as a consequence.

**Mm** (`MmProofs`): `TypeOK`, `BlocksHaveRoom`, `BlocksDisjoint`, `ContentsIntact`,
`ReallocPreserves`, `ListWellFormed`, `NoLeak`, `Coalesced`, `FirstFit`, `NullMeansFull`, and the refinement
`KeepsPromise`, for every heap size, chunk, table, set of requests, pattern and initial memory.
None of the properties is inductive. `IInv` adds the list itself: there is a set S of
addresses that the tags chain in both directions and that tiles the heap
(`Chained`), its members with the allocated bit are those the client holds or is
about to get (`Heap`, with U), no two neighbours of it are free (`Spaced`), and a search in progress stands
on a member, below which nothing suits (`SearchInv`).
Each function of `mm.c` rewrites the words of a run of neighbouring blocks, so the work is in one
lemma, `Rewrite`: a run may be replaced by any tiling of its words. The walk along the list is a
recursive function. That it is S (`WalkIsChain`) takes no induction: a least address
at which they differ cannot exist (`Least`). The refinement mapping is `Held`, `Phase` and
`Answer` in `MmProps`; each action maps to one step of `Malloc` or to none, and the case that needs the
invariant is `Grant`, where the block found must be apart from all those held.

**MDriver** (`MDriverProofs`): `OverlapOnlyAround`, `RangesAreTheBlocks`, `PointersOfThisPass`, `NoFalseAlarm`,
`UtilizationIsHonest`, for any traces, allocator and heap. `DriverInv` relates
what the trace holds (`Alive`, a definition on the trace alone) to the range list (`RangesInv`), to what
the allocator has handed out (`HandedInv`) and to the bytes of the blocks (`FilledInv`). All three
rest on held blocks starting at different addresses: `remove_range` and `free` look things up by the low end.
`NoFalseAlarm` is part of the invariant, because each pass is a chance to reject. `UtilInv` follows the two
counters of the second pass. A sum over a set is a fold, whose value the provers cannot follow, so
`SumProofs` shows it to be the cardinality of a set with one element for each byte of each block; blocks that
are disjoint below the break then bound it (`LoadFits`).

**CacheSim** (`CacheSimProofs`): `TypeOK`, `OcupadasPrimero`, `TagsUnicos`,
`SellosOrdenados`, `TiempoYTraficoCuadran`, `NotasEnOrden`, and the refinement `EsLRU`, for every geometry,
penalty, set of addresses, range of operations and length of trace.
`TiempoYTraficoCuadran` joins the two computations: `ContarEsContada` shows that the clock's and that of
`actualizar_metricas` are the same function of the access, of whether it missed and of whether it wrote back
(`Contada`). That write-backs are paid for by stores takes the dirty bits: a write-back is of a line that
was dirty, and only a store makes one dirty (`Pagada`), which each of the three outcomes is shown to respect.
`IInv` joins the properties of the sets with two facts they need: a line never
used is clean (otherwise `cargar_linea` would stamp it ahead of the clock), and the number noted in a line
is that of an access already made (`NotasPasadas`).
`SellosOrdenados` needs `OcupadasPrimero` and `TagsUnicos`: `actualizar_ciclos` goes by
the tag alone, and it stamps the line that `leer_set` found only because every
line before a valid one is valid and no other valid line has that tag. Every
access changes one line of one set in the way `CambiaLinea` says; one lemma shows
that such a change keeps the invariant, and another that LRU sees it as a use
of that line's tag. The victim is LRU's because the least stamp is one line's alone.

**CacheMain** (`CacheMainProofs`): `SalidaHonesta` for every set of command lines and of texts, and every width:
whichever allocation failed, the exit code, what is left open and the accesses simulated agree.
`IInv` adds what is held at each place of `main` (`Tenencia`), that every access took a piece of the text unless
`fscanf` is stuck (`Cuenta`), and, for a text in the format, that the directives and the pieces go together, so
that `traza` has the fields of the line being read and each access simulated is a line (`EnLinea`). The lemma that carries
it is `EncuentraSuPieza`: the directive that `fscanf` is at is matched by the piece that it is at, and takes all of
that piece. A text that stops `fscanf` never reaches the end, which is why the count needs the case `Atascado`.
`DireccionSePartePorCompleto` proves that the masks cut an address into offset, set and
tag without losing or sharing a bit, for every width and every split that leaves the tag a bit.
`GeometriaExacta` is arithmetic on powers of two with a variable exponent, of which the provers know only that
they are integers. `SumProofs` counts them as the subsets of a set, which gives that they double, add
exponents and grow. A product of three of them, modulo 2^W, is then either 0 or not wrapped, and `main`'s
comparison with the size, which an int holds, makes it exact. `log2` is the exponent, and the masks and shifts are the
divisions of the number that the address writes (`BitsDivididos`). `DireccionesAssumption` says that an
address is a word.

**Cp57** (`Cp57Proofs`): `SinRepetir`, `CopiaEsPrefijo`, `CopiaSinFallos`, `DescriptoresEnOrden` and the action
property `WriteallReintenta`, for every buffer size, source and set of failures. `CpInv` adds to them where the
bytes in the buffer come from and that the copy lies below them (`CopiaInv`), and, as long as calls are
only interrupted, that `errno` tells whether something read was dropped (`PrefijoInv`): after an
`EINTR`, which stays in `errno`, whatever is read is dropped, so what was copied is still a prefix.

**Recode57** (`Recode57Proofs`): `DeteccionCorrecta`, `SalidaAlDia` and `IndefinidoSoloSi`, for every text, pair of
encodings, buffer of more than four bytes, and sequence of reads and failures. From small to large: `Escribe` and `Lee`
say that the code writes each code point as the standard's bytes and, given those bytes and anything after them, consumes
just them and returns the code point. `Decodifica` goes through a buffer that holds part of a text and the beginning of one
more code point: `orig_to_ucs4` makes the text, and leaves the beginning. `RInv` then joins the program to the file:
the bytes in `inbuf` are those read since the last code point that was complete (`RestoAlDia`), the output is what came
before (`SalidaBien`), and the encoding is the file's (`Detectado`), `Ambiguo` ones apart. `SalidaAlDia` alone is
not inductive: it says nothing of what is left in the buffer, on which the next iteration works.

**Bits and BTest** (`BitsProofs`): for words of any width W = 4B, B even, and any float format in it,
twelve puzzles return what `tests.c` says for all arguments: `CeroCorrecto` (`isNonZero`, `logicalNeg`),
`LogicaCorrecta` (`bitAnd`, `bitXor`, `conditional`), `MascaraCorrecta`, `ImparesCorrecto`, `BytesCorrecto`,
`FlotantesCorrectos` (`floatNegate`, `floatAbsVal`), `OpuestoCorrecto` (`negate`) and `DigitoCorrecto`
(`isAsciiDigit`). For most of them the one idea beyond sets of bits is what a carry does in
~x + 1: it runs up to the lowest one of x, so x or -x has the sign bit unless x is 0. The last two have
references that are arithmetic on numbers: the number that a word writes is a sum of powers of two
(`NumeroDePalabra`), and `Add` adds those numbers modulo 2^W (`SumaDePalabras`).
`PotenciaSalvoDenormales` is about the thirteenth: `floatPower2` differs from its reference at the denormals and at the
first power that is 0, and nowhere else. The loop of the reference squares and multiplies. That a function with
the equations of `loop` exists is shown first, from one for each bound on the exponent and their agreement (`HayBucle`,
`BucleUnico`); then, that it multiplies and saturates at both ends (`BucleMultiplica`).

Of the harness: `SaltoASuPrueba`, `PuntosCuadran`, `CabenEnRango`, `DetectaEnBordes` and `VeredictoJusto`, for any
options, defect, random values and order of the alarms. `BInv` says
what each place of the program implies about the frame in `envbuf` (`Marco`), the verdicts printed
(`Impreso`) and the totals (`Puntos`, with `SumProofs`). For `CabenEnRango` the samples that `gen_vals` joins
are a `FlattenSeq`; `Aplanada` gives its length and elements, again by a least counterexample.
`DetectaEnBordes` needs what the loops have been through (`Recorrido`): every tuple before `probadas` was tried and none
met the defect; the tuple that begins with one of `Bordes` is one of them when the loops end (`TodoProbado`). Its other half,
`SinMayorNormal`, is that no sample is the largest normalized float (`FlotantesLejanos`).
`VeredictoJusto` needs the opposite: a round never starts without a tuple left (`Quedan`), so what a puzzle is
called with is a value of each array (`TuplaDeValores`), in the range of `decl.c`, and there the theorems about the puzzles
apply. That leaves `floatPower2`: none of the floats that `gen_vals` makes is, as an int, the exponent of a denormal
(`FlotantesLejanos`), so only a number given with `-1` can be one. `PrecisionAssumption` is what this takes of the format:
2^(F-1) > Bias + F, which is 2^22 > 150 in the code.
The proof found a size at which `gen_vals` is wrong: a range of `MAX_TEST_VALS` + 1 values is taken whole (line 198)
and needs one element more than there is. `TamanioAssumption` says that no range of `decl.c` has that size,
which is so for the code's own numbers and for the runs'.

The assumptions are the named ones of the modules: those of `Mm` and `MDriver` above; `WidthAssumption` and
`FormatAssumption`;
`IntAssumption` (`INT_MAX` belongs to W); `OrdenesAssumption` (of `CacheMain`: arguments are integers; of `BTest`: the
rating is not negative, which `main` refuses); `ArchivosAssumption`
(traces are no longer than the counter `MaxVueltas`); `RangoAssumption` (the verbose range is two integers, of any sign);
`RangeAssumption` (`TEST_RANGE`, 500000 in the code, is at least 4: with less the floats do not fit);
`RecodeAssumption` (a buffer of more than the four bytes of the mark; texts made of the table's code points);
`AzarAssumption`, `ArgumentosAssumption`, `TamanioAssumption`, `PrecisionAssumption`, `DireccionesAssumption` and
`FormasAssumption`, of which above;
`SizeAssumption`, `LargoAssumption` and `FallasAssumption` of `Cp57` (a buffer of at least one byte).

Only model-checked: every liveness property (`CallReturns`, `Ends`, `Acaba` and the like), since fairness and
ENABLED are out of the provers' reach. Every invariant, every action property and both refinements that the
passing runs check are theorems.

The theorems about `Mm` include heaps too small for the first chunk, in which `mm_init` fails
after writing the skeleton; the code's heap (20 MB) is not one of them and no run has one. `TypeOK`,
`OcupadasPrimero` and `TagsUnicos` are proved and not run.

## 6. Findings

Each violation run checks a sentence of a header or a comment against the code.

* `copy_short_write`: `writeall` returns 0 after a short write.
* `copy_eintr`: after one `EINTR`, `copyfd` drops all that it reads and returns 0.
* `recode_cut`: when a read ends inside a UTF-8 sequence, as it may after any 1024 bytes of a
  file, `read_codepoint` consumes more bytes than there are; the count of the rest wraps
  around and the loop leaves the buffer. UTF-16 and UTF-32 are safe (`IndefinidoSoloSi`).
* `bits_power2`: `floatPower2` shifts by one too many for denormals: 2.0^-127 comes out as 2.0^-126 and so
  on, and -150 gives 1 in place of 0. `btest` does not notice: `decl.c` has the exponent generated as the bits
  of a float, and those are never between -150 and -127.

`MDriver` also shows that `add_range` accepts a payload that begins before and ends after
one still allocated, though `mdriver.c` (line 371) says that the range list is there to detect
any overlap. `OverlapOnlyAround` is the exact statement: it is the only kind missed.
`BlocksDisjoint` shows that `mm.c` never returns such a payload. After `mm_realloc` of a block whose id has a
low byte above 127 the driver compares a negative char with a positive int (line 657) and rejects a
correct allocator; `NoFalseAlarm` says that it rejects none on other traces. `eval_mm_valid` looks for a
negative result of `mm_init` (line 593), which reports failure with 0.

`CacheMain` also shows: `es_potencia_de_dos` accepts 0, and 0 sets or lines end in SIGFPE; a size above
`INT_MAX` is accepted by its low bits; a failing `crear_sets` leaves the `cache_t` behind, and an empty verbose range
everything; when the verbose struct cannot be allocated the program prints metrics of nothing and
returns 0. Text that is no number is simulated for ever: `fscanf` returns 0 for it, and the loop waits for EOF. A line cut
short in the middle of a trace takes its fields from the next one. Two lines may then be one access, with 0 returned;
or the next line lends its first number and leaves its colon, where `fscanf` stays for ever (`Atascado`), though both lines
begin with a number. `SalidaHonesta` says what the accesses are when every line but the last is whole, and `Acaba` that
the program then ends.

`BTest` also shows that `gen_vals` never makes the largest normalized float, 0x7f7fffff, though its comment (lines 135-140)
lists the region around it among those tested: `largest_norm` (line 144) is 0x7f000000, the first float of the last
exponent, and the samples go down from there. A solution that is wrong at that number only gets its points. `DetectaEnBordes` says
which borders the samples do reach, and that a defect at that number alone is never seen. Also: an alarm that rings after its test returned and before the next `sigsetjmp` jumps to a frame
that is gone; one that rings between that `sigsetjmp` and its `alarm` is charged to the next puzzle. The
test for an exhaustive range (line 198) lets one value more than the array holds through, which no range of
`decl.c` has. `arg_test_range[1]` and `[2]` are read unset for puzzles of one argument, and not used.

`Recode57` also shows: a file of four bytes or less gives no output; a first read that
brings fewer than four bytes leaves `bom` partly unwritten; a UTF-16LE file that begins with
U+0000 is taken for UTF-32LE; what `write` does not take is lost.

`Cp57` also shows, with other failures in `Fallas`: a write error is reported as a
complete copy (`writeall` returns 0, the code for success); `cp57 f f` empties the file
and reports a complete copy; if `openat` fails, `main` tests an unassigned variable.

## 7. Not modelled, and the plan

* `ls57.c`: a loop that prints what `fstatat` says of each entry and keeps nothing from one to the next.
  There is no state for a property to be about.
* `mm-naive.c`: not built; `mm.c` takes its place.
* `clock.c`, `fcyc.c`: linked and not used in this build (`USE_FCYC` is 0). `ftimer.c` and `fsecs.c` are
  `MDriver`'s `Repeats`; the rest of them is arithmetic on times.
* `dlc`, `driver.pl`, `Driverlib.pm` (a binary and grading scripts), `ishow.c`, `fshow.c` (printing).
* `mdriver.c`: the command line, the two libc passes of `-l`, parsing, timing and printing. The libc passes
  judge nothing: they repeat the trace on the system's allocator.
* `btest.c`: the parsing of options and printing.

Three hazards have no property: `mem_sbrk`'s int parameter (`memlib.c:58`), because `SizesAssumption` keeps
requests in an int; output lost by a short `write` (`recode57.c:136`), after which nothing holds; and cache sizes above
`INT_MAX` (`alpha4.0.c:146`), which are modelled and run, but which `GeometriaExacta` leaves out.

The plan is done: what the passing runs check is proved, liveness apart. Were it to go on, the next part would be
`read_trace` and the options of `mdriver.c`, which now enter as assumptions on the traces.
