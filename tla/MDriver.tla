--------------------------------- MODULE MDriver --------------------------------
(***************************************************************************)
(* The driver of "Labs grupales/malloc/mdriver.c": main's loop over the    *)
(* trace files and the three passes it makes over each, eval_mm_valid,     *)
(* eval_mm_util and eval_mm_speed, with the range list by which the first  *)
(* judges the allocator.  One request of a trace per step.                 *)
(*                                                                         *)
(* The allocator is whatever is linked in: correct, correct but out of     *)
(* memory at any moment, or arbitrary.  Addresses are in bytes.            *)
(***************************************************************************)
EXTENDS Integers, Sequences

CONSTANTS
  Ids,        \* the ids of a trace's requests
  Traces,     \* the requests a trace file may hold
  NumTraces,  \* files on the command line
  Top,        \* end of mem_init's array
  Breaks,     \* bound: where the allocator may leave the break
  ALIGNMENT,
  Low,        \* how many values a byte has, hence index & 0xFF
  Repeats     \* times fsecs calls eval_mm_speed

ASSUME DriverAssumption ==
  /\ Top \in Nat /\ Breaks \subseteq 0 .. Top
  /\ ALIGNMENT \in Nat \ {0} /\ Low \in Nat \ {0}
  /\ Repeats \in Nat \ {0} /\ NumTraces \in Nat
  /\ Ids \subseteq Nat
  \* what read_trace's and add_range's assertions demand of a file
  /\ Traces \subseteq Seq([type : {"a", "r", "f"}, index : Ids, size : Nat])
  /\ \A tr \in Traces : \A k \in DOMAIN tr : tr[k].type # "f" => tr[k].size > 0

\* mem_init's array starts at 0; the null pointer is no address.
Addr == 0 .. Top - 1
NULL == -1
Extent(p, size) == p .. p + size - 1

VARIABLES
  traces,       \* the files
  tracenum,     \* the file in turn, from 1
  blocks,       \* trace->blocks
  block_sizes,  \* trace->block_sizes
  pass,         \* "read", "valid", "util", "speed"; "exit" or "aborted"
  opnum,        \* the request in turn, from 1; 0 before mm_init
  repeats,      \* calls of eval_mm_speed left
  ranges,       \* the range list, newest first
  errors,
  valid,        \* mm_stats[i].valid
  total_size,
  max_total_size,
  allocator,    \* which allocator is linked in
  handed,       \* the regions it has handed out and not got back, unless it
                \* is arbitrary, when they bind it to nothing
  mem_brk,
  bytes         \* contents of the array, as far as the driver filled it

vars == <<traces, tracenum, blocks, block_sizes, pass, opnum, repeats, ranges, errors,
          valid, total_size, max_total_size, allocator, handed, mem_brk, bytes>>
input == <<traces, allocator>>
sizes == <<total_size, max_total_size>>
heap == <<handed, mem_brk, bytes>>

Trace == traces[tracenum]
Op == Trace[opnum]
Fill(index) == index % Low
\* A byte read through a char pointer, which is signed as the Makefile builds it.
Char(byte) == IF 2 * byte >= Low THEN byte - Low ELSE byte
Smaller(a, b) == IF a < b THEN a ELSE b

-----------------------------------------------------------------------------
\* The range list.

\* Mutant: hi is one past the payload.
Hi_OnePast(lo, size) == lo + size
Hi(lo, size) == lo + size - 1

\* Mutant: only the new payload's low end is compared.
Overlaps_LowOnly(lo, hi, r) == lo >= r.lo /\ lo <= r.hi

\* add_range's test against one range of the list.
Overlaps(lo, hi, r) == (lo >= r.lo /\ lo <= r.hi) \/ (hi >= r.lo /\ hi <= r.hi)

\* What add_range lets into the list rs, while the break is brk.
Accepted(rs, lo, size, brk) ==
  LET hi == Hi(lo, size)
  IN  /\ lo % ALIGNMENT = 0
      /\ 0 <= lo /\ hi <= brk - 1
      /\ \A k \in DOMAIN rs : ~Overlaps(lo, hi, rs[k])

add_range(rs, lo, size) == <<[lo |-> lo, hi |-> Hi(lo, size)]>> \o rs

\* The first record that starts at lo is unlinked, if there is one.
remove_range(rs, lo) ==
  LET found == {k \in DOMAIN rs : rs[k].lo = lo}
      first == CHOOSE k \in found : \A j \in found : k <= j
  IN  IF found = {} THEN rs
      ELSE SubSeq(rs, 1, first - 1) \o SubSeq(rs, first + 1, Len(rs))

-----------------------------------------------------------------------------
\* The allocator.

\* What a call for size bytes that gives up the region at oldp may answer
\* when it leaves the break at brk.
Answers(size, oldp, brk) ==
  LET usable == {p \in Addr :
        /\ p % ALIGNMENT = 0 /\ p + size <= brk
        /\ \A r \in handed : r.p # oldp => Extent(p, size) \cap Extent(r.p, r.size) = {}}
  IN  CASE allocator = "correct" -> usable
        [] allocator = "failing" -> usable \cup {NULL}
        [] OTHER -> Addr \cup {NULL}

\* What the array may hold after it: only an arbitrary allocator touches a
\* payload other than to move the first n bytes from oldp to p, and only the
\* first pass looks.
Contents(p, oldp, n) ==
  LET moved == [a \in Addr |-> IF a \in Extent(p, n) /\ a - p + oldp \in Addr
                               THEN bytes[a - p + oldp] ELSE bytes[a]]
  IN  IF pass # "valid" THEN {bytes}
      ELSE IF allocator # "arbitrary" THEN {moved}
      ELSE {moved, bytes} \cup {[moved EXCEPT ![blocks[i]] = v] : i \in {j \in Ids : blocks[j] # NULL}, v \in 0 .. Low - 1}

\* The allocator's regions after it answered p to that call.
Given(p, size, oldp) ==
  IF allocator = "arbitrary" THEN handed
  ELSE {r \in handed : r.p # oldp} \cup {[p |-> p, size |-> size]}

-----------------------------------------------------------------------------

Init ==
  /\ traces \in [1 .. NumTraces -> Traces]
  /\ allocator \in {"correct", "failing", "arbitrary"}
  /\ tracenum = 0
  /\ blocks = [i \in Ids |-> NULL] /\ block_sizes = [i \in Ids |-> 0]
  /\ pass = "read" /\ opnum = 0 /\ repeats = 0
  /\ ranges = <<>>
  /\ errors = 0 /\ valid = [k \in 1 .. NumTraces |-> FALSE]
  /\ total_size = 0 /\ max_total_size = 0
  /\ handed = {} /\ mem_brk = 0 /\ bytes = [a \in Addr |-> 0]

\* read_trace, whose text is an input here; what its arrays start with is never
\* used.
ReadTrace ==
  /\ pass = "read" /\ tracenum < NumTraces
  /\ tracenum' = tracenum + 1
  /\ blocks' = [i \in Ids |-> NULL] /\ block_sizes' = [i \in Ids |-> 0]
  /\ pass' = "valid" /\ opnum' = 0
  /\ UNCHANGED <<input, repeats, ranges, errors, valid, sizes, heap>>

\* After the last trace main exits; the index it prints first is left out.
Exit ==
  /\ pass = "read" /\ tracenum = NumTraces
  /\ pass' = "exit"
  /\ UNCHANGED <<input, tracenum, blocks, block_sizes, opnum, repeats, ranges, errors, valid,
                 sizes, heap>>

\* The first pass reports the failure and gives the trace up; the others
\* end the program (app_error).
Fail ==
  IF pass = "valid" THEN errors' = errors + 1 /\ pass' = "read"
  ELSE pass' = "aborted" /\ UNCHANGED errors

\* Mutant: eval_mm_valid keeps the last trace's ranges.
BeginPass_KeepsRanges ==
  /\ pass \in {"valid", "util", "speed"} /\ opnum = 0
  /\ handed' = {} /\ mem_brk' \in Breaks
  /\ total_size' = 0 /\ max_total_size' = 0
  /\ opnum' = 1 /\ UNCHANGED <<pass, errors>>
  /\ bytes' = [a \in Addr |-> 0]
  /\ UNCHANGED <<input, tracenum, blocks, block_sizes, repeats, valid, ranges>>

\* mem_reset_brk and mm_init at the head of a pass, clear_ranges at the head
\* of the first; the counters of the second start there.  No payload is left,
\* so what the array holds no longer matters.
BeginPass ==
  /\ pass \in {"valid", "util", "speed"} /\ opnum = 0
  /\ handed' = {} /\ mem_brk' \in Breaks
  /\ ranges' = IF pass = "valid" THEN <<>> ELSE ranges
  /\ total_size' = 0 /\ max_total_size' = 0
  /\ \/ opnum' = 1 /\ UNCHANGED <<pass, errors>>
     \/ allocator # "correct" /\ Fail /\ UNCHANGED opnum
  /\ bytes' = [a \in Addr |-> 0]
  /\ UNCHANGED <<input, tracenum, blocks, block_sizes, repeats, valid>>

Running(type) ==
  pass \in {"valid", "util", "speed"} /\ opnum \in DOMAIN Trace /\ Op.type = type

\* The second pass's running total and its high water mark.
Count(size) ==
  IF pass = "util"
  THEN /\ total_size' = total_size + size
       /\ max_total_size' = IF total_size' > max_total_size THEN total_size' ELSE max_total_size
  ELSE UNCHANGED sizes

\* Mutant: the new block is not remembered.
Remember_Not(p) == UNCHANGED <<blocks, block_sizes>>

\* "Remember region": the third pass leaves the sizes alone.
Remember(p) ==
  /\ blocks' = [blocks EXCEPT ![Op.index] = p]
  /\ block_sizes' = IF pass = "speed" THEN block_sizes
                    ELSE [block_sizes EXCEPT ![Op.index] = Op.size]

\* memset of the region, which the first pass alone does.
Filled(c, p) ==
  IF pass = "valid"
  THEN [a \in Addr |-> IF a \in Extent(p, Op.size) THEN Fill(Op.index) ELSE c[a]]
  ELSE c

\* A request to allocate.
Alloc ==
  /\ Running("a")
  /\ \E brk \in Breaks : \E p \in Answers(Op.size, NULL, brk) : \E c \in Contents(p, NULL, 0) :
       /\ brk >= mem_brk /\ mem_brk' = brk
       /\ IF p = NULL \/ (pass = "valid" /\ ~Accepted(ranges, p, Op.size, brk))
          THEN /\ Fail /\ bytes' = c
               /\ UNCHANGED <<blocks, block_sizes, opnum, ranges, sizes, handed>>
          ELSE /\ handed' = Given(p, Op.size, NULL)
               /\ ranges' = IF pass = "valid" THEN add_range(ranges, p, Op.size) ELSE ranges
               /\ bytes' = Filled(c, p)
               /\ Remember(p) /\ Count(Op.size)
               /\ opnum' = opnum + 1 /\ UNCHANGED <<pass, errors>>
  /\ UNCHANGED <<input, tracenum, repeats, valid>>

\* The test of the bytes that the new block must have taken over: newp[j] is
\* a char, index & 0xFF an int.
Preserved(c, p) ==
  \A a \in Extent(p, Smaller(Op.size, block_sizes[Op.index])) : Char(c[a]) = Fill(Op.index)

\* A request to resize.
Realloc ==
  /\ Running("r")
  /\ LET oldp == blocks[Op.index]
         oldsize == block_sizes[Op.index]
         left == remove_range(ranges, oldp)
     IN  \E brk \in Breaks : \E p \in Answers(Op.size, oldp, brk) :
         \E c \in Contents(p, oldp, Smaller(Op.size, oldsize)) :
           /\ brk >= mem_brk /\ mem_brk' = brk
           /\ \/ /\ p = NULL
                 /\ Fail /\ bytes' = c
                 /\ UNCHANGED <<blocks, block_sizes, opnum, ranges, sizes, handed>>
              \/ /\ p # NULL /\ pass = "valid"
                 /\ ~(Accepted(left, p, Op.size, brk) /\ Preserved(c, p))
                 /\ Fail /\ bytes' = c
                 /\ ranges' = IF Accepted(left, p, Op.size, brk)
                              THEN add_range(left, p, Op.size) ELSE left
                 /\ UNCHANGED <<blocks, block_sizes, opnum, sizes, handed>>
              \/ /\ p # NULL
                 /\ pass = "valid" => Accepted(left, p, Op.size, brk) /\ Preserved(c, p)
                 /\ handed' = Given(p, Op.size, oldp)
                 /\ ranges' = IF pass = "valid" THEN add_range(left, p, Op.size) ELSE ranges
                 /\ bytes' = Filled(c, p)
                 /\ Remember(p) /\ Count(Op.size - oldsize)
                 /\ opnum' = opnum + 1 /\ UNCHANGED <<pass, errors>>
  /\ UNCHANGED <<input, tracenum, repeats, valid>>

\* Mutant: the second pass forgets to take off what was freed.
Free_ForgetsSize ==
  /\ Running("f")
  /\ handed' = {r \in handed : r.p # blocks[Op.index]}
  /\ ranges' = IF pass = "valid" THEN remove_range(ranges, blocks[Op.index]) ELSE ranges
  /\ opnum' = opnum + 1
  /\ UNCHANGED <<input, tracenum, blocks, block_sizes, pass, repeats, errors, valid, mem_brk,
                 bytes, sizes>>

\* A request to free.
Free ==
  /\ Running("f")
  /\ handed' = {r \in handed : r.p # blocks[Op.index]}
  /\ ranges' = IF pass = "valid" THEN remove_range(ranges, blocks[Op.index]) ELSE ranges
  /\ Count(-block_sizes[Op.index])
  /\ opnum' = opnum + 1
  /\ UNCHANGED <<input, tracenum, blocks, block_sizes, pass, repeats, errors, valid, mem_brk,
                 bytes>>

\* Mutant: the third pass is always made again.
EndPass_SpeedAgain ==
  /\ pass \in {"valid", "util", "speed"} /\ opnum > Len(Trace)
  /\ opnum' = 0 /\ repeats' = Repeats
  /\ pass' = IF pass = "valid" THEN "util" ELSE "speed"
  /\ valid' = [valid EXCEPT ![tracenum] = TRUE]
  /\ UNCHANGED <<input, tracenum, blocks, block_sizes, ranges, errors, sizes, heap>>

\* The end of a pass: a valid trace goes on to the second and, Repeats times,
\* to the third.
EndPass ==
  /\ pass \in {"valid", "util", "speed"} /\ opnum > Len(Trace)
  /\ opnum' = 0
  /\ \/ /\ pass = "valid" /\ pass' = "util"
        /\ valid' = [valid EXCEPT ![tracenum] = TRUE]
        /\ UNCHANGED repeats
     \/ /\ pass = "util" /\ pass' = "speed" /\ repeats' = Repeats
        /\ UNCHANGED valid
     \/ /\ pass = "speed" /\ repeats' = repeats - 1
        /\ pass' = IF repeats' = 0 THEN "read" ELSE "speed"
        /\ UNCHANGED valid
  /\ UNCHANGED <<input, tracenum, blocks, block_sizes, ranges, errors, sizes, heap>>

Next ==
  \/ ReadTrace \/ BeginPass \/ EndPass \/ Exit
  \/ Alloc \/ Realloc \/ Free

Spec == Init /\ [][Next]_vars
\* The driver is one thread: it runs on.
FairSpec == Spec /\ WF_vars(Next)
================================================================================
