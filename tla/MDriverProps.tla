------------------------------ MODULE MDriverProps ------------------------------
(***************************************************************************)
(* What the driver's verdict on an allocator is worth.                     *)
(***************************************************************************)
EXTENDS MDriver, FiniteSetsExt

Passes == {"valid", "util", "speed"}
Running_ == pass \in Passes /\ opnum > 0

\* Reference: the blocks a trace holds after its first n requests, and the
\* size each was last given.
Last(tr, n, i) == Max({k \in 1 .. n : tr[k].index = i} \cup {0})
Alive(tr, n) == {i \in Ids : Last(tr, n, i) # 0 /\ tr[Last(tr, n, i)].type # "f"}
Asked(tr, n, i) == tr[Last(tr, n, i)].size

\* A trace allocates an id that it does not hold, and resizes or frees one that
\* it does.  read_trace does not check it, and on no other trace is the driver
\* defined: it would take a pointer from memory that nothing has written, or
\* one that was freed.
ASSUME TracesAssumption ==
  \A tr \in Traces : \A k \in DOMAIN tr : tr[k].type = "a" <=> tr[k].index \notin Alive(tr, k - 1)

Load(tr, n) == SumFunction([i \in Alive(tr, n) |-> Asked(tr, n, i)])

\* While the first pass runs, the range list has one record for each block the
\* trace holds, with its extent, and none else: whatever the last trace left
\* in it, and though records are looked up by their low end alone.
RangesAreTheBlocks ==
  pass = "valid" /\ opnum > 0 =>
    LET alive == Alive(Trace, opnum - 1)
    IN  /\ Len(ranges) = Cardinality(alive)
        /\ {ranges[k] : k \in DOMAIN ranges} =
             {[lo |-> blocks[i], hi |-> blocks[i] + Asked(Trace, opnum - 1, i) - 1] : i \in alive}

\* Every pointer that a pass gives back to a correct allocator is one it got in
\* that pass and has not given back, though blocks holds the pointers of the
\* pass before; and all that the trace holds is still handed out.
PointersOfThisPass ==
  Running_ /\ allocator # "arbitrary" =>
    handed = {[p |-> blocks[i], size |-> Asked(Trace, opnum - 1, i)] : i \in Alive(Trace, opnum - 1)}

\* The traces whose verdict is known.
Judged == 1 .. (IF pass = "valid" THEN tracenum - 1 ELSE tracenum)

\* A trace resizes a block whose fill byte is negative as a char.
FillsNegative(tr) == \E k \in DOMAIN tr : tr[k].type = "r" /\ Char(Fill(tr[k].index)) < 0

\* A correct allocator passes: no check of eval_mm_valid rejects it, on every
\* trace that resizes no block of an id with low byte above 127.
NoFalseAlarm ==
  allocator = "correct" =>
    /\ pass # "aborted"
    /\ \A k \in Judged : valid[k] \/ FillsNegative(traces[k])

\* mdriver.c says: "We use the range list to detect any overlapping allocated
\* blocks."  It detects all but one kind: an overlap that add_range lets through
\* is of a newer payload that reaches beyond both ends of the older.
OverlapOnlyAround ==
  \A k, j \in DOMAIN ranges : j < k =>
    \/ ranges[j].hi < ranges[k].lo
    \/ ranges[k].hi < ranges[j].lo
    \/ ranges[j].lo < ranges[k].lo /\ ranges[k].hi < ranges[j].hi

\* The high water mark is that of the trace, and an allocator whose payloads
\* do not overlap cannot have held it in a smaller heap: no utilization above 1.
UtilizationIsHonest ==
  pass = "util" /\ opnum > 0 =>
    /\ total_size = Load(Trace, opnum - 1)
    /\ max_total_size = Max({Load(Trace, n) : n \in 0 .. opnum - 1})
    /\ allocator # "arbitrary" => max_total_size <= mem_brk

\* The driver ends, whatever the allocator answers.
Ends == <>(pass \in {"exit", "aborted"})
================================================================================
