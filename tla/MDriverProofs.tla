------------------------------ MODULE MDriverProofs ------------------------------
(***************************************************************************)
(* What the driver's verdict is worth, for every trace, every allocator    *)
(* and every heap.                                                         *)
(*                                                                         *)
(* Three pieces of state follow what the trace holds: the range list, the  *)
(* regions that the allocator has handed out, and the bytes of each block. *)
(* That a correct allocator passes rests on all three, and each of them on *)
(* blocks that start at different addresses: a record is looked up, and a  *)
(* region given back, by its low end alone.                                *)
(*                                                                         *)
(* The second pass's counters are compared with a sum over what the trace  *)
(* holds.  The sum is a fold, so it is first shown to be the cardinality   *)
(* of a set, one element for each byte of each block; the blocks being     *)
(* disjoint, that set maps one to one into the bytes below the break.      *)
(***************************************************************************)
EXTENDS MDriverProps, SumProofs, SequenceTheorems

-----------------------------------------------------------------------------
\* The reference: what a trace holds

Request == [type : {"a", "r", "f"}, index : Ids, size : Nat]

\* The last request for an id is the newest, if it is for that id.
LEMMA LastStep ==
  ASSUME NEW tr, NEW n \in Nat, NEW i
  PROVE  Last(tr, n + 1, i) = IF tr[n + 1].index = i THEN n + 1 ELSE Last(tr, n, i)
<1> DEFINE S(m) == {k \in 1 .. m : tr[k].index = i} \cup {0}
<1>1. CASE tr[n + 1].index = i
  <2>1. n + 1 \in S(n + 1) /\ \A y \in S(n + 1) : n + 1 >= y
    BY <1>1
  <2>2. \A x \in S(n + 1) : (\A y \in S(n + 1) : x >= y) => x = n + 1
    BY <1>1
  <2>3. Max(S(n + 1)) = n + 1
    BY <2>1, <2>2 DEF Max
  <2>4. QED
    BY <1>1, <2>3 DEF Last
<1>2. CASE tr[n + 1].index # i
  <2>1. S(n + 1) = S(n)
    BY <1>2
  <2>2. QED
    BY <1>2, <2>1 DEF Last
<1>3. QED
  BY <1>1, <1>2

\* A trace of which nothing was read holds nothing.
LEMMA AliveAtFirst ==
  ASSUME NEW tr
  PROVE  Alive(tr, 0) = {}
<1>1. \A i : {k \in 1 .. 0 : tr[k].index = i} \cup {0} = {0}
  OBVIOUS
<1>2. Max({0}) = 0
  BY DEF Max
<1>3. \A i : Last(tr, 0, i) = 0
  BY <1>1, <1>2 DEF Last
<1>4. QED
  BY <1>3 DEF Alive

\* The next request adds its id or takes it off, and sets its size alone.
LEMMA AliveStep ==
  ASSUME NEW tr \in Seq(Request), NEW n \in DOMAIN tr
  PROVE  /\ Alive(tr, n) = IF tr[n].type = "f" THEN Alive(tr, n - 1) \ {tr[n].index}
                           ELSE Alive(tr, n - 1) \cup {tr[n].index}
         /\ Asked(tr, n, tr[n].index) = tr[n].size
         /\ \A i : i # tr[n].index => Asked(tr, n, i) = Asked(tr, n - 1, i)
<1>1. n \in Nat /\ n - 1 \in Nat /\ (n - 1) + 1 = n /\ n # 0
  OBVIOUS
<1>2. \A i : Last(tr, n, i) = IF tr[n].index = i THEN n ELSE Last(tr, n - 1, i)
  BY <1>1, LastStep
<1>3. tr[n].index \in Ids
  <2>1. tr[n] \in Request
    OBVIOUS
  <2>2. QED
    BY <2>1 DEF Request
<1>4. QED
  BY <1>1, <1>2, <1>3 DEF Alive, Asked

-----------------------------------------------------------------------------
\* The range list

Record == [lo : Nat, hi : Nat]
Records(rs) == {rs[k] : k \in 1 .. Len(rs)}

\* A newer payload does not meet an older one, or reaches beyond both its ends.
Apart(new, old) ==
  \/ new.hi < old.lo
  \/ old.hi < new.lo
  \/ new.lo < old.lo /\ old.hi < new.hi

\* What every range list is.
ListOk(rs) ==
  /\ rs \in Seq(Record)
  /\ \A k \in 1 .. Len(rs) : rs[k].lo <= rs[k].hi
  /\ \A j, k \in 1 .. Len(rs) : j < k => Apart(rs[j], rs[k])

\* The empty list is one.
LEMMA NoRanges == ListOk(<<>>) /\ Len(<<>>) = 0 /\ Records(<<>>) = {}
<1>1. <<>> \in Seq(Record) /\ Len(<<>>) = 0
  OBVIOUS
<1>2. QED
  BY <1>1 DEF ListOk, Records

\* A record put in front.
LEMMA Prepended ==
  ASSUME NEW rs \in Seq(Record), NEW r \in Record
  PROVE  /\ <<r>> \o rs \in Seq(Record) /\ Len(<<r>> \o rs) = Len(rs) + 1
         /\ (<<r>> \o rs)[1] = r
         /\ \A k \in 2 .. Len(rs) + 1 : (<<r>> \o rs)[k] = rs[k - 1]
<1>1. <<r>> \in Seq(Record) /\ Len(<<r>>) = 1 /\ <<r>>[1] = r
  OBVIOUS
<1>2. QED
  BY <1>1, ConcatProperties

\* add_range makes one of one.
LEMMA Adding ==
  ASSUME NEW rs, ListOk(rs), NEW lo \in Nat, NEW size \in Nat \ {0}, NEW brk,
         Accepted(rs, lo, size, brk)
  PROVE  /\ ListOk(add_range(rs, lo, size))
         /\ Len(add_range(rs, lo, size)) = Len(rs) + 1
         /\ Records(add_range(rs, lo, size)) = Records(rs) \cup {[lo |-> lo, hi |-> lo + size - 1]}
         /\ \A r \in Records(rs) : r.lo # lo
<1> DEFINE hi == lo + size - 1
           r == [lo |-> lo, hi |-> hi]
           new == <<r>> \o rs
<1>1. hi \in Nat /\ lo <= hi
  OBVIOUS
<1>2. add_range(rs, lo, size) = new
  BY DEF add_range, Hi
<1>3. rs \in Seq(Record) /\ Len(rs) \in Nat /\ \A k \in 1 .. Len(rs) : rs[k] \in Record
  BY DEF ListOk
<1>4. \A k \in 1 .. Len(rs) : /\ rs[k].lo \in Nat /\ rs[k].hi \in Nat /\ rs[k].lo <= rs[k].hi
                              /\ ~Overlaps(lo, hi, rs[k])
  BY <1>3 DEF ListOk, Accepted, Hi, Record
<1> HIDE DEF hi
<1>5. \A k \in 1 .. Len(rs) : Apart(r, rs[k]) /\ rs[k].lo # lo
  BY <1>1, <1>4 DEF Apart, Overlaps
<1>6. r \in Record
  BY <1>1 DEF Record
<1>7. r.lo = lo /\ r.hi = hi
  OBVIOUS
<1> HIDE DEF r
<1>8. /\ new \in Seq(Record) /\ Len(new) = Len(rs) + 1 /\ new[1] = r
      /\ \A k \in 2 .. Len(rs) + 1 : new[k] = rs[k - 1]
  BY <1>3, <1>6, Prepended
<1> HIDE DEF new
<1>9. \A k \in 1 .. Len(new) : k = 1 \/ (k \in 2 .. Len(rs) + 1 /\ k - 1 \in 1 .. Len(rs) /\ new[k] = rs[k - 1])
  BY <1>3, <1>8
<1>10. ListOk(new)
  <2>1. ASSUME NEW k \in 1 .. Len(new) PROVE new[k].lo <= new[k].hi
    BY <1>1, <1>4, <1>7, <1>8, <1>9
  <2>2. ASSUME NEW j \in 1 .. Len(new), NEW k \in 1 .. Len(new), j < k PROVE Apart(new[j], new[k])
    <3>1. k # 1
      BY <2>2
    <3>2. CASE j = 1
      BY <1>5, <1>8, <1>9, <3>1, <3>2
    <3>3. CASE j # 1
      <4>1. new[j] = rs[j - 1] /\ new[k] = rs[k - 1] /\ j - 1 \in 1 .. Len(rs) /\ k - 1 \in 1 .. Len(rs)
        BY <1>9, <3>1, <3>3
      <4>2. j - 1 < k - 1
        BY <2>2
      <4>3. QED
        BY <4>1, <4>2 DEF ListOk
    <3>4. QED
      BY <3>2, <3>3
  <2>3. QED
    BY <1>8, <2>1, <2>2 DEF ListOk
<1>11. Records(new) = Records(rs) \cup {r}
  <2>1. ASSUME NEW x \in Records(new) PROVE x \in Records(rs) \cup {r}
    BY <1>8, <1>9 DEF Records
  <2>2. ASSUME NEW x \in Records(rs) PROVE x \in Records(new)
    <3>1. PICK k \in 1 .. Len(rs) : x = rs[k]
      BY DEF Records
    <3>2. k + 1 \in 2 .. Len(rs) + 1 /\ k + 1 \in 1 .. Len(new) /\ (k + 1) - 1 = k
      BY <1>3, <1>8
    <3>3. new[k + 1] = x
      BY <1>8, <3>1, <3>2
    <3>4. QED
      BY <3>2, <3>3 DEF Records
  <2>3. r \in Records(new)
    <3>1. 1 \in 1 .. Len(new)
      BY <1>3, <1>8
    <3>2. QED
      BY <1>8, <3>1 DEF Records
  <2>4. QED
    BY <2>1, <2>2, <2>3
<1>12. \A x \in Records(rs) : x.lo # lo
  BY <1>5 DEF Records
<1>13. r = [lo |-> lo, hi |-> lo + size - 1]
  BY DEF r, hi
<1>14. QED
  BY <1>2, <1>8, <1>10, <1>11, <1>12, <1>13

\* A record taken out.
LEMMA TakenOut ==
  ASSUME NEW rs \in Seq(Record), NEW f \in 1 .. Len(rs)
  PROVE  LET out == SubSeq(rs, 1, f - 1) \o SubSeq(rs, f + 1, Len(rs))
         IN  /\ out \in Seq(Record) /\ Len(out) = Len(rs) - 1
             /\ \A k \in 1 .. Len(rs) - 1 : out[k] = rs[IF k < f THEN k ELSE k + 1]
<1> DEFINE a == SubSeq(rs, 1, f - 1)
           b == SubSeq(rs, f + 1, Len(rs))
<1>1. Len(rs) \in Nat /\ f \in Nat /\ f >= 1 /\ f <= Len(rs)
  OBVIOUS
<1>2. a \in Seq(Record) /\ Len(a) = f - 1 /\ \A k \in 1 .. f - 1 : a[k] = rs[k]
  BY <1>1
<1>3. b \in Seq(Record) /\ Len(b) = Len(rs) - f
  BY <1>1
<1>4. \A k \in 1 .. Len(rs) - f : b[k] = rs[f + k]
  BY <1>1
<1> HIDE DEF a, b
<1>5. /\ a \o b \in Seq(Record) /\ Len(a \o b) = Len(a) + Len(b)
      /\ \A i \in 1 .. Len(a) + Len(b) : (a \o b)[i] = IF i <= Len(a) THEN a[i] ELSE b[i - Len(a)]
  BY <1>2, <1>3, ConcatProperties
<1> DEFINE out == a \o b
<1> HIDE DEF out
<1>6. out \in Seq(Record) /\ Len(out) = Len(rs) - 1
  BY <1>1, <1>2, <1>3, <1>5 DEF out
<1>7. ASSUME NEW k \in 1 .. Len(rs) - 1 PROVE out[k] = rs[IF k < f THEN k ELSE k + 1]
  <2>1. out[k] = IF k <= f - 1 THEN a[k] ELSE b[k - (f - 1)]
    BY <1>1, <1>2, <1>3, <1>5 DEF out
  <2>2. CASE k < f
    BY <1>1, <1>2, <2>1, <2>2
  <2>3. CASE k >= f
    <3>1. k - (f - 1) \in 1 .. Len(rs) - f /\ f + (k - (f - 1)) = k + 1 /\ ~(k <= f - 1) /\ ~(k < f)
      BY <1>1, <2>3
    <3>2. b[k - (f - 1)] = rs[f + (k - (f - 1))]
      BY <1>4, <3>1
    <3>3. QED
      BY <2>1, <3>1, <3>2
  <2>4. QED
    BY <1>1, <2>2, <2>3
<1>8. QED
  BY <1>6, <1>7 DEF out, a, b

\* remove_range takes the records that start at lo off a range list: there is
\* one at most, so the first is all.
LEMMA Removing ==
  ASSUME NEW rs, ListOk(rs), NEW lo
  PROVE  /\ ListOk(remove_range(rs, lo))
         /\ Records(remove_range(rs, lo)) = {r \in Records(rs) : r.lo # lo}
         /\ (\E r \in Records(rs) : r.lo = lo) => Len(remove_range(rs, lo)) = Len(rs) - 1
<1> DEFINE found == {k \in DOMAIN rs : rs[k].lo = lo}
           first == CHOOSE k \in found : \A j \in found : k <= j
<1>1. rs \in Seq(Record) /\ Len(rs) \in Nat /\ DOMAIN rs = 1 .. Len(rs)
  BY DEF ListOk
<1>2. \A k \in 1 .. Len(rs) : rs[k].lo \in Nat /\ rs[k].hi \in Nat /\ rs[k].lo <= rs[k].hi
  <2>1. \A k \in 1 .. Len(rs) : rs[k] \in Record
    BY <1>1
  <2>2. QED
    BY <2>1 DEF ListOk, Record
<1>3. CASE found = {}
  <2>1. remove_range(rs, lo) = rs
    BY <1>3 DEF remove_range
  <2>2. \A r \in Records(rs) : r.lo # lo
    BY <1>1, <1>3 DEF Records
  <2>3. QED
    BY <2>1, <2>2
<1>4. CASE found # {}
  <2>1. PICK f \in 1 .. Len(rs) : rs[f].lo = lo
    BY <1>1, <1>4
  <2>2. ASSUME NEW k \in 1 .. Len(rs), k # f PROVE rs[k].lo # lo
    <3>1. Apart(rs[k], rs[f]) \/ Apart(rs[f], rs[k])
      <4>1. k < f \/ f < k
        BY <2>2
      <4>2. QED
        BY <4>1 DEF ListOk
    <3>2. QED
      BY <1>2, <2>1, <3>1 DEF Apart
  <2>3. found = {f}
    BY <1>1, <2>1, <2>2
  <2>4. first = f
    BY <2>3
  <2> DEFINE out == SubSeq(rs, 1, f - 1) \o SubSeq(rs, f + 1, Len(rs))
  <2>5. remove_range(rs, lo) = out
    BY <1>4, <2>4 DEF remove_range
  <2>6. /\ out \in Seq(Record) /\ Len(out) = Len(rs) - 1
        /\ \A k \in 1 .. Len(rs) - 1 : out[k] = rs[IF k < f THEN k ELSE k + 1]
    BY <1>1, TakenOut
  <2> HIDE DEF found, first, out
  <2> DEFINE at(k) == IF k < f THEN k ELSE k + 1
  <2>7. \A k \in 1 .. Len(out) : at(k) \in 1 .. Len(rs) /\ at(k) # f /\ out[k] = rs[at(k)]
    BY <1>1, <2>6
  <2>8. \A j, k \in 1 .. Len(out) : j < k => at(j) < at(k)
    BY <1>1, <2>6
  <2>9. \A m \in 1 .. Len(rs) : m # f => \E k \in 1 .. Len(out) : at(k) = m
    <3> SUFFICES ASSUME NEW m \in 1 .. Len(rs), m # f PROVE \E k \in 1 .. Len(out) : at(k) = m
      OBVIOUS
    <3>1. CASE m < f
      <4>1. m \in 1 .. Len(out) /\ at(m) = m
        BY <1>1, <2>6, <3>1
      <4>2. QED
        BY <4>1
    <3>2. CASE m > f
      <4>1. m - 1 \in 1 .. Len(out) /\ at(m - 1) = m
        BY <1>1, <2>6, <3>2
      <4>2. QED
        BY <4>1
    <3>3. QED
      BY <3>1, <3>2
  <2> HIDE DEF at
  <2>10. ListOk(out)
    BY <2>6, <2>7, <2>8 DEF ListOk
  <2>11. Records(out) = {r \in Records(rs) : r.lo # lo}
    <3>1. ASSUME NEW r \in Records(out) PROVE r \in Records(rs) /\ r.lo # lo
      BY <2>2, <2>7 DEF Records
    <3>2. ASSUME NEW r \in Records(rs), r.lo # lo PROVE r \in Records(out)
      <4>1. PICK m \in 1 .. Len(rs) : r = rs[m]
        BY DEF Records
      <4>2. m # f
        BY <2>1, <3>2, <4>1
      <4>3. PICK k \in 1 .. Len(out) : at(k) = m
        BY <2>9, <4>2
      <4>4. QED
        BY <2>7, <4>1, <4>3 DEF Records
    <3>3. QED
      BY <3>1, <3>2
  <2>12. QED
    BY <2>5, <2>6, <2>10, <2>11
<1>5. QED
  BY <1>3, <1>4

-----------------------------------------------------------------------------
\* The invariant

\* The ids that the trace holds, and the size it last asked for each.
Held == Alive(Trace, opnum - 1)
Size(i) == Asked(Trace, opnum - 1, i)
Trusted == allocator # "arbitrary"

TypeInv ==
  /\ traces \in [1 .. NumTraces -> Traces]
  /\ allocator \in {"correct", "failing", "arbitrary"}
  /\ pass \in Passes \cup {"read", "exit", "aborted"}
  /\ tracenum \in 0 .. NumTraces
  /\ pass \in Passes => tracenum \in 1 .. NumTraces
  /\ opnum \in Nat
  /\ pass \in Passes => opnum <= Len(Trace) + 1
  /\ blocks \in [Ids -> Addr \cup {NULL}]
  /\ block_sizes \in [Ids -> Nat]
  /\ valid \in [1 .. NumTraces -> BOOLEAN]
  /\ mem_brk \in 0 .. Top
  /\ Running_ => \A i \in Held : i \in Ids /\ Size(i) \in Nat \ {0}

\* The range list has the extents of the blocks held.  That the blocks start
\* at different addresses is what keeps remove_range from taking another's.
RangesInv ==
  pass = "valid" /\ opnum > 0 =>
    /\ IsFiniteSet(Held) /\ Len(ranges) = Cardinality(Held)
    /\ Records(ranges) = {[lo |-> blocks[i], hi |-> blocks[i] + Size(i) - 1] : i \in Held}
    /\ \A i \in Held : blocks[i] \in Nat /\ block_sizes[i] = Size(i)
    /\ \A i, j \in Held : blocks[i] = blocks[j] => i = j

\* What an allocator that keeps its promise has handed out.
HandedInv ==
  Running_ /\ Trusted =>
    /\ handed = {[p |-> blocks[i], size |-> Size(i)] : i \in Held}
    /\ \A i \in Held : blocks[i] \in Addr /\ blocks[i] + Size(i) <= mem_brk
    /\ \A i, j \in Held : i # j => Extent(blocks[i], Size(i)) \cap Extent(blocks[j], Size(j)) = {}

\* Each block of the first pass holds the byte it was filled with.
FilledInv ==
  pass = "valid" /\ opnum > 0 /\ Trusted =>
    \A i \in Held : \A a \in Extent(blocks[i], Size(i)) : bytes[a] = Fill(i)

DriverInv ==
  /\ TypeInv
  /\ ListOk(ranges)
  /\ RangesInv
  /\ HandedInv
  /\ FilledInv
  /\ NoFalseAlarm

\* The request in turn.
LEMMA Requested ==
  ASSUME TypeInv, pass \in Passes, opnum \in DOMAIN Trace
  PROVE  /\ Trace \in Traces /\ Trace \in Seq(Request)
         /\ opnum \in Nat \ {0} /\ opnum <= Len(Trace) /\ Running_
         /\ Op.index \in Ids /\ Op.size \in Nat /\ Op.type \in {"a", "r", "f"}
         /\ Op.type # "f" => Op.size > 0
         /\ Op.type = "a" <=> Op.index \notin Held
<1>1. Trace \in Traces
  BY DEF TypeInv, Trace
<1>2. Trace \in Seq(Request)
  BY <1>1, DriverAssumption DEF Request
<1>3. opnum \in Nat \ {0} /\ opnum <= Len(Trace) /\ DOMAIN Trace = 1 .. Len(Trace)
  BY <1>2
<1>4. Op \in Request
  BY <1>2, <1>3 DEF Op
<1>5. Op.type # "f" => Op.size > 0
  BY <1>1, DriverAssumption DEF Op
<1>6. Op.type = "a" <=> Op.index \notin Held
  BY <1>1, TracesAssumption DEF Op, Held
<1>7. QED
  BY <1>1, <1>2, <1>3, <1>4, <1>5, <1>6 DEF Request, Running_

\* What the trace holds once the request is served.
LEMMA Served ==
  ASSUME TypeInv, pass \in Passes, opnum \in DOMAIN Trace,
         opnum' = opnum + 1, UNCHANGED <<traces, tracenum>>
  PROVE  /\ Held' = IF Op.type = "f" THEN Held \ {Op.index} ELSE Held \cup {Op.index}
         /\ \A i : Size(i)' = IF i = Op.index THEN Op.size ELSE Size(i)
<1>1. Trace \in Seq(Request) /\ opnum \in Nat
  BY Requested
<1>2. Trace' = Trace /\ opnum' - 1 = opnum
  BY <1>1 DEF Trace
<1>3. /\ Alive(Trace, opnum) = IF Op.type = "f" THEN Alive(Trace, opnum - 1) \ {Op.index}
                               ELSE Alive(Trace, opnum - 1) \cup {Op.index}
      /\ Asked(Trace, opnum, Op.index) = Op.size
      /\ \A i : i # Op.index => Asked(Trace, opnum, i) = Asked(Trace, opnum - 1, i)
  BY <1>1, AliveStep DEF Op
<1>4. Held' = Alive(Trace, opnum) /\ \A i : Size(i)' = Asked(Trace, opnum, i)
  BY <1>2 DEF Held, Size
<1>5. QED
  BY <1>3, <1>4 DEF Held, Size

\* What a request gives up: nothing, or the block of its id.
Gives(oldp) ==
  \/ Op.type = "a" /\ oldp = NULL
  \/ Op.type # "a" /\ oldp = blocks[Op.index]

\* The other blocks.
Others == Held \ {Op.index}

\* Payloads that have no byte in common lie on one side of each other.
LEMMA Beside ==
  ASSUME NEW p \in Int, NEW q \in Int, NEW n \in Nat \ {0}, NEW m \in Nat \ {0},
         Extent(p, n) \cap Extent(q, m) = {}
  PROVE  p + n <= q \/ q + m <= p
<1>1. p \notin Extent(q, m) /\ q \notin Extent(p, n)
  <2>1. p \in Extent(p, n) /\ q \in Extent(q, m)
    BY DEF Extent
  <2>2. QED
    BY <2>1
<1>2. QED
  BY <1>1 DEF Extent

\* The regions that an allocator that keeps its promise still counts as
\* handed out when it got oldp back are those of the other blocks.
LEMMA StillHanded ==
  ASSUME TypeInv, HandedInv, Trusted, pass \in Passes, opnum \in DOMAIN Trace,
         NEW oldp, Gives(oldp)
  PROVE  {r \in handed : r.p # oldp} = {[p |-> blocks[i], size |-> Size(i)] : i \in Others}
<1>1. Running_ /\ (Op.type = "a" <=> Op.index \notin Held)
  BY Requested
<1>2. /\ handed = {[p |-> blocks[i], size |-> Size(i)] : i \in Held}
      /\ \A i \in Held : blocks[i] \in Addr
      /\ \A i, j \in Held : i # j => Extent(blocks[i], Size(i)) \cap Extent(blocks[j], Size(j)) = {}
  BY <1>1 DEF HandedInv
<1>3. \A i \in Held : Size(i) \in Nat \ {0} /\ blocks[i] \in Int /\ blocks[i] # NULL
  BY <1>1, <1>2, DriverAssumption DEF TypeInv, Addr, NULL
<1>4. \A i \in Held : blocks[i] # oldp <=> i \in Others
  <2>1. CASE Op.type = "a"
    BY <1>1, <1>3, <2>1 DEF Gives, Others
  <2>2. CASE Op.type # "a"
    <3>1. Op.index \in Held /\ oldp = blocks[Op.index]
      BY <1>1, <2>2 DEF Gives
    <3>2. ASSUME NEW i \in Held, i # Op.index PROVE blocks[i] # oldp
      <4>1. blocks[i] + Size(i) <= oldp \/ oldp + Size(Op.index) <= blocks[i]
        BY <1>2, <1>3, <3>1, <3>2, Beside
      <4>2. QED
        BY <1>3, <3>1, <4>1
    <3>3. QED
      BY <3>1, <3>2 DEF Others
  <2>3. QED
    BY <2>1, <2>2
<1>5. QED
  BY <1>2, <1>4 DEF Others

\* What is left of the range list when the request's old block is off it.
Left(oldp) == IF Op.type = "a" THEN ranges ELSE remove_range(ranges, oldp)

\* It has the extents of the other blocks.
LEMMA LeftIs ==
  ASSUME TypeInv, ListOk(ranges), RangesInv, pass = "valid", opnum \in DOMAIN Trace,
         NEW oldp, Gives(oldp)
  PROVE  /\ ListOk(Left(oldp))
         /\ IsFiniteSet(Others) /\ Len(Left(oldp)) = Cardinality(Others)
         /\ Records(Left(oldp)) = {[lo |-> blocks[i], hi |-> blocks[i] + Size(i) - 1] : i \in Others}
<1> DEFINE rec(i) == [lo |-> blocks[i], hi |-> blocks[i] + Size(i) - 1]
<1>1. pass \in Passes
  BY DEF Passes
<1>2. opnum > 0 /\ (Op.type = "a" <=> Op.index \notin Held)
  BY <1>1, Requested
<1>3. /\ IsFiniteSet(Held) /\ Len(ranges) = Cardinality(Held)
      /\ Records(ranges) = {rec(i) : i \in Held}
      /\ \A i, j \in Held : blocks[i] = blocks[j] => i = j
  BY <1>2 DEF RangesInv
<1>4. CASE Op.type = "a"
  <2>1. Left(oldp) = ranges /\ Others = Held
    BY <1>2, <1>4 DEF Left, Others
  <2>2. QED
    BY <1>3, <2>1
<1>5. CASE Op.type # "a"
  <2>1. Op.index \in Held /\ oldp = blocks[Op.index] /\ Left(oldp) = remove_range(ranges, oldp)
    BY <1>2, <1>5 DEF Gives, Left
  <2>2. IsFiniteSet(Others) /\ Cardinality(Others) = Cardinality(Held) - 1
    BY <1>3, <2>1, FS_RemoveElement DEF Others
  <2>3. rec(Op.index) \in Records(ranges) /\ rec(Op.index).lo = oldp
    BY <1>3, <2>1
  <2>4. /\ ListOk(Left(oldp)) /\ Len(Left(oldp)) = Len(ranges) - 1
        /\ Records(Left(oldp)) = {r \in Records(ranges) : r.lo # oldp}
    BY <2>1, <2>3, Removing
  <2>5. {r \in Records(ranges) : r.lo # oldp} = {rec(i) : i \in Others}
    <3>1. \A i \in Held : rec(i).lo # oldp <=> i \in Others
      BY <1>3, <2>1 DEF Others
    <3> HIDE DEF rec
    <3>2. QED
      BY <1>3, <3>1 DEF Others
  <2>6. QED
    BY <1>3, <2>2, <2>4, <2>5
<1>6. QED
  BY <1>4, <1>5

-----------------------------------------------------------------------------
\* A request to allocate or to resize

\* What Alloc and Realloc do alike once the request is served.
Grants(oldp, brk, p, c) ==
  /\ Gives(oldp) /\ Op.type # "f"
  /\ brk \in Breaks /\ brk >= mem_brk /\ mem_brk' = brk
  /\ p \in Answers(Op.size, oldp, brk) /\ p # NULL
  /\ \E n \in 0 .. Op.size : c \in Contents(p, oldp, n)
  /\ pass = "valid" => Accepted(Left(oldp), p, Op.size, brk)
  /\ handed' = Given(p, Op.size, oldp)
  /\ ranges' = IF pass = "valid" THEN add_range(Left(oldp), p, Op.size) ELSE ranges
  /\ bytes' = Filled(c, p)
  /\ Remember(p)
  /\ opnum' = opnum + 1
  /\ UNCHANGED <<traces, allocator, tracenum, pass, valid>>

\* What a promise keeping allocator answers.
LEMMA Usable ==
  ASSUME Trusted, TypeInv, NEW size, NEW oldp, NEW brk, NEW p \in Answers(size, oldp, brk), p # NULL
  PROVE  /\ p \in Addr /\ p % ALIGNMENT = 0 /\ p + size <= brk
         /\ \A r \in handed : r.p # oldp => Extent(p, size) \cap Extent(r.p, r.size) = {}
  BY DEF Trusted, TypeInv, Answers

\* Any allocator answers an address or the null pointer.
LEMMA AnswerIs ==
  ASSUME NEW size, NEW oldp, NEW brk, NEW p \in Answers(size, oldp, brk)
  PROVE  p \in Addr \cup {NULL}
  BY DEF Answers

\* The driver's own state is typed.
LEMMA GrantsType ==
  ASSUME TypeInv, pass \in Passes, opnum \in DOMAIN Trace,
         NEW oldp, NEW brk, NEW p, NEW c, Grants(oldp, brk, p, c)
  PROVE  TypeInv'
<1>1. /\ opnum \in Nat \ {0} /\ opnum <= Len(Trace) /\ Trace \in Seq(Request)
      /\ Op.index \in Ids /\ Op.size \in Nat /\ Op.size > 0 /\ Running_
  BY Requested DEF Grants
<1>2. Held' = Held \cup {Op.index} /\ \A i : Size(i)' = IF i = Op.index THEN Op.size ELSE Size(i)
  BY Served DEF Grants
<1>3. UNCHANGED <<traces, allocator, tracenum, pass, valid>> /\ Trace' = Trace
  BY DEF Grants, Trace
<1>4. opnum' \in Nat /\ opnum' <= Len(Trace') + 1
  BY <1>1, <1>3 DEF Grants
<1>5. mem_brk' \in 0 .. Top
  BY DriverAssumption DEF Grants
<1>6. blocks' \in [Ids -> Addr \cup {NULL}] /\ block_sizes' \in [Ids -> Nat]
  <2>1. p \in Addr \cup {NULL}
    BY AnswerIs DEF Grants
  <2>2. QED
    BY <1>1, <2>1 DEF Grants, Remember, TypeInv
<1>7. \A i \in Held' : i \in Ids /\ Size(i)' \in Nat \ {0}
  BY <1>1, <1>2 DEF TypeInv
<1>8. QED
  BY <1>3, <1>4, <1>5, <1>6, <1>7 DEF TypeInv

\* The request's id and its answer replace whatever was there for the id.
LEMMA Remembered ==
  ASSUME TypeInv, pass \in Passes, opnum \in DOMAIN Trace,
         NEW oldp, NEW brk, NEW p, NEW c, Grants(oldp, brk, p, c)
  PROVE  /\ Held' = Others \cup {Op.index} /\ Op.index \notin Others
         /\ \A i : Size(i)' = IF i = Op.index THEN Op.size ELSE Size(i)
         /\ \A i \in Others : blocks'[i] = blocks[i]
         /\ blocks'[Op.index] = p /\ p \in Addr
         /\ Op.size \in Nat \ {0} /\ Op.index \in Ids /\ Others \subseteq Ids
<1>1. Op.index \in Ids /\ Op.size \in Nat \ {0} /\ Running_
  BY Requested DEF Grants
<1>2. Held' = Held \cup {Op.index} /\ \A i : Size(i)' = IF i = Op.index THEN Op.size ELSE Size(i)
  BY Served DEF Grants
<1>3. p \in Addr
  BY AnswerIs DEF Grants
<1>4. Others \subseteq Ids
  BY <1>1 DEF TypeInv, Others
<1>5. blocks' = [blocks EXCEPT ![Op.index] = p]
  BY DEF Grants, Remember
<1>6. (\A i \in Others : blocks'[i] = blocks[i]) /\ blocks'[Op.index] = p
  BY <1>1, <1>4, <1>5 DEF TypeInv, Others
<1>7. QED
  BY <1>1, <1>2, <1>3, <1>4, <1>6 DEF Others

\* The range list follows.
LEMMA GrantsRanges ==
  ASSUME TypeInv, ListOk(ranges), RangesInv, pass \in Passes, opnum \in DOMAIN Trace,
         NEW oldp, NEW brk, NEW p, NEW c, Grants(oldp, brk, p, c)
  PROVE  ListOk(ranges') /\ RangesInv'
<1>1. CASE pass # "valid"
  BY <1>1 DEF Grants, RangesInv
<1>2. CASE pass = "valid"
  <2> DEFINE x == Op.index
             left == Left(oldp)
             rec(i) == [lo |-> blocks[i], hi |-> blocks[i] + Size(i) - 1]
             new == [lo |-> p, hi |-> p + Op.size - 1]
  <2>1. /\ Held' = Others \cup {x} /\ x \notin Others
        /\ \A i : Size(i)' = IF i = x THEN Op.size ELSE Size(i)
        /\ \A i \in Others : blocks'[i] = blocks[i]
        /\ blocks'[x] = p /\ p \in Nat
        /\ Op.size \in Nat \ {0} /\ x \in Ids /\ Others \subseteq Ids
    BY Remembered, DriverAssumption DEF Addr
  <2>2. /\ ListOk(left) /\ IsFiniteSet(Others) /\ Len(left) = Cardinality(Others)
        /\ Records(left) = {rec(i) : i \in Others}
    BY <1>2, LeftIs DEF Grants
  <2>3. Accepted(left, p, Op.size, brk) /\ ranges' = add_range(left, p, Op.size)
    BY <1>2 DEF Grants
  <2>4. /\ ListOk(ranges') /\ Len(ranges') = Len(left) + 1
        /\ Records(ranges') = Records(left) \cup {new}
        /\ \A r \in Records(left) : r.lo # p
    BY <2>1, <2>2, <2>3, Adding
  <2>5. IsFiniteSet(Held') /\ Len(ranges') = Cardinality(Held')
    BY <2>1, <2>2, <2>4, FS_AddElement
  <2>6. Records(ranges') = {[lo |-> blocks'[i], hi |-> blocks'[i] + Size(i)' - 1] : i \in Held'}
    <3>1. \A i \in Others : [lo |-> blocks'[i], hi |-> blocks'[i] + Size(i)' - 1] = rec(i)
      BY <2>1
    <3>2. \A i \in {x} : [lo |-> blocks'[i], hi |-> blocks'[i] + Size(i)' - 1] = new
      BY <2>1
    <3> DEFINE rec2(i) == [lo |-> blocks'[i], hi |-> blocks'[i] + Size(i)' - 1]
    <3>3. /\ \A i \in Others : rec2(i) = rec(i)
          /\ \A i \in {x} : rec2(i) = new
      BY <3>1, <3>2
    <3> HIDE DEF rec2, rec, new
    <3>4. {rec(i) : i \in Others} \cup {new} = {rec2(i) : i \in Others \cup {x}}
      BY <3>3
    <3>5. Records(ranges') = {rec2(i) : i \in Held'}
      BY <2>1, <2>2, <2>4, <3>4
    <3>6. QED
      BY <3>5 DEF rec2
  <2>7. \A i \in Others : blocks[i] \in Nat /\ block_sizes[i] = Size(i) /\ blocks[i] # p
    <3>1. \A i \in Others : blocks[i] \in Nat /\ block_sizes[i] = Size(i)
      BY <1>2, Requested DEF RangesInv, Others
    <3>2. \A i \in Others : rec(i) \in Records(left) /\ rec(i).lo = blocks[i]
      BY <2>2
    <3>3. QED
      BY <2>4, <3>1, <3>2
  <2>8. \A i, j \in Others : blocks[i] = blocks[j] => i = j
    BY <1>2, Requested DEF RangesInv, Others
  <2>9. \A i, j \in Held' : blocks'[i] = blocks'[j] => i = j
    BY <2>1, <2>7, <2>8
  <2>10. \A i \in Held' : blocks'[i] \in Nat /\ block_sizes'[i] = Size(i)'
    <3>1. block_sizes' = [block_sizes EXCEPT ![x] = Op.size]
      BY <1>2 DEF Grants, Remember
    <3>2. (\A i \in Others : block_sizes'[i] = block_sizes[i]) /\ block_sizes'[x] = Op.size
      BY <2>1, <3>1 DEF TypeInv
    <3>3. QED
      BY <2>1, <2>7, <3>2
  <2>11. QED
    BY <2>4, <2>5, <2>6, <2>9, <2>10 DEF RangesInv
<1>3. QED
  BY <1>1, <1>2

\* So do the regions handed out by an allocator that keeps its promise.
LEMMA GrantsHanded ==
  ASSUME TypeInv, HandedInv, pass \in Passes, opnum \in DOMAIN Trace,
         NEW oldp, NEW brk, NEW p, NEW c, Grants(oldp, brk, p, c)
  PROVE  HandedInv'
<1> SUFFICES ASSUME Trusted
             PROVE  /\ handed' = {[p |-> blocks'[i], size |-> Size(i)'] : i \in Held'}
                    /\ \A i \in Held' : blocks'[i] \in Addr /\ blocks'[i] + Size(i)' <= mem_brk'
                    /\ \A i, j \in Held' : i # j =>
                         Extent(blocks'[i], Size(i)') \cap Extent(blocks'[j], Size(j)') = {}
  BY DEF HandedInv, Trusted, Grants, Extent
<1> DEFINE x == Op.index
           rec(i) == [p |-> blocks[i], size |-> Size(i)]
           new == [p |-> p, size |-> Op.size]
<1>1. /\ Held' = Others \cup {x} /\ x \notin Others
      /\ \A i : Size(i)' = IF i = x THEN Op.size ELSE Size(i)
      /\ \A i \in Others : blocks'[i] = blocks[i]
      /\ blocks'[x] = p /\ p \in Addr
      /\ Op.size \in Nat \ {0} /\ x \in Ids /\ Others \subseteq Ids
  BY Remembered
<1>2. {r \in handed : r.p # oldp} = {rec(i) : i \in Others}
  BY StillHanded DEF Grants
<1>3. /\ p + Op.size <= brk /\ brk = mem_brk' /\ mem_brk <= brk
      /\ \A r \in handed : r.p # oldp => Extent(p, Op.size) \cap Extent(r.p, r.size) = {}
  BY Usable DEF Grants
<1>4. \A i \in Others : Extent(p, Op.size) \cap Extent(blocks[i], Size(i)) = {}
  <2>1. \A i \in Others : rec(i) \in handed /\ rec(i).p # oldp
    BY <1>2
  <2>2. \A i \in Others : Extent(p, Op.size) \cap Extent(rec(i).p, rec(i).size) = {}
    BY <1>3, <2>1
  <2>3. QED
    BY <2>2
<1>5. /\ \A i \in Others : blocks[i] \in Addr /\ blocks[i] + Size(i) <= mem_brk /\ Size(i) \in Nat
      /\ \A i, j \in Others : i # j => Extent(blocks[i], Size(i)) \cap Extent(blocks[j], Size(j)) = {}
  BY Requested DEF HandedInv, Others, TypeInv
<1>6. handed' = {[p |-> blocks'[i], size |-> Size(i)'] : i \in Held'}
  <2>1. handed' = {rec(i) : i \in Others} \cup {new}
    BY <1>2 DEF Grants, Given, Trusted
  <2> DEFINE rec2(i) == [p |-> blocks'[i], size |-> Size(i)']
  <2>2. /\ \A i \in Others : rec2(i) = rec(i)
        /\ \A i \in {x} : rec2(i) = new
    BY <1>1
  <2> HIDE DEF rec, rec2, new
  <2>3. {rec(i) : i \in Others} \cup {new} = {rec2(i) : i \in Others \cup {x}}
    BY <2>2
  <2>4. handed' = {rec2(i) : i \in Held'}
    BY <1>1, <2>1, <2>3
  <2>5. QED
    BY <2>4 DEF rec2
<1>7. ASSUME NEW i \in Held' PROVE blocks'[i] \in Addr /\ blocks'[i] + Size(i)' <= mem_brk'
  <2>1. CASE i = x
    BY <1>1, <1>3, <2>1
  <2>2. CASE i \in Others
    <3>1. blocks'[i] = blocks[i] /\ Size(i)' = Size(i)
      BY <1>1, <2>2
    <3>2. brk \in Int /\ mem_brk \in Int /\ blocks[i] \in Int /\ Size(i) \in Int
      BY <1>5, <2>2, DriverAssumption DEF TypeInv, Grants, Addr
    <3>3. QED
      BY <1>3, <1>5, <2>2, <3>1, <3>2
  <2>3. QED
    BY <1>1, <2>1, <2>2
<1>8. ASSUME NEW i \in Held', NEW j \in Held', i # j
      PROVE  Extent(blocks'[i], Size(i)') \cap Extent(blocks'[j], Size(j)') = {}
  <2>1. CASE i = x
    <3>1. j \in Others /\ blocks'[i] = p /\ Size(i)' = Op.size /\ blocks'[j] = blocks[j] /\ Size(j)' = Size(j)
      BY <1>1, <1>8, <2>1
    <3>2. QED
      BY <1>4, <3>1
  <2>2. CASE j = x
    <3>1. i \in Others /\ blocks'[j] = p /\ Size(j)' = Op.size /\ blocks'[i] = blocks[i] /\ Size(i)' = Size(i)
      BY <1>1, <1>8, <2>2
    <3>2. QED
      BY <1>4, <3>1
  <2>3. CASE i \in Others /\ j \in Others
    <3>1. blocks'[j] = blocks[j] /\ Size(j)' = Size(j) /\ blocks'[i] = blocks[i] /\ Size(i)' = Size(i)
      BY <1>1, <2>3
    <3>2. QED
      BY <1>5, <1>8, <2>3, <3>1
  <2>4. QED
    BY <1>1, <2>1, <2>2, <2>3
<1>9. QED
  BY <1>6, <1>7, <1>8

\* What such an allocator leaves in the array when the first pass looks: it
\* moves n bytes to p, and touches nothing else.
LEMMA ContentsIs ==
  ASSUME Trusted, pass = "valid", NEW p, NEW oldp, NEW n, NEW c \in Contents(p, oldp, n)
  PROVE  c = [a \in Addr |-> IF a \in Extent(p, n) /\ a - p + oldp \in Addr
                             THEN bytes[a - p + oldp] ELSE bytes[a]]
  BY DEF Contents, Trusted

\* And the bytes follow.
LEMMA GrantsFilled ==
  ASSUME TypeInv, HandedInv, HandedInv', FilledInv, pass \in Passes, opnum \in DOMAIN Trace,
         NEW oldp, NEW brk, NEW p, NEW c, Grants(oldp, brk, p, c)
  PROVE  FilledInv'
<1> SUFFICES ASSUME Trusted, pass = "valid", NEW i \in Held', NEW a \in Extent(blocks'[i], Size(i)')
             PROVE  bytes'[a] = Fill(i)
  BY DEF FilledInv, Trusted, Grants, Extent, Fill
<1> DEFINE x == Op.index
<1>1. /\ Held' = Others \cup {x} /\ x \notin Others
      /\ \A j : Size(j)' = IF j = x THEN Op.size ELSE Size(j)
      /\ \A j \in Others : blocks'[j] = blocks[j]
      /\ blocks'[x] = p /\ p \in Addr
      /\ Op.size \in Nat \ {0} /\ x \in Ids /\ Others \subseteq Ids
  BY Remembered
<1>2. /\ \A j \in Held' : blocks'[j] \in Addr /\ blocks'[j] + Size(j)' <= mem_brk'
      /\ \A j, k \in Held' : j # k =>
           Extent(blocks'[j], Size(j)') \cap Extent(blocks'[k], Size(k)') = {}
  <2>1. Running_' /\ Trusted'
    BY Requested DEF Running_, Trusted, Grants
  <2>2. QED
    BY <2>1 DEF HandedInv, Extent
<1>3. a \in Addr
  <2>1. blocks'[i] \in Nat /\ Size(i)' \in Nat /\ mem_brk' \in Nat /\ mem_brk' <= Top /\ Top \in Nat
    <3>1. blocks'[i] \in Addr
      BY <1>2
    <3>2. Size(i)' \in Nat
      BY <1>1, Requested DEF TypeInv, Others
    <3>3. mem_brk' \in 0 .. Top
      BY DriverAssumption DEF Grants
    <3>4. QED
      BY <3>1, <3>2, <3>3, DriverAssumption DEF Addr
  <2>2. blocks'[i] + Size(i)' <= mem_brk'
    BY <1>2
  <2>3. QED
    BY <2>1, <2>2 DEF Extent, Addr
<1>4. bytes' = [b \in Addr |-> IF b \in Extent(p, Op.size) THEN Fill(x) ELSE c[b]]
  BY DEF Grants, Filled
<1>5. CASE i = x
  BY <1>1, <1>3, <1>4, <1>5
<1>6. CASE i \in Others
  <2>1. blocks'[i] = blocks[i] /\ Size(i)' = Size(i) /\ i \in Held /\ i # x
    BY <1>1, <1>6 DEF Others
  <2>2. a \notin Extent(p, Op.size)
    <3>1. \A j \in {x} : j \in Held' /\ i # j /\ Size(j)' = Op.size /\ blocks'[j] = p
      BY <1>1, <2>1
    <3>2. \A j \in {x} : a \notin Extent(blocks'[j], Size(j)')
      BY <1>2, <3>1
    <3>3. QED
      BY <3>1, <3>2
  <2>3. PICK n \in 0 .. Op.size : c \in Contents(p, oldp, n)
    BY DEF Grants
  <2>4. a \notin Extent(p, n)
    BY <1>1, <2>2, DriverAssumption DEF Extent, Addr
  <2>5. c[a] = bytes[a]
    BY <1>3, <2>3, <2>4, ContentsIs
  <2>6. bytes[a] = Fill(i)
    BY <2>1, Requested DEF FilledInv
  <2>7. QED
    BY <1>3, <1>4, <2>2, <2>5, <2>6
<1>7. QED
  BY <1>1, <1>5, <1>6

\* Serving a request keeps the invariant.
LEMMA GrantsInv ==
  ASSUME DriverInv, pass \in Passes, opnum \in DOMAIN Trace,
         NEW oldp, NEW brk, NEW p, NEW c, Grants(oldp, brk, p, c)
  PROVE  DriverInv'
<1>1. TypeInv' /\ ListOk(ranges') /\ RangesInv' /\ HandedInv'
  BY GrantsType, GrantsRanges, GrantsHanded DEF DriverInv
<1>2. FilledInv'
  BY <1>1, GrantsFilled DEF DriverInv
<1>3. NoFalseAlarm'
  BY DEF DriverInv, NoFalseAlarm, Judged, FillsNegative, Grants
<1>4. QED
  BY <1>1, <1>2, <1>3 DEF DriverInv

\* The pointer that a request to resize gives up is one the allocator knows.
LEMMA OldBlock ==
  ASSUME DriverInv, pass \in Passes, opnum \in DOMAIN Trace, Op.type # "a"
  PROVE  /\ Op.index \in Held /\ Op.index \in Ids /\ Size(Op.index) \in Nat \ {0}
         /\ Trusted => /\ blocks[Op.index] \in Addr
                       /\ blocks[Op.index] + Size(Op.index) <= mem_brk
         /\ pass = "valid" => block_sizes[Op.index] = Size(Op.index)
<1>1. Running_ /\ Op.index \in Held /\ Op.index \in Ids
  BY Requested DEF DriverInv
<1>2. QED
  BY <1>1 DEF DriverInv, TypeInv, HandedInv, RangesInv, Running_

\* eval_mm_valid accepts what a promise keeping allocator answers.
LEMMA NotRefused ==
  ASSUME DriverInv, Trusted, pass = "valid", opnum \in DOMAIN Trace, Op.type # "f",
         NEW oldp, Gives(oldp), NEW brk \in Breaks,
         NEW p \in Answers(Op.size, oldp, brk), p # NULL
  PROVE  Accepted(Left(oldp), p, Op.size, brk)
<1> DEFINE rec(i) == [lo |-> blocks[i], hi |-> blocks[i] + Size(i) - 1]
<1>1. pass \in Passes
  BY DEF Passes
<1>2. Op.size \in Nat \ {0} /\ Running_
  BY <1>1, Requested DEF DriverInv
<1>3. /\ p \in Addr /\ p % ALIGNMENT = 0 /\ p + Op.size <= brk
      /\ \A r \in handed : r.p # oldp => Extent(p, Op.size) \cap Extent(r.p, r.size) = {}
  BY Usable DEF DriverInv
<1>4. p \in Nat /\ brk \in Nat
  BY <1>3, DriverAssumption DEF Addr
<1>5. /\ ListOk(Left(oldp))
      /\ Records(Left(oldp)) = {rec(i) : i \in Others}
  BY LeftIs DEF DriverInv
<1>6. \A i \in Others : blocks[i] \in Nat /\ Size(i) \in Nat \ {0}
  BY <1>2 DEF DriverInv, TypeInv, RangesInv, Others, Running_
<1>7. ASSUME NEW i \in Others PROVE ~Overlaps(p, Hi(p, Op.size), rec(i))
  <2>1. [p |-> blocks[i], size |-> Size(i)] \in {r \in handed : r.p # oldp}
    BY <1>1, StillHanded DEF DriverInv
  <2>2. Extent(p, Op.size) \cap Extent(blocks[i], Size(i)) = {}
    BY <1>3, <2>1
  <2>3. p + Op.size <= blocks[i] \/ blocks[i] + Size(i) <= p
    BY <1>2, <1>4, <1>6, <2>2, Beside
  <2>4. rec(i).lo = blocks[i] /\ rec(i).hi = blocks[i] + Size(i) - 1
    OBVIOUS
  <2>5. QED
    BY <1>2, <1>4, <1>6, <2>3, <2>4 DEF Overlaps, Hi
<1>8. \A k \in DOMAIN Left(oldp) : ~Overlaps(p, Hi(p, Op.size), Left(oldp)[k])
  <2>1. DOMAIN Left(oldp) = 1 .. Len(Left(oldp))
    BY <1>5 DEF ListOk
  <2>2. \A k \in DOMAIN Left(oldp) : Left(oldp)[k] \in Records(Left(oldp))
    BY <2>1 DEF Records
  <2>3. \A r \in Records(Left(oldp)) : ~Overlaps(p, Hi(p, Op.size), r)
    BY <1>5, <1>7
  <2>4. QED
    BY <2>2, <2>3
<1>9. Hi(p, Op.size) <= brk - 1
  BY <1>2, <1>3, <1>4 DEF Hi
<1>10. QED
  BY <1>3, <1>4, <1>8, <1>9 DEF Accepted

\* And finds in a resized block the bytes it filled the old one with, unless
\* they are negative as chars.
LEMMA NothingLost ==
  ASSUME DriverInv, Trusted, pass = "valid", opnum \in DOMAIN Trace, Op.type = "r",
         NEW brk \in Breaks, NEW p \in Answers(Op.size, blocks[Op.index], brk), p # NULL,
         NEW c \in Contents(p, blocks[Op.index], Smaller(Op.size, block_sizes[Op.index])),
         ~FillsNegative(Trace)
  PROVE  Preserved(c, p)
<1> DEFINE x == Op.index
           oldp == blocks[x]
           n == Smaller(Op.size, block_sizes[x])
<1>1. pass \in Passes
  BY DEF Passes
<1>2. /\ x \in Held /\ Size(x) \in Nat \ {0} /\ block_sizes[x] = Size(x)
      /\ oldp \in Addr /\ oldp + Size(x) <= mem_brk /\ mem_brk \in 0 .. Top
  BY <1>1, OldBlock DEF DriverInv, TypeInv
<1>3. Op.size \in Nat \ {0} /\ Running_ /\ opnum > 0
  BY <1>1, Requested DEF DriverInv
<1>4. p \in Addr /\ p + Op.size <= brk /\ brk \in Nat /\ brk <= Top
  BY Usable, DriverAssumption DEF DriverInv
<1>5. n \in Nat /\ n <= Op.size /\ n <= Size(x)
  BY <1>2, <1>3 DEF Smaller
<1> HIDE DEF n
<1>6. Char(Fill(x)) = Fill(x)
  <2>1. ~(Char(Fill(x)) < 0)
    BY DEF FillsNegative, Op
  <2>2. x \in Nat
    BY <1>1, Requested, DriverAssumption DEF DriverInv
  <2>3. Fill(x) \in Int /\ Fill(x) < Low /\ Low \in Nat
    BY <2>2, DriverAssumption DEF Fill
  <2>4. QED
    BY <2>1, <2>3 DEF Char
<1>7. ASSUME NEW a \in Extent(p, n) PROVE Char(c[a]) = Fill(x)
  <2>1. p \in Nat /\ oldp \in Nat /\ Top \in Nat
    BY <1>2, <1>4, DriverAssumption DEF Addr
  <2>2. a \in Addr
    BY <1>4, <1>5, <1>3, <2>1 DEF Extent, Addr
  <2>3. a - p + oldp \in Extent(oldp, Size(x))
    BY <1>2, <1>5, <2>1 DEF Extent
  <2>4. a - p + oldp \in Addr
    BY <1>2, <2>1, <2>3 DEF Extent, Addr
  <2>5. c[a] = bytes[a - p + oldp]
    BY <2>2, <2>4, ContentsIs DEF n
  <2>6. bytes[a - p + oldp] = Fill(x)
    BY <1>2, <1>3, <2>3 DEF DriverInv, FilledInv
  <2>7. QED
    BY <1>6, <2>5, <2>6
<1>8. QED
  BY <1>7 DEF Preserved, n

\* A failure that the driver reports keeps the invariant, if it is not a correct
\* allocator that it blames, or the trace fills a resized block with a negative
\* char.
LEMMA Blames ==
  ASSUME DriverInv, pass \in Passes, Fail, ListOk(ranges'), mem_brk' \in 0 .. Top,
         UNCHANGED <<traces, allocator, tracenum, opnum, blocks, block_sizes, valid>>,
         allocator = "correct" => pass = "valid" /\ FillsNegative(Trace)
  PROVE  DriverInv'
<1>1. pass' \in {"read", "aborted"} /\ (pass = "valid" => pass' = "read")
  BY DEF Fail
<1>2. TypeInv'
  BY <1>1 DEF DriverInv, TypeInv, Passes, Running_
<1>3. RangesInv' /\ HandedInv' /\ FilledInv'
  BY <1>1 DEF RangesInv, HandedInv, FilledInv, Running_, Passes
<1>4. NoFalseAlarm'
  <2> SUFFICES ASSUME allocator = "correct"
               PROVE  pass' # "aborted" /\ \A k \in Judged' : valid'[k] \/ FillsNegative(traces'[k])
    BY DEF NoFalseAlarm, FillsNegative
  <2>1. pass = "valid" /\ FillsNegative(traces[tracenum]) /\ pass' = "read"
    BY <1>1 DEF Trace
  <2>2. tracenum \in Nat /\ Judged = 1 .. tracenum - 1 /\ Judged' = 1 .. tracenum
    BY <2>1 DEF Judged, DriverInv, TypeInv
  <2>3. \A k \in Judged : valid[k] \/ FillsNegative(traces[k])
    BY DEF DriverInv, NoFalseAlarm
  <2>4. \A k \in 1 .. tracenum : k \in Judged \/ k = tracenum
    BY <2>2
  <2>5. QED
    BY <2>1, <2>2, <2>3, <2>4
<1>5. QED
  BY <1>2, <1>3, <1>4 DEF DriverInv

\* A request to allocate keeps the invariant.
LEMMA AllocInv == DriverInv /\ Alloc => DriverInv'
<1> SUFFICES ASSUME DriverInv, Alloc PROVE DriverInv'
  OBVIOUS
<1>1. pass \in Passes /\ opnum \in DOMAIN Trace /\ Op.type = "a"
  BY DEF Alloc, Running, Passes
<1> DEFINE Step(brk, p, c) ==
        /\ brk >= mem_brk /\ mem_brk' = brk
        /\ IF p = NULL \/ (pass = "valid" /\ ~Accepted(ranges, p, Op.size, brk))
           THEN /\ Fail /\ bytes' = c
                /\ UNCHANGED <<blocks, block_sizes, opnum, ranges, sizes, handed>>
           ELSE /\ handed' = Given(p, Op.size, NULL)
                /\ ranges' = IF pass = "valid" THEN add_range(ranges, p, Op.size) ELSE ranges
                /\ bytes' = Filled(c, p)
                /\ Remember(p) /\ Count(Op.size)
                /\ opnum' = opnum + 1 /\ UNCHANGED <<pass, errors>>
<1>2. PICK brk \in Breaks :
        \E p \in Answers(Op.size, NULL, brk) : \E c \in Contents(p, NULL, 0) : Step(brk, p, c)
  BY DEF Alloc
<1>3. PICK p \in Answers(Op.size, NULL, brk) : \E c \in Contents(p, NULL, 0) : Step(brk, p, c)
  BY <1>2
<1>4. PICK c \in Contents(p, NULL, 0) : Step(brk, p, c)
  BY <1>3
<1>5. UNCHANGED <<traces, allocator, tracenum, valid>>
  BY DEF Alloc, input
<1>6. Gives(NULL) /\ Left(NULL) = ranges
  BY <1>1 DEF Gives, Left
<1>7. CASE p = NULL \/ (pass = "valid" /\ ~Accepted(ranges, p, Op.size, brk))
  <2>1. allocator # "correct"
    <3> SUFFICES ASSUME allocator = "correct" PROVE FALSE
      OBVIOUS
    <3>1. p # NULL
      BY <1>4, DriverAssumption DEF Answers, Addr, NULL
    <3>2. pass = "valid" => Accepted(ranges, p, Op.size, brk)
      BY <1>1, <1>6, <3>1, NotRefused DEF Trusted
    <3>3. QED
      BY <1>7, <3>1, <3>2
  <2>2. Fail /\ UNCHANGED <<opnum, blocks, block_sizes, ranges>>
    BY <1>4, <1>7
  <2>3. mem_brk' \in 0 .. Top
    BY <1>4, DriverAssumption
  <2>4. ListOk(ranges')
    BY <2>2 DEF DriverInv
  <2>5. QED
    BY <1>1, <1>5, <2>1, <2>2, <2>3, <2>4, Blames
<1>8. CASE ~(p = NULL \/ (pass = "valid" /\ ~Accepted(ranges, p, Op.size, brk)))
  <2>1. 0 \in 0 .. Op.size
    BY <1>1, Requested DEF DriverInv
  <2>2. Grants(NULL, brk, p, c)
    BY <1>1, <1>4, <1>5, <1>6, <1>8, <2>1 DEF Grants
  <2>3. QED
    BY <1>1, <2>2, GrantsInv
<1>9. QED
  BY <1>7, <1>8

\* So does a request to resize.
LEMMA ReallocInv == DriverInv /\ Realloc => DriverInv'
<1> SUFFICES ASSUME DriverInv, Realloc PROVE DriverInv'
  OBVIOUS
<1> DEFINE oldp == blocks[Op.index]
           oldsize == block_sizes[Op.index]
           left == remove_range(ranges, oldp)
<1>1. pass \in Passes /\ opnum \in DOMAIN Trace /\ Op.type = "r"
  BY DEF Realloc, Running, Passes
<1> DEFINE n == Smaller(Op.size, oldsize)
           Step(brk, p, c) ==
        /\ brk >= mem_brk /\ mem_brk' = brk
        /\ \/ /\ p = NULL
              /\ Fail /\ bytes' = c
              /\ UNCHANGED <<blocks, block_sizes, opnum, ranges, sizes, handed>>
           \/ /\ p # NULL /\ pass = "valid"
              /\ ~(Accepted(left, p, Op.size, brk) /\ Preserved(c, p))
              /\ Fail /\ bytes' = c
              /\ ranges' = IF Accepted(left, p, Op.size, brk)
                           THEN add_range(left, p, Op.size) ELSE left
              /\ UNCHANGED <<blocks, block_sizes, opnum, sizes, handed>>
           \/ /\ p # NULL
              /\ pass = "valid" => Accepted(left, p, Op.size, brk) /\ Preserved(c, p)
              /\ handed' = Given(p, Op.size, oldp)
              /\ ranges' = IF pass = "valid" THEN add_range(left, p, Op.size) ELSE ranges
              /\ bytes' = Filled(c, p)
              /\ Remember(p) /\ Count(Op.size - oldsize)
              /\ opnum' = opnum + 1 /\ UNCHANGED <<pass, errors>>
<1>2. PICK brk \in Breaks :
        \E p \in Answers(Op.size, oldp, brk) : \E c \in Contents(p, oldp, n) : Step(brk, p, c)
  BY DEF Realloc
<1>3. PICK p \in Answers(Op.size, oldp, brk) : \E c \in Contents(p, oldp, n) : Step(brk, p, c)
  BY <1>2
<1>4. PICK c \in Contents(p, oldp, n) : Step(brk, p, c)
  BY <1>3
<1>5. UNCHANGED <<traces, allocator, tracenum, valid>>
  BY DEF Realloc, input
<1>6. Gives(oldp) /\ Left(oldp) = left
  BY <1>1 DEF Gives, Left
<1>7. mem_brk' \in 0 .. Top
  BY <1>4, DriverAssumption
<1>8. Op.size \in Nat \ {0}
  BY <1>1, Requested DEF DriverInv
<1>9. CASE p = NULL
  <2>1. allocator # "correct"
    BY <1>4, <1>9, DriverAssumption DEF Answers, Addr, NULL
  <2>2. Fail /\ UNCHANGED <<opnum, blocks, block_sizes, ranges>>
    BY <1>4, <1>9
  <2>3. ListOk(ranges')
    BY <2>2 DEF DriverInv
  <2>4. QED
    BY <1>1, <1>5, <1>7, <2>1, <2>2, <2>3, Blames
<1>10. CASE p # NULL /\ pass = "valid" /\ ~(Accepted(left, p, Op.size, brk) /\ Preserved(c, p))
  <2>1. ASSUME allocator = "correct" PROVE FillsNegative(Trace)
    <3>1. Trusted
      BY <2>1 DEF Trusted
    <3>2. Accepted(left, p, Op.size, brk)
      BY <1>1, <1>6, <1>10, <3>1, NotRefused
    <3>3. ~FillsNegative(Trace) => Preserved(c, p)
      BY <1>1, <1>10, <3>1, NothingLost
    <3>4. QED
      BY <1>10, <3>2, <3>3
  <2>2. Fail /\ UNCHANGED <<opnum, blocks, block_sizes>>
        /\ ranges' = IF Accepted(left, p, Op.size, brk) THEN add_range(left, p, Op.size) ELSE left
    BY <1>4, <1>10
  <2>3. ListOk(ranges')
    <3>1. ListOk(left)
      BY Removing DEF DriverInv
    <3>2. p \in Nat
      BY <1>10, AnswerIs, DriverAssumption DEF Addr
    <3>3. Accepted(left, p, Op.size, brk) => ListOk(add_range(left, p, Op.size))
      BY <1>8, <3>1, <3>2, Adding
    <3>4. QED
      BY <2>2, <3>1, <3>3
  <2>4. QED
    BY <1>1, <1>5, <1>7, <1>10, <2>1, <2>2, <2>3, Blames
<1>11. CASE p # NULL /\ (pass = "valid" => Accepted(left, p, Op.size, brk) /\ Preserved(c, p))
  <2>1. Smaller(Op.size, oldsize) \in 0 .. Op.size
    <3>1. oldsize \in Nat
      BY <1>1, OldBlock DEF DriverInv, TypeInv
    <3>2. QED
      BY <1>8, <3>1 DEF Smaller
  <2>2. /\ handed' = Given(p, Op.size, oldp)
        /\ ranges' = IF pass = "valid" THEN add_range(left, p, Op.size) ELSE ranges
        /\ bytes' = Filled(c, p) /\ Remember(p)
        /\ opnum' = opnum + 1 /\ UNCHANGED pass
    BY <1>4, <1>11
  <2>3. Grants(oldp, brk, p, c)
    BY <1>1, <1>4, <1>5, <1>6, <1>11, <2>1, <2>2 DEF Grants
  <2>4. QED
    BY <1>1, <2>3, GrantsInv
<1>12. QED
  BY <1>9, <1>10, <1>11

\* And a request to free.
LEMMA FreeInv == DriverInv /\ Free => DriverInv'
<1> SUFFICES ASSUME DriverInv, Free PROVE DriverInv'
  OBVIOUS
<1> DEFINE oldp == blocks[Op.index]
<1>1. pass \in Passes /\ opnum \in DOMAIN Trace /\ Op.type = "f"
  BY DEF Free, Running, Passes
<1>2. /\ handed' = {r \in handed : r.p # oldp}
      /\ ranges' = IF pass = "valid" THEN remove_range(ranges, oldp) ELSE ranges
      /\ opnum' = opnum + 1
      /\ UNCHANGED <<traces, allocator, tracenum, blocks, block_sizes, pass, valid, mem_brk, bytes>>
  BY DEF Free, input
<1>3. Gives(oldp) /\ Left(oldp) = remove_range(ranges, oldp)
  BY <1>1 DEF Gives, Left
<1>4. /\ opnum \in Nat \ {0} /\ opnum <= Len(Trace) /\ Trace \in Seq(Request) /\ Running_
      /\ Op.index \in Held
  BY <1>1, Requested DEF DriverInv
<1>5. Held' = Others /\ \A i : i \in Others => Size(i)' = Size(i)
  BY <1>1, <1>2, Served DEF Others, DriverInv
<1>6. Others \subseteq Held
  BY DEF Others
<1>7. TypeInv'
  <2>1. Trace' = Trace
    BY <1>2 DEF Trace
  <2>2. opnum' \in Nat /\ opnum' <= Len(Trace') + 1
    BY <1>2, <1>4, <2>1
  <2>3. \A i \in Held' : i \in Ids /\ Size(i)' \in Nat \ {0}
    BY <1>4, <1>5, <1>6 DEF DriverInv, TypeInv
  <2>4. QED
    BY <1>2, <2>2, <2>3 DEF DriverInv, TypeInv
<1>8. ListOk(ranges')
  BY <1>2, Removing DEF DriverInv
<1>9. RangesInv'
  <2> SUFFICES ASSUME pass = "valid" PROVE RangesInv'
    BY <1>2 DEF RangesInv
  <2>1. /\ IsFiniteSet(Others) /\ Len(ranges') = Cardinality(Others)
        /\ Records(ranges') = {[lo |-> blocks[i], hi |-> blocks[i] + Size(i) - 1] : i \in Others}
    BY <1>1, <1>2, <1>3, LeftIs DEF DriverInv
  <2>2. /\ \A i \in Others : blocks[i] \in Nat /\ block_sizes[i] = Size(i)
        /\ \A i, j \in Others : blocks[i] = blocks[j] => i = j
    BY <1>4, <1>6 DEF DriverInv, RangesInv
  <2>3. {[lo |-> blocks[i], hi |-> blocks[i] + Size(i) - 1] : i \in Others} =
          {[lo |-> blocks'[i], hi |-> blocks'[i] + Size(i)' - 1] : i \in Held'}
    BY <1>2, <1>5
  <2>4. QED
    BY <1>2, <1>5, <2>1, <2>2, <2>3 DEF RangesInv
<1>10. HandedInv'
  <2> SUFFICES ASSUME Trusted PROVE HandedInv'
    BY <1>2 DEF HandedInv, Trusted
  <2>1. handed' = {[p |-> blocks[i], size |-> Size(i)] : i \in Others}
    BY <1>1, <1>2, <1>3, StillHanded DEF DriverInv
  <2>2. {[p |-> blocks[i], size |-> Size(i)] : i \in Others} =
          {[p |-> blocks'[i], size |-> Size(i)'] : i \in Held'}
    BY <1>2, <1>5
  <2>3. /\ \A i \in Others : blocks[i] \in Addr /\ blocks[i] + Size(i) <= mem_brk
        /\ \A i, j \in Others : i # j => Extent(blocks[i], Size(i)) \cap Extent(blocks[j], Size(j)) = {}
    BY <1>4, <1>6 DEF DriverInv, HandedInv
  <2>4. QED
    BY <1>2, <1>5, <2>1, <2>2, <2>3 DEF HandedInv, Extent
<1>11. FilledInv'
  <2> SUFFICES ASSUME pass = "valid", Trusted PROVE FilledInv'
    BY <1>2 DEF FilledInv, Trusted
  <2>1. \A i \in Others : \A a \in Extent(blocks[i], Size(i)) : bytes[a] = Fill(i)
    BY <1>4, <1>6 DEF DriverInv, FilledInv
  <2>2. QED
    BY <1>2, <1>5, <2>1 DEF FilledInv, Extent, Fill
<1>12. NoFalseAlarm'
  BY <1>2 DEF DriverInv, NoFalseAlarm, Judged, FillsNegative
<1>13. QED
  BY <1>7, <1>8, <1>9, <1>10, <1>11, <1>12 DEF DriverInv

-----------------------------------------------------------------------------
\* main's loop

\* Where no request is in turn, nothing is held to account.
LEMMA AtRest ==
  ASSUME pass' \notin Passes \/ opnum' = 0
  PROVE  RangesInv' /\ HandedInv' /\ FilledInv'
  BY DEF RangesInv, HandedInv, FilledInv, Running_, Passes

\* The program starts so.
LEMMA DriverInit == Init => DriverInv
<1> SUFFICES ASSUME Init PROVE DriverInv
  OBVIOUS
<1>1. NULL \in Addr \cup {NULL} /\ 0 \in 0 .. Top
  BY DriverAssumption
<1>2. TypeInv
  BY <1>1, DriverAssumption DEF Init, TypeInv, Passes, Running_
<1>3. ListOk(ranges)
  BY NoRanges DEF Init
<1>4. RangesInv /\ HandedInv /\ FilledInv
  BY DEF Init, RangesInv, HandedInv, FilledInv, Running_, Passes
<1>5. NoFalseAlarm
  BY DEF Init, NoFalseAlarm, Judged
<1>6. QED
  BY <1>2, <1>3, <1>4, <1>5 DEF DriverInv

\* The next file, or the end.
LEMMA ReadInv == DriverInv /\ (ReadTrace \/ Exit) => DriverInv'
<1> SUFFICES ASSUME DriverInv, ReadTrace \/ Exit PROVE DriverInv'
  OBVIOUS
<1>1. /\ pass = "read" /\ pass' \in {"valid", "exit"} /\ (pass' = "valid" => opnum' = 0)
      /\ UNCHANGED <<traces, allocator, ranges, valid, mem_brk>>
  BY DEF ReadTrace, Exit, input, heap
<1>2. ListOk(ranges')
  BY <1>1 DEF DriverInv
<1>3. RangesInv' /\ HandedInv' /\ FilledInv'
  BY <1>1, AtRest DEF Passes
<1>4. CASE ReadTrace
  <2>1. tracenum' = tracenum + 1 /\ pass' = "valid" /\ opnum' = 0 /\ tracenum < NumTraces
    BY <1>4 DEF ReadTrace
  <2>2. tracenum \in Nat /\ tracenum' \in 1 .. NumTraces
    BY <2>1, DriverAssumption DEF DriverInv, TypeInv
  <2>3. Trace' \in Traces
    BY <1>1, <2>2 DEF DriverInv, TypeInv, Trace
  <2>4. Len(Trace') \in Nat
    BY <2>3, DriverAssumption
  <2>5. opnum' <= Len(Trace') + 1 /\ opnum' \in Nat /\ ~Running_'
    BY <2>1, <2>4 DEF Running_
  <2>6. blocks' \in [Ids -> Addr \cup {NULL}] /\ block_sizes' \in [Ids -> Nat]
    BY <1>4 DEF ReadTrace
  <2>7. TypeInv'
    BY <1>1, <2>1, <2>2, <2>5, <2>6, DriverAssumption DEF DriverInv, TypeInv, Passes
  <2>8. Judged' = Judged
    BY <1>1, <2>1, <2>2 DEF Judged
  <2>9. NoFalseAlarm'
    BY <1>1, <2>1, <2>8 DEF DriverInv, NoFalseAlarm, FillsNegative
  <2>10. QED
    BY <1>2, <1>3, <2>7, <2>9 DEF DriverInv
<1>5. CASE Exit
  <2>1. /\ UNCHANGED <<tracenum, blocks, block_sizes, opnum>> /\ pass' = "exit"
    BY <1>5 DEF Exit
  <2>2. TypeInv'
    BY <1>1, <2>1 DEF DriverInv, TypeInv, Passes, Running_
  <2>3. NoFalseAlarm'
    BY <1>1, <2>1 DEF DriverInv, NoFalseAlarm, Judged, FillsNegative
  <2>4. QED
    BY <1>2, <1>3, <2>2, <2>3 DEF DriverInv
<1>6. QED
  BY <1>4, <1>5

\* The head of a pass.
LEMMA BeginInv == DriverInv /\ BeginPass => DriverInv'
<1> SUFFICES ASSUME DriverInv, BeginPass PROVE DriverInv'
  OBVIOUS
<1>1. /\ pass \in Passes
      /\ handed' = {} /\ mem_brk' \in Breaks
      /\ ranges' = (IF pass = "valid" THEN <<>> ELSE ranges)
      /\ UNCHANGED <<traces, allocator, tracenum, blocks, block_sizes, valid>>
  BY DEF BeginPass, Passes, input
<1>2. mem_brk' \in 0 .. Top
  BY <1>1, DriverAssumption
<1>3. ListOk(ranges')
  BY <1>1, NoRanges DEF DriverInv
<1>4. CASE allocator # "correct" /\ Fail /\ UNCHANGED opnum
  BY <1>1, <1>2, <1>3, <1>4, Blames
<1>5. CASE opnum' = 1 /\ UNCHANGED <<pass, errors>>
  <2>1. Trace' = Trace /\ Trace \in Traces
    BY <1>1 DEF Trace, DriverInv, TypeInv, Passes
  <2>2. Len(Trace) \in Nat
    BY <2>1, DriverAssumption
  <2>3. Held' = {}
    BY <1>5, AliveAtFirst DEF Held
  <2>4. opnum' \in Nat /\ opnum' <= Len(Trace') + 1
    BY <1>5, <2>1, <2>2
  <2>5. TypeInv'
    BY <1>1, <1>2, <1>5, <2>3, <2>4 DEF DriverInv, TypeInv, Passes, Running_
  <2>6. RangesInv'
    <3> SUFFICES ASSUME pass' = "valid" PROVE RangesInv'
      BY DEF RangesInv
    <3>1. ranges' = <<>>
      BY <1>1, <1>5
    <3>2. Len(ranges') = 0 /\ Records(ranges') = {}
      BY <3>1, NoRanges
    <3>3. IsFiniteSet(Held') /\ Cardinality(Held') = 0
      BY <2>3, FS_EmptySet
    <3>4. {[lo |-> blocks'[i], hi |-> blocks'[i] + Size(i)' - 1] : i \in Held'} = {}
      BY <2>3
    <3>5. QED
      BY <2>3, <3>2, <3>3, <3>4 DEF RangesInv
  <2>7. HandedInv' /\ FilledInv'
    BY <1>1, <2>3 DEF HandedInv, FilledInv
  <2>8. NoFalseAlarm'
    BY <1>1, <1>5 DEF DriverInv, NoFalseAlarm, Judged, FillsNegative
  <2>9. QED
    BY <1>3, <2>5, <2>6, <2>7, <2>8 DEF DriverInv
<1>6. QED
  BY <1>4, <1>5 DEF BeginPass

\* The end of a pass.
LEMMA EndInv == DriverInv /\ EndPass => DriverInv'
<1> SUFFICES ASSUME DriverInv, EndPass PROVE DriverInv'
  OBVIOUS
<1>1. /\ pass \in Passes /\ opnum' = 0
      /\ UNCHANGED <<traces, allocator, tracenum, blocks, block_sizes, ranges, mem_brk>>
  BY DEF EndPass, Passes, input, heap
<1>2. RangesInv' /\ HandedInv' /\ FilledInv' /\ ListOk(ranges')
  BY <1>1, AtRest DEF DriverInv
<1>3. /\ pass' \in {"util", "speed", "read"}
      /\ \/ pass = "valid" /\ valid' = [valid EXCEPT ![tracenum] = TRUE]
         \/ pass # "valid" /\ valid' = valid
  BY DEF EndPass
<1>4. tracenum \in 1 .. NumTraces /\ Trace' = Trace /\ Trace \in Traces
  BY <1>1 DEF DriverInv, TypeInv, Passes, Trace
<1>5. Len(Trace) \in Nat
  BY <1>4, DriverAssumption
<1>6. TypeInv'
  <2>1. opnum' \in Nat /\ opnum' <= Len(Trace') + 1 /\ ~Running_'
    BY <1>1, <1>4, <1>5 DEF Running_
  <2>2. pass' \in Passes \cup {"read", "exit", "aborted"}
    BY <1>3 DEF Passes
  <2>3. valid' \in [1 .. NumTraces -> BOOLEAN]
    BY <1>3 DEF DriverInv, TypeInv
  <2>4. QED
    BY <1>1, <1>4, <2>1, <2>2, <2>3 DEF DriverInv, TypeInv
<1>7. NoFalseAlarm'
  <2> SUFFICES ASSUME allocator = "correct"
               PROVE  \A k \in Judged' : valid'[k] \/ FillsNegative(traces[k])
    BY <1>1, <1>3 DEF NoFalseAlarm, FillsNegative
  <2>1. \A k \in Judged : valid[k] \/ FillsNegative(traces[k])
    BY DEF DriverInv, NoFalseAlarm
  <2>2. Judged' = 1 .. tracenum
    BY <1>1, <1>3 DEF Judged
  <2>3. CASE pass = "valid"
    <3>1. ASSUME NEW k \in 1 .. tracenum PROVE valid'[k] \/ FillsNegative(traces[k])
      <4>1. k \in 1 .. NumTraces
        BY <1>4, DriverAssumption
      <4>2. CASE k = tracenum
        BY <1>3, <1>4, <2>3, <4>2 DEF DriverInv, TypeInv
      <4>3. CASE k # tracenum
        <5>1. k \in Judged
          BY <1>4, <2>3, <4>3 DEF Judged
        <5>2. valid'[k] = valid[k]
          BY <1>3, <2>3, <4>1, <4>3 DEF DriverInv, TypeInv
        <5>3. QED
          BY <2>1, <5>1, <5>2
      <4>4. QED
        BY <4>2, <4>3
    <3>2. QED
      BY <2>2, <3>1
  <2>4. CASE pass # "valid"
    BY <1>3, <2>1, <2>2, <2>4 DEF Judged
  <2>5. QED
    BY <2>3, <2>4
<1>8. QED
  BY <1>2, <1>6, <1>7 DEF DriverInv

\* So the invariant always holds.
LEMMA DriverInvariance == Spec => []DriverInv
<1>1. DriverInv /\ Next => DriverInv'
  BY ReadInv, BeginInv, EndInv, AllocInv, ReallocInv, FreeInv DEF Next
<1>2. DriverInv /\ UNCHANGED vars => DriverInv'
  <2> SUFFICES ASSUME DriverInv, UNCHANGED vars PROVE DriverInv'
    OBVIOUS
  <2>1. UNCHANGED <<Held, Trace>> /\ (\A i : Size(i)' = Size(i)) /\ Running_' = Running_
    BY DEF vars, Held, Size, Trace, Running_
  <2>2. TypeInv'
    BY <2>1 DEF vars, DriverInv, TypeInv
  <2>3. ListOk(ranges') /\ RangesInv'
    BY <2>1 DEF vars, DriverInv, RangesInv
  <2>4. HandedInv' /\ FilledInv'
    BY <2>1 DEF vars, DriverInv, HandedInv, FilledInv, Trusted, Extent, Fill
  <2>5. NoFalseAlarm'
    BY DEF vars, DriverInv, NoFalseAlarm, Judged, FillsNegative
  <2>6. QED
    BY <2>2, <2>3, <2>4, <2>5 DEF DriverInv
<1>3. QED
  BY DriverInit, <1>1, <1>2, PTL DEF Spec

-----------------------------------------------------------------------------
\* The properties

\* Whatever the allocator answers, payloads that eval_mm_valid let into the
\* range list overlap in one way only: the newer one around the older.
THEOREM OverlapsFound == Spec => []OverlapOnlyAround
<1>1. DriverInv => OverlapOnlyAround
  <2> SUFFICES ASSUME DriverInv PROVE OverlapOnlyAround
    OBVIOUS
  <2>1. DOMAIN ranges = 1 .. Len(ranges)
    BY DEF DriverInv, ListOk
  <2>2. QED
    BY <2>1 DEF DriverInv, ListOk, Apart, OverlapOnlyAround
<1>2. QED
  BY <1>1, DriverInvariance, PTL

\* While the first pass runs, the range list has one record for each block the
\* trace holds, with its extent, and none else.
THEOREM RangesFollow == Spec => []RangesAreTheBlocks
<1>1. DriverInv => RangesAreTheBlocks
  <2> SUFFICES ASSUME DriverInv, pass = "valid", opnum > 0
               PROVE  /\ Len(ranges) = Cardinality(Held)
                      /\ {ranges[k] : k \in DOMAIN ranges} =
                           {[lo |-> blocks[i], hi |-> blocks[i] + Size(i) - 1] : i \in Held}
    BY DEF RangesAreTheBlocks, Held, Size
  <2>1. DOMAIN ranges = 1 .. Len(ranges)
    BY DEF DriverInv, ListOk
  <2>2. QED
    BY <2>1 DEF DriverInv, RangesInv, Records
<1>2. QED
  BY <1>1, DriverInvariance, PTL

\* In every pass, an allocator that keeps its promise has handed out exactly
\* the blocks that the trace holds: no pointer of an earlier pass is given back.
THEOREM PointersAreFresh == Spec => []PointersOfThisPass
<1>1. DriverInv => PointersOfThisPass
  BY DEF DriverInv, HandedInv, PointersOfThisPass, Trusted, Held, Size
<1>2. QED
  BY <1>1, DriverInvariance, PTL

\* No trace that resizes no block of a negative fill byte is marked invalid
\* for a correct allocator, and no pass aborts on one.
THEOREM CorrectPasses == Spec => []NoFalseAlarm
<1>1. DriverInv => NoFalseAlarm
  BY DEF DriverInv
<1>2. QED
  BY <1>1, DriverInvariance, PTL

-----------------------------------------------------------------------------
\* How much a trace holds

\* The sizes of what a trace holds.
SizesOf(tr, n) == [i \in Alive(tr, n) |-> Asked(tr, n, i)]

\* Load counts the bytes of the blocks: a sum as the cardinality of a set.
LEMMA LoadIsUnits ==
  ASSUME NEW tr, NEW n, IsFiniteSet(Alive(tr, n)), \A i \in Alive(tr, n) : Asked(tr, n, i) \in Nat
  PROVE  Load(tr, n) = Cardinality(Units(Alive(tr, n), SizesOf(tr, n)))
<1> DEFINE S == Alive(tr, n)
           sz == SizesOf(tr, n)
<1>1. IsFiniteSet(S) /\ \A i \in S : sz[i] \in Nat
  BY DEF SizesOf
<1>2. DOMAIN sz = S
  BY DEF SizesOf
<1>3. Load(tr, n) = SumFunctionOnSet(sz, DOMAIN sz)
  BY DEF Load, SumFunction, SizesOf
<1> HIDE DEF S, sz
<1>4. SumFunctionOnSet(sz, S) = Cardinality(Units(S, sz))
  BY <1>1, SumIsUnits
<1>5. QED
  BY <1>2, <1>3, <1>4 DEF S, sz

\* What a request changes of what the trace holds, in bytes.
LEMMA LoadStep ==
  ASSUME NEW tr \in Seq(Request), NEW n \in DOMAIN tr,
         IsFiniteSet(Alive(tr, n - 1)), \A i \in Alive(tr, n - 1) : Asked(tr, n - 1, i) \in Nat
  PROVE  LET x == tr[n].index
             old == IF x \in Alive(tr, n - 1) THEN Asked(tr, n - 1, x) ELSE 0
             new == IF tr[n].type = "f" THEN 0 ELSE tr[n].size
         IN  /\ IsFiniteSet(Alive(tr, n))
             /\ Load(tr, n - 1) \in Nat /\ Load(tr, n) \in Nat
             /\ Load(tr, n) = (Load(tr, n - 1) - old) + new
<1> DEFINE x == tr[n].index
           S == Alive(tr, n - 1)
           S2 == Alive(tr, n)
           rest == S \ {x}
           sz == SizesOf(tr, n - 1)
           sz2 == SizesOf(tr, n)
           old == IF x \in S THEN Asked(tr, n - 1, x) ELSE 0
           new == IF tr[n].type = "f" THEN 0 ELSE tr[n].size
<1>1. /\ S2 = IF tr[n].type = "f" THEN rest ELSE rest \cup {x}
      /\ Asked(tr, n, x) = tr[n].size
      /\ \A i : i # x => Asked(tr, n, i) = Asked(tr, n - 1, i)
  BY AliveStep
<1>2. tr[n].size \in Nat
  <2>1. tr[n] \in Request
    OBVIOUS
  <2>2. QED
    BY <2>1 DEF Request
<1>3. IsFiniteSet(rest) /\ IsFiniteSet(S2)
  <2>1. IsFiniteSet(rest)
    BY FS_RemoveElement
  <2>2. IsFiniteSet(rest \cup {x})
    BY <2>1, FS_AddElement
  <2>3. QED
    BY <1>1, <2>1, <2>2
<1>4. \A i \in S : sz[i] = Asked(tr, n - 1, i) /\ sz[i] \in Nat
  BY DEF SizesOf
<1>5. \A i \in S2 : sz2[i] = Asked(tr, n, i) /\ sz2[i] \in Nat
  <2>1. \A i \in S2 : sz2[i] = Asked(tr, n, i)
    BY DEF SizesOf
  <2>2. ASSUME NEW i \in S2 PROVE Asked(tr, n, i) \in Nat
    <3>1. CASE i = x
      BY <1>1, <1>2, <3>1
    <3>2. CASE i # x
      <4>1. i \in S
        BY <1>1, <3>2
      <4>2. QED
        BY <1>1, <3>2, <4>1
    <3>3. QED
      BY <3>1, <3>2
  <2>3. QED
    BY <2>1, <2>2
<1>6. \A i \in rest : sz2[i] = sz[i] /\ sz2[i] \in Nat
  <2>1. \A i \in rest : i \in S2 /\ i \in S /\ i # x
    BY <1>1
  <2>2. QED
    BY <1>1, <1>4, <1>5, <2>1
<1>7. Load(tr, n - 1) = Cardinality(Units(S, sz))
  BY LoadIsUnits
<1>8. Load(tr, n) = Cardinality(Units(S2, sz2))
  <2>1. \A i \in Alive(tr, n) : Asked(tr, n, i) \in Nat
    BY <1>5
  <2>2. QED
    BY <1>3, <2>1, LoadIsUnits
<1>9. old = IF x \in S THEN sz[x] ELSE 0
  BY <1>4
<1> DEFINE base == Cardinality(Units(rest, sz))
<1> HIDE DEF x, S, S2, sz, sz2, old
<1>10. IsFiniteSet(Units(rest, sz)) /\ base \in Nat /\ Units(rest, sz2) = Units(rest, sz)
  <2>1. IsFiniteSet(Units(rest, sz))
    BY <1>3, <1>4, UnitsFinite
  <2>2. Units(rest, sz2) = Units(rest, sz)
    BY <1>6, UnitsSame
  <2>3. QED
    BY <2>1, <2>2, FS_CardinalityType
<1>11. Cardinality(Units(S, sz)) = base + old /\ old \in Nat
  <2>1. CASE x \in S
    <3>1. sz[x] \in Nat /\ old = sz[x]
      BY <1>4, <1>9, <2>1
    <3>2. Cardinality(Units(S, sz)) = Cardinality(Units(S \ {x}, sz)) + sz[x]
      BY <1>10, <2>1, <3>1, UnitsMore
    <3>3. QED
      BY <3>1, <3>2
  <2>2. CASE x \notin S
    <3>1. rest = S /\ old = 0
      BY <1>9, <2>2
    <3>2. base = Cardinality(Units(S, sz))
      BY <3>1
    <3> HIDE DEF base
    <3>3. QED
      BY <1>10, <3>1, <3>2
  <2>3. QED
    BY <2>1, <2>2
<1>12. Cardinality(Units(S2, sz2)) = base + new /\ new \in Nat
  <2>1. CASE tr[n].type = "f"
    <3>1. S2 = rest /\ new = 0
      BY <1>1, <2>1
    <3>2. QED
      BY <1>10, <3>1
  <2>2. CASE tr[n].type # "f"
    <3>1. x \in S2 /\ S2 \ {x} = rest /\ new = tr[n].size /\ sz2[x] = new /\ sz2[x] \in Nat
      BY <1>1, <1>2, <1>5, <2>2
    <3>2. Cardinality(Units(S2, sz2)) = Cardinality(Units(S2 \ {x}, sz2)) + sz2[x]
      <4>1. IsFiniteSet(Units(S2 \ {x}, sz2))
        BY <1>10, <3>1
      <4>2. QED
        BY <3>1, <4>1, UnitsMore
    <3>3. QED
      BY <1>2, <1>10, <3>1, <3>2
  <2>3. QED
    BY <2>1, <2>2
<1> HIDE DEF base, new
<1>13. Load(tr, n - 1) \in Nat /\ Load(tr, n) \in Nat /\ Load(tr, n) = (Load(tr, n - 1) - old) + new
  BY <1>7, <1>8, <1>10, <1>11, <1>12
<1>14. QED
  BY <1>3, <1>13 DEF x, S, S2, old, new

-----------------------------------------------------------------------------
\* The second pass

\* Its two counters, and what they rest on.
UtilInv ==
  pass = "util" /\ opnum > 0 =>
    /\ IsFiniteSet(Held)
    /\ \A i \in Held : block_sizes[i] = Size(i)
    /\ total_size = Load(Trace, opnum - 1)
    /\ max_total_size \in Nat
    /\ \E n \in 0 .. opnum - 1 : max_total_size = Load(Trace, n)
    /\ \A n \in 0 .. opnum - 1 : Load(Trace, n) \in Nat /\ Load(Trace, n) <= max_total_size
    /\ Trusted => max_total_size <= mem_brk

\* What the trace holds fits below the break of an allocator that keeps its promise.
LEMMA LoadFits ==
  ASSUME NEW tr, NEW n, NEW at, NEW brk \in Nat, IsFiniteSet(Alive(tr, n)),
         \A i \in Alive(tr, n) : at[i] \in Nat /\ Asked(tr, n, i) \in Nat /\ at[i] + Asked(tr, n, i) <= brk,
         \A i, j \in Alive(tr, n) : i # j =>
           Extent(at[i], Asked(tr, n, i)) \cap Extent(at[j], Asked(tr, n, j)) = {}
  PROVE  Load(tr, n) <= brk
<1> DEFINE S == Alive(tr, n)
           sz == SizesOf(tr, n)
<1>1. \A i \in S : sz[i] = Asked(tr, n, i)
  BY DEF SizesOf
<1>2. \A i \in S : at[i] \in Nat /\ sz[i] \in Nat /\ at[i] + sz[i] <= brk
  BY <1>1
<1>3. \A i, j \in S : i # j => Extent(at[i], sz[i]) \cap Extent(at[j], sz[j]) = {}
  BY <1>1
<1>4. Load(tr, n) = Cardinality(Units(S, sz))
  BY LoadIsUnits
<1> HIDE DEF S, sz
<1> DEFINE U == Units(S, sz)
           place(u) == at[u[1]] + (u[2] - 1)
           f == [u \in U |-> place(u)]
           B == 0 .. brk - 1
<1>5. ASSUME NEW u \in U
      PROVE  /\ u = <<u[1], u[2]>> /\ u[1] \in S /\ u[2] \in Nat
             /\ place(u) \in B /\ place(u) \in Extent(at[u[1]], sz[u[1]])
  <2>1. u = <<u[1], u[2]>> /\ u[1] \in S /\ u[2] \in Nat /\ u[2] >= 1 /\ u[2] <= sz[u[1]]
    BY DEF Units
  <2>2. at[u[1]] \in Nat /\ sz[u[1]] \in Nat /\ at[u[1]] + sz[u[1]] <= brk
    BY <1>2, <2>1
  <2>3. QED
    BY <2>1, <2>2 DEF Extent
<1>6. ASSUME NEW u \in U, NEW v \in U, place(u) = place(v) PROVE u = v
  <2>1. u[1] = v[1]
    BY <1>3, <1>5, <1>6
  <2>2. at[u[1]] \in Nat /\ u[2] \in Nat /\ v[2] \in Nat
    BY <1>2, <1>5
  <2>3. u[2] = v[2]
    BY <1>6, <2>1, <2>2
  <2>4. QED
    BY <1>5, <2>1, <2>3
<1> HIDE DEF place, U
<1>7. f \in [U -> B] /\ \A u, v \in U : f[u] = f[v] => u = v
  BY <1>5, <1>6
<1>8. f \in Injection(U, B)
  BY <1>7 DEF Injection, IsInjective
<1>9. IsFiniteSet(B) /\ Cardinality(B) = brk
  <2>1. 0 \in Int /\ brk - 1 \in Int
    OBVIOUS
  <2>2. IsFiniteSet(0 .. brk - 1) /\ Cardinality(0 .. brk - 1) = IF 0 > brk - 1 THEN 0 ELSE (brk - 1) - 0 + 1
    BY <2>1, FS_Interval
  <2>3. QED
    BY <2>2
<1> HIDE DEF f, B
<1>10. Cardinality(U) <= Cardinality(B)
  BY <1>8, <1>9, FS_Injection
<1>11. QED
  BY <1>4, <1>9, <1>10 DEF U

\* A request of the second pass.
LEMMA UtilServes ==
  ASSUME DriverInv, DriverInv', UtilInv, pass = "util", opnum \in DOMAIN Trace,
         opnum' = opnum + 1, UNCHANGED <<traces, tracenum, allocator, pass>>,
         mem_brk <= mem_brk',
         Op.type = "f" => UNCHANGED block_sizes,
         Op.type # "f" => block_sizes' = [block_sizes EXCEPT ![Op.index] = Op.size],
         Count((IF Op.type = "f" THEN 0 ELSE Op.size) - (IF Op.type = "a" THEN 0 ELSE block_sizes[Op.index]))
  PROVE  UtilInv'
<1> DEFINE x == Op.index
           old == IF x \in Held THEN Size(x) ELSE 0
           new == IF Op.type = "f" THEN 0 ELSE Op.size
<1>1. pass \in Passes
  BY DEF Passes
<1>2. /\ Trace \in Seq(Request) /\ opnum \in Nat \ {0} /\ Running_
      /\ x \in Ids /\ Op.size \in Nat
      /\ Op.type = "a" <=> x \notin Held
  BY <1>1, Requested DEF DriverInv
<1>3. Trace' = Trace /\ opnum' - 1 = opnum /\ opnum' > 0
  BY <1>2 DEF Trace
<1>4. Held' = (IF Op.type = "f" THEN Held \ {x} ELSE Held \cup {x})
      /\ \A i : Size(i)' = IF i = x THEN Op.size ELSE Size(i)
  BY <1>1, Served DEF DriverInv
<1>5. /\ IsFiniteSet(Held)
      /\ \A i \in Held : block_sizes[i] = Size(i)
      /\ total_size = Load(Trace, opnum - 1)
      /\ max_total_size \in Nat
      /\ \E n \in 0 .. opnum - 1 : max_total_size = Load(Trace, n)
      /\ \A n \in 0 .. opnum - 1 : Load(Trace, n) \in Nat /\ Load(Trace, n) <= max_total_size
      /\ Trusted => max_total_size <= mem_brk
  BY <1>2 DEF UtilInv
<1>6. \A i \in Held : i \in Ids /\ Size(i) \in Nat
  BY <1>2 DEF DriverInv, TypeInv
<1>7. /\ IsFiniteSet(Alive(Trace, opnum))
      /\ Load(Trace, opnum - 1) \in Nat /\ Load(Trace, opnum) \in Nat
      /\ Load(Trace, opnum) = (Load(Trace, opnum - 1) - old) + new
  BY <1>2, <1>5, <1>6, LoadStep DEF Held, Size, Op
<1>8. old = IF Op.type = "a" THEN 0 ELSE block_sizes[x]
  BY <1>2, <1>5
<1>9. old \in Nat /\ new \in Nat
  BY <1>2, <1>6
<1> HIDE DEF old, new
<1>10. /\ total_size' = Load(Trace, opnum)
       /\ max_total_size' = IF total_size' > max_total_size THEN total_size' ELSE max_total_size
  <2>1. Count(new - old)
    BY <1>8 DEF new
  <2>2. /\ total_size' = total_size + (new - old)
        /\ max_total_size' = IF total_size' > max_total_size THEN total_size' ELSE max_total_size
    BY <2>1 DEF Count
  <2>3. QED
    BY <1>5, <1>7, <1>9, <2>2
<1>11. IsFiniteSet(Held') /\ total_size' = Load(Trace', opnum' - 1)
  BY <1>3, <1>7, <1>10 DEF Held
<1>12. \A i \in Held' : block_sizes'[i] = Size(i)'
  <2>1. \A i \in Held' : i \in Ids
    BY <1>2, <1>4, <1>6
  <2>2. CASE Op.type = "f"
    BY <1>4, <1>5, <2>2
  <2>3. CASE Op.type # "f"
    <3>1. \A i \in Ids : block_sizes'[i] = IF i = x THEN Op.size ELSE block_sizes[i]
      BY <1>2, <2>3 DEF DriverInv, TypeInv
    <3>2. QED
      BY <1>4, <1>5, <2>1, <2>3, <3>1
  <2>4. QED
    BY <2>2, <2>3
<1> DEFINE L(n) == Load(Trace, n)
<1>13. /\ max_total_size' \in Nat
       /\ \E n \in 0 .. opnum : max_total_size' = L(n)
       /\ \A n \in 0 .. opnum : L(n) \in Nat /\ L(n) <= max_total_size'
  <2>1. total_size' = L(opnum) /\ L(opnum) \in Nat
    BY <1>7, <1>10
  <2>2. /\ max_total_size \in Nat
        /\ \E n \in 0 .. opnum - 1 : max_total_size = L(n)
        /\ \A n \in 0 .. opnum - 1 : L(n) \in Nat /\ L(n) <= max_total_size
    BY <1>5
  <2> HIDE DEF L
  <2>3. \A n \in 0 .. opnum : n \in 0 .. opnum - 1 \/ n = opnum
    BY <1>2
  <2>4. \A n \in 0 .. opnum - 1 : n \in 0 .. opnum
    BY <1>2
  <2>5. opnum \in 0 .. opnum
    BY <1>2
  <2>6. max_total_size' >= max_total_size /\ max_total_size' >= L(opnum) /\ max_total_size' \in Nat
    BY <1>10, <2>1, <2>2
  <2>7. \A n \in 0 .. opnum : L(n) \in Nat /\ L(n) <= max_total_size'
    BY <2>1, <2>2, <2>3, <2>6
  <2>8. \E n \in 0 .. opnum : max_total_size' = L(n)
    BY <1>10, <2>1, <2>2, <2>4, <2>5
  <2>9. QED
    BY <2>6, <2>7, <2>8
<1>14. Trusted' => max_total_size' <= mem_brk'
  <2> SUFFICES ASSUME Trusted PROVE max_total_size' <= mem_brk'
    BY DEF Trusted
  <2>1. mem_brk' \in Nat /\ mem_brk \in Nat
    BY DriverAssumption DEF DriverInv, TypeInv
  <2>2. /\ \A i \in Held' : blocks'[i] \in Addr /\ blocks'[i] + Size(i)' <= mem_brk'
        /\ \A i, j \in Held' : i # j => Extent(blocks'[i], Size(i)') \cap Extent(blocks'[j], Size(j)') = {}
    <3>1. Running_' /\ Trusted'
      BY <1>1, <1>3 DEF Running_, Trusted
    <3>2. QED
      BY <3>1 DEF DriverInv, HandedInv, Extent
  <2>3. Held' = Alive(Trace, opnum) /\ \A i : Size(i)' = Asked(Trace, opnum, i)
    BY <1>3 DEF Held, Size
  <2>4. \A i \in Held' : blocks'[i] \in Nat /\ Size(i)' \in Nat
    BY <1>2, <1>4, <1>6, <2>2, DriverAssumption DEF Addr
  <2>5. Load(Trace, opnum) <= mem_brk'
    BY <1>7, <2>1, <2>2, <2>3, <2>4, LoadFits
  <2>6. QED
    BY <1>5, <1>7, <1>10, <2>1, <2>5
<1>15. QED
  BY <1>3, <1>11, <1>12, <1>13, <1>14 DEF UtilInv

\* Every step keeps the counters right.
LEMMA UtilStep == DriverInv /\ DriverInv' /\ UtilInv /\ Next => UtilInv'
<1> SUFFICES ASSUME DriverInv, DriverInv', UtilInv, Next, pass' = "util", opnum' > 0
             PROVE  UtilInv'
  BY DEF UtilInv
<1>1. CASE ReadTrace \/ Exit \/ EndPass
  <2>1. pass' # "util" \/ opnum' = 0
    BY <1>1 DEF ReadTrace, Exit, EndPass
  <2>2. QED
    BY <2>1
<1>2. CASE BeginPass
  <2>1. opnum' = 1 /\ pass' = pass
    BY <1>2 DEF BeginPass, Fail
  <2>2. total_size' = 0 /\ max_total_size' = 0 /\ mem_brk' \in Breaks
    BY <1>2 DEF BeginPass
  <2>3. Held' = {}
    BY <2>1, AliveAtFirst DEF Held
  <2>4. \A tr : Load(tr, 0) = 0
    <3> SUFFICES ASSUME NEW tr PROVE Load(tr, 0) = 0
      OBVIOUS
    <3>1. Alive(tr, 0) = {} /\ IsFiniteSet(Alive(tr, 0))
      BY AliveAtFirst, FS_EmptySet
    <3>2. Load(tr, 0) = Cardinality(Units(Alive(tr, 0), SizesOf(tr, 0)))
      BY <3>1, LoadIsUnits
    <3>3. Units(Alive(tr, 0), SizesOf(tr, 0)) = {}
      BY <3>1 DEF Units
    <3>4. QED
      BY <3>2, <3>3, FS_EmptySet
  <2>5. IsFiniteSet(Held')
    BY <2>3, FS_EmptySet
  <2>6. opnum' - 1 = 0 /\ 0 .. opnum' - 1 = {0}
    BY <2>1
  <2>7. mem_brk' >= 0
    BY <2>2, DriverAssumption
  <2>8. QED
    BY <2>2, <2>3, <2>4, <2>5, <2>6, <2>7 DEF UtilInv
<1>3. CASE Alloc
  <2>1. opnum \in DOMAIN Trace /\ Op.type = "a" /\ pass \in Passes
    BY <1>3 DEF Alloc, Running, Passes
  <2>2. /\ UNCHANGED <<traces, tracenum, allocator, pass>> /\ pass = "util"
        /\ opnum' = opnum + 1 /\ Count(Op.size)
        /\ mem_brk' >= mem_brk
        /\ block_sizes' = [block_sizes EXCEPT ![Op.index] = Op.size]
    BY <1>3 DEF Alloc, Fail, Remember, input
  <2>3. Op.size \in Nat
    BY <2>1, Requested DEF DriverInv
  <2>4. Op.size - 0 = Op.size /\ mem_brk <= mem_brk'
    BY <2>2, <2>3, DriverAssumption DEF DriverInv, TypeInv
  <2>5. Count((IF Op.type = "f" THEN 0 ELSE Op.size) - (IF Op.type = "a" THEN 0 ELSE block_sizes[Op.index]))
    BY <2>1, <2>2, <2>4
  <2>6. QED
    BY <2>1, <2>2, <2>4, <2>5, UtilServes
<1>4. CASE Realloc
  <2>1. opnum \in DOMAIN Trace /\ Op.type = "r" /\ pass \in Passes
    BY <1>4 DEF Realloc, Running, Passes
  <2>2. /\ UNCHANGED <<traces, tracenum, allocator, pass>> /\ pass = "util"
        /\ opnum' = opnum + 1 /\ Count(Op.size - block_sizes[Op.index])
        /\ mem_brk' >= mem_brk
        /\ block_sizes' = [block_sizes EXCEPT ![Op.index] = Op.size]
    BY <1>4 DEF Realloc, Fail, Remember, input
  <2>3. mem_brk <= mem_brk'
    BY <2>2, DriverAssumption DEF DriverInv, TypeInv
  <2>4. Count((IF Op.type = "f" THEN 0 ELSE Op.size) - (IF Op.type = "a" THEN 0 ELSE block_sizes[Op.index]))
    BY <2>1, <2>2
  <2>5. QED
    BY <2>1, <2>2, <2>3, <2>4, UtilServes
<1>5. CASE Free
  <2>1. opnum \in DOMAIN Trace /\ Op.type = "f" /\ pass \in Passes
    BY <1>5 DEF Free, Running, Passes
  <2>2. /\ UNCHANGED <<traces, tracenum, allocator, pass, block_sizes, mem_brk>> /\ pass = "util"
        /\ opnum' = opnum + 1 /\ Count(-block_sizes[Op.index])
    BY <1>5 DEF Free, input
  <2>3. block_sizes[Op.index] \in Nat
    BY <2>1, Requested DEF DriverInv, TypeInv
  <2>4. 0 - block_sizes[Op.index] = -block_sizes[Op.index] /\ mem_brk <= mem_brk'
    BY <2>2, <2>3, DriverAssumption DEF DriverInv, TypeInv
  <2>5. Count((IF Op.type = "f" THEN 0 ELSE Op.size) - (IF Op.type = "a" THEN 0 ELSE block_sizes[Op.index]))
    BY <2>1, <2>2, <2>4
  <2>6. QED
    BY <2>1, <2>2, <2>4, <2>5, UtilServes
<1>6. QED
  BY <1>1, <1>2, <1>3, <1>4, <1>5 DEF Next

\* The utilization that eval_mm_util reports is that of the trace, and at most
\* 1 for an allocator whose payloads do not overlap.
THEOREM UtilizationAtMostOne == Spec => []UtilizationIsHonest
<1>1. Init => UtilInv
  BY DEF Init, UtilInv
<1>2. DriverInv /\ DriverInv' /\ UtilInv /\ UNCHANGED vars => UtilInv'
  <2> SUFFICES ASSUME UtilInv, UNCHANGED vars PROVE UtilInv'
    OBVIOUS
  <2>1. UNCHANGED <<Held, Trace>> /\ (\A i : Size(i)' = Size(i)) /\ Trusted' = Trusted
    BY DEF vars, Held, Size, Trace, Trusted
  <2>2. QED
    BY <2>1 DEF vars, UtilInv
<1>3. DriverInv /\ UtilInv => UtilizationIsHonest
  <2> SUFFICES ASSUME DriverInv, UtilInv, pass = "util", opnum > 0
               PROVE  /\ total_size = Load(Trace, opnum - 1)
                      /\ max_total_size = Max({Load(Trace, n) : n \in 0 .. opnum - 1})
                      /\ allocator # "arbitrary" => max_total_size <= mem_brk
    BY DEF UtilizationIsHonest
  <2> DEFINE Q == {Load(Trace, n) : n \in 0 .. opnum - 1}
  <2>1. max_total_size \in Q /\ \A y \in Q : max_total_size >= y /\ y \in Nat
    BY DEF UtilInv
  <2> HIDE DEF Q
  <2>2. \A z \in Q : (\A y \in Q : z >= y) => z = max_total_size
    BY <2>1
  <2>3. max_total_size = Max(Q)
    BY <2>1, <2>2 DEF Max
  <2>4. QED
    BY <2>3 DEF UtilInv, Trusted, Q
<1>4. QED
  BY <1>1, <1>2, <1>3, UtilStep, DriverInvariance, PTL DEF Spec
=================================================================================
