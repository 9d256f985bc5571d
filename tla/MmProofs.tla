------------------------------- MODULE MmProofs --------------------------------
(***************************************************************************)
(* The safety of the allocator for every heap, chunk and request size: its *)
(* inductive invariant, and the properties of MmProps that follow from it. *)
(*                                                                         *)
(* None of those properties is inductive.  That a payload stays intact     *)
(* depends on every tag in the heap, and a step changes tags far from the  *)
(* call's own block, so the invariant says that some set of addresses S is *)
(* chained by the tags over the whole heap (Heap) and that the blocks in   *)
(* use are exactly the client's and the result it is about to take.  That  *)
(* S is what find_fit walks is shown too.                                  *)
(***************************************************************************)
EXTENDS MmProps, WellFoundedInduction, TLAPS

-----------------------------------------------------------------------------
(***************************************************************************)
(* What each operation of mm.c does to a well-formed list of blocks, for   *)
(* every heap, every break and every size.                                 *)
(*                                                                         *)
(* A heap is a memory m, a break brk, the set S of block addresses that    *)
(* its tags chain, and the set U of those in use.  Every operation         *)
(* rewrites the words of one run of neighbouring blocks, so one lemma      *)
(* (Rewrite) says what may be put in place of such a run, and the others   *)
(* say which run an operation rewrites.                                    *)
(***************************************************************************)

Top == mem_start_brk + MAX_HEAP

\* The regular blocks of a chain.
Regular(S, brk) == S \ {Prologue, brk}

Heap(m, brk, S, U) ==
  /\ m \in [Addr -> Word]
  /\ brk \in Prologue + DSIZE .. Top
  /\ Chained(m, brk, S)
  /\ U \subseteq Regular(S, brk)
  /\ \A b \in Regular(S, brk) : m[b - 1].alloc = 1 <=> b \in U

\* The free blocks of a chain, and that two of them always have some block
\* between them: what Joined says, in terms of the chain alone.
FreeBlocks(S, brk, U) == Regular(S, brk) \ U
Spaced(S, brk, U) ==
  \A x, y \in FreeBlocks(S, brk, U) : x < y => \E z \in S : x < z /\ z < y

\* The same of every free block but b, which a call is about to coalesce.
SpacedBut(S, brk, U, b) ==
  \A x, y \in FreeBlocks(S, brk, U) \ {b} : x < y => \E z \in S : x < z /\ z < y

\* The words of each block of W are the same in m and m2.
Kept(m, m2, W) == \A u \in W : \A a \in u - 1 .. u + m[u - 1].size - 2 : m2[a] = m[a]

\* The accessors, without their names: what every proof expands.
USE DEF WSIZE, DSIZE, WordBytes, NULL, block_size, is_allocated, obtener_header,
        obtener_footer, proximo_bloque, bloque_anterior, pack_word

-----------------------------------------------------------------------------

\* A block lies inside the heap, its neighbours are blocks and its size is
\* the distance to the next: the facts about block b that most steps need.
BlockAt(m, brk, S, b) ==
  /\ b \in Int /\ b % 2 = 0 /\ Prologue <= b /\ b <= brk
  /\ b - 1 \in Addr
  /\ m[b - 1].size \in Nat /\ m[b - 1].alloc \in {0, 1}
  /\ b # brk =>
       /\ m[b - 1].size >= 2
       /\ b + m[b - 1].size \in S
       /\ b + m[b - 1].size <= brk
       /\ m[b + m[b - 1].size - 2] = m[b - 1]
       /\ \A c \in S : c <= b \/ c >= b + m[b - 1].size
  /\ b # brk /\ b # Prologue => m[b - 1].size >= 4
  /\ b # Prologue =>
       /\ Prologue + 2 <= b
       /\ b - 2 \in Addr
       /\ m[b - 2].size \in Nat
       /\ b - m[b - 2].size \in S
       /\ b - m[b - 2].size + m[b - m[b - 2].size - 1].size = b
       /\ b - m[b - 2].size < b

\* The assumptions on the heap, as the linear facts the provers use: mem_init's
\* array starts at an aligned address that is not NULL and holds the skeleton.
LEMMA Bounds ==
  /\ mem_start_brk \in Nat /\ mem_start_brk >= 1 /\ mem_start_brk % 2 = 0
  /\ MAX_HEAP \in Nat /\ MAX_HEAP >= 4
  /\ Prologue = mem_start_brk + 2 /\ Top = mem_start_brk + MAX_HEAP
  /\ \A a : a \in Addr <=> a \in Int /\ mem_start_brk <= a /\ a < Top
BY StartAssumption, HeapAssumption DEF Prologue, Top, Addr

\* The break of a well-formed heap is aligned, leaves room for the skeleton
\* that mm_init wrote and lies in mem_init's array.
LEMMA Breaks ==
  ASSUME NEW m, NEW brk, NEW S, NEW U, Heap(m, brk, S, U)
  PROVE  brk \in Int /\ Prologue + 2 <= brk /\ brk <= Top /\ brk % 2 = 0
         /\ Prologue \in S /\ brk \in S
BY Bounds DEF Heap, Chained

\* Every block of a well-formed list satisfies BlockAt: what the accessors of
\* mm.c read around a block pointer are its own tags and its neighbours'.
LEMMA Geometry ==
  ASSUME NEW m, NEW brk, NEW S, NEW U, Heap(m, brk, S, U), NEW b \in S
  PROVE  BlockAt(m, brk, S, b)
<1>1. /\ mem_start_brk \in Nat /\ mem_start_brk >= 1 /\ mem_start_brk % 2 = 0
      /\ MAX_HEAP \in Nat /\ MAX_HEAP >= 4
  BY Bounds
<1>2. /\ Prologue = mem_start_brk + 2 /\ Top = mem_start_brk + MAX_HEAP
      /\ \A a : a \in Addr <=> a \in Int /\ mem_start_brk <= a /\ a < Top
  BY Bounds
<1>3. /\ m \in [Addr -> Word] /\ brk \in Int /\ Prologue + 2 <= brk /\ brk <= Top
      /\ b \in Int /\ Prologue <= b /\ b <= brk /\ b % 2 = 0
      /\ Chained(m, brk, S)
  BY <1>1, <1>2 DEF Heap, Chained
<1>4. /\ b - 1 \in Addr /\ b - 2 \in Addr
      /\ m[b - 1] \in Word /\ m[b - 2] \in Word
  BY <1>1, <1>2, <1>3
<1>5. /\ m[b - 1].size \in Nat /\ m[b - 1].alloc \in {0, 1}
      /\ m[b - 2].size \in Nat
  BY <1>4 DEF Word
<1>6. ASSUME b # brk
      PROVE  /\ m[b - 1].size >= 2
             /\ b # Prologue => m[b - 1].size >= 4
             /\ b + m[b - 1].size \in S
             /\ b + m[b - 1].size <= brk
             /\ m[b + m[b - 1].size - 2] = m[b - 1]
             /\ \A c \in S : c <= b \/ c >= b + m[b - 1].size
  BY <1>3, <1>5, <1>6 DEF Chained
<1>7. ASSUME b # Prologue
      PROVE  /\ b - m[b - 2].size \in S
             /\ b - m[b - 2].size + m[b - m[b - 2].size - 1].size = b
  BY <1>3, <1>5, <1>7 DEF Chained
<1>8. ASSUME b # Prologue
      PROVE  b - m[b - 2].size < b
  <2> DEFINE p == b - m[b - 2].size
  <2>1. p \in S /\ p # brk /\ p \in Int /\ p <= b /\ p + m[p - 1].size = b
    BY <1>3, <1>5, <1>8 DEF Chained
  <2>2. \A c \in S \ {brk} : m[c - 1].size >= 2
    <3> SUFFICES ASSUME NEW c \in S \ {brk}  PROVE m[c - 1].size >= 2
      OBVIOUS
    <3>1. c \in Int /\ Prologue <= c /\ c <= brk /\ c - 1 \in Addr
      BY <1>1, <1>2, <1>3 DEF Chained
    <3>2. m[c - 1].size \in Nat
      BY <1>3, <3>1 DEF Word
    <3> QED  BY <1>3, <3>1, <3>2 DEF Chained
  <2> QED  BY <1>3, <1>5, <2>1, <2>2
<1>9. b # Prologue => Prologue + 2 <= b
  BY <1>1, <1>2, <1>3
<1> QED  BY <1>1, <1>2, <1>3, <1>4, <1>5, <1>6, <1>7, <1>8, <1>9 DEF BlockAt

-----------------------------------------------------------------------------

\* m2 differs from m only in the words of the blocks from b up to e.
SameOutside(m, m2, b, e) ==
  /\ m2 \in [Addr -> Word]
  /\ \A a \in Addr : a < b - 1 \/ a > e - 2 => m2[a] = m[a]

\* In m2 the blocks T, of which those in V are in use, tile the words from
\* block b up to block e.
Tiles(m2, b, e, T, V) ==
  /\ T \subseteq b .. e - 1 /\ b \in T /\ V \subseteq T
  /\ \A t \in T :
       /\ t % 2 = 0 /\ m2[t - 1].size >= 4
       /\ m2[t + m2[t - 1].size - 2] = m2[t - 1]
       /\ t + m2[t - 1].size \in T \cup {e}
       /\ \A c \in T : c <= t \/ c >= t + m2[t - 1].size
       /\ m2[t - 1].alloc = 1 <=> t \in V
  /\ \A t \in (T \ {b}) \cup {e} :
       /\ t - m2[t - 2].size \in T
       /\ t - m2[t - 2].size + m2[t - m2[t - 2].size - 1].size = t

\* The run of blocks from b up to e may be replaced by any blocks that tile
\* the same words.
LEMMA Rewrite ==
  ASSUME NEW m, NEW brk, NEW S, NEW U, Heap(m, brk, S, U),
         NEW b \in Regular(S, brk), NEW e \in S, b < e,
         NEW m2, SameOutside(m, m2, b, e),
         NEW T, NEW V, Tiles(m2, b, e, T, V)
  PROVE  Heap(m2, brk, (S \ (b .. e - 1)) \cup T, (U \ (b .. e - 1)) \cup V)
<1> USE DEF SameOutside, Tiles
<1> DEFINE S2 == (S \ (b .. e - 1)) \cup T
           U2 == (U \ (b .. e - 1)) \cup V
<1>1. /\ b \in S /\ b # brk /\ b # Prologue /\ b \in Int /\ e \in Int
      /\ Prologue < b /\ b < e /\ e <= brk /\ e # Prologue
      /\ brk \in Int /\ Prologue \in Int /\ brk <= Top
      /\ mem_start_brk \in Nat /\ mem_start_brk >= 1
      /\ Prologue + 4 <= brk /\ b >= Prologue + 2
  <2>1. b \in S /\ b # brk /\ b # Prologue
    BY DEF Regular
  <2>2. BlockAt(m, brk, S, b) /\ BlockAt(m, brk, S, e)
    BY <2>1, Geometry
  <2>3. b \in Int /\ Prologue <= b /\ Prologue + 2 <= b
    BY <2>1, <2>2 DEF BlockAt
  <2>4. e \in Int /\ e <= brk
    BY <2>2 DEF BlockAt
  <2>5. /\ brk \in Int /\ Prologue \in Int /\ brk <= Top
        /\ mem_start_brk \in Nat /\ mem_start_brk >= 1
        /\ Prologue + 2 <= brk /\ brk % 2 = 0 /\ Prologue % 2 = 0
    BY Bounds, Breaks
  <2> QED  BY <2>1, <2>3, <2>4, <2>5
<1>2. /\ Prologue = mem_start_brk + 2 /\ Top = mem_start_brk + MAX_HEAP
      /\ MAX_HEAP \in Nat
      /\ \A a : a \in Addr <=> a \in Int /\ mem_start_brk <= a /\ a < Top
  BY Bounds
<1>3. /\ m[Prologue - 1] = [size |-> 2, alloc |-> 1]
      /\ m[brk - 1] = [size |-> 0, alloc |-> 1]
      /\ m \in [Addr -> Word]
  BY DEF Heap, Chained
<1>4. /\ \A t \in T : t \in Int /\ b <= t /\ t < e /\ t \in Regular(S2, brk)
      /\ T \cap {Prologue, brk} = {}
  <2>1. \A t \in T : t \in Int /\ b <= t /\ t < e
    BY <1>1
  <2>2. \A t \in T : t \in S2 /\ t # Prologue /\ t # brk
    BY <1>1, <2>1
  <2> QED  BY <2>1, <2>2 DEF Regular
<1>5. \A t \in T : m2[t - 1].size \in Nat /\ t - 1 \in Addr
  <2> SUFFICES ASSUME NEW t \in T  PROVE m2[t - 1].size \in Nat /\ t - 1 \in Addr
    OBVIOUS
  <2>1. t - 1 \in Addr
    BY <1>1, <1>2, <1>4
  <2> QED  BY <2>1 DEF Word
<1>6. /\ S2 \subseteq Prologue .. brk
      /\ Prologue \in S2 /\ brk \in S2 /\ e \in S2
      /\ \A c \in S2 : c % 2 = 0
  BY <1>1, <1>4 DEF Heap, Chained
<1>7. \A c \in S \ (b .. e - 1) : c \in Int /\ (c < b \/ c >= e)
  BY <1>1 DEF Heap, Chained
<1>8. ASSUME NEW c \in S2 \ {brk}
      PROVE  /\ m2[c - 1].size >= (IF c = Prologue THEN 2 ELSE 4)
             /\ m2[c + m2[c - 1].size - 2] = m2[c - 1]
             /\ c + m2[c - 1].size \in S2
             /\ \A d \in S2 : d <= c \/ d >= c + m2[c - 1].size
  <2>1. CASE c \in T
    <3>1. c # Prologue /\ m2[c - 1].size >= 4 /\ m2[c + m2[c - 1].size - 2] = m2[c - 1]
          /\ c + m2[c - 1].size \in S2
      BY <1>4, <1>6, <2>1
    <3>2. c + m2[c - 1].size <= e
      <4>1. c + m2[c - 1].size \in T \cup {e}
        BY <2>1
      <4>2. \A x \in T \cup {e} : x <= e
        BY <1>1, <1>4
      <4> QED  BY <4>1, <4>2
    <3>3. \A d \in S2 : d <= c \/ d >= c + m2[c - 1].size
      <4> SUFFICES ASSUME NEW d \in S2  PROVE d <= c \/ d >= c + m2[c - 1].size
        OBVIOUS
      <4>1. CASE d \in T
        BY <2>1, <4>1
      <4>2. CASE d \notin T
        BY <1>1, <1>4, <1>5, <1>7, <2>1, <3>2, <4>2
      <4> QED  BY <4>1, <4>2
    <3> QED  BY <3>1, <3>3
  <2>2. CASE c \in S /\ c < b
    <3>1. /\ c \in Int /\ Prologue <= c /\ m[c - 1].size \in Nat /\ m[c - 1].size >= 2
          /\ c # Prologue => m[c - 1].size >= 4
          /\ c + m[c - 1].size \in S /\ c + m[c - 1].size <= b
          /\ m[c + m[c - 1].size - 2] = m[c - 1]
          /\ \A d \in S : d <= c \/ d >= c + m[c - 1].size
      <4>1. BlockAt(m, brk, S, c) /\ c # brk
        BY <1>1, <2>2, Geometry
      <4> QED  BY <1>1, <2>2, <4>1 DEF BlockAt
    <3>2. m2[c - 1] = m[c - 1] /\ m2[c + m[c - 1].size - 2] = m[c - 1]
      <4>1. c - 1 \in Addr /\ c - 1 < b - 1
        BY <1>1, <1>2, <2>2, <3>1
      <4>2. c + m[c - 1].size - 2 \in Addr /\ c + m[c - 1].size - 2 < b - 1
        BY <1>1, <1>2, <2>2, <3>1
      <4> QED  BY <3>1, <4>1, <4>2
    <3>3. c + m[c - 1].size \in S2
      BY <1>1, <3>1
    <3>4. \A d \in S2 : d <= c \/ d >= c + m[c - 1].size
      BY <1>1, <1>4, <3>1
    <3> QED  BY <3>1, <3>2, <3>3, <3>4
  <2>3. CASE c \in S /\ c >= e
    <3>1. /\ c \in Int /\ Prologue < c /\ m[c - 1].size \in Nat /\ m[c - 1].size >= 4
          /\ c + m[c - 1].size \in S /\ c + m[c - 1].size <= brk
          /\ m[c + m[c - 1].size - 2] = m[c - 1]
          /\ \A d \in S : d <= c \/ d >= c + m[c - 1].size
      <4>1. BlockAt(m, brk, S, c) /\ c # brk
        BY <1>1, <2>3, Geometry
      <4> QED  BY <1>1, <2>3, <4>1 DEF BlockAt
    <3>2. m2[c - 1] = m[c - 1] /\ m2[c + m[c - 1].size - 2] = m[c - 1]
      <4>1. c - 1 \in Addr /\ c - 1 > e - 2
        BY <1>1, <1>2, <2>3, <3>1
      <4>2. c + m[c - 1].size - 2 \in Addr /\ c + m[c - 1].size - 2 > e - 2
        BY <1>1, <1>2, <2>3, <3>1
      <4> QED  BY <3>1, <4>1, <4>2
    <3>3. c + m[c - 1].size \in S2
      BY <1>1, <2>3, <3>1
    <3>4. \A d \in S2 : d <= c \/ d >= c + m[c - 1].size
      BY <1>1, <1>4, <2>3, <3>1
    <3> QED  BY <1>1, <2>3, <3>1, <3>2, <3>3, <3>4
  <2> QED  BY <1>7, <2>1, <2>2, <2>3
<1>9. ASSUME NEW c \in S2 \ {Prologue}
      PROVE  /\ c - m2[c - 2].size \in S2 \ {brk}
             /\ c - m2[c - 2].size + m2[c - m2[c - 2].size - 1].size = c
  <2>1. CASE c \in (T \ {b}) \cup {e}
    BY <1>4, <2>1
  <2>2. CASE c \in S /\ c <= b
    <3>1. /\ c \in Int /\ Prologue < c /\ m[c - 2].size \in Nat
          /\ c - m[c - 2].size \in S /\ c - m[c - 2].size < c
          /\ c - m[c - 2].size + m[c - m[c - 2].size - 1].size = c
          /\ c - 2 \in Addr /\ c - m[c - 2].size - 1 \in Addr
      <4>1. /\ c \in Int /\ Prologue < c /\ m[c - 2].size \in Nat
            /\ c - m[c - 2].size \in S /\ c - m[c - 2].size < c
            /\ c - m[c - 2].size + m[c - m[c - 2].size - 1].size = c
            /\ c - 2 \in Addr
        <5>1. BlockAt(m, brk, S, c) /\ c # Prologue
          BY <1>1, <2>2, Geometry
        <5> QED  BY <1>1, <2>2, <5>1 DEF BlockAt
      <4>2. c - m[c - 2].size - 1 \in Addr
        <5>1. BlockAt(m, brk, S, c - m[c - 2].size)
          BY <4>1, Geometry
        <5> QED  BY <5>1 DEF BlockAt
      <4> QED  BY <4>1, <4>2
    <3>2. m2[c - 2] = m[c - 2] /\ m2[c - m[c - 2].size - 1] = m[c - m[c - 2].size - 1]
      BY <1>1, <2>2, <3>1
    <3>3. c - m[c - 2].size \in S2 \ {brk}
      BY <1>1, <2>2, <3>1
    <3> QED  BY <3>1, <3>2, <3>3
  <2>3. CASE c \in S /\ c > e
    <3>1. /\ c \in Int /\ Prologue < c /\ m[c - 2].size \in Nat /\ c <= brk
          /\ c - m[c - 2].size \in S /\ c - m[c - 2].size < c
          /\ c - m[c - 2].size + m[c - m[c - 2].size - 1].size = c
          /\ c - 2 \in Addr /\ c >= e + 2
      <4>1. BlockAt(m, brk, S, c) /\ c # Prologue
        BY <1>1, <2>3, Geometry
      <4>2. c % 2 = 0 /\ e % 2 = 0
        BY <1>6, <2>3
      <4> QED  BY <1>1, <2>3, <4>1, <4>2 DEF BlockAt
    <3>2. c - m[c - 2].size >= e /\ c - m[c - 2].size # brk /\ c - m[c - 2].size - 1 \in Addr
      <4> DEFINE p == c - m[c - 2].size
      <4>1. p \in S /\ p \in Int /\ p < c /\ p # brk /\ p + m[p - 1].size = c
        BY <1>1, <3>1
      <4> HIDE DEF p
      <4>2. /\ p - 1 \in Addr
            /\ \A d \in S : d <= p \/ d >= p + m[p - 1].size
        <5>1. BlockAt(m, brk, S, p)
          BY <4>1, Geometry
        <5> QED  BY <4>1, <5>1 DEF BlockAt
      <4>3. e <= p
        BY <1>1, <2>3, <4>1, <4>2
      <4> QED  BY <4>1, <4>2, <4>3 DEF p
    <3>3. m2[c - 2] = m[c - 2] /\ m2[c - m[c - 2].size - 1] = m[c - m[c - 2].size - 1]
      <4>1. c - 2 > e - 2 /\ c - m[c - 2].size - 1 > e - 2
        BY <1>1, <2>3, <3>1, <3>2
      <4> QED  BY <3>1, <3>2, <4>1
    <3>4. c - m[c - 2].size \in S2 \ {brk}
      BY <1>1, <2>3, <3>1, <3>2
    <3> QED  BY <3>1, <3>3, <3>4
  <2> QED  BY <1>1, <1>7, <2>1, <2>2, <2>3
<1>10. m2[Prologue - 1] = m[Prologue - 1] /\ m2[brk - 1] = m[brk - 1]
  <2>1. Prologue - 1 \in Addr /\ Prologue - 1 < b - 1 /\ brk - 1 \in Addr /\ brk - 1 > e - 2
    BY <1>1, <1>2
  <2> QED  BY <2>1
<1>11. Chained(m2, brk, S2)
  BY <1>3, <1>6, <1>8, <1>9, <1>10 DEF Chained
<1>12. U2 \subseteq Regular(S2, brk)
  BY <1>4, <1>6 DEF Heap, Regular
<1>13. ASSUME NEW c \in Regular(S2, brk)
       PROVE  m2[c - 1].alloc = 1 <=> c \in U2
  <2>1. CASE c \in T
    BY <1>4, <2>1
  <2>2. CASE c \notin T
    <3>1. c \in Regular(S, brk) /\ c \in Int /\ (c < b \/ c >= e) /\ c - 1 \in Addr
      <4>1. c \in S \ (b .. e - 1) /\ c \in Regular(S, brk)
        BY <2>2 DEF Regular
      <4>2. BlockAt(m, brk, S, c)
        BY <4>1, Geometry
      <4> QED  BY <1>7, <4>1, <4>2 DEF BlockAt
    <3>2. m2[c - 1] = m[c - 1]
      BY <1>1, <3>1
    <3>3. c \in U2 <=> c \in U
      BY <1>1, <2>2, <3>1
    <3> QED  BY <3>1, <3>2, <3>3 DEF Heap
  <2> QED  BY <2>1, <2>2
<1> QED  BY <1>11, <1>12, <1>13 DEF Heap

\* One block in place of the run, in use or free.
LEMMA OneBlock ==
  ASSUME NEW m, NEW brk, NEW S, NEW U, Heap(m, brk, S, U),
         NEW b \in Regular(S, brk), NEW e \in S, b < e, NEW alloc \in {0, 1},
         NEW m2, SameOutside(m, m2, b, e),
         m2[b - 1] = [size |-> e - b, alloc |-> alloc],
         m2[e - 2] = [size |-> e - b, alloc |-> alloc]
  PROVE  Heap(m2, brk, (S \ (b .. e - 1)) \cup {b},
              (U \ (b .. e - 1)) \cup (IF alloc = 1 THEN {b} ELSE {}))
<1>1. BlockAt(m, brk, S, b) /\ BlockAt(m, brk, S, e) /\ b # brk /\ b # Prologue
  BY Geometry DEF Regular
<1>2. /\ b \in Int /\ e \in Int /\ b % 2 = 0 /\ e - b >= 4
  BY <1>1 DEF BlockAt
<1> DEFINE T == {b}
           V == IF alloc = 1 THEN {b} ELSE {}
<1>3. Tiles(m2, b, e, T, V)
  BY <1>2 DEF Tiles
<1> HIDE DEF T, V
<1>4. Heap(m2, brk, (S \ (b .. e - 1)) \cup T, (U \ (b .. e - 1)) \cup V)
  BY <1>3, Rewrite
<1> QED  BY <1>4 DEF T, V

\* Two blocks in place of the run: one in use up to c, and a free one.
LEMMA TwoBlocks ==
  ASSUME NEW m, NEW brk, NEW S, NEW U, Heap(m, brk, S, U),
         NEW b \in Regular(S, brk), NEW e \in S, b < e,
         NEW c \in Int, c % 2 = 0, b + 4 <= c, c + 4 <= e,
         NEW m2, SameOutside(m, m2, b, e),
         m2[b - 1] = [size |-> c - b, alloc |-> 1],
         m2[c - 2] = [size |-> c - b, alloc |-> 1],
         m2[c - 1] = [size |-> e - c, alloc |-> 0],
         m2[e - 2] = [size |-> e - c, alloc |-> 0]
  PROVE  Heap(m2, brk, (S \ (b .. e - 1)) \cup {b, c}, (U \ (b .. e - 1)) \cup {b})
<1>1. BlockAt(m, brk, S, b) /\ BlockAt(m, brk, S, e) /\ b # brk /\ b # Prologue
  BY Geometry DEF Regular
<1>2. /\ b \in Int /\ e \in Int /\ b % 2 = 0 /\ b # c
  BY <1>1 DEF BlockAt
<1> DEFINE T == {b, c}
           V == {b}
<1>3. Tiles(m2, b, e, T, V)
  BY <1>2 DEF Tiles
<1> HIDE DEF T, V
<1>4. Heap(m2, brk, (S \ (b .. e - 1)) \cup T, (U \ (b .. e - 1)) \cup V)
  BY <1>3, Rewrite
<1> QED  BY <1>4 DEF T, V

\* Blocks outside the run keep every word.
LEMMA KeptOutside ==
  ASSUME NEW m, NEW brk, NEW S, NEW U, Heap(m, brk, S, U),
         NEW b \in S, NEW e \in S, NEW m2, SameOutside(m, m2, b, e),
         NEW W \in SUBSET U, W \cap (b .. e - 1) = {}
  PROVE  Kept(m, m2, W)
<1> SUFFICES ASSUME NEW u \in W, NEW a \in u - 1 .. u + m[u - 1].size - 2
             PROVE  m2[a] = m[a]
  BY DEF Kept
<1>1. u \in S /\ u # brk /\ u # Prologue
  BY DEF Heap, Regular
<1>2. BlockAt(m, brk, S, u) /\ BlockAt(m, brk, S, b) /\ BlockAt(m, brk, S, e)
  BY <1>1, Geometry
<1>3. /\ u \in Int /\ b \in Int /\ e \in Int /\ u >= Prologue + 2 /\ m[u - 1].size \in Nat
      /\ u + m[u - 1].size <= brk
      /\ b <= u \/ b >= u + m[u - 1].size
  BY <1>1, <1>2 DEF BlockAt
<1>4. u < b \/ u >= e
  BY <1>3
<1>5. a \in Int /\ a \in Addr
  BY <1>3, Bounds, Breaks
<1>6. a < b - 1 \/ a > e - 2
  BY <1>3, <1>4, <1>5
<1> QED  BY <1>5, <1>6 DEF SameOutside

-----------------------------------------------------------------------------

\* WriteTags writes the header, the footer the header's size leads to, and
\* nothing else.
LEMMA Tags ==
  ASSUME NEW m \in [Addr -> Word], NEW b \in Int, NEW n \in Nat, NEW alloc \in {0, 1},
         b - 1 \in Addr, b + n - 2 \in Addr
  PROVE  /\ WriteTags(m, b, pack_word(n, alloc)) \in [Addr -> Word]
         /\ WriteTags(m, b, pack_word(n, alloc))[b - 1] = [size |-> n, alloc |-> alloc]
         /\ WriteTags(m, b, pack_word(n, alloc))[b + n - 2] = [size |-> n, alloc |-> alloc]
         /\ \A a \in Addr : a # b - 1 /\ a # b + n - 2 =>
              WriteTags(m, b, pack_word(n, alloc))[a] = m[a]
<1> DEFINE v == [size |-> n, alloc |-> alloc]
           h == [m EXCEPT ![b - 1] = v]
<1>1. v \in Word /\ v.size = n
  BY DEF Word
<1>2. h \in [Addr -> Word] /\ h[b - 1] = v
  BY <1>1
<1>3. WriteTags(m, b, pack_word(n, alloc)) = [h EXCEPT ![b + n - 2] = v]
  BY <1>1, <1>2 DEF WriteTags, escribir_header
<1> HIDE DEF v
<1> QED  BY <1>1, <1>2, <1>3 DEF v

\* A run of free blocks joined into one.
LEMMA JoinRun ==
  ASSUME NEW m, NEW brk, NEW S, NEW U, Heap(m, brk, S, U),
         NEW b \in Regular(S, brk), NEW e \in S, b < e,
         U \cap (b .. e - 1) = {},
         NEW m2, SameOutside(m, m2, b, e),
         m2[b - 1] = [size |-> e - b, alloc |-> 0],
         m2[e - 2] = [size |-> e - b, alloc |-> 0]
  PROVE  /\ Heap(m2, brk, (S \ (b .. e - 1)) \cup {b}, U)
         /\ b \in Regular((S \ (b .. e - 1)) \cup {b}, brk)
         /\ b \notin U
         /\ Kept(m, m2, U)
<1>1. Heap(m2, brk, (S \ (b .. e - 1)) \cup {b}, (U \ (b .. e - 1)) \cup (IF 0 = 1 THEN {b} ELSE {}))
  BY OneBlock
<1>2. (U \ (b .. e - 1)) \cup (IF 0 = 1 THEN {b} ELSE {}) = U
  OBVIOUS
<1>3. b \in Int /\ e \in Int /\ b \in b .. e - 1
  <2>1. BlockAt(m, brk, S, b) /\ BlockAt(m, brk, S, e)
    BY Geometry DEF Regular
  <2> QED  BY <2>1 DEF BlockAt
<1>4. Kept(m, m2, U)
  BY KeptOutside DEF Regular
<1> QED  BY <1>1, <1>2, <1>3, <1>4 DEF Regular

\* A run of free blocks between two that are in use, made one: if only block k
\* of the run had free neighbours, no two free blocks are neighbours now.
LEMMA JoinedSpaced ==
  ASSUME NEW S, NEW brk, NEW U, NEW b \in S, NEW e \in S, S \subseteq Int, b < e,
         U \cap (b .. e - 1) = {}, e \notin FreeBlocks(S, brk, U),
         \A x \in FreeBlocks(S, brk, U) : x < b => \E z \in S : x < z /\ z < b,
         NEW k \in b .. e - 1, SpacedBut(S, brk, U, k)
  PROVE  Spaced((S \ (b .. e - 1)) \cup {b}, brk, U)
<1> DEFINE S2 == (S \ (b .. e - 1)) \cup {b}
<1> SUFFICES ASSUME NEW x \in FreeBlocks(S2, brk, U), NEW y \in FreeBlocks(S2, brk, U), x < y
             PROVE  \E z \in S2 : x < z /\ z < y
  BY DEF Spaced
<1>1. /\ x \in S2 /\ y \in S2 /\ x \in S /\ y \in S /\ x \in Int /\ y \in Int
      /\ b \in Int /\ e \in Int /\ b \in S2 /\ e \in S2
      /\ x \in FreeBlocks(S, brk, U) /\ y \in FreeBlocks(S, brk, U)
      /\ x = b \/ x < b \/ x >= e
      /\ y = b \/ y < b \/ y >= e
  BY DEF FreeBlocks, Regular
<1>2. \A z \in S : z < b \/ z >= e => z \in S2
  OBVIOUS
<1> HIDE DEF S2
<1>3. CASE x = b
  BY <1>1, <1>3
<1>4. CASE y = b
  BY <1>1, <1>2, <1>4
<1>5. CASE x # b /\ y # b
  <2>1. PICK z \in S : x < z /\ z < y
    BY <1>1, <1>5 DEF SpacedBut
  <2> QED  BY <1>1, <1>2, <1>5, <2>1
<1> QED  BY <1>3, <1>4, <1>5

\* coalesce of a free block, in each of its four cases, leaves a well-formed
\* list with a free block at least as large, no block in use is touched, and
\* the neighbours that remain are in use.
LEMMA Coalescing ==
  ASSUME NEW m, NEW brk, NEW S, NEW U, Heap(m, brk, S, U),
         NEW b \in Regular(S, brk), b \notin U
  PROVE  /\ \E S2 : /\ Heap(coalesce(m, b).mem, brk, S2, U)
                    /\ coalesce(m, b).block \in Regular(S2, brk)
                    /\ SpacedBut(S, brk, U, b) => Spaced(S2, brk, U)
         /\ coalesce(m, b).block \notin U
         /\ coalesce(m, b).mem[coalesce(m, b).block - 1].size >= m[b - 1].size
         /\ Kept(m, coalesce(m, b).mem, U)
<1> DEFINE prev == b - m[b - 2].size
           next == b + m[b - 1].size
<1>1. BlockAt(m, brk, S, b) /\ b \in S /\ b # brk /\ b # Prologue
  BY Geometry DEF Regular
<1>2. /\ b \in Int /\ b - 1 \in Addr /\ Prologue + 2 <= b /\ b < brk
      /\ m[b - 1].size \in Nat /\ m[b - 1].size >= 4
      /\ next \in S /\ next \in Int /\ next <= brk
      /\ prev \in S /\ prev \in Int /\ prev < b
      /\ prev + m[prev - 1].size = b
      /\ m[next - 2] = m[b - 1]
      /\ \A c \in S : c <= b \/ c >= next
  BY <1>1, Breaks DEF BlockAt
<1> HIDE DEF prev, next
<1>3. BlockAt(m, brk, S, prev) /\ BlockAt(m, brk, S, next) /\ prev # brk
  BY <1>2, Geometry, Breaks
<1>4. /\ m[prev - 1].size \in Nat /\ m[prev - 1].size = b - prev
      /\ m[b - 2] = m[prev - 1]
      /\ prev - 1 \in Addr /\ next - 1 \in Addr
      /\ \A c \in S : c <= prev \/ c >= b
      /\ Prologue <= prev
  BY <1>2, <1>3 DEF BlockAt
<1>5. U \subseteq S /\ b \notin U /\ U \subseteq Int
  BY Geometry DEF Heap, Regular, BlockAt
<1>6. m \in [Addr -> Word] /\ m[b - 1] \in Word
  BY <1>2 DEF Heap
<1>7. /\ bloque_anterior(m, b) = prev /\ proximo_bloque(m, b) = next
      /\ obtener_footer(m, prev) = b - 2
      /\ obtener_footer(m, b) = next - 2
  BY <1>2, <1>4 DEF prev, next
<1> DEFINE last == next + m[next - 1].size
<1>8. S \subseteq Int /\ b \in FreeBlocks(S, brk, U)
  BY Geometry DEF BlockAt, FreeBlocks
<1>9. m[prev - 1].alloc = 1 => prev \notin FreeBlocks(S, brk, U)
  BY DEF Heap, FreeBlocks
<1>10. m[next - 1].alloc = 1 => next \notin FreeBlocks(S, brk, U)
  BY DEF Heap, FreeBlocks
\* The free blocks below a block whose predecessor is in use.
<1>11. ASSUME m[prev - 1].alloc = 1, NEW x \in FreeBlocks(S, brk, U), x < b
       PROVE  \E z \in S : x < z /\ z < b
  <2>1. x \in S /\ x \in Int /\ x # prev
    BY <1>8, <1>9, <1>11 DEF FreeBlocks, Regular
  <2>2. x < prev
    BY <1>2, <1>4, <1>11, <2>1
  <2> QED  BY <1>2, <2>2
<1>12. CASE m[prev - 1].alloc = 1 /\ m[next - 1].alloc = 1
  <2>1. SpacedBut(S, brk, U, b) => Spaced(S, brk, U)
    <3> SUFFICES ASSUME SpacedBut(S, brk, U, b),
                        NEW x \in FreeBlocks(S, brk, U), NEW y \in FreeBlocks(S, brk, U), x < y
                 PROVE  \E z \in S : x < z /\ z < y
      BY DEF Spaced
    <3>1. x \in S /\ y \in S /\ x \in Int /\ y \in Int
      BY <1>8 DEF FreeBlocks, Regular
    <3>2. CASE x = b
      <4>1. y # next
        BY <1>12, <1>10
      <4>2. next < y /\ b < next
        BY <1>2, <3>1, <3>2, <4>1 DEF next
      <4> QED  BY <1>2, <3>2, <4>2
    <3>3. CASE y = b
      BY <1>12, <1>11, <3>3
    <3>4. CASE x # b /\ y # b
      BY <3>4 DEF SpacedBut
    <3> QED  BY <3>2, <3>3, <3>4
  <2>2. coalesce(m, b) = [mem |-> m, block |-> b]
    BY <1>4, <1>7, <1>12 DEF coalesce
  <2>3. Kept(m, m, U)
    BY DEF Kept
  <2> QED  BY <1>2, <2>1, <2>2, <2>3
<1>13. ASSUME m[next - 1].alloc # 1
      PROVE  /\ next \in Regular(S, brk) /\ next \notin U
             /\ last \in S /\ last \in Int /\ last <= brk /\ next + 4 <= last
             /\ m[next - 1].size \in Nat /\ m[next - 1].size = last - next
             /\ m[last - 2] = m[next - 1]
             /\ obtener_footer(m, next) = last - 2
             /\ \A c \in S : c <= next \/ c >= last
             /\ last - 2 \in Addr
             /\ SpacedBut(S, brk, U, b) => last \notin FreeBlocks(S, brk, U)
  <2>1. next # brk /\ next # Prologue
    BY <1>2, <1>13 DEF Heap, Chained
  <2>2. next \in Regular(S, brk) /\ next \notin U
    BY <1>2, <1>13, <2>1 DEF Regular, Heap
  <2>3. last - 2 \in Addr
    BY <1>2, <1>3, <2>1, Bounds, Breaks DEF BlockAt
  <2>4. /\ last \in S /\ last \in Int /\ last <= brk /\ next + 4 <= last
        /\ m[next - 1].size \in Nat /\ m[next - 1].size = last - next
        /\ m[last - 2] = m[next - 1]
        /\ \A c \in S : c <= next \/ c >= last
    BY <1>2, <1>3, <2>1 DEF BlockAt
  <2>5. next \in FreeBlocks(S, brk, U) /\ b < next
    BY <1>2, <2>2 DEF FreeBlocks, next
  <2> HIDE DEF last
  <2>6. SpacedBut(S, brk, U, b) => last \notin FreeBlocks(S, brk, U)
    BY <1>2, <1>8, <2>4, <2>5 DEF SpacedBut
  <2> QED  BY <1>2, <2>2, <2>3, <2>4, <2>6 DEF last
<1> HIDE DEF last
<1>14. ASSUME m[prev - 1].alloc # 1
       PROVE  /\ prev \in Regular(S, brk) /\ prev \notin U
              /\ SpacedBut(S, brk, U, b) =>
                   \A x \in FreeBlocks(S, brk, U) : x < prev => \E z \in S : x < z /\ z < prev
  <2>1. prev # Prologue
    BY <1>14 DEF Heap, Chained
  <2>2. prev \in Regular(S, brk) /\ prev \notin U
    BY <1>2, <1>3, <1>14, <2>1 DEF Regular, Heap
  <2>3. prev \in FreeBlocks(S, brk, U) \ {b}
    BY <1>2, <2>2 DEF FreeBlocks
  <2>4. ASSUME NEW x \in FreeBlocks(S, brk, U), x < prev  PROVE x # b
    BY <1>2, <2>4
  <2> QED  BY <2>2, <2>3, <2>4 DEF SpacedBut
<1>15. CASE m[prev - 1].alloc = 1 /\ m[next - 1].alloc # 1
  <2> DEFINE m2 == WriteTags(m, b, pack_word(last - b, 0))
  <2>1. coalesce(m, b) = [mem |-> m2, block |-> b]
    <3>1. m[b - 1].size + m[next - 1].size = last - b
      BY <1>2, <1>13, <1>15 DEF next
    <3> QED  BY <1>4, <1>7, <1>15, <3>1 DEF coalesce
  <2>2. /\ last - b \in Nat /\ b + (last - b) - 2 = last - 2 /\ last - 2 \in Addr
        /\ b < last /\ last \in S /\ last \in Int /\ next < last
    BY <1>2, <1>13, <1>15 DEF next
  <2>3. /\ m2 \in [Addr -> Word]
        /\ m2[b - 1] = [size |-> last - b, alloc |-> 0]
        /\ m2[last - 2] = [size |-> last - b, alloc |-> 0]
        /\ \A a \in Addr : a # b - 1 /\ a # last - 2 => m2[a] = m[a]
    <3> DEFINE n == last - b
    <3>1. n \in Nat /\ b + n - 2 = last - 2 /\ b + n - 2 \in Addr /\ b - 1 \in Addr
      BY <1>2, <2>2
    <3> HIDE DEF n
    <3>2. /\ WriteTags(m, b, pack_word(n, 0)) \in [Addr -> Word]
          /\ WriteTags(m, b, pack_word(n, 0))[b - 1] = [size |-> n, alloc |-> 0]
          /\ WriteTags(m, b, pack_word(n, 0))[b + n - 2] = [size |-> n, alloc |-> 0]
          /\ \A a \in Addr : a # b - 1 /\ a # b + n - 2 =>
               WriteTags(m, b, pack_word(n, 0))[a] = m[a]
      <4>1. m \in [Addr -> Word] /\ b \in Int /\ 0 \in {0, 1}
        BY <1>2, <1>6
      <4> QED  BY <3>1, <4>1, Tags
    <3> QED  BY <3>1, <3>2 DEF n
  <2> HIDE DEF m2
  <2>4. SameOutside(m, m2, b, last)
    BY <1>2, <2>2, <2>3, Bounds DEF SameOutside
  <2>5. U \cap (b .. last - 1) = {}
    BY <1>2, <1>5, <1>13, <1>15
  <2> HIDE DEF m2
  <2>6. /\ Heap(m2, brk, (S \ (b .. last - 1)) \cup {b}, U)
        /\ b \in Regular((S \ (b .. last - 1)) \cup {b}, brk)
        /\ b \notin U
        /\ Kept(m, m2, U)
    BY <2>2, <2>3, <2>4, <2>5, JoinRun
  <2>7. SpacedBut(S, brk, U, b) => Spaced((S \ (b .. last - 1)) \cup {b}, brk, U)
    <3>1. b \in S /\ b \in b .. last - 1 /\ b < last /\ last \in S /\ S \subseteq Int
      BY <1>1, <1>2, <1>8, <2>2
    <3>2. \A x \in FreeBlocks(S, brk, U) : x < b => \E z \in S : x < z /\ z < b
      BY <1>15, <1>11
    <3>3. SpacedBut(S, brk, U, b) => last \notin FreeBlocks(S, brk, U)
      BY <1>13, <1>15
    <3> QED  BY <2>5, <3>1, <3>2, <3>3, JoinedSpaced
  <2>8. m2[b - 1].size >= m[b - 1].size
    <3>1. last - b >= m[b - 1].size
      BY <1>2, <1>13, <1>15 DEF next
    <3> QED  BY <2>3, <3>1
  <2> QED  BY <2>1, <2>6, <2>8, <2>7
<1>16. CASE m[prev - 1].alloc # 1 /\ m[next - 1].alloc = 1
  <2> DEFINE v == [size |-> next - prev, alloc |-> 0]
             m2 == [[m EXCEPT ![next - 2] = v] EXCEPT ![prev - 1] = v]
  <2>1. coalesce(m, b) = [mem |-> m2, block |-> prev]
    <3>1. m[b - 1].size + m[prev - 1].size = next - prev
      BY <1>2, <1>4 DEF next
    <3> QED  BY <1>4, <1>7, <1>16, <3>1 DEF coalesce, escribir_header
  <2>2. v \in Word /\ next - 2 \in Addr /\ prev < next
    <3>1. next - 2 \in Addr /\ prev < next
      BY <1>2, <1>4, Bounds, Breaks DEF next
    <3> QED  BY <1>2, <3>1 DEF Word
  <2>3. /\ m2 \in [Addr -> Word]
        /\ m2[prev - 1] = v
        /\ m2[next - 2] = v
        /\ \A a \in Addr : a # prev - 1 /\ a # next - 2 => m2[a] = m[a]
    BY <1>4, <1>6, <2>2
  <2>4. SameOutside(m, m2, prev, next)
    BY <1>2, <2>2, <2>3 DEF SameOutside
  <2>5. U \cap (prev .. next - 1) = {}
    BY <1>2, <1>4, <1>5, <1>14, <1>16
  <2>6. m2[prev - 1] = [size |-> next - prev, alloc |-> 0] /\ m2[next - 2] = [size |-> next - prev, alloc |-> 0]
    BY <2>3
  <2> HIDE DEF m2, v
  <2>7. /\ Heap(m2, brk, (S \ (prev .. next - 1)) \cup {prev}, U)
        /\ prev \in Regular((S \ (prev .. next - 1)) \cup {prev}, brk)
        /\ prev \notin U
        /\ Kept(m, m2, U)
    BY <1>2, <1>14, <1>16, <2>2, <2>4, <2>5, <2>6, JoinRun
  <2>8. m2[prev - 1].size >= m[b - 1].size
    BY <1>2, <2>6 DEF next
  <2>9. SpacedBut(S, brk, U, b) => Spaced((S \ (prev .. next - 1)) \cup {prev}, brk, U)
    <3>1. b \in prev .. next - 1
      BY <1>2 DEF next
    <3> QED  BY <1>2, <1>14, <1>16, <1>8, <1>10, <2>2, <2>5, <3>1, JoinedSpaced
  <2> QED  BY <2>1, <2>7, <2>8, <2>9
<1>17. CASE m[prev - 1].alloc # 1 /\ m[next - 1].alloc # 1
  <2> DEFINE v == [size |-> last - prev, alloc |-> 0]
             h == [m EXCEPT ![prev - 1] = v]
             m2 == [h EXCEPT ![last - 2] = v]
  <2>1. /\ m[b - 1].size + m[prev - 1].size + m[last - 2].size = last - prev
        /\ v \in Word /\ last - 2 \in Addr /\ prev < last
    BY <1>2, <1>4, <1>13, <1>17 DEF next, Word
  <2>2. obtener_footer(h, next) = last - 2
    BY <1>2, <1>4, <1>6, <1>13, <1>17
  <2>3. coalesce(m, b) = [mem |-> m2, block |-> prev]
    BY <1>4, <1>7, <1>13, <1>17, <2>1, <2>2 DEF coalesce, escribir_header
  <2>4. /\ m2 \in [Addr -> Word]
        /\ m2[prev - 1] = v
        /\ m2[last - 2] = v
        /\ \A a \in Addr : a # prev - 1 /\ a # last - 2 => m2[a] = m[a]
    BY <1>4, <1>6, <2>1
  <2>5. SameOutside(m, m2, prev, last)
    BY <1>2, <1>13, <1>17, <2>1, <2>4 DEF SameOutside
  <2>6. U \cap (prev .. last - 1) = {}
    BY <1>2, <1>4, <1>5, <1>13, <1>14, <1>17
  <2>7. m2[prev - 1] = [size |-> last - prev, alloc |-> 0] /\ m2[last - 2] = [size |-> last - prev, alloc |-> 0]
    BY <2>4
  <2>8. last \in S
    BY <1>13, <1>17
  <2>9. last - prev >= m[b - 1].size
    BY <1>2, <1>13, <1>17 DEF next
  <2> HIDE DEF m2, v
  <2>10. /\ Heap(m2, brk, (S \ (prev .. last - 1)) \cup {prev}, U)
         /\ prev \in Regular((S \ (prev .. last - 1)) \cup {prev}, brk)
         /\ prev \notin U
         /\ Kept(m, m2, U)
    BY <1>14, <1>17, <2>1, <2>5, <2>6, <2>7, <2>8, JoinRun
  <2>11. SpacedBut(S, brk, U, b) => Spaced((S \ (prev .. last - 1)) \cup {prev}, brk, U)
    <3>1. b \in prev .. last - 1
      BY <1>2, <1>13, <1>17 DEF next
    <3> QED  BY <1>2, <1>13, <1>14, <1>17, <1>8, <2>1, <2>6, <2>8, <3>1, JoinedSpaced
  <2> QED  BY <2>3, <2>7, <2>9, <2>10, <2>11
<1> QED  BY <1>12, <1>15, <1>16, <1>17

-----------------------------------------------------------------------------

\* Operations that leave the words of some blocks alone do so one after the
\* other, as in mm_malloc's extend_heap and place.
LEMMA KeptTwice ==
  ASSUME NEW m, NEW brk, NEW S, NEW U, Heap(m, brk, S, U), NEW W \in SUBSET U,
         NEW m1, NEW m2, Kept(m, m1, W), Kept(m1, m2, W)
  PROVE  Kept(m, m2, W)
<1> SUFFICES ASSUME NEW u \in W, NEW a \in u - 1 .. u + m[u - 1].size - 2
             PROVE  m2[a] = m[a]
  BY DEF Kept
<1>1. u \in S /\ u # brk /\ u # Prologue
  BY DEF Heap, Regular
<1>2. BlockAt(m, brk, S, u)
  BY <1>1, Geometry
<1>3. u - 1 \in u - 1 .. u + m[u - 1].size - 2
  BY <1>1, <1>2 DEF BlockAt
<1>4. m1[u - 1] = m[u - 1] /\ m1[a] = m[a]
  BY <1>3 DEF Kept
<1> QED  BY <1>4 DEF Kept

\* A block in use, with its next block, and what surrounds it.
LEMMA InUse ==
  ASSUME NEW m, NEW brk, NEW S, NEW U, Heap(m, brk, S, U), NEW p \in Regular(S, brk)
  PROVE  /\ BlockAt(m, brk, S, p) /\ p \in S
         /\ p \in Int /\ p + m[p - 1].size \in S /\ p + m[p - 1].size <= brk
         /\ m[p - 1].size \in Nat /\ m[p - 1].size >= 4 /\ m[p - 1].size % 2 = 0
         /\ m[p + m[p - 1].size - 2] = m[p - 1]
         /\ p - 1 \in Addr /\ p + m[p - 1].size - 2 \in Addr
         /\ S \cap (p .. p + m[p - 1].size - 1) = {p}
<1>1. BlockAt(m, brk, S, p) /\ p \in S /\ p # Prologue /\ p # brk
  BY Geometry DEF Regular
<1> DEFINE e == p + m[p - 1].size
<1>2. e \in S /\ e \in Int /\ e % 2 = 0
  <2>1. e \in S
    BY <1>1 DEF BlockAt
  <2> QED  BY <2>1, Geometry DEF BlockAt
<1>3. S \subseteq Int
  BY Geometry DEF BlockAt
<1>4. p \in Int /\ p % 2 = 0 /\ m[p - 1].size \in Nat /\ m[p - 1].size >= 4
      /\ e <= brk /\ m[e - 2] = m[p - 1] /\ p - 1 \in Addr
      /\ \A c \in S : c <= p \/ c >= e
  BY <1>1 DEF BlockAt
<1>5. m[p - 1].size % 2 = 0
  BY <1>2, <1>4
<1>6. p + m[p - 1].size - 2 \in Addr
  BY <1>1, <1>4, Bounds, Breaks DEF BlockAt
<1>7. S \cap (p .. p + m[p - 1].size - 1) = {p}
  BY <1>1, <1>3, <1>4
<1> QED  BY <1>1, <1>2, <1>4, <1>5, <1>6, <1>7

\* One block marked in use or free, as large as it was, or filled: the same
\* chain.
LEMMA Marked ==
  ASSUME NEW m, NEW brk, NEW S, NEW U, Heap(m, brk, S, U),
         NEW p \in Regular(S, brk), NEW alloc \in {0, 1}, NEW m2 \in [Addr -> Word],
         \A a \in Addr : a < p - 1 \/ a > p + m[p - 1].size - 2 => m2[a] = m[a],
         m2[p - 1] = [size |-> m[p - 1].size, alloc |-> alloc],
         m2[p + m[p - 1].size - 2] = [size |-> m[p - 1].size, alloc |-> alloc]
  PROVE  /\ Heap(m2, brk, S, IF alloc = 1 THEN U \cup {p} ELSE U \ {p})
         /\ Kept(m, m2, U \ {p})
<1> DEFINE e == p + m[p - 1].size
<1>1. /\ p \in Int /\ p \in S /\ m[p - 1].size \in Nat /\ e \in S /\ p < e /\ e - p = m[p - 1].size
      /\ S \cap (p .. e - 1) = {p}
  BY InUse
<1>2. U \subseteq S /\ U \ (p .. e - 1) = U \ {p}
  BY <1>1 DEF Heap, Regular
<1> HIDE DEF e
<1>3. SameOutside(m, m2, p, e)
  <2>1. e - 2 = p + m[p - 1].size - 2
    BY <1>1 DEF e
  <2>2. \A a \in Addr : a < p - 1 \/ a > e - 2 => m2[a] = m[a]
    BY <2>1
  <2> QED  BY <2>2 DEF SameOutside
<1>4. m2[p - 1] = [size |-> e - p, alloc |-> alloc] /\ m2[e - 2] = [size |-> e - p, alloc |-> alloc]
  BY <1>1 DEF e
<1>5. Heap(m2, brk, (S \ (p .. e - 1)) \cup {p},
           (U \ (p .. e - 1)) \cup (IF alloc = 1 THEN {p} ELSE {}))
  BY <1>1, <1>3, <1>4, OneBlock
<1>6. /\ (S \ (p .. e - 1)) \cup {p} = S
      /\ (U \ (p .. e - 1)) \cup (IF alloc = 1 THEN {p} ELSE {})
           = (IF alloc = 1 THEN U \cup {p} ELSE U \ {p})
  BY <1>1, <1>2
<1>7. Kept(m, m2, U \ {p})
  <2>1. (U \ {p}) \cap (p .. e - 1) = {} /\ U \ {p} \in SUBSET U
    BY <1>1, <1>2
  <2> QED  BY <1>1, <1>3, <2>1, KeptOutside
<1> QED  BY <1>5, <1>6, <1>7

\* mm_free takes the block out of use, touches no other block in use and
\* leaves no two free neighbours.
LEMMA Freeing ==
  ASSUME NEW m, NEW brk, NEW S, NEW U, Heap(m, brk, S, U), Spaced(S, brk, U), NEW p \in U
  PROVE  /\ \E S2 : Heap(mm_free(m, p), brk, S2, U \ {p}) /\ Spaced(S2, brk, U \ {p})
         /\ Kept(m, mm_free(m, p), U \ {p})
<1> DEFINE n == m[p - 1].size
           t == WriteTags(m, p, pack_word(n, 0))
<1>1. p \in Regular(S, brk)
  BY DEF Heap
<1>2. p \in Int /\ n \in Nat /\ n >= 4 /\ p - 1 \in Addr /\ p + n - 2 \in Addr /\ m \in [Addr -> Word]
  BY <1>1, InUse DEF Heap
<1>3. mm_free(m, p) = coalesce(t, p).mem
  BY DEF mm_free
<1> HIDE DEF n
<1>4. /\ t \in [Addr -> Word]
      /\ t[p - 1] = [size |-> n, alloc |-> 0]
      /\ t[p + n - 2] = [size |-> n, alloc |-> 0]
      /\ \A a \in Addr : a # p - 1 /\ a # p + n - 2 => t[a] = m[a]
  BY <1>2, Tags
<1> HIDE DEF t
<1>5. \A a \in Addr : a < p - 1 \/ a > p + n - 2 => t[a] = m[a]
  BY <1>2, <1>4, Bounds
<1>6. /\ Heap(t, brk, S, IF 0 = 1 THEN U \cup {p} ELSE U \ {p})
      /\ Kept(m, t, U \ {p})
  BY <1>1, <1>4, <1>5, Marked DEF n
<1>7. Heap(t, brk, S, U \ {p}) /\ p \notin U \ {p}
  BY <1>6
<1>8. SpacedBut(S, brk, U \ {p}, p)
  BY DEF Spaced, SpacedBut, FreeBlocks
<1>9. /\ \E S2 : Heap(coalesce(t, p).mem, brk, S2, U \ {p}) /\ Spaced(S2, brk, U \ {p})
      /\ Kept(t, coalesce(t, p).mem, U \ {p})
  BY <1>1, <1>7, <1>8, Coalescing
<1>10. Kept(m, coalesce(t, p).mem, U \ {p})
  BY <1>6, <1>9, KeptTwice
<1> QED  BY <1>3, <1>9, <1>10

\* A free block b split at c into one in use and a free one: its neighbours
\* were in use, so the new free block's are.
LEMMA SplitSpaced ==
  ASSUME NEW S, NEW brk, NEW U, Spaced(S, brk, U), NEW b \in FreeBlocks(S, brk, U),
         NEW c \in Int, NEW e \in S, S \subseteq Int, b < c, c < e,
         \A z \in S : z <= b \/ z >= e
  PROVE  Spaced((S \ (b .. e - 1)) \cup {b, c}, brk, U \cup {b})
<1> DEFINE S2 == (S \ (b .. e - 1)) \cup {b, c}
<1>1. b \in S /\ b \in Int /\ e \in Int
  BY DEF FreeBlocks, Regular
<1>2. \A z : z \in S2 <=> z \in S \/ z = c
  BY <1>1
<1>3. e \notin FreeBlocks(S, brk, U)
  BY <1>1 DEF Spaced
<1> HIDE DEF S2
<1>4. \A x \in FreeBlocks(S2, brk, U \cup {b}) : x # b /\ x \in Int /\ (x \in FreeBlocks(S, brk, U) \/ x = c)
  BY <1>2 DEF FreeBlocks, Regular
<1> SUFFICES ASSUME NEW x \in FreeBlocks(S2, brk, U \cup {b}), NEW y \in FreeBlocks(S2, brk, U \cup {b}), x < y
             PROVE  \E z \in S2 : x < z /\ z < y
  BY DEF Spaced, S2
<1>5. CASE x = c
  <2>1. y \in FreeBlocks(S, brk, U) /\ y \in S /\ y \in Int
    BY <1>4, <1>5 DEF FreeBlocks, Regular
  <2>2. e < y
    BY <1>1, <1>3, <1>5, <2>1
  <2> QED  BY <1>2, <1>5, <2>2
<1>6. CASE y = c
  <2>1. x \in FreeBlocks(S, brk, U) /\ x \in S /\ x \in Int /\ x # b
    BY <1>4, <1>6 DEF FreeBlocks, Regular
  <2>2. x < b
    BY <1>1, <1>6, <2>1
  <2> QED  BY <1>1, <1>2, <1>6, <2>2
<1>7. CASE x # c /\ y # c
  BY <1>2, <1>4, <1>7 DEF Spaced
<1> QED  BY <1>5, <1>6, <1>7

\* place puts a block of at least n words in use, touches no other, and leaves
\* what it splits off before a block in use.
LEMMA Placing ==
  ASSUME NEW m, NEW brk, NEW S, NEW U, Heap(m, brk, S, U), Spaced(S, brk, U),
         NEW b \in Regular(S, brk), b \notin U,
         NEW n \in Nat, n >= 4, n % 2 = 0, n <= m[b - 1].size
  PROVE  /\ \E S2 : Heap(place(m, b, n), brk, S2, U \cup {b}) /\ Spaced(S2, brk, U \cup {b})
         /\ place(m, b, n)[b - 1].size >= n
         /\ Kept(m, place(m, b, n), U)
<1> DEFINE old == m[b - 1].size
           c == b + n
           e == b + old
<1>1. /\ b \in Int /\ b % 2 = 0 /\ old \in Nat /\ old >= 4 /\ b \in S
      /\ b - 1 \in Addr /\ e - 2 \in Addr /\ e \in S /\ m \in [Addr -> Word]
      /\ S \cap (b .. e - 1) = {b}
      /\ b + old - 2 \in Addr
  <2>1. /\ BlockAt(m, brk, S, b) /\ b \in S
        /\ b \in Int /\ b + m[b - 1].size \in S
        /\ m[b - 1].size \in Nat /\ m[b - 1].size >= 4
        /\ b - 1 \in Addr /\ b + m[b - 1].size - 2 \in Addr
        /\ S \cap (b .. b + m[b - 1].size - 1) = {b}
    BY InUse
  <2>2. b % 2 = 0
    BY <2>1 DEF BlockAt
  <2>3. m \in [Addr -> Word]
    BY DEF Heap
  <2> QED  BY <2>1, <2>2, <2>3
<1>2. U \subseteq S /\ U \cap (b .. e - 1) = {} /\ U \ {b} = U
  BY <1>1 DEF Heap, Regular
<1> HIDE DEF old
<1>3. CASE old - n >= 4
  <2> DEFINE head == WriteTags(m, b, pack_word(n, 1))
             k == old - n
             m2 == WriteTags(head, c, pack_word(k, 0))
  <2>1. /\ c \in Int /\ c % 2 = 0 /\ b + 4 <= c /\ c + 4 <= e /\ e \in Int
        /\ k \in Nat /\ c + k - 2 = e - 2 /\ b + n - 2 = c - 2 /\ k = e - c /\ n = c - b
    BY <1>1, <1>3
  <2>2. c - 2 \in Addr /\ c - 1 \in Addr
    BY <1>1, <2>1, Bounds
  <2> HIDE DEF c, e, k
  <2>3. /\ head \in [Addr -> Word]
        /\ head[b - 1] = [size |-> n, alloc |-> 1]
        /\ head[c - 2] = [size |-> n, alloc |-> 1]
        /\ \A a \in Addr : a # b - 1 /\ a # c - 2 => head[a] = m[a]
    <3>1. b + n - 2 \in Addr
      BY <2>1, <2>2
    <3>2. /\ head \in [Addr -> Word]
          /\ head[b - 1] = [size |-> n, alloc |-> 1]
          /\ head[b + n - 2] = [size |-> n, alloc |-> 1]
          /\ \A a \in Addr : a # b - 1 /\ a # b + n - 2 => head[a] = m[a]
      BY <1>1, <3>1, Tags
    <3> QED  BY <2>1, <3>2
  <2>4. place(m, b, n) = m2
    <3>1. head[b - 1].size = n
      BY <2>3
    <3> QED  BY <1>3, <3>1 DEF place, old, c, k
  <2> HIDE DEF head
  <2>5. /\ m2 \in [Addr -> Word]
        /\ m2[c - 1] = [size |-> k, alloc |-> 0]
        /\ m2[e - 2] = [size |-> k, alloc |-> 0]
        /\ \A a \in Addr : a # c - 1 /\ a # e - 2 => m2[a] = head[a]
    <3>1. c + k - 2 \in Addr
      BY <1>1, <2>1
    <3>2. /\ m2 \in [Addr -> Word]
          /\ m2[c - 1] = [size |-> k, alloc |-> 0]
          /\ m2[c + k - 2] = [size |-> k, alloc |-> 0]
          /\ \A a \in Addr : a # c - 1 /\ a # c + k - 2 => m2[a] = head[a]
      <4>1. head \in [Addr -> Word] /\ c \in Int /\ k \in Nat /\ 0 \in {0, 1} /\ c - 1 \in Addr
        BY <2>1, <2>2, <2>3
      <4> QED  BY <3>1, <4>1, Tags
    <3> QED  BY <2>1, <3>2
  <2> HIDE DEF m2
  <2>6. /\ m2[b - 1] = [size |-> c - b, alloc |-> 1]
        /\ m2[c - 2] = [size |-> c - b, alloc |-> 1]
        /\ m2[c - 1] = [size |-> e - c, alloc |-> 0]
        /\ m2[e - 2] = [size |-> e - c, alloc |-> 0]
    <3>1. b - 1 # c - 1 /\ b - 1 # e - 2 /\ c - 2 # c - 1 /\ c - 2 # e - 2
      BY <1>1, <2>1
    <3> QED  BY <1>1, <2>1, <2>2, <2>3, <2>5, <3>1
  <2>7. SameOutside(m, m2, b, e)
    <3> SUFFICES ASSUME NEW a \in Addr, a < b - 1 \/ a > e - 2  PROVE m2[a] = m[a]
      BY <2>5 DEF SameOutside
    <3>1. a # b - 1 /\ a # c - 2 /\ a # c - 1 /\ a # e - 2
      BY <1>1, <2>1, Bounds
    <3> QED  BY <2>3, <2>5, <3>1
  <2>8. b < e
    BY <1>1, <2>1
  <2>9. Heap(m2, brk, (S \ (b .. e - 1)) \cup {b, c}, (U \ (b .. e - 1)) \cup {b})
    BY <1>1, <2>1, <2>6, <2>7, <2>8, TwoBlocks
  <2>10. (U \ (b .. e - 1)) \cup {b} = U \cup {b}
    BY <1>2 DEF e
  <2>11. Kept(m, m2, U)
    <3>1. U \in SUBSET U /\ U \cap (b .. e - 1) = {}
      BY <1>2 DEF e
    <3>2. e \in S
      BY <1>1 DEF e
    <3> QED  BY <1>1, <2>7, <3>1, <3>2, KeptOutside
  <2>12. m2[b - 1].size >= n
    BY <2>1, <2>6
  <2>13. Spaced((S \ (b .. e - 1)) \cup {b, c}, brk, U \cup {b})
    <3>1. b < c /\ c < e /\ e \in S /\ S \subseteq Int /\ \A z \in S : z <= b \/ z >= e
      <4>1. S \subseteq Int /\ e \in S
        BY <1>1, Geometry DEF BlockAt, e
      <4>2. S \cap (b .. e - 1) = {b}
        BY <1>1 DEF e
      <4> QED  BY <1>1, <2>1, <4>1, <4>2
    <3>2. b \in FreeBlocks(S, brk, U)
      BY DEF FreeBlocks
    <3> QED  BY <1>1, <2>1, <3>1, <3>2, SplitSpaced
  <2> QED  BY <2>4, <2>9, <2>10, <2>11, <2>12, <2>13
<1>4. CASE ~(old - n >= 4)
  <2> DEFINE m2 == WriteTags(m, b, pack_word(old, 1))
  <2>1. place(m, b, n) = m2
    BY <1>4 DEF place, old
  <2>2. /\ m2 \in [Addr -> Word]
        /\ m2[b - 1] = [size |-> old, alloc |-> 1]
        /\ m2[b + old - 2] = [size |-> old, alloc |-> 1]
        /\ \A a \in Addr : a # b - 1 /\ a # b + old - 2 => m2[a] = m[a]
    <3> HIDE DEF e
    <3> QED  BY <1>1, Tags
  <2> HIDE DEF m2
  <2>3. \A a \in Addr : a < b - 1 \/ a > b + old - 2 => m2[a] = m[a]
    BY <1>1, <2>2, Bounds
  <2>4. /\ Heap(m2, brk, S, IF 1 = 1 THEN U \cup {b} ELSE U \ {b})
        /\ Kept(m, m2, U \ {b})
    BY <2>2, <2>3, Marked DEF old
  <2>5. Heap(m2, brk, S, U \cup {b}) /\ Kept(m, m2, U)
    BY <1>2, <2>4
  <2>6. Spaced(S, brk, U \cup {b})
    BY DEF Spaced, FreeBlocks
  <2>7. m2[b - 1].size >= n
    BY <2>2 DEF old
  <2> QED  BY <2>1, <2>5, <2>7, <2>6
<1> QED  BY <1>3, <1>4

-----------------------------------------------------------------------------

\* What mem_sbrk's int parameter does to a number of bytes below 2^32: those
\* past INT_MAX arrive negative.
LEMMA IntConversion ==
  ASSUME NEW n \in Nat, n < 2 * (INT_MAX + 1)
  PROVE  AsInt(n) = IF n > INT_MAX THEN n - 2 * (INT_MAX + 1) ELSE n
<1>1. INT_MAX \in Nat /\ 2 * (INT_MAX + 1) \in Nat
  BY IntAssumption
<1>2. n % (2 * (INT_MAX + 1)) = n
  <2> DEFINE d == 2 * (INT_MAX + 1)
  <2>1. d \in Nat /\ n < d
    BY <1>1
  <2> HIDE DEF d
  <2>2. n % d = n
    BY <2>1
  <2> QED  BY <2>2 DEF d
<1> QED  BY <1>1, <1>2 DEF AsInt

\* When mem_sbrk succeeds for a size an int holds, up to the wrap-around, the
\* break moves by that size and stays in the array.
LEMMA Sbrk ==
  ASSUME NEW brk \in Int, NEW n \in Nat, 8 * n < 2 * (INT_MAX + 1), ~SbrkFails(brk, n)
  PROVE  brk + n <= Top /\ SbrkEnd(brk, n) = brk + n
<1>1. AsInt(8 * n) = IF 8 * n > INT_MAX THEN 8 * n - 2 * (INT_MAX + 1) ELSE 8 * n
  BY IntConversion
<1>2. INT_MAX \in Nat /\ mem_start_brk \in Nat /\ MAX_HEAP \in Nat
  BY IntAssumption, Bounds
<1>3. AsInt(8 * n) = 8 * n
  BY <1>1, <1>2 DEF SbrkFails
<1> QED  BY <1>2, <1>3 DEF SbrkFails, SbrkEnd, Top

\* When mem_sbrk fails for such a size there is no room for it, whether the
\* size arrived negative or not.
LEMMA SbrkFull ==
  ASSUME NEW brk \in Int, mem_start_brk <= brk,
         NEW n \in Nat, 8 * n < 2 * (INT_MAX + 1), SbrkFails(brk, n)
  PROVE  brk + n > Top
<1>1. AsInt(8 * n) = IF 8 * n > INT_MAX THEN 8 * n - 2 * (INT_MAX + 1) ELSE 8 * n
  BY IntConversion
<1>2. /\ INT_MAX \in Nat /\ mem_start_brk \in Nat /\ MAX_HEAP \in Nat /\ 8 * MAX_HEAP <= INT_MAX
      /\ Top = mem_start_brk + MAX_HEAP
  BY IntAssumption, Bounds
<1>3. CASE 8 * n > INT_MAX
  BY <1>2, <1>3
<1>4. CASE ~(8 * n > INT_MAX)
  <2>1. AsInt(8 * n) = 8 * n
    BY <1>1, <1>4
  <2> QED  BY <1>2, <2>1 DEF SbrkFails
<1> QED  BY <1>3, <1>4

\* A free block of n words between the old break and the new: the old epilogue
\* becomes its header and a new one ends the heap.
LEMMA Extending ==
  ASSUME NEW m, NEW brk, NEW S, NEW U, Heap(m, brk, S, U),
         NEW n \in Nat, n >= 4, n % 2 = 0, brk + n <= Top,
         NEW m2 \in [Addr -> Word],
         \A a \in Addr : a < brk - 1 => m2[a] = m[a],
         m2[brk - 1] = [size |-> n, alloc |-> 0],
         m2[brk + n - 2] = [size |-> n, alloc |-> 0],
         m2[brk + n - 1] = [size |-> 0, alloc |-> 1]
  PROVE  /\ Heap(m2, brk + n, S \cup {brk + n}, U)
         /\ brk \in Regular(S \cup {brk + n}, brk + n)
         /\ brk \notin U
         /\ Kept(m, m2, U)
<1> DEFINE end == brk + n
           S2 == S \cup {end}
<1>1. /\ brk \in Int /\ Prologue + 2 <= brk /\ brk % 2 = 0 /\ Prologue \in Int /\ Prologue \in S /\ brk \in S
      /\ Prologue = mem_start_brk + 2 /\ mem_start_brk \in Nat
      /\ end \in Int /\ end % 2 = 0 /\ brk + 4 <= end
  BY Bounds, Breaks
<1> HIDE DEF end
<1>2. \A c \in S : c \in Int /\ Prologue <= c /\ c <= brk /\ c % 2 = 0 /\ c # end
  <2> SUFFICES ASSUME NEW c \in S  PROVE c \in Int /\ Prologue <= c /\ c <= brk /\ c % 2 = 0 /\ c # end
    OBVIOUS
  <2>1. BlockAt(m, brk, S, c)
    BY Geometry
  <2> QED  BY <1>1, <2>1 DEF BlockAt
<1>3. \A c \in S \ {brk} : c - 1 \in Addr /\ m2[c - 1] = m[c - 1] /\ BlockAt(m, brk, S, c)
  <2> SUFFICES ASSUME NEW c \in S \ {brk}
               PROVE c - 1 \in Addr /\ m2[c - 1] = m[c - 1] /\ BlockAt(m, brk, S, c)
    OBVIOUS
  <2>1. BlockAt(m, brk, S, c)
    BY Geometry
  <2>2. c - 1 \in Addr /\ c - 1 < brk - 1
    BY <1>1, <1>2, <2>1 DEF BlockAt
  <2> QED  BY <2>1, <2>2
<1>4. ASSUME NEW c \in S2 \ {end}
      PROVE  /\ m2[c - 1].size >= (IF c = Prologue THEN 2 ELSE 4)
             /\ m2[c + m2[c - 1].size - 2] = m2[c - 1]
             /\ c + m2[c - 1].size \in S2
             /\ \A d \in S2 : d <= c \/ d >= c + m2[c - 1].size
  <2>1. CASE c = brk
    BY <1>1, <1>2, <2>1 DEF end
  <2>2. CASE c # brk
    <3>1. c \in S \ {brk}
      BY <2>2
    <3>2. /\ c \in Int /\ m[c - 1].size \in Nat /\ m[c - 1].size >= 2
          /\ c # Prologue => m[c - 1].size >= 4
          /\ c + m[c - 1].size \in S /\ c + m[c - 1].size <= brk
          /\ m[c + m[c - 1].size - 2] = m[c - 1]
          /\ \A d \in S : d <= c \/ d >= c + m[c - 1].size
          /\ Prologue <= c
      BY <1>3, <3>1 DEF BlockAt
    <3>3. m2[c - 1] = m[c - 1]
      BY <1>3, <3>1
    <3>4. m2[c + m[c - 1].size - 2] = m[c - 1]
      <4>1. c + m[c - 1].size - 2 \in Addr /\ c + m[c - 1].size - 2 < brk - 1
        BY <1>1, <3>2, Bounds, Breaks
      <4> QED  BY <3>2, <4>1
    <3>5. \A d \in S2 : d <= c \/ d >= c + m[c - 1].size
      <4>1. end >= c + m[c - 1].size
        BY <1>1, <3>2
      <4> QED  BY <3>2, <4>1
    <3> QED  BY <3>2, <3>3, <3>4, <3>5
  <2> QED  BY <2>1, <2>2
<1>5. ASSUME NEW c \in S2 \ {Prologue}
      PROVE  /\ c - m2[c - 2].size \in S2 \ {end}
             /\ c - m2[c - 2].size + m2[c - m2[c - 2].size - 1].size = c
  <2>1. CASE c = end
    <3>1. m2[c - 2].size = n /\ c - n = brk
      BY <1>1, <2>1 DEF end
    <3> QED  BY <1>1, <1>2, <2>1, <3>1 DEF end
  <2>2. CASE c # end
    <3>1. c \in S /\ c # Prologue /\ BlockAt(m, brk, S, c)
      BY <2>2, Geometry
    <3>2. /\ c \in Int /\ c <= brk /\ Prologue + 2 <= c /\ c - 2 \in Addr /\ m[c - 2].size \in Nat
          /\ c - m[c - 2].size \in S
          /\ c - m[c - 2].size + m[c - m[c - 2].size - 1].size = c
          /\ c - m[c - 2].size < c
      BY <3>1 DEF BlockAt
    <3>3. m2[c - 2] = m[c - 2]
      BY <1>1, <3>2
    <3>4. c - m[c - 2].size \in S \ {brk}
      BY <1>1, <3>2
    <3>5. m2[c - m[c - 2].size - 1] = m[c - m[c - 2].size - 1]
      BY <1>3, <3>4
    <3> QED  BY <1>2, <3>2, <3>3, <3>4, <3>5
  <2> QED  BY <2>1, <2>2
<1>6. Chained(m2, end, S2)
  <2>1. S2 \subseteq Prologue .. end /\ Prologue \in S2 /\ end \in S2 /\ \A c \in S2 : c % 2 = 0
    <3>1. Prologue \in S2 /\ end \in S2
      BY <1>1
    <3>2. ASSUME NEW c \in S2  PROVE c \in Prologue .. end /\ c % 2 = 0
      <4>1. CASE c = end
        BY <1>1, <4>1
      <4>2. CASE c # end
        <5>1. c \in S
          BY <4>2
        <5>2. c \in Int /\ Prologue <= c /\ c <= brk /\ c % 2 = 0
          BY <1>2, <5>1
        <5> QED  BY <1>1, <5>2
      <4> QED  BY <4>1, <4>2
    <3> QED  BY <3>1, <3>2
  <2>2. m2[Prologue - 1] = [size |-> 2, alloc |-> 1] /\ m2[end - 1] = [size |-> 0, alloc |-> 1]
    <3>1. m[Prologue - 1] = [size |-> 2, alloc |-> 1]
      BY DEF Heap, Chained
    <3>2. Prologue \in S \ {brk}
      BY <1>1
    <3>3. m2[Prologue - 1] = m[Prologue - 1]
      BY <1>3, <3>2
    <3>4. m2[end - 1] = [size |-> 0, alloc |-> 1]
      <4>1. end - 1 = brk + n - 1
        BY <1>1 DEF end
      <4> QED  BY <4>1
    <3> QED  BY <3>1, <3>3, <3>4
  <2> HIDE DEF S2
  <2> QED  BY <1>4, <1>5, <2>1, <2>2 DEF Chained
<1>7. U \subseteq Regular(S, brk) /\ Regular(S, brk) \subseteq Regular(S2, end)
  BY <1>2 DEF Heap, Regular
<1>8. brk \in Regular(S2, end) /\ brk \notin U
  BY <1>1, <1>2, <1>7 DEF Regular
<1>9. ASSUME NEW c \in Regular(S2, end)  PROVE m2[c - 1].alloc = 1 <=> c \in U
  <2>1. CASE c = brk
    BY <1>8, <2>1
  <2>2. CASE c # brk
    <3>1. c \in Regular(S, brk) /\ c \in S \ {brk}
      BY <2>2 DEF Regular
    <3> QED  BY <1>3, <3>1 DEF Heap
  <2> QED  BY <2>1, <2>2
<1>10. end \in Prologue + DSIZE .. Top
  BY <1>1, Bounds DEF end
<1>11. Heap(m2, end, S2, U)
  BY <1>6, <1>7, <1>9, <1>10 DEF Heap
<1>12. Kept(m, m2, U)
  <2> SUFFICES ASSUME NEW u \in U, NEW a \in u - 1 .. u + m[u - 1].size - 2
               PROVE  m2[a] = m[a]
    BY DEF Kept
  <2>1. u \in Regular(S, brk)
    BY <1>7
  <2>2. BlockAt(m, brk, S, u) /\ u \in Int /\ m[u - 1].size \in Nat /\ u + m[u - 1].size <= brk
    BY <2>1, InUse
  <2>3. u - 1 \in Addr
    BY <2>2 DEF BlockAt
  <2>4. a \in Addr /\ a < brk - 1
    BY <1>1, <2>2, <2>3, Bounds, Breaks
  <2> QED  BY <2>4
<1> QED  BY <1>8, <1>11, <1>12 DEF end

\* extend_heap fails for want of room and changes nothing, or returns a free
\* block of n words or more, and touches no block in use.
LEMMA Growing ==
  ASSUME NEW m, NEW brk, NEW S, NEW U, Heap(m, brk, S, U), Spaced(S, brk, U),
         NEW n \in Nat, n >= 4, n % 2 = 0, 8 * n < 2 * (INT_MAX + 1)
  PROVE  \/ /\ extend_heap(m, brk, n) = [mem |-> m, brk |-> brk, block |-> NULL]
            /\ brk + n > Top
         \/ /\ \E S2 : /\ Heap(extend_heap(m, brk, n).mem, extend_heap(m, brk, n).brk, S2, U)
                       /\ Spaced(S2, extend_heap(m, brk, n).brk, U)
                       /\ extend_heap(m, brk, n).block \in Regular(S2, extend_heap(m, brk, n).brk)
            /\ extend_heap(m, brk, n).block \notin U
            /\ extend_heap(m, brk, n).mem[extend_heap(m, brk, n).block - 1].size >= n
            /\ Kept(m, extend_heap(m, brk, n).mem, U)
<1>1. (IF n % 2 = 1 THEN n + 1 ELSE n) = n
  OBVIOUS
<1>2. CASE SbrkFails(brk, n)
  <2>1. brk + n > Top
    BY <1>2, Breaks, Bounds, SbrkFull
  <2> QED  BY <1>1, <1>2, <2>1 DEF extend_heap
<1>3. CASE ~SbrkFails(brk, n)
  <2> DEFINE tagged == WriteTags(m, brk, pack_word(n, 0))
             ended == [tagged EXCEPT ![brk + n - 1] = [size |-> 0, alloc |-> 1]]
             r == coalesce(ended, brk)
  <2>1. /\ brk + n <= Top /\ SbrkEnd(brk, n) = brk + n
        /\ brk \in Int /\ brk - 1 \in Addr /\ brk + n - 2 \in Addr /\ brk + n - 1 \in Addr
    <3>1. brk \in Int
      BY Breaks
    <3>2. brk + n <= Top /\ SbrkEnd(brk, n) = brk + n
      BY <1>3, <3>1, Sbrk
    <3> QED  BY <3>1, <3>2, Bounds, Breaks
  <2>2. m \in [Addr -> Word]
    BY DEF Heap
  <2>3. /\ tagged \in [Addr -> Word]
        /\ tagged[brk - 1] = [size |-> n, alloc |-> 0]
        /\ tagged[brk + n - 2] = [size |-> n, alloc |-> 0]
        /\ \A a \in Addr : a # brk - 1 /\ a # brk + n - 2 => tagged[a] = m[a]
    BY <2>1, <2>2, Tags
  <2>4. extend_heap(m, brk, n) = [mem |-> r.mem, brk |-> brk + n, block |-> r.block]
    <3>1. tagged[brk - 1].size = n
      BY <2>3
    <3>2. obtener_header(proximo_bloque(tagged, brk)) = brk + n - 1
      BY <2>1, <3>1
    <3> QED  BY <1>1, <1>3, <2>1, <3>2 DEF extend_heap, escribir_header
  <2> HIDE DEF tagged
  <2>5. /\ ended \in [Addr -> Word]
        /\ ended[brk - 1] = [size |-> n, alloc |-> 0]
        /\ ended[brk + n - 2] = [size |-> n, alloc |-> 0]
        /\ ended[brk + n - 1] = [size |-> 0, alloc |-> 1]
        /\ \A a \in Addr : a < brk - 1 => ended[a] = m[a]
    <3>1. [size |-> 0, alloc |-> 1] \in Word
      BY DEF Word
    <3>2. brk + n - 1 # brk - 1 /\ brk + n - 1 # brk + n - 2
          /\ \A a \in Addr : a < brk - 1 => a # brk - 1 /\ a # brk + n - 2 /\ a # brk + n - 1
      BY <2>1, Bounds
    <3> QED  BY <2>1, <2>3, <3>1, <3>2
  <2> HIDE DEF ended
  <2>6. /\ Heap(ended, brk + n, S \cup {brk + n}, U)
        /\ brk \in Regular(S \cup {brk + n}, brk + n)
        /\ brk \notin U
        /\ Kept(m, ended, U)
    BY <2>1, <2>5, Extending
  <2>7. SpacedBut(S \cup {brk + n}, brk + n, U, brk)
    BY DEF Spaced, SpacedBut, FreeBlocks, Regular
  <2>8. /\ \E S2 : /\ Heap(r.mem, brk + n, S2, U) /\ r.block \in Regular(S2, brk + n)
                   /\ Spaced(S2, brk + n, U)
        /\ r.block \notin U
        /\ r.mem[r.block - 1].size >= ended[brk - 1].size
        /\ Kept(ended, r.mem, U)
    BY <2>6, <2>7, Coalescing
  <2> HIDE DEF r
  <2>9. Kept(m, r.mem, U)
    BY <2>6, <2>8, KeptTwice
  <2> QED  BY <2>4, <2>5, <2>8, <2>9
<1> QED  BY <1>2, <1>3

\* mm_init, over any memory, leaves the prologue, the epilogue and, if the
\* heap has room, one free block.
LEMMA Starting ==
  ASSUME NEW m \in [Addr -> Word]
  PROVE  /\ mm_init(m, mem_start_brk).list = Prologue
         /\ \E S : /\ Heap(mm_init(m, mem_start_brk).mem, mm_init(m, mem_start_brk).brk, S, {})
                   /\ Spaced(S, mm_init(m, mem_start_brk).brk, {})
<1> DEFINE m1 == Skeleton(m, mem_start_brk)
           brk == mem_start_brk + 4
           S == {Prologue, brk}
<1>1. SbrkEnd(mem_start_brk, 4 * WSIZE) = brk
  <2>1. INT_MAX \in Nat /\ 32 <= INT_MAX
    BY IntAssumption, HeapAssumption
  <2>2. AsInt(32) = 32
    <3>1. 32 \in Nat /\ 32 < 2 * (INT_MAX + 1)
      BY <2>1
    <3> QED  BY <2>1, <3>1, IntConversion
  <2> QED  BY <2>2, Bounds DEF SbrkEnd
<1>2. /\ mem_start_brk \in Addr /\ mem_start_brk + 1 \in Addr
      /\ mem_start_brk + 2 \in Addr /\ mem_start_brk + 3 \in Addr
      /\ mem_start_brk \in Nat /\ mem_start_brk % 2 = 0 /\ Prologue = mem_start_brk + 2
      /\ brk \in Prologue + 2 .. Top
  BY Bounds
<1>3. /\ m1 \in [Addr -> Word]
      /\ m1[mem_start_brk + 1] = [size |-> 2, alloc |-> 1]
      /\ m1[mem_start_brk + 2] = [size |-> 2, alloc |-> 1]
      /\ m1[mem_start_brk + 3] = [size |-> 0, alloc |-> 1]
  <2>1. /\ [size |-> 0, alloc |-> 0] \in Word /\ [size |-> 2, alloc |-> 1] \in Word
        /\ [size |-> 0, alloc |-> 1] \in Word
    BY DEF Word
  <2> QED  BY <1>2, <2>1 DEF Skeleton
<1> HIDE DEF m1
<1>4. Chained(m1, brk, S)
  BY <1>2, <1>3 DEF Chained
<1>5. Heap(m1, brk, S, {}) /\ Spaced(S, brk, {})
  BY <1>2, <1>3, <1>4 DEF Heap, Regular, Spaced, FreeBlocks
<1> DEFINE r == extend_heap(m1, brk, CHUNKSIZE)
<1>6. mm_init(m, mem_start_brk) = [mem |-> r.mem, brk |-> r.brk, list |-> Prologue]
  BY <1>1, <1>2 DEF mm_init, m1
<1>7. CHUNKSIZE \in Nat /\ CHUNKSIZE >= 4 /\ CHUNKSIZE % 2 = 0 /\ 8 * CHUNKSIZE < 2 * (INT_MAX + 1)
  BY ChunkAssumption, IntAssumption
<1>8. \/ r = [mem |-> m1, brk |-> brk, block |-> 0]
      \/ \E S2 : Heap(r.mem, r.brk, S2, {}) /\ Spaced(S2, r.brk, {})
  <2> HIDE DEF brk, S
  <2> QED  BY <1>5, <1>7, Growing
<1> HIDE DEF r
<1> QED  BY <1>5, <1>6, <1>8

\* Writing the payload of a block in use leaves the chain as it is.
LEMMA Filling ==
  ASSUME NEW m, NEW brk, NEW S, NEW U, Heap(m, brk, S, U), NEW p \in U,
         NEW m2 \in [Addr -> Word],
         \A a \in Addr : a < p \/ a > p + m[p - 1].size - 3 => m2[a] = m[a]
  PROVE  /\ Heap(m2, brk, S, U)
         /\ m2[p - 1] = m[p - 1]
         /\ Kept(m, m2, U \ {p})
<1> DEFINE n == m[p - 1].size
<1>1. p \in Regular(S, brk) /\ m[p - 1].alloc = 1 /\ m[p - 1] \in Word
  <2>1. p \in Regular(S, brk)
    BY DEF Heap
  <2>2. p - 1 \in Addr
    BY <2>1, InUse
  <2> QED  BY <2>1, <2>2 DEF Heap
<1>2. /\ p \in Int /\ n \in Nat /\ n >= 4 /\ m[p + n - 2] = m[p - 1]
      /\ p - 1 \in Addr /\ p + n - 2 \in Addr
  BY <1>1, InUse
<1>3. m[p - 1] = [size |-> n, alloc |-> 1]
  BY <1>1 DEF Word
<1>4. m2[p - 1] = m[p - 1] /\ m2[p + n - 2] = m[p - 1]
  BY <1>2
<1>5. \A a \in Addr : a < p - 1 \/ a > p + n - 2 => m2[a] = m[a]
  BY <1>2, Bounds
<1>6. Heap(m2, brk, S, IF 1 = 1 THEN U \cup {p} ELSE U \ {p}) /\ Kept(m, m2, U \ {p})
  BY <1>1, <1>3, <1>4, <1>5, Marked
<1> QED  BY <1>4, <1>6

-----------------------------------------------------------------------------

\* Every set of naturals that is not empty has a least element: what takes the
\* place of induction in the proofs about find_fit's walk.
LEMMA Least ==
  ASSUME NEW T \in SUBSET Nat, T # {}
  PROVE  \E x \in T : \A y \in T : x <= y
<1> DEFINE R == {ss \in Nat \X Nat : ss[1] < ss[2]}
<1>1. IsWellFoundedOn(R, Nat)
  BY NatLessThanWellFounded DEF OpToRel
<1> HIDE DEF R
<1>2. PICK x \in T : \A y \in T : ~(<<y, x>> \in R)
  BY <1>1, WFMin
<1>3. \A y \in T : ~(y < x)
  BY <1>2 DEF R
<1> QED  BY <1>3

\* A function as Walk's: the blocks reached from each address.
Reaches(f) ==
  f = [b \in heap_listp .. mem_brk |->
        {b} \cup (IF proximo_bloque(mem, b) > b /\ proximo_bloque(mem, b) <= mem_brk
                  THEN f[proximo_bloque(mem, b)] ELSE {})]

\* Walk is the value of such a function at the prologue.
LEMMA WalkReaches == Walk = (CHOOSE f : Reaches(f))[heap_listp]
BY DEF Walk, Reaches

\* There is such a function: what is in every set closed under the loop's step.
LEMMA ReachesExists ==
  ASSUME mem \in [Addr -> Word], heap_listp = Prologue, mem_brk \in Int, mem_brk <= Top
  PROVE  \E f : Reaches(f)
<1> DEFINE D == heap_listp .. mem_brk
           nx(b) == b + mem[b - 1].size
           goes(b) == nx(b) > b /\ nx(b) <= mem_brk
           Closed(C) == \A x \in C : goes(x) => nx(x) \in C
           g == [b \in D |-> {c \in D : \A C \in SUBSET D : b \in C /\ Closed(C) => c \in C}]
<1>1. \A b \in D : b \in Int /\ nx(b) \in Int
  <2> SUFFICES ASSUME NEW b \in D PROVE b \in Int /\ mem[b - 1].size \in Nat
    OBVIOUS
  <2>1. b \in Int /\ b - 1 \in Addr
    BY Bounds
  <2> QED BY <2>1 DEF Word
<1>2. \A b \in D : goes(b) => nx(b) \in D
  BY <1>1, Bounds
<1> HIDE DEF nx, D
<1>3. ASSUME NEW b \in D PROVE g[b] = {b} \cup (IF goes(b) THEN g[nx(b)] ELSE {})
  <2> DEFINE h == {b} \cup (IF goes(b) THEN g[nx(b)] ELSE {})
  <2>1. h \subseteq D
    BY <1>2, <1>3
  <2>2. h \subseteq g[b]
    BY <1>2, <1>3
  <2>3. b \in h /\ Closed(h)
    <3> SUFFICES ASSUME NEW x \in h, goes(x) PROVE nx(x) \in h
      OBVIOUS
    <3>1. CASE x = b
      BY <1>2, <1>3, <3>1
    <3>2. CASE x # b
      <4>1. goes(b) /\ nx(b) \in D /\ x \in g[nx(b)] /\ x \in D /\ nx(x) \in D
        BY <1>2, <1>3, <3>2
      <4>2. nx(x) \in g[nx(b)]
        BY <4>1
      <4> QED  BY <4>1, <4>2
    <3> QED BY <3>1, <3>2
  <2>4. g[b] \subseteq h
    BY <1>3, <2>1, <2>3
  <2> QED BY <2>2, <2>4
<1>4. g = [b \in D |-> {b} \cup (IF goes(b) THEN g[nx(b)] ELSE {})]
  BY <1>3
<1> HIDE DEF g
<1>5. Reaches(g)
  BY <1>4 DEF Reaches, D, nx
<1> QED BY <1>5

\* Such a function gives, at each block of a chain, the blocks from there on.
LEMMA ReachesTheRest ==
  ASSUME NEW S, NEW U, Heap(mem, mem_brk, S, U), heap_listp = Prologue,
         NEW f, Reaches(f)
  PROVE  \A b \in S : f[b] = {c \in S : c >= b}
<1> DEFINE rest(b) == {c \in S : c >= b}
           nx(b) == b + mem[b - 1].size
           T == {n \in Nat : \E b \in S : n = mem_brk - b /\ f[b] # rest(b)}
<1>1. /\ mem_brk \in Int /\ mem_brk \in S
      /\ \A c \in S : c \in Int /\ Prologue <= c /\ c <= mem_brk /\ c \in heap_listp .. mem_brk
  <2>1. mem_brk \in Int /\ mem_brk \in S /\ Prologue \in Int
    BY Breaks, Bounds
  <2>2. \A c \in S : c \in Int /\ Prologue <= c /\ c <= mem_brk
    BY Geometry DEF BlockAt
  <2> QED  BY <2>1, <2>2
<1>2. ASSUME NEW b \in S
      PROVE  f[b] = {b} \cup (IF nx(b) > b /\ nx(b) <= mem_brk THEN f[nx(b)] ELSE {})
  <2>1. b \in heap_listp .. mem_brk
    BY <1>1
  <2> QED  BY <2>1 DEF Reaches
<1>3. ASSUME NEW b \in S, b # mem_brk
      PROVE  /\ nx(b) \in S /\ nx(b) \in Int /\ nx(b) > b /\ nx(b) <= mem_brk
             /\ \A c \in S : c <= b \/ c >= nx(b)
  <2>1. BlockAt(mem, mem_brk, S, b)
    BY Geometry
  <2> QED  BY <1>1, <1>3, <2>1 DEF BlockAt
<1>4. ~(nx(mem_brk) > mem_brk)
  BY <1>1 DEF Heap, Chained
<1>5. ASSUME NEW b \in S, NEW d \in S, b \in Int, d \in Int, b < d,
             \A c \in S : c \in Int /\ (c <= b \/ c >= d)
      PROVE  rest(b) = {b} \cup rest(d)
  <2>1. ASSUME NEW c \in S  PROVE c >= b <=> c = b \/ c >= d
    BY <1>5
  <2> QED  BY <2>1, <1>5
<1> HIDE DEF nx
<1>6. ASSUME NEW b \in S, \A c \in S : c > b => f[c] = rest(c)
      PROVE  f[b] = rest(b)
  <2>1. CASE b = mem_brk
    <3>1. f[b] = {b}
      BY <1>2, <1>4, <2>1
    <3>2. b \in Int /\ \A c \in S : c \in Int /\ c <= b
      BY <1>1, <2>1
    <3>3. b \in rest(b) /\ \A c \in rest(b) : c = b
      BY <3>2
    <3> QED  BY <3>1, <3>3
  <2>2. CASE b # mem_brk
    <3>1. f[b] = {b} \cup rest(nx(b))
      BY <1>2, <1>3, <1>6, <2>2
    <3> DEFINE d == nx(b)
    <3>2. d \in S /\ d \in Int /\ d > b /\ b \in Int /\ \A c \in S : c \in Int /\ (c <= b \/ c >= d)
      BY <1>1, <1>3, <2>2
    <3> HIDE DEF d
    <3> QED  BY <3>1, <3>2, <1>5 DEF d
  <2> QED BY <2>1, <2>2
<1> HIDE DEF rest
<1>7. T = {}
  <2> SUFFICES ASSUME T # {} PROVE FALSE
    OBVIOUS
  <2>1. PICK n \in T : \A k \in T : n <= k
    BY Least
  <2>2. PICK b \in S : n = mem_brk - b /\ f[b] # rest(b)
    OBVIOUS
  <2>3. ASSUME NEW c \in S, c > b PROVE f[c] = rest(c)
    <3>1. mem_brk - c \in Nat /\ mem_brk - c < n
      BY <1>1, <2>2, <2>3
    <3>2. mem_brk - c \notin T
      BY <2>1, <3>1
    <3> QED BY <3>1, <3>2
  <2> QED BY <1>6, <2>2, <2>3
<1>8. ASSUME NEW b \in S PROVE f[b] = rest(b)
  <2>1. mem_brk - b \in Nat
    BY <1>1
  <2> QED BY <1>7, <2>1
<1> QED BY <1>8 DEF rest

\* The loop of find_fit visits exactly the blocks that the tags chain.
LEMMA WalkIsChain ==
  ASSUME NEW S, NEW U, Heap(mem, mem_brk, S, U), heap_listp = Prologue
  PROVE  Walk = S
<1>1. mem \in [Addr -> Word] /\ mem_brk \in Int /\ mem_brk <= Top /\ Prologue \in S
  BY Breaks DEF Heap
<1>2. PICK f : f = (CHOOSE g : Reaches(g)) /\ Reaches(f)
  BY <1>1, ReachesExists
<1>3. Walk = f[Prologue]
  BY <1>2, WalkReaches
<1>4. f[Prologue] = {c \in S : c >= Prologue}
  BY <1>1, <1>2, ReachesTheRest
<1>5. \A c \in S : c >= Prologue
  BY Geometry, Bounds DEF BlockAt
<1> QED BY <1>3, <1>4, <1>5

\* In a well-formed heap whose free blocks are spaced no free block is followed
\* by a free one.
LEMMA SpacedJoined ==
  ASSUME NEW m, NEW brk, NEW S, NEW U, Heap(m, brk, S, U), Spaced(S, brk, U)
  PROVE  Joined(m, brk, S)
<1>1. ASSUME NEW b \in S \ {brk}
      PROVE  m[b - 1].alloc = 1 \/ m[(b + m[b - 1].size) - 1].alloc = 1
  <2> DEFINE c == b + m[b - 1].size
  <2>1. BlockAt(m, brk, S, b) /\ S \subseteq Int
    BY Geometry DEF BlockAt
  <2>2. /\ c \in S /\ b \in Int /\ b < c
        /\ \A z \in S : z <= b \/ z >= c
    BY <2>1 DEF BlockAt
  <2>3. c \in Int
    BY <2>1, <2>2
  <2> HIDE DEF c
  <2>4. ~(b \in FreeBlocks(S, brk, U) /\ c \in FreeBlocks(S, brk, U))
    BY <2>1, <2>2, <2>3 DEF Spaced
  <2>5. m[b - 1].alloc = 1 \/ m[c - 1].alloc = 1
    BY <2>2, <2>4 DEF Heap, Chained, FreeBlocks, Regular
  <2> QED  BY <2>5 DEF c
<1> QED  BY <1>1 DEF Joined

-----------------------------------------------------------------------------
(***************************************************************************)
(* The inductive invariant.                                                *)
(***************************************************************************)

\* The result of a call, until the client takes it.
Pending == IF pc = "returned" /\ bp # NULL THEN {bp} ELSE {}
Used == {blocks[i] : i \in Live} \cup Pending

\* Room for size bytes between the tags of the block at p.
Roomy(m, p, size) == m[p - 1].size >= 2 + WordsOf(size)

\* How far find_fit came in the list of the blocks S: none of those it passed
\* would do and, if the call failed, none at all, with no room to grow.
SearchInv(S) ==
  /\ pc = "find_fit" => bp \in S /\ \A c \in S : c < bp => ~Suits(c)
  /\ pc = "returned" /\ bp = NULL /\ call.size > 0 =>
       (\A c \in S : ~Suits(c)) /\ mem_brk + ExtendSize > Top

ListInv ==
  IF heap_listp = NULL
  THEN /\ mem_brk = mem_start_brk /\ Live = {} /\ bp = NULL /\ pc # "find_fit"
       /\ pc = "returned" => call.size = 0
  ELSE \E S : /\ Heap(mem, mem_brk, S, Used)
              /\ Spaced(S, mem_brk, Used)
              /\ SearchInv(S)

CallInv ==
  /\ pc = "idle" => bp = NULL
  /\ pc = "find_fit" => call.size > 0 /\ (call.op = "realloc" <=> call.index \in Live)
  /\ pc = "returned" /\ bp # NULL =>
       /\ call.index \notin Live
       /\ \A i \in Live : bp # blocks[i]
       /\ Roomy(mem, bp, call.size)
       /\ call.op = "realloc" =>
            \A a \in Payload(bp, Smaller(block_sizes[call.index], call.size)) :
              mem[a] = Pattern[call.index]

ClientInv ==
  /\ \A i, j \in Live : i # j => blocks[i] # blocks[j]
  /\ \A i \in Live : Roomy(mem, blocks[i], block_sizes[i])
  /\ ContentsIntact

IInv == TypeOK /\ ListInv /\ CallInv /\ ClientInv

USE DEF WSIZE, DSIZE, WordBytes, NULL, block_size, is_allocated, obtener_header,
        obtener_footer, proximo_bloque, bloque_anterior, pack_word, Roomy

-----------------------------------------------------------------------------

\* The block size mm_malloc computes for a request is even, at least the
\* minimum, enough for the payload and both tags, and small enough for
\* mem_sbrk's int not to wrap to a size that fits.
LEMMA Adjusted ==
  ASSUME NEW size \in Sizes, size > 0
  PROVE  /\ adjusted_size(size) \in Nat /\ adjusted_size(size) >= 4
         /\ adjusted_size(size) % 2 = 0
         /\ adjusted_size(size) >= 2 + WordsOf(size)
         /\ 8 * adjusted_size(size) < 2 * (INT_MAX + 1)
<1>1. size \in Nat /\ size <= INT_MAX /\ INT_MAX \in Nat /\ INT_MAX >= 32
  BY SizesAssumption, IntAssumption, HeapAssumption
<1>2. CASE size <= 16
  BY <1>1, <1>2 DEF adjusted_size, WordsOf
<1>3. CASE size > 16
  <2>1. adjusted_size(size) = 2 * ((size + 31) \div 16)
    BY <1>1, <1>3 DEF adjusted_size
  <2> DEFINE q == (size + 31) \div 16
  <2>2. q \in Nat /\ q >= 2 /\ 16 * q <= size + 31
    BY <1>1, <1>3
  <2>3. 2 * q >= 2 + ((size + 7) \div 8)
    BY <1>1, <1>3
  <2> HIDE DEF q
  <2>4. 16 * q < 2 * (INT_MAX + 1)
    BY <1>1, <2>2
  <2>5. adjusted_size(size) = 2 * q
    BY <2>1 DEF q
  <2> QED  BY <1>1, <2>2, <2>3, <2>4, <2>5 DEF WordsOf
<1> QED  BY <1>1, <1>2, <1>3

\* Sizes in words: they grow with the bytes, and rounding up loses nothing.
LEMMA Rounding ==
  ASSUME NEW x \in Nat, NEW y \in Nat
  PROVE  /\ WordsOf(x) \in Nat
         /\ x <= y => WordsOf(x) <= WordsOf(y)
         /\ WordsOf(8 * x) = x
         /\ Smaller(x, y) \in Nat /\ Smaller(x, y) <= x /\ Smaller(x, y) <= y
         /\ Smaller(x, y) = x \/ Smaller(x, y) = y
BY DEF WordsOf, Smaller

\* What TypeOK says of memory, of the client's table and of a call in
\* progress, in the form the steps of the proofs cite.
LEMMA Types ==
  ASSUME TypeOK
  PROVE  /\ mem \in [Addr -> Word]
         /\ \A i \in Ids : blocks[i] \in Nat /\ block_sizes[i] \in Nat
         /\ pc # "idle" => /\ call \in Call /\ call.index \in Ids /\ call.size \in Sizes
                           /\ call.size \in Nat /\ call.op \in {"malloc", "realloc"}
<1>1. mem \in [Addr -> Word] /\ Sizes \subseteq Nat
  BY SizesAssumption, IntAssumption DEF TypeOK
<1>2. ASSUME NEW i \in Ids  PROVE blocks[i] \in Nat /\ block_sizes[i] \in Nat
  <2>1. blocks[i] \in Nat /\ block_sizes[i] \in Sizes \cup {0}
    BY DEF TypeOK
  <2>2. Sizes \cup {0} \subseteq Nat
    BY <1>1
  <2> QED  BY <2>1, <2>2
<1>3. ASSUME pc # "idle"  PROVE call \in Call
  BY <1>3 DEF TypeOK
<1> QED  BY <1>1, <1>2, <1>3 DEF Call

\* A block in use that is kept keeps its size and its payload.
LEMMA Undisturbed ==
  ASSUME NEW m, NEW brk, NEW S, NEW U, Heap(m, brk, S, U), NEW W \in SUBSET U,
         NEW m2, Kept(m, m2, W), NEW p \in W,
         NEW size \in Nat, Roomy(m, p, size)
  PROVE  /\ Roomy(m2, p, size)
         /\ m2[p - 1] = m[p - 1]
         /\ \A a \in Payload(p, size) : m2[a] = m[a]
<1>1. p \in Regular(S, brk)
  BY DEF Heap
<1>2. p \in Int /\ m[p - 1].size \in Nat /\ m[p - 1].size >= 4
  BY <1>1, InUse
<1>3. m2[p - 1] = m[p - 1]
  <2>1. p - 1 \in p - 1 .. p + m[p - 1].size - 2
    BY <1>2
  <2> QED  BY <2>1 DEF Kept
<1>4. WordsOf(size) \in Nat
  BY Rounding
<1>5. \A a \in Payload(p, size) : a \in p - 1 .. p + m[p - 1].size - 2
  BY <1>2, <1>4 DEF Payload
<1> QED  BY <1>3, <1>5 DEF Kept

-----------------------------------------------------------------------------

\* Before mm_init there is no list, no call and no block held.
LEMMA Initially == Init => IInv
<1> SUFFICES ASSUME Init  PROVE IInv
  OBVIOUS
<1>1. mem \in [Addr -> Word]
  BY GarbageAssumption DEF Init
<1>2. Live = {} /\ Used = {}
  BY DEF Init, Live, Used, Pending
<1>3. mem_brk \in mem_start_brk .. mem_start_brk + MAX_HEAP
  BY Bounds DEF Init
<1>4. TypeOK
  BY <1>1, <1>3 DEF Init, TypeOK
<1>5. ListInv /\ CallInv /\ ClientInv
  BY <1>2 DEF Init, ListInv, CallInv, ClientInv, ContentsIntact
<1> QED  BY <1>4, <1>5 DEF IInv

\* A step that changes no variable keeps the invariant.
LEMMA Stuttering == ASSUME IInv, UNCHANGED vars  PROVE IInv'
<1>1. Live' = Live /\ Used' = Used
  BY DEF vars, Live, Used, Pending
<1>2. TypeOK'
  BY DEF IInv, vars, TypeOK
<1>3. ListInv'
  BY <1>1 DEF IInv, vars, ListInv, SearchInv, Suits, ExtendSize
<1>4. CallInv' /\ ClientInv'
  BY <1>1 DEF IInv, vars, CallInv, ClientInv, ContentsIntact
<1> QED  BY <1>2, <1>3, <1>4 DEF IInv

\* A heap's break is where TypeOK wants it.
LEMMA BreakTyped ==
  ASSUME NEW m, NEW brk, NEW S, NEW U, Heap(m, brk, S, U)
  PROVE  /\ brk \in mem_start_brk .. mem_start_brk + MAX_HEAP
         /\ m \in [Addr -> Word]
         /\ Prologue \in Nat /\ Prologue # NULL
BY Bounds, Breaks DEF Heap

\* The start of a trace: mem_reset_brk and mm_init rebuild an empty heap over
\* whatever words the last trace left, whether or not the first chunk fits.
LEMMA Restarting == ASSUME IInv, Restart  PROVE IInv'
<1> DEFINE r == mm_init(mem, mem_start_brk)
<1>1. /\ mem' = r.mem /\ mem_brk' = r.brk /\ heap_listp' = r.list
      /\ pc = "idle" /\ pc' = pc /\ call' = call /\ bp' = bp
      /\ blocks' = [i \in Ids |-> 0] /\ block_sizes' = [i \in Ids |-> 0]
  BY DEF Restart
<1>2. mem \in [Addr -> Word] /\ bp = NULL
  BY <1>1, Types DEF IInv, CallInv
<1>3. r.list = Prologue /\ \E S : Heap(r.mem, r.brk, S, {}) /\ Spaced(S, r.brk, {})
  BY <1>2, Starting
<1> HIDE DEF r
<1>4. PICK S : Heap(mem', mem_brk', S, {}) /\ Spaced(S, mem_brk', {})
  BY <1>1, <1>3
<1>5. Live' = {} /\ Used' = {}
  BY <1>1 DEF Live, Used, Pending
<1>6. TypeOK'
  BY <1>1, <1>3, <1>4, BreakTyped DEF IInv, TypeOK
<1>7. ListInv'
  <2>1. heap_listp' # NULL /\ pc' = "idle"
    BY <1>1, <1>3, <1>4, BreakTyped
  <2>2. SearchInv(S)'
    BY <2>1 DEF SearchInv
  <2> QED  BY <1>4, <1>5, <2>1, <2>2 DEF ListInv
<1>8. CallInv' /\ ClientInv'
  BY <1>1, <1>2, <1>5 DEF CallInv, ClientInv, ContentsIntact
<1> QED  BY <1>6, <1>7, <1>8 DEF IInv

\* No block lies below the prologue, where the search starts.
LEMMA NoneBelow ==
  ASSUME NEW m, NEW brk, NEW S, NEW U, Heap(m, brk, S, U)
  PROVE  \A c \in S : ~(c < Prologue)
<1> SUFFICES ASSUME NEW c \in S  PROVE ~(c < Prologue)
  OBVIOUS
<1>1. BlockAt(m, brk, S, c)
  BY Geometry
<1> QED  BY <1>1, Bounds DEF BlockAt

\* mm_malloc up to find_fit's loop: after an mm_init if there was none, the
\* search starts at the prologue.
LEMMA Entering ==
  ASSUME IInv, NEW op \in {"malloc", "realloc"}, NEW i \in Ids, NEW size \in Sizes,
         pc = "idle", size > 0, op = "realloc" <=> i \in Live,
         EnterMalloc(op, i, size)
  PROVE  IInv'
<1>1. /\ pc' = "find_fit" /\ call' = [op |-> op, index |-> i, size |-> size]
      /\ blocks' = blocks /\ block_sizes' = block_sizes
  BY DEF EnterMalloc
<1>2. /\ Live' = Live /\ Used = {blocks[j] : j \in Live} /\ Used' = Used
  BY <1>1 DEF Live, Used, Pending
<1>3. call' \in Call /\ call'.size > 0 /\ (call'.op = "realloc" <=> call'.index \in Live')
  BY <1>1, <1>2 DEF Call
<1>4. mem \in [Addr -> Word]
  BY Types DEF IInv
<1>5. CASE heap_listp = NULL
  <2> DEFINE r == mm_init(mem, mem_start_brk)
  <2>1. mem_brk = mem_start_brk /\ Live = {}
    BY <1>5 DEF IInv, ListInv
  <2>2. mem' = r.mem /\ mem_brk' = r.brk /\ heap_listp' = r.list /\ bp' = r.list
    BY <1>5, <2>1 DEF EnterMalloc
  <2>3. r.list = Prologue /\ \E S : Heap(r.mem, r.brk, S, {}) /\ Spaced(S, r.brk, {})
    BY <1>4, Starting
  <2> HIDE DEF r
  <2>4. PICK S : Heap(mem', mem_brk', S, {}) /\ Spaced(S, mem_brk', {})
    BY <2>2, <2>3
  <2>5. Used = {} /\ Live' = {} /\ Used' = {}
    BY <1>2, <2>1
  <2>6. Prologue \in S /\ Prologue \in Nat /\ Prologue # NULL
    BY <2>4, Breaks, BreakTyped
  <2>7. TypeOK'
    <3>1. mem' \in [Addr -> Word] /\ mem_brk' \in mem_start_brk .. mem_start_brk + MAX_HEAP
      BY <2>4, BreakTyped
    <3>2. call' # NoCall
      BY <1>1 DEF NoCall
    <3> QED  BY <1>1, <1>3, <2>2, <2>3, <2>6, <3>1, <3>2 DEF IInv, TypeOK
  <2>8. ListInv'
    <3>1. SearchInv(S)'
      BY <1>1, <2>2, <2>3, <2>4, <2>6, NoneBelow DEF SearchInv
    <3> QED  BY <2>2, <2>3, <2>4, <2>5, <2>6, <3>1 DEF ListInv
  <2>9. CallInv' /\ ClientInv'
    BY <1>1, <1>3, <2>5 DEF CallInv, ClientInv, ContentsIntact
  <2> QED  BY <2>7, <2>8, <2>9 DEF IInv
<1>6. CASE heap_listp # NULL
  <2>1. mem' = mem /\ mem_brk' = mem_brk /\ heap_listp' = heap_listp /\ bp' = heap_listp
    BY <1>6 DEF EnterMalloc
  <2>2. PICK S : Heap(mem, mem_brk, S, Used) /\ Spaced(S, mem_brk, Used)
    BY <1>6 DEF IInv, ListInv
  <2>3. heap_listp = Prologue /\ Prologue \in S /\ Prologue \in Nat
    BY <1>6, <2>2, Breaks, BreakTyped DEF IInv, TypeOK
  <2>4. TypeOK'
    <3>1. call' # NoCall
      BY <1>1 DEF NoCall
    <3> QED  BY <1>1, <1>3, <2>1, <2>3, <3>1 DEF IInv, TypeOK
  <2>5. ListInv'
    <3>1. SearchInv(S)'
      BY <1>1, <2>1, <2>2, <2>3, NoneBelow DEF SearchInv
    <3> QED  BY <1>2, <1>6, <2>1, <2>2, <2>3, <3>1 DEF ListInv
  <2>6. CallInv' /\ ClientInv'
    BY <1>1, <1>2, <1>3, <2>1 DEF IInv, CallInv, ClientInv, ContentsIntact
  <2> QED  BY <2>4, <2>5, <2>6 DEF IInv
<1> QED  BY <1>5, <1>6

\* mm_malloc(0) answers NULL and leaves the heap alone.
LEMMA GettingNothing ==
  ASSUME IInv, NEW i \in Ids, MallocNothing(i)
  PROVE  IInv'
<1>1. /\ pc = "idle" /\ pc' = "returned" /\ bp' = NULL
      /\ call' = [op |-> "malloc", index |-> i, size |-> 0] /\ 0 \in Sizes
      /\ mem' = mem /\ mem_brk' = mem_brk /\ heap_listp' = heap_listp
      /\ blocks' = blocks /\ block_sizes' = block_sizes
  BY DEF MallocNothing
<1>2. Live' = Live /\ Used' = Used
  BY <1>1 DEF Live, Used, Pending
<1>3. TypeOK'
  <2>1. call' \in Call /\ call' # NoCall
    BY <1>1 DEF Call, NoCall
  <2> QED  BY <1>1, <2>1 DEF IInv, TypeOK
<1>4. ListInv'
  <2>1. call'.size = 0
    BY <1>1
  <2>2. \A S : SearchInv(S)'
    BY <1>1, <2>1 DEF SearchInv
  <2> QED  BY <1>1, <1>2, <2>1, <2>2 DEF IInv, ListInv
<1>5. CallInv' /\ ClientInv'
  BY <1>1, <1>2 DEF IInv, CallInv, ClientInv, ContentsIntact
<1> QED  BY <1>3, <1>4, <1>5 DEF IInv

\* The blocks the client still holds after one was freed: for mm_free, for
\* mm_realloc to nothing and, with other slots, for the end of mm_realloc.
LEMMA HeldKept ==
  ASSUME IInv, NEW S, Heap(mem, mem_brk, S, Used),
         NEW W \in SUBSET Used, Kept(mem, mem', W),
         \A i \in Live' : /\ i \in Live /\ blocks'[i] = blocks[i] /\ blocks[i] \in W
                          /\ block_sizes'[i] = block_sizes[i]
  PROVE  ClientInv'
<1>1. \A i \in Live' : i \in Ids /\ block_sizes[i] \in Nat
  BY Types DEF IInv, Live
<1>2. ASSUME NEW i \in Live'
      PROVE  /\ Roomy(mem', blocks[i], block_sizes[i])
             /\ \A a \in Payload(blocks[i], block_sizes[i]) : mem'[a] = mem[a]
  <2>1. i \in Live /\ blocks[i] \in W /\ block_sizes[i] \in Nat /\ Roomy(mem, blocks[i], block_sizes[i])
    BY <1>1 DEF IInv, ClientInv
  <2> HIDE DEF Roomy
  <2> QED  BY <2>1, Undisturbed
<1>3. \A i, j \in Live' : i # j => blocks'[i] # blocks'[j]
  BY DEF IInv, ClientInv
<1>4. \A i \in Live' : Roomy(mem', blocks'[i], block_sizes'[i])
  BY <1>2
<1>5. ContentsIntact'
  <2> SUFFICES ASSUME NEW i \in Live', NEW a \in Payload(blocks'[i], block_sizes'[i])
               PROVE  mem'[a] = Pattern[i]
    BY DEF ContentsIntact
  <2>1. i \in Live /\ a \in Payload(blocks[i], block_sizes[i])
    OBVIOUS
  <2>2. mem[a] = Pattern[i]
    BY <2>1 DEF IInv, ClientInv, ContentsIntact
  <2> QED  BY <1>2, <2>1, <2>2
<1> QED  BY <1>3, <1>4, <1>5 DEF ClientInv

\* mm_free, called by itself or by mm_realloc for size 0, leaves a well-formed
\* list and every other block as it was.
LEMMA Releasing ==
  ASSUME IInv, NEW i \in Ids, pc = "idle", blocks[i] # NULL,
         mem' = mm_free(mem, blocks[i]),
         blocks' = [blocks EXCEPT ![i] = NULL],
         block_sizes' = [block_sizes EXCEPT ![i] = 0],
         mem_brk' = mem_brk, heap_listp' = heap_listp, bp' = NULL,
         \/ pc' = "idle" /\ call' = NoCall
         \/ pc' = "returned" /\ call' \in Call /\ call'.size = 0
  PROVE  IInv'
<1>1. i \in Live /\ blocks[i] \in Used
  BY DEF Live, Used
<1>2. heap_listp # NULL
  BY <1>1 DEF IInv, ListInv
<1>3. PICK S : Heap(mem, mem_brk, S, Used) /\ Spaced(S, mem_brk, Used)
  BY <1>2 DEF IInv, ListInv
<1>4. /\ \E S2 : /\ Heap(mem', mem_brk, S2, Used \ {blocks[i]})
                 /\ Spaced(S2, mem_brk, Used \ {blocks[i]})
      /\ Kept(mem, mem', Used \ {blocks[i]})
  BY <1>1, <1>3, Freeing
<1>5. PICK S2 : Heap(mem', mem_brk, S2, Used \ {blocks[i]}) /\ Spaced(S2, mem_brk, Used \ {blocks[i]})
  BY <1>4
<1>6. blocks \in [Ids -> Nat]
  BY DEF IInv, TypeOK
<1>7. Live' = Live \ {i} /\ \A j \in Live' : blocks'[j] = blocks[j] /\ j \in Ids
  BY <1>6 DEF Live
<1>8. Used' = Used \ {blocks[i]}
  <2>1. Used = {blocks[j] : j \in Live} /\ Used' = {blocks[j] : j \in Live'}
    BY <1>7 DEF Used, Pending
  <2>2. \A j \in Live : j # i => blocks[j] # blocks[i]
    BY <1>1 DEF IInv, ClientInv
  <2> QED  BY <1>1, <1>7, <2>1, <2>2
<1>9. TypeOK'
  <2>1. call' \in Call => call' # NoCall
    BY DEF Call, NoCall
  <2>2. blocks' \in [Ids -> Nat]
    BY <1>6
  <2>3. block_sizes' \in [Ids -> Sizes \cup {0}]
    BY DEF IInv, TypeOK
  <2>4. mem' \in [Addr -> Word]
    BY <1>5, BreakTyped
  <2> QED  BY <2>1, <2>2, <2>3, <2>4 DEF IInv, TypeOK
<1>10. ListInv'
  <2>1. SearchInv(S2)'
    BY DEF SearchInv
  <2> QED  BY <1>2, <1>5, <1>8, <2>1 DEF ListInv
<1>11. CallInv'
  BY DEF CallInv
<1>12. ClientInv'
  <2>1. \A j \in Live' : /\ j \in Live /\ blocks'[j] = blocks[j] /\ blocks[j] \in Used \ {blocks[i]}
                         /\ block_sizes'[j] = block_sizes[j]
    <3> SUFFICES ASSUME NEW j \in Live'
                 PROVE  /\ j \in Live /\ blocks'[j] = blocks[j] /\ blocks[j] \in Used \ {blocks[i]}
                        /\ block_sizes'[j] = block_sizes[j]
      OBVIOUS
    <3>1. j \in Live /\ j # i /\ j \in Ids /\ blocks'[j] = blocks[j]
      BY <1>7
    <3>2. blocks[j] \in Used /\ blocks[j] # blocks[i]
      BY <1>1, <3>1 DEF Used, IInv, ClientInv
    <3>3. block_sizes'[j] = block_sizes[j]
      BY <3>1 DEF IInv, TypeOK
    <3> QED  BY <3>1, <3>2, <3>3
  <2> QED  BY <1>3, <1>4, <2>1, HeldKept
<1> QED  BY <1>9, <1>10, <1>11, <1>12 DEF IInv

\* One turn of find_fit's loop: the next block is a block of the list, and
\* the loop stops at the epilogue at the latest.
LEMMA Searching == ASSUME IInv, FindNext  PROVE IInv'
<1>1. /\ pc = "find_fit" /\ mem[bp - 1].size > 0 /\ bp' = bp + mem[bp - 1].size
      /\ mem' = mem /\ mem_brk' = mem_brk /\ heap_listp' = heap_listp /\ pc' = pc /\ call' = call
      /\ blocks' = blocks /\ block_sizes' = block_sizes
  BY DEF FindNext
<1>2. Live' = Live /\ Used' = Used
  BY <1>1 DEF Live, Used, Pending
<1>3. heap_listp # NULL
  BY <1>1 DEF IInv, ListInv
<1>4. PICK S : /\ Heap(mem, mem_brk, S, Used) /\ Spaced(S, mem_brk, Used)
               /\ bp \in S /\ \A c \in S : c < bp => ~Suits(c)
  BY <1>1, <1>3 DEF IInv, ListInv, SearchInv
<1>5. bp # mem_brk
  BY <1>1, <1>4 DEF Heap, Chained
<1>6. bp' \in S /\ bp' \in Nat /\ \A c \in S : c < bp' => c < bp \/ c = bp
  <2>1. BlockAt(mem, mem_brk, S, bp) /\ S \subseteq Int
    BY <1>4, Geometry DEF BlockAt
  <2>2. bp' \in S /\ bp' \in Nat /\ bp \in Int /\ \A c \in S : c <= bp \/ c >= bp'
    BY <1>1, <1>5, <2>1, Bounds DEF BlockAt
  <2> QED  BY <2>1, <2>2
<1>7. TypeOK'
  BY <1>1, <1>6 DEF IInv, TypeOK
<1>8. ListInv'
  <2>1. ~Suits(bp)
    BY DEF FindNext, Fits, Suits
  <2>2. \A c \in S : c < bp' => ~Suits(c)
    BY <1>4, <1>6, <2>1
  <2>3. \A c \in S : Suits(c)' <=> Suits(c)
    BY <1>1 DEF Suits
  <2>4. SearchInv(S)'
    BY <1>1, <1>6, <2>2, <2>3 DEF SearchInv
  <2> QED  BY <1>1, <1>2, <1>3, <1>4, <2>4 DEF ListInv
<1>9. CallInv' /\ ClientInv'
  BY <1>1, <1>2 DEF IInv, CallInv, ClientInv, ContentsIntact
<1> QED  BY <1>7, <1>8, <1>9 DEF IInv

-----------------------------------------------------------------------------

\* The copy of mm_realloc stays inside both blocks: it writes only payload of
\* the new one, and what it writes is the old one's.
LEMMA Copying ==
  ASSUME NEW m, NEW brk, NEW S, NEW U, Heap(m, brk, S, U),
         NEW p \in U, NEW old \in U, NEW size \in Nat, Roomy(m, p, size),
         NEW n, n = Smaller(8 * m[old - 1].size, size)
  PROVE  /\ n \in Nat
         /\ memcpy(m, p, old, n) \in [Addr -> Word]
         /\ \A a \in Addr : a < p \/ a > p + m[p - 1].size - 3 => memcpy(m, p, old, n)[a] = m[a]
         /\ \A a \in Payload(p, n) : memcpy(m, p, old, n)[a] = m[a - p + old]
<1> DEFINE k == m[old - 1].size
           m2 == memcpy(m, p, old, n)
<1>1. /\ BlockAt(m, brk, S, p) /\ BlockAt(m, brk, S, old)
      /\ p \in Int /\ m[p - 1].size \in Nat /\ p + m[p - 1].size <= brk
      /\ old \in Int /\ k \in Nat /\ old + k <= brk
      /\ p - 1 \in Addr /\ old - 1 \in Addr
  <2>1. p \in Regular(S, brk) /\ old \in Regular(S, brk)
    BY DEF Heap
  <2> QED  BY <2>1, InUse
<1>2. /\ m \in [Addr -> Word] /\ brk \in Int /\ brk <= Top
  BY Breaks DEF Heap
<1>3. n \in Nat /\ n <= 8 * k /\ n <= size
  BY <1>1 DEF Smaller
<1>4. /\ WordsOf(n) \in Nat /\ WordsOf(n) <= k /\ WordsOf(n) <= m[p - 1].size - 2
  <2>1. WordsOf(n) \in Nat /\ WordsOf(n) <= k
    <3> HIDE DEF k
    <3>1. 8 * k \in Nat
      BY <1>1
    <3>2. WordsOf(8 * k) = k
      BY <1>1, Rounding
    <3> QED  BY <1>3, <3>1, <3>2, Rounding
  <2>2. WordsOf(n) <= WordsOf(size) /\ WordsOf(size) \in Nat
    BY <1>3, Rounding
  <2> QED  BY <1>1, <2>1, <2>2
<1> HIDE DEF k
<1>5. ASSUME NEW a \in Payload(p, n)
      PROVE  a \in Addr /\ a - p + old \in Addr /\ ~(a < p \/ a > p + m[p - 1].size - 3)
  BY <1>1, <1>2, <1>4, Bounds DEF Payload
<1>6. m2 = [a \in Addr |-> IF a \in Payload(p, n) THEN m[a - p + old] ELSE m[a]]
  BY DEF memcpy
<1>7. m2 \in [Addr -> Word]
  BY <1>2, <1>5, <1>6
<1> QED  BY <1>3, <1>5, <1>6, <1>7

\* From a block in use for it to the return of the call: what FindHit and
\* FindMiss have in common.
LEMMA Returning ==
  ASSUME IInv, pc = "find_fit",
         NEW S, Heap(mem, mem_brk, S, Used),
         NEW m1, NEW p, p \notin Used, NEW S1, Heap(m1, mem_brk', S1, Used \cup {p}),
         Spaced(S1, mem_brk', Used \cup {p}),
         Roomy(m1, p, call.size), Kept(mem, m1, Used),
         Return(m1, p)
  PROVE  IInv'
<1> DEFINE i == call.index
<1>1. /\ pc' = "returned" /\ bp' = p /\ heap_listp' = heap_listp
      /\ call' = call /\ block_sizes' = block_sizes
  BY DEF Return
<1>2. /\ i \in Ids /\ call.size \in Sizes /\ call.size \in Nat /\ call \in Call
      /\ call.op \in {"malloc", "realloc"} /\ (call.op = "realloc" <=> i \in Live)
      /\ call # NoCall
  BY Types DEF IInv, CallInv, Call, NoCall
<1>3. Used = {blocks[j] : j \in Live} /\ heap_listp # NULL
  BY DEF Used, Pending, IInv, ListInv
<1>4. p \in Nat /\ p # NULL
  <2>1. p \in Regular(S1, mem_brk')
    BY DEF Heap
  <2> QED  BY <2>1, InUse, Bounds DEF BlockAt
<1>5. blocks \in [Ids -> Nat] /\ block_sizes \in [Ids -> Sizes \cup {0}]
  BY DEF IInv, TypeOK
<1>6. CASE call.op = "malloc"
  <2>1. mem' = m1 /\ blocks' = blocks
    BY <1>6 DEF Return
  <2>2. Live' = Live /\ Used' = Used \cup {p}
    BY <1>1, <1>3, <1>4, <2>1 DEF Live, Used, Pending
  <2>3. TypeOK'
    BY <1>1, <1>2, <1>4, <2>1, BreakTyped DEF IInv, TypeOK
  <2>4. ListInv'
    <3>1. SearchInv(S1)'
      BY <1>1, <1>4 DEF SearchInv
    <3> QED  BY <1>1, <1>3, <2>1, <2>2, <3>1 DEF ListInv
  <2>5. CallInv'
    BY <1>1, <1>2, <1>3, <1>6, <2>1, <2>2 DEF CallInv
  <2>6. ClientInv'
    <3>1. \A j \in Live' : /\ j \in Live /\ blocks'[j] = blocks[j] /\ blocks[j] \in Used
                           /\ block_sizes'[j] = block_sizes[j]
      BY <1>1, <1>3, <2>1, <2>2
    <3> QED  BY <2>1, <3>1, HeldKept
  <2> QED  BY <2>3, <2>4, <2>5, <2>6 DEF IInv
<1>7. CASE call.op = "realloc"
  <2> DEFINE old == blocks[i]
             n == Smaller(8 * m1[old - 1].size, call.size)
             m2 == memcpy(m1, p, old, n)
             U1 == Used \cup {p}
             W == U1 \ {old}
  <2>1. mem' = mm_free(m2, old) /\ blocks' = [blocks EXCEPT ![i] = NULL]
    BY <1>4, <1>7 DEF Return
  <2>2. i \in Live /\ old \in Used /\ old # p
    BY <1>2, <1>3, <1>7
  <2>3. block_sizes[i] \in Nat /\ Roomy(mem, old, block_sizes[i])
        /\ \A a \in Payload(old, block_sizes[i]) : mem[a] = Pattern[i]
    BY <1>2, <2>2, Types DEF IInv, ClientInv, ContentsIntact
  <2> HIDE DEF old, i, Roomy
  <2>4. /\ Roomy(m1, old, block_sizes[i])
        /\ \A a \in Payload(old, block_sizes[i]) : m1[a] = Pattern[i]
    <3> DEFINE V == Used
    <3>1. V \in SUBSET Used /\ Kept(mem, m1, V) /\ old \in V
      BY <2>2
    <3> HIDE DEF V
    <3>2. \A a \in Payload(old, block_sizes[i]) : m1[a] = mem[a]
      BY <2>3, <3>1, Undisturbed
    <3>3. Roomy(m1, old, block_sizes[i])
      BY <2>3, <3>1, Undisturbed
    <3> QED  BY <2>3, <3>2, <3>3
  <2>5. /\ n \in Nat
        /\ m2 \in [Addr -> Word]
        /\ \A a \in Addr : a < p \/ a > p + m1[p - 1].size - 3 => m2[a] = m1[a]
        /\ \A a \in Payload(p, n) : m2[a] = m1[a - p + old]
    <3>1. p \in U1 /\ old \in U1
      BY <2>2
    <3>2. n = Smaller(8 * m1[old - 1].size, call.size)
      OBVIOUS
    <3>3. Heap(m1, mem_brk', S1, U1)
      OBVIOUS
    <3> HIDE DEF U1, n
    <3> QED  BY <1>2, <3>1, <3>2, <3>3, Copying
  <2> HIDE DEF m2
  <2>6. /\ Heap(m2, mem_brk', S1, U1)
        /\ m2[p - 1] = m1[p - 1]
        /\ Kept(m1, m2, U1 \ {p})
    BY <2>5, Filling
  <2>7. /\ \E S2 : Heap(mem', mem_brk', S2, W) /\ Spaced(S2, mem_brk', W)
        /\ Kept(m2, mem', W)
    BY <2>1, <2>2, <2>6, Freeing
  <2>8. PICK S2 : Heap(mem', mem_brk', S2, W) /\ Spaced(S2, mem_brk', W)
    BY <2>7
  <2>9. Kept(mem, mem', Used \ {old})
    <3> DEFINE V == Used \ {old}
    <3>1. V \in SUBSET Used /\ V \in SUBSET U1 /\ V \subseteq U1 \ {p} /\ V \subseteq W
      OBVIOUS
    <3>2. Kept(mem, m1, V) /\ Kept(m1, m2, V) /\ Kept(m2, mem', V)
      BY <2>6, <2>7, <3>1 DEF Kept
    <3> HIDE DEF V
    <3>3. Kept(mem, m2, V)
      BY <3>1, <3>2, KeptTwice
    <3>4. Kept(mem, mem', V)
      BY <3>1, <3>2, <3>3, KeptTwice
    <3> QED  BY <3>4 DEF V
  <2>10. Live' = Live \ {i} /\ \A j \in Live' : j \in Live /\ blocks'[j] = blocks[j]
    BY <1>2, <1>5, <2>1 DEF Live, i
  <2>11. \A j \in Live' : blocks[j] \in Used \ {old}
    <3> SUFFICES ASSUME NEW j \in Live'  PROVE blocks[j] \in Used /\ blocks[j] # old
      OBVIOUS
    <3>1. j \in Live /\ j # i
      BY <2>10
    <3> QED  BY <1>3, <2>2, <3>1 DEF IInv, ClientInv, old
  <2>12. Used' = W
    <3>1. Used' = {blocks'[j] : j \in Live'} \cup {p}
      BY <1>1, <1>4 DEF Used, Pending
    <3>2. {blocks'[j] : j \in Live'} = {blocks[j] : j \in Live'}
      BY <2>10
    <3>3. {blocks[j] : j \in Live'} = Used \ {old}
      BY <1>3, <2>10, <2>11 DEF old
    <3> QED  BY <2>2, <3>1, <3>2, <3>3
  <2>13. TypeOK'
    <3>1. blocks' \in [Ids -> Nat]
      BY <1>5, <2>1
    <3> QED  BY <1>1, <1>2, <1>4, <2>8, <3>1, BreakTyped DEF IInv, TypeOK
  <2>14. ListInv'
    <3>1. SearchInv(S2)'
      BY <1>1, <1>4 DEF SearchInv
    <3> QED  BY <1>1, <1>3, <2>8, <2>12, <3>1 DEF ListInv
  <2>15. ClientInv'
    <3>1. Used \ {old} \in SUBSET Used
      OBVIOUS
    <3> QED  BY <1>1, <2>9, <2>10, <2>11, <3>1, HeldKept
  <2>16. /\ Roomy(mem', p, call.size)
         /\ \A a \in Payload(p, call.size) : mem'[a] = m2[a]
    <3>1. p \in W /\ W \in SUBSET U1 /\ Roomy(m2, p, call.size)
      BY <2>2, <2>6 DEF Roomy
    <3> HIDE DEF U1, W
    <3> QED  BY <1>2, <2>6, <2>7, <3>1, Undisturbed
  <2>17. ASSUME NEW a \in Payload(p, Smaller(block_sizes[i], call.size))
         PROVE  mem'[a] = Pattern[i]
    <3> DEFINE s == Smaller(block_sizes[i], call.size)
               k == m1[old - 1].size
    <3>1. k \in Nat /\ old \in Int
      <4>1. old \in Regular(S1, mem_brk')
        BY <2>2 DEF Heap
      <4> QED  BY <4>1, InUse
    <3>2. block_sizes[i] <= 8 * k
      BY <2>3, <2>4, <3>1 DEF WordsOf, Roomy
    <3>3. s \in Nat /\ s <= block_sizes[i] /\ s <= call.size /\ s <= n
      BY <1>2, <2>3, <3>1, <3>2 DEF Smaller
    <3> HIDE DEF s, n, k
    <3>4. WordsOf(s) \in Nat /\ WordsOf(s) <= WordsOf(block_sizes[i])
          /\ WordsOf(s) <= WordsOf(call.size) /\ WordsOf(s) <= WordsOf(n)
          /\ WordsOf(n) \in Nat /\ WordsOf(call.size) \in Nat /\ WordsOf(block_sizes[i]) \in Nat
      BY <1>2, <2>3, <2>5, <3>3, Rounding
    <3>5. a \in Payload(p, s)
      BY DEF s
    <3>6. /\ a \in Payload(p, n) /\ a \in Payload(p, call.size)
          /\ a - p + old \in Payload(old, block_sizes[i])
      BY <1>4, <3>1, <3>4, <3>5 DEF Payload
    <3> QED  BY <2>4, <2>5, <2>16, <3>6
  <2>18. CallInv'
    <3>1. i \notin Live' /\ \A j \in Live' : p # blocks'[j]
      BY <2>10, <2>11
    <3>2. call'.index = i /\ call'.size = call.size /\ block_sizes'[i] = block_sizes[i]
      BY <1>1 DEF i
    <3> QED  BY <1>1, <2>16, <2>17, <3>1, <3>2 DEF CallInv
  <2> QED  BY <2>13, <2>14, <2>15, <2>18 DEF IInv
<1> QED  BY <1>2, <1>6, <1>7

\* find_fit's block, placed.
LEMMA Hitting == ASSUME IInv, FindHit  PROVE IInv'
<1> DEFINE n == adjusted_size(call.size)
           m1 == place(mem, bp, n)
<1>1. /\ pc = "find_fit" /\ mem[bp - 1].size > 0
      /\ mem[bp - 1].alloc # 1 /\ mem[bp - 1].size >= n
      /\ Return(m1, bp) /\ mem_brk' = mem_brk
  BY DEF FindHit, Fits
<1>2. heap_listp # NULL
  BY <1>1 DEF IInv, ListInv
<1>3. PICK S : Heap(mem, mem_brk, S, Used) /\ Spaced(S, mem_brk, Used) /\ bp \in S
  BY <1>1, <1>2 DEF IInv, ListInv, SearchInv
<1>4. bp \in Regular(S, mem_brk) /\ bp \notin Used
  <2>1. mem[Prologue - 1].alloc = 1 /\ mem[mem_brk - 1].alloc = 1
    BY <1>3 DEF Heap, Chained
  <2>2. bp \in Regular(S, mem_brk)
    BY <1>1, <1>3, <2>1 DEF Regular
  <2> QED  BY <1>1, <1>3, <2>2 DEF Heap
<1>5. call.size \in Sizes /\ call.size > 0
  BY <1>1, Types DEF IInv, CallInv
<1>6. /\ n \in Nat /\ n >= 4 /\ n % 2 = 0 /\ n >= 2 + WordsOf(call.size)
      /\ WordsOf(call.size) \in Nat
  BY <1>1, <1>5, Adjusted, Rounding, Types DEF IInv
<1> HIDE DEF n
<1>7. /\ \E S2 : Heap(m1, mem_brk, S2, Used \cup {bp}) /\ Spaced(S2, mem_brk, Used \cup {bp})
      /\ m1[bp - 1].size >= n
      /\ Kept(mem, m1, Used)
  BY <1>1, <1>3, <1>4, <1>6, Placing
<1>8. PICK S2 : Heap(m1, mem_brk, S2, Used \cup {bp}) /\ Spaced(S2, mem_brk, Used \cup {bp})
  BY <1>7
<1>9. Roomy(m1, bp, call.size)
  <2>1. m1[bp - 1].size \in Nat
    <3>1. bp \in Regular(S2, mem_brk)
      BY <1>8 DEF Heap
    <3> QED  BY <1>8, <3>1, InUse
  <2> QED  BY <1>6, <1>7, <2>1
<1> HIDE DEF m1, Roomy
<1> QED  BY <1>1, <1>3, <1>4, <1>7, <1>8, <1>9, Returning

\* At the epilogue the search has passed every block, and none would do.
LEMMA NothingSuits ==
  ASSUME NEW S, NEW U, Heap(mem, mem_brk, S, U), bp \in S, mem[bp - 1].size = 0,
         \A c \in S : c < bp => ~Suits(c)
  PROVE  \A c \in S : ~Suits(c)
<1>1. bp = mem_brk
  <2>1. BlockAt(mem, mem_brk, S, bp)
    BY Geometry
  <2> QED  BY <2>1 DEF BlockAt
<1>2. ~Suits(mem_brk)
  BY DEF Heap, Chained, Suits
<1>3. mem_brk \in Int /\ \A c \in S : c \in Int /\ c <= mem_brk
  BY Breaks, Geometry DEF BlockAt
<1>4. \A c \in S : c < bp \/ c = mem_brk
  BY <1>1, <1>3
<1> QED  BY <1>2, <1>4

\* The heap grown for a request that fits nowhere, or the call failed.
LEMMA Missing == ASSUME IInv, FindMiss  PROVE IInv'
<1> DEFINE n == adjusted_size(call.size)
           x == ExtendSize
           r == extend_heap(mem, mem_brk, x)
           m1 == place(r.mem, r.block, n)
<1>1. /\ pc = "find_fit" /\ mem_brk' = r.brk
      /\ IF r.block = NULL THEN Return(r.mem, NULL) ELSE Return(m1, r.block)
  BY DEF FindMiss
<1>2. heap_listp # NULL
  BY <1>1 DEF IInv, ListInv
<1>3. PICK S : /\ Heap(mem, mem_brk, S, Used) /\ Spaced(S, mem_brk, Used)
               /\ bp \in S /\ \A c \in S : c < bp => ~Suits(c)
  BY <1>1, <1>2 DEF IInv, ListInv, SearchInv
<1>4. call.size \in Sizes /\ call.size > 0
  BY <1>1, Types DEF IInv, CallInv
<1>5. /\ n \in Nat /\ n >= 4 /\ n % 2 = 0 /\ n >= 2 + WordsOf(call.size)
      /\ WordsOf(call.size) \in Nat /\ 8 * n < 2 * (INT_MAX + 1)
  BY <1>1, <1>4, Adjusted, Rounding, Types DEF IInv
<1>6. x \in Nat /\ x >= 4 /\ x % 2 = 0 /\ x >= n /\ 8 * x < 2 * (INT_MAX + 1)
  <2>1. CHUNKSIZE \in Nat /\ CHUNKSIZE >= 4 /\ CHUNKSIZE % 2 = 0 /\ 8 * CHUNKSIZE <= INT_MAX /\ INT_MAX \in Nat
    BY ChunkAssumption, IntAssumption
  <2>2. x = IF n > CHUNKSIZE THEN n ELSE CHUNKSIZE
    BY DEF ExtendSize
  <2> HIDE DEF n, x
  <2> QED  BY <1>5, <2>1, <2>2
<1> HIDE DEF n, x
<1>7. CASE r = [mem |-> mem, brk |-> mem_brk, block |-> NULL] /\ mem_brk + x > Top
  <2>1. /\ pc' = "returned" /\ bp' = NULL /\ mem' = mem /\ mem_brk' = mem_brk
        /\ heap_listp' = heap_listp /\ call' = call
        /\ blocks' = blocks /\ block_sizes' = block_sizes
    BY <1>1, <1>7 DEF Return
  <2>2. Live' = Live /\ Used' = Used
    BY <1>1, <2>1 DEF Live, Used, Pending
  <2>3. TypeOK'
    BY <1>1, <2>1 DEF IInv, TypeOK
  <2>4. ListInv'
    <3>1. \A c \in S : ~Suits(c)
      BY <1>3, NothingSuits DEF FindMiss
    <3>2. \A c \in S : Suits(c)' <=> Suits(c)
      BY <2>1 DEF Suits
    <3>3. ExtendSize' = x
      BY <2>1 DEF ExtendSize, x
    <3>4. SearchInv(S)'
      BY <1>7, <2>1, <3>1, <3>2, <3>3 DEF SearchInv
    <3> QED  BY <1>2, <1>3, <2>1, <2>2, <3>4 DEF ListInv
  <2>5. CallInv' /\ ClientInv'
    BY <2>1, <2>2 DEF IInv, CallInv, ClientInv, ContentsIntact
  <2> QED  BY <2>3, <2>4, <2>5 DEF IInv
<1>8. CASE /\ \E S2 : /\ Heap(r.mem, r.brk, S2, Used) /\ Spaced(S2, r.brk, Used)
                      /\ r.block \in Regular(S2, r.brk)
           /\ r.block \notin Used
           /\ r.mem[r.block - 1].size >= x
           /\ Kept(mem, r.mem, Used)
  <2> HIDE DEF r
  <2>1. PICK S2 : /\ Heap(r.mem, r.brk, S2, Used) /\ Spaced(S2, r.brk, Used)
                  /\ r.block \in Regular(S2, r.brk)
    BY <1>8
  <2>2. r.block # NULL /\ r.mem[r.block - 1].size \in Nat
    BY <2>1, InUse, Bounds DEF BlockAt
  <2>3. n <= r.mem[r.block - 1].size
    BY <1>5, <1>6, <1>8, <2>2
  <2>4. /\ \E S3 : Heap(m1, r.brk, S3, Used \cup {r.block}) /\ Spaced(S3, r.brk, Used \cup {r.block})
        /\ m1[r.block - 1].size >= n
        /\ Kept(r.mem, m1, Used)
    BY <1>5, <1>8, <2>1, <2>3, Placing
  <2> HIDE DEF m1
  <2>5. PICK S3 : Heap(m1, r.brk, S3, Used \cup {r.block}) /\ Spaced(S3, r.brk, Used \cup {r.block})
    BY <2>4
  <2>6. Kept(mem, m1, Used)
    <3> DEFINE V == Used
    <3>1. V \in SUBSET Used /\ Kept(mem, r.mem, V) /\ Kept(r.mem, m1, V)
      BY <1>8, <2>4
    <3> HIDE DEF V
    <3>2. Kept(mem, m1, V)
      BY <1>3, <3>1, KeptTwice
    <3> QED  BY <3>2 DEF V
  <2>7. Roomy(m1, r.block, call.size)
    <3>1. m1[r.block - 1].size \in Nat
      <4>1. r.block \in Regular(S3, r.brk)
        BY <2>5 DEF Heap
      <4> QED  BY <2>5, <4>1, InUse
    <3> QED  BY <1>5, <2>4, <3>1
  <2> HIDE DEF Roomy
  <2>8. Return(m1, r.block) /\ mem_brk' = r.brk
    BY <1>1, <2>2
  <2> QED  BY <1>1, <1>3, <1>8, <2>5, <2>6, <2>7, <2>8, Returning
<1>9. \/ r = [mem |-> mem, brk |-> mem_brk, block |-> NULL] /\ mem_brk + x > Top
      \/ /\ \E S2 : /\ Heap(r.mem, r.brk, S2, Used) /\ Spaced(S2, r.brk, Used)
                    /\ r.block \in Regular(S2, r.brk)
         /\ r.block \notin Used
         /\ r.mem[r.block - 1].size >= x
         /\ Kept(mem, r.mem, Used)
  BY <1>3, <1>6, Growing
<1> QED  BY <1>7, <1>8, <1>9

\* The client fills the payload it was given, and nothing else.
LEMMA Accepting == ASSUME IInv, Accept  PROVE IInv'
<1> DEFINE i == call.index
           size == call.size
<1>1. /\ pc = "returned" /\ pc' = "idle" /\ call' = NoCall /\ bp' = NULL
      /\ mem_brk' = mem_brk /\ heap_listp' = heap_listp
  BY DEF Accept
<1>2. i \in Ids /\ size \in Sizes /\ size \in Nat /\ bp \in Nat
  BY <1>1, Types DEF IInv, TypeOK
<1>3. blocks \in [Ids -> Nat] /\ block_sizes \in [Ids -> Sizes \cup {0}]
      /\ mem \in [Addr -> Word] /\ mem_brk \in mem_start_brk .. mem_start_brk + MAX_HEAP
  BY DEF IInv, TypeOK
<1>4. CASE bp = NULL
  <2>1. mem' = mem /\ blocks' = blocks /\ block_sizes' = block_sizes
    BY <1>4 DEF Accept
  <2>2. Live' = Live /\ Used' = Used
    BY <1>1, <1>4, <2>1 DEF Live, Used, Pending
  <2>3. TypeOK'
    BY <1>1, <2>1 DEF IInv, TypeOK
  <2>4. ListInv'
    <3>1. \A S : SearchInv(S)'
      BY <1>1 DEF SearchInv
    <3> QED  BY <1>1, <1>4, <2>1, <2>2, <3>1 DEF IInv, ListInv
  <2>5. CallInv' /\ ClientInv'
    BY <1>1, <2>1, <2>2 DEF IInv, CallInv, ClientInv, ContentsIntact
  <2> QED  BY <2>3, <2>4, <2>5 DEF IInv
<1>5. CASE bp # NULL
  <2>1. /\ mem' = memset(mem, bp, size, Pattern[i])
        /\ blocks' = [blocks EXCEPT ![i] = bp]
        /\ block_sizes' = [block_sizes EXCEPT ![i] = size]
    BY <1>5 DEF Accept
  <2>2. /\ i \notin Live /\ \A j \in Live : bp # blocks[j]
        /\ Roomy(mem, bp, size)
    BY <1>1, <1>5 DEF IInv, CallInv
  <2>3. heap_listp # NULL /\ bp \in Used
    BY <1>1, <1>5 DEF IInv, ListInv, Used, Pending
  <2>4. PICK S : Heap(mem, mem_brk, S, Used) /\ Spaced(S, mem_brk, Used)
    BY <2>3 DEF IInv, ListInv
  <2>5. bp \in Int /\ mem[bp - 1].size \in Nat /\ WordsOf(size) \in Nat
    <3>1. bp \in Regular(S, mem_brk)
      BY <2>3, <2>4 DEF Heap
    <3> QED  BY <1>2, <2>4, <3>1, InUse, Rounding
  <2>6. mem' = [a \in Addr |-> IF a \in Payload(bp, size) THEN Pattern[i] ELSE mem[a]]
    BY <2>1 DEF memset
  <2>7. mem' \in [Addr -> Word]
    BY <1>2, <1>3, <2>6, PatternAssumption
  <2>8. \A a \in Addr : a < bp \/ a > bp + mem[bp - 1].size - 3 => mem'[a] = mem[a]
    <3> SUFFICES ASSUME NEW a \in Addr, a < bp \/ a > bp + mem[bp - 1].size - 3
                 PROVE  a \notin Payload(bp, size)
      BY <2>6
    <3> QED  BY <2>2, <2>5, Bounds DEF Payload
  <2>9. /\ Heap(mem', mem_brk, S, Used)
        /\ mem'[bp - 1] = mem[bp - 1]
        /\ Kept(mem, mem', Used \ {bp})
    BY <2>3, <2>4, <2>7, <2>8, Filling
  <2>10. Live' = Live \cup {i} /\ \A j \in Live : blocks'[j] = blocks[j] /\ j # i
    BY <1>2, <1>3, <1>5, <2>1, <2>2 DEF Live
  <2>11. blocks'[i] = bp /\ block_sizes'[i] = size
    BY <1>2, <1>3, <2>1
  <2>12. Used' = Used
    <3>1. Used = {blocks[j] : j \in Live} \cup {bp}
      BY <1>1, <1>5 DEF Used, Pending
    <3>2. Used' = {blocks'[j] : j \in Live'}
      BY <1>1 DEF Used, Pending
    <3> QED  BY <2>10, <2>11, <3>1, <3>2
  <2>13. TypeOK'
    <3>1. blocks' \in [Ids -> Nat] /\ block_sizes' \in [Ids -> Sizes \cup {0}]
      BY <1>2, <1>3, <2>1
    <3> QED  BY <1>1, <2>7, <3>1 DEF IInv, TypeOK
  <2>14. ListInv'
    <3>1. SearchInv(S)'
      BY <1>1 DEF SearchInv
    <3> QED  BY <1>1, <2>3, <2>4, <2>9, <2>12, <3>1 DEF ListInv
  <2>15. CallInv'
    BY <1>1 DEF CallInv
  <2>16. ASSUME NEW j \in Live
         PROVE  /\ j \in Ids /\ blocks'[j] = blocks[j] /\ block_sizes'[j] = block_sizes[j]
                /\ Roomy(mem', blocks[j], block_sizes[j])
                /\ \A a \in Payload(blocks[j], block_sizes[j]) : mem'[a] = Pattern[j]
    <3>1. j \in Ids /\ j # i /\ blocks'[j] = blocks[j] /\ block_sizes'[j] = block_sizes[j]
      BY <1>3, <2>1, <2>10 DEF Live
    <3>2. /\ block_sizes[j] \in Nat /\ Roomy(mem, blocks[j], block_sizes[j])
          /\ \A a \in Payload(blocks[j], block_sizes[j]) : mem[a] = Pattern[j]
      BY <3>1, Types DEF IInv, ClientInv, ContentsIntact
    <3> DEFINE W == Used \ {bp}
    <3>3. W \in SUBSET Used /\ blocks[j] \in W /\ Kept(mem, mem', W)
      BY <2>2, <2>9 DEF Used
    <3> HIDE DEF W, Roomy
    <3>4. /\ Roomy(mem', blocks[j], block_sizes[j])
          /\ mem'[blocks[j] - 1] = mem[blocks[j] - 1]
          /\ \A a \in Payload(blocks[j], block_sizes[j]) : mem'[a] = mem[a]
      <4> DEFINE p == blocks[j]
                 s == block_sizes[j]
      <4>1. Heap(mem, mem_brk, S, Used) /\ p \in W /\ s \in Nat /\ Roomy(mem, p, s)
        BY <2>4, <3>2, <3>3
      <4> HIDE DEF p, s
      <4>2. /\ Roomy(mem', p, s)
            /\ mem'[p - 1] = mem[p - 1]
            /\ \A a \in Payload(p, s) : mem'[a] = mem[a]
        BY <3>3, <4>1, Undisturbed
      <4> QED  BY <4>2 DEF p, s
    <3> QED  BY <3>1, <3>2, <3>4
  <2>17. Roomy(mem', bp, size) /\ \A a \in Payload(bp, size) : mem'[a] = Pattern[i]
    <3>1. Roomy(mem', bp, size)
      BY <2>2, <2>9
    <3>2. \A a \in Payload(bp, size) : a \in Addr
      <4>1. bp \in Regular(S, mem_brk)
        BY <2>3, <2>4 DEF Heap
      <4>2. bp + mem[bp - 1].size <= mem_brk /\ bp - 1 \in Addr
        BY <2>4, <4>1, InUse
      <4> QED  BY <1>3, <2>2, <2>5, <4>2, Bounds DEF Payload
    <3> QED  BY <2>6, <3>1, <3>2
  <2> HIDE DEF i, size, Roomy
  <2>18. ClientInv'
    <3>1. \A j, k \in Live' : j # k => blocks'[j] # blocks'[k]
      BY <2>2, <2>10, <2>11 DEF IInv, ClientInv
    <3>2. \A j \in Live' : Roomy(mem', blocks'[j], block_sizes'[j])
      BY <2>10, <2>11, <2>16, <2>17
    <3>3. ContentsIntact'
      BY <2>10, <2>11, <2>16, <2>17 DEF ContentsIntact
    <3> QED  BY <3>1, <3>2, <3>3 DEF ClientInv
  <2> QED  BY <2>13, <2>14, <2>15, <2>18 DEF IInv
<1> QED  BY <1>4, <1>5

-----------------------------------------------------------------------------

\* Every step of the allocator and of its client keeps the invariant.
LEMMA Preserved == ASSUME IInv, [Next]_vars  PROVE IInv'
<1>1. CASE Restart
  BY <1>1, Restarting
<1>2. CASE Accept
  BY <1>2, Accepting
<1>3. ASSUME NEW i \in Ids, MallocNothing(i)  PROVE IInv'
  BY <1>3, GettingNothing
<1>4. ASSUME NEW i \in Ids, ReallocNothing(i)  PROVE IInv'
  <2>1. /\ [op |-> "realloc", index |-> i, size |-> 0] \in Call
        /\ [op |-> "realloc", index |-> i, size |-> 0].size = 0
    BY <1>4 DEF ReallocNothing, Call
  <2> QED  BY <1>4, <2>1, Releasing DEF ReallocNothing
<1>5. ASSUME NEW i \in Ids, Free(i)  PROVE IInv'
  <2>1. pc' = "idle" /\ call' = NoCall /\ bp' = NULL
    BY <1>5 DEF Free, IInv, TypeOK, CallInv
  <2> QED  BY <1>5, <2>1, Releasing DEF Free
<1>6. ASSUME NEW i \in Ids, NEW size \in Sizes, Malloc(i, size)  PROVE IInv'
  <2>1. i \notin Live /\ EnterMalloc("malloc", i, size) /\ pc = "idle" /\ size > 0
    BY <1>6 DEF Malloc, Live
  <2>2. "malloc" = "realloc" <=> i \in Live
    BY <2>1
  <2> QED  BY <2>1, <2>2, Entering
<1>7. ASSUME NEW i \in Ids, NEW size \in Sizes, Realloc(i, size)  PROVE IInv'
  <2>1. i \in Live /\ EnterMalloc("realloc", i, size) /\ pc = "idle" /\ size > 0
    BY <1>7 DEF Realloc, Live
  <2>2. "realloc" = "realloc" <=> i \in Live
    BY <2>1
  <2> QED  BY <2>1, <2>2, Entering
<1>8. CASE FindNext
  BY <1>8, Searching
<1>9. CASE FindHit
  BY <1>9, Hitting
<1>10. CASE FindMiss
  BY <1>10, Missing
<1>11. CASE UNCHANGED vars
  BY <1>11, Stuttering
<1> QED
  BY <1>1, <1>2, <1>3, <1>4, <1>5, <1>6, <1>7, <1>8, <1>9, <1>10, <1>11 DEF Next, Step, Client

\* The invariant holds in every behaviour of the allocator and its client.
THEOREM Invariance == Spec => []IInv
BY Initially, Preserved, PTL DEF Spec

\* Every variable keeps its type: no tag is ever written outside the heap's
\* words, no search leaves the list, and the break stays in the arena.
THEOREM TypeCorrect == Spec => []TypeOK
<1>1. IInv => TypeOK
  BY DEF IInv
<1> QED  BY <1>1, Invariance, PTL

\* A block in use of a well-formed heap, with room for a payload, has what
\* HasRoom asks: alignment, bounds, size and agreeing tags.
LEMMA RoomInHeap ==
  ASSUME TypeOK, NEW S, Heap(mem, mem_brk, S, Used), NEW p \in Used,
         NEW size \in Nat, Roomy(mem, p, size)
  PROVE  HasRoom(p, size)
<1>1. p \in Regular(S, mem_brk) /\ mem[p - 1].alloc = 1
  BY DEF Heap
<1>2. /\ BlockAt(mem, mem_brk, S, p) /\ p \in Int /\ mem[p - 1].size \in Nat
      /\ p + mem[p - 1].size <= mem_brk /\ mem[p + mem[p - 1].size - 2] = mem[p - 1]
  BY <1>1, InUse
<1>3. p % 2 = 0 /\ Prologue <= p /\ mem_brk \in Int
  BY <1>2, Breaks DEF BlockAt
<1> QED  BY <1>1, <1>2, <1>3, Bounds DEF HasRoom

\* mm.c hands out payloads that are aligned, inside the heap and as large as
\* asked, and the tags around each agree for as long as the client holds it.
THEOREM RoomForAll == Spec => []BlocksHaveRoom
<1>1. ASSUME IInv  PROVE BlocksHaveRoom
  <2> SUFFICES ASSUME NEW i \in Live  PROVE HasRoom(blocks[i], block_sizes[i])
    BY DEF BlocksHaveRoom
  <2>1. /\ TypeOK /\ heap_listp # NULL /\ blocks[i] \in Used
        /\ block_sizes[i] \in Nat /\ Roomy(mem, blocks[i], block_sizes[i])
    BY <1>1, Types DEF IInv, ListInv, ClientInv, Used, Live
  <2>2. PICK S : Heap(mem, mem_brk, S, Used)
    BY <1>1, <2>1 DEF IInv, ListInv
  <2> QED  BY <2>1, <2>2, RoomInHeap
<1> QED  BY <1>1, Invariance, PTL

\* The extents of two blocks in use of a well-formed heap, tags included, do
\* not meet: blocks end where the next one starts.
LEMMA Apart ==
  ASSUME NEW S, Heap(mem, mem_brk, S, Used), NEW p \in Used, NEW q \in Used, p # q
  PROVE  Extent(p) \cap Extent(q) = {}
<1>1. p \in Regular(S, mem_brk) /\ q \in Regular(S, mem_brk)
  BY DEF Heap
<1>2. /\ BlockAt(mem, mem_brk, S, p) /\ p \in S /\ p \in Int /\ mem[p - 1].size \in Nat
      /\ BlockAt(mem, mem_brk, S, q) /\ q \in S /\ q \in Int /\ mem[q - 1].size \in Nat
  BY <1>1, InUse
<1>3. q <= p \/ q >= p + mem[p - 1].size
  BY <1>1, <1>2 DEF BlockAt, Regular
<1>4. p <= q \/ p >= q + mem[q - 1].size
  BY <1>1, <1>2 DEF BlockAt, Regular
<1> QED  BY <1>2, <1>3, <1>4 DEF Extent

\* No two blocks the client holds share a word, whatever was split, joined,
\* moved or refused before.
THEOREM DisjointBlocks == Spec => []BlocksDisjoint
<1>1. ASSUME IInv  PROVE BlocksDisjoint
  <2> SUFFICES ASSUME NEW i \in Live, NEW j \in Live, i # j
               PROVE  Extent(blocks[i]) \cap Extent(blocks[j]) = {}
    BY DEF BlocksDisjoint
  <2>1. /\ heap_listp # NULL /\ blocks[i] \in Used /\ blocks[j] \in Used
        /\ blocks[i] # blocks[j]
    BY <1>1 DEF IInv, ListInv, ClientInv, Used, Live
  <2>2. PICK S : Heap(mem, mem_brk, S, Used)
    BY <1>1, <2>1 DEF IInv, ListInv
  <2> QED  BY <2>1, <2>2, Apart
<1> QED  BY <1>1, Invariance, PTL

\* What the client wrote in a block is there until it frees the block.
THEOREM PayloadsIntact == Spec => []ContentsIntact
<1>1. IInv => ContentsIntact
  BY DEF IInv, ClientInv
<1> QED  BY <1>1, Invariance, PTL

\* mm_realloc's new block holds the old contents, up to the smaller size, and
\* shares no word with any block still held.
THEOREM ReallocMoves == Spec => []ReallocPreserves
<1>1. ASSUME IInv  PROVE ReallocPreserves
  <2> SUFFICES ASSUME pc = "returned", call.op = "realloc", bp # NULL
               PROVE  /\ HasRoom(bp, call.size)
                      /\ \A a \in Payload(bp, Smaller(block_sizes[call.index], call.size)) :
                           mem[a] = Pattern[call.index]
                      /\ \A i \in Live : Extent(bp) \cap Extent(blocks[i]) = {}
    BY DEF ReallocPreserves
  <2>1. /\ TypeOK /\ heap_listp # NULL /\ bp \in Used
        /\ call.size \in Nat /\ Roomy(mem, bp, call.size)
        /\ \A i \in Live : bp # blocks[i] /\ blocks[i] \in Used
    BY <1>1, Types DEF IInv, ListInv, CallInv, Used, Pending, Live
  <2>2. PICK S : Heap(mem, mem_brk, S, Used)
    BY <1>1, <2>1 DEF IInv, ListInv
  <2>3. HasRoom(bp, call.size)
    BY <2>1, <2>2, RoomInHeap
  <2>4. \A i \in Live : Extent(bp) \cap Extent(blocks[i]) = {}
    BY <2>1, <2>2, Apart
  <2> QED  BY <1>1, <2>3, <2>4 DEF IInv, CallInv
<1> QED  BY <1>1, Invariance, PTL

\* The list that find_fit walks is the chain of the invariant, its allocated
\* blocks those in use and its free ones spaced: what the theorems on the list
\* rest on.
LEMMA TheList ==
  ASSUME IInv, heap_listp # NULL
  PROVE  /\ Heap(mem, mem_brk, Walk, Used)
         /\ Spaced(Walk, mem_brk, Used)
         /\ SearchInv(Walk)
<1>1. PICK S : /\ Heap(mem, mem_brk, S, Used)
               /\ Spaced(S, mem_brk, Used)
               /\ SearchInv(S)
  BY DEF IInv, ListInv
<1>2. heap_listp = Prologue
  BY DEF IInv, TypeOK
<1>3. Walk = S
  BY <1>1, <1>2, WalkIsChain
<1> QED  BY <1>1, <1>3

\* Between any two steps the list that find_fit walks from the prologue tiles
\* the heap up to the epilogue, with tags that agree and can be walked both
\* ways, for every heap size and every sequence of calls.
THEOREM ListIsWellFormed == Spec => []ListWellFormed
<1>1. IInv => ListWellFormed
  BY TheList DEF ListWellFormed, Heap
<1> QED  BY <1>1, Invariance, PTL

\* The allocated blocks of the list are exactly those the client holds and the
\* one it is about to take: whatever was split, joined or moved, none leaks.
THEOREM NothingLeaks == Spec => []NoLeak
<1>1. ASSUME IInv  PROVE NoLeak
  <2> SUFFICES ASSUME heap_listp # NULL
               PROVE  {b \in Walk : mem[b - 1].alloc = 1} \ {heap_listp, mem_brk} = Used
    BY DEF NoLeak, Used, Pending
  <2>1. Heap(mem, mem_brk, Walk, Used) /\ heap_listp = Prologue
    BY <1>1, TheList DEF IInv, TypeOK
  <2> QED  BY <2>1 DEF Heap, Regular
<1> QED  BY <1>1, Invariance, PTL

\* Immediate coalescing is complete: no free block is ever followed by another,
\* between any two steps.
THEOREM AlwaysCoalesced == Spec => []Coalesced
<1>1. IInv => Coalesced
  BY TheList, SpacedJoined DEF Coalesced
<1> QED  BY <1>1, Invariance, PTL

\* find_fit passes over no block that would do: it takes the lowest that fits.
THEOREM TakesFirstFit == Spec => []FirstFit
<1>1. ASSUME IInv, pc = "find_fit"  PROVE \A b \in Walk : b < bp => ~Suits(b)
  <2>1. heap_listp # NULL
    BY <1>1 DEF IInv, ListInv
  <2> QED  BY <1>1, <2>1, TheList DEF SearchInv
<1>2. IInv => FirstFit
  BY <1>1 DEF FirstFit
<1> QED  BY <1>2, Invariance, PTL

\* A call for something answers NULL only when no block of the whole list
\* would do and the heap cannot grow by what extend_heap asks for.
THEOREM FailsOnlyWhenFull == Spec => []NullMeansFull
<1>1. ASSUME IInv, pc = "returned", bp = NULL, call.size > 0
      PROVE  (\A b \in Walk : ~Suits(b)) /\ mem_brk + ExtendSize > mem_start_brk + MAX_HEAP
  <2>1. heap_listp # NULL
    BY <1>1 DEF IInv, ListInv
  <2> QED  BY <1>1, <2>1, TheList DEF SearchInv, Top
<1>2. IInv => NullMeansFull
  BY <1>1 DEF NullMeansFull
<1> QED  BY <1>2, Invariance, PTL

-----------------------------------------------------------------------------
\* The refinement of Malloc.  A payload's contents are pinned by the invariant
\* before and after a step, so what a step does to tags and neighbours need
\* not be looked at again.

\* The units of Malloc are those of Words.
LEMMA SameUnits ==
  /\ Promise!NULL = 0 /\ Promise!None = Nobody /\ NoCall = [op |-> "none"]
  /\ Nobody.p = 0
  /\ \A p, size : Promise!Payload(p, size) = Payload(p, size)
BY DEF Promise!NULL, Promise!None, Nobody, NoCall, Promise!Payload, Payload, Promise!WordsOf, WordsOf,
       Promise!WordBytes

\* A slot the client holds is a block of Malloc with the pattern in it; an
\* empty one holds nothing.
LEMMA HeldAre ==
  ASSUME IInv, NEW i \in Ids
  PROVE  /\ Promise!Holds(i) <=> i \in Live
         /\ i \notin Live => Held[i] = Nobody
         /\ i \in Live =>
              Held[i] = [p |-> blocks[i],
                         data |-> [a \in Payload(blocks[i], block_sizes[i]) |-> Pattern[i]]]
<1>1. i \notin Live => Held[i] = Nobody
  BY DEF Held
<1>2. ASSUME i \in Live
      PROVE  /\ Held[i] = [p |-> blocks[i],
                           data |-> [a \in Payload(blocks[i], block_sizes[i]) |-> Pattern[i]]]
             /\ Held[i].p # 0
  <2>1. \A a \in Payload(blocks[i], block_sizes[i]) : mem[a] = Pattern[i]
    BY <1>2 DEF IInv, ClientInv, ContentsIntact
  <2>2. [a \in Payload(blocks[i], block_sizes[i]) |-> mem[a]]
          = [a \in Payload(blocks[i], block_sizes[i]) |-> Pattern[i]]
    BY <2>1
  <2> QED  BY <1>2, <2>2 DEF Held, HeldBy, Live
<1> QED  BY <1>1, <1>2, SameUnits DEF Promise!Holds

\* Slots whose pointer and size stay hold the same after a step.
LEMMA HeldSame ==
  ASSUME IInv, IInv', NEW i \in Ids, i \in Live <=> i \in Live',
         i \in Live => blocks'[i] = blocks[i] /\ block_sizes'[i] = block_sizes[i]
  PROVE  Held'[i] = Held[i]
<1>1. i \in Live' => \A a \in Payload(blocks'[i], block_sizes'[i]) : mem'[a] = Pattern[i]
  BY DEF IInv, ClientInv, ContentsIntact
<1>2. i \in Live => \A a \in Payload(blocks[i], block_sizes[i]) : mem[a] = Pattern[i]
  BY DEF IInv, ClientInv, ContentsIntact
<1>3. CASE i \in Live
  <2>1. [a \in Payload(blocks[i], block_sizes[i]) |-> mem'[a]]
          = [a \in Payload(blocks[i], block_sizes[i]) |-> mem[a]]
    BY <1>1, <1>2, <1>3
  <2>2. Held'[i] = [p |-> blocks'[i], data |-> [a \in Payload(blocks'[i], block_sizes'[i]) |-> mem'[a]]]
    BY <1>3 DEF Held, HeldBy
  <2>3. Held[i] = [p |-> blocks[i], data |-> [a \in Payload(blocks[i], block_sizes[i]) |-> mem[a]]]
    BY <1>3 DEF Held, HeldBy
  <2> QED  BY <1>3, <2>1, <2>2, <2>3
<1>4. CASE i \notin Live
  BY <1>4 DEF Held, Nobody
<1> QED  BY <1>3, <1>4

\* A step that leaves the table alone shows in no payload.
LEMMA TableSame ==
  ASSUME IInv, IInv', blocks' = blocks, block_sizes' = block_sizes
  PROVE  Held' = Held
<1>1. Live' = Live
  BY DEF Live
<1>2. \A i \in Ids : Held'[i] = Held[i]
  BY <1>1, HeldSame
<1> QED  BY <1>2 DEF Held

\* A step that empties slot i, if it held anything, shows in no other.
LEMMA SlotEmptied ==
  ASSUME IInv, IInv', NEW i \in Ids, i \notin Live',
         \A j \in Ids : j # i => blocks'[j] = blocks[j] /\ block_sizes'[j] = block_sizes[j]
  PROVE  Held' = [Held EXCEPT ![i] = Nobody]
<1>1. \A j \in Ids : j # i => (j \in Live <=> j \in Live')
  BY DEF Live
<1>2. \A j \in Ids : j # i => Held'[j] = Held[j]
  BY <1>1, HeldSame
<1>3. Held'[i] = Nobody
  BY DEF Held, Nobody
<1> QED  BY <1>2, <1>3 DEF Held

\* The empty heap of Init is Malloc's initial state.
LEMMA PromiseInit == Init => Promise!Init
BY SameUnits DEF Init, Promise!Init, Held, Phase, Answer, Live

\* The steps outside a call: a restart is Malloc's Reset, a free its Free.
LEMMA PromiseRestart == ASSUME IInv, IInv', Restart  PROVE Promise!Reset
<1>1. pc = "idle" /\ pc' = "idle" /\ call' = call /\ Live' = {}
  BY DEF Restart, Live
<1>2. Held' = [i \in Ids |-> Nobody]
  BY <1>1 DEF Held, Nobody
<1>3. Phase = "idle" /\ Phase' = "idle" /\ Answer' = Answer
  BY <1>1 DEF Phase, Answer, Nobody
<1> QED  BY <1>1, <1>2, <1>3, SameUnits DEF Promise!Reset

\* mm_free, by itself or for an mm_realloc to nothing.
LEMMA PromiseFree ==
  ASSUME IInv, IInv', NEW i \in Ids, Free(i) \/ ReallocNothing(i)
  PROVE  /\ Free(i) => Promise!Free(i)
         /\ ReallocNothing(i) => Promise!Holds(i) /\ Promise!Nothing("realloc", i)
<1>1. /\ pc = "idle" /\ i \in Live
      /\ blocks' = [blocks EXCEPT ![i] = 0] /\ block_sizes' = [block_sizes EXCEPT ![i] = 0]
  BY DEF Free, ReallocNothing, Live
<1>2. blocks \in [Ids -> Nat] /\ block_sizes \in [Ids -> Sizes \cup {0}]
  BY DEF IInv, TypeOK
<1>3. i \notin Live'
  BY <1>1, <1>2 DEF Live
<1>4. \A j \in Ids : j # i => blocks'[j] = blocks[j] /\ block_sizes'[j] = block_sizes[j]
  BY <1>1, <1>2
<1>5. Held' = [Held EXCEPT ![i] = Nobody]
  BY <1>3, <1>4, SlotEmptied
<1>6. Promise!Holds(i) /\ Phase = "idle" /\ Answer = Nobody
  BY <1>1, HeldAre DEF Phase, Answer
<1>7. ASSUME Free(i)  PROVE Promise!Free(i)
  <2>1. pc' = "idle" /\ call' = call
    BY <1>1, <1>7 DEF Free
  <2>2. Phase' = Phase /\ Answer' = Answer
    BY <1>1, <2>1 DEF Phase, Answer, Nobody
  <2> QED  BY <1>5, <1>6, <2>1, <2>2, SameUnits DEF Promise!Free
<1>8. ASSUME ReallocNothing(i)  PROVE Promise!Nothing("realloc", i)
  <2>1. pc' = "returned" /\ bp' = 0 /\ call' = [op |-> "realloc", index |-> i, size |-> 0]
    BY <1>8 DEF ReallocNothing
  <2>2. Phase' = "returned" /\ Answer' = Answer
    BY <1>1, <2>1 DEF Phase, Answer, Nobody
  <2> QED  BY <1>5, <1>6, <2>1, <2>2, SameUnits DEF Promise!Nothing
<1> QED  BY <1>6, <1>7, <1>8

\* mm_malloc(0) gets nothing and holds nothing.
LEMMA PromiseNothing ==
  ASSUME IInv, IInv', NEW i \in Ids, MallocNothing(i)
  PROVE  ~Promise!Holds(i) /\ Promise!Nothing("malloc", i)
<1>1. /\ pc = "idle" /\ i \notin Live /\ pc' = "returned" /\ bp' = 0
      /\ call' = [op |-> "malloc", index |-> i, size |-> 0]
      /\ blocks' = blocks /\ block_sizes' = block_sizes
  BY DEF MallocNothing, Live
<1>2. i \notin Live'
  BY <1>1 DEF Live
<1>3. Held' = [Held EXCEPT ![i] = Nobody]
  BY <1>1, <1>2, SlotEmptied
<1>4. ~Promise!Holds(i)
  BY <1>1, HeldAre
<1>5. Phase = "idle" /\ Phase' = "returned" /\ Answer' = Answer
  BY <1>1 DEF Phase, Answer, Nobody
<1> QED  BY <1>1, <1>3, <1>4, <1>5, SameUnits DEF Promise!Nothing

\* A call that has to search is asked for, and shows in no payload although it
\* may have to run mm_init first.
LEMMA PromiseAsk ==
  ASSUME IInv, IInv', pc = "idle", NEW op, NEW i \in Ids, NEW size \in Sizes,
         EnterMalloc(op, i, size)
  PROVE  Promise!Ask(op, i, size)
<1>1. /\ pc' = "find_fit" /\ call' = [op |-> op, index |-> i, size |-> size]
      /\ blocks' = blocks /\ block_sizes' = block_sizes
  BY DEF EnterMalloc
<1>2. Held' = Held
  BY <1>1, TableSame
<1>3. Phase = "idle" /\ Phase' = "busy" /\ Answer' = Answer
  BY <1>1 DEF Phase, Answer, Nobody
<1> QED  BY <1>1, <1>2, <1>3 DEF Promise!Ask

\* One turn of find_fit's loop shows nowhere.
LEMMA PromiseSearch == ASSUME IInv, IInv', FindNext  PROVE UNCHANGED Promise!vars
<1>1. pc = "find_fit" /\ pc' = pc /\ call' = call /\ blocks' = blocks /\ block_sizes' = block_sizes
  BY DEF FindNext
<1>2. Held' = Held
  BY <1>1, TableSame
<1>3. Phase' = Phase /\ Answer' = Answer
  BY <1>1 DEF Phase, Answer, Nobody
<1> QED  BY <1>1, <1>2, <1>3 DEF Promise!vars

\* A call that fails is refused: every payload stays, the old block's too.
LEMMA PromiseRefuse ==
  ASSUME IInv, IInv', pc = "find_fit", NEW m, Return(m, NULL)
  PROVE  Promise!Refuse
<1>1. /\ pc' = "returned" /\ bp' = 0 /\ call' = call
      /\ blocks' = blocks /\ block_sizes' = block_sizes
  BY DEF Return
<1>2. Held' = Held
  BY <1>1, TableSame
<1>3. Phase = "busy" /\ Phase' = "returned" /\ Answer' = Answer
  BY <1>1 DEF Phase, Answer, Nobody
<1> QED  BY <1>1, <1>2, <1>3 DEF Promise!Refuse

\* A call that succeeds is granted: its region is usable, and holds what a
\* resized block held.
LEMMA PromiseGrant ==
  ASSUME IInv, IInv', pc = "find_fit", NEW m, NEW p, p # NULL, Return(m, p)
  PROVE  Promise!Grant
<1> DEFINE i == call.index
           size == call.size
<1>1. /\ pc' = "returned" /\ bp' = p /\ call' = call /\ block_sizes' = block_sizes
      /\ blocks' = IF call.op = "realloc" THEN [blocks EXCEPT ![i] = 0] ELSE blocks
  BY DEF Return
<1>2. /\ i \in Ids /\ size \in Nat /\ blocks \in [Ids -> Nat]
      /\ call.op = "realloc" <=> i \in Live
      /\ \A j \in Ids : block_sizes[j] \in Nat
  BY Types DEF IInv, TypeOK, CallInv
<1>3. /\ i \notin Live' /\ \A j \in Live' : p # blocks'[j]
      /\ Roomy(mem', p, size)
      /\ call.op = "realloc" =>
           \A a \in Payload(p, Smaller(block_sizes[i], size)) : mem'[a] = Pattern[i]
  BY <1>1 DEF IInv, CallInv
<1>4. \A j \in Ids : j # i => blocks'[j] = blocks[j]
  BY <1>1, <1>2
<1>5. Held' = [Held EXCEPT ![i] = Nobody]
  BY <1>1, <1>2, <1>3, <1>4, SlotEmptied
<1>6. Answer' = [p |-> p, data |-> [a \in Payload(p, size) |-> mem'[a]]]
  BY <1>1 DEF Answer, HeldBy
<1>7. heap_listp' # NULL /\ p \in Used' /\ \A j \in Live' : blocks'[j] \in Used'
  BY <1>1 DEF IInv, ListInv, Used, Pending
<1>8. PICK S : Heap(mem', mem_brk', S, Used')
  BY <1>7 DEF IInv, ListInv
<1>9. ASSUME NEW q \in Used'
      PROVE  /\ q \in S /\ q \in Int /\ q # mem_brk' /\ q - 1 \in Addr
             /\ BlockAt(mem', mem_brk', S, q) /\ mem'[q - 1].size \in Nat
             /\ q + mem'[q - 1].size <= mem_brk'
  <2>1. q \in Regular(S, mem_brk')
    BY <1>8 DEF Heap
  <2>2. q # mem_brk'
    BY <2>1 DEF Regular
  <2> QED  BY <1>8, <2>1, <2>2, InUse
<1>10. p % 2 = 0 /\ p \in Int /\ mem_brk' \in Int /\ mem_brk' <= Top
  BY <1>7, <1>8, <1>9, Breaks DEF BlockAt
<1>11. WordsOf(size) \in Nat /\ mem'[p - 1].size >= 2 + WordsOf(size)
  BY <1>2, <1>3, Rounding DEF Roomy
<1>12. Payload(p, size) \subseteq Addr
  BY <1>7, <1>9, <1>10, <1>11, Bounds DEF Payload
<1>13. ASSUME NEW j \in Ids \ {i}, Promise!Holds(j)
       PROVE  Payload(p, size) \cap DOMAIN Held[j].data = {}
  <2> DEFINE q == blocks[j]
  <2>1. j \in Live /\ DOMAIN Held[j].data = Payload(q, block_sizes[j])
    <3>1. /\ j \in Live
          /\ Held[j] = [p |-> q, data |-> [a \in Payload(q, block_sizes[j]) |-> Pattern[j]]]
      BY <1>13, HeldAre
    <3> HIDE DEF q
    <3> QED  BY <3>1
  <2>2. j \in Live' /\ blocks'[j] = q
    BY <1>4, <2>1 DEF Live
  <2>3. q \in Used' /\ q # p /\ Roomy(mem', q, block_sizes[j])
    BY <1>1, <1>3, <1>7, <2>2 DEF IInv, ClientInv
  <2>4. WordsOf(block_sizes[j]) \in Nat
    BY <1>2, Rounding
  <2> HIDE DEF q
  <2>5. q <= p \/ q >= p + mem'[p - 1].size
    BY <1>7, <1>9, <2>3 DEF BlockAt
  <2>6. p <= q \/ p >= q + mem'[q - 1].size
    BY <1>7, <1>9, <2>3 DEF BlockAt
  <2>7. q \in Int /\ mem'[q - 1].size \in Nat /\ p \in Int /\ mem'[p - 1].size \in Nat
    BY <1>7, <1>9, <2>3
  <2>8. Payload(p, size) \cap Payload(q, block_sizes[j]) = {}
    BY <1>11, <2>3, <2>4, <2>5, <2>6, <2>7 DEF Payload, Roomy
  <2> QED  BY <2>1, <2>8 DEF q
<1>14. Promise!Usable
  BY <1>6, <1>10, <1>12, <1>13, SameUnits DEF Promise!Usable
<1>15. ASSUME call.op = "realloc"  PROVE Promise!KeepsOld
  <2> DEFINE q == blocks[i]
             n == block_sizes[i]
  <2>1. i \in Live /\ Held[i] = [p |-> q, data |-> [a \in Payload(q, n) |-> Pattern[i]]]
    BY <1>2, <1>15, HeldAre
  <2>2. ASSUME NEW a \in Payload(q, n), a - q + p \in Payload(p, size)
        PROVE  mem'[a - q + p] = Pattern[i]
    <3>1. q \in Int /\ n \in Nat /\ WordsOf(n) \in Nat /\ a \in Int
      <4>1. q \in Int /\ n \in Nat
        BY <1>2
      <4> HIDE DEF q, n
      <4>2. WordsOf(n) \in Nat
        BY <4>1, Rounding
      <4> QED  BY <4>1, <4>2 DEF Payload
    <3>2. Smaller(n, size) = n \/ Smaller(n, size) = size
      BY <1>2, <3>1, Rounding
    <3> HIDE DEF q, n, size
    <3>3. a - q + p \in Payload(p, n)
      BY <1>10, <2>2, <3>1 DEF Payload
    <3>4. a - q + p \in Payload(p, Smaller(n, size))
      BY <2>2, <3>2, <3>3
    <3> QED  BY <1>3, <1>15, <3>4 DEF n, size
  <2> HIDE DEF i, size, q, n
  <2>3. Promise!KeepsOld <=>
          \A a \in DOMAIN Held[i].data :
            a - Held[i].p + Answer'.p \in DOMAIN Answer'.data =>
              Answer'.data[a - Held[i].p + Answer'.p] = Held[i].data[a]
    BY DEF Promise!KeepsOld, i
  <2> QED  BY <1>6, <2>1, <2>2, <2>3
<1>16. Phase = "busy" /\ Phase' = "returned"
  BY <1>1 DEF Phase
<1> QED  BY <1>1, <1>5, <1>14, <1>15, <1>16, SameUnits DEF Promise!Grant

\* The client takes what it was given, filled with its pattern.
LEMMA PromiseAccept == ASSUME IInv, IInv', Accept  PROVE Promise!Accept
<1> DEFINE i == call.index
           size == call.size
<1>1. pc = "returned" /\ pc' = "idle" /\ call' = NoCall /\ bp' = 0
  BY DEF Accept
<1>2. Phase = "returned" /\ Phase' = "idle" /\ Answer' = Nobody
  BY <1>1 DEF Phase, Answer, Nobody
<1>3. CASE bp = NULL
  <2>1. Answer = Nobody /\ blocks' = blocks /\ block_sizes' = block_sizes
    BY <1>3 DEF Answer, Accept
  <2>2. Held' = Held
    BY <2>1, TableSame
  <2> QED  BY <1>1, <1>2, <2>1, <2>2, SameUnits DEF Promise!Accept
<1>4. CASE bp # NULL
  <2>1. /\ i \in Ids /\ blocks \in [Ids -> Nat] /\ block_sizes \in [Ids -> Sizes \cup {0}]
        /\ i \notin Live
        /\ blocks' = [blocks EXCEPT ![i] = bp] /\ block_sizes' = [block_sizes EXCEPT ![i] = size]
    BY <1>1, <1>4, Types DEF Accept, IInv, TypeOK, CallInv
  <2>2. /\ blocks'[i] = bp /\ block_sizes'[i] = size /\ i \in Live'
        /\ \A j \in Ids : j # i => blocks'[j] = blocks[j] /\ block_sizes'[j] = block_sizes[j]
    BY <1>4, <2>1 DEF Live
  <2>3. \A j \in Ids : j # i => Held'[j] = Held[j]
    <3>1. \A j \in Ids : j # i => (j \in Live <=> j \in Live')
      BY <2>2 DEF Live
    <3> HIDE DEF i, size
    <3> QED  BY <2>2, <3>1, HeldSame
  <2>4. Answer = [p |-> bp, data |-> [a \in Payload(bp, size) |-> mem[a]]]
    BY <1>1, <1>4 DEF Answer, HeldBy
  <2>5. Answer # Nobody
    BY <1>4, <2>4 DEF Nobody
  <2>6. Held'[i] = [p |-> bp, data |-> [a \in Payload(bp, size) |-> Pattern[i]]]
    <3>1. \A a \in Payload(bp, size) : mem'[a] = Pattern[i]
      BY <2>2 DEF IInv, ClientInv, ContentsIntact
    <3>2. [a \in Payload(bp, size) |-> mem'[a]] = [a \in Payload(bp, size) |-> Pattern[i]]
      BY <3>1
    <3>3. Held'[i] = [p |-> bp, data |-> [a \in Payload(bp, size) |-> mem'[a]]]
      BY <2>1, <2>2 DEF Held, HeldBy
    <3> QED  BY <3>2, <3>3
  <2>7. Held' = [Held EXCEPT ![i] = [p |-> bp, data |-> [a \in Payload(bp, size) |-> Pattern[i]]]]
    BY <2>3, <2>6 DEF Held
  <2>8. Answer.p = bp /\ DOMAIN Answer.data = Payload(bp, size)
    BY <2>4
  <2>9. Held' = IF Answer = Promise!None THEN Held
                ELSE [Held EXCEPT ![call.index] =
                        [p |-> Answer.p, data |-> [a \in DOMAIN Answer.data |-> Pattern[call.index]]]]
    BY <2>5, <2>7, <2>8, SameUnits
  <2> QED  BY <1>1, <1>2, <2>9, SameUnits DEF Promise!Accept
<1> QED  BY <1>3, <1>4

\* Every step of the allocator and its client is a step of Malloc, or shows
\* nothing of itself.
LEMMA PromiseNext == ASSUME IInv, IInv', [Next]_vars  PROVE [Promise!Next]_(Promise!vars)
<1>1. CASE Restart
  BY <1>1, PromiseRestart DEF Promise!Next
<1>2. CASE Accept
  BY <1>2, PromiseAccept DEF Promise!Next
<1>3. ASSUME NEW i \in Ids, MallocNothing(i)  PROVE Promise!Next
  <2>1. 0 \in Sizes
    BY <1>3 DEF MallocNothing
  <2> QED  BY <1>3, <2>1, PromiseNothing DEF Promise!Next
<1>4. ASSUME NEW i \in Ids, ReallocNothing(i)  PROVE Promise!Next
  <2>1. 0 \in Sizes
    BY <1>4 DEF ReallocNothing
  <2> QED  BY <1>4, <2>1, PromiseFree DEF Promise!Next
<1>5. ASSUME NEW i \in Ids, Free(i)  PROVE Promise!Next
  BY <1>5, PromiseFree DEF Promise!Next
<1>6. ASSUME NEW i \in Ids, NEW size \in Sizes, Malloc(i, size)  PROVE Promise!Next
  <2>1. i \notin Live /\ size # 0 /\ pc = "idle" /\ EnterMalloc("malloc", i, size)
    BY <1>6 DEF Malloc, Live
  <2>2. ~Promise!Holds(i) /\ Promise!Ask("malloc", i, size)
    BY <2>1, HeldAre, PromiseAsk
  <2> QED  BY <2>1, <2>2 DEF Promise!Next
<1>7. ASSUME NEW i \in Ids, NEW size \in Sizes, Realloc(i, size)  PROVE Promise!Next
  <2>1. i \in Live /\ size # 0 /\ pc = "idle" /\ EnterMalloc("realloc", i, size)
    BY <1>7 DEF Realloc, Live
  <2>2. Promise!Holds(i) /\ Promise!Ask("realloc", i, size)
    BY <2>1, HeldAre, PromiseAsk
  <2> QED  BY <2>1, <2>2 DEF Promise!Next
<1>8. CASE FindNext
  BY <1>8, PromiseSearch
<1>9. ASSUME pc = "find_fit", NEW m, NEW p, Return(m, p)  PROVE Promise!Next
  <2>1. CASE p = NULL
    BY <1>9, <2>1, PromiseRefuse DEF Promise!Next
  <2>2. CASE p # NULL
    BY <1>9, <2>2, PromiseGrant DEF Promise!Next
  <2> QED  BY <2>1, <2>2
<1>10. CASE FindHit
  BY <1>9, <1>10 DEF FindHit
<1>11. CASE FindMiss
  BY <1>9, <1>11 DEF FindMiss
<1>12. CASE UNCHANGED vars
  <2>1. Held' = Held
    BY <1>12, TableSame DEF vars
  <2> QED  BY <1>12, <2>1 DEF vars, Promise!vars, Phase, Answer, HeldBy, Nobody
<1> QED
  BY <1>1, <1>2, <1>3, <1>4, <1>5, <1>6, <1>7, <1>8, <1>10, <1>11, <1>12 DEF Next, Step, Client

\* mm.c on memlib.c is an allocator, for every heap, chunk and request size:
\* what its client sees of any behaviour is a behaviour of Malloc.
THEOREM PromiseKept == Spec => KeepsPromise
<1>1. Init => Promise!Init
  BY PromiseInit
<1>2. IInv /\ IInv' /\ [Next]_vars => [Promise!Next]_(Promise!vars)
  BY PromiseNext
<1> QED  BY <1>1, <1>2, Invariance, PTL DEF Spec, KeepsPromise, Promise!Spec
=============================================================================
