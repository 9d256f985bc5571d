---------------------------------- MODULE LRU ----------------------------------
(***************************************************************************)
(* What a set-associative write-back cache with least-recently-used        *)
(* replacement promises, with no lines, stamps or clock: which tags each   *)
(* set holds, which of them were stored to since they came in, and in      *)
(* which order they were last used.                                        *)
(***************************************************************************)
EXTENDS Naturals, FiniteSets

CONSTANTS
  Sets,   \* the sets of the cache
  Tags,   \* the tags an access may carry
  Ways    \* tags a set holds at most

VARIABLES
  resident,   \* tags held, per set
  dirty,      \* those of them that memory does not have yet
  older,      \* <<a, b>>: a was used longer ago than b
  last,       \* the last access: its set, its tag and whether it was a store
  misses,     \* accesses whose tag was not held
  writebacks  \* evictions of a dirty tag

vars == <<resident, dirty, older, last, misses, writebacks>>

Init ==
  /\ resident = [s \in Sets |-> {}]
  /\ dirty = [s \in Sets |-> {}]
  /\ older = [s \in Sets |-> {}]
  /\ last = <<>>
  /\ misses = 0
  /\ writebacks = 0

\* The set s now holds held, t the last of them to be used.
Use(s, t, held) ==
  /\ resident' = [resident EXCEPT ![s] = held]
  /\ older' = [older EXCEPT ![s] =
       {p \in @ : p[1] \in held \ {t} /\ p[2] \in held \ {t}} \cup ((held \ {t}) \X {t})]

\* A store leaves t dirty; a load leaves it as it was, clean when it is new.
Mark(s, t, held, store) ==
  dirty' = [dirty EXCEPT ![s] = (@ \cap held) \cup (IF store THEN {t} ELSE {})]

Hit(s, t, store) ==
  /\ t \in resident[s]
  /\ Use(s, t, resident[s])
  /\ Mark(s, t, resident[s], store)
  /\ UNCHANGED <<misses, writebacks>>

Fill(s, t, store) ==
  /\ t \notin resident[s]
  /\ Cardinality(resident[s]) < Ways
  /\ Use(s, t, resident[s] \cup {t})
  /\ Mark(s, t, resident[s] \cup {t}, store)
  /\ misses' = misses + 1
  /\ UNCHANGED writebacks

\* The victim is the tag than which every other was used more recently.
Evict(s, t, victim, store) ==
  /\ t \notin resident[s]
  /\ Cardinality(resident[s]) = Ways
  /\ \A o \in resident[s] \ {victim} : <<victim, o>> \in older[s]
  /\ Use(s, t, (resident[s] \ {victim}) \cup {t})
  /\ Mark(s, t, resident[s] \ {victim}, store)
  /\ misses' = misses + 1
  /\ writebacks' = writebacks + (IF victim \in dirty[s] THEN 1 ELSE 0)

Next ==
  \E s \in Sets, t \in Tags, store \in BOOLEAN :
    /\ last' = <<s, t, store>>
    /\ \/ Hit(s, t, store)
       \/ Fill(s, t, store)
       \/ \E victim \in resident[s] : Evict(s, t, victim, store)

Spec == Init /\ [][Next]_vars
================================================================================
