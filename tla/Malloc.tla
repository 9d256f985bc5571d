--------------------------------- MODULE Malloc --------------------------------
(***************************************************************************)
(* What a heap allocator promises a client with one slot per block, in     *)
(* terms of payloads only: no tags, no list, no break.  mm.c's promise to  *)
(* the driver that tests it.                                               *)
(***************************************************************************)
EXTENDS Words

CONSTANTS Ids,      \* the client's slots
          Sizes,    \* what it asks for, in bytes
          Arena,    \* the addresses payloads may occupy
          Pattern   \* the word it fills slot i's payload with

VARIABLES held,     \* slot -> [p, data]: pointer and contents of its payload
          phase,    \* "idle", "busy" in a call, or "returned" with an answer
          asked,    \* [op, index, size] of the call, when not idle
          answer    \* the region a finished call returned

vars == <<held, phase, asked, answer>>

\* No block: what an empty slot holds and what a call that fails answers.
None == [p |-> NULL, data |-> <<>>]
Holds(i) == held[i].p # NULL

Init == /\ held = [i \in Ids |-> None]
        /\ phase = "idle"
        /\ asked = [op |-> "none"]
        /\ answer = None

Ask(op, i, size) ==
  /\ phase = "idle" /\ phase' = "busy"
  /\ asked' = [op |-> op, index |-> i, size |-> size]
  /\ UNCHANGED <<held, answer>>

\* A resize to nothing frees; a request for nothing gets nothing.
Nothing(op, i) ==
  /\ phase = "idle" /\ phase' = "returned"
  /\ asked' = [op |-> op, index |-> i, size |-> 0]
  /\ held' = [held EXCEPT ![i] = None]
  /\ UNCHANGED answer

\* Any call may fail, and then changes nothing.
Refuse ==
  /\ phase = "busy" /\ phase' = "returned"
  /\ UNCHANGED <<held, asked, answer>>

\* The region answer' is aligned, inside the arena, and disjoint from what the
\* other slots hold.
Usable ==
  /\ answer'.p % 2 = 0 /\ answer'.p # NULL
  /\ DOMAIN answer'.data = Payload(answer'.p, asked.size)
  /\ DOMAIN answer'.data \subseteq Arena
  /\ \A j \in Ids \ {asked.index} :
       Holds(j) => DOMAIN answer'.data \cap DOMAIN held[j].data = {}

\* As much of the old payload as the new one has room for.
KeepsOld ==
  LET old == held[asked.index]
  IN  \A a \in DOMAIN old.data :
        a - old.p + answer'.p \in DOMAIN answer'.data =>
          answer'.data[a - old.p + answer'.p] = old.data[a]

Grant ==
  /\ phase = "busy" /\ phase' = "returned"
  /\ Usable
  /\ asked.op = "realloc" => KeepsOld
  /\ held' = [held EXCEPT ![asked.index] = None]
  /\ UNCHANGED asked

\* The client fills what it got.
Accept ==
  /\ phase = "returned" /\ phase' = "idle"
  /\ held' = IF answer = None THEN held
             ELSE [held EXCEPT ![asked.index] =
                     [p |-> answer.p,
                      data |-> [a \in DOMAIN answer.data |-> Pattern[asked.index]]]]
  /\ asked' = [op |-> "none"]
  /\ answer' = None

Free(i) ==
  /\ phase = "idle" /\ Holds(i)
  /\ held' = [held EXCEPT ![i] = None]
  /\ UNCHANGED <<phase, asked, answer>>

\* The arena is taken back as a whole.
Reset ==
  /\ phase = "idle"
  /\ held' = [i \in Ids |-> None]
  /\ UNCHANGED <<phase, asked, answer>>

Next ==
  \/ Refuse \/ Grant \/ Accept \/ Reset
  \/ \E i \in Ids : Free(i)
  \/ \E i \in Ids, size \in Sizes \ {0} :
       \/ ~Holds(i) /\ Ask("malloc", i, size)
       \/ Holds(i) /\ Ask("realloc", i, size)
  \/ \E i \in Ids :
       0 \in Sizes /\ (IF Holds(i) THEN Nothing("realloc", i) ELSE Nothing("malloc", i))

Spec == Init /\ [][Next]_vars
=============================================================================
