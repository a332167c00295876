--------------------------- MODULE ParallelRegion ---------------------------
(***************************************************************************)
(* What parallel_ranges promises, seen by the threads that call it         *)
(* (thread_pool.h:19-24): between the call and its return every item of    *)
(* [0, count) is handed to the callback exactly once, and at most one      *)
(* top-level region executes at a time.  Which thread executes a range, and*)
(* how ranges are cut, is not visible here.                                *)
(***************************************************************************)
EXTENDS Integers

CONSTANTS Callers,       \* application threads
          Counts         \* the region sizes they ask for

VARIABLES size,          \* size[c]: items of c's region, 0 when c has none
          done           \* done[c]: items of c's region already executed

vars == <<size, done>>

\* Types: a caller has at most one region, and a set of its items is done.
TypeOK == /\ size \in [Callers -> Counts \cup {0}]
          /\ done \in [Callers -> SUBSET Nat]

Init == /\ size = [c \in Callers |-> 0]
        /\ done = [c \in Callers |-> {}]

Items(c) == 0 .. (size[c] - 1)

\* A region starts only when no other one is executing.
Start(c, n) == /\ n > 0
               /\ \A d \in Callers : size[d] = 0
               /\ size' = [size EXCEPT ![c] = n]
               /\ UNCHANGED done

\* Some thread executes the items of r, none of which was executed before.
Execute(c, r) == /\ size[c] # 0
                 /\ r # {} /\ r \subseteq Items(c) \ done[c]
                 /\ done' = [done EXCEPT ![c] = @ \cup r]
                 /\ UNCHANGED size

\* The call returns: only now, and only with every item executed.
Return(c) == /\ size[c] # 0
             /\ done[c] = Items(c)
             /\ size' = [size EXCEPT ![c] = 0]
             /\ done' = [done EXCEPT ![c] = {}]

Next == \E c \in Callers :
          \/ \E n \in Counts : Start(c, n)
          \/ \E r \in SUBSET Items(c) : Execute(c, r)
          \/ Return(c)

Spec == Init /\ [][Next]_vars
=============================================================================
