------------------------------ MODULE DAGTable ------------------------------
(***************************************************************************)
(* What the DAG caches of a process promise together, without maps,        *)
(* allocators or backends: the first user to want the DAG of an epoch      *)
(* makes it, and everybody else gets that one.  It is taken away from      *)
(* nobody before the process is closed, and then all are, once.            *)
(***************************************************************************)
EXTENDS Naturals

CONSTANTS
    User,
    Epoch,
    Content         \* what the DAG of each epoch consists of

VARIABLES
    made,           \* how many DAGs there have been
    memory,         \* the DAGs in memory
    wanted,         \* the epoch each user is concerned with
    held,           \* the DAG each user works with, if any
    phase           \* "up", "closing" or "ended"

tableVars == <<made, memory, wanted, held, phase>>

TableInit ==
    /\ made = 0 /\ memory = {}
    /\ wanted \in [User -> Epoch]
    /\ held = [u \in User |-> {}]
    /\ phase = "up"

\* A user begins with a DAG, or without one after it has finished with its last.
Idle(u) == phase # "ended" /\ held[u] = {}
Holds(u, d) == held' = [held EXCEPT ![u] = {d}]

Turn(u) ==
    /\ Idle(u)
    /\ \E e \in Epoch : wanted' = [wanted EXCEPT ![u] = e]
    /\ UNCHANGED <<made, memory, held, phase>>

Find(u) ==
    /\ Idle(u)
    /\ \E d \in memory : d.epoch = wanted[u] /\ Holds(u, d)
    /\ UNCHANGED <<made, memory, wanted, phase>>

Make(u) ==
    /\ Idle(u)
    /\ \A d \in memory : d.epoch # wanted[u]
    /\ made' = made + 1
    /\ LET d == [id |-> made', epoch |-> wanted[u], nodes |-> Content[wanted[u]]]
       IN  memory' = memory \cup {d} /\ Holds(u, d)
    /\ UNCHANGED <<wanted, phase>>

\* A user has read its DAG to the end.  That it is still there is promised until
\* the process is closed; reading it afterwards ends the process.
Finish(u) ==
    /\ phase # "ended" /\ held[u] # {}
    /\ phase = "up" => held[u] \subseteq memory
    /\ held' = [held EXCEPT ![u] = {}]
    /\ phase' \in {phase, "ended"}
    /\ held[u] \subseteq memory \/ phase' = "ended"
    /\ UNCHANGED <<made, memory, wanted>>

\* Some users are told to give up what they hold, the others are not.
Close ==
    /\ phase = "up" /\ phase' = "closing"
    /\ memory' = {}
    /\ \E S \in SUBSET User : held' = [u \in User |-> IF u \in S THEN {} ELSE held[u]]
    /\ UNCHANGED <<made, wanted>>

End ==
    /\ phase # "ended" /\ phase' = "ended"
    /\ UNCHANGED <<made, memory, wanted, held>>

TableNext ==
    \/ \E u \in User : Turn(u) \/ Find(u) \/ Make(u) \/ Finish(u)
    \/ Close
    \/ End

TableSpec == TableInit /\ [][TableNext]_tableVars
=============================================================================
