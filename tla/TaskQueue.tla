------------------------------- MODULE TaskQueue -------------------------------
(***************************************************************************)
(* What the POST fallback promises about events: one that the server has   *)
(* published is carried out at most once in every life of the agent        *)
(* process, and the server drops it only after some life has carried it    *)
(* out. A restart forgets what the ended life has done.                    *)
(***************************************************************************)
CONSTANT Events

VARIABLES
    queued,   \* published and not dropped by the server
    dropped,  \* dropped by the server
    done,     \* how often this life of the agent carried out each event
    ever      \* carried out in any life

vars == <<queued, dropped, done, ever>>

Init == queued = {} /\ dropped = {} /\ done = [e \in Events |-> 0] /\ ever = {}

Publish ==
    \E e \in Events \ (queued \cup dropped) :
        /\ queued' = queued \cup {e}
        /\ UNCHANGED <<dropped, done, ever>>

CarryOut ==
    \E e \in queued \cup dropped :
        /\ done[e] = 0 /\ done' = [done EXCEPT ![e] = 1]
        /\ ever' = ever \cup {e}
        /\ UNCHANGED <<queued, dropped>>

Drop ==
    \E D \in SUBSET (queued \cap ever) :
        /\ queued' = queued \ D
        /\ dropped' = dropped \cup D
        /\ UNCHANGED <<done, ever>>

Restart == done' = [e \in Events |-> 0] /\ UNCHANGED <<queued, dropped, ever>>

Next == Publish \/ CarryOut \/ Drop \/ Restart

Spec == Init /\ [][Next]_vars
=============================================================================
