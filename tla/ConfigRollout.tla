--------------------------- MODULE ConfigRollout ---------------------------
(***************************************************************************)
(* What hot reload promises, without its protocol: there is one published  *)
(* configuration, whose version only grows, and each service runs some     *)
(* version of it, moving forward in its own time and never beyond what is  *)
(* published.  Nothing says that services move together: the code gives    *)
(* no such guarantee between two reloads.                                  *)
(***************************************************************************)
EXTENDS Naturals

CONSTANT Services

VARIABLES
    published,  \* version of the shared configuration
    running     \* [Services -> version in use]

Init ==
    /\ published = 0
    /\ running = [s \in Services |-> 0]

Publish ==
    /\ published' \in Nat
    /\ published' >= published
    /\ UNCHANGED running

Adopt(s) ==
    /\ \E v \in running[s] .. published :
          running' = [running EXCEPT ![s] = v]
    /\ UNCHANGED published

Next == Publish \/ \E s \in Services : Adopt(s)

Spec == Init /\ [][Next]_<<published, running>>
=============================================================================
