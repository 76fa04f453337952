------------------------------ MODULE Interlock ------------------------------
(***************************************************************************)
(* What the safety interlock of fault.rs promises the threads that ask it, *)
(* with its maps and mutexes left out: an answer is taken at one instant   *)
(* between the question and the return, from the faults active then.       *)
(* Nothing is promised about what becomes of the faults afterwards.        *)
(***************************************************************************)
CONSTANTS
    Faults,     \* the kinds of fault
    Askers,     \* the threads that ask
    Ids,        \* packet ids
    Stops       \* Stops[f]: the packet ids fault f blocks

VARIABLES
    active,     \* the faults that are active
    phase,      \* phase[a]: "away", "asking", or "go" after a favourable answer
    packet      \* packet[a]: the id asked about

vars == <<active, phase, packet>>

Blocked(id) == \E f \in active : id \in Stops[f]

Init ==
    /\ active = {}
    /\ phase = [a \in Askers |-> "away"]
    /\ packet \in [Askers -> Ids]

\* One update raises some faults and clears some that were active.
Update ==
    /\ \E raised \in SUBSET Faults, cleared \in SUBSET active :
           active' = (active \cup raised) \ cleared
    /\ UNCHANGED <<phase, packet>>

\* A new packet, or once more about the same one.
Ask(a) ==
    /\ phase[a] # "asking"
    /\ phase' = [phase EXCEPT ![a] = "asking"]
    /\ \E id \in Ids :
           /\ phase[a] = "go" => id = packet[a]
           /\ packet' = [packet EXCEPT ![a] = id]
    /\ UNCHANGED active

Answer(a) ==
    /\ phase[a] = "asking"
    /\ phase' = [phase EXCEPT ![a] = IF Blocked(packet[a]) THEN "away" ELSE "go"]
    /\ UNCHANGED <<active, packet>>

\* What was allowed is done, however the faults stand by now.
Act(a) ==
    /\ phase[a] = "go"
    /\ phase' = [phase EXCEPT ![a] = "away"]
    /\ UNCHANGED <<active, packet>>

Next == Update \/ \E a \in Askers : Ask(a) \/ Answer(a) \/ Act(a)

Spec == Init /\ [][Next]_vars
=============================================================================
