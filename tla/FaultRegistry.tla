---------------------------- MODULE FaultRegistry ----------------------------
(***************************************************************************)
(* The registry of active faults and the interlock: src/fault.rs, with the *)
(* two threads that raise and expire faults and the two that ask whether a *)
(* packet or a command may go, then do what was allowed.                   *)
(*                                                                         *)
(* ACTIVE_FAULTS, FAULT_TIMESTAMPS and FAULT_SEVERITY have a mutex each,   *)
(* but the first one is always taken first and released last, so it alone  *)
(* decides who is inside; Mutexes is about the others.                     *)
(***************************************************************************)
EXTENDS Integers

CONSTANTS
    FaultKinds,     \* the faults handle_faults may raise
    PacketIds       \* the ids the interlock is asked about

FaultPeriod == [TEMP_HIGH |-> 5, BATTERY_LOW |-> 4, SIGNAL_LOSS |-> 2]
Severity == [TEMP_HIGH |-> "WARNING", BATTERY_LOW |-> "WARNING", SIGNAL_LOSS |-> "CRITICAL"]

ASSUME KindsAssumption == FaultKinds \subseteq DOMAIN FaultPeriod
ASSUME IdsAssumption == PacketIds # {} /\ PacketIds \subseteq Nat

Raisers == {"main", "injector"}          \* call handle_faults
Checkers == {"manager", "telemetry"}     \* call is_command_safe and handle_fault
Threads == Raisers \cup Checkers
Nobody == "nobody"

VARIABLES
    faults,     \* ACTIVE_FAULTS
    stamps,     \* FAULT_TIMESTAMPS, as ages: 0, 1 over 2 s, 2 over 15 s
    severities, \* FAULT_SEVERITY
    holder,     \* who holds ACTIVE_FAULTS' mutex
    pc,
    pending,    \* faults handle_faults has inserted but not stamped yet
    packet,     \* packet[c]: the id checker c is busy with
    rechecking, \* telemetry is inside trigger_command_scheduler or past it
    commanded,  \* telemetry's packet has been pushed on COMMAND_QUEUE
    todo,       \* todo[c]: the faults handle_fault has still to look at
    since       \* history: since[c], the faults raised since c's last answer

maps == <<faults, stamps, severities>>
checkVars == <<packet, rechecking, commanded, todo>>
vars == <<maps, holder, pc, pending, checkVars, since>>

fault_blocks_packet(f, id) == id % FaultPeriod[f] = 0

\* What makes id unsafe; a fault without a timestamp would not.
Unsafe(id) == {f \in faults : fault_blocks_packet(f, id) /\ f \in DOMAIN stamps}

\* Where an allowed packet is between the answer and its use.
Permitted == {"send", "dispatch", "command"}

TypeOK ==
    /\ faults \subseteq FaultKinds
    /\ DOMAIN stamps \subseteq FaultKinds /\ \A f \in DOMAIN stamps : stamps[f] \in 0 .. 2
    /\ DOMAIN severities \subseteq FaultKinds
    /\ \A f \in DOMAIN severities : severities[f] = Severity[f]
    /\ holder \in Threads \cup {Nobody}
    /\ \A t \in Raisers : pc[t] \in {"away", "stamp", "expire", "over"}
    /\ \A c \in Checkers :
           pc[c] \in {"away", "check", "handle_fault", "look", "recover"} \cup Permitted
    /\ pending \subseteq faults
    /\ packet \in [Checkers -> PacketIds]
    /\ rechecking \in BOOLEAN /\ commanded \in BOOLEAN
    /\ todo \in [Checkers -> SUBSET FaultKinds]
    /\ since \in [Checkers -> SUBSET FaultKinds]

Init ==
    /\ faults = {} /\ stamps = << >> /\ severities = << >>
    /\ holder = Nobody
    /\ pc = [t \in Threads |-> "away"]
    /\ pending = {}
    /\ packet \in [Checkers -> PacketIds]
    /\ rechecking = FALSE /\ commanded = FALSE
    /\ todo = [c \in Checkers |-> {}]
    /\ since = [c \in Checkers |-> {}]

Goto(t, place) == pc' = [pc EXCEPT ![t] = place]

-----------------------------------------------------------------------------
(* handle_faults, called by main's loop and by the injector.                *)

\* Mutant: an active fault that is rolled again starts its 15 s afresh.
Inserted_Again(rolled) == rolled

\* Mutant: the time is stamped outside the test of the dice.
Inserted_Unrolled(rolled) == FaultKinds \ faults

\* HashSet::insert is true only of what was not there.
Inserted(rolled) == rolled \ faults

Raise(t) ==
    /\ pc[t] = "away"
    /\ holder = Nobody
    /\ holder' = t
    /\ \E rolled \in SUBSET FaultKinds :
           /\ faults' = faults \cup rolled
           /\ pending' = Inserted(rolled)
           /\ since' = [c \in Checkers |-> since[c] \cup (rolled \ faults)]
    /\ Goto(t, "stamp")
    /\ UNCHANGED <<stamps, severities, checkVars>>

With(map, keys, values) ==
    [f \in DOMAIN map \cup keys |-> IF f \in keys THEN values[f] ELSE map[f]]

Stamp(t) ==
    /\ pc[t] = "stamp"
    /\ stamps' = With(stamps, pending, [f \in FaultKinds |-> 0])
    /\ severities' = With(severities, pending, Severity)
    /\ pending' = {}
    /\ Goto(t, "expire")
    /\ UNCHANGED <<faults, holder, checkVars, since>>

Expired == {f \in DOMAIN stamps : stamps[f] = 2}

\* Mutant: an expired fault keeps its severity.
WithoutSeverity_Kept(keys) == severities

WithoutSeverity(keys) == [f \in DOMAIN severities \ keys |-> severities[f]]

\* Mutant: an active fault loses its timestamp as soon as it is old.
WithoutStamp_Early(keys) == [f \in {g \in DOMAIN stamps : stamps[g] = 0} |-> stamps[f]]

WithoutStamp(keys) == [f \in DOMAIN stamps \ keys |-> stamps[f]]

Expire(t) ==
    /\ pc[t] = "expire"
    /\ faults' = faults \ Expired
    /\ stamps' = WithoutStamp(Expired)
    /\ severities' = WithoutSeverity(Expired)
    /\ holder' = Nobody
    /\ Goto(t, "away")
    /\ UNCHANGED <<pending, checkVars, since>>

\* The mission is over: main returns, which ends the process.
MainReturns ==
    /\ pc["main"] = "away"
    /\ Goto("main", "over")
    /\ UNCHANGED <<maps, holder, pending, checkVars, since>>

-----------------------------------------------------------------------------
(* The manager and telemetry: is_command_safe, what it allows or forbids,   *)
(* and handle_fault.                                                        *)

Receive(c) ==
    /\ pc[c] = "away"
    /\ \E id \in PacketIds : packet' = [packet EXCEPT ![c] = id]
    /\ Goto(c, "check")
    /\ UNCHANGED <<maps, holder, pending, rechecking, commanded, todo, since>>

\* Where a favourable answer leads: the manager's only one, telemetry's first
\* one, and its second one inside trigger_command_scheduler.
Allowed(c) == IF c = "manager" THEN "send" ELSE IF rechecking THEN "command" ELSE "dispatch"

\* Mutant: the set of faults is read without its mutex.
MayLook_Always == TRUE

MayLook == holder = Nobody

is_command_safe(c) ==
    /\ pc[c] = "check"
    /\ MayLook
    /\ Goto(c, IF Unsafe(packet[c]) = {} THEN Allowed(c) ELSE "handle_fault")
    /\ since' = [since EXCEPT ![c] = {}]
    /\ UNCHANGED <<maps, holder, pending, checkVars>>

\* The frame leaves, whatever was raised since the answer.
MgrSend ==
    /\ pc["manager"] = "send"
    /\ Goto("manager", "away")
    /\ since' = [since EXCEPT !["manager"] = {}]
    /\ UNCHANGED <<maps, holder, pending, checkVars>>

\* trigger_command_scheduler asks once more.
TelDispatch ==
    /\ pc["telemetry"] = "dispatch"
    /\ rechecking' = TRUE
    /\ Goto("telemetry", "check")
    /\ UNCHANGED <<maps, holder, pending, packet, commanded, todo, since>>

TelCommand ==
    /\ pc["telemetry"] = "command"
    /\ commanded' = TRUE
    /\ Goto("telemetry", "handle_fault")
    /\ since' = [since EXCEPT !["telemetry"] = {}]
    /\ UNCHANGED <<maps, holder, pending, packet, rechecking, todo>>

(* handle_fault looks at each active fault with the mutexes held; one older *)
(* than 2 s costs a sleep of 50 ms there.                                   *)
Survey(c) ==
    /\ pc[c] = "handle_fault"
    /\ holder = Nobody
    /\ holder' = c
    /\ todo' = [todo EXCEPT ![c] = faults]
    /\ Goto(c, "look")
    /\ UNCHANGED <<maps, pending, packet, rechecking, commanded, since>>

\* Mutant: the same fault is looked at for ever.
Others_All(c, f) == todo[c]

Others(c, f) == todo[c] \ {f}

Look(c) ==
    /\ pc[c] = "look"
    /\ \E f \in todo[c] :
           /\ todo' = [todo EXCEPT ![c] = Others(c, f)]
           /\ Goto(c, IF f \in DOMAIN stamps /\ stamps[f] > 0 THEN "recover" ELSE "look")
    /\ UNCHANGED <<maps, holder, pending, packet, rechecking, commanded, since>>

\* The fault stays active: the recovery is only simulated.
Recovered(c) ==
    /\ pc[c] = "recover"
    /\ Goto(c, "look")
    /\ UNCHANGED <<maps, holder, pending, checkVars, since>>

LookedAtAll(c) ==
    /\ pc[c] = "look"
    /\ todo[c] = {}
    /\ holder' = Nobody
    /\ Goto(c, "away")
    /\ rechecking' = (rechecking /\ c # "telemetry")
    /\ commanded' = (commanded /\ c # "telemetry")
    /\ UNCHANGED <<maps, pending, packet, todo, since>>

\* Time: a fault passes the 2 s of handle_fault or the 15 s of handle_faults.
Age(f) ==
    /\ f \in DOMAIN stamps
    /\ stamps[f] < 2
    /\ stamps' = [stamps EXCEPT ![f] = @ + 1]
    /\ UNCHANGED <<faults, severities, holder, pc, pending, checkVars, since>>

-----------------------------------------------------------------------------
Alive == pc["main"] # "over"

\* A checker with a packet in its hands.
Work(c) ==
    \/ is_command_safe(c) \/ Survey(c) \/ Look(c) \/ Recovered(c) \/ LookedAtAll(c)
    \/ c = "manager" /\ MgrSend
    \/ c = "telemetry" /\ (TelDispatch \/ TelCommand)

Update(t) == Raise(t) \/ Stamp(t) \/ Expire(t)

Next ==
    /\ Alive
    /\ \/ \E t \in Raisers : Update(t)
       \/ \E c \in Checkers : Receive(c) \/ Work(c)
       \/ MainReturns
       \/ \E f \in FaultKinds : Age(f)

Spec == Init /\ [][Next]_vars

(* Fairness, until main returns and the process ends.  Nothing makes a      *)
(* packet come, but a thread at work goes on.  It may find the mutex taken  *)
(* again and again; it gets it in the end (SF), since main sleeps 500 ms    *)
(* and the injector longer between two uses, and the checkers block on      *)
(* channels.  handle_faults is called for ever by main; time passes.        *)
Fairness ==
    /\ SF_vars(Alive /\ Update("main"))
    /\ WF_vars(Alive /\ (Stamp("injector") \/ Expire("injector")))
    /\ \A c \in Checkers : SF_vars(Alive /\ Work(c))
    /\ \A f \in FaultKinds : WF_vars(Alive /\ Age(f))

FairSpec == Spec /\ Fairness

-----------------------------------------------------------------------------
(* Safety.                                                                  *)

\* Whenever the registry can be locked, the three maps have the same keys: an
\* active fault without a timestamp would not block anything (fault.rs:98),
\* and one without a severity is reported as UNKNOWN (fault.rs:169).
SameKeys ==
    holder = Nobody => /\ DOMAIN stamps = faults
                       /\ DOMAIN severities = faults

\* An answer of the interlock holds until it is used but for faults raised
\* since: no fault that was active then is missed, and none comes back.
StaleOnlyByRaise ==
    \A c \in Checkers :
        pc[c] \in Permitted =>
            {f \in faults : fault_blocks_packet(f, packet[c])} \subseteq since[c]

\* The interlock as its callers see it.
Phase(c) == IF pc[c] = "check" THEN "asking"
            ELSE IF pc[c] \in Permitted THEN "go" ELSE "away"

Abstract == INSTANCE Interlock WITH
    Faults <- FaultKinds,
    Askers <- Checkers,
    Ids <- PacketIds,
    Stops <- [f \in FaultKinds |-> {id \in PacketIds : fault_blocks_packet(f, id)}],
    active <- faults \ pending,
    phase <- [c \in Checkers |-> Phase(c)]

\* Every answer is the one a single instant between the call and the return
\* would have given, though the registry is changed fault by fault, map by map.
ImplementsInterlock == Abstract!Spec

-----------------------------------------------------------------------------
(* Liveness.                                                                *)

\* The manager and telemetry always get an answer, whoever sleeps in
\* handle_fault meanwhile.
CheckAnswered ==
    \A c \in Checkers : (pc[c] = "check") ~> (pc[c] # "check" \/ ~Alive)

\* Every fault is cleared in the end, also one that is rolled at every turn.
FaultsClear == \A f \in FaultKinds : (f \in faults) ~> (f \notin faults \/ ~Alive)
=============================================================================
