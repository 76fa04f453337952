------------------------------- MODULE Mutexes -------------------------------
(***************************************************************************)
(* The order in which the program's threads take the mutexes they nest:    *)
(* the three of the fault registry, the monitor's, the telemetry backlog's *)
(* and the downlink ring's.  A thread is in a call, which takes its        *)
(* mutexes in the order LockOrder gives and releases them all when it      *)
(* returns; some calls, with all their mutexes held, call a function that  *)
(* takes the monitor's.  What the calls do with the data is left out, and  *)
(* the order of a thread's calls, between which it holds nothing.          *)
(***************************************************************************)
EXTENDS Integers, SequencesExt

Locks == {"ACTIVE_FAULTS", "FAULT_TIMESTAMPS", "FAULT_SEVERITY",
          "MONITOR_DATA", "telemetry_backlog", "DOWNLINK_BUFFER"}
Nobody == "nobody"

handle_faults == <<"ACTIVE_FAULTS", "FAULT_TIMESTAMPS", "FAULT_SEVERITY">>

\* Mutant: the timestamps are locked first.
is_command_safe_Swapped == <<"FAULT_TIMESTAMPS", "ACTIVE_FAULTS">>

is_command_safe == <<"ACTIVE_FAULTS", "FAULT_TIMESTAMPS">>

handle_fault == <<"ACTIVE_FAULTS", "FAULT_TIMESTAMPS", "FAULT_SEVERITY">>

\* The check of the backlog's length has the monitor locked.
periodic_monitoring == <<"MONITOR_DATA", "telemetry_backlog">>

\* Mutant: main bumps packets_processed before it lets go of the backlog.
push_backlog_Nested == <<"telemetry_backlog", "MONITOR_DATA">>

push_backlog == <<"telemetry_backlog">>

\* The record_* functions, the bump of packets_processed and the reports.
record == <<"MONITOR_DATA">>

ring == <<"DOWNLINK_BUFFER">>

LockOrder ==
    [handle_faults |-> handle_faults, is_command_safe |-> is_command_safe,
     handle_fault |-> handle_fault, periodic_monitoring |-> periodic_monitoring,
     push_backlog |-> push_backlog, record |-> record, ring |-> ring]

\* The calls that call, with their mutexes held, a function that takes the
\* monitor's: log_fault_recovery and record_buffer_drop.
Nesting == {"handle_fault", "ring"}

Calls ==
    [main |-> {"push_backlog", "record", "handle_faults"},
     injector |-> {"handle_faults"},
     manager |-> {"is_command_safe", "handle_fault", "record"},
     telemetry |-> {"is_command_safe", "handle_fault", "record"},
     periodic |-> {"periodic_monitoring"},
     task |-> {"ring", "record"}]

Threads == DOMAIN Calls
Idle == "idle"

VARIABLES
    owner,      \* owner[l]: the thread that holds mutex l
    call,       \* the call a thread is in
    got,        \* how many of the call's mutexes it has taken
    nested      \* is it in the nested function?

vars == <<owner, call, got, nested>>

TypeOK ==
    /\ owner \in [Locks -> Threads \cup {Nobody}]
    /\ \A t \in Threads : call[t] \in Calls[t] \cup {Idle}
    /\ \A t \in Threads : got[t] \in 0 .. (IF call[t] = Idle THEN 0 ELSE Len(LockOrder[call[t]]))
    /\ \A t \in Threads : nested[t] \in BOOLEAN
    /\ \A t \in Threads : \A i \in 1 .. got[t] : owner[LockOrder[call[t]][i]] = t

Init ==
    /\ owner = [l \in Locks |-> Nobody]
    /\ call = [t \in Threads |-> Idle]
    /\ got = [t \in Threads |-> 0]
    /\ nested = [t \in Threads |-> FALSE]

-----------------------------------------------------------------------------
InCall(t) == call[t] # Idle
HasAll(t) == InCall(t) /\ got[t] = Len(LockOrder[call[t]])

\* A thread blocks for the next mutex of its call, or the nested function's.
Waits(t) == InCall(t) /\ (HasAll(t) => nested[t] /\ owner["MONITOR_DATA"] # t)
Wanted(t) == IF nested[t] THEN "MONITOR_DATA" ELSE LockOrder[call[t]][got[t] + 1]

Begin(t, c) ==
    /\ call[t] = Idle
    /\ call' = [call EXCEPT ![t] = c]
    /\ UNCHANGED <<owner, got, nested>>

Take(t) ==
    /\ Waits(t)
    /\ owner[Wanted(t)] = Nobody
    /\ owner' = [owner EXCEPT ![Wanted(t)] = t]
    /\ got' = IF nested[t] THEN got ELSE [got EXCEPT ![t] = @ + 1]
    /\ UNCHANGED <<call, nested>>

\* handle_fault does this once per old fault, the ring when it is full.
Nest(t) ==
    /\ HasAll(t) /\ ~nested[t]
    /\ call[t] \in Nesting
    /\ nested' = [nested EXCEPT ![t] = TRUE]
    /\ UNCHANGED <<owner, call, got>>

Unnest(t) ==
    /\ nested[t] /\ ~Waits(t)
    /\ owner' = [owner EXCEPT !["MONITOR_DATA"] = Nobody]
    /\ nested' = [nested EXCEPT ![t] = FALSE]
    /\ UNCHANGED <<call, got>>

Return(t) ==
    /\ HasAll(t) /\ ~nested[t]
    /\ owner' = [l \in Locks |-> IF l \in ToSet(LockOrder[call[t]]) THEN Nobody ELSE owner[l]]
    /\ call' = [call EXCEPT ![t] = Idle]
    /\ got' = [got EXCEPT ![t] = 0]
    /\ UNCHANGED nested

Next ==
    \E t \in Threads :
        \/ \E c \in Calls[t] : Begin(t, c)
        \/ Take(t) \/ Nest(t) \/ Unnest(t) \/ Return(t)

Spec == Init /\ [][Next]_vars

-----------------------------------------------------------------------------
\* No set of threads waits in a circle for mutexes its own members hold, the
\* monitor's that handle_fault takes after its sleep under three mutexes
\* (fault.rs:200) and the ring's included.
NoDeadlock ==
    \A W \in (SUBSET Threads) \ {{}} :
        \E t \in W : ~(Waits(t) /\ owner[Wanted(t)] \in W)
=============================================================================
