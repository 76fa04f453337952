---------------------------- MODULE MutexesProofs ----------------------------
(* No deadlock among the nested mutexes: every call takes them in an order   *)
(* that one ranking of all six explains.                                     *)
EXTENDS Mutexes, TLAPS

Rank ==
    [ACTIVE_FAULTS |-> 1, FAULT_TIMESTAMPS |-> 2, FAULT_SEVERITY |-> 3,
     DOWNLINK_BUFFER |-> 4, MONITOR_DATA |-> 5, telemetry_backlog |-> 6]

AllCalls == DOMAIN LockOrder

\* A call's mutexes are distinct and taken by increasing rank, and a nested
\* monitor's outranks them all.
LEMMA Ranked ==
  /\ Rank \in [Locks -> 1 .. 6]
  /\ \A c \in AllCalls :
        /\ Len(LockOrder[c]) \in Nat
        /\ \A i \in 1 .. Len(LockOrder[c]) : LockOrder[c][i] \in Locks
        /\ \A i, j \in 1 .. Len(LockOrder[c]) :
              i < j => Rank[LockOrder[c][i]] < Rank[LockOrder[c][j]]
        /\ c \in Nesting =>
              \A i \in 1 .. Len(LockOrder[c]) : Rank[LockOrder[c][i]] < Rank["MONITOR_DATA"]
<1>1. Rank \in [Locks -> 1 .. 6]
  BY DEF Rank, Locks
<1>2. AllCalls = {"handle_faults", "is_command_safe", "handle_fault", "periodic_monitoring",
                  "push_backlog", "record", "ring"}
  BY DEF AllCalls, LockOrder
<1> DEFINE Fine(c, s) ==
        /\ Len(s) \in Nat
        /\ \A i \in 1 .. Len(s) : s[i] \in Locks
        /\ \A i, j \in 1 .. Len(s) : i < j => Rank[s[i]] < Rank[s[j]]
        /\ c \in Nesting => \A i \in 1 .. Len(s) : Rank[s[i]] < Rank["MONITOR_DATA"]
<1>3. Fine("handle_faults", handle_faults) /\ Fine("handle_fault", handle_fault)
  BY DEF handle_faults, handle_fault, Locks, Rank, Nesting
<1>4. Fine("is_command_safe", is_command_safe)
  BY DEF is_command_safe, Locks, Rank, Nesting
<1>5. Fine("periodic_monitoring", periodic_monitoring)
  BY DEF periodic_monitoring, Locks, Rank, Nesting
<1>6. /\ Fine("push_backlog", push_backlog)
      /\ Fine("record", record)
      /\ Fine("ring", ring)
  BY DEF push_backlog, record, ring, Locks, Rank, Nesting
<1>7. /\ LockOrder["handle_faults"] = handle_faults
      /\ LockOrder["is_command_safe"] = is_command_safe
      /\ LockOrder["handle_fault"] = handle_fault
      /\ LockOrder["periodic_monitoring"] = periodic_monitoring
      /\ LockOrder["push_backlog"] = push_backlog
      /\ LockOrder["record"] = record
      /\ LockOrder["ring"] = ring
  BY DEF LockOrder
<1>8. \A c \in AllCalls : Fine(c, LockOrder[c])
  <2> HIDE DEF Fine
  <2> QED
    BY <1>2, <1>3, <1>4, <1>5, <1>6, <1>7
<1> QED
  BY <1>1, <1>8

\* Threads make calls of the program only, and Nobody is none of them.
LEMMA CallsOfThreads ==
  /\ Threads = {"main", "injector", "manager", "telemetry", "periodic", "task"}
  /\ \A t \in Threads : Calls[t] \subseteq AllCalls
  /\ Nobody \notin Threads /\ Idle \notin AllCalls
  /\ Nesting \subseteq AllCalls /\ "MONITOR_DATA" \in Locks
  BY DEF Threads, Calls, AllCalls, LockOrder, Nobody, Idle, Nesting, Locks

-----------------------------------------------------------------------------
\* The variables as functions.
Shape ==
    /\ owner \in [Locks -> Threads \cup {Nobody}]
    /\ call \in [Threads -> AllCalls \cup {Idle}]
    /\ got \in [Threads -> Nat]
    /\ nested \in [Threads -> BOOLEAN]

Progress(t) ==
    /\ call[t] \in Calls[t] \cup {Idle}
    /\ call[t] = Idle => got[t] = 0
    /\ call[t] # Idle => got[t] <= Len(LockOrder[call[t]])
    /\ nested[t] => call[t] \in Nesting /\ got[t] = Len(LockOrder[call[t]])

\* The mutexes a thread is past in its call.
Taken(t) == {LockOrder[call[t]][i] : i \in 1 .. got[t]}

\* A thread owns what its call has taken so far and, inside the nested function,
\* perhaps the monitor's; nothing else.
Owns(t) ==
    /\ \A l \in Taken(t) : owner[l] = t
    /\ \A l \in Locks : owner[l] = t => l \in Taken(t) \/ (l = "MONITOR_DATA" /\ nested[t])

IInv == Shape /\ \A t \in Threads : Progress(t) /\ Owns(t)

\* At the start nobody owns anything.
LEMMA InitIInv == Init => IInv
  BY CallsOfThreads DEF Init, IInv, Shape, Progress, Owns, Taken

\* A step of one thread that neither takes nor gives what others own leaves what
\* they own as it was.
LEMMA OthersKeep ==
  ASSUME IInv, NEW t \in Threads,
         call' \in [Threads -> AllCalls \cup {Idle}], got' \in [Threads -> Nat],
         nested' \in [Threads -> BOOLEAN], owner' \in [Locks -> Threads \cup {Nobody}],
         \A u \in Threads \ {t} : call'[u] = call[u] /\ got'[u] = got[u] /\ nested'[u] = nested[u],
         \A l \in Locks : owner'[l] # owner[l] =>
             owner[l] \in {t, Nobody} /\ owner'[l] \in {t, Nobody},
         Progress(t)', Owns(t)'
  PROVE  IInv'
<1>1. ASSUME NEW u \in Threads, u # t PROVE Progress(u)' /\ Owns(u)'
  <2>1. call'[u] = call[u] /\ got'[u] = got[u] /\ nested'[u] = nested[u]
    BY <1>1
  <2>2. Progress(u)' /\ Taken(u)' = Taken(u)
    BY <2>1 DEF IInv, Progress, Taken
  <2>3. \A l \in Locks : owner'[l] = u <=> owner[l] = u
    BY <1>1, CallsOfThreads
  <2>4. Taken(u) \subseteq Locks
    <3>1. Shape /\ Progress(u)
      BY DEF IInv
    <3>2. CASE call[u] = Idle
      BY <3>1, <3>2 DEF Progress, Taken
    <3>3. CASE call[u] \in AllCalls
      <4>1. \A i \in 1 .. got[u] : i \in 1 .. Len(LockOrder[call[u]])
        BY <3>1, <3>3, Ranked, CallsOfThreads DEF Progress, Shape
      <4> QED
        BY <3>3, <4>1, Ranked DEF Taken
    <3> QED
      BY <3>1, <3>2, <3>3 DEF Shape
  <2> QED
    BY <2>1, <2>2, <2>3, <2>4 DEF IInv, Owns
<1> QED
  BY <1>1 DEF IInv, Shape

\* Taking the next mutex of a call, or the monitor's in a nested one,
LEMMA TakeStep ==
  ASSUME IInv, NEW t \in Threads, Take(t)
  PROVE  IInv'
<1> USE CallsOfThreads, Ranked
<1>0. Shape /\ Progress(t) /\ Owns(t) /\ call[t] \in AllCalls
  BY DEF IInv, Take, Waits, InCall, Shape
<1>1. CASE nested[t]
  <2>1. /\ owner["MONITOR_DATA"] = Nobody /\ owner' = [owner EXCEPT !["MONITOR_DATA"] = t]
        /\ UNCHANGED <<call, got, nested>>
    BY <1>1 DEF Take, Wanted
  <2>2. Progress(t)' /\ Taken(t)' = Taken(t)
    BY <1>0, <2>1 DEF Progress, Taken
  <2>3. "MONITOR_DATA" \notin Taken(t)
    BY <1>0, <2>1 DEF Owns
  <2>4. Owns(t)'
    BY <1>0, <1>1, <2>1, <2>2, <2>3 DEF Owns, Shape, Taken
  <2> QED
    BY <1>0, <2>1, <2>2, <2>4, OthersKeep DEF Shape
<1>2. CASE ~nested[t]
  <2> DEFINE l == LockOrder[call[t]][got[t] + 1]
  <2>1. /\ owner[l] = Nobody /\ owner' = [owner EXCEPT ![l] = t]
        /\ got' = [got EXCEPT ![t] = @ + 1]
        /\ got[t] # Len(LockOrder[call[t]])
        /\ UNCHANGED <<call, nested>>
    BY <1>2 DEF Take, Wanted, Waits, HasAll, InCall
  <2>2. got[t] \in Nat /\ got[t] + 1 \in 1 .. Len(LockOrder[call[t]]) /\ l \in Locks
    <3>1. got[t] \in Nat /\ got[t] <= Len(LockOrder[call[t]]) /\ Len(LockOrder[call[t]]) \in Nat
      BY <1>0 DEF Progress, Shape
    <3>2. got[t] + 1 \in 1 .. Len(LockOrder[call[t]])
      BY <2>1, <3>1
    <3> QED
      BY <1>0, <3>1, <3>2
  <2>3. Progress(t)'
    BY <1>0, <1>2, <2>1, <2>2 DEF Progress, Shape
  <2>4. Taken(t)' = Taken(t) \cup {l}
    BY <1>0, <2>1, <2>2 DEF Taken, Shape
  <2>5. Taken(t) \subseteq Locks
    BY <1>0, <2>2 DEF Taken
  <2> HIDE DEF l
  <2>6. Owns(t)'
    BY <1>0, <1>2, <2>1, <2>2, <2>4, <2>5 DEF Owns, Shape
  <2> QED
    BY <1>0, <2>1, <2>2, <2>3, <2>6, OthersKeep DEF Shape
<1> QED
  BY <1>1, <1>2

\* letting the monitor's go,
LEMMA UnnestStep ==
  ASSUME IInv, NEW t \in Threads, Unnest(t)
  PROVE  IInv'
<1> USE CallsOfThreads, Ranked
<1>0. Shape /\ Progress(t) /\ Owns(t) /\ nested[t] /\ call[t] \in Nesting /\ call[t] # Idle
  BY DEF IInv, Unnest, Progress
<1>1. owner["MONITOR_DATA"] = t
  BY <1>0 DEF Unnest, Waits, HasAll, InCall
<1>2. /\ owner' = [owner EXCEPT !["MONITOR_DATA"] = Nobody]
      /\ nested' = [nested EXCEPT ![t] = FALSE]
      /\ UNCHANGED <<call, got>>
  BY DEF Unnest
<1>3. Progress(t)' /\ Taken(t)' = Taken(t)
  BY <1>0, <1>2 DEF Progress, Taken, Shape
<1>4. \A l \in Taken(t) : l \in Locks /\ Rank[l] < Rank["MONITOR_DATA"]
  BY <1>0 DEF Taken, Progress
<1>5. "MONITOR_DATA" \notin Taken(t)
  BY <1>4
<1>6. Owns(t)'
  BY <1>0, <1>2, <1>3, <1>4, <1>5 DEF Owns, Shape
<1> QED
  BY <1>0, <1>1, <1>2, <1>3, <1>6, OthersKeep DEF Shape

\* and returning keep the invariant.
LEMMA ReturnStep ==
  ASSUME IInv, NEW t \in Threads, Return(t)
  PROVE  IInv'
<1> USE CallsOfThreads, Ranked
<1>0. Shape /\ Progress(t) /\ Owns(t) /\ ~nested[t] /\ call[t] \in AllCalls
      /\ got[t] = Len(LockOrder[call[t]])
  BY DEF IInv, Return, HasAll, InCall, Shape
<1>1. Taken(t) = ToSet(LockOrder[call[t]])
  BY <1>0 DEF Taken, ToSet
<1>2. /\ owner' = [l \in Locks |-> IF l \in Taken(t) THEN Nobody ELSE owner[l]]
      /\ call' = [call EXCEPT ![t] = Idle]
      /\ got' = [got EXCEPT ![t] = 0]
      /\ nested' = nested
  BY <1>1 DEF Return
<1>3. \A l \in Taken(t) : owner[l] = t
  BY <1>0 DEF Owns
<1>4. \A l \in Locks : owner'[l] # t
  BY <1>0, <1>2 DEF Owns
<1>5. Progress(t)' /\ Taken(t)' = {}
  BY <1>0, <1>2 DEF Progress, Taken, Shape
<1>6. Owns(t)'
  BY <1>4, <1>5 DEF Owns
<1> QED
  BY <1>0, <1>2, <1>3, <1>5, <1>6, OthersKeep DEF Shape

\* Every step keeps it.
LEMMA NextIInv == IInv /\ [Next]_vars => IInv'
<1> SUFFICES ASSUME IInv, [Next]_vars PROVE IInv'
  OBVIOUS
<1> USE CallsOfThreads
<1>1. ASSUME NEW t \in Threads, NEW c \in Calls[t], Begin(t, c) PROVE IInv'
  <2>1. /\ call[t] = Idle /\ call' = [call EXCEPT ![t] = c]
        /\ UNCHANGED <<owner, got, nested>>
    BY <1>1 DEF Begin
  <2>2. Shape /\ Progress(t) /\ Owns(t)
    BY DEF IInv
  <2>3. Progress(t)' /\ Taken(t) = {} /\ Taken(t)' = {}
    BY <2>1, <2>2, Ranked DEF Progress, Shape, Taken
  <2>4. Owns(t)'
    BY <2>1, <2>2, <2>3 DEF Owns
  <2> QED
    BY <2>1, <2>2, <2>3, <2>4, OthersKeep DEF Shape
<1>2. ASSUME NEW t \in Threads, Nest(t) PROVE IInv'
  <2>1. /\ HasAll(t) /\ call[t] \in Nesting
        /\ nested' = [nested EXCEPT ![t] = TRUE]
        /\ UNCHANGED <<owner, call, got>>
    BY <1>2 DEF Nest
  <2>2. Shape /\ Progress(t) /\ Owns(t)
    BY DEF IInv
  <2>3. Progress(t)' /\ Taken(t)' = Taken(t)
    BY <2>1, <2>2 DEF Progress, Shape, Taken, HasAll
  <2>4. Owns(t)'
    BY <2>1, <2>2, <2>3 DEF Owns, Shape
  <2> QED
    BY <2>1, <2>2, <2>3, <2>4, OthersKeep DEF Shape
<1>3. CASE UNCHANGED vars
  BY <1>3 DEF vars, IInv, Shape, Progress, Owns, Taken
<1> QED
  BY <1>1, <1>2, <1>3, TakeStep, UnnestStep, ReturnStep DEF Next

\* So it holds throughout.
LEMMA AlwaysIInv == Spec => []IInv
  BY InitIInv, NextIInv, PTL DEF Spec

(* Mutual exclusion over whole calls: what a thread's call has taken so far  *)
(* it still owns, until the call returns.                                    *)
THEOREM TypeCorrect == Spec => []TypeOK
<1>1. IInv => TypeOK
  <2> SUFFICES ASSUME IInv PROVE TypeOK
    OBVIOUS
  <2>1. ASSUME NEW t \in Threads
        PROVE  /\ call[t] \in Calls[t] \cup {Idle}
               /\ got[t] \in 0 .. (IF call[t] = Idle THEN 0 ELSE Len(LockOrder[call[t]]))
               /\ nested[t] \in BOOLEAN
               /\ \A i \in 1 .. got[t] : owner[LockOrder[call[t]][i]] = t
    BY Ranked DEF IInv, Shape, Progress, Owns, Taken
  <2> QED
    BY <2>1 DEF TypeOK, IInv, Shape
<1> QED
  BY <1>1, AlwaysIInv, PTL

-----------------------------------------------------------------------------
\* A nonempty set of ranks has a greatest one.
LEMMA Greatest ==
  ASSUME NEW S \in SUBSET (1 .. 6), S # {}
  PROVE  \E m \in S : \A n \in S : n <= m
<1>1. CASE 6 \in S
  BY <1>1
<1>2. CASE 6 \notin S /\ 5 \in S
  BY <1>2
<1>3. CASE 6 \notin S /\ 5 \notin S /\ 4 \in S
  BY <1>3
<1>4. CASE S \subseteq 1 .. 3 /\ 3 \in S
  BY <1>4
<1>5. CASE S \subseteq 1 .. 2 /\ 2 \in S
  BY <1>5
<1>6. CASE S \subseteq {1}
  <2>1. S = {1}
    BY <1>6
  <2> QED
    BY <2>1
<1>7. 6 \notin S /\ 5 \notin S /\ 4 \notin S => S \subseteq 1 .. 3
  OBVIOUS
<1>8. S \subseteq 1 .. 3 /\ 3 \notin S => S \subseteq 1 .. 2
  OBVIOUS
<1>9. S \subseteq 1 .. 2 /\ 2 \notin S => S \subseteq {1}
  OBVIOUS
<1> QED
  BY <1>1, <1>2, <1>3, <1>4, <1>5, <1>6, <1>7, <1>8, <1>9

\* Whoever waits while it owns a mutex waits for one of a higher rank.
LEMMA WaitsUpwards ==
  ASSUME IInv, NEW u \in Threads, Waits(u), NEW l \in Locks, owner[l] = u
  PROVE  Wanted(u) \in Locks /\ Rank[l] < Rank[Wanted(u)]
<1> USE CallsOfThreads, Ranked
<1>0. Shape /\ Progress(u) /\ Owns(u) /\ call[u] \in AllCalls
  BY DEF IInv, Waits, InCall, Shape
<1>1. CASE nested[u]
  <2>1. Wanted(u) = "MONITOR_DATA" /\ l # "MONITOR_DATA"
    BY <1>0, <1>1 DEF Wanted, Waits, HasAll, InCall, Progress
  <2>2. l \in Taken(u) /\ call[u] \in Nesting /\ got[u] = Len(LockOrder[call[u]])
    BY <1>0, <1>1, <2>1 DEF Owns, Progress
  <2> QED
    BY <1>0, <2>1, <2>2 DEF Taken
<1>2. CASE ~nested[u]
  <2>1. /\ Wanted(u) = LockOrder[call[u]][got[u] + 1]
        /\ got[u] \in Nat /\ got[u] + 1 \in 1 .. Len(LockOrder[call[u]])
    BY <1>0, <1>2 DEF Wanted, Waits, HasAll, InCall, Progress, Shape
  <2>2. PICK i \in 1 .. got[u] : l = LockOrder[call[u]][i]
    BY <1>0, <1>2 DEF Owns, Taken
  <2> QED
    BY <1>0, <2>1, <2>2
<1> QED
  BY <1>1, <1>2

(* However the threads' calls interleave, none of the six mutexes is part of *)
(* a circle of threads that wait for one another: the thread of any set that *)
(* waits for the highest mutex waits for one owned outside the set.          *)
THEOREM DeadlockFree == Spec => []NoDeadlock
<1>1. IInv => NoDeadlock
  <2> SUFFICES ASSUME IInv, NEW W \in (SUBSET Threads) \ {{}},
                      \A t \in W : Waits(t) /\ owner[Wanted(t)] \in W
               PROVE  FALSE
    BY DEF NoDeadlock
  <2>1. \A t \in W : Wanted(t) \in Locks
    <3> SUFFICES ASSUME NEW t \in W PROVE Wanted(t) \in Locks
      OBVIOUS
    <3>1. Shape /\ Progress(t) /\ call[t] \in AllCalls /\ Waits(t)
      BY DEF IInv, Waits, InCall, Shape
    <3>2. CASE nested[t]
      BY <3>2, CallsOfThreads DEF Wanted
    <3>3. CASE ~nested[t]
      <4>1. got[t] \in Nat /\ got[t] + 1 \in 1 .. Len(LockOrder[call[t]])
        BY <3>1, <3>3, Ranked DEF Waits, HasAll, InCall, Progress, Shape
      <4> QED
        BY <3>1, <3>3, <4>1, Ranked DEF Wanted
    <3> QED
      BY <3>2, <3>3
  <2> DEFINE S == {Rank[Wanted(t)] : t \in W}
  <2>2. S \in SUBSET (1 .. 6) /\ S # {}
    BY <2>1, Ranked
  <2>3. PICK t \in W : \A u \in W : Rank[Wanted(u)] <= Rank[Wanted(t)]
    <3> HIDE DEF S
    <3>1. PICK m \in S : \A n \in S : n <= m
      BY <2>2, Greatest
    <3> QED
      BY <3>1 DEF S
  <2>4. PICK u \in W : owner[Wanted(t)] = u
    OBVIOUS
  <2>5. Wanted(u) \in Locks /\ Rank[Wanted(t)] < Rank[Wanted(u)]
    BY <2>1, <2>4, WaitsUpwards
  <2>6. Rank[Wanted(u)] \in Int /\ Rank[Wanted(t)] \in Int
    BY <2>1, Ranked
  <2> QED
    BY <2>3, <2>5, <2>6
<1> QED
  BY <1>1, AlwaysIInv, PTL
=============================================================================
