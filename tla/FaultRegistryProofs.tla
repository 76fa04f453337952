------------------------- MODULE FaultRegistryProofs -------------------------
(* What the registry of faults and the interlock guarantee, for every set of *)
(* fault kinds and of packet ids.                                            *)
EXTENDS FaultRegistry, TLAPS

Places == {"away", "stamp", "expire", "over", "check", "handle_fault", "look", "recover"}
          \cup Permitted

\* ACTIVE_FAULTS' mutex is held exactly by the thread between its lock and its
\* unlock.
HolderInside ==
    /\ pc \in [Threads -> Places]
    /\ \A t \in Threads : pc[t] \in {"stamp", "expire", "look", "recover"} <=> holder = t

\* A fault is inserted before it is stamped, under one lock: the keys differ by
\* what is pending, and something is only pending while the holder is about to
\* stamp it.
KeysButPending ==
    /\ DOMAIN stamps = faults \ pending
    /\ DOMAIN severities = faults \ pending
    /\ pending # {} => holder \in Raisers /\ pc[holder] = "stamp"

IInv == TypeOK /\ HolderInside /\ KeysButPending /\ StaleOnlyByRaise

\* The strings that name threads and places are different.
LEMMA Names ==
  /\ Threads = Raisers \cup Checkers
  /\ \A t \in Raisers : t \notin Checkers /\ t # Nobody
  /\ \A c \in Checkers : c # Nobody
  /\ \A p \in Permitted : p \notin {"away", "stamp", "expire", "over", "check",
                                    "handle_fault", "look", "recover"}
  BY DEF Threads, Raisers, Checkers, Nobody, Permitted

\* It holds of the empty registry.
LEMMA InitIInv == Init => IInv
<1> SUFFICES ASSUME Init PROVE IInv
  OBVIOUS
<1> USE Names DEF Init
<1>1. TypeOK
  <2>1. DOMAIN stamps = {} /\ DOMAIN severities = {}
    OBVIOUS
  <2>2. /\ packet \in [Checkers -> PacketIds] /\ todo \in [Checkers -> SUBSET FaultKinds]
        /\ since \in [Checkers -> SUBSET FaultKinds]
    OBVIOUS
  <2>3. \A t \in Threads : pc[t] = "away"
    OBVIOUS
  <2>4. holder \in Threads \cup {Nobody} /\ faults = {} /\ pending = {}
        /\ rechecking = FALSE /\ commanded = FALSE
    OBVIOUS
  <2> HIDE DEF Init
  <2> QED
    BY <2>1, <2>2, <2>3, <2>4 DEF TypeOK
<1>2. HolderInside
  BY DEF HolderInside, Places
<1>3. KeysButPending
  BY DEF KeysButPending
<1>4. StaleOnlyByRaise
  BY DEF StaleOnlyByRaise
<1> QED
  BY <1>1, <1>2, <1>3, <1>4 DEF IInv

\* A thread that moves between two places on the same side of the lock leaves the
\* lock's invariant as it was.
LEMMA Elsewhere ==
  ASSUME HolderInside, NEW t \in Threads, NEW place \in Places, Goto(t, place),
         \/ /\ holder' = holder
            /\ pc[t] \in {"stamp", "expire", "look", "recover"}
                 <=> place \in {"stamp", "expire", "look", "recover"}
         \/ holder = Nobody /\ holder' = t /\ place \in {"stamp", "expire", "look", "recover"}
         \/ holder = t /\ holder' = Nobody /\ place \notin {"stamp", "expire", "look", "recover"}
  PROVE  HolderInside'
  BY Names DEF HolderInside, Goto

\* handle_faults inserts what it raises, which is pending from then on.
LEMMA RaiseStep ==
  ASSUME IInv, NEW t \in Raisers, Raise(t)
  PROVE  IInv'
<1> USE Names
<1>1. PICK rolled \in SUBSET FaultKinds :
          /\ faults' = faults \cup rolled
          /\ pending' = rolled \ faults
          /\ since' = [c \in Checkers |-> since[c] \cup (rolled \ faults)]
  BY DEF Raise, Inserted
<1>2. /\ pc[t] = "away" /\ holder = Nobody /\ holder' = t /\ pc' = [pc EXCEPT ![t] = "stamp"]
      /\ UNCHANGED <<stamps, severities, packet, rechecking, commanded, todo>>
  BY DEF Raise, Goto, checkVars
<1>3. pending = {}
  BY <1>2 DEF IInv, KeysButPending
<1>4. HolderInside'
  BY <1>2, Elsewhere DEF IInv, Goto, Places
<1>5. KeysButPending'
  BY <1>1, <1>2, <1>3 DEF IInv, KeysButPending, HolderInside
<1>6. \A c \in Checkers : pc'[c] = pc[c]
  BY <1>2 DEF IInv, HolderInside
<1>7. TypeOK'
  BY <1>1, <1>2, <1>6 DEF IInv, TypeOK, HolderInside
<1>8. StaleOnlyByRaise'
  BY <1>1, <1>2, <1>6 DEF IInv, StaleOnlyByRaise, TypeOK
<1> QED
  BY <1>4, <1>5, <1>7, <1>8 DEF IInv

\* It stamps what is pending,
LEMMA StampStep ==
  ASSUME IInv, NEW t \in Raisers, Stamp(t)
  PROVE  IInv'
<1> USE Names
<1>1. /\ pc[t] = "stamp" /\ pc' = [pc EXCEPT ![t] = "expire"]
      /\ stamps' = With(stamps, pending, [f \in FaultKinds |-> 0])
      /\ severities' = With(severities, pending, Severity)
      /\ pending' = {}
      /\ UNCHANGED <<faults, holder, packet, rechecking, commanded, todo, since>>
  BY DEF Stamp, Goto, checkVars
<1>2. HolderInside'
  BY <1>1, Elsewhere DEF IInv, Goto, Places
<1>3. pending \subseteq faults /\ pending \subseteq FaultKinds
  BY DEF IInv, TypeOK
<1>4. KeysButPending'
  BY <1>1, <1>3 DEF IInv, KeysButPending, With
<1>5. \A c \in Checkers : pc'[c] = pc[c]
  BY <1>1 DEF IInv, HolderInside
<1>6. /\ \A f \in DOMAIN stamps' : stamps'[f] \in 0 .. 2
      /\ \A f \in DOMAIN severities' : severities'[f] = Severity[f]
  BY <1>1, <1>3 DEF With, IInv, TypeOK
<1>7. DOMAIN stamps' \subseteq FaultKinds /\ DOMAIN severities' \subseteq FaultKinds
  BY <1>1, <1>3 DEF With, IInv, TypeOK
<1>8. TypeOK'
  BY <1>1, <1>5, <1>6, <1>7 DEF IInv, TypeOK, HolderInside
<1>9. StaleOnlyByRaise'
  BY <1>1, <1>5 DEF IInv, StaleOnlyByRaise
<1> QED
  BY <1>2, <1>4, <1>8, <1>9 DEF IInv

\* removes from all maps what is past its time, and unlocks.
LEMMA ExpireStep ==
  ASSUME IInv, NEW t \in Raisers, Expire(t)
  PROVE  IInv'
<1> USE Names
<1>1. /\ pc[t] = "expire" /\ pc' = [pc EXCEPT ![t] = "away"]
      /\ faults' = faults \ Expired
      /\ stamps' = [f \in DOMAIN stamps \ Expired |-> stamps[f]]
      /\ severities' = [f \in DOMAIN severities \ Expired |-> severities[f]]
      /\ holder' = Nobody
      /\ UNCHANGED <<pending, packet, rechecking, commanded, todo, since>>
  BY DEF Expire, Goto, checkVars, WithoutStamp, WithoutSeverity
<1>2. holder = t
  BY <1>1 DEF IInv, HolderInside
<1>3. pending = {}
  BY <1>1, <1>2 DEF IInv, KeysButPending
<1>4. HolderInside'
  BY <1>1, <1>2, Elsewhere DEF IInv, Goto, Places
<1>5. KeysButPending'
  BY <1>1, <1>3 DEF IInv, KeysButPending
<1>6. \A c \in Checkers : pc'[c] = pc[c]
  BY <1>1 DEF IInv, HolderInside
<1>7. TypeOK'
  BY <1>1, <1>3, <1>6 DEF IInv, TypeOK, HolderInside
<1>8. StaleOnlyByRaise'
  BY <1>1, <1>6 DEF IInv, StaleOnlyByRaise
<1> QED
  BY <1>4, <1>5, <1>7, <1>8 DEF IInv

\* A favourable answer is only given while the registry can be locked, when no
\* active fault is without its stamp: none of them blocks the packet.
LEMMA AnswerStep ==
  ASSUME IInv, NEW c \in Checkers, is_command_safe(c)
  PROVE  IInv' /\ (pc'[c] \in Permitted => {f \in faults : fault_blocks_packet(f, packet[c])} = {})
<1> USE Names
<1>1. /\ pc[c] = "check" /\ holder = Nobody
      /\ since' = [since EXCEPT ![c] = {}]
      /\ UNCHANGED <<faults, stamps, severities, holder, pending, packet, rechecking, commanded,
                     todo>>
  BY DEF is_command_safe, MayLook, maps, checkVars
<1>2. PICK place \in Permitted \cup {"handle_fault"} :
          /\ Goto(c, place)
          /\ place \in Permitted => Unsafe(packet[c]) = {}
  BY DEF is_command_safe, Allowed, Permitted
<1>3. place \in Places
  BY DEF Places
<1>4. pc' = [pc EXCEPT ![c] = place]
  BY <1>2 DEF Goto
<1>5. HolderInside'
  BY <1>1, <1>2, <1>3, Elsewhere DEF IInv
<1>6. pending = {} /\ DOMAIN stamps = faults
  BY <1>1 DEF IInv, KeysButPending
<1>7. KeysButPending'
  BY <1>1, <1>6 DEF IInv, KeysButPending
<1>8. /\ pc'[c] = place
      /\ \A d \in Threads \ {c} : pc'[d] = pc[d]
  BY <1>4 DEF IInv, HolderInside
<1>9. TypeOK'
  BY <1>1, <1>8 DEF IInv, TypeOK
<1>10. pc'[c] \in Permitted => {f \in faults : fault_blocks_packet(f, packet[c])} = {}
  BY <1>2, <1>6, <1>8 DEF Unsafe
<1>11. StaleOnlyByRaise'
  BY <1>1, <1>8, <1>10 DEF IInv, StaleOnlyByRaise, TypeOK
<1> QED
  BY <1>5, <1>7, <1>9, <1>10, <1>11 DEF IInv

\* A checker's steps outside the registry, and the ones that only read it.
LEMMA CheckerStep ==
  ASSUME IInv, NEW c \in Checkers, NEW place \in Places, Goto(c, place),
         UNCHANGED <<maps, pending>>,
         packet' \in [Checkers -> PacketIds], rechecking' \in BOOLEAN, commanded' \in BOOLEAN,
         todo' \in [Checkers -> SUBSET FaultKinds], since' \in [Checkers -> SUBSET FaultKinds],
         HolderInside', holder' \in {holder, c, Nobody}, holder' # holder => holder \notin Raisers,
         place \notin Permitted, place \notin {"stamp", "expire", "over"},
         \A d \in Checkers \ {c} : packet'[d] = packet[d] /\ since'[d] = since[d]
  PROVE  IInv'
<1> USE Names
<1>1. /\ pc'[c] = place
      /\ \A d \in Threads \ {c} : pc'[d] = pc[d]
  BY DEF IInv, HolderInside, Goto
<1>2. place \in {"away", "check", "handle_fault", "look", "recover"}
  BY DEF Places
<1>3. holder' \in Threads \cup {Nobody}
  BY DEF IInv, TypeOK
<1>4. TypeOK'
  BY <1>1, <1>2, <1>3 DEF IInv, TypeOK, maps
<1>5. KeysButPending'
  BY <1>1 DEF IInv, KeysButPending, maps
<1>6. StaleOnlyByRaise'
  BY <1>1 DEF IInv, StaleOnlyByRaise, maps
<1> QED
  BY <1>4, <1>5, <1>6 DEF IInv
\* Every step keeps it.
LEMMA NextIInv == IInv /\ [Next]_vars => IInv'
<1> SUFFICES ASSUME IInv, [Next]_vars PROVE IInv'
  OBVIOUS
<1> USE Names DEF Places
<1>0. /\ packet \in [Checkers -> PacketIds] /\ todo \in [Checkers -> SUBSET FaultKinds]
      /\ since \in [Checkers -> SUBSET FaultKinds]
      /\ rechecking \in BOOLEAN /\ commanded \in BOOLEAN /\ faults \subseteq FaultKinds
      /\ HolderInside
  BY DEF IInv, TypeOK
<1>1. ASSUME NEW t \in Raisers, Update(t) PROVE IInv'
  BY <1>1, RaiseStep, StampStep, ExpireStep DEF Update
<1>2. ASSUME NEW c \in Checkers, Receive(c) PROVE IInv'
  <2>1. HolderInside'
    BY <1>2, <1>0, Elsewhere DEF Receive
  <2> QED
    BY <1>2, <1>0, <2>1, CheckerStep DEF Receive, maps
<1>3. ASSUME NEW c \in Checkers, is_command_safe(c) PROVE IInv'
  BY <1>3, AnswerStep
<1>4. ASSUME NEW c \in Checkers, c = "manager", MgrSend PROVE IInv'
  <2>1. HolderInside'
    BY <1>4, <1>0, Elsewhere DEF MgrSend, Permitted
  <2> QED
    BY <1>4, <1>0, <2>1, CheckerStep DEF MgrSend, maps, checkVars
<1>5. ASSUME NEW c \in Checkers, c = "telemetry", TelDispatch PROVE IInv'
  <2>1. HolderInside'
    BY <1>5, <1>0, Elsewhere DEF TelDispatch, Permitted
  <2> QED
    BY <1>5, <1>0, <2>1, CheckerStep DEF TelDispatch, maps
<1>6. ASSUME NEW c \in Checkers, c = "telemetry", TelCommand PROVE IInv'
  <2>1. HolderInside'
    BY <1>6, <1>0, Elsewhere DEF TelCommand, Permitted
  <2> QED
    BY <1>6, <1>0, <2>1, CheckerStep DEF TelCommand, maps
<1>7. ASSUME NEW c \in Checkers, Survey(c) PROVE IInv'
  <2>1. HolderInside'
    BY <1>7, <1>0, Elsewhere DEF Survey
  <2> QED
    BY <1>7, <1>0, <2>1, CheckerStep DEF Survey, maps
<1>8. ASSUME NEW c \in Checkers, Look(c) PROVE IInv'
  <2>1. PICK f \in todo[c] : todo' = [todo EXCEPT ![c] = Others(c, f)]
    BY <1>8 DEF Look
  <2>2. todo' \in [Checkers -> SUBSET FaultKinds]
    BY <1>0, <2>1 DEF Others
  <2>3. PICK place \in {"look", "recover"} : Goto(c, place)
    BY <1>8 DEF Look
  <2>4. /\ pc[c] = "look"
        /\ UNCHANGED <<maps, holder, pending, packet, rechecking, commanded, since>>
    BY <1>8 DEF Look
  <2>5. HolderInside'
    BY <2>3, <2>4, <1>0, Elsewhere
  <2> QED
    BY <1>0, <2>2, <2>3, <2>4, <2>5, CheckerStep
<1>9. ASSUME NEW c \in Checkers, Recovered(c) PROVE IInv'
  <2>1. HolderInside'
    BY <1>9, <1>0, Elsewhere DEF Recovered
  <2> QED
    BY <1>9, <1>0, <2>1, CheckerStep DEF Recovered, maps, checkVars
<1>10. ASSUME NEW c \in Checkers, LookedAtAll(c) PROVE IInv'
  <2>1. holder = c
    BY <1>10, <1>0 DEF LookedAtAll, HolderInside
  <2>2. HolderInside'
    BY <1>10, <1>0, <2>1, Elsewhere DEF LookedAtAll
  <2> QED
    BY <1>10, <1>0, <2>1, <2>2, CheckerStep DEF LookedAtAll, maps
<1>11. CASE MainReturns
  <2>1. "main" \in Raisers
    BY DEF Raisers
  <2>2. HolderInside'
    BY <1>11, <1>0, <2>1, Elsewhere DEF MainReturns
  <2>3. /\ pc["main"] = "away" /\ pc' = [pc EXCEPT !["main"] = "over"]
        /\ UNCHANGED <<maps, holder, pending, checkVars, since>>
    BY <1>11 DEF MainReturns, Goto
  <2>4. TypeOK'
    BY <1>0, <2>1, <2>3 DEF IInv, TypeOK, HolderInside, maps, checkVars
  <2>5. KeysButPending'
    BY <1>0, <2>1, <2>3 DEF IInv, KeysButPending, HolderInside, maps
  <2>6. StaleOnlyByRaise'
    BY <1>0, <2>1, <2>3 DEF IInv, StaleOnlyByRaise, HolderInside, maps, checkVars
  <2> QED
    BY <2>2, <2>4, <2>5, <2>6 DEF IInv
<1>12. ASSUME NEW f \in FaultKinds, Age(f) PROVE IInv'
  <2>1. DOMAIN stamps' = DOMAIN stamps /\ \A g \in DOMAIN stamps' : stamps'[g] \in 0 .. 2
    BY <1>12 DEF Age, IInv, TypeOK
  <2> QED
    BY <1>12, <2>1
       DEF Age, checkVars, IInv, TypeOK, HolderInside, KeysButPending, StaleOnlyByRaise
<1>13. CASE UNCHANGED vars
  BY <1>13 DEF vars, maps, checkVars, IInv, TypeOK, HolderInside, KeysButPending,
               StaleOnlyByRaise
<1> QED
  BY <1>1, <1>2, <1>3, <1>4, <1>5, <1>6, <1>7, <1>8, <1>9, <1>10, <1>11, <1>12, <1>13
     DEF Next, Work

\* So it holds throughout.
LEMMA AlwaysIInv == Spec => []IInv
  BY InitIInv, NextIInv, PTL DEF Spec

(* Every variable of the registry, its threads and the interlock keeps its   *)
(* type; in particular nothing is stamped that handle_faults cannot raise.   *)
THEOREM TypeCorrect == Spec => []TypeOK
  BY AlwaysIInv, PTL DEF IInv

(* ACTIVE_FAULTS' mutex excludes: at most one thread is between a lock and   *)
(* its unlock, though handle_faults and handle_fault hold it over many steps *)
(* and a checker may sleep there.                                            *)
THEOREM Exclusion ==
  Spec => [](\A t, u \in Threads : /\ pc[t] \in {"stamp", "expire", "look", "recover"}
                                   /\ pc[u] \in {"stamp", "expire", "look", "recover"}
                                   => t = u)
<1>1. IInv => \A t, u \in Threads : /\ pc[t] \in {"stamp", "expire", "look", "recover"}
                                    /\ pc[u] \in {"stamp", "expire", "look", "recover"}
                                    => t = u
  BY DEF IInv, HolderInside
<1> QED
  BY <1>1, AlwaysIInv, PTL

(* The three maps of fault.rs agree on their keys whenever they can be       *)
(* locked, though each changes in a step of its own.                         *)
THEOREM MapsAgree == Spec => []SameKeys
<1>1. IInv => SameKeys
  BY Names DEF IInv, KeysButPending, SameKeys
<1> QED
  BY <1>1, AlwaysIInv, PTL

(* Between is_command_safe's answer and its use, only faults raised after    *)
(* the answer can block the packet.                                          *)
THEOREM AnswersStale == Spec => []StaleOnlyByRaise
  BY AlwaysIInv, PTL DEF IInv

(* A fault's 15 s count from the moment it was raised: while it is active no *)
(* further roll renews its stamp, however often main and the injector roll   *)
(* (fault.rs:37), and it is cleared only when they are over (fault.rs:66).   *)
StampsKept ==
    [][\A f \in DOMAIN stamps :
         \/ f \in faults' /\ f \in DOMAIN stamps' /\ stamps'[f] >= stamps[f]
         \/ f \notin faults' /\ f \notin DOMAIN stamps' /\ stamps[f] = 2]_vars

(* The faults handle_faults stamps and those it finds active are different.   *)
THEOREM FaultsLastFromTheFirstRoll == Spec => StampsKept
<1> DEFINE Kept == \A f \in DOMAIN stamps :
             \/ f \in faults' /\ f \in DOMAIN stamps' /\ stamps'[f] >= stamps[f]
             \/ f \notin faults' /\ f \notin DOMAIN stamps' /\ stamps[f] = 2
<1>1. ASSUME IInv, [Next]_vars PROVE Kept
  <2>1. /\ DOMAIN stamps = faults \ pending
        /\ \A f \in DOMAIN stamps : f \in FaultKinds /\ stamps[f] \in 0 .. 2
    BY <1>1 DEF IInv, KeysButPending, TypeOK
  <2>2. ASSUME NEW t \in Raisers, Raise(t) PROVE Kept
    BY <2>1, <2>2 DEF Raise
  <2>3. ASSUME NEW t \in Raisers, Stamp(t) PROVE Kept
    <3>1. /\ stamps' = [f \in DOMAIN stamps \cup pending |->
                           IF f \in pending THEN [g \in FaultKinds |-> 0][f] ELSE stamps[f]]
          /\ faults' = faults
      BY <2>3 DEF Stamp, With
    <3> QED
      BY <2>1, <3>1
  <2>4. ASSUME NEW t \in Raisers, Expire(t) PROVE Kept
    <3>1. /\ stamps' = [f \in DOMAIN stamps \ Expired |-> stamps[f]]
          /\ faults' = faults \ Expired
      BY <2>4 DEF Expire, WithoutStamp
    <3> QED
      BY <2>1, <3>1 DEF Expired
  <2>5. ASSUME NEW f \in FaultKinds, Age(f) PROVE Kept
    BY <2>1, <2>5 DEF Age
  <2>6. CASE UNCHANGED <<faults, stamps>>
    BY <2>1, <2>6
  <2>7. ASSUME NEW c \in Checkers, Receive(c) \/ Work(c) PROVE UNCHANGED <<faults, stamps>>
    BY <2>7 DEF Receive, Work, is_command_safe, MgrSend, TelDispatch, TelCommand, Survey, Look,
                Recovered, LookedAtAll, maps
  <2> QED
    BY <1>1, <2>2, <2>3, <2>4, <2>5, <2>6, <2>7 DEF Next, Update, MainReturns, vars, maps
<1>2. IInv /\ [Next]_vars => [Kept]_vars
  BY <1>1
<1> QED
  BY <1>2, AlwaysIInv, PTL DEF Spec, StampsKept

-----------------------------------------------------------------------------
(* The interlock that the registry implements.                               *)

stops == [f \in FaultKinds |-> {id \in PacketIds : fault_blocks_packet(f, id)}]
phases == [c \in Checkers |-> Phase(c)]

\* A thread's move shows in the interlock only by its phase.
LEMMA PhaseStep ==
  ASSUME IInv, NEW t \in Threads, NEW place \in Places, Goto(t, place)
  PROVE  /\ t \in Raisers => phases' = phases
         /\ t \in Checkers =>
                phases' = [phases EXCEPT ![t] = IF place = "check" THEN "asking"
                                                ELSE IF place \in Permitted THEN "go"
                                                ELSE "away"]
<1>1. pc' = [pc EXCEPT ![t] = place] /\ pc \in [Threads -> Places]
  BY DEF Goto, IInv, HolderInside
<1>2. \A c \in Checkers : c \in Threads /\ (c # t => Phase(c)' = Phase(c))
  BY <1>1, Names DEF Phase
<1>3. t \in Checkers => Phase(t)' = IF place = "check" THEN "asking"
                                   ELSE IF place \in Permitted THEN "go" ELSE "away"
  BY <1>1 DEF Phase
<1> QED
  BY <1>2, <1>3, Names DEF phases

\* Raising, expiring, answering and using are steps of the interlock; locking,
\* stamping and looking are none.
LEMMA StepRefines ==
  ASSUME IInv, IInv', [Next]_vars
  PROVE  [Abstract!Next]_(Abstract!vars)
<1> DEFINE active == faults \ pending
<1> USE Names DEF Places
<1>a. ASSUME active' = active, phases' = phases, packet' = packet
      PROVE  UNCHANGED Abstract!vars
  BY <1>a DEF Abstract!vars, phases
<1>b. ASSUME NEW raised \in SUBSET FaultKinds, NEW cleared \in SUBSET active,
             active' = (active \cup raised) \ cleared, phases' = phases, packet' = packet
      PROVE  Abstract!Next
  BY <1>b DEF Abstract!Next, Abstract!Update, phases
<1>c. ASSUME NEW c \in Checkers, NEW id \in PacketIds, phases[c] # "asking",
             phases' = [phases EXCEPT ![c] = "asking"], phases[c] = "go" => id = packet[c],
             packet' = [packet EXCEPT ![c] = id], active' = active
      PROVE  Abstract!Next
  BY <1>c DEF Abstract!Next, Abstract!Ask, phases
<1>d. ASSUME NEW c \in Checkers, phases[c] = "asking",
             phases' = [phases EXCEPT ![c] = IF \E f \in active : packet[c] \in stops[f]
                                             THEN "away" ELSE "go"],
             packet' = packet, active' = active
      PROVE  Abstract!Next
  BY <1>d DEF Abstract!Next, Abstract!Answer, Abstract!Blocked, phases, stops
<1>e. ASSUME NEW c \in Checkers, phases[c] = "go", phases' = [phases EXCEPT ![c] = "away"],
             packet' = packet, active' = active
      PROVE  Abstract!Next
  BY <1>e DEF Abstract!Next, Abstract!Act, phases
<1>f. ASSUME NEW t \in Threads, NEW place \in {"away", "handle_fault", "look", "recover"},
             pc[t] \in {"away", "handle_fault", "look", "recover"}, Goto(t, place),
             active' = active, packet' = packet
      PROVE  UNCHANGED Abstract!vars
  <2>1. t \in Checkers => phases[t] = "away"
    BY <1>f DEF phases, Phase
  <2>2. phases' = phases
    BY <1>f, <2>1, PhaseStep DEF phases
  <2> QED
    BY <1>f, <1>a, <2>2
<1>1. ASSUME NEW t \in Raisers, Raise(t) PROVE [Abstract!Next]_(Abstract!vars)
  <2>1. pending = {}
    BY <1>1 DEF Raise, IInv, KeysButPending
  <2>2. active' = active
    BY <1>1, <2>1 DEF Raise, Inserted
  <2>3. phases' = phases
    BY <1>1, PhaseStep DEF Raise
  <2> QED
    BY <1>1, <1>a, <2>2, <2>3 DEF Raise, checkVars
<1>2. ASSUME NEW t \in Raisers, Stamp(t) PROVE [Abstract!Next]_(Abstract!vars)
  <2>1. active' = (active \cup pending) \ {}
    BY <1>2 DEF Stamp, IInv, TypeOK
  <2>2. pending \in SUBSET FaultKinds /\ {} \in SUBSET active
    BY DEF IInv, TypeOK
  <2>3. phases' = phases /\ packet' = packet
    BY <1>2, PhaseStep DEF Stamp, checkVars
  <2> HIDE DEF active
  <2> QED
    BY <1>b, <2>1, <2>2, <2>3
<1>3. ASSUME NEW t \in Raisers, Expire(t) PROVE [Abstract!Next]_(Abstract!vars)
  <2>1. pending = {} /\ pending' = {}
    BY <1>3 DEF Expire, IInv, HolderInside, KeysButPending
  <2>2. active' = (active \cup {}) \ Expired /\ Expired \in SUBSET active
    BY <1>3, <2>1 DEF Expire, Expired, IInv, KeysButPending
  <2>3. phases' = phases /\ packet' = packet
    BY <1>3, PhaseStep DEF Expire, checkVars
  <2> HIDE DEF active
  <2> QED
    BY <1>b, <2>2, <2>3
<1>4. ASSUME NEW c \in Checkers, Receive(c) PROVE [Abstract!Next]_(Abstract!vars)
  <2>1. PICK id \in PacketIds : packet' = [packet EXCEPT ![c] = id]
    BY <1>4 DEF Receive
  <2>2. phases[c] = "away"
    BY <1>4 DEF Receive, phases, Phase, Permitted
  <2>3. phases' = [phases EXCEPT ![c] = "asking"]
    BY <1>4, PhaseStep DEF Receive
  <2>4. active' = active
    BY <1>4 DEF Receive, maps
  <2> QED
    BY <1>c, <2>1, <2>2, <2>3, <2>4
<1>5. ASSUME NEW c \in Checkers, is_command_safe(c) PROVE [Abstract!Next]_(Abstract!vars)
  <2>1. /\ holder = Nobody /\ pc[c] = "check"
        /\ UNCHANGED <<faults, pending, packet>>
    BY <1>5 DEF is_command_safe, MayLook, maps, checkVars
  <2>2. pending = {} /\ DOMAIN stamps = faults
    BY <2>1 DEF IInv, KeysButPending
  <2>3. packet[c] \in PacketIds /\ faults \subseteq FaultKinds
    BY DEF IInv, TypeOK
  <2>4. Unsafe(packet[c]) = {} <=> ~(\E f \in active : packet[c] \in stops[f])
    BY <2>2, <2>3 DEF Unsafe, stops
  <2>5. Allowed(c) \in Permitted
    BY DEF Allowed, Permitted
  <2>6. phases' = [phases EXCEPT ![c] = IF \E f \in active : packet[c] \in stops[f]
                                        THEN "away" ELSE "go"]
    <3>1. CASE Unsafe(packet[c]) = {}
      <4>1. Goto(c, Allowed(c))
        BY <1>5, <3>1 DEF is_command_safe
      <4>2. phases' = [phases EXCEPT ![c] = IF Allowed(c) = "check" THEN "asking"
                                            ELSE IF Allowed(c) \in Permitted THEN "go"
                                            ELSE "away"]
        BY <4>1, <2>5, PhaseStep
      <4> QED
        BY <4>2, <3>1, <2>4, <2>5
    <3>2. CASE Unsafe(packet[c]) # {}
      <4>1. Goto(c, "handle_fault")
        BY <1>5, <3>2 DEF is_command_safe
      <4>2. phases' = [phases EXCEPT ![c] = "away"]
        BY <4>1, PhaseStep
      <4> QED
        BY <4>2, <3>2, <2>4
    <3> QED
      BY <3>1, <3>2
  <2>7. phases[c] = "asking"
    BY <2>1 DEF phases, Phase
  <2>8. active' = active /\ packet' = packet
    BY <2>1
  <2> HIDE DEF active
  <2> QED
    BY <1>d, <2>6, <2>7, <2>8
<1>6. ASSUME NEW c \in Checkers, c = "manager", MgrSend PROVE [Abstract!Next]_(Abstract!vars)
  <2>1. phases[c] = "go"
    BY <1>6 DEF MgrSend, phases, Phase, Permitted
  <2>2. phases' = [phases EXCEPT ![c] = "away"]
    BY <1>6, PhaseStep DEF MgrSend
  <2> QED
    BY <1>6, <1>e, <2>1, <2>2 DEF MgrSend, maps, checkVars
<1>7. ASSUME NEW c \in Checkers, c = "telemetry", TelDispatch
      PROVE  [Abstract!Next]_(Abstract!vars)
  <2>1. phases[c] = "go"
    BY <1>7 DEF TelDispatch, phases, Phase, Permitted
  <2>2. phases' = [phases EXCEPT ![c] = "asking"]
    BY <1>7, PhaseStep DEF TelDispatch
  <2>3. packet[c] \in PacketIds /\ packet' = [packet EXCEPT ![c] = packet[c]]
    BY <1>7 DEF TelDispatch, IInv, TypeOK
  <2>4. active' = active
    BY <1>7 DEF TelDispatch, maps
  <2> QED
    BY <1>c, <2>1, <2>2, <2>3, <2>4
<1>8. ASSUME NEW c \in Checkers, c = "telemetry", TelCommand
      PROVE  [Abstract!Next]_(Abstract!vars)
  <2>1. phases[c] = "go"
    BY <1>8 DEF TelCommand, phases, Phase, Permitted
  <2>2. phases' = [phases EXCEPT ![c] = "away"]
    BY <1>8, PhaseStep DEF TelCommand
  <2> QED
    BY <1>8, <1>e, <2>1, <2>2 DEF TelCommand, maps
<1>9. ASSUME NEW c \in Checkers, Survey(c) \/ Look(c) \/ Recovered(c) \/ LookedAtAll(c)
      PROVE  [Abstract!Next]_(Abstract!vars)
  <2>1. PICK place \in {"away", "handle_fault", "look", "recover"} : Goto(c, place)
    BY <1>9 DEF Survey, Look, Recovered, LookedAtAll
  <2>2. pc[c] \in {"away", "handle_fault", "look", "recover"}
    BY <1>9 DEF Survey, Look, Recovered, LookedAtAll
  <2>3. active' = active /\ packet' = packet
    BY <1>9 DEF Survey, Look, Recovered, LookedAtAll, maps, checkVars
  <2> QED
    BY <1>f, <2>1, <2>2, <2>3
<1>10. CASE MainReturns
  <2>1. phases' = phases
    BY <1>10, PhaseStep DEF MainReturns, Raisers
  <2> QED
    BY <1>10, <1>a, <2>1 DEF MainReturns, maps, checkVars
<1>11. ASSUME NEW f \in FaultKinds, Age(f) PROVE [Abstract!Next]_(Abstract!vars)
  BY <1>11, <1>a DEF Age, checkVars, phases, Phase
<1>12. CASE UNCHANGED vars
  BY <1>12, <1>a DEF vars, maps, checkVars, phases, Phase
<1> QED
  BY <1>1, <1>2, <1>3, <1>4, <1>5, <1>6, <1>7, <1>8, <1>9, <1>10, <1>11, <1>12
     DEF Next, Update, Work

(* fault.rs implements its interlock: every answer of is_command_safe is the *)
(* one a single instant between the call and the return would have given,    *)
(* though faults are inserted, stamped and removed map by map.               *)
THEOREM Refinement == Spec => ImplementsInterlock
<1>1. Init => Abstract!Init
  BY DEF Init, Abstract!Init, Phase, Permitted, Threads
<1> QED
  BY <1>1, AlwaysIInv, StepRefines, PTL DEF Spec, ImplementsInterlock, Abstract!Spec
==============================================================================
