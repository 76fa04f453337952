--------------------------- MODULE AckLedgerProofs ---------------------------
(* What the anonymous acknowledgement protocol guarantees, for every set of *)
(* packet ids.                                                              *)
EXTENDS AckLedger, TLAPS

(* The answers owed stay a sequence of ids and at most one exchange is open. *)
THEOREM TypeCorrect == Spec => []TypeOK
<1>1. Init => TypeOK
  BY DEF Init, TypeOK
<1>2. TypeOK /\ [Next]_vars => TypeOK'
  <2> SUFFICES ASSUME TypeOK, [Next]_vars PROVE TypeOK'
    OBVIOUS
  <2>1. CASE \E p \in Ids : Transmit(p)
    BY <2>1 DEF Transmit, TypeOK
  <2>2. CASE Ack
    BY <2>2 DEF Ack, TypeOK
  <2>3. CASE Timeout
    BY <2>3 DEF Timeout, TypeOK
  <2>4. CASE PeerStop
    <3>1. PICK n \in 0 .. Len(outstanding) : outstanding' = SubSeq(outstanding, 1, n)
      BY <2>4 DEF PeerStop
    <3>2. SubSeq(outstanding, 1, n) \in Seq(Ids)
      BY <3>1 DEF TypeOK
    <3> QED
      BY <2>4, <3>1, <3>2 DEF PeerStop, TypeOK
  <2>5. CASE UNCHANGED vars
    BY <2>5 DEF vars, TypeOK
  <2> QED
    BY <2>1, <2>2, <2>3, <2>4, <2>5 DEF Next
<1> QED
  BY <1>1, <1>2, PTL DEF Spec

(* The answer to the open exchange is the last one owed.                    *)
THEOREM OwnAnswer == Spec => []OwnAnswerIsLast
<1>1. Init => OwnAnswerIsLast
  BY DEF Init, OwnAnswerIsLast
<1>2. TypeOK /\ OwnAnswerIsLast /\ [Next]_vars => OwnAnswerIsLast'
  <2> SUFFICES ASSUME TypeOK, OwnAnswerIsLast, [Next]_vars PROVE OwnAnswerIsLast'
    OBVIOUS
  <2>1. ASSUME NEW p \in Ids, Transmit(p) PROVE OwnAnswerIsLast'
    <3>1. CASE peer_up
      <4>1. outstanding' = Append(outstanding, p) /\ exchange' = <<p>>
        BY <2>1, <3>1 DEF Transmit
      <4>2. /\ Len(Append(outstanding, p)) = Len(outstanding) + 1
            /\ Append(outstanding, p)[Len(outstanding) + 1] = p
        BY DEF TypeOK
      <4> QED
        BY <4>1, <4>2 DEF OwnAnswerIsLast, TypeOK
    <3>2. CASE ~peer_up
      BY <2>1, <3>2 DEF Transmit, OwnAnswerIsLast
    <3> QED
      BY <3>1, <3>2
  <2>2. CASE Ack
    BY <2>2 DEF Ack, OwnAnswerIsLast
  <2>3. CASE Timeout
    BY <2>3 DEF Timeout, OwnAnswerIsLast
  <2>4. CASE PeerStop
    BY <2>4 DEF PeerStop, OwnAnswerIsLast
  <2>5. CASE UNCHANGED vars
    BY <2>5 DEF vars, OwnAnswerIsLast
  <2> QED
    BY <2>1, <2>2, <2>3, <2>4, <2>5 DEF Next
<1> QED
  BY <1>1, <1>2, TypeCorrect, PTL DEF Spec

(* A late answer is never repaid while the ground is up.                    *)
THEOREM DebtStays == Spec => DebtIsForever
<1>1. TypeOK /\ [Next]_vars => [peer_up' => Debt' >= Debt]_vars
  <2> SUFFICES ASSUME TypeOK, [Next]_vars, peer_up' PROVE Debt' >= Debt
    OBVIOUS
  <2>1. Len(outstanding) \in Nat /\ Len(exchange) \in Nat
    BY DEF TypeOK
  <2>2. ASSUME NEW p \in Ids, Transmit(p) PROVE Debt' >= Debt
    <3>1. Len(Append(outstanding, p)) = Len(outstanding) + 1
      BY DEF TypeOK
    <3>2. Len(exchange) = 0 /\ Len(exchange') = 1
      BY <2>2 DEF Transmit
    <3>3. outstanding' = Append(outstanding, p)
      BY <2>2 DEF Transmit
    <3> QED
      BY <2>1, <3>1, <3>2, <3>3 DEF Debt
  <2>3. CASE Ack
    <3>1. Len(exchange) = 1 /\ Len(exchange') = 0
      BY <2>3 DEF Ack, TypeOK
    <3>2. Len(outstanding') = Len(outstanding) - 1
      BY <2>3 DEF Ack, TypeOK
    <3> QED
      BY <2>1, <3>1, <3>2 DEF Debt
  <2>4. CASE Timeout
    <3>1. Len(exchange) = 1 /\ Len(exchange') = 0 /\ outstanding' = outstanding
      BY <2>4 DEF Timeout, TypeOK
    <3> QED
      BY <2>1, <3>1 DEF Debt
  <2>5. CASE PeerStop
    BY <2>5 DEF PeerStop
  <2>6. CASE UNCHANGED vars
    BY <2>1, <2>6 DEF vars, Debt
  <2> QED
    BY <2>2, <2>3, <2>4, <2>5, <2>6 DEF Next
<1> QED
  BY <1>1, TypeCorrect, PTL DEF Spec, DebtIsForever
=============================================================================
