------------------------------ MODULE AckLedger ------------------------------
(***************************************************************************)
(* What the acknowledgement protocol of downlink.rs promises, with the     *)
(* threads and channels between the two ends left out.                     *)
(*                                                                         *)
(* The manager transmits one frame, then waits for any message on the      *)
(* uplink or gives up.  The ground answers every frame, in order.  Nothing *)
(* in the exchange says which frame an answer is for, so the state is the  *)
(* sequence of answers still owed: an answer ends whichever exchange is    *)
(* open, and a frame that was given up still has its answer coming.        *)
(***************************************************************************)
EXTENDS Integers, Sequences

CONSTANT Ids        \* packet ids; an answer carries the id of its frame

VARIABLES
    outstanding,    \* ids whose answer the manager has not consumed, oldest first
    exchange,       \* << >>, or <<id>> of the frame the manager waits for
    peer_up         \* does the ground still answer?

vars == <<outstanding, exchange, peer_up>>

TypeOK ==
    /\ outstanding \in Seq(Ids)
    /\ exchange \in {<< >>} \cup {<<p>> : p \in Ids}
    /\ peer_up \in BOOLEAN

Init ==
    /\ outstanding = << >>
    /\ exchange = << >>
    /\ peer_up = TRUE

Transmit(p) ==
    /\ exchange = << >>
    /\ exchange' = <<p>>
    /\ outstanding' = IF peer_up THEN Append(outstanding, p) ELSE outstanding
    /\ UNCHANGED peer_up

\* The oldest answer ends the open exchange, whosever it is.
Ack ==
    /\ exchange # << >>
    /\ outstanding # << >>
    /\ exchange' = << >>
    /\ outstanding' = Tail(outstanding)
    /\ UNCHANGED peer_up

Timeout ==
    /\ exchange # << >>
    /\ exchange' = << >>
    /\ UNCHANGED <<outstanding, peer_up>>

\* The ground stops: the frames it had not answered stay unanswered.
PeerStop ==
    /\ peer_up
    /\ peer_up' = FALSE
    /\ \E n \in 0 .. Len(outstanding) : outstanding' = SubSeq(outstanding, 1, n)
    /\ UNCHANGED exchange

Next ==
    \/ \E p \in Ids : Transmit(p)
    \/ Ack
    \/ Timeout
    \/ PeerStop

Spec == Init /\ [][Next]_vars

-----------------------------------------------------------------------------
(* Answers owed for frames whose exchange is already over.                  *)
Debt == Len(outstanding) - Len(exchange)

\* While the ground is up, the answer to the open exchange is the last one
\* owed: everything before it belongs to frames that were given up.
OwnAnswerIsLast ==
    (peer_up /\ exchange # << >>) =>
        /\ outstanding # << >>
        /\ outstanding[Len(outstanding)] = exchange[1]

\* One timeout shifts the pairing of answers and frames for the rest of the
\* run: no step of the two ends ever repays a late answer.
DebtIsForever == [][peer_up' => Debt' >= Debt]_vars
=============================================================================
