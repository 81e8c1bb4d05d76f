-------------------------- MODULE ExecutionVerifier --------------------------
(***************************************************************************)
(* What Process::verify_execution promises, without queues, public-input   *)
(* vectors or proofs.  An execution is produced, may be replaced by anyone *)
(* before it is verified, and is then decided once: the produced execution *)
(* is never rejected, and an execution is accepted only if it is           *)
(* admissible.                                                             *)
(***************************************************************************)
CONSTANTS
    Produced,       \* the execution Process::execute produced
    Admissible(_)   \* the executions the verifier may accept

VARIABLES
    execution,  \* the execution handed to the verifier
    pc,         \* "idle" | "submitted" | "done"
    result      \* "none" | "ok" | "err"

avars == <<execution, pc, result>>

Init ==
    /\ execution = <<>>
    /\ pc = "idle"
    /\ result = "none"

Submit ==
    /\ pc = "idle"
    /\ execution' = Produced
    /\ pc' = "submitted"
    /\ UNCHANGED result

\* Before the decision the execution may be replaced by any other.
Replace ==
    /\ pc = "submitted"
    /\ UNCHANGED <<pc, result>>

Accept ==
    /\ pc = "submitted"
    /\ Admissible(execution)
    /\ pc' = "done"
    /\ result' = "ok"
    /\ UNCHANGED execution

Reject ==
    /\ pc = "submitted"
    /\ execution # Produced
    /\ pc' = "done"
    /\ result' = "err"
    /\ UNCHANGED execution

Reset ==
    /\ pc = "done"
    /\ execution' = <<>>
    /\ pc' = "idle"
    /\ result' = "none"

Next == Submit \/ Replace \/ Accept \/ Reject \/ Reset

Spec == Init /\ [][Next]_avars

=============================================================================
