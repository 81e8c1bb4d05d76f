-------------------------- MODULE ProcessExecution --------------------------
(***************************************************************************)
(* Process::execute and Process::verify_execution                          *)
(* (src/synthesizer/src/process/execute.rs).                               *)
(*                                                                         *)
(* An execution is the sequence of transitions produced by running the     *)
(* main function of a program: every function call yields a transition,    *)
(* pushed when the callee finishes, so callees precede their caller and    *)
(* the main transition is last (verify_execution peeks and pops from the   *)
(* back).  verify_execution pops transitions one by one, checks each, and   *)
(* builds its public-input vector:                                         *)
(*   1, tpk.x, tpk.y, tcm, own inputs,                                     *)
(*   (inputs ++ output ids) of each function call, own outputs,            *)
(*   finalize checksum (only if the function has a finalize scope)         *)
(* taking the function-call transitions to be the last num_function_calls  *)
(* transitions left in the queue.  The vectors, grouped by verifying key,  *)
(* are checked against the execution proof by the Varuna batch verifier,   *)
(* which pads every vector with zeros to the circuit's public-input size.  *)
(*                                                                         *)
(* Field elements are abstracted to tagged tuples <<kind, node, index>>:   *)
(* two elements are equal iff they are the same value of the same          *)
(* transition; hashes (transition ID, finalize checksum) are modelled as   *)
(* injective.  The adversary of test_check_mutated_execution may tamper    *)
(* with the execution between proving and verification.                    *)
(***************************************************************************)
EXTENDS Integers, Sequences, SequencesExt, FiniteSets, FiniteSetsExt

CONSTANTS
    Functions,      \* the functions of the program (the stack)
    Main,           \* the function the execution was authorized for
    Calls,          \* Calls[f]: the functions f calls, in instruction order
    NumInputs,      \* NumInputs[f]: number of inputs of f
    NumOutputs,     \* NumOutputs[f]: number of outputs of f
    Finalizes,      \* the functions with a finalize scope
    FinalizeArity,  \* FinalizeArity[f]: operands of f's finalize command
    MaxInputs,      \* N::MAX_INPUTS
    MaxMutations    \* bound on the tampering steps before one verification

ASSUME Main \in Functions
ASSUME Calls \in [Functions -> Seq(Functions)]
ASSUME Finalizes \subseteq Functions
ASSUME MaxInputs \in Nat /\ MaxMutations \in Nat

VARIABLES
    execution,       \* the execution handed to verify_execution
    mutations,       \* tampering steps applied to it so far
    pc,              \* "idle" | "built" | "verifying" | "done"
    queue,           \* the replicated execution stack being popped
    verifierInputs,  \* verifier_inputs: function -> list of input vectors
    result           \* "none" | "ok" | "err"

vars == <<execution, mutations, pc, queue, verifierInputs, result>>

(***************************************************************************)
(* Field elements.                                                         *)
(***************************************************************************)
Elem(kind, node, i) == <<kind, node, i>>
One  == Elem("one", <<>>, 0)
Zero == Elem("zero", <<>>, 0)
Forged == Elem("forged", <<>>, 0)

\* Transition::to_root: the ID commits to the function, inputs and outputs.
ToRoot(t) == <<t.fn, t.node, t.inputs, t.outputs>>

\* The transition a call of f at call-tree position node produces.
HonestTransition(f, node) ==
    LET t == [fn      |-> f,
              node    |-> node,
              inputs  |-> [i \in 1..NumInputs[f] |-> Elem("in", node, i)],
              outputs |-> [j \in 1..NumOutputs[f] |-> Elem("out", node, j)],
              fin     |-> [has |-> f \in Finalizes,
                           len |-> IF f \in Finalizes THEN FinalizeArity[f] ELSE 0]]
    IN t @@ [id |-> ToRoot(t)]

\* Stack::execute_function: callees' transitions, in call order, then the
\* caller's own transition (pushed once its circuit is done).
RECURSIVE PostOrder(_, _)
PostOrder(f, node) ==
    FlattenSeq([k \in 1..Len(Calls[f]) |-> PostOrder(Calls[f][k], Append(node, k))])
        \o <<HonestTransition(f, node)>>

\* Stack::get_number_of_calls: transitions one call of f produces.
NumberOfCalls(f) == Len(PostOrder(f, <<>>))

\* Process::execute: the trace of one run of Main.
Produced == PostOrder(Main, <<>>)

(***************************************************************************)
(* The public-input vector of a transition (execute.rs 132-196).           *)
(***************************************************************************)
Header(t) == <<One, Elem("tpkx", t.node, 0), Elem("tpky", t.node, 0), Elem("tcm", t.node, 0)>>

\* N::hash_bhp1024 over the finalize inputs' bits.
Checksum(t) == Elem("checksum", t.node, t.fin.len)

FinalizeTail(t) == IF t.fn \in Finalizes THEN <<Checksum(t)>> ELSE <<>>

VerifierVector(t, callees) ==
    Header(t) \o t.inputs
        \o FlattenSeq([k \in 1..Len(callees) |-> callees[k].inputs \o callees[k].outputs])
        \o t.outputs \o FinalizeTail(t)

\* Mutant: the first n transitions left instead of the last n.
CalleeWindowFromFront(q, n) == IF n >= Len(q) THEN q ELSE SubSeq(q, 1, n)

\* queue.transitions().rev().take(n).rev(): the last n transitions left.
CalleeWindow(q, n) == IF n >= Len(q) THEN q ELSE SubSeq(q, Len(q) - n + 1, Len(q))

\* The statement the circuit of a call proves: its real callees' values.
ProverVector(t) ==
    VerifierVector(t, [k \in 1..Len(Calls[t.fn]) |->
                         HonestTransition(Calls[t.fn][k], Append(t.node, k))])

(***************************************************************************)
(* Varuna batch verification.  num_public_inputs is the vector length      *)
(* padded to a power of two; shorter vectors are padded with zeros.        *)
(***************************************************************************)
DomainSize(n) == Min({d \in {2^k : k \in 0..8} : d >= n})

PaddedSize(f) == DomainSize(Len(ProverVector(HonestTransition(f, <<>>))))

Pad(v, f) == v \o [i \in 1..(PaddedSize(f) - Len(v)) |-> Zero]

\* The execution proof: the padded statements of the produced transitions.
Proof == {<<t.fn, Pad(ProverVector(t), t.fn)>> : t \in ToSet(Produced)}

NumInstances(vi) == SumFunction([f \in Functions |-> Len(vi[f])])

Instances(vi) == UNION {{<<f, v>> : v \in ToSet(vi[f])} : f \in Functions}

SnarkVerifies(vi) ==
    /\ \A inst \in Instances(vi) : Len(inst[2]) <= PaddedSize(inst[1])
    /\ NumInstances(vi) = Cardinality(Proof)
    /\ {<<inst[1], Pad(inst[2], inst[1])>> : inst \in Instances(vi)} = Proof

NoInputs == [f \in Functions |-> <<>>]

(***************************************************************************)
(* Process::execute (execute.rs 20-51).                                    *)
(***************************************************************************)
Execute ==
    /\ pc = "idle"
    /\ Produced # <<>>
    /\ execution' = Produced
    /\ pc' = "built"
    /\ UNCHANGED <<mutations, queue, verifierInputs, result>>

(***************************************************************************)
(* Tampering with the execution before it reaches the verifier, as         *)
(* test_check_mutated_execution does (vm/verify.rs 692-727).               *)
(***************************************************************************)
Tamper(newExecution) ==
    /\ pc = "built"
    /\ mutations < MaxMutations
    /\ execution' = newExecution
    /\ mutations' = mutations + 1
    /\ UNCHANGED <<pc, queue, verifierInputs, result>>

\* Transition::new with one more output: the ID is recomputed.
AppendOutput(i, v) ==
    LET t == [execution[i] EXCEPT !.outputs = Append(@, v)]
    IN Tamper([execution EXCEPT ![i] = [t EXCEPT !.id = ToRoot(t)]])

\* The same output appended to a transition whose ID is left as it was.
AppendOutputKeepId(i, v) ==
    Tamper([execution EXCEPT ![i].outputs = Append(@, v)])

DropFinalize(i) ==
    /\ execution[i].fin.has
    /\ Tamper([execution EXCEPT ![i].fin = [has |-> FALSE, len |-> 0]])

ExtendFinalize(i) ==
    /\ execution[i].fin.has
    /\ Tamper([execution EXCEPT ![i].fin.len = @ + 1])

DropTransition(i) == Tamper(RemoveAt(execution, i))

SwapTransitions(i) ==
    Tamper([execution EXCEPT ![i] = execution[i + 1], ![i + 1] = execution[i]])

(***************************************************************************)
(* Process::verify_execution (execute.rs 53-228).                          *)
(***************************************************************************)
\* Mutant: the error is dropped on the way out.
FailNoResult ==
    /\ pc' = "done"
    /\ UNCHANGED <<execution, mutations, queue, verifierInputs, result>>

\* verify_execution returns an error (any ensure! or bail!).
Fail ==
    /\ pc' = "done"
    /\ result' = "err"
    /\ UNCHANGED <<execution, mutations, queue, verifierInputs>>

\* Non-empty, and as many transitions as the main function makes calls.
ExecutionShapeOk ==
    /\ execution # <<>>
    /\ NumberOfCalls(Last(execution).fn) = Len(execution)

VerifyBegin ==
    /\ pc = "built"
    /\ ExecutionShapeOk
    /\ pc' = "verifying"
    /\ queue' = execution
    /\ verifierInputs' = NoInputs
    /\ UNCHANGED <<execution, mutations, result>>

VerifyRejectShape ==
    /\ pc = "built"
    /\ ~ExecutionShapeOk
    /\ Fail

\* Mutant: the transition ID check dropped.
TransitionWellFormedNoId(t) ==
    /\ Len(t.inputs) <= MaxInputs
    /\ Len(t.outputs) <= MaxInputs

\* The transition ID is correct; inputs and outputs within N::MAX_INPUTS.
TransitionWellFormed(t) ==
    /\ t.id = ToRoot(t)
    /\ Len(t.inputs) <= MaxInputs
    /\ Len(t.outputs) <= MaxInputs

\* If the function has a finalize scope, the transition carries exactly
\* as many finalize inputs as the finalize command has operands.
FinalizeWellFormed(t) ==
    t.fn \in Finalizes =>
        /\ t.fin.has
        /\ t.fin.len <= MaxInputs
        /\ t.fin.len = FinalizeArity[t.fn]

VerifyTransition ==
    /\ pc = "verifying"
    /\ queue # <<>>
    /\ LET t    == Last(queue)
           rest == Front(queue)
       IN /\ TransitionWellFormed(t)
          /\ FinalizeWellFormed(t)
          /\ queue' = rest
          /\ verifierInputs' =
                [verifierInputs EXCEPT ![t.fn] =
                    Append(@, VerifierVector(t, CalleeWindow(rest, Len(Calls[t.fn]))))]
    /\ UNCHANGED <<execution, mutations, pc, result>>

VerifyRejectTransition ==
    /\ pc = "verifying"
    /\ queue # <<>>
    /\ ~(TransitionWellFormed(Last(queue)) /\ FinalizeWellFormed(Last(queue)))
    /\ Fail

\* One instance per transition, then Trace::verify_execution_proof.
VerifyFinish ==
    /\ pc = "verifying"
    /\ queue = <<>>
    /\ pc' = "done"
    /\ result' = IF NumInstances(verifierInputs) = Len(execution)
                       /\ SnarkVerifies(verifierInputs)
                 THEN "ok" ELSE "err"
    /\ UNCHANGED <<execution, mutations, queue, verifierInputs>>

\* The process goes on to the next execution.
Reset ==
    /\ pc = "done"
    /\ pc' = "idle"
    /\ execution' = <<>>
    /\ mutations' = 0
    /\ queue' = <<>>
    /\ verifierInputs' = NoInputs
    /\ result' = "none"

Init ==
    /\ execution = <<>>
    /\ mutations = 0
    /\ pc = "idle"
    /\ queue = <<>>
    /\ verifierInputs = NoInputs
    /\ result = "none"

Values == {Zero, Forged}

Next ==
    \/ Execute
    \/ \E i \in 1..Len(execution), v \in Values :
          AppendOutput(i, v) \/ AppendOutputKeepId(i, v)
    \/ \E i \in 1..Len(execution) :
          DropFinalize(i) \/ ExtendFinalize(i) \/ DropTransition(i)
    \/ \E i \in 1..(Len(execution) - 1) : SwapTransitions(i)
    \/ VerifyBegin
    \/ VerifyRejectShape
    \/ VerifyTransition
    \/ VerifyRejectTransition
    \/ VerifyFinish
    \/ Reset

Spec == Init /\ [][Next]_vars

(***************************************************************************)
(* Properties.                                                             *)
(***************************************************************************)
TypeOK ==
    /\ pc \in {"idle", "built", "verifying", "done"}
    /\ result \in {"none", "ok", "err"}
    /\ mutations \in 0..MaxMutations
    /\ Len(queue) <= Len(execution)
    /\ DOMAIN verifierInputs = Functions
    /\ (result = "none") = (pc # "done")

\* Completeness of verify_execution: an execution exactly as
\* Process::execute produced it, with its own proof, is accepted.  The
\* comment at execute.rs:156 says the last num_function_calls transitions
\* are the function's calls, in the order they were defined.
HonestExecutionAccepted ==
    pc = "done" /\ execution = Produced => result = "ok"

\* t equals the produced transition h except for zero-valued outputs
\* appended to h's outputs.
SameUpToZeroOutputs(t, h) ==
    /\ t.fn = h.fn /\ t.node = h.node /\ t.inputs = h.inputs /\ t.fin = h.fin
    /\ \E k \in 0..MaxInputs : t.outputs = h.outputs \o [j \in 1..k |-> Zero]

\* An execution verify_execution may accept: the produced transitions in
\* the produced order, each with a correct transition ID, differing from
\* them at most by appended zero outputs that fit into the Varuna
\* public-input padding.
AdmissibleExecution(e) ==
    /\ Len(e) = Len(Produced)
    /\ \A i \in 1..Len(e) :
          /\ e[i].id = ToRoot(e[i])
          /\ SameUpToZeroOutputs(e[i], Produced[i])

(***************************************************************************)
(* Refinement: verify_execution implements ExecutionVerifier.  The queue,  *)
(* the verifier inputs and the tampering count are hidden; building and    *)
(* verifying are both "submitted".                                         *)
(***************************************************************************)
Verifier == INSTANCE ExecutionVerifier
                WITH Admissible <- AdmissibleExecution,
                     pc <- IF pc \in {"built", "verifying"} THEN "submitted" ELSE pc

\* Whatever the tampering, verify_execution decides each execution once,
\* after the whole queue is popped or at the first failed check; it never
\* rejects the execution Process::execute produced (the comment at
\* execute.rs:156: the last num_function_calls transitions are the
\* function's calls), and accepts only admissible executions.
ImplementsVerifier == Verifier!Spec

\* The spec (section 6 and 8) and test_check_mutated_execution
\* (vm/verify.rs:741): an execution whose transitions differ from the
\* proven ones, even by one appended zero output, is rejected.
AcceptedExecutionIsProduced ==
    pc = "done" /\ result = "ok" => execution = Produced

=============================================================================
