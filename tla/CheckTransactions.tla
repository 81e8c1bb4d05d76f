------------------------- MODULE CheckTransactions -------------------------
(***************************************************************************)
(* VM::check_transactions and VM::check_transaction                        *)
(* (src/synthesizer/src/vm/verify.rs).                                     *)
(*                                                                         *)
(* check_transactions splits a list into deployments and the rest, cuts    *)
(* each part into chunks (MAX_PARALLEL_DEPLOY_VERIFICATIONS,               *)
(* MAX_PARALLEL_EXECUTE_VERIFICATIONS) and checks the transactions of one  *)
(* chunk in parallel with try_for_each, chunk after chunk.  Each           *)
(* check_transaction reads the ledger, peeks the shared                    *)
(* partially_verified_transactions LRU cache by transaction ID, verifies   *)
(* the deployment or execution proof unless the ID was cached, and pushes  *)
(* (ID, checksum of the transaction bytes) into the cache on success.      *)
(*                                                                         *)
(* A transaction is a record of what the checks look at: its ID (a Merkle  *)
(* root of its transitions, which does not cover the proof), its kind,     *)
(* whether its proof verifies, its unique items (transition IDs, serial    *)
(* numbers, commitments, ...), the program a deployment creates, its fee,  *)
(* the program an execution calls, the cost of the deployment or          *)
(* execution, whether it is a lone split                                   *)
(* (no fee required), whether it is submitted with a rejected ID, and its  *)
(* execution ID (for a fee transaction, the rejected ID it carries).  The  *)
(* checksum of its bytes is the transaction itself: two transactions       *)
(* differ iff their bytes do.                                              *)
(***************************************************************************)
EXTENDS Integers, Sequences, SequencesExt, FiniteSets

CONSTANTS
    Txs,                \* the transactions that may be submitted
    Tx,                 \* Tx[t]: [id, kind, proofOk, items, program, calls,
                        \*         fee, cost, splitOnly, rejected, execution]
    Builtins,           \* programs in the process from genesis (credits.aleo)
    Payers,             \* the accounts that pay public fees
    InitialBalance,     \* credits.aleo/account of each payer at genesis
    MaxFee,             \* N::MAX_FEE
    MaxBatch,           \* longest list handed to check_transactions
    MaxParallelDeploy,  \* MAX_PARALLEL_DEPLOY_VERIFICATIONS
    MaxParallelExecute, \* MAX_PARALLEL_EXECUTE_VERIFICATIONS
    CacheCapacity,      \* capacity of partially_verified_transactions
    MaxBlocks,          \* bound on the blocks the environment adds
    SkipTxChecks        \* the build has feature "test_skip_tx_checks"

ASSUME MaxParallelDeploy >= 1 /\ MaxParallelExecute >= 1 /\ CacheCapacity >= 1
ASSUME SkipTxChecks \in BOOLEAN

VARIABLES
    ledgerIds,      \* transaction IDs in the block store
    ledgerItems,    \* unique items (serial numbers, ...) in the stores
    ledgerPrograms, \* deployed program IDs
    ledgerRejected, \* rejected deployment or execution IDs in the block store
    balances,       \* the payers' balances in the finalize store
    cache,          \* the LRU cache: <<id, checksum>>, least recent first
    call,           \* the running call: [list, chunks, next, ok], or Idle
    workers,        \* worker of each transaction of the current chunk
    accepted,       \* transactions check_transaction returned Ok for
    lastResult      \* "none" | "ok" | "err": what the last call returned

vars == <<ledgerIds, ledgerItems, ledgerPrograms, ledgerRejected, balances, cache,
          call, workers, accepted, lastResult>>

\* What the ledger holds; it changes only when a block is added.
ledger == <<ledgerIds, ledgerItems, ledgerPrograms, ledgerRejected, balances>>

\* No call is running.
Idle == [list |-> <<>>, chunks |-> <<>>, next |-> 0, ok |-> {}]

(***************************************************************************)
(* lru::LruCache::peek and push.                                           *)
(***************************************************************************)
CachedIds == {cache[i][1] : i \in DOMAIN cache}

LruPush(c, id, checksum) ==
    LET rest == SelectSeq(c, LAMBDA e : e[1] # id)
        kept == IF Len(rest) >= CacheCapacity THEN Tail(rest) ELSE rest
    IN Append(kept, <<id, checksum>>)

(***************************************************************************)
(* check_transactions: partition and chunking (verify.rs 46-50).           *)
(***************************************************************************)
\* Mutant: only full chunks (chunks_exact).
ChunksExact(s, n) == [k \in 1..(Len(s) \div n) |-> SubSeq(s, (k - 1) * n + 1, k * n)]

\* slice::chunks: consecutive pieces of n, the last one possibly shorter.
Chunks(s, n) ==
    [k \in 1..((Len(s) + n - 1) \div n) |->
        SubSeq(s, (k - 1) * n + 1, IF k * n < Len(s) THEN k * n ELSE Len(s))]

IsDeploy(t) == Tx[t].kind = "deploy"

Batches(list) ==
    Chunks(SelectSeq(list, IsDeploy), MaxParallelDeploy)
        \o Chunks(SelectSeq(list, LAMBDA t : ~IsDeploy(t)), MaxParallelExecute)

(***************************************************************************)
(* check_fee and check_fee_internal (verify.rs 230-292, 360-404).  A fee   *)
(* is [present, base, amount, public, payer, verifies]: amount is the base *)
(* plus the priority fee, verifies that verify_fee accepts its proof and   *)
(* its global state root exists.                                           *)
(***************************************************************************)
\* The balance check reads the finalize store speculatively, as it is now.
CheckFeeInternal(f) ==
    /\ f.amount <= MaxFee
    /\ f.public => balances[f.payer] >= f.amount
    /\ f.verifies

FeeRequired(t) == ~Tx[t].splitOnly

CheckFee(t) ==
    LET f == Tx[t].fee IN
    CASE Tx[t].kind = "deploy" ->
            /\ ~Tx[t].rejected
            /\ f.base >= Tx[t].cost
            /\ CheckFeeInternal(f)
      [] Tx[t].kind = "execute" ->
            /\ ~Tx[t].rejected
            /\ IF f.present
               THEN /\ IF FeeRequired(t) THEN f.base >= Tx[t].cost ELSE f.base = 0
                    /\ CheckFeeInternal(f)
               ELSE ~FeeRequired(t)
      [] Tx[t].kind = "fee" ->
            /\ Tx[t].rejected
            /\ CheckFeeInternal(f)

(***************************************************************************)
(* check_transaction up to the cache peek (verify.rs 83-186): ledger       *)
(* uniqueness, the fee, and the deployment's program ID.                   *)
(***************************************************************************)
HasDuplicates(s) == Cardinality(ToSet(s)) < Len(s)

\* Mutant: the program ID is looked up in the store only.
PreChecksPassStoreOnly(t) ==
    \/ SkipTxChecks
    \/ /\ Tx[t].id \notin ledgerIds
       /\ ~HasDuplicates(Tx[t].items)
       /\ ToSet(Tx[t].items) \cap ledgerItems = {}
       /\ CheckFee(t)
       /\ IsDeploy(t) => Tx[t].program \notin ledgerPrograms

\* The checks before the cache peek; a deployment's program must be in
\* neither the transaction store nor the process (verify.rs 177-184).
PreChecksPass(t) ==
    \/ SkipTxChecks
    \/ /\ Tx[t].id \notin ledgerIds
       /\ ~HasDuplicates(Tx[t].items)
       /\ ToSet(Tx[t].items) \cap ledgerItems = {}
       /\ CheckFee(t)
       /\ IsDeploy(t) => Tx[t].program \notin ledgerPrograms \cup Builtins

\* check_deployment_internal (verify.rs 301-315): Process::verify_deployment.
CheckDeploymentInternal(t) == Tx[t].proofOk

\* Mutant: the execution's program is not looked up in the process.
CheckExecutionInternalNoStack(t, partial) == partial \/ Tx[t].proofOk

\* check_execution_internal (verify.rs 323-353): verify_execution unless
\* partially verified; it verifies against the stack of the program
\* (Process::get_stack, execute.rs:66), a built-in program or one whose
\* deployment's block was added.  Restricted transitions and the state
\* root are folded into proofOk.
CheckExecutionInternal(t, partial) ==
    \/ partial
    \/ /\ Tx[t].proofOk
       /\ Tx[t].calls \in ledgerPrograms \cup Builtins

\* Mutant: the replay check skipped, with verification, for a cached ID.
ProofPassesReplayCached(t, partial) ==
    \/ SkipTxChecks
    \/ Tx[t].kind = "fee"
    \/ Tx[t].kind = "deploy" /\ (partial \/ CheckDeploymentInternal(t))
    \/ /\ Tx[t].kind = "execute"
       /\ partial \/ Tx[t].execution \notin ledgerRejected
       /\ CheckExecutionInternal(t, partial)

\* The deployment or execution verifies, or is skipped as cached
\* (verify.rs 162-209); an execution whose ID a block already rejected
\* fails whether or not it is cached (verify.rs 201-205).
ProofPasses(t, partial) ==
    \/ SkipTxChecks
    \/ Tx[t].kind = "fee"
    \/ Tx[t].kind = "deploy" /\ (partial \/ CheckDeploymentInternal(t))
    \/ /\ Tx[t].kind = "execute"
       /\ Tx[t].execution \notin ledgerRejected
       /\ CheckExecutionInternal(t, partial)

\* Mutant: the entry is appended without the LRU's eviction.
CacheAfterAppend(t, partial) ==
    IF SkipTxChecks \/ Tx[t].kind = "fee" \/ partial THEN cache
    ELSE Append(cache, <<Tx[t].id, t>>)

\* The cache is written only for deployments and executions that were
\* not found in it (verify.rs 217-222).
CacheAfter(t, partial) ==
    IF SkipTxChecks \/ Tx[t].kind = "fee" \/ partial THEN cache
    ELSE LruPush(cache, Tx[t].id, t)

(***************************************************************************)
(* Actions.                                                                *)
(***************************************************************************)
\* check_transactions is called with a list of distinct transactions.
CheckTransactions(list) ==
    /\ call = Idle
    /\ call' = [list |-> list, chunks |-> Batches(list), next |-> 1, ok |-> {}]
    /\ workers' = <<>>
    /\ lastResult' = "none"
    /\ UNCHANGED <<ledger, cache, accepted>>

Chunk == call.chunks[call.next - 1]

\* Mutant: a transaction failing the ledger or fee checks is retried.
PeekRetry(w) ==
    /\ call # Idle
    /\ workers[w].st = "ready"
    /\ workers' = [workers EXCEPT ![w] =
                     IF PreChecksPass(Chunk[w])
                     THEN [st |-> "peeked", partial |-> Tx[Chunk[w]].id \in CachedIds]
                     ELSE workers[w]]
    /\ UNCHANGED <<ledger, cache, call, accepted, lastResult>>

\* A worker runs check_transaction up to the cache peek (verify.rs 83-159).
Peek(w) ==
    /\ call # Idle
    /\ workers[w].st = "ready"
    /\ workers' = [workers EXCEPT ![w] =
                     IF PreChecksPass(Chunk[w])
                     THEN [st |-> "peeked", partial |-> Tx[Chunk[w]].id \in CachedIds]
                     ELSE [st |-> "failed", partial |-> FALSE]]
    /\ UNCHANGED <<ledger, cache, call, accepted, lastResult>>

\* Mutant: the cache is written before the proof is checked.
CompletePushFirst(w) ==
    /\ call # Idle
    /\ workers[w].st = "peeked"
    /\ LET t == Chunk[w] IN
       /\ cache' = CacheAfter(t, workers[w].partial)
       /\ IF ProofPasses(t, workers[w].partial)
          THEN /\ workers' = [workers EXCEPT ![w].st = "ok"]
               /\ accepted' = accepted \cup {t}
               /\ call' = [call EXCEPT !.ok = @ \cup {t}]
          ELSE /\ workers' = [workers EXCEPT ![w].st = "failed"]
               /\ UNCHANGED <<accepted, call>>
    /\ UNCHANGED <<ledger, lastResult>>

\* The rest of check_transaction (verify.rs 161-225): the proof is
\* verified unless cached, and the cache written on success.
Complete(w) ==
    /\ call # Idle
    /\ workers[w].st = "peeked"
    /\ LET t == Chunk[w] IN
       IF ProofPasses(t, workers[w].partial)
       THEN /\ cache' = CacheAfter(t, workers[w].partial)
            /\ workers' = [workers EXCEPT ![w].st = "ok"]
            /\ accepted' = accepted \cup {t}
            /\ call' = [call EXCEPT !.ok = @ \cup {t}]
       ELSE /\ workers' = [workers EXCEPT ![w].st = "failed"]
            /\ UNCHANGED <<cache, accepted, call>>
    /\ UNCHANGED <<ledger, lastResult>>

\* Mutant: a failed worker is taken as finished, as if the results of
\* the parallel iteration were discarded.
ChunkDoneIgnoresFailed ==
    /\ call # Idle
    /\ \A w \in DOMAIN workers : workers[w].st \in {"ok", "failed"}
    /\ IF call.next > Len(call.chunks)
       THEN /\ call' = Idle
            /\ workers' = <<>>
            /\ lastResult' = "ok"
       ELSE /\ call' = [call EXCEPT !.next = @ + 1]
            /\ workers' = [i \in 1..Len(call.chunks[call.next]) |->
                             [st |-> "ready", partial |-> FALSE]]
            /\ UNCHANGED lastResult
    /\ UNCHANGED <<ledger, cache, accepted>>

\* try_for_each: all workers of the chunk succeeded (or none ran yet);
\* start the next chunk or return Ok.
ChunkDone ==
    /\ call # Idle
    /\ \A w \in DOMAIN workers : workers[w].st = "ok"
    /\ IF call.next > Len(call.chunks)
       THEN /\ call' = Idle
            /\ workers' = <<>>
            /\ lastResult' = "ok"
       ELSE /\ call' = [call EXCEPT !.next = @ + 1]
            /\ workers' = [i \in 1..Len(call.chunks[call.next]) |->
                             [st |-> "ready", partial |-> FALSE]]
            /\ UNCHANGED lastResult
    /\ UNCHANGED <<ledger, cache, accepted>>

\* try_for_each: a worker failed; the workers already running finish,
\* those not started are skipped, and the call returns the error.
ChunkFailed ==
    /\ call # Idle
    /\ \E w \in DOMAIN workers : workers[w].st = "failed"
    /\ \A w \in DOMAIN workers : workers[w].st # "peeked"
    /\ call' = Idle
    /\ workers' = <<>>
    /\ lastResult' = "err"
    /\ UNCHANGED <<ledger, cache, accepted>>

\* The fee a transaction charges to its payer's public balance.
PublicFee(t, p) ==
    IF Tx[t].fee.present /\ Tx[t].fee.public /\ Tx[t].fee.payer = p
    THEN Tx[t].fee.amount ELSE 0

\* A block with an accepted transaction is added to the ledger; its
\* public fee is paid from the payer's balance, and a fee transaction
\* records the ID of the execution it rejects.
AddBlock(t) ==
    /\ call = Idle
    /\ t \in accepted
    /\ Tx[t].id \notin ledgerIds
    /\ Cardinality(ledgerIds) < MaxBlocks
    /\ \A p \in Payers : balances[p] >= PublicFee(t, p)
    /\ balances' = [p \in Payers |-> balances[p] - PublicFee(t, p)]
    /\ ledgerIds' = ledgerIds \cup {Tx[t].id}
    /\ ledgerItems' = ledgerItems \cup ToSet(Tx[t].items)
    /\ ledgerPrograms' = IF IsDeploy(t) THEN ledgerPrograms \cup {Tx[t].program}
                         ELSE ledgerPrograms
    /\ ledgerRejected' = IF Tx[t].kind = "fee" THEN ledgerRejected \cup {Tx[t].execution}
                         ELSE ledgerRejected
    /\ UNCHANGED <<cache, call, workers, accepted, lastResult>>

Init ==
    /\ ledgerIds = {}
    /\ ledgerItems = {}
    /\ ledgerPrograms = {}
    /\ ledgerRejected = {}
    /\ balances = InitialBalance
    /\ cache = <<>>
    /\ call = Idle
    /\ workers = <<>>
    /\ accepted = {}
    /\ lastResult = "none"

\* The lists of distinct transactions of length at most MaxBatch.
Lists == UNION {{s \in [1..n -> Txs] : IsInjective(s)} : n \in 0..MaxBatch}

Next ==
    \/ \E list \in Lists : CheckTransactions(list)
    \/ \E w \in DOMAIN workers : Peek(w) \/ Complete(w)
    \/ ChunkDone
    \/ ChunkFailed
    \/ \E t \in Txs : AddBlock(t)

Spec == Init /\ [][Next]_vars

\* try_for_each runs every task of a chunk to completion on the rayon pool
\* and returns to the loop, which moves on without waiting for anything
\* else: a worker that can step keeps being able to until it does, and so
\* does the end of a chunk.  New calls and blocks are up to the caller.
FairSpec ==
    /\ Spec
    /\ WF_vars(\E w \in DOMAIN workers : Peek(w) \/ Complete(w))
    /\ WF_vars(ChunkDone)
    /\ WF_vars(ChunkFailed)

(***************************************************************************)
(* Properties.                                                             *)
(***************************************************************************)
TypeOK ==
    /\ ledgerIds \subseteq {Tx[t].id : t \in Txs}
    /\ ledgerRejected \subseteq {Tx[t].execution : t \in Txs}
    /\ accepted \subseteq Txs
    /\ Len(cache) <= CacheCapacity
    /\ lastResult \in {"none", "ok", "err"}
    /\ \A w \in DOMAIN workers : workers[w].st \in {"ready", "peeked", "ok", "failed"}

\* Every deployment or execution check_transaction ever accepted carries
\* a proof that verifies: the cache only lets a transaction skip
\* verification when these same bytes were verified before (the checksum
\* of the bytes is computed at verify.rs:155 and stored at :221).
AcceptedTransactionsVerified ==
    \A t \in accepted : Tx[t].kind # "fee" => Tx[t].proofOk

\* When check_transactions returns Ok, every transaction of its list was
\* checked by check_transaction and accepted: no chunk is left out.
ChunkingCoversBatch ==
    [][call # Idle /\ call' = Idle /\ lastResult' = "ok" =>
         ToSet(call.list) \subseteq call.ok]_vars

\* The program lifecycle within one call: an execution runs a program the
\* process held before the call, and a deployment creates a program that
\* was neither deployed nor built in (credits.aleo).  Deployments are
\* checked before executions (verify.rs 46-53), but a program enters the
\* store and the process only when its block is added, so a list with a
\* deployment and an execution of its program is not accepted whole
\* (test_verify_deploy_and_execute adds the block in between).
ProgramLifecycle ==
    \A t \in call.ok :
        /\ Tx[t].kind = "execute" => Tx[t].calls \in ledgerPrograms \cup Builtins
        /\ IsDeploy(t) => Tx[t].program \notin ledgerPrograms \cup Builtins

\* An execution that a block already rejected is never accepted again,
\* even when the partially-verified cache still holds its transaction
\* from a check before that block: check_transaction looks the execution
\* ID up among the rejected IDs (verify.rs 201-205) outside the
\* is_partially_verified skip that covers the proof.
RejectedNotReplayed ==
    \A t \in call.ok : Tx[t].kind = "execute" => Tx[t].execution \notin ledgerRejected

\* Every check_transactions call returns, with Ok or an error: each chunk's
\* workers finish and the loop over the chunks ends.
CallsReturn == call # Idle ~> call = Idle

(***************************************************************************)
(* Refinement: check_transactions implements CheckTransactionsContract.   *)
(* A transaction is valid when it passes the ledger and fee checks and its *)
(* proof verifies without help from the cache; the chunks, the workers and *)
(* the cache are hidden.                                                   *)
(***************************************************************************)
ValidTxs == {t \in Txs : PreChecksPass(t) /\ ProofPasses(t, FALSE)}

Contract == INSTANCE CheckTransactionsContract
                WITH valid <- ValidTxs, busy <- call # Idle, pending <- ToSet(call.list),
                     ok <- call.ok, result <- lastResult

\* Whatever the interleaving of the workers, the chunking and the cache,
\* a call accepts only valid transactions, returns Ok only after accepting
\* its whole list and returns an error only when the list holds an invalid
\* transaction.
ImplementsContract == Contract!Spec

=============================================================================
