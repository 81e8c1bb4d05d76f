# TLA+ models of snarkVM transaction and proof verification

This directory holds TLA+ models of the parts of this repository's `src/` that
decide whether a proof, an execution or a transaction is accepted, and of the
encodings those decisions depend on. `PROJECT.json` lists every component, run,
mutant, finding and hazard. It also maps every model definition to the source
lines it translates.

## 1. Inventory

| Component | Source | State and operations | Status |
|---|---|---|---|
| Execution and its verification | `synthesizer/src/process/execute.rs` | `execute` builds a trace of transitions in post-order (a callee is pushed when it finishes; main is last). `verify_execution` pops transitions from the back of a copy of the queue. For each one it checks the ID and the input/output bounds, and builds a public-input vector (header, own inputs, the inputs and output IDs of the last `num_function_calls` queue entries, own outputs, finalize checksum). It groups the vectors per function, checks the instance count, and batch-verifies the Varuna proof. | partly |
| Transaction checks | `synthesizer/src/vm/verify.rs` | `check_transactions` splits a list into deployments and the rest, cuts them into chunks of 5 and 1000, and runs `check_transaction` in parallel over each chunk, one chunk after another. `check_transaction` checks against the ledger (ID, Merkle root, nine uniqueness checks), then runs `check_fee` / `check_fee_internal` (cost, the `MAX_FEE` limit, a speculative public balance check, fee proof, state root). It then peeks a shared LRU cache of partially verified transactions by ID. It checks that a deployment's program is in neither the store nor the process, and that an execution was not rejected in an earlier block. It verifies the deployment or execution unless it was cached, and pushes `(id, checksum)` into the cache. | modelled |
| Mutated-execution test | `verify.rs` 676-742 | Appends a zero `ExternalRecord` output, recomputes the transition ID, keeps the proof, and asserts rejection. | modelled |
| Degree bounds and encoding | `varuna/ahp/indexer/circuit_info.rs` | `get_degree_bounds`: four `compute_size_of_domain(n).unwrap() - 2` in `usize`. `write_le`: the six counters as `u64`, little-endian, in a fixed order. `max_degree`: the max of the three non-zero counts, passed to `AHPForR1CS::max_degree`. | partly |
| Pedersen parameters | `algorithms/src/commitment/pedersen_parameters.rs` | `setup`, plus `write_le` / `read_le` with `u32` length prefixes. | modelled |
| Verifying-key text form | `synthesizer/snark/src/verifying_key/parse.rs` | `Parser::parse` (nom recognizer, underscores stripped), `FromStr` (bech32 decode, prefix, empty-data and variant guards, `read_le`), `Display`/`Debug`. | modelled |
| Transaction leaf bits | `console/.../transaction_leaf/to_bits.rs` | variant, index and ID concatenated, little- or big-endian. | modelled |
| Varuna tests | `varuna/tests.rs` | prove/verify, batching and certificate tests. | not modelled |
| Committee prop tests | `ledger/committee/src/prop_tests.rs` | proptest generators. Consensus is out of the spec's scope. | not modelled |

**How they interact.** `check_transaction` calls `verify_execution` (through
`check_execution_internal`) unless the cache says the transaction was verified
before. `verify_execution` builds per-transition vectors, and their length is what
Varuna pads to a power of two. The size of that domain is what
`get_degree_bounds` computes for a circuit.

**What is hard.**
- The order of transitions in the queue against the order the verifier assumes.
- Zero padding that makes different public-input vectors verify with one proof.
- Parallel workers sharing a cache.
- A cache keyed by something that does not cover what was verified.
- `usize` and `u32` edges, and corrupted byte streams.

**What makes each part correct.**
- Honest executions are accepted; accepted executions are the proven ones.
- An accepted transaction has a verified proof.
- `Ok` covers the whole list.
- Every call returns.
- The degree bounds are the domain size minus 2, with errors instead of panics.
- `read_le` inverts `write_le`, and accepts only canonical streams.
- A displayed verifying key parses back to itself; distinct transaction leaves have distinct bits.

## 2. Modules and how they correspond to the code

### `ProcessExecution` (execute.rs; tamper actions from verify.rs 692-727)

**State.**
- `execution` is the sequence of transitions. A transition is a record `[fn, node, inputs, outputs, fin, id]`, where `node` is its path in the call tree.
- `queue` is the verifier's copy of the execution.
- `verifierInputs` holds the vectors per function.
- `pc` and `result` track the call.

**Actions.**
- `Execute` produces the post-order trace (`PostOrder`).
- `VerifyBegin` and `VerifyRejectShape` are lines 59-84.
- `VerifyTransition` and `VerifyRejectTransition` are one loop iteration (86-213). `CalleeWindow` is line 158 exactly: the last `n` entries of the queue, in queue order.
- `VerifyFinish` covers 215-227.

**Tampering.** The actions `AppendOutput` (the test's mutation), `AppendOutputKeepId`, `DropFinalize`, `ExtendFinalize`, `DropTransition` and `SwapTransitions` change the execution before verification, at most `MaxMutations` times.

**Varuna as an oracle** (from the spec, since Varuna's verifier is not in `src/`).
- The proof is the set of (function, padded prover vector) pairs.
- A verifier vector is accepted iff, padded with zeros to the same power of two, it equals a proven one.
- Each function's instance count must match.

**Bounds.**
- `MCProcessExecution` has four functions with one input and one output each, and one finalize scope.
- `FlatCalls` is main→(a, b), a→(c). `NestedCalls` is main→(c, a), a→(b).
- `MaxInputs = 2`, so padding slack exists. `MaxMutations = 2`.

**Contract.** `ExecutionVerifier` is what `verify_execution` promises, without queue, vectors or proof. An execution is produced (`Submit`), may be replaced by anything before the decision (`Replace`), and is then decided once: `Accept` only if it is admissible, `Reject` only if it is not the produced one. `ProcessExecution` instantiates it as `Verifier`, with this mapping:
- `Admissible` ↦ `AdmissibleExecution`: the produced transitions in order, each with a correct ID, differing at most by appended zero outputs;
- `pc` ↦ `"submitted"` while built or verifying, otherwise `pc` itself; `execution` and `result` map to themselves.

`ImplementsVerifier == Verifier!Spec` is checked as a PROPERTY. It covers completeness (the produced execution is never rejected) and the soundness that holds (acceptance only up to zero padding), and it shows that the decision is made exactly once.

### `CheckTransactions` (verify.rs 17-404)

**A transaction** is a record of what the checks read: its ID, kind, proof verdict, unique items, deployed program, the program an execution calls, fee record, cost, lone-split flag, rejected-ID flag and execution ID. For a fee transaction, the execution ID is the rejected ID it carries. An execution verifies only if its program is built in (`Builtins`) or was deployed in a block already added: `verify_execution` looks its stack up (execute.rs:66). A deployment fails if its program is in the store (verify.rs:179) or in the process (:183). The process holds `credits.aleo` from genesis, with no deployment in the store. An execution fails if a block already rejected its execution ID (:203). That check is made even when the cache lets the proof be skipped.

**State.**
- The ledger: `ledgerIds`, `ledgerItems`, `ledgerPrograms`, `ledgerRejected` (the rejected IDs in the block store) and `balances`.
- The LRU `cache`, a sequence of `(id, checksum)` with the least recent first.
- The running `call`: list, chunks, current chunk and accepted set.
- One `workers` entry per transaction of the current chunk.
- `accepted` and `lastResult`.

**Actions.**
- `CheckTransactions(list)` (41-63).
- `Peek(w)`: one worker runs `check_transaction` through the cache peek (69-159, `check_fee` included).
- `Complete(w)`: verification and cache push (160-225).
- `ChunkDone` and `ChunkFailed`: the end of `try_for_each`. Workers of a chunk interleave in any order.
- `AddBlock(t)` adds an accepted transaction to the ledger and charges its public fee. A fee transaction also records the ID it rejects. This action is the environment.

**Bounds.**
- Transactions: `exec`, `bad`, `dep`, `fee` (the fee transaction of a block that rejected `exec`'s execution), `use` (runs the program `dep` deploys), `redeploy` (deploys `credits.aleo`), plus `forgery` (same ID as `exec`, failing proof).
- Lists of up to 3 distinct transactions.
- Chunk sizes 2 for both deployments and executions in `ct_honest`, and 1 for deployments in `ct_forgery`. Every run has short last chunks and calls that span several chunks.
- `ct_honest` checks `exec`, `bad`, `dep`, `fee`, `use` and `redeploy`, with cache capacity 2 and at most `MaxBlocks = 3` blocks. Three of these transactions can be cached, so entries are evicted, and which one goes depends on the LRU order. Three blocks are enough to reach deploy then use, reject then replay, and spend then re-spend, in any order. Without a bound on blocks, the ledger would grow through every order of the accepted transactions. No transaction is a lone split: no property is about the lone-split fee rule, and such a transaction multiplied the state space by six.
- `ct_forgery` uses cache capacity 1 and `MaxBlocks = 2`. Its violation needs one cached entry and no block.
- `MaxFee = 1`.

**Contract.** `CheckTransactionsContract` is what a call promises, without chunks, workers or cache: it accepts only valid transactions, returns Ok only once the whole list is accepted, and returns an error only when the list holds an invalid transaction. The set of valid transactions changes only between calls. `CheckTransactions` instantiates it as `Contract`, with this mapping:
- `valid` ↦ `ValidTxs`, the transactions that pass the ledger and fee checks and whose proof verifies without the cache;
- `busy` ↦ `call # Idle`, `pending` ↦ the call's list, `ok` ↦ `call.ok`, `result` ↦ `lastResult`.

`ImplementsContract == Contract!Spec` is checked as a PROPERTY.

### `CircuitInfo` (circuit_info.rs 27-76)

**State.** `info` is any assignment of `Counts = {0, 1, 2, 3, 16, 17}` to the six counters. `outcome` is what `get_degree_bounds` returns (action `Call`), and `encoding` is the bytes `write_le` writes (action `Write`).

**Encoding.** `WriteLe` writes each counter `as u64` as eight little-endian bytes, in the code's order. `EncodingRoundTrips` decodes them with a reference: six u64 little-endian words in the field order of spec §3 (the encoding of §6), via the RECURSIVE `LeValue`.

**Arithmetic.** `compute_size_of_domain` is the next power of two, or None above `2^TWO_ADICITY`. `usize` subtraction panics or wraps, depending on `OverflowChecks`.

**Bounds.** `UsizeBits = 8` and `TwoAdicity = 4`, so 16 fits in the field and 17 does not. 0 and 1 reach the underflow.

**Reference.** `RefDomainSize` is a RECURSIVE doubling, the reference the bounds are compared with.

### `PedersenParameters` (pedersen_parameters.rs)

**Stream.** The byte stream is a sequence of tokens: a `u32` length (written modulo `2^U32Bits`) or a group element.

**Group.** The group is Z_Order, and `double_in_place` is doubling mod Order. A token encodes an element iff it is below Order.

**Actions.**
- `Setup` covers every CRH base choice and every random base (with its doublings).
- `Write` runs `write_le`.
- `Truncate` and `Overwrite` corrupt the stream, up to `MaxCorruptions = 2` times.
- `Receive(b)` hands the reader any stream of up to `MaxForeignLen = 3` tokens instead: input from an untrusted source.
- `Read` runs `read_le` (RECURSIVE readers). A result also records `cap`, the largest `Vec::with_capacity` the read asked for, even when it then fails. No property is stated about `cap`; see section 5.

**Bounds.** 2 windows of 2 bases, Order 2, 2-bit `u32`, and tokens up to 3 (3 is not an element, and it is the largest length).

### `VerifyingKeyText` (parse.rs)

**Strings.** A string is a sequence of tokens: the human-readable part, the separator `1`, a data character (one byte of a key), an underscore, the checksum (recording its variant and the data it covers) or a character outside the charset. A key is `KeyLen` symbols.

**Code.** `Display` is `bech32::encode("verifier", bytes, Bech32m)`. `FromStr` applies the guards in the code's order: decode, prefix, empty data, variant, then `read_le`. `Parse` takes the greedy run of charset characters and underscores after `verifier1`, strips the underscores and calls `FromStr`; the rest of the input is returned. `bech32::decode` and `VerifyingKey::read_le` are not in `src/` and are modelled from their contracts. `read_le` reads `KeyLen` bytes from the front.

**Actions.** Every correctly checksummed string of up to `KeyLen + 1` data characters, with either prefix and either variant, is a start state. Up to `MaxEdits = 2` edits follow (`InsertUnderscore`, `SetSymbol`, `AppendSpace`), and `Decode` runs both `Parse` and `FromStr`.

### `TransactionLeafBits` (to_bits.rs)

`WriteBitsLe` and `WriteBitsBe` concatenate the variant, index and ID bits, each field in the chosen order. The widths are 2, 2 and 3 bits, with a field modulus of 7 (below `2^3`, as a real field is), so every leaf is enumerated.

## 3. Runs

| Run | Expect | Shows |
|---|---|---|
| `pe_flat` | pass | With a nested call only in main's first callee, `verify_execution` implements `ExecutionVerifier`: the honest execution is accepted, every tampered execution that is accepted equals the produced one up to appended zero outputs, and each execution is decided once. |
| `pe_nested` | violation | main→(c, a), a→(b): the window for main holds `b, a` instead of `c, a`, and an honest execution is rejected (execute.rs:158). |
| `pe_padding` | violation | An extra zero output with a recomputed ID is accepted with the old proof. This contradicts spec §6/§8 and the test assertion at verify.rs:741. |
| `ct_honest` | pass | Under `FairSpec`, with distinct IDs: no unverified proof is accepted, even under eviction and interleaved workers. An execution is accepted only if its program is built in or was deployed in an earlier block, and a deployment only if its program is neither (`ProgramLifecycle`). An execution rejected in an earlier block is never accepted again, even from the cache (`RejectedNotReplayed`). `Ok` means every transaction of the list was accepted. Every call returns. The implementation refines `CheckTransactionsContract`. |
| `ct_forgery` | violation | Same ID, different proof: the cache lookup by ID (verify.rs:159) skips verification. The checksum stored at :221 is never compared. |
| `ci_checked` | pass | With overflow checks, `write_le`'s bytes decode to the six counters in the spec's order. |
| `ci_release` | violation | Counters 0 and 1 give the bound `usize::MAX`, and a domain above `2^TWO_ADICITY` panics instead of returning `DomainTooLarge`. |
| `pp_roundtrip` | pass | `read_le ∘ write_le` is the identity. Every accepted stream, whether corrupted or foreign, is a canonical encoding followed by unread bytes. |
| `vk_roundtrip` | pass | A displayed key is decoded to itself by `FromStr`, and parsed to itself by `Parser::parse` even with underscores inserted in the data and text appended. |
| `tl_injective` | pass | No two leaves share their little- or big-endian bits. |

Each property of a passing run has a mutant in `PROJECT.json`: a plausible bug in the mapped definition (a missing guard, an off-by-one, a wrong order, a missing eviction). TLC finds each of them.

**Deadlock.**
- `CircuitInfo` and `PedersenParameters` model a single call and stop after it, so their cfgs say `CHECK_DEADLOCK FALSE`.
- `VerifyingKeyText` and `TransactionLeafBits` also model one call, so their cfgs say `CHECK_DEADLOCK FALSE` too.
- `ProcessExecution` and `CheckTransactions` run forever: `Reset` after each verification, and new calls after each one.

## 4. Fairness

`CheckTransactions!FairSpec` adds weak fairness of three things:
- a worker step (`Peek` or `Complete` of some worker);
- `ChunkDone`;
- `ChunkFailed`.

The code justifies this. `try_for_each` runs every task of a chunk to completion on the rayon pool and blocks until they finish. The loop over the chunks then continues with nothing else to wait for. No fairness is assumed for new calls (`CheckTransactions`) or for blocks (`AddBlock`), since both are up to the caller. Under these assumptions `CallsReturn` holds: every call returns Ok or an error. The other modules check safety only.

## 5. Not modelled, and why

**Not modelled at all.**
- The cryptography: hashes, signatures, the polynomial commitments and the inside of Varuna. Only their verdicts are modelled, since TLC cannot reach them.
- The input/output `verify` calls of `verify_execution`, which are abstracted: inputs and outputs are values they accept.
- The `HashMap` order of `verifier_inputs` (execute.rs:221): canonicalising it is `verify_execution_proof`'s job, and that code is not under `src/`. The model's proof check compares the instances as a set per function.
- `CircuitInfo::max_degree`: its own step is a max of three counters. The rest is `AHPForR1CS::max_degree`, which is not under `src/`, and the spec gives no formula for it.
- The committee property tests.
- Conflicts between the transactions of one list. `check_transaction` compares each transaction with the ledger only, and checks each public fee against the payer's current balance on its own (the TODO at verify.rs:371 calls that check insufficient). Two transactions of one call may therefore both be accepted while sharing a serial number, or while their fees together exceed the balance. Nothing in the code or the spec promises otherwise. "Unique" in the comment at verify.rs:54 means unique against the ledger, as the macro's doc at :17-18 says. Resolving conflicts within a block is the caller's job (speculation), and the spec leaves fee accounting out of scope. So no property states it.
- The size of `read_le`'s reservation. `PedersenParameters::read_le` calls `Vec::with_capacity` on a `u32` taken from the stream before it reads any element (pedersen_parameters.rs:76). The model records that size as `cap`. These parameters are setup data the node produces or loads itself; they are neither a key nor a proof, which are what spec §7 says come from untrusted sources. So no property bounds the reservation.
- The composition of `CheckTransactions` with `ProcessExecution`. They interact only through the verdict of `check_execution_internal`, which `CheckTransactions` keeps as a per-transaction boolean. The one place where their detail meets is the cache keyed by a transaction ID that does not cover the proof, and `ct_forgery` already shows that with the verdict abstracted. A product of the two state machines would multiply about 60,000 states by about 1,300 and tell nothing more.
- The Varuna tests (`varuna/tests.rs`). What they check is cryptographic: a proof verifies, fake inputs are rejected, and keys serialize to fixed lengths. Their harness only takes, over the circuits of a batch, the largest degree and domain size and the union of the degree bounds. Any property of that would hold by construction. The batch test makes every instance's inputs fake at once, so it does not test spec §8's claim that a single wrong instance rejects the batch. That claim is about the verifier, which is not under `src/`.

**Folded into the proof verdict or the unique items.** In `check_transaction`, these checks are not modelled separately:
- restricted transitions;
- edition;
- the owner signature;
- state-root existence.

**The test-only build.** `SkipTxChecks` models the `test_skip_tx_checks` feature, under which every check is compiled out. No run sets it, because with it set everything is accepted by construction.

**`read_le` of a verifying key.** `VerifyingKey::read_le` is not in `src/`. The model's version ignores bytes after the key, so a string with extra data decodes to a key, but no run relies on that behaviour.

**Tests.** The remaining tests of `verify.rs` (`test_verify*`, `test_failed_credits_deployment`) are single scenarios over real keys. Their content is covered by the honest transactions of `MCCheckTransactions`: private, public and absent fees, and deployment then execution.

## 6. Plan for the next sittings

1. A lone split in a `CheckTransactions` run, which needs a run slot.

