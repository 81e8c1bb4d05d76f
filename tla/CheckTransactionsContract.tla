--------------------- MODULE CheckTransactionsContract ---------------------
(***************************************************************************)
(* What VM::check_transactions promises its caller, without chunks,        *)
(* workers or a cache: a call over a set of transactions accepts only      *)
(* valid ones, returns Ok only when it accepted all of them, and returns   *)
(* an error only when one of them is invalid.  Which transactions are      *)
(* valid depends on the ledger, which moves only between calls.            *)
(***************************************************************************)
CONSTANTS Txs

VARIABLES
    valid,     \* the transactions that pass every check against the ledger
    busy,      \* a call is running
    pending,   \* the transactions of the running call
    ok,        \* those of them accepted so far
    result     \* "none" | "ok" | "err": what the last call returned

cvars == <<valid, busy, pending, ok, result>>

Init ==
    /\ valid \in SUBSET Txs
    /\ busy = FALSE
    /\ pending = {}
    /\ ok = {}
    /\ result = "none"

\* A call begins over some set of transactions.
Begin ==
    /\ ~busy
    /\ busy' = TRUE
    /\ pending' \in SUBSET Txs
    /\ ok' = {}
    /\ result' = "none"
    /\ UNCHANGED valid

\* One transaction of the call is found valid and accepted.
Accept(t) ==
    /\ busy
    /\ t \in pending \ ok
    /\ ok' = ok \cup {t}
    /\ t \in valid
    /\ UNCHANGED <<valid, busy, pending, result>>

ReturnOk ==
    /\ busy
    /\ pending \subseteq ok
    /\ busy' = FALSE
    /\ pending' = {}
    /\ ok' = {}
    /\ result' = "ok"
    /\ UNCHANGED valid

ReturnErr ==
    /\ busy
    /\ pending \ valid # {}
    /\ busy' = FALSE
    /\ pending' = {}
    /\ ok' = {}
    /\ result' = "err"
    /\ UNCHANGED valid

\* Blocks are added between calls.
LedgerMoves ==
    /\ ~busy
    /\ valid' \in SUBSET Txs
    /\ UNCHANGED <<busy, pending, ok, result>>

Next ==
    \/ Begin
    \/ \E t \in Txs : Accept(t)
    \/ ReturnOk
    \/ ReturnErr
    \/ LedgerMoves

Spec == Init /\ [][Next]_cvars

=============================================================================
