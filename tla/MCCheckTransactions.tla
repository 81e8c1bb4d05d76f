------------------------- MODULE MCCheckTransactions -------------------------
(***************************************************************************)
(* Transactions for CheckTransactions.  "exec" is a valid execution with a *)
(* public fee; "bad" an execution whose proof fails; "dep" a valid         *)
(* deployment; "fee" the fee transaction of a block that rejected the     *)
(* execution of "exec"; "forgery" has the ID and transitions of           *)
(* "exec" but a proof that fails.                                          *)
(***************************************************************************)
EXTENDS CheckTransactions

\* An execution's ID (a Merkle root of its transitions) is represented by
\* its transaction's ID value, which the transitions determine here.

\* A fee with base fee 1 (the cost of everything below) and amount 1.
PrivateFee == [present |-> TRUE, base |-> 1, amount |-> 1, public |-> FALSE,
               payer |-> "alice", verifies |-> TRUE]
PublicFeeOf(p) == [PrivateFee EXCEPT !.public = TRUE, !.payer = p]

Transaction(id, kind, proofOk, items, program, fee, splitOnly, rejected) ==
    [id |-> id, kind |-> kind, proofOk |-> proofOk, items |-> items,
     program |-> program, calls |-> "credits", fee |-> fee, cost |-> 1, splitOnly |-> splitOnly,
     rejected |-> rejected, execution |-> IF kind = "execute" THEN id ELSE "none"]

\* "use" runs the program "dep" deploys; "redeploy" deploys credits.aleo.
UseTx == [Transaction("id8", "execute", TRUE, <<"sn8">>, "none", PrivateFee, FALSE, FALSE)
             EXCEPT !.calls = "prog"]

MCTx == [t \in {"exec", "bad", "dep", "fee", "forgery", "use", "redeploy"} |->
           CASE t = "exec"    -> Transaction("id1", "execute", TRUE, <<"sn1">>, "none", PublicFeeOf("alice"), FALSE, FALSE)
             [] t = "forgery" -> Transaction("id1", "execute", FALSE, <<"sn1">>, "none", PublicFeeOf("alice"), FALSE, FALSE)
             [] t = "bad"     -> Transaction("id2", "execute", FALSE, <<"sn2">>, "none", PrivateFee, FALSE, FALSE)
             [] t = "dep"     -> Transaction("id3", "deploy", TRUE, <<"tid3">>, "prog", PrivateFee, FALSE, FALSE)
             [] t = "fee"     -> [Transaction("id4", "fee", TRUE, <<"sn4">>, "none", PublicFeeOf("alice"), FALSE, TRUE)
                                    EXCEPT !.execution = "id1"]
             [] t = "use"     -> UseTx
             [] t = "redeploy" -> Transaction("id9", "deploy", TRUE, <<"tid9">>, "credits", PrivateFee, FALSE, FALSE)]

MCPayers == {"alice"}
MCBalance == [p \in MCPayers |-> 2]
MCBuiltins == {"credits"}
HonestTxs == {"exec", "bad", "dep", "fee", "use", "redeploy"}
AllTxs == HonestTxs \cup {"forgery"}
=============================================================================
