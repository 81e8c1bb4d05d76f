CONSTANTS
    Txs <- AllTxs
    Tx <- MCTx
    Payers <- MCPayers
    Builtins <- MCBuiltins
    InitialBalance <- MCBalance
    MaxFee = 1
    MaxBatch = 3
    MaxParallelDeploy = 1
    MaxParallelExecute = 2
    CacheCapacity = 1
    MaxBlocks = 2
    SkipTxChecks = FALSE
SPECIFICATION Spec
INVARIANT AcceptedTransactionsVerified
