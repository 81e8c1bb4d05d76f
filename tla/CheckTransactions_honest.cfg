CONSTANTS
    Txs <- HonestTxs
    Tx <- MCTx
    Payers <- MCPayers
    Builtins <- MCBuiltins
    InitialBalance <- MCBalance
    MaxFee = 1
    MaxBatch = 3
    MaxParallelDeploy = 2
    MaxParallelExecute = 2
    CacheCapacity = 2
    MaxBlocks = 3
    SkipTxChecks = FALSE
SPECIFICATION FairSpec
INVARIANT TypeOK
INVARIANT AcceptedTransactionsVerified
INVARIANT ProgramLifecycle
INVARIANT RejectedNotReplayed
PROPERTY ChunkingCoversBatch
PROPERTY CallsReturn
PROPERTY ImplementsContract
