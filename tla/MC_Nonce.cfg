\* A transfer with a nonce that is paid by merging coins.
SPECIFICATION Spec
CONSTANTS
    r1 = r1  r2 = r2  r3 = r3  r4 = r4  r5 = r5  r6 = r6  r7 = r7
    c1 = c1  c2 = c2  c3 = c3  c4 = c4  n1 = n1  n2 = n2
    Requests = {r1, r2, r3, r4, r5}
    Coins = {c1, c2}
    None = None
    Amount <- MCAmount
    Nonce <- MCNonce
    Route <- MCRoute
    InitialBalance <- MCBalance
    CoinRank <- MCRank
    MaxMergeSources = 1
    ChannelCap = 1
    MaxBatch = 2
    Permits = 2
    Power = 1
    MaxExpirations = 2
INVARIANT EveryTransferMarks
CHECK_DEADLOCK FALSE
