SPECIFICATION Spec
CONSTANTS
    s1 = s1  s2 = s2  s3 = s3
    a0 = a0  a1 = a1  a2 = a2  b0 = b0  l0 = l0  p0 = p0  p1 = p1  c1 = c1
    NoTx = NoTx
    Txs = {a0, a1, b0}
    Senders = {s1, s2, s3}
    Undeployed = {s3}
    SenderOf <- MCSenderOf
    NonceOf <- MCNonceOf
    KindOf <- MCKindOf
    ClassOf <- MCClassOf
    RpcThreads = {t1, t2}
    ListenerCap = 1
    ExecutionMayFail = TRUE
    MaxSubmissions = 1
INVARIANT NoLostTx
INVARIANT AcknowledgedOrder
INVARIANT PoolNonceAhead
CHECK_DEADLOCK FALSE
