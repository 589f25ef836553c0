SPECIFICATION FairSpec
CONSTANTS
    IoThreads = {t1, t2}
    Urls = {u1, u2}
    Pids = {1}
    PoolSize = 1
    RedisSize = 1
    SeqRoom = 2
    NoUrl = NoUrl
    MaxId = 2
    MaxQueries = 1
    MaxFaults = 1
INVARIANTS
    ShortenerInv
    CodesResolve
    CodesNameTheirId
PROPERTIES
    IoReturns
