SPECIFICATION NetSpec
CONSTANTS
    SeqMod = 32
    TCP_SNDBUF = 2
    TCP_RCVBUF = 2
    TCP_MAX_RTX = 4
    NoPcb = NoPcb
    MaxFaults = 1
    Written <- MCWritten
    Closers = {"client"}
    LateSyn = FALSE
    Servers = {s1, s2}
    LeaseTime = 4
    Xids = 4
    NoIp = NoIp
    DhcpFaults = 2
    DnsNames = {a, b}
    Ids = {1, 2}
    DNS_MAX_RTX = 1
    MaxQueries = 2
    Pcbs = {p1, p2, p3}
    MaxRequests = 3
INVARIANTS StreamIntact NothingUnacked LeaseSound OwnName OwnAnswer
PROPERTY GetsDone
CHECK_DEADLOCK FALSE
