CONSTANTS
    c1 = c1
    c2 = c2
    c3 = c3
    Bridged <- MCBridged
    MaxVsockConns <- MCMaxVsockConns
    Conns <- MCConns
    Cap <- MCCap
    ConnectReqs <- MCConnectReqs
    HttpReqs <- MCHttpReqs
    SocksReqs <- MCSocksReqs
    DNS <- MCDNS
    PublicIPs <- MCPublicIPs
    AllowedDests <- MCAllowedDests
SPECIFICATION Spec
INVARIANT
    NothingAfterStop
