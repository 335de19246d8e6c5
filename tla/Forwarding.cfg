CONSTANTS
    Client = {c1, c2}
    User = {"boss"}
    NumBoards = 1
    reserved_for <- MCReserved
    close_command <- MCClose
    username_cred <- MCCred
    stored_name <- MCStored
    Options <- MCOptions
    Pid = {p1, p2}
    SocketActivated = TRUE
    None = None
    Ppid = {q1, q2}
    parent <- MCOwnParent
    Socket = {"ssh"}
    MaxConnecting = 1
    MaxProxies = 2
SPECIFICATION FwdSpec
INVARIANTS
    ProxyReachesOwnBoard PeerIsParent
PROPERTIES
    RefusedOnlyBehindOlder
