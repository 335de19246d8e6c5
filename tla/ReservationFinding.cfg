CONSTANTS
    Client = {c1, c2, c3}
    User = {"boss", "guest", "bossy"}
    NumBoards = 2
    reserved_for <- MCReserved
    close_command <- MCClose
    username_cred <- MCCred
    stored_name <- MCStored
    Options <- MCTwoUsers
    Pid = {p1, p2, p3}
    SocketActivated = TRUE
    None = None
    MaxBusy = 2
SPECIFICATION AllocationSpec
INVARIANT ReservedForOwnName
