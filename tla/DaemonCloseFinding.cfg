CONSTANTS
    Client = {c1, c2}
    User = {"boss", "guest", "bossy"}
    NumBoards = 1
    reserved_for <- MCOpen
    close_command <- MCOneClose
    username_cred <- MCCred
    stored_name <- MCStored
    Options <- MCTwoUsers
    Pid = {p1, p2}
    SocketActivated = TRUE
    None = None
SPECIFICATION QuietSpec
INVARIANT CloseCommandFinished
