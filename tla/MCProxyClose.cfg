SPECIFICATION Spec
CONSTANTS
    Clients = {c1, c2}
    Commands <- MCCommands
    Malformed <- MCMalformed
    Reply <- MCReply
    MaxCommands = 1
INVARIANTS CloseWaitsForAll
