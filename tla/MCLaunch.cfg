SPECIFICATION LaunchSpec
CONSTANTS
    Clients = {c1, c2}
    Own = {c1}
    Commands <- MCCommands
    Malformed <- MCMalformed
    Reply <- MCReply
    MaxCommands = 2
    Processes = {7, 8}
INVARIANTS
    LaunchTypeOK LaunchedAsChosen WgCountsHandlers RepliesInOrder CloseWaitsForRunning
    NeverRefused OutlivesCommand
PROPERTIES RunReturns InterruptEndsRun CommandsAnswered
