SPECIFICATION Spec
CONSTANTS
    Params <- MCParams
    HalfMax = 3
    WordMax = 15
    Leftovers = {0, 1}
    Diffs = {1, 2}
    BufSize = 4
    Slack = 1
    TopSize = 2
    MaxSequence = 4
    MaxShares = 2
    MaxRead = 3
INVARIANTS
    
    WaitingWasSent
    
    JobSound
