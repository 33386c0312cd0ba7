\* The join of the destructor, with quit() free to come before loop().
CONSTANTS
    Threads = {main, sub}
    LoopThread = sub
    MainThread = main
    MaxFunctors = 1
    MaxQuits = 1
SPECIFICATION TFairSpec
PROPERTY JoinReturns
