SPECIFICATION FairSpec
CONSTANTS
    Workers = {w1, w2}
    Main = Main
    NoThread = NoThread
    Interval = 2
    Ticks = {1}
    MaxLag = 1
    Calls = {"create", "sleep", "block", "exit"}
PROPERTIES
    RunnableRuns
    
