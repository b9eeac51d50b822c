SPECIFICATION FairUnlocked
CONSTANTS
    Workers = {w1, w2}
    Main = Main
    NoThread = NoThread
    Interval = 3
    Ticks = {1}
    MaxLag = 2
    Calls = {"exit"}
PROPERTY ScanEnds
