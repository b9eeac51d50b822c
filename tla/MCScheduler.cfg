SPECIFICATION Spec
CONSTANTS
    Workers = {w1, w2}
    Main = Main
    NoThread = NoThread
    Interval = 2
    Ticks = {2}
    MaxLag = 2
    Calls = {"create", "join", "sleep", "wait", "exit", "fault"}
INVARIANTS
    ListsExact
    
    
 
SYMMETRY Symmetry
