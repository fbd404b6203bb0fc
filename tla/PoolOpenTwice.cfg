SPECIFICATION Spec
CONSTANTS
    Session = {s1}
    Tool = {t1}
    Route = {r1}
    MaxSize = 1
    MaxPool = 3
INVARIANT OnePool
