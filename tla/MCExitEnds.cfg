\* The same instance: does an exit end?
SPECIFICATION Spec
CONSTANTS
    Pid = {p1, p2}
    Web = {w1}
    Login = {l1}
    None = None
    p1 = p1
    p2 = p2
    w1 = w1
    l1 = l1
PROPERTIES ExitEnds
