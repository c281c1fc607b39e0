SPECIFICATION Spec
CONSTANTS
    Text = {"a", "b"}
    Cmds = {p1, p2}
    Idle = Idle
    MaxEdits = 3
INVARIANTS OwnTextKept OneBlock LinesApart
 
CHECK_DEADLOCK FALSE
