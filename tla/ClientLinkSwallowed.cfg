SPECIFICATION Spec
CONSTANTS
    Messages = {m1}
    m1 = m1
    Events = {e1}
    e1 = e1
    MaxConns = 2
    MaxBoots = 2
INVARIANT RaisedIsRetried
CHECK_DEADLOCK FALSE
