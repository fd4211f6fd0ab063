CONSTANTS
    d1 = d1
    d2 = d2
    top = top
    junk = junk
    Source = {d1, d2}
    Text <- MCText
    Unset = Unset
    InetAddr <- MCInetAddr
    DefaultStart <- MCDefaultStart
    DefaultStop <- MCDefaultStop
    Computer = {c1}
    MaxProbes = 3
    MaxChanges = 2
SYMMETRY MCSources
SPECIFICATION Spec
INVARIANTS SweepInOrder SweepRunsWhenItMay
