SPECIFICATION MirrorSpec
CONSTANTS
    Scripts = {s1, s2}
    Nodes = {n1, n2}
    RemoteSizes = {3, 4}
    ReadChunk = 2
    MirrorWorks <- MeetOnly
    NoNode = NoNode
INVARIANT ImageIsWhole
CHECK_DEADLOCK FALSE
