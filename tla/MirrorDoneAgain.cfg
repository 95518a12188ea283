SPECIFICATION MirrorSpec
CONSTANTS
    Scripts = {s1, s2}
    Nodes = {n1, n2}
    RemoteSizes = {3}
    ReadChunk = 2
    MirrorWorks <- AgainOnly
    NoNode = NoNode
INVARIANT DownloadingIsAtWork
CHECK_DEADLOCK FALSE
