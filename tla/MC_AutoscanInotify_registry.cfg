\* The watches against the registered autoscans and the tree.
CONSTANTS
    T = T
    A = A
    B = B
    C = C
    O = O
    X = X
    Y = Y
    Dirs <- MCDirsIn
    Top = T
    ParentDir <- MCParentDirIn
    Autoscans <- MCAutoscans
    AutoscanRoot <- MCAutoscanRoot
    Recursive <- MCRecursive
    Renames <- MCRenamesIn
    Mounts <- MCMountsIn
    MaxWatches = 2
    MaxQueued = 1
    MaxCmds = 3
    MaxFsOps = 3
SPECIFICATION Spec
INVARIANT WatchesFollowAutoscans
\* The commands and directory changes are bounded; the worker then waits
\* on its read forever (or has stopped after shutdown).
CHECK_DEADLOCK FALSE
