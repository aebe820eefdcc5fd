\* The watch table against the kernel and the directory tree.
CONSTANTS
    T = T
    A = A
    B = B
    C = C
    O = O
    X = X
    Y = Y
    Dirs <- MCDirs
    Top = T
    ParentDir <- MCParentDir
    Autoscans <- MCAutoscans
    AutoscanRoot <- MCAutoscanRoot
    Recursive <- MCRecursive
    Renames <- MCRenamesOut
    Mounts <- MCMounts
    MaxWatches = 2
    MaxQueued = 12
    MaxCmds = 2
    MaxFsOps = 4
SPECIFICATION Spec
INVARIANTS
    TypeOK
    KernelWatchesTracked
    SubtreeWatched
PROPERTY WorkerCatchesUp
\* The commands and directory changes are bounded; the worker then waits
\* on its read forever (or has stopped after shutdown).
CHECK_DEADLOCK FALSE
