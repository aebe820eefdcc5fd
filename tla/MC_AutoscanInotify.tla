------------------------- MODULE MC_AutoscanInotify -------------------------
(* A tree Top / A / B and Top / O; autoscan X recursive on A and autoscan  *)
(* Y recursive on B, so B is both a descendant of X and the start point of *)
(* Y; O is outside both, a place B can be renamed to and back from.  A is  *)
(* a mount point.                                                          *)
EXTENDS AutoscanInotify

CONSTANTS T, A, B, C, O, X, Y

MCDirs == {T, A, B, O}
MCParentDir == (A :> T) @@ (B :> A) @@ (O :> T)
MCAutoscans == {X, Y}
MCAutoscanRoot == (X :> A) @@ (Y :> B)
MCRecursive == (X :> TRUE) @@ (Y :> TRUE)
\* B leaves both autoscans for O.
MCRenamesOut == {<<B, O>>}
MCMounts == {A}

\* The tree with a second directory C below A, B renamed to C within X,
\* and a second filesystem mounted on B, inside X.
MCDirsIn == {T, A, B, C}
MCParentDirIn == (A :> T) @@ (B :> A) @@ (C :> A)
MCRenamesIn == {<<B, C>>}
MCMountsIn == {A, B}

=============================================================================
