------------------------------ MODULE MC_Element ------------------------------
\* Element with two names, up to three children added by the model (seven
\* after an indent) and two attributes.
EXTENDS Element, TLC

MCSymmetry == Permutations(Names)
=============================================================================
