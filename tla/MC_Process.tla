------------------------------ MODULE MC_Process ------------------------------
\* Process with an empty and a two-byte input and a 4-bit size_t, so that
\* write()'s -1 converts to 15.
EXTENDS Process
=============================================================================
