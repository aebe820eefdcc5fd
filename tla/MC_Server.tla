------------------------------ MODULE MC_Server ------------------------------
\* Server with two UDNs, three service ids and two callbacks per behaviour.
EXTENDS Server
=============================================================================
