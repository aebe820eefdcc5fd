---------------------------- MODULE MC_MainServer ----------------------------
\* MainServer with a start with no options or with --pidfile, HOME set, the signals, UDNs
\* and service ids as model values.
EXTENDS MainServer, TLC

MCArgvsPlain ==
    {[parse |-> "ok", info |-> FALSE, pidfile |-> p, home |-> "",
      cfgdir |-> "", config |-> ""] : p \in {"", "/run/g.pid"}}
MCEnvsPlain == {[xdg |-> "", home |-> "/home/u"]}
=============================================================================
