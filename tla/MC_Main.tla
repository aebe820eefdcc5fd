------------------------------- MODULE MC_Main -------------------------------
\* Main with its four handled signals as model values, paths as short
\* strings ("" stands for an option not given or a variable not set).
EXTENDS Main, TLC

MCSymmetry == Permutations({SIGINT, SIGTERM})

\* A plain start: no options, HOME set.
MCArgvsPlain ==
    {[parse |-> "ok", info |-> FALSE, pidfile |-> "", home |-> "",
      cfgdir |-> "", config |-> ""]}
MCEnvsPlain == {[xdg |-> "", home |-> "/home/u"]}

\* Every shape of command line and environment main tells apart.
MCArgvsAll ==
    [parse : {"ok", "unknown", "badValue"}, info : BOOLEAN,
     pidfile : {"", "/run/g.pid"}, home : {"", "/srv/m"},
     cfgdir : {"", "conf.d"}, config : {"", "/etc/g.xml"}]
MCEnvsAll == [xdg : {"", "/xdg"}, home : {"", "/home/u"}]
=============================================================================
