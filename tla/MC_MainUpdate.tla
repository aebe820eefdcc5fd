---------------------------- MODULE MC_MainUpdate ----------------------------
\* MainUpdate with a plain start (no options, HOME set), the signals and
\* the object ids as model values.
EXTENDS MainUpdate, TLC

MCArgvsPlain ==
    {[parse |-> "ok", info |-> FALSE, pidfile |-> "", home |-> "",
      cfgdir |-> "", config |-> ""]}
MCEnvsPlain == {[xdg |-> "", home |-> "/home/u"]}
=============================================================================
