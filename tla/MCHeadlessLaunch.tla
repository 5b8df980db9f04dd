------------------------- MODULE MCHeadlessLaunch -------------------------
\* TLC instances of HeadlessLaunch.
EXTENDS HeadlessLaunch
=============================================================================
