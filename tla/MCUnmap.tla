------------------------------- MODULE MCUnmap -------------------------------
EXTENDS UnmapProtocol

\* Bound: the window whose client does nothing is never fullscreen.
QuietBounded == \A w \in Windows \ Restless : wstate[w] # "Maximized"
=============================================================================
