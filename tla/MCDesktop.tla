----------------------------- MODULE MCDesktop ------------------------------
EXTENDS Desktop

\* Windows are interchangeable; so are the workspaces other than the first.
DesktopSymmetry == Permutations(Windows) \cup Permutations(Workspaces \ {FirstWorkspace})
=============================================================================
