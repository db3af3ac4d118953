------------------------------- MODULE Screen -------------------------------
(***************************************************************************)
(* The tree on the screen: the monitors the start finds, then the windows  *)
(* of Tiling, laid out on the first of them (every workspace is created on *)
(* the current monitor, which is monitor 0 from State::init on).           *)
(***************************************************************************)
EXTENDS Geometry, Monitors

ASSUME OnScreensAssumption == Heads \subseteq Screens /\ DefaultHead \in Screens

screenVars == <<tree, monitorVars>>

ScreenInit == Init /\ MonitorsInit

\* While windows are loaded and events handled, the tree changes; event::handle has no
\* case that changes a monitor.
Arrange == phase = "ready" /\ Next /\ UNCHANGED monitorVars

ScreenNext ==
    \/ MonitorsNext /\ UNCHANGED tree
    \/ Arrange

ScreenSpec == ScreenInit /\ [][ScreenNext]_screenVars

-----------------------------------------------------------------------------
\* The windows of a workspace are drawn on its monitor, whole, and none has a size of
\* zero or less, which the X server would refuse or take for a huge one: what the
\* reciprocal and the rounding add up to stays within the gaps.
WindowsOnMonitor ==
    phase = "ready" =>
        \A ws \in Workspaces, rcp \in Reciprocals :
            LET rect == OnScreen(tree, ws, monitors[0], rcp)
            IN  \A w \in DOMAIN rect : /\ rect[w].w >= 1 /\ rect[w].h >= 1
                                       /\ Within(rect[w], monitors[0])
=============================================================================
