-------------------------------- MODULE Ewmh --------------------------------
(***************************************************************************)
(* What pagers read from the root window beside the active window and the  *)
(* current desktop, which Desktop has: x11/ewmh.cpp as observers of the    *)
(* managers of windows and workspaces (manager.h, helper/mixins.h).  The   *)
(* observers are connected at the end of State::init and run within the    *)
(* handler that changes the manager.  The properties outlive the process.  *)
(***************************************************************************)
EXTENDS Desktop

VARIABLES
    netClients,     \* _NET_CLIENT_LIST, and _STACKING, in no particular order
    netDesktops     \* the workspaces _NET_NUMBER_OF_DESKTOPS counts and _NET_DESKTOP_NAMES names

ewmhVars == <<netClients, netDesktops>>

EwmhInit == netClients = {} /\ netDesktops = {}

\* State::init connects the observers and calls notify_all.
Connect == status = "loading" /\ status' = "running"

\* Seeded fault: State::init connects the observers but does not call them.
NotifiedOfChanges(property, before, after) ==
    IF Running /\ before # after THEN after ELSE property

\* A property whose observers are notified after the keys of a manager have changed.
Notified(property, before, after) ==
    IF Connect \/ (Running /\ before # after) THEN after ELSE property

UpdateEwmh ==
    /\ netClients' = Notified(netClients, managed, managed')
    /\ netDesktops' = Notified(netDesktops, exists, exists')

-----------------------------------------------------------------------------
\* What a pager reads while the window manager runs is what the window manager has, though
\* windows and workspaces were loaded before anyone was told and the properties were those
\* of a process that crashed; the active window is among the clients.
PagerAgrees ==
    Running => /\ netClients = managed
               /\ netDesktops = exists
               /\ netDesktop = cur
               /\ netActive \in netClients \cup {Nil}
=============================================================================
