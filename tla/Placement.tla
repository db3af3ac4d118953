----------------------------- MODULE Placement ------------------------------
(***************************************************************************)
(* What the window manager promises about where windows are: a managed     *)
(* window has one home workspace; it gets one when it arrives, and only a  *)
(* request about that very window moves it or takes it away.  Switching    *)
(* workspaces moves no window.                                             *)
(***************************************************************************)
CONSTANTS Windows, Workspaces, FirstWorkspace, Nil

VARIABLES home,      \* the workspace of each window, Nil when it is not managed
          current    \* the current workspace

vars == <<home, current>>

Init == /\ home = [w \in Windows |-> Nil]
        /\ current = FirstWorkspace

Arrive(w, ws) == /\ home[w] = Nil
                 /\ home' = [home EXCEPT ![w] = ws]
                 /\ UNCHANGED current

\* A window is only ever sent to a workspace that is not shown.
Send(w, ws) == /\ home[w] # Nil
               /\ ws # current
               /\ home' = [home EXCEPT ![w] = ws]
               /\ UNCHANGED current

Leave(w) == /\ home[w] # Nil
            /\ home' = [home EXCEPT ![w] = Nil]
            /\ UNCHANGED current

Show(ws) == /\ current' = ws
            /\ UNCHANGED home

Next == \/ \E w \in Windows, ws \in Workspaces : Arrive(w, ws) \/ Send(w, ws)
        \/ \E w \in Windows : Leave(w)
        \/ \E ws \in Workspaces : Show(ws)

Spec == Init /\ [][Next]_vars
=============================================================================
