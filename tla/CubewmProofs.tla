---------------------------- MODULE CubewmProofs ----------------------------
(***************************************************************************)
(* The focus lists and the container tree stay in step, for any number of  *)
(* windows, layouts and workspaces.  The two structures are changed by     *)
(* different code, one window at a time; what relates them is the          *)
(* workspace of every node, found by walking up the tree, and the list     *)
(* that holds the window.                                                  *)
(***************************************************************************)
EXTENDS Cubewm, DesktopProofs, LayoutTreeProofs

\* The workspace of a window, by the tree, is the one that has it in its list.
Fits(h, L) ==
    \A w \in Windows, ws \in Workspaces : h[w] = ws <=> w \in Elements(L[ws])

\* The tree t is a tree, and it holds the windows that the lists L hold.
Matches(t, L) == TreeInv(t) /\ \E h : Housed(t, h) /\ Fits(h, L)

WholeInv == IInv /\ Matches(tree, list)

\* u is t but for types, marks, window states and rectangles.
Akin(t, u) == u \in Tree /\ u.parent = t.parent /\ u.kids = t.kids /\ u.live = t.live

-----------------------------------------------------------------------------
(* The two structures, changed together.                                    *)

\* Marks, states and rectangles are not what makes a tree, nor where its nodes are.
LEMMA AkinKeeps ==
    ASSUME NEW t, NEW u, TreeInv(t), Akin(t, u)
    PROVE  /\ TreeInv(u)
           /\ \A h : Housed(t, h) => Housed(u, h)
           /\ \A h, w, x : Moved(t, h, w, x) => Moved(u, h, w, x)
<1>1. TreeInv(u)  BY DEF Akin, TreeInv, Linked, Acyclic, Ranks, Shaped, Full
<1> QED  BY <1>1, SameHomes DEF Akin

\* What a handler leaves of the tree, its windows following their states.
LEMMA BecomesAkin ==
    ASSUME NEW t, TreeInv(t), TreeBecomes(t)
    PROVE  Akin(t, tree')
<1>1. t \in Tree  BY DEF TreeInv, Linked
<1> DEFINE normal == {w \in Windows : wstate'[w] = "Normal"}
<1>2. normal \subseteq Windows /\ tree' = [t EXCEPT !.normal = normal]  BY DEF TreeBecomes
<1> HIDE DEF normal
<1> QED  BY <1>1, <1>2 DEF Tree, Akin

\* A workspace that is created changes rectangles only.
LEMMA CreatedAkin ==
    ASSUME TreeInv(tree), NEW ws
    PROVE  Akin(tree, Created(ws))
<1>1. tree \in Tree  BY DEF TreeInv, Linked
<1> QED  BY <1>1 DEF Created, UpdateMonitorRect, Tree, Akin

\* No window changes its list, and no node its workspace.
LEMMA StayMatches ==
    ASSUME Matches(tree, list), Akin(tree, tree'), Stay
    PROVE  Matches(tree, list)'
<1>1. PICK h : Housed(tree, h) /\ Fits(h, list)  BY DEF Matches
<1>2. TreeInv(tree') /\ Housed(tree', h)  BY <1>1, AkinKeeps DEF Matches
<1>3. Fits(h, list')  BY <1>1 DEF Fits, Stay, SameElements
<1> QED  BY <1>2, <1>3 DEF Matches

\* One window goes to ws, in the lists and in the tree.
LEMMA GoToMatches ==
    ASSUME NEW h, Fits(h, list), NEW u, TreeInv(u), NEW w \in Windows, NEW ws \in Workspaces,
           Moved(u, h, w, ws), Akin(u, tree'), GoTo(w, ws)
    PROVE  Matches(tree, list)'
<1>1. PICK h2 : Housed(u, h2) /\ h2[w] = ws /\ \A v \in Windows \ {w} : h2[v] = h[v]
  BY DEF Moved
<1>2. TreeInv(tree') /\ Housed(tree', h2)  BY <1>1, AkinKeeps
<1>3. Fits(h2, list')
  <2> SUFFICES ASSUME NEW v \in Windows, NEW x \in Workspaces
               PROVE  h2[v] = x <=> v \in Elements(list'[x])
    BY DEF Fits
  <2>1. CASE v = w  BY <2>1, <1>1 DEF GoTo
  <2>2. CASE v # w  BY <2>2, <1>1 DEF GoTo, Fits
  <2> QED  BY <2>1, <2>2
<1> QED  BY <1>2, <1>3 DEF Matches

\* One window goes away, from the lists and from the tree.
LEMMA GoAwayMatches ==
    ASSUME NEW h, Fits(h, list), NEW u, TreeInv(u), NEW w \in Windows,
           Moved(u, h, w, Nil), Akin(u, tree'), GoAway(w)
    PROVE  Matches(tree, list)'
<1>1. PICK h2 : Housed(u, h2) /\ h2[w] = Nil /\ \A v \in Windows \ {w} : h2[v] = h[v]
  BY DEF Moved
<1>2. TreeInv(tree') /\ Housed(tree', h2)  BY <1>1, AkinKeeps
<1>3. Fits(h2, list')
  <2> SUFFICES ASSUME NEW v \in Windows, NEW x \in Workspaces
               PROVE  h2[v] = x <=> v \in Elements(list'[x])
    BY DEF Fits
  <2>1. x # Nil  BY KindsAssumption
  <2>2. CASE v = w  BY <2>1, <2>2, <1>1 DEF GoAway
  <2>3. CASE v # w  BY <2>3, <1>1 DEF GoAway, Fits
  <2> QED  BY <2>2, <2>3
<1> QED  BY <1>2, <1>3 DEF Matches

\* The windows below a workspace are those of its list.
LEMMA ListIsBelow ==
    ASSUME NEW t, TreeInv(t), NEW h, Housed(t, h), NEW L, Fits(h, L), L \in Lists,
           NEW ws \in Workspaces
    PROVE  WindowsOf(t, ws) = Elements(L[ws])
<1>1. WindowsOf(t, ws) = {w \in Windows : h[w] = ws}  BY WindowsAtHome
<1>2. L[ws] \in Seq(Windows)  BY DEF Lists
<1>3. Elements(L[ws]) \subseteq Windows  BY <1>2, ElementsAreWindows
<1> QED  BY <1>1, <1>3 DEF Fits

\* The front of the focus list is the current window that move_to_workspace needs: it
\* is placed on the workspace, and it is not the window that goes there.
LEMMA CurrentIsThere ==
    ASSUME CoreInv, NEW t, TreeInv(t), NEW h, Housed(t, h), Fits(h, list),
           NEW w \in Windows, NEW ws \in Workspaces, t.kids[ws] # <<>>, ws \notin RootsOf(t, w)
    PROVE  LET current == CurrentWindow(ws)
           IN  current \in Windows \ {w} /\ t.parent[current] # Nil /\ h[current] = ws
<1> DEFINE current == CurrentWindow(ws)
<1>1. list \in Lists /\ list[ws] \in Seq(Windows)  BY DEF CoreInv, StateOK, Lists
<1>2. WindowsOf(t, ws) = Elements(list[ws])  BY <1>1, ListIsBelow
<1>3. current \in IF WindowsOf(t, ws) = {} THEN {Nil} ELSE WindowsOf(t, ws)
  BY <1>1, <1>2, ElementsAreWindows DEF CurrentWindow
<1> HIDE DEF current
<1>4. current \in Windows \ {w} /\ t.parent[current] # Nil  BY <1>3, CurrentIsBelow
<1>5. current # Nil  BY <1>4, KindsAssumption
<1>6. current \in WindowsOf(t, ws)  BY <1>3, <1>5
<1>7. h[current] = ws  BY <1>6, WindowsAtHome
<1> QED  BY <1>4, <1>7 DEF current

\* move_to_workspace, told the current window by the focus list, puts the window
\* on the workspace it is asked for.
LEMMA PlacedThere ==
    ASSUME CoreInv, NEW t, TreeInv(t), NEW h, Housed(t, h), Fits(h, list),
           NEW w \in Windows, NEW ws \in Workspaces
    PROVE  LET u == MoveToWorkspaceTree(t, w, ws, CurrentWindow(ws))
           IN  TreeInv(u) /\ Moved(u, h, w, ws)
<1> DEFINE current == CurrentWindow(ws)
           u       == MoveToWorkspaceTree(t, w, ws, current)
<1>1. t.kids[ws] # <<>> /\ ws \notin RootsOf(t, w)
        => current \in Windows \ {w} /\ t.parent[current] # Nil /\ h[current] = ws
  BY CurrentIsThere
<1> HIDE DEF current
<1>2. ws \in RootsOf(t, w) => h[w] = ws  BY HomeIsRoot DEF Items
<1>3. TreeInv(u)  BY <1>1, MoveToWorkspaceKeeps
<1>4. \A x : Housed(t, x) /\ (ws \in RootsOf(t, w) => x[w] = ws)
              /\ (t.kids[ws] # <<>> /\ ws \notin RootsOf(t, w) => x[current] = ws)
              => Moved(u, x, w, ws)
  BY <1>1, MoveToWorkspaceKeeps
<1> HIDE DEF u
<1>5. Moved(u, h, w, ws)  BY <1>1, <1>2, <1>4
<1> QED  BY <1>3, <1>5 DEF u, current

-----------------------------------------------------------------------------
(* The handlers.                                                            *)

\* A window that goes to ws in the lists is placed there in the tree.
LEMMA PlacingMatches ==
    ASSUME CoreInv, Matches(tree, list), NEW w \in Windows, NEW ws \in Workspaces,
           NEW t, Akin(tree, t), GoTo(w, ws),
           TreeBecomes(MoveToWorkspaceTree(t, w, ws, CurrentWindow(ws)))
    PROVE  Matches(tree, list)'
<1>1. PICK h : Housed(tree, h) /\ Fits(h, list)  BY DEF Matches
<1>2. TreeInv(t) /\ Housed(t, h)  BY <1>1, AkinKeeps DEF Matches
<1> DEFINE u == MoveToWorkspaceTree(t, w, ws, CurrentWindow(ws))
<1>3. TreeInv(u) /\ Moved(u, h, w, ws)  BY <1>1, <1>2, PlacedThere
<1> HIDE DEF u
<1>4. Akin(u, tree')
  <2>1. TreeBecomes(u)  BY DEF u
  <2> QED  BY <2>1, <1>3, BecomesAkin
<1> QED  BY <1>1, <1>3, <1>4, GoToMatches

\* A managed window is placed in the tree.
LEMMA LeaverIsPlaced ==
    ASSUME CoreInv, Matches(tree, list), NEW w \in Windows, Leave(w)
    PROVE  tree.parent[w] # Nil
<1>1. PICK h : Housed(tree, h) /\ Fits(h, list)  BY DEF Matches
<1>2. w \in managed  BY DEF Leave, UnmapNotify, UnmanageWindow
<1>3. Home(w) \in Workspaces /\ w \in Elements(list[Home(w)])
  BY <1>2, HomeOf DEF CoreInv
<1>4. h[w] = Home(w)  BY <1>1, <1>3 DEF Fits
<1>5. w \in Items /\ Home(w) # Nil /\ Nil \notin Items
  BY <1>3, KindsAssumption DEF Items
<1> QED  BY <1>1, <1>4, <1>5 DEF Housed, Up

\* The current window of the current workspace is placed on it.
LEMMA FrontIsRooted ==
    ASSUME CoreInv, Matches(tree, list), list[cur] # <<>>
    PROVE  /\ Head(list[cur]) \in Windows /\ cur \in RootsOf(tree, Head(list[cur]))
           /\ \A h : Housed(tree, h) /\ Fits(h, list) => h[Head(list[cur])] = cur
<1> DEFINE w == Head(list[cur])
<1>1. PICK h : Housed(tree, h) /\ Fits(h, list)  BY DEF Matches
<1>2. cur \in Workspaces /\ list[cur] \in Seq(Windows)  BY DEF CoreInv, StateOK
<1>3. w \in Elements(list[cur]) /\ w \in Windows  BY <1>2, ElementsAreWindows
<1> HIDE DEF w
<1>4. \A x : Fits(x, list) => x[w] = cur  BY <1>2, <1>3 DEF Fits
<1>5. cur \in RootsOf(tree, w)  BY <1>1, <1>2, <1>3, <1>4, HomeIsRoot DEF Matches, Items
<1> QED  BY <1>3, <1>4, <1>5 DEF w

\* UnmapNotify and DestroyNotify take the window out of its list and of the tree.
LEMMA LeaveMatches ==
    ASSUME CoreInv, Matches(tree, list), NEW w \in Windows, Leave(w)
    PROVE  Matches(tree, list)'
<1>1. PICK h : Housed(tree, h) /\ Fits(h, list)  BY DEF Matches
<1>2. UnmanageWindow(w)  BY DEF Leave, UnmapNotify
<1>3. GoAway(w)  BY <1>2, UnmanageGoesAway
<1>4. tree.parent[w] # Nil  BY LeaverIsPlaced
<1> DEFINE u == PurgeAndReconfigure(tree, w)
<1>5. TreeInv(u)  BY <1>4, PurgeKeeps DEF Matches
<1>6. Moved(u, h, w, Nil)
  <2>1. \A x : Housed(tree, x) => Moved(u, x, w, Nil)  BY <1>4, PurgeKeeps DEF Matches
  <2> HIDE DEF u
  <2> QED  BY <1>1, <2>1
<1>7. TreeBecomes(Forget(u, w))  BY DEF Leave
<1> HIDE DEF u
<1>8. Akin(u, Forget(u, w))
  <2>1. u \in Tree  BY <1>5 DEF TreeInv, Linked
  <2> QED  BY <2>1 DEF Forget, Tree, Marks, Akin
<1>9. TreeInv(Forget(u, w))  BY <1>5, <1>8, AkinKeeps
<1>10. Akin(Forget(u, w), tree')  BY <1>7, <1>9, BecomesAkin
<1>11. Akin(u, tree')  BY <1>8, <1>10 DEF Akin
<1> QED  BY <1>1, <1>3, <1>5, <1>6, <1>11, GoAwayMatches

\* Mod4+Shift+arrow moves the current window about its workspace.
LEMMA MoveContainerMatches ==
    ASSUME CoreInv, Matches(tree, list), NEW dir \in Directions, MoveContainer(dir)
    PROVE  Matches(tree, list)'
<1> DEFINE w == Head(list[cur])
           u == MoveContainerTree(tree, w, cur, dir)
<1>1. PICK h : Housed(tree, h) /\ Fits(h, list)  BY DEF Matches
<1>2. tree' = u /\ list' = list  BY DEF MoveContainer, vars
<1>3. /\ w \in Windows /\ cur \in RootsOf(tree, w)
      /\ \A x : Housed(tree, x) /\ Fits(x, list) => x[w] = cur
  BY FrontIsRooted DEF MoveContainer
<1> HIDE DEF w
<1>4. h[w] = cur  BY <1>1, <1>3
<1>5. TreeInv(u)  BY <1>3, MoveContainerKeeps DEF Matches
<1>6. Moved(u, h, w, cur)
  <2>1. \A x : Housed(tree, x) /\ x[w] = cur => Moved(u, x, w, cur)
    BY <1>3, MoveContainerKeeps DEF Matches
  <2> HIDE DEF u
  <2> QED  BY <1>1, <1>4, <2>1
<1> HIDE DEF u
<1>7. PICK h2 : Housed(u, h2) /\ h2[w] = cur /\ \A v \in Windows \ {w} : h2[v] = h[v]
  BY <1>6 DEF Moved
<1>8. Fits(h2, list)  BY <1>1, <1>4, <1>7 DEF Fits
<1> QED  BY <1>2, <1>5, <1>7, <1>8 DEF Matches

-----------------------------------------------------------------------------
(* Every step.                                                              *)

\* What a handler does to the state beside the tree is a step of Desktop.
LEMMA StepIsDesktop ==
    ASSUME CoreInv, [CubewmNext]_allVars
    PROVE  [Next]_vars
<1>1. ASSUME NEW w \in Windows, NEW ws \in Workspaces, Load(w, ws) \/ Send(w, ws)  PROVE Next
  BY <1>1 DEF Load, Send, Next
<1>2. ASSUME NEW ws \in Workspaces, LoadOnlyWorkspace(ws) \/ Switch(ws)  PROVE Next
  BY <1>2 DEF LoadOnlyWorkspace, Switch, Next
<1>3. ASSUME FinishLoading  PROVE Next
  BY <1>3 DEF FinishLoading, Next
<1>4. ASSUME NEW w \in Windows, Arrive(w) \/ Leave(w) \/ Focus(w)  PROVE Next
  BY <1>4 DEF Arrive, Leave, Focus, Next
<1>5. ASSUME NEW w \in Windows, NEW action \in {"remove", "add"}, Fullscreen(w, action)  PROVE Next
  BY <1>5 DEF Fullscreen, Next
<1>6. ASSUME NEW dir \in Directions, FocusNeighbour(dir)  PROVE Next
  <2> DEFINE w == MoveFocusTarget(tree, Head(list[cur]), dir)
  <2>1. MoveFocus(w)  BY <1>6 DEF FocusNeighbour
  <2> HIDE DEF w
  <2>2. list[cur] \in Seq(Windows)  BY DEF CoreInv, StateOK
  <2>3. w \in Windows  BY <2>1, <2>2, ElementsAreWindows DEF MoveFocus
  <2> QED  BY <2>1, <2>3 DEF Next
<1> QED
  BY <1>1, <1>2, <1>3, <1>4, <1>5, <1>6 DEF CubewmNext, MoveContainer, ChangeLayoutType, allVars

\* What changes no list keeps every window, and nothing that focuses one does.
LEMMA FocusingStays ==
    ASSUME CoreInv, NEW w \in Windows, FocusInWindow(w) \/ NetActiveWindow(w) \/ MoveFocus(w)
    PROVE  Stay
<1>1. StateOK /\ OneHome /\ cur \in Workspaces  BY DEF CoreInv, StateOK
<1>2. w \in managed => Home(w) \in Workspaces /\ w \in Elements(list[Home(w)])
  BY <1>1, HomeOf
<1>3. CASE FocusInWindow(w)  BY <1>2, <1>3, FocusStays DEF FocusInWindow, TryFocusWindow
<1>4. CASE MoveFocus(w)  BY <1>1, <1>4, FocusStays DEF MoveFocus
<1>5. CASE NetActiveWindow(w)
  <2>1. CASE Home(w) = cur  BY <1>2, <1>5, <2>1, FocusStays DEF NetActiveWindow
  <2>2. CASE Home(w) # cur
    <3>1. SwitchWorkspace(Home(w), w) /\ w \in managed  BY <1>5, <2>2 DEF NetActiveWindow
    <3> QED  BY <1>2, <2>2, <3>1, SwitchStays
  <2> QED  BY <2>1, <2>2
<1> QED  BY <1>3, <1>4, <1>5

\* Every handler leaves in the tree what it leaves in the lists.
LEMMA StepMatches ==
    ASSUME CoreInv, Matches(tree, list), [CubewmNext]_allVars
    PROVE  Matches(tree, list)'
<1> DEFINE Goal == Matches(tree, list)'
<1>1. /\ StateOK /\ OneHome /\ TreeInv(tree) /\ cur \in Workspaces
      /\ \A ws \in Workspaces : list[ws] \in Seq(Windows)
  BY DEF CoreInv, StateOK, Matches
<1>2. Akin(tree, tree) /\ \A ws : Akin(tree, Created(ws)) /\ TreeInv(Created(ws))
  BY <1>1, CreatedAkin, AkinKeeps DEF Akin, TreeInv, Linked
<1>3. ASSUME NEW t, Akin(tree, t), TreeBecomes(t), Stay  PROVE Goal
  <2>1. TreeInv(t)  BY <1>1, <1>3, AkinKeeps
  <2>2. Akin(t, tree')  BY <1>3, <2>1, BecomesAkin
  <2>3. Akin(tree, tree')  BY <1>3, <2>2 DEF Akin
  <2> QED  BY <1>3, <2>3, StayMatches
<1>4. ASSUME list' = list, managed' = managed  PROVE Stay
  BY <1>4 DEF Stay, SameElements
<1>5. ASSUME NEW w \in Windows, NEW ws \in Workspaces, Load(w, ws)  PROVE Goal
  <2>1. w \notin managed /\ list' = MovedTo(w, ws) /\ managed' = managed \cup {w}
    BY <1>5 DEF Load, LoadWindow, MoveToWorkspace
  <2>2. GoTo(w, ws)  BY <2>1, MoveGoesTo
  <2>3. TreeBecomes(MoveToWorkspaceTree(Created(ws), w, ws, CurrentWindow(ws)))
    BY <1>5 DEF Load
  <2> QED  BY <1>2, <2>2, <2>3, PlacingMatches
<1>6. ASSUME NEW w \in Windows, NEW ws \in Workspaces, Send(w, ws)  PROVE Goal
  <2>1. w \in managed /\ managed' = managed  BY <1>6 DEF Send, NetWmDesktop
  <2>2. GoTo(w, ws)
    <3>1. CASE ws = Home(w)
      <4>1. list' = list  BY <1>6, <3>1 DEF Send, NetWmDesktop
      <4>2. w \in Elements(list[ws]) /\ \A v \in Workspaces : v # ws => w \notin Elements(list[v])
        BY <1>1, <2>1, <3>1, HomeOf
      <4> QED  BY <2>1, <4>1, <4>2 DEF GoTo
    <3>2. CASE ws # Home(w)
      <4>1. list' = MovedTo(w, ws)  BY <1>6, <3>2 DEF Send, NetWmDesktop, MoveToWorkspace
      <4>2. managed' = managed \cup {w}  BY <2>1
      <4> QED  BY <3>2, <4>1, <4>2, MoveGoesTo
    <3> QED  BY <3>1, <3>2
  <2>3. TreeBecomes(MoveToWorkspaceTree(Created(ws), w, ws, CurrentWindow(ws)))
    BY <1>6 DEF Send
  <2> QED  BY <1>2, <2>2, <2>3, PlacingMatches
<1>7. ASSUME NEW w \in Windows, Arrive(w)  PROVE Goal
  <2>1. w \notin managed /\ list' = MovedTo(w, cur) /\ managed' = managed \cup {w}
    BY <1>7 DEF Arrive, ManageWindow
  <2>2. GoTo(w, cur)  BY <1>1, <2>1, MoveGoesTo
  <2>3. TreeBecomes(MoveToWorkspaceTree(tree, w, cur, CurrentWindow(cur)))
    BY <1>7 DEF Arrive
  <2> QED  BY <1>1, <1>2, <2>2, <2>3, PlacingMatches
<1>8. ASSUME NEW ws \in Workspaces, LoadOnlyWorkspace(ws)  PROVE Goal
  BY <1>2, <1>3, <1>4, <1>8 DEF LoadOnlyWorkspace, LoadNothing
<1>9. ASSUME NEW ws \in Workspaces, Switch(ws)  PROVE Goal
  <2> DEFINE w == IF list[ws] = <<>> THEN Nil ELSE Head(list[ws])
  <2>1. SwitchWorkspace(ws, w) /\ ws # cur  BY <1>9 DEF Switch, SwitchBinding, SwitchTo
  <2>2. (w = Nil /\ list[ws] = <<>>) \/ w \in Elements(list[ws])  BY <1>1, ElementsAreWindows
  <2> HIDE DEF w
  <2>3. Stay  BY <2>1, <2>2, SwitchStays
  <2> QED  BY <1>2, <1>3, <1>9, <2>3 DEF Switch
<1>10. ASSUME FinishLoading  PROVE Goal
  BY <1>2, <1>3, <1>4, <1>10 DEF FinishLoading, FinishInit
<1>11. ASSUME NEW w \in Windows, Leave(w)  PROVE Goal
  BY <1>11, LeaveMatches
<1>12. ASSUME NEW w \in Windows, Focus(w)  PROVE Goal
  BY <1>2, <1>3, <1>12, FocusingStays DEF Focus
<1>13. ASSUME NEW w \in Windows, NEW action, Fullscreen(w, action)  PROVE Goal
  BY <1>2, <1>3, <1>4, <1>13 DEF Fullscreen, NetWmState
<1>14. ASSUME NEW dir \in Directions, FocusNeighbour(dir)  PROVE Goal
  <2> DEFINE w == MoveFocusTarget(tree, Head(list[cur]), dir)
  <2>1. MoveFocus(w) /\ TreeBecomes(tree)  BY <1>14 DEF FocusNeighbour
  <2> HIDE DEF w
  <2>2. w \in Windows  BY <1>1, <2>1, ElementsAreWindows DEF MoveFocus
  <2>3. Stay  BY <2>1, <2>2, FocusingStays
  <2> QED  BY <1>2, <1>3, <2>1, <2>3
<1>15. ASSUME NEW dir \in Directions, MoveContainer(dir)  PROVE Goal
  BY <1>15, MoveContainerMatches
<1>16. ASSUME NEW ty \in Types, ChangeLayoutType(ty)  PROVE Goal
  <2>1. tree' = [tree EXCEPT !.mark[Head(list[cur])] = ty] /\ Stay
    BY <1>4, <1>16 DEF ChangeLayoutType, vars
  <2>2. tree \in Tree  BY <1>1 DEF TreeInv, Linked
  <2>3. Akin(tree, tree')  BY <2>1, <2>2 DEF Akin, Tree, Marks
  <2> QED  BY <2>1, <2>3, StayMatches
<1>17. ASSUME UNCHANGED allVars  PROVE Goal
  <2>1. list' = list /\ managed' = managed /\ tree' = tree  BY <1>17 DEF allVars, vars
  <2> QED  BY <1>2, <1>4, <2>1, StayMatches
<1> HIDE DEF Goal
<1>18. Goal
  BY <1>5, <1>6, <1>7, <1>8, <1>9, <1>10, <1>11, <1>12, <1>13, <1>14, <1>15, <1>16, <1>17
     DEF CubewmNext
<1> QED  BY <1>18 DEF Goal

\* Nothing is in the lists of a new State, nor in its tree.
LEMMA EmptyMatches == CubewmInit => Matches(tree, list)
<1> SUFFICES ASSUME CubewmInit  PROVE Matches(tree, list)  OBVIOUS
<1>1. tree = EmptyTree /\ \A ws \in Workspaces : list[ws] = <<>>  BY DEF CubewmInit, Init
<1>2. TreeInv(tree)  BY <1>1, EmptyIsTree
<1> DEFINE h == [n \in Items |-> Nil]
<1>3. Housed(tree, h)
  <2>1. Nil \notin Items /\ \A n \in Items : tree.parent[n] = Nil
    BY <1>1, KindsAssumption DEF Items, EmptyTree
  <2> QED  BY <2>1 DEF Housed, Up
<1>4. Fits(h, list)
  <2>1. Elements(<<>>) = {}
    <3>1. <<>> \in Seq(Windows)  OBVIOUS
    <3> QED  BY <3>1, ElementsAreWindows
  <2>2. Nil \notin Workspaces /\ Windows \subseteq Items  BY KindsAssumption DEF Items
  <2> QED  BY <1>1, <2>1, <2>2 DEF Fits
<1> HIDE DEF h
<1> QED  BY <1>2, <1>3, <1>4 DEF Matches

-----------------------------------------------------------------------------
(* What the runs check, for any number of windows, layouts and workspaces.  *)

\* The lists and flags, the tree, and the workspace on which both have a window,
\* hold together through every handler.
THEOREM StaysWhole == CubewmSpec => []WholeInv
<1>1. CubewmInit => WholeInv  BY InitInv, EmptyMatches DEF CubewmInit, WholeInv
<1>2. WholeInv /\ [CubewmNext]_allVars => WholeInv'
  <2> SUFFICES ASSUME WholeInv, [CubewmNext]_allVars  PROVE WholeInv'  OBVIOUS
  <2>1. IInv /\ CoreInv /\ TypeOK /\ Matches(tree, list)  BY DEF WholeInv, IInv
  <2>2. [Next]_vars  BY <2>1, StepIsDesktop
  <2>3. Kept /\ status' \in {"loading", "running"} \cup AssertFailures
    BY <2>1, <2>2, CoreKept, StatusKept
  <2>4. IInv'  BY <2>1, <2>3 DEF IInv, Kept, CoreInv, TypeOK
  <2>5. Matches(tree, list)'  BY <2>1, StepMatches
  <2> QED  BY <2>4, <2>5 DEF WholeInv
<1> QED  BY <1>1, <1>2, PTL DEF CubewmSpec

\* Lists, flags, links and marks are always of their kinds.
THEOREM WholeTypeCorrect == CubewmSpec => []CubewmTypeOK
<1>1. WholeInv => CubewmTypeOK
  BY DEF WholeInv, IInv, Matches, TreeInv, Linked, CubewmTypeOK
<1> QED  BY <1>1, StaysWhole, PTL

\* However windows come, go and are moved, the tree of a workspace holds exactly the
\* windows of its focus list: has_window() and tiling_layout() agree.
THEOREM TreeAlwaysMatchesLists == CubewmSpec => []TreeMatchesLists
<1>1. WholeInv => TreeMatchesLists
  <2> SUFFICES ASSUME WholeInv, NEW ws \in Workspaces
               PROVE  WindowsOf(tree, ws) = Elements(list[ws])
    BY DEF TreeMatchesLists
  <2>1. PICK h : TreeInv(tree) /\ Housed(tree, h) /\ Fits(h, list)  BY DEF WholeInv, Matches
  <2>2. list \in Lists  BY DEF WholeInv, IInv, CoreInv, StateOK, Lists
  <2> QED  BY <2>1, <2>2, ListIsBelow
<1> QED  BY <1>1, StaysWhole, PTL

\* Mod4+arrow never leads to a window of another workspace, so focus_window finds it
\* in the list it searches.
THEOREM NeighbourAlwaysHere == CubewmSpec => []NeighbourIsHere
<1>1. WholeInv => NeighbourIsHere
  <2> SUFFICES ASSUME WholeInv, list[cur] # <<>>, NEW dir \in Directions
               PROVE  MoveFocusTarget(tree, Head(list[cur]), dir) \in Elements(list[cur])
    BY DEF NeighbourIsHere
  <2> DEFINE w == Head(list[cur])
             v == MoveFocusTarget(tree, w, dir)
  <2>1. PICK h : TreeInv(tree) /\ Housed(tree, h) /\ Fits(h, list)  BY DEF WholeInv, Matches
  <2>2. cur \in Workspaces /\ list[cur] \in Seq(Windows)
    BY DEF WholeInv, IInv, CoreInv, StateOK
  <2>3. w \in Elements(list[cur]) /\ w \in Windows  BY <2>2, ElementsAreWindows
  <2> HIDE DEF w
  <2>4. h[w] = cur  BY <2>1, <2>2, <2>3 DEF Fits
  <2>5. v \in Windows /\ h[v] = h[w]  BY <2>1, <2>3, MoveFocusStaysHere
  <2> HIDE DEF v
  <2>6. v \in Elements(list[cur])  BY <2>1, <2>2, <2>4, <2>5 DEF Fits
  <2> QED  BY <2>6 DEF v, w
<1> QED  BY <1>1, StaysWhole, PTL

-----------------------------------------------------------------------------
(* Rectangles.                                                              *)

\* The windows that take their geometry are those in State::Normal, and no layout has
\* a wrong rectangle.
SeenInv == tree.normal = {w \in Windows : wstate[w] = "Normal"} /\ tree.stale \subseteq Windows

\* What may have a wrong rectangle after the step: what had one, and the unseen.
Excused == tree.stale \cup (Windows \ tree.normal)

\* What the handler leaves stale is what the tree it ends with does.
LEMMA BecomesSeen ==
    ASSUME NEW t \in Tree, TreeBecomes(t)
    PROVE  /\ tree'.normal = {w \in Windows : wstate'[w] = "Normal"}
           /\ tree'.stale = t.stale
<1> DEFINE normal == {w \in Windows : wstate'[w] = "Normal"}
<1>1. tree' = [t EXCEPT !.normal = normal]  BY DEF TreeBecomes
<1> HIDE DEF normal
<1>2. tree'.normal = normal /\ tree'.stale = t.stale  BY <1>1 DEF Tree
<1> QED  BY <1>2 DEF normal

\* Creating a workspace lays out the others.
LEMMA CreatedSeen ==
    ASSUME TreeInv(tree), SeenInv, NEW ws
    PROVE  /\ Unseen(Created(ws), Excused) /\ Created(ws).stale \subseteq Excused
           /\ Unseen(tree, Excused) /\ tree.stale \subseteq Excused
<1>1. tree \in Tree  BY DEF TreeInv, Linked
<1>2. Created(ws).normal = tree.normal /\ Created(ws).stale \subseteq tree.stale
  BY <1>1 DEF Created, UpdateMonitorRect, Tree
<1>3. tree.stale \subseteq Windows  BY DEF SeenInv
<1> HIDE DEF SeenInv
<1> QED  BY <1>2, <1>3 DEF Excused, Unseen

\* A window is placed, and what its arrival and departure move is laid out.
LEMMA PlacingSeen ==
    ASSUME CoreInv, Matches(tree, list), NEW w \in Windows, NEW ws \in Workspaces,
           NEW t, Akin(tree, t), NEW B, Unseen(t, B), t.stale \subseteq B
    PROVE  LET u == MoveToWorkspaceTree(t, w, ws, CurrentWindow(ws))
           IN  u \in Tree /\ u.stale \subseteq B
<1> DEFINE current == CurrentWindow(ws)
           u       == MoveToWorkspaceTree(t, w, ws, current)
<1>1. PICK h : Housed(tree, h) /\ Fits(h, list)  BY DEF Matches
<1>2. TreeInv(t) /\ Housed(t, h)  BY <1>1, AkinKeeps DEF Matches
<1>3. t.kids[ws] # <<>> /\ ws \notin RootsOf(t, w)
        => current \in Windows \ {w} /\ t.parent[current] # Nil
  BY <1>1, <1>2, CurrentIsThere
<1> HIDE DEF current
<1>4. u.stale \subseteq B  BY <1>2, <1>3, MoveToWorkspaceFresh
<1>5. TreeInv(u)  BY <1>2, <1>3, MoveToWorkspaceKeeps
<1> QED  BY <1>4, <1>5 DEF TreeInv, Linked, current

\* Every handler lays out what it moves, but for windows whose geometry the X server
\* is not given.
LEMMA StepSeen ==
    ASSUME CoreInv, Matches(tree, list), SeenInv, [CubewmNext]_allVars
    PROVE  SeenInv' /\ tree'.stale \subseteq Excused
<1> DEFINE Goal == SeenInv' /\ tree'.stale \subseteq Excused
<1>1. /\ TreeInv(tree) /\ tree \in Tree /\ cur \in Workspaces
      /\ \A ws \in Workspaces : list[ws] \in Seq(Windows)
  BY DEF CoreInv, StateOK, Matches, TreeInv, Linked
<1>2. /\ Akin(tree, tree) /\ Unseen(tree, Excused) /\ tree.stale \subseteq Excused
      /\ \A ws : /\ Akin(tree, Created(ws)) /\ Created(ws) \in Tree
                 /\ Unseen(Created(ws), Excused) /\ Created(ws).stale \subseteq Excused
  BY <1>1, CreatedAkin, CreatedSeen DEF Akin
<1>3. Excused \subseteq Windows  BY <1>2 DEF Unseen
<1>4. ASSUME NEW t \in Tree, t.stale \subseteq Excused, TreeBecomes(t)  PROVE Goal
  BY <1>3, <1>4, BecomesSeen DEF SeenInv
<1>5. ASSUME NEW t \in Tree, t.stale \subseteq Excused, t.normal = tree.normal, tree' = t,
             wstate' = wstate
      PROVE  Goal
  BY <1>3, <1>5 DEF SeenInv
<1>6. ASSUME NEW w \in Windows, NEW ws \in Workspaces, Load(w, ws) \/ Send(w, ws)  PROVE Goal
  <2> DEFINE u == MoveToWorkspaceTree(Created(ws), w, ws, CurrentWindow(ws))
  <2>1. u \in Tree /\ u.stale \subseteq Excused  BY <1>2, PlacingSeen
  <2>2. TreeBecomes(u)  BY <1>6 DEF Load, Send
  <2> HIDE DEF u
  <2> QED  BY <1>4, <2>1, <2>2
<1>7. ASSUME NEW w \in Windows, Arrive(w)  PROVE Goal
  <2> DEFINE u == MoveToWorkspaceTree(tree, w, cur, CurrentWindow(cur))
  <2>1. u \in Tree /\ u.stale \subseteq Excused  BY <1>1, <1>2, PlacingSeen
  <2>2. TreeBecomes(u)  BY <1>7 DEF Arrive
  <2> HIDE DEF u
  <2> QED  BY <1>4, <2>1, <2>2
<1>8. ASSUME NEW ws \in Workspaces, LoadOnlyWorkspace(ws) \/ Switch(ws)  PROVE Goal
  BY <1>2, <1>4, <1>8 DEF LoadOnlyWorkspace, Switch
<1>9. ASSUME NEW w \in Windows, Leave(w)  PROVE Goal
  <2> DEFINE u == PurgeAndReconfigure(tree, w)
  <2>1. tree.parent[w] # Nil  BY <1>9, LeaverIsPlaced
  <2>2. u \in Tree  BY <1>1, <2>1, PurgeKeeps DEF TreeInv, Linked
  <2>3. u.stale \subseteq Excused  BY <1>1, <1>2, <2>1, PurgeFresh
  <2>4. TreeBecomes(Forget(u, w))  BY <1>9 DEF Leave
  <2> HIDE DEF u
  <2>5. Forget(u, w) \in Tree /\ Forget(u, w).stale \subseteq Excused
    BY <2>2, <2>3 DEF Forget, Tree, Marks
  <2> QED  BY <1>4, <2>4, <2>5
<1>10. ASSUME NEW dir \in Directions, MoveContainer(dir)  PROVE Goal
  <2> DEFINE w == Head(list[cur])
             u == MoveContainerTree(tree, w, cur, dir)
  <2>1. w \in Windows /\ cur \in RootsOf(tree, w)  BY <1>10, FrontIsRooted DEF MoveContainer
  <2> HIDE DEF w
  <2>2. TreeInv(u)  BY <1>1, <2>1, MoveContainerKeeps
  <2>3. u.stale \subseteq Excused  BY <1>1, <1>2, <2>1, MoveContainerFresh
  <2>4. Twins(u, u, tree.normal, tree.normal)
    <3>1. Twins(tree, tree, tree.normal, tree.normal)  BY <1>1, TreeHasFields DEF Twins
    <3> QED  BY <3>1, TwinsMove
  <2>5. tree' = u /\ wstate' = wstate  BY <1>10 DEF MoveContainer, vars, w
  <2> HIDE DEF u
  <2> QED  BY <1>5, <2>2, <2>3, <2>4, <2>5 DEF Twins, TreeInv, Linked
<1>11. ASSUME NEW ty \in Types, ChangeLayoutType(ty)  PROVE Goal
  <2> DEFINE u == [tree EXCEPT !.mark[Head(list[cur])] = ty]
  <2>1. u \in Tree /\ u.stale = tree.stale /\ u.normal = tree.normal
    BY <1>1 DEF Tree, Marks
  <2>2. tree' = u /\ wstate' = wstate  BY <1>11 DEF ChangeLayoutType, vars
  <2> HIDE DEF u
  <2> QED  BY <1>2, <1>5, <2>1, <2>2
<1>12. ASSUME TreeBecomes(tree)  PROVE Goal  BY <1>1, <1>2, <1>4, <1>12
<1>13. ASSUME UNCHANGED allVars  PROVE Goal
  <2>1. tree' = tree /\ wstate' = wstate  BY <1>13 DEF allVars, vars
  <2> QED  BY <1>1, <1>2, <1>5, <2>1
<1> HIDE DEF Goal
<1>14. Goal
  BY <1>6, <1>7, <1>8, <1>9, <1>10, <1>11, <1>12, <1>13
     DEF CubewmNext, FinishLoading, Focus, Fullscreen, FocusNeighbour
<1> QED  BY <1>14 DEF Goal

\* Whatever moves, every layout keeps the right rectangle, and a window loses the
\* geometry of its place only by a step that finds it hidden or fullscreen: no
\* update_rect is missing in any handler.
THEOREM NothingSeenGoesStale == CubewmSpec => OnlyUnseenGoStale
<1> DEFINE Inv == WholeInv /\ SeenInv
           A   == tree'.stale \ tree.stale \subseteq {w \in managed : wstate[w] # "Normal"}
<1>1. CubewmInit => SeenInv  BY DEF CubewmInit, Init, EmptyTree, SeenInv
<1>2. Inv /\ [CubewmNext]_allVars => SeenInv' /\ [A]_allVars
  <2> SUFFICES ASSUME Inv, [CubewmNext]_allVars  PROVE SeenInv' /\ A  OBVIOUS
  <2>1. CoreInv /\ Matches(tree, list) /\ UnmanagedNormal  BY DEF WholeInv, IInv, CoreInv
  <2>2. SeenInv' /\ tree'.stale \subseteq Excused  BY <2>1, StepSeen
  <2>3. tree.normal = {w \in Windows : wstate[w] = "Normal"}  BY DEF SeenInv
  <2>4. A
    <3> SUFFICES ASSUME NEW w \in tree'.stale \ tree.stale
                 PROVE  w \in managed /\ wstate[w] # "Normal"
      OBVIOUS
    <3>1. w \in Windows \ tree.normal  BY <2>2 DEF Excused
    <3>2. wstate[w] # "Normal"  BY <2>3, <3>1
    <3>3. w \in managed  BY <2>1, <3>1, <3>2 DEF UnmanagedNormal
    <3> QED  BY <3>2, <3>3
  <2> QED  BY <2>2, <2>4
<1> QED  BY <1>1, <1>2, StaysWhole, PTL DEF CubewmSpec, OnlyUnseenGoStale

-----------------------------------------------------------------------------
(* Tiling's operators, instantiated, are those of LayoutTree.               *)

\* Lists and kinds.
LEMMA TiledLists ==
    /\ \A s : Tiled!Elements(s) = Elements(s)
    /\ \A s, x : Tiled!Position(s, x) = Position(s, x)
    /\ \A s, x : Tiled!Erase(s, x) = Erase(s, x)
    /\ \A s, i, x : Tiled!InsertAt(s, i, x) = InsertAt(s, i, x)
    /\ \A s : Tiled!Last(s) = Last(s)
    /\ \A S : Tiled!Min(S) = Min(S)
    /\ Tiled!Items = Items /\ Tiled!Parents = Parents
    /\ Tiled!Types = Types /\ Tiled!Directions = Directions /\ Tiled!Backward = Backward
    /\ Tiled!Height = Height
    /\ Tiled!EmptyTree = EmptyTree
<1>1. /\ Tiled!Items = Items /\ Tiled!Parents = Parents
      /\ Tiled!Types = Types /\ Tiled!Directions = Directions /\ Tiled!Backward = Backward
  BY DEF Tiled!Items, Items, Tiled!Parents, Parents, Tiled!Types, Types, Tiled!Directions,
         Directions, Tiled!Backward, Backward
<1>2. \A s : Tiled!Elements(s) = Elements(s)  BY DEF Tiled!Elements, Elements
<1>3. \A s, x : Tiled!Position(s, x) = Position(s, x)  BY DEF Tiled!Position, Position
<1>4. \A s, x : Tiled!Erase(s, x) = Erase(s, x)
  BY <1>3 DEF Tiled!Erase, Erase, Tiled!RemoveAt, RemoveAt
<1>5. \A s, i, x : Tiled!InsertAt(s, i, x) = InsertAt(s, i, x)  BY DEF Tiled!InsertAt, InsertAt
<1>6. \A s : Tiled!Last(s) = Last(s)  BY DEF Tiled!Last, Last
<1>7. \A S : Tiled!Min(S) = Min(S)  BY DEF Tiled!Min, Min
<1>8. Tiled!Height = Height  BY DEF Tiled!Height, Height, Tiled!Cardinality, Cardinality
<1>9. Tiled!EmptyTree = EmptyTree  BY <1>1 DEF Tiled!EmptyTree, EmptyTree
<1> QED  BY <1>1, <1>2, <1>3, <1>4, <1>5, <1>6, <1>7, <1>8, <1>9

\* What reads a tree.
LEMMA TiledReads ==
    /\ \A t, n : Tiled!Below(t, n) = Below(t, n)
    /\ \A t, n : Tiled!RootsOf(t, n) = RootsOf(t, n)
    /\ \A t, ws : Tiled!WindowsOf(t, ws) = WindowsOf(t, ws)
    /\ \A t : Tiled!Placed(t) = Placed(t)
    /\ \A t, ws : Tiled!TilingLayout(t, ws) = TilingLayout(t, ws)
    /\ \A t, n : Tiled!IndexOf(t, n) = IndexOf(t, n)
    /\ \A t : Tiled!Fresh(t) = Fresh(t)
    /\ \A t, w : Tiled!IsMarked(t, w) = IsMarked(t, w)
    /\ \A t, n : Tiled!IsSole(t, n) = IsSole(t, n)
    /\ \A ty, dir : Tiled!IsCompatible(ty, dir) = IsCompatible(ty, dir)
    /\ \A ty : Tiled!InverseType(ty) = InverseType(ty)
    /\ \A t, n, dir : Tiled!FindDirectionCompatibleNode(t, n, dir)
                          = FindDirectionCompatibleNode(t, n, dir)
<1>1. \A t, n : Tiled!Climb(t, n) = Climb(t, n)
  <2>1. Tiled!Items = Items /\ Tiled!Height = Height  BY TiledLists
  <2> QED  BY <2>1 DEF Tiled!Climb, Climb
<1>2. \A t, n : Tiled!Ancestors(t, n) = Ancestors(t, n)
  BY <1>1, TiledLists DEF Tiled!Ancestors, Ancestors
<1>3. \A t, n : Tiled!RootsOf(t, n) = RootsOf(t, n)
  BY <1>2 DEF Tiled!RootsOf, RootsOf
<1>4. \A t, n : Tiled!Levels(t, n) = Levels(t, n)
  <2>1. Tiled!Parents = Parents /\ Tiled!Height = Height  BY TiledLists
  <2> QED  BY <2>1 DEF Tiled!Levels, Levels, Tiled!Elements, Elements
<1>5. \A t, n : Tiled!Below(t, n) = Below(t, n)
  BY <1>4, TiledLists DEF Tiled!Below, Below
<1>6. \A t, ws : Tiled!WindowsOf(t, ws) = WindowsOf(t, ws)
  BY <1>5 DEF Tiled!WindowsOf, WindowsOf
<1>7. \A t : Tiled!Placed(t) = Placed(t) /\ Tiled!Fresh(t) = Fresh(t)
  BY DEF Tiled!Placed, Placed, Tiled!Fresh, Fresh
<1>8. \A t, n : Tiled!TilingLayout(t, n) = TilingLayout(t, n) /\ Tiled!IndexOf(t, n) = IndexOf(t, n)
  BY TiledLists DEF Tiled!TilingLayout, TilingLayout, Tiled!IndexOf, IndexOf
<1>9. \A t, n : Tiled!IsMarked(t, n) = IsMarked(t, n)
  BY DEF Tiled!IsMarked, IsMarked
<1>10. \A t, n : Tiled!IsSole(t, n) = IsSole(t, n)
  BY DEF Tiled!IsSole, IsSole
<1>11. \A ty, dir : Tiled!IsCompatible(ty, dir) = IsCompatible(ty, dir)
  BY DEF Tiled!IsCompatible, IsCompatible
<1>12. \A ty : Tiled!InverseType(ty) = InverseType(ty)
  BY DEF Tiled!InverseType, InverseType
<1>13. \A t, n, dir : Tiled!CompatibleSteps(t, n, dir) = CompatibleSteps(t, n, dir)
  BY <1>1, <1>11, TiledLists DEF Tiled!CompatibleSteps, CompatibleSteps
<1>14. \A t, n, dir : Tiled!FindDirectionCompatibleNode(t, n, dir)
                          = FindDirectionCompatibleNode(t, n, dir)
  BY <1>1, <1>13, TiledLists DEF Tiled!FindDirectionCompatibleNode, FindDirectionCompatibleNode
<1> QED  BY <1>3, <1>5, <1>6, <1>7, <1>8, <1>9, <1>10, <1>11, <1>12, <1>14

\* The operations of node.h and layout.h.
LEMMA TiledSteps ==
    /\ \A t, p, n : Tiled!RemoveChild(t, p, n) = RemoveChild(t, p, n)
    /\ \A t, p, i, n : Tiled!InsertChild(t, p, i, n) = InsertChild(t, p, i, n)
    /\ \A t, p, n : Tiled!AddChild(t, p, n) = AddChild(t, p, n)
    /\ \A t, p, i, j : Tiled!ShiftChild(t, p, i, j) = ShiftChild(t, p, i, j)
    /\ \A t, l, ty : Tiled!New(t, l, ty) = New(t, l, ty)
    /\ \A t, l : Tiled!Delete(t, l) = Delete(t, l)
    /\ \A t, n : Tiled!UpdateRect(t, n) = UpdateRect(t, n)
    /\ \A t, l, ty : Tiled!SetType(t, l, ty) = SetType(t, l, ty)
    /\ \A t, p, m, n : Tiled!Replace(t, p, m, n) = Replace(t, p, m, n)
    /\ \A t, w : Tiled!Forget(t, w) = Forget(t, w)
<1>1. \A t, p : Tiled!Touch(t, p) = Touch(t, p)
  BY TiledReads DEF Tiled!Touch, Touch
<1>2. \A t, p, n : Tiled!RemoveChild(t, p, n) = RemoveChild(t, p, n)
  BY <1>1, TiledLists DEF Tiled!RemoveChild, RemoveChild
<1>3. \A t, p, i, n : Tiled!InsertChild(t, p, i, n) = InsertChild(t, p, i, n)
  BY <1>1, TiledLists DEF Tiled!InsertChild, InsertChild
<1>4. \A t, p, n : Tiled!AddChild(t, p, n) = AddChild(t, p, n)
  BY <1>3 DEF Tiled!AddChild, AddChild
<1>5. \A t, p, i, j : Tiled!ShiftChild(t, p, i, j) = ShiftChild(t, p, i, j)
  BY <1>1 DEF Tiled!ShiftChild, ShiftChild
<1>6. \A t, l, ty : Tiled!New(t, l, ty) = New(t, l, ty)  BY DEF Tiled!New, New
<1>7. \A t, l : Tiled!Delete(t, l) = Delete(t, l)  BY DEF Tiled!Delete, Delete
<1>8. \A t, n : Tiled!UpdateRect(t, n) = UpdateRect(t, n)
  BY TiledReads DEF Tiled!UpdateRect, UpdateRect
<1>9. \A t, l, ty : Tiled!SetType(t, l, ty) = SetType(t, l, ty)
  BY <1>1, <1>8 DEF Tiled!SetType, SetType
<1>10. ASSUME NEW t, NEW p, NEW m, NEW n  PROVE Tiled!Replace(t, p, m, n) = Replace(t, p, m, n)
  <2> DEFINE v == [t EXCEPT !.parent = [@ EXCEPT ![m] = Nil, ![n] = p],
                            !.kids[p] = [@ EXCEPT ![IndexOf(t, m)] = n]]
  <2>1. Tiled!IndexOf(t, m) = IndexOf(t, m)  BY TiledReads
  <2>2. Replace(t, p, m, n) = Touch(v, p)  BY DEF Replace
  <2>3. Tiled!Replace(t, p, m, n) = Tiled!Touch(v, p)  BY <2>1 DEF Tiled!Replace
  <2> HIDE DEF v
  <2> QED  BY <1>1, <2>2, <2>3
<1>11. \A t, w : Tiled!Forget(t, w) = Forget(t, w)  BY DEF Tiled!Forget, Forget
<1> QED  BY <1>2, <1>3, <1>4, <1>5, <1>6, <1>7, <1>8, <1>9, <1>10, <1>11

\* The operations of window.cpp and binding.cpp.
LEMMA TiledOps ==
    /\ \A t, w : Tiled!PurgeAndReconfigure(t, w) = PurgeAndReconfigure(t, w)
    /\ \A t, w, ws, c : Tiled!MoveToWorkspaceTree(t, w, ws, c) = MoveToWorkspaceTree(t, w, ws, c)
    /\ \A t, w, ws, dir : Tiled!MoveContainerTree(t, w, ws, dir) = MoveContainerTree(t, w, ws, dir)
<1>1. \A t, n : Tiled!PurgeSoleNode(t, n) = PurgeSoleNode(t, n)
  BY TiledReads, TiledSteps DEF Tiled!PurgeSoleNode, PurgeSoleNode
<1>2. \A t, w : Tiled!PurgeAndReconfigure(t, w) = PurgeAndReconfigure(t, w)
  BY <1>1, TiledReads, TiledSteps DEF Tiled!PurgeAndReconfigure, PurgeAndReconfigure
<1>3. \A t, w, l, i : Tiled!MoveToLayout(t, w, l, i) = MoveToLayout(t, w, l, i)
  BY <1>1, TiledReads, TiledSteps DEF Tiled!MoveToLayout, MoveToLayout
<1>4. \A t, w, m : Tiled!MoveToMarkedWindow(t, w, m) = MoveToMarkedWindow(t, w, m)
  BY <1>2, TiledReads, TiledSteps DEF Tiled!MoveToMarkedWindow, MoveToMarkedWindow
<1>5. \A t, w, ws, c : Tiled!PlaceWindow(t, w, ws, c) = PlaceWindow(t, w, ws, c)
  BY <1>4, TiledReads, TiledSteps DEF Tiled!PlaceWindow, PlaceWindow
<1>6. \A t, w, ws, c : Tiled!MoveToWorkspaceTree(t, w, ws, c) = MoveToWorkspaceTree(t, w, ws, c)
  BY <1>2, <1>5, TiledReads DEF Tiled!MoveToWorkspaceTree, MoveToWorkspaceTree
<1>7. ASSUME NEW t, NEW w, NEW node, NEW dir
      PROVE  Tiled!MoveToAdjacentNode(t, w, node, dir) = MoveToAdjacentNode(t, w, node, dir)
  <2> DEFINE t0   == [t EXCEPT !.mark[w] = "Floating"]
             p    == t.parent[node]
             i    == IndexOf(t, node)
             back == dir \in Backward
             j    == IF back THEN i - 1 ELSE i + 1
             adj  == t.kids[p][j]
  <2>1. Tiled!Backward = Backward /\ Tiled!IndexOf(t, node) = i  BY TiledLists, TiledReads
  <2>2. Tiled!MoveToAdjacentNode(t, w, node, dir) =
          IF j \notin 1..Len(t.kids[p])
          THEN IF t.type[p] = t.type[t.parent[w]] THEN t0
               ELSE Tiled!MoveToLayout(t0, w, p, IF back THEN 1 ELSE Len(t.kids[p]) + 1)
          ELSE IF adj \in Layouts THEN Tiled!MoveToLayout(t0, w, adj, Len(t.kids[adj]) + 1)
          ELSE IF Tiled!IsMarked(t0, adj) THEN Tiled!MoveToMarkedWindow(t0, w, adj)
          ELSE IF p = t.parent[w] THEN Tiled!UpdateRect(Tiled!ShiftChild(t0, p, i, j), p)
          ELSE Tiled!MoveToLayout(t0, w, p, IF back THEN i ELSE j)
    BY <2>1 DEF Tiled!MoveToAdjacentNode
  <2>3. MoveToAdjacentNode(t, w, node, dir) =
          IF j \notin 1..Len(t.kids[p])
          THEN IF t.type[p] = t.type[t.parent[w]] THEN t0
               ELSE MoveToLayout(t0, w, p, IF back THEN 1 ELSE Len(t.kids[p]) + 1)
          ELSE IF adj \in Layouts THEN MoveToLayout(t0, w, adj, Len(t.kids[adj]) + 1)
          ELSE IF IsMarked(t0, adj) THEN MoveToMarkedWindow(t0, w, adj)
          ELSE IF p = t.parent[w] THEN UpdateRect(ShiftChild(t0, p, i, j), p)
          ELSE MoveToLayout(t0, w, p, IF back THEN i ELSE j)
    BY DEF MoveToAdjacentNode
  <2> HIDE DEF t0, p, i, j, adj, back
  <2>4. Tiled!IsMarked(t0, adj) = IsMarked(t0, adj)  BY TiledReads
  <2>5. Tiled!UpdateRect(Tiled!ShiftChild(t0, p, i, j), p) = UpdateRect(ShiftChild(t0, p, i, j), p)
    BY TiledSteps
  <2> QED  BY <1>3, <1>4, <2>2, <2>3, <2>4, <2>5
<1>8. \A t, w, ws, dir : Tiled!WrapTop(t, w, ws, dir) = WrapTop(t, w, ws, dir)
  BY TiledLists, TiledReads, TiledSteps DEF Tiled!WrapTop, WrapTop
<1>9. \A t, w, ws, dir : Tiled!MoveToTopNode(t, w, ws, dir) = MoveToTopNode(t, w, ws, dir)
  BY <1>2, <1>8, TiledLists, TiledReads, TiledSteps DEF Tiled!MoveToTopNode, MoveToTopNode
<1>10. \A t, w, ws, dir : Tiled!MoveContainerTree(t, w, ws, dir) = MoveContainerTree(t, w, ws, dir)
  BY <1>7, <1>9, TiledReads DEF Tiled!MoveContainerTree, MoveContainerTree
<1> QED  BY <1>2, <1>6, <1>10

-----------------------------------------------------------------------------
(* The tree implements Tiling.                                              *)

\* t with every window normal and every rectangle right: a state of Tiling.
Frame(t) == [t EXCEPT !.normal = Windows, !.stale = {}]

\* What t and u have in common when the handlers cannot tell them apart.
Alike(t, u) == Akin(t, u) /\ u.type = t.type /\ u.mark = t.mark

\* The tree that the instance of Tiling sees.
LEMMA StructureIsFrame == Structure = Frame(tree) /\ Structure' = Frame(tree')
BY DEF Structure, Frame

\* The frame of a tree is its twin.
LEMMA FrameIsTwin ==
    ASSUME NEW t, TreeInv(t)
    PROVE  /\ TreeInv(Frame(t)) /\ Alike(t, Frame(t))
           /\ Frame(t).normal = Windows /\ Frame(t).stale = {}
           /\ Twins(t, Frame(t), t.normal, Windows)
<1>1. t \in Tree  BY DEF TreeInv, Linked
<1>2. /\ Frame(t) \in Tree /\ Alike(t, Frame(t))
      /\ Frame(t).normal = Windows /\ Frame(t).stale = {}
  BY <1>1 DEF Frame, Tree, Alike, Akin
<1>3. TreeInv(Frame(t))  BY <1>2, AkinKeeps DEF Alike
<1>4. Twins(t, Frame(t), t.normal, Windows)
  BY <1>1, <1>2, TreeHasFields DEF Twins, Alike, Akin
<1> QED  BY <1>2, <1>3, <1>4

\* Trees that are alike have the same frame.
LEMMA SameFrame ==
    ASSUME NEW t \in Tree, NEW u, Alike(t, u)
    PROVE  Frame(u) = Frame(t)
<1>1. u \in Tree  BY DEF Alike, Akin
<1>2. \A v \in {t, u} : /\ Frame(v) \in Tree /\ Alike(v, Frame(v))
                        /\ Frame(v).normal = Windows /\ Frame(v).stale = {}
  BY <1>1 DEF Frame, Tree, Alike, Akin
<1>3. Fielded(Frame(t)) /\ Fielded(Frame(u))  BY <1>2, TreeHasFields
<1> QED  BY <1>2, <1>3, SameFields DEF Alike, Akin

\* What a handler leaves, framed, is what the twin of its tree becomes.
LEMMA TwinIsFrame ==
    ASSUME NEW u \in Tree, NEW v, NEW N, Twins(u, v, N, Windows), v.stale \subseteq {}
    PROVE  Frame(u) = v
<1>1. /\ Frame(u) \in Tree /\ Alike(u, Frame(u))
      /\ Frame(u).normal = Windows /\ Frame(u).stale = {}
  BY DEF Frame, Tree, Alike, Akin
<1>2. Fielded(Frame(u))  BY <1>1, TreeHasFields
<1>3. v.stale = {}  OBVIOUS
<1> QED  BY <1>1, <1>2, <1>3, SameFields DEF Twins, Alike, Akin

\* The tree a handler ends with has the frame of the one it computes.
LEMMA BecomesFrame ==
    ASSUME NEW t \in Tree, TreeBecomes(t)
    PROVE  Structure' = Frame(t)
<1> DEFINE normal == {w \in Windows : wstate'[w] = "Normal"}
<1>1. tree' = [t EXCEPT !.normal = normal]  BY DEF TreeBecomes
<1>2. normal \subseteq Windows  OBVIOUS
<1> HIDE DEF normal
<1>3. Alike(t, tree')  BY <1>1, <1>2 DEF Alike, Akin, Tree
<1> QED  BY <1>3, SameFrame, StructureIsFrame

\* A step of move_to_workspace is one of Tiling, or none when the window is there.
LEMMA PlacingTiles ==
    ASSUME CoreInv, Matches(tree, list), NEW w \in Windows, NEW ws \in Workspaces,
           NEW t, Alike(tree, t),
           TreeBecomes(MoveToWorkspaceTree(t, w, ws, CurrentWindow(ws)))
    PROVE  Tiled!Next \/ Structure' = Structure
<1> DEFINE current == CurrentWindow(ws)
           s == Frame(tree)
           u == MoveToWorkspaceTree(t, w, ws, current)
           v == MoveToWorkspaceTree(s, w, ws, current)
<1>1. PICK h : Housed(tree, h) /\ Fits(h, list)  BY DEF Matches
<1>2. TreeInv(tree) /\ tree \in Tree  BY DEF Matches, TreeInv, Linked
<1>3. TreeInv(t) /\ t \in Tree /\ Housed(t, h)  BY <1>1, <1>2, AkinKeeps DEF Alike, TreeInv, Linked
<1>4. Frame(t) = s  BY <1>2, SameFrame
<1>5. /\ TreeInv(s) /\ Housed(s, h) /\ Unseen(s, {}) /\ s.stale \subseteq {}
      /\ Twins(t, s, t.normal, Windows) /\ s.parent = tree.parent
  BY <1>1, <1>2, <1>3, <1>4, FrameIsTwin, AkinKeeps DEF Unseen, Alike, Akin
<1>6. Structure' = Frame(u)
  <2>1. u \in Tree
    <3>1. TreeInv(u)  BY <1>1, <1>3, PlacedThere
    <3> QED  BY <3>1 DEF TreeInv, Linked
  <2> QED  BY <2>1, BecomesFrame
<1>7. Structure = s  BY StructureIsFrame
<1>8. CASE ws \in RootsOf(s, w)
  <2>1. ws \in RootsOf(t, w)  BY <1>5, <1>8, TwinsRead
  <2>2. u = t  BY <2>1 DEF MoveToWorkspaceTree
  <2> QED  BY <1>4, <1>6, <1>7, <2>2
<1>9. CASE ws \notin RootsOf(s, w)
  <2>1. current \in IF WindowsOf(s, ws) = {} THEN {Nil} ELSE WindowsOf(s, ws)
    <3>1. list \in Lists /\ list[ws] \in Seq(Windows)  BY DEF CoreInv, StateOK, Lists
    <3>2. WindowsOf(s, ws) = Elements(list[ws])  BY <1>1, <1>5, <3>1, ListIsBelow
    <3> QED  BY <3>1, <3>2, ElementsAreWindows DEF CurrentWindow
  <2>2. s.kids[ws] # <<>> => current \in Windows \ {w} /\ s.parent[current] # Nil
    BY <1>5, <1>9, <2>1, CurrentIsBelow
  <2> HIDE DEF current
  <2>3. v.stale \subseteq {}  BY <1>5, <2>2, MoveToWorkspaceFresh
  <2>4. Twins(u, v, t.normal, Windows)  BY <1>5, TwinsPlace
  <2>5. u \in Tree
    <3>1. TreeInv(u)  BY <1>1, <1>3, PlacedThere DEF current
    <3> QED  BY <3>1 DEF TreeInv, Linked
  <2> HIDE DEF u, v
  <2>6. Structure' = v  BY <1>6, <2>3, <2>4, <2>5, TwinIsFrame
  <2> HIDE DEF s
  <2>7. Tiled!HasRoom(ws)  BY DEF Tiled!HasRoom
  <2>8. current \in Tiled!Currents(ws)  BY <1>7, <2>1, TiledReads DEF Tiled!Currents
  <2>9. Structure' = Tiled!MoveToWorkspaceTree(Structure, w, ws, current)
    BY <1>7, <2>6, TiledOps DEF v
  <2>10. ws \notin Tiled!RootsOf(Structure, w)  BY <1>7, <1>9, TiledReads
  <2>11. Tiled!Manage(w, ws) \/ Tiled!Move(w, ws)
    BY <2>7, <2>8, <2>9, <2>10 DEF Tiled!Manage, Tiled!Move
  <2> QED  BY <2>11 DEF Tiled!Next
<1> QED  BY <1>8, <1>9

\* UnmapNotify is Tiling's Unmanage.
LEMMA LeavingTiles ==
    ASSUME CoreInv, Matches(tree, list), NEW w \in Windows, Leave(w)
    PROVE  Tiled!Next
<1> DEFINE s == Frame(tree)
           u == PurgeAndReconfigure(tree, w)
           v == PurgeAndReconfigure(s, w)
<1>1. TreeInv(tree) /\ tree \in Tree  BY DEF Matches, TreeInv, Linked
<1>2. tree.parent[w] # Nil  BY LeaverIsPlaced
<1>3. /\ TreeInv(s) /\ Unseen(s, {}) /\ s.stale \subseteq {}
      /\ Twins(tree, s, tree.normal, Windows) /\ s.parent = tree.parent
  BY <1>1, FrameIsTwin DEF Unseen, Alike, Akin
<1>4. Structure = s  BY StructureIsFrame
<1>5. u \in Tree  BY <1>1, <1>2, PurgeKeeps DEF TreeInv, Linked
<1>6. v.stale \subseteq {}  BY <1>2, <1>3, PurgeFresh
<1>7. Twins(u, v, tree.normal, Windows)  BY <1>3, TwinsPurge
<1>8. TreeBecomes(Forget(u, w))  BY DEF Leave
<1> HIDE DEF u, v
<1>9. Forget(u, w) \in Tree  BY <1>5 DEF Forget, Tree, Marks
<1>10. v \in Tree  BY <1>2, <1>3, PurgeKeeps DEF TreeInv, Linked, v
<1>11. Forget(v, w).stale \subseteq {}  BY <1>6, <1>10 DEF Forget, Tree
<1>12. Twins(Forget(u, w), Forget(v, w), tree.normal, Windows)  BY <1>7, TwinsStep
<1>13. Structure' = Forget(v, w)
  <2>1. Structure' = Frame(Forget(u, w))  BY <1>8, <1>9, BecomesFrame
  <2> QED  BY <1>9, <1>11, <1>12, <2>1, TwinIsFrame
<1> HIDE DEF s
<1>14. Structure' = Tiled!Forget(Tiled!PurgeAndReconfigure(Structure, w), w)
  BY <1>4, <1>13, TiledOps, TiledSteps DEF v
<1>15. w \in Tiled!Placed(Structure)  BY <1>2, <1>3, <1>4 DEF Tiled!Placed
<1> QED  BY <1>14, <1>15 DEF Tiled!Unmanage, Tiled!Next

\* The bindings act on the current window, wherever Tiling lets any window be it.
LEMMA BindingTiles ==
    ASSUME CoreInv, Matches(tree, list)
    PROVE  /\ \A dir \in Directions : MoveContainer(dir) => Tiled!Next
           /\ \A ty \in Types : ChangeLayoutType(ty) => Tiled!Next
<1> DEFINE s == Frame(tree)
           w == Head(list[cur])
<1>1. TreeInv(tree) /\ tree \in Tree  BY DEF Matches, TreeInv, Linked
<1>2. /\ TreeInv(s) /\ Unseen(s, {}) /\ s.stale \subseteq {} /\ s \in Tree
      /\ Twins(tree, s, tree.normal, Windows) /\ s.parent = tree.parent
  BY <1>1, FrameIsTwin DEF Unseen, Alike, Akin, TreeInv, Linked
<1>3. Structure = s  BY StructureIsFrame
<1>4. list[cur] # <<>> => w \in Windows /\ cur \in RootsOf(tree, w)  BY FrontIsRooted
<1> HIDE DEF w
<1>5. RootsOf(s, w) = RootsOf(tree, w)  BY <1>2, TwinsRead
<1>6. ASSUME NEW dir \in Directions, MoveContainer(dir)  PROVE Tiled!Next
  <2> DEFINE u == MoveContainerTree(tree, w, cur, dir)
             v == MoveContainerTree(s, w, cur, dir)
  <2>1. tree' = u /\ list[cur] # <<>>  BY <1>6 DEF MoveContainer, w
  <2>2. u \in Tree  BY <1>1, <1>4, <2>1, MoveContainerKeeps DEF TreeInv, Linked
  <2>3. v.stale \subseteq {}  BY <1>2, <1>4, <1>5, <2>1, MoveContainerFresh
  <2>4. Twins(u, v, tree.normal, Windows)  BY <1>2, TwinsMove
  <2> HIDE DEF u, v, s
  <2>5. Structure' = v  BY <2>1, <2>2, <2>3, <2>4, TwinIsFrame, StructureIsFrame
  <2>6. Structure' = Tiled!MoveContainerTree(Structure, w, cur, dir)
    BY <1>3, <2>5, TiledOps DEF v
  <2>7. cur \in Tiled!RootsOf(Structure, w)  BY <1>3, <1>4, <1>5, <2>1, TiledReads
  <2>8. Tiled!MoveContainer(w, dir)  BY <2>6, <2>7 DEF Tiled!MoveContainer
  <2>9. dir \in Tiled!Directions  BY TiledLists
  <2> QED  BY <1>4, <2>1, <2>8, <2>9 DEF Tiled!Next
<1>7. ASSUME NEW ty \in Types, ChangeLayoutType(ty)  PROVE Tiled!Next
  <2> DEFINE u == [tree EXCEPT !.mark[w] = ty]
             v == [s EXCEPT !.mark[w] = ty]
  <2>1. tree' = u /\ list[cur] # <<>>  BY <1>7 DEF ChangeLayoutType, w
  <2>2. u \in Tree  BY <1>1 DEF Tree, Marks
  <2>3. v.stale \subseteq {}  BY <1>2 DEF Tree
  <2>4. Twins(u, v, tree.normal, Windows)  BY <1>2, TwinsStep
  <2> HIDE DEF u, v, s
  <2>5. Structure' = v  BY <2>1, <2>2, <2>3, <2>4, TwinIsFrame, StructureIsFrame
  <2>6. Structure' = [Structure EXCEPT !.mark[w] = ty]  BY <1>3, <2>5 DEF v
  <2>7. tree.parent[w] # Nil
    <3>1. cur \in Workspaces  BY DEF CoreInv, StateOK
    <3> QED  BY <1>1, <1>4, <2>1, <3>1, LooseHasNoRoot DEF TreeInv
  <2>8. w \in Tiled!Placed(Structure)  BY <1>2, <1>3, <1>4, <2>1, <2>7 DEF Tiled!Placed
  <2>9. Tiled!ChangeLayoutType(w, ty)  BY <2>6, <2>8 DEF Tiled!ChangeLayoutType
  <2>10. ty \in Tiled!Types  BY TiledLists
  <2> QED  BY <1>4, <2>1, <2>9, <2>10 DEF Tiled!Next
<1> QED  BY <1>6, <1>7

\* Every handler changes the tree as one of Tiling's actions does, or not at all.
LEMMA StepTiles ==
    ASSUME CoreInv, Matches(tree, list), [CubewmNext]_allVars
    PROVE  Tiled!Next \/ Structure' = Structure
<1> DEFINE Goal == Tiled!Next \/ Structure' = Structure
<1>1. TreeInv(tree) /\ tree \in Tree /\ cur \in Workspaces
  BY DEF CoreInv, StateOK, Matches, TreeInv, Linked
<1>2. Alike(tree, tree) /\ \A ws : Alike(tree, Created(ws))
  BY <1>1 DEF Alike, Akin, Created, UpdateMonitorRect, Tree
<1>3. ASSUME NEW t, Alike(tree, t), TreeBecomes(t)  PROVE Goal
  <2>1. t \in Tree  BY <1>3 DEF Alike, Akin
  <2> QED  BY <1>1, <1>3, <2>1, BecomesFrame, SameFrame, StructureIsFrame
<1>4. ASSUME NEW w \in Windows, NEW ws \in Workspaces, Load(w, ws) \/ Send(w, ws)  PROVE Goal
  <2>1. TreeBecomes(MoveToWorkspaceTree(Created(ws), w, ws, CurrentWindow(ws)))
    BY <1>4 DEF Load, Send
  <2> QED  BY <1>2, <2>1, PlacingTiles
<1>5. ASSUME NEW w \in Windows, Arrive(w)  PROVE Goal
  <2>1. TreeBecomes(MoveToWorkspaceTree(tree, w, cur, CurrentWindow(cur)))  BY <1>5 DEF Arrive
  <2> QED  BY <1>1, <1>2, <2>1, PlacingTiles
<1>6. ASSUME NEW ws \in Workspaces, LoadOnlyWorkspace(ws) \/ Switch(ws)  PROVE Goal
  BY <1>2, <1>3, <1>6 DEF LoadOnlyWorkspace, Switch
<1>7. ASSUME NEW w \in Windows, Leave(w)  PROVE Goal  BY <1>7, LeavingTiles
<1>8. ASSUME NEW dir \in Directions, MoveContainer(dir)  PROVE Goal  BY <1>8, BindingTiles
<1>9. ASSUME NEW ty \in Types, ChangeLayoutType(ty)  PROVE Goal  BY <1>9, BindingTiles
<1>10. ASSUME TreeBecomes(tree)  PROVE Goal  BY <1>2, <1>3, <1>10
<1>11. ASSUME UNCHANGED allVars  PROVE Goal  BY <1>11, StructureIsFrame DEF allVars
<1> HIDE DEF Goal
<1>12. Goal
  BY <1>4, <1>5, <1>6, <1>7, <1>8, <1>9, <1>10, <1>11
     DEF CubewmNext, FinishLoading, Focus, Fullscreen, FocusNeighbour
<1> QED  BY <1>12 DEF Goal

\* The window manager as a whole implements Tiling: whatever the focus lists, the states
\* of the windows and the order of the events, the tree takes only the steps that Tiling
\* allows, so what is proved of Tiling's trees holds of the program's.
THEOREM WholeImplementsTiling == CubewmSpec => ImplementsTiling
<1>1. CubewmInit => Tiled!Init
  <2> SUFFICES ASSUME tree = EmptyTree  PROVE Frame(tree) = Tiled!EmptyTree
    BY StructureIsFrame DEF CubewmInit, Tiled!Init
  <2>1. TreeInv(tree) /\ tree \in Tree  BY EmptyIsTree DEF TreeInv, Linked
  <2>2. /\ Alike(tree, Frame(tree)) /\ Frame(tree) \in Tree
        /\ Frame(tree).normal = Windows /\ Frame(tree).stale = {}
    BY <2>1, FrameIsTwin DEF TreeInv, Linked
  <2>3. tree.normal = Windows /\ tree.stale = {}  BY DEF EmptyTree
  <2>4. Fielded(tree) /\ Fielded(Frame(tree))  BY <2>1, <2>2, TreeHasFields
  <2>5. Frame(tree) = tree  BY <2>2, <2>3, <2>4, SameFields DEF Alike, Akin
  <2> QED  BY <2>5, TiledLists
<1>2. WholeInv /\ [CubewmNext]_allVars => [Tiled!Next]_Structure
  BY StepTiles DEF WholeInv, IInv
<1> QED  BY <1>1, <1>2, StaysWhole, PTL DEF CubewmSpec, ImplementsTiling, Tiled!Spec
=============================================================================
