# A TLA+ model of cubewm

cubewm is a tiling window manager for X11 in C++20. It is one thread: it takes over the
screen, loads the windows that are there, and then handles one X event at a time. What makes
it hard is not parallelism inside the process. It is that

- the X server, the clients, the pagers and other window managers run while events are on
  their way, so an event is handled in a state that is not the one it was sent in;
- one fact is kept in several structures updated apart: a window is in the focus list of a
  workspace, in a container tree, in a map of window ids, and in the X server;
- the container tree is rewritten with raw pointers, by operations that delete the nodes
  others are about to use;
- every `assert` is compiled in and most exceptions are not caught: a broken assumption ends
  the process, and the next one has to find the windows again.

Line numbers in this file and in the modules' comments refer to `src/src/`.

## Inventory

| Component | State | Operations | Talks to |
|---|---|---|---|
| Container tree: `node.h`, `container.h`, `layout.*`, the tree parts of `window.cpp` and `binding.cpp` | parent pointers, child lists, layout types, layout marks, rectangles | put a window on a workspace, purge a node (and the sole child it leaves), wrap a marked window in a new layout, move along a direction, lay out | the focus lists (for the current window), the X server (geometry) |
| State: `state.*`, `workspace.*`, `manager.h`, `managed.h`, `window.*` | managed windows, workspaces, focus list and focus flags of each, window states, current workspace | manage, unmanage, create, switch and destroy workspaces, focus, move to a workspace, minimize, normalize, maximize | the container tree, observers (EWMH), the X server |
| Bindings: `binding.cpp` | none | focus or move in a direction, mark a layout, switch workspace | State and tree |
| X11 events: `x11/event.cpp` | none | one handler per event and client message | State, bindings, `Window_impl` |
| X11 windows: `x11/window.cpp` | `_ignored_unmap_ids`; on the server, the save-set and the selected events | map, unmap and count, configure, focus, close, load all windows, forget one | the X server, the next process |
| Start and main loop: `main.cpp`, `server.cpp`, `x11/server.cpp`, `x11/x11.cpp` | the selection `WM_Sn`, timestamp, `_running` | take the selection, wait for the previous owner, announce, redirect, select/poll loop, stop | other window managers through the X server, signals |
| EWMH: `x11/ewmh.cpp` | root window properties, which outlive the process | observers of State, called within the handler that changes it | pagers |
| Geometry: `geometry.h`, `layout.cpp`, `workspace.cpp` | rectangles | divide a rectangle among children, take the gaps off, configure windows | tree, X server |
| Monitors: `monitor.*`, `x11/monitor.cpp`, `x11/extension.cpp` | monitors by key | ask RandR, in the way its version has, or fall back on the screen | X server, State |
| Keyboard, atoms, connection, helpers, logger, config | tables | translation, I/O, ownership wrappers | - |

What makes each correct: the tree's links agree, it has one root per workspace and no
leaked or hollow layout, every rectangle follows the tree and no window covers another or
leaves the monitor, a move does what its arrow says; there is a monitor to put them on;
every window has one home, the focus is where the lists say, no window of the screen is
hidden, no assert fails, pagers read what the manager has; neither hiding windows nor a
restart ever loses one; one window manager at a time, and one that is told to leave leaves. The hazards to these, each at its line, are in
`PROJECT.json` under `hazards`, with the properties aimed at them.

## Modules

```
NodeList <- LayoutTree <- Tiling <- Geometry <- Screen -> Monitors
NodeList <- Desktop <- Ewmh <- UnmapProtocol                      Lifecycle
Desktop, LayoutTree <- Cubewm
Placement <--(INSTANCE, refinement)-- Desktop
Tiling    <--(INSTANCE, refinement)-- Cubewm

proofs:  NodeListProofs <- LayoutTreeProofs <- TilingProofs (Tiling)
         NodeListProofs <- DesktopProofs <- ProtocolProofs (UnmapProtocol)
         LayoutTreeProofs, DesktopProofs <- CubewmProofs (Cubewm)
         TilingProofs <- ScreenProofs (Screen)
         LifecycleProofs (Lifecycle)
```

- **NodeList**: the `std::list` of pointers as a sequence: `find`, `erase`, `push_front`; and
  the constants both structures share (`Windows`, `Workspaces`, `Nil`).
- **LayoutTree**: the tree as a record and every function that rewrites it as an operator
  from a tree to a tree. `kids` and `parent` are `_children` and `_parent`; `live` are the
  layouts not deleted, so a `delete` too few or too many shows. `stale` is a ghost: the
  nodes whose rectangle is not the one the tree prescribes; `update_rect` removes from it
  what it reaches, and for a window it does so only in the state Normal, as
  `x11/window.cpp:171` does. Recursion goes by levels through recursive functions.
- **Tiling**: the tree as a state machine in which any window of a workspace may be the
  current one and all are shown. It is what the tree promises whatever the focus does.
- **Geometry**: the rectangles as values: `f_width` and `f_height` with their rounding and
  the processor's reciprocal (`_mm_rcp_ss`, relative error up to 3 of 2^13, a constant
  `Reciprocals` that gives one error for each number of children), the gaps, and what
  `xcb_configure_window` makes of a size (16 bits, unsigned). They are a function of the tree,
  because `GeometryFresh` says that no stored rectangle differs from the one the tree gives.
- **Monitors**: `State::init` up to the current monitor: the version of RandR, one request
  after the other, each answered when it is sent or not at all, the numbering of monitors,
  the fallback, and `monitors().at(0)`. **Screen** joins it to Geometry: windows are laid
  out on the monitor the start has found.
- **Placement**: what the user is promised: a window has one home, and only a request about
  that window changes it.
- **Desktop**: `State`, `Workspace` and the window states: `list` (focus lists), `focused`
  and `wsFocused` (the `_focused` flags), `wstate`, `exists`, `cur`, and the EWMH outputs
  `netActive`, `netDesktop`. There is one action per handler, with all it calls.
  A failed assert sets `status` to its text and no action is enabled after it. The guards in
  `FocusWindow`, `SwitchWorkspace` and so on follow the order in which the code asserts.
- **Cubewm**: Desktop and LayoutTree together: each handler with its effect on both. Where
  two handlers do the same in some state, one of them stands for both (named in the module),
  here and in UnmapProtocol; Desktop has them all.
- **Ewmh**: `_NET_CLIENT_LIST` and `_NET_NUMBER_OF_DESKTOPS` beside Desktop: the observers
  are connected at the end of `State::init`, told everything once, and told of a change
  within the handler that makes it. `UpdateEwmh` is a conjunct of the step of whatever module
  extends it.
- **UnmapProtocol**: Desktop and Ewmh, with clients, the server's windows and the queue of structure
  events. It has `_ignored_unmap_ids` as `ignored`. Origins of events and `asked`, `spare`
  are ghosts, which no guard of the manager reads. A window that is managed again while events
  of its earlier life are on their way counts as `asked`: the client's unmap may have used up
  the count of the manager's own, which then ends the new management.
  The manager may end at any moment (`End`: a signal, an exception, a failed assert or null
  attribute), or while it loads because a window is destroyed between two requests
  (`LoadDestroyed`), and be launched again (`Relaunch`), any number of times. `CloseDown` is
  what the X server does then: it maps the windows of the save-set. `~State` deletes every
  window and so asks for an empty save-set, but `~Connection` calls `xcb_disconnect`, which
  drops requests that were not flushed, so these never arrive (the buffer holds the requests
  of some 800 windows); flushed, they would lose every hidden window, which is the seeded
  fault of `RestartKeepsWindows`. Clients do nothing while windows are loaded: the server is
  grabbed, and what happens before the grab is `LoadDestroyed` or might as well have happened
  while no manager ran. What a client withdraws meanwhile it no longer wants (`owed`).
- **Lifecycle**: several processes from launch to exit, with the selection and the server's
  timestamps, event redirection, signals, and the two places where an event may wait: the
  socket, which `select()` sees, and xcb's queue in memory, which it does not.
- **...Proofs**: see Proofs. **MC...**: symmetry and bounds for TLC.

Operators marked "Seeded fault" are not used: each is a plausible bug in the definition
below it, listed under `mutants` in `PROJECT.json` with the property that notices it.

## Runs

| Run | What it shows | Instance, distinct states |
|---|---|---|
| `tiling` | links, roots, the one tiling layout, no hollow layout and fresh rectangles survive every sequence of operations; no window covers another | 4 windows, 4 layouts, 2 workspaces: 36,478 |
| `screen` | the start finds monitors numbered without a gap, whatever replies fail; windows stay on their monitor with legal sizes; a step moves one window and keeps the order of all others; arrows move the way they point, but for one case stated in `TopCollapses` | 3 windows, 2 workspaces, 2 heads: 11,795 |
| `desktop` | homes, focus flags, the current workspace, shown windows, active window; the window on the screen loses the focus only by leaving; Desktop implements Placement | 3 windows, 3 workspaces: 5,320 |
| `cubewm` | tree and focus lists hold the same windows; arrows focus a window of the workspace; only unseen windows miss a geometry | 3 windows, 2 workspaces: 187,997 |
| `cubewm_refines` | each handler changes the tree as a step of Tiling | 2 windows, 2 workspaces: 6,514 |
| `unmap` | hiding never unmanages; manager and server agree once the queue is empty, but for windows with a count nothing matches; no restart loses a window; pagers read what the manager has | 2 windows, 2 workspaces, 3 events, any number of restarts: 820,410 |
| `lifecycle` | one manager, the hand-over, that starting ends, that losing the selection ends the loop | 2 processes: 7,302 |
| `unfocus_assert`, `focus_assert`, `tiling_loops`, `cubewm_shown`, `announce` | the code does otherwise than it says; see Findings | - |

### Bounds

- *Four windows* give every shape of the tree on which an operation differs: three levels of
  layouts, a purge that moves a layout up into one of the same type, a mark on each position.
  An operation touches one window, its parent, its grandparent and siblings. In `tiling` the
  second workspace holds one window at most (`Sparse`): windows come and go to it from every
  shape. In `screen` both workspaces, with layouts from one pool, hold any three.
  There are as many layouts as windows: a tree without hollow layouts has fewer, and the
  wrap that precedes a purge needs one more.
- *Rectangles*: a laptop's screen and one of 3840 by 2160, and in `screen` a terminal's as
  the fallback; the reciprocal has its largest error, up or down, the same for all
  numbers of children in `tiling` and any combination in `screen`. Coordinates enter only
  through sums and rounding, so the extremes of the error and the ends of the size range are
  what matters; `ScreenProofs` has every tree and error on
  monitors with room for their windows. A much smaller
  screen or much deeper nesting does give windows a size below one pixel, and nothing in the
  code prevents it.
- *Monitors*: none, one or two answers (`MaxHeads`), RandR absent, 1.2 and 1.5 (`Versions`
  has a value on each side of each comparison). The proof has no such bound.
- *Three windows, three workspaces* in `desktop`: a focus list with a front, a middle and an
  end, and a switch that leaves one workspace, creates or shows a second and lets a third
  alone. The proofs have no such bound.
- `cubewm` keeps to one marked or fullscreen window at a time (`Bounded`): `tiling` has all
  marks at once, and states of different windows do not interact.
- `unmap`: counts are per window and no handler relates the counts of two, so one window has
  a client that acts (`Restless`) and one is quiet, there to be shown, hidden and focused
  beside it (and never fullscreen, `QuietBounded`). Three events in flight (`MaxQueue`) hold
  an own unmap, a client's unmap and its destroy, or two own unmaps and one of the client;
  counts go to two (`MaxIgnored`). The queue has structure events only. Other handlers
  may run at any time, as their events may be anywhere among these. An id is not given to a
  new window while an event names the old one.
- `lifecycle`: two processes, one of them with `--replace`; the wait is two turns instead of
  ten (what differs is the last turn); one signal and two other events for each. Three
  processes without signals were checked as well (97,656 states); with signals they take
  longer than a run should.
- *Symmetry*: windows are interchangeable, as are workspaces but the first. Layouts are not,
  because the next address is chosen among them. No liveness is checked under symmetry.
- *Deadlock* is not checked where the program may stop: after a failed assert (Desktop,
  Cubewm), and when all processes have ended (Lifecycle). It is checked in `screen` and in
  `unmap`, where a manager that has ended is launched again.

### Fairness

Only Lifecycle claims liveness, under weak fairness of each process's own steps: a process
that is not blocked in `select()` runs, the scheduler of the system sees to it. Nothing is
assumed of launches, signals, events or other processes' decisions. `ClearStops` also needs
that the other events are finitely many (`MaxOthers`), because the inner loop polls until
there are none; with a stream of events that never pauses, `is_running` is never tested.
`ClearStops` speaks of events that arrive on the socket once the loop runs. It would not hold
of those xcb buffered during `State::init`: `select()` blocks beside them, until another
event comes (`x11/server.cpp:45`).

## Findings

1. **`container.h:48`** (`unfocus_assert`). Closing the current window focuses no other
   window; the front of the list is then not focused, and the next switch of workspace
   unfocuses it: `assert(_focused)` fails and the process aborts.
2. **`container.h:42`** (`focus_assert`). A FocusIn or a click queued before a switch focuses
   a window of a hidden workspace; showing that workspace focuses it again:
   `assert(!_focused)` fails.
3. **`binding.cpp:102`** (`tiling_loops`). "it will only loop 2 times max": a purge or a mark
   can leave a layout inside one of the same type, and the search goes on a third time.
4. **`window.h:126`** (`cubewm_shown`). `normalize()` is to "return window to its place": it
   maps the window and does not configure it, and while it was not normal `update_rect`
   skipped it. It comes back with its old geometry.
5. **`x11/x11.cpp:103`** (`announce`). "Announce that we're the new selection owner": the
   request for the selection carries a timestamp taken earlier; if another process set the
   owner since, the server ignores it, and the process announces itself without owning it.

Others that no sentence of the repository contradicts are in the hazards: the toggle of
`_NET_WM_STATE` that maximizes what it has just normalized (`x11/event.cpp:332`); counts
of ignored unmaps that nothing matches, which swallow the client's own event
(`x11/event.cpp:102`; `ServerAgrees` excludes exactly those windows, the ghost `spare`); and a
start that fails when a window is destroyed before the server is grabbed
(`x11/window.cpp:380`, the action `LoadDestroyed`).

## Proofs

Each theorem is about the specification the runs check, for all values of its constants.

**Desktop** (`DesktopProofs`). For any sets of windows and workspaces, finite or not, and from
the assumptions `FirstAssumption` (the first workspace is one) and `NilAssumption` (`Nil` is
no window or workspace) only, `IInv` is inductive (theorem `Inductive`):

    TypeOK, OneHome, OnlyFrontFocused, OneWorkspaceFocused, CurrentWorkspaceShown,
    UnmanagedNormal, ActiveIsFocused

and hence each of the six that the run `desktop` checks (`TypeCorrect`,
`EveryWindowHasOneHome`, `FocusStaysAtTheFront`, `CurrentWorkspaceExists`,
`NothingShownIsMinimized`, `ActiveWindowHasTheFocus`). None is inductive alone. `Home(w)` is
a choice that denotes the right workspace only under `OneHome`; that a moved window does not
carry the flag away from the front needs `OnlyFrontFocused` beside it; a window that arrives
is shown because of `UnmanagedNormal`; and `switch_workspace` destroys the workspace left
behind only when its list is empty, which keeps `OneHome` because `OneWorkspaceFocused` says
which workspace that is.

The argument: `Tidy` says that the lists partition the windows. `NodeListProofs` says what
`Erase` and `PushFront` do to elements and duplicates; from it, `TidyErase`, `TidyPush` and
`TidyToFront` say that the three list operations of the handlers keep lists tidy. One lemma
per operation (`FocusWindowInv`, `UnmanageWindowInv`, `MoveToWorkspaceInv`,
`SwitchWorkspaceInv`, ...) carries the invariant over it, and `CoreKept` splits `Next`. A step
that fails an assert keeps it too, so it holds up to the very abort. `CoreInv` is the part
that does not depend on `status` or on `_NET_ACTIVE_WINDOW`, which outlives the process: it is
what the ends and restarts of UnmapProtocol keep.

**Placement** (`DesktopProofs`). Desktop implements Placement (`PlacementImplemented`): in
terms of the lists, a step lets every window stay, sends one to a workspace or takes one away
(`StepAllowed`); under `IInv` before and after, that is the same of the homes (`HomesStay`,
`HomesGoTo`, `HomesGoAway`), and so a step of Placement.

**The focus on the screen** (`FocusNeverStolen`). An action property, from `CoreInv` before and
after the step. Two facts carry it: the front of one workspace's list is in no other
list (`CurrentIsHere`, by `OneHome`), so a flag taken on a hidden workspace is not that of the
screen; and the front of a list stays in front when another window leaves it
(`ListAfterErase`), so what the screen loses it loses with the window (`DepartureKeepsFocus`).
It does not say that the focus comes back: after the focused window has left, nothing gets it
until an event gives it, and a switch before that fails the assert of finding 1.

**The tree** (`LayoutTreeProofs`, `TilingProofs`). For any number of windows, workspaces and
layouts, from `KindsAssumption` (windows, layouts and workspaces are different things) and
`PoolAssumption` (finitely many windows, and at least as many addresses for layouts), every
operator of LayoutTree takes a tree to a tree (`PlaceWindowKeeps`,
`PurgeKeeps`, `MoveToWorkspaceKeeps`, `MoveContainerKeeps`, ...), where a tree (`TreeInv`) is

- *linked* (`Linked`): a node has p as its parent just when p has it among its children, once,
  and only live layouts and workspaces have children;
- *acyclic* (`Acyclic`): some `r` grows from every layout to the layouts it holds. The checked
  property walks up instead; a rank is what survives surgery on one node, since only the ranks
  below it change;
- *shaped* (`Shaped`): a workspace holds one layout at most and no window, every live layout
  hangs somewhere, is not empty, and holds a single child only if that is a window in a top
  layout.

None of the three can be left out. An operation that deletes a layout its node was the sole
child of reads `_parent` of the parent, which is not null because of `Shaped`. That `new`
finds an address for the next layout is counting (`FreshExists`): every layout but the top ones
has two children, so there are fewer layouts than windows, which again needs `Acyclic` to count
each window once. And a layout that was just emptied or left with one child is `Shaped` but
for itself (`Shaped(t, S)` names the layouts that are full) until the purge that follows.

From `TreeInv` follow type correctness and each property of the links that the run `tiling`
checks: `TilingTypeCorrect`, `LinksAlwaysAgree`, `AlwaysRooted`,
`AlwaysOneTilingLayout`, `NeverHollow`. For `Rooted`, the walk up of the model goes on for
`Height` steps; that no walk is cut off is the pigeonhole (`TooManyLayouts`), as a walk passes
different layouts only. The recursive functions of the walks are shown to satisfy their
equations, and what they give is found from the first level that fails, by the least element
of a set of levels: the induction theorems of the library cannot be instantiated.

**Rectangles** (`GeometryAlwaysFresh`, `NothingSeenGoesStale`). A change of a child list makes
stale what is below it then (`ChangedIsStale`), and `update_rect` of a node makes fresh what is
below that node later, when the tree is another. One lemma per operation (`PurgeFresh`,
`MoveToAdjacentFresh`, `MoveToTopNodeFresh`, ...) follows what is stale through the operation: at
each moment it lies in a fixed set `B` or below the nodes still to be updated (`Relaid`,
`RelaidTwice`), since what is below a node stays there or goes below another that is updated
(`BelowPurged`, `BelowGrows`). `Below` is by definition a union of levels; `BelowClosed` and
`BelowLeast` show that it is the least set closed under children, which is how it is used.
`update_rect` returns early at a node that is stale itself; that this never happens is again
`Acyclic` (`NotBelowItself`). With `B` empty this is `GeometryFresh` of Tiling, where every window
is normal. In Cubewm, `B` is what was stale before and the windows that are not normal
(`Unseen`), which gives `OnlyUnseenGoStale`.

**The order of windows** (`OthersAlwaysKeepOrder`, `AlwaysMovesInDirection`). The order of the
leaves is a fold over the levels of the tree, and an operation deep in the tree changes it in
the middle. Numbers make it local: every node has an interval from `lo` to `hi`, inside that of
its layout and before those of the children that follow it (`Nested`). `LeafOrderRanged` says
that the walk of LeafOrder lists the windows in the order of their intervals, whatever the
intervals are; so two lists with the same windows, in the same order by one numbering, are equal
(`RisingEqual`), and a window that overtakes nothing has not moved (`LaterOvertakes`). Each
operation is then a matter of one child list: removing a node leaves the intervals as
they are, a layout that is replaced by its child gives it its place (`PurgeNested`), and
for a node that is inserted there may be no room, so all numbers are first multiplied by eight
(`Spread`, `RoomMade`). `PutAt(u, lo, w, q)` says that in the tree u the windows other than w are
in the order of `lo` and w stands at q; one lemma for each operation (`MoveToLayoutPut`,
`ShiftPut`, `WrapTopPut`, `PlacePut`, `MoveContainerPut`, ...) says where q is, and `Aims` that
it is on the side the arrow points to. The exception of `MovesInDirection`, a top layout that
collapses, is the one case where the node found before the window leaves is not the one it is
put beside (`TopStays`). `OrderInv` is inductive: `TreeInv`, that every node has a workspace
(`Settled`), and that there are intervals (`Ordered`); which window moves, and where to, is
in `Carries`.

**Tree and lists together** (`CubewmProofs`). The tree of a workspace holds the windows of its
focus list (`TreeAlwaysMatchesLists`), and so an arrow leads to a window of the current
workspace (`NeighbourAlwaysHere`). The two structures are changed by different code, and "the
windows below a workspace" is a walk that an operation elsewhere may disturb. The invariant
(`WholeInv`) instead says that there is an `h` that gives each node the workspace of its
parent (`Housed`), and that `h` and the lists agree (`Fits`); it is unique where it matters.
Each operator of LayoutTree changes `h` at one window at most (`Moved`), each handler of Desktop
changes the list of that window (`GoTo`, `GoAway`, `Stay`, from the proof of Placement), and
`StepMatches` puts the two together for every handler. The current window that
`move_to_workspace` puts the window beside is below the workspace because of `Fits`, so what
Tiling assumes of it is proved here.

**Refinement** (`WholeImplementsTiling`). A step of Cubewm, with every window taken for normal
and nothing for stale (`Frame`), is a step of Tiling or a stutter; so what is proved of Tiling's
trees holds of the program's, and Tiling lets the current window be any of the workspace. An
operator applied to the frame of a tree does not literally give the frame of its result: it
also computes which rectangles are stale. `Twins` are trees that differ in `normal` and `stale`
only, and each operator takes twins to twins (`TwinsStep`, `TwinsPurge`, `TwinsPlace`,
`TwinsMove`): no operation reads a rectangle or a state to decide on a link. What
Tiling makes of the frame and the frame of what Cubewm makes can then differ in `stale` only;
it is empty in the second by definition, and in the first by the lemmas on rectangles
(`PurgeFresh` and its like, with `B` empty). `TiledOps` and the lemmas before it say that
the operators of the instance are those of LayoutTree; `PlacingTiles`, `LeavingTiles` and
`BindingTiles` map the handlers that change the tree, and `StepTiles` splits `CubewmNext`.

**Counts, restarts, pagers** (`ProtocolProofs`), for clients, server and window managers in any
order, and for queues and counts of any length.

- *Restarts*: `RestartLosesNothing`. `RInv` adds to the property what makes it inductive: a
  managed window that exists and that its client has not given up is in the save-set
  (`SaveSetCovers`), a managed window that does not exist was given up by its client
  (`GoneWereAsked`), and what is owed is mapped while no manager runs and nothing is owed once
  one does (`OwedAreMapped`). It needs nothing of `IInv`.
- *Counts*: `OwnUnmapsAreCounted`, `HidingLosesNothing`, `ServerAndManagerAgree`.
  `CountInv` compares the count of a window with the numbers of events in the queue: while its
  client has asked for nothing, all events that end its management are the manager's own
  unmaps, and no more than the count (`Covered`); unless its count is spare, the count is
  at most the number of events that end its management, and when the server does not have the
  window as its state says, it is less: one of those events will not be swallowed
  (`Balanced`). The handler of an event and the actions that append one change two of
  these numbers by the same amount. `Occ` counts events in a sequence; its lemmas are bijections
  between sets of positions.
- *Types*: `ProtocolTypeCorrect`, and `CoreInv` of Desktop across ends and restarts
  (`CoreStep`): a process that ends forgets all (`Blank`), and a new one begins as `Init` does.
- *Pagers*: `PagersAgree`. `Told` holds of what the observers announce from the moment they are
  connected; `_NET_ACTIVE_WINDOW` is part of it, which a predecessor may have left set:
  `FinishInit` is what sets it right.

**Lifecycle** (`LifecycleProofs`). `NeverTwoManagers`, `PreviousHasEnded` and
`LifeTypeCorrect`, for any number of processes, signals and turns of the wait. A process that
loads or runs holds the redirection (`InsideRedirects`), of which there is one; this, not the
selection, excludes a second manager. For the hand-over, a process past its wait has a
previous owner that is gone (`PreviousGone`), and a process that is gone and was an owner stays
gone, as an owner has a timestamp (`OwnersStamped`) and a process that has one is not launched
again.

**Monitors and geometry** (`ScreenProofs`). `StartFindsAMonitor`, of `ScreenSpec`, for any
heads, versions and numbers of CRTCs: the keys in use are 0 to n - 1 and, while CRTCs are asked
about, n is the next key. `SharesAddUp` bounds what the shares of n children add up to,
from the definition of the integer quotient; `RowStaysInside` draws from it that a row of the
whole monitor stays on it, up to 13 windows on 3840 pixels.

**Nested rectangles** (`FewWindowsAlwaysFit`, `WindowsAlwaysApart`, `AlwaysOnMonitor`). Each
level of the tree adds its rounding and its reciprocal's error, and a sum along a path of
layouts would be induction over data. The bound is therefore stated between a node and any
layout above it (`Inside`): the node may end beyond the layout's end by 6 of 8192 parts of what
its size is smaller, and by about one pixel for each window it has fewer. One level stays within
that (`ShareStep`): a share is about half the size at most, which pays for the error of the
reciprocal, and each of the other children has a window (`WeightOfChild`), which pays for
their rounding. Both amounts add up along a path to the difference of its ends, so `Inside`
is transitive and holds of all that is below a layout. The same count bounds sizes from
below: `Least[m]` pixels are enough for m windows in any nesting, with nine pixels for each. Two
windows of a workspace are in two different children of some layout (`Separated`: the one with
the smallest interval that has both); the children do not overlap, the windows end at most
eight pixels beyond them, and the two gaps of four are what separates them (`GapsCover`). That
the recursive `RectsBelow` has a value at all, and that it satisfies its equation, is
`RectsAre`, with the intervals of `Nested` in the place of an induction over the depth.

The hypothesis `Spacious(s, m)`, room for m windows on a monitor, is part of the theorems and
not an assumption of the model: nothing in the code bounds the windows of a workspace, and
halving a side often enough leaves no pixel. It holds for seven windows on 3840 by 2160, six on
1920 by 1080 or 1366 by 768, five on 640 by 480, and of the constants of the runs `screen` and
`tiling`. `FewWindowsAlwaysFit` applies it to the windows a workspace has at the moment, for any
number elsewhere; the other two apply it to all windows there may be, as the checked
properties do.

Only model-checked: liveness (`Settles`, `ClearStops`), which is out of this prover's reach.

## Not modelled

- The hidden state, names, order and other details of EWMH: `ewmh.h:63` says that the hidden
  state goes to `_NET_WM_STATE`, and `ewmh.cpp:142` appends to another property; ids of
  desktops are not contiguous while `_NET_NUMBER_OF_DESKTOPS` counts them. Both are among
  the hazards.
- The workspace a window is loaded onto is any of them: `_NET_WM_DESKTOP` is the pager's or
  the client's to set.
- The floating layout and the tabbed type: nothing puts a window in the one or sets the
  other. `_on_enter_notify`: windows do not select the event. The focus across monitors:
  every workspace is created on the first monitor. Monitors that come or go later: no RandR
  event is handled.
- Fullscreen geometry: the code sends none (`Window_impl::update_state` does nothing for
  `Maximized`, `x11/window.cpp:217`). `Cubewm!Fullscreen` has what the request does change,
  the recorded state of the window, and leaves the tree alone.
- Keyboard tables (the grabs and the translation of keys), atoms, logging and ownership
  wrappers: they keep no state that the rest depends on. Observers are called
  synchronously and are part of the action that notifies them.
- The loss of the X connection by the server's end.

## Plan

Done: all modules above, and the theorems listed. What could follow:

1. *EWMH*: the hidden state and the ids of desktops.
