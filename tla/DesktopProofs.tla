--------------------------- MODULE DesktopProofs ----------------------------
(***************************************************************************)
(* The invariants of Desktop hold for any sets of windows and workspaces.  *)
(* They are proved together: which window may be unfocused or erased       *)
(* depends on the windows' homes, and the homes on the workspaces that     *)
(* exist.                                                                  *)
(***************************************************************************)
EXTENDS Desktop, NodeListProofs

\* What does not depend on how the process came to be, nor on whether it ended.
CoreInv == /\ StateOK
           /\ OneHome
           /\ OnlyFrontFocused
           /\ OneWorkspaceFocused
           /\ CurrentWorkspaceShown
           /\ UnmanagedNormal

IInv == TypeOK /\ CoreInv /\ ActiveIsFocused

\* What every handler keeps.
Kept == CoreInv' /\ (ActiveIsFocused => ActiveIsFocused')

Lists == [Workspaces -> Seq(Windows)]

\* Two lists of the same windows, in whatever order.
SameElements(L1, L2) == \A ws \in Workspaces : Elements(L1[ws]) = Elements(L2[ws])

\* The list of v in N is the one in L without w; who was in front stays there.
Without(N, L, w, v) ==
    /\ Elements(N[v]) = Elements(L[v]) \ {w}
    /\ \A y : AtFront(L[v], y) /\ y # w => AtFront(N[v], y)

-----------------------------------------------------------------------------
(* The lists of all workspaces, when one of them changes. *)

\* A list element of a typed list is a window.
LEMMA ElementsAreWindows ==
    ASSUME NEW s \in Seq(Windows)
    PROVE  /\ Elements(s) \subseteq Windows
           /\ s = <<>> <=> Elements(s) = {}
           /\ s # <<>> => Head(s) \in Elements(s)
<1>1. Len(s) \in Nat /\ \A i \in 1..Len(s) : s[i] \in Windows
  BY LenProperties, ElementOfSeq
<1>2. s # <<>> => Len(s) >= 1 /\ Head(s) = s[1]
  BY <1>1, EmptySeq
<1>3. s = <<>> => Len(s) = 0  OBVIOUS
<1>4. s # <<>> => 1 \in 1..Len(s)  BY <1>1, <1>2
<1>5. Elements(s) \subseteq Windows  BY <1>1 DEF Elements
<1>6. s # <<>> => Head(s) \in Elements(s)  BY <1>2, <1>4 DEF Elements
<1>7. s = <<>> => Elements(s) = {}
  <2>1. s = <<>> => 1..Len(s) = {}  BY <1>3
  <2> QED  BY <2>1 DEF Elements
<1> QED  BY <1>5, <1>6, <1>7

\* Erasing a window from its list makes it unmanaged and touches no other window.
LEMMA TidyErase ==
    ASSUME NEW L \in Lists, NEW E \in SUBSET Workspaces, NEW M, Tidy(L, E, M),
           NEW h \in Workspaces, NEW w \in Elements(L[h])
    PROVE  LET N == [L EXCEPT ![h] = Erase(@, w)]
           IN  N \in Lists /\ Tidy(N, E, M \ {w})
<1> DEFINE N == [L EXCEPT ![h] = Erase(@, w)]
<1>1. L[h] \in Seq(Windows) /\ NoDuplicates(L[h])  BY DEF Lists, Tidy
<1>2. /\ Erase(L[h], w) \in Seq(Windows)
      /\ NoDuplicates(Erase(L[h], w))
      /\ Elements(Erase(L[h], w)) = Elements(L[h]) \ {w}
  BY <1>1, EraseIsSeq, EraseElements
<1>3. N \in Lists /\ N[h] = Erase(L[h], w) /\ \A ws \in Workspaces : ws # h => N[ws] = L[ws]
  BY <1>2 DEF Lists
<1>4. \A ws \in Workspaces : Elements(N[ws]) = Elements(L[ws]) \ {w}
  <2> SUFFICES ASSUME NEW ws \in Workspaces, ws # h  PROVE w \notin Elements(L[ws])
    BY <1>2, <1>3
  <2> QED  BY DEF Tidy
<1> HIDE DEF N
<1>5. \A ws \in Workspaces : NoDuplicates(N[ws])  BY <1>2, <1>3 DEF Tidy
<1>6. \A ws \in Workspaces \ E : N[ws] = <<>>
  <2>1. h \in E  BY <1>1, ElementsAreWindows DEF Tidy
  <2> QED  BY <2>1, <1>3 DEF Tidy
<1>7. M \ {w} = UNION {Elements(N[ws]) : ws \in Workspaces}  BY <1>4 DEF Tidy
<1> QED  BY <1>3, <1>4, <1>5, <1>6, <1>7 DEF Tidy, N

\* Pushing an unmanaged window makes it managed, on a workspace that exists.
LEMMA TidyPush ==
    ASSUME NEW L \in Lists, NEW E \in SUBSET Workspaces, NEW M, Tidy(L, E, M),
           NEW h \in E, NEW w \in Windows \ M
    PROVE  LET N == [L EXCEPT ![h] = PushFront(@, w)]
           IN  N \in Lists /\ Tidy(N, E, M \cup {w})
<1> DEFINE N == [L EXCEPT ![h] = PushFront(@, w)]
<1>1. L[h] \in Seq(Windows) /\ NoDuplicates(L[h]) /\ w \notin Elements(L[h])
  BY DEF Lists, Tidy
<1>2. /\ PushFront(L[h], w) \in Seq(Windows)
      /\ NoDuplicates(PushFront(L[h], w))
      /\ Elements(PushFront(L[h], w)) = Elements(L[h]) \cup {w}
  BY <1>1, PushFrontElements
<1>3. N \in Lists /\ N[h] = PushFront(L[h], w) /\ \A ws \in Workspaces : ws # h => N[ws] = L[ws]
  BY <1>2 DEF Lists
<1> HIDE DEF N
<1>4. /\ Elements(N[h]) = Elements(L[h]) \cup {w}
      /\ \A ws \in Workspaces : ws # h => Elements(N[ws]) = Elements(L[ws])
  BY <1>2, <1>3
<1>5. \A ws \in Workspaces : NoDuplicates(N[ws])  BY <1>2, <1>3 DEF Tidy
<1>6. \A ws \in Workspaces \ E : N[ws] = <<>>  BY <1>3 DEF Tidy
<1>7. M \cup {w} = UNION {Elements(N[ws]) : ws \in Workspaces}  BY <1>4 DEF Tidy
<1>8. \A ws \in Workspaces : w \notin Elements(L[ws])  BY DEF Tidy
<1>9. \A ws1, ws2 \in Workspaces : ws1 # ws2 => Elements(N[ws1]) \cap Elements(N[ws2]) = {}
  BY <1>4, <1>8 DEF Tidy
<1> QED  BY <1>3, <1>5, <1>6, <1>7, <1>9 DEF Tidy, N

\* Bringing a window to the front of its list changes no home.
LEMMA TidyToFront ==
    ASSUME NEW L \in Lists, NEW E \in SUBSET Workspaces, NEW M, Tidy(L, E, M),
           NEW h \in Workspaces, NEW w \in Elements(L[h]),
           NEW N, N = [L EXCEPT ![h] = ToFront(w, @)]
    PROVE  /\ N \in Lists /\ Tidy(N, E, M)
           /\ AtFront(N[h], w)
           /\ SameElements(N, L)
<1> DEFINE e == Erase(L[h], w)
<1>1. L[h] \in Seq(Windows) /\ NoDuplicates(L[h])  BY DEF Lists, Tidy
<1>2. w \in Windows  BY <1>1, ElementsAreWindows
<1>3. e \in Seq(Windows) /\ NoDuplicates(e) /\ Elements(e) = Elements(L[h]) \ {w}
  BY <1>1, EraseIsSeq, EraseElements
<1> HIDE DEF e
<1>4. /\ PushFront(e, w) \in Seq(Windows)
      /\ AtFront(PushFront(e, w), w)
      /\ NoDuplicates(PushFront(e, w))
      /\ Elements(PushFront(e, w)) = Elements(L[h])
  <2>1. w \notin Elements(e) /\ Elements(e) \cup {w} = Elements(L[h])  BY <1>3
  <2>2. /\ PushFront(e, w) \in Seq(Windows)
        /\ AtFront(PushFront(e, w), w)
        /\ Elements(PushFront(e, w)) = Elements(e) \cup {w}
        /\ NoDuplicates(e) /\ w \notin Elements(e) => NoDuplicates(PushFront(e, w))
    BY <1>2, <1>3, PushFrontElements
  <2> QED  BY <2>1, <2>2, <1>3
<1>5. ToFront(w, L[h]) = PushFront(e, w)  BY DEF ToFront, e
<1>6. N \in Lists /\ N[h] = PushFront(e, w) /\ \A ws \in Workspaces : ws # h => N[ws] = L[ws]
  BY <1>4, <1>5 DEF Lists
<1>7. \A ws \in Workspaces : Elements(N[ws]) = Elements(L[ws])  BY <1>4, <1>6
<1>8. \A ws \in Workspaces : NoDuplicates(N[ws])  BY <1>4, <1>6 DEF Tidy
<1>9. \A ws \in Workspaces \ E : N[ws] = <<>>
  <2>1. h \in E  BY <1>1, ElementsAreWindows DEF Tidy
  <2> QED  BY <2>1, <1>6 DEF Tidy
<1>10. M = UNION {Elements(N[ws]) : ws \in Workspaces}  BY <1>7 DEF Tidy
<1>11. Tidy(N, E, M)  BY <1>7, <1>8, <1>9, <1>10 DEF Tidy
<1> QED  BY <1>4, <1>6, <1>7, <1>11 DEF SameElements

\* A managed window has its home, and no other.
LEMMA HomeOf ==
    ASSUME StateOK, OneHome, NEW w \in managed
    PROVE  /\ Home(w) \in exists /\ Home(w) \in Workspaces /\ w \in Elements(list[Home(w)])
           /\ \A ws \in Workspaces : w \in Elements(list[ws]) => ws = Home(w)
<1>1. \E ws \in Workspaces : w \in Elements(list[ws])  BY DEF OneHome, Tidy
<1>2. Home(w) \in Workspaces /\ w \in Elements(list[Home(w)])  BY <1>1 DEF Home
<1>3. list[Home(w)] # <<>>  BY <1>2, ElementsAreWindows DEF StateOK
<1> QED  BY <1>2, <1>3 DEF OneHome, Tidy
-----------------------------------------------------------------------------
(* The steps handlers share. *)

\* The hypotheses of the lemmas above, of the lists as they are.
LEMMA ListsTidy ==
    ASSUME StateOK, OneHome
    PROVE  list \in Lists /\ exists \in SUBSET Workspaces /\ Tidy(list, exists, managed)
BY DEF StateOK, OneHome, Lists

\* The window at the front of its list, in the state.
LEMMA ListToFront ==
    ASSUME StateOK, OneHome, NEW ws \in Workspaces, NEW w \in Elements(list[ws]),
           list' = [list EXCEPT ![ws] = ToFront(w, @)]
    PROVE  /\ list' \in Lists /\ Tidy(list', exists, managed)
           /\ AtFront(list'[ws], w)
           /\ SameElements(list', list)
<1>1. list \in Lists  BY DEF StateOK, Lists
<1>2. exists \in SUBSET Workspaces  BY DEF StateOK
<1>3. Tidy(list, exists, managed)  BY DEF OneHome
<1>4. w \in Elements(list[ws])  OBVIOUS
<1>5. list' = [list EXCEPT ![ws] = ToFront(w, list[ws])]  OBVIOUS
<1>6. list' \in Lists  BY <1>1, <1>2, <1>3, <1>4, <1>5, TidyToFront
<1>7. Tidy(list', exists, managed)  BY <1>1, <1>2, <1>3, <1>4, <1>5, TidyToFront
<1>8. AtFront(list'[ws], w)  BY <1>1, <1>2, <1>3, <1>4, <1>5, TidyToFront
<1>9. SameElements(list', list)  BY <1>1, <1>2, <1>3, <1>4, <1>5, TidyToFront
<1> QED  BY <1>6, <1>7, <1>8, <1>9

\* A failed assert changes nothing but the status.
LEMMA AbortInv ==
    ASSUME CoreInv, NEW assertion, Abort(assertion)
    PROVE  Kept
<1> USE DEF Abort, CoreInv, Kept
<1>1. StateOK'  BY DEF StateOK
<1>2. OneHome'  BY DEF OneHome
<1>3. OnlyFrontFocused'  BY DEF OnlyFrontFocused, IsCurrentWindow
<1>4. OneWorkspaceFocused'  BY DEF OneWorkspaceFocused
<1>5. CurrentWorkspaceShown'  BY DEF CurrentWorkspaceShown
<1>6. UnmanagedNormal'  BY DEF UnmanagedNormal
<1>7. ActiveIsFocused => ActiveIsFocused'  BY DEF ActiveIsFocused
<1> QED  BY <1>1, <1>2, <1>3, <1>4, <1>5, <1>6, <1>7

\* Workspace::focus_window, of a window of the workspace.
LEMMA FocusWindowInv ==
    ASSUME CoreInv, NEW ws \in Workspaces, NEW w \in Elements(list[ws]), FocusWindow(w, ws)
    PROVE  Kept
<1> USE DEF CoreInv, Kept
<1>1. CASE Abort("assert(!_focused)")
  BY <1>1, AbortInv DEF AssertFailures
<1>2. CASE /\ list' = [list EXCEPT ![ws] = ToFront(w, @)]
           /\ focused' = (focused \ FocusedFront(ws)) \cup {w}
           /\ netActive' = w
           /\ UNCHANGED <<status, exists, managed, wstate, shown>>
  <2> USE <1>2
  <2>1. UNCHANGED <<status, exists, managed, wstate, cur, wsFocused, netDesktop>>  BY DEF shown
  <2>2. /\ list' \in Lists /\ Tidy(list', exists, managed)
        /\ AtFront(list'[ws], w)
        /\ SameElements(list', list)
    BY ListToFront
  <2>3. w \in Windows /\ ws \in exists
    <3>1. list[ws] \in Seq(Windows)  BY DEF StateOK
    <3>2. w \in Windows /\ list[ws] # <<>>  BY <3>1, ElementsAreWindows
    <3> QED  BY <3>2 DEF OneHome, Tidy
  <2>4. StateOK'
    <3>1. focused' \subseteq Windows  BY <2>3 DEF StateOK, FocusedFront
    <3> QED  BY <2>1, <2>2, <2>3, <3>1 DEF StateOK, Lists
  <2>5. OneHome'  BY <2>1, <2>2 DEF OneHome
  <2>6. OnlyFrontFocused'
    <3> SUFFICES ASSUME NEW v \in focused'
                 PROVE  \E u \in exists : AtFront(list'[u], v)
      BY <2>1 DEF OnlyFrontFocused, IsCurrentWindow
    <3>1. CASE v = w  BY <3>1, <2>2, <2>3
    <3>2. CASE v # w
      <4>1. v \in focused /\ ~IsCurrentWindow(v, ws)  BY <3>2 DEF FocusedFront
      <4>2. PICK u \in exists : IsCurrentWindow(v, u)  BY <4>1 DEF OnlyFrontFocused
      <4>3. u \in Workspaces /\ u # ws  BY <4>1, <4>2 DEF StateOK
      <4>4. list'[u] = list[u]  BY <4>3 DEF StateOK
      <4> QED  BY <4>2, <4>4 DEF IsCurrentWindow
    <3> QED  BY <3>1, <3>2
  <2>7. OneWorkspaceFocused'  BY <2>1 DEF OneWorkspaceFocused
  <2>8. CurrentWorkspaceShown'  BY <2>1, <2>2 DEF CurrentWorkspaceShown, SameElements, StateOK
  <2>9. UnmanagedNormal'  BY <2>1 DEF UnmanagedNormal
  <2>10. ActiveIsFocused => ActiveIsFocused'  BY DEF ActiveIsFocused
  <2> QED  BY <2>4, <2>5, <2>6, <2>7, <2>8, <2>9, <2>10
<1> QED  BY <1>1, <1>2 DEF FocusWindow

\* State::unmanage_window.
LEMMA UnmanageWindowInv ==
    ASSUME CoreInv, NEW w \in Windows, UnmanageWindow(w)
    PROVE  Kept
<1> USE DEF CoreInv, Kept, UnmanageWindow
<1> DEFINE h == Home(w)
<1>1. UNCHANGED <<status, exists, cur, wsFocused, netDesktop>>  BY DEF shown
<1>2. h \in Workspaces /\ w \in Elements(list[h]) /\ list' = [list EXCEPT ![h] = Erase(@, w)]
  BY HomeOf
<1> HIDE DEF h
<1>3. list' \in Lists /\ Tidy(list', exists, managed \ {w})
  <2>1. list \in Lists /\ exists \in SUBSET Workspaces /\ Tidy(list, exists, managed)
    BY ListsTidy
  <2> DEFINE N == [list EXCEPT ![h] = Erase(@, w)]
  <2>2. N \in Lists /\ Tidy(N, exists, managed \ {w})  BY <2>1, <1>2, TidyErase
  <2>3. list' = N  BY <1>2
  <2> HIDE DEF N
  <2> QED  BY <2>2, <2>3
<1>4. StateOK'  BY <1>1, <1>3 DEF StateOK, Lists, States
<1>5. OneHome'  BY <1>1, <1>3 DEF OneHome
<1>6. OnlyFrontFocused'
  <2> SUFFICES ASSUME NEW v \in focused, v # w
               PROVE  \E u \in exists : AtFront(list'[u], v)
    BY <1>1 DEF OnlyFrontFocused, IsCurrentWindow
  <2>1. PICK u \in exists : AtFront(list[u], v)
    BY DEF OnlyFrontFocused, IsCurrentWindow
  <2>2. u \in Workspaces /\ list[u] \in Seq(Windows)  BY DEF StateOK
  <2>3. CASE u = h
    <3>1. AtFront(Erase(list[u], w), v)
      BY <2>1, <2>2, <2>3, <1>2, EraseKeepsFront
    <3>2. list'[u] = Erase(list[u], w)  BY <2>2, <2>3, <1>2 DEF StateOK
    <3> QED  BY <3>1, <3>2
  <2>4. CASE u # h
    <3>1. list'[u] = list[u]  BY <2>2, <2>4, <1>2 DEF StateOK
    <3> QED  BY <2>1, <3>1
  <2> QED  BY <2>3, <2>4
<1>7. OneWorkspaceFocused'  BY <1>1 DEF OneWorkspaceFocused
<1>8. CurrentWorkspaceShown'
  <2> SUFFICES ASSUME NEW v \in Elements(list'[cur])  PROVE wstate'[v] # "Minimized"
    BY <1>1 DEF CurrentWorkspaceShown
  <2>1. cur \in Workspaces  BY DEF StateOK
  <2>2. Elements(list'[cur]) \subseteq Elements(list[cur])
    <3>1. CASE cur = h
      <4>1. Elements(Erase(list[h], w)) = Elements(list[h]) \ {w}
        BY <1>2, EraseElements DEF OneHome, Tidy, StateOK
      <4> QED  BY <3>1, <4>1, <1>2 DEF StateOK
    <3>2. CASE cur # h  BY <3>2, <1>2, <2>1 DEF StateOK
    <3> QED  BY <3>1, <3>2
  <2>3. v \in Elements(list[cur]) /\ v \in Windows
    BY <2>1, <2>2, ElementsAreWindows DEF StateOK
  <2>4. wstate[v] # "Minimized"  BY <2>3 DEF CurrentWorkspaceShown
  <2>5. wstate'[v] = IF v = w THEN "Normal" ELSE wstate[v]  BY <2>3 DEF StateOK
  <2> QED  BY <2>4, <2>5
<1>9. UnmanagedNormal'  BY DEF UnmanagedNormal, StateOK
<1>10. ActiveIsFocused => ActiveIsFocused'  BY DEF ActiveIsFocused
<1> QED  BY <1>4, <1>5, <1>6, <1>7, <1>8, <1>9, <1>10

\* What erasing w from the list of its home leaves of each list.
LEMMA ListAfterErase ==
    ASSUME StateOK, OneHome, NEW h \in Workspaces, NEW w \in Elements(list[h]),
           NEW N, N = [list EXCEPT ![h] = Erase(@, w)], NEW v \in Workspaces
    PROVE  Without(N, list, w, v)
<1>1. list[h] \in Seq(Windows) /\ NoDuplicates(list[h])  BY DEF StateOK, OneHome, Tidy
<1>2. w \in Elements(list[h])  OBVIOUS
<1>3. CASE v = h
  <2>1. N[v] = Erase(list[h], w)  BY <1>3 DEF StateOK
  <2>2. Elements(Erase(list[h], w)) = Elements(list[h]) \ {w}  BY <1>1, <1>2, EraseElements
  <2>3. ASSUME NEW y, AtFront(list[v], y), y # w  PROVE AtFront(N[v], y)
    <3>1. AtFront(list[h], y) /\ y # w  BY <2>3, <1>3
    <3>2. AtFront(Erase(list[h], w), y)  BY <1>1, <1>2, <3>1, EraseKeepsFront
    <3> QED  BY <2>1, <3>2
  <2> QED  BY <2>1, <2>2, <2>3, <1>3 DEF Without
<1>4. CASE v # h
  <2>1. N[v] = list[v]  BY <1>4 DEF StateOK
  <2>2. w \notin Elements(list[v])  BY <1>4 DEF OneHome, Tidy
  <2> QED  BY <2>1, <2>2 DEF Without
<1> QED  BY <1>3, <1>4

\* Where window::move_to_workspace leaves the windows, for its two uses: a new
\* window, and a managed one that goes to another workspace.
LEMMA ListsAfterMove ==
    ASSUME StateOK, OneHome, NEW w \in Windows, NEW ws \in Workspaces,
           w \in managed => Home(w) # ws, list' = MovedTo(w, ws)
    PROVE  /\ list' \in Lists /\ Tidy(list', exists \cup {ws}, managed \cup {w})
           /\ \A v \in Workspaces : v # ws => Without(list', list, w, v)
           /\ Elements(list'[ws]) = Elements(list[ws]) \cup {w}
<1> DEFINE h == Home(w)
           R == IF w \in managed THEN [list EXCEPT ![h] = Erase(@, w)] ELSE list
<1>1. list' = [R EXCEPT ![ws] = PushFront(@, w)]  BY DEF MovedTo
<1>2. /\ R \in Lists /\ Tidy(R, exists, managed \ {w})
      /\ \A v \in Workspaces : Without(R, list, w, v)
  <2>1. list \in Lists  BY DEF StateOK, Lists
  <2>2. exists \in SUBSET Workspaces  BY DEF StateOK
  <2>3. Tidy(list, exists, managed)  BY DEF OneHome
  <2>4. CASE w \in managed
    <3>1. h \in Workspaces /\ w \in Elements(list[h])  BY <2>4, HomeOf
    <3> HIDE DEF h
    <3> DEFINE N == [list EXCEPT ![h] = Erase(@, w)]
    <3>2. R = N  BY <2>4
    <3>3. N \in Lists /\ Tidy(N, exists, managed \ {w})
      BY <2>1, <2>2, <2>3, <3>1, TidyErase
    <3>4. N = [list EXCEPT ![h] = Erase(list[h], w)]  OBVIOUS
    <3> HIDE DEF N, R
    <3>5. \A v \in Workspaces : Without(N, list, w, v)  BY <3>1, <3>4, ListAfterErase
    <3> HIDE DEF N, R
    <3> QED  BY <3>2, <3>3, <3>5
  <2>5. CASE w \notin managed
    <3>1. R = list /\ managed \ {w} = managed  BY <2>5
    <3>2. \A v \in Workspaces : w \notin Elements(list[v])  BY <2>5, <2>3 DEF Tidy
    <3> HIDE DEF R
    <3>3. \A v \in Workspaces : Without(list, list, w, v)  BY <3>2 DEF Without
    <3> QED  BY <2>1, <2>3, <3>1, <3>3
  <2> QED  BY <2>4, <2>5
<1> HIDE DEF R, h
<1>3. Tidy(R, exists \cup {ws}, managed \ {w})  BY <1>2 DEF Tidy
<1>4. exists \cup {ws} \in SUBSET Workspaces /\ ws \in exists \cup {ws}  BY DEF StateOK
<1> DEFINE N == [R EXCEPT ![ws] = PushFront(@, w)]
           E == exists \cup {ws}
           M == managed \ {w}
<1>5. N \in Lists /\ Tidy(N, E, M \cup {w})
  <2>1. R \in Lists /\ E \in SUBSET Workspaces /\ Tidy(R, E, M) /\ ws \in E /\ w \in Windows \ M
    BY <1>2, <1>3, <1>4
  <2> HIDE DEF E, M
  <2> QED  BY <2>1, TidyPush
<1>6. M \cup {w} = managed \cup {w}  OBVIOUS
<1>7. R[ws] \in Seq(Windows) /\ N[ws] = PushFront(R[ws], w)
      /\ \A v \in Workspaces : v # ws => N[v] = R[v]
  BY <1>2 DEF Lists
<1>8. Elements(N[ws]) = Elements(list[ws]) \cup {w}
  <2>1. Elements(PushFront(R[ws], w)) = Elements(R[ws]) \cup {w}  BY <1>7, PushFrontElements
  <2>2. Elements(R[ws]) = Elements(list[ws]) \ {w}  BY <1>2 DEF Without
  <2> QED  BY <2>1, <2>2, <1>7
<1>9. list' = N  BY <1>1
<1>10. \A v \in Workspaces : v # ws => Without(N, list, w, v)
  BY <1>2, <1>7 DEF Without
<1> HIDE DEF N
<1> QED  BY <1>5, <1>6, <1>8, <1>9, <1>10

\* window::move_to_workspace: not to the current workspace, unless the window is new.
LEMMA MoveToWorkspaceInv ==
    ASSUME CoreInv, NEW w \in Windows, NEW ws \in Workspaces,
           w \in managed => Home(w) # ws /\ ws # cur, MoveToWorkspace(w, ws),
           managed' = managed \cup {w}, exists' = exists \cup {ws},
           UNCHANGED <<status, wstate, shown>>
    PROVE  Kept
<1> USE DEF CoreInv, Kept
<1>1. UNCHANGED <<status, cur, wsFocused, wstate, netDesktop>>  BY DEF shown
<1>2. /\ list' \in Lists /\ Tidy(list', exists', managed')
      /\ \A v \in Workspaces : v # ws => Without(list', list, w, v)
      /\ Elements(list'[ws]) = Elements(list[ws]) \cup {w}
  BY ListsAfterMove DEF MoveToWorkspace
<1>3. /\ focused' = focused \ (FocusedFront(ws) \cup (focused \cap {w}))
      /\ (netActive' = netActive /\ focused' = focused) \/ netActive' = Nil
  BY DEF MoveToWorkspace
<1>4. StateOK'  BY <1>1, <1>2, <1>3 DEF StateOK, Lists
<1>5. OneHome'  BY <1>2 DEF OneHome
<1>6. OnlyFrontFocused'
  <2> SUFFICES ASSUME NEW v \in focused'
               PROVE  \E u \in exists' : AtFront(list'[u], v)
    BY DEF OnlyFrontFocused, IsCurrentWindow
  <2>1. v \in focused /\ v # w /\ ~IsCurrentWindow(v, ws)  BY <1>3 DEF FocusedFront
  <2>2. PICK u \in exists : AtFront(list[u], v)
    BY <2>1 DEF OnlyFrontFocused, IsCurrentWindow
  <2>3. u \in Workspaces /\ u # ws  BY <2>1, <2>2 DEF StateOK, IsCurrentWindow
  <2>4. AtFront(list'[u], v)  BY <1>2, <2>1, <2>2, <2>3 DEF Without
  <2> QED  BY <2>4
<1>7. OneWorkspaceFocused'  BY <1>1 DEF OneWorkspaceFocused
<1>8. CurrentWorkspaceShown'
  <2> SUFFICES ASSUME NEW v \in Elements(list'[cur])  PROVE wstate[v] # "Minimized"
    BY <1>1 DEF CurrentWorkspaceShown
  <2>1. cur \in Workspaces  BY DEF StateOK
  <2>2. CASE v \in Elements(list[cur])  BY <2>2 DEF CurrentWorkspaceShown
  <2>3. CASE v \notin Elements(list[cur])
    <3>1. cur = ws /\ v = w  BY <1>2, <2>1, <2>3 DEF Without
    <3> QED  BY <3>1 DEF UnmanagedNormal
  <2> QED  BY <2>2, <2>3
<1>9. UnmanagedNormal'  BY <1>1 DEF UnmanagedNormal
<1>10. ActiveIsFocused => ActiveIsFocused'  BY <1>3 DEF ActiveIsFocused
<1> QED  BY <1>4, <1>5, <1>6, <1>7, <1>8, <1>9, <1>10

\* State::get_or_create_workspace, when nothing else follows.
LEMMA CreateWorkspaceInv ==
    ASSUME CoreInv, NEW ws \in Workspaces, exists' = exists \cup {ws},
           UNCHANGED <<status, list, focused, managed, wstate, netActive, shown>>
    PROVE  Kept
<1> USE DEF CoreInv, Kept
<1>1. UNCHANGED <<cur, wsFocused, netDesktop>>  BY DEF shown
<1>2. StateOK'  BY <1>1 DEF StateOK
<1>3. OneHome'  BY DEF OneHome, Tidy
<1>4. OnlyFrontFocused'  BY DEF OnlyFrontFocused, IsCurrentWindow
<1>5. OneWorkspaceFocused'  BY <1>1 DEF OneWorkspaceFocused
<1>6. CurrentWorkspaceShown'  BY <1>1 DEF CurrentWorkspaceShown
<1>7. UnmanagedNormal'  BY DEF UnmanagedNormal
<1>8. ActiveIsFocused => ActiveIsFocused'  BY DEF ActiveIsFocused
<1> QED  BY <1>2, <1>3, <1>4, <1>5, <1>6, <1>7, <1>8

\* State::switch_workspace, from a workspace to another.
LEMMA SwitchWorkspaceInv ==
    ASSUME CoreInv, NEW ws \in Workspaces, ws # cur, NEW w,
           (w = Nil /\ list[ws] = <<>>) \/ w \in Elements(list[ws]), SwitchWorkspace(ws, w)
    PROVE  Kept
<1> USE DEF CoreInv, Kept
<1> DEFINE left  == FocusedFront(cur)
           next  == IF list[ws] = <<>> THEN {} ELSE {Head(list[ws])}
           gone  == LeftEmpty
           moved == IF w = Nil THEN list ELSE [list EXCEPT ![ws] = ToFront(w, @)]
<1>1. CASE Abort("assert(_focused)")
  BY <1>1, AbortInv DEF AssertFailures
<1>2. CASE Abort("assert(!_focused)")
  BY <1>2, AbortInv DEF AssertFailures
<1>3. CASE /\ next \cap focused = {}
           /\ cur' = ws /\ netDesktop' = ws
           /\ wsFocused' = (wsFocused \ {cur}) \cup {ws}
           /\ focused' = (focused \ left) \cup ({w} \ {Nil})
           /\ netActive' = w
           /\ list' = moved
           /\ wstate' = StatesOf(ws, StatesOf(cur, wstate, "Minimized"), "Normal")
           /\ exists' = (exists \cup {ws}) \ gone
           /\ status' = status /\ managed' = managed
  <2>1. w = Nil \/ (w \in Windows /\ w # Nil /\ w \in Elements(list[ws]))
    <3>1. list[ws] \in Seq(Windows)  BY DEF StateOK
    <3>2. w \in Elements(list[ws]) => w \in Windows  BY <3>1, ElementsAreWindows
    <3> QED  BY <3>2, NilAssumption
  <2>2. /\ list' \in Lists /\ Tidy(list', exists, managed) /\ SameElements(list', list)
        /\ w # Nil => AtFront(list'[ws], w)
        /\ \A v \in Workspaces : v # ws => list'[v] = list[v]
    <3>1. CASE w = Nil
      <4>1. list' = list  BY <1>3, <3>1
      <4> QED  BY <3>1, <4>1, ListsTidy DEF SameElements
    <3>2. CASE w # Nil
      <4>1. w \in Elements(list[ws]) /\ list' = [list EXCEPT ![ws] = ToFront(w, @)]
        BY <1>3, <2>1, <3>2
      <4>2. list' \in Lists /\ Tidy(list', exists, managed) /\ SameElements(list', list)
            /\ AtFront(list'[ws], w)
        BY <4>1, ListToFront
      <4>3. \A v \in Workspaces : v # ws => list'[v] = list[v]  BY <4>1 DEF StateOK
      <4> QED  BY <4>2, <4>3
    <3> QED  BY <3>1, <3>2
  <2>3. cur \in exists /\ cur \in Workspaces /\ wsFocused = {cur}
    BY DEF OneWorkspaceFocused, StateOK
  <2>4. /\ gone \in SUBSET {cur} /\ ws \in exists' /\ exists' \subseteq Workspaces
        /\ gone # {} => list[cur] = <<>>
    BY <1>3, <2>3 DEF StateOK, LeftEmpty
  <2>5. wstate' \in [Windows -> States]
    BY <1>3 DEF StateOK, StatesOf, States
  <2>6. \A v \in Windows :
          wstate'[v] = IF v \in Elements(list[ws]) THEN "Normal"
                       ELSE IF v \in Elements(list[cur]) THEN "Minimized" ELSE wstate[v]
    BY <1>3 DEF StateOK, StatesOf
  <2>7. StateOK'
    <3>1. focused' \subseteq Windows  BY <1>3, <2>1 DEF StateOK
    <3>2. netActive' \in Windows \cup {Nil}  BY <1>3, <2>1
    <3> QED  BY <1>3, <2>2, <2>3, <2>4, <2>5, <3>1, <3>2 DEF StateOK, Lists
  <2>8. OneHome'
    <3>1. \A v \in Workspaces \ exists' : list'[v] = <<>>
      BY <1>3, <2>2, <2>4 DEF Tidy
    <3> QED  BY <1>3, <2>2, <3>1 DEF OneHome, Tidy
  <2>9. OnlyFrontFocused'
    <3> SUFFICES ASSUME NEW v \in focused'
                 PROVE  \E u \in exists' : AtFront(list'[u], v)
      BY DEF OnlyFrontFocused, IsCurrentWindow
    <3>1. CASE v = w /\ w # Nil  BY <3>1, <2>2, <2>4
    <3>2. CASE ~(v = w /\ w # Nil)
      <4>1. v \in focused /\ ~IsCurrentWindow(v, cur)  BY <1>3, <3>2 DEF FocusedFront
      <4>2. PICK u \in exists : AtFront(list[u], v)
        BY <4>1 DEF OnlyFrontFocused, IsCurrentWindow
      <4>3. u \in Workspaces /\ u # cur  BY <4>1, <4>2 DEF StateOK, IsCurrentWindow
      <4>4. u # ws
        <5> SUFFICES ASSUME u = ws  PROVE FALSE  OBVIOUS
        <5>1. list[ws] # <<>> /\ Head(list[ws]) = v  BY <4>2 DEF AtFront
        <5> QED  BY <5>1, <4>1, <1>3
      <4>5. u \in exists'  BY <1>3, <2>4, <4>3
      <4> QED  BY <2>2, <4>2, <4>3, <4>4, <4>5
    <3> QED  BY <3>1, <3>2
  <2>10. OneWorkspaceFocused'  BY <1>3, <2>3, <2>4 DEF OneWorkspaceFocused
  <2>11. CurrentWorkspaceShown'
    <3> SUFFICES ASSUME NEW v \in Elements(list'[ws])  PROVE wstate'[v] # "Minimized"
      BY <1>3 DEF CurrentWorkspaceShown
    <3>1. v \in Elements(list[ws])  BY <2>2 DEF SameElements
    <3>2. list[ws] \in Seq(Windows)  BY DEF StateOK
    <3>3. v \in Windows  BY <3>1, <3>2, ElementsAreWindows
    <3> QED  BY <2>6, <3>1, <3>3
  <2>12. UnmanagedNormal'
    <3> SUFFICES ASSUME NEW v \in Windows \ managed  PROVE wstate'[v] = "Normal"
      BY <1>3 DEF UnmanagedNormal
    <3>1. v \notin Elements(list[ws]) /\ v \notin Elements(list[cur])
      BY <2>3 DEF OneHome, Tidy
    <3> QED  BY <2>6, <3>1 DEF UnmanagedNormal
  <2>13. ActiveIsFocused => ActiveIsFocused'  BY <1>3 DEF ActiveIsFocused
  <2> HIDE DEF left, next, gone, moved
  <2> QED  BY <2>7, <2>8, <2>9, <2>10, <2>11, <2>12, <2>13
<1> QED  BY <1>1, <1>2, <1>3 DEF SwitchWorkspace, AnnounceDesktop, shown

\* Without a window to focus but the current one.
LEMMA SwitchToInv ==
    ASSUME CoreInv, NEW ws \in Workspaces, ws # cur, SwitchTo(ws)
    PROVE  Kept
<1>1. list[ws] \in Seq(Windows)  BY DEF CoreInv, StateOK
<1>2. list[ws] # <<>> => Head(list[ws]) \in Elements(list[ws])  BY <1>1, ElementsAreWindows
<1> QED  BY <1>2, SwitchWorkspaceInv DEF SwitchTo

-----------------------------------------------------------------------------
(* The handlers that are none of the steps above. *)

\* State::init, once every window is loaded.
LEMMA FinishInitInv ==
    ASSUME CoreInv, FinishInit
    PROVE  Kept
<1> USE DEF CoreInv, Kept, FinishInit, AnnounceDesktop
<1>1. list[cur] \in Seq(Windows) /\ cur \in exists  BY DEF StateOK, OneWorkspaceFocused
<1>2. list[cur] # <<>> => Head(list[cur]) \in Windows
  BY <1>1, ElementsAreWindows
<1>3. StateOK'  BY <1>2 DEF StateOK
<1>4. OneHome'  BY DEF OneHome
<1>5. OnlyFrontFocused'
  BY <1>1 DEF OnlyFrontFocused, IsCurrentWindow, AtFront
<1>6. OneWorkspaceFocused'  BY DEF OneWorkspaceFocused
<1>7. CurrentWorkspaceShown'  BY DEF CurrentWorkspaceShown
<1>8. UnmanagedNormal'  BY DEF UnmanagedNormal
<1>9. ActiveIsFocused => ActiveIsFocused'  BY DEF ActiveIsFocused
<1> QED  BY <1>3, <1>4, <1>5, <1>6, <1>7, <1>8, <1>9

\* State::manage_window: the new window is put on the current workspace and focused.
LEMMA ManageWindowInv ==
    ASSUME CoreInv, NEW w \in Windows, ManageWindow(w)
    PROVE  Kept
<1> USE DEF CoreInv, Kept, ManageWindow
<1>1. UNCHANGED <<status, exists, wstate, cur, wsFocused, netDesktop>>  BY DEF shown
<1>2. cur \in Workspaces /\ cur \in exists /\ exists \cup {cur} = exists
  BY DEF StateOK, OneWorkspaceFocused
<1>3. /\ list' \in Lists /\ Tidy(list', exists', managed')
      /\ \A v \in Workspaces : v # cur => Without(list', list, w, v)
      /\ Elements(list'[cur]) = Elements(list[cur]) \cup {w}
  <2>1. list' = MovedTo(w, cur) /\ ~(w \in managed)  OBVIOUS
  <2>2. /\ list' \in Lists /\ Tidy(list', exists \cup {cur}, managed \cup {w})
        /\ \A v \in Workspaces : v # cur => Without(list', list, w, v)
        /\ Elements(list'[cur]) = Elements(list[cur]) \cup {w}
    BY <1>2, <2>1, ListsAfterMove
  <2>3. exists' = exists \cup {cur} /\ managed' = managed \cup {w}  BY <1>1, <1>2
  <2> QED  BY <2>2, <2>3
<1>4. AtFront(list'[cur], w)
  <2>1. list' = [list EXCEPT ![cur] = PushFront(@, w)]  BY DEF MovedTo
  <2>2. list[cur] \in Seq(Windows)  BY <1>2 DEF StateOK
  <2>3. AtFront(PushFront(list[cur], w), w)  BY <2>2, PushFrontElements
  <2> QED  BY <1>2, <2>1, <2>3 DEF StateOK
<1>5. StateOK'  BY <1>1, <1>3 DEF StateOK, Lists
<1>6. OneHome'  BY <1>3 DEF OneHome
<1>7. OnlyFrontFocused'
  <2> SUFFICES ASSUME NEW v \in focused'  PROVE \E u \in exists : AtFront(list'[u], v)
    BY <1>1 DEF OnlyFrontFocused, IsCurrentWindow
  <2>1. CASE v = w  BY <2>1, <1>2, <1>4
  <2>2. CASE v # w
    <3>1. v \in focused /\ ~IsCurrentWindow(v, cur)  BY <2>2 DEF FocusedFront
    <3>2. PICK u \in exists : AtFront(list[u], v)
      BY <3>1 DEF OnlyFrontFocused, IsCurrentWindow
    <3>3. u \in Workspaces /\ u # cur  BY <3>1, <3>2 DEF StateOK, IsCurrentWindow
    <3> QED  BY <1>3, <2>2, <3>2, <3>3 DEF Without
  <2> QED  BY <2>1, <2>2
<1>8. OneWorkspaceFocused'  BY <1>1 DEF OneWorkspaceFocused
<1>9. CurrentWorkspaceShown'  BY <1>1, <1>3 DEF CurrentWorkspaceShown, UnmanagedNormal
<1>10. UnmanagedNormal'  BY <1>1 DEF UnmanagedNormal
<1>11. ActiveIsFocused => ActiveIsFocused'  BY DEF ActiveIsFocused
<1> QED  BY <1>5, <1>6, <1>7, <1>8, <1>9, <1>10, <1>11

\* The client message _NET_WM_STATE minimizes no window.
LEMMA NetWmStateInv ==
    ASSUME CoreInv, NEW w \in Windows, NEW action, NetWmState(w, action)
    PROVE  Kept
<1> USE DEF CoreInv, Kept, NetWmState
<1>1. UNCHANGED <<status, exists, list, focused, managed, netActive, cur, wsFocused, netDesktop>>
  BY DEF shown
<1>2. \E new \in States : /\ wstate' = [wstate EXCEPT ![w] = new]
                          /\ new = "Minimized" => wstate[w] = "Minimized"
  BY DEF StateOK, States
<1>3. StateOK'  BY <1>1, <1>2 DEF StateOK
<1>4. OneHome'  BY <1>1 DEF OneHome
<1>5. OnlyFrontFocused'  BY <1>1 DEF OnlyFrontFocused, IsCurrentWindow
<1>6. OneWorkspaceFocused'  BY <1>1 DEF OneWorkspaceFocused
<1>7. CurrentWorkspaceShown'
  <2> SUFFICES ASSUME NEW v \in Elements(list[cur])  PROVE wstate'[v] # "Minimized"
    BY <1>1 DEF CurrentWorkspaceShown
  <2>1. list[cur] \in Seq(Windows)  BY DEF StateOK
  <2>2. v \in Windows /\ wstate[v] # "Minimized"
    BY <2>1, ElementsAreWindows DEF CurrentWorkspaceShown
  <2> QED  BY <1>2, <2>2 DEF StateOK
<1>8. UnmanagedNormal'  BY <1>1, <1>2 DEF UnmanagedNormal, StateOK
<1>9. ActiveIsFocused => ActiveIsFocused'  BY <1>1 DEF ActiveIsFocused
<1> QED  BY <1>3, <1>4, <1>5, <1>6, <1>7, <1>8, <1>9

\* A window manager without windows, whatever pagers were last told.
Blank ==
    /\ cur = FirstWorkspace /\ exists = {FirstWorkspace} /\ wsFocused = {FirstWorkspace}
    /\ list = [ws \in Workspaces |-> <<>>]
    /\ focused = {} /\ managed = {}
    /\ wstate = [w \in Windows |-> "Normal"]
    /\ netActive \in Windows \cup {Nil} /\ netDesktop \in Workspaces \cup {Nil}

\* It has the core of the invariant.
LEMMA BlankInv == Blank => CoreInv
<1> SUFFICES ASSUME Blank  PROVE CoreInv
  OBVIOUS
<1> USE DEF Blank
<1>1. StateOK
  <2>1. <<>> \in Seq(Windows)  OBVIOUS
  <2> QED  BY <2>1, FirstAssumption DEF StateOK, States
<1>2. OneHome
  <2>1. Elements(<<>>) = {}
    <3>1. <<>> \in Seq(Windows)  OBVIOUS
    <3> QED  BY <3>1, ElementsAreWindows
  <2>2. NoDuplicates(<<>>)  BY DEF NoDuplicates
  <2>3. \A ws \in Workspaces : list[ws] = <<>>  OBVIOUS
  <2> QED  BY <2>1, <2>2, <2>3 DEF OneHome, Tidy
<1>3. OnlyFrontFocused  BY DEF OnlyFrontFocused
<1>4. OneWorkspaceFocused  BY DEF OneWorkspaceFocused
<1>5. CurrentWorkspaceShown
  <2>1. list[cur] = <<>>  BY FirstAssumption
  <2>2. \A v \in Elements(list[cur]) : FALSE
    <3>1. <<>> \in Seq(Windows)  OBVIOUS
    <3> QED  BY <2>1, <3>1, ElementsAreWindows
  <2> QED  BY <2>2 DEF CurrentWorkspaceShown
<1>6. UnmanagedNormal  BY DEF UnmanagedNormal
<1> QED  BY <1>1, <1>2, <1>3, <1>4, <1>5, <1>6 DEF CoreInv

\* The state before load_all.
LEMMA InitInv ==
    ASSUME Init
    PROVE  IInv
<1>1. Blank  BY DEF Init, Blank
<1>2. CoreInv  BY <1>1, BlankInv
<1>3. TypeOK  BY <1>2 DEF Init, CoreInv, TypeOK
<1>4. ActiveIsFocused  BY DEF Init, ActiveIsFocused
<1> QED  BY <1>2, <1>3, <1>4 DEF IInv

-----------------------------------------------------------------------------
(* Every step. *)

\* Every handler, and every window loaded at startup, keeps the core of the invariant.
LEMMA CoreKept ==
    ASSUME CoreInv, [Next]_vars
    PROVE  Kept
<1> USE DEF CoreInv, Kept
<1>1. cur \in Workspaces /\ managed \subseteq Windows /\ \A ws \in Workspaces : list[ws] \in Seq(Windows)
  BY DEF StateOK
<1>2. list[cur] # <<>> => Head(list[cur]) \in Elements(list[cur])
  BY <1>1, ElementsAreWindows
<1>3. ASSUME NEW w \in Windows, NEW ws \in Workspaces, LoadWindow(w, ws)  PROVE Kept
  BY <1>3, MoveToWorkspaceInv DEF LoadWindow
<1>4. ASSUME NEW ws \in Workspaces, LoadNothing(ws)  PROVE Kept
  BY <1>4, CreateWorkspaceInv DEF LoadNothing
<1>5. CASE FinishInit  BY <1>5, FinishInitInv
<1>6. ASSUME NEW w \in Windows, ManageWindow(w)  PROVE Kept
  BY <1>6, ManageWindowInv
<1>7. ASSUME NEW w \in Windows, RemapWindow(w)  PROVE Kept
  <2>1. w \in Elements(list[cur])  BY <1>7, HomeOf DEF RemapWindow
  <2> QED  BY <1>1, <1>7, <2>1, FocusWindowInv DEF RemapWindow
<1>8. ASSUME NEW w \in Windows, UnmapNotify(w) \/ NetCloseWindow(w)  PROVE Kept
  BY <1>8, UnmanageWindowInv DEF UnmapNotify, NetCloseWindow
<1>9. CASE FocusInRoot
  BY <1>1, <1>2, <1>9, FocusWindowInv DEF FocusInRoot
<1>10. ASSUME NEW w \in Windows, FocusInWindow(w)  PROVE Kept
  <2>1. Home(w) \in Workspaces /\ w \in Elements(list[Home(w)])
    BY <1>10, HomeOf DEF FocusInWindow
  <2> QED  BY <1>10, <2>1, FocusWindowInv DEF FocusInWindow, TryFocusWindow
<1>11. ASSUME NEW w \in Windows, MoveFocus(w)  PROVE Kept
  BY <1>1, <1>11, FocusWindowInv DEF MoveFocus
<1>12. ASSUME NEW w \in Windows, NEW action, NetWmState(w, action)  PROVE Kept
  BY <1>12, NetWmStateInv
<1>13. ASSUME NEW w \in Windows, NetActiveWindow(w)  PROVE Kept
  <2>1. Home(w) \in Workspaces /\ w \in Elements(list[Home(w)])
    BY <1>13, HomeOf DEF NetActiveWindow
  <2>2. CASE Home(w) = cur  BY <1>13, <2>1, <2>2, FocusWindowInv DEF NetActiveWindow
  <2>3. CASE Home(w) # cur  BY <1>13, <2>1, <2>3, SwitchWorkspaceInv DEF NetActiveWindow
  <2> QED  BY <2>2, <2>3
<1>14. ASSUME NEW ws \in Workspaces, SwitchBinding(ws) \/ NetCurrentDesktop(ws)  PROVE Kept
  BY <1>14, SwitchToInv DEF SwitchBinding, NetCurrentDesktop
<1>15. ASSUME NEW w \in Windows, NEW ws \in Workspaces, NetWmDesktop(w, ws)  PROVE Kept
  <2>1. CASE ws = Home(w)
    BY <1>15, <2>1, CreateWorkspaceInv DEF NetWmDesktop
  <2>2. CASE ws # Home(w)
    <3>1. managed' = managed \cup {w}  BY <1>15 DEF NetWmDesktop
    <3> QED  BY <1>15, <2>2, <3>1, MoveToWorkspaceInv DEF NetWmDesktop
  <2> QED  BY <2>1, <2>2
<1>16. CASE UNCHANGED vars
  <2> USE <1>16 DEF vars
  <2>1. StateOK'  BY DEF StateOK
  <2>2. OneHome'  BY DEF OneHome
  <2>3. OnlyFrontFocused'  BY DEF OnlyFrontFocused, IsCurrentWindow
  <2>4. OneWorkspaceFocused'  BY DEF OneWorkspaceFocused
  <2>5. CurrentWorkspaceShown'  BY DEF CurrentWorkspaceShown
  <2>6. UnmanagedNormal' /\ (ActiveIsFocused => ActiveIsFocused')  BY DEF UnmanagedNormal, ActiveIsFocused
  <2> QED  BY <2>1, <2>2, <2>3, <2>4, <2>5, <2>6
<1> HIDE DEF CoreInv, Kept
<1> QED  BY <1>3, <1>4, <1>5, <1>6, <1>7, <1>8, <1>9, <1>10, <1>11, <1>12, <1>13, <1>14,
            <1>15, <1>16 DEF Next

\* No handler ends the process but by an assert on the focus.
LEMMA StatusKept ==
    ASSUME TypeOK, [Next]_vars
    PROVE  status' \in {"loading", "running"} \cup AssertFailures
<1> DEFINE OK == status' \in {"loading", "running"} \cup AssertFailures
<1>1. ASSUME NEW w, NEW ws, FocusWindow(w, ws)  PROVE OK
  BY <1>1 DEF FocusWindow, Abort, AssertFailures, TypeOK
<1>2. ASSUME NEW w, NEW ws, SwitchWorkspace(ws, w)  PROVE OK
  BY <1>2 DEF SwitchWorkspace, Abort, AssertFailures, TypeOK
<1>3. ASSUME NEW w, NEW ws, LoadWindow(w, ws) \/ NetWmDesktop(w, ws)  PROVE OK
  BY <1>3 DEF LoadWindow, NetWmDesktop, TypeOK
<1>4. ASSUME NEW ws, LoadNothing(ws) \/ SwitchBinding(ws) \/ NetCurrentDesktop(ws)  PROVE OK
  BY <1>4, <1>2 DEF LoadNothing, SwitchBinding, NetCurrentDesktop, SwitchTo, TypeOK
<1>5. FinishInit \/ FocusInRoot => OK
  BY <1>1 DEF FinishInit, FocusInRoot
<1>6. ASSUME NEW w, \/ ManageWindow(w) \/ RemapWindow(w) \/ UnmapNotify(w) \/ FocusInWindow(w)
                    \/ MoveFocus(w) \/ NetActiveWindow(w) \/ NetCloseWindow(w)
      PROVE  OK
  BY <1>6, <1>1, <1>2 DEF ManageWindow, RemapWindow, UnmapNotify, FocusInWindow, TryFocusWindow,
     MoveFocus, NetActiveWindow, NetCloseWindow, UnmanageWindow, TypeOK
<1>7. ASSUME NEW w, NEW action, NetWmState(w, action)  PROVE OK
  BY <1>7 DEF NetWmState, TypeOK
<1>8. UNCHANGED vars => OK  BY DEF vars, TypeOK
<1> HIDE DEF OK
<1>9. OK  BY <1>3, <1>4, <1>5, <1>6, <1>7, <1>8 DEF Next
<1> QED  BY <1>9 DEF OK

\* The inductive invariant holds at every step of every behaviour.
THEOREM Inductive == Spec => []IInv
<1>1. Init => IInv  BY InitInv
<1>2. IInv /\ [Next]_vars => IInv'
  BY CoreKept, StatusKept DEF IInv, Kept, CoreInv, TypeOK
<1> QED  BY <1>1, <1>2, PTL DEF Spec

\* Its core does, whatever the status.
THEOREM CoreInductive == Spec => []CoreInv
<1>1. IInv => CoreInv  BY DEF IInv
<1> QED  BY <1>1, Inductive, PTL

\* The state keeps its types, for any windows and any workspaces.
THEOREM TypeCorrect == Spec => []TypeOK
<1>1. IInv => TypeOK  BY DEF IInv, CoreInv
<1> QED  BY <1>1, Inductive, PTL

\* Whatever the handlers and their order, a managed window is in one focus list,
\* once, and its workspace exists: root<Workspace>() and find cannot fail.
THEOREM EveryWindowHasOneHome == Spec => []OneHome
<1>1. IInv => OneHome  BY DEF IInv, CoreInv
<1> QED  BY <1>1, Inductive, PTL

\* Only the current window of a workspace ever has the focus flag.
THEOREM FocusStaysAtTheFront == Spec => []OnlyFrontFocused
<1>1. IInv => OnlyFrontFocused  BY DEF IInv, CoreInv
<1> QED  BY <1>1, Inductive, PTL

\* The current workspace is never destroyed, and no other has the workspace focus flag.
THEOREM CurrentWorkspaceExists == Spec => []OneWorkspaceFocused
<1>1. IInv => OneWorkspaceFocused  BY DEF IInv, CoreInv
<1> QED  BY <1>1, Inductive, PTL

\* No sequence of moves, switches and fullscreen requests leaves a window of the
\* current workspace minimized.
THEOREM NothingShownIsMinimized == Spec => []CurrentWorkspaceShown
<1>1. IInv => CurrentWorkspaceShown  BY DEF IInv, CoreInv
<1> QED  BY <1>1, Inductive, PTL

\* _NET_ACTIVE_WINDOW names a window that is managed and has the focus, or none.
THEOREM ActiveWindowHasTheFocus == Spec => []ActiveIsFocused
<1>1. IInv => ActiveIsFocused  BY DEF IInv, CoreInv
<1> QED  BY <1>1, Inductive, PTL

-----------------------------------------------------------------------------
(* The handlers implement Placement: each step is one of Placement's, or     *)
(* leaves the homes and the current workspace alone.                         *)

\* The workspace whose list in L has w.
HomeIn(L, w) == CHOOSE ws \in Workspaces : w \in Elements(L[ws])

\* The steps of the focus lists: every window stays, one goes to ws, one goes away.
Stay       == managed' = managed /\ SameElements(list', list)
GoTo(w, ws) ==
    /\ managed' = managed \cup {w}
    /\ \A v \in Workspaces : v # ws => Elements(list'[v]) = Elements(list[v]) \ {w}
    /\ Elements(list'[ws]) = Elements(list[ws]) \cup {w}
GoAway(w) ==
    /\ managed' = managed \ {w}
    /\ \A v \in Workspaces : Elements(list'[v]) = Elements(list[v]) \ {w}

-----------------------------------------------------------------------------
(* From the lists to the homes. *)

\* A window has the home whose list it is in.
LEMMA HomeUnique ==
    ASSUME NEW L \in Lists, NEW E, NEW M, Tidy(L, E, M),
           NEW ws \in Workspaces, NEW u \in Elements(L[ws])
    PROVE  HomeIn(L, u) = ws
<1>1. \A v \in Workspaces : u \in Elements(L[v]) => v = ws  BY DEF Tidy
<1> QED  BY <1>1 DEF HomeIn

\* The homes of the windows before a step, and after it.
LEMMA HomesAre ==
    ASSUME CoreInv, CoreInv'
    PROVE  /\ Homes  = [u \in Windows |-> IF u \in managed THEN HomeIn(list, u) ELSE Nil]
           /\ Homes' = [u \in Windows |-> IF u \in managed' THEN HomeIn(list', u) ELSE Nil]
           /\ \A u \in managed : HomeIn(list, u) \in Workspaces /\ u \in Elements(list[HomeIn(list, u)])
           /\ \A v \in Workspaces : \A u \in Elements(list'[v]) : HomeIn(list', u) = v
<1>1. \A u \in managed : HomeIn(list, u) \in Workspaces /\ u \in Elements(list[HomeIn(list, u)])
  BY DEF CoreInv, OneHome, Tidy, HomeIn
<1>2. \A v \in Workspaces : \A u \in Elements(list'[v]) : HomeIn(list', u) = v
  <2>1. list' \in Lists /\ Tidy(list', exists', managed')
    BY DEF CoreInv, StateOK, OneHome, Lists
  <2> QED  BY <2>1, HomeUnique
<1>3. Homes = [u \in Windows |-> IF u \in managed THEN HomeIn(list, u) ELSE Nil]
  BY DEF Homes, Home, HomeIn
<1>4. Homes' = [u \in Windows |-> IF u \in managed' THEN HomeIn(list', u) ELSE Nil]
  BY DEF Homes, Home, HomeIn
<1> QED  BY <1>1, <1>2, <1>3, <1>4

\* When every window stays, so do the homes.
LEMMA HomesStay ==
    ASSUME CoreInv, CoreInv', Stay
    PROVE  Homes' = Homes
<1>1. \A u \in managed : HomeIn(list', u) = HomeIn(list, u)
  BY HomesAre DEF Stay, SameElements
<1> QED  BY <1>1, HomesAre DEF Stay

\* When one goes to ws, it gets that home and the others keep theirs.
LEMMA HomesGoTo ==
    ASSUME CoreInv, CoreInv', NEW w \in Windows, NEW ws \in Workspaces, GoTo(w, ws)
    PROVE  Homes' = [Homes EXCEPT ![w] = ws]
<1>1. HomeIn(list', w) = ws /\ w \in managed'  BY HomesAre DEF GoTo
<1>2. \A u \in managed : u # w => HomeIn(list', u) = HomeIn(list, u)
  <2> SUFFICES ASSUME NEW u \in managed, u # w  PROVE HomeIn(list', u) = HomeIn(list, u)
    OBVIOUS
  <2>1. HomeIn(list, u) \in Workspaces /\ u \in Elements(list[HomeIn(list, u)])  BY HomesAre
  <2>2. u \in Elements(list'[HomeIn(list, u)])  BY <2>1 DEF GoTo
  <2> QED  BY <2>1, <2>2, HomesAre
<1>3. \A u \in Windows : u # w => (u \in managed' <=> u \in managed)  BY DEF GoTo
<1> QED  BY <1>1, <1>2, <1>3, HomesAre

\* When one goes away, it has no home and the others keep theirs.
LEMMA HomesGoAway ==
    ASSUME CoreInv, CoreInv', NEW w \in Windows, GoAway(w)
    PROVE  Homes' = [Homes EXCEPT ![w] = Nil]
<1>1. w \notin managed'  BY DEF GoAway
<1>2. \A u \in managed : u # w => HomeIn(list', u) = HomeIn(list, u)
  <2> SUFFICES ASSUME NEW u \in managed, u # w  PROVE HomeIn(list', u) = HomeIn(list, u)
    OBVIOUS
  <2>1. HomeIn(list, u) \in Workspaces /\ u \in Elements(list[HomeIn(list, u)])  BY HomesAre
  <2>2. u \in Elements(list'[HomeIn(list, u)])  BY <2>1 DEF GoAway
  <2> QED  BY <2>1, <2>2, HomesAre
<1>3. \A u \in Windows : u # w => (u \in managed' <=> u \in managed)  BY DEF GoAway
<1> QED  BY <1>1, <1>2, <1>3, HomesAre

\* A window has a home before a step exactly when it is managed.
LEMMA HomeMeansManaged ==
    ASSUME CoreInv, CoreInv', NEW w \in Windows
    PROVE  Homes[w] # Nil <=> w \in managed
BY HomesAre, NilAssumption

-----------------------------------------------------------------------------
(* From the handlers to the lists. *)

\* Workspace::focus_window keeps every window where it is.
LEMMA FocusStays ==
    ASSUME CoreInv, NEW ws \in Workspaces, NEW w \in Elements(list[ws]), FocusWindow(w, ws)
    PROVE  Stay /\ cur' = cur /\ exists' = exists
<1>1. CASE Abort("assert(!_focused)")  BY <1>1 DEF Abort, Stay, SameElements
<1>2. CASE /\ list' = [list EXCEPT ![ws] = ToFront(w, @)]
           /\ UNCHANGED <<exists, managed, shown>>
  <2>1. SameElements(list', list)  BY <1>2, ListToFront DEF CoreInv
  <2> QED  BY <1>2, <2>1 DEF Stay, shown
<1> QED  BY <1>1, <1>2 DEF FocusWindow

\* So does State::switch_workspace.
LEMMA SwitchStays ==
    ASSUME CoreInv, NEW ws \in Workspaces, ws # cur, NEW w,
           (w = Nil /\ list[ws] = <<>>) \/ w \in Elements(list[ws]), SwitchWorkspace(ws, w)
    PROVE  Stay /\ (cur' = cur \/ cur' = ws)
<1>1. CASE UNCHANGED <<cur, list, managed>>  BY <1>1 DEF Stay, SameElements
<1>2. CASE /\ cur' = ws /\ managed' = managed
           /\ list' = IF w = Nil THEN list ELSE [list EXCEPT ![ws] = ToFront(w, @)]
  <2>1. SameElements(list', list)
    <3>1. CASE w = Nil  BY <1>2, <3>1 DEF SameElements
    <3>2. CASE w # Nil
      <4>1. w \in Elements(list[ws]) /\ list' = [list EXCEPT ![ws] = ToFront(w, @)]
        BY <1>2, <3>2
      <4> QED  BY <4>1, ListToFront DEF CoreInv
    <3> QED  BY <3>1, <3>2
  <2> QED  BY <1>2, <2>1 DEF Stay
<1> QED  BY <1>1, <1>2 DEF SwitchWorkspace, Abort

\* window::move_to_workspace sends one window, from wherever it was, to ws.
LEMMA MoveGoesTo ==
    ASSUME CoreInv, NEW w \in Windows, NEW ws \in Workspaces,
           w \in managed => Home(w) # ws, list' = MovedTo(w, ws), managed' = managed \cup {w}
    PROVE  GoTo(w, ws)
<1>1. StateOK /\ OneHome  BY DEF CoreInv
<1>2. /\ \A v \in Workspaces : v # ws => Without(list', list, w, v)
      /\ Elements(list'[ws]) = Elements(list[ws]) \cup {w}
  BY <1>1, ListsAfterMove
<1> QED  BY <1>2 DEF GoTo, Without

\* State::unmanage_window takes one away.
LEMMA UnmanageGoesAway ==
    ASSUME CoreInv, NEW w \in Windows, UnmanageWindow(w)
    PROVE  GoAway(w) /\ w \in managed /\ cur' = cur
<1>1. StateOK /\ OneHome  BY DEF CoreInv
<1>2. w \in managed /\ managed' = managed \ {w} /\ cur' = cur
  BY DEF UnmanageWindow, shown
<1> DEFINE h == Home(w)
<1>3. h \in Workspaces /\ w \in Elements(list[h])  BY <1>1, <1>2, HomeOf
<1>4. list' = [list EXCEPT ![h] = Erase(@, w)]  BY DEF UnmanageWindow
<1> HIDE DEF h
<1>5. \A v \in Workspaces : Without(list', list, w, v)  BY <1>1, <1>3, <1>4, ListAfterErase
<1> QED  BY <1>2, <1>5 DEF GoAway, Without

-----------------------------------------------------------------------------
(* Every step. *)

\* What a step may do to the homes and the workspaces.
Allowed ==
    \/ Stay /\ cur' = cur
    \/ Stay /\ \E ws \in Workspaces : cur' = ws
    \/ cur' = cur /\ \E w \in Windows, ws \in Workspaces : GoTo(w, ws) /\ (w \in managed => ws # cur)
    \/ cur' = cur /\ \E w \in managed : GoAway(w)

\* Every handler does what is allowed.
LEMMA StepAllowed ==
    ASSUME CoreInv, [Next]_vars
    PROVE  Allowed
<1>1. /\ cur \in Workspaces /\ managed \subseteq Windows
      /\ \A ws \in Workspaces : list[ws] \in Seq(Windows)
      /\ StateOK /\ OneHome
  BY DEF CoreInv, StateOK
<1>2. \A ws \in Workspaces : list[ws] # <<>> => Head(list[ws]) \in Elements(list[ws])
  BY <1>1, ElementsAreWindows
<1>3. ASSUME list' = list, managed' = managed  PROVE Stay
  BY <1>3 DEF Stay, SameElements
<1>4. ASSUME NEW w \in Windows, NEW ws \in Workspaces, LoadWindow(w, ws)
      PROVE  Allowed
  <2>1. /\ w \notin managed /\ list' = MovedTo(w, ws) /\ managed' = managed \cup {w}
        /\ cur' = cur
    BY <1>4 DEF LoadWindow, MoveToWorkspace, shown
  <2>2. GoTo(w, ws)  BY <2>1, MoveGoesTo
  <2> QED  BY <2>1, <2>2 DEF Allowed
<1>5. ASSUME NEW ws \in Workspaces, LoadNothing(ws)  PROVE Allowed
  BY <1>3, <1>5 DEF LoadNothing, shown, Allowed
<1>6. CASE FinishInit  BY <1>3, <1>6 DEF FinishInit, Allowed
<1>7. ASSUME NEW w \in Windows, ManageWindow(w)  PROVE Allowed
  <2>1. /\ w \notin managed /\ list' = MovedTo(w, cur) /\ managed' = managed \cup {w}
        /\ cur' = cur
    BY <1>7 DEF ManageWindow, shown
  <2>2. GoTo(w, cur)  BY <1>1, <2>1, MoveGoesTo
  <2> QED  BY <1>1, <1>3, <2>1, <2>2 DEF Allowed
<1>8. ASSUME NEW w, NEW ws \in Workspaces, w \in Elements(list[ws]), FocusWindow(w, ws)
      PROVE  Allowed
  BY <1>8, FocusStays DEF Allowed
<1>9. ASSUME NEW w \in Windows, RemapWindow(w)  PROVE Allowed
  <2>1. w \in Elements(list[cur])  BY <1>1, <1>9, HomeOf DEF RemapWindow
  <2> QED  BY <1>1, <1>8, <1>9, <2>1 DEF RemapWindow
<1>10. ASSUME NEW w \in Windows, UnmapNotify(w) \/ NetCloseWindow(w)
       PROVE  Allowed
  <2>1. GoAway(w) /\ w \in managed /\ cur' = cur
    BY <1>10, UnmanageGoesAway DEF UnmapNotify, NetCloseWindow
  <2> QED  BY <2>1 DEF Allowed
<1>11. CASE FocusInRoot  BY <1>1, <1>2, <1>8, <1>11 DEF FocusInRoot
<1>12. ASSUME NEW w \in Windows, FocusInWindow(w)  PROVE Allowed
  <2>1. Home(w) \in Workspaces /\ w \in Elements(list[Home(w)])
    BY <1>1, <1>12, HomeOf DEF FocusInWindow
  <2> QED  BY <1>8, <1>12, <2>1 DEF FocusInWindow, TryFocusWindow
<1>13. ASSUME NEW w \in Windows, MoveFocus(w)  PROVE Allowed
  BY <1>1, <1>8, <1>13 DEF MoveFocus
<1>14. ASSUME NEW w \in Windows, NEW action, NetWmState(w, action)
       PROVE  Allowed
  BY <1>3, <1>14 DEF NetWmState, shown, Allowed
<1>15. ASSUME NEW ws \in Workspaces, ws # cur, NEW w,
              (w = Nil /\ list[ws] = <<>>) \/ w \in Elements(list[ws]), SwitchWorkspace(ws, w)
       PROVE  Allowed
  <2>1. Stay /\ (cur' = cur \/ cur' = ws)  BY <1>15, SwitchStays
  <2> QED  BY <2>1 DEF Allowed
<1>16. ASSUME NEW w \in Windows, NetActiveWindow(w)  PROVE Allowed
  <2>1. Home(w) \in Workspaces /\ w \in Elements(list[Home(w)])
    BY <1>1, <1>16, HomeOf DEF NetActiveWindow
  <2>2. CASE Home(w) = cur  BY <1>8, <1>16, <2>1, <2>2 DEF NetActiveWindow
  <2>3. CASE Home(w) # cur  BY <1>15, <1>16, <2>1, <2>3 DEF NetActiveWindow
  <2> QED  BY <2>2, <2>3
<1>17. ASSUME NEW ws \in Workspaces, SwitchBinding(ws) \/ NetCurrentDesktop(ws)
       PROVE  Allowed
  BY <1>2, <1>15, <1>17 DEF SwitchBinding, NetCurrentDesktop, SwitchTo
<1>18. ASSUME NEW w \in Windows, NEW ws \in Workspaces, NetWmDesktop(w, ws)
       PROVE  Allowed
  <2>1. /\ w \in managed /\ managed' = managed /\ ws # cur /\ cur' = cur
    BY <1>18 DEF NetWmDesktop, shown
  <2>2. CASE ws = Home(w)
    <3>1. list' = list  BY <1>18, <2>2 DEF NetWmDesktop
    <3> QED  BY <1>3, <2>1, <3>1 DEF Allowed
  <2>3. CASE ws # Home(w)
    <3>1. list' = MovedTo(w, ws)  BY <1>18, <2>3 DEF NetWmDesktop, MoveToWorkspace
    <3>2. GoTo(w, ws)  BY <2>1, <2>3, <3>1, MoveGoesTo
    <3> QED  BY <2>1, <3>2 DEF Allowed
  <2> QED  BY <2>2, <2>3
<1>19. CASE UNCHANGED vars  BY <1>3, <1>19 DEF vars, Allowed
<1> QED
  BY <1>4, <1>5, <1>6, <1>7, <1>9, <1>10, <1>11, <1>12, <1>13, <1>14, <1>16, <1>17, <1>18,
     <1>19 DEF Next

\* Every step of the handlers is a step of Placement, or changes nothing it has.
LEMMA StepPlaces ==
    ASSUME CoreInv, CoreInv', [Next]_vars
    PROVE  [Promised!Next]_(Promised!vars)
<1>1. Allowed  BY StepAllowed
<1>2. CASE Stay /\ cur' = cur
  BY <1>2, HomesStay DEF Promised!vars
<1>3. ASSUME NEW ws \in Workspaces, Stay, cur' = ws  PROVE Promised!Next
  BY <1>3, HomesStay DEF Promised!Next, Promised!Show
<1>4. ASSUME NEW w \in Windows, NEW ws \in Workspaces, GoTo(w, ws), w \in managed => ws # cur,
             cur' = cur
      PROVE  Promised!Next
  <2>1. Homes' = [Homes EXCEPT ![w] = ws]  BY <1>4, HomesGoTo
  <2>2. CASE w \in managed
    <3>1. Homes[w] # Nil  BY <2>2, HomeMeansManaged
    <3>2. Promised!Send(w, ws)  BY <1>4, <2>1, <2>2, <3>1 DEF Promised!Send
    <3> QED  BY <3>2 DEF Promised!Next
  <2>3. CASE w \notin managed
    <3>1. Homes[w] = Nil  BY <2>3, HomeMeansManaged
    <3>2. Promised!Arrive(w, ws)  BY <1>4, <2>1, <3>1 DEF Promised!Arrive
    <3> QED  BY <3>2 DEF Promised!Next
  <2> QED  BY <2>2, <2>3
<1>5. ASSUME NEW w \in managed, GoAway(w), cur' = cur  PROVE Promised!Next
  <2>1. w \in Windows  BY DEF CoreInv, StateOK
  <2>2. Homes' = [Homes EXCEPT ![w] = Nil]  BY <1>5, <2>1, HomesGoAway
  <2>3. Homes[w] # Nil  BY <2>1, HomeMeansManaged
  <2>4. Promised!Leave(w)  BY <1>5, <2>2, <2>3 DEF Promised!Leave
  <2> QED  BY <2>1, <2>4 DEF Promised!Next
<1> QED  BY <1>1, <1>2, <1>3, <1>4, <1>5 DEF Allowed

\* A window changes its home only by a request about that window, is only ever sent to
\* a workspace that is not shown, and switching workspaces moves none: whatever the
\* numbers of windows and workspaces, Desktop implements Placement.
THEOREM PlacementImplemented == Spec => ImplementsPlacement
<1>1. Init => Promised!Init
  BY DEF Init, Promised!Init, Homes
<1>2. CoreInv /\ CoreInv' /\ [Next]_vars => [Promised!Next]_(Promised!vars)  BY StepPlaces
<1> QED  BY <1>1, <1>2, CoreInductive, PTL DEF Spec, ImplementsPlacement, Promised!Spec

-----------------------------------------------------------------------------
(* The screen loses the focus only with its window. *)

\* What FocusLeavesWithItsWindow says of a step.
FocusKept ==
    status' = "running" /\ ~FrontHasFocus' =>
        /\ status = "running" /\ cur' = cur
        /\ FrontHasFocus => \E w \in focused : /\ IsCurrentWindow(w, cur)
                                             /\ w \notin Elements(list'[cur])

\* The lists of two workspaces have no current window in common.
LEMMA CurrentIsHere ==
    ASSUME CoreInv, NEW ws \in Workspaces, NEW w, IsCurrentWindow(w, ws)
    PROVE  /\ w \in Windows /\ w \in Elements(list[ws])
           /\ \A v \in Workspaces : w \in Elements(list[v]) => v = ws
<1>1. list[ws] \in Seq(Windows) /\ list[ws] # <<>> /\ w = Head(list[ws])
  BY DEF CoreInv, StateOK, IsCurrentWindow, AtFront
<1>2. w \in Windows /\ w \in Elements(list[ws])  BY <1>1, ElementsAreWindows
<1> QED  BY <1>2 DEF CoreInv, OneHome, Tidy

\* A list has one current window.
LEMMA OneFront ==
    ASSUME NEW l, NEW w, NEW v, AtFront(l, w), AtFront(l, v)
    PROVE  v = w
BY DEF AtFront

\* A step that takes w from the screen, if it is there, and its flag at most.
LEMMA DepartureKeepsFocus ==
    ASSUME CoreInv, CoreInv', NEW w \in Windows, cur' = cur, status' = status,
           Without(list', list, w, cur),
           \A v \in Windows : IsCurrentWindow(v, cur) /\ v \in focused /\ v # w => v \in focused'
    PROVE  FocusKept
<1>1. cur \in Workspaces /\ list[cur] \in Seq(Windows) /\ list'[cur] \in Seq(Windows)
  BY DEF CoreInv, StateOK
<1>2. CASE IsCurrentWindow(w, cur) /\ w \in focused
  BY <1>2 DEF FocusKept, Without
<1>3. CASE ~FrontHasFocus
  BY <1>3 DEF FocusKept
<1>4. CASE FrontHasFocus /\ ~IsCurrentWindow(w, cur)
  <2>1. CASE list[cur] = <<>>
    <3>1. Elements(list'[cur]) = {}  BY <1>1, <2>1, ElementsAreWindows DEF Without
    <3>2. list'[cur] = <<>>  BY <1>1, <3>1, ElementsAreWindows
    <3>3. FrontHasFocus'  BY <3>2 DEF FrontHasFocus, IsCurrentWindow, AtFront
    <3> QED  BY <3>3 DEF FocusKept
  <2>2. CASE list[cur] # <<>>
    <3> DEFINE y == Head(list[cur])
    <3>1. AtFront(list[cur], y) /\ y \in Windows  BY <1>1, <2>2, ElementsAreWindows DEF AtFront
    <3> HIDE DEF y
    <3>2. y # w /\ y \in focused  BY <1>4, <3>1 DEF FrontHasFocus, IsCurrentWindow
    <3>3. AtFront(list'[cur], y) /\ y \in focused'
      BY <3>1, <3>2 DEF Without, IsCurrentWindow
    <3>4. FrontHasFocus'  BY <3>3, OneFront DEF FrontHasFocus, IsCurrentWindow
    <3> QED  BY <3>4 DEF FocusKept
  <2> QED  BY <2>1, <2>2
<1> QED  BY <1>2, <1>3, <1>4 DEF FrontHasFocus

\* Workspace::focus_window: on the screen, the window gets the flag; elsewhere, the flag
\* it takes is that of another workspace.
LEMMA FocusWindowKeepsFocus ==
    ASSUME CoreInv, NEW ws \in Workspaces, NEW w \in Elements(list[ws]), FocusWindow(w, ws)
    PROVE  FocusKept
<1>1. CASE Abort("assert(!_focused)")  BY <1>1 DEF Abort, FocusKept
<1>2. CASE /\ list' = [list EXCEPT ![ws] = ToFront(w, @)]
           /\ focused' = (focused \ FocusedFront(ws)) \cup {w}
           /\ UNCHANGED <<status, shown>>
  <2>1. cur' = cur /\ status' = status /\ cur \in Workspaces
    BY <1>2 DEF shown, CoreInv, StateOK
  <2>2. CASE ws = cur
    <3>1. AtFront(list'[cur], w)  BY <1>2, <2>2, ListToFront DEF CoreInv
    <3>2. FrontHasFocus'  BY <1>2, <2>1, <3>1, OneFront DEF FrontHasFocus, IsCurrentWindow
    <3> QED  BY <3>2 DEF FocusKept
  <2>3. CASE ws # cur
    <3>1. list'[cur] = list[cur]  BY <1>2, <2>1, <2>3 DEF CoreInv, StateOK
    <3>2. \A v \in Windows : IsCurrentWindow(v, cur) => ~IsCurrentWindow(v, ws)
      BY <2>1, <2>3, CurrentIsHere
    <3>3. \A v \in Windows : IsCurrentWindow(v, cur) /\ v \in focused => v \in focused'
      BY <1>2, <3>2 DEF FocusedFront
    <3>4. \A v \in Windows : IsCurrentWindow(v, cur)' => IsCurrentWindow(v, cur)
      BY <2>1, <3>1 DEF IsCurrentWindow
    <3> QED  BY <2>1, <3>3, <3>4 DEF FocusKept, FrontHasFocus
  <2> QED  BY <2>2, <2>3
<1> QED  BY <1>1, <1>2 DEF FocusWindow

\* State::switch_workspace: the workspace that appears has its current window focused.
LEMMA SwitchKeepsFocus ==
    ASSUME CoreInv, NEW ws \in Workspaces, ws # cur, NEW w,
           (w = Nil /\ list[ws] = <<>>) \/ (w \in Elements(list[ws]) /\ w # Nil),
           SwitchWorkspace(ws, w)
    PROVE  FocusKept
<1>1. CASE Abort("assert(_focused)") \/ Abort("assert(!_focused)")
  BY <1>1 DEF Abort, FocusKept
<1>2. CASE /\ cur' = ws
           /\ focused' = (focused \ FocusedFront(cur)) \cup ({w} \ {Nil})
           /\ list' = IF w = Nil THEN list ELSE [list EXCEPT ![ws] = ToFront(w, @)]
  <2>1. CASE w = Nil /\ list[ws] = <<>>
    <3>1. list'[cur'] = <<>>  BY <1>2, <2>1
    <3>2. FrontHasFocus'  BY <3>1 DEF FrontHasFocus, IsCurrentWindow, AtFront
    <3> QED  BY <3>2 DEF FocusKept
  <2>2. CASE w \in Elements(list[ws]) /\ w # Nil
    <3>1. list' = [list EXCEPT ![ws] = ToFront(w, @)] /\ w \in focused'  BY <1>2, <2>2
    <3>2. AtFront(list'[ws], w)  BY <2>2, <3>1, ListToFront DEF CoreInv
    <3>3. FrontHasFocus'  BY <1>2, <3>1, <3>2, OneFront DEF FrontHasFocus, IsCurrentWindow
    <3> QED  BY <3>3 DEF FocusKept
  <2> QED  BY <2>1, <2>2
<1> QED  BY <1>1, <1>2 DEF SwitchWorkspace, AnnounceDesktop

\* State::unmanage_window takes the flag of its window only, and the window with it.
LEMMA UnmanageKeepsFocus ==
    ASSUME CoreInv, CoreInv', NEW w \in Windows, UnmanageWindow(w)
    PROVE  FocusKept
<1>1. /\ cur' = cur /\ status' = status /\ focused' = focused \ {w} /\ cur \in Workspaces
      /\ StateOK /\ OneHome /\ w \in managed
  BY DEF UnmanageWindow, shown, CoreInv, StateOK
<1> DEFINE h == Home(w)
<1>2. h \in Workspaces /\ w \in Elements(list[h]) /\ list' = [list EXCEPT ![h] = Erase(@, w)]
  BY <1>1, HomeOf DEF UnmanageWindow
<1> HIDE DEF h
<1>3. Without(list', list, w, cur)  BY <1>1, <1>2, ListAfterErase
<1> QED  BY <1>1, <1>3, DepartureKeepsFocus

\* State::manage_window: the new window is in front, with the flag.
LEMMA ManageKeepsFocus ==
    ASSUME CoreInv, NEW w \in Windows, ManageWindow(w)
    PROVE  FocusKept
<1>1. cur' = cur /\ cur \in Workspaces /\ w \in focused' /\ list[cur] \in Seq(Windows)
  BY DEF ManageWindow, shown, CoreInv, StateOK
<1>2. list'[cur] = PushFront(list[cur], w)
  BY <1>1 DEF ManageWindow, MovedTo, CoreInv, StateOK
<1>3. AtFront(list'[cur], w)  BY <1>1, <1>2, PushFrontElements
<1>4. FrontHasFocus'  BY <1>1, <1>3, OneFront DEF FrontHasFocus, IsCurrentWindow
<1> QED  BY <1>4 DEF FocusKept

\* State::init ends by giving the flag to the front of the screen.
LEMMA InitGivesFocus ==
    ASSUME FinishInit
    PROVE  FocusKept
<1>1. cur' = cur /\ list' = list  BY DEF FinishInit
<1>2. list[cur] # <<>> => Head(list[cur]) \in focused'  BY DEF FinishInit
<1>3. FrontHasFocus'  BY <1>1, <1>2 DEF FrontHasFocus, IsCurrentWindow, AtFront
<1> QED  BY <1>3 DEF FocusKept

\* _NET_WM_DESKTOP takes a window to a workspace that is not on the screen: of the flags,
\* its own goes, and that of the window which was in front over there.
LEMMA SendKeepsFocus ==
    ASSUME CoreInv, CoreInv', NEW w \in Windows, NEW ws \in Workspaces, NetWmDesktop(w, ws)
    PROVE  FocusKept
<1>1. /\ cur' = cur /\ status' = status /\ cur \in Workspaces /\ ws # cur
      /\ StateOK /\ OneHome
  BY DEF NetWmDesktop, shown, CoreInv, StateOK
<1>2. CASE ws = Home(w)
  <2>1. list' = list /\ focused' = focused  BY <1>2 DEF NetWmDesktop
  <2> QED  BY <1>1, <2>1 DEF FocusKept, FrontHasFocus, IsCurrentWindow
<1>3. CASE ws # Home(w)
  <2>1. list' = MovedTo(w, ws) /\ focused' = focused \ (FocusedFront(ws) \cup (focused \cap {w}))
    BY <1>3 DEF NetWmDesktop, MoveToWorkspace
  <2>2. Without(list', list, w, cur)  BY <1>1, <1>3, <2>1, ListsAfterMove
  <2>3. \A v \in Windows : IsCurrentWindow(v, cur) => ~IsCurrentWindow(v, ws)
    BY <1>1, CurrentIsHere
  <2>4. \A v \in Windows : IsCurrentWindow(v, cur) /\ v \in focused /\ v # w => v \in focused'
    BY <2>1, <2>3 DEF FocusedFront
  <2> QED  BY <1>1, <2>2, <2>4, DepartureKeepsFocus
<1> QED  BY <1>2, <1>3

\* Every handler keeps the focus on the screen, or takes it away with its window.
LEMMA StepKeepsFocus ==
    ASSUME CoreInv, CoreInv', [Next]_vars
    PROVE  FocusKept
<1>1. /\ cur \in Workspaces /\ managed \subseteq Windows /\ StateOK /\ OneHome
      /\ \A ws \in Workspaces : list[ws] \in Seq(Windows)
  BY DEF CoreInv, StateOK
<1>2. \A ws \in Workspaces : list[ws] # <<>> => Head(list[ws]) \in Elements(list[ws])
  BY <1>1, ElementsAreWindows
<1>3. \A ws \in Workspaces : \A w \in Elements(list[ws]) : w # Nil
  BY <1>1, ElementsAreWindows, NilAssumption
<1>4. \A w \in Windows : w \in managed => Home(w) \in Workspaces /\ w \in Elements(list[Home(w)])
  BY <1>1, HomeOf
<1>5. ASSUME NEW w \in Windows, NEW ws \in Workspaces, LoadWindow(w, ws)  PROVE FocusKept
  BY <1>5 DEF LoadWindow, FocusKept
<1>6. ASSUME NEW ws \in Workspaces, LoadNothing(ws)  PROVE FocusKept
  BY <1>6 DEF LoadNothing, FocusKept
<1>7. CASE FinishInit  BY <1>7, InitGivesFocus
<1>8. ASSUME NEW w \in Windows, ManageWindow(w)  PROVE FocusKept
  BY <1>8, ManageKeepsFocus
<1>9. ASSUME NEW w \in Windows, RemapWindow(w)  PROVE FocusKept
  <2>1. w \in Elements(list[cur]) /\ FocusWindow(w, cur)  BY <1>4, <1>9 DEF RemapWindow
  <2> QED  BY <1>1, <2>1, FocusWindowKeepsFocus
<1>10. ASSUME NEW w \in Windows, UnmapNotify(w) \/ NetCloseWindow(w)  PROVE FocusKept
  BY <1>10, UnmanageKeepsFocus DEF UnmapNotify, NetCloseWindow
<1>11. CASE FocusInRoot
  BY <1>1, <1>2, <1>11, FocusWindowKeepsFocus DEF FocusInRoot
<1>12. ASSUME NEW w \in Windows, FocusInWindow(w)  PROVE FocusKept
  BY <1>4, <1>12, FocusWindowKeepsFocus DEF FocusInWindow, TryFocusWindow
<1>13. ASSUME NEW w \in Windows, MoveFocus(w)  PROVE FocusKept
  BY <1>1, <1>13, FocusWindowKeepsFocus DEF MoveFocus
<1>14. ASSUME NEW w \in Windows, NEW action, NetWmState(w, action)  PROVE FocusKept
  <2>1. UNCHANGED <<status, list, focused, cur>>  BY <1>14 DEF NetWmState, shown
  <2> QED  BY <2>1 DEF FocusKept, FrontHasFocus, IsCurrentWindow
<1>15. ASSUME NEW w \in Windows, NetActiveWindow(w)  PROVE FocusKept
  <2>1. CASE Home(w) = cur
    BY <1>1, <1>4, <1>15, <2>1, FocusWindowKeepsFocus DEF NetActiveWindow
  <2>2. CASE Home(w) # cur
    <3>1. w \in managed /\ SwitchWorkspace(Home(w), w)  BY <1>15, <2>2 DEF NetActiveWindow
    <3> QED  BY <1>3, <1>4, <2>2, <3>1, SwitchKeepsFocus
  <2> QED  BY <2>1, <2>2
<1>16. ASSUME NEW ws \in Workspaces, SwitchBinding(ws) \/ NetCurrentDesktop(ws)  PROVE FocusKept
  <2> DEFINE w == IF list[ws] = <<>> THEN Nil ELSE Head(list[ws])
  <2>1. ws # cur /\ SwitchWorkspace(ws, w)
    BY <1>16 DEF SwitchBinding, NetCurrentDesktop, SwitchTo
  <2>2. (w = Nil /\ list[ws] = <<>>) \/ (w \in Elements(list[ws]) /\ w # Nil)  BY <1>2, <1>3
  <2> HIDE DEF w
  <2> QED  BY <2>1, <2>2, SwitchKeepsFocus
<1>17. ASSUME NEW w \in Windows, NEW ws \in Workspaces, NetWmDesktop(w, ws)  PROVE FocusKept
  BY <1>17, SendKeepsFocus
<1>18. CASE UNCHANGED vars
  BY <1>18 DEF vars, FocusKept, FrontHasFocus, IsCurrentWindow
<1> QED
  BY <1>5, <1>6, <1>7, <1>8, <1>9, <1>10, <1>11, <1>12, <1>13, <1>14, <1>15, <1>16, <1>17,
     <1>18 DEF Next

\* While the program runs, the window on the screen loses the focus only by being closed
\* or sent to another workspace; no switch ends at a workspace whose current window lacks
\* it, and no request about a hidden workspace takes it.
THEOREM FocusNeverStolen == Spec => FocusLeavesWithItsWindow
<1>1. CoreInv /\ CoreInv' /\ [Next]_vars
        => [status' = "running" /\ ~FrontHasFocus' =>
              /\ status = "running" /\ cur' = cur
              /\ FrontHasFocus => \E w \in focused : /\ IsCurrentWindow(w, cur)
                                                   /\ w \notin Elements(list'[cur])]_vars
  BY StepKeepsFocus DEF FocusKept
<1> QED  BY <1>1, CoreInductive, PTL DEF Spec, FocusLeavesWithItsWindow
=============================================================================
