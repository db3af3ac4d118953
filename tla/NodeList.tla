------------------------------ MODULE NodeList ------------------------------
(***************************************************************************)
(* The std::list<T*> of node.h and workspace.h, as sequences: what find,   *)
(* erase and push_front give.  Every list of the program holds a pointer   *)
(* at most once (Container: "A container is special, therefore no          *)
(* duplicates"), so a position is determined by the element.               *)
(***************************************************************************)
EXTENDS Integers, SequencesExt

\* What the lists hold and who has one.
CONSTANTS Windows,      \* the X windows the window manager may manage
          Workspaces,   \* workspace ids
          Nil           \* no window (XCB_NONE), a null _parent, an empty optional

\* std::ranges::find, for an element the list holds.
Position(s, x) == CHOOSE i \in 1..Len(s) : s[i] = x

\* erase(find(x)), which every caller asserts to succeed.
Erase(s, x) == RemoveAt(s, Position(s, x))

\* push_front
PushFront(s, x) == <<x>> \o s

AtFront(s, x) == s # <<>> /\ Head(s) = x

NoDuplicates(s) == \A i, j \in 1..Len(s) : s[i] = s[j] => i = j

Elements(s) == {s[i] : i \in 1..Len(s)}
=============================================================================
