------------------------------ MODULE Monitors ------------------------------
(***************************************************************************)
(* How State::init finds the monitors: x11/extension.cpp, x11/monitor.cpp  *)
(* and the first lines of State::init.  Any reply may fail to come, and    *)
(* the screen may be reconfigured between two requests, so each answer is  *)
(* chosen when it is asked for.  A reply that does not come leaves what an *)
(* empty one leaves.                                                       *)
(***************************************************************************)
EXTENDS Integers, Sequences, SequencesExt

CONSTANTS Heads,         \* the rectangles a monitor or CRTC may have
          DefaultHead,   \* the rectangle of the X screen
          Versions,      \* the minor versions of RandR 1.x; 0 when it is absent or fails
          MaxHeads       \* bound on the monitors or CRTCs the server reports

ASSUME HeadsAssumption == Versions \subseteq Nat /\ MaxHeads \in Nat

VARIABLES
    phase,      \* what the start does next, "ready", or how it failed
    left,       \* the CRTCs that were listed and not asked about yet
    index,      \* i, the key of the next monitor
    monitors    \* Manager<Monitor>: from keys to rectangles

monitorVars == <<phase, left, index, monitors>>

MonitorsInit ==
    /\ phase = "extensions"
    /\ left = 0 /\ index = 0
    /\ monitors \in [{} -> Heads]

\* Manager::manage, which throws for a key it has.
ManageMonitor(key, head, then) ==
    /\ monitors' = [k \in DOMAIN monitors \cup {key} |->
                       IF k \in DOMAIN monitors THEN monitors[k] ELSE head]
    /\ phase' = IF key \in DOMAIN monitors THEN "existence error" ELSE then

\* _init_xrandr, and which way load_all goes; the configuration may turn RandR off.
ChooseExtension ==
    /\ phase = "extensions"
    /\ \E minor \in Versions, enabled \in BOOLEAN :
         phase' = IF ~enabled \/ minor < 2 THEN "fallback"
                  ELSE IF minor >= 5 THEN "monitors" ELSE "resources"
    /\ UNCHANGED <<left, index, monitors>>

\* RandR 1.5: the reply has all monitors.
LoadMonitors ==
    /\ phase = "monitors"
    /\ \E heads \in BoundedSeq(Heads, MaxHeads) :
         monitors' = [key \in 0..(Len(heads) - 1) |-> heads[key + 1]]
    /\ phase' = "fallback"
    /\ UNCHANGED <<left, index>>

\* Before 1.5: the CRTCs, each of which is then asked about.
LoadResources ==
    /\ phase = "resources"
    /\ left' \in 0..MaxHeads
    /\ phase' = "crtcs"
    /\ UNCHANGED <<index, monitors>>

SkipCounted ==                  \* Seeded fault: the key of a CRTC that is skipped is used up.
    /\ phase = "crtcs" /\ left > 0
    /\ left' = left - 1
    /\ index' = index + 1
    /\ UNCHANGED <<phase, monitors>>

\* No reply about a CRTC, or a CRTC without outputs.
SkipCrtc ==
    /\ phase = "crtcs" /\ left > 0
    /\ left' = left - 1
    /\ UNCHANGED <<phase, index, monitors>>

LoadCrtc ==
    /\ phase = "crtcs" /\ left > 0
    /\ \E head \in Heads : ManageMonitor(index, head, phase)
    /\ left' = left - 1
    /\ index' = index + 1

LeaveCrtcs ==
    /\ phase = "crtcs" /\ left = 0
    /\ phase' = "fallback" /\ index' = 0
    /\ UNCHANGED <<left, monitors>>

\* The end of load_all: without a monitor, the screen is one.
Fallback ==
    /\ phase = "fallback"
    /\ IF DOMAIN monitors = {} THEN ManageMonitor(0, DefaultHead, "current")
       ELSE phase' = "current" /\ UNCHANGED monitors
    /\ UNCHANGED <<left, index>>

\* State::init takes monitors().at(0), which throws what main does not catch.
SetCurrentMonitor ==
    /\ phase = "current"
    /\ phase' = IF 0 \in DOMAIN monitors THEN "ready" ELSE "out of range"
    /\ UNCHANGED <<left, index, monitors>>

MonitorsNext ==
    \/ ChooseExtension \/ LoadMonitors \/ LoadResources \/ SkipCrtc \/ LoadCrtc \/ LeaveCrtcs
    \/ Fallback \/ SetCurrentMonitor

-----------------------------------------------------------------------------
\* Whatever replies are missing and whatever CRTCs are dark, the start ends with the
\* monitors numbered from 0 without a gap, the first of which at(0) finds, and no
\* key is managed twice.
AlwaysAMonitor ==
    /\ phase \notin {"existence error", "out of range"}
    /\ phase = "ready" =>
         \E n \in 1..(MaxHeads + 1) : monitors \in [0..(n - 1) -> Heads \cup {DefaultHead}]
=============================================================================
