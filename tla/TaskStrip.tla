------------------------------ MODULE TaskStrip ------------------------------
(***************************************************************************)
(* The task strip of the panel as a value (platform/src/task.rs): a        *)
(* sequence of entries in the order they are drawn.  An entry belongs to   *)
(* an application.  A pinned one stays when its application has no window, *)
(* and stands for one window of it otherwise; every other entry stands for *)
(* one window.  TaskBar keeps one strip in its state.                      *)
(***************************************************************************)
EXTENDS SequencesExt

CONSTANT NoRef   \* the entry stands for no window

Slot(app, ref) == [app |-> app, pinned |-> TRUE, ref |-> ref]
WindowEntry(app, ref) == [app |-> app, pinned |-> FALSE, ref |-> ref]

IdOf(e) == IF e.pinned THEN <<"pin", e.app>> ELSE <<"win", e.ref>>

Places(s, Test(_)) == {i \in DOMAIN s : Test(s[i])}
FirstOf(S) == CHOOSE i \in S : \A j \in S : i <= j

PinnedAt(s, app) == Places(s, LAMBDA e : e.app = app /\ e.pinned)
WindowAt(s, ref) == Places(s, LAMBDA e : e.ref = ref)
LiveOf(s, app) == Places(s, LAMBDA e : e.app = app /\ e.ref # NoRef)
Siblings(s, app) == Places(s, LAMBDA e : e.app = app /\ ~e.pinned)
EmptySlot(s, app) == Places(s, LAMBDA e : e.app = app /\ e.pinned /\ e.ref = NoRef)

RefsIn(s) == {s[i].ref : i \in DOMAIN s} \ {NoRef}

\* add_window: an empty slot of the application first, else a new entry.
AddWindow(s, app, ref) ==
    IF WindowAt(s, ref) # {} THEN s
    ELSE IF EmptySlot(s, app) # {}
    THEN ReplaceAt(s, FirstOf(EmptySlot(s, app)), Slot(app, ref))
    ELSE Append(s, WindowEntry(app, ref))

\* Mutant: the sibling whose window the slot takes stays.
SiblingLeft(s, i) ==
    LET app == s[i].app
        j == FirstOf(Siblings(s, app))
    IN  ReplaceAt(s, i, Slot(app, IF Siblings(s, app) = {} THEN NoRef ELSE s[j].ref))

\* Mutant: an empty slot goes to the end.
SlotMoved(s, i) ==
    LET app == s[i].app
        j == FirstOf(Siblings(s, app))
    IN  IF Siblings(s, app) = {}
        THEN Append(RemoveAt(s, i), Slot(app, NoRef))
        ELSE RemoveAt(ReplaceAt(s, i, Slot(app, s[j].ref)), j)

\* The slot keeps its place; a sibling's window moves into it.
VacateSlot(s, i) ==
    LET app == s[i].app
        j == FirstOf(Siblings(s, app))
    IN  IF Siblings(s, app) = {}
        THEN ReplaceAt(s, i, Slot(app, NoRef))
        ELSE RemoveAt(ReplaceAt(s, i, Slot(app, s[j].ref)), j)

\* remove_window
RemoveWindow(s, ref) ==
    LET i == FirstOf(WindowAt(s, ref))
    IN  IF WindowAt(s, ref) = {} THEN s
        ELSE IF s[i].pinned THEN VacateSlot(s, i)
        ELSE RemoveAt(s, i)

\* pin_app: the first window of the application becomes its slot, in place.
Pin(s, app) ==
    IF PinnedAt(s, app) # {} THEN s
    ELSE IF LiveOf(s, app) # {}
    THEN LET i == FirstOf(LiveOf(s, app)) IN ReplaceAt(s, i, Slot(app, s[i].ref))
    ELSE Append(s, Slot(app, NoRef))

\* unpin_app: a window that the slot stood for stays in place.
Unpin(s, app) ==
    LET i == FirstOf(PinnedAt(s, app))
    IN  IF PinnedAt(s, app) = {} THEN s
        ELSE IF s[i].ref = NoRef THEN RemoveAt(s, i)
        ELSE ReplaceAt(s, i, WindowEntry(app, s[i].ref))

\* reorder_on_release, both places in range.
MoveEntry(s, from, to) ==
    IF from = to THEN s ELSE InsertAt(RemoveAt(s, from), to, s[from])

\* The entries whose window is not live lose it, in the order of the strip.
DropGone(s, live) ==
    FoldLeft(LAMBDA t, r : IF r \in live THEN t ELSE RemoveWindow(t, r),
             s, [i \in DOMAIN s |-> s[i].ref])

AddAll(s, windows) ==
    FoldLeft(LAMBDA t, w : AddWindow(t, w.app, w.ref), s, windows)

\* Mutant: windows that are gone stay.
OnlyAdds(s, windows) == AddAll(s, windows)

RefsOfList(list) == {list[i].ref : i \in DOMAIN list}

\* reconcile_windows: windows that are gone leave, then new ones enter.
Reconcile(s, windows) ==
    AddAll(DropGone(s, {NoRef} \cup RefsOfList(windows)), windows)

-----------------------------------------------------------------------------
(* What a strip must be. *)

EachWindowOnce(s) ==
    \A i, j \in DOMAIN s : s[i].ref = s[j].ref /\ s[i].ref # NoRef => i = j

EachPinOnce(s) ==
    \A i, j \in DOMAIN s :
        s[i].pinned /\ s[j].pinned /\ s[i].app = s[j].app => i = j

\* Only a slot is without a window, and only if no other entry has one to give.
SlotsAreFilled(s) ==
    \A i \in DOMAIN s :
        s[i].ref = NoRef => s[i].pinned /\ Siblings(s, s[i].app) = {}

WellFormed(s) == EachWindowOnce(s) /\ EachPinOnce(s) /\ SlotsAreFilled(s)
=============================================================================
