----------------------------- MODULE MCWmClients -----------------------------
(* Small instances of WmClients. *)
EXTENDS WmClients

NoOwner == [c \in Windows |-> NoWindow]

\* Every window but the first is a transient of the first.
OwnedByFirst ==
    LET first == CHOOSE c \in Windows : TRUE
    IN  [c \in Windows |-> IF c = first THEN NoWindow ELSE first]

TwoWorkspaces == 0 .. 1
SixFrames == 1 .. 6

AllCommands == CommandKinds
TwoWindowCommands == {"iconify", "toDesktop", "desktopCount"}
FocusCommands == {"iconify", "deiconify", "unhide", "activate", "close"}
=============================================================================
