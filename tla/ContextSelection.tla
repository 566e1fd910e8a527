-------------------------- MODULE ContextSelection --------------------------
(***************************************************************************)
(* What a Selector promises: the selected context and the one it replaced. *)
(* It is the selection half of the MemoryBackend, whose mutex makes a swap *)
(* one step.  A selector on disk records the replaced name before it       *)
(* replaces it and may stop between the two, so the promise also allows a  *)
(* name to be recorded and then not replaced.  And it may fail to read the *)
(* selection, which it takes for an empty one: only such a swap replaces a *)
(* name that is not recorded.                                              *)
(***************************************************************************)
CONSTANTS Name,     \* names of contexts
          NoName    \* the empty name, not among them: nothing is selected

VARIABLES selected, previous,
          unread    \* a swap is under way that could not read the selection

vars == <<selected, previous, unread>>

Init == /\ selected \in Name \cup {NoName}
        /\ previous \in Name \cup {NoName}
        /\ unread = FALSE

\* SetSelected: the selection changes and what it replaces is remembered.
SetSelected(n) ==
    /\ ~unread
    /\ selected' = n
    /\ previous' = IF selected = NoName THEN previous ELSE selected
    /\ UNCHANGED unread

\* The selection is recorded as replaced by a call that then fails.
RecordOnly ==
    /\ ~unread /\ selected # NoName
    /\ previous' = selected
    /\ UNCHANGED <<selected, unread>>

\* There is a selection and it cannot be read.
ReadFails ==
    /\ ~unread /\ selected # NoName
    /\ unread' = TRUE
    /\ UNCHANGED <<selected, previous>>

\* What could not be read is replaced, and not remembered.
SetUnread(n) ==
    /\ unread
    /\ selected' = n
    /\ unread' = FALSE
    /\ UNCHANGED previous

\* The call that could not read fails after that.
GiveUp ==
    /\ unread
    /\ unread' = FALSE
    /\ UNCHANGED <<selected, previous>>

Next == \/ RecordOnly \/ ReadFails \/ GiveUp
        \/ \E n \in Name \cup {NoName} : SetSelected(n) \/ SetUnread(n)

Spec == Init /\ [][Next]_vars
=============================================================================
