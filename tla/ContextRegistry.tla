-------------------------- MODULE ContextRegistry --------------------------
(***************************************************************************)
(* The registry of connection contexts: callers on many goroutines load,   *)
(* save, delete and select contexts through one Registry.  The registry    *)
(* itself holds no lock: every call is a sequence of backend and selector  *)
(* calls, and other calls run between them.  Only the FileSelector's swap  *)
(* is under a mutex, and it writes two files.  The process may be killed   *)
(* at any step.  The contexts' contents are in module ContextSettings.     *)
(***************************************************************************)
EXTENDS Naturals, FiniteSets

CONSTANTS Name, NoName,
          Slot,      \* the one name a SingleFileBackend answers to
          Caller,    \* goroutines
          NoCaller,
          Backends   \* the kinds of backend to consider

Kinds == {"file", "rootless", "single", "memory"}

ASSUME ConstantAssumption ==
    /\ NoName \notin Name
    /\ NoCaller \notin Caller
    /\ Slot \in Name
    /\ Backends \subseteq Kinds

VARIABLES
    backend,    \* kind of backend
    tracked,    \* whether the registry has a selector
    stored,     \* names with a payload
    selected,   \* context.txt
    previous,   \* previous-context.txt
    holder,     \* the caller in the selector's mutex
    call,       \* what each caller is doing
    overlapped, \* a Select and a Delete overlapped, or a Delete was cut short
    misread     \* a Delete that could not read the selection removed the selected context

vars == <<backend, tracked, stored, selected, previous, holder, call, overlapped, misread>>
store == <<backend, tracked>>
noted == <<overlapped, misread>>

Names == Name \cup {NoName}
Steps == {"idle", "selected", "load", "save", "list", "delete", "set", "record", "replace"}
Results == {"ok", "default", "notfound", "active", "readonly", "invalid", "error"}
Idle == [op |-> "none", name |-> NoName, step |-> "idle", active |-> FALSE,
         was |-> NoName, unread |-> FALSE, result |-> "ok"]

Ops == {"none", "load", "save", "delete", "select", "unselect"}
CallRecord == [op : Ops, name : Names, step : Steps, active : BOOLEAN,
               was : Names, unread : BOOLEAN, result : Results]

TypeOK ==
    /\ backend \in Kinds /\ tracked \in BOOLEAN
    /\ stored \subseteq Name
    /\ selected \in Names /\ previous \in Names
    /\ holder \in Caller \cup {NoCaller}
    /\ call \in [Caller -> CallRecord]
    /\ overlapped \in BOOLEAN /\ misread \in BOOLEAN

Init ==
    /\ backend \in Backends
    /\ tracked \in IF backend \in {"file", "memory"} THEN {TRUE} ELSE {FALSE}
    /\ stored \in SUBSET (CASE backend = "rootless" -> {}
                            [] backend = "single" -> {Slot}
                            [] OTHER -> Name)
    /\ selected \in IF tracked THEN stored \cup {NoName} ELSE {NoName}
    /\ previous = NoName
    /\ holder = NoCaller
    /\ call = [c \in Caller |-> Idle]
    /\ overlapped = FALSE /\ misread = FALSE

-----------------------------------------------------------------------------
(* The backends.                                                           *)

FileLoads(n) == backend = "file" /\ n \in stored
SingleLoads(n) == backend = "single" /\ n = Slot /\ n \in stored
MemoryLoads(n) == backend = "memory" /\ n \in stored
Loads(n) == FileLoads(n) \/ SingleLoads(n) \/ MemoryLoads(n)

\* A payload is written to a temporary file that is renamed into place, so a
\* failed or interrupted write leaves what was there.
FileSave(n) == backend = "file" /\ stored' = stored \cup {n}
SingleSave(n) == backend = "single" /\ n = Slot /\ stored' = stored \cup {n}
MemorySave(n) == backend = "memory" /\ stored' = stored \cup {n}

FileDelete(n) == backend = "file" /\ stored' = stored \ {n}
SingleDelete(n) == backend = "single" /\ stored' = stored \ ({n} \cap {Slot})
MemoryDelete(n) == backend = "memory" /\ stored' = stored \ {n}

FileList == IF backend = "rootless" THEN {} ELSE stored
SingleList == stored \cap {Slot}
MemoryList == stored
List == CASE backend = "single" -> SingleList
          [] backend = "memory" -> MemoryList
          [] OTHER -> FileList

-----------------------------------------------------------------------------
(* Calls.                                                                  *)

Goto(c, s) == call' = [call EXCEPT ![c].step = s]
Return(c, r) == call' = [call EXCEPT ![c] = [Idle EXCEPT !.result = r]]

Running(c, op) == call[c].step # "idle" /\ call[c].op = op

Dangling == selected \notin stored \cup {NoName}
Settled == ~Dangling /\ \A c \in Caller : call[c].step = "idle"

\* A Select and a Delete overlap when one starts while the other runs.
Overlaps(op) ==
    \E d \in Caller : \/ op = "select" /\ Running(d, "delete")
                      \/ op = "delete" /\ Running(d, "select")

Start(c, op, n, s) ==
    /\ call[c].step = "idle"
    /\ call' = [call EXCEPT ![c] = [Idle EXCEPT !.op = op, !.name = n, !.step = s]]
    /\ overlapped' = ((overlapped /\ ~Settled) \/ Overlaps(op))
    /\ misread' = (misread /\ ~Settled)
    /\ UNCHANGED <<store, stored, selected, previous, holder>>

\* Load: an empty name stands for the selected context.
Load(c) == \E n \in Names : Start(c, "load", n, IF n = NoName THEN "selected" ELSE "load")
Save(c) == \E n \in Name : Start(c, "save", n, "save")
Delete(c) == \E n \in Name : Start(c, "delete", n, "selected")
Unselect(c) == tracked /\ Start(c, "unselect", NoName, "set")

\* Select answers ErrReadOnly before it asks the backend.
Select(c) ==
    \/ \E n \in Name : tracked /\ Start(c, "select", n, "load")
    \/ /\ ~tracked /\ call[c].step = "idle"
       /\ Return(c, "readonly")
       /\ UNCHANGED <<store, stored, selected, previous, holder, noted>>

\* The answers of a read of context.txt: a read that fails answers as if nothing
\* were selected.
readSelection ==
    IF ~tracked THEN {NoName}
    ELSE IF backend = "memory" THEN {selected}
    ELSE {selected, NoName}

\* Selected: Load takes the selected name, Delete compares it with its own.
Selected(c) ==
    /\ call[c].step = "selected"
    /\ \E current \in readSelection :
          \/ /\ call[c].op = "load" /\ current = NoName
             /\ Return(c, "default")
          \/ /\ call[c].op = "load" /\ current # NoName
             /\ call' = [call EXCEPT ![c].step = "load", ![c].name = current]
          \/ /\ call[c].op = "delete" /\ current = call[c].name
             /\ call' = [call EXCEPT ![c].step = "list", ![c].active = TRUE]
          \/ /\ call[c].op = "delete" /\ current # call[c].name
             /\ call' = [call EXCEPT ![c].step = "delete", ![c].unread = (current # selected)]
    /\ UNCHANGED <<store, stored, selected, previous, holder, noted>>

\* The backend's answer to Load, and to the existence probe of Select.
BackendLoad(c) ==
    /\ call[c].step = "load"
    /\ \/ ~Loads(call[c].name) /\ Return(c, "notfound")
       \/ Loads(call[c].name) /\ call[c].op = "load" /\ Return(c, "ok")
       \/ Loads(call[c].name) /\ call[c].op = "select" /\ Goto(c, "set")
       \/ backend # "memory" /\ Return(c, "error")
    /\ UNCHANGED <<store, stored, selected, previous, holder, noted>>

BackendSave(c) ==
    /\ call[c].step = "save"
    /\ LET n == call[c].name
       IN  \/ (FileSave(n) \/ SingleSave(n) \/ MemorySave(n)) /\ Return(c, "ok")
           \/ /\ backend = "single" /\ n # Slot
              /\ UNCHANGED stored /\ Return(c, "invalid")
           \/ /\ backend # "memory"   \* no root directory, or a failing write
              /\ UNCHANGED stored /\ Return(c, "error")
    /\ UNCHANGED <<store, selected, previous, holder, noted>>

\* Delete refuses the active context while there are others.
BackendList(c) ==
    /\ call[c].step = "list"
    /\ \/ Cardinality(List) > 1 /\ Return(c, "active")
       \/ Cardinality(List) <= 1 /\ Goto(c, "delete")
       \/ backend # "memory" /\ Return(c, "error")
    /\ UNCHANGED <<store, stored, selected, previous, holder, noted>>

\* (A mutated BackendDelete: the selection of the last context is kept.)
BackendDeleteKeepsSelection(c) ==
    /\ call[c].step = "delete"
    /\ FileDelete(call[c].name) \/ SingleDelete(call[c].name) \/ MemoryDelete(call[c].name)
    /\ Return(c, "ok")
    /\ UNCHANGED <<store, selected, previous, holder, noted>>

\* The context is removed; if it was active its selection is cleared next.
BackendDelete(c) ==
    /\ call[c].step = "delete"
    /\ LET n == call[c].name
       IN  \/ /\ FileDelete(n) \/ SingleDelete(n) \/ MemoryDelete(n)
              /\ IF call[c].active THEN Goto(c, "set") ELSE Return(c, "ok")
              /\ misread' = (misread \/ (call[c].unread /\ n = selected))
           \/ /\ backend # "memory"
              /\ UNCHANGED <<stored, misread>> /\ Return(c, "error")
    /\ UNCHANGED <<store, selected, previous, holder, overlapped>>

-----------------------------------------------------------------------------
(* SetSelected.                                                            *)

Target(c) == IF call[c].op = "select" THEN call[c].name ELSE NoName

MemorySetSelected(c) ==
    /\ backend = "memory" /\ call[c].step = "set"
    /\ previous' = IF selected = NoName THEN previous ELSE selected
    /\ selected' = Target(c)
    /\ Return(c, "ok")
    /\ UNCHANGED <<store, stored, holder, noted>>

\* What SetSelected read decides whether there is a name to record.
Reads(c) ==
    \E read \in readSelection :
        call' = [call EXCEPT ![c].was = read, ![c].unread = (read # selected),
                             ![c].step = IF read = NoName THEN "replace" ELSE "record"]

\* (A mutated Lock: the mutex is not waited for.)
LockUnguarded(c) ==
    /\ backend # "memory" /\ call[c].step = "set"
    /\ holder' = c
    /\ Reads(c)
    /\ UNCHANGED <<store, stored, selected, previous, noted>>

\* The selector's mutex is taken and the current selection is read.
Lock(c) ==
    /\ backend # "memory" /\ call[c].step = "set" /\ holder = NoCaller
    /\ holder' = c
    /\ Reads(c)
    /\ UNCHANGED <<store, stored, selected, previous, noted>>

\* The name that is about to be replaced is written to previous-context.txt.
Record(c) ==
    /\ call[c].step = "record"
    /\ previous' = call[c].was
    /\ Goto(c, "replace")
    /\ UNCHANGED <<store, stored, selected, holder, noted>>

\* context.txt is replaced, or removed for the empty name.
Replace(c) ==
    /\ call[c].step = "replace"
    /\ selected' = Target(c)
    /\ holder' = NoCaller
    /\ Return(c, "ok")
    /\ UNCHANGED <<store, stored, previous, noted>>

\* (A mutated SetSelectedFails: the error path leaves without unlocking.)
SetSelectedFailsLocked(c) ==
    /\ call[c].step \in {"record", "replace"}
    /\ Return(c, "error")
    /\ overlapped' = (overlapped \/ call[c].op = "delete")
    /\ UNCHANGED <<store, stored, selected, previous, holder, misread>>

\* A write or the removal fails; the mutex is released by the deferred unlock.
SetSelectedFails(c) ==
    /\ call[c].step \in {"record", "replace"}
    /\ holder' = NoCaller
    /\ Return(c, "error")
    /\ overlapped' = (overlapped \/ call[c].op = "delete")
    /\ UNCHANGED <<store, stored, selected, previous, misread>>

\* The process is killed: its calls are gone, the files stay.
Crash ==
    /\ backend # "memory"
    /\ \E c \in Caller : call[c].step # "idle"
    /\ call' = [c \in Caller |-> Idle]
    /\ holder' = NoCaller
    /\ overlapped' = (overlapped \/ \E c \in Caller : Running(c, "delete"))
    /\ UNCHANGED <<store, stored, selected, previous, misread>>

Begin(c) == Load(c) \/ Save(c) \/ Delete(c) \/ Select(c) \/ Unselect(c)

Advance(c) ==
    \/ Selected(c) \/ BackendLoad(c) \/ BackendSave(c) \/ BackendList(c)
    \/ BackendDelete(c) \/ MemorySetSelected(c)
    \/ Lock(c) \/ Record(c) \/ Replace(c) \/ SetSelectedFails(c)

Next == Crash \/ \E c \in Caller : Begin(c) \/ Advance(c)

Spec == Init /\ [][Next]_vars

\* The steps of a call are a goroutine's own; the mutex is handed on in the end.
FairSpec == Spec /\ \A c \in Caller : SF_vars(Advance(c))

-----------------------------------------------------------------------------
(* Properties.                                                             *)

\* Delete refuses the active context while there are others and clears the
\* selection with the last one (the comment of Registry.Delete), so a context that
\* is selected exists, unless a Select and a Delete overlapped or a Delete of the
\* active context failed, was killed or is under way.  A Delete that could not
\* read the selection is not among these, and it breaks this.
DeleteSparesActive ==
    Dangling => \/ overlapped
                \/ \E c \in Caller : call[c].active /\ call[c].step \in {"set", "record", "replace"}

\* The selected context exists.  A selection of a deleted context is left behind
\* only by a Select and a Delete that overlapped, by a Delete of the active context
\* that failed, was killed half way or is not done yet, or by a Delete that took
\* the active context for inactive because it could not read the selection.
DanglingIsExplained == DeleteSparesActive \/ misread

\* The selector's two files keep the promise of ContextSelection: whatever a call
\* replaces it has recorded, by whichever of the callers, killed or failed at any
\* step, unless the call could not read what it replaces (FileSelector.SetSelected).
Promise == INSTANCE ContextSelection
           WITH unread <- \E c \in Caller : call[c].step = "replace" /\ call[c].unread
ImplementsContextSelection == Promise!Spec

\* Every call returns, and an error releases the selector's mutex.
CallsReturn == \A c \in Caller : call[c].step # "idle" ~> call[c].step = "idle"
=============================================================================
