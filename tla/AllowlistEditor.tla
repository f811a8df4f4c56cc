-------------------------- MODULE AllowlistEditor ---------------------------
(***************************************************************************)
(* The extension's allowlist: chrome.storage.local (lib/storage.ts) and the*)
(* editor that each window's side panel may show (AllowlistEditor.tsx).  An*)
(* editor loads the list once and from then on writes back its own copy.   *)
(* A list is the set of its origins: of the pre-sign box, which no code    *)
(* reads, only that toggling it writes the list.                           *)
(***************************************************************************)
EXTENDS Naturals, Sequences

CONSTANTS
  Windows,   \* browser windows, each with a side panel
  Origins,
  MaxEdits   \* bound: edits

ASSUME EditorAssumption == MaxEdits \in Nat

VARIABLES
  allowlist,  \* the list in storage
  editor,     \* window -> "none", "loading" or "ready"
  list,       \* window -> the list its editor shows
  writes,     \* window -> lists on their way to storage, in order
  edits,      \* history: edits so far
  lost,       \* history: window -> the last write to end of the editor it shows failed
  overlapped  \* history: an edit was made before the list had loaded or beside
              \* another editor, or an editor opened while a write was under way

editorVars == <<allowlist, editor, list, writes, edits, lost, overlapped>>

Writing == \E w \in Windows : writes[w] # <<>>
Alone(w) == \A v \in Windows \ {w} : editor[v] = "none" /\ writes[v] = <<>>

\* The editor mounts and asks for the list.
Mount(w) ==
  /\ editor[w] = "none"
  /\ editor' = [editor EXCEPT ![w] = "loading"]
  /\ list' = [list EXCEPT ![w] = {}]
  /\ overlapped' = (overlapped \/ Writing)
  /\ UNCHANGED <<allowlist, writes, edits, lost>>

\* The answer replaces what is shown, edits made meanwhile included.  When the
\* storage fails instead, no answer comes and the editor shows what it has.
ListLoaded(w) ==
  /\ editor[w] = "loading"
  /\ editor' = [editor EXCEPT ![w] = "ready"]
  /\ list' = [list EXCEPT ![w] = allowlist]
  /\ lost' = [lost EXCEPT ![w] = FALSE]
  /\ UNCHANGED <<allowlist, writes, edits, overlapped>>

\* An answer for an editor that has been closed changes nothing.
Unmount(w) ==
  /\ editor' = [editor EXCEPT ![w] = "none"]
  /\ lost' = [lost EXCEPT ![w] = FALSE]

\* add, remove or togglePreSign.
Edited(l, o) == IF o \in l THEN {l \ {o}, l} ELSE {l \cup {o}}

\* Edit keeping a removal to the editor.
EditAddingOnly(w, o) ==
  /\ editor[w] # "none" /\ edits < MaxEdits
  /\ edits' = edits + 1
  /\ \E next \in Edited(list[w], o) :
       /\ list' = [list EXCEPT ![w] = next]
       /\ writes' = IF o \notin next THEN writes
                    ELSE [writes EXCEPT ![w] = Append(@, next)]
  /\ overlapped' = (overlapped \/ editor[w] = "loading" \/ ~Alone(w))
  /\ UNCHANGED <<allowlist, editor, lost>>

\* An edit shows at once, before its write has ended, and is written as a whole
\* list.
Edit(w, o) ==
  /\ editor[w] # "none" /\ edits < MaxEdits
  /\ edits' = edits + 1
  /\ \E next \in Edited(list[w], o) :
       /\ list' = [list EXCEPT ![w] = next]
       /\ writes' = [writes EXCEPT ![w] = Append(@, next)]
  /\ overlapped' = (overlapped \/ editor[w] = "loading" \/ ~Alone(w))
  /\ UNCHANGED <<allowlist, editor, lost>>

\* A write reaches storage, also when the panel has been closed since.
Written(w) ==
  /\ writes[w] # <<>>
  /\ allowlist' = Head(writes[w])
  /\ writes' = [writes EXCEPT ![w] = Tail(@)]
  /\ lost' = [lost EXCEPT ![w] = FALSE]
  /\ UNCHANGED <<editor, list, edits, overlapped>>

\* A write fails, or there is no storage to write to: nothing catches it, and
\* the editor goes on showing what it has not stored.
WriteLost(w) ==
  /\ writes[w] # <<>>
  /\ writes' = [writes EXCEPT ![w] = Tail(@)]
  /\ lost' = [lost EXCEPT ![w] = editor[w] # "none"]
  /\ UNCHANGED <<allowlist, editor, list, edits, overlapped>>

EditorInit ==
  /\ allowlist \in SUBSET Origins
  /\ editor = [w \in Windows |-> "none"]
  /\ list = [w \in Windows |-> {}]
  /\ writes = [w \in Windows |-> <<>>]
  /\ edits = 0 /\ lost = [w \in Windows |-> FALSE] /\ overlapped = FALSE

\* isAllowed
Allowed(o) == o \in allowlist
=============================================================================
