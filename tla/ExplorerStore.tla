--------------------------- MODULE ExplorerStore ---------------------------
(***************************************************************************)
(* The explorer windows of one profile and the storage they share          *)
(* (src/store/explorerStore.ts).  Each window holds a document, edits it,   *)
(* and saves it when a debounce timer fires or the page is hidden; a save   *)
(* first copies the old value to a backup key.  A storage event makes the   *)
(* other windows replace their document by what the storage now holds.      *)
(***************************************************************************)
EXTENDS ExplorerWorkspace

CONSTANTS Windows,       \* the windows that may be open
          LayoutsUsed,   \* the layouts the user switches to
          MaxEdits,      \* bound: edits over all windows, one fewer after two saves
          MaxMixedEdits, \* bound: edits with two windows open or after a fault
          MaxTabs,       \* bound: tabs in a document
          MaxEvents,     \* bound: undelivered storage events of a window
          MaxFaults      \* bound: corruptions of a key and torn saves

ASSUME StoreAssumption ==
  /\ LayoutsUsed \subseteq Layouts
  /\ {MaxEdits, MaxMixedEdits, MaxTabs, MaxEvents, MaxFaults} \subseteq Nat
  /\ MaxMixedEdits <= MaxEdits

VARIABLES open,      \* the windows that are open
          doc,       \* window -> its document
          timer,     \* window -> its debounce timer is running
          events,    \* window -> storage events not yet delivered to it
          primary,   \* the value under EXPLORER_STATE_STORAGE_KEY
          backup,    \* the value under EXPLORER_STATE_BACKUP_KEY
          edits,     \* history: edits so far (also the source of fresh ids)
          unsaved,   \* history: window -> its last save did not reach the primary key
          saves,     \* history: the last two different documents saved
          faults     \* history: corruptions and torn saves so far

windowVars == <<open, doc, timer, events, unsaved>>
storageVars == <<primary, backup, saves, faults>>
vars == <<windowVars, storageVars, edits>>

(* Values of a storage key. *)
Absent == [kind |-> "absent"]
Undecodable == [kind |-> "undecodable"]
Text(d) == [kind |-> "text", of |-> d]
Decodes(value) == value.kind = "text"

\* loadExplorerPersistedState: the primary key, the backup when the primary
\* does not decode, defaults when neither helps.
Loaded == IF Decodes(primary) THEN NormalDocument(primary.of)
          ELSE IF primary # Absent /\ Decodes(backup) THEN NormalDocument(backup.of)
          ELSE DefaultDocument

\* The instances some document still names, in a window or in the storage.
KnownInstances ==
  UNION {ReferencedInstances(d.tabs) :
           d \in {doc[w] : w \in open}
                 \cup {value.of : value \in {v \in {primary, backup} : Decodes(v)}}}

\* The longest sequences of edits are explored with one window open and no fault.
WithinBound(n, windows, f) ==
  n <= IF Cardinality(windows) > 1 \/ f > 0 THEN MaxMixedEdits ELSE MaxEdits

-----------------------------------------------------------------------------
Init == /\ open = {}
        /\ doc = [w \in Windows |-> DefaultDocument]
        /\ timer = [w \in Windows |-> FALSE]
        /\ events = [w \in Windows |-> 0]
        /\ unsaved = [w \in Windows |-> FALSE]
        /\ primary = Absent
        /\ backup = Absent
        /\ edits = 0
        /\ saves = <<>>
        /\ faults = 0

\* A window starts: the module is evaluated and the store hydrated.
OpenWindow(w) ==
  /\ w \notin open
  /\ open' = open \cup {w}
  /\ WithinBound(edits, open', faults)
  /\ doc' = [doc EXCEPT ![w] = Loaded]
  /\ UNCHANGED <<timer, events, unsaved, storageVars, edits>>

\* A window's process ends.  When it is closed in good order a Hide comes
\* first (pagehide); a crash loses what the timer had not saved.
EndWindow(w) ==
  /\ w \in open
  /\ open' = open \ {w}
  /\ doc' = [doc EXCEPT ![w] = DefaultDocument]
  /\ timer' = [timer EXCEPT ![w] = FALSE]
  /\ events' = [events EXCEPT ![w] = 0]
  /\ unsaved' = [unsaved EXCEPT ![w] = FALSE]
  /\ UNCHANGED <<storageVars, edits>>

\* Mutant: an edit while the timer runs only stops it.
RescheduledOnce(w) == [timer EXCEPT ![w] = ~@]

\* schedulePersistLatest stops the timer of the edit before and starts another.
Rescheduled(w) == [timer EXCEPT ![w] = TRUE]

\* set(...) followed by schedulePersistLatest.
Edit(w, d) ==
  /\ w \in open
  /\ WithinBound(edits + 1, open, faults)
  /\ Len(saves) > 1 => edits < MaxEdits - 1
  /\ Len(d.tabs) <= MaxTabs
  /\ doc' = [doc EXCEPT ![w] = d]
  /\ timer' = Rescheduled(w)
  /\ edits' = edits + 1
  /\ UNCHANGED <<open, events, unsaved, storageVars>>

Fresh == IdsPerEdit * (edits + 1)

\* An explorer that has been on screen writes its session, also after its tab
\* is gone: the effects of an unmounting FileExplorer still run.
UpdateSessionForInstance(w) ==
  \E id \in KnownInstances \cup {PRIMARY_EXPLORER_INSTANCE_ID}, c \in Contents :
    Edit(w, WriteSession(doc[w], id, c))

CopySessionOf(w) ==
  \E source, target \in ReferencedInstances(doc[w].tabs) : Edit(w, CopySession(doc[w], source, target))

ResetSession(w) == Edit(w, DefaultDocument)

CreateTab(w) ==
  \E source \in TabIds(doc[w].tabs), activate \in BOOLEAN :
    Edit(w, CreateWorkspaceTab(doc[w], source, activate, Fresh))

DuplicateTab(w) ==
  \E source \in TabIds(doc[w].tabs) :
    Edit(w, DuplicateWorkspaceTab(doc[w], source, Fresh))

CloseTab(w) ==
  /\ Len(doc[w].tabs) > 1
  /\ \E id \in TabIds(doc[w].tabs) : Edit(w, CloseWorkspaceTab(doc[w], id))

FocusTab(w) ==
  \E id \in TabIds(doc[w].tabs) : Edit(w, FocusWorkspaceTab(doc[w], id))

SetLayout(w) ==
  \E layout \in LayoutsUsed :
    Edit(w, SetWorkspaceLayoutMode(doc[w], layout, Fresh))

FocusPane(w) == \E p \in Panes : Edit(w, SetFocusedPane(doc[w], p))

-----------------------------------------------------------------------------
(* Saving. *)

B2N(b) == IF b THEN 1 ELSE 0

\* The other windows hear of a key whose value has changed.
Notify(w) ==
  LET changes == B2N(primary' # primary) + B2N(backup' # backup)
  IN  /\ events' = [v \in Windows |-> IF v \in open \ {w} THEN events[v] + changes
                                      ELSE events[v]]
      /\ \A v \in open : events'[v] <= MaxEvents

\* Mutant: only the first save is copied.
CopiesOnce(text) == backup = Absent /\ primary # Absent /\ primary # text

\* The old value goes to the backup key when it differs from the new one.
Copies(text) == primary # Absent /\ primary # text

Outcomes == {"saved", "backupRefused", "primaryRefused"}

\* persistLatest of document d: persistExplorerState makes the backup copy
\* and writes the new value; either write may be refused (quota), which ends the save.
Persist(w, d) ==
  LET text == Text(NormalDocument(d))
      copies == Copies(text)
  IN \E outcome \in Outcomes :
      /\ outcome = "backupRefused" => copies
      /\ backup' = IF copies /\ outcome # "backupRefused" THEN primary ELSE backup
      /\ primary' = IF outcome = "saved" THEN text ELSE primary
      /\ Notify(w)
      /\ timer' = [timer EXCEPT ![w] = FALSE]
      /\ unsaved' = [unsaved EXCEPT ![w] = primary' # text]
      /\ saves' = IF outcome # "saved" \/ (saves # <<>> /\ Last(saves) = text.of)
                  THEN saves
                  ELSE (IF saves = <<>> THEN <<>> ELSE <<Last(saves)>>) \o <<text.of>>
      /\ faults' = faults + B2N(outcome = "primaryRefused" /\ copies)
      /\ faults' <= MaxFaults
      /\ WithinBound(edits, open, faults')
      /\ UNCHANGED <<open, edits>>

DebounceFires(w) ==
  /\ timer[w]
  /\ Persist(w, doc[w])
  /\ UNCHANGED doc

\* pagehide, or visibilitychange to hidden: saved whether or not it was edited.
Hide(w) ==
  /\ w \in open
  /\ Persist(w, doc[w])
  /\ UNCHANGED doc

\* restoreRailBackup: the whole document of the backup, saved at once.
RestoreBackup(w) ==
  /\ w \in open
  /\ Decodes(backup)
  /\ doc' = [doc EXCEPT ![w] = NormalDocument(backup.of)]
  /\ Persist(w, doc'[w])

\* The handler of the storage event reads the storage as it is now.  The
\* debounce timer goes on.
StorageEvent(w) ==
  /\ events[w] > 0
  /\ events' = [events EXCEPT ![w] = @ - 1]
  /\ doc' = [doc EXCEPT ![w] = Loaded]
  /\ unsaved' = [unsaved EXCEPT ![w] = FALSE]
  /\ UNCHANGED <<open, timer, storageVars, edits>>

\* A key is found damaged on the next start: what the recovery code is for.
Corrupt ==
  /\ open = {}
  /\ faults < MaxFaults
  /\ \/ /\ Decodes(primary)
        /\ primary' = Undecodable
        /\ UNCHANGED backup
     \/ /\ Decodes(backup)
        /\ backup' = Undecodable
        /\ UNCHANGED primary
  /\ faults' = faults + 1
  /\ WithinBound(edits, open, faults')
  /\ UNCHANGED <<windowVars, saves, edits>>

Next == \/ Corrupt
        \/ \E w \in Windows :
             \/ OpenWindow(w) \/ EndWindow(w)
             \/ UpdateSessionForInstance(w) \/ CopySessionOf(w) \/ ResetSession(w)
             \/ CreateTab(w) \/ DuplicateTab(w) \/ CloseTab(w)
             \/ FocusTab(w) \/ SetLayout(w) \/ FocusPane(w)
             \/ DebounceFires(w) \/ Hide(w) \/ RestoreBackup(w)
             \/ StorageEvent(w)

Spec == Init /\ [][Next]_vars

-----------------------------------------------------------------------------
(* Properties. *)

IsTab(tab) == /\ tab.layout \in Layouts
              /\ tab.focus \in Panes
              /\ tab.panes \in [Panes -> Nat]

IsDocument(d) == /\ PRIMARY_EXPLORER_INSTANCE_ID \in DOMAIN d.sessions
                 /\ Range(d.sessions) \subseteq Contents
                 /\ d.session \in Contents
                 /\ d.tabs # <<>> /\ \A i \in DOMAIN d.tabs : IsTab(d.tabs[i])

\* Every variable has its type; a window's document has at least one tab and
\* always a primary session, the one every missing session falls back to.
TypeOK ==
  /\ open \subseteq Windows
  /\ \A w \in Windows : IsDocument(doc[w])
  /\ timer \in [Windows -> BOOLEAN]
  /\ events \in [Windows -> 0..MaxEvents]
  /\ unsaved \in [Windows -> BOOLEAN]
  /\ primary.kind \in {"absent", "undecodable", "text"}
  /\ backup.kind \in {"absent", "undecodable", "text"}
  /\ edits \in 0..MaxEdits
  /\ Len(saves) \in 0..2
  /\ faults \in 0..MaxFaults

\* Every document a window shows or a restart would show.
Documents == {doc[w] : w \in open} \cup {Loaded}

PaneSlots(d) ==
  UNION {{<<i, p>> : p \in OccupiedPanes(d.tabs[i])} : i \in DOMAIN d.tabs}

PaneInstances(d) == {d.tabs[slot[1]].panes[slot[2]] : slot \in PaneSlots(d)}

\* No two panes share a session, whatever sequence of tab and layout edits,
\* restores and reloads made them, and each pane's session is there: one lost
\* by the clean-up of a closed tab would silently come back as the default
\* (getSession).  The store's copy of the primary session is that session.
PanesHaveOwnSessions ==
  \A d \in Documents :
    /\ d.session = d.sessions[PRIMARY_EXPLORER_INSTANCE_ID]
    /\ PaneInstances(d) \subseteq DOMAIN d.sessions
    /\ Cardinality(PaneInstances(d)) = Cardinality(PaneSlots(d))

\* Every pane a tab's layout shows is occupied, the focus is on one of them,
\* tab ids differ and the active tab is one of the tabs: no legal sequence of
\* edits leaves an empty pane or a focus on a hidden one.
WorkspaceShown ==
  \A d \in Documents :
    /\ d.active \in TabIds(d.tabs)
    /\ Cardinality(TabIds(d.tabs)) = Len(d.tabs)
    /\ \A i \in DOMAIN d.tabs :
         /\ ShownPanes(d.tabs[i]) = VisiblePanes(d.tabs[i].layout)
         /\ d.tabs[i].focus \in ShownPanes(d.tabs[i])

\* A window with no timer running, no storage event to come and no refused
\* save shows exactly what a restart would load: no edit waits for a save that
\* nobody will make, and no change of another window is missed.
IdleWindowsAgree ==
  \A w \in open :
    ~timer[w] /\ events[w] = 0 /\ ~unsaved[w] => doc[w] = Loaded

\* The document a load takes, before it is normalised.
LoadSource == IF Decodes(primary) THEN primary.of
              ELSE IF Decodes(backup) THEN backup.of ELSE DefaultDocument

\* Without faults a restart finds the last save; after one fault (a damaged
\* key, or a save refused between its two writes) it still finds one of the
\* last two documents saved, never a reset.
OneFaultSurvivable ==
  /\ faults = 0 /\ saves # <<>> => LoadSource = Last(saves)
  /\ faults <= 1 /\ Len(saves) = 2 => LoadSource \in ToSet(saves)

-----------------------------------------------------------------------------
(* The abstract specification: one stored workspace for all windows.       *)

Shown == [w \in open |-> doc[w]]

Settled == {w \in open : ~timer[w] /\ events[w] = 0 /\ ~unsaved[w]}

\* What the keys hold as it was written; a load normalises it.
Stored == IF Decodes(primary) THEN primary.of
          ELSE IF primary # Absent /\ Decodes(backup) THEN backup.of
          ELSE DefaultDocument

Kept == IF Decodes(backup) THEN backup.of ELSE DefaultDocument

Profile == INSTANCE SharedWorkspace
             WITH Nothing <- DefaultDocument, shown <- Shown, settled <- Settled,
                  stored <- Stored, kept <- Kept

\* To its windows the two keys are one stored workspace: a window starts with it, a
\* save stores exactly what the window shows (normalising it on the way out and in
\* changes nothing) and unsettles the others, a refused save or a damaged key leaves
\* what was stored, what was behind it or nothing, and never a mixture.
ImplementsSharedWorkspace == Profile!Spec

=============================================================================
