------------------------- MODULE ExplorerWorkspace -------------------------
(***************************************************************************)
(* The document of an explorer window and the operations that edit it:     *)
(* workspace tabs, each with up to four panes, and the sessions the panes  *)
(* show (src/store/explorerStore.ts, src/config/explorerWorkspaceLayouts). *)
(* A document is a record                                                  *)
(*   sessions : instance id -> what that explorer shows                    *)
(*   session  : the copy the store keeps of the primary session            *)
(*   tabs     : the sequence of workspace tabs                             *)
(*   active   : the id of the active tab                                   *)
(* The random ids the code makes are numbers no earlier call used: an      *)
(* operation gets "fresh", the first of IdsPerEdit unused ones.  Titles,   *)
(* split ratios and the side rail, saved and loaded along, are left out.  *)
(***************************************************************************)
EXTENDS Naturals, Sequences, FiniteSets, SequencesExt

CONSTANTS Contents,        \* what a session or the rail may hold
          DefaultContent   \* what defaultExplorerSession holds

ASSUME DefaultAssumption == DefaultContent \in Contents

PRIMARY_EXPLORER_INSTANCE_ID == 1
PRIMARY_EXPLORER_TAB_ID == 1
IdsPerEdit == 5

Panes == 1..4
NoInstance == 0
Layouts == {"single", "split", "triple", "quad"}

VisiblePanes(layout) == CASE layout = "single" -> {1}
                          [] layout = "split"  -> {1, 2}
                          [] layout = "triple" -> {1, 2, 3}
                          [] layout = "quad"   -> Panes

OccupiedPanes(tab) == {p \in Panes : tab.panes[p] # NoInstance}
ShownPanes(tab) == VisiblePanes(tab.layout) \cap OccupiedPanes(tab)
TabIds(tabs) == {tabs[i].id : i \in DOMAIN tabs}

EmptyPaneSlots == [p \in Panes |-> NoInstance]

DefaultWorkspaceTabs ==
  <<[id |-> PRIMARY_EXPLORER_TAB_ID, layout |-> "single", focus |-> 1,
     panes |-> [EmptyPaneSlots EXCEPT ![1] = PRIMARY_EXPLORER_INSTANCE_ID]]>>

DefaultSessions == [i \in {PRIMARY_EXPLORER_INSTANCE_ID} |-> DefaultContent]

DefaultDocument == [sessions |-> DefaultSessions, session |-> DefaultContent,
                    tabs |-> DefaultWorkspaceTabs,
                    active |-> PRIMARY_EXPLORER_TAB_ID]

\* {...old, ...new}: the new sessions win.
Spread(old, new) ==
  [i \in DOMAIN old \cup DOMAIN new |-> IF i \in DOMAIN new THEN new[i] ELSE old[i]]

\* Array.filter by position.
TabsAt(tabs, positions) ==
  LET Take(kept, i) == IF i \in positions THEN Append(kept, tabs[i]) ELSE kept
  IN  FoldLeftDomain(Take, <<>>, tabs)

-----------------------------------------------------------------------------
(* Normalisation: every edit, every save and every load passes through it. *)

\* Mutant: a hidden pane keeps the focus.
NormalTabFocusKept(tab) ==
  [tab EXCEPT !.focus = IF @ \in OccupiedPanes(tab) THEN @
                        ELSE Min(OccupiedPanes(tab))]

\* The focus moves to the first pane the layout shows, else to the first occupied.
NormalTab(tab) ==
  [tab EXCEPT !.focus = IF @ \in ShownPanes(tab) THEN @
                        ELSE IF ShownPanes(tab) # {} THEN Min(ShownPanes(tab))
                        ELSE Min(OccupiedPanes(tab))]

\* Tabs without a pane go, then later tabs that repeat an id.
NormalTabs(tabs) ==
  LET occupied == {i \in DOMAIN tabs : OccupiedPanes(tabs[i]) # {}}
      kept == TabsAt(tabs, {i \in occupied :
                              \A j \in occupied : j < i => tabs[j].id # tabs[i].id})
  IN  IF kept = <<>> THEN DefaultWorkspaceTabs
      ELSE [i \in DOMAIN kept |-> NormalTab(kept[i])]

NormalWorkspace(doc) ==
  LET tabs == NormalTabs(doc.tabs)
  IN  [doc EXCEPT !.tabs = tabs,
                  !.active = IF @ \in TabIds(tabs) THEN @ ELSE tabs[1].id]

\* Mutant: only the primary session is read back.
NormalSessionsPrimaryOnly(doc) ==
  [i \in {PRIMARY_EXPLORER_INSTANCE_ID} |->
     IF i \in DOMAIN doc.sessions THEN doc.sessions[i] ELSE doc.session]

NormalSessions(doc) ==
  IF PRIMARY_EXPLORER_INSTANCE_ID \in DOMAIN doc.sessions THEN doc.sessions
  ELSE Spread(doc.sessions, [i \in {PRIMARY_EXPLORER_INSTANCE_ID} |-> doc.session])

\* What a save writes and what a load makes of it.
NormalDocument(doc) ==
  LET sessions == NormalSessions(doc)
  IN  [NormalWorkspace(doc) EXCEPT !.sessions = sessions,
                                   !.session = sessions[PRIMARY_EXPLORER_INSTANCE_ID]]

-----------------------------------------------------------------------------
(* The edits, as functions from a document to a document.                  *)

ActiveTab(doc) ==
  LET matches == {i \in DOMAIN doc.tabs : doc.tabs[i].id = doc.active}
  IN  doc.tabs[IF matches = {} THEN 1 ELSE Min(matches)]

TabById(doc, id) == doc.tabs[Min({i \in DOMAIN doc.tabs : doc.tabs[i].id = id})]

PreferredPane(tab) ==
  IF tab.focus \in ShownPanes(tab) THEN tab.focus
  ELSE IF ShownPanes(tab) # {} THEN Min(ShownPanes(tab))
  ELSE IF OccupiedPanes(tab) # {} THEN Min(OccupiedPanes(tab))
  ELSE 1

SessionOf(doc, instance) ==
  IF instance \in DOMAIN doc.sessions THEN doc.sessions[instance]
  ELSE DefaultContent

\* The session of the pane a new pane is cloned from.
SourceInstance(tab) ==
  LET instance == tab.panes[PreferredPane(tab)]
  IN  IF instance = NoInstance THEN PRIMARY_EXPLORER_INSTANCE_ID ELSE instance

ReferencedInstances(tabs) ==
  UNION {{tabs[i].panes[p] : p \in OccupiedPanes(tabs[i])} : i \in DOMAIN tabs}

\* Mutants: the primary session forgotten; hidden panes forgotten.
KeepReferencedOnly(tabs) == ReferencedInstances(tabs)
KeepVisibleOnly(tabs) ==
  {PRIMARY_EXPLORER_INSTANCE_ID} \cup
  UNION {{tabs[i].panes[p] : p \in ShownPanes(tabs[i])} : i \in DOMAIN tabs}

\* What closeWorkspaceTab keeps of the sessions.
SessionsToKeep(tabs) ==
  {PRIMARY_EXPLORER_INSTANCE_ID} \cup ReferencedInstances(tabs)

\* updateSession, updateSessionForInstance, resetSessionForInstance: the
\* session is made when there is none of that id.
WriteSession(doc, instance, content) ==
  [doc EXCEPT !.sessions = Spread(@, [i \in {instance} |-> content]),
              !.session = IF instance = PRIMARY_EXPLORER_INSTANCE_ID
                          THEN content ELSE @]

CopySession(doc, source, target) ==
  WriteSession(doc, target, SessionOf(doc, source))

CreateWorkspaceTab(doc, source, activate, fresh) ==
  LET instance == fresh + 1
      tab == [id |-> fresh, layout |-> "single", focus |-> 1,
              panes |-> [EmptyPaneSlots EXCEPT ![1] = instance]]
      content == SessionOf(doc, SourceInstance(TabById(doc, source)))
  IN  NormalWorkspace([doc EXCEPT !.sessions = Spread(@, [i \in {instance} |-> content]),
                                  !.tabs = Append(@, tab),
                                  !.active = IF activate THEN fresh ELSE @])

DuplicateWorkspaceTab(doc, source, fresh) ==
  LET tab == TabById(doc, source)
      clones == {fresh + p : p \in OccupiedPanes(tab)}
      copy == [tab EXCEPT !.id = fresh,
                          !.panes = [p \in Panes |->
                             IF @[p] = NoInstance THEN NoInstance ELSE fresh + p]]
  IN  NormalWorkspace(
        [doc EXCEPT !.sessions = Spread(@, [c \in clones |->
                                         SessionOf(doc, tab.panes[c - fresh])]),
                    !.tabs = Append(@, copy),
                    !.active = fresh])

\* Closing a tab also drops every session no remaining pane shows, hidden
\* panes included; the primary session stays.
CloseWorkspaceTab(doc, id) ==
  LET index == Min({i \in DOMAIN doc.tabs : doc.tabs[i].id = id})
      rest == TabsAt(doc.tabs, {i \in DOMAIN doc.tabs : doc.tabs[i].id # id})
      next == NormalWorkspace(
                [doc EXCEPT !.tabs = rest,
                            !.active = IF @ = id
                                       THEN rest[Min({index, Len(rest)})].id
                                       ELSE @])
  IN  NormalWorkspace(
        [next EXCEPT !.sessions = Restrict(@, DOMAIN @ \cap SessionsToKeep(next.tabs)),
                     !.session = doc.sessions[PRIMARY_EXPLORER_INSTANCE_ID]])

FocusWorkspaceTab(doc, id) == NormalWorkspace([doc EXCEPT !.active = id])

ReplaceTab(doc, tab) ==
  NormalWorkspace([doc EXCEPT !.tabs = [i \in DOMAIN @ |->
                                IF @[i].id = tab.id THEN tab ELSE @[i]]])

\* ensureWorkspaceTabVisiblePanes: panes the layout newly shows get a clone of
\* the preferred pane's session; panes it hides keep theirs.
SetWorkspaceLayoutMode(doc, layout, fresh) ==
  LET tab == [ActiveTab(doc) EXCEPT !.layout = layout]
      missing == VisiblePanes(layout) \ OccupiedPanes(tab)
      content == SessionOf(doc, SourceInstance(tab))
      filled == [tab EXCEPT !.panes = [p \in Panes |->
                               IF p \in missing THEN fresh + p ELSE @[p]]]
      clones == {fresh + p : p \in missing}
  IN  ReplaceTab([doc EXCEPT !.sessions = Spread(@, [c \in clones |-> content])],
                 NormalTab(filled))

SetFocusedPane(doc, pane) ==
  LET tab == ActiveTab(doc)
  IN  IF pane \in ShownPanes(tab) THEN ReplaceTab(doc, [tab EXCEPT !.focus = pane])
      ELSE doc

=============================================================================
