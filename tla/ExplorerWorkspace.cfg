SPECIFICATION Spec
CONSTANTS
  w1 = w1
  w2 = w2
  Windows <- MCWindows
  Contents <- MCContents
  DefaultContent <- MCDefaultContent
  LayoutsUsed <- MCLayouts
  MaxEdits = 4
  MaxMixedEdits = 2
  MaxTabs = 3
  MaxEvents = 2
  MaxFaults = 2
INVARIANT TypeOK
INVARIANT PanesHaveOwnSessions
INVARIANT WorkspaceShown
INVARIANT IdleWindowsAgree
INVARIANT OneFaultSurvivable
PROPERTY ImplementsSharedWorkspace
SYMMETRY Symmetry
