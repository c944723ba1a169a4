------------------------- MODULE ExplorerStoreProofs -------------------------
(* Theorems about ExplorerStore, for any windows, contents and bounds.        *)
EXTENDS ExplorerStore, InductionOnData

\* With at most one fault so far, what the two keys hold of the last saves:
\* the primary key the last one, unless it is the damaged one; then the backup
\* has the save before.
Recoverable ==
  /\ faults \in Nat
  /\ \/ saves = <<>> /\ primary = Absent /\ backup = Absent
     \/ \E a : /\ saves = <<a>>
               /\ faults <= 1 => \/ primary = Text(a)
                                 \/ primary = Undecodable /\ faults = 1
     \/ \E a, b : /\ saves = <<a, b>>
                  /\ faults <= 1 =>
                       \/ primary = Text(b) /\ (faults = 0 => backup = Text(a))
                       \/ primary = Undecodable /\ faults = 1 /\ backup = Text(a)

LEMMA Values ==
  /\ Absent # Undecodable
  /\ ~Decodes(Absent) /\ ~Decodes(Undecodable)
  /\ \A a : Text(a) # Absent /\ Text(a) # Undecodable /\ Decodes(Text(a)) /\ Text(a).of = a
  /\ \A a, b : Text(a) = Text(b) => a = b
<1>1. \A a : Text(a).kind = "text" /\ Text(a).of = a
  BY DEF Text
<1>2. Absent.kind = "absent" /\ Undecodable.kind = "undecodable"
  BY DEF Absent, Undecodable
<1> QED BY <1>1, <1>2 DEF Decodes

\* The history keeps the last two different documents.
LEMMA LastOfShort ==
  /\ \A a : Last(<<a>>) = a
  /\ \A a, b : Last(<<a, b>>) = b
  /\ \A c : <<>> \o <<c>> = <<c>>
  /\ \A b, c : <<b>> \o <<c>> = <<b, c>>
  /\ \A a, b : <<a>> # <<>> /\ <<a, b>> # <<>>
<1>1. ASSUME NEW a PROVE Last(<<a>>) = a /\ <<a>> # <<>>
  BY DEF Last
<1>2. ASSUME NEW a, NEW b PROVE Last(<<a, b>>) = b /\ <<a, b>> # <<>>
  BY DEF Last
<1>3. ASSUME NEW c PROVE <<>> \o <<c>> = <<c>>
  <2>1. <<>> \in Seq({c}) /\ <<c>> \in Seq({c})
    OBVIOUS
  <2> QED BY <2>1
<1>4. ASSUME NEW b, NEW c PROVE <<b>> \o <<c>> = <<b, c>>
  <2>1. <<b>> \in Seq({b, c}) /\ <<c>> \in Seq({b, c}) /\ <<b, c>> \in Seq({b, c})
    OBVIOUS
  <2>2. /\ <<b>> \o <<c>> \in Seq({b, c})
        /\ Len(<<b>> \o <<c>>) = 2
        /\ (<<b>> \o <<c>>)[1] = b
        /\ (<<b>> \o <<c>>)[2] = c
    BY <2>1
  <2>3. \A s \in Seq({b, c}) : Len(s) = 2 /\ s[1] = b /\ s[2] = c => s = <<b, c>>
    OBVIOUS
  <2> QED BY <2>2, <2>3
<1> QED BY <1>1, <1>2, <1>3, <1>4

\* A save of any document in any window keeps the invariant.
LEMMA PersistKeepsRecoverable ==
  ASSUME NEW w, NEW d, Recoverable, Persist(w, d)
  PROVE  Recoverable'
<1> DEFINE c == NormalDocument(d)
<1> HIDE DEF c
<1>1. PICK outcome \in Outcomes :
         /\ backup' = IF Copies(Text(c)) /\ outcome # "backupRefused" THEN primary ELSE backup
         /\ primary' = IF outcome = "saved" THEN Text(c) ELSE primary
         /\ saves' = IF outcome # "saved" \/ (saves # <<>> /\ Last(saves) = c)
                     THEN saves
                     ELSE (IF saves = <<>> THEN <<>> ELSE <<Last(saves)>>) \o <<c>>
         /\ faults' = faults + B2N(outcome = "primaryRefused" /\ Copies(Text(c)))
  BY Values DEF Persist, c
<1>2. faults' \in Nat /\ faults <= faults'
  BY <1>1 DEF Recoverable, B2N
<1>3. CASE outcome = "saved"
  <2>1. /\ primary' = Text(c) /\ faults' = faults
        /\ backup' = IF primary # Absent /\ primary # Text(c) THEN primary ELSE backup
    BY <1>1, <1>3 DEF B2N, Copies, Recoverable
  <2>2. CASE saves = <<>>
    BY <2>1, <2>2, <1>1, <1>2, <1>3, LastOfShort DEF Recoverable
  <2>3. ASSUME NEW a, saves = <<a>> PROVE Recoverable'
    <3>1. faults <= 1 => primary = Text(a) \/ (primary = Undecodable /\ faults = 1)
      BY <2>3 DEF Recoverable
    <3>2. CASE a = c
      <4>1. saves' = <<c>>
        BY <2>3, <3>2, <1>1, <1>3, LastOfShort
      <4> QED BY <4>1, <2>1, <1>2 DEF Recoverable
    <3>3. CASE a # c
      <4>1. saves' = <<a, c>>
        BY <2>3, <3>3, <1>1, <1>3, LastOfShort
      <4>2. faults = 0 => backup' = Text(a)
        BY <2>1, <3>1, <3>3, Values
      <4> QED BY <4>1, <4>2, <2>1, <1>2 DEF Recoverable
    <3> QED BY <3>2, <3>3
  <2>4. ASSUME NEW a, NEW b, saves = <<a, b>> PROVE Recoverable'
    <3>1. faults <= 1 => \/ primary = Text(b) /\ (faults = 0 => backup = Text(a))
                         \/ primary = Undecodable /\ faults = 1 /\ backup = Text(a)
      BY <2>4 DEF Recoverable
    <3>2. CASE b = c
      <4>1. saves' = <<a, c>>
        BY <2>4, <3>2, <1>1, <1>3, LastOfShort
      <4>2. faults = 0 => backup' = Text(a)
        BY <2>1, <3>1, <3>2, Values
      <4> QED BY <4>1, <4>2, <2>1, <1>2 DEF Recoverable
    <3>3. CASE b # c
      <4>1. saves' = <<b, c>>
        BY <2>4, <3>3, <1>1, <1>3, LastOfShort
      <4>2. faults = 0 => backup' = Text(b)
        BY <2>1, <3>1, <3>3, Values
      <4> QED BY <4>1, <4>2, <2>1, <1>2 DEF Recoverable
    <3> QED BY <3>2, <3>3
  <2> QED BY <2>2, <2>3, <2>4 DEF Recoverable
<1>4. CASE outcome = "backupRefused"
  BY <1>1, <1>2, <1>4 DEF Recoverable, B2N
<1>5. CASE outcome = "primaryRefused"
  <2>1. primary' = primary /\ saves' = saves
    BY <1>1, <1>5
  <2>2. CASE Copies(Text(c))
    <3>1. faults' = faults + 1 /\ primary # Absent
      BY <2>2, <1>1, <1>5 DEF B2N, Copies
    <3>2. ASSUME NEW a, saves = <<a>> PROVE Recoverable'
      <4>1. faults' <= 1 => primary' = Text(a)
        BY <3>1, <3>2, <2>1, LastOfShort DEF Recoverable
      <4> QED BY <4>1, <3>2, <2>1, <1>2 DEF Recoverable
    <3>3. ASSUME NEW a, NEW b, saves = <<a, b>> PROVE Recoverable'
      <4>1. faults' <= 1 => primary' = Text(b) /\ faults' # 0
        BY <3>1, <3>3, <2>1, LastOfShort DEF Recoverable
      <4> QED BY <4>1, <3>3, <2>1, <1>2 DEF Recoverable
    <3> QED BY <3>1, <3>2, <3>3 DEF Recoverable
  <2>3. CASE ~Copies(Text(c))
    BY <2>1, <2>3, <1>1, <1>5 DEF Recoverable, B2N
  <2> QED BY <2>2, <2>3
<1> QED BY <1>3, <1>4, <1>5 DEF Outcomes

\* A damaged value is a fault more; before the first fault only one key is hit.
LEMMA CorruptKeepsRecoverable == Recoverable /\ Corrupt => Recoverable'
<1> SUFFICES ASSUME Recoverable, Corrupt PROVE Recoverable'
  OBVIOUS
<1>1. /\ faults' = faults + 1 /\ saves' = saves
      /\ \/ primary' = Undecodable /\ backup' = backup
         \/ backup' = Undecodable /\ primary' = primary
      /\ Decodes(primary) \/ Decodes(backup)
  BY DEF Corrupt
<1>2. faults \in Nat /\ faults' \in Nat
  BY <1>1 DEF Recoverable
<1>3. ASSUME NEW a, saves = <<a>> PROVE Recoverable'
  <2>1. faults' <= 1 => primary' = Text(a) \/ (primary' = Undecodable /\ faults' = 1)
    BY <1>1, <1>2, <1>3, Values, LastOfShort DEF Recoverable
  <2> QED BY <2>1, <1>1, <1>2, <1>3 DEF Recoverable
<1>4. ASSUME NEW a, NEW b, saves = <<a, b>> PROVE Recoverable'
  <2>1. faults' <= 1 => \/ primary' = Text(b) /\ faults' # 0
                        \/ primary' = Undecodable /\ faults' = 1 /\ backup' = Text(a)
    <3>1. faults' <= 1 => primary = Text(b) /\ backup = Text(a) /\ faults = 0
      BY <1>1, <1>2, <1>4, LastOfShort DEF Recoverable
    <3> QED BY <3>1, <1>1, <1>2
  <2> QED BY <2>1, <1>1, <1>2, <1>4 DEF Recoverable
<1>5. saves # <<>>
  BY <1>1, Values DEF Recoverable
<1> QED BY <1>3, <1>4, <1>5 DEF Recoverable

LEMMA EditKeepsStorage ==
  ASSUME NEW w, NEW d, Edit(w, d) PROVE UNCHANGED storageVars
BY DEF Edit

LEMMA RecoverableInductive == Recoverable /\ [Next]_vars => Recoverable'
<1> SUFFICES ASSUME Recoverable, [Next]_vars PROVE Recoverable'
  OBVIOUS
<1>1. ASSUME UNCHANGED storageVars PROVE Recoverable'
  BY <1>1 DEF storageVars, Recoverable
<1>2. CASE Corrupt
  BY <1>2, CorruptKeepsRecoverable
<1>3. ASSUME NEW w \in Windows, OpenWindow(w) \/ EndWindow(w) \/ StorageEvent(w)
      PROVE  Recoverable'
  BY <1>1, <1>3 DEF OpenWindow, EndWindow, StorageEvent
<1>4. ASSUME NEW w \in Windows, DebounceFires(w) \/ Hide(w) \/ RestoreBackup(w)
      PROVE  Recoverable'
  <2>1. PICK d : Persist(w, d)
    BY <1>4 DEF DebounceFires, Hide, RestoreBackup
  <2> QED BY <2>1, PersistKeepsRecoverable
<1>5. ASSUME NEW w \in Windows,
             \/ UpdateSessionForInstance(w) \/ CopySessionOf(w) \/ ResetSession(w)
             \/ CreateTab(w) \/ DuplicateTab(w) \/ CloseTab(w)
             \/ FocusTab(w) \/ SetLayout(w) \/ FocusPane(w)
      PROVE  Recoverable'
  <2>1. PICK d : Edit(w, d)
    BY <1>5 DEF UpdateSessionForInstance, CopySessionOf, ResetSession, CreateTab,
                DuplicateTab, CloseTab, FocusTab, SetLayout, FocusPane
  <2> QED BY <2>1, <1>1, EditKeepsStorage
<1>6. CASE UNCHANGED vars
  BY <1>1, <1>6 DEF vars
<1> QED BY <1>2, <1>3, <1>4, <1>5, <1>6 DEF Next

LEMMA RecoverableSurvives == Recoverable => OneFaultSurvivable
<1> SUFFICES ASSUME Recoverable PROVE OneFaultSurvivable
  OBVIOUS
<1>1. CASE saves = <<>>
  BY <1>1 DEF OneFaultSurvivable
<1>2. ASSUME NEW a, saves = <<a>> PROVE OneFaultSurvivable
  <2>1. Len(saves) = 1 /\ Last(saves) = a
    BY <1>2, LastOfShort
  <2>2. faults = 0 => LoadSource = a
    BY <1>2, Values, LastOfShort DEF Recoverable, LoadSource
  <2> QED BY <2>1, <2>2 DEF OneFaultSurvivable
<1>3. ASSUME NEW a, NEW b, saves = <<a, b>> PROVE OneFaultSurvivable
  <2>1. Last(saves) = b /\ a \in ToSet(saves) /\ b \in ToSet(saves)
    BY <1>3, LastOfShort DEF ToSet
  <2>2. faults <= 1 => \/ primary = Text(b)
                       \/ primary = Undecodable /\ faults = 1 /\ backup = Text(a)
    BY <1>3, LastOfShort DEF Recoverable
  <2>3. /\ faults = 0 => LoadSource = b
        /\ faults <= 1 => LoadSource \in {a, b}
    BY <2>2, Values DEF LoadSource, Recoverable
  <2> QED BY <2>1, <2>3 DEF OneFaultSurvivable
<1> QED BY <1>1, <1>2, <1>3 DEF Recoverable

\* After one fault, whether a damaged key or a save that stopped between its two
\* writes, a restart still finds one of the last two documents saved; without
\* one it finds the last.  Nothing is assumed of edits, windows or their number.
THEOREM OneFaultSurvivableCorrect == Spec => []OneFaultSurvivable
<1>1. Init => Recoverable
  BY DEF Init, Recoverable
<1> QED BY <1>1, RecoverableInductive, RecoverableSurvives, PTL DEF Spec

-----------------------------------------------------------------------------
(* The inductive invariant: documents, wherever they are, are well formed.    *)

Tabs == [id: Nat, layout: Layouts, focus: Panes, panes: [Panes -> Nat]]

\* Every pane of the layout is occupied and one of them has the focus.
WellShown(tab) ==
  ShownPanes(tab) = VisiblePanes(tab.layout) /\ tab.focus \in ShownPanes(tab)

GoodTabs(tabs) ==
  /\ tabs \in Seq(Tabs) /\ tabs # <<>>
  /\ \A i \in DOMAIN tabs : WellShown(tabs[i])
  /\ \A i, j \in DOMAIN tabs : tabs[i].id = tabs[j].id => i = j

\* No two panes have the same instance, and each one's session is there.
OwnInstances(tabs, sessions) ==
  /\ \A i \in DOMAIN tabs, p \in Panes :
       tabs[i].panes[p] # NoInstance => tabs[i].panes[p] \in DOMAIN sessions
  /\ \A i, j \in DOMAIN tabs, p, q \in Panes :
       tabs[i].panes[p] # NoInstance /\ tabs[i].panes[p] = tabs[j].panes[q] => i = j /\ p = q

\* The ids in use are below n, the first fresh one.
SessionsBelow(sessions, n) ==
  /\ sessions \in [DOMAIN sessions -> Contents]
  /\ DOMAIN sessions \subseteq 0 .. (n - 1)
  /\ PRIMARY_EXPLORER_INSTANCE_ID \in DOMAIN sessions

IsRecord(d) ==
  d = [sessions |-> d.sessions, session |-> d.session, tabs |-> d.tabs, active |-> d.active]

GoodDocument(d, n) ==
  /\ IsRecord(d)
  /\ SessionsBelow(d.sessions, n)
  /\ d.session = d.sessions[PRIMARY_EXPLORER_INSTANCE_ID]
  /\ GoodTabs(d.tabs) /\ d.active \in TabIds(d.tabs)
  /\ \A i \in DOMAIN d.tabs : d.tabs[i].id < n
  /\ OwnInstances(d.tabs, d.sessions)

GoodValue(value, n) ==
  value \in {Absent, Undecodable} \/ \E d : value = Text(d) /\ GoodDocument(d, n)

StoreInv ==
  /\ edits \in 0 .. MaxEdits
  /\ open \in SUBSET Windows
  /\ \A w \in Windows : GoodDocument(doc[w], Fresh)
  /\ GoodValue(primary, Fresh) /\ GoodValue(backup, Fresh)
  /\ timer \in [Windows -> BOOLEAN] /\ unsaved \in [Windows -> BOOLEAN]
  /\ events \in [Windows -> 0 .. MaxEvents] /\ faults \in 0 .. MaxFaults
  /\ DOMAIN doc = Windows

-----------------------------------------------------------------------------
(* The tabs left when at most one is taken out.                               *)

LEMMA LargestOfPositions ==
  ASSUME NEW n \in Nat, NEW S \in SUBSET (1 .. n), S # {}
  PROVE  Max(S) \in S /\ \A i \in S : i <= Max(S)
<1>1. S \in SUBSET (0 .. n) OBVIOUS
<1>2. PICK p \in S : \A q \in S : q <= p BY <1>1, LargestNumber
<1>3. \A q \in S : p >= q BY <1>1, <1>2
<1> DEFINE largest == CHOOSE x \in S : \A y \in S : x >= y
<1>4. largest \in S /\ \A i \in S : largest >= i BY <1>3
<1>5. Max(S) = largest BY DEF Max
<1> HIDE DEF largest
<1>6. \A i \in S : i \in Nat /\ largest \in Nat BY <1>1, <1>4
<1> QED BY <1>4, <1>5, <1>6

LEMMA AppendToFunction ==
  ASSUME NEW V, NEW l \in Nat, NEW s \in [1 .. l -> V], NEW x \in V
  PROVE  Append(s, x) = [i \in 1 .. (l + 1) |-> IF i = l + 1 THEN x ELSE s[i]]
<1>1. s \in Seq(V) /\ Len(s) = l OBVIOUS
<1>2. /\ Append(s, x) \in Seq(V) /\ Len(Append(s, x)) = l + 1
      /\ \A i \in 1 .. (l + 1) : Append(s, x)[i] = IF i = l + 1 THEN x ELSE s[i]
  BY <1>1
<1>3. Append(s, x) \in [1 .. (l + 1) -> V]
  <2>1. \A t \in Seq(V), k \in Nat : Len(t) = k => t \in [1 .. k -> V] OBVIOUS
  <2>2. l + 1 \in Nat OBVIOUS
  <2> QED BY <1>2, <2>1, <2>2
<1> QED BY <1>2, <1>3

\* The first k tabs without the one at m.
Without(tabs, m, k) ==
  [i \in 1 .. (IF m <= k THEN k - 1 ELSE k) |-> IF i < m THEN tabs[i] ELSE tabs[i + 1]]

LEMMA WithoutGrows ==
  ASSUME NEW V, NEW n \in Nat, NEW tabs \in [1 .. n -> V], NEW m \in 1 .. (n + 1), NEW k \in 1 .. n
  PROVE  /\ k = m => Without(tabs, m, k) = Without(tabs, m, k - 1)
         /\ k # m => Without(tabs, m, k) = Append(Without(tabs, m, k - 1), tabs[k])
<1> DEFINE last == IF m <= k - 1 THEN k - 2 ELSE k - 1
           s == Without(tabs, m, k - 1)
<1>1. s = [i \in 1 .. last |-> IF i < m THEN tabs[i] ELSE tabs[i + 1]]
  <2>1. (k - 1) - 1 = k - 2 OBVIOUS
  <2> QED BY <2>1 DEF Without
<1>2. last \in Nat OBVIOUS
<1>3. CASE k = m
  <2>1. (IF m <= k THEN k - 1 ELSE k) = last BY <1>3
  <2> QED BY <1>1, <1>3, <2>1 DEF Without
<1>4. CASE k # m
  <2>1. (IF m <= k THEN k - 1 ELSE k) = last + 1 BY <1>4
  <2>2. \A i \in 1 .. last : (IF i < m THEN tabs[i] ELSE tabs[i + 1]) \in V
    <3> SUFFICES ASSUME NEW i \in 1 .. last PROVE (IF i < m THEN tabs[i] ELSE tabs[i + 1]) \in V
      OBVIOUS
    <3>1. i \in 1 .. n /\ (~(i < m) => i + 1 \in 1 .. n) OBVIOUS
    <3> QED BY <3>1
  <2>3. s \in [1 .. last -> V] BY <1>1, <2>2
  <2>4. IF last + 1 < m THEN last + 1 = k ELSE last + 2 = k BY <1>4
  <2>5. Without(tabs, m, k) =
          [i \in 1 .. (last + 1) |-> IF i < m THEN tabs[i] ELSE tabs[i + 1]]
    BY <2>1 DEF Without
  <2> HIDE DEF last
  <2>6. Append(s, tabs[k]) = [i \in 1 .. (last + 1) |-> IF i = last + 1 THEN tabs[k] ELSE s[i]]
    BY <1>2, <2>3, AppendToFunction
  <2>7. ASSUME NEW i \in 1 .. (last + 1)
        PROVE  (IF i < m THEN tabs[i] ELSE tabs[i + 1]) = (IF i = last + 1 THEN tabs[k] ELSE s[i])
    <3>1. CASE i = last + 1
      <4>1. i + 1 = last + 2 BY <1>2, <3>1
      <4> QED BY <2>4, <3>1, <4>1
    <3>2. CASE i # last + 1
      <4>1. i \in 1 .. last BY <1>2, <3>2
      <4> QED BY <1>1, <3>2, <4>1
    <3> QED BY <3>1, <3>2
  <2> HIDE DEF s
  <2>8. Without(tabs, m, k) = Append(s, tabs[k]) BY <2>5, <2>6, <2>7
  <2> QED BY <1>4, <2>8 DEF s
<1> QED BY <1>3, <1>4

LEMMA WithoutTyped ==
  ASSUME NEW V, NEW n \in Nat, NEW tabs \in [1 .. n -> V], NEW m \in 1 .. (n + 1), NEW k \in 0 .. n
  PROVE  Without(tabs, m, k) \in Seq(V)
<1> DEFINE l == IF m <= k THEN k - 1 ELSE k
<1>1. l \in Nat OBVIOUS
<1>2. \A i \in 1 .. l : (IF i < m THEN tabs[i] ELSE tabs[i + 1]) \in V
  <2> SUFFICES ASSUME NEW i \in 1 .. l PROVE (IF i < m THEN tabs[i] ELSE tabs[i + 1]) \in V
    OBVIOUS
  <2>1. i \in 1 .. n /\ (~(i < m) => i + 1 \in 1 .. n) OBVIOUS
  <2> QED BY <2>1
<1>3. Without(tabs, m, k) \in [1 .. l -> V] BY <1>2 DEF Without
<1> HIDE DEF l
<1> QED BY <1>1, <1>3

LEMMA TabsAtWithout ==
  ASSUME NEW V, NEW n \in Nat, NEW tabs \in [1 .. n -> V], NEW m \in 1 .. (n + 1)
  PROVE  TabsAt(tabs, (1 .. n) \ {m}) = Without(tabs, m, n)
<1> DEFINE T == 1 .. n
           K == T \ {m}
           Take(kept, i) == IF i \in K THEN Append(kept, tabs[i]) ELSE kept
           pick == [S \in SUBSET T |-> Max(S)]
           F == [x \in T \X Seq(V) |-> Take(x[2], x[1])]
           index == [i \in DOMAIN tabs |-> i]
           Rec(g) == g = [S \in SUBSET DOMAIN index |->
                            IF S = {} THEN <<>> ELSE Take(g[S \ {Max(S)}], index[Max(S)])]
           h == CHOOSE g : Rec(g)
<1>0. \A k \in 1 .. n : /\ k = m => Without(tabs, m, k) = Without(tabs, m, k - 1)
                        /\ k # m => Without(tabs, m, k) = Append(Without(tabs, m, k - 1), tabs[k])
  BY WithoutGrows, Zenon
<1>1. TabsAt(tabs, K) = h[DOMAIN index]
  BY DEF TabsAt, FoldLeftDomain, FoldLeft, MapThenFoldSet
<1>2. T = DOMAIN index /\ (\A i \in T : index[i] = i) /\ IsFiniteSet(T) BY FS_Interval
<1>3. \A S \in SUBSET T : S # {} => pick[S] = Max(S) /\ pick[S] \in S
  BY LargestOfPositions
<1>4. \A i \in T, s \in Seq(V) : Take(s, i) \in Seq(V) OBVIOUS
<1>5. \A x \in T \X Seq(V) : F[x] = Take(x[2], x[1]) OBVIOUS
<1>6. F \in [T \X Seq(V) -> Seq(V)] BY <1>4
<1>7. <<>> \in Seq(V) OBVIOUS
<1> HIDE DEF F, pick, T, Take, K, index
<1>8. PICK g \in [SUBSET T -> Seq(V)] : Recurses(g, SUBSET T, <<>>, pick, F)
  BY <1>2, <1>3, <1>6, <1>7, RecursionOnSubsets
<1>9. ASSUME NEW S \in SUBSET T
      PROVE  g[S] = IF S = {} THEN <<>> ELSE Take(g[S \ {Max(S)}], index[Max(S)])
  <2>1. g[S] = IF S = {} THEN <<>> ELSE F[<<pick[S], g[S \ {pick[S]}]>>]
    BY <1>8 DEF Recurses
  <2>2. CASE S # {}
    <3> DEFINE x == <<Max(S), g[S \ {Max(S)}]>>
    <3>1. pick[S] = Max(S) /\ Max(S) \in T /\ g[S \ {Max(S)}] \in Seq(V)
      BY <1>3, <1>8, <2>2
    <3>2. F[x] = Take(x[2], x[1]) BY <1>5, <3>1
    <3> QED BY <1>2, <2>1, <2>2, <3>1, <3>2
  <2> QED BY <2>1, <2>2
<1>10. g = [S \in SUBSET T |-> IF S = {} THEN <<>> ELSE Take(g[S \ {Max(S)}], index[Max(S)])]
  BY <1>8, <1>9
<1>11. Rec(h) BY <1>2, <1>10
<1> HIDE DEF h
<1>12. /\ h[{}] = <<>>
       /\ \A S \in SUBSET T : S # {} => h[S] = Take(h[S \ {Max(S)}], index[Max(S)])
  BY <1>2, <1>11
<1> DEFINE N == {k \in 0 .. n : h[1 .. k] = Without(tabs, m, k)}
<1>13. 0 \in N
  <2>1. 1 .. 0 = {} OBVIOUS
  <2>2. ~(m <= 0) OBVIOUS
  <2>3. Without(tabs, m, 0) = <<>> BY <2>2 DEF Without
  <2> QED BY <1>12, <2>1, <2>3
<1>14. ASSUME NEW k \in 1 .. n, k - 1 \in N PROVE k \in N
  <2>1. 1 .. k \in SUBSET T /\ 1 .. k # {} /\ k \in T BY DEF T
  <2>2. Max(1 .. k) = k
    <3>1. 1 .. k \in SUBSET (1 .. n) /\ k \in 1 .. k OBVIOUS
    <3>2. Max(1 .. k) \in 1 .. k /\ k <= Max(1 .. k) BY <3>1, LargestOfPositions
    <3> QED BY <3>2
  <2>3. (1 .. k) \ {k} = 1 .. (k - 1) OBVIOUS
  <2>4. h[1 .. k] = Take(h[(1 .. k) \ {Max(1 .. k)}], index[Max(1 .. k)]) BY <1>12, <2>1
  <2>5. h[1 .. (k - 1)] = Without(tabs, m, k - 1) BY <1>14
  <2>6. index[k] = k BY <1>2, <2>1
  <2>7. h[1 .. k] = Take(Without(tabs, m, k - 1), k)
    <3> HIDE DEF N
    <3> QED BY <2>2, <2>3, <2>4, <2>5, <2>6
  <2>8. k \in K <=> k # m BY <2>1 DEF K
  <2>9. h[1 .. k] = IF k = m THEN Without(tabs, m, k - 1)
                    ELSE Append(Without(tabs, m, k - 1), tabs[k])
    <3> HIDE DEF N
    <3> QED BY <2>7, <2>8 DEF Take
  <2>10. /\ k = m => Without(tabs, m, k) = Without(tabs, m, k - 1)
         /\ k # m => Without(tabs, m, k) = Append(Without(tabs, m, k - 1), tabs[k])
    BY <1>0
  <2>11. h[1 .. k] = Without(tabs, m, k)
    <3> HIDE DEF N
    <3> QED BY <2>9, <2>10
  <2> QED BY <2>11
<1> HIDE DEF N
<1>15. \A k \in 0 .. n : k \in N BY <1>13, <1>14, AllNumbersUpTo
<1>16. n \in N /\ T = 1 .. n BY <1>15 DEF T
<1> QED BY <1>1, <1>2, <1>16 DEF N, K

-----------------------------------------------------------------------------
(* A well-formed document is its own normal form.                             *)

LEMMA SmallestOf ==
  ASSUME NEW S \in SUBSET Nat, S # {}
  PROVE  Min(S) \in S
<1> DEFINE smallest == CHOOSE x \in S : \A y \in S : x <= y
<1>1. PICK p \in S : \A q \in S : p <= q BY SmallestNumber
<1>2. smallest \in S BY <1>1
<1>3. Min(S) = smallest BY DEF Min
<1> QED BY <1>2, <1>3

LEMMA Visible ==
  \A layout \in Layouts : VisiblePanes(layout) \subseteq Panes /\ 1 \in VisiblePanes(layout)
BY DEF VisiblePanes, Layouts, Panes

LEMMA TabNormal ==
  ASSUME NEW tab \in Tabs, WellShown(tab) PROVE NormalTab(tab) = tab /\ OccupiedPanes(tab) # {}
<1>1. tab.focus \in ShownPanes(tab) BY DEF WellShown
<1>2. NormalTab(tab) = [tab EXCEPT !.focus = tab.focus] BY <1>1 DEF NormalTab
<1>3. [tab EXCEPT !.focus = tab.focus] = tab BY DEF Tabs
<1>4. tab.focus \in OccupiedPanes(tab) BY <1>1 DEF ShownPanes
<1> QED BY <1>2, <1>3, <1>4

LEMMA TabsNormal == ASSUME NEW tabs, GoodTabs(tabs) PROVE NormalTabs(tabs) = tabs
<1> DEFINE n == Len(tabs)
           occupied == {i \in DOMAIN tabs : OccupiedPanes(tabs[i]) # {}}
           positions == {i \in occupied : \A j \in occupied : j < i => tabs[j].id # tabs[i].id}
           kept == TabsAt(tabs, positions)
<1>1. tabs \in Seq(Tabs) /\ tabs # <<>> BY DEF GoodTabs
<1>2. n \in Nat /\ tabs \in [1 .. n -> Tabs] /\ DOMAIN tabs = 1 .. n BY <1>1
<1>3. \A i \in 1 .. n : NormalTab(tabs[i]) = tabs[i] /\ OccupiedPanes(tabs[i]) # {}
  BY <1>2, TabNormal DEF GoodTabs
<1>4. occupied = 1 .. n BY <1>2, <1>3
<1> HIDE DEF occupied
<1>5. positions = 1 .. n
  <2>1. \A i, j \in 1 .. n : j < i => tabs[j].id # tabs[i].id
    <3> SUFFICES ASSUME NEW i \in 1 .. n, NEW j \in 1 .. n, j < i PROVE tabs[j].id # tabs[i].id
      OBVIOUS
    <3>1. i # j OBVIOUS
    <3> QED BY <1>2, <3>1 DEF GoodTabs
  <2> QED BY <1>4, <2>1
<1> HIDE DEF positions
<1>6. kept = tabs
  <2>1. (1 .. n) \ {n + 1} = 1 .. n BY <1>2
  <2>2. n + 1 \in 1 .. (n + 1) BY <1>2
  <2>3. TabsAt(tabs, (1 .. n) \ {n + 1}) = Without(tabs, n + 1, n)
    BY <1>2, <2>2, TabsAtWithout
  <2>4. Without(tabs, n + 1, n) = tabs
    <3>1. ~(n + 1 <= n) /\ \A i \in 1 .. n : i < n + 1 BY <1>2
    <3> HIDE DEF n
    <3>2. Without(tabs, n + 1, n) = [i \in 1 .. n |-> IF i < n + 1 THEN tabs[i] ELSE tabs[i + 1]]
      BY <3>1 DEF Without
    <3>3. Without(tabs, n + 1, n) = [i \in 1 .. n |-> tabs[i]] BY <3>1, <3>2
    <3> QED BY <1>2, <3>3
  <2> QED BY <1>5, <2>1, <2>3, <2>4
<1>7. NormalTabs(tabs) = IF kept = <<>> THEN DefaultWorkspaceTabs
                         ELSE [i \in DOMAIN kept |-> NormalTab(kept[i])]
  BY DEF NormalTabs, positions, occupied
<1> HIDE DEF kept
<1>8. NormalTabs(tabs) = [i \in 1 .. n |-> NormalTab(tabs[i])] BY <1>1, <1>2, <1>6, <1>7
<1> HIDE DEF n
<1>9. NormalTabs(tabs) = [i \in 1 .. n |-> tabs[i]] BY <1>3, <1>8
<1> QED BY <1>2, <1>9

LEMMA WorkspaceNormal ==
  ASSUME NEW d, IsRecord(d), GoodTabs(d.tabs), d.active \in TabIds(d.tabs)
  PROVE  NormalWorkspace(d) = d
<1>1. NormalTabs(d.tabs) = d.tabs BY TabsNormal
<1>2. NormalWorkspace(d) = [d EXCEPT !.tabs = d.tabs, !.active = d.active]
  BY <1>1 DEF NormalWorkspace
<1> QED BY <1>2 DEF IsRecord

\* What a save writes and a load reads of such a document is the document.
LEMMA DocumentNormal ==
  ASSUME NEW n, NEW d, GoodDocument(d, n) PROVE NormalDocument(d) = d
<1>1. NormalWorkspace(d) = d BY WorkspaceNormal DEF GoodDocument
<1>2. NormalSessions(d) = d.sessions BY DEF NormalSessions, GoodDocument, SessionsBelow
<1>3. NormalDocument(d) = [d EXCEPT !.sessions = d.sessions, !.session = d.session]
  BY <1>1, <1>2 DEF NormalDocument, GoodDocument
<1> QED BY <1>3 DEF GoodDocument, IsRecord

-----------------------------------------------------------------------------
(* Every edit makes a well-formed document of one; n is the first fresh id.   *)

LEMMA DocumentBelowMore ==
  ASSUME NEW n \in Nat, NEW k \in Nat, n <= k, NEW d, GoodDocument(d, n)
  PROVE  GoodDocument(d, k)
<1>1. SessionsBelow(d.sessions, k) BY DEF GoodDocument, SessionsBelow
<1>2. \A i \in DOMAIN d.tabs : d.tabs[i].id < k
  <2> SUFFICES ASSUME NEW i \in DOMAIN d.tabs PROVE d.tabs[i].id < k OBVIOUS
  <2>1. d.tabs[i] \in Tabs BY DEF GoodDocument, GoodTabs
  <2>2. d.tabs[i].id \in Nat /\ d.tabs[i].id < n BY <2>1 DEF Tabs, GoodDocument
  <2> QED BY <2>2
<1> QED BY <1>1, <1>2 DEF GoodDocument

LEMMA SpreadBelow ==
  ASSUME NEW n \in Nat, NEW k \in Nat, n <= k, NEW old, SessionsBelow(old, n),
         NEW K \in SUBSET (0 .. (k - 1)), NEW new \in [K -> Contents]
  PROVE  /\ SessionsBelow(Spread(old, new), k)
         /\ DOMAIN Spread(old, new) = DOMAIN old \cup K
         /\ \A i \in DOMAIN old \ K : Spread(old, new)[i] = old[i]
         /\ \A i \in K : Spread(old, new)[i] = new[i]
<1>1. Spread(old, new) = [i \in DOMAIN old \cup K |-> IF i \in K THEN new[i] ELSE old[i]]
  BY DEF Spread
<1>2. \A i \in DOMAIN old \cup K : (IF i \in K THEN new[i] ELSE old[i]) \in Contents
  BY DEF SessionsBelow
<1>3. DOMAIN old \subseteq 0 .. (k - 1)
  <2>1. \A i \in 0 .. (n - 1) : i \in 0 .. (k - 1) OBVIOUS
  <2> QED BY <2>1 DEF SessionsBelow
<1>4. PRIMARY_EXPLORER_INSTANCE_ID \in DOMAIN old BY DEF SessionsBelow
<1>5. DOMAIN Spread(old, new) = DOMAIN old \cup K BY <1>1
<1>6. Spread(old, new) \in [DOMAIN old \cup K -> Contents] BY <1>1, <1>2
<1>7. SessionsBelow(Spread(old, new), k) BY <1>3, <1>4, <1>5, <1>6 DEF SessionsBelow
<1> QED BY <1>1, <1>5, <1>7

LEMMA SessionOfContents ==
  ASSUME NEW n, NEW d, GoodDocument(d, n) PROVE \A i : SessionOf(d, i) \in Contents
BY DefaultAssumption DEF SessionOf, GoodDocument, SessionsBelow

LEMMA SessionWritten ==
  ASSUME NEW n \in Nat, NEW d, GoodDocument(d, n), NEW id \in 0 .. (n - 1), NEW c \in Contents
  PROVE  GoodDocument(WriteSession(d, id, c), n)
<1> DEFINE new == [i \in {id} |-> c]
           sessions == Spread(d.sessions, new)
           session == IF id = PRIMARY_EXPLORER_INSTANCE_ID THEN c ELSE d.session
           e == WriteSession(d, id, c)
<1>1. new \in [{id} -> Contents] /\ {id} \in SUBSET (0 .. (n - 1)) /\ new[id] = c OBVIOUS
<1>2. IsRecord(d) /\ SessionsBelow(d.sessions, n) BY DEF GoodDocument
<1>3. e = [sessions |-> sessions, session |-> session, tabs |-> d.tabs, active |-> d.active]
  <2>1. e = [d EXCEPT !.sessions = sessions, !.session = session] BY DEF WriteSession
  <2> HIDE DEF e, sessions, session
  <2> QED BY <1>2, <2>1 DEF IsRecord
<1> HIDE DEF new, e, sessions
<1>4. /\ SessionsBelow(sessions, n) /\ DOMAIN sessions = DOMAIN d.sessions \cup {id}
      /\ \A i \in DOMAIN d.sessions \ {id} : sessions[i] = d.sessions[i]
      /\ \A i \in {id} : sessions[i] = new[i]
  <2>1. PICK K : K = {id} OBVIOUS
  <2>2. n <= n /\ K \in SUBSET (0 .. (n - 1)) /\ new \in [K -> Contents] BY <1>1, <2>1
  <2>3. /\ SessionsBelow(Spread(d.sessions, new), n)
        /\ DOMAIN Spread(d.sessions, new) = DOMAIN d.sessions \cup K
        /\ \A i \in DOMAIN d.sessions \ K : Spread(d.sessions, new)[i] = d.sessions[i]
        /\ \A i \in K : Spread(d.sessions, new)[i] = new[i]
    BY ONLY n \in Nat, <1>2, <2>2, SpreadBelow
  <2> QED BY <2>1, <2>3 DEF sessions
<1>5. session = sessions[PRIMARY_EXPLORER_INSTANCE_ID]
  BY <1>1, <1>2, <1>4 DEF GoodDocument, SessionsBelow
<1>6. OwnInstances(d.tabs, sessions) BY <1>4 DEF GoodDocument, OwnInstances
<1> HIDE DEF session
<1>7. IsRecord(e) BY <1>3 DEF IsRecord
<1>8. e.sessions = sessions /\ e.session = session /\ e.tabs = d.tabs /\ e.active = d.active
  BY <1>3
<1>9. GoodDocument(e, n) BY <1>4, <1>5, <1>6, <1>7, <1>8 DEF GoodDocument
<1> QED BY <1>9 DEF e

LEMMA SmallestPosition ==
  ASSUME NEW tabs, GoodTabs(tabs), NEW id \in TabIds(tabs)
  PROVE  LET k == Min({i \in DOMAIN tabs : tabs[i].id = id})
         IN  k \in DOMAIN tabs /\ tabs[k].id = id
<1> DEFINE S == {i \in DOMAIN tabs : tabs[i].id = id}
<1>1. S # {} BY DEF TabIds
<1>2. DOMAIN tabs \subseteq Nat BY DEF GoodTabs
<1>3. Min(S) \in S BY <1>1, <1>2, SmallestOf
<1> QED BY <1>3

\* The tab an edit starts from is one of the document's.
LEMMA TabFound ==
  ASSUME NEW n, NEW d, GoodDocument(d, n)
  PROVE  /\ \A id \in TabIds(d.tabs) : \E k \in DOMAIN d.tabs : TabById(d, id) = d.tabs[k]
         /\ \E k \in DOMAIN d.tabs : ActiveTab(d) = d.tabs[k]
<1>1. GoodTabs(d.tabs) /\ d.active \in TabIds(d.tabs) BY DEF GoodDocument
<1>2. ASSUME NEW id \in TabIds(d.tabs)
      PROVE  \E k \in DOMAIN d.tabs : TabById(d, id) = d.tabs[k]
  BY <1>1, SmallestPosition DEF TabById
<1>3. \E k \in DOMAIN d.tabs : ActiveTab(d) = d.tabs[k]
  <2> DEFINE S == {i \in DOMAIN d.tabs : d.tabs[i].id = d.active}
  <2>1. S # {} BY <1>1 DEF TabIds
  <2>2. ActiveTab(d) = d.tabs[Min(S)] BY <2>1 DEF ActiveTab
  <2>3. Min(S) \in DOMAIN d.tabs BY <1>1, SmallestPosition
  <2> QED BY <2>2, <2>3
<1> QED BY <1>2, <1>3

\* A tab more, with instances of its own, beside those of a document.
LEMMA TabAppended ==
  ASSUME NEW n \in Nat, NEW d, GoodDocument(d, n),
         NEW tab \in Tabs, WellShown(tab), tab.id = n,
         NEW K \in SUBSET (n .. (n + 4)), NEW new \in [K -> Contents],
         \A p \in Panes : tab.panes[p] # NoInstance => tab.panes[p] \in K,
         \A p, q \in Panes : tab.panes[p] # NoInstance /\ tab.panes[p] = tab.panes[q] => p = q,
         NEW active \in TabIds(d.tabs) \cup {n},
         NEW e, e = [d EXCEPT !.sessions = Spread(@, new), !.tabs = Append(@, tab),
                              !.active = active]
  PROVE  GoodDocument(NormalWorkspace(e), n + 5)
<1> DEFINE sessions == Spread(d.sessions, new)
           l == Len(d.tabs)
           tabs == Append(d.tabs, tab)
<1>1. IsRecord(d) /\ SessionsBelow(d.sessions, n) /\ GoodTabs(d.tabs) /\ OwnInstances(d.tabs, d.sessions)
  BY DEF GoodDocument
<1>2. e = [sessions |-> sessions, session |-> d.session, tabs |-> tabs, active |-> active]
  BY <1>1 DEF IsRecord
<1>3. /\ d.tabs \in Seq(Tabs) /\ l \in Nat /\ DOMAIN d.tabs = 1 .. l
      /\ tabs \in Seq(Tabs) /\ Len(tabs) = l + 1 /\ DOMAIN tabs = 1 .. (l + 1)
      /\ \A i \in 1 .. (l + 1) : tabs[i] = IF i = l + 1 THEN tab ELSE d.tabs[i]
  BY <1>1 DEF GoodTabs
<1>4. K \in SUBSET (0 .. ((n + 5) - 1)) /\ PRIMARY_EXPLORER_INSTANCE_ID \notin K
  <2>1. \A i \in n .. (n + 4) : i \in 0 .. ((n + 5) - 1) OBVIOUS
  <2>2. PRIMARY_EXPLORER_INSTANCE_ID \in 0 .. (n - 1) BY <1>1 DEF SessionsBelow
  <2>3. \A i \in n .. (n + 4) : i \notin 0 .. (n - 1) OBVIOUS
  <2> QED BY <2>1, <2>2, <2>3
<1>5. /\ SessionsBelow(sessions, n + 5) /\ DOMAIN sessions = DOMAIN d.sessions \cup K
      /\ \A i \in DOMAIN d.sessions \ K : sessions[i] = d.sessions[i]
  <2>1. PICK k \in Nat : k = n + 5 OBVIOUS
  <2>2. n <= k /\ K \in SUBSET (0 .. (k - 1)) BY <1>4, <2>1
  <2> HIDE DEF sessions
  <2>3. /\ SessionsBelow(Spread(d.sessions, new), k)
        /\ DOMAIN Spread(d.sessions, new) = DOMAIN d.sessions \cup K
        /\ \A i \in DOMAIN d.sessions \ K : Spread(d.sessions, new)[i] = d.sessions[i]
    BY ONLY <1>1, <2>1, <2>2, n \in Nat, new \in [K -> Contents], SpreadBelow
  <2> QED BY <2>1, <2>3 DEF sessions
<1> HIDE DEF sessions, tabs, l
<1>6. d.session = sessions[PRIMARY_EXPLORER_INSTANCE_ID]
  BY <1>1, <1>4, <1>5 DEF GoodDocument, SessionsBelow
<1>7. \A i \in 1 .. l : d.tabs[i].id < n /\ d.tabs[i].id \in Nat /\ d.tabs[i].id # n
  <2> SUFFICES ASSUME NEW i \in 1 .. l
               PROVE  d.tabs[i].id < n /\ d.tabs[i].id \in Nat /\ d.tabs[i].id # n
    OBVIOUS
  <2>1. d.tabs[i] \in Tabs BY <1>3
  <2>2. d.tabs[i].id \in Nat /\ d.tabs[i].id < n BY <1>3, <2>1 DEF Tabs, GoodDocument
  <2> QED BY <2>2
<1>8. GoodTabs(tabs)
  <2>1. \A i \in 1 .. (l + 1) : i # l + 1 => i \in 1 .. l BY <1>3
  <2>2. \A i \in 1 .. (l + 1) : WellShown(tabs[i]) BY <1>1, <1>3, <2>1 DEF GoodTabs
  <2>3. ASSUME NEW i \in 1 .. (l + 1), NEW j \in 1 .. (l + 1), tabs[i].id = tabs[j].id
        PROVE  i = j
    <3>1. CASE i = l + 1 /\ j # l + 1 BY <1>3, <1>7, <2>1, <2>3, <3>1
    <3>2. CASE i # l + 1 /\ j = l + 1 BY <1>3, <1>7, <2>1, <2>3, <3>2
    <3>3. CASE i # l + 1 /\ j # l + 1
      <4>1. i \in 1 .. l /\ j \in 1 .. l /\ d.tabs[i].id = d.tabs[j].id
        BY <1>3, <2>1, <2>3, <3>3
      <4> QED BY <1>1, <1>3, <4>1 DEF GoodTabs
    <3> QED BY <3>1, <3>2, <3>3
  <2>4. tabs # <<>> BY <1>3
  <2> QED BY <1>3, <2>2, <2>3, <2>4 DEF GoodTabs
<1>9. \A i \in 1 .. (l + 1) : tabs[i].id < n + 5
  <2> SUFFICES ASSUME NEW i \in 1 .. (l + 1) PROVE tabs[i].id < n + 5 OBVIOUS
  <2>1. CASE i = l + 1 BY <1>3, <2>1
  <2>2. CASE i # l + 1
    <3>1. i \in 1 .. l /\ tabs[i] = d.tabs[i] BY <1>3, <2>2
    <3>2. tabs[i].id < n /\ tabs[i].id \in Nat BY <1>7, <3>1
    <3> QED BY <3>2
  <2> QED BY <2>1, <2>2
<1>10. OwnInstances(tabs, sessions)
  <2>1. \A i \in 1 .. (l + 1) : i # l + 1 => i \in 1 .. l BY <1>3
  <2>2. ASSUME NEW i \in 1 .. l, NEW p \in Panes, d.tabs[i].panes[p] # NoInstance
        PROVE  d.tabs[i].panes[p] \in DOMAIN d.sessions /\ d.tabs[i].panes[p] \notin K
    <3>1. d.tabs[i].panes[p] \in DOMAIN d.sessions BY <1>1, <1>3, <2>2 DEF OwnInstances
    <3>2. d.tabs[i].panes[p] \in 0 .. (n - 1) BY <1>1, <3>1 DEF SessionsBelow
    <3>3. \A x \in 0 .. (n - 1) : x \notin n .. (n + 4) OBVIOUS
    <3> QED BY <3>1, <3>2, <3>3
  <2>3. ASSUME NEW i \in 1 .. (l + 1), NEW p \in Panes, tabs[i].panes[p] # NoInstance
        PROVE  tabs[i].panes[p] \in DOMAIN sessions
    <3>1. CASE i = l + 1 BY <1>3, <1>5, <2>3, <3>1
    <3>2. CASE i # l + 1 BY <1>3, <1>5, <2>1, <2>2, <2>3, <3>2
    <3> QED BY <3>1, <3>2
  <2>4. ASSUME NEW i \in 1 .. (l + 1), NEW j \in 1 .. (l + 1), NEW p \in Panes, NEW q \in Panes,
               tabs[i].panes[p] # NoInstance, tabs[i].panes[p] = tabs[j].panes[q]
        PROVE  i = j /\ p = q
    <3>1. CASE i = l + 1 /\ j = l + 1
      <4>1. tab.panes[p] # NoInstance /\ tab.panes[p] = tab.panes[q] BY <1>3, <2>4, <3>1
      <4> QED BY <3>1, <4>1
    <3>2. CASE i = l + 1 /\ j # l + 1
      <4>1. j \in 1 .. l /\ tab.panes[p] \in K /\ d.tabs[j].panes[q] = tab.panes[p]
        BY <1>3, <2>1, <2>4, <3>2
      <4> QED BY <2>2, <2>4, <4>1, <1>3, <3>2
    <3>3. CASE i # l + 1 /\ j = l + 1
      <4>1. i \in 1 .. l /\ tab.panes[q] \in K /\ d.tabs[i].panes[p] = tab.panes[q]
        BY <1>3, <2>1, <2>4, <3>3
      <4> QED BY <2>2, <2>4, <4>1, <1>3, <3>3
    <3>4. CASE i # l + 1 /\ j # l + 1
      <4>1. /\ i \in 1 .. l /\ j \in 1 .. l
            /\ d.tabs[i].panes[p] # NoInstance /\ d.tabs[i].panes[p] = d.tabs[j].panes[q]
        BY <1>3, <2>1, <2>4, <3>4
      <4> QED BY <1>1, <1>3, <4>1 DEF OwnInstances
    <3> QED BY <3>1, <3>2, <3>3, <3>4
  <2> QED BY <1>3, <2>3, <2>4 DEF OwnInstances
<1>11. active \in TabIds(tabs)
  <2>1. l + 1 \in 1 .. (l + 1) /\ \A i \in 1 .. l : i \in 1 .. (l + 1) /\ i # l + 1 BY <1>3
  <2>2. CASE active = n BY <1>3, <2>1, <2>2 DEF TabIds
  <2>3. CASE active \in TabIds(d.tabs)
    <3>1. PICK i \in 1 .. l : active = d.tabs[i].id BY <1>3, <2>3 DEF TabIds
    <3> QED BY <1>3, <2>1, <3>1 DEF TabIds
  <2> QED BY <2>2, <2>3
<1>12. IsRecord(e) BY <1>2 DEF IsRecord
<1>13. GoodDocument(e, n + 5)
  <2>1. e.sessions = sessions /\ e.session = d.session /\ e.tabs = tabs /\ e.active = active
    BY ONLY <1>2
  <2> QED BY <1>3, <1>5, <1>6, <1>8, <1>9, <1>10, <1>11, <1>12, <2>1 DEF GoodDocument
<1>14. NormalWorkspace(e) = e BY <1>13, WorkspaceNormal DEF GoodDocument
<1> QED BY <1>13, <1>14

LEMMA TabCreated ==
  ASSUME NEW n \in Nat, NEW d, GoodDocument(d, n), NEW source \in TabIds(d.tabs),
         NEW activate \in BOOLEAN
  PROVE  GoodDocument(CreateWorkspaceTab(d, source, activate, n), n + 5)
<1> DEFINE instance == n + 1
           panes == [EmptyPaneSlots EXCEPT ![1] = instance]
           tab == [id |-> n, layout |-> "single", focus |-> 1, panes |-> panes]
           content == SessionOf(d, SourceInstance(TabById(d, source)))
           new == [i \in {instance} |-> content]
           active == IF activate THEN n ELSE d.active
           e == [d EXCEPT !.sessions = Spread(@, new), !.tabs = Append(@, tab),
                          !.active = active]
<1>1. CreateWorkspaceTab(d, source, activate, n) = NormalWorkspace(e)
  BY DEF CreateWorkspaceTab
<1>2. content \in Contents BY SessionOfContents
<1>3. new \in [{instance} -> Contents] /\ {instance} \in SUBSET (n .. (n + 4)) BY <1>2
<1>4. /\ panes \in [Panes -> Nat] /\ panes[1] = instance /\ instance # NoInstance
      /\ \A p \in Panes : p # 1 => panes[p] = NoInstance
  BY DEF EmptyPaneSlots, Panes, NoInstance
<1> HIDE DEF panes, new, instance
<1>5. tab \in Tabs /\ tab.id = n /\ tab.panes = panes /\ tab.layout = "single" /\ tab.focus = 1
  BY <1>4 DEF Tabs, Layouts, Panes
<1> HIDE DEF tab
<1>6. WellShown(tab)
  <2>1. VisiblePanes(tab.layout) = {1} BY <1>5 DEF VisiblePanes
  <2>2. 1 \in OccupiedPanes(tab) BY <1>4, <1>5 DEF OccupiedPanes, Panes
  <2> QED BY <1>5, <2>1, <2>2 DEF WellShown, ShownPanes
<1>7. active \in TabIds(d.tabs) \cup {n} BY DEF GoodDocument
<1>8. /\ \A p \in Panes : tab.panes[p] # NoInstance => tab.panes[p] \in {instance}
      /\ \A p, q \in Panes : tab.panes[p] # NoInstance /\ tab.panes[p] = tab.panes[q] => p = q
  BY <1>4, <1>5
<1> HIDE DEF active, e
<1>9. e = [d EXCEPT !.sessions = Spread(@, new), !.tabs = Append(@, tab), !.active = active]
  BY DEF e
<1>10. GoodDocument(NormalWorkspace(e), n + 5)
  BY <1>3, <1>5, <1>6, <1>7, <1>8, <1>9, TabAppended
<1> QED BY <1>1, <1>10

LEMMA TabDuplicated ==
  ASSUME NEW n \in Nat, NEW d, GoodDocument(d, n), NEW source \in TabIds(d.tabs)
  PROVE  GoodDocument(DuplicateWorkspaceTab(d, source, n), n + 5)
<1> DEFINE tab == TabById(d, source)
           clones == {n + p : p \in OccupiedPanes(tab)}
           panes == [p \in Panes |-> IF tab.panes[p] = NoInstance THEN NoInstance ELSE n + p]
           copy == [tab EXCEPT !.id = n, !.panes = panes]
           new == [c \in clones |-> SessionOf(d, tab.panes[c - n])]
           e == [d EXCEPT !.sessions = Spread(@, new), !.tabs = Append(@, copy), !.active = n]
<1>1. DuplicateWorkspaceTab(d, source, n) = NormalWorkspace(e)
  BY DEF DuplicateWorkspaceTab
<1>2. tab \in Tabs /\ WellShown(tab)
  <2>1. PICK k \in DOMAIN d.tabs : tab = d.tabs[k] BY TabFound
  <2> QED BY <2>1 DEF GoodDocument, GoodTabs
<1> HIDE DEF tab
<1>3. clones \in SUBSET (n .. (n + 4)) BY DEF OccupiedPanes, Panes
<1>4. new \in [clones -> Contents] BY SessionOfContents
<1>5. /\ panes \in [Panes -> Nat]
      /\ \A p \in Panes : /\ tab.panes[p] = NoInstance <=> panes[p] = NoInstance
                          /\ panes[p] # NoInstance => panes[p] = n + p
  BY DEF Panes, NoInstance
<1>6. \A p \in Panes : panes[p] # NoInstance => panes[p] \in clones
  BY <1>5 DEF OccupiedPanes
<1>7. \A p, q \in Panes : panes[p] # NoInstance /\ panes[p] = panes[q] => p = q
  BY <1>5 DEF Panes
<1> HIDE DEF panes, new, clones
<1>8. /\ copy \in Tabs /\ copy.id = n /\ copy.panes = panes
      /\ copy.layout = tab.layout /\ copy.focus = tab.focus
  BY <1>2, <1>5 DEF Tabs
<1> HIDE DEF copy
<1>9. OccupiedPanes(copy) = OccupiedPanes(tab) BY <1>5, <1>8 DEF OccupiedPanes
<1>10. WellShown(copy) BY <1>2, <1>8, <1>9 DEF WellShown, ShownPanes
<1>11. e = [d EXCEPT !.sessions = Spread(@, new), !.tabs = Append(@, copy), !.active = n]
  OBVIOUS
<1> HIDE DEF e
<1>12. n \in TabIds(d.tabs) \cup {n} OBVIOUS
<1>13. /\ \A p \in Panes : copy.panes[p] # NoInstance => copy.panes[p] \in clones
       /\ \A p, q \in Panes : copy.panes[p] # NoInstance /\ copy.panes[p] = copy.panes[q] => p = q
  BY <1>6, <1>7, <1>8
<1>14. GoodDocument(NormalWorkspace(e), n + 5)
  BY <1>3, <1>4, <1>8, <1>10, <1>11, <1>12, <1>13, TabAppended
<1> QED BY <1>1, <1>14

LEMMA TabFocused ==
  ASSUME NEW n, NEW d, GoodDocument(d, n), NEW id \in TabIds(d.tabs)
  PROVE  GoodDocument(FocusWorkspaceTab(d, id), n)
<1> DEFINE e == [d EXCEPT !.active = id]
<1>1. e = [sessions |-> d.sessions, session |-> d.session, tabs |-> d.tabs, active |-> id]
  BY DEF GoodDocument, IsRecord
<1> HIDE DEF e
<1>2. /\ IsRecord(e) /\ e.sessions = d.sessions /\ e.session = d.session
      /\ e.tabs = d.tabs /\ e.active = id
  BY ONLY <1>1 DEF IsRecord
<1>3. GoodDocument(e, n) BY <1>2 DEF GoodDocument
<1>4. NormalWorkspace(e) = e BY <1>3, WorkspaceNormal DEF GoodDocument
<1> QED BY <1>3, <1>4 DEF FocusWorkspaceTab, e

\* Another layout, focus or set of panes for a tab; new panes have new sessions.
LEMMA TabReplaced ==
  ASSUME NEW n \in Nat, NEW m \in Nat, n <= m, NEW d, GoodDocument(d, n),
         NEW k \in DOMAIN d.tabs, NEW tab \in Tabs, WellShown(tab), tab.id = d.tabs[k].id,
         NEW sessions, SessionsBelow(sessions, m), DOMAIN d.sessions \subseteq DOMAIN sessions,
         sessions[PRIMARY_EXPLORER_INSTANCE_ID] = d.session,
         \A p \in Panes : tab.panes[p] # NoInstance =>
           /\ tab.panes[p] \in DOMAIN sessions
           /\ tab.panes[p] = d.tabs[k].panes[p] \/ tab.panes[p] \notin DOMAIN d.sessions,
         \A p, q \in Panes : tab.panes[p] # NoInstance /\ tab.panes[p] = tab.panes[q] => p = q
  PROVE  GoodDocument(ReplaceTab([d EXCEPT !.sessions = sessions], tab), m)
<1> DEFINE tabs == [i \in DOMAIN d.tabs |-> IF d.tabs[i].id = tab.id THEN tab ELSE d.tabs[i]]
           e == [sessions |-> sessions, session |-> d.session, tabs |-> tabs, active |-> d.active]
           l == Len(d.tabs)
<1>1. IsRecord(d) /\ GoodTabs(d.tabs) /\ OwnInstances(d.tabs, d.sessions) BY DEF GoodDocument
<1>2. ReplaceTab([d EXCEPT !.sessions = sessions], tab) = NormalWorkspace(e)
  <2>1. [d EXCEPT !.sessions = sessions]
          = [sessions |-> sessions, session |-> d.session, tabs |-> d.tabs, active |-> d.active]
    BY ONLY <1>1 DEF IsRecord
  <2>2. [[sessions |-> sessions, session |-> d.session, tabs |-> d.tabs, active |-> d.active]
           EXCEPT !.tabs = [i \in DOMAIN @ |-> IF @[i].id = tab.id THEN tab ELSE @[i]]] = e
    OBVIOUS
  <2> QED BY ONLY <2>1, <2>2 DEF ReplaceTab
<1>3. d.tabs \in Seq(Tabs) /\ l \in Nat /\ DOMAIN d.tabs = 1 .. l /\ d.tabs \in [1 .. l -> Tabs]
  BY <1>1 DEF GoodTabs
<1> HIDE DEF l
<1>4. ASSUME NEW i \in 1 .. l
      PROVE  tabs[i] = (IF i = k THEN tab ELSE d.tabs[i]) /\ tabs[i].id = d.tabs[i].id
             /\ tabs[i] \in Tabs /\ WellShown(tabs[i])
  <2>1. d.tabs[i].id = tab.id <=> i = k BY <1>1, <1>3 DEF GoodTabs
  <2>2. d.tabs[i] \in Tabs /\ WellShown(d.tabs[i]) BY <1>1, <1>3 DEF GoodTabs
  <2> QED BY <1>3, <2>1, <2>2
<1>5. DOMAIN tabs = 1 .. l /\ tabs \in [1 .. l -> Tabs]
  <2>1. tabs = [i \in 1 .. l |-> tabs[i]] BY <1>3
  <2>2. DOMAIN tabs = 1 .. l BY <1>3
  <2> HIDE DEF tabs
  <2> QED BY <1>4, <2>1, <2>2
<1> HIDE DEF tabs
<1>6. GoodTabs(tabs)
  <2>1. tabs \in Seq(Tabs) BY <1>3, <1>5
  <2>2. 1 .. l # {} BY <1>3
  <2>3. tabs # <<>>
    <3>1. DOMAIN <<>> = {} OBVIOUS
    <3> QED BY <1>5, <2>2, <3>1
  <2>4. \A i, j \in 1 .. l : tabs[i].id = tabs[j].id => i = j
    BY <1>1, <1>3, <1>4 DEF GoodTabs
  <2> QED BY <1>4, <1>5, <2>1, <2>3, <2>4 DEF GoodTabs
<1>7. OwnInstances(tabs, sessions)
  <2>1. ASSUME NEW i \in 1 .. l, NEW p \in Panes, tabs[i].panes[p] # NoInstance
        PROVE  tabs[i].panes[p] \in DOMAIN sessions
    BY <1>1, <1>3, <1>4, <2>1 DEF OwnInstances
  <2>2. ASSUME NEW i \in 1 .. l, NEW j \in 1 .. l, NEW p \in Panes, NEW q \in Panes,
               tabs[i].panes[p] # NoInstance, tabs[i].panes[p] = tabs[j].panes[q]
        PROVE  i = j /\ p = q
    <3>1. CASE i = k /\ j = k BY <1>4, <2>2, <3>1
    <3>2. CASE i # k /\ j # k
      <4>1. d.tabs[i].panes[p] # NoInstance /\ d.tabs[i].panes[p] = d.tabs[j].panes[q]
        BY <1>4, <2>2, <3>2
      <4> QED BY <1>1, <1>3, <4>1 DEF OwnInstances
    <3>3. CASE i = k /\ j # k
      <4>1. tab.panes[p] # NoInstance /\ tab.panes[p] = d.tabs[j].panes[q] BY <1>4, <2>2, <3>3
      <4>2. tab.panes[p] \in DOMAIN d.sessions BY <1>1, <1>3, <4>1 DEF OwnInstances
      <4>3. d.tabs[k].panes[p] = d.tabs[j].panes[q] /\ d.tabs[k].panes[p] # NoInstance
        BY <4>1, <4>2
      <4> QED BY <1>1, <3>3, <4>3, <1>3 DEF OwnInstances
    <3>4. CASE i # k /\ j = k
      <4>1. tab.panes[q] # NoInstance /\ tab.panes[q] = d.tabs[i].panes[p] BY <1>4, <2>2, <3>4
      <4>2. tab.panes[q] \in DOMAIN d.sessions BY <1>1, <1>3, <4>1 DEF OwnInstances
      <4>3. d.tabs[k].panes[q] = d.tabs[i].panes[p] /\ d.tabs[k].panes[q] # NoInstance
        BY <4>1, <4>2
      <4> QED BY <1>1, <3>4, <4>3, <1>3 DEF OwnInstances
    <3> QED BY <3>1, <3>2, <3>3, <3>4
  <2> QED BY <1>5, <2>1, <2>2 DEF OwnInstances
<1>8. \A i \in 1 .. l : tabs[i].id < m
  <2> SUFFICES ASSUME NEW i \in 1 .. l PROVE tabs[i].id < m OBVIOUS
  <2>1. d.tabs[i].id \in Nat BY <1>3 DEF Tabs
  <2>2. d.tabs[i].id < n BY <1>3 DEF GoodDocument
  <2> QED BY <1>4, <2>1, <2>2
<1>9. d.active \in TabIds(tabs)
  <2>1. PICK i \in 1 .. l : d.active = d.tabs[i].id BY <1>3 DEF GoodDocument, TabIds
  <2> QED BY <1>4, <1>5, <2>1 DEF TabIds
<1>10. IsRecord(e) /\ e.sessions = sessions /\ e.session = d.session /\ e.tabs = tabs /\ e.active = d.active
  BY DEF IsRecord
<1> HIDE DEF e
<1>11. GoodDocument(e, m) BY <1>5, <1>6, <1>7, <1>8, <1>9, <1>10 DEF GoodDocument
<1>12. NormalWorkspace(e) = e BY <1>11, WorkspaceNormal DEF GoodDocument
<1> QED BY <1>2, <1>11, <1>12

LEMMA FocusedPaneSet ==
  ASSUME NEW n \in Nat, NEW d, GoodDocument(d, n), NEW pane \in Panes
  PROVE  GoodDocument(SetFocusedPane(d, pane), n)
<1> DEFINE tab == ActiveTab(d)
           focused == [tab EXCEPT !.focus = pane]
<1>1. PICK k \in DOMAIN d.tabs : tab = d.tabs[k] BY TabFound
<1>2. tab \in Tabs /\ WellShown(tab) BY <1>1 DEF GoodDocument, GoodTabs
<1>3. CASE pane \notin ShownPanes(tab) BY <1>3 DEF SetFocusedPane
<1>4. CASE pane \in ShownPanes(tab)
  <2>1. SetFocusedPane(d, pane) = ReplaceTab(d, focused) BY <1>4 DEF SetFocusedPane
  <2>2. IsRecord(d) /\ SessionsBelow(d.sessions, n) /\ OwnInstances(d.tabs, d.sessions)
        /\ d.session = d.sessions[PRIMARY_EXPLORER_INSTANCE_ID]
    BY DEF GoodDocument
  <2>3. [d EXCEPT !.sessions = d.sessions] = d BY ONLY <2>2 DEF IsRecord
  <2> HIDE DEF tab
  <2>4. /\ focused \in Tabs /\ focused.panes = tab.panes /\ focused.layout = tab.layout
        /\ focused.focus = pane /\ focused.id = tab.id
    BY <1>2 DEF Tabs
  <2> HIDE DEF focused
  <2>5. WellShown(focused)
    BY <1>2, <1>4, <2>4 DEF WellShown, ShownPanes, OccupiedPanes
  <2>6. \A p, q \in Panes : focused.panes[p] # NoInstance =>
          /\ focused.panes[p] \in DOMAIN d.sessions
          /\ focused.panes[p] = d.tabs[k].panes[p]
          /\ focused.panes[p] = focused.panes[q] => p = q
    BY <1>1, <2>2, <2>4 DEF OwnInstances
  <2>7. GoodDocument(ReplaceTab([d EXCEPT !.sessions = d.sessions], focused), n)
    <3>1. n <= n /\ focused.id = d.tabs[k].id BY <1>1, <2>4
    <3> QED BY <2>2, <2>4, <2>5, <2>6, <3>1, TabReplaced
  <2> QED BY <2>1, <2>3, <2>7
<1> QED BY <1>3, <1>4

LEMMA LayoutSet ==
  ASSUME NEW n \in Nat, NEW d, GoodDocument(d, n), NEW layout \in Layouts
  PROVE  GoodDocument(SetWorkspaceLayoutMode(d, layout, n), n + 5)
<1> DEFINE tab == [ActiveTab(d) EXCEPT !.layout = layout]
           missing == VisiblePanes(layout) \ OccupiedPanes(tab)
           content == SessionOf(d, SourceInstance(tab))
           panes == [p \in Panes |-> IF p \in missing THEN n + p ELSE tab.panes[p]]
           filled == [tab EXCEPT !.panes = panes]
           clones == {n + p : p \in missing}
           new == [c \in clones |-> content]
           sessions == Spread(d.sessions, new)
           normal == NormalTab(filled)
<1>1. SetWorkspaceLayoutMode(d, layout, n) = ReplaceTab([d EXCEPT !.sessions = sessions], normal)
  BY DEF SetWorkspaceLayoutMode
<1>2. PICK k \in DOMAIN d.tabs : ActiveTab(d) = d.tabs[k] BY TabFound
<1>3. d.tabs[k] \in Tabs /\ OwnInstances(d.tabs, d.sessions) /\ SessionsBelow(d.sessions, n)
      /\ d.session = d.sessions[PRIMARY_EXPLORER_INSTANCE_ID]
  BY <1>2 DEF GoodDocument, GoodTabs
<1>4. /\ tab \in Tabs /\ tab.panes = d.tabs[k].panes /\ tab.layout = layout
      /\ tab.id = d.tabs[k].id
  BY <1>2, <1>3 DEF Tabs
<1> HIDE DEF tab
<1>5. missing \subseteq Panes /\ \A p \in missing : tab.panes[p] = NoInstance
  BY Visible DEF OccupiedPanes
<1>6. /\ panes \in [Panes -> Nat]
      /\ \A p \in Panes : panes[p] = IF p \in missing THEN n + p ELSE tab.panes[p]
  BY <1>4, <1>5 DEF Tabs, Panes
<1>7. clones \in SUBSET (n .. (n + 4)) /\ \A p \in missing : n + p \in clones
  BY <1>5 DEF Panes
<1>8. new \in [clones -> Contents] BY SessionOfContents
<1>9. \A p \in VisiblePanes(layout) : panes[p] # NoInstance
  BY <1>5, <1>6, Visible DEF OccupiedPanes, Panes, NoInstance
<1> HIDE DEF missing, panes, clones, new
<1>10. /\ filled \in Tabs /\ filled.panes = panes /\ filled.layout = layout
       /\ filled.id = tab.id
  BY <1>4, <1>6 DEF Tabs
<1> HIDE DEF filled
<1>11. ShownPanes(filled) = VisiblePanes(layout) /\ ShownPanes(filled) # {}
  BY <1>9, <1>10, Visible DEF ShownPanes, OccupiedPanes
<1>12. /\ normal \in Tabs /\ normal.panes = panes /\ normal.layout = layout
       /\ normal.id = tab.id /\ normal.focus \in ShownPanes(filled)
  <2> DEFINE focus == IF filled.focus \in ShownPanes(filled) THEN filled.focus
                      ELSE Min(ShownPanes(filled))
  <2>1. focus \in ShownPanes(filled)
    <3>1. ShownPanes(filled) \subseteq Nat BY <1>11, Visible DEF Panes
    <3> QED BY <1>11, <3>1, SmallestOf
  <2>2. focus \in Panes BY <1>11, <2>1, Visible
  <2>3. normal = [filled EXCEPT !.focus = focus] BY <1>11 DEF NormalTab
  <2> HIDE DEF focus, normal
  <2> QED BY <1>10, <2>1, <2>2, <2>3 DEF Tabs
<1> HIDE DEF normal
<1>13. WellShown(normal)
  BY <1>10, <1>11, <1>12 DEF WellShown, ShownPanes, OccupiedPanes
<1>14. PICK m \in Nat : m = n + 5 OBVIOUS
<1>15. n <= m /\ clones \in SUBSET (0 .. (m - 1))
  <2>1. \A i \in n .. (n + 4) : i \in 0 .. (m - 1) BY <1>14
  <2> QED BY <1>7, <1>14, <2>1
<1>16. /\ SessionsBelow(sessions, m) /\ DOMAIN sessions = DOMAIN d.sessions \cup clones
       /\ \A i \in DOMAIN d.sessions \ clones : sessions[i] = d.sessions[i]
  BY <1>3, <1>8, <1>14, <1>15, SpreadBelow
<1> HIDE DEF sessions
<1>17. \A x \in clones : x \notin DOMAIN d.sessions
  <2>1. \A i \in n .. (n + 4) : i \notin 0 .. (n - 1) OBVIOUS
  <2> QED BY <1>3, <1>7, <2>1 DEF SessionsBelow
<1>18. sessions[PRIMARY_EXPLORER_INSTANCE_ID] = d.session
  BY <1>3, <1>16, <1>17 DEF SessionsBelow
<1>19. ASSUME NEW p \in Panes, panes[p] # NoInstance
       PROVE  /\ panes[p] \in DOMAIN sessions
              /\ panes[p] = d.tabs[k].panes[p] \/ panes[p] \notin DOMAIN d.sessions
  <2>1. CASE p \in missing
    <3>1. panes[p] \in clones BY <1>6, <1>7, <2>1
    <3> QED BY <1>16, <1>17, <3>1
  <2>2. CASE p \notin missing
    <3>1. panes[p] = d.tabs[k].panes[p] BY <1>4, <1>6, <2>2
    <3>2. panes[p] \in DOMAIN d.sessions BY <1>3, <1>19, <3>1 DEF OwnInstances
    <3> QED BY <1>16, <3>1, <3>2
  <2> QED BY <2>1, <2>2
<1>20. ASSUME NEW p \in Panes, NEW q \in Panes, panes[p] # NoInstance, panes[p] = panes[q]
       PROVE  p = q
  <2>1. ASSUME NEW x \in Panes, x \notin missing, panes[x] # NoInstance
        PROVE  panes[x] = d.tabs[k].panes[x] /\ panes[x] \notin clones
    <3>1. panes[x] = d.tabs[k].panes[x] BY <1>4, <1>6, <2>1
    <3>2. panes[x] \in DOMAIN d.sessions BY <1>3, <2>1, <3>1 DEF OwnInstances
    <3> QED BY <1>17, <3>1, <3>2
  <2>2. CASE p \in missing /\ q \in missing
    <3>1. n + p = n + q BY <1>6, <1>20, <2>2
    <3> QED BY <3>1 DEF Panes
  <2>3. CASE p \in missing /\ q \notin missing
    <3>1. panes[p] \in clones BY <1>6, <1>7, <2>3
    <3> QED BY <1>20, <2>1, <2>3, <3>1
  <2>4. CASE p \notin missing /\ q \in missing
    <3>1. panes[q] \in clones BY <1>6, <1>7, <2>4
    <3> QED BY <1>20, <2>1, <2>4, <3>1
  <2>5. CASE p \notin missing /\ q \notin missing
    <3>1. d.tabs[k].panes[p] # NoInstance /\ d.tabs[k].panes[p] = d.tabs[k].panes[q]
      BY <1>20, <2>1, <2>5
    <3> QED BY <1>3, <3>1 DEF OwnInstances
  <2> QED BY <2>2, <2>3, <2>4, <2>5
<1>21. GoodDocument(ReplaceTab([d EXCEPT !.sessions = sessions], normal), m)
  <2>1. normal.id = d.tabs[k].id BY <1>4, <1>12
  <2>2. DOMAIN d.sessions \subseteq DOMAIN sessions BY <1>16
  <2>3. \A p \in Panes : normal.panes[p] # NoInstance =>
           /\ normal.panes[p] \in DOMAIN sessions
           /\ normal.panes[p] = d.tabs[k].panes[p] \/ normal.panes[p] \notin DOMAIN d.sessions
    BY <1>12, <1>19
  <2>4. \A p, q \in Panes : normal.panes[p] # NoInstance /\ normal.panes[p] = normal.panes[q]
                              => p = q
    BY <1>12, <1>20
  <2> QED BY <1>12, <1>13, <1>14, <1>15, <1>16, <1>18, <2>1, <2>2, <2>3, <2>4, TabReplaced
<1> QED BY <1>1, <1>14, <1>21

LEMMA TabsUpdate ==
  ASSUME NEW d, IsRecord(d), NEW tabs, NEW active,
         NEW e, e = [d EXCEPT !.tabs = tabs, !.active = active]
  PROVE  e = [sessions |-> d.sessions, session |-> d.session, tabs |-> tabs, active |-> active]
BY DEF IsRecord

LEMMA SessionsUpdate ==
  ASSUME NEW d, IsRecord(d), NEW sessions, NEW session,
         NEW e, e = [d EXCEPT !.sessions = sessions, !.session = session]
  PROVE  e = [sessions |-> sessions, session |-> session, tabs |-> d.tabs, active |-> d.active]
BY DEF IsRecord

\* Closing one of several tabs drops the sessions no other pane has.
LEMMA TabClosed ==
  ASSUME NEW n \in Nat, NEW d, GoodDocument(d, n), NEW id \in TabIds(d.tabs), Len(d.tabs) > 1
  PROVE  GoodDocument(CloseWorkspaceTab(d, id), n)
<1> DEFINE l == Len(d.tabs)
           m == Min({i \in DOMAIN d.tabs : d.tabs[i].id = id})
           rest == TabsAt(d.tabs, {i \in DOMAIN d.tabs : d.tabs[i].id # id})
           active == IF d.active = id THEN rest[Min({m, Len(rest)})].id ELSE d.active
           next == [d EXCEPT !.tabs = rest, !.active = active]
           kept == DOMAIN d.sessions \cap SessionsToKeep(rest)
           sessions == Restrict(d.sessions, kept)
           e == [sessions |-> sessions, session |-> d.session, tabs |-> rest, active |-> active]
<1>1. IsRecord(d) /\ GoodTabs(d.tabs) /\ OwnInstances(d.tabs, d.sessions)
      /\ SessionsBelow(d.sessions, n) /\ d.session = d.sessions[PRIMARY_EXPLORER_INSTANCE_ID]
  BY DEF GoodDocument
<1>2. d.tabs \in Seq(Tabs) /\ l \in Nat /\ DOMAIN d.tabs = 1 .. l /\ d.tabs \in [1 .. l -> Tabs]
  BY <1>1 DEF GoodTabs
<1>3. m \in 1 .. l /\ d.tabs[m].id = id BY <1>1, <1>2, SmallestPosition
<1> HIDE DEF m
<1>4. rest = Without(d.tabs, m, l)
  <2>1. {i \in DOMAIN d.tabs : d.tabs[i].id # id} = (1 .. l) \ {m}
    BY <1>1, <1>2, <1>3 DEF GoodTabs
  <2>2. m \in 1 .. (l + 1) BY <1>2, <1>3
  <2> HIDE DEF l
  <2>3. TabsAt(d.tabs, (1 .. l) \ {m}) = Without(d.tabs, m, l) BY <1>2, <2>2, TabsAtWithout
  <2> QED BY <2>1, <2>3
<1> DEFINE from(i) == IF i < m THEN i ELSE i + 1
<1>5. l > 1 OBVIOUS
<1> HIDE DEF l, rest
<1>6. /\ l - 1 \in Nat \ {0} /\ rest \in Seq(Tabs) /\ Len(rest) = l - 1 /\ DOMAIN rest = 1 .. (l - 1)
      /\ \A i \in 1 .. (l - 1) : from(i) \in 1 .. l /\ from(i) # m /\ rest[i] = d.tabs[from(i)]
  <2>1. rest = [i \in 1 .. (l - 1) |-> IF i < m THEN d.tabs[i] ELSE d.tabs[i + 1]]
    BY <1>3, <1>4 DEF Without
  <2>2. \A i \in 1 .. (l - 1) : from(i) \in 1 .. l /\ from(i) # m BY <1>2, <1>3
  <2>3. \A i \in 1 .. (l - 1) : rest[i] = d.tabs[from(i)] BY <2>1
  <2>4. \A i \in 1 .. (l - 1) : rest[i] \in Tabs
    <3> HIDE DEF from
    <3> QED BY <1>2, <2>2, <2>3
  <2>5. l - 1 \in Nat \ {0} BY <1>2, <1>5
  <2>6. rest \in [1 .. (l - 1) -> Tabs] BY <2>1, <2>4
  <2> HIDE DEF from
  <2>7. rest \in Seq(Tabs) /\ Len(rest) = l - 1 /\ DOMAIN rest = 1 .. (l - 1) BY <2>5, <2>6
  <2> QED BY <2>2, <2>3, <2>5, <2>7
<1>7. \A i, j \in 1 .. (l - 1) : from(i) = from(j) => i = j BY <1>2, <1>3
<1>8. ASSUME NEW j \in 1 .. l, j # m PROVE \E i \in 1 .. (l - 1) : from(i) = j
  <2> DEFINE i == IF j < m THEN j ELSE j - 1
  <2>1. i \in 1 .. (l - 1) /\ from(i) = j BY <1>2, <1>3, <1>8
  <2> QED BY <2>1
<1> HIDE DEF from
<1>9. GoodTabs(rest)
  <2>1. rest # <<>> BY <1>6
  <2>2. \A i \in 1 .. (l - 1) : WellShown(rest[i]) BY <1>1, <1>2, <1>6 DEF GoodTabs
  <2>3. \A i, j \in 1 .. (l - 1) : rest[i].id = rest[j].id => i = j
    <3> SUFFICES ASSUME NEW i \in 1 .. (l - 1), NEW j \in 1 .. (l - 1), rest[i].id = rest[j].id
                 PROVE  i = j
      OBVIOUS
    <3>1. from(i) \in 1 .. l /\ from(j) \in 1 .. l /\ d.tabs[from(i)].id = d.tabs[from(j)].id
      BY <1>6
    <3>2. from(i) = from(j) BY <1>1, <1>2, <3>1 DEF GoodTabs
    <3> QED BY <1>7, <3>2
  <2> QED BY <1>6, <2>1, <2>2, <2>3 DEF GoodTabs
<1>10. active \in TabIds(rest)
  <2>1. CASE d.active = id
    <3>1. Len(rest) \in 1 .. (l - 1) /\ Len(rest) = l - 1 /\ m \in 1 .. l
          /\ {m, Len(rest)} \in SUBSET Nat
      BY <1>2, <1>3, <1>6
    <3>2. Min({m, Len(rest)}) \in 1 .. (l - 1)
      <4>1. PICK p \in {m, Len(rest)} : \A q \in {m, Len(rest)} : p <= q BY <3>1, SmallestNumber
      <4> DEFINE smallest == CHOOSE x \in {m, Len(rest)} : \A y \in {m, Len(rest)} : x <= y
      <4>2. smallest \in {m, Len(rest)} /\ smallest <= Len(rest) BY <4>1
      <4>3. Min({m, Len(rest)}) = smallest BY DEF Min
      <4> HIDE DEF smallest
      <4> QED BY <1>2, <3>1, <4>2, <4>3
    <3> QED BY <1>6, <2>1, <3>2 DEF TabIds
  <2>2. CASE d.active # id
    <3>1. PICK j \in 1 .. l : d.tabs[j].id = d.active BY <1>2 DEF GoodDocument, TabIds
    <3>2. j # m BY <1>3, <2>2, <3>1
    <3>3. PICK i \in 1 .. (l - 1) : from(i) = j BY <1>8, <3>2
    <3>4. rest[i].id = d.active BY <1>6, <3>1, <3>3
    <3> QED BY <1>6, <2>2, <3>4 DEF TabIds
  <2> QED BY <2>1, <2>2
<1> HIDE DEF active
<1>11. /\ IsRecord(next) /\ next.sessions = d.sessions /\ next.tabs = rest /\ next.active = active
       /\ [next EXCEPT !.sessions = sessions, !.session = d.session] = e
  <2>1. next = [sessions |-> d.sessions, session |-> d.session, tabs |-> rest, active |-> active]
    <3> DEFINE f == next
    <3>1. f = [d EXCEPT !.tabs = rest, !.active = active] OBVIOUS
    <3> HIDE DEF f
    <3>2. f = [sessions |-> d.sessions, session |-> d.session, tabs |-> rest, active |-> active]
      BY ONLY <1>1, <3>1, TabsUpdate
    <3> QED BY <3>2 DEF f
  <2> HIDE DEF next, sessions
  <2>2. /\ next.sessions = d.sessions /\ next.session = d.session
        /\ next.tabs = rest /\ next.active = active
    BY ONLY <2>1
  <2>3. IsRecord(next) BY ONLY <2>1, <2>2 DEF IsRecord
  <2>4. [next EXCEPT !.sessions = sessions, !.session = next.session]
           = [sessions |-> sessions, session |-> next.session, tabs |-> next.tabs, active |-> next.active]
    <3> DEFINE f == [next EXCEPT !.sessions = sessions, !.session = next.session]
    <3>1. f = [next EXCEPT !.sessions = sessions, !.session = next.session] OBVIOUS
    <3> HIDE DEF f
    <3>2. f = [sessions |-> sessions, session |-> next.session, tabs |-> next.tabs, active |-> next.active]
      BY ONLY <2>3, <3>1, SessionsUpdate
    <3> QED BY <3>2 DEF f
  <2> QED BY <2>2, <2>3, <2>4
<1>12. NormalWorkspace(next) = next
  <2> HIDE DEF next
  <2> QED BY <1>9, <1>10, <1>11, WorkspaceNormal
<1>13. CloseWorkspaceTab(d, id) = NormalWorkspace(e)
  <2>1. CloseWorkspaceTab(d, id) =
          NormalWorkspace([NormalWorkspace(next) EXCEPT
             !.sessions = Restrict(@, DOMAIN @ \cap SessionsToKeep(NormalWorkspace(next).tabs)),
             !.session = d.sessions[PRIMARY_EXPLORER_INSTANCE_ID]])
    BY DEF CloseWorkspaceTab, next, active, rest, m
  <2> HIDE DEF next, e
  <2> QED BY <1>1, <1>11, <1>12, <2>1
<1>14. /\ SessionsBelow(sessions, n) /\ DOMAIN sessions = kept
       /\ \A i \in kept : sessions[i] = d.sessions[i]
       /\ PRIMARY_EXPLORER_INSTANCE_ID \in kept
  <2>1. sessions = [i \in kept |-> d.sessions[i]] BY DEF Restrict
  <2>2. PRIMARY_EXPLORER_INSTANCE_ID \in kept BY <1>1 DEF SessionsToKeep, SessionsBelow
  <2>3. kept \subseteq DOMAIN d.sessions OBVIOUS
  <2> HIDE DEF kept, sessions
  <2>4. sessions \in [kept -> Contents] BY <1>1, <2>1, <2>3 DEF SessionsBelow
  <2> QED BY <1>1, <2>1, <2>2, <2>3, <2>4 DEF SessionsBelow
<1> HIDE DEF sessions
<1>15. OwnInstances(rest, sessions)
  <2>1. ASSUME NEW i \in 1 .. (l - 1), NEW p \in Panes, rest[i].panes[p] # NoInstance
        PROVE  rest[i].panes[p] \in DOMAIN sessions
    <3>1. rest[i].panes[p] \in DOMAIN d.sessions
      <4>1. from(i) \in DOMAIN d.tabs /\ rest[i].panes[p] = d.tabs[from(i)].panes[p] BY <1>2, <1>6
      <4> QED BY <1>1, <2>1, <4>1 DEF OwnInstances
    <3>2. rest[i].panes[p] \in ReferencedInstances(rest)
      BY <1>6, <2>1 DEF ReferencedInstances, OccupiedPanes
    <3> QED BY <1>14, <3>1, <3>2 DEF SessionsToKeep
  <2>2. ASSUME NEW i \in 1 .. (l - 1), NEW j \in 1 .. (l - 1), NEW p \in Panes, NEW q \in Panes,
               rest[i].panes[p] # NoInstance, rest[i].panes[p] = rest[j].panes[q]
        PROVE  i = j /\ p = q
    <3>1. from(i) \in 1 .. l /\ from(j) \in 1 .. l
          /\ d.tabs[from(i)].panes[p] # NoInstance
          /\ d.tabs[from(i)].panes[p] = d.tabs[from(j)].panes[q]
      BY <1>6, <2>2
    <3>2. from(i) = from(j) /\ p = q BY <1>1, <1>2, <3>1 DEF OwnInstances
    <3> QED BY <1>7, <3>2
  <2> QED BY <1>6, <2>1, <2>2 DEF OwnInstances
<1>16. \A i \in 1 .. (l - 1) : rest[i].id < n BY <1>2, <1>6 DEF GoodDocument
<1>17. IsRecord(e) /\ e.sessions = sessions /\ e.session = d.session /\ e.tabs = rest /\ e.active = active
  BY DEF IsRecord
<1> HIDE DEF e, kept
<1>18. GoodDocument(e, n)
  BY <1>1, <1>6, <1>9, <1>10, <1>14, <1>15, <1>16, <1>17 DEF GoodDocument
<1>19. NormalWorkspace(e) = e BY <1>18, WorkspaceNormal DEF GoodDocument
<1> QED BY <1>13, <1>18, <1>19

-----------------------------------------------------------------------------
(* Every step keeps the invariant.                                            *)

LEMMA ReferencedKnown ==
  ASSUME NEW n, NEW d, GoodDocument(d, n)
  PROVE  ReferencedInstances(d.tabs) \subseteq DOMAIN d.sessions
<1> SUFFICES ASSUME NEW x \in ReferencedInstances(d.tabs) PROVE x \in DOMAIN d.sessions
  OBVIOUS
<1>1. PICK i \in DOMAIN d.tabs, p \in Panes :
         d.tabs[i].panes[p] # NoInstance /\ x = d.tabs[i].panes[p]
  BY DEF ReferencedInstances, OccupiedPanes
<1> QED BY <1>1 DEF GoodDocument, OwnInstances

LEMMA DefaultGood == \A n \in Nat : n >= 5 => GoodDocument(DefaultDocument, n)
<1> SUFFICES ASSUME NEW n \in Nat, n >= 5 PROVE GoodDocument(DefaultDocument, n)
  OBVIOUS
<1> DEFINE d == DefaultDocument
           panes == [EmptyPaneSlots EXCEPT ![1] = PRIMARY_EXPLORER_INSTANCE_ID]
           tab == [id |-> PRIMARY_EXPLORER_TAB_ID, layout |-> "single", focus |-> 1,
                   panes |-> panes]
<1>1. /\ d.sessions = DefaultSessions /\ d.session = DefaultContent
      /\ d.tabs = DefaultWorkspaceTabs /\ d.active = PRIMARY_EXPLORER_TAB_ID /\ IsRecord(d)
  BY DEF DefaultDocument, IsRecord
<1>2. d.tabs = <<tab>> BY <1>1 DEF DefaultWorkspaceTabs
<1> HIDE DEF d
<1>3. /\ panes \in [Panes -> Nat] /\ panes[1] = 1
      /\ \A p \in Panes : panes[p] # NoInstance => p = 1
  BY DEF EmptyPaneSlots, Panes, NoInstance, PRIMARY_EXPLORER_INSTANCE_ID
<1> HIDE DEF panes
<1>4. tab \in Tabs /\ tab.panes = panes /\ tab.layout = "single" /\ tab.focus = 1 /\ tab.id = 1
  BY <1>3 DEF Tabs, Layouts, Panes, PRIMARY_EXPLORER_TAB_ID
<1> HIDE DEF tab
<1>5. WellShown(tab)
  <2>1. VisiblePanes(tab.layout) = {1} BY <1>4 DEF VisiblePanes
  <2>2. 1 \in OccupiedPanes(tab) BY <1>3, <1>4 DEF OccupiedPanes, Panes, NoInstance
  <2> QED BY <1>4, <2>1, <2>2 DEF WellShown, ShownPanes
<1>6. /\ d.tabs \in Seq(Tabs) /\ d.tabs # <<>> /\ DOMAIN d.tabs = {1} /\ d.tabs[1] = tab
  BY <1>2, <1>4
<1>7. GoodTabs(d.tabs) BY <1>5, <1>6 DEF GoodTabs
<1>8. DOMAIN d.sessions = {1} /\ d.sessions = [i \in {1} |-> DefaultContent]
  BY <1>1 DEF DefaultSessions, PRIMARY_EXPLORER_INSTANCE_ID
<1>9. SessionsBelow(d.sessions, n) /\ d.session = d.sessions[PRIMARY_EXPLORER_INSTANCE_ID]
  BY <1>1, <1>8, DefaultAssumption DEF SessionsBelow, PRIMARY_EXPLORER_INSTANCE_ID
<1>10. OwnInstances(d.tabs, d.sessions)
  BY <1>3, <1>4, <1>6, <1>8 DEF OwnInstances
<1>11. d.active \in TabIds(d.tabs) /\ \A i \in DOMAIN d.tabs : d.tabs[i].id < n
  BY <1>1, <1>4, <1>6 DEF TabIds, PRIMARY_EXPLORER_TAB_ID
<1>12. GoodDocument(d, n) BY <1>1, <1>7, <1>9, <1>10, <1>11 DEF GoodDocument
<1> QED BY <1>12 DEF d

LEMMA FreshNumber ==
  StoreInv => Fresh \in Nat /\ Fresh >= 5 /\ edits \in Nat
BY StoreAssumption DEF StoreInv, Fresh, IdsPerEdit

LEMMA TextOfGood ==
  ASSUME NEW n, NEW value, GoodValue(value, n), Decodes(value)
  PROVE  GoodDocument(value.of, n) /\ value = Text(value.of)
BY Values DEF GoodValue

LEMMA LoadedGood == StoreInv => GoodDocument(Loaded, Fresh)
<1> SUFFICES ASSUME StoreInv PROVE GoodDocument(Loaded, Fresh) OBVIOUS
<1>1. GoodValue(primary, Fresh) /\ GoodValue(backup, Fresh) BY DEF StoreInv
<1>2. CASE Decodes(primary)
  BY <1>1, <1>2, TextOfGood, DocumentNormal DEF Loaded
<1>3. CASE ~Decodes(primary) /\ primary # Absent /\ Decodes(backup)
  BY <1>1, <1>3, TextOfGood, DocumentNormal DEF Loaded
<1>4. CASE ~Decodes(primary) /\ ~(primary # Absent /\ Decodes(backup))
  BY <1>4, FreshNumber, DefaultGood DEF Loaded
<1> QED BY <1>2, <1>3, <1>4

LEMMA KnownBelow == StoreInv => KnownInstances \subseteq 0 .. (Fresh - 1)
<1> SUFFICES ASSUME StoreInv PROVE KnownInstances \subseteq 0 .. (Fresh - 1) OBVIOUS
<1>1. ASSUME NEW d, GoodDocument(d, Fresh)
      PROVE  ReferencedInstances(d.tabs) \subseteq 0 .. (Fresh - 1)
  BY <1>1, ReferencedKnown DEF GoodDocument, SessionsBelow
<1>2. \A w \in open : GoodDocument(doc[w], Fresh) BY DEF StoreInv
<1>3. \A value \in {v \in {primary, backup} : Decodes(v)} : GoodDocument(value.of, Fresh)
  <2>1. GoodValue(primary, Fresh) /\ GoodValue(backup, Fresh) BY DEF StoreInv
  <2> QED BY <2>1, TextOfGood
<1>4. \A d \in {doc[w] : w \in open}
               \cup {value.of : value \in {v \in {primary, backup} : Decodes(v)}} :
         GoodDocument(d, Fresh)
  BY <1>2, <1>3
<1> QED BY <1>1, <1>4 DEF KnownInstances

\* Values stay well formed when more ids are in use.
LEMMA ValueBelowMore ==
  ASSUME NEW n \in Nat, NEW k \in Nat, n <= k, NEW value, GoodValue(value, n)
  PROVE  GoodValue(value, k)
BY DocumentBelowMore DEF GoodValue

\* An edit uses up the ids it got.
LEMMA EditKeeps ==
  ASSUME StoreInv, NEW w \in Windows, NEW d, GoodDocument(d, Fresh + 5), Edit(w, d)
  PROVE  StoreInv'
<1>1. Fresh \in Nat /\ edits \in Nat BY FreshNumber
<1>2. PICK n \in Nat : n = Fresh BY <1>1
<1>3. PICK k \in Nat : k = n + 5 OBVIOUS
<1>4. /\ open' = open /\ primary' = primary /\ backup' = backup /\ events' = events
      /\ unsaved' = unsaved /\ faults' = faults /\ edits' = edits + 1
      /\ doc' = [doc EXCEPT ![w] = d] /\ timer' = [timer EXCEPT ![w] = TRUE]
  BY DEF Edit, Rescheduled, storageVars
<1>5. Fresh' = k /\ n <= k
  BY <1>1, <1>2, <1>3, <1>4 DEF Fresh, IdsPerEdit
<1>6. edits' \in 0 .. MaxEdits
  <2>1. edits + 1 <= MaxMixedEdits \/ edits + 1 <= MaxEdits BY DEF Edit, WithinBound
  <2>2. MaxMixedEdits \in Nat /\ MaxEdits \in Nat /\ MaxMixedEdits <= MaxEdits
    BY StoreAssumption
  <2> QED BY <1>1, <1>4, <2>1, <2>2
<1>7. \A v \in Windows : GoodDocument(doc'[v], k)
  <2> SUFFICES ASSUME NEW v \in Windows PROVE GoodDocument(doc'[v], k) OBVIOUS
  <2>1. CASE v = w BY <1>2, <1>3, <1>4, <2>1 DEF StoreInv
  <2>2. CASE v # w
    <3>1. doc'[v] = doc[v] /\ GoodDocument(doc[v], n) BY <1>2, <1>4, <2>2 DEF StoreInv
    <3> QED BY <1>5, <3>1, DocumentBelowMore
  <2> QED BY <2>1, <2>2
<1>8. GoodValue(primary', k) /\ GoodValue(backup', k)
  <2>1. GoodValue(primary, n) /\ GoodValue(backup, n) BY <1>2 DEF StoreInv
  <2> QED BY <1>4, <1>5, <2>1, ValueBelowMore
<1>9. timer' \in [Windows -> BOOLEAN] /\ DOMAIN doc' = Windows BY <1>4 DEF StoreInv
<1> QED BY <1>4, <1>5, <1>6, <1>7, <1>8, <1>9 DEF StoreInv

LEMMA EditsKeep ==
  ASSUME StoreInv, NEW w \in Windows,
         \/ UpdateSessionForInstance(w) \/ CopySessionOf(w) \/ ResetSession(w)
         \/ CreateTab(w) \/ DuplicateTab(w) \/ CloseTab(w)
         \/ FocusTab(w) \/ SetLayout(w) \/ FocusPane(w)
  PROVE  StoreInv'
<1>1. PICK n \in Nat : n = Fresh /\ n >= 5 BY FreshNumber
<1>2. GoodDocument(doc[w], n) BY <1>1 DEF StoreInv
<1>3. SessionsBelow(doc[w].sessions, n) BY <1>2 DEF GoodDocument
<1>4. ASSUME NEW d, Edit(w, d), GoodDocument(d, n) PROVE StoreInv'
  <2>1. PICK k \in Nat : k = n + 5 OBVIOUS
  <2>2. GoodDocument(d, k) BY <1>4, <2>1, DocumentBelowMore
  <2> QED BY <1>1, <1>4, <2>1, <2>2, EditKeeps
<1>5. ASSUME NEW d, Edit(w, d), GoodDocument(d, n + 5) PROVE StoreInv'
  BY <1>1, <1>5, EditKeeps
<1>6. ASSUME NEW id \in 0 .. (n - 1), NEW c \in Contents, Edit(w, WriteSession(doc[w], id, c))
      PROVE  StoreInv'
  BY <1>2, <1>4, <1>6, SessionWritten
<1>7. CASE UpdateSessionForInstance(w)
  <2>1. PICK id \in KnownInstances \cup {PRIMARY_EXPLORER_INSTANCE_ID}, c \in Contents :
           Edit(w, WriteSession(doc[w], id, c))
    BY <1>7 DEF UpdateSessionForInstance
  <2>2. PRIMARY_EXPLORER_INSTANCE_ID \in 0 .. (n - 1) BY <1>3 DEF SessionsBelow
  <2>3. id \in 0 .. (n - 1) BY <1>1, <2>1, <2>2, KnownBelow
  <2> QED BY <1>6, <2>1, <2>3
<1>8. CASE CopySessionOf(w)
  <2>1. PICK source, target \in ReferencedInstances(doc[w].tabs) :
           Edit(w, CopySession(doc[w], source, target))
    BY <1>8 DEF CopySessionOf
  <2>2. target \in 0 .. (n - 1) BY <1>2, <1>3, <2>1, ReferencedKnown DEF SessionsBelow
  <2>3. SessionOf(doc[w], source) \in Contents BY <1>2, SessionOfContents
  <2> QED BY <1>6, <2>1, <2>2, <2>3 DEF CopySession
<1>9. CASE ResetSession(w)
  BY <1>1, <1>4, <1>9, DefaultGood DEF ResetSession
<1>10. CASE CreateTab(w)
  <2>1. PICK source \in TabIds(doc[w].tabs), activate \in BOOLEAN :
           Edit(w, CreateWorkspaceTab(doc[w], source, activate, n))
    BY <1>1, <1>10 DEF CreateTab
  <2>2. GoodDocument(CreateWorkspaceTab(doc[w], source, activate, n), n + 5)
    BY <1>2, TabCreated
  <2> QED BY <1>5, <2>1, <2>2
<1>11. CASE DuplicateTab(w)
  <2>1. PICK source \in TabIds(doc[w].tabs) : Edit(w, DuplicateWorkspaceTab(doc[w], source, n))
    BY <1>1, <1>11 DEF DuplicateTab
  <2>2. GoodDocument(DuplicateWorkspaceTab(doc[w], source, n), n + 5)
    BY <1>2, TabDuplicated
  <2> QED BY <1>5, <2>1, <2>2
<1>12. CASE CloseTab(w)
  <2>1. PICK id \in TabIds(doc[w].tabs) : Edit(w, CloseWorkspaceTab(doc[w], id))
    BY <1>12 DEF CloseTab
  <2>2. Len(doc[w].tabs) > 1 BY <1>12 DEF CloseTab
  <2>3. GoodDocument(CloseWorkspaceTab(doc[w], id), n) BY <1>2, <2>2, TabClosed
  <2> QED BY <1>4, <2>1, <2>3
<1>13. CASE FocusTab(w)
  <2>1. PICK id \in TabIds(doc[w].tabs) : Edit(w, FocusWorkspaceTab(doc[w], id))
    BY <1>13 DEF FocusTab
  <2>2. GoodDocument(FocusWorkspaceTab(doc[w], id), n) BY <1>2, TabFocused
  <2> QED BY <1>4, <2>1, <2>2
<1>14. CASE SetLayout(w)
  <2>1. PICK layout \in LayoutsUsed : Edit(w, SetWorkspaceLayoutMode(doc[w], layout, n))
    BY <1>1, <1>14 DEF SetLayout
  <2>2. layout \in Layouts BY StoreAssumption
  <2>3. GoodDocument(SetWorkspaceLayoutMode(doc[w], layout, n), n + 5)
    BY <1>2, <2>2, LayoutSet
  <2> QED BY <1>5, <2>1, <2>3
<1>15. CASE FocusPane(w)
  <2>1. PICK p \in Panes : Edit(w, SetFocusedPane(doc[w], p)) BY <1>15 DEF FocusPane
  <2>2. GoodDocument(SetFocusedPane(doc[w], p), n) BY <1>2, FocusedPaneSet
  <2> QED BY <1>4, <2>1, <2>2
<1> QED BY <1>7, <1>8, <1>9, <1>10, <1>11, <1>12, <1>13, <1>14, <1>15

\* What a save of document d in window w does, whichever write is refused.
SaveOf(w, d) ==
  /\ primary' \in {primary, Text(d)} /\ backup' \in {primary, backup}
  /\ timer' = [timer EXCEPT ![w] = FALSE]
  /\ unsaved' = [unsaved EXCEPT ![w] = primary' # Text(d)]
  /\ Notify(w)
  /\ faults' \in 0 .. MaxFaults
  /\ open' = open /\ edits' = edits

LEMMA SaveWrites ==
  ASSUME NEW n, NEW w, NEW d, GoodDocument(d, n), Persist(w, d), faults \in 0 .. MaxFaults
  PROVE  SaveOf(w, d)
<1>1. NormalDocument(d) = d BY DocumentNormal
<1>2. PICK outcome \in Outcomes :
        /\ backup' \in {primary, backup}
        /\ primary' = IF outcome = "saved" THEN Text(d) ELSE primary
        /\ Notify(w)
        /\ timer' = [timer EXCEPT ![w] = FALSE]
        /\ unsaved' = [unsaved EXCEPT ![w] = primary' # Text(d)]
        /\ faults' = faults + B2N(outcome = "primaryRefused" /\ Copies(Text(d)))
        /\ faults' <= MaxFaults
        /\ UNCHANGED <<open, edits>>
  BY <1>1 DEF Persist
<1>3. faults' \in 0 .. MaxFaults
  <2>1. MaxFaults \in Nat BY StoreAssumption
  <2>2. B2N(outcome = "primaryRefused" /\ Copies(Text(d))) \in {0, 1} BY DEF B2N
  <2> QED BY <1>2, <2>1, <2>2
<1> QED BY <1>2, <1>3 DEF SaveOf

LEMMA EventsNotified ==
  ASSUME NEW w \in Windows, events \in [Windows -> 0 .. MaxEvents], open' = open, Notify(w)
  PROVE  /\ events' \in [Windows -> 0 .. MaxEvents]
         /\ primary' # primary \/ backup' # backup
              => \A v \in open \ {w} : v \in Windows => events'[v] > 0
         /\ primary' = primary /\ backup' = backup => events' = events
<1> DEFINE changes == B2N(primary' # primary) + B2N(backup' # backup)
<1>1. changes \in Nat /\ (primary' # primary \/ backup' # backup => changes > 0)
      /\ (primary' = primary /\ backup' = backup => changes = 0)
  BY DEF B2N
<1>2. /\ events' = [v \in Windows |-> IF v \in open \ {w} THEN events[v] + changes
                                      ELSE events[v]]
      /\ \A v \in open : events'[v] <= MaxEvents
  BY DEF Notify
<1> HIDE DEF changes
<1>3. MaxEvents \in Nat BY StoreAssumption
<1>4. \A v \in Windows : events[v] \in 0 .. MaxEvents OBVIOUS
<1>5. \A v \in Windows : events'[v] \in 0 .. MaxEvents
  <2> SUFFICES ASSUME NEW v \in Windows PROVE events'[v] \in 0 .. MaxEvents OBVIOUS
  <2>1. events'[v] = IF v \in open \ {w} THEN events[v] + changes ELSE events[v] BY <1>2
  <2>2. v \in open => events'[v] <= MaxEvents BY <1>2
  <2> QED BY <1>1, <1>3, <1>4, <2>1, <2>2
<1>6. events' \in [Windows -> 0 .. MaxEvents] BY <1>2, <1>5
<1>7. ASSUME primary' # primary \/ backup' # backup, NEW v \in open \ {w}, v \in Windows
      PROVE  events'[v] > 0
  <2>1. events'[v] = events[v] + changes BY <1>2, <1>7
  <2> QED BY <1>1, <1>4, <1>7, <2>1
<1>8. ASSUME primary' = primary, backup' = backup PROVE events' = events
  <2>1. changes = 0 BY <1>1, <1>8
  <2>2. \A v \in Windows : events'[v] = events[v] BY <1>2, <1>4, <2>1
  <2> QED BY <1>6, <2>2
<1> QED BY <1>6, <1>7, <1>8

LEMMA SaveKeeps ==
  ASSUME StoreInv, NEW w \in Windows, NEW d, GoodDocument(d, Fresh), Persist(w, d),
         DOMAIN doc' = Windows, doc'[w] = d, \A v \in Windows \ {w} : doc'[v] = doc[v]
  PROVE  StoreInv'
<1>1. SaveOf(w, d) BY SaveWrites DEF StoreInv
<1>2. Fresh' = Fresh /\ edits' = edits /\ open' = open BY <1>1 DEF SaveOf, Fresh
<1>3. GoodValue(primary', Fresh) /\ GoodValue(backup', Fresh)
  BY <1>1 DEF SaveOf, StoreInv, GoodValue
<1>4. \A v \in Windows : GoodDocument(doc'[v], Fresh) BY DEF StoreInv
<1>5. events' \in [Windows -> 0 .. MaxEvents]
  BY <1>1, EventsNotified DEF SaveOf, StoreInv
<1>6. timer' \in [Windows -> BOOLEAN] BY <1>1 DEF SaveOf, StoreInv
<1>7. unsaved' \in [Windows -> BOOLEAN] BY <1>1 DEF SaveOf, StoreInv
<1>8. faults' \in 0 .. MaxFaults BY <1>1 DEF SaveOf
<1> QED BY <1>2, <1>3, <1>4, <1>5, <1>6, <1>7, <1>8 DEF StoreInv

\* The three ways a save comes about.
LEMMA SavesOfWindow ==
  ASSUME StoreInv, NEW w \in Windows, DebounceFires(w) \/ Hide(w) \/ RestoreBackup(w)
  PROVE  \E d : /\ GoodDocument(d, Fresh) /\ Persist(w, d)
                /\ DOMAIN doc' = Windows /\ doc'[w] = d
                /\ \A v \in Windows \ {w} : doc'[v] = doc[v]
                /\ d \in {doc[w], Kept}
<1>1. DOMAIN doc = Windows /\ GoodDocument(doc[w], Fresh) /\ GoodValue(backup, Fresh)
  BY DEF StoreInv
<1>2. CASE DebounceFires(w) \/ Hide(w)
  <2>1. Persist(w, doc[w]) /\ doc' = doc BY <1>2 DEF DebounceFires, Hide
  <2> QED BY <1>1, <2>1
<1>3. CASE RestoreBackup(w)
  <2>1. /\ Decodes(backup) /\ doc' = [doc EXCEPT ![w] = NormalDocument(backup.of)]
        /\ Persist(w, doc'[w])
    BY <1>3 DEF RestoreBackup
  <2>2. GoodDocument(backup.of, Fresh) BY <1>1, <2>1, TextOfGood
  <2>3. NormalDocument(backup.of) = backup.of BY <2>2, DocumentNormal
  <2>4. Kept = backup.of BY <2>1 DEF Kept
  <2> QED BY <1>1, <2>1, <2>2, <2>3, <2>4
<1> QED BY <1>2, <1>3

LEMMA OthersKeep ==
  ASSUME StoreInv, NEW w \in Windows, OpenWindow(w) \/ EndWindow(w) \/ StorageEvent(w)
  PROVE  StoreInv'
<1>1. /\ edits' = edits /\ primary' = primary /\ backup' = backup /\ faults' = faults
      /\ open' \subseteq open \cup {w} /\ Fresh' = Fresh
  BY DEF OpenWindow, EndWindow, StorageEvent, storageVars, Fresh
<1>2. PICK d : GoodDocument(d, Fresh) /\ doc' = [doc EXCEPT ![w] = d]
  BY FreshNumber, LoadedGood, DefaultGood DEF OpenWindow, EndWindow, StorageEvent
<1>3. \A v \in Windows : GoodDocument(doc'[v], Fresh) BY <1>2 DEF StoreInv
<1>4. DOMAIN doc' = Windows BY <1>2 DEF StoreInv
<1>5. timer' \in [Windows -> BOOLEAN] /\ unsaved' \in [Windows -> BOOLEAN]
  BY DEF OpenWindow, EndWindow, StorageEvent, StoreInv
<1>6. events' \in [Windows -> 0 .. MaxEvents]
  <2>1. MaxEvents \in Nat BY StoreAssumption
  <2>2. events \in [Windows -> 0 .. MaxEvents] BY DEF StoreInv
  <2> QED BY <2>1, <2>2 DEF OpenWindow, EndWindow, StorageEvent
<1> QED BY <1>1, <1>3, <1>4, <1>5, <1>6 DEF StoreInv

LEMMA StoreInductive == StoreInv /\ [Next]_vars => StoreInv'
<1> SUFFICES ASSUME StoreInv, [Next]_vars PROVE StoreInv' OBVIOUS
<1>1. CASE Corrupt
  <2>1. /\ UNCHANGED <<open, doc, timer, events, unsaved, edits>>
        /\ primary' \in {primary, Undecodable} /\ backup' \in {backup, Undecodable}
        /\ faults' = faults + 1 /\ faults < MaxFaults
    BY <1>1 DEF Corrupt, windowVars
  <2>2. Fresh' = Fresh BY <2>1 DEF Fresh
  <2>3. GoodValue(primary', Fresh) /\ GoodValue(backup', Fresh)
    BY <2>1 DEF StoreInv, GoodValue
  <2>4. faults' \in 0 .. MaxFaults BY <2>1, StoreAssumption DEF StoreInv
  <2> QED BY <2>1, <2>2, <2>3, <2>4 DEF StoreInv
<1>2. ASSUME NEW w \in Windows, OpenWindow(w) \/ EndWindow(w) \/ StorageEvent(w)
      PROVE  StoreInv'
  BY <1>2, OthersKeep
<1>3. ASSUME NEW w \in Windows, DebounceFires(w) \/ Hide(w) \/ RestoreBackup(w)
      PROVE  StoreInv'
  BY <1>3, SavesOfWindow, SaveKeeps
<1>4. ASSUME NEW w \in Windows,
             \/ UpdateSessionForInstance(w) \/ CopySessionOf(w) \/ ResetSession(w)
             \/ CreateTab(w) \/ DuplicateTab(w) \/ CloseTab(w)
             \/ FocusTab(w) \/ SetLayout(w) \/ FocusPane(w)
      PROVE  StoreInv'
  BY <1>4, EditsKeep
<1>5. CASE UNCHANGED vars
  <2>1. UNCHANGED <<open, doc, timer, events, unsaved, edits, primary, backup, faults>>
    BY <1>5 DEF vars, windowVars, storageVars
  <2>2. Fresh' = Fresh BY <2>1 DEF Fresh
  <2> QED BY <2>1, <2>2 DEF StoreInv
<1> QED BY <1>1, <1>2, <1>3, <1>4, <1>5 DEF Next

LEMMA StoreStarts == Init => StoreInv
<1> SUFFICES ASSUME Init PROVE StoreInv OBVIOUS
<1>1. Fresh = 5 BY DEF Init, Fresh, IdsPerEdit
<1>2. \A w \in Windows : GoodDocument(doc[w], Fresh) BY <1>1, DefaultGood DEF Init
<1>3. GoodValue(primary, Fresh) /\ GoodValue(backup, Fresh) BY DEF Init, GoodValue
<1>4. edits \in 0 .. MaxEdits /\ faults \in 0 .. MaxFaults
      /\ events \in [Windows -> 0 .. MaxEvents]
  BY StoreAssumption DEF Init
<1> QED BY <1>2, <1>3, <1>4 DEF Init, StoreInv

LEMMA StoreCorrect == Spec => []StoreInv
BY StoreStarts, StoreInductive, PTL DEF Spec

-----------------------------------------------------------------------------
(* What it says of every document shown or loaded.                            *)

LEMMA DocumentsGood == StoreInv => \A d \in Documents : GoodDocument(d, Fresh)
BY LoadedGood DEF StoreInv, Documents

LEMMA IdsCounted ==
  ASSUME NEW tabs, GoodTabs(tabs) PROVE Cardinality(TabIds(tabs)) = Len(tabs)
<1> DEFINE l == Len(tabs)
           f == [i \in 1 .. l |-> tabs[i].id]
<1>1. l \in Nat /\ DOMAIN tabs = 1 .. l BY DEF GoodTabs
<1>2. \A i, j \in 1 .. l : tabs[i].id = tabs[j].id => i = j BY <1>1 DEF GoodTabs
<1>3. TabIds(tabs) = {tabs[i].id : i \in 1 .. l} BY <1>1 DEF TabIds
<1> HIDE DEF l
<1>4. f \in Surjection(1 .. l, TabIds(tabs)) BY <1>3 DEF Surjection
<1>5. f \in Injection(1 .. l, TabIds(tabs)) BY <1>2, <1>3 DEF Injection, IsInjective
<1>6. IsFiniteSet(1 .. l) /\ Cardinality(1 .. l) = l
  BY <1>1, FS_Interval
<1> HIDE DEF f
<1>7. Cardinality(TabIds(tabs)) = Cardinality(1 .. l)
  BY <1>4, <1>5, <1>6, FS_Surjection
<1> QED BY <1>6, <1>7 DEF l

LEMMA PanesCounted ==
  ASSUME NEW n, NEW d, GoodDocument(d, n)
  PROVE  /\ PaneInstances(d) \subseteq DOMAIN d.sessions
         /\ Cardinality(PaneInstances(d)) = Cardinality(PaneSlots(d))
<1> DEFINE l == Len(d.tabs)
           slots == PaneSlots(d)
           f == [slot \in slots |-> d.tabs[slot[1]].panes[slot[2]]]
<1>1. l \in Nat /\ DOMAIN d.tabs = 1 .. l BY DEF GoodDocument, GoodTabs
<1>2. OwnInstances(d.tabs, d.sessions) BY DEF GoodDocument
<1> HIDE DEF l
<1>3. ASSUME NEW slot \in slots
      PROVE  /\ slot = <<slot[1], slot[2]>> /\ slot[1] \in 1 .. l /\ slot[2] \in Panes
             /\ d.tabs[slot[1]].panes[slot[2]] # NoInstance
  <2>1. PICK i \in 1 .. l : slot \in {<<i, p>> : p \in OccupiedPanes(d.tabs[i])}
    BY <1>1 DEF PaneSlots
  <2>2. PICK p \in OccupiedPanes(d.tabs[i]) : slot = <<i, p>> BY <2>1
  <2> QED BY <2>2 DEF OccupiedPanes
<1>4. IsFiniteSet(slots)
  <2>1. IsFiniteSet(1 .. l)
    <3>1. 1 \in Int /\ l \in Int BY <1>1
    <3> QED BY <3>1, FS_Interval
  <2>2. IsFiniteSet(1 .. 4)
    <3>1. 1 \in Int /\ 4 \in Int OBVIOUS
    <3> QED BY <3>1, FS_Interval
  <2>3. IsFiniteSet((1 .. l) \X (1 .. 4)) BY <2>1, <2>2, FS_Product
  <2>4. slots \in SUBSET ((1 .. l) \X (1 .. 4))
    <3> SUFFICES ASSUME NEW slot \in slots PROVE slot \in (1 .. l) \X (1 .. 4) OBVIOUS
    <3> HIDE DEF slots
    <3>1. slot = <<slot[1], slot[2]>> /\ slot[1] \in 1 .. l /\ slot[2] \in 1 .. 4
      BY <1>3 DEF Panes
    <3> QED BY <3>1
  <2> QED BY <2>3, <2>4, FS_Subset
<1>5. PaneInstances(d) = {f[slot] : slot \in slots} BY DEF PaneInstances
<1>6. \A x, y \in slots : f[x] = f[y] => x = y
  <2> SUFFICES ASSUME NEW x \in slots, NEW y \in slots, f[x] = f[y] PROVE x = y OBVIOUS
  <2>1. d.tabs[x[1]].panes[x[2]] = d.tabs[y[1]].panes[y[2]] OBVIOUS
  <2> PICK i \in 1 .. l, p \in Panes : x[1] = i /\ x[2] = p /\ x = <<i, p>> BY <1>3
  <2> PICK j \in 1 .. l, q \in Panes : y[1] = j /\ y[2] = q /\ y = <<j, q>> BY <1>3
  <2>2. d.tabs[i].panes[p] # NoInstance /\ d.tabs[i].panes[p] = d.tabs[j].panes[q] BY <1>3, <2>1
  <2>3. i = j /\ p = q BY ONLY <1>1, <1>2, <2>2, i \in 1 .. l, j \in 1 .. l, p \in Panes, q \in Panes DEF OwnInstances
  <2> QED BY <2>2, <2>3
<1>7. PaneInstances(d) \subseteq DOMAIN d.sessions
  BY <1>1, <1>2, <1>3, <1>5 DEF OwnInstances
<1>8. DOMAIN f = slots OBVIOUS
<1> HIDE DEF slots
<1>9. f \in [slots -> PaneInstances(d)] BY <1>5
<1> HIDE DEF f
<1>10. f \in Surjection(slots, PaneInstances(d)) BY <1>5, <1>9 DEF Surjection
<1>11. f \in Injection(slots, PaneInstances(d)) BY <1>6, <1>8, <1>9 DEF Injection, IsInjective
<1>12. Cardinality(PaneInstances(d)) = Cardinality(slots)
  BY <1>4, <1>10, <1>11, FS_Surjection
<1> QED BY <1>7, <1>12 DEF slots

LEMMA StoreShows == StoreInv => WorkspaceShown
<1> SUFFICES ASSUME StoreInv, NEW d \in Documents
             PROVE  /\ d.active \in TabIds(d.tabs)
                    /\ Cardinality(TabIds(d.tabs)) = Len(d.tabs)
                    /\ \A i \in DOMAIN d.tabs :
                         /\ ShownPanes(d.tabs[i]) = VisiblePanes(d.tabs[i].layout)
                         /\ d.tabs[i].focus \in ShownPanes(d.tabs[i])
  BY DEF WorkspaceShown
<1>1. GoodDocument(d, Fresh) BY DocumentsGood
<1>2. GoodTabs(d.tabs) /\ d.active \in TabIds(d.tabs) BY <1>1 DEF GoodDocument
<1>3. \A i \in DOMAIN d.tabs : WellShown(d.tabs[i]) BY <1>2 DEF GoodTabs
<1> QED BY <1>2, <1>3, IdsCounted DEF WellShown

LEMMA StorePanesOwn == StoreInv => PanesHaveOwnSessions
<1> SUFFICES ASSUME StoreInv, NEW d \in Documents
             PROVE  /\ d.session = d.sessions[PRIMARY_EXPLORER_INSTANCE_ID]
                    /\ PaneInstances(d) \subseteq DOMAIN d.sessions
                    /\ Cardinality(PaneInstances(d)) = Cardinality(PaneSlots(d))
  BY DEF PanesHaveOwnSessions
<1>1. GoodDocument(d, Fresh) BY DocumentsGood
<1> QED BY <1>1, PanesCounted DEF GoodDocument

LEMMA StoreTypes == StoreInv /\ Recoverable => TypeOK
<1> SUFFICES ASSUME StoreInv, Recoverable PROVE TypeOK OBVIOUS
<1>1. ASSUME NEW w \in Windows PROVE IsDocument(doc[w])
  <2> DEFINE d == doc[w]
  <2>1. GoodDocument(d, Fresh) BY DEF StoreInv
  <2> HIDE DEF d
  <2>2. SessionsBelow(d.sessions, Fresh) /\ GoodTabs(d.tabs)
        /\ d.session = d.sessions[PRIMARY_EXPLORER_INSTANCE_ID]
    BY <2>1 DEF GoodDocument
  <2>3. d.session \in Contents /\ Range(d.sessions) \subseteq Contents
        /\ PRIMARY_EXPLORER_INSTANCE_ID \in DOMAIN d.sessions
    BY <2>2 DEF SessionsBelow, Range
  <2>4. \A i \in DOMAIN d.tabs : IsTab(d.tabs[i])
    <3> SUFFICES ASSUME NEW i \in DOMAIN d.tabs PROVE IsTab(d.tabs[i]) OBVIOUS
    <3>1. d.tabs[i] \in Tabs BY <2>2 DEF GoodTabs
    <3> QED BY <3>1 DEF Tabs, IsTab
  <2>5. IsDocument(d) BY <2>2, <2>3, <2>4 DEF IsDocument, GoodTabs
  <2> QED BY <2>5 DEF d
<1>2. /\ primary.kind \in {"absent", "undecodable", "text"}
      /\ backup.kind \in {"absent", "undecodable", "text"}
  <2>1. \A n, value : GoodValue(value, n) => value.kind \in {"absent", "undecodable", "text"}
    BY DEF GoodValue, Absent, Undecodable, Text
  <2> QED BY <2>1 DEF StoreInv
<1>3. Len(saves) \in 0 .. 2
  <2>1. saves = <<>> \/ (\E a : saves = <<a>>) \/ (\E a, b : saves = <<a, b>>)
    BY DEF Recoverable
  <2> QED BY <2>1
<1> QED BY <1>1, <1>2, <1>3 DEF StoreInv, TypeOK

\* The explorer windows and the storage keep their types; a document shown has
\* at least one tab, and a primary session.
THEOREM TypeCorrect == Spec => []TypeOK
<1>1. Init => Recoverable
  BY DEF Init, Recoverable
<1> QED BY <1>1, RecoverableInductive, StoreStarts, StoreInductive, StoreTypes, PTL DEF Spec

\* Whatever the user does to tabs and layouts, in whichever windows, and whatever
\* is loaded, restored or refused meanwhile: every pane shown has an explorer, one
\* of them has the focus, and the active tab is one of the tabs.
THEOREM WorkspaceShownCorrect == Spec => []WorkspaceShown
BY StoreCorrect, StoreShows, PTL

\* Two panes never share a session, and closing a tab takes none that a pane,
\* shown or hidden, still has.
THEOREM PanesHaveOwnSessionsCorrect == Spec => []PanesHaveOwnSessions
BY StoreCorrect, StorePanesOwn, PTL

-----------------------------------------------------------------------------
(* Windows with nothing to save and nothing to hear agree with the storage.   *)

LEMMA LoadedUnchanged ==
  ASSUME primary' = primary, backup' = backup PROVE Loaded' = Loaded
BY DEF Loaded

\* The window that saved has what it saved, or its save was refused; the others
\* have an event to come when anything was written.
LEMMA SaveAgrees ==
  ASSUME StoreInv, IdleWindowsAgree, NEW w \in Windows, NEW d, GoodDocument(d, Fresh),
         Persist(w, d),
         DOMAIN doc' = Windows, doc'[w] = d, \A v \in Windows \ {w} : doc'[v] = doc[v]
  PROVE  IdleWindowsAgree'
<1>1. SaveOf(w, d) BY SaveWrites DEF StoreInv
<1>2. open' = open /\ open \in SUBSET Windows /\ Notify(w) BY <1>1 DEF SaveOf, StoreInv
<1>3. /\ unsaved' = [unsaved EXCEPT ![w] = primary' # Text(d)]
      /\ timer' = [timer EXCEPT ![w] = FALSE]
  BY <1>1 DEF SaveOf
<1>4. DOMAIN timer = Windows /\ DOMAIN unsaved = Windows
      /\ events \in [Windows -> 0 .. MaxEvents]
  BY DEF StoreInv
<1> SUFFICES ASSUME NEW v \in Windows, v \in open, ~timer'[v], events'[v] = 0, ~unsaved'[v]
             PROVE  doc'[v] = Loaded'
  BY <1>2 DEF IdleWindowsAgree
<1>5. CASE v = w
  <2>1. primary' = Text(d)
    <3>1. unsaved'[w] = (primary' # Text(d)) BY <1>3, <1>4
    <3> QED BY <1>5, <3>1
  <2>2. Loaded' = NormalDocument(d)
    BY <2>1, Values DEF Loaded
  <2> QED BY <1>5, <2>2, DocumentNormal
<1>6. CASE v # w
  <2>1. primary' = primary /\ backup' = backup
    BY <1>2, <1>4, <1>6, EventsNotified
  <2>2. events' = events BY <1>2, <1>4, <2>1, EventsNotified
  <2>3. ~timer[v] /\ ~unsaved[v] /\ events[v] = 0 BY <1>3, <1>6, <2>2
  <2>4. doc[v] = Loaded BY <2>3 DEF IdleWindowsAgree
  <2> QED BY <1>6, <2>1, <2>4, LoadedUnchanged
<1> QED BY <1>5, <1>6

LEMMA EditAgrees ==
  ASSUME StoreInv, IdleWindowsAgree, NEW w \in Windows, NEW d, Edit(w, d)
  PROVE  IdleWindowsAgree'
<1>1. /\ open' = open /\ events' = events /\ unsaved' = unsaved
      /\ primary' = primary /\ backup' = backup
      /\ doc' = [doc EXCEPT ![w] = d] /\ timer' = [timer EXCEPT ![w] = TRUE]
  BY DEF Edit, Rescheduled, storageVars
<1>2. Loaded' = Loaded BY <1>1, LoadedUnchanged
<1>3. open \in SUBSET Windows /\ DOMAIN timer = Windows /\ DOMAIN doc = Windows BY DEF StoreInv
<1>4. \A v \in open : ~timer'[v] => v # w /\ ~timer[v] /\ doc'[v] = doc[v] BY <1>1, <1>3
<1> QED BY <1>1, <1>2, <1>4 DEF IdleWindowsAgree

LEMMA OthersAgree ==
  ASSUME StoreInv, IdleWindowsAgree, NEW w \in Windows,
         OpenWindow(w) \/ EndWindow(w) \/ StorageEvent(w)
  PROVE  IdleWindowsAgree'
<1>1. primary' = primary /\ backup' = backup
  BY DEF OpenWindow, EndWindow, StorageEvent, storageVars
<1>2. Loaded' = Loaded BY <1>1, LoadedUnchanged
<1>3. open \in SUBSET Windows /\ DOMAIN doc = Windows /\ DOMAIN timer = Windows
      /\ DOMAIN events = Windows /\ DOMAIN unsaved = Windows
  BY DEF StoreInv
<1>4. open' \subseteq open \cup {w} /\ (w \in open' => doc'[w] = Loaded)
  BY <1>3 DEF OpenWindow, EndWindow, StorageEvent
<1>5. \A v \in open' \ {w} :
        v \in open /\ doc'[v] = doc[v] /\ timer'[v] = timer[v]
        /\ events'[v] = events[v] /\ unsaved'[v] = unsaved[v]
  BY <1>3, <1>4 DEF OpenWindow, EndWindow, StorageEvent
<1> QED BY <1>2, <1>4, <1>5 DEF IdleWindowsAgree

LEMMA AgreementInductive == StoreInv /\ IdleWindowsAgree /\ [Next]_vars => IdleWindowsAgree'
<1> SUFFICES ASSUME StoreInv, IdleWindowsAgree, [Next]_vars PROVE IdleWindowsAgree'
  OBVIOUS
<1>1. CASE Corrupt
  BY <1>1 DEF Corrupt, windowVars, IdleWindowsAgree
<1>2. ASSUME NEW w \in Windows, OpenWindow(w) \/ EndWindow(w) \/ StorageEvent(w)
      PROVE  IdleWindowsAgree'
  BY <1>2, OthersAgree
<1>3. ASSUME NEW w \in Windows, DebounceFires(w) \/ Hide(w) \/ RestoreBackup(w)
      PROVE  IdleWindowsAgree'
  BY <1>3, SavesOfWindow, SaveAgrees
<1>4. ASSUME NEW w \in Windows,
             \/ UpdateSessionForInstance(w) \/ CopySessionOf(w) \/ ResetSession(w)
             \/ CreateTab(w) \/ DuplicateTab(w) \/ CloseTab(w)
             \/ FocusTab(w) \/ SetLayout(w) \/ FocusPane(w)
      PROVE  IdleWindowsAgree'
  <2>1. PICK d : Edit(w, d)
    BY <1>4 DEF UpdateSessionForInstance, CopySessionOf, ResetSession, CreateTab,
                DuplicateTab, CloseTab, FocusTab, SetLayout, FocusPane
  <2> QED BY <2>1, EditAgrees
<1>5. CASE UNCHANGED vars
  <2>1. UNCHANGED <<open, doc, timer, events, unsaved, primary, backup>>
    BY <1>5 DEF vars, windowVars, storageVars
  <2>2. Loaded' = Loaded BY <2>1, LoadedUnchanged
  <2> QED BY <2>1, <2>2 DEF IdleWindowsAgree
<1> QED BY <1>1, <1>2, <1>3, <1>4, <1>5 DEF Next

\* In whatever order windows edit, save, hear of each other and close: a window
\* whose timer is stopped, that has heard every event and whose save was not
\* refused shows what the storage holds.
THEOREM IdleWindowsAgreeCorrect == Spec => []IdleWindowsAgree
<1>1. Init => IdleWindowsAgree BY DEF Init, IdleWindowsAgree
<1> QED BY <1>1, StoreStarts, StoreInductive, AgreementInductive, PTL DEF Spec

-----------------------------------------------------------------------------
(* The windows and the two keys implement SharedWorkspace.                    *)

\* Only an open window has a timer to fire.
TimersOfOpen == \A w \in Windows : timer[w] => w \in open

LEMMA TimersInductive == StoreInv /\ TimersOfOpen /\ [Next]_vars => TimersOfOpen'
<1> SUFFICES ASSUME StoreInv, TimersOfOpen, [Next]_vars PROVE TimersOfOpen' OBVIOUS
<1>1. timer \in [Windows -> BOOLEAN] BY DEF StoreInv
<1>2. CASE Corrupt BY <1>2 DEF Corrupt, windowVars, TimersOfOpen
<1>3. ASSUME NEW w \in Windows, OpenWindow(w) \/ EndWindow(w) \/ StorageEvent(w)
      PROVE  TimersOfOpen'
  BY <1>1, <1>3 DEF OpenWindow, EndWindow, StorageEvent, TimersOfOpen
<1>4. ASSUME NEW w \in Windows, DebounceFires(w) \/ Hide(w) \/ RestoreBackup(w)
      PROVE  TimersOfOpen'
  <2>1. PICK d : GoodDocument(d, Fresh) /\ Persist(w, d) BY <1>4, SavesOfWindow
  <2>2. SaveOf(w, d) BY <2>1, SaveWrites DEF StoreInv
  <2>3. timer' = [timer EXCEPT ![w] = FALSE] /\ open' = open BY <2>2 DEF SaveOf
  <2> QED BY <1>1, <2>3 DEF TimersOfOpen
<1>5. ASSUME NEW w \in Windows,
             \/ UpdateSessionForInstance(w) \/ CopySessionOf(w) \/ ResetSession(w)
             \/ CreateTab(w) \/ DuplicateTab(w) \/ CloseTab(w)
             \/ FocusTab(w) \/ SetLayout(w) \/ FocusPane(w)
      PROVE  TimersOfOpen'
  <2>1. PICK d : Edit(w, d)
    BY <1>5 DEF UpdateSessionForInstance, CopySessionOf, ResetSession, CreateTab,
                DuplicateTab, CloseTab, FocusTab, SetLayout, FocusPane
  <2>2. timer' = [timer EXCEPT ![w] = TRUE] /\ open' = open /\ w \in open
    BY <2>1 DEF Edit, Rescheduled
  <2> QED BY <1>1, <2>2 DEF TimersOfOpen
<1>6. CASE UNCHANGED vars BY <1>6 DEF vars, windowVars, TimersOfOpen
<1> QED BY <1>2, <1>3, <1>4, <1>5, <1>6 DEF Next

\* A load normalises what is stored to itself.
LEMMA LoadedStored == StoreInv => Loaded = Stored
<1> SUFFICES ASSUME StoreInv PROVE Loaded = Stored OBVIOUS
<1>1. GoodValue(primary, Fresh) /\ GoodValue(backup, Fresh) BY DEF StoreInv
<1>2. Decodes(primary) => NormalDocument(primary.of) = primary.of
  BY <1>1, TextOfGood, DocumentNormal
<1>3. Decodes(backup) => NormalDocument(backup.of) = backup.of
  BY <1>1, TextOfGood, DocumentNormal
<1> QED BY <1>2, <1>3 DEF Loaded, Stored

LEMMA StorageKept ==
  ASSUME primary' = primary, backup' = backup PROVE Stored' = Stored /\ Kept' = Kept
BY DEF Stored, Kept

\* In a step that opens and closes no window, only w shows something else.
LEMMA OneShows ==
  ASSUME NEW w \in open, open' = open, \A v \in open \ {w} : doc'[v] = doc[v]
  PROVE  Profile!Shows(w, doc'[w]) /\ Shown'[w] = doc'[w] /\ Shown[w] = doc[w]
<1>1. Shown' = [v \in open |-> doc'[v]] /\ Shown = [v \in open |-> doc[v]] BY DEF Shown
<1>2. [v \in open |-> doc'[v]] = [[v \in open |-> doc[v]] EXCEPT ![w] = doc'[w]] OBVIOUS
<1>3. Shown' = [Shown EXCEPT ![w] = doc'[w]] BY <1>1, <1>2
<1> QED BY <1>1, <1>3 DEF Profile!Shows

LEMMA EditRefines ==
  ASSUME StoreInv, NEW w \in Windows, NEW d, Edit(w, d) PROVE Profile!Edit(w)
<1>1. /\ w \in open /\ open' = open /\ events' = events /\ unsaved' = unsaved
      /\ primary' = primary /\ backup' = backup
      /\ doc' = [doc EXCEPT ![w] = d] /\ timer' = [timer EXCEPT ![w] = TRUE]
  BY DEF Edit, Rescheduled, storageVars
<1>2. open \in SUBSET Windows /\ DOMAIN timer = Windows /\ DOMAIN doc = Windows BY DEF StoreInv
<1>3. \A v \in open \ {w} : doc'[v] = doc[v] BY <1>1, <1>2
<1>4. Settled' = Settled \ {w} BY <1>1, <1>2 DEF Settled
<1>5. Profile!Shows(w, Shown'[w]) BY <1>1, <1>3, OneShows
<1> QED BY <1>1, <1>4, <1>5, StorageKept DEF Profile!Edit

LEMMA OpenRefines ==
  ASSUME StoreInv, NEW w \in Windows, OpenWindow(w) PROVE Profile!Open(w)
<1>1. /\ w \notin open /\ open' = open \cup {w} /\ doc' = [doc EXCEPT ![w] = Loaded]
      /\ timer' = timer /\ events' = events /\ unsaved' = unsaved
      /\ primary' = primary /\ backup' = backup
  BY DEF OpenWindow, storageVars
<1>2. open \in SUBSET Windows /\ DOMAIN doc = Windows BY DEF StoreInv
<1>3. \A v \in open' : doc'[v] = IF v = w THEN Stored ELSE doc[v]
  BY <1>1, <1>2, LoadedStored
<1>4. \A v \in open' : v # w => v \in open BY <1>1
<1>5. Shown' = [v \in open' |-> IF v = w THEN Stored ELSE Shown[v]]
  BY <1>3, <1>4 DEF Shown
<1>6. Settled' \in {Settled, Settled \cup {w}} BY <1>1 DEF Settled
<1> QED BY <1>1, <1>5, <1>6, StorageKept DEF Profile!Open

LEMMA EndRefines ==
  ASSUME StoreInv, NEW w \in Windows, EndWindow(w) PROVE Profile!Close(w)
<1>1. /\ w \in open /\ open' = open \ {w} /\ doc' = [doc EXCEPT ![w] = DefaultDocument]
      /\ timer' = [timer EXCEPT ![w] = FALSE] /\ events' = [events EXCEPT ![w] = 0]
      /\ unsaved' = [unsaved EXCEPT ![w] = FALSE]
      /\ primary' = primary /\ backup' = backup
  BY DEF EndWindow, storageVars
<1>2. open \in SUBSET Windows /\ DOMAIN doc = Windows /\ DOMAIN timer = Windows
      /\ DOMAIN events = Windows /\ DOMAIN unsaved = Windows
  BY DEF StoreInv
<1>3. \A v \in open' : v \in open /\ doc'[v] = doc[v] BY <1>1, <1>2
<1>4. Shown' = [v \in open' |-> Shown[v]] BY <1>3 DEF Shown
<1>5. Settled' = Settled \ {w} BY <1>1, <1>2 DEF Settled
<1> QED BY <1>1, <1>4, <1>5, StorageKept DEF Profile!Close

LEMMA EventRefines ==
  ASSUME StoreInv, NEW w \in Windows, StorageEvent(w)
  PROVE  Profile!Hear(w) \/ UNCHANGED Profile!vars
<1>1. /\ events[w] > 0 /\ events' = [events EXCEPT ![w] = @ - 1]
      /\ doc' = [doc EXCEPT ![w] = Loaded] /\ unsaved' = [unsaved EXCEPT ![w] = FALSE]
      /\ timer' = timer /\ open' = open /\ primary' = primary /\ backup' = backup
  BY DEF StorageEvent, storageVars
<1>2. open \in SUBSET Windows /\ DOMAIN doc = Windows
      /\ DOMAIN events = Windows /\ DOMAIN unsaved = Windows
  BY DEF StoreInv
<1>3. \A v \in open \ {w} :
        doc'[v] = doc[v] /\ events'[v] = events[v] /\ unsaved'[v] = unsaved[v]
  BY <1>1, <1>2
<1>4. Stored' = Stored /\ Kept' = Kept BY <1>1, StorageKept
<1>5. CASE w \in open
  <2>1. doc'[w] = Stored BY <1>1, <1>2, LoadedStored
  <2>2. w \notin Settled BY <1>1 DEF Settled
  <2>3. \A v \in open \ {w} : v \in Settled' <=> v \in Settled BY <1>1, <1>3 DEF Settled
  <2>4. Settled \subseteq open /\ Settled' \subseteq open BY <1>1 DEF Settled
  <2>5. Settled' \in {Settled, Settled \cup {w}} BY <2>2, <2>3, <2>4
  <2>6. Profile!Shows(w, Stored) BY <1>1, <1>3, <1>5, <2>1, OneShows
  <2> QED BY <1>4, <2>5, <2>6 DEF Profile!Hear
<1>6. CASE w \notin open
  <2>1. \A v \in open : v \in open \ {w} BY <1>6
  <2>2. Shown' = Shown BY <1>1, <1>3, <2>1 DEF Shown
  <2>3. Settled' = Settled BY <1>1, <1>3, <2>1 DEF Settled
  <2> QED BY <1>1, <1>4, <2>2, <2>3 DEF Profile!vars
<1> QED BY <1>5, <1>6

\* The window that saved is settled only if the save went through; another one
\* only if it was and neither key has changed.
LEMMA SaveSettles ==
  ASSUME StoreInv, NEW w \in open, NEW d, SaveOf(w, d)
  PROVE  /\ Settled' \subseteq Settled \cup {w}
         /\ w \in Settled' => primary' = Text(d)
         /\ Stored' # Stored => Settled' \subseteq {w}
<1>1. /\ open' = open /\ Notify(w) /\ open \in SUBSET Windows
      /\ timer' = [timer EXCEPT ![w] = FALSE]
      /\ unsaved' = [unsaved EXCEPT ![w] = primary' # Text(d)]
      /\ DOMAIN timer = Windows /\ DOMAIN unsaved = Windows
      /\ events \in [Windows -> 0 .. MaxEvents]
  BY DEF SaveOf, StoreInv
<1>2. /\ primary' # primary \/ backup' # backup => \A v \in open \ {w} : events'[v] > 0
      /\ primary' = primary /\ backup' = backup => events' = events
  <2>1. w \in Windows BY <1>1
  <2> QED BY <1>1, <2>1, EventsNotified
<1>3. ASSUME NEW v \in open \ {w}, v \in Settled'
      PROVE  v \in Settled /\ primary' = primary /\ backup' = backup
  <2>1. ~timer'[v] /\ events'[v] = 0 /\ ~unsaved'[v] BY <1>3 DEF Settled
  <2>2. primary' = primary /\ backup' = backup BY <1>2, <1>3, <2>1
  <2>3. events' = events BY <1>2, <2>2
  <2>4. timer'[v] = timer[v] /\ unsaved'[v] = unsaved[v] BY <1>1, <1>3
  <2> QED BY <1>3, <2>1, <2>2, <2>3, <2>4 DEF Settled
<1>4. Settled' \subseteq open BY <1>1 DEF Settled
<1>5. w \in Settled' => primary' = Text(d)
  <2>1. unsaved'[w] = (primary' # Text(d)) BY <1>1
  <2>2. w \in Settled' => ~unsaved'[w] BY DEF Settled
  <2> QED BY <2>1, <2>2
<1>6. Stored' # Stored => primary' # primary \/ backup' # backup BY StorageKept
<1> QED BY <1>3, <1>4, <1>5, <1>6

LEMMA SaveRefines ==
  ASSUME StoreInv, NEW w \in open, NEW d, GoodDocument(d, Fresh), Persist(w, d),
         DOMAIN doc' = Windows, doc'[w] = d, \A v \in Windows \ {w} : doc'[v] = doc[v],
         d \in {doc[w], Kept}
  PROVE  Profile!Save(w) \/ Profile!Refused(w)
<1>1. SaveOf(w, d) BY SaveWrites DEF StoreInv
<1>2. /\ Settled' \subseteq Settled \cup {w}
      /\ w \in Settled' => primary' = Text(d)
      /\ Stored' # Stored => Settled' \subseteq {w}
  BY <1>1, SaveSettles
<1>3. /\ primary' \in {primary, Text(d)} /\ backup' \in {primary, backup} /\ open' = open
  BY <1>1 DEF SaveOf
<1>4. /\ Profile!Shows(w, Shown'[w]) /\ Shown'[w] = d /\ Shown'[w] \in {Shown[w], Kept}
  <2>1. \A v \in open \ {w} : doc'[v] = doc[v] BY DEF StoreInv
  <2> QED BY <1>3, <2>1, OneShows
<1>5. CASE primary' = Text(d)
  <2>1. Stored' = Shown'[w] BY <1>4, <1>5, Values DEF Stored
  <2>2. Kept' \in {Kept, Stored} \/ (Profile!NoneBehind /\ Kept' = DefaultDocument)
    <3>1. CASE backup' = backup BY <3>1 DEF Kept
    <3>2. CASE backup' = primary /\ Decodes(primary) BY <3>2 DEF Kept, Stored
    <3>3. CASE backup' = primary /\ ~Decodes(primary)
      BY <3>3 DEF Kept, Stored, Profile!NoneBehind
    <3> QED BY <1>3, <3>1, <3>2, <3>3
  <2> QED BY <1>2, <1>4, <2>1, <2>2 DEF Profile!Save
<1>6. CASE primary' # Text(d)
  <2>1. primary' = primary BY <1>3, <1>6
  <2>2. \/ <<Stored', Kept'>> \in {<<Stored, Kept>>, <<Stored, Stored>>}
        \/ /\ Profile!NoneBehind
           /\ <<Stored', Kept'>> = <<DefaultDocument, DefaultDocument>>
    <3>1. CASE backup' = backup BY <2>1, <3>1, StorageKept
    <3>2. CASE backup' = primary /\ Decodes(primary) BY <2>1, <3>2 DEF Stored, Kept
    <3>3. CASE backup' = primary /\ ~Decodes(primary)
      BY <2>1, <3>3 DEF Stored, Kept, Profile!NoneBehind
    <3> QED BY <1>3, <3>1, <3>2, <3>3
  <2>3. Settled' \subseteq Settled \ {w} BY <1>2, <1>6
  <2>4. Stored' # Stored => Settled' = {} BY <1>2, <1>6
  <2> QED BY <1>4, <2>2, <2>3, <2>4 DEF Profile!Refused
<1> QED BY <1>5, <1>6

LEMMA DamageRefines == Corrupt => Profile!Damage
<1> SUFFICES ASSUME Corrupt PROVE Profile!Damage OBVIOUS
<1>1. /\ open = {} /\ UNCHANGED <<open, doc, timer, events, unsaved>>
      /\ \/ Decodes(primary) /\ primary' = Undecodable /\ backup' = backup
         \/ backup' = Undecodable /\ primary' = primary
  BY DEF Corrupt, windowVars
<1>2. Shown' = Shown /\ Settled' = Settled BY <1>1 DEF Shown, Settled
<1>3. CASE Decodes(primary) /\ primary' = Undecodable /\ backup' = backup
  <2>1. Stored' = Kept /\ Kept' = Kept BY <1>3, Values DEF Stored, Kept
  <2> QED BY <1>1, <1>2, <2>1 DEF Profile!Damage
<1>4. CASE backup' = Undecodable /\ primary' = primary
  <2>1. Kept' = DefaultDocument BY <1>4, Values DEF Kept
  <2>2. Stored' = Stored \/ (Profile!NoneBehind /\ Stored' = DefaultDocument)
    BY <1>4, Values DEF Stored, Kept, Profile!NoneBehind
  <2> QED BY <1>1, <1>2, <2>1, <2>2 DEF Profile!Damage
<1> QED BY <1>1, <1>3, <1>4

LEMMA StepRefines ==
  StoreInv /\ TimersOfOpen /\ [Next]_vars => [Profile!Next]_(Profile!vars)
<1> SUFFICES ASSUME StoreInv, TimersOfOpen, [Next]_vars
             PROVE  Profile!Next \/ UNCHANGED Profile!vars
  OBVIOUS
<1>1. CASE Corrupt BY <1>1, DamageRefines DEF Profile!Next
<1>2. ASSUME NEW w \in Windows, OpenWindow(w) PROVE Profile!Next
  BY <1>2, OpenRefines DEF Profile!Next
<1>3. ASSUME NEW w \in Windows, EndWindow(w) PROVE Profile!Next
  BY <1>3, EndRefines DEF Profile!Next
<1>4. ASSUME NEW w \in Windows, StorageEvent(w) PROVE Profile!Next \/ UNCHANGED Profile!vars
  BY <1>4, EventRefines DEF Profile!Next
<1>5. ASSUME NEW w \in Windows, DebounceFires(w) \/ Hide(w) \/ RestoreBackup(w)
      PROVE  Profile!Next
  <2>1. w \in open BY <1>5 DEF DebounceFires, Hide, RestoreBackup, TimersOfOpen
  <2>2. Profile!Save(w) \/ Profile!Refused(w) BY <1>5, <2>1, SavesOfWindow, SaveRefines
  <2> QED BY <2>2 DEF Profile!Next
<1>6. ASSUME NEW w \in Windows,
             \/ UpdateSessionForInstance(w) \/ CopySessionOf(w) \/ ResetSession(w)
             \/ CreateTab(w) \/ DuplicateTab(w) \/ CloseTab(w)
             \/ FocusTab(w) \/ SetLayout(w) \/ FocusPane(w)
      PROVE  Profile!Next
  <2>1. PICK d : Edit(w, d)
    BY <1>6 DEF UpdateSessionForInstance, CopySessionOf, ResetSession, CreateTab,
                DuplicateTab, CloseTab, FocusTab, SetLayout, FocusPane
  <2>2. Profile!Edit(w) BY <2>1, EditRefines
  <2> QED BY <2>2 DEF Profile!Next
<1>7. CASE UNCHANGED vars
  <2>1. UNCHANGED <<open, doc, timer, events, unsaved, primary, backup>>
    BY <1>7 DEF vars, windowVars, storageVars
  <2>2. UNCHANGED <<Shown, Settled, Stored, Kept>> BY <2>1, StorageKept DEF Shown, Settled
  <2> QED BY <2>1, <2>2 DEF Profile!vars
<1> QED BY <1>1, <1>2, <1>3, <1>4, <1>5, <1>6, <1>7 DEF Next

\* For any number of windows, tabs, events and faults, the windows and the two
\* keys implement SharedWorkspace: one stored workspace, which a window starts
\* with and a save replaces by exactly what the window shows; a damaged key or a
\* refused save leaves that workspace or the one behind it, whole, and only a
\* second one can leave nothing.
THEOREM RefinesSharedWorkspace == Spec => ImplementsSharedWorkspace
<1>1. Init => Profile!Init
  BY Values DEF Init, Profile!Init, Shown, Settled, Stored, Kept
<1>2. Init => TimersOfOpen BY DEF Init, TimersOfOpen
<1> QED BY <1>1, <1>2, StoreStarts, StoreInductive, TimersInductive, StepRefines, PTL
        DEF Spec, ImplementsSharedWorkspace, Profile!Spec
=============================================================================
