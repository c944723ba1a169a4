-------------------------- MODULE SharedWorkspace --------------------------
(***************************************************************************)
(* What the explorer store promises of the windows of one profile: there   *)
(* is one stored workspace, a window starts with it, and a window that is  *)
(* settled (nothing to save, nothing to hear of) shows it.  What is stored *)
(* is what some window showed when it saved; only a fault takes it away,   *)
(* and then the workspace behind it is stored.                             *)
(***************************************************************************)
CONSTANTS Windows,
          Nothing     \* the workspace of a profile without a stored one

VARIABLES open,       \* the windows that are open
          shown,      \* open window -> the workspace it shows
          settled,    \* open windows with nothing to save or to hear of
          stored,     \* the workspace a window would start with
          kept        \* the one behind it

vars == <<open, shown, settled, stored, kept>>

\* Nothing else is left than what is stored, if that: so it is after a fault.
NoneBehind == stored \in {kept, Nothing}

Init == /\ open = {} /\ shown = [w \in {} |-> Nothing] /\ settled = {}
        /\ stored = Nothing /\ kept = Nothing

Open(w) ==
  /\ w \notin open
  /\ open' = open \cup {w}
  /\ shown' = [v \in open' |-> IF v = w THEN stored ELSE shown[v]]
  /\ settled' \in {settled, settled \cup {w}}
  /\ UNCHANGED <<stored, kept>>

\* A window is closed or crashes: what it had not saved is gone.
Close(w) ==
  /\ w \in open
  /\ open' = open \ {w}
  /\ shown' = [v \in open' |-> shown[v]]
  /\ settled' = settled \ {w}
  /\ UNCHANGED <<stored, kept>>

\* Only w, if any, shows something else.
Shows(w, workspace) ==
  /\ w \in open /\ UNCHANGED open
  /\ shown' = [shown EXCEPT ![w] = workspace]

Edit(w) ==
  /\ settled' = settled \ {w}
  /\ Shows(w, shown'[w])
  /\ UNCHANGED <<stored, kept>>

Hear(w) ==
  /\ settled' \in {settled, settled \cup {w}}
  /\ Shows(w, stored)
  /\ UNCHANGED <<stored, kept>>

\* The workspace shown, or the one behind that the user asked back, is stored.
\* The others are not settled when that changes what is stored.
Save(w) ==
  /\ settled' \subseteq settled \cup {w}
  /\ Shows(w, shown'[w]) /\ shown'[w] \in {shown[w], kept}
  /\ stored' = shown'[w]
  /\ kept' \in {kept, stored} \/ (NoneBehind /\ kept' = Nothing)
  /\ stored' # stored => settled' \subseteq {w}

\* A save does not get through.
Refused(w) ==
  /\ settled' \subseteq settled \ {w}
  /\ Shows(w, shown'[w]) /\ shown'[w] \in {shown[w], kept}
  /\ \/ <<stored', kept'>> \in {<<stored, kept>>, <<stored, stored>>}
     \/ NoneBehind /\ <<stored', kept'>> = <<Nothing, Nothing>>
  /\ stored' # stored => settled' = {}

\* Between two runs one of the two is damaged.
Damage ==
  /\ open = {}
  /\ \/ <<stored', kept'>> \in {<<kept, kept>>, <<stored, Nothing>>}
     \/ NoneBehind /\ <<stored', kept'>> = <<Nothing, Nothing>>
  /\ UNCHANGED <<open, shown, settled>>

Next == \/ Damage
        \/ \E w \in Windows : \/ Open(w) \/ Close(w) \/ Edit(w) \/ Hear(w)
                              \/ Save(w) \/ Refused(w)

Spec == Init /\ [][Next]_vars
=============================================================================
