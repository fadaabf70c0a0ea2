--------------------------- MODULE LandingContract ---------------------------
(***************************************************************************)
(* What a landing promises of the source tree: the paths it changes go     *)
(* from their original to their result in one step, or not at all.  The    *)
(* tree is what the landing, or its recovery, would leave if it stopped    *)
(* here; a path the user has edited in the meantime is promised nothing    *)
(* but this: content of the user's own is never replaced, unless he wrote  *)
(* it while the landing was about to rename over what it had inspected.    *)
(***************************************************************************)
CONSTANTS Paths, Contents, Own, Original, Result

VARIABLES tree,       \* content of every path, seen past the backups
          outcome,    \* "open", "landed" or "undone"
          touched,    \* paths the user has edited
          raced       \* paths he edited behind an inspection's back

contractVars == <<tree, outcome, touched, raced>>

ContractTypeOK ==
  /\ tree \in [Paths -> Contents]
  /\ outcome \in {"open", "landed", "undone"}
  /\ raced \subseteq touched /\ touched \subseteq Paths

ContractInit ==
  /\ tree = Original
  /\ outcome = "open"
  /\ touched = {} /\ raced = {}

(* What every step but the user's owes a path: the user's content stays.   *)
OwnStays == \A p \in Paths \ raced : tree[p] = Own => tree'[p] = Own

(* The one step in which all untouched paths become their result.          *)
Land ==
  /\ outcome = "open"
  /\ outcome' = "landed"
  /\ \A p \in Paths \ touched : tree'[p] = Result[p]
  /\ OwnStays
  /\ tree' \in [Paths -> Contents]
  /\ UNCHANGED <<touched, raced>>

Undo ==
  /\ outcome = "open"
  /\ outcome' = "undone"
  /\ UNCHANGED <<tree, touched, raced>>

(* Work on a path the user has edited, in any outcome. *)
Meddle ==
  /\ \A p \in Paths \ touched : tree'[p] = tree[p]
  /\ OwnStays
  /\ tree' \in [Paths -> Contents]
  /\ UNCHANGED <<outcome, touched, raced>>

Edit(p) ==
  /\ touched' = touched \union {p}
  /\ raced' \in {raced, raced \union {p}}
  /\ \E c \in Contents : tree' = [tree EXCEPT ![p] = c]
  /\ UNCHANGED outcome

ContractNext == Land \/ Undo \/ Meddle \/ \E p \in Paths : Edit(p)

ContractSpec == ContractInit /\ [][ContractNext]_contractVars
=============================================================================
