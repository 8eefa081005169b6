---------------------------- MODULE NamedVault ----------------------------
(***************************************************************************)
(* What the location record promises: it names one vault, whose contents   *)
(* change when something is saved or erased.  A move changes where it is   *)
(* and nothing else, in one step.                                          *)
(***************************************************************************)
CONSTANTS Folders, Entries, Contents, Absent

VARIABLES dir, content

vars == <<dir, content>>

Init == dir \in Folders /\ content \in [Entries -> Contents]

\* One entry changes.
Saves ==
  /\ \E e \in Entries, c \in Contents \ {Absent} : content' = [content EXCEPT ![e] = c]
  /\ UNCHANGED dir

\* A keeper opens the vault: what an erasure left is replaced by empty stores.
Opens ==
  /\ \E fresh \in Contents, renewed \in SUBSET Entries :
       content' = [e \in Entries |-> IF e \in renewed THEN fresh ELSE content[e]]
  /\ UNCHANGED dir

\* Entries are erased.
Erases ==
  /\ \E erased \in SUBSET Entries :
       content' = [e \in Entries |-> IF e \in erased THEN Absent ELSE content[e]]
  /\ UNCHANGED dir

Moves == dir' \in Folders /\ UNCHANGED content

Next == Saves \/ Opens \/ Erases \/ Moves

Spec == Init /\ [][Next]_vars

============================================================================
