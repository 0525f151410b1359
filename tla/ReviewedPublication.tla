-------------------------- MODULE ReviewedPublication --------------------------
(***************************************************************************)
(* What a folder wiki promises its owner: a version of a document becomes  *)
(* visible to search and disclosure only through an explicit approval of   *)
(* that version, stays exactly that version while it is visible, and may   *)
(* be withdrawn at any time without asking                                 *)
(* (docs/adr/0004-sqlite-okf-authority-and-reconciliation.md).             *)
(***************************************************************************)
CONSTANTS
  Documents,
  Versions,
  NoVersion

VARIABLES
  intent,   \* version the person approved and that is not visible yet
  visible   \* version search and disclosure may return

Init ==
  /\ intent = [s \in Documents |-> NoVersion]
  /\ visible = [s \in Documents |-> NoVersion]

(* Approving withholds the document until its publication is durable, and one *)
(* approval at a time is being materialized.                                  *)
Approve(s, v) ==
  /\ visible[s] = NoVersion
  /\ \A t \in Documents : intent[t] = NoVersion
  /\ intent' = [intent EXCEPT ![s] = v]
  /\ UNCHANGED visible

Publish(s) ==
  /\ intent[s] # NoVersion
  /\ visible' = [visible EXCEPT ![s] = intent[s]]
  /\ intent' = [intent EXCEPT ![s] = NoVersion]

(* Changes, deletions, failures and quarantines withdraw any documents.       *)
Withdraw(S) ==
  /\ visible' = [s \in Documents |-> IF s \in S THEN NoVersion ELSE visible[s]]
  /\ intent' = [s \in Documents |-> IF s \in S THEN NoVersion ELSE intent[s]]

Next ==
  \/ \E s \in Documents : Publish(s) \/ \E v \in Versions : Approve(s, v)
  \/ \E S \in SUBSET Documents : Withdraw(S)

Spec == Init /\ [][Next]_<<intent, visible>>
================================================================================
