-------------------------- MODULE RollingCredential --------------------------
(***************************************************************************)
(* What the rotation of a node's token promises, without messages, rows or *)
(* handlers.  The hub has a current credential and at most one successor;  *)
(* the agent bears one credential and keeps one in store for its next      *)
(* start.  A credential is retired only for a successor that the agent     *)
(* bears and has in store, so that there is no point at which a crash, a   *)
(* loss or a delay takes the agent back to a retired one.  TokenRotation   *)
(* implements this specification when its requests do not overlap.         *)
(***************************************************************************)
CONSTANTS Jtis,      \* credentials
          NoJti      \* no credential

VARIABLES registered,  \* the node has not been removed
          current,     \* the credential in force
          successor,   \* the one that will replace it
          bearer,      \* what the agent presents, or would after a restart
          stored,      \* what is in its state file
          used         \* credentials that can not be issued again

vars == <<registered, current, successor, bearer, stored, used>>

Init ==
  /\ registered = TRUE
  /\ current \in Jtis
  /\ successor = NoJti
  /\ bearer = current /\ stored = current
  /\ used = {current}

\* The hub issues a successor, one at a time and never one issued before.
Issue ==
  /\ registered /\ successor = NoJti
  /\ successor' \in Jtis \ used
  /\ used' = used \cup {successor'}
  /\ UNCHANGED <<registered, current, bearer, stored>>

\* The agent, still on the current credential, goes over to the successor.
Adopt ==
  /\ registered /\ successor # NoJti
  /\ bearer = current
  /\ bearer' = successor
  /\ UNCHANGED <<registered, current, successor, stored, used>>

\* It gives up the stored credential for the one it bears, in two steps.
Erase ==
  /\ registered /\ bearer = successor /\ stored = current
  /\ stored' = NoJti
  /\ UNCHANGED <<registered, current, successor, bearer, used>>

Store ==
  /\ registered /\ bearer = successor /\ stored = NoJti
  /\ stored' = bearer
  /\ UNCHANGED <<registered, current, successor, bearer, used>>

\* The agent dies, and is left with what it has in store.
Recall ==
  /\ registered /\ bearer' = stored
  /\ UNCHANGED <<registered, current, successor, stored, used>>

\* The successor comes into force once the agent can not go back.
Advance ==
  /\ registered /\ successor # NoJti
  /\ bearer = successor /\ stored = successor
  /\ current' = successor /\ successor' = NoJti
  /\ UNCHANGED <<registered, bearer, stored, used>>

\* Removing the node ends all promises.
Withdraw ==
  /\ registered
  /\ registered' = FALSE
  /\ <<current, successor, bearer, stored>>' = <<NoJti, NoJti, NoJti, NoJti>>
  /\ UNCHANGED used

Next == Issue \/ Adopt \/ Erase \/ Store \/ Recall \/ Advance \/ Withdraw

Spec == Init /\ [][Next]_vars
=============================================================================
