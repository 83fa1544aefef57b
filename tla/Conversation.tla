---------------------------- MODULE Conversation ----------------------------
(***************************************************************************)
(* What a conversation promises to whoever looks at it in History: its       *)
(* status, against which sitting is recording into it.  Sittings take it one *)
(* after another; it is shown as finished only while nobody records, and it  *)
(* does not stay shown as recording once nobody does.                        *)
(*                                                                         *)
(* The abstract specification that Recording implements.                     *)
(***************************************************************************)
CONSTANTS
  Sitters,    \* who may record
  Nobody      \* no sitting records

VARIABLES
  status,     \* what the row shows
  recorder    \* the sitting recording, if any

vars == <<status, recorder>>

Init == status = "absent" /\ recorder = Nobody

\* A sitting opens the conversation; a deleted one stays deleted.
Take(s) ==
  /\ recorder = Nobody
  /\ status # "deleted"
  /\ status' = "live"
  /\ recorder' = s

\* A start that was given up opens it after all.
TakeForNobody ==
  /\ recorder = Nobody
  /\ status # "deleted"
  /\ status' = "live"
  /\ UNCHANGED recorder

\* The sitting ends.  What is shown follows later.
GiveUp ==
  /\ recorder # Nobody
  /\ recorder' = Nobody
  /\ UNCHANGED status

Finish ==
  /\ status = "live"
  /\ recorder = Nobody
  /\ status' = "ready"
  /\ UNCHANGED recorder

\* History deletes it, recording or not.
Delete ==
  /\ status \in {"live", "ready"}
  /\ status' = "deleted"
  /\ UNCHANGED recorder

Next == (\E s \in Sitters : Take(s)) \/ TakeForNobody \/ GiveUp \/ Finish \/ Delete

SafeSpec == Init /\ [][Next]_vars
Spec     == SafeSpec /\ WF_vars(Finish)
=============================================================================
