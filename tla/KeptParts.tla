------------------------------ MODULE KeptParts ------------------------------
(***************************************************************************)
(* The parts that keep something beyond one socket, tab, request or outage *)
(* and share no state, explored one after another in one model: `part`     *)
(* says which one moves, the others stay in an initial state.              *)
(***************************************************************************)
EXTENDS WarmResume, SharedSignIn, HeldWrites, Accounts, Usernames, SqlStore, CaptionMerge,
        TLC

VARIABLE part

tabVars == <<resumeVars, signInVars, heldVars>>
storeVars == <<accountVars, nameVars, sqlVars>>
keptVars == <<part, tabVars, storeVars, mergeVars>>

KeptInit ==
  /\ part \in {"resume", "signIn", "writes", "accounts", "names", "store", "captions"}
  /\ ResumeInit /\ SignInInit /\ HeldInit /\ AccountInit /\ NamesInit /\ SqlInit /\ MergeInit
  /\ part # "resume" => dedupe   \* one initial state for each of the other parts
  /\ part # "store" => conversations = [id \in Ids |-> Absent] /\ written = "items"
  /\ conversations[Written] = Absent   \* bound: an old row is another conversation's
  /\ part # "names" => nameOf = [u \in Accounted |-> Unnamed]
  \* bound: at first a verified admin or an unverified member
  /\ \A p \in People : /\ claim[p].verified <=> claim[p].groups = "admin"
                       /\ part # "accounts" => claim[p] = [email |-> EnvEmail, verified |-> TRUE,
                                                           groups |-> "admin"]

ClientNext ==
  \/ part = "resume" /\ ResumeNext /\ UNCHANGED <<signInVars, heldVars>>
  \/ part = "signIn" /\ SignInNext /\ UNCHANGED <<resumeVars, heldVars>>
  \/ part = "writes" /\ HeldNext /\ UNCHANGED <<resumeVars, signInVars>>
RowsNext ==
  \/ part = "accounts" /\ AccountNext /\ UNCHANGED <<nameVars, sqlVars>>
  \/ part = "names" /\ NamesNext /\ UNCHANGED <<accountVars, sqlVars>>
  \* nobody need ever call the store
  \/ part = "store" /\ (SqlNext \/ UNCHANGED sqlVars) /\ UNCHANGED <<accountVars, nameVars>>

KeptNext ==
  /\ UNCHANGED part
  /\ \/ ClientNext /\ UNCHANGED <<storeVars, mergeVars>>
     \/ RowsNext /\ UNCHANGED <<tabVars, mergeVars>>
     \/ part = "captions" /\ MergeNext /\ UNCHANGED <<tabVars, storeVars>>

KeptSpec == KeptInit /\ [][KeptNext]_keptVars

-----------------------------------------------------------------------------
(* Values for TLC: symmetric tabs, users, replicas and requests, and the names *)
(* that older releases left.                                                   *)

\* Tabs and replicas are the same two model values, and so are users and requests: no part knows
\* those of another, and the group of permutations stays small.
KeptSymmetry == {f @@ g : f \in Permutations(Tabs), g \in Permutations(Users)}

Spelt(u, p, w) == [upper |-> u, pad |-> p, wide |-> w]
OldNames ==
  {{}, {Spelt(FALSE, "ascii", FALSE)}, {Spelt(FALSE, "other", FALSE)}, {Spelt(FALSE, "none", TRUE)},
   {Spelt(FALSE, "none", FALSE), Spelt(FALSE, "ascii", FALSE)},
   {Spelt(TRUE, "other", FALSE), Spelt(FALSE, "none", FALSE)},
   {Spelt(TRUE, "none", TRUE), Spelt(FALSE, "other", FALSE)},
   {Spelt(TRUE, "ascii", TRUE), Spelt(FALSE, "other", TRUE)}}
=============================================================================
