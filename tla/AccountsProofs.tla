---------------------------- MODULE AccountsProofs ----------------------------
(***************************************************************************)
(* Proofs about who is who: the accounts of a household, and the sign-in   *)
(* that the tabs of one browser share.                                     *)
(*                                                                         *)
(* Accounts.  Whatever the number of people, requests, replicas and        *)
(* database errors, the environment's admin is one row that stays an admin *)
(* and is never edited or deleted away, and no account has more capture    *)
(* devices than the cap, a deleted one none (AccountsAreSafe).             *)
(* AccountsSafe is not inductive: a request reads its row in one           *)
(* transaction and acts on it in another.  AccountInv adds what stays true *)
(* in between: rows are numbered as they are made and a number is never    *)
(* used again (Fresh), what a request checked of its row still holds when  *)
(* it acts (InHand), and a replica that found the environment's admin      *)
(* finds it again when it updates the row (Seeded).                        *)
(*                                                                         *)
(* SharedSignIn.  For any tabs, users and number of tokens (SignInIsSafe): *)
(* a request belongs to the epoch it was sent in, and every change of the  *)
(* signed-in user makes a new one; an exchange belongs to the refresh      *)
(* token it sent, and no refresh token is ever stored twice.  The second   *)
(* is what the proof turns on: "the sidecar is still what I sent" means    *)
(* that nobody signed in meanwhile only because an answer that is still in *)
(* flight is neither stored yet nor what another tab has sent.             *)
(*                                                                         *)
(* Usernames.  For any old names, replicas and requests (LoginsAreKept):   *)
(* the name that signs an account in stays that account's, and both stores *)
(* agree.  A name is written some statements after it was found free, with *)
(* an index that may not see the padding of old names in between; NameInv  *)
(* says why the write is harmless all the same: no row ever becomes padded *)
(* (PadsClear), and a row a boot has still to strip holds the name that    *)
(* was read, or one written since whose key nobody else has (StillRead).   *)
(* The rest is who comes first among the rows a name finds (LoginIsFirst). *)
(***************************************************************************)
EXTENDS Accounts, SharedSignIn, Usernames, FiniteSetTheorems, TLAPS

-----------------------------------------------------------------------------
(* The inductive invariant.                                                 *)

\* Rows are made in order, so a row that is gone is not made again under an old request.
Fresh == \A u \in Rows : u > used.rows => ~Used(u)

\* A replica that found the environment's admin does find it when it updates the row.
Seeded == (\E x \in Replicas : seeding[x] = "updating") => EnvAdminThere

\* What a request has checked still holds when it acts: the row it edits or deletes is not the
\* environment's admin, and the row it mints for is locked, used and below its cap.
InHand ==
  \A r \in Requests :
    LET u == inFlight[r].row IN
    /\ inFlight[r].at \in {"linking", "refreshing"} => u \in Rows
    /\ inFlight[r].at \in {"deleting", "editing"} => u \in Rows /\ u <= used.rows /\ ~account[u].env
    /\ inFlight[r].at = "minting" => u \in Rows /\ minting[u] = r /\ Used(u) /\ device[u] < MaxDevices

\* The inductive invariant.
AccountInv == AccountTypeOK /\ EnvAdminStays /\ DevicesAreOwned /\ Fresh /\ Seeded /\ InHand

-----------------------------------------------------------------------------
(* Records.                                                                 *)

\* A row with one field put is a row.
LEMMA RowPut ==
  ASSUME NEW a \in AccountRecords
  PROVE  /\ \A p \in People : /\ [a EXCEPT !.sub = p] \in AccountRecords
                              /\ ([a EXCEPT !.sub = p].there <=> a.there)
                              /\ ([a EXCEPT !.sub = p].env <=> a.env)
                              /\ [a EXCEPT !.sub = p].role = a.role
         /\ /\ [a EXCEPT !.email = EnvEmail] \in AccountRecords
            /\ ([a EXCEPT !.email = EnvEmail].there <=> a.there)
            /\ ([a EXCEPT !.email = EnvEmail].env <=> a.env)
            /\ [a EXCEPT !.email = EnvEmail].role = a.role
         /\ \A r \in {"admin", "member"} : /\ [a EXCEPT !.role = r] \in AccountRecords
                                           /\ ([a EXCEPT !.role = r].there <=> a.there)
                                           /\ ([a EXCEPT !.role = r].env <=> a.env)
BY DEF AccountRecords, EnvEmail

\* A row that is edited keeps all but its role and its email.
LEMMA RowEdited ==
  ASSUME NEW a \in AccountRecords, NEW r \in {"admin", "member"}, NEW e \in Emails \union {NoClaim, EnvEmail, "e1"}
  PROVE  /\ [a EXCEPT !.role = r, !.email = e] \in AccountRecords
         /\ ([a EXCEPT !.role = r, !.email = e].there <=> a.there)
         /\ ([a EXCEPT !.role = r, !.email = e].env <=> a.env)
BY DEF AccountRecords

\* The blank row.
LEMMA Blank == NoAccount \in AccountRecords /\ ~NoAccount.there /\ ~NoAccount.env
BY DEF NoAccount, AccountRecords, NoClaim

\* The request that is nowhere.
LEMMA Resting == Idle \in RequestRecords /\ Idle.at = "idle"
BY DEF Idle, RequestRecords, NoClaim

-----------------------------------------------------------------------------
(* What the parts of the invariant depend on.                               *)

\* Rows whose presence, admin mark and admin's role stay keep the environment's admin.
LEMMA SameAdmins ==
  ASSUME AccountInv, account' \in [Rows -> AccountRecords], used'.rows = used.rows, device' = device,
         \A u \in Rows : /\ Used(u)' <=> Used(u)
                         /\ account'[u].env <=> account[u].env
                         /\ account[u].env => account'[u].role = account[u].role,
         \A x \in Replicas : seeding'[x] \in {"updating", "done"} =>
                               seeding[x] \in {"updating", "done"} \/ \E u \in Rows : Used(u) /\ account[u].env
  PROVE  EnvAdminStays' /\ DevicesAreOwned' /\ Fresh' /\ Seeded'
<1>1. EnvAdminStays'
  BY DEF AccountInv, EnvAdminStays, EnvAdminThere, Seeded
<1>2. DevicesAreOwned'
  BY DEF AccountInv, DevicesAreOwned
<1>3. Fresh'
  BY DEF AccountInv, Fresh
<1>4. Seeded'
  BY DEF AccountInv, EnvAdminStays, EnvAdminThere, Seeded
<1> QED BY <1>1, <1>2, <1>3, <1>4

\* A request that goes idle leaves the others what they hold, if the rows and locks they hold stay.
LEMMA HoldsStill ==
  ASSUME AccountInv, NEW r \in Requests, inFlight' = [inFlight EXCEPT ![r] = Idle],
         used'.rows >= used.rows, used'.rows \in Rows,
         \A u \in Rows : u <= used.rows => (account'[u].env => account[u].env),
         \A q \in Requests \ {r} : inFlight[q].at = "minting" =>
           LET u == inFlight[q].row IN minting'[u] = q /\ (Used(u) => Used(u)') /\ device'[u] = device[u]
  PROVE  InHand'
<1>1. \A q \in Requests : IF q = r THEN inFlight'[q].at = "idle" ELSE inFlight'[q] = inFlight[q]
  BY Resting DEF AccountInv, AccountTypeOK
<1>2. used.rows \in Rows
  BY DEF AccountInv, AccountTypeOK
<1> SUFFICES ASSUME NEW q \in Requests, q # r
             PROVE  LET u == inFlight[q].row IN
                    /\ inFlight[q].at \in {"linking", "refreshing"} => u \in Rows
                    /\ inFlight[q].at \in {"deleting", "editing"} => u \in Rows /\ u <= used'.rows /\ ~account'[u].env
                    /\ inFlight[q].at = "minting" => u \in Rows /\ minting'[u] = q /\ Used(u)' /\ device'[u] < MaxDevices
  BY <1>1 DEF InHand
<1> QED BY <1>1, <1>2, AccountBounds DEF AccountInv, InHand, Rows
-----------------------------------------------------------------------------
(* The replicas' seeding.                                                   *)

\* A replica reads whether the admin's row is there.
LEMMA ReadsSeed ==
  ASSUME AccountInv, NEW x \in Replicas, SeedReads(x)
  PROVE  AccountInv'
<1> USE DEF AccountInv, SeedReads
<1>1. AccountTypeOK'
  BY DEF AccountTypeOK, Used
<1>2. EnvAdminStays' /\ DevicesAreOwned' /\ Fresh' /\ Seeded'
  <2>1. \A u \in Rows : Used(u)' <=> Used(u)
    BY DEF Used
  <2>2. \A y \in Replicas : seeding'[y] \in {"updating", "done"} =>
          seeding[y] \in {"updating", "done"} \/ \E u \in Rows : Used(u) /\ account[u].env
    BY DEF AccountTypeOK, EnvAdminThere
  <2> QED BY <2>1, <2>2, SameAdmins DEF AccountTypeOK
<1>3. InHand'
  BY DEF InHand, Used
<1> QED BY <1>1, <1>2, <1>3

\* A new row is the first one never used.
LEMMA Inserting ==
  ASSUME AccountInv, NEW row \in AccountRecords, FreeRows # {}, account' = Inserted(row),
         used' = [used EXCEPT !.rows = @ + 1], UNCHANGED <<claim, device, minting>>
  PROVE  /\ used.rows + 1 \in Rows /\ ~Used(used.rows + 1) /\ device[used.rows + 1] = 0
         /\ used' \in [rows : Rows, upsets : 0..MaxUpsets]
         /\ used'.rows = used.rows + 1
         /\ account' \in [Rows -> AccountRecords]
         /\ account'[used.rows + 1].there /\ (account'[used.rows + 1].env <=> row.env)
         /\ account'[used.rows + 1].role = row.role
         /\ \A u \in Rows : u # used.rows + 1 => account'[u] = account[u]
         /\ \A u \in Rows : Used(u)' \/ account'[u] = NoAccount
         /\ DevicesAreOwned' /\ Fresh'
<1> USE AccountBounds DEF AccountInv
<1>1. used.rows + 1 \in Rows /\ used.rows \in Rows /\ ~Used(used.rows + 1)
  BY DEF FreeRows, Rows, AccountTypeOK, Fresh
<1>2. device[used.rows + 1] = 0
  BY <1>1 DEF DevicesAreOwned
<1>3. used' \in [rows : Rows, upsets : 0..MaxUpsets] /\ used'.rows = used.rows + 1
  BY <1>1 DEF AccountTypeOK
<1> DEFINE new == [row EXCEPT !.there = TRUE]
<1>4. new \in AccountRecords /\ new.there /\ (new.env <=> row.env) /\ new.role = row.role
  BY DEF AccountRecords
<1>5. account' = [account EXCEPT ![used.rows + 1] = new]
  BY DEF Inserted
<1> HIDE DEF new
<1>6. /\ account' \in [Rows -> AccountRecords] /\ account'[used.rows + 1] = new
      /\ \A u \in Rows : u # used.rows + 1 => account'[u] = account[u]
  BY <1>1, <1>4, <1>5 DEF AccountTypeOK
<1>7. \A u \in Rows : Used(u)' \/ account'[u] = NoAccount
  BY <1>4, <1>6 DEF AccountTypeOK, Used
<1>8. DevicesAreOwned'
  BY <1>2, <1>4, <1>6 DEF DevicesAreOwned, Used
<1>9. Fresh'
  BY <1>1, <1>3, <1>6 DEF Fresh, Used, Rows
<1> QED BY <1>1, <1>2, <1>3, <1>4, <1>6, <1>7, <1>8, <1>9

\* The seed makes the admin's row, unless there is one.
LEMMA CreatesSeed ==
  ASSUME AccountInv, NEW x \in Replicas, SeedCreates(x)
  PROVE  AccountInv'
<1> USE DEF AccountInv
<1> DEFINE new == [NoAccount EXCEPT !.role = "admin", !.env = TRUE,
                     !.email = IF seeding[x] = "creating" THEN EnvEmail ELSE NoClaim]
<1>1. new \in AccountRecords /\ new.env /\ new.role = "admin"
  BY DEF AccountRecords, NoAccount, NoClaim, EnvEmail
<1>2. UNCHANGED <<claim, inFlight, device, minting>>
  BY DEF SeedCreates
<1>3. \/ /\ ~Duplicate(new) /\ FreeRows # {}
         /\ account' = Inserted(new)
         /\ used' = [used EXCEPT !.rows = @ + 1]
         /\ seeding' = [seeding EXCEPT ![x] = "done"]
      \/ /\ \/ EnvAdminThere /\ seeding' = [seeding EXCEPT ![x] = "done"]
            \/ \E at \in {"retrying", "gaveUp"} : seeding' = [seeding EXCEPT ![x] = at]
         /\ UNCHANGED <<account, used>>
  BY Zenon DEF SeedCreates
<1> HIDE DEF new
<1>4. CASE /\ \/ EnvAdminThere /\ seeding' = [seeding EXCEPT ![x] = "done"]
              \/ \E at \in {"retrying", "gaveUp"} : seeding' = [seeding EXCEPT ![x] = at]
           /\ UNCHANGED <<account, used>>
  <2>1. AccountTypeOK'
    BY <1>2, <1>4 DEF AccountTypeOK, Used
  <2>2. \A u \in Rows : Used(u)' <=> Used(u)
    BY <1>4 DEF Used
  <2>3. \A y \in Replicas : seeding'[y] \in {"updating", "done"} =>
          seeding[y] \in {"updating", "done"} \/ \E u \in Rows : Used(u) /\ account[u].env
    BY <1>4 DEF AccountTypeOK, EnvAdminThere
  <2>4. EnvAdminStays' /\ DevicesAreOwned' /\ Fresh' /\ Seeded'
    BY <1>2, <1>4, <2>2, <2>3, SameAdmins DEF AccountTypeOK
  <2>5. InHand'
    BY <1>2, <1>4 DEF InHand, Used
  <2> QED BY <2>1, <2>4, <2>5
<1>5. CASE /\ ~Duplicate(new) /\ FreeRows # {}
           /\ account' = Inserted(new)
           /\ used' = [used EXCEPT !.rows = @ + 1]
           /\ seeding' = [seeding EXCEPT ![x] = "done"]
  <2>1. \A u \in Rows : Used(u) => ~account[u].env
    BY <1>1, <1>5 DEF Duplicate
  <2>2. /\ used.rows + 1 \in Rows /\ ~Used(used.rows + 1)
        /\ used' \in [rows : Rows, upsets : 0..MaxUpsets]
        /\ used'.rows = used.rows + 1
        /\ account' \in [Rows -> AccountRecords]
        /\ account'[used.rows + 1].there /\ account'[used.rows + 1].env
        /\ account'[used.rows + 1].role = "admin"
        /\ \A u \in Rows : u # used.rows + 1 => account'[u] = account[u]
        /\ \A u \in Rows : Used(u)' \/ account'[u] = NoAccount
        /\ DevicesAreOwned' /\ Fresh'
    BY <1>1, <1>2, <1>5, Inserting
  <2>3. AccountTypeOK'
    BY <1>2, <1>5, <2>2 DEF AccountTypeOK
  <2>4. EnvAdminStays' /\ Seeded'
    BY <2>1, <2>2 DEF EnvAdminStays, EnvAdminThere, Seeded, Used
  <2>5. InHand'
    <3>1. used.rows \in Nat
      BY AccountBounds DEF AccountTypeOK, Rows
    <3>2. ASSUME NEW r \in Requests
          PROVE  LET u == inFlight[r].row IN
                 /\ inFlight[r].at \in {"linking", "refreshing"} => u \in Rows
                 /\ inFlight[r].at \in {"deleting", "editing"} => u \in Rows /\ u <= used'.rows /\ ~account'[u].env
                 /\ inFlight[r].at = "minting" => u \in Rows /\ minting[u] = r /\ Used(u)' /\ device[u] < MaxDevices
      <4> DEFINE u == inFlight[r].row
      <4>1. inFlight[r].at \in {"deleting", "editing"} =>
              u \in Rows /\ u <= used'.rows /\ account'[u] = account[u] /\ ~account[u].env
        BY <2>2, <3>1 DEF InHand, Rows
      <4>2. inFlight[r].at = "minting" =>
              u \in Rows /\ minting[u] = r /\ account'[u] = account[u] /\ Used(u) /\ device[u] < MaxDevices
        BY <2>2 DEF InHand
      <4>3. inFlight[r].at \in {"linking", "refreshing"} => u \in Rows
        BY DEF InHand
      <4>4. inFlight[r].at \in {"deleting", "editing"} => ~account'[u].env
        BY <4>1
      <4>5. inFlight[r].at = "minting" => Used(u)'
        BY <1>2, <4>2 DEF Used
      <4> QED BY <4>1, <4>2, <4>3, <4>4, <4>5
    <3> QED BY <1>2, <3>2 DEF InHand
  <2> QED BY <2>2, <2>3, <2>4, <2>5
<1> QED BY <1>3, <1>4, <1>5

\* The environment's email is put on the admin's row.
LEMMA UpdatesSeed ==
  ASSUME AccountInv, NEW x \in Replicas, SeedUpdates(x)
  PROVE  AccountInv'
<1> USE DEF AccountInv
<1>1. /\ seeding[x] = "updating" /\ seeding' = [seeding EXCEPT ![x] = "done"]
      /\ UNCHANGED <<claim, inFlight, device, minting, used>>
  BY DEF SeedUpdates
<1>2. /\ \A u \in Rows : \/ account'[u] = account[u]
                         \/ account[u].env /\ account'[u] = [account[u] EXCEPT !.email = EnvEmail]
      /\ account' = [u \in Rows |-> account'[u]]
  <2> DEFINE put == [u \in Rows |-> IF account[u].env THEN [account[u] EXCEPT !.email = EnvEmail]
                                                      ELSE account[u]]
  <2>1. account' = put \/ account' = account
    BY DEF SeedUpdates
  <2>2. CASE account' = put
    <3>1. \A u \in Rows : account'[u] = IF account[u].env THEN [account[u] EXCEPT !.email = EnvEmail]
                                                          ELSE account[u]
      BY <2>2, Zenon
    <3>2. account' = [u \in Rows |-> account'[u]]
      BY <2>2, Zenon
    <3> QED BY <3>1, <3>2, Zenon
  <2>3. CASE account' = account
    BY <2>3 DEF AccountTypeOK
  <2> QED BY <2>1, <2>2, <2>3
<1>3. \A u \in Rows : account[u] \in AccountRecords
  BY DEF AccountTypeOK
<1>4. \A u \in Rows : /\ account'[u] \in AccountRecords
                      /\ Used(u)' <=> Used(u)
                      /\ account'[u].env <=> account[u].env
                      /\ account[u].env => account'[u].role = account[u].role
                      /\ ~account[u].env => account'[u] = account[u]
  <2> SUFFICES ASSUME NEW u \in Rows
               PROVE  /\ account'[u] \in AccountRecords
                      /\ Used(u)' <=> Used(u)
                      /\ account'[u].env <=> account[u].env
                      /\ account[u].env => account'[u].role = account[u].role
                      /\ ~account[u].env => account'[u] = account[u]
    OBVIOUS
  <2>1. CASE account'[u] = account[u]
    BY <1>3, <2>1 DEF Used
  <2>2. CASE account[u].env /\ account'[u] = [account[u] EXCEPT !.email = EnvEmail]
    <3> DEFINE a == account[u]
    <3>1. a \in AccountRecords
      BY <1>3
    <3>2. /\ [a EXCEPT !.email = EnvEmail] \in AccountRecords
          /\ ([a EXCEPT !.email = EnvEmail].there <=> a.there)
          /\ ([a EXCEPT !.email = EnvEmail].env <=> a.env)
          /\ [a EXCEPT !.email = EnvEmail].role = a.role
      BY <3>1, RowPut
    <3> QED BY <2>2, <3>2 DEF Used
  <2> QED BY <1>2, <2>1, <2>2
<1>5. account' \in [Rows -> AccountRecords]
  BY <1>2, <1>4
<1>6. AccountTypeOK'
  <2>1. \A u \in Rows : Used(u)' \/ account'[u] = NoAccount
    BY <1>4, Blank DEF AccountTypeOK
  <2> QED BY <1>1, <1>5, <2>1 DEF AccountTypeOK
<1>7. EnvAdminStays' /\ DevicesAreOwned' /\ Fresh' /\ Seeded'
  <2>1. \A y \in Replicas : seeding'[y] \in {"updating", "done"} => seeding[y] \in {"updating", "done"}
    BY <1>1 DEF AccountTypeOK
  <2> QED BY <1>1, <1>4, <1>5, <2>1, SameAdmins
<1>8. InHand'
  BY <1>1, <1>4 DEF InHand
<1> QED BY <1>6, <1>7, <1>8

\* The database is away: the replica seeds again.
LEMMA FailsSeed ==
  ASSUME AccountInv, NEW x \in Replicas, SeedFails(x)
  PROVE  AccountInv'
<1> USE DEF AccountInv, SeedFails
<1>1. used' \in [rows : Rows, upsets : 0..MaxUpsets] /\ used'.rows = used.rows
  BY AccountBounds DEF AccountTypeOK
<1>2. AccountTypeOK'
  BY <1>1 DEF AccountTypeOK, Used
<1>3. EnvAdminStays' /\ DevicesAreOwned' /\ Fresh' /\ Seeded'
  <2>1. \A u \in Rows : Used(u)' <=> Used(u)
    BY DEF Used
  <2>2. \A y \in Replicas : seeding'[y] \in {"updating", "done"} => seeding[y] \in {"updating", "done"}
    BY DEF AccountTypeOK
  <2> QED BY <1>1, <2>1, <2>2, SameAdmins DEF AccountTypeOK
<1>4. InHand'
  BY <1>1 DEF InHand, Used
<1> QED BY <1>2, <1>3, <1>4

-----------------------------------------------------------------------------
(* The requests.                                                            *)

\* A request takes a step of its own: rows, devices and locks stay.
LEMMA OwnStep ==
  ASSUME AccountInv, NEW r \in Requests, NEW q \in RequestRecords, inFlight' = [inFlight EXCEPT ![r] = q],
         UNCHANGED <<account, claim, seeding, device, minting, used>>,
         q.at \in {"linking", "refreshing"} => q.row \in Rows,
         q.at \in {"deleting", "editing"} => q.row \in Rows /\ q.row <= used.rows /\ ~account[q.row].env,
         q.at # "minting"
  PROVE  AccountInv'
<1> USE DEF AccountInv
<1>1. AccountTypeOK'
  BY DEF AccountTypeOK, Used
<1>2. EnvAdminStays' /\ DevicesAreOwned' /\ Fresh' /\ Seeded'
  BY DEF EnvAdminStays, EnvAdminThere, DevicesAreOwned, Fresh, Seeded, Used
<1>3. \A p \in Requests : inFlight'[p] = IF p = r THEN q ELSE inFlight[p]
  BY DEF AccountTypeOK
<1>4. InHand'
  BY <1>3 DEF InHand, Used
<1> QED BY <1>1, <1>2, <1>4

\* A row that is used was made.
LEMMA UsedWasMade ==
  ASSUME AccountInv, NEW u \in Rows, Used(u)
  PROVE  u <= used.rows
BY AccountBounds DEF AccountInv, Fresh, AccountTypeOK, Rows

\* An identity is looked up by its subject.
LEMMA Resolves ==
  ASSUME AccountInv, NEW r \in Requests, NEW p \in People, ResolveIdentity(r, p)
  PROVE  AccountInv'
<1> DEFINE mine == {u \in Rows : HasSub(u, p)}
           found == CHOOSE u \in mine : TRUE
           q == [at |-> IF mine # {} THEN "refreshing" ELSE "matching", who |-> p,
                 row |-> IF mine # {} THEN found ELSE 0,
                 role |-> IF claim[p].groups = "admin" THEN "admin" ELSE "member",
                 email |-> IF claim[p].verified THEN claim[p].email ELSE NoClaim]
<1>1. inFlight' = [inFlight EXCEPT ![r] = q] /\ UNCHANGED <<account, claim, seeding, device, minting, used>>
  BY DEF ResolveIdentity
<1>2. mine # {} => found \in Rows
  OBVIOUS
<1> HIDE DEF mine, found
<1>3. (IF claim[p].verified THEN claim[p].email ELSE NoClaim) \in Emails \union {NoClaim}
  BY DEF AccountInv, AccountTypeOK
<1>4. q \in RequestRecords /\ (q.at \in {"linking", "refreshing"} => q.row \in Rows)
      /\ q.at \notin {"deleting", "editing", "minting"}
  BY <1>2, <1>3 DEF RequestRecords
<1> HIDE DEF q
<1> QED BY <1>1, <1>4, OwnStep

\* A row with the verified email is looked for.
LEMMA Matches ==
  ASSUME AccountInv, NEW r \in Requests, MatchEmail(r)
  PROVE  AccountInv'
<1> DEFINE match == {u \in Rows : HasEmail(u, inFlight[r].email)}
           found == CHOOSE v \in match : TRUE
<1>1. inFlight[r] \in RequestRecords /\ UNCHANGED <<account, claim, seeding, device, minting, used>>
  BY DEF AccountInv, AccountTypeOK, MatchEmail
<1>2. match # {} => found \in Rows
  OBVIOUS
<1>3. inFlight' = [inFlight EXCEPT ![r] =
        IF match = {} THEN [@ EXCEPT !.at = "provisioning"]
        ELSE IF account[found].sub = NoClaim THEN [@ EXCEPT !.at = "linking", !.row = found]
             ELSE [@ EXCEPT !.at = "provisioning", !.email = NoClaim]]
  BY DEF MatchEmail
<1> HIDE DEF match, found
<1>4. CASE match = {}
  <2> DEFINE q == [inFlight[r] EXCEPT !.at = "provisioning"]
  <2>1. q \in RequestRecords /\ q.at = "provisioning"
    BY <1>1 DEF RequestRecords
  <2>2. inFlight' = [inFlight EXCEPT ![r] = q]
    BY <1>3, <1>4
  <2> HIDE DEF q
  <2> QED BY <1>1, <2>1, <2>2, OwnStep
<1>5. CASE match # {} /\ account[found].sub = NoClaim
  <2> DEFINE q == [inFlight[r] EXCEPT !.at = "linking", !.row = found]
  <2>1. q \in RequestRecords /\ q.at = "linking" /\ q.row \in Rows
    BY <1>1, <1>2, <1>5 DEF RequestRecords
  <2>2. inFlight' = [inFlight EXCEPT ![r] = q]
    BY <1>3, <1>5
  <2> HIDE DEF q
  <2> QED BY <1>1, <2>1, <2>2, OwnStep
<1>6. CASE match # {} /\ account[found].sub # NoClaim
  <2> DEFINE q == [inFlight[r] EXCEPT !.at = "provisioning", !.email = NoClaim]
  <2>1. q \in RequestRecords /\ q.at = "provisioning"
    BY <1>1 DEF RequestRecords
  <2>2. inFlight' = [inFlight EXCEPT ![r] = q]
    BY <1>3, <1>6
  <2> HIDE DEF q
  <2> QED BY <1>1, <2>1, <2>2, OwnStep
<1> QED BY <1>4, <1>5, <1>6

\* A request ends having put a field of a row that is not an admin's: the identity linked to any
\* row, the role and the email of one that is not the environment's.
LEMMA PutsField ==
  ASSUME AccountInv, NEW r \in Requests, NEW u \in Rows, NEW a \in AccountRecords,
         account' = [account EXCEPT ![u] = a], Used(u),
         a.there, a.env <=> account[u].env, account[u].env => a.role = account[u].role,
         UNCHANGED <<claim, seeding, device, minting, used>>,
         inFlight' \in [Requests -> RequestRecords],
         InHand'
  PROVE  AccountInv'
<1> USE DEF AccountInv
<1>1. account' \in [Rows -> AccountRecords] /\ \A v \in Rows : account'[v] = IF v = u THEN a ELSE account[v]
  BY DEF AccountTypeOK
<1>2. \A v \in Rows : Used(v)' <=> Used(v)
  BY <1>1 DEF Used
<1>3. AccountTypeOK'
  BY <1>1, <1>2 DEF AccountTypeOK
<1>4. EnvAdminStays' /\ DevicesAreOwned' /\ Fresh' /\ Seeded'
  BY <1>1, <1>2, SameAdmins
<1> QED BY <1>3, <1>4

\* A row that keeps its presence and its admin mark leaves every request what it holds.
LEMMA HoldsPut ==
  ASSUME AccountInv, NEW r \in Requests, NEW q \in RequestRecords, inFlight' = [inFlight EXCEPT ![r] = q],
         q.at = "idle" \/ (q.at = "refreshing" /\ q.row \in Rows),
         NEW u \in Rows, NEW a \in AccountRecords, account' = [account EXCEPT ![u] = a],
         a.there <=> account[u].there, a.env <=> account[u].env,
         UNCHANGED <<device, minting, used>>
  PROVE  InHand'
<1> USE DEF AccountInv
<1>1. \A v \in Rows : (Used(v)' <=> Used(v)) /\ (account'[v].env <=> account[v].env)
  BY DEF AccountTypeOK, Used
<1>2. \A p \in Requests : inFlight'[p] = IF p = r THEN q ELSE inFlight[p]
  BY DEF AccountTypeOK
<1> QED BY <1>1, <1>2 DEF InHand

\* The identity is put on the row it matched.
LEMMA Links ==
  ASSUME AccountInv, NEW r \in Requests, Link(r)
  PROVE  AccountInv'
<1> DEFINE u == inFlight[r].row
           a == [account[u] EXCEPT !.sub = inFlight[r].who]
           q == [inFlight[r] EXCEPT !.at = "refreshing"]
<1>1. /\ inFlight[r] \in RequestRecords /\ u \in Rows /\ account[u] \in AccountRecords
      /\ UNCHANGED <<claim, seeding, device, minting, used>>
      /\ account \in [Rows -> AccountRecords] /\ inFlight \in [Requests -> RequestRecords]
  BY DEF AccountInv, AccountTypeOK, Link, InHand
<1>2. CASE account' = [account EXCEPT ![u].sub = inFlight[r].who] /\ Used(u)
           /\ inFlight' = [inFlight EXCEPT ![r].at = "refreshing"]
  <2>1. q \in RequestRecords /\ q.at = "refreshing" /\ q.row \in Rows
    BY <1>1 DEF RequestRecords
  <2>2. a \in AccountRecords /\ (a.there <=> account[u].there) /\ (a.env <=> account[u].env)
        /\ a.role = account[u].role
    BY <1>1 DEF AccountRecords, RequestRecords
  <2>3. account' = [account EXCEPT ![u] = a] /\ inFlight' = [inFlight EXCEPT ![r] = q]
    BY <1>1, <1>2
  <2> HIDE DEF a, q
  <2>4. InHand'
    BY <1>1, <2>1, <2>2, <2>3, HoldsPut
  <2>5. inFlight' \in [Requests -> RequestRecords]
    BY <1>1, <2>1, <2>3
  <2>6. a.there
    BY <1>2, <2>2 DEF Used
  <2> QED BY <1>1, <1>2, <2>2, <2>3, <2>4, <2>5, <2>6, PutsField
<1>3. CASE UNCHANGED account /\ inFlight' = [inFlight EXCEPT ![r] = Idle]
  BY <1>1, <1>3, Resting, OwnStep
<1> QED BY <1>2, <1>3 DEF Link

\* The role the token gives is put on the row.
LEMMA Refreshes ==
  ASSUME AccountInv, NEW r \in Requests, Refresh(r)
  PROVE  AccountInv'
<1> DEFINE u == inFlight[r].row
           a == [account[u] EXCEPT !.role = inFlight[r].role]
<1>1. /\ inFlight[r] \in RequestRecords /\ u \in Rows /\ account[u] \in AccountRecords
      /\ UNCHANGED <<claim, seeding, device, minting, used>> /\ inFlight' = [inFlight EXCEPT ![r] = Idle]
      /\ account \in [Rows -> AccountRecords] /\ inFlight \in [Requests -> RequestRecords]
  BY DEF AccountInv, AccountTypeOK, Refresh, InHand
<1>2. CASE Used(u) /\ ~account[u].env
  <2>1. a \in AccountRecords /\ (a.there <=> account[u].there) /\ (a.env <=> account[u].env)
    BY <1>1 DEF AccountRecords, RequestRecords
  <2>2. account' = [account EXCEPT ![u] = a]
    BY <1>1, <1>2 DEF Refresh
  <2> HIDE DEF a
  <2>3. InHand'
    BY <1>1, <2>1, <2>2, HoldsPut, Resting
  <2>4. inFlight' \in [Requests -> RequestRecords]
    BY <1>1, Resting
  <2>5. a.there /\ ~account[u].env
    BY <1>2, <2>1 DEF Used
  <2> QED BY <1>1, <1>2, <2>1, <2>2, <2>3, <2>4, <2>5, PutsField
<1>3. CASE ~(Used(u) /\ ~account[u].env)
  <2>1. account' = account
    BY <1>3 DEF Refresh
  <2> QED BY <1>1, <2>1, Resting, OwnStep
<1> QED BY <1>2, <1>3

\* The admin's edit of a row that is not the environment's admin.
LEMMA Edits ==
  ASSUME AccountInv, NEW r \in Requests, EditRow(r)
  PROVE  AccountInv'
<1> DEFINE u == inFlight[r].row
           e == IF inFlight[r].email = NoClaim THEN account[u].email ELSE inFlight[r].email
           a == [account[u] EXCEPT !.role = inFlight[r].role, !.email = e]
           taken == \E v \in Rows \ {u} : HasEmail(v, inFlight[r].email)
<1>1. /\ inFlight[r] \in RequestRecords /\ u \in Rows /\ account[u] \in AccountRecords /\ ~account[u].env
      /\ UNCHANGED <<claim, seeding, device, minting, used>> /\ inFlight' = [inFlight EXCEPT ![r] = Idle]
      /\ account \in [Rows -> AccountRecords] /\ inFlight \in [Requests -> RequestRecords]
  BY DEF AccountInv, AccountTypeOK, EditRow, InHand
<1>2. CASE Used(u) /\ ~taken
  <2>0. e \in Emails \union {NoClaim, EnvEmail, "e1"} /\ inFlight[r].role \in {"admin", "member"}
    BY <1>1 DEF AccountRecords, RequestRecords
  <2>1. account' = [account EXCEPT ![u] = a]
    BY <1>1, <1>2 DEF EditRow
  <2> HIDE DEF e
  <2>2. a \in AccountRecords /\ (a.there <=> account[u].there) /\ (a.env <=> account[u].env)
    BY <1>1, <2>0, RowEdited
  <2> HIDE DEF a, taken
  <2>3. InHand'
    BY <1>1, <2>1, <2>2, HoldsPut, Resting
  <2>4. inFlight' \in [Requests -> RequestRecords]
    BY <1>1, Resting
  <2>5. a.there /\ ~account[u].env
    BY <1>1, <1>2, <2>2 DEF Used
  <2> QED BY <1>1, <1>2, <2>1, <2>2, <2>3, <2>4, <2>5, PutsField
<1>3. CASE ~Used(u) \/ taken
  <2>1. account' = account
    BY <1>3 DEF EditRow
  <2> QED BY <1>1, <2>1, Resting, OwnStep
<1> QED BY <1>2, <1>3

\* A row is made for an identity, or refused as a duplicate.
LEMMA Provisions ==
  ASSUME AccountInv, NEW r \in Requests, Provision(r)
  PROVE  AccountInv'
<1> DEFINE row == [NoAccount EXCEPT !.sub = inFlight[r].who, !.email = inFlight[r].email, !.role = inFlight[r].role]
<1>1. /\ inFlight[r] \in RequestRecords
      /\ UNCHANGED <<claim, seeding, device, minting>> /\ inFlight' = [inFlight EXCEPT ![r] = Idle]
      /\ inFlight \in [Requests -> RequestRecords]
  BY DEF AccountInv, AccountTypeOK, Provision
<1>2. CASE UNCHANGED <<account, used>>
  BY <1>1, <1>2, Resting, OwnStep
<1>3. CASE account' = Inserted(row) /\ FreeRows # {} /\ used' = [used EXCEPT !.rows = @ + 1]
  <2>1. row \in AccountRecords /\ ~row.env
    BY <1>1 DEF RequestRecords, AccountRecords, NoAccount, NoClaim
  <2> HIDE DEF row
  <2>2. /\ used.rows + 1 \in Rows /\ ~Used(used.rows + 1)
        /\ used' \in [rows : Rows, upsets : 0..MaxUpsets]
        /\ used'.rows = used.rows + 1
        /\ account' \in [Rows -> AccountRecords]
        /\ account'[used.rows + 1].there /\ ~account'[used.rows + 1].env
        /\ \A u \in Rows : u # used.rows + 1 => account'[u] = account[u]
        /\ \A u \in Rows : Used(u)' \/ account'[u] = NoAccount
        /\ DevicesAreOwned' /\ Fresh'
    BY <1>1, <1>3, <2>1, Inserting
  <2>3. AccountTypeOK'
    BY <1>1, <2>2, Resting DEF AccountTypeOK, AccountInv
  <2>4. EnvAdminStays' /\ Seeded'
    BY <1>1, <2>2 DEF EnvAdminStays, EnvAdminThere, Seeded, Used, AccountInv
  <2>5. InHand'
    <3>1. used.rows \in Nat
      BY AccountBounds DEF AccountInv, AccountTypeOK, Rows
    <3>2. used'.rows >= used.rows /\ used'.rows \in Rows
      BY <2>2, <3>1
    <3>3. \A u \in Rows : u <= used.rows => (account'[u].env => account[u].env)
      BY <2>2, <3>1
    <3>4. \A u \in Rows : Used(u) => Used(u)'
      BY <2>2 DEF Used
    <3>5. \A p \in Requests : inFlight[p].at = "minting" => inFlight[p].row \in Rows /\ minting[inFlight[p].row] = p
      BY DEF AccountInv, InHand
    <3>6. \A p \in Requests \ {r} : inFlight[p].at = "minting" =>
            LET u == inFlight[p].row IN minting'[u] = p /\ (Used(u) => Used(u)') /\ device'[u] = device[u]
      BY <1>1, <3>4, <3>5
    <3> QED BY <1>1, <3>2, <3>3, <3>6, HoldsStill
  <2> QED BY <2>2, <2>3, <2>4, <2>5 DEF AccountInv
<1> QED BY <1>2, <1>3 DEF Provision

\* The provider moves a person to other groups.
LEMMA Regroups ==
  ASSUME AccountInv, NEW p \in People, Regroup(p)
  PROVE  AccountInv'
<1> USE DEF AccountInv
<1>1. used' \in [rows : Rows, upsets : 0..MaxUpsets] /\ used'.rows = used.rows
      /\ UNCHANGED <<account, inFlight, seeding, device, minting>>
  BY AccountBounds DEF AccountTypeOK, Regroup
<1>2. claim' \in [People -> [email : Emails, verified : BOOLEAN, groups : {"admin", "member", NoClaim}]]
  <2>1. PICK g \in {"admin", "member", NoClaim} : claim' = [claim EXCEPT ![p].groups = g]
    BY DEF Regroup
  <2>2. [claim[p] EXCEPT !.groups = g] \in [email : Emails, verified : BOOLEAN, groups : {"admin", "member", NoClaim}]
    BY <2>1 DEF AccountTypeOK
  <2> QED BY <2>1, <2>2 DEF AccountTypeOK
<1>3. AccountTypeOK'
  BY <1>1, <1>2 DEF AccountTypeOK, Used
<1>4. EnvAdminStays' /\ DevicesAreOwned' /\ Fresh' /\ Seeded'
  BY <1>1 DEF EnvAdminStays, EnvAdminThere, DevicesAreOwned, Fresh, Seeded, Used
<1>5. InHand'
  BY <1>1 DEF InHand, Used
<1> QED BY <1>3, <1>4, <1>5

\* What an admin's request checks before it acts.
LEMMA Checks ==
  ASSUME AccountInv, NEW r \in Requests, NEW u \in Rows, DeleteChecks(r, u) \/ EditChecks(r, u)
  PROVE  AccountInv'
<1>1. Used(u) /\ ~account[u].env /\ UNCHANGED <<account, claim, seeding, device, minting, used>>
  BY DEF DeleteChecks, EditChecks
<1>2. PICK q \in RequestRecords : /\ q.at \in {"deleting", "editing"} /\ q.row = u
                                  /\ inFlight' = [inFlight EXCEPT ![r] = q]
  <2>1. CASE DeleteChecks(r, u)
    <3> DEFINE q == [Idle EXCEPT !.at = "deleting", !.row = u]
    <3>1. q \in RequestRecords /\ q.at = "deleting" /\ q.row = u
      BY DEF Idle, RequestRecords, NoClaim
    <3> QED BY <2>1, <3>1 DEF DeleteChecks
  <2>2. CASE EditChecks(r, u)
    <3>1. PICK role \in {"admin", "member"}, e \in Emails \union {NoClaim} :
            inFlight' = [inFlight EXCEPT ![r] =
              [Idle EXCEPT !.at = "editing", !.row = u, !.role = role, !.email = e]]
      BY <2>2 DEF EditChecks
    <3> DEFINE q == [Idle EXCEPT !.at = "editing", !.row = u, !.role = role, !.email = e]
    <3>2. q \in RequestRecords /\ q.at = "editing" /\ q.row = u
      BY <3>1 DEF Idle, RequestRecords, NoClaim
    <3> QED BY <3>1, <3>2
  <2> QED BY <2>1, <2>2
<1>3. u <= used.rows
  BY <1>1, UsedWasMade
<1> QED BY <1>1, <1>2, <1>3, OwnStep

\* A row that is not the environment's admin, and that nobody mints for, is deleted.
LEMMA Deletes ==
  ASSUME AccountInv, NEW r \in Requests, DeleteRow(r)
  PROVE  AccountInv'
<1> USE DEF AccountInv
<1> DEFINE u == inFlight[r].row
<1>1. /\ u \in Rows /\ u <= used.rows /\ ~account[u].env /\ minting[u] = NoClaim
      /\ account' = [account EXCEPT ![u] = NoAccount] /\ device' = [device EXCEPT ![u] = 0]
      /\ inFlight' = [inFlight EXCEPT ![r] = Idle] /\ UNCHANGED <<claim, seeding, minting, used>>
  BY DEF DeleteRow, InHand
<1> HIDE DEF u
<1>2. account' \in [Rows -> AccountRecords] /\ \A v \in Rows : account'[v] = IF v = u THEN NoAccount ELSE account[v]
  BY <1>1, Blank DEF AccountTypeOK
<1>3. device' \in [Rows -> Nat] /\ \A v \in Rows : device'[v] = IF v = u THEN 0 ELSE device[v]
  BY <1>1 DEF AccountTypeOK
<1>4. AccountTypeOK'
  BY <1>1, <1>2, <1>3, Resting DEF AccountTypeOK, Used
<1>5. EnvAdminStays' /\ Seeded'
  BY <1>1, <1>2, Blank DEF EnvAdminStays, EnvAdminThere, Seeded, Used
<1>6. DevicesAreOwned'
  BY <1>1, <1>2, <1>3, AccountBounds DEF DevicesAreOwned, Used
<1>7. Fresh'
  BY <1>1, <1>2, Blank DEF Fresh, Used
<1>8. InHand'
  <2>1. used'.rows >= used.rows /\ used'.rows \in Rows
    BY <1>1, AccountBounds DEF AccountTypeOK, Rows
  <2>2. \A v \in Rows : account'[v].env => account[v].env
    BY <1>2, Blank
  <2>3. \A q \in Requests \ {r} : inFlight[q].at = "minting" =>
          LET v == inFlight[q].row IN v \in Rows /\ minting[v] = q /\ v # u
    BY <1>1, AccountBounds DEF InHand, NoClaim
  <2>4. \A q \in Requests \ {r} : inFlight[q].at = "minting" =>
          LET v == inFlight[q].row IN minting'[v] = q /\ (Used(v) => Used(v)') /\ device'[v] = device[v]
    BY <1>1, <1>2, <1>3, <2>3 DEF Used
  <2> QED BY <1>1, <2>1, <2>2, <2>4, HoldsStill
<1> QED BY <1>4, <1>5, <1>6, <1>7, <1>8

\* A request locks the row it mints for.
LEMMA Locks ==
  ASSUME AccountInv, NEW r \in Requests, NEW u \in Rows, MintLocks(r, u)
  PROVE  AccountInv'
<1> USE DEF AccountInv
<1> DEFINE q == [Idle EXCEPT !.at = "minting", !.row = u]
<1>1. /\ Used(u) /\ minting[u] = NoClaim /\ device[u] < MaxDevices
      /\ minting' = [minting EXCEPT ![u] = r] /\ inFlight' = [inFlight EXCEPT ![r] = q]
      /\ UNCHANGED <<account, claim, seeding, device, used>>
  BY DEF MintLocks
<1>2. q \in RequestRecords /\ q.at = "minting" /\ q.row = u
  BY DEF Idle, RequestRecords, NoClaim
<1> HIDE DEF q
<1>3. AccountTypeOK'
  BY <1>1, <1>2 DEF AccountTypeOK, Used
<1>4. EnvAdminStays' /\ DevicesAreOwned' /\ Fresh' /\ Seeded'
  BY <1>1 DEF EnvAdminStays, EnvAdminThere, DevicesAreOwned, Fresh, Seeded, Used
<1>5. \A p \in Requests : inFlight'[p] = IF p = r THEN q ELSE inFlight[p]
  BY <1>1 DEF AccountTypeOK
<1>6. \A v \in Rows : minting'[v] = IF v = u THEN r ELSE minting[v]
  BY <1>1 DEF AccountTypeOK
<1>7. InHand'
  BY <1>1, <1>2, <1>5, <1>6, AccountBounds DEF InHand, Used, NoClaim
<1> QED BY <1>3, <1>4, <1>7

\* The token is counted, and the row's lock let go.
LEMMA Mints ==
  ASSUME AccountInv, NEW r \in Requests, MintInserts(r)
  PROVE  AccountInv'
<1> USE DEF AccountInv
<1> DEFINE u == inFlight[r].row
<1>1. /\ u \in Rows /\ minting[u] = r /\ Used(u) /\ device[u] < MaxDevices /\ device[u] \in Nat
      /\ device' = [device EXCEPT ![u] = device[u] + 1] /\ minting' = [minting EXCEPT ![u] = NoClaim]
      /\ inFlight' = [inFlight EXCEPT ![r] = Idle] /\ UNCHANGED <<account, claim, seeding, used>>
  BY DEF MintInserts, InHand, AccountTypeOK
<1> HIDE DEF u
<1>2. \A v \in Rows : device'[v] = (IF v = u THEN device[u] + 1 ELSE device[v])
                      /\ minting'[v] = (IF v = u THEN NoClaim ELSE minting[v])
  BY <1>1 DEF AccountTypeOK
<1>3. AccountTypeOK'
  BY <1>1, Resting DEF AccountTypeOK, Used
<1>4. EnvAdminStays' /\ Fresh' /\ Seeded'
  BY <1>1 DEF EnvAdminStays, EnvAdminThere, Fresh, Seeded, Used
<1>5. DevicesAreOwned'
  BY <1>1, <1>2, AccountBounds DEF DevicesAreOwned, Used, AccountTypeOK
<1>6. InHand'
  <2>1. used'.rows >= used.rows /\ used'.rows \in Rows
    BY <1>1, AccountBounds DEF AccountTypeOK, Rows
  <2>2. \A v \in Rows : account'[v].env => account[v].env
    BY <1>1
  <2>3. \A q \in Requests \ {r} : inFlight[q].at = "minting" =>
          LET v == inFlight[q].row IN v \in Rows /\ minting[v] = q /\ v # u
    BY <1>1 DEF InHand
  <2>4. \A q \in Requests \ {r} : inFlight[q].at = "minting" =>
          LET v == inFlight[q].row IN minting'[v] = q /\ (Used(v) => Used(v)') /\ device'[v] = device[v]
    BY <1>1, <1>2, <2>3 DEF Used
  <2> QED BY <1>1, <2>1, <2>2, <2>4, HoldsStill
<1> QED BY <1>3, <1>4, <1>5, <1>6

\* A device is revoked, or its token expires.
LEMMA Unpairs ==
  ASSUME AccountInv, NEW u \in Rows, DeviceEnds(u)
  PROVE  AccountInv'
<1> USE DEF AccountInv, DeviceEnds
<1>1. device[u] \in Nat \ {0} /\ MaxDevices \in Nat
  BY AccountBounds DEF AccountTypeOK
<1>2. AccountTypeOK'
  BY <1>1 DEF AccountTypeOK, Used
<1>3. EnvAdminStays' /\ Fresh' /\ Seeded'
  BY DEF EnvAdminStays, EnvAdminThere, Fresh, Seeded, Used
<1>4. \A v \in Rows : device'[v] = (IF v = u THEN device[u] - 1 ELSE device[v]) /\ device[v] \in Nat
  BY DEF AccountTypeOK
<1>5. DevicesAreOwned'
  BY <1>1, <1>4 DEF DevicesAreOwned, Used
<1>6. InHand'
  <2>1. \A v \in Rows : device[v] < MaxDevices => device'[v] < MaxDevices
    BY <1>1, <1>4
  <2> QED BY <2>1 DEF InHand, Used
<1> QED BY <1>2, <1>3, <1>5, <1>6

\* The household begins with one row.
LEMMA AccountsBegin == AccountInit => AccountInv
<1> SUFFICES ASSUME AccountInit PROVE AccountInv
  OBVIOUS
<1> USE AccountBounds DEF AccountInit
<1> DEFINE first == [NoAccount EXCEPT !.there = TRUE, !.email = "e1"]
<1>1. first \in AccountRecords /\ first.there /\ ~first.env
  BY DEF AccountRecords, NoAccount, NoClaim
<1>2. account = [u \in Rows |-> IF u = 1 THEN first ELSE NoAccount] /\ 1 \in Rows
  BY DEF Rows
<1> HIDE DEF first
<1>3. /\ account \in [Rows -> AccountRecords]
      /\ \A u \in Rows : (Used(u) <=> u = 1) /\ ~account[u].env /\ (Used(u) \/ account[u] = NoAccount)
  BY <1>1, <1>2, Blank DEF Used
<1>4. used.rows = 1 /\ used \in [rows : Rows, upsets : 0..MaxUpsets]
  BY <1>2
<1>5. inFlight \in [Requests -> RequestRecords] /\ \A r \in Requests : inFlight[r].at = "idle"
  BY Resting
<1>6. claim \in [People -> [email : Emails, verified : BOOLEAN, groups : {"admin", "member", NoClaim}]]
  <2>1. claim \in [People -> [email : Emails, verified : BOOLEAN, groups : {"admin", "member"}]]
    OBVIOUS
  <2> QED BY <2>1
<1>7. AccountTypeOK
  BY <1>3, <1>4, <1>5, <1>6 DEF AccountTypeOK
<1>8. EnvAdminStays /\ DevicesAreOwned /\ Fresh /\ Seeded
  BY <1>3, <1>4 DEF EnvAdminStays, EnvAdminThere, DevicesAreOwned, Fresh, Seeded, Rows
<1>9. InHand
  BY <1>5 DEF InHand
<1> QED BY <1>7, <1>8, <1>9 DEF AccountInv

\* The invariant is inductive.
LEMMA AccountsStep == AccountInv /\ [AccountNext]_accountVars => AccountInv'
<1> SUFFICES ASSUME AccountInv, [AccountNext]_accountVars PROVE AccountInv'
  OBVIOUS
<1>1. ASSUME NEW x \in Replicas, SeedStep(x) \/ SeedFails(x)
      PROVE  AccountInv'
  BY <1>1, ReadsSeed, CreatesSeed, UpdatesSeed, FailsSeed DEF SeedStep
<1>2. ASSUME NEW r \in Requests, RequestStep(r)
      PROVE  AccountInv'
  BY <1>2, Resolves, Matches, Links, Provisions, Refreshes, Checks, Locks, Deletes, Edits, Mints DEF RequestStep
<1>3. ASSUME NEW p \in People, Regroup(p)
      PROVE  AccountInv'
  BY <1>3, Regroups
<1>4. ASSUME NEW u \in Rows, DeviceEnds(u)
      PROVE  AccountInv'
  BY <1>4, Unpairs
<1>5. CASE UNCHANGED accountVars
  BY <1>5 DEF AccountInv, AccountTypeOK, EnvAdminStays, EnvAdminThere, DevicesAreOwned, Fresh, Seeded, InHand, Used, accountVars
<1> QED BY <1>1, <1>2, <1>3, <1>4, <1>5 DEF AccountNext

\* The environment's admin is one row that stays an admin, and no user has devices beyond the cap or
\* keeps one past its deletion: for any number of replicas, requests, people and rows.
THEOREM AccountsAreSafe == AccountSpec => []AccountsSafe
<1>1. AccountInit => AccountInv
  BY AccountsBegin
<1>2. AccountInv /\ [AccountNext]_accountVars => AccountInv'
  BY AccountsStep
<1>3. AccountInv => AccountsSafe
  BY DEF AccountInv, AccountsSafe
<1> QED BY <1>1, <1>2, <1>3, PTL DEF AccountSpec

-----------------------------------------------------------------------------
(* The sign-in that tabs share: its inductive invariant.                    *)

\* Tokens are numbered as they are made.
Numbered ==
  /\ token.n <= minted /\ sidecar.n <= minted
  /\ \A r \in valid : r.n <= minted
  /\ \A t \in Tabs : /\ request[t].sent.n <= minted /\ request[t].epoch <= epoch
                     /\ exchange[t].sent.n <= minted /\ exchange[t].answer.n <= minted

\* A token is somebody's.
TokensOwned == /\ token # None => token.user \in Users
               /\ sidecar # None => sidecar.user \in Users

\* A request of this epoch is the signed-in user's, and there is a token.
RequestsAreOwn ==
  \A t \in Tabs : request[t].at # "none" /\ request[t].epoch = epoch =>
    /\ who \in Users
    /\ request[t].user = who /\ request[t].sent.user = who /\ token.user = who

\* An exchange has sent a refresh token, and its answer is of the same user and nobody else's yet.
Pending(t) == exchange[t].at # "none"
Granted(t) == exchange[t].at = "granted"
AnswersAreNew ==
  /\ \A t \in Tabs : IF Pending(t) THEN exchange[t].sent # None /\ exchange[t].sent.user \in Users
                                    ELSE exchange[t] = NoExchange
  /\ \A t \in Tabs : Granted(t) => /\ exchange[t].answer.user = exchange[t].sent.user
                                   /\ exchange[t].answer # sidecar
                                   /\ exchange[t].answer # None
  /\ \A t, u \in Tabs : Granted(t) /\ Pending(u) => exchange[t].answer # exchange[u].sent
  /\ \A t, u \in Tabs : Granted(t) /\ Granted(u) /\ t # u => exchange[t].answer # exchange[u].answer

\* A waiting request's exchange is there, and while it may still be stored the request is the
\* signed-in user's.
WaitersAreOwn ==
  \A t \in Tabs : Waits(t) => /\ Pending(t)
                              /\ sidecar = exchange[t].sent => request[t].user = who

SignInInv ==
  /\ SignInTypeOK /\ StoredIsSignedIn /\ RetriedAsItself
  /\ Numbered /\ TokensOwned /\ RequestsAreOwn /\ AnswersAreNew /\ WaitersAreOwn

\* What a request is, with epochs up to m, and what one that waits is.
RequestsTo(m) == [at : {"none", "sent", "waits", "retried"}, sent : Tokens, epoch : 0..m,
                  gen : Nat, check : BOOLEAN, user : Users \cup {"none"}]

LEMMA WaitingRequest ==
  ASSUME NEW m, NEW r \in RequestsTo(m)
  PROVE  [r EXCEPT !.at = "waits"] =
           [at |-> "waits", sent |-> r.sent, epoch |-> r.epoch, gen |-> r.gen, check |-> r.check,
            user |-> r.user]
  BY DEF RequestsTo

\* A new epoch: no request is of it yet.
LEMMA SignedIn ==
  ASSUME SignInInv, NEW user \in Users, NEW oidc \in BOOLEAN, SignIn(user, oidc)
  PROVE  SignInInv'
<1> USE SignInAssumption DEF SignInInv, SignInTypeOK, Tokens, None, NoExchange, Waits, Pending, Granted, SignIn, Make, Made
<1>1. SignInTypeOK'
  OBVIOUS
<1>2. StoredIsSignedIn'
  BY DEF StoredIsSignedIn, RequestsAreOwn, AnswersAreNew, TokensOwned
<1>3. RetriedAsItself'
  BY DEF RetriedAsItself, RequestsAreOwn, AnswersAreNew, WaitersAreOwn, StoredIsSignedIn, TokensOwned
<1>4. Numbered'
  BY DEF Numbered
<1>5. TokensOwned'
  BY DEF TokensOwned
<1>6. RequestsAreOwn'
  BY DEF RequestsAreOwn, StoredIsSignedIn, TokensOwned, Numbered, AnswersAreNew, WaitersAreOwn
<1>7. AnswersAreNew'
  BY DEF AnswersAreNew, Numbered, TokensOwned
<1>8. WaitersAreOwn'
  BY DEF WaitersAreOwn, AnswersAreNew, RequestsAreOwn, StoredIsSignedIn, Numbered, TokensOwned
<1> QED BY <1>1, <1>2, <1>3, <1>4, <1>5, <1>6, <1>7, <1>8

\* The same.
LEMMA SignedOut ==
  ASSUME SignInInv, SignOut
  PROVE  SignInInv'
<1> USE SignInAssumption DEF SignInInv, SignInTypeOK, Tokens, None, NoExchange, Waits, Pending, Granted, SignOut, Make
<1>1. SignInTypeOK'
  OBVIOUS
<1>2. StoredIsSignedIn'
  BY DEF StoredIsSignedIn, RequestsAreOwn, AnswersAreNew, TokensOwned
<1>3. RetriedAsItself'
  BY DEF RetriedAsItself, RequestsAreOwn, AnswersAreNew, WaitersAreOwn, StoredIsSignedIn, TokensOwned
<1>4. Numbered'
  BY DEF Numbered
<1>5. TokensOwned'
  BY DEF TokensOwned
<1>6. RequestsAreOwn'
  BY DEF RequestsAreOwn, StoredIsSignedIn, TokensOwned, Numbered, AnswersAreNew, WaitersAreOwn
<1>7. AnswersAreNew'
  BY DEF AnswersAreNew, Numbered, TokensOwned
<1>8. WaitersAreOwn'
  BY DEF WaitersAreOwn, AnswersAreNew, RequestsAreOwn, StoredIsSignedIn, Numbered, TokensOwned
<1> QED BY <1>1, <1>2, <1>3, <1>4, <1>5, <1>6, <1>7, <1>8

\* Nothing here depends on what the provider takes.
LEMMA Revoked ==
  ASSUME SignInInv, Revoke
  PROVE  SignInInv'
<1> USE SignInAssumption DEF SignInInv, SignInTypeOK, Tokens, None, NoExchange, Waits, Pending, Granted, Revoke
<1>1. SignInTypeOK'
  OBVIOUS
<1>2. StoredIsSignedIn'
  BY DEF StoredIsSignedIn, RequestsAreOwn, AnswersAreNew, TokensOwned
<1>3. RetriedAsItself'
  BY DEF RetriedAsItself, RequestsAreOwn, AnswersAreNew, WaitersAreOwn, StoredIsSignedIn, TokensOwned
<1>4. Numbered'
  BY DEF Numbered
<1>5. TokensOwned'
  BY DEF TokensOwned
<1>6. RequestsAreOwn'
  BY DEF RequestsAreOwn, StoredIsSignedIn, TokensOwned, Numbered, AnswersAreNew, WaitersAreOwn
<1>7. AnswersAreNew'
  BY DEF AnswersAreNew, Numbered, TokensOwned
<1>8. WaitersAreOwn'
  BY DEF WaitersAreOwn, AnswersAreNew, RequestsAreOwn, StoredIsSignedIn, Numbered, TokensOwned
<1> QED BY <1>1, <1>2, <1>3, <1>4, <1>5, <1>6, <1>7, <1>8

\* A request is sent with the stored token.
LEMMA RequestStarted ==
  ASSUME SignInInv, NEW t \in Tabs, StartRequest(t)
  PROVE  SignInInv'
<1> USE SignInAssumption DEF SignInInv, SignInTypeOK, Tokens, None, NoExchange, Waits, Pending, Granted, StartRequest, Sent, NoRequest
<1>1. SignInTypeOK'
  OBVIOUS
<1>2. StoredIsSignedIn'
  BY DEF StoredIsSignedIn, RequestsAreOwn, AnswersAreNew, TokensOwned
<1>3. RetriedAsItself'
  BY DEF RetriedAsItself, RequestsAreOwn, AnswersAreNew, WaitersAreOwn, StoredIsSignedIn, TokensOwned
<1>4. Numbered'
  BY DEF Numbered
<1>5. TokensOwned'
  BY DEF TokensOwned
<1>6. RequestsAreOwn'
  BY DEF RequestsAreOwn, StoredIsSignedIn, TokensOwned
<1>7. AnswersAreNew'
  BY DEF AnswersAreNew, Numbered, TokensOwned
<1>8. WaitersAreOwn'
  BY DEF WaitersAreOwn, AnswersAreNew, RequestsAreOwn, StoredIsSignedIn, Numbered, TokensOwned
<1> QED BY <1>1, <1>2, <1>3, <1>4, <1>5, <1>6, <1>7, <1>8

\* A renewed token is its request's user's, in its epoch.
LEMMA RequestAnswered ==
  ASSUME SignInInv, NEW t \in Tabs, Answered(t)
  PROVE  SignInInv'
<1> USE SignInAssumption DEF SignInInv, SignInTypeOK, Tokens, None, NoExchange, Waits, Pending, Granted, Answered, Make, Made, NoRequest
<1>1. SignInTypeOK'
  OBVIOUS
<1>2. StoredIsSignedIn'
  BY DEF StoredIsSignedIn, RequestsAreOwn, AnswersAreNew, TokensOwned
<1>3. RetriedAsItself'
  BY DEF RetriedAsItself, RequestsAreOwn, AnswersAreNew, WaitersAreOwn, StoredIsSignedIn, TokensOwned
<1>4. Numbered'
  BY DEF Numbered
<1>5. TokensOwned'
  <2>1. request[t].epoch = epoch => request[t].sent.user \in Users
    BY DEF RequestsAreOwn
  <2>2. QED
    BY <2>1 DEF TokensOwned
<1>6. RequestsAreOwn'
  BY DEF RequestsAreOwn, StoredIsSignedIn, TokensOwned, Numbered, AnswersAreNew, WaitersAreOwn
<1>7. AnswersAreNew'
  BY DEF AnswersAreNew, Numbered, TokensOwned
<1>8. WaitersAreOwn'
  BY DEF WaitersAreOwn, AnswersAreNew, RequestsAreOwn, StoredIsSignedIn, Numbered, TokensOwned
<1> QED BY <1>1, <1>2, <1>3, <1>4, <1>5, <1>6, <1>7, <1>8

\* A request is given up, at its 401 or with its exchange, which may have cleared the sidecar.
LEMMA GaveUp ==
  ASSUME SignInInv, NEW t \in Tabs, GiveUp(t), UNCHANGED <<valid, refreshed>>,
         sidecar' \in {sidecar, None},
         exchange' = exchange \/ exchange' = [exchange EXCEPT ![t] = NoExchange]
  PROVE  SignInInv'
<1> USE SignInAssumption DEF SignInInv, SignInTypeOK, Tokens, None, NoExchange, Waits, Pending, Granted, GiveUp, NoRequest, Make
<1>1. CASE request[t].check /\ ProvedDead(t) /\ token # None
  <2>1. SignInTypeOK'
      BY <1>1, SMTT(30)
  <2>2. StoredIsSignedIn'
      BY <1>1 DEF StoredIsSignedIn, RequestsAreOwn, AnswersAreNew, TokensOwned
  <2>3. RetriedAsItself'
      BY <1>1 DEF RetriedAsItself, RequestsAreOwn, AnswersAreNew, WaitersAreOwn, StoredIsSignedIn, TokensOwned
  <2>4. Numbered'
      BY <1>1 DEF Numbered
  <2>5. TokensOwned'
      BY <1>1 DEF TokensOwned
  <2>6. RequestsAreOwn'
      BY <1>1 DEF RequestsAreOwn, StoredIsSignedIn, TokensOwned, Numbered, AnswersAreNew, WaitersAreOwn
  <2>7. AnswersAreNew'
    <3>1. CASE exchange' = exchange
      BY <3>1, <1>1 DEF AnswersAreNew, Numbered, TokensOwned
    <3>2. CASE exchange' = [exchange EXCEPT ![t] = NoExchange]
      BY <3>2, <1>1 DEF AnswersAreNew, Numbered, TokensOwned
    <3> QED BY <3>1, <3>2
  <2>8. WaitersAreOwn'
      BY <1>1 DEF WaitersAreOwn, AnswersAreNew, RequestsAreOwn, StoredIsSignedIn, Numbered, TokensOwned
  <2> QED BY <2>1, <2>2, <2>3, <2>4, <2>5, <2>6, <2>7, <2>8
<1>2. CASE ~(request[t].check /\ ProvedDead(t) /\ token # None)
  <2>1. SignInTypeOK'
      BY <1>2
  <2>2. StoredIsSignedIn'
      BY <1>2 DEF StoredIsSignedIn, RequestsAreOwn, AnswersAreNew, TokensOwned
  <2>3. RetriedAsItself'
      BY <1>2 DEF RetriedAsItself, RequestsAreOwn, AnswersAreNew, WaitersAreOwn, StoredIsSignedIn, TokensOwned
  <2>4. Numbered'
      BY <1>2 DEF Numbered
  <2>5. TokensOwned'
      BY <1>2 DEF TokensOwned
  <2>6. RequestsAreOwn'
      BY <1>2 DEF RequestsAreOwn, StoredIsSignedIn, TokensOwned, Numbered, AnswersAreNew, WaitersAreOwn
  <2>7. AnswersAreNew'
    <3>1. CASE exchange' = exchange
      BY <3>1, <1>2 DEF AnswersAreNew, Numbered, TokensOwned
    <3>2. CASE exchange' = [exchange EXCEPT ![t] = NoExchange]
      BY <3>2, <1>2 DEF AnswersAreNew, Numbered, TokensOwned
    <3> QED BY <3>1, <3>2
  <2>8. WaitersAreOwn'
      BY <1>2 DEF WaitersAreOwn, AnswersAreNew, RequestsAreOwn, StoredIsSignedIn, Numbered, TokensOwned
  <2> QED BY <2>1, <2>2, <2>3, <2>4, <2>5, <2>6, <2>7, <2>8
<1> QED BY <1>1, <1>2

\* An exchange ends without being stored, and no request of the tab waits for it.
LEMMA ExchangeDropped ==
  ASSUME SignInInv, NEW t \in Tabs, exchange' = [exchange EXCEPT ![t] = NoExchange],
         sidecar' \in {sidecar, None}, ~Waits(t),
         UNCHANGED <<token, epoch, minted, who, request, valid, refreshed>>
  PROVE  SignInInv'
<1> USE SignInAssumption DEF SignInInv, SignInTypeOK, Tokens, None, NoExchange, Waits, Pending, Granted
<1>1. SignInTypeOK'
  OBVIOUS
<1>2. StoredIsSignedIn'
  BY DEF StoredIsSignedIn, RequestsAreOwn, AnswersAreNew, TokensOwned
<1>3. RetriedAsItself'
  BY DEF RetriedAsItself, RequestsAreOwn, AnswersAreNew, WaitersAreOwn, StoredIsSignedIn, TokensOwned
<1>4. Numbered'
  BY DEF Numbered
<1>5. TokensOwned'
  BY DEF TokensOwned
<1>6. RequestsAreOwn'
  BY DEF RequestsAreOwn, StoredIsSignedIn, TokensOwned, Numbered, AnswersAreNew, WaitersAreOwn
<1>7. AnswersAreNew'
  BY DEF AnswersAreNew, Numbered, TokensOwned
<1>8. WaitersAreOwn'
  BY DEF WaitersAreOwn, AnswersAreNew, RequestsAreOwn, StoredIsSignedIn, Numbered, TokensOwned
<1> QED BY <1>1, <1>2, <1>3, <1>4, <1>5, <1>6, <1>7, <1>8

\* A 401 is given up, retried with the token of the tab's last refresh, or waits for a refresh.
LEMMA RequestRefused ==
  ASSUME SignInInv, NEW t \in Tabs, Refused(t)
  PROVE  SignInInv'
<1> USE SignInAssumption DEF SignInInv, SignInTypeOK, Tokens, None, NoExchange, Waits, Pending, Granted
<1>0. request[t].at \in {"sent", "retried"} /\ UNCHANGED <<sidecar, valid, refreshed>>
  BY DEF Refused
<1>1. CASE GiveUp(t) /\ UNCHANGED exchange
  BY <1>0, <1>1, GaveUp
<1>2. CASE /\ SameSignIn(t) /\ UNCHANGED <<token, epoch, minted, who, exchange>>
           /\ request' = [request EXCEPT ![t] = SentAgain(t, token, refreshed[t].gen)]
  <2> USE DEF SentAgain, SameSignIn
  <2>1. SignInTypeOK'
    BY <1>0, <1>2
  <2>2. StoredIsSignedIn'
    BY <1>0, <1>2 DEF StoredIsSignedIn, RequestsAreOwn, AnswersAreNew, TokensOwned
  <2>3. RetriedAsItself'
    BY <1>0, <1>2 DEF RetriedAsItself, RequestsAreOwn, AnswersAreNew, WaitersAreOwn, StoredIsSignedIn, TokensOwned
  <2>4. Numbered'
    BY <1>0, <1>2 DEF Numbered
  <2>5. TokensOwned'
    BY <1>0, <1>2 DEF TokensOwned
  <2>6. RequestsAreOwn'
    BY <1>0, <1>2 DEF RequestsAreOwn, StoredIsSignedIn, TokensOwned, Numbered, AnswersAreNew, WaitersAreOwn
  <2>7. AnswersAreNew'
    BY <1>0, <1>2 DEF AnswersAreNew, Numbered, TokensOwned
  <2>8. WaitersAreOwn'
    BY <1>0, <1>2 DEF WaitersAreOwn, AnswersAreNew, RequestsAreOwn, StoredIsSignedIn, Numbered, TokensOwned
  <2> QED BY <2>1, <2>2, <2>3, <2>4, <2>5, <2>6, <2>7, <2>8
<1>3. CASE /\ SameSignIn(t) /\ sidecar # None /\ UNCHANGED <<token, epoch, minted, who>>
           /\ request' = [request EXCEPT ![t].at = "waits"]
           /\ exchange[t] # NoExchange /\ UNCHANGED exchange
  <2> USE DEF SameSignIn
  <2>0. request' = [request EXCEPT ![t] = [at |-> "waits", sent |-> request[t].sent,
                      epoch |-> request[t].epoch, gen |-> request[t].gen, check |-> request[t].check,
                      user |-> request[t].user]]
    <3>1. request[t] \in RequestsTo(minted)
      BY DEF RequestsTo
    <3> QED BY <1>3, <3>1, WaitingRequest
  <2>9. /\ SameSignIn(t) /\ sidecar # None /\ UNCHANGED <<token, epoch, minted, who>>
        /\ exchange[t] # NoExchange /\ UNCHANGED exchange
    BY <1>3
  <2>1. SignInTypeOK'
    BY <1>0, <2>9, <2>0
  <2>2. StoredIsSignedIn'
    BY <1>0, <2>9, <2>0 DEF StoredIsSignedIn, RequestsAreOwn, AnswersAreNew, TokensOwned
  <2>3. RetriedAsItself'
    BY <1>0, <2>9, <2>0 DEF RetriedAsItself, RequestsAreOwn, AnswersAreNew, WaitersAreOwn, StoredIsSignedIn, TokensOwned
  <2>4. Numbered'
    BY <1>0, <2>9, <2>0 DEF Numbered
  <2>5. TokensOwned'
    BY <1>0, <2>9, <2>0 DEF TokensOwned
  <2>6. RequestsAreOwn'
    BY <1>0, <2>9, <2>0 DEF RequestsAreOwn, StoredIsSignedIn, TokensOwned, Numbered, AnswersAreNew, WaitersAreOwn
  <2>7. AnswersAreNew'
    BY <1>0, <2>9, <2>0 DEF AnswersAreNew, Numbered, TokensOwned
  <2>8. WaitersAreOwn'
    BY <1>0, <2>9, <2>0 DEF WaitersAreOwn, AnswersAreNew, RequestsAreOwn, StoredIsSignedIn, Numbered, TokensOwned
  <2> QED BY <2>1, <2>2, <2>3, <2>4, <2>5, <2>6, <2>7, <2>8
<1>4. CASE /\ SameSignIn(t) /\ sidecar # None /\ UNCHANGED <<token, epoch, minted, who>>
           /\ request' = [request EXCEPT ![t].at = "waits"]
           /\ exchange[t] = NoExchange
           /\ exchange' = [exchange EXCEPT ![t] = [at |-> "asked", sent |-> sidecar, answer |-> None]]
  <2> USE DEF SameSignIn
  <2>0. request' = [request EXCEPT ![t] = [at |-> "waits", sent |-> request[t].sent,
                      epoch |-> request[t].epoch, gen |-> request[t].gen, check |-> request[t].check,
                      user |-> request[t].user]]
    <3>1. request[t] \in RequestsTo(minted)
      BY DEF RequestsTo
    <3> QED BY <1>4, <3>1, WaitingRequest
  <2>9. /\ SameSignIn(t) /\ sidecar # None /\ UNCHANGED <<token, epoch, minted, who>>
        /\ exchange' = [exchange EXCEPT ![t] = [at |-> "asked", sent |-> sidecar, answer |-> None]]
    BY <1>4
  <2>1. SignInTypeOK'
    BY <1>0, <2>9, <2>0
  <2>2. StoredIsSignedIn'
    BY <1>0, <2>9, <2>0 DEF StoredIsSignedIn, RequestsAreOwn, AnswersAreNew, TokensOwned
  <2>3. RetriedAsItself'
    BY <1>0, <2>9, <2>0 DEF RetriedAsItself, RequestsAreOwn, AnswersAreNew, WaitersAreOwn, StoredIsSignedIn, TokensOwned
  <2>4. Numbered'
    BY <1>0, <2>9, <2>0 DEF Numbered
  <2>5. TokensOwned'
    BY <1>0, <2>9, <2>0 DEF TokensOwned
  <2>6. RequestsAreOwn'
    BY <1>0, <2>9, <2>0 DEF RequestsAreOwn, StoredIsSignedIn, TokensOwned, Numbered, AnswersAreNew, WaitersAreOwn
  <2>7. AnswersAreNew'
    BY <1>0, <2>9, <2>0 DEF AnswersAreNew, Numbered, TokensOwned
  <2>8. WaitersAreOwn'
    BY <1>0, <2>9, <2>0 DEF WaitersAreOwn, AnswersAreNew, RequestsAreOwn, StoredIsSignedIn, Numbered, TokensOwned
  <2> QED BY <2>1, <2>2, <2>3, <2>4, <2>5, <2>6, <2>7, <2>8
<1> QED BY <1>1, <1>2, <1>3, <1>4 DEF Refused

\* The sidecar is sent: what another tab awaits is not stored yet.
LEMMA EarlyRefresh ==
  ASSUME SignInInv, NEW t \in Tabs, RefreshEarly(t)
  PROVE  SignInInv'
<1> USE SignInAssumption DEF SignInInv, SignInTypeOK, Tokens, None, NoExchange, Waits, Pending, Granted, RefreshEarly
<1>1. SignInTypeOK'
  OBVIOUS
<1>2. StoredIsSignedIn'
  BY DEF StoredIsSignedIn, RequestsAreOwn, AnswersAreNew, TokensOwned
<1>3. RetriedAsItself'
  BY DEF RetriedAsItself, RequestsAreOwn, AnswersAreNew, WaitersAreOwn, StoredIsSignedIn, TokensOwned
<1>4. Numbered'
  BY DEF Numbered
<1>5. TokensOwned'
  BY DEF TokensOwned
<1>6. RequestsAreOwn'
  BY DEF RequestsAreOwn, StoredIsSignedIn, TokensOwned, Numbered, AnswersAreNew, WaitersAreOwn
<1>7. AnswersAreNew'
  BY DEF AnswersAreNew, Numbered, TokensOwned
<1>8. WaitersAreOwn'
  BY DEF WaitersAreOwn, AnswersAreNew, RequestsAreOwn, StoredIsSignedIn, Numbered, TokensOwned
<1> QED BY <1>1, <1>2, <1>3, <1>4, <1>5, <1>6, <1>7, <1>8

\* An answer is new, or a refusal changes nothing that is stored.
LEMMA Handled ==
  ASSUME SignInInv, NEW t \in Tabs, ProviderHandles(t)
  PROVE  SignInInv'
<1> USE SignInAssumption DEF SignInInv, SignInTypeOK, Tokens, None, NoExchange, Waits, Pending, Granted, ProviderHandles, Make, Made
<1>1. CASE exchange[t].sent \in valid
  <2>0. exchange' = [exchange EXCEPT ![t] = [at |-> "granted", sent |-> exchange[t].sent,
                                             answer |-> Made(exchange[t].sent.user)]]
    BY <1>1
  <2>1. SignInTypeOK'
    BY <1>1, <2>0
  <2>2. StoredIsSignedIn'
    BY <1>1, <2>0 DEF StoredIsSignedIn, RequestsAreOwn, AnswersAreNew, TokensOwned
  <2>3. RetriedAsItself'
    BY <1>1, <2>0 DEF RetriedAsItself, RequestsAreOwn, AnswersAreNew, WaitersAreOwn, StoredIsSignedIn, TokensOwned
  <2>4. Numbered'
    BY <1>1, <2>0 DEF Numbered
  <2>5. TokensOwned'
    BY <1>1, <2>0 DEF TokensOwned
  <2>6. RequestsAreOwn'
    BY <1>1, <2>0 DEF RequestsAreOwn, StoredIsSignedIn, TokensOwned, Numbered, AnswersAreNew, WaitersAreOwn
  <2>7. AnswersAreNew'
    BY <1>1, <2>0 DEF AnswersAreNew, Numbered, TokensOwned
  <2>8. WaitersAreOwn'
    BY <1>1, <2>0 DEF WaitersAreOwn, AnswersAreNew, RequestsAreOwn, StoredIsSignedIn, Numbered, TokensOwned
  <2> QED BY <2>1, <2>2, <2>3, <2>4, <2>5, <2>6, <2>7, <2>8
<1>2. CASE exchange[t].sent \notin valid
  <2>0. exchange' = [exchange EXCEPT ![t] = [at |-> "invalid", sent |-> exchange[t].sent,
                                             answer |-> exchange[t].answer]]
    BY <1>2
  <2>1. SignInTypeOK'
    BY <1>2, <2>0
  <2>2. StoredIsSignedIn'
    BY <1>2, <2>0 DEF StoredIsSignedIn, RequestsAreOwn, AnswersAreNew, TokensOwned
  <2>3. RetriedAsItself'
    BY <1>2, <2>0 DEF RetriedAsItself, RequestsAreOwn, AnswersAreNew, WaitersAreOwn, StoredIsSignedIn, TokensOwned
  <2>4. Numbered'
    BY <1>2, <2>0 DEF Numbered
  <2>5. TokensOwned'
    BY <1>2, <2>0 DEF TokensOwned
  <2>6. RequestsAreOwn'
    BY <1>2, <2>0 DEF RequestsAreOwn, StoredIsSignedIn, TokensOwned, Numbered, AnswersAreNew, WaitersAreOwn
  <2>7. AnswersAreNew'
    BY <1>2, <2>0 DEF AnswersAreNew, Numbered, TokensOwned
  <2>8. WaitersAreOwn'
    BY <1>2, <2>0 DEF WaitersAreOwn, AnswersAreNew, RequestsAreOwn, StoredIsSignedIn, Numbered, TokensOwned
  <2> QED BY <2>1, <2>2, <2>3, <2>4, <2>5, <2>6, <2>7, <2>8
<1> QED BY <1>1, <1>2

\* An answer is stored over the very token it was granted for.
LEMMA ExchangeStored ==
  ASSUME SignInInv, NEW t \in Tabs, Stored(t)
  PROVE  SignInInv'
<1> USE SignInAssumption DEF SignInInv, SignInTypeOK, Tokens, None, NoExchange, Waits, Pending, Granted, Unchanged
<1>0. /\ exchange[t].at = "granted" /\ Unchanged(t)
      /\ token' = exchange[t].answer /\ sidecar' = exchange[t].answer
      /\ refreshed' = [refreshed EXCEPT ![t] = [gen |-> @.gen + 1, token |-> token']]
      /\ exchange' = [exchange EXCEPT ![t] = NoExchange]
      /\ UNCHANGED <<epoch, minted, valid, who>>
  BY DEF Stored
<1>1. CASE Waits(t)
  <2>0. request' = [request EXCEPT ![t] = SentAgain(t, exchange[t].answer, refreshed[t].gen + 1)]
    BY <1>0, <1>1 DEF Stored
  <2> USE DEF SentAgain
  <2>1. SignInTypeOK'
    BY <1>0, <1>1, <2>0
  <2>2. StoredIsSignedIn'
    BY <1>0, <1>1, <2>0 DEF StoredIsSignedIn, RequestsAreOwn, AnswersAreNew, TokensOwned
  <2>3. RetriedAsItself'
    BY <1>0, <1>1, <2>0 DEF RetriedAsItself, RequestsAreOwn, AnswersAreNew, WaitersAreOwn, StoredIsSignedIn, TokensOwned
  <2>4. Numbered'
    BY <1>0, <1>1, <2>0 DEF Numbered
  <2>5. TokensOwned'
    BY <1>0, <1>1, <2>0 DEF TokensOwned, AnswersAreNew
  <2>6. RequestsAreOwn'
    BY <1>0, <1>1, <2>0 DEF RequestsAreOwn, StoredIsSignedIn, TokensOwned, Numbered, AnswersAreNew, WaitersAreOwn
  <2>7. AnswersAreNew'
    BY <1>0, <1>1, <2>0 DEF AnswersAreNew, Numbered, TokensOwned
  <2>8. WaitersAreOwn'
    BY <1>0, <1>1, <2>0 DEF WaitersAreOwn, AnswersAreNew, RequestsAreOwn, StoredIsSignedIn, Numbered, TokensOwned
  <2> QED BY <2>1, <2>2, <2>3, <2>4, <2>5, <2>6, <2>7, <2>8
<1>2. CASE ~Waits(t)
  <2>0. UNCHANGED request
    BY <1>2 DEF Stored
  <2>1. SignInTypeOK'
    BY <1>0, <1>2, <2>0
  <2>2. StoredIsSignedIn'
    BY <1>0, <1>2, <2>0 DEF StoredIsSignedIn, RequestsAreOwn, AnswersAreNew, TokensOwned
  <2>3. RetriedAsItself'
    BY <1>0, <1>2, <2>0 DEF RetriedAsItself, RequestsAreOwn, AnswersAreNew, WaitersAreOwn, StoredIsSignedIn, TokensOwned
  <2>4. Numbered'
    BY <1>0, <1>2, <2>0 DEF Numbered
  <2>5. TokensOwned'
    BY <1>0, <1>2, <2>0 DEF TokensOwned, AnswersAreNew
  <2>6. RequestsAreOwn'
    BY <1>0, <1>2, <2>0 DEF RequestsAreOwn, StoredIsSignedIn, TokensOwned, Numbered, AnswersAreNew, WaitersAreOwn
  <2>7. AnswersAreNew'
    BY <1>0, <1>2, <2>0 DEF AnswersAreNew, Numbered, TokensOwned
  <2>8. WaitersAreOwn'
    BY <1>0, <1>2, <2>0 DEF WaitersAreOwn, AnswersAreNew, RequestsAreOwn, StoredIsSignedIn, Numbered, TokensOwned
  <2> QED BY <2>1, <2>2, <2>3, <2>4, <2>5, <2>6, <2>7, <2>8
<1> QED BY <1>1, <1>2

\* An exchange that is refused or came too late takes its request with it.
LEMMA ExchangeRefused ==
  ASSUME SignInInv, NEW t \in Tabs, NotStored(t)
  PROVE  SignInInv'
<1>1. sidecar' \in {sidecar, None}
  BY DEF NotStored
<1>2. CASE Waits(t)
  BY <1>1, <1>2, GaveUp DEF NotStored
<1>3. CASE ~Waits(t)
  BY <1>1, <1>3, ExchangeDropped DEF NotStored
<1> QED BY <1>2, <1>3

\* An exchange whose answer is lost does too.
LEMMA ExchangeFailed ==
  ASSUME SignInInv, NEW t \in Tabs, ExchangeFails(t)
  PROVE  SignInInv'
<1>1. CASE Waits(t)
  BY <1>1, GaveUp DEF ExchangeFails
<1>2. CASE ~Waits(t)
  BY <1>2, ExchangeDropped DEF ExchangeFails
<1> QED BY <1>1, <1>2

\* Before anybody signs in there is nothing to mix up.
LEMMA SignInStarts == SignInInit => SignInInv
<1> USE SignInAssumption DEF SignInInit, SignInInv, SignInTypeOK, Tokens, None, NoExchange, Waits, Pending, Granted, NoRequest
<1> SUFFICES ASSUME SignInInit PROVE SignInInv
  OBVIOUS
<1>1. SignInTypeOK
  OBVIOUS
<1>2. StoredIsSignedIn /\ RetriedAsItself /\ Numbered /\ TokensOwned
  BY DEF StoredIsSignedIn, RetriedAsItself, Numbered, TokensOwned
<1>3. RequestsAreOwn /\ AnswersAreNew /\ WaitersAreOwn
  BY DEF RequestsAreOwn, AnswersAreNew, WaitersAreOwn
<1> QED BY <1>1, <1>2, <1>3

\* Every step of a tab or of the provider keeps the invariant.
LEMMA SignInKept == SignInInv /\ [SignInNext]_signInVars => SignInInv'
<1> SUFFICES ASSUME SignInInv, [SignInNext]_signInVars PROVE SignInInv'
  OBVIOUS
<1>1. ASSUME NEW user \in Users, NEW oidc \in BOOLEAN, SignIn(user, oidc) PROVE SignInInv'
  BY <1>1, SignedIn
<1>2. CASE SignOut \/ Revoke
  BY <1>2, SignedOut, Revoked
<1>3. ASSUME NEW t \in Tabs, StartRequest(t) \/ Answered(t) \/ Refused(t) PROVE SignInInv'
  BY <1>3, RequestStarted, RequestAnswered, RequestRefused
<1>4. ASSUME NEW t \in Tabs, RefreshEarly(t) \/ ProviderHandles(t) PROVE SignInInv'
  BY <1>4, EarlyRefresh, Handled
<1>5. ASSUME NEW t \in Tabs, Stored(t) \/ NotStored(t) \/ ExchangeFails(t) PROVE SignInInv'
  BY <1>5, ExchangeStored, ExchangeRefused, ExchangeFailed
<1>6. CASE UNCHANGED signInVars
  BY <1>6 DEF signInVars, SignInInv, SignInTypeOK, StoredIsSignedIn, RetriedAsItself, Numbered, TokensOwned,
              RequestsAreOwn, AnswersAreNew, WaitersAreOwn, Waits, Pending, Granted
<1> QED BY <1>1, <1>2, <1>3, <1>4, <1>5, <1>6 DEF SignInNext

\* For every number of tabs, users and tokens: what is stored is the signed-in user's, and a
\* request is only repeated as the user who made it, whatever was in flight across a sign-in.
THEOREM SignInIsSafe == SignInSpec => []SignInSafe
<1>1. SignInInv => SignInSafe
  BY DEF SignInInv, SignInSafe
<1> QED BY SignInStarts, SignInKept, <1>1, PTL DEF SignInSpec

-----------------------------------------------------------------------------
(* Names.                                                                   *)

\* What is stored today, and the keys a name is looked up by: all of one person's names have the
\* same, but for the compatibility form.
NormalNames == {m \in Names : m.pad = "none" /\ m.wide = FALSE}
Base(wide) == [upper |-> FALSE, pad |-> "none", wide |-> wide]

LEMMA NameWith ==
  ASSUME NEW a, NEW b, NEW c, NEW x, NEW n, n = [upper |-> a, pad |-> b, wide |-> c]
  PROVE  /\ [n EXCEPT !.upper = x] = [upper |-> x, pad |-> b, wide |-> c]
         /\ [n EXCEPT !.pad = x] = [upper |-> a, pad |-> x, wide |-> c]
         /\ [n EXCEPT !.wide = x] = [upper |-> a, pad |-> b, wide |-> x]
         /\ n.upper = a /\ n.pad = b /\ n.wide = c
  OBVIOUS

LEMMA NameForms ==
  ASSUME NEW n \in Names
  PROVE  /\ Stripped(n) = [upper |-> n.upper, pad |-> "none", wide |-> n.wide]
         /\ Lower(n) = [upper |-> FALSE, pad |-> n.pad, wide |-> n.wide]
         /\ Normalized(n) = [upper |-> n.upper, pad |-> "none", wide |-> FALSE]
         /\ Key(n) = [upper |-> FALSE, pad |-> IF n.pad = "ascii" THEN "none" ELSE n.pad, wide |-> n.wide]
<1>1. n = [upper |-> n.upper, pad |-> n.pad, wide |-> n.wide]
  BY DEF Names
<1>a. \A x : [n EXCEPT !.upper = x] = [upper |-> x, pad |-> n.pad, wide |-> n.wide]
  BY <1>1, NameWith
<1>2. Stripped(n) = [upper |-> n.upper, pad |-> "none", wide |-> n.wide]
  BY <1>1, NameWith DEF Stripped
<1>3. Lower(n) = [upper |-> FALSE, pad |-> n.pad, wide |-> n.wide]
  BY <1>a, Zenon DEF Lower
<1>4. Normalized(n) = [upper |-> n.upper, pad |-> "none", wide |-> FALSE]
  <2>1. \A x : [Stripped(n) EXCEPT !.wide = x] = [upper |-> n.upper, pad |-> "none", wide |-> x]
    BY <1>2, NameWith
  <2>2. QED
    BY <2>1, Zenon DEF Normalized
<1>5. CASE n.pad = "ascii"
  <2>1. Key(n) = [upper |-> FALSE, pad |-> "none", wide |-> n.wide]
    <3>1. Key(n) = [Stripped(n) EXCEPT !.upper = FALSE]
      BY <1>5 DEF Key, Lower
    <3>2. \A x : [Stripped(n) EXCEPT !.upper = x] = [upper |-> x, pad |-> "none", wide |-> n.wide]
      BY <1>2, NameWith
    <3>3. QED
      BY <3>1, <3>2, Zenon
  <2>2. QED
    BY <1>2, <1>3, <1>4, <1>5, <2>1
<1>6. CASE n.pad # "ascii"
  BY <1>2, <1>3, <1>4, <1>6 DEF Key
<1>7. QED
  BY <1>5, <1>6

LEMMA NameFacts ==
  /\ Unnamed \notin Names
  /\ \A a, b \in BOOLEAN : Base(a) = Base(b) => a = b
  /\ \A n \in Names : /\ n.wide \in BOOLEAN
                      /\ Lower(Stripped(n)) = Base(n.wide) /\ Lower(Normalized(n)) = Base(FALSE)
                      /\ Stripped(n) \in Names /\ Stripped(n).pad = "none" /\ Stripped(n).wide = n.wide
                      /\ Normalized(n) \in NormalNames /\ (n.pad = "none" => Stripped(n) = n)
                      /\ n.pad = "none" => Key(n) = Base(n.wide) /\ Lower(n) = Base(n.wide)
                      /\ n.pad = "ascii" => Key(n) = Base(n.wide)
                      /\ n.pad # "ascii" => Key(n) = Lower(n)
                      /\ n.pad = "other" => \A w \in BOOLEAN : Key(n) # Base(w)
                      /\ n.pad \in {"none", "ascii", "other"}
  /\ \A m, n \in Names : Lower(m) = Lower(n) => m.pad = n.pad /\ Key(m) = Key(n)
<1>1. Unnamed \notin Names
  <2>1. Unnamed.pad = "gone"
    BY DEF Unnamed
  <2>2. QED
    BY <2>1 DEF Names
<1>2. ASSUME NEW a \in BOOLEAN, NEW b \in BOOLEAN, Base(a) = Base(b) PROVE a = b
  <2>1. Base(a).wide = a /\ Base(b).wide = b
    BY DEF Base
  <2>2. QED
    BY <1>2, <2>1
<1>3. ASSUME NEW n \in Names
      PROVE  /\ n.wide \in BOOLEAN
             /\ Lower(Stripped(n)) = Base(n.wide) /\ Lower(Normalized(n)) = Base(FALSE)
             /\ Stripped(n) \in Names /\ Stripped(n).pad = "none" /\ Stripped(n).wide = n.wide
             /\ Normalized(n) \in NormalNames /\ (n.pad = "none" => Stripped(n) = n)
             /\ n.pad = "none" => Key(n) = Base(n.wide) /\ Lower(n) = Base(n.wide)
             /\ n.pad = "ascii" => Key(n) = Base(n.wide)
             /\ n.pad # "ascii" => Key(n) = Lower(n)
             /\ n.pad = "other" => \A w \in BOOLEAN : Key(n) # Base(w)
             /\ n.pad \in {"none", "ascii", "other"}
  <2>1. /\ n.upper \in BOOLEAN /\ n.wide \in BOOLEAN /\ n.pad \in {"none", "ascii", "other"}
        /\ n = [upper |-> n.upper, pad |-> n.pad, wide |-> n.wide]
    BY DEF Names
  <2>2. Stripped(n) \in Names /\ Stripped(n).pad = "none" /\ Stripped(n).wide = n.wide
    <3>1. [upper |-> n.upper, pad |-> "none", wide |-> n.wide] \in Names
      BY <2>1 DEF Names
    <3>2. Stripped(n) = [upper |-> n.upper, pad |-> "none", wide |-> n.wide]
      BY NameForms
    <3>3. QED
      BY <3>1, <3>2, NameWith
  <2>3. Normalized(n) \in Names /\ Normalized(n).pad = "none" /\ Normalized(n).wide = FALSE
    <3>1. [upper |-> n.upper, pad |-> "none", wide |-> FALSE] \in Names
      BY <2>1 DEF Names
    <3>2. Normalized(n) = [upper |-> n.upper, pad |-> "none", wide |-> FALSE]
      BY NameForms
    <3>3. QED
      BY <3>1, <3>2, NameWith
  <2>4. Lower(Stripped(n)) = Base(n.wide) /\ Lower(Normalized(n)) = Base(FALSE)
    <3>1. Lower(Stripped(n)) = [upper |-> FALSE, pad |-> Stripped(n).pad, wide |-> Stripped(n).wide]
      BY <2>2, NameForms
    <3>2. Lower(Normalized(n)) = [upper |-> FALSE, pad |-> Normalized(n).pad, wide |-> Normalized(n).wide]
      BY <2>3, NameForms
    <3>3. QED
      BY <2>2, <2>3, <3>1, <3>2 DEF Base
  <2>5. n.pad = "none" => Stripped(n) = n /\ Key(n) = Base(n.wide) /\ Lower(n) = Base(n.wide)
    BY <2>1, NameForms DEF Base
  <2>6. n.pad = "ascii" => Key(n) = Base(n.wide)
    BY NameForms DEF Base
  <2>7. n.pad # "ascii" => Key(n) = Lower(n)
    BY DEF Key
  <2>8. n.pad = "other" => \A w \in BOOLEAN : Key(n) # Base(w)
    <3>1. ASSUME n.pad = "other", NEW w \in BOOLEAN PROVE Key(n).pad = "other" /\ Base(w).pad = "none"
      BY <3>1, NameForms DEF Base
    <3>2. QED
      BY <3>1
  <2>9. QED
    BY <2>1, <2>2, <2>3, <2>4, <2>5, <2>6, <2>7, <2>8 DEF NormalNames
<1>4. ASSUME NEW m \in Names, NEW n \in Names, Lower(m) = Lower(n) PROVE m.pad = n.pad /\ Key(m) = Key(n)
  <2>1. /\ Lower(m).pad = m.pad /\ Lower(n).pad = n.pad /\ Lower(m).wide = m.wide /\ Lower(n).wide = n.wide
    BY NameForms, NameWith
  <2>2. m.pad = n.pad /\ m.wide = n.wide
    BY <1>4, <2>1
  <2> DEFINE WithKey(pad, wide) == [upper |-> FALSE, pad |-> IF pad = "ascii" THEN "none" ELSE pad, wide |-> wide]
  <2>3. Key(m) = WithKey(m.pad, m.wide)
    BY NameForms
  <2>4. Key(n) = WithKey(n.pad, n.wide)
    BY NameForms
  <2> HIDE DEF WithKey
  <2>5. QED
    BY <2>2, <2>3, <2>4
<1>5. QED
  BY <1>1, <1>2, <1>3, <1>4

-----------------------------------------------------------------------------
(* Who a name signs in, in a given table f of names.                        *)

Tables == [Accounted -> Names \cup {Unnamed}]
NamedIn(f) == {u \in Accounted : f[u] # Unnamed}
FoundIn(f, n) == {u \in NamedIn(f) : Key(f[u]) \in {Base(n.wide), Base(FALSE)}}
Exact(f, u, n) == f[u] = Stripped(n)
Near(f, u, n) == Key(f[u]) = Base(n.wide)
Before(f, u, v, n) == \/ Exact(f, u, n) /\ ~Exact(f, v, n)
                      \/ /\ (Exact(f, u, n) <=> Exact(f, v, n))
                         /\ Near(f, u, n) /\ ~Near(f, v, n)
                      \/ /\ (Exact(f, u, n) <=> Exact(f, v, n))
                         /\ (Near(f, u, n) <=> Near(f, v, n))
                         /\ u < v
\* The words of Login, for f.
Candidates(f, n) == {u \in NamedIn(f) : Key(f[u]) \in {Lower(Stripped(n)), Lower(Normalized(n))}}
PreferredIn(f, u, v, typed) ==
  LET exact(w) == f[w] = typed
      near(w) == Key(f[w]) = Lower(typed)
  IN \/ exact(u) /\ ~exact(v)
     \/ exact(u) = exact(v) /\ near(u) /\ ~near(v)
     \/ exact(u) = exact(v) /\ near(u) = near(v) /\ u < v
LoginIn(f, n) ==
  IF Candidates(f, n) = {} THEN 0
  ELSE CHOOSE u \in Candidates(f, n) :
         \A v \in Candidates(f, n) \ {u} : PreferredIn(f, u, v, Stripped(n))

LEMMA SignsInFirst ==
  ASSUME NEW T, T \subseteq Nat, T # {}
  PROVE  \E x \in T : \A y \in T : x <= y
<1> DEFINE R == OpToRel(<, Nat)
<1>1. IsWellFoundedOn(R, Nat)
  BY NatLessThanWellFounded
<1>2. \A x, y \in Nat : y < x => <<y, x>> \in R
  BY DEF OpToRel
<1> HIDE DEF R
<1>3. PICK x \in T : \A y \in T : <<y, x>> \notin R
  BY <1>1, WFMin
<1>4. \A y \in T : ~(y < x)
  BY <1>2, <1>3, Zenon
<1>5. QED
  BY <1>4

\* A name signs in the one row that is before all others.
LEMMA LoginIsFirst ==
  ASSUME NEW f \in Tables, NEW n \in Names
  PROVE  /\ LoginIn(f, n) # 0 <=> FoundIn(f, n) # {}
         /\ FoundIn(f, n) # {} => /\ LoginIn(f, n) \in FoundIn(f, n)
                                  /\ \A v \in FoundIn(f, n) \ {LoginIn(f, n)} : Before(f, LoginIn(f, n), v, n)
         /\ \A u \in FoundIn(f, n) : (\A v \in FoundIn(f, n) \ {u} : Before(f, u, v, n)) => LoginIn(f, n) = u
<1> DEFINE C == FoundIn(f, n)
<1>1. C \subseteq Nat \ {0}
  <2>1. Accounted \subseteq Nat \ {0}
    BY NameBounds DEF Accounted
  <2>2. QED
    BY <2>1 DEF FoundIn, NamedIn
<1>2. \A u \in C : Exact(f, u, n) => Near(f, u, n)
  <2>1. SUFFICES ASSUME NEW u \in C, f[u] = Stripped(n) PROVE Key(f[u]) = Base(n.wide)
    BY DEF Exact, Near
  <2>2. QED
    BY <2>1, NameFacts
<1>3. ASSUME C # {} PROVE \E u \in C : \A v \in C \ {u} : Before(f, u, v, n)
  <2> DEFINE G == {u \in C : Exact(f, u, n)}
             H == {u \in C : Near(f, u, n)}
  <2>1. CASE G # {}
    <3>1. PICK u \in G : \A v \in G : u <= v
      BY <1>1, <2>1, SignsInFirst
    <3>2. ASSUME NEW v \in C \ {u} PROVE Before(f, u, v, n)
      <4>1. CASE v \in G
        BY <1>1, <1>2, <3>1, <3>2, <4>1 DEF Before
      <4>2. CASE v \notin G
        BY <3>1, <3>2, <4>2 DEF Before
      <4>3. QED
        BY <4>1, <4>2
    <3>3. QED
      BY <3>2
  <2>2. CASE G = {} /\ H # {}
    <3>1. PICK u \in H : \A v \in H : u <= v
      BY <1>1, <2>2, SignsInFirst
    <3>2. ASSUME NEW v \in C \ {u} PROVE Before(f, u, v, n)
      <4>1. CASE v \in H
        BY <1>1, <2>2, <3>1, <3>2, <4>1 DEF Before
      <4>2. CASE v \notin H
        BY <2>2, <3>1, <3>2, <4>2 DEF Before
      <4>3. QED
        BY <4>1, <4>2
    <3>3. QED
      BY <3>2
  <2>3. CASE G = {} /\ H = {}
    <3>1. PICK u \in C : \A v \in C : u <= v
      BY <1>1, <1>3, SignsInFirst
    <3>2. ASSUME NEW v \in C \ {u} PROVE Before(f, u, v, n)
      BY <1>1, <2>3, <3>1, <3>2 DEF Before
    <3>3. QED
      BY <3>2
  <2>4. QED
    BY <2>1, <2>2, <2>3
<1>4. ASSUME NEW u \in C, NEW v \in C, u # v PROVE ~(Before(f, u, v, n) /\ Before(f, v, u, n))
  BY <1>1, <1>4 DEF Before
<1> DEFINE best(u) == \A v \in C \ {u} : Before(f, u, v, n)
<1> DEFINE chosen(u) == \A v \in C \ {u} : PreferredIn(f, u, v, Stripped(n))
<1>5. LoginIn(f, n) = (IF C = {} THEN 0 ELSE CHOOSE u \in C : chosen(u)) /\ \A u : chosen(u) <=> best(u)
  <2>1. Lower(Stripped(n)) = Base(n.wide) /\ Lower(Normalized(n)) = Base(FALSE)
    BY NameFacts
  <2>2. Candidates(f, n) = C
    BY <2>1 DEF Candidates, FoundIn
  <2>3. ASSUME NEW u, NEW v PROVE PreferredIn(f, u, v, Stripped(n)) <=> Before(f, u, v, n)
    BY <2>1 DEF PreferredIn, Before, Exact, Near
  <2>4. \A u : chosen(u) <=> best(u)
    BY <2>3
  <2>5. LoginIn(f, n) = (IF C = {} THEN 0 ELSE CHOOSE u \in C : chosen(u))
    BY <2>2 DEF LoginIn
  <2>6. QED
    BY <2>4, <2>5
<1>6. \A u, v \in C : best(u) /\ best(v) => u = v
  BY <1>4
<1>7. C # {} => \E u \in C : chosen(u)
  BY <1>3, <1>5
<1>8. C # {} => LoginIn(f, n) \in C /\ best(LoginIn(f, n))
  <2>1. C # {} => LoginIn(f, n) \in C /\ chosen(LoginIn(f, n))
    <3> HIDE DEF C, chosen
    <3>1. QED
      BY <1>5, <1>7
  <2>2. QED
    BY <1>5, <2>1
<1>9. \A u \in C : best(u) => LoginIn(f, n) = u
  BY <1>6, <1>8
<1>10. QED
  BY <1>1, <1>5, <1>8, <1>9

LEMMA LoginsAreIn ==
  /\ \A n \in Names : Login(n) = LoginIn(nameOf, n)
  /\ \A n \in Names : Login(n)' = LoginIn(nameOf', n)
  BY DEF Login, LoginIn, LoginCandidates, Candidates, Preferred, PreferredIn, Named, NamedIn

\* One row changes: whom a name signed in keeps it, unless the changed row is now before them.
LEMMA LoginUndisturbed ==
  ASSUME NEW f \in Tables, NEW g \in Tables, NEW n \in Names, NEW w \in Accounted, NEW u \in Accounted \ {w},
         \A v \in Accounted \ {w} : g[v] = f[v], FoundIn(f, n) # {}, u = LoginIn(f, n),
         w \in FoundIn(g, n) => Before(g, u, w, n)
  PROVE  LoginIn(g, n) = u
<1>1. u \in FoundIn(f, n) /\ \A v \in FoundIn(f, n) \ {u} : Before(f, u, v, n)
  BY LoginIsFirst
<1>2. u \in FoundIn(g, n)
  BY <1>1 DEF FoundIn, NamedIn
<1>3. ASSUME NEW v \in FoundIn(g, n) \ {u} PROVE Before(g, u, v, n)
  <2>1. CASE v = w
    BY <1>3, <2>1
  <2>2. CASE v # w
    <3>1. v \in Accounted \ {w}
      BY <1>3, <2>2 DEF FoundIn, NamedIn
    <3>2. v \in FoundIn(f, n) \ {u}
      BY <1>3, <3>1 DEF FoundIn, NamedIn
    <3>3. QED
      BY <1>1, <3>1, <3>2 DEF Before, Exact, Near
  <2>3. QED
    BY <2>1, <2>2
<1>4. QED
  BY <1>2, <1>3, LoginIsFirst

\* A row is given a name whose key nobody else has: only a name in compatibility form may now sign
\* in that row, instead of one it found by its normalized form.
PutAlone(f, g, w) == /\ \A v \in Accounted \ {w} : g[v] = f[v]
                     /\ g[w] \in Names /\ g[w].pad = "none"
                     /\ \A v \in NamedIn(f) \ {w} : Key(f[v]) # Base(g[w].wide)
KeepsIn(f, g, u) == u # 0 /\ g[u] = f[u]
TakesOver(f, g, u, w, n) == /\ LoginIn(g, n) = w /\ u # w /\ g[w].wide = TRUE /\ n.wide = TRUE
                            /\ u \in NamedIn(f) /\ Key(f[u]) = Base(FALSE)
                            /\ ~(w \in NamedIn(f) /\ Key(f[w]) = Base(TRUE))

LEMMA NamePut ==
  \A f, g \in Tables : \A n \in Names : \A w \in Accounted :
    PutAlone(f, g, w) /\ KeepsIn(f, g, LoginIn(f, n)) =>
      LoginIn(g, n) = LoginIn(f, n) \/ TakesOver(f, g, LoginIn(f, n), w, n)
<1> SUFFICES ASSUME NEW f \in Tables, NEW g \in Tables, NEW n \in Names, NEW w \in Accounted,
                    NEW u, u = LoginIn(f, n), PutAlone(f, g, w), KeepsIn(f, g, u)
             PROVE  LoginIn(g, n) = u \/ TakesOver(f, g, u, w, n)
  OBVIOUS
<1>0. /\ \A v \in Accounted \ {w} : g[v] = f[v]
      /\ g[w] \in Names /\ g[w].pad = "none" /\ u # 0 /\ g[u] = f[u]
      /\ \A v \in NamedIn(f) \ {w} : Key(f[v]) # Base(g[w].wide)
  BY DEF PutAlone, KeepsIn
<1> DEFINE s == g[w].wide
<1>1. FoundIn(f, n) # {} /\ u \in FoundIn(f, n) /\ u \in NamedIn(f) /\ u \in Accounted
  BY <1>0, LoginIsFirst DEF FoundIn, NamedIn
<1>2. CASE u = w
  <2>1. g = f
    BY <1>0, <1>2 DEF Tables
  <2>2. QED
    BY <2>1
<1>3. CASE u # w
  <2>1. /\ s \in BOOLEAN /\ n.wide \in BOOLEAN /\ Key(g[w]) = Base(s) /\ w \in NamedIn(g) /\ Key(f[u]) # Base(s)
        /\ Key(f[u]) \in {Base(n.wide), Base(FALSE)} /\ g[u] = f[u]
    BY <1>0, <1>1, <1>3, NameFacts DEF FoundIn, NamedIn
  <2>a. Base(TRUE) # Base(FALSE)
    BY NameFacts
  <2>b. \A v : g[v] = Stripped(n) => Near(g, v, n)
    BY NameFacts DEF Near
  <2>2. CASE n.wide = FALSE \/ s = FALSE
    <3>1. w \in FoundIn(g, n) => Before(g, u, w, n)
      <4>1. SUFFICES ASSUME w \in FoundIn(g, n) PROVE Before(g, u, w, n)
        OBVIOUS
      <4>2. s = FALSE /\ n.wide = TRUE
        <5>1. Base(s) \in {Base(n.wide), Base(FALSE)}
          BY <2>1, <4>1 DEF FoundIn
        <5>2. CASE s = TRUE
          BY <2>1, <2>2, <2>a, <5>1, <5>2
        <5>3. CASE s = FALSE
          <6>1. n.wide # FALSE
            BY <2>1, <5>3
          <6>2. QED
            BY <2>1, <5>3, <6>1
        <5>4. QED
          BY <2>1, <5>2, <5>3
      <4>3. Near(g, u, n) /\ ~Near(g, w, n)
        BY <2>1, <2>a, <4>2 DEF Near
      <4>4. ~Exact(g, w, n)
        BY <2>b, <4>3 DEF Exact
      <4>5. QED
        BY <4>3, <4>4 DEF Before
    <3>2. u \in Accounted \ {w}
      BY <1>1, <1>3
    <3>3. LoginIn(g, n) = u
      BY <1>0, <1>1, <3>1, <3>2, LoginUndisturbed
    <3>4. QED
      BY <3>3
  <2>3. CASE n.wide = TRUE /\ s = TRUE
    <3>1. Key(f[u]) = Base(FALSE)
      BY <2>1, <2>3
    <3>2. w \in FoundIn(g, n) /\ Near(g, w, n)
      BY <2>1, <2>3 DEF FoundIn, Near
    <3>3. ASSUME NEW v \in FoundIn(g, n) \ {w} PROVE Before(g, w, v, n)
      <4>1. v \in NamedIn(f) \ {w} /\ g[v] = f[v]
        BY <1>0, <3>3 DEF FoundIn, NamedIn
      <4>2. ~Near(g, v, n)
        BY <1>0, <2>3, <4>1 DEF Near
      <4>3. ~Exact(g, v, n)
        BY <2>b, <4>2 DEF Exact
      <4>4. QED
        BY <3>2, <4>2, <4>3 DEF Before
    <3>4. LoginIn(g, n) = w
      BY <3>2, <3>3, LoginIsFirst
    <3>5. ASSUME w \in NamedIn(f), Key(f[w]) = Base(TRUE) PROVE FALSE
      <4>1. w \in FoundIn(f, n) /\ Near(f, w, n)
        BY <2>3, <3>5 DEF FoundIn, Near
      <4>2. Before(f, u, w, n)
        BY <1>1, <1>3, <4>1, LoginIsFirst
      <4>3. ~Near(f, u, n)
        BY <2>3, <2>a, <3>1 DEF Near
      <4>4. ~Exact(f, u, n)
        BY <2>b, <2>1, <4>3 DEF Exact, Near
      <4>5. QED
        BY <4>1, <4>2, <4>3, <4>4 DEF Before
    <3>6. QED
      BY <1>1, <1>3, <2>3, <3>1, <3>4, <3>5 DEF TakesOver
  <2>4. QED
    BY <2>1, <2>2, <2>3
<1>4. QED
  BY <1>2, <1>3

-----------------------------------------------------------------------------
(* What keeps names apart.                                                  *)

BootRecords == [at : {"down", "indexed", "stripping", "strips", "serving"}, read : Tables, todo : SUBSET Accounted]
NamingRecords == [at : {"idle", "checking", "writing"}, row : 0..MaxAccounts, name : Names \cup {Unnamed}]

NameTypes == /\ nameOf \in Tables /\ nameIndex \in {"none", "case", "norm"}
             /\ boot \in [Booters -> BootRecords] /\ naming \in [Namers -> NamingRecords]

\* No two names differ in case alone; under the index on keys, none have one key.
LowersApart == \A u, v \in Named : Lower(nameOf[u]) = Lower(nameOf[v]) => u = v
KeysApart == nameIndex = "norm" => \A u, v \in Named : Key(nameOf[u]) = Key(nameOf[v]) => u = v

\* Nothing is written before the table has an index.
IndexFirst == nameIndex = "none" => /\ \A p \in Booters : boot[p].at = "down"
                                    /\ \A r \in Namers : naming[r].at = "idle"

Strips(p) == boot[p].at \in {"stripping", "strips"}
OneStrips == \A p, q \in Booters : Strips(p) /\ Strips(q) => p = q

\* No old name that the fallback index cannot see has the key of a name that was found free: none is
\* ever made.
PadsClear(own, wide) == \A v \in Named \ {own} : nameOf[v].pad = "ascii" => Key(nameOf[v]) # Base(wide)
WritesClear == \A r \in Namers : /\ naming[r].at # "idle" => naming[r].name \in NormalNames
                                 /\ naming[r].at = "writing" => PadsClear(naming[r].row, FALSE)
StripsClear == \A p \in Booters : boot[p].at = "strips" =>
  boot[p].todo # {} /\ PadsClear(NextPadded(p), boot[p].read[NextPadded(p)].wide)

\* A row still to strip has the name that was read, or none, or one written since, with its key.
HoldsKey(u) == nameOf[u] \in NormalNames /\ \A v \in Named \ {u} : Key(nameOf[v]) # Base(FALSE)
StillRead(u, n) == nameOf[u] \in {n, Unnamed} \/ HoldsKey(u)
ReadsHold == \A p \in Booters : Strips(p) => \A u \in boot[p].todo :
  /\ boot[p].read[u] \in Names /\ boot[p].read[u].pad # "none" /\ StillRead(u, boot[p].read[u])

NameInv == /\ NameTypes /\ LowersApart /\ KeysApart /\ IndexFirst /\ OneStrips
           /\ WritesClear /\ StripsClear /\ ReadsHold

LEMMA NamesAreFinite == IsFiniteSet(Names)
<1> DEFINE Flags == {TRUE, FALSE}
           Pads == {"none", "ascii", "other"}
           D == (Flags \X Pads) \X Flags
           made == [x \in D |-> [upper |-> x[1][1], pad |-> x[1][2], wide |-> x[2]]]
<1>1. IsFiniteSet(Flags) /\ IsFiniteSet(Pads)
  <2>1. IsFiniteSet({}) /\ \A S, x : IsFiniteSet(S) => IsFiniteSet(S \cup {x})
    BY FS_EmptySet, FS_AddElement
  <2>2. Flags = ({} \cup {TRUE}) \cup {FALSE} /\ Pads = (({} \cup {"none"}) \cup {"ascii"}) \cup {"other"}
    OBVIOUS
  <2> HIDE DEF Flags, Pads
  <2>3. QED
    BY <2>1, <2>2
<1>2. IsFiniteSet(D)
  BY <1>1, FS_Product
<1>3. made \in Surjection(D, Names)
  <2>1. BOOLEAN = Flags
    OBVIOUS
  <2>2. Names = [upper : Flags, pad : Pads, wide : Flags]
    BY <2>1 DEF Names
  <2> HIDE DEF Flags, Pads
  <2>3. \A x \in D : [upper |-> x[1][1], pad |-> x[1][2], wide |-> x[2]] \in Names
    BY <2>2
  <2>4. ASSUME NEW n \in Names PROVE \E x \in D : made[x] = n
    <3>1. n.upper \in Flags /\ n.pad \in Pads /\ n.wide \in Flags /\ n = [upper |-> n.upper, pad |-> n.pad, wide |-> n.wide]
      BY <2>2
    <3>2. <<<<n.upper, n.pad>>, n.wide>> \in D
      BY <3>1
    <3>3. made[<<<<n.upper, n.pad>>, n.wide>>] = n
      BY <3>1, <3>2
    <3>4. QED
      BY <3>2, <3>3
  <2>5. QED
    BY <2>3, <2>4 DEF Surjection
<1> HIDE DEF D, made
<1>4. QED
  BY <1>2, <1>3, FS_Surjection

LEMMA NameInvInit == NamesInit => NameInv
<1>1. SUFFICES ASSUME NamesInit PROVE NameInv
  OBVIOUS
<1>2. PICK old \in LegacyNames :
        /\ nameOf \in [Accounted -> old \cup {Unnamed}]
        /\ \A n \in old : \E u \in Accounted : nameOf[u] = n
        /\ \A u \in Accounted : nameOf[u] = Unnamed <=> u > Cardinality(old)
  BY <1>1 DEF NamesInit
<1>3. /\ old \subseteq Names /\ Cardinality(old) <= MaxAccounts /\ MaxAccounts \in Nat
      /\ \A m, n \in old : Lower(m) = Lower(n) => m = n
  BY NameBounds
<1>4. NameTypes
  <2>1. nameOf \in Tables
    BY <1>2, <1>3 DEF Tables
  <2>2. NotNaming \in NamingRecords
    BY <1>3 DEF NotNaming, NamingRecords
  <2>3. [at |-> "down", read |-> nameOf, todo |-> {}] \in BootRecords
    BY <2>1 DEF BootRecords
  <2>4. QED
    BY <1>1, <2>1, <2>2, <2>3 DEF NamesInit, NameTypes
<1>5. LowersApart
  <2> DEFINE k == Cardinality(old)
             h == [u \in 1..k |-> nameOf[u]]
  <2>1. k \in Nat /\ IsFiniteSet(old)
    BY <1>3, NamesAreFinite, FS_Subset, FS_CardinalityType
  <2>2. IsFiniteSet(1..k) /\ Cardinality(1..k) = k
    BY <2>1, FS_Interval
  <2>3. \A u \in 1..k : u \in Accounted /\ nameOf[u] \in old
    BY <1>2, <1>3, <2>1, NameFacts DEF Accounted
  <2>4. \A u \in Accounted : nameOf[u] # Unnamed => u \in 1..k
    BY <1>2, <1>3, <2>1 DEF Accounted
  <2>5. h \in Surjection(1..k, old)
    <3>1. h \in [1..k -> old]
      BY <2>3
    <3>2. ASSUME NEW n \in old PROVE \E u \in 1..k : h[u] = n
      <4>1. PICK u \in Accounted : nameOf[u] = n
        BY <1>2
      <4>2. n # Unnamed
        BY <1>3, NameFacts
      <4>3. QED
        BY <2>4, <4>1, <4>2
    <3>3. QED
      BY <3>1, <3>2 DEF Surjection
  <2> HIDE DEF k
  <2>6. h \in Injection(1..k, old)
    <3>1. Cardinality(1..k) = Cardinality(old)
      BY <2>2 DEF k
    <3> HIDE DEF h
    <3>2. QED
      BY <2>2, <2>5, <3>1, FS_SurjSameCardinalityImpliesInj
  <2>7. \A u, v \in 1..k : nameOf[u] = nameOf[v] => u = v
    BY <2>6 DEF Injection, IsInjective
  <2>8. Named \subseteq 1..k
    BY <2>4 DEF Named
  <2>9. QED
    BY <1>3, <2>3, <2>7, <2>8 DEF LowersApart
<1>6. KeysApart /\ IndexFirst /\ OneStrips /\ WritesClear /\ StripsClear /\ ReadsHold
  BY <1>1 DEF NamesInit, KeysApart, IndexFirst, OneStrips, WritesClear, StripsClear, ReadsHold, Strips, NotNaming
<1>7. QED
  BY <1>4, <1>5, <1>6 DEF NameInv

\* The next row to strip is one of those.
LEMMA NextIsPadded ==
  ASSUME NEW p, boot[p].todo \subseteq Accounted, boot[p].todo # {}
  PROVE  NextPadded(p) \in boot[p].todo
<1>1. boot[p].todo \subseteq Nat
  BY NameBounds DEF Accounted
<1>2. \E u \in boot[p].todo : \A v \in boot[p].todo : u <= v
  BY <1>1, SignsInFirst
<1>3. QED
  BY <1>2 DEF NextPadded

\* What the table takes, after a check for the key, has a key of its own.
LEMMA KeyIsFree ==
  ASSUME NameInv, nameIndex # "none", NEW s \in Names, s.pad = "none", NEW own, ~Violates(s, own),
         PadsClear(own, s.wide)
  PROVE  \A v \in Named \ {own} : Key(nameOf[v]) # Base(s.wide)
<1>1. SUFFICES ASSUME NEW v \in Named \ {own}, Key(nameOf[v]) = Base(s.wide) PROVE FALSE
  OBVIOUS
<1>2. nameOf[v] \in Names /\ nameIndex \in {"case", "norm"}
  BY DEF NameInv, NameTypes, Tables, Named
<1>3. Key(s) = Base(s.wide) /\ Lower(s) = Base(s.wide)
  BY NameFacts
<1>4. nameOf[v].pad # "ascii"
  BY <1>1 DEF PadsClear
<1>5. Key(nameOf[v]) = Lower(nameOf[v])
  BY <1>2, <1>4, NameFacts
<1>6. QED
  BY <1>1, <1>2, <1>3, <1>5 DEF Violates

\* A name with a key of its own is put.
LEMMA PutKeepsApart ==
  ASSUME NameInv, NEW w \in Accounted, NEW s \in Names, s.pad = "none", UNCHANGED nameIndex,
         nameOf' = [nameOf EXCEPT ![w] = s], \A v \in Named \ {w} : Key(nameOf[v]) # Base(s.wide)
  PROVE  /\ nameOf' \in Tables /\ LowersApart' /\ KeysApart'
         /\ \A own, wide : PadsClear(own, wide) => PadsClear(own, wide)'
         /\ \A u \in Accounted \ {w} : \A n : StillRead(u, n) => StillRead(u, n)'
         /\ s.wide = FALSE => HoldsKey(w)'
<1>0. nameOf \in Tables /\ LowersApart /\ KeysApart /\ \A u \in Named : u \in Accounted /\ nameOf[u] \in Names
  BY DEF NameInv, NameTypes, Tables, Named
<1>1. /\ nameOf' \in Tables /\ nameOf'[w] = s /\ \A v \in Accounted \ {w} : nameOf'[v] = nameOf[v]
  BY <1>0 DEF Tables
<1>2. Named' = Named \cup {w}
  BY <1>1, NameFacts DEF Named
<1>3. Key(s) = Base(s.wide) /\ Lower(s) = Base(s.wide) /\ s.wide \in BOOLEAN /\ s.pad = "none"
  BY NameFacts
<1>4. \A v \in Named' \ {w} : /\ v \in Named /\ v \in Accounted /\ nameOf'[v] = nameOf[v] /\ nameOf[v] \in Names
                              /\ Key(nameOf[v]) # Key(s) /\ Lower(nameOf[v]) # Lower(s)
  <2>1. ASSUME NEW v \in Named' \ {w}
        PROVE  v \in Named /\ v \in Accounted /\ nameOf'[v] = nameOf[v] /\ nameOf[v] \in Names /\ Key(nameOf[v]) # Key(s)
    BY <1>0, <1>1, <1>2, <1>3, <2>1
  <2>2. ASSUME NEW v \in Named' \ {w} PROVE Lower(nameOf[v]) # Lower(s)
    BY <2>1, <2>2, NameFacts
  <2>3. QED
    BY <2>1, <2>2
<1>5. LowersApart'
  <2>1. SUFFICES ASSUME NEW u \in Named', NEW v \in Named', Lower(nameOf'[u]) = Lower(nameOf'[v]) PROVE u = v
    BY DEF LowersApart
  <2>2. CASE u = w
    BY <1>1, <1>4, <2>1, <2>2
  <2>3. CASE v = w
    BY <1>1, <1>4, <2>1, <2>3
  <2>4. CASE u # w /\ v # w
    BY <1>0, <1>4, <2>1, <2>4 DEF LowersApart
  <2>5. QED
    BY <2>2, <2>3, <2>4
<1>6. KeysApart'
  <2>1. SUFFICES ASSUME nameIndex = "norm", NEW u \in Named', NEW v \in Named', Key(nameOf'[u]) = Key(nameOf'[v]) PROVE u = v
    BY DEF KeysApart
  <2>2. CASE u = w
    BY <1>1, <1>4, <2>1, <2>2
  <2>3. CASE v = w
    BY <1>1, <1>4, <2>1, <2>3
  <2>4. CASE u # w /\ v # w
    BY <1>0, <1>4, <2>1, <2>4 DEF KeysApart
  <2>5. QED
    BY <2>2, <2>3, <2>4
<1>7. ASSUME NEW own, NEW wide, PadsClear(own, wide) PROVE PadsClear(own, wide)'
  <2>1. SUFFICES ASSUME NEW v \in Named' \ {own}, nameOf'[v].pad = "ascii" PROVE Key(nameOf'[v]) # Base(wide)
    BY DEF PadsClear
  <2>2. v # w
    BY <1>1, <1>3, <2>1
  <2>3. QED
    BY <1>4, <1>7, <2>1, <2>2 DEF PadsClear
<1>8. ASSUME NEW u \in Accounted \ {w}, NEW n, StillRead(u, n) PROVE StillRead(u, n)'
  <2>1. nameOf'[u] = nameOf[u]
    BY <1>1
  <2>2. CASE nameOf[u] \in {n, Unnamed}
    BY <2>1, <2>2 DEF StillRead
  <2>3. CASE HoldsKey(u)
    <3>1. u \in Named \ {w} /\ Key(nameOf[u]) = Base(FALSE)
      <4>1. nameOf[u] \in Names /\ nameOf[u].pad = "none" /\ nameOf[u].wide = FALSE
        BY <2>3 DEF HoldsKey, NormalNames
      <4>2. nameOf[u] # Unnamed
        BY <4>1, NameFacts
      <4>3. QED
        BY <4>1, <4>2, NameFacts, ZenonT(30) DEF Named
    <3>2. Key(s) # Base(FALSE)
      BY <1>3, <3>1
    <3>3. ASSUME NEW v \in Named' \ {u} PROVE Key(nameOf'[v]) # Base(FALSE)
      <4>1. CASE v = w
        BY <1>1, <3>2, <4>1
      <4>2. CASE v # w
        BY <1>4, <2>3, <3>3, <4>2 DEF HoldsKey
      <4>3. QED
        BY <4>1, <4>2
    <3>4. nameOf'[u] \in NormalNames
      BY <2>1, <2>3 DEF HoldsKey
    <3>5. QED
      BY <3>3, <3>4 DEF StillRead, HoldsKey
  <2>4. QED
    BY <1>8, <2>2, <2>3 DEF StillRead
<1>9. s.wide = FALSE => HoldsKey(w)'
  <2>1. ASSUME s.wide = FALSE PROVE HoldsKey(w)'
    <3>1. nameOf'[w] \in NormalNames
      BY <1>1, <1>3, <2>1 DEF NormalNames
    <3>2. \A v \in Named' \ {w} : Key(nameOf'[v]) # Base(FALSE)
      BY <1>3, <1>4, <2>1
    <3>3. QED
      BY <3>1, <3>2 DEF HoldsKey
  <2>2. QED
    BY <2>1
<1>10. QED
  BY <1>1, <1>5, <1>6, <1>7, <1>8, <1>9

\* So does a name that goes.
LEMMA DeleteKeepsApart ==
  ASSUME NameInv, NEW w \in Accounted, UNCHANGED nameIndex, nameOf' = [nameOf EXCEPT ![w] = Unnamed]
  PROVE  /\ nameOf' \in Tables /\ LowersApart' /\ KeysApart'
         /\ \A own, wide : PadsClear(own, wide) => PadsClear(own, wide)'
         /\ \A u \in Accounted : \A n : StillRead(u, n) => StillRead(u, n)'
<1>0. nameOf \in Tables /\ LowersApart /\ KeysApart
  BY DEF NameInv, NameTypes
<1>1. /\ nameOf' \in Tables /\ nameOf'[w] = Unnamed /\ \A v \in Accounted \ {w} : nameOf'[v] = nameOf[v]
  BY <1>0 DEF Tables
<1>2. \A v \in Named' : v \in Named /\ v # w /\ nameOf'[v] = nameOf[v]
  BY <1>1 DEF Named
<1>3. LowersApart' /\ KeysApart'
  BY <1>0, <1>2 DEF LowersApart, KeysApart
<1>4. ASSUME NEW own, NEW wide, PadsClear(own, wide) PROVE PadsClear(own, wide)'
  BY <1>2, <1>4 DEF PadsClear
<1>5. ASSUME NEW u \in Accounted, NEW n, StillRead(u, n) PROVE StillRead(u, n)'
  <2>1. CASE u = w
    BY <1>1, <2>1 DEF StillRead
  <2>2. CASE u # w
    BY <1>1, <1>2, <1>5, <2>2 DEF StillRead, HoldsKey
  <2>3. QED
    BY <2>1, <2>2
<1>6. QED
  BY <1>1, <1>3, <1>4, <1>5

-----------------------------------------------------------------------------
(* What each step that writes a name puts.                                  *)

LEMMA StripPuts ==
  ASSUME NameInv, NEW p \in Booters, StripWrites(p)
  PROVE  /\ NextPadded(p) \in boot[p].todo /\ NextPadded(p) \in Accounted
         /\ boot[p].read[NextPadded(p)] \in Names /\ boot[p].read[NextPadded(p)].pad # "none"
         /\ StillRead(NextPadded(p), boot[p].read[NextPadded(p)])
         /\ ToStrip(p) \in Names /\ ToStrip(p).pad = "none" /\ ToStrip(p).wide = boot[p].read[NextPadded(p)].wide
         /\ \/ nameOf' = nameOf
            \/ /\ nameOf' = [nameOf EXCEPT ![NextPadded(p)] = ToStrip(p)] /\ NextPadded(p) \in Named
               /\ \A v \in Named \ {NextPadded(p)} : Key(nameOf[v]) # Base(ToStrip(p).wide)
<1> DEFINE u == NextPadded(p)
           s == ToStrip(p)
<1>1. boot[p].at = "strips" /\ boot[p].todo # {} /\ boot[p].todo \subseteq Accounted
  BY DEF StripWrites, NameInv, StripsClear, NameTypes, BootRecords
<1>2. u \in boot[p].todo /\ u \in Accounted
  BY <1>1, NextIsPadded
<1>3. boot[p].read[u] \in Names /\ boot[p].read[u].pad # "none" /\ StillRead(u, boot[p].read[u])
  BY <1>1, <1>2 DEF NameInv, ReadsHold, Strips
<1>4. s \in Names /\ s.pad = "none" /\ s.wide = boot[p].read[u].wide
  BY <1>3, NameFacts DEF ToStrip
<1>5. nameOf' = IF u \in Named /\ ~Violates(s, u) THEN [nameOf EXCEPT ![u] = s] ELSE nameOf
  BY DEF StripWrites
<1>6. PadsClear(u, s.wide) /\ nameIndex # "none"
  BY <1>1, <1>4 DEF NameInv, StripsClear, IndexFirst
<1> HIDE DEF u, s
<1>7. ~Violates(s, u) => \A v \in Named \ {u} : Key(nameOf[v]) # Base(s.wide)
  BY <1>4, <1>6, KeyIsFree
<1>8. QED
  BY <1>2, <1>3, <1>4, <1>5, <1>7 DEF u, s

LEMMA WritePuts ==
  ASSUME NameInv, NEW r \in Namers, WriteName(r)
  PROVE  \/ nameOf' = nameOf
         \/ \E w \in Accounted, s \in NormalNames :
              nameOf' = [nameOf EXCEPT ![w] = s] /\ \A v \in Named \ {w} : Key(nameOf[v]) # Base(FALSE)
<1> DEFINE own == naming[r].row
           s == naming[r].name
           free == {u \in Accounted : \A v \in Accounted : v >= u => nameOf[v] = Unnamed}
           first == CHOOSE u \in free : \A v \in free : u <= v
<1>1. /\ naming[r].at = "writing" /\ s \in NormalNames /\ PadsClear(own, FALSE) /\ nameIndex # "none"
      /\ s \in Names /\ s.pad = "none" /\ s.wide = FALSE
  BY DEF WriteName, NameInv, WritesClear, IndexFirst, NormalNames
<1>2. ~Violates(s, own) => \A v \in Named \ {own} : Key(nameOf[v]) # Base(FALSE)
  BY <1>1, KeyIsFree
<1>3. \/ UNCHANGED nameOf
      \/ ~Violates(s, own) /\ own \in Named /\ nameOf' = [nameOf EXCEPT ![own] = s]
      \/ ~Violates(s, own) /\ own = 0 /\ free # {} /\ nameOf' = [nameOf EXCEPT ![first] = s]
  BY DEF WriteName
<1>4. CASE ~Violates(s, own) /\ own \in Named /\ nameOf' = [nameOf EXCEPT ![own] = s]
  BY <1>1, <1>2, <1>4 DEF Named
<1>5. CASE ~Violates(s, own) /\ own = 0 /\ free # {} /\ nameOf' = [nameOf EXCEPT ![first] = s]
  <2>1. Accounted \subseteq Nat \ {0} /\ free \subseteq Nat
    BY NameBounds DEF Accounted
  <2>2. \E u \in free : \A v \in free : u <= v
    <3> HIDE DEF free
    <3>1. QED
      BY <1>5, <2>1, SignsInFirst
  <2>3. first \in Accounted
    BY <2>2
  <2>4. \A v \in Named \ {first} : Key(nameOf[v]) # Base(FALSE)
    BY <1>2, <1>5, <2>1 DEF Named
  <2>5. QED
    BY <1>1, <1>5, <2>3, <2>4
<1>6. QED
  BY <1>3, <1>4, <1>5

LEMMA BootPut ==
  ASSUME NEW b \in BootRecords
  PROVE  /\ b.todo \subseteq Accounted /\ b.read \in Tables
         /\ \A x \in {"down", "indexed", "stripping", "strips", "serving"} :
              /\ [b EXCEPT !.at = x] \in BootRecords /\ [b EXCEPT !.at = x].at = x
              /\ [b EXCEPT !.at = x].read = b.read /\ [b EXCEPT !.at = x].todo = b.todo
              /\ \A T \in SUBSET Accounted :
                   /\ [b EXCEPT !.at = x, !.todo = T] \in BootRecords /\ [b EXCEPT !.at = x, !.todo = T].at = x
                   /\ [b EXCEPT !.at = x, !.todo = T].read = b.read /\ [b EXCEPT !.at = x, !.todo = T].todo = T
         /\ \A T \in SUBSET Accounted :
              /\ [b EXCEPT !.todo = T] \in BootRecords /\ [b EXCEPT !.todo = T].at = b.at
              /\ [b EXCEPT !.todo = T].read = b.read /\ [b EXCEPT !.todo = T].todo = T
  BY DEF BootRecords

LEMMA BootStripped ==
  ASSUME NEW b \in BootRecords, NEW T \in SUBSET Accounted
  PROVE  LET c == [b EXCEPT !.at = "stripping", !.todo = T]
         IN c \in BootRecords /\ c.at = "stripping" /\ c.read = b.read /\ c.todo = T
  BY DEF BootRecords

LEMMA BootTodo ==
  ASSUME NEW b \in BootRecords, NEW T \in SUBSET Accounted
  PROVE  /\ [b EXCEPT !.todo = T] \in BootRecords /\ [b EXCEPT !.todo = T].at = b.at
         /\ [b EXCEPT !.todo = T].read = b.read /\ [b EXCEPT !.todo = T].todo = T
  BY DEF BootRecords

LEMMA NamingPut ==
  ASSUME NEW m \in NamingRecords
  PROVE  /\ [m EXCEPT !.at = "writing"] \in NamingRecords /\ [m EXCEPT !.at = "writing"].at = "writing"
         /\ [m EXCEPT !.at = "writing"].row = m.row /\ [m EXCEPT !.at = "writing"].name = m.name
  BY DEF NamingRecords

-----------------------------------------------------------------------------
(* Each step keeps names apart.                                             *)

\* A replica's own step of its boot, names as they are.
LEMMA BootMoves ==
  ASSUME NameInv, NEW p \in Booters, NEW b \in BootRecords, boot' = [boot EXCEPT ![p] = b],
         UNCHANGED <<nameOf, nameIndex, naming>>, nameIndex # "none",
         b.at \in {"stripping", "strips"} => \A q \in Booters \ {p} : ~Strips(q),
         b.at = "strips" => b.todo # {} /\ PadsClear(NextPadded(p)', b.read[NextPadded(p)'].wide),
         b.at \in {"stripping", "strips"} => \A u \in b.todo : b.read[u] \in Names /\ b.read[u].pad # "none" /\ StillRead(u, b.read[u])
  PROVE  NameInv'
<1>1. boot \in [Booters -> BootRecords]
  BY DEF NameInv, NameTypes
<1>2. boot'[p] = b /\ \A q \in Booters \ {p} : boot'[q] = boot[q]
  BY <1>1
<1>3. NameTypes'
  BY <1>1 DEF NameInv, NameTypes
<1>4. Named' = Named /\ LowersApart' /\ KeysApart' /\ IndexFirst' /\ WritesClear'
  BY DEF NameInv, LowersApart, KeysApart, IndexFirst, WritesClear, PadsClear, Named
<1>5. OneStrips'
  BY <1>2 DEF NameInv, OneStrips, Strips
<1>6. ASSUME NEW own, NEW wide PROVE PadsClear(own, wide)' <=> PadsClear(own, wide)
  BY DEF PadsClear, Named
<1>7. ASSUME NEW u, NEW n PROVE StillRead(u, n)' <=> StillRead(u, n)
  BY DEF StillRead, HoldsKey, Named
<1>8. StripsClear'
  <2>1. SUFFICES ASSUME NEW q \in Booters, boot'[q].at = "strips"
                 PROVE  boot'[q].todo # {} /\ PadsClear(NextPadded(q)', boot'[q].read[NextPadded(q)'].wide)
    BY <1>6 DEF StripsClear
  <2>2. CASE q = p
    BY <1>2, <2>1, <2>2
  <2>3. CASE q # p
    <3>1. boot'[q] = boot[q] /\ NextPadded(q)' = NextPadded(q)
      BY <1>2, <2>3 DEF NextPadded
    <3>2. QED
      BY <2>1, <3>1 DEF NameInv, StripsClear
  <2>4. QED
    BY <2>2, <2>3
<1>9. ReadsHold'
  <2>1. SUFFICES ASSUME NEW q \in Booters, boot'[q].at \in {"stripping", "strips"}, NEW u \in boot'[q].todo
                 PROVE  boot'[q].read[u] \in Names /\ boot'[q].read[u].pad # "none" /\ StillRead(u, boot'[q].read[u])
    BY <1>7 DEF ReadsHold, Strips
  <2>2. CASE q = p
    BY <1>2, <2>1, <2>2
  <2>3. CASE q # p
    <3>1. boot'[q] = boot[q]
      BY <1>2, <2>3
    <3>2. QED
      BY <2>1, <3>1 DEF NameInv, ReadsHold, Strips
  <2>4. QED
    BY <2>2, <2>3
<1>10. QED
  BY <1>3, <1>4, <1>5, <1>8, <1>9 DEF NameInv

LEMMA BuildIndexKeeps == ASSUME NameInv, NEW p \in Booters, BuildIndex(p) PROVE NameInv'
<1>0. NameTypes /\ LowersApart /\ boot[p] \in BootRecords
  BY DEF NameInv, NameTypes
<1>1. /\ boot[p].at = "down" /\ boot' = [boot EXCEPT ![p] = [boot[p] EXCEPT !.at = "indexed"]]
      /\ UNCHANGED <<nameOf, naming>>
  BY DEF BuildIndex
<1>2. \/ nameIndex' = "norm" /\ \A u, v \in Named : Key(nameOf[u]) = Key(nameOf[v]) => u = v
      \/ nameIndex' = "case"
  BY <1>0 DEF BuildIndex, LowersApart
<1> DEFINE b == [boot[p] EXCEPT !.at = "indexed"]
<1>a. b \in BootRecords /\ b.at = "indexed" /\ boot' = [boot EXCEPT ![p] = b]
  BY <1>0, <1>1, BootPut, ZenonT(30)
<1> HIDE DEF b
<1>3. boot'[p].at = "indexed" /\ \A q \in Booters \ {p} : boot'[q] = boot[q]
  BY <1>0, <1>a DEF NameTypes
<1>4. NameTypes'
  BY <1>0, <1>1, <1>2, <1>a DEF NameTypes
<1>5. Named' = Named /\ LowersApart' /\ KeysApart' /\ IndexFirst' /\ WritesClear'
  BY <1>1, <1>2 DEF NameInv, LowersApart, KeysApart, IndexFirst, WritesClear, PadsClear, Named
<1>6. OneStrips'
  BY <1>3 DEF NameInv, OneStrips, Strips
<1>7. ASSUME NEW own, NEW wide PROVE PadsClear(own, wide)' <=> PadsClear(own, wide)
  BY <1>1 DEF PadsClear, Named
<1>8. ASSUME NEW u, NEW n PROVE StillRead(u, n)' <=> StillRead(u, n)
  BY <1>1 DEF StillRead, HoldsKey, Named
<1>9. ASSUME NEW q \in Booters, boot'[q].at \in {"stripping", "strips"} PROVE boot'[q] = boot[q] /\ NextPadded(q)' = NextPadded(q)
  BY <1>3, <1>9 DEF NextPadded
<1>10. StripsClear'
  BY <1>7, <1>9 DEF NameInv, StripsClear
<1>11. ReadsHold'
  BY <1>8, <1>9 DEF NameInv, ReadsHold, Strips
<1>12. QED
  BY <1>4, <1>5, <1>6, <1>10, <1>11 DEF NameInv

LEMMA StripReadsKeeps == ASSUME NameInv, NEW p \in Booters, StripReads(p) PROVE NameInv'
<1> DEFINE b == [at |-> "stripping", read |-> nameOf, todo |-> {u \in Named : nameOf[u].pad # "none"}]
<1>1. /\ boot[p].at = "indexed" /\ boot' = [boot EXCEPT ![p] = b] /\ UNCHANGED <<nameOf, nameIndex, naming>>
      /\ \A q \in Booters : ~Strips(q)
  BY DEF StripReads, Strips
<1>2. nameOf \in Tables /\ nameIndex # "none" /\ \A u \in Named : u \in Accounted /\ nameOf[u] \in Names
  BY <1>1 DEF NameInv, IndexFirst, NameTypes, Tables, Named
<1>3. b \in BootRecords /\ b.at = "stripping" /\ b.read = nameOf /\ b.todo = {u \in Named : nameOf[u].pad # "none"}
  BY <1>2 DEF BootRecords
<1> HIDE DEF b
<1>4. \A u \in b.todo : b.read[u] \in Names /\ b.read[u].pad # "none" /\ StillRead(u, b.read[u])
  BY <1>2, <1>3 DEF StillRead
<1>5. QED
  BY <1>1, <1>2, <1>3, <1>4, BootMoves

LEMMA StripChecksKeeps == ASSUME NameInv, NEW p \in Booters, StripChecks(p) PROVE NameInv'
<1> DEFINE u == NextPadded(p)
           s == ToStrip(p)
<1>1. boot[p].at = "stripping" /\ boot[p].todo # {} /\ UNCHANGED <<nameOf, nameIndex, naming>>
  BY DEF StripChecks
<1>a. NameTaken(s, u) => boot' = [boot EXCEPT ![p] = [boot[p] EXCEPT !.todo = boot[p].todo \ {u}]]
  BY DEF StripChecks
<1>b. ~NameTaken(s, u) => boot' = [boot EXCEPT ![p] = [boot[p] EXCEPT !.at = "strips"]]
  BY DEF StripChecks
<1>2. /\ boot[p] \in BootRecords /\ nameIndex # "none" /\ (\A q \in Booters \ {p} : ~Strips(q))
      /\ \A x \in boot[p].todo : boot[p].read[x] \in Names /\ boot[p].read[x].pad # "none" /\ StillRead(x, boot[p].read[x])
  BY <1>1 DEF NameInv, NameTypes, IndexFirst, OneStrips, ReadsHold, Strips
<1>3. u \in boot[p].todo
  BY <1>1, <1>2, BootPut, NextIsPadded
<1>4. s \in Names /\ s.pad = "none" /\ s.wide = boot[p].read[u].wide /\ Lower(s) = Base(s.wide)
  BY <1>2, <1>3, NameFacts DEF ToStrip
<1> HIDE DEF s
<1>5. CASE NameTaken(s, u)
  <2> DEFINE b == [boot[p] EXCEPT !.todo = boot[p].todo \ {u}]
  <2>1. b \in BootRecords /\ b.at = "stripping" /\ b.read = boot[p].read /\ b.todo = boot[p].todo \ {u}
    <3> DEFINE T == boot[p].todo \ {u}
    <3>1. T \in SUBSET Accounted
      BY <1>2, BootPut
    <3> HIDE DEF T
    <3>2. /\ [boot[p] EXCEPT !.todo = T] \in BootRecords /\ [boot[p] EXCEPT !.todo = T].at = boot[p].at
          /\ [boot[p] EXCEPT !.todo = T].read = boot[p].read /\ [boot[p] EXCEPT !.todo = T].todo = T
      BY <1>2, <3>1, BootTodo
    <3>3. QED
      BY <1>1, <3>2 DEF T
  <2>2. boot' = [boot EXCEPT ![p] = b]
    BY <1>a, <1>5
  <2> HIDE DEF b, u
  <2>3. QED
    BY <1>1, <1>2, <2>1, <2>2, BootMoves
<1>6. CASE ~NameTaken(s, u)
  <2> DEFINE b == [boot[p] EXCEPT !.at = "strips"]
  <2>1. b \in BootRecords /\ b.at = "strips" /\ b.read = boot[p].read /\ b.todo = boot[p].todo
    BY <1>2, BootPut
  <2>2. boot' = [boot EXCEPT ![p] = b] /\ boot'[p] = b
    BY <1>b, <1>6 DEF NameInv, NameTypes
  <2>3. NextPadded(p)' = u
    BY <2>1, <2>2 DEF NextPadded
  <2>4. PadsClear(u, s.wide)
    BY <1>4, <1>6 DEF NameTaken, PadsClear
  <2> HIDE DEF b, u
  <2>5. b.todo # {} /\ PadsClear(NextPadded(p)', b.read[NextPadded(p)'].wide)
    BY <1>1, <1>4, <2>1, <2>3, <2>4
  <2>6. QED
    BY <1>1, <1>2, <2>1, <2>2, <2>5, BootMoves
<1>7. QED
  BY <1>5, <1>6

LEMMA BootEndsKeeps == ASSUME NameInv, NEW p \in Booters, BootEnds(p) PROVE NameInv'
<1> DEFINE b == [boot[p] EXCEPT !.at = "serving"]
<1>1. boot[p].at = "stripping" /\ boot' = [boot EXCEPT ![p] = b] /\ UNCHANGED <<nameOf, nameIndex, naming>>
  BY DEF BootEnds
<1>2. boot[p] \in BootRecords /\ nameIndex # "none"
  BY <1>1 DEF NameInv, NameTypes, IndexFirst
<1>3. b \in BootRecords /\ b.at = "serving"
  BY <1>2, BootPut
<1> HIDE DEF b
<1>4. QED
  BY <1>1, <1>2, <1>3, BootMoves

\* A name is put, or goes, by a step that leaves the boots' records but for one whose row is done.
LEMMA TableMoves ==
  ASSUME NameInv, nameIndex # "none", UNCHANGED nameIndex, nameOf' \in Tables, LowersApart', KeysApart',
         boot' \in [Booters -> BootRecords], naming' \in [Namers -> NamingRecords],
         \A own, wide : PadsClear(own, wide) => PadsClear(own, wide)',
         \A r \in Namers : naming'[r] = naming[r] \/ naming'[r].at = "idle",
         \A q \in Booters :
           \/ /\ boot'[q] = boot[q]
              /\ Strips(q) => \A u \in boot[q].todo : \A n \in Names : StillRead(u, n) => StillRead(u, n)'
           \/ /\ boot[q].at = "strips" /\ boot'[q].at = "stripping" /\ boot'[q].read = boot[q].read
              /\ boot'[q].todo \subseteq boot[q].todo
              /\ \A u \in boot'[q].todo : \A n \in Names : StillRead(u, n) => StillRead(u, n)'
  PROVE  NameInv'
<1>1. NameTypes' /\ IndexFirst'
  BY DEF NameInv, NameTypes, IndexFirst
<1>2. OneStrips'
  <2>1. \A q \in Booters : Strips(q)' => Strips(q)
    BY DEF Strips
  <2>2. QED
    BY <2>1 DEF NameInv, OneStrips
<1>3. WritesClear'
  BY DEF NameInv, WritesClear
<1>4. StripsClear'
  <2>1. SUFFICES ASSUME NEW q \in Booters, boot'[q].at = "strips"
                 PROVE  boot'[q].todo # {} /\ PadsClear(NextPadded(q), boot[q].read[NextPadded(q)].wide)'
    BY DEF StripsClear
  <2>2. boot'[q] = boot[q]
    BY <2>1
  <2>3. NextPadded(q)' = NextPadded(q)
    BY <2>2 DEF NextPadded
  <2>4. boot[q].todo # {} /\ PadsClear(NextPadded(q), boot[q].read[NextPadded(q)].wide)
    BY <2>1, <2>2 DEF NameInv, StripsClear
  <2>5. PadsClear(NextPadded(q), boot[q].read[NextPadded(q)].wide)'
    <3>1. PadsClear(NextPadded(q), boot[q].read[NextPadded(q)].wide)' <=>
            \A v \in Named' \ {NextPadded(q)} : nameOf'[v].pad = "ascii" =>
              Key(nameOf'[v]) # Base(boot[q].read[NextPadded(q)].wide)
      BY <2>2, <2>3 DEF PadsClear
    <3>2. PICK own, wide : own = NextPadded(q) /\ wide = boot[q].read[NextPadded(q)].wide
      OBVIOUS
    <3>3. PadsClear(own, wide)'
      BY <2>4, <3>2
    <3>4. QED
      BY <3>1, <3>2, <3>3 DEF PadsClear
  <2>6. QED
    BY <2>2, <2>4, <2>5
<1>5. ReadsHold'
  <2>1. SUFFICES ASSUME NEW q \in Booters, Strips(q)', NEW u \in boot'[q].todo
                 PROVE  /\ boot'[q].read[u] \in Names /\ boot'[q].read[u].pad # "none"
                        /\ StillRead(u, boot[q].read[u])'
    BY DEF ReadsHold
  <2>2. Strips(q) /\ boot'[q].read = boot[q].read /\ u \in boot[q].todo
        /\ \A n \in Names : StillRead(u, n) => StillRead(u, n)'
    BY <2>1 DEF Strips
  <2>3. PICK n : n = boot[q].read[u]
    OBVIOUS
  <2>4. n \in Names /\ n.pad # "none" /\ StillRead(u, n)
    BY <2>2, <2>3 DEF NameInv, ReadsHold
  <2>5. StillRead(u, n)'
    BY <2>2, <2>4
  <2>6. StillRead(u, boot[q].read[u])'
    BY <2>2, <2>3, <2>5 DEF StillRead
  <2>7. QED
    BY <2>2, <2>3, <2>4, <2>6
<1>6. QED
  BY <1>1, <1>2, <1>3, <1>4, <1>5 DEF NameInv

LEMMA StripWritesKeeps == ASSUME NameInv, NEW p \in Booters, StripWrites(p) PROVE NameInv'
<1> DEFINE u == NextPadded(p)
           s == ToStrip(p)
           T == boot[p].todo \ {u}
           b == [boot[p] EXCEPT !.at = "stripping", !.todo = T]
<1>1. /\ boot[p].at = "strips" /\ UNCHANGED <<nameIndex, naming>>
      /\ boot' = [boot EXCEPT ![p].at = "stripping", ![p].todo = @ \ {u}]
  BY DEF StripWrites
<1>2. boot \in [Booters -> BootRecords] /\ naming \in [Namers -> NamingRecords] /\ nameIndex # "none"
      /\ nameOf \in Tables /\ LowersApart /\ KeysApart /\ boot[p] \in BootRecords
  BY <1>1 DEF NameInv, NameTypes, IndexFirst
<1>3. boot' = [boot EXCEPT ![p] = b]
  BY <1>1, <1>2
<1>4. T \in SUBSET Accounted /\ T \subseteq boot[p].todo /\ u \notin T
  BY <1>2, BootPut
<1> HIDE DEF T
<1>5. b \in BootRecords /\ b.at = "stripping" /\ b.read = boot[p].read /\ b.todo = T
  <2>1. boot[p] \in BootRecords /\ T \in SUBSET Accounted
    BY <1>2, <1>4
  <2>2. QED
    BY <2>1, BootStripped
<1> HIDE DEF b, u, s
<1>6. /\ boot' \in [Booters -> BootRecords] /\ boot'[p] = b /\ \A q \in Booters \ {p} : boot'[q] = boot[q]
  BY <1>2, <1>3, <1>5
<1>7. \A q \in Booters \ {p} : ~Strips(q)
  BY <1>1 DEF NameInv, OneStrips, Strips
<1>8. /\ nameOf' \in Tables /\ LowersApart' /\ KeysApart'
      /\ \A own, wide : PadsClear(own, wide) => PadsClear(own, wide)'
      /\ \A x \in T : \A n \in Names : StillRead(x, n) => StillRead(x, n)'
  <2>1. CASE nameOf' = nameOf
    BY <1>1, <1>2, <2>1 DEF LowersApart, KeysApart, PadsClear, StillRead, HoldsKey, Named
  <2>2. CASE nameOf' # nameOf
    <3>1. /\ u \in Accounted /\ s \in Names /\ s.pad = "none" /\ nameOf' = [nameOf EXCEPT ![u] = s]
          /\ \A v \in Named \ {u} : Key(nameOf[v]) # Base(s.wide)
      BY <2>2, StripPuts DEF u, s
    <3>2. /\ nameOf' \in Tables /\ LowersApart' /\ KeysApart'
          /\ \A own, wide : PadsClear(own, wide) => PadsClear(own, wide)'
          /\ \A x \in Accounted \ {u} : \A n : StillRead(x, n) => StillRead(x, n)'
      BY <1>1, <3>1, PutKeepsApart
    <3>3. QED
      BY <1>4, <3>2
  <2>3. QED
    BY <2>1, <2>2
<1>9. \A q \in Booters :
        \/ /\ boot'[q] = boot[q]
           /\ Strips(q) => \A x \in boot[q].todo : \A n \in Names : StillRead(x, n) => StillRead(x, n)'
        \/ /\ boot[q].at = "strips" /\ boot'[q].at = "stripping" /\ boot'[q].read = boot[q].read
           /\ boot'[q].todo \subseteq boot[q].todo
           /\ \A x \in boot'[q].todo : \A n \in Names : StillRead(x, n) => StillRead(x, n)'
  BY <1>1, <1>4, <1>5, <1>6, <1>7, <1>8
<1>10. QED
  BY <1>1, <1>2, <1>6, <1>8, <1>9, TableMoves

LEMMA WriteNameKeeps == ASSUME NameInv, NEW r \in Namers, WriteName(r) PROVE NameInv'
<1>1. naming[r].at = "writing" /\ naming' = [naming EXCEPT ![r] = NotNaming] /\ UNCHANGED <<nameIndex, boot>>
  BY DEF WriteName
<1>2. boot \in [Booters -> BootRecords] /\ naming \in [Namers -> NamingRecords] /\ nameIndex # "none"
      /\ nameOf \in Tables /\ LowersApart /\ KeysApart
  BY <1>1 DEF NameInv, NameTypes, IndexFirst
<1>3. /\ naming' \in [Namers -> NamingRecords]
      /\ \A x \in Namers : naming'[x] = naming[x] \/ naming'[x].at = "idle"
  <2>1. NotNaming \in NamingRecords /\ NotNaming.at = "idle"
    BY NameBounds DEF NotNaming, NamingRecords
  <2>2. QED
    BY <1>1, <1>2, <2>1
<1>4. /\ nameOf' \in Tables /\ LowersApart' /\ KeysApart'
      /\ \A own, wide : PadsClear(own, wide) => PadsClear(own, wide)'
      /\ \A x \in Accounted : \A n \in Names : StillRead(x, n) => StillRead(x, n)'
  <2>1. CASE nameOf' = nameOf
    BY <1>1, <1>2, <2>1 DEF LowersApart, KeysApart, PadsClear, StillRead, HoldsKey, Named
  <2>2. CASE nameOf' # nameOf
    <3>1. PICK w \in Accounted, s \in NormalNames :
            nameOf' = [nameOf EXCEPT ![w] = s] /\ \A v \in Named \ {w} : Key(nameOf[v]) # Base(FALSE)
      BY <2>2, WritePuts
    <3>2. s \in Names /\ s.pad = "none" /\ s.wide = FALSE
      BY DEF NormalNames
    <3>3. /\ nameOf' \in Tables /\ LowersApart' /\ KeysApart'
          /\ \A own, wide : PadsClear(own, wide) => PadsClear(own, wide)'
          /\ \A x \in Accounted \ {w} : \A n : StillRead(x, n) => StillRead(x, n)'
          /\ HoldsKey(w)'
      BY <1>1, <3>1, <3>2, PutKeepsApart
    <3>4. \A n : StillRead(w, n)'
      BY <3>3 DEF StillRead
    <3>5. QED
      BY <3>3, <3>4
  <2>3. QED
    BY <2>1, <2>2
<1>5. \A q \in Booters : boot'[q] = boot[q] /\ boot[q].todo \subseteq Accounted
  BY <1>1, <1>2, BootPut
<1>6. QED
  BY <1>1, <1>2, <1>3, <1>4, <1>5, TableMoves

LEMMA DeleteKeeps == ASSUME NameInv, NEW w \in Accounted, DeleteAccount(w) PROVE NameInv'
<1>1. nameOf' = [nameOf EXCEPT ![w] = Unnamed] /\ UNCHANGED <<nameIndex, boot, naming>>
      /\ \E p \in Booters : boot[p].at = "serving"
  BY DEF DeleteAccount, Serving
<1>2. boot \in [Booters -> BootRecords] /\ naming \in [Namers -> NamingRecords] /\ nameIndex # "none"
  BY <1>1 DEF NameInv, NameTypes, IndexFirst
<1>3. /\ nameOf' \in Tables /\ LowersApart' /\ KeysApart'
      /\ \A own, wide : PadsClear(own, wide) => PadsClear(own, wide)'
      /\ \A x \in Accounted : \A n : StillRead(x, n) => StillRead(x, n)'
  BY <1>1, DeleteKeepsApart
<1>4. \A q \in Booters : boot'[q] = boot[q] /\ boot[q].todo \subseteq Accounted
  BY <1>1, <1>2, BootPut
<1>5. QED
  BY <1>1, <1>2, <1>3, <1>4, TableMoves

\* Steps of a request that leave the table as it is.
LEMMA NamingMoves ==
  ASSUME NameInv, NEW r \in Namers, NEW m \in NamingRecords, naming' = [naming EXCEPT ![r] = m],
         UNCHANGED <<nameOf, nameIndex, boot>>, nameIndex # "none",
         m.at # "idle" => m.name \in NormalNames, m.at = "writing" => PadsClear(m.row, FALSE)
  PROVE  NameInv'
<1>1. naming \in [Namers -> NamingRecords]
  BY DEF NameInv, NameTypes
<1>2. naming'[r] = m /\ \A x \in Namers \ {r} : naming'[x] = naming[x]
  BY <1>1
<1>3. NameTypes'
  BY <1>1 DEF NameInv, NameTypes
<1>4. Named' = Named /\ LowersApart' /\ KeysApart' /\ IndexFirst' /\ OneStrips'
  BY DEF NameInv, LowersApart, KeysApart, IndexFirst, OneStrips, Strips, Named
<1>5. StripsClear' /\ ReadsHold'
  BY DEF NameInv, StripsClear, ReadsHold, PadsClear, StillRead, HoldsKey, Strips, NextPadded, Named
<1>6. ASSUME NEW own, NEW wide PROVE PadsClear(own, wide)' <=> PadsClear(own, wide)
  BY DEF PadsClear, Named
<1>7. WritesClear'
  <2>1. SUFFICES ASSUME NEW x \in Namers
                 PROVE  /\ naming'[x].at # "idle" => naming'[x].name \in NormalNames
                        /\ naming'[x].at = "writing" => PadsClear(naming'[x].row, FALSE)
    BY <1>6 DEF WritesClear
  <2>2. CASE x = r
    BY <1>2, <2>2
  <2>3. CASE x # r
    BY <1>2, <2>3 DEF NameInv, WritesClear
  <2>4. QED
    BY <2>2, <2>3
<1>8. QED
  BY <1>3, <1>4, <1>5, <1>7 DEF NameInv

LEMMA AskedKeeps == ASSUME NameInv, NEW r \in Namers, NEW own \in 0..MaxAccounts, NEW n \in Names, Asked(r, own, n) PROVE NameInv'
<1> DEFINE m == [at |-> "checking", row |-> own, name |-> Normalized(n)]
<1>1. /\ naming' = [naming EXCEPT ![r] = m] /\ UNCHANGED <<nameOf, nameIndex, boot>>
      /\ \E p \in Booters : boot[p].at = "serving"
  BY DEF Asked, Serving
<1>2. nameIndex # "none"
  BY <1>1 DEF NameInv, IndexFirst
<1>3. Normalized(n) \in NormalNames /\ Normalized(n) \in Names
  BY NameFacts DEF NormalNames
<1>4. m \in NamingRecords /\ m.at = "checking" /\ m.name = Normalized(n)
  BY <1>3 DEF NamingRecords
<1> HIDE DEF m
<1>5. QED
  BY <1>1, <1>2, <1>3, <1>4, NamingMoves

LEMMA CheckNameKeeps == ASSUME NameInv, NEW r \in Namers, CheckName(r) PROVE NameInv'
<1> DEFINE k == naming[r]
<1>1. /\ k.at = "checking" /\ UNCHANGED <<nameOf, nameIndex, boot>>
      /\ naming' = [naming EXCEPT ![r] = IF NameTaken(k.name, k.row) THEN NotNaming ELSE [k EXCEPT !.at = "writing"]]
  BY DEF CheckName
<1>2. k \in NamingRecords /\ nameIndex # "none" /\ k.name \in NormalNames
  BY <1>1 DEF NameInv, NameTypes, IndexFirst, WritesClear
<1> HIDE DEF k
<1>3. CASE NameTaken(k.name, k.row)
  <2>1. NotNaming \in NamingRecords /\ NotNaming.at = "idle"
    BY NameBounds DEF NotNaming, NamingRecords
  <2>2. QED
    BY <1>1, <1>2, <1>3, <2>1, NamingMoves
<1>4. CASE ~NameTaken(k.name, k.row)
  <2> DEFINE m == [k EXCEPT !.at = "writing"]
  <2>1. m \in NamingRecords /\ m.at = "writing" /\ m.row = k.row /\ m.name = k.name
    BY <1>2, NamingPut
  <2>2. naming' = [naming EXCEPT ![r] = m]
    BY <1>1, <1>4
  <2>3. PadsClear(k.row, FALSE)
    <3>1. Lower(k.name) = Base(FALSE)
      BY <1>2, NameFacts DEF NormalNames
    <3>2. QED
      BY <1>4, <3>1 DEF NameTaken, PadsClear
  <2> HIDE DEF m
  <2>4. QED
    BY <1>1, <1>2, <2>1, <2>2, <2>3, NamingMoves
<1>5. QED
  BY <1>3, <1>4

LEMMA NameInvHolds == NameInv /\ [NamesNext]_nameVars => NameInv'
<1>1. SUFFICES ASSUME NameInv, [NamesNext]_nameVars PROVE NameInv'
  OBVIOUS
<1>2. CASE UNCHANGED nameVars
  <2>1. UNCHANGED <<nameOf, nameIndex, boot, naming>>
    BY <1>2 DEF nameVars
  <2>2. NameTypes' /\ LowersApart' /\ KeysApart' /\ IndexFirst' /\ OneStrips'
    BY <1>1, <2>1 DEF NameInv, NameTypes, LowersApart, KeysApart, IndexFirst, OneStrips, Strips, Named
  <2>3. WritesClear' /\ StripsClear' /\ ReadsHold'
    BY <1>1, <2>1 DEF NameInv, WritesClear, StripsClear, ReadsHold, PadsClear, StillRead, HoldsKey, Strips, NextPadded, Named
  <2>4. QED
    BY <2>2, <2>3 DEF NameInv
<1>3. ASSUME NEW r \in Namers, NEW n \in Names, AskCreate(r, n) PROVE NameInv'
  BY <1>1, <1>3, NameBounds, AskedKeeps DEF AskCreate
<1>4. ASSUME NEW r \in Namers, NEW n \in Names, NEW u \in Accounted, AskRename(r, u, n) PROVE NameInv'
  <2>1. u \in 0..MaxAccounts
    BY NameBounds DEF Accounted
  <2>2. QED
    BY <1>1, <1>4, <2>1, AskedKeeps DEF AskRename
<1>5. QED
  BY <1>1, <1>2, <1>3, <1>4, BuildIndexKeeps, StripReadsKeeps, StripChecksKeeps, StripWritesKeeps, BootEndsKeeps,
     CheckNameKeeps, WriteNameKeeps, DeleteKeeps DEF NamesNext

-----------------------------------------------------------------------------
(* Who is signed in.                                                        *)

LEMMA KeptByStep == NameInv /\ [NamesNext]_nameVars => [LoginKept]_nameVars
<1> SUFFICES ASSUME NameInv, NamesNext, NEW n \in Names, Login(n) # 0, nameOf'[Login(n)] = nameOf[Login(n)]
             PROVE  \/ Login(n)' = Login(n)
                    \/ /\ nameOf[Login(n)'].pad = "other" /\ nameOf'[Login(n)'] = Stripped(nameOf[Login(n)'])
                       /\ Lower(nameOf'[Login(n)']) = Lower(Stripped(n))
                       /\ Lower(nameOf[Login(n)]) # Lower(Stripped(n))
  BY DEF LoginKept
<1> DEFINE u == LoginIn(nameOf, n)
           g == nameOf'
<1>1. Login(n) = u /\ Login(n)' = LoginIn(g, n)
  BY LoginsAreIn
<1>2. nameOf \in Tables /\ g \in Tables
  BY NameInvHolds DEF NameInv, NameTypes
<1>3. u # 0 /\ g[u] = nameOf[u] /\ FoundIn(nameOf, n) # {} /\ u \in FoundIn(nameOf, n) /\ u \in Named /\ u \in Accounted
      /\ nameOf[u] \in Names
  <2>1. u # 0 /\ g[u] = nameOf[u]
    BY <1>1
  <2>2. FoundIn(nameOf, n) # {} /\ u \in FoundIn(nameOf, n)
    BY <1>2, <2>1, LoginIsFirst
  <2>3. QED
    BY <1>2, <2>1, <2>2 DEF FoundIn, NamedIn, Named, Tables
<1>4. CASE UNCHANGED nameOf
  BY <1>1, <1>4
<1>5. ASSUME NEW w \in Accounted, DeleteAccount(w) PROVE Login(n)' = Login(n)
  <2>1. g = [nameOf EXCEPT ![w] = Unnamed]
    BY <1>5 DEF DeleteAccount
  <2>2. g[w] = Unnamed /\ \A v \in Accounted \ {w} : g[v] = nameOf[v]
    BY <1>2, <2>1 DEF Tables
  <2>3. u # w
    BY <1>3, <2>2 DEF Named
  <2>4. w \notin FoundIn(g, n) /\ u \in Accounted \ {w}
    BY <1>3, <2>2, <2>3 DEF FoundIn, NamedIn
  <2>5. LoginIn(g, n) = u
    BY <1>2, <1>3, <2>2, <2>4, LoginUndisturbed
  <2>6. QED
    BY <1>1, <2>5
<1>6. NamedIn(nameOf) = Named
  BY DEF NamedIn, Named
<1>7. ASSUME NEW r \in Namers, WriteName(r), nameOf' # nameOf PROVE Login(n)' = Login(n)
  <2>1. PICK w \in Accounted, s \in NormalNames :
          nameOf' = [nameOf EXCEPT ![w] = s] /\ \A v \in Named \ {w} : Key(nameOf[v]) # Base(FALSE)
    BY <1>7, WritePuts
  <2>2. s \in Names /\ s.pad = "none" /\ s.wide = FALSE
    BY DEF NormalNames
  <2>3. g[w] = s /\ \A v \in Accounted \ {w} : g[v] = nameOf[v]
    BY <1>2, <2>1 DEF Tables
  <2>4. g[w] \in Names /\ g[w].pad = "none" /\ g[w].wide = FALSE
        /\ \A v \in NamedIn(nameOf) \ {w} : Key(nameOf[v]) # Base(g[w].wide)
    BY <1>6, <2>1, <2>2, <2>3
  <2>5. LoginIn(g, n) = u \/ g[w].wide = TRUE
    <3>1. PutAlone(nameOf, g, w) /\ KeepsIn(nameOf, g, u)
      BY <1>3, <2>3, <2>4 DEF PutAlone, KeepsIn
    <3> HIDE DEF g
    <3>2. LoginIn(g, n) = u \/ TakesOver(nameOf, g, u, w, n)
      BY <1>2, <2>1, <3>1, NamePut
    <3>3. QED
      BY <3>2 DEF TakesOver
  <2>6. QED
    BY <1>1, <2>4, <2>5
<1>8. ASSUME NEW p \in Booters, StripWrites(p), nameOf' # nameOf
      PROVE  \/ Login(n)' = Login(n)
             \/ /\ nameOf[Login(n)'].pad = "other" /\ nameOf'[Login(n)'] = Stripped(nameOf[Login(n)'])
                /\ Lower(nameOf'[Login(n)']) = Lower(Stripped(n))
                /\ Lower(nameOf[Login(n)]) # Lower(Stripped(n))
  <2> DEFINE w == NextPadded(p)
             s == ToStrip(p)
             was == boot[p].read[w]
  <2>1. /\ w \in Accounted /\ w \in Named /\ was \in Names /\ was.pad # "none" /\ StillRead(w, was)
        /\ s = Stripped(was) /\ s \in Names /\ s.pad = "none" /\ s.wide = was.wide
        /\ nameOf' = [nameOf EXCEPT ![w] = s] /\ \A v \in Named \ {w} : Key(nameOf[v]) # Base(s.wide)
    BY <1>8, StripPuts DEF ToStrip
  <2> HIDE DEF w, s, was
  <2>2. g[w] = s /\ \A v \in Accounted \ {w} : g[v] = nameOf[v]
    BY <1>2, <2>1 DEF Tables
  <2>3. \/ LoginIn(g, n) = u
        \/ /\ LoginIn(g, n) = w /\ u # w /\ s.wide = TRUE /\ n.wide = TRUE
           /\ Key(nameOf[u]) = Base(FALSE) /\ ~(w \in Named /\ Key(nameOf[w]) = Base(TRUE))
    <3>1. g[w] \in Names /\ g[w].pad = "none" /\ \A v \in NamedIn(nameOf) \ {w} : Key(nameOf[v]) # Base(g[w].wide)
      BY <1>6, <2>1, <2>2
    <3>2. PutAlone(nameOf, g, w) /\ KeepsIn(nameOf, g, u)
      BY <1>3, <2>2, <3>1 DEF PutAlone, KeepsIn
    <3> HIDE DEF g
    <3>3. LoginIn(g, n) = u \/ TakesOver(nameOf, g, u, w, n)
      BY <1>2, <2>1, <3>2, NamePut
    <3>4. QED
      BY <1>6, <2>2, <3>3 DEF TakesOver
  <2>4. ASSUME LoginIn(g, n) = w, u # w, s.wide = TRUE, n.wide = TRUE,
               Key(nameOf[u]) = Base(FALSE), Key(nameOf[w]) # Base(TRUE)
        PROVE  /\ nameOf[w].pad = "other" /\ nameOf'[w] = Stripped(nameOf[w])
               /\ Lower(nameOf'[w]) = Lower(Stripped(n)) /\ Lower(nameOf[u]) # Lower(Stripped(n))
    <3>1. nameOf[w] = was
      <4>1. nameOf[w] # Unnamed
        BY <2>1 DEF Named
      <4>2. ~HoldsKey(w)
        BY <1>3, <2>4 DEF HoldsKey
      <4>3. QED
        BY <2>1, <4>1, <4>2 DEF StillRead
    <3>2. nameOf[w].pad = "other"
      <4>1. was.pad \in {"none", "ascii", "other"} /\ (was.pad = "ascii" => Key(was) = Base(was.wide))
        BY <2>1, NameFacts
      <4>2. was.wide = TRUE
        BY <2>1, <2>4
      <4>3. QED
        BY <2>1, <2>4, <3>1, <4>1, <4>2
    <3>3. nameOf'[w] = Stripped(nameOf[w])
      BY <2>1, <2>2, <3>1
    <3>4. Lower(s) = Base(TRUE) /\ Lower(Stripped(n)) = Base(TRUE)
      BY <2>1, <2>4, NameFacts
    <3>5. Lower(nameOf[u]) # Base(TRUE)
      <4>1. SUFFICES ASSUME Lower(nameOf[u]) = Lower(s) PROVE FALSE
        BY <3>4
      <4>2. Key(nameOf[u]) = Key(s)
        BY <1>3, <2>1, <4>1, NameFacts
      <4>3. Key(s) = Base(TRUE) /\ Base(TRUE) # Base(FALSE)
        BY <2>1, <2>4, NameFacts
      <4>4. QED
        BY <2>4, <4>2, <4>3
    <3>6. QED
      BY <2>2, <3>2, <3>3, <3>4, <3>5
  <2>5. QED
    BY <1>1, <2>1, <2>3, <2>4
<1>9. QED
  <2>1. CASE \E w \in Accounted : DeleteAccount(w)
    BY <1>5, <2>1
  <2>2. CASE \E r \in Namers : WriteName(r)
    BY <1>4, <1>7, <2>2
  <2>3. CASE \E p \in Booters : StripWrites(p)
    BY <1>4, <1>8, <2>3
  <2>4. CASE ~(\E w \in Accounted : DeleteAccount(w)) /\ ~(\E r \in Namers : WriteName(r)) /\ ~(\E p \in Booters : StripWrites(p))
    <3>1. UNCHANGED nameOf
      BY <2>4 DEF NamesNext, BuildIndex, StripReads, StripChecks, BootEnds, CheckName, AskCreate, AskRename, Asked
    <3>2. QED
      BY <1>4, <3>1
  <2>5. QED
    BY <2>1, <2>2, <2>3, <2>4

\* Each of the in-memory store's two look-ups finds one account at most, the one that is before all
\* others here.
LEMMA AgreeByKeys == NameInv => LoginsAgree
<1> SUFFICES ASSUME NameInv, nameIndex = "norm", \A u \in Named : nameOf[u].pad # "other", NEW n \in Names
             PROVE  Login(n) = MemoryLogin(n)
  BY DEF LoginsAgree
<1> DEFINE T == {u \in Named : Lower(Stripped(nameOf[u])) = Lower(Stripped(n))}
           F == {u \in Named : Lower(Stripped(nameOf[u])) = Lower(Normalized(n))}
           found == IF T # {} THEN T ELSE F
           M == FoundIn(nameOf, n)
<1>1. nameOf \in Tables /\ Named = NamedIn(nameOf) /\ n.wide \in BOOLEAN
  BY NameFacts DEF NameInv, NameTypes, Named, NamedIn
<1>2. Lower(Stripped(n)) = Base(n.wide) /\ Lower(Normalized(n)) = Base(FALSE)
  BY NameFacts
<1>3. \A u \in Named : Lower(Stripped(nameOf[u])) = Key(nameOf[u])
  <2>1. SUFFICES ASSUME NEW u \in Named PROVE Lower(Stripped(nameOf[u])) = Key(nameOf[u])
    OBVIOUS
  <2>2. nameOf[u] \in Names /\ nameOf[u].pad # "other"
    BY <1>1 DEF Tables, Named
  <2>3. nameOf[u].pad \in {"none", "ascii"} /\ Lower(Stripped(nameOf[u])) = Base(nameOf[u].wide)
    BY <2>2, NameFacts
  <2>4. Key(nameOf[u]) = Base(nameOf[u].wide)
    BY <2>2, <2>3, NameFacts
  <2>5. QED
    BY <2>3, <2>4
<1>4. T = {u \in Named : Key(nameOf[u]) = Base(n.wide)} /\ F = {u \in Named : Key(nameOf[u]) = Base(FALSE)}
  BY <1>2, <1>3
<1>5. M = T \cup F
  BY <1>1, <1>4 DEF FoundIn
<1>6. (\A u, v \in T : u = v) /\ (\A u, v \in F : u = v)
  BY <1>4 DEF NameInv, KeysApart
<1>7. MemoryLogin(n) = (IF found = {} THEN 0 ELSE CHOOSE u \in found : TRUE)
  BY DEF MemoryLogin
<1>8. Login(n) = LoginIn(nameOf, n)
  BY LoginsAreIn
<1>9. \A v \in Named : v \notin T => ~Near(nameOf, v, n) /\ ~Exact(nameOf, v, n)
  <2>1. SUFFICES ASSUME NEW v \in Named, v \notin T PROVE ~Near(nameOf, v, n) /\ ~Exact(nameOf, v, n)
    OBVIOUS
  <2>2. ~Near(nameOf, v, n)
    BY <1>4, <2>1 DEF Near
  <2>3. nameOf[v] # Stripped(n)
    BY <2>1, <2>2, NameFacts DEF Near
  <2>4. QED
    BY <2>2, <2>3 DEF Exact
<1>10. T \subseteq Named /\ F \subseteq Named /\ \A u \in T : Near(nameOf, u, n)
  BY <1>4 DEF Near
<1>11. CASE found = {}
  <2>1. M = {}
    BY <1>5, <1>11
  <2>2. QED
    BY <1>1, <1>7, <1>8, <1>11, <2>1, LoginIsFirst
<1>12. CASE found # {}
  <2>1. PICK u \in found : TRUE
    BY <1>12
  <2>2. found = {u} /\ u \in M
    BY <1>5, <1>6, <2>1
  <2>3. \A v \in M \ {u} : Before(nameOf, u, v, n)
    <3>1. SUFFICES ASSUME NEW v \in M, v # u PROVE Before(nameOf, u, v, n)
      OBVIOUS
    <3>2. T # {} /\ u \in T /\ v \notin T /\ v \in Named
      BY <1>5, <1>6, <1>10, <2>1, <2>2, <3>1
    <3>3. Near(nameOf, u, n) /\ ~Near(nameOf, v, n) /\ ~Exact(nameOf, v, n)
      BY <1>9, <1>10, <3>2
    <3>4. QED
      BY <3>3 DEF Before
  <2>4. LoginIn(nameOf, n) = u
    BY <1>1, <2>2, <2>3, LoginIsFirst
  <2>5. (CHOOSE x \in found : TRUE) = u
    BY <2>2
  <2>6. QED
    BY <1>7, <1>8, <1>12, <2>4, <2>5
<1>13. QED
  BY <1>11, <1>12

\* A name that signs an account in goes on signing it in until that account is itself renamed or
\* deleted, whichever spellings of the name others take, in any order of creations, renames,
\* deletions and boots; only an old account whose padding is stripped takes its own spelling back.
\* And once the index on keys is made, both stores sign every name in alike (get_by_username,
\* update_credentials and _strip_padded_usernames of SqlUserStore, get_by_username of
\* InMemoryUserStore).
THEOREM LoginsAreKept == NamesInit /\ [][NamesNext]_nameVars => LoginsStay
<1>1. NamesInit => NameInv
  BY NameInvInit
<1>2. NameInv /\ [NamesNext]_nameVars => NameInv'
  BY NameInvHolds
<1>3. NameInv /\ [NamesNext]_nameVars => [LoginKept]_nameVars
  BY KeptByStep
<1>4. NameInv => LoginsAgree
  BY AgreeByKeys
<1>5. QED
  BY <1>1, <1>2, <1>3, <1>4, PTL DEF LoginsStay
=============================================================================
