------------------------------ MODULE Accounts ------------------------------
(***************************************************************************)
(* The household's accounts over the SQL store (auth/users.py,             *)
(* sql_users.py, router.py): replicas seeding the admin the environment    *)
(* names, sign-ins that resolve an identity to a row by its subject, its   *)
(* verified email or a new row, the admin's edits and deletions, and the   *)
(* capture devices a user pairs.  Every read and every statement is a step *)
(* of its own, as concurrent requests run in a thread pool.  Usernames and *)
(* passwords are left out: a provisioned row finds a free name or is       *)
(* refused as a duplicate, and any row that is not the environment's may   *)
(* have the name that its admin is to get.                                 *)
(***************************************************************************)
EXTENDS Integers, FiniteSets

CONSTANTS Replicas,        \* processes that seed the environment's admin
          Requests,        \* requests in progress at once
          People,          \* identities (oidc_sub) the identity provider knows
          Emails,          \* addresses they, and the rows, may have
          SharedEmails,    \* TRUE: two identities may have one verified address
          MaxRows,         \* bound: rows ever made
          MaxDevices,      \* MAX_DEVICE_TOKENS
          MaxUpsets        \* bound: changes of a person's groups, and outages and errors that
                           \* meet a seeding, in all

ASSUME AccountBounds ==
  /\ {MaxRows, MaxDevices} \subseteq Nat \ {0}
  /\ MaxUpsets \in Nat
  /\ "none" \notin Requests
  /\ SharedEmails \in BOOLEAN

VARIABLES account,     \* row -> what it holds
          claim,       \* person -> the email and groups a token of theirs carries
          inFlight,    \* request -> where it is and what it has read
          seeding,     \* replica -> where its reconcile_admin is
          device,      \* row -> live device tokens
          minting,     \* row -> the request that holds its row lock, or none
          used         \* how much of each bound is used

accountVars == <<account, claim, inFlight, seeding, device, minting, used>>

NoClaim == "none"
Rows == 1..MaxRows
NoAccount == [there |-> FALSE, sub |-> NoClaim, email |-> NoClaim, role |-> "member", env |-> FALSE]
EnvEmail == "env"  \* API_AUTH_ADMIN_EMAIL
Idle == [at |-> "idle", who |-> NoClaim, row |-> 0, role |-> "member", email |-> NoClaim]

Used(u) == account[u].there
HasSub(u, p) == Used(u) /\ account[u].sub = p
HasEmail(u, e) == e # NoClaim /\ Used(u) /\ account[u].email = e
EnvAdminThere == \E u \in Rows : Used(u) /\ account[u].env
NameMayClash == \E u \in Rows : Used(u) /\ ~account[u].env
FreeRows == {u \in Rows : ~Used(u) /\ u > used.rows}

\* An INSERT: refused where a unique index of the table has the value already.
Duplicate(row) == \E u \in Rows : Used(u) /\
  \/ row.sub # NoClaim /\ account[u].sub = row.sub
  \/ row.email # NoClaim /\ account[u].email = row.email
  \/ row.env /\ account[u].env
Inserted(row) == [account EXCEPT ![used.rows + 1] = [row EXCEPT !.there = TRUE]]

\* The first member an admin makes is a row already there at the start.
AccountInit ==
  /\ account = [u \in Rows |-> IF u = 1 THEN [NoAccount EXCEPT !.there = TRUE, !.email = "e1"]
                                        ELSE NoAccount]
  /\ claim \in [People -> [email : Emails, verified : BOOLEAN, groups : {"admin", "member"}]]
  /\ ~SharedEmails => \A p, q \in People : p # q => claim[p].email # claim[q].email
  /\ inFlight = [r \in Requests |-> Idle]
  /\ seeding = [x \in Replicas |-> "due"]
  /\ device = [u \in Rows |-> 0]
  /\ minting = [u \in Rows |-> NoClaim]
  /\ used = [rows |-> 1, upsets |-> 0]

---------------------------------------------------------------------------
\* get_user_store on a replica's first access: whether the admin's row is there.
SeedReads(x) ==
  /\ seeding[x] = "due"
  /\ seeding' = [seeding EXCEPT ![x] = IF EnvAdminThere THEN "updating" ELSE "creating"]
  /\ UNCHANGED <<account, claim, inFlight, device, minting, used>>

\* The seed's create, with the email and, where that was refused, without.  It is refused where
\* another replica was faster, and then this one is done, or where another row has the email or
\* the name; refused again for the name, the seeding is given up and the boot goes on.
SeedCreates(x) ==
  LET row == [NoAccount EXCEPT !.role = "admin", !.env = TRUE,
                !.email = IF seeding[x] = "creating" THEN EnvEmail ELSE NoClaim]
  IN /\ seeding[x] \in {"creating", "retrying"}
     /\ \/ /\ ~Duplicate(row) /\ FreeRows # {}
           /\ account' = Inserted(row)
           /\ used' = [used EXCEPT !.rows = @ + 1]
           /\ seeding' = [seeding EXCEPT ![x] = "done"]
        \/ /\ Duplicate(row) \/ NameMayClash
           /\ seeding' = [seeding EXCEPT ![x] = IF EnvAdminThere THEN "done"
                            ELSE IF @ = "creating" THEN "retrying" ELSE "gaveUp"]
           /\ UNCHANGED <<account, used>>
     /\ UNCHANGED <<claim, inFlight, device, minting>>

\* The environment's credentials and email are put on the row that is there, unless
\* another row has the email or the name.
SeedUpdates(x) ==
  /\ seeding[x] = "updating"
  /\ seeding' = [seeding EXCEPT ![x] = "done"]
  /\ \/ /\ ~\E v \in Rows : ~account[v].env /\ HasEmail(v, EnvEmail)
        /\ account' = [u \in Rows |-> IF account[u].env THEN [account[u] EXCEPT !.email = EnvEmail]
                                                       ELSE account[u]]
     \/ NameMayClash /\ UNCHANGED account
  /\ UNCHANGED <<claim, inFlight, device, minting, used>>

\* A statement of the seeding fails.  Where the database is not there, or the statement lost a
\* conflict, so does the access, and the next one seeds again; any other error is logged, and the
\* replica goes on without having seen to the admin.
SeedFails(x) ==
  /\ seeding[x] \notin {"done", "gaveUp"} /\ used.upsets < MaxUpsets
  /\ used' = [used EXCEPT !.upsets = @ + 1]
  /\ \E retryable \in BOOLEAN :
       seeding' = [seeding EXCEPT ![x] = IF retryable THEN "due" ELSE "gaveUp"]
  /\ UNCHANGED <<account, claim, inFlight, device, minting>>

---------------------------------------------------------------------------
\* _token_is_env_admin.
IsEnvAdmin(p) == \E u \in Rows : Used(u) /\ account[u].env /\
  (account[u].sub = p \/ (claim[p].verified /\ account[u].email = claim[p].email))

\* resolve_oidc_principal: the group gate, then the row that carries this subject.
ResolveIdentity(r, p) ==
  /\ inFlight[r].at = "idle"
  /\ claim[p].groups # NoClaim \/ IsEnvAdmin(p)
  /\ LET role == IF claim[p].groups = "admin" THEN "admin" ELSE "member"
         mine == {u \in Rows : HasSub(u, p)}
     IN inFlight' = [inFlight EXCEPT ![r] =
          [at |-> IF mine # {} THEN "refreshing" ELSE "matching", who |-> p,
           row |-> IF mine # {} THEN CHOOSE u \in mine : TRUE ELSE 0, role |-> role,
           email |-> IF claim[p].verified THEN claim[p].email ELSE NoClaim]]
  /\ UNCHANGED <<account, claim, seeding, device, minting, used>>

\* No row carries it: a row with the verified email that was never linked is adopted;
\* one already linked keeps its identity, and a new row goes without the email.
MatchEmail(r) ==
  /\ inFlight[r].at = "matching"
  /\ LET match == {u \in Rows : HasEmail(u, inFlight[r].email)}
     IN inFlight' = [inFlight EXCEPT ![r] =
          IF match = {} THEN [@ EXCEPT !.at = "provisioning"]
          ELSE LET u == CHOOSE v \in match : TRUE
               IN IF account[u].sub = NoClaim THEN [@ EXCEPT !.at = "linking", !.row = u]
                  ELSE [@ EXCEPT !.at = "provisioning", !.email = NoClaim]]
  /\ UNCHANGED <<account, claim, seeding, device, minting, used>>

\* update_oidc with the subject: refused where the row is gone, or another has it.
Link(r) ==
  LET u == inFlight[r].row
      taken == \E v \in Rows \ {u} : HasSub(v, inFlight[r].who)
  IN /\ inFlight[r].at = "linking"
     /\ IF Used(u) /\ ~taken
        THEN /\ account' = [account EXCEPT ![u].sub = inFlight[r].who]
             /\ inFlight' = [inFlight EXCEPT ![r].at = "refreshing"]
        ELSE /\ UNCHANGED account
             /\ inFlight' = [inFlight EXCEPT ![r] = Idle]
     /\ UNCHANGED <<claim, seeding, device, minting, used>>

\* _jit_create: a new row, or a 401 where someone else's or its own is there by now.
Provision(r) ==
  LET row == [NoAccount EXCEPT !.sub = inFlight[r].who, !.email = inFlight[r].email,
                               !.role = inFlight[r].role]
  IN /\ inFlight[r].at = "provisioning"
     /\ \/ Duplicate(row) /\ UNCHANGED <<account, used>>
        \/ /\ ~Duplicate(row) /\ FreeRows # {}
           /\ account' = Inserted(row)
           /\ used' = [used EXCEPT !.rows = @ + 1]
     /\ inFlight' = [inFlight EXCEPT ![r] = Idle]
     /\ UNCHANGED <<claim, seeding, device, minting>>

\* _refresh_login: the role the token gives, unless the row is the environment's admin.
Refresh(r) ==
  LET u == inFlight[r].row
  IN /\ inFlight[r].at = "refreshing"
     /\ account' = IF Used(u) /\ ~account[u].env
                   THEN [account EXCEPT ![u].role = inFlight[r].role] ELSE account
     /\ inFlight' = [inFlight EXCEPT ![r] = Idle]
     /\ UNCHANGED <<claim, seeding, device, minting, used>>

\* The identity provider moves a person to other groups, or out of all of them.
Regroup(p) ==
  /\ used.upsets < MaxUpsets
  /\ used' = [used EXCEPT !.upsets = @ + 1]
  /\ \E g \in {"admin", "member", NoClaim} : claim' = [claim EXCEPT ![p].groups = g]
  /\ UNCHANGED <<account, inFlight, seeding, device, minting>>

---------------------------------------------------------------------------
\* delete_user's checks: not the environment's admin, not an OIDC account.
DeleteChecks(r, u) ==
  /\ inFlight[r].at = "idle" /\ Used(u) /\ ~account[u].env /\ account[u].sub = NoClaim
  /\ inFlight' = [inFlight EXCEPT ![r] = [Idle EXCEPT !.at = "deleting", !.row = u]]
  /\ UNCHANGED <<account, claim, seeding, device, minting, used>>

\* Mutant: the row is deleted under a request that is minting a token for it.
DeleteRowUnlocked(r) ==
  LET u == inFlight[r].row
  IN /\ inFlight[r].at = "deleting"
     /\ account' = [account EXCEPT ![u] = NoAccount]
     /\ device' = [device EXCEPT ![u] = 0]
     /\ inFlight' = [inFlight EXCEPT ![r] = Idle]
     /\ UNCHANGED <<claim, seeding, minting, used>>

\* The DELETE waits for the row's lock and takes the row's device tokens with it.
DeleteRow(r) ==
  LET u == inFlight[r].row
  IN /\ inFlight[r].at = "deleting" /\ minting[u] = NoClaim
     /\ account' = [account EXCEPT ![u] = NoAccount]
     /\ device' = [device EXCEPT ![u] = 0]
     /\ inFlight' = [inFlight EXCEPT ![r] = Idle]
     /\ UNCHANGED <<claim, seeding, minting, used>>

\* update_user's checks, then its update: a role, or the email a sign-in links by.
EditChecks(r, u) ==
  /\ inFlight[r].at = "idle" /\ Used(u) /\ ~account[u].env
  /\ \E role \in {"admin", "member"}, e \in Emails \union {NoClaim} :
       inFlight' = [inFlight EXCEPT ![r] =
         [Idle EXCEPT !.at = "editing", !.row = u, !.role = role, !.email = e]]
  /\ UNCHANGED <<account, claim, seeding, device, minting, used>>

EditRow(r) ==
  LET u == inFlight[r].row
      taken == \E v \in Rows \ {u} : HasEmail(v, inFlight[r].email)
  IN /\ inFlight[r].at = "editing"
     /\ account' = IF ~Used(u) \/ taken THEN account
                   ELSE [account EXCEPT ![u].role = inFlight[r].role,
                          ![u].email = IF inFlight[r].email = NoClaim THEN @ ELSE inFlight[r].email]
     /\ inFlight' = [inFlight EXCEPT ![r] = Idle]
     /\ UNCHANGED <<claim, seeding, device, minting, used>>

\* create_device_token: the row is locked, and the live tokens are counted under it.
MintLocks(r, u) ==
  /\ inFlight[r].at = "idle" /\ Used(u) /\ minting[u] = NoClaim
  /\ device[u] < MaxDevices
  /\ minting' = [minting EXCEPT ![u] = r]
  /\ inFlight' = [inFlight EXCEPT ![r] = [Idle EXCEPT !.at = "minting", !.row = u]]
  /\ UNCHANGED <<account, claim, seeding, device, used>>

MintInserts(r) ==
  LET u == inFlight[r].row
  IN /\ inFlight[r].at = "minting"
     /\ device' = [device EXCEPT ![u] = @ + 1]
     /\ minting' = [minting EXCEPT ![u] = NoClaim]
     /\ inFlight' = [inFlight EXCEPT ![r] = Idle]
     /\ UNCHANGED <<account, claim, seeding, used>>

\* The owner revokes a device, or a token expires.
DeviceEnds(u) ==
  /\ device[u] > 0
  /\ device' = [device EXCEPT ![u] = @ - 1]
  /\ UNCHANGED <<account, claim, inFlight, seeding, minting, used>>

SeedStep(x) == SeedReads(x) \/ SeedCreates(x) \/ SeedUpdates(x)
RequestStep(r) ==
  \/ \E p \in People : ResolveIdentity(r, p)
  \/ MatchEmail(r) \/ Link(r) \/ Provision(r) \/ Refresh(r)
  \/ \E u \in Rows : DeleteChecks(r, u) \/ EditChecks(r, u) \/ MintLocks(r, u)
  \/ DeleteRow(r) \/ EditRow(r) \/ MintInserts(r)

AccountNext ==
  \/ \E x \in Replicas : SeedStep(x) \/ SeedFails(x)
  \/ \E r \in Requests : RequestStep(r)
  \/ \E p \in People : Regroup(p)
  \/ \E u \in Rows : DeviceEnds(u)

AccountSpec == AccountInit /\ [][AccountNext]_accountVars

---------------------------------------------------------------------------
\* The shape of the state; an unused row is blank.
AccountRecords ==
  [there : BOOLEAN, sub : People \union {NoClaim}, email : Emails \union {NoClaim, EnvEmail, "e1"},
   role : {"admin", "member"}, env : BOOLEAN]
RequestRecords ==
  [at : {"idle", "matching", "linking", "provisioning", "refreshing", "deleting", "editing", "minting"},
   who : People \union {NoClaim}, row : Rows \union {0}, role : {"admin", "member"},
   email : Emails \union {NoClaim}]
AccountTypeOK ==
  /\ account \in [Rows -> AccountRecords]
  /\ \A u \in Rows : Used(u) \/ account[u] = NoAccount
  /\ claim \in [People -> [email : Emails, verified : BOOLEAN, groups : {"admin", "member", NoClaim}]]
  /\ inFlight \in [Requests -> RequestRecords]
  /\ seeding \in [Replicas -> {"due", "creating", "retrying", "updating", "done", "gaveUp"}]
  /\ device \in [Rows -> Nat]
  /\ minting \in [Rows -> Requests \union {NoClaim}]
  /\ used \in [rows : Rows, upsets : 0..MaxUpsets]

\* The environment's admin is one row, always an admin, and there from the first seeding on that
\* was not given up: no edit, no deletion, no later seeding and no sign-in of its person with other
\* groups takes the household's operator away.
EnvAdminStays ==
  /\ \A u, v \in Rows : Used(u) /\ Used(v) /\ account[u].env /\ account[v].env => u = v
  /\ \A u \in Rows : Used(u) /\ account[u].env => account[u].role = "admin"
  /\ (\E x \in Replicas : seeding[x] = "done") => EnvAdminThere

\* A user never has more capture devices than the cap, and a deleted one has none.
DevicesAreOwned ==
  \A u \in Rows : device[u] <= MaxDevices /\ (~Used(u) => device[u] = 0)

\* What the store of accounts keeps.
AccountsSafe == AccountTypeOK /\ EnvAdminStays /\ DevicesAreOwned

=============================================================================
