------------------------------- MODULE Usernames -------------------------------
(***************************************************************************)
(* The names people sign in with, over a database that holds accounts of   *)
(* older releases (auth/users.py, sql_users.py).  A new name is stored     *)
(* normalized, an old one as it was typed then: padded, in other case, in  *)
(* a compatibility form.  Replicas index and strip the old names as they   *)
(* boot, while others serve; every statement of a request is a step.       *)
(***************************************************************************)
EXTENDS Integers, FiniteSets

CONSTANTS
  Booters,      \* replicas
  Namers,       \* requests that create or rename an account
  LegacyNames,  \* sets of names an older release may have left
  MaxAccounts,  \* bound: rows ever made
  MaxNamings    \* bound: creations and renames

\* Names of one person's name: every way to spell it that some step tells apart.
Names == [upper : BOOLEAN, pad : {"none", "ascii", "other"}, wide : BOOLEAN]
Unnamed == [upper |-> FALSE, pad |-> "gone", wide |-> FALSE]

Stripped(n) == [n EXCEPT !.pad = "none"]
Lower(n) == [n EXCEPT !.upper = FALSE]

\* normalize_username: NFKC, then str.strip().
Normalized(n) == [Stripped(n) EXCEPT !.wide = FALSE]

\* _USERNAME_KEY: the database trims only the ASCII padding.
Key(n) == Lower(IF n.pad = "ascii" THEN Stripped(n) ELSE n)

ASSUME NameBounds ==
  /\ MaxAccounts \in Nat /\ MaxNamings \in Nat
  \* no two old names differ in case alone: the older index on it can be made
  /\ \A old \in LegacyNames :
       /\ old \subseteq Names /\ Cardinality(old) <= MaxAccounts
       /\ \A m, n \in old : Lower(m) = Lower(n) => m = n

VARIABLES
  nameOf,     \* row -> username, rows numbered by age
  nameIndex,  \* none; "case", the fallback; or "norm", users_username_norm_idx
  boot,       \* replica -> where its _ensure_schema is, the names it read, the rows still to strip
  naming,     \* request -> where it is
  namings

nameVars == <<nameOf, nameIndex, boot, naming, namings>>

Accounted == 1..MaxAccounts
Named == {u \in Accounted : nameOf[u] # Unnamed}
NotNaming == [at |-> "idle", row |-> 0, name |-> Unnamed]

NamesInit ==
  /\ \E old \in LegacyNames : nameOf \in
       {f \in [Accounted -> old \cup {Unnamed}] :
          /\ \A n \in old : \E u \in Accounted : f[u] = n
          /\ \A u \in Accounted : f[u] = Unnamed <=> u > Cardinality(old)}
  /\ nameIndex = "none"
  /\ boot = [p \in Booters |-> [at |-> "down", read |-> nameOf, todo |-> {}]]
  /\ naming = [r \in Namers |-> NotNaming] /\ namings = 0

-----------------------------------------------------------------------------

\* Mutant: only the very name is looked for.
NameTakenAsTyped(n, own) == \E u \in Named \ {own} : nameOf[u] = n

\* Another row has the key of a name that is to be stored.
NameTaken(n, own) == \E u \in Named \ {own} : Key(nameOf[u]) = Lower(n)

\* What the table refuses: the very name, or one equal under the index it has.
Violates(n, own) == \E u \in Named \ {own} :
  \/ nameOf[u] = n
  \/ nameIndex = "case" /\ Lower(nameOf[u]) = Lower(n)
  \/ nameIndex = "norm" /\ Key(nameOf[u]) = Key(n)

\* get_by_username: the row whose key is that of the name as typed or normalized; where old
\* duplicates are left, the exact one, else the typed key's, else the oldest.
LoginCandidates(n) == {u \in Named : Key(nameOf[u]) \in {Lower(Stripped(n)), Lower(Normalized(n))}}
Preferred(u, v, typed) ==
  LET exact(w) == nameOf[w] = typed
      near(w) == Key(nameOf[w]) = Lower(typed)
  IN \/ exact(u) /\ ~exact(v)
     \/ exact(u) = exact(v) /\ near(u) /\ ~near(v)
     \/ exact(u) = exact(v) /\ near(u) = near(v) /\ u < v
Login(n) ==
  IF LoginCandidates(n) = {} THEN 0
  ELSE CHOOSE u \in LoginCandidates(n) :
         \A v \in LoginCandidates(n) \ {u} : Preferred(u, v, Stripped(n))

\* The in-memory store's, by its index of stripped names.
MemoryLogin(n) ==
  LET under(key) == {u \in Named : Lower(Stripped(nameOf[u])) = key}
      typed == under(Lower(Stripped(n)))
      found == IF typed # {} THEN typed ELSE under(Lower(Normalized(n)))
  IN IF found = {} THEN 0 ELSE CHOOSE u \in found : TRUE

-----------------------------------------------------------------------------
(* Boot                                                                     *)

\* The DDL, under the schema lock: the index on keys, where no duplicate is in its way; else the
\* one on case.
BuildIndex(p) ==
  /\ boot[p].at = "down"
  /\ boot' = [boot EXCEPT ![p].at = "indexed"]
  /\ nameIndex' = IF \A u, v \in Named : Key(nameOf[u]) = Key(nameOf[v]) => u = v THEN "norm"
                  ELSE IF \A u, v \in Named : Lower(nameOf[u]) = Lower(nameOf[v]) => u = v
                       THEN "case" ELSE nameIndex
  /\ UNCHANGED <<nameOf, naming, namings>>

Serving(p) == boot[p].at = "serving"

\* _strip_padded_usernames, under the schema lock: the names are read once, and the padded ones
\* stripped one by one, each in a transaction of its own.
StripReads(p) ==
  /\ boot[p].at = "indexed" /\ \A q \in Booters : boot[q].at \notin {"stripping", "strips"}
  /\ boot' = [boot EXCEPT ![p] = [at |-> "stripping", read |-> nameOf,
                                 todo |-> {u \in Named : nameOf[u].pad # "none"}]]
  /\ UNCHANGED <<nameOf, nameIndex, naming, namings>>

NextPadded(p) == CHOOSE u \in boot[p].todo : \A v \in boot[p].todo : u <= v
ToStrip(p) == Stripped(boot[p].read[NextPadded(p)])

\* Skipped where the stripped name is another row's key.
StripChecks(p) ==
  /\ boot[p].at = "stripping" /\ boot[p].todo # {}
  /\ boot' = [boot EXCEPT ![p] = IF NameTaken(ToStrip(p), NextPadded(p))
                                THEN [boot[p] EXCEPT !.todo = @ \ {NextPadded(p)}]
                                ELSE [boot[p] EXCEPT !.at = "strips"]]
  /\ UNCHANGED <<nameOf, nameIndex, naming, namings>>

StripWrites(p) ==
  LET u == NextPadded(p) IN
  /\ boot[p].at = "strips"
  /\ boot' = [boot EXCEPT ![p].at = "stripping", ![p].todo = @ \ {u}]
  /\ nameOf' = IF u \in Named /\ ~Violates(ToStrip(p), u)
               THEN [nameOf EXCEPT ![u] = ToStrip(p)] ELSE nameOf
  /\ UNCHANGED <<nameIndex, naming, namings>>

\* All are stripped, or left as they are: the replica serves.
BootEnds(p) ==
  /\ boot[p].at = "stripping" /\ boot[p].todo = {}
  /\ boot' = [boot EXCEPT ![p].at = "serving"]
  /\ UNCHANGED <<nameOf, nameIndex, naming, namings>>

-----------------------------------------------------------------------------
(* Requests                                                                 *)

Asked(r, own, n) ==
  /\ naming[r] = NotNaming /\ namings < MaxNamings /\ \E p \in Booters : Serving(p)
  /\ namings' = namings + 1
  /\ naming' = [naming EXCEPT ![r] = [at |-> "checking", row |-> own, name |-> Normalized(n)]]
  /\ UNCHANGED <<nameOf, nameIndex, boot>>

AskCreate(r, n) == Asked(r, 0, n)

\* renamed_username: the name that is there already is not validated again.
AskRename(r, u, n) == u \in Named /\ Stripped(n) # nameOf[u] /\ Asked(r, u, n)

CheckName(r) ==
  /\ naming[r].at = "checking"
  /\ naming' = [naming EXCEPT ![r] = IF NameTaken(naming[r].name, naming[r].row) THEN NotNaming
                                     ELSE [@ EXCEPT !.at = "writing"]]
  /\ UNCHANGED <<nameOf, nameIndex, boot, namings>>

\* The INSERT or UPDATE: a duplicate, or a row that is gone, is an error to the caller.
WriteName(r) ==
  LET own == naming[r].row
      n == naming[r].name
      free == {u \in Accounted : \A v \in Accounted : v >= u => nameOf[v] = Unnamed}
  IN /\ naming[r].at = "writing" /\ naming' = [naming EXCEPT ![r] = NotNaming]
     /\ \/ (Violates(n, own) \/ (own # 0 /\ own \notin Named)) /\ UNCHANGED nameOf
        \/ ~Violates(n, own) /\ own \in Named /\ nameOf' = [nameOf EXCEPT ![own] = n]
        \/ /\ ~Violates(n, own) /\ own = 0 /\ free # {}
           /\ nameOf' = [nameOf EXCEPT ![CHOOSE u \in free : \A v \in free : u <= v] = n]
     /\ UNCHANGED <<nameIndex, boot, namings>>

DeleteAccount(u) ==
  /\ u \in Named /\ \E p \in Booters : Serving(p)
  /\ nameOf' = [nameOf EXCEPT ![u] = Unnamed]
  /\ UNCHANGED <<nameIndex, boot, naming, namings>>

NamesNext ==
  \/ \E p \in Booters : BuildIndex(p) \/ StripReads(p) \/ StripChecks(p) \/ StripWrites(p) \/ BootEnds(p)
  \/ \E r \in Namers : \/ CheckName(r) \/ WriteName(r)
                       \/ \E n \in Names : AskCreate(r, n) \/ \E u \in Accounted : AskRename(r, u, n)
  \/ \E u \in Accounted : DeleteAccount(u)

-----------------------------------------------------------------------------

\* A name that signs somebody in goes on signing that account in, until the account itself is
\* renamed or deleted: no account made or renamed beside it takes the name over.  Only an old
\* account that gets its padding stripped takes back its own spelling, from an account that
\* answered to it in normalized form.
LoginKept ==
  \A n \in Names : LET u == Login(n)
                       v == Login(n)'
                   IN u # 0 /\ nameOf'[u] = nameOf[u] =>
    \/ v = u
    \/ /\ nameOf[v].pad = "other" /\ nameOf'[v] = Stripped(nameOf[v])
       /\ Lower(nameOf'[v]) = Lower(Stripped(n)) /\ Lower(nameOf[u]) # Lower(Stripped(n))

\* Where the index on keys is in place and no padding is left that it does not see, both stores
\* sign every name in alike.
LoginsAgree ==
  nameIndex = "norm" /\ (\A u \in Named : nameOf[u].pad # "other") =>
    \A n \in Names : Login(n) = MemoryLogin(n)

\* What a name signs in is settled by whoever had it first.
LoginsStay == [][LoginKept]_nameVars /\ []LoginsAgree
=============================================================================
