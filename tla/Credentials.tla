---------------------------- MODULE Credentials ----------------------------
(***************************************************************************)
(* Users, the vault that holds the key of the user who logged in last, the *)
(* sites table with its encrypted credentials, and the registry of site    *)
(* adapters built from both (crates/server/src/state.rs, api/auth.rs,      *)
(* api/sites.rs; crates/core/src/crypto/vault.rs, site/registry.rs).       *)
(*                                                                         *)
(* Requests run concurrently.  Every await is a step of its own: each SQL  *)
(* statement, the vault's RwLock, the mutex of the registry's refresh, a   *)
(* call to a site or a downloader.  A statement may fail; the process may  *)
(* stop, which loses the vault and the registry and keeps the tables.      *)
(*                                                                         *)
(* A ciphertext is the key it was made with and the request that gave the  *)
(* plaintext: it can be read back with that key and no other.              *)
(***************************************************************************)
EXTENDS Naturals, FiniteSets

CONSTANTS
    User,         \* names that may be registered; each has a key of its own
    Site,         \* row ids of the sites table (AUTOINCREMENT: never reused)
    Actor,        \* slots for the requests and runs that are under way at once
    NoKey,        \* the vault is locked
    NoRow,        \* no such row
    MaxRequests,  \* bound on the requests and runs of a behaviour
    MaxFaults     \* bound on failing statements and restarts together

VARIABLES
    users,      \* registered users
    live,       \* users with a session row that has not expired
    vault,      \* the key in memory
    guards,     \* requests that hold the vault's read guard across a call
    writers,    \* requests that wait to write the vault
    rows,       \* the sites table
    deleted,    \* ids of deleted rows
    registry,   \* the adapters: each keeps the values it was built with
    refresher,  \* who holds site_registry_refresh
    req,        \* the requests
    used, faults,
    missed      \* history: a change of rows or vault was not followed by a refresh

vars == <<users, live, vault, guards, writers, rows, deleted, registry, refresher, req,
          used, faults, missed>>
tables == <<users, live, rows, deleted>>
bounds == <<used, faults>>

NoOne == 0          \* the mutex is free
Value == 0 .. MaxRequests
Blank == [key |-> NoKey, value |-> 0]
Secret == [key : User, value : Value] \cup {Blank}
Row == [cookie : Secret, passkey : Secret, url : Value, limits : Value,
        answered : BOOLEAN]   \* a probe's verdict or statistics are stored for it
Table == [Site -> Row \cup {NoRow}]

ASSUME BoundsAssumption ==
    /\ MaxRequests \in Nat /\ MaxFaults \in Nat
    /\ Actor \subseteq Nat \ {0}
    /\ User # {} /\ NoKey \notin User
    /\ NoRow \notin Row

Owner == CHOOSE u \in User : TRUE    \* names differ in nothing
Nothing == [s \in Site |-> NoRow]

Authed == {"logout", "create", "update", "delete", "ask", "test"}
Kind == Authed \cup {"none", "register", "login", "run"}
Pc == {"idle", "count", "insert", "find", "unlock", "write", "session", "logout",
       "vault", "store", "cleanup", "url", "limits", "row", "delete",
       "lock", "rvault", "rlist", "rswap", "handle", "call", "guard", "network",
       "snapregistry", "snapvault", "taken"}

Fresh == [kind |-> "none", pc |-> "idle", n |-> 0, user |-> NoKey, site |-> NoRow,
          cookie |-> FALSE, passkey |-> FALSE, key |-> NoKey, row |-> NoRow,
          list |-> Nothing, seen |-> NoKey]

Request ==
    [kind : Kind, pc : Pc, n : Value, user : User \cup {NoKey}, site : Site \cup {NoRow},
     cookie : BOOLEAN, passkey : BOOLEAN, key : User \cup {NoKey}, row : Row \cup {NoRow},
     list : Table,
     seen : User \cup {NoKey}]   \* history: the key that the list of a run is up to

TypeOK ==
    /\ users \subseteq User /\ live \subseteq users
    /\ vault \in User \cup {NoKey}
    /\ guards \subseteq Actor /\ writers \subseteq Actor
    /\ rows \in Table /\ registry \in Table /\ deleted \subseteq Site
    /\ refresher \in Actor \cup {NoOne}
    /\ req \in [Actor -> Request]
    /\ used \in 0 .. MaxRequests /\ faults \in 0 .. MaxFaults
    /\ missed \in BOOLEAN

-----------------------------------------------------------------------------
(* Helpers.                                                                *)

At(a, pc) == req[a].pc = pc
Set(a, q) == req' = [req EXCEPT ![a] = q]
Goto(a, pc) == Set(a, [req[a] EXCEPT !.pc = pc])

\* The request is answered.
Answer(a) == Set(a, Fresh)

\* What a handler has at hand when it comes to the refresh is not used again.
GotoRefresh(a) ==
    Set(a, [Fresh EXCEPT !.kind = req[a].kind, !.site = req[a].site, !.pc = "lock"])

\* A statement on the pool fails.
Fault == faults < MaxFaults /\ faults' = faults + 1

\* encrypt_optional: nothing is stored for a blank field.
Encrypted(key, given, n) == IF given THEN [key |-> key, value |-> n] ELSE Blank

\* decrypt_credential: a credential that is not set needs no key.
Readable(key, secret) == secret = Blank \/ secret.key = key

\* The rows a refresh registers: a site with a credential that cannot be read
\* is skipped, its neighbours are not.
Registrable(key, table) ==
    [s \in Site |->
        IF table[s] # NoRow /\ key # NoKey
               /\ Readable(key, table[s].cookie) /\ Readable(key, table[s].passkey)
        THEN [table[s] EXCEPT !.answered = FALSE] ELSE NoRow]

\* Everything in the table can be read with the key.
Legible(key, table) ==
    \A s \in Site : table[s] # NoRow =>
        Readable(key, table[s].cookie) /\ Readable(key, table[s].passkey)

\* The request has put a key into the vault and has its refresh to come, or a
\* refresh is under way.
Rekeying(q) ==
    \/ q.pc \in {"session", "rvault", "rlist", "rswap"}
    \/ q.pc = "lock" /\ q.kind \in {"register", "login"}

\* The registry has been built for the key in the vault, or should have been.
Settled == ~missed /\ \A a \in Actor : ~Rekeying(req[a])

\* tokio's RwLock is fair: a waiting writer holds back later readers.
VaultReadable == writers = {}

-----------------------------------------------------------------------------
(* Registration and login.                                                 *)

FirstPc(kind) ==
    CASE kind = "register" -> "count"
      [] kind = "login" -> "find"
      [] kind = "logout" -> "logout"
      [] kind \in {"create", "update"} -> "vault"
      [] kind = "delete" -> "delete"
      [] kind = "ask" -> "handle"
      [] kind = "test" -> "guard"
      [] kind = "run" -> "snapregistry"

Begun(kind, n, u, s, c, p) ==
    [Fresh EXCEPT !.kind = kind, !.n = n, !.user = u, !.site = s,
                  !.cookie = c, !.passkey = p, !.pc = FirstPc(kind)]

\* require_auth has let the request in; the scheduler needs no session.  The
\* kind "ask" is a probe or a refresh of the statistics.
Begin(a) ==
    /\ At(a, "idle")
    /\ \A b \in Actor : b < a => ~At(b, "idle")   \* slots differ in nothing but their number
    /\ used < MaxRequests
    /\ used' = used + 1
    /\ \E kind \in Kind \ {"none"}, u \in User, s \in Site, c \in BOOLEAN, p \in BOOLEAN :
          /\ kind \in Authed => live # {}
          /\ u = Owner \/ kind \in {"register", "login", "logout"}
          /\ kind \in {"update", "delete", "ask"} => rows[s] # NoRow
          /\ s = (CHOOSE t \in Site : TRUE) \/ kind \in {"update", "delete", "ask"}
          /\ kind = "create" => c = p
          /\ kind = "update" => ~(c /\ p)
          /\ kind \notin {"create", "update"} => ~c /\ ~p
          /\ Set(a, Begun(kind, used', u, s, c, p))
    /\ UNCHANGED <<tables, vault, guards, writers, registry, refresher, faults, missed>>

\* Fault: the vault is opened before the user is stored.
CountUsersAndUnlock(a) ==
    /\ At(a, "count")
    /\ IF users = {} THEN Goto(a, "insert") /\ vault' = req[a].user
       ELSE Answer(a) /\ UNCHANGED vault
    /\ UNCHANGED <<tables, guards, writers, registry, refresher, bounds, missed>>

\* SELECT COUNT(*): only an installation without a user takes one.
CountUsers(a) ==
    /\ At(a, "count")
    /\ IF users = {} THEN Goto(a, "insert") ELSE Answer(a)
    /\ UNCHANGED <<tables, vault, guards, writers, registry, refresher, bounds, missed>>

\* create_user: the name is UNIQUE.
InsertUser(a) ==
    /\ At(a, "insert") /\ req[a].kind = "register"
    /\ \/ /\ req[a].user \notin users
          /\ users' = users \cup {req[a].user}
          /\ Goto(a, "unlock")
          /\ UNCHANGED faults
       \/ /\ req[a].user \in users
          /\ Answer(a)
          /\ UNCHANGED <<users, faults>>
       \/ Fault /\ Answer(a) /\ UNCHANGED users
    /\ UNCHANGED <<live, rows, deleted, vault, guards, writers, registry, refresher, used,
                   missed>>

\* find_user_by_username and Vault::unlock.
FindUser(a) ==
    /\ At(a, "find")
    /\ IF req[a].user \in users THEN Goto(a, "unlock") ELSE Answer(a)
    /\ UNCHANGED <<tables, vault, guards, writers, registry, refresher, bounds, missed>>

\* vault.write().await: the request takes its place before the lock is free.
AwaitVault(a) ==
    /\ At(a, "unlock")
    /\ writers' = writers \cup {a}
    /\ Goto(a, "write")
    /\ UNCHANGED <<tables, vault, guards, registry, refresher, bounds, missed>>

Unlock(a) ==
    /\ At(a, "write")
    /\ guards = {}
    /\ vault' = req[a].user
    /\ writers' = writers \ {a}
    /\ Goto(a, "session")
    /\ UNCHANGED <<tables, guards, registry, refresher, bounds, missed>>

\* create_session: when it fails the answer is 500, and the vault stays
\* unlocked without a refresh.
CreateSession(a) ==
    /\ At(a, "session")
    /\ \/ /\ live' = live \cup {req[a].user}
          /\ GotoRefresh(a)
          /\ UNCHANGED <<faults, missed>>
       \/ /\ Fault
          /\ missed' = TRUE
          /\ Answer(a)
          /\ UNCHANGED live
    /\ UNCHANGED <<users, rows, deleted, vault, guards, writers, registry, refresher, used>>

\* logout, and resolve_session on a session past its time to live: the row is
\* deleted, at best.
Logout(a) ==
    /\ At(a, "logout")
    /\ live' \in {live, live \ {req[a].user}}
    /\ Answer(a)
    /\ UNCHANGED <<users, rows, deleted, vault, guards, writers, registry, refresher, bounds, missed>>

-----------------------------------------------------------------------------
(* The sites table.                                                        *)

\* The statements.
InsertedSite(n) ==
    [cookie |-> Blank, passkey |-> Blank, url |-> n, limits |-> n,
     answered |-> FALSE]

\* An UPDATE of a row that is gone changes nothing.
Updated(s, row) == rows' = IF rows[s] = NoRow THEN rows ELSE [rows EXCEPT ![s] = row]

WithCredentials(row, cookie, passkey) ==
    IF row = NoRow THEN NoRow ELSE [row EXCEPT !.cookie = cookie, !.passkey = passkey]

\* create_site and update_site copy the vault first; 403 when it is locked.
CopyVault(a) ==
    /\ At(a, "vault")
    /\ VaultReadable
    /\ IF vault = NoKey THEN Answer(a)
       ELSE Set(a, [req[a] EXCEPT !.key = vault,
                               !.pc = IF req[a].kind = "create" THEN "insert" ELSE "url"])
    /\ UNCHANGED <<tables, vault, guards, writers, registry, refresher, bounds, missed>>

InsertSite(a) ==
    /\ At(a, "insert") /\ req[a].kind = "create"
    /\ \/ /\ \E s \in Site :
                /\ rows[s] = NoRow /\ s \notin deleted
                /\ rows' = [rows EXCEPT ![s] = InsertedSite(req[a].n)]
                /\ Set(a, [req[a] EXCEPT !.site = s, !.pc = "store"])
          /\ UNCHANGED faults
       \/ Fault /\ Answer(a) /\ UNCHANGED rows
       \/ /\ \A s \in Site : rows[s] # NoRow \/ s \in deleted   \* bound of the model
          /\ Answer(a)
          /\ UNCHANGED <<rows, faults>>
    /\ UNCHANGED <<users, live, deleted, vault, guards, writers, registry, refresher, used,
                   missed>>

\* The credentials of a new site; when they cannot be stored the row is
\* deleted again.
StoreNew(a) ==
    /\ At(a, "store") /\ req[a].kind = "create"
    /\ LET s == req[a].site
           q == req[a]
       IN  \/ /\ Updated(s, WithCredentials(rows[s], Encrypted(q.key, q.cookie, q.n),
                                                     Encrypted(q.key, q.passkey, q.n)))
              /\ GotoRefresh(a)
              /\ UNCHANGED faults
           \/ Fault /\ Goto(a, "cleanup") /\ UNCHANGED rows
    /\ UNCHANGED <<users, live, deleted, vault, guards, writers, registry, refresher, used,
                   missed>>

\* The best effort: the outcome is not looked at, and nothing is refreshed.
CleanUp(a) ==
    /\ At(a, "cleanup")
    /\ Answer(a)
    /\ \/ /\ rows' = [rows EXCEPT ![req[a].site] = NoRow]
          /\ deleted' = deleted \cup {req[a].site}
          /\ UNCHANGED faults
       \/ Fault /\ UNCHANGED <<rows, deleted>>
    /\ missed' = TRUE
    /\ UNCHANGED <<users, live, vault, guards, writers, registry, refresher, used>>

UpdateUrl(a) ==
    /\ At(a, "url")
    /\ LET s == req[a].site
       IN  \/ /\ Updated(s, IF rows[s] = NoRow THEN NoRow ELSE [rows[s] EXCEPT !.url = req[a].n])
              /\ Goto(a, "limits")
              /\ UNCHANGED faults
           \/ Fault /\ Answer(a) /\ UNCHANGED rows
    /\ UNCHANGED <<users, live, deleted, vault, guards, writers, registry, refresher, used,
                   missed>>

\* update_site_rate_limits; an error leaves the new url and no refresh.
UpdateLimits(a) ==
    /\ At(a, "limits")
    /\ LET s == req[a].site
           q == req[a]
       IN  \/ /\ Updated(s, IF rows[s] = NoRow THEN NoRow ELSE [rows[s] EXCEPT !.limits = q.n])
              /\ IF q.cookie \/ q.passkey THEN Goto(a, "row") ELSE GotoRefresh(a)
              /\ UNCHANGED <<faults, missed>>
           \/ Fault /\ Answer(a) /\ missed' = TRUE /\ UNCHANGED rows
    /\ UNCHANGED <<users, live, deleted, vault, guards, writers, registry, refresher, used>>

\* The row whose stored credentials stand in for blank fields.
ReadRow(a) ==
    /\ At(a, "row")
    /\ \/ /\ rows[req[a].site] # NoRow
          /\ Set(a, [req[a] EXCEPT !.row = rows[req[a].site], !.pc = "store"])
          /\ UNCHANGED <<faults, missed>>
       \/ /\ rows[req[a].site] = NoRow
          /\ Answer(a)
          /\ UNCHANGED <<faults, missed>>
       \/ Fault /\ Answer(a) /\ missed' = TRUE
    /\ UNCHANGED <<tables, vault, guards, writers, registry, refresher, used>>

\* All credentials are written, the blank ones as they were read.
StoreUpdate(a) ==
    /\ At(a, "store") /\ req[a].kind = "update"
    /\ LET s == req[a].site
           q == req[a]
       IN  \/ /\ Updated(s, WithCredentials(rows[s],
                        IF q.cookie THEN Encrypted(q.key, TRUE, q.n) ELSE q.row.cookie,
                        IF q.passkey THEN Encrypted(q.key, TRUE, q.n) ELSE q.row.passkey))
              /\ GotoRefresh(a)
              /\ UNCHANGED <<faults, missed>>
           \/ Fault /\ Answer(a) /\ missed' = TRUE /\ UNCHANGED rows
    /\ UNCHANGED <<users, live, deleted, vault, guards, writers, registry, refresher, used>>

DeleteSite(a) ==
    /\ At(a, "delete")
    /\ \/ /\ rows' = [rows EXCEPT ![req[a].site] = NoRow]
          /\ deleted' = deleted \cup {req[a].site}
          /\ GotoRefresh(a)
          /\ UNCHANGED faults
       \/ Fault /\ Answer(a) /\ UNCHANGED <<rows, deleted>>
    /\ UNCHANGED <<users, live, vault, guards, writers, registry, refresher, used, missed>>

-----------------------------------------------------------------------------
(* refresh_site_registry.                                                  *)

\* What follows the refresh: a new site's statistics are fetched.
AfterRefresh(a) ==
    IF req[a].kind = "create"
    THEN Set(a, [req[a] EXCEPT !.key = NoKey, !.list = Nothing, !.pc = "handle"])
    ELSE Answer(a)

\* Fault: refreshes are not serialised.
LockRefreshNot(a) ==
    /\ At(a, "lock")
    /\ missed' = FALSE
    /\ Goto(a, "rvault")
    /\ UNCHANGED <<tables, vault, guards, writers, registry, refresher, bounds>>

LockRefresh(a) ==
    /\ At(a, "lock")
    /\ refresher = NoOne
    /\ refresher' = a
    /\ missed' = FALSE
    /\ Goto(a, "rvault")
    /\ UNCHANGED <<tables, vault, guards, writers, registry, bounds>>

\* A locked vault leaves the registry as it is.
RefreshVault(a) ==
    /\ At(a, "rvault")
    /\ VaultReadable
    /\ IF vault = NoKey
       THEN AfterRefresh(a) /\ refresher' = NoOne
       ELSE /\ Set(a, [req[a] EXCEPT !.key = vault, !.pc = "rlist"])
            /\ UNCHANGED refresher
    /\ UNCHANGED <<tables, vault, guards, writers, registry, bounds, missed>>

RefreshList(a) ==
    /\ At(a, "rlist")
    /\ \/ /\ Set(a, [req[a] EXCEPT !.list = rows, !.pc = "rswap"])
          /\ UNCHANGED <<refresher, faults, missed>>
       \/ Fault /\ AfterRefresh(a) /\ refresher' = NoOne /\ missed' = TRUE
    /\ UNCHANGED <<tables, vault, guards, writers, registry, used>>

RefreshSwap(a) ==
    /\ At(a, "rswap")
    /\ registry' = Registrable(req[a].key, req[a].list)
    /\ refresher' = NoOne
    /\ AfterRefresh(a)
    /\ UNCHANGED <<tables, vault, guards, writers, bounds, missed>>

-----------------------------------------------------------------------------
(* Requests that use what the others maintain.                             *)

\* probe_site_handler, refresh_stats_handler and the fetch after create_site
\* take an adapter from the registry; 409 when there is none.
TakeHandle(a) ==
    /\ At(a, "handle")
    /\ IF registry[req[a].site] = NoRow THEN Answer(a) ELSE Goto(a, "call")
    /\ UNCHANGED <<tables, vault, guards, writers, registry, refresher, bounds, missed>>

\* The site has answered: update_probe_status, or insert_user_stats, whose
\* foreign key refuses a site that is gone.
StoreAnswer(a) ==
    /\ At(a, "call")
    /\ LET s == req[a].site
       IN  \/ Updated(s, IF rows[s] = NoRow THEN NoRow ELSE [rows[s] EXCEPT !.answered = TRUE])
           \/ UNCHANGED rows
    /\ Answer(a)
    /\ UNCHANGED <<users, live, deleted, vault, guards, writers, registry, refresher, bounds, missed>>

\* test_downloader_handler keeps the read guard until the downloader has
\* answered.
TakeGuard(a) ==
    /\ At(a, "guard")
    /\ VaultReadable
    /\ IF vault = NoKey THEN Answer(a) /\ UNCHANGED guards
       ELSE guards' = guards \cup {a} /\ Goto(a, "network")
    /\ UNCHANGED <<tables, vault, writers, registry, refresher, bounds, missed>>

\* Fault: the vault is read again under the guard.
ReleaseGuardAfterReading(a) ==
    /\ At(a, "network")
    /\ VaultReadable
    /\ guards' = guards \ {a}
    /\ Answer(a)
    /\ UNCHANGED <<tables, vault, writers, registry, refresher, bounds, missed>>

ReleaseGuard(a) ==
    /\ At(a, "network")
    /\ guards' = guards \ {a}
    /\ Answer(a)
    /\ UNCHANGED <<tables, vault, writers, registry, refresher, bounds, missed>>

\* task_executor: a run takes the registry, then the key.
TakeRegistry(a) ==
    /\ At(a, "snapregistry")
    /\ Set(a, [req[a] EXCEPT !.list = registry, !.pc = "snapvault",
                              !.seen = IF Settled THEN vault ELSE NoKey])
    /\ UNCHANGED <<tables, vault, guards, writers, registry, refresher, bounds, missed>>

TakeVault(a) ==
    /\ At(a, "snapvault")
    /\ VaultReadable
    /\ Set(a, [req[a] EXCEPT !.key = vault, !.pc = "taken"])
    /\ UNCHANGED <<tables, vault, guards, writers, registry, refresher, bounds, missed>>

\* The run goes on with what it has taken.
StartRun(a) ==
    /\ At(a, "taken")
    /\ Answer(a)
    /\ UNCHANGED <<tables, vault, guards, writers, registry, refresher, bounds, missed>>

\* The process stops and starts: AppState::new.
Restart ==
    /\ Fault
    /\ vault' = NoKey /\ guards' = {} /\ writers' = {}
    /\ registry' = Nothing
    /\ refresher' = NoOne
    /\ req' = [a \in Actor |-> Fresh]
    /\ missed' = FALSE
    /\ UNCHANGED <<tables, used>>

-----------------------------------------------------------------------------

\* A new installation, or one that has been used: its owner has registered,
\* may have added a site, and is logged in or has restarted since.  Or all have
\* registered at once: each request counted the users before any was stored.
Init ==
    /\ users \in {{}, {Owner}, User}
    /\ live = users
    /\ vault \in users \cup {NoKey}
    /\ rows \in {Nothing} \cup
          {[Nothing EXCEPT ![s] = [InsertedSite(0) EXCEPT !.cookie = [key |-> u, value |-> 0]]] :
              s \in Site, u \in users}
    /\ deleted = {}
    /\ registry = Registrable(vault, rows)
    /\ guards = {} /\ writers = {}
    /\ refresher = NoOne
    /\ req = [a \in Actor |-> Fresh]
    /\ used = 0 /\ faults = 0
    /\ missed = FALSE

Proceed(a) ==
    \/ CountUsers(a) \/ InsertUser(a) \/ FindUser(a) \/ AwaitVault(a) \/ Unlock(a)
    \/ CreateSession(a) \/ Logout(a)
    \/ CopyVault(a) \/ InsertSite(a) \/ StoreNew(a) \/ CleanUp(a)
    \/ UpdateUrl(a) \/ UpdateLimits(a) \/ ReadRow(a) \/ StoreUpdate(a) \/ DeleteSite(a)
    \/ LockRefresh(a) \/ RefreshVault(a) \/ RefreshList(a) \/ RefreshSwap(a)
    \/ TakeHandle(a) \/ StoreAnswer(a) \/ TakeGuard(a) \/ ReleaseGuard(a)
    \/ TakeRegistry(a) \/ TakeVault(a) \/ StartRun(a)

Next ==
    \/ \E a \in Actor : Begin(a) \/ Proceed(a)
    \/ Restart

Spec == Init /\ [][Next]_vars

\* The runtime polls some task that can go on, and the calls that hold the
\* vault's guard end by their own timeouts.  It is fair to each of them, which
\* behaviours of a bounded number of requests do not need.
Fairness == WF_vars(\E a \in Actor : Proceed(a))

FairSpec == Spec /\ Fairness

-----------------------------------------------------------------------------
(* Properties.                                                             *)

Changing(a) ==
    /\ req[a].kind \in {"register", "login", "create", "update", "delete"}
    /\ req[a].pc \notin {"idle", "handle", "call"}

\* Once the requests that change sites or the vault have been answered, the
\* adapters are built from the rows as they are and with the key in the
\* vault, unless a failing statement has kept a change from its refresh.
RegistryFollowsRows ==
    ((\A a \in Actor : ~Changing(a)) /\ ~missed) => registry = Registrable(vault, rows)

\* The key in the vault, and every key that something is stored under, is a
\* registered user's: after a restart its owner can unlock it again.
StoredIsRecoverable ==
    /\ vault \in users \cup {NoKey}
    /\ \A s \in Site : rows[s] # NoRow =>
          \A c \in {rows[s].cookie, rows[s].passkey} : c # Blank => c.key \in users

\* A run that has adapters to query also has a key: it does not fail on its
\* downloader's password in the middle of a login.  And the key reads what the
\* adapters were built from, unless a login of another user came between the
\* two reads of the run, or a refresh was under way, failed, or owed by a login
\* at the first: no earlier refresh or edit leaves adapters of an older key.
RunHasTheKey ==
    \A a \in Actor :
        (At(a, "taken") /\ req[a].list # Nothing) =>
            /\ req[a].key # NoKey
            /\ req[a].key = req[a].seen => Legible(req[a].key, req[a].list)

\* Every request is answered: no lock is kept, and none is waited for in a
\* circle.
RequestsEnd == \A a \in Actor : ~At(a, "idle") ~> At(a, "idle")
=============================================================================
