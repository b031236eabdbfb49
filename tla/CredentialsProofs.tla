------------------------- MODULE CredentialsProofs -------------------------
(***************************************************************************)
(* The vault, the sites table and the registry, for any users, sites,      *)
(* requests and faults.                                                    *)
(*                                                                         *)
(* RegistryFollowsRows speaks of the moment when no change is under way.   *)
(* What holds at every moment is that a registry behind the rows is        *)
(* Caught: by a request that still has its refresh to come (Pending), by   *)
(* the refresh that has read what is there now, or by the fault that       *)
(* "missed" records.  A registry of another key than the vault's is        *)
(* KeyCaught in the same way, but edits cannot bring one about.            *)
(***************************************************************************)
EXTENDS Credentials, TLAPS

Changers == {"register", "login", "create", "update", "delete"}
ChangerPc == {"count", "find", "insert", "unlock", "write", "session", "vault", "store",
              "cleanup", "url", "limits", "row", "delete", "lock", "rvault", "rlist", "rswap"}
Refreshing == {"rvault", "rlist", "rswap"}
Logins == {"register", "login"}

SafeRow(r, us) == \A c \in {r.cookie, r.passkey} : c # Blank => c.key \in us

\* What a request knows at its step, when the users are us and the vault v.
Sound(q, us, v) ==
    /\ q.pc # "idle" => q.site \in Site
    /\ q.pc \in ChangerPc => q.kind \in Changers
    /\ q.pc = "count" => q.kind = "register"
    /\ q.pc \in {"find", "unlock", "write", "session"} => q.kind \in Logins
    /\ q.pc \in {"count", "find", "insert", "vault"} => q.user \in User
    /\ q.pc \in {"unlock", "write", "session"} => q.user \in us
    /\ \/ q.pc \in {"url", "limits", "row", "rlist", "rswap"}
       \/ q.pc \in {"insert", "store"} /\ q.kind # "register"
       => q.key \in us
    /\ (q.pc = "store" /\ q.kind = "update") => (q.row \in Row /\ SafeRow(q.row, us))
    /\ q.pc \in {"rlist", "rswap"} => v # NoKey
    /\ (q.pc = "snapvault" /\ q.list # Nothing) => v # NoKey
    /\ (q.pc = "taken" /\ q.list # Nothing) => q.key # NoKey
    /\ (q.pc \in {"snapvault", "taken"} /\ q.seen # NoKey) => Legible(q.seen, q.list)

RequestsSound == \A a \in Actor : Sound(req[a], users, vault)

AdaptersNeedAKey == registry # Nothing => vault # NoKey

OneRefresher == \A a \in Actor : req[a].pc \in Refreshing <=> refresher = a

\* The request will refresh the registry, or record that it could not.
Pending(q, table) ==
    \/ q.pc \in {"session", "cleanup", "lock", "rvault"}
    \/ q.pc \in {"limits", "row", "store"} /\ table[q.site] # NoRow

UpToDate(q) ==
    \/ q.pc = "rlist" /\ q.key = vault
    \/ q.pc = "rswap" /\ Registrable(q.key, q.list) = Registrable(vault, rows)

Caught ==
    \/ missed
    \/ \E a \in Actor : Pending(req[a], rows)
    \/ \E a \in Actor : UpToDate(req[a])
    \/ /\ \A a \in Actor : req[a].pc \notin {"rlist", "rswap"}
       /\ registry = Registrable(vault, rows)

\* The request will refresh the registry with the key that is in the vault then.
OwesKey(q) == q.pc \in {"session", "rvault"} \/ (q.pc = "lock" /\ q.kind \in Logins)

KeyCaught ==
    \/ missed
    \/ \E a \in Actor : OwesKey(req[a])
    \/ \E a \in Actor : req[a].pc \in {"rlist", "rswap"} /\ req[a].key = vault
    \/ /\ \A a \in Actor : req[a].pc \notin {"rlist", "rswap"}
       /\ Legible(vault, registry)

IInv ==
    /\ TypeOK /\ RequestsSound /\ StoredIsRecoverable /\ AdaptersNeedAKey
    /\ OneRefresher /\ Caught /\ KeyCaught

-----------------------------------------------------------------------------
(* Data.                                                                   *)

LEMMA NothingTyped == Nothing \in Table
BY DEF Nothing, Table

LEMMA FreshTyped == Fresh \in Request /\ Fresh.pc = "idle"
<1>1. 0 \in Value
  BY BoundsAssumption DEF Value
<1>2. QED
  BY <1>1, NothingTyped DEF Fresh, Request, Kind, Pc

LEMMA PcNames ==
    /\ "insert" \in Pc /\ "url" \in Pc /\ "store" \in Pc /\ "handle" \in Pc
    /\ "rlist" \in Pc /\ "rswap" \in Pc /\ "snapvault" \in Pc /\ "taken" \in Pc
BY DEF Pc

LEMMA BlankTyped == Blank \in Secret
BY DEF Secret

LEMMA EncryptedTyped ==
    ASSUME NEW key \in User, NEW given \in BOOLEAN, NEW n \in Value
    PROVE  /\ Encrypted(key, given, n) \in Secret
           /\ Encrypted(key, given, n) # Blank => Encrypted(key, given, n).key = key
BY DEF Encrypted, Secret

LEMMA InsertedTyped ==
    ASSUME NEW n \in Value, NEW us
    PROVE  InsertedSite(n) \in Row /\ SafeRow(InsertedSite(n), us)
BY BlankTyped DEF InsertedSite, Row, SafeRow

LEMMA CredentialsTyped ==
    ASSUME NEW row \in Row, NEW c \in Secret, NEW p \in Secret
    PROVE  /\ WithCredentials(row, c, p) \in Row
           /\ WithCredentials(row, c, p).cookie = c
           /\ WithCredentials(row, c, p).passkey = p
BY BoundsAssumption DEF WithCredentials, Row

LEMMA RegistrableTyped ==
    ASSUME NEW key, NEW table \in Table
    PROVE  Registrable(key, table) \in Table
BY DEF Registrable, Table, Row

\* A refresh registers what its key reads.
LEMMA RegisteredIsLegible ==
    ASSUME NEW key, NEW table \in Table
    PROVE  Legible(key, Registrable(key, table))
<1> SUFFICES ASSUME NEW s \in Site, Registrable(key, table)[s] # NoRow
             PROVE  /\ Readable(key, Registrable(key, table)[s].cookie)
                    /\ Readable(key, Registrable(key, table)[s].passkey)
  BY DEF Legible
<1>1. /\ table[s] \in Row /\ Registrable(key, table)[s] = [table[s] EXCEPT !.answered = FALSE]
      /\ Readable(key, table[s].cookie) /\ Readable(key, table[s].passkey)
  BY DEF Registrable, Table
<1>2. QED
  BY <1>1 DEF Row

LEMMA NothingIsLegible == \A key : Legible(key, Nothing)
BY DEF Legible, Nothing

LEMMA LockedVaultRegistersNothing ==
    ASSUME NEW table
    PROVE  Registrable(NoKey, table) = Nothing
BY DEF Registrable, Nothing

LEMMA SoundGrows ==
    ASSUME NEW q, NEW us, NEW us2, NEW v, NEW v2, us \subseteq us2,
           v # NoKey => v2 # NoKey, Sound(q, us, v)
    PROVE  Sound(q, us2, v2)
BY DEF Sound, SafeRow

LEMMA FreshSound ==
    ASSUME NEW us, NEW v
    PROVE  Sound(Fresh, us, v)
BY DEF Fresh, Sound, ChangerPc

\* A row of the table that is there is a row.
LEMMA RowThere ==
    ASSUME TypeOK, NEW s \in Site, rows[s] # NoRow
    PROVE  rows[s] \in Row
BY DEF TypeOK, Table

-----------------------------------------------------------------------------
(* Frames.                                                                 *)

LEMMA SetFrame ==
    ASSUME TypeOK, RequestsSound, NEW a \in Actor, NEW s \in Request, Set(a, s),
           users \subseteq users', vault # NoKey => vault' # NoKey,
           Sound(s, users', vault')
    PROVE  /\ req' \in [Actor -> Request] /\ req'[a] = s
           /\ \A b \in Actor : b # a => req'[b] = req[b]
           /\ RequestsSound'
<1>1. /\ req' \in [Actor -> Request] /\ req'[a] = s
      /\ \A b \in Actor : b # a => req'[b] = req[b]
  BY DEF TypeOK, Set
<1>2. ASSUME NEW b \in Actor PROVE Sound(req'[b], users', vault')
  <2>1. CASE b = a
    BY <1>1, <2>1
  <2>2. CASE b # a
    <3>1. Sound(req[b], users, vault)
      BY DEF RequestsSound
    <3>2. QED
      BY <1>1, <2>2, <3>1, SoundGrows
  <2>3. QED
    BY <2>1, <2>2
<1>3. QED
  BY <1>1, <1>2 DEF RequestsSound

Typed == /\ guards \subseteq Actor /\ writers \subseteq Actor
         /\ used \in 0 .. MaxRequests /\ faults \in 0 .. MaxFaults

LEMMA FaultsTyped ==
    ASSUME IInv, UNCHANGED <<guards, writers, used>>, Fault \/ faults' = faults
    PROVE  Typed'
<1>1. faults' \in 0 .. MaxFaults
  BY BoundsAssumption DEF IInv, TypeOK, Fault
<1>2. QED
  BY <1>1 DEF IInv, TypeOK, Typed

\* A step that leaves what a refresh reads as it is.
LEMMA QuietStep ==
    ASSUME IInv, NEW a \in Actor, NEW s \in Request, Set(a, s), Sound(s, users', vault'),
           users \subseteq users', users' \subseteq User, live' \subseteq users',
           UNCHANGED <<vault, deleted, registry, refresher, missed>>, Typed',
           rows' \in Table, StoredIsRecoverable',
           Registrable(vault, rows') = Registrable(vault, rows),
           \A x \in Site : rows'[x] = NoRow <=> rows[x] = NoRow,
           req[a].pc \notin Refreshing, s.pc \notin Refreshing, ~Pending(req[a], rows)
    PROVE  IInv'
<1>1. /\ req' \in [Actor -> Request] /\ req'[a] = s
      /\ \A b \in Actor : b # a => req'[b] = req[b]
      /\ RequestsSound'
  BY SetFrame DEF IInv
<1>2. TypeOK'
  BY <1>1 DEF IInv, TypeOK, Typed
<1>3. OneRefresher'
  BY <1>1 DEF IInv, OneRefresher
<1>4. AdaptersNeedAKey'
  BY DEF IInv, AdaptersNeedAKey
<1>5. ASSUME NEW b \in Actor, Pending(req[b], rows) PROVE Pending(req'[b], rows')
  <2>1. b # a /\ req'[b] = req[b]
    BY <1>1, <1>5
  <2>2. req[b].pc # "idle" => req[b].site \in Site
    BY DEF IInv, RequestsSound, Sound
  <2>3. QED
    BY <1>5, <2>1, <2>2 DEF Pending
<1>6. ASSUME NEW b \in Actor, UpToDate(req[b]) PROVE UpToDate(req[b])' /\ b # a
  <2>1. b # a /\ req'[b] = req[b]
    BY <1>1, <1>6 DEF UpToDate, Refreshing
  <2>2. QED
    BY <1>6, <2>1 DEF UpToDate
<1>7. (\A b \in Actor : req[b].pc \notin {"rlist", "rswap"})
          => \A b \in Actor : req'[b].pc \notin {"rlist", "rswap"}
  BY <1>1 DEF Refreshing
<1>8. Caught'
  BY <1>5, <1>6, <1>7 DEF IInv, Caught
<1>9. KeyCaught'
  <2>1. ASSUME NEW b \in Actor, OwesKey(req[b]) PROVE OwesKey(req'[b])
    BY <1>1, <2>1 DEF OwesKey, Pending
  <2>2. ASSUME NEW b \in Actor, req[b].pc \in {"rlist", "rswap"}
        PROVE  req'[b] = req[b]
    BY <1>1, <2>2 DEF Refreshing
  <2>3. QED
    BY <1>7, <2>1, <2>2 DEF IInv, KeyCaught
<1>10. QED
  BY <1>1, <1>2, <1>3, <1>4, <1>8, <1>9 DEF IInv

\* A step of one request that leaves the tables alone.
LEMMA LocalStep ==
    ASSUME IInv, NEW a \in Actor, NEW s \in Request, Set(a, s), Sound(s, users, vault),
           UNCHANGED <<users, rows, deleted, vault, registry, refresher, missed>>,
           live' \subseteq live, Typed',
           req[a].pc \notin Refreshing, s.pc \notin Refreshing, ~Pending(req[a], rows)
    PROVE  IInv'
<1>1. StoredIsRecoverable'
  BY DEF IInv, StoredIsRecoverable
<1>2. users' \subseteq User /\ live' \subseteq users' /\ rows' \in Table
  BY DEF IInv, TypeOK
<1>3. QED
  BY <1>1, <1>2, QuietStep

\* A step that changes rows or vault, on the way to a refresh.
LEMMA ChangeStep ==
    ASSUME IInv, NEW a \in Actor, NEW s \in Request, Set(a, s), Sound(s, users', vault'),
           UNCHANGED <<users, registry, refresher>>, live' \subseteq users, Typed',
           vault' \in User \cup {NoKey}, vault # NoKey => vault' # NoKey,
           rows' \in Table, deleted' \subseteq Site, missed' \in BOOLEAN,
           StoredIsRecoverable',
           req[a].pc \notin Refreshing, s.pc \notin Refreshing,
           missed' \/ Pending(s, rows'), missed' \/ missed' = missed,
           missed' \/ OwesKey(s) \/ (vault' = vault /\ ~OwesKey(req[a]))
    PROVE  IInv'
<1>1. /\ req' \in [Actor -> Request] /\ req'[a] = s
      /\ \A b \in Actor : b # a => req'[b] = req[b]
      /\ RequestsSound'
  BY SetFrame DEF IInv
<1>2. TypeOK'
  BY <1>1 DEF IInv, TypeOK, Typed
<1>3. OneRefresher'
  BY <1>1 DEF IInv, OneRefresher
<1>4. AdaptersNeedAKey'
  BY DEF IInv, AdaptersNeedAKey
<1>5. Caught'
  BY <1>1 DEF Caught
<1>6. KeyCaught'
  <2>1. CASE missed' \/ OwesKey(s)
    BY <1>1, <2>1 DEF KeyCaught
  <2>2. CASE missed' = missed /\ vault' = vault /\ ~OwesKey(req[a])
    <3>1. ASSUME NEW b \in Actor, OwesKey(req[b]) PROVE OwesKey(req'[b])
      BY <1>1, <2>2, <3>1
    <3>2. ASSUME NEW b \in Actor, req[b].pc \in {"rlist", "rswap"}
          PROVE  req'[b] = req[b]
      BY <1>1, <3>2 DEF Refreshing
    <3>3. (\A b \in Actor : req[b].pc \notin {"rlist", "rswap"})
              => \A b \in Actor : req'[b].pc \notin {"rlist", "rswap"}
      BY <1>1 DEF Refreshing
    <3>4. QED
      BY <2>2, <3>1, <3>2, <3>3 DEF IInv, KeyCaught
  <2>3. QED
    BY <2>1, <2>2
<1>7. QED
  BY <1>1, <1>2, <1>3, <1>4, <1>5, <1>6 DEF IInv

\* The records that handlers make.
LEMMA MovedTyped ==
    ASSUME NEW q \in Request, NEW pc \in Pc
    PROVE  /\ [q EXCEPT !.pc = pc] \in Request /\ [q EXCEPT !.pc = pc].pc = pc
           /\ [q EXCEPT !.pc = pc].kind = q.kind /\ [q EXCEPT !.pc = pc].user = q.user
           /\ [q EXCEPT !.pc = pc].site = q.site /\ [q EXCEPT !.pc = pc].key = q.key
           /\ [q EXCEPT !.pc = pc].row = q.row /\ [q EXCEPT !.pc = pc].list = q.list
BY DEF Request

\* The answer of a request that has changed nothing.
LEMMA AnswerStep ==
    ASSUME IInv, NEW a \in Actor, Answer(a),
           UNCHANGED <<users, rows, deleted, vault, registry, refresher, missed>>,
           live' \subseteq live, Typed',
           req[a].pc \notin Refreshing, ~Pending(req[a], rows)
    PROVE  IInv'
<1>1. Set(a, Fresh) /\ Fresh \in Request /\ Sound(Fresh, users, vault)
      /\ Fresh.pc \notin Refreshing
  BY FreshTyped, FreshSound DEF Answer, Refreshing
<1>2. QED
  BY <1>1, LocalStep

\* The answer of a request that has changed something and not refreshed.
LEMMA MissedStep ==
    ASSUME IInv, NEW a \in Actor, Answer(a), missed' = TRUE,
           UNCHANGED <<users, vault, registry, refresher>>, live' \subseteq live, Typed',
           rows' \in Table, deleted' \subseteq Site, StoredIsRecoverable',
           req[a].pc \notin Refreshing
    PROVE  IInv'
<1>1. /\ Set(a, Fresh) /\ Fresh \in Request /\ Sound(Fresh, users', vault')
      /\ Fresh.pc \notin Refreshing
  BY FreshTyped, FreshSound DEF Answer, Refreshing
<1>2. live' \subseteq users /\ vault' \in User \cup {NoKey} /\ missed' \in BOOLEAN
  BY DEF IInv, TypeOK
<1>3. QED
  BY <1>1, <1>2, ChangeStep

\* The change is done, the refresh comes next.
LEMMA RefreshStep ==
    ASSUME IInv, NEW a \in Actor, GotoRefresh(a), req[a].pc \in ChangerPc,
           UNCHANGED <<users, vault, registry, refresher, missed>>, live' \subseteq users,
           Typed', rows' \in Table, deleted' \subseteq Site, StoredIsRecoverable',
           req[a].pc \notin Refreshing
    PROVE  IInv'
<1> DEFINE s == [Fresh EXCEPT !.kind = req[a].kind, !.site = req[a].site, !.pc = "lock"]
<1>1. req[a] \in Request /\ req[a].kind \in Kind /\ req[a].site \in Site \cup {NoRow}
  BY DEF IInv, TypeOK, Request
<1>2. /\ s \in Request /\ s.pc = "lock" /\ s.kind = req[a].kind /\ s.site = req[a].site
  BY <1>1, FreshTyped DEF Request, Pc
<1>3. req[a].kind \in Changers /\ req[a].site \in Site
  BY DEF IInv, RequestsSound, Sound, ChangerPc
<1>4. Set(a, s)
  BY DEF GotoRefresh
<1> HIDE DEF s
<1>5. Sound(s, users', vault')
  BY <1>2, <1>3 DEF Sound
<1>6. Pending(s, rows') /\ s.pc \notin Refreshing
  BY <1>2 DEF Pending, Refreshing
<1>7. vault' \in User \cup {NoKey} /\ missed' \in BOOLEAN
  BY DEF IInv, TypeOK
<1>8. OwesKey(req[a]) => OwesKey(s)
  <2>1. req[a].pc = "session" => req[a].kind \in Logins
    BY DEF IInv, RequestsSound, Sound
  <2>2. QED
    BY <1>2, <2>1 DEF OwesKey, Refreshing
<1>9. QED
  BY <1>2, <1>4, <1>5, <1>6, <1>7, <1>8, ChangeStep

-----------------------------------------------------------------------------
(* Registration and login.                                                 *)

LEMMA RequestTyped ==
    ASSUME IInv, NEW a \in Actor
    PROVE  /\ req[a] \in Request /\ Sound(req[a], users, vault)
           /\ req[a].n \in Value /\ req[a].cookie \in BOOLEAN /\ req[a].passkey \in BOOLEAN
           /\ req[a].list \in Table
BY DEF IInv, TypeOK, RequestsSound, Request

LEMMA BeginStep ==
    ASSUME IInv, NEW a \in Actor, Begin(a)
    PROVE  IInv'
<1>1. PICK kind \in Kind \ {"none"}, u \in User, s \in Site, c \in BOOLEAN, p \in BOOLEAN :
          Set(a, Begun(kind, used', u, s, c, p))
  BY DEF Begin
<1> DEFINE pc == FirstPc(kind)
           q == Begun(kind, used', u, s, c, p)
<1>2. /\ pc \in {"count", "find", "logout", "vault", "delete", "handle", "guard",
                 "snapregistry"}
      /\ pc \in {"count", "find", "vault", "delete"} => kind \in Changers
      /\ pc = "count" => kind = "register"
      /\ pc = "find" => kind = "login"
  BY DEF Kind, Authed, Changers, FirstPc
<1> HIDE DEF pc
<1>3. used' \in Value /\ used' \in 0 .. MaxRequests
  BY BoundsAssumption DEF IInv, TypeOK, Begin, Value
<1>4. q \in Request /\ q.pc = pc /\ q.kind = kind /\ q.site = s /\ q.user = u
  <2>1. pc \in Pc
    BY <1>2 DEF Pc
  <2>2. \A n \in Value :
            LET r == [Fresh EXCEPT !.kind = kind, !.n = n, !.user = u, !.site = s,
                                   !.cookie = c, !.passkey = p, !.pc = pc]
            IN  r \in Request /\ r.pc = pc /\ r.kind = kind /\ r.site = s /\ r.user = u
    BY <2>1, FreshTyped DEF Request
  <2>3. QED
    BY <1>3, <2>2 DEF Begun, pc
<1>5. Set(a, q)
  BY <1>1
<1> HIDE DEF q
<1>6. Sound(q, users, vault)
  BY <1>2, <1>4 DEF Sound, ChangerPc, Logins
<1>7. Typed'
  BY <1>3 DEF IInv, TypeOK, Typed, Begin
<1>8. req[a].pc \notin Refreshing /\ q.pc \notin Refreshing /\ ~Pending(req[a], rows)
  BY <1>2, <1>4 DEF Begin, At, Refreshing, Pending
<1>9. UNCHANGED <<users, rows, deleted, vault, registry, refresher, missed>> /\ live' \subseteq live
  BY DEF Begin, tables
<1>10. QED
  BY <1>4, <1>5, <1>6, <1>7, <1>8, <1>9, LocalStep

\* A request goes on to a step that needs nothing new.
LEMMA GotoStep ==
    ASSUME IInv, NEW a \in Actor, NEW pc \in Pc, Goto(a, pc),
           Sound([req[a] EXCEPT !.pc = pc], users, vault),
           UNCHANGED <<users, live, rows, deleted, vault, registry, refresher, missed>>, Typed',
           req[a].pc \notin Refreshing, pc \notin Refreshing, ~Pending(req[a], rows)
    PROVE  IInv'
<1> DEFINE s == [req[a] EXCEPT !.pc = pc]
<1>1. s \in Request /\ s.pc = pc /\ Set(a, s)
  BY RequestTyped, MovedTyped DEF Goto
<1> HIDE DEF s
<1>2. Sound(s, users, vault)
  BY DEF s
<1>3. QED
  BY <1>1, <1>2, LocalStep

LEMMA CountUsersStep ==
    ASSUME IInv, NEW a \in Actor, CountUsers(a)
    PROVE  IInv'
<1>1. /\ req[a].pc = "count" /\ Typed'
      /\ UNCHANGED <<users, live, rows, deleted, vault, registry, refresher, missed>>
  BY DEF CountUsers, At, IInv, TypeOK, Typed, tables, bounds
<1>2. req[a].pc \notin Refreshing /\ ~Pending(req[a], rows) /\ "insert" \in Pc
  BY <1>1 DEF Refreshing, Pending, Pc
<1>3. CASE Answer(a)
  BY <1>1, <1>2, <1>3, AnswerStep
<1>4. CASE Goto(a, "insert")
  <2>1. req[a].kind \in Changers /\ req[a].user \in User /\ req[a].site \in Site
    BY <1>1, RequestTyped DEF Sound, ChangerPc
  <2>2. req[a].kind = "register"
    BY <1>1, RequestTyped DEF Sound
  <2>3. Sound([req[a] EXCEPT !.pc = "insert"], users, vault)
    BY <1>2, <2>1, <2>2, RequestTyped, MovedTyped DEF Sound
  <2>4. QED
    BY <1>1, <1>2, <1>4, <2>3, GotoStep DEF Refreshing
<1>5. QED
  BY <1>3, <1>4 DEF CountUsers

LEMMA InsertUserStep ==
    ASSUME IInv, NEW a \in Actor, InsertUser(a)
    PROVE  IInv'
<1>1. /\ req[a].pc = "insert" /\ req[a].kind = "register" /\ Typed'
      /\ UNCHANGED <<live, rows, deleted, vault, registry, refresher, missed>>
  BY FaultsTyped DEF InsertUser, At
<1>2. req[a].pc \notin Refreshing /\ ~Pending(req[a], rows)
  BY <1>1 DEF Refreshing, Pending
<1>3. CASE Answer(a) /\ users' = users
  BY <1>1, <1>2, <1>3, AnswerStep
<1>4. CASE users' = users \cup {req[a].user} /\ Goto(a, "unlock")
  <2> DEFINE s == [req[a] EXCEPT !.pc = "unlock"]
  <2>1. /\ s \in Request /\ s.pc = "unlock" /\ s.kind = req[a].kind
        /\ s.user = req[a].user /\ s.site = req[a].site
    <3>1. "unlock" \in Pc
      BY DEF Pc
    <3>2. QED
      BY <3>1, RequestTyped, MovedTyped
  <2>2. Set(a, s)
    BY <1>4 DEF Goto
  <2> HIDE DEF s
  <2>3. req[a].kind \in Changers /\ req[a].user \in User /\ req[a].site \in Site
    BY <1>1, RequestTyped DEF Sound, ChangerPc
  <2>4. Sound(s, users', vault')
    BY <1>1, <1>4, <2>1, <2>3 DEF Sound, Logins
  <2>5. /\ users \subseteq users' /\ users' \subseteq User /\ live' \subseteq users'
        /\ rows' \in Table /\ s.pc \notin Refreshing
    BY <1>1, <1>4, <2>1, <2>3 DEF IInv, TypeOK, Refreshing
  <2>6. StoredIsRecoverable'
    BY <1>1, <2>5 DEF IInv, StoredIsRecoverable
  <2>7. QED
    BY <1>1, <1>2, <2>1, <2>2, <2>4, <2>5, <2>6, QuietStep
<1>5. QED
  BY <1>3, <1>4 DEF InsertUser

LEMMA FindUserStep ==
    ASSUME IInv, NEW a \in Actor, FindUser(a)
    PROVE  IInv'
<1>1. /\ req[a].pc = "find" /\ Typed'
      /\ UNCHANGED <<users, live, rows, deleted, vault, registry, refresher, missed>>
  BY DEF FindUser, At, IInv, TypeOK, Typed, tables, bounds
<1>2. req[a].pc \notin Refreshing /\ ~Pending(req[a], rows) /\ "unlock" \in Pc
  BY <1>1 DEF Refreshing, Pending, Pc
<1>3. CASE Answer(a)
  BY <1>1, <1>2, <1>3, AnswerStep
<1>4. CASE req[a].user \in users /\ Goto(a, "unlock")
  <2>1. req[a].kind \in Changers /\ req[a].kind \in Logins /\ req[a].site \in Site
    BY <1>1, RequestTyped DEF Sound, ChangerPc
  <2>2. Sound([req[a] EXCEPT !.pc = "unlock"], users, vault)
    BY <1>2, <1>4, <2>1, RequestTyped, MovedTyped DEF Sound
  <2>3. QED
    BY <1>1, <1>2, <1>4, <2>2, GotoStep DEF Refreshing
<1>5. QED
  BY <1>3, <1>4 DEF FindUser

LEMMA AwaitVaultStep ==
    ASSUME IInv, NEW a \in Actor, AwaitVault(a)
    PROVE  IInv'
<1>1. /\ req[a].pc = "unlock" /\ Typed' /\ Goto(a, "write")
      /\ UNCHANGED <<users, live, rows, deleted, vault, registry, refresher, missed>>
  BY DEF AwaitVault, At, IInv, TypeOK, Typed, tables, bounds
<1>2. req[a].pc \notin Refreshing /\ ~Pending(req[a], rows) /\ "write" \in Pc
  BY <1>1 DEF Refreshing, Pending, Pc
<1>3. /\ req[a].kind \in Changers /\ req[a].kind \in Logins
      /\ req[a].site \in Site /\ req[a].user \in users
  BY <1>1, RequestTyped DEF Sound, ChangerPc
<1>4. Sound([req[a] EXCEPT !.pc = "write"], users, vault)
  BY <1>2, <1>3, RequestTyped, MovedTyped DEF Sound
<1>5. QED
  BY <1>1, <1>2, <1>4, GotoStep DEF Refreshing

LEMMA UnlockStep ==
    ASSUME IInv, NEW a \in Actor, Unlock(a)
    PROVE  IInv'
<1> DEFINE s == [req[a] EXCEPT !.pc = "session"]
<1>1. /\ req[a].pc = "write" /\ Typed' /\ Goto(a, "session") /\ vault' = req[a].user
      /\ UNCHANGED <<users, live, rows, deleted, registry, refresher, missed>>
  BY DEF Unlock, At, IInv, TypeOK, Typed, tables, bounds
<1>2. /\ s \in Request /\ s.pc = "session" /\ s.kind = req[a].kind
      /\ s.user = req[a].user /\ s.site = req[a].site
  <2>1. "session" \in Pc
    BY DEF Pc
  <2>2. QED
    BY <2>1, RequestTyped, MovedTyped
<1>3. Set(a, s)
  BY <1>1 DEF Goto
<1> HIDE DEF s
<1>4. /\ req[a].kind \in Changers /\ req[a].kind \in Logins
      /\ req[a].site \in Site /\ req[a].user \in users
  BY <1>1, RequestTyped DEF Sound, ChangerPc
<1>5. Sound(s, users', vault')
  BY <1>1, <1>2, <1>4 DEF Sound
<1>6. vault' \in User \cup {NoKey} /\ (vault # NoKey => vault' # NoKey)
  BY <1>1, <1>4, BoundsAssumption DEF IInv, TypeOK
<1>7. StoredIsRecoverable'
  BY <1>1, <1>4 DEF IInv, StoredIsRecoverable
<1>8. /\ live' \subseteq users /\ rows' \in Table /\ deleted' \subseteq Site
      /\ missed' \in BOOLEAN
  BY <1>1 DEF IInv, TypeOK
<1>9. /\ req[a].pc \notin Refreshing /\ s.pc \notin Refreshing
      /\ Pending(s, rows') /\ OwesKey(s)
  BY <1>1, <1>2 DEF Refreshing, Pending, OwesKey
<1>10. QED
  BY <1>1, <1>2, <1>3, <1>5, <1>6, <1>7, <1>8, <1>9, ChangeStep

LEMMA CreateSessionStep ==
    ASSUME IInv, NEW a \in Actor, CreateSession(a)
    PROVE  IInv'
<1>1. /\ req[a].pc = "session" /\ Typed'
      /\ UNCHANGED <<users, rows, deleted, vault, registry, refresher>>
  BY FaultsTyped DEF CreateSession, At
<1>2. req[a].pc \notin Refreshing /\ req[a].pc \in ChangerPc
  BY <1>1 DEF Refreshing, ChangerPc
<1>3. rows' \in Table /\ deleted' \subseteq Site /\ StoredIsRecoverable' /\ live \subseteq users
  BY <1>1 DEF IInv, TypeOK, StoredIsRecoverable
<1>4. CASE live' = live \cup {req[a].user} /\ GotoRefresh(a) /\ missed' = missed
  <2>1. req[a].user \in users
    BY <1>1, RequestTyped DEF Sound
  <2>2. live' \subseteq users
    BY <1>3, <1>4, <2>1
  <2>3. QED
    BY <1>1, <1>2, <1>3, <1>4, <2>2, RefreshStep
<1>5. CASE missed' = TRUE /\ Answer(a) /\ live' = live
  BY <1>1, <1>2, <1>3, <1>5, MissedStep
<1>6. QED
  BY <1>4, <1>5 DEF CreateSession

LEMMA LogoutStep ==
    ASSUME IInv, NEW a \in Actor, Logout(a)
    PROVE  IInv'
<1>1. /\ req[a].pc = "logout" /\ Typed' /\ live' \subseteq live /\ Answer(a)
      /\ UNCHANGED <<users, rows, deleted, vault, registry, refresher, missed>>
  BY DEF Logout, At, IInv, TypeOK, Typed, bounds
<1>2. req[a].pc \notin Refreshing /\ ~Pending(req[a], rows)
  BY <1>1 DEF Refreshing, Pending
<1>3. QED
  BY <1>1, <1>2, AnswerStep

-----------------------------------------------------------------------------
(* The sites table.                                                        *)

LEMMA CopyVaultStep ==
    ASSUME IInv, NEW a \in Actor, CopyVault(a)
    PROVE  IInv'
<1> DEFINE pc == IF req[a].kind = "create" THEN "insert" ELSE "url"
           s == [req[a] EXCEPT !.key = vault, !.pc = pc]
<1>1. /\ req[a].pc = "vault" /\ Typed'
      /\ UNCHANGED <<users, live, rows, deleted, vault, registry, refresher, missed>>
  BY DEF CopyVault, At, IInv, TypeOK, Typed, tables, bounds
<1>2. req[a].pc \notin Refreshing /\ ~Pending(req[a], rows)
  BY <1>1 DEF Refreshing, Pending
<1>3. CASE Answer(a)
  BY <1>1, <1>2, <1>3, AnswerStep
<1>4. CASE vault # NoKey /\ Set(a, s)
  <2>1. vault \in users /\ vault \in User
    BY <1>4 DEF IInv, StoredIsRecoverable, TypeOK
  <2>2. /\ s \in Request /\ s.pc = pc /\ s.kind = req[a].kind /\ s.key = vault
        /\ s.user = req[a].user /\ s.site = req[a].site
    BY <2>1, RequestTyped, PcNames DEF Request
  <2>3. Set(a, s)
    BY <1>4
  <2> HIDE DEF s
  <2>4. /\ req[a].kind \in Changers /\ req[a].site \in Site /\ req[a].user \in User
    BY <1>1, RequestTyped DEF Sound, ChangerPc
  <2>5. Sound(s, users, vault) /\ s.pc \notin Refreshing
    BY <2>1, <2>2, <2>4 DEF Sound, Refreshing
  <2>6. QED
    BY <1>1, <1>2, <2>2, <2>3, <2>5, LocalStep
<1>5. QED
  BY <1>3, <1>4 DEF CopyVault

\* What a statement writes.
LEMMA UpdatedTyped ==
    ASSUME IInv, NEW s \in Site, NEW row \in Row \cup {NoRow}, Updated(s, row),
           row # NoRow => SafeRow(row, users), UNCHANGED <<users, vault>>
    PROVE  rows' \in Table /\ StoredIsRecoverable'
<1>1. rows' \in Table
  BY DEF Updated, IInv, TypeOK, Table
<1>2. ASSUME NEW x \in Site, rows'[x] # NoRow
      PROVE  \A c \in {rows'[x].cookie, rows'[x].passkey} : c # Blank => c.key \in users
  <2>1. CASE rows'[x] = rows[x]
    BY <1>2, <2>1 DEF IInv, StoredIsRecoverable
  <2>2. CASE rows'[x] = row
    BY <1>2, <2>2 DEF SafeRow
  <2>3. QED
    BY <2>1, <2>2 DEF Updated, IInv, TypeOK, Table
<1>3. QED
  BY <1>1, <1>2 DEF IInv, StoredIsRecoverable

LEMMA StoredIsSafe ==
    ASSUME IInv, NEW s \in Site, rows[s] # NoRow
    PROVE  rows[s] \in Row /\ SafeRow(rows[s], users)
BY RowThere DEF IInv, StoredIsRecoverable, SafeRow

\* A handler of the sites table holds its key, and knows its row.
LEMMA HandlerKnows ==
    ASSUME IInv, NEW a \in Actor,
           \/ req[a].pc \in {"url", "limits", "row"}
           \/ req[a].pc \in {"insert", "store"} /\ req[a].kind # "register"
    PROVE  /\ req[a].key \in users /\ req[a].key \in User
           /\ req[a].kind \in Changers /\ req[a].site \in Site
           /\ req[a].pc \in ChangerPc /\ req[a].pc \notin Refreshing
BY RequestTyped DEF Sound, ChangerPc, Refreshing, IInv, TypeOK

\* The next statement of a handler that has changed the row of its site.
LEMMA NextStatementStep ==
    ASSUME IInv, NEW a \in Actor, NEW pc \in {"limits", "row"}, Goto(a, pc),
           req[a].pc \in {"url", "limits"},
           NEW row \in Row \cup {NoRow}, Updated(req[a].site, row),
           row = NoRow => rows[req[a].site] = NoRow, row # NoRow => SafeRow(row, users),
           UNCHANGED <<users, live, deleted, vault, registry, refresher, missed>>, Typed'
    PROVE  IInv'
<1> DEFINE s == [req[a] EXCEPT !.pc = pc]
<1>1. /\ s \in Request /\ s.pc = pc /\ s.kind = req[a].kind /\ s.site = req[a].site
      /\ s.key = req[a].key
  <2>1. pc \in Pc
    BY DEF Pc
  <2>2. QED
    BY <2>1, RequestTyped, MovedTyped
<1>2. Set(a, s)
  BY DEF Goto
<1> HIDE DEF s
<1>3. Sound(s, users, vault) /\ s.pc \notin Refreshing
  BY <1>1, HandlerKnows DEF Sound, Refreshing
<1>4. req[a].site \in Site /\ req[a].pc \notin Refreshing
  BY HandlerKnows
<1>5. rows' \in Table /\ StoredIsRecoverable'
  BY <1>4, UpdatedTyped
<1>6. CASE rows[req[a].site] = NoRow
  <2>1. rows' = rows /\ ~Pending(req[a], rows)
    BY <1>6 DEF Updated, Pending
  <2>2. QED
    BY <1>1, <1>2, <1>3, <1>4, <2>1, LocalStep
<1>7. CASE rows[req[a].site] # NoRow
  <2>1. rows'[req[a].site] # NoRow
    BY <1>4, <1>7 DEF Updated, IInv, TypeOK, Table
  <2>2. Pending(s, rows') /\ ~OwesKey(req[a])
    BY <1>1, <2>1 DEF Pending, OwesKey
  <2>3. vault' \in User \cup {NoKey} /\ missed' \in BOOLEAN /\ live' \subseteq users
        /\ deleted' \subseteq Site
    BY DEF IInv, TypeOK
  <2>4. QED
    BY <1>1, <1>2, <1>3, <1>4, <1>5, <2>2, <2>3, ChangeStep
<1>8. QED
  BY <1>6, <1>7

LEMMA InsertSiteStep ==
    ASSUME IInv, NEW a \in Actor, InsertSite(a)
    PROVE  IInv'
<1>1. /\ req[a].pc = "insert" /\ req[a].kind = "create" /\ Typed'
      /\ UNCHANGED <<users, live, deleted, vault, registry, refresher, missed>>
  BY FaultsTyped DEF InsertSite, At
<1>2. req[a].pc \notin Refreshing /\ ~Pending(req[a], rows)
  BY <1>1 DEF Refreshing, Pending
<1>3. CASE Answer(a) /\ rows' = rows
  BY <1>1, <1>2, <1>3, AnswerStep
<1>4. ASSUME NEW x \in Site, rows[x] = NoRow,
             rows' = [rows EXCEPT ![x] = InsertedSite(req[a].n)],
             Set(a, [req[a] EXCEPT !.site = x, !.pc = "store"])
      PROVE  IInv'
  <2> DEFINE s == [req[a] EXCEPT !.site = x, !.pc = "store"]
  <2>1. /\ s \in Request /\ s.pc = "store" /\ s.kind = req[a].kind /\ s.site = x
        /\ s.key = req[a].key
    BY RequestTyped, PcNames DEF Request
  <2>2. Set(a, s)
    BY <1>4
  <2> HIDE DEF s
  <2>3. Sound(s, users', vault') /\ s.pc \notin Refreshing
    BY <1>1, <2>1, HandlerKnows DEF Sound, Refreshing
  <2> DEFINE row == InsertedSite(req[a].n)
  <2>4. row \in Row /\ SafeRow(row, users)
    BY RequestTyped, InsertedTyped
  <2> HIDE DEF row
  <2>5. rows' = [rows EXCEPT ![x] = row]
    BY <1>4 DEF row
  <2>6. rows' \in Table /\ rows'[x] # NoRow
    BY <2>4, <2>5, BoundsAssumption DEF IInv, TypeOK, Table
  <2>7. StoredIsRecoverable'
    BY <1>1, <2>4, <2>5 DEF IInv, StoredIsRecoverable, TypeOK, Table, SafeRow
  <2>8. Pending(s, rows') /\ ~OwesKey(req[a])
    BY <1>1, <2>1, <2>6 DEF Pending, OwesKey
  <2>9. /\ vault' \in User \cup {NoKey} /\ missed' \in BOOLEAN /\ live' \subseteq users
        /\ deleted' \subseteq Site
    BY <1>1 DEF IInv, TypeOK
  <2>10. QED
    BY <1>1, <1>2, <2>1, <2>2, <2>3, <2>6, <2>7, <2>8, <2>9, ChangeStep
<1>5. QED
  BY <1>3, <1>4 DEF InsertSite

LEMMA StoreNewStep ==
    ASSUME IInv, NEW a \in Actor, StoreNew(a)
    PROVE  IInv'
<1> DEFINE x == req[a].site
           c == Encrypted(req[a].key, req[a].cookie, req[a].n)
           p == Encrypted(req[a].key, req[a].passkey, req[a].n)
           row == WithCredentials(rows[x], c, p)
<1>1. /\ req[a].pc = "store" /\ req[a].kind = "create" /\ Typed'
      /\ UNCHANGED <<users, live, deleted, vault, registry, refresher, missed>>
  BY FaultsTyped DEF StoreNew, At
<1>2. /\ x \in Site /\ req[a].key \in users /\ req[a].key \in User
      /\ req[a].pc \in ChangerPc /\ req[a].pc \notin Refreshing
      /\ req[a].kind \in Changers
  BY <1>1, HandlerKnows
<1>3. CASE Updated(x, row) /\ GotoRefresh(a)
  <2>1. /\ c \in Secret /\ (c # Blank => c.key \in users)
        /\ p \in Secret /\ (p # Blank => p.key \in users)
    BY <1>2, RequestTyped, EncryptedTyped
  <2> HIDE DEF c, p
  <2>2. row \in Row \cup {NoRow} /\ (row # NoRow => SafeRow(row, users))
    <3>1. CASE rows[x] = NoRow
      BY <3>1 DEF WithCredentials
    <3>2. CASE rows[x] # NoRow
      <4>1. row \in Row /\ row.cookie = c /\ row.passkey = p
        BY <1>2, <2>1, <3>2, StoredIsSafe, CredentialsTyped
      <4>2. QED
        BY <2>1, <4>1 DEF SafeRow
    <3>3. QED
      BY <3>1, <3>2
  <2> HIDE DEF row
  <2>3. rows' \in Table /\ StoredIsRecoverable'
    BY <1>1, <1>2, <1>3, <2>2, UpdatedTyped
  <2>4. live' \subseteq users /\ deleted' \subseteq Site
    BY <1>1 DEF IInv, TypeOK
  <2>5. QED
    BY <1>1, <1>2, <1>3, <2>3, <2>4, RefreshStep
<1>4. CASE Goto(a, "cleanup") /\ rows' = rows
  <2> DEFINE s == [req[a] EXCEPT !.pc = "cleanup"]
  <2>1. s \in Request /\ s.pc = "cleanup" /\ s.kind = req[a].kind /\ s.site = x
    <3>1. "cleanup" \in Pc
      BY DEF Pc
    <3>2. QED
      BY <3>1, RequestTyped, MovedTyped
  <2>2. Set(a, s)
    BY <1>4 DEF Goto
  <2> HIDE DEF s
  <2>3. /\ Sound(s, users', vault') /\ s.pc \notin Refreshing /\ Pending(s, rows')
        /\ ~OwesKey(req[a])
    BY <1>1, <1>2, <2>1 DEF Sound, Refreshing, Pending, OwesKey
  <2>4. /\ vault' \in User \cup {NoKey} /\ missed' \in BOOLEAN /\ live' \subseteq users
        /\ deleted' \subseteq Site /\ rows' \in Table /\ StoredIsRecoverable'
    BY <1>1, <1>4 DEF IInv, TypeOK, StoredIsRecoverable
  <2>5. QED
    BY <1>1, <1>2, <2>1, <2>2, <2>3, <2>4, ChangeStep
<1>5. QED
  BY <1>3, <1>4 DEF StoreNew

\* A row that is gone is stored under no key.
LEMMA RemovedRow ==
    ASSUME IInv, NEW x \in Site, UNCHANGED <<users, vault>>,
           \/ rows' = [rows EXCEPT ![x] = NoRow] /\ deleted' = deleted \cup {x}
           \/ UNCHANGED <<rows, deleted>>
    PROVE  rows' \in Table /\ deleted' \subseteq Site /\ StoredIsRecoverable'
BY DEF IInv, TypeOK, Table, StoredIsRecoverable

LEMMA CleanUpStep ==
    ASSUME IInv, NEW a \in Actor, CleanUp(a)
    PROVE  IInv'
<1>1. /\ req[a].pc = "cleanup" /\ Answer(a) /\ missed' = TRUE /\ Typed'
      /\ UNCHANGED <<users, live, vault, registry, refresher>>
  BY FaultsTyped DEF CleanUp, At
<1>2. req[a].site \in Site /\ req[a].pc \notin Refreshing
  BY <1>1, RequestTyped DEF Sound, Refreshing
<1>3. rows' \in Table /\ deleted' \subseteq Site /\ StoredIsRecoverable'
  BY <1>1, <1>2, RemovedRow DEF CleanUp
<1>4. QED
  BY <1>1, <1>2, <1>3, MissedStep

LEMMA UpdateUrlStep ==
    ASSUME IInv, NEW a \in Actor, UpdateUrl(a)
    PROVE  IInv'
<1> DEFINE x == req[a].site
           row == IF rows[x] = NoRow THEN NoRow ELSE [rows[x] EXCEPT !.url = req[a].n]
<1>1. /\ req[a].pc = "url" /\ Typed'
      /\ UNCHANGED <<users, live, deleted, vault, registry, refresher, missed>>
  BY FaultsTyped DEF UpdateUrl, At
<1>2. req[a].pc \notin Refreshing /\ ~Pending(req[a], rows) /\ x \in Site /\ req[a].n \in Value
  BY <1>1, HandlerKnows, RequestTyped DEF Refreshing, Pending
<1>3. CASE Answer(a) /\ rows' = rows
  BY <1>1, <1>2, <1>3, AnswerStep
<1>4. CASE Updated(x, row) /\ Goto(a, "limits")
  <2>1. /\ row \in Row \cup {NoRow} /\ (row # NoRow => SafeRow(row, users))
        /\ (row = NoRow => rows[x] = NoRow)
    <3>1. CASE rows[x] = NoRow
      BY <3>1
    <3>2. CASE rows[x] # NoRow
      <4>1. rows[x] \in Row /\ SafeRow(rows[x], users)
        BY <1>2, <3>2, StoredIsSafe
      <4>2. row \in Row /\ row.cookie = rows[x].cookie /\ row.passkey = rows[x].passkey
        BY <1>2, <3>2, <4>1 DEF Row
      <4>3. QED
        BY <4>1, <4>2, BoundsAssumption DEF SafeRow
    <3>3. QED
      BY <3>1, <3>2
  <2> HIDE DEF row
  <2>2. QED
    BY <1>1, <1>4, <2>1, NextStatementStep
<1>5. QED
  BY <1>3, <1>4 DEF UpdateUrl

LEMMA UpdateLimitsStep ==
    ASSUME IInv, NEW a \in Actor, UpdateLimits(a)
    PROVE  IInv'
<1> DEFINE x == req[a].site
           row == IF rows[x] = NoRow THEN NoRow ELSE [rows[x] EXCEPT !.limits = req[a].n]
<1>1. /\ req[a].pc = "limits" /\ Typed'
      /\ UNCHANGED <<users, live, deleted, vault, registry, refresher>>
  BY FaultsTyped DEF UpdateLimits, At
<1>2. /\ req[a].pc \notin Refreshing /\ req[a].pc \in ChangerPc
      /\ x \in Site /\ req[a].n \in Value
  BY <1>1, HandlerKnows, RequestTyped DEF Refreshing
<1>3. live' \subseteq users /\ deleted' \subseteq Site /\ live' \subseteq live
  BY <1>1 DEF IInv, TypeOK
<1>4. CASE Answer(a) /\ missed' = TRUE /\ rows' = rows
  <2>1. rows' \in Table /\ StoredIsRecoverable'
    BY <1>1, <1>4 DEF IInv, TypeOK, StoredIsRecoverable
  <2>2. QED
    BY <1>1, <1>2, <1>3, <1>4, <2>1, MissedStep
<1>5. CASE Updated(x, row) /\ missed' = missed /\ (Goto(a, "row") \/ GotoRefresh(a))
  <2>1. /\ row \in Row \cup {NoRow} /\ (row # NoRow => SafeRow(row, users))
        /\ (row = NoRow => rows[x] = NoRow)
    <3>1. CASE rows[x] = NoRow
      BY <3>1
    <3>2. CASE rows[x] # NoRow
      <4>1. rows[x] \in Row /\ SafeRow(rows[x], users)
        BY <1>2, <3>2, StoredIsSafe
      <4>2. row \in Row /\ row.cookie = rows[x].cookie /\ row.passkey = rows[x].passkey
        BY <1>2, <3>2, <4>1 DEF Row
      <4>3. QED
        BY <4>1, <4>2, BoundsAssumption DEF SafeRow
    <3>3. QED
      BY <3>1, <3>2
  <2> HIDE DEF row
  <2>2. rows' \in Table /\ StoredIsRecoverable'
    BY <1>1, <1>2, <1>5, <2>1, UpdatedTyped
  <2>3. CASE Goto(a, "row")
    BY <1>1, <1>5, <2>1, <2>3, NextStatementStep
  <2>4. CASE GotoRefresh(a)
    BY <1>1, <1>2, <1>3, <1>5, <2>2, <2>4, RefreshStep
  <2>5. QED
    BY <1>5, <2>3, <2>4
<1>6. QED
  BY <1>4, <1>5 DEF UpdateLimits

LEMMA ReadRowStep ==
    ASSUME IInv, NEW a \in Actor, ReadRow(a)
    PROVE  IInv'
<1> DEFINE x == req[a].site
           s == [req[a] EXCEPT !.row = rows[x], !.pc = "store"]
<1>1. /\ req[a].pc = "row" /\ Typed'
      /\ UNCHANGED <<users, live, rows, deleted, vault, registry, refresher>>
  BY FaultsTyped DEF ReadRow, At, tables
<1>2. /\ x \in Site /\ req[a].key \in users /\ req[a].pc \notin Refreshing
      /\ req[a].kind \in Changers
  BY <1>1, HandlerKnows
<1>3. /\ vault' \in User \cup {NoKey} /\ live' \subseteq users /\ live' \subseteq live
      /\ deleted' \subseteq Site /\ rows' \in Table /\ StoredIsRecoverable'
  BY <1>1 DEF IInv, TypeOK, StoredIsRecoverable
<1>4. CASE rows[x] # NoRow /\ Set(a, s) /\ missed' = missed
  <2>1. rows[x] \in Row /\ SafeRow(rows[x], users)
    BY <1>2, <1>4, StoredIsSafe
  <2>2. /\ s \in Request /\ s.pc = "store" /\ s.kind = req[a].kind /\ s.site = x
        /\ s.key = req[a].key /\ s.row = rows[x]
    BY <2>1, RequestTyped, PcNames DEF Request
  <2>3. Set(a, s)
    BY <1>4
  <2> HIDE DEF s
  <2>4. /\ Sound(s, users', vault') /\ s.pc \notin Refreshing /\ Pending(s, rows')
        /\ ~OwesKey(req[a])
    BY <1>1, <1>2, <1>4, <2>1, <2>2 DEF Sound, Refreshing, Pending, OwesKey
  <2>5. missed' \in BOOLEAN
    BY <1>4 DEF IInv, TypeOK
  <2>6. QED
    BY <1>1, <1>2, <1>3, <1>4, <2>2, <2>3, <2>4, <2>5, ChangeStep
<1>5. CASE rows[x] = NoRow /\ Answer(a) /\ missed' = missed
  <2>1. ~Pending(req[a], rows)
    BY <1>1, <1>5 DEF Pending
  <2>2. QED
    BY <1>1, <1>2, <1>3, <1>5, <2>1, AnswerStep
<1>6. CASE Answer(a) /\ missed' = TRUE
  BY <1>1, <1>2, <1>3, <1>6, MissedStep
<1>7. QED
  BY <1>4, <1>5, <1>6 DEF ReadRow

LEMMA StoreUpdateStep ==
    ASSUME IInv, NEW a \in Actor, StoreUpdate(a)
    PROVE  IInv'
<1> DEFINE x == req[a].site
           q == req[a]
           c == IF q.cookie THEN Encrypted(q.key, TRUE, q.n) ELSE q.row.cookie
           p == IF q.passkey THEN Encrypted(q.key, TRUE, q.n) ELSE q.row.passkey
           row == WithCredentials(rows[x], c, p)
<1>1. /\ req[a].pc = "store" /\ req[a].kind = "update" /\ Typed'
      /\ UNCHANGED <<users, live, deleted, vault, registry, refresher>>
  BY FaultsTyped DEF StoreUpdate, At
<1>2. /\ x \in Site /\ req[a].key \in users /\ req[a].key \in User
      /\ req[a].pc \in ChangerPc /\ req[a].pc \notin Refreshing
  BY <1>1, HandlerKnows
<1>3. /\ live' \subseteq users /\ live' \subseteq live /\ deleted' \subseteq Site
  BY <1>1 DEF IInv, TypeOK
<1>4. CASE Updated(x, row) /\ GotoRefresh(a) /\ missed' = missed
  <2>1. q.row \in Row /\ SafeRow(q.row, users)
    BY <1>1, RequestTyped DEF Sound
  <2>2. /\ q.row.cookie \in Secret /\ (q.row.cookie # Blank => q.row.cookie.key \in users)
        /\ q.row.passkey \in Secret /\ (q.row.passkey # Blank => q.row.passkey.key \in users)
    BY <2>1 DEF SafeRow, Row
  <2>3. /\ Encrypted(q.key, TRUE, q.n) \in Secret
        /\ Encrypted(q.key, TRUE, q.n) # Blank => Encrypted(q.key, TRUE, q.n).key \in users
    BY <1>2, RequestTyped, EncryptedTyped
  <2>4. /\ c \in Secret /\ (c # Blank => c.key \in users)
        /\ p \in Secret /\ (p # Blank => p.key \in users)
    BY <2>2, <2>3
  <2> HIDE DEF c, p
  <2>5. row \in Row \cup {NoRow} /\ (row # NoRow => SafeRow(row, users))
    <3>1. CASE rows[x] = NoRow
      BY <3>1 DEF WithCredentials
    <3>2. CASE rows[x] # NoRow
      <4>1. row \in Row /\ row.cookie = c /\ row.passkey = p
        BY <1>2, <2>4, <3>2, StoredIsSafe, CredentialsTyped
      <4>2. QED
        BY <2>4, <4>1 DEF SafeRow
    <3>3. QED
      BY <3>1, <3>2
  <2> HIDE DEF row
  <2>6. rows' \in Table /\ StoredIsRecoverable'
    BY <1>1, <1>2, <1>4, <2>5, UpdatedTyped
  <2>7. QED
    BY <1>1, <1>2, <1>3, <1>4, <2>6, RefreshStep
<1>5. CASE Answer(a) /\ missed' = TRUE /\ rows' = rows
  <2>1. rows' \in Table /\ StoredIsRecoverable'
    BY <1>1, <1>5 DEF IInv, TypeOK, StoredIsRecoverable
  <2>2. QED
    BY <1>1, <1>2, <1>3, <1>5, <2>1, MissedStep
<1>6. QED
  BY <1>4, <1>5 DEF StoreUpdate

LEMMA DeleteSiteStep ==
    ASSUME IInv, NEW a \in Actor, DeleteSite(a)
    PROVE  IInv'
<1>1. /\ req[a].pc = "delete" /\ Typed'
      /\ UNCHANGED <<users, live, vault, registry, refresher, missed>>
  BY FaultsTyped DEF DeleteSite, At
<1>2. /\ req[a].site \in Site /\ req[a].pc \notin Refreshing /\ ~Pending(req[a], rows)
      /\ req[a].pc \in ChangerPc
  BY <1>1, RequestTyped DEF Sound, Refreshing, Pending, ChangerPc
<1>3. CASE /\ rows' = [rows EXCEPT ![req[a].site] = NoRow]
           /\ deleted' = deleted \cup {req[a].site} /\ GotoRefresh(a)
  <2>1. rows' \in Table /\ deleted' \subseteq Site /\ StoredIsRecoverable'
    BY <1>1, <1>2, <1>3, RemovedRow
  <2>2. live' \subseteq users
    BY <1>1 DEF IInv, TypeOK
  <2>3. QED
    BY <1>1, <1>2, <1>3, <2>1, <2>2, RefreshStep
<1>4. CASE Answer(a) /\ UNCHANGED <<rows, deleted>>
  BY <1>1, <1>2, <1>4, AnswerStep
<1>5. QED
  BY <1>3, <1>4 DEF DeleteSite

-----------------------------------------------------------------------------
(* The refresh.                                                            *)

\* A step of a refresh: only the registry, its mutex and "missed" change.
LEMMA RefresherStep ==
    ASSUME IInv, NEW a \in Actor, NEW s \in Request, Set(a, s), Sound(s, users, vault),
           UNCHANGED <<users, live, rows, deleted, vault>>, Typed',
           registry' \in Table, missed' \in BOOLEAN, AdaptersNeedAKey',
           refresher \in {a, NoOne},
           refresher' = IF s.pc \in Refreshing THEN a ELSE NoOne
    PROVE  /\ TypeOK' /\ RequestsSound' /\ StoredIsRecoverable' /\ OneRefresher'
           /\ req'[a] = s /\ (\A b \in Actor : b # a => req'[b] = req[b])
           /\ \A b \in Actor : b # a => req'[b].pc \notin Refreshing
<1>1. /\ req' \in [Actor -> Request] /\ req'[a] = s
      /\ \A b \in Actor : b # a => req'[b] = req[b]
      /\ RequestsSound'
  BY SetFrame DEF IInv
<1>2. TypeOK' /\ StoredIsRecoverable'
  BY <1>1 DEF IInv, TypeOK, Typed, StoredIsRecoverable
<1>3. NoOne \notin Actor
  BY BoundsAssumption DEF NoOne
<1>4. \A b \in Actor : b # a => req'[b].pc \notin Refreshing
  BY <1>1, <1>3 DEF IInv, OneRefresher
<1>5. OneRefresher'
  BY <1>1, <1>3, <1>4 DEF OneRefresher
<1>6. QED
  BY <1>1, <1>2, <1>4, <1>5

\* What the request does after its refresh needs nothing.
LEMMA AfterRefreshSound ==
    ASSUME IInv, NEW a \in Actor, AfterRefresh(a), req[a].pc # "idle"
    PROVE  \E s \in Request : /\ Set(a, s) /\ s.pc \notin Refreshing
                              /\ Sound(s, users, vault) /\ ~Pending(s, rows)
<1>1. CASE Set(a, Fresh)
  BY <1>1, FreshTyped, FreshSound DEF Refreshing, Pending
<1> DEFINE s == [req[a] EXCEPT !.key = NoKey, !.list = Nothing, !.pc = "handle"]
<1>2. CASE Set(a, s)
  <2>1. s \in Request /\ s.pc = "handle" /\ s.site = req[a].site
    BY RequestTyped, NothingTyped, PcNames DEF Request
  <2>2. Set(a, s)
    BY <1>2
  <2> HIDE DEF s
  <2>3. Sound(s, users, vault)
    BY <2>1, RequestTyped DEF Sound, ChangerPc
  <2>4. QED
    BY <2>1, <2>2, <2>3 DEF Refreshing, Pending
<1>3. QED
  BY <1>1, <1>2 DEF AfterRefresh, Answer

LEMMA LockRefreshStep ==
    ASSUME IInv, NEW a \in Actor, LockRefresh(a)
    PROVE  IInv'
<1> DEFINE s == [req[a] EXCEPT !.pc = "rvault"]
<1>1. /\ req[a].pc = "lock" /\ refresher = NoOne /\ refresher' = a /\ missed' = FALSE
      /\ Goto(a, "rvault") /\ Typed'
      /\ UNCHANGED <<users, live, rows, deleted, vault, registry>>
  BY FaultsTyped DEF LockRefresh, At, tables, bounds
<1>2. s \in Request /\ s.pc = "rvault" /\ s.kind = req[a].kind /\ s.site = req[a].site
  <2>1. "rvault" \in Pc
    BY DEF Pc
  <2>2. QED
    BY <2>1, RequestTyped, MovedTyped
<1>3. Set(a, s)
  BY <1>1 DEF Goto
<1> HIDE DEF s
<1>4. Sound(s, users, vault) /\ Pending(s, rows) /\ s.pc \in Refreshing
  BY <1>1, <1>2, RequestTyped DEF Sound, ChangerPc, Pending, Refreshing
<1>5. registry' \in Table /\ missed' \in BOOLEAN /\ AdaptersNeedAKey'
  BY <1>1 DEF IInv, TypeOK, AdaptersNeedAKey
<1>6. /\ TypeOK' /\ RequestsSound' /\ StoredIsRecoverable' /\ OneRefresher' /\ req'[a] = s
  BY <1>1, <1>2, <1>3, <1>4, <1>5, RefresherStep
<1>7. Caught' /\ KeyCaught'
  BY <1>1, <1>2, <1>4, <1>6 DEF Caught, KeyCaught, OwesKey
<1>8. QED
  BY <1>5, <1>6, <1>7 DEF IInv

LEMMA RefreshVaultStep ==
    ASSUME IInv, NEW a \in Actor, RefreshVault(a)
    PROVE  IInv'
<1>1. /\ req[a].pc = "rvault" /\ refresher = a /\ Typed'
      /\ UNCHANGED <<users, live, rows, deleted, vault, registry, missed>>
  BY FaultsTyped DEF RefreshVault, At, tables, bounds, IInv, OneRefresher, Refreshing
<1>2. registry' \in Table /\ missed' \in BOOLEAN /\ AdaptersNeedAKey'
  BY <1>1 DEF IInv, TypeOK, AdaptersNeedAKey
<1>3. CASE vault = NoKey /\ AfterRefresh(a) /\ refresher' = NoOne
  <2>1. PICK s \in Request : /\ Set(a, s) /\ s.pc \notin Refreshing
                             /\ Sound(s, users, vault) /\ ~Pending(s, rows)
    BY <1>1, <1>3, AfterRefreshSound
  <2>2. /\ TypeOK' /\ RequestsSound' /\ StoredIsRecoverable' /\ OneRefresher'
        /\ req'[a] = s /\ (\A b \in Actor : b # a => req'[b].pc \notin Refreshing)
    BY <1>1, <1>2, <1>3, <2>1, RefresherStep
  <2>3. registry' = Registrable(vault', rows') /\ registry' = Nothing
    BY <1>1, <1>3, LockedVaultRegistersNothing DEF IInv, AdaptersNeedAKey
  <2>4. Caught' /\ KeyCaught'
    BY <2>1, <2>2, <2>3, NothingIsLegible DEF Caught, KeyCaught, Refreshing
  <2>5. QED
    BY <1>2, <2>2, <2>4 DEF IInv
<1> DEFINE s == [req[a] EXCEPT !.key = vault, !.pc = "rlist"]
<1>4. CASE vault # NoKey /\ Set(a, s) /\ refresher' = refresher
  <2>1. vault \in users /\ vault \in User
    BY <1>4 DEF IInv, StoredIsRecoverable, TypeOK
  <2>2. /\ s \in Request /\ s.pc = "rlist" /\ s.kind = req[a].kind /\ s.key = vault
        /\ s.site = req[a].site
    BY <2>1, RequestTyped, PcNames DEF Request
  <2>3. Set(a, s)
    BY <1>4
  <2> HIDE DEF s
  <2>4. Sound(s, users, vault) /\ s.pc \in Refreshing
    BY <1>1, <1>4, <2>1, <2>2, RequestTyped DEF Sound, ChangerPc, Refreshing
  <2>5. TypeOK' /\ RequestsSound' /\ StoredIsRecoverable' /\ OneRefresher' /\ req'[a] = s
    BY <1>1, <1>2, <1>4, <2>2, <2>3, <2>4, RefresherStep
  <2>6. Caught' /\ KeyCaught'
    BY <1>1, <2>2, <2>5 DEF Caught, UpToDate, KeyCaught
  <2>7. QED
    BY <1>2, <2>5, <2>6 DEF IInv
<1>5. QED
  BY <1>3, <1>4 DEF RefreshVault

\* A refresh that has read the vault has read what is there, or is not the last.
LEMMA ReaderIsCurrent ==
    ASSUME IInv, NEW a \in Actor, req[a].pc \in {"rlist", "rswap"}
    PROVE  \/ missed
           \/ \E b \in Actor : b # a /\ Pending(req[b], rows)
           \/ UpToDate(req[a])
<1>1. ~Pending(req[a], rows)
  BY DEF Pending
<1>2. ASSUME NEW b \in Actor, UpToDate(req[b]) PROVE b = a
  BY <1>2 DEF IInv, OneRefresher, UpToDate, Refreshing
<1>3. QED
  BY <1>1, <1>2 DEF IInv, Caught

\* A refresh that has read another key than the vault's is not the last.
LEMMA ReaderHasTheKey ==
    ASSUME IInv, NEW a \in Actor, req[a].pc \in {"rlist", "rswap"}
    PROVE  \/ missed
           \/ \E b \in Actor : b # a /\ OwesKey(req[b])
           \/ req[a].key = vault
<1>1. ~OwesKey(req[a])
  BY DEF OwesKey
<1>2. ASSUME NEW b \in Actor, req[b].pc \in {"rlist", "rswap"} PROVE b = a
  BY <1>2 DEF IInv, OneRefresher, Refreshing
<1>3. QED
  BY <1>1, <1>2 DEF IInv, KeyCaught

LEMMA RefreshListStep ==
    ASSUME IInv, NEW a \in Actor, RefreshList(a)
    PROVE  IInv'
<1>1. /\ req[a].pc = "rlist" /\ refresher = a /\ Typed' /\ req[a].key \in users
      /\ UNCHANGED <<users, live, rows, deleted, vault, registry>>
  BY FaultsTyped, RequestTyped
  DEF RefreshList, At, tables, IInv, OneRefresher, Refreshing, Sound
<1>2. registry' \in Table /\ AdaptersNeedAKey' /\ rows \in Table
  BY <1>1 DEF IInv, TypeOK, AdaptersNeedAKey
<1> DEFINE s == [req[a] EXCEPT !.list = rows, !.pc = "rswap"]
<1>3. CASE Set(a, s) /\ refresher' = refresher /\ missed' = missed
  <2>1. /\ s \in Request /\ s.pc = "rswap" /\ s.kind = req[a].kind /\ s.key = req[a].key
        /\ s.site = req[a].site /\ s.list = rows
    BY <1>2, RequestTyped, PcNames DEF Request
  <2>2. Set(a, s)
    BY <1>3
  <2> HIDE DEF s
  <2>3. Sound(s, users, vault) /\ s.pc \in Refreshing
    BY <1>1, <2>1, RequestTyped DEF Sound, ChangerPc, Refreshing
  <2>4. missed' \in BOOLEAN
    BY <1>3 DEF IInv, TypeOK
  <2>5. /\ TypeOK' /\ RequestsSound' /\ StoredIsRecoverable' /\ OneRefresher'
        /\ req'[a] = s /\ (\A b \in Actor : b # a => req'[b] = req[b])
    BY <1>1, <1>2, <1>3, <2>1, <2>2, <2>3, <2>4, RefresherStep
  <2>6. UpToDate(req[a]) => UpToDate(req[a])'
    BY <1>1, <2>1, <2>5 DEF UpToDate
  <2>7. Caught'
    BY <1>1, <1>3, <2>5, <2>6, ReaderIsCurrent DEF Caught
  <2>8. KeyCaught'
    BY <1>1, <1>3, <2>1, <2>5, ReaderHasTheKey DEF KeyCaught
  <2>9. QED
    BY <1>2, <2>5, <2>7, <2>8 DEF IInv
<1>4. CASE AfterRefresh(a) /\ refresher' = NoOne /\ missed' = TRUE
  <2>1. PICK r \in Request : /\ Set(a, r) /\ r.pc \notin Refreshing
                             /\ Sound(r, users, vault) /\ ~Pending(r, rows)
    BY <1>1, <1>4, AfterRefreshSound
  <2>2. TypeOK' /\ RequestsSound' /\ StoredIsRecoverable' /\ OneRefresher'
    BY <1>1, <1>2, <1>4, <2>1, RefresherStep
  <2>3. QED
    BY <1>2, <1>4, <2>2 DEF IInv, Caught, KeyCaught
<1>5. QED
  BY <1>3, <1>4 DEF RefreshList

LEMMA RefreshSwapStep ==
    ASSUME IInv, NEW a \in Actor, RefreshSwap(a)
    PROVE  IInv'
<1>1. /\ req[a].pc = "rswap" /\ refresher = a /\ refresher' = NoOne /\ Typed'
      /\ registry' = Registrable(req[a].key, req[a].list) /\ AfterRefresh(a)
      /\ UNCHANGED <<users, live, rows, deleted, vault, missed>>
  BY FaultsTyped DEF RefreshSwap, At, tables, bounds, IInv, OneRefresher, Refreshing
<1>2. registry' \in Table /\ missed' \in BOOLEAN
  BY <1>1, RequestTyped, RegistrableTyped DEF IInv, TypeOK
<1>3. AdaptersNeedAKey'
  BY <1>1, RequestTyped DEF Sound, AdaptersNeedAKey
<1>4. PICK s \in Request : /\ Set(a, s) /\ s.pc \notin Refreshing
                           /\ Sound(s, users, vault) /\ ~Pending(s, rows)
  BY <1>1, AfterRefreshSound
<1>5. /\ TypeOK' /\ RequestsSound' /\ StoredIsRecoverable' /\ OneRefresher'
      /\ req'[a] = s /\ (\A b \in Actor : b # a => req'[b] = req[b])
      /\ \A b \in Actor : b # a => req'[b].pc \notin Refreshing
  BY <1>1, <1>2, <1>3, <1>4, RefresherStep
<1>6. \A b \in Actor : req'[b].pc \notin {"rlist", "rswap"}
  BY <1>4, <1>5 DEF Refreshing
<1>7. UpToDate(req[a]) => registry' = Registrable(vault', rows')
  BY <1>1 DEF UpToDate
<1>8. Caught'
  BY <1>1, <1>5, <1>6, <1>7, ReaderIsCurrent DEF Caught
<1>9. req[a].key = vault => Legible(vault', registry')
  BY <1>1, RequestTyped, RegisteredIsLegible
<1>10. KeyCaught'
  BY <1>1, <1>5, <1>6, <1>9, ReaderHasTheKey DEF KeyCaught
<1>11. QED
  BY <1>3, <1>5, <1>8, <1>10 DEF IInv

-----------------------------------------------------------------------------
(* Requests that use the registry and the key.                             *)

LEMMA TakeHandleStep ==
    ASSUME IInv, NEW a \in Actor, TakeHandle(a)
    PROVE  IInv'
<1>1. /\ req[a].pc = "handle" /\ Typed'
      /\ UNCHANGED <<users, live, rows, deleted, vault, registry, refresher, missed>>
  BY FaultsTyped DEF TakeHandle, At, tables, bounds
<1>2. req[a].pc \notin Refreshing /\ ~Pending(req[a], rows) /\ "call" \in Pc
  BY <1>1 DEF Refreshing, Pending, Pc
<1>3. CASE Answer(a)
  BY <1>1, <1>2, <1>3, AnswerStep
<1>4. CASE Goto(a, "call")
  <2>1. Sound([req[a] EXCEPT !.pc = "call"], users, vault)
    BY <1>1, <1>2, RequestTyped, MovedTyped DEF Sound, ChangerPc
  <2>2. QED
    BY <1>1, <1>2, <1>4, <2>1, GotoStep DEF Refreshing
<1>5. QED
  BY <1>3, <1>4 DEF TakeHandle

\* A refresh does not look at what a site has answered.
LEMMA AnsweredRegistersTheSame ==
    ASSUME TypeOK, NEW x \in Site, rows[x] # NoRow,
           rows' = [rows EXCEPT ![x] = [rows[x] EXCEPT !.answered = TRUE]]
    PROVE  /\ Registrable(vault, rows') = Registrable(vault, rows)
           /\ rows' \in Table
           /\ \A y \in Site : rows'[y] = NoRow <=> rows[y] = NoRow
<1> DEFINE row == [rows[x] EXCEPT !.answered = TRUE]
<1>1. rows \in Table /\ rows[x] \in Row
  BY RowThere DEF TypeOK
<1>2. /\ row \in Row /\ row.cookie = rows[x].cookie /\ row.passkey = rows[x].passkey
      /\ [row EXCEPT !.answered = FALSE] = [rows[x] EXCEPT !.answered = FALSE]
  BY <1>1 DEF Row
<1>3. rows' = [rows EXCEPT ![x] = row]
  OBVIOUS
<1> HIDE DEF row
<1>4. row # NoRow
  BY <1>2, BoundsAssumption
<1>5. rows' \in Table /\ rows'[x] = row /\ \A y \in Site : y # x => rows'[y] = rows[y]
  BY <1>1, <1>2, <1>3 DEF Table
<1>6. \A y \in Site : rows'[y] = NoRow <=> rows[y] = NoRow
  BY <1>4, <1>5
<1>7. \A y \in Site : Registrable(vault, rows')[y] = Registrable(vault, rows)[y]
  <2>1. ASSUME NEW y \in Site PROVE Registrable(vault, rows')[y] = Registrable(vault, rows)[y]
    <3>1. CASE y = x
      <4>1. Readable(vault, row.cookie) /\ Readable(vault, row.passkey)
            <=> Readable(vault, rows[x].cookie) /\ Readable(vault, rows[x].passkey)
        BY <1>2
      <4>2. rows'[y] = row /\ row # NoRow /\ rows[y] # NoRow
        BY <1>4, <1>5, <3>1
      <4>3. QED
        BY <1>2, <3>1, <4>1, <4>2 DEF Registrable
    <3>2. CASE y # x
      BY <1>5, <3>2 DEF Registrable
    <3>3. QED
      BY <3>1, <3>2
  <2>2. QED
    BY <2>1
<1>8. Registrable(vault, rows') = Registrable(vault, rows)
  BY <1>7 DEF Registrable
<1>9. QED
  BY <1>5, <1>6, <1>8

LEMMA StoreAnswerStep ==
    ASSUME IInv, NEW a \in Actor, StoreAnswer(a)
    PROVE  IInv'
<1>1. /\ req[a].pc = "call" /\ Answer(a) /\ Typed'
      /\ UNCHANGED <<users, live, deleted, vault, registry, refresher, missed>>
  BY FaultsTyped DEF StoreAnswer, At, bounds
<1>2. req[a].pc \notin Refreshing /\ ~Pending(req[a], rows) /\ req[a].site \in Site
  BY <1>1, RequestTyped DEF Refreshing, Pending, Sound
<1>3. CASE rows' = rows
  BY <1>1, <1>2, <1>3, AnswerStep
<1> DEFINE x == req[a].site
<1>4. CASE rows[x] # NoRow /\ rows' = [rows EXCEPT ![x] = [rows[x] EXCEPT !.answered = TRUE]]
  <2>1. /\ Registrable(vault, rows') = Registrable(vault, rows) /\ rows' \in Table
        /\ \A y \in Site : rows'[y] = NoRow <=> rows[y] = NoRow
    BY <1>2, <1>4, AnsweredRegistersTheSame DEF IInv
  <2>2. \A y \in Site : rows'[y] # NoRow =>
            rows'[y].cookie = rows[y].cookie /\ rows'[y].passkey = rows[y].passkey
    BY <1>2, <1>4, RowThere DEF IInv, TypeOK, Table, Row
  <2>3. StoredIsRecoverable'
    BY <1>1, <2>1, <2>2 DEF IInv, StoredIsRecoverable
  <2>4. /\ Set(a, Fresh) /\ Fresh \in Request /\ Sound(Fresh, users', vault')
        /\ Fresh.pc \notin Refreshing
    BY <1>1, FreshTyped, FreshSound DEF Answer, Refreshing
  <2>5. users \subseteq users' /\ users' \subseteq User /\ live' \subseteq users'
    BY <1>1 DEF IInv, TypeOK
  <2>6. QED
    BY <1>1, <1>2, <2>1, <2>3, <2>4, <2>5, QuietStep
<1>5. QED
  BY <1>3, <1>4 DEF StoreAnswer, Updated

LEMMA TakeGuardStep ==
    ASSUME IInv, NEW a \in Actor, TakeGuard(a)
    PROVE  IInv'
<1>1. /\ req[a].pc = "guard" /\ Typed'
      /\ UNCHANGED <<users, live, rows, deleted, vault, registry, refresher, missed>>
  BY DEF TakeGuard, At, IInv, TypeOK, Typed, tables, bounds
<1>2. req[a].pc \notin Refreshing /\ ~Pending(req[a], rows) /\ "network" \in Pc
  BY <1>1 DEF Refreshing, Pending, Pc
<1>3. CASE Answer(a)
  BY <1>1, <1>2, <1>3, AnswerStep
<1>4. CASE Goto(a, "network")
  <2>1. Sound([req[a] EXCEPT !.pc = "network"], users, vault)
    BY <1>1, <1>2, RequestTyped, MovedTyped DEF Sound, ChangerPc
  <2>2. QED
    BY <1>1, <1>2, <1>4, <2>1, GotoStep DEF Refreshing
<1>5. QED
  BY <1>3, <1>4 DEF TakeGuard

LEMMA AnsweringSteps ==
    ASSUME IInv, NEW a \in Actor, ReleaseGuard(a) \/ StartRun(a)
    PROVE  IInv'
<1>1. /\ req[a].pc \in {"network", "taken"} /\ Typed' /\ Answer(a)
      /\ UNCHANGED <<users, live, rows, deleted, vault, registry, refresher, missed>>
  BY DEF ReleaseGuard, StartRun, At, IInv, TypeOK, Typed, tables, bounds
<1>2. req[a].pc \notin Refreshing /\ ~Pending(req[a], rows)
  BY <1>1 DEF Refreshing, Pending
<1>3. QED
  BY <1>1, <1>2, AnswerStep

LEMMA TakeRegistryStep ==
    ASSUME IInv, NEW a \in Actor, TakeRegistry(a)
    PROVE  IInv'
<1> DEFINE seen == IF Settled THEN vault ELSE NoKey
           s == [req[a] EXCEPT !.list = registry, !.pc = "snapvault", !.seen = seen]
<1>1. /\ req[a].pc = "snapregistry" /\ Typed' /\ Set(a, s)
      /\ UNCHANGED <<users, live, rows, deleted, vault, registry, refresher, missed>>
  BY FaultsTyped DEF TakeRegistry, At, tables, bounds
<1>2. registry \in Table /\ AdaptersNeedAKey
  BY DEF IInv, TypeOK
<1>3. seen \in User \cup {NoKey} /\ (seen # NoKey => Legible(seen, registry))
  <2>1. Settled => Legible(vault, registry)
    BY DEF IInv, KeyCaught, Settled, Rekeying, OwesKey, Logins
  <2>2. QED
    BY <2>1 DEF IInv, TypeOK
<1> HIDE DEF seen
<1>4. /\ s \in Request /\ s.pc = "snapvault" /\ s.list = registry /\ s.site = req[a].site
      /\ s.seen = seen
  BY <1>2, <1>3, RequestTyped, PcNames DEF Request
<1> HIDE DEF s
<1>5. Sound(s, users, vault) /\ s.pc \notin Refreshing
  BY <1>1, <1>2, <1>3, <1>4, RequestTyped DEF Sound, ChangerPc, AdaptersNeedAKey, Refreshing
<1>6. req[a].pc \notin Refreshing /\ ~Pending(req[a], rows)
  BY <1>1 DEF Refreshing, Pending
<1>7. QED
  BY <1>1, <1>4, <1>5, <1>6, LocalStep

LEMMA TakeVaultStep ==
    ASSUME IInv, NEW a \in Actor, TakeVault(a)
    PROVE  IInv'
<1> DEFINE s == [req[a] EXCEPT !.key = vault, !.pc = "taken"]
<1>1. /\ req[a].pc = "snapvault" /\ Typed' /\ Set(a, s)
      /\ UNCHANGED <<users, live, rows, deleted, vault, registry, refresher, missed>>
  BY FaultsTyped DEF TakeVault, At, tables, bounds
<1>2. vault \in User \cup {NoKey}
  BY DEF IInv, TypeOK
<1>3. /\ s \in Request /\ s.pc = "taken" /\ s.list = req[a].list /\ s.site = req[a].site
      /\ s.key = vault /\ s.seen = req[a].seen
  BY <1>2, RequestTyped, PcNames DEF Request
<1> HIDE DEF s
<1>4. Sound(s, users, vault) /\ s.pc \notin Refreshing
  BY <1>1, <1>3, RequestTyped DEF Sound, ChangerPc, Refreshing
<1>5. req[a].pc \notin Refreshing /\ ~Pending(req[a], rows)
  BY <1>1 DEF Refreshing, Pending
<1>6. QED
  BY <1>1, <1>3, <1>4, <1>5, LocalStep

-----------------------------------------------------------------------------
(* The process.                                                            *)

\* Nothing is under way, and the registry is what the vault's key registers.
Rested == /\ req = [a \in Actor |-> Fresh] /\ refresher = NoOne
          /\ registry = Registrable(vault, rows) /\ rows \in Table

LEMMA AtRest ==
    Rested => RequestsSound /\ AdaptersNeedAKey /\ OneRefresher /\ Caught /\ KeyCaught
<1> SUFFICES ASSUME Rested
             PROVE  RequestsSound /\ AdaptersNeedAKey /\ OneRefresher /\ Caught /\ KeyCaught
  OBVIOUS
<1> USE DEF Rested
<1>1. \A a \in Actor : req[a] = Fresh /\ req[a].pc = "idle"
  BY FreshTyped
<1>2. RequestsSound
  BY <1>1, FreshSound DEF RequestsSound
<1>3. AdaptersNeedAKey
  BY LockedVaultRegistersNothing DEF AdaptersNeedAKey
<1>4. OneRefresher
  BY <1>1, BoundsAssumption DEF OneRefresher, Refreshing, NoOne
<1>5. Caught /\ KeyCaught
  BY <1>1, RegisteredIsLegible DEF Caught, KeyCaught
<1>6. QED
  BY <1>2, <1>3, <1>4, <1>5

LEMMA RestartStep ==
    ASSUME IInv, Restart
    PROVE  IInv'
<1>1. registry' = Registrable(vault', rows')
  BY LockedVaultRegistersNothing DEF Restart
<1>2. (RequestsSound /\ AdaptersNeedAKey /\ OneRefresher /\ Caught /\ KeyCaught)'
  <2>1. Rested'
    BY <1>1 DEF Restart, Rested, IInv, TypeOK, tables
  <2>2. QED
    BY <2>1, AtRest, PTL
<1>3. faults' \in 0 .. MaxFaults
  BY BoundsAssumption DEF IInv, TypeOK, Restart, Fault
<1>4. req' \in [Actor -> Request] /\ registry' \in Table
  BY FreshTyped, NothingTyped DEF Restart
<1>5. TypeOK'
  BY <1>3, <1>4 DEF IInv, TypeOK, Restart, tables
<1>6. StoredIsRecoverable'
  BY DEF IInv, StoredIsRecoverable, Restart, tables
<1>7. QED
  BY <1>2, <1>5, <1>6 DEF IInv

LEMMA InitIInv ==
    ASSUME Init
    PROVE  IInv
<1>1. Owner \in User
  BY BoundsAssumption DEF Owner
<1>2. /\ users \subseteq User /\ live \subseteq users /\ vault \in users \cup {NoKey}
      /\ deleted = {} /\ guards = {} /\ writers = {} /\ refresher = NoOne
      /\ req = [a \in Actor |-> Fresh] /\ used = 0 /\ faults = 0 /\ missed = FALSE
      /\ registry = Registrable(vault, rows)
  BY <1>1 DEF Init
<1>3. rows \in Table /\ StoredIsRecoverable
  <2>1. 0 \in Value
    BY BoundsAssumption DEF Value
  <2>2. CASE rows = Nothing
    BY <1>2, <2>2, NothingTyped DEF Nothing, StoredIsRecoverable
  <2>3. ASSUME NEW x \in Site, NEW u \in users,
               rows = [Nothing EXCEPT ![x] =
                          [InsertedSite(0) EXCEPT !.cookie = [key |-> u, value |-> 0]]]
        PROVE  rows \in Table /\ StoredIsRecoverable
    <3> DEFINE row == [InsertedSite(0) EXCEPT !.cookie = [key |-> u, value |-> 0]]
    <3>1. u \in User
      BY <1>2
    <3>2. [key |-> u, value |-> 0] \in Secret
      BY <2>1, <3>1 DEF Secret
    <3>3. row \in Row /\ row.cookie = [key |-> u, value |-> 0] /\ row.passkey = Blank
      BY <2>1, <3>2, BlankTyped DEF InsertedSite, Row
    <3>4. rows = [Nothing EXCEPT ![x] = row]
      BY <2>3
    <3> HIDE DEF row
    <3>5. rows \in Table /\ \A y \in Site : rows[y] = IF y = x THEN row ELSE NoRow
      BY <3>3, <3>4 DEF Nothing, Table
    <3>6. QED
      BY <1>2, <3>3, <3>5 DEF StoredIsRecoverable
  <2>4. QED
    BY <2>2, <2>3 DEF Init
<1>4. registry \in Table /\ req \in [Actor -> Request]
  BY <1>2, <1>3, RegistrableTyped, FreshTyped
<1>5. TypeOK
  <2>1. used \in 0 .. MaxRequests /\ faults \in 0 .. MaxFaults
    BY <1>2, BoundsAssumption
  <2>2. vault \in User \cup {NoKey} /\ refresher \in Actor \cup {NoOne} /\ missed \in BOOLEAN
    BY <1>2
  <2>3. deleted \subseteq Site /\ guards \subseteq Actor /\ writers \subseteq Actor
    BY <1>2
  <2>4. QED
    BY <1>2, <1>3, <1>4, <2>1, <2>2, <2>3 DEF TypeOK
<1>6. QED
  BY <1>2, <1>3, <1>5, AtRest DEF IInv, Rested

LEMMA StutterStep ==
    ASSUME IInv, UNCHANGED vars
    PROVE  IInv'
<1>1. UNCHANGED <<users, live, vault, guards, writers, rows, deleted, registry, refresher,
                  req, used, faults, missed>>
  BY DEF vars
<1>2. TypeOK' /\ RequestsSound'
  BY <1>1 DEF IInv, TypeOK, RequestsSound
<1>3. StoredIsRecoverable' /\ AdaptersNeedAKey' /\ OneRefresher'
  BY <1>1 DEF IInv, StoredIsRecoverable, AdaptersNeedAKey, OneRefresher
<1>4. Caught' /\ KeyCaught'
  BY <1>1 DEF IInv, Caught, UpToDate, KeyCaught
<1>5. QED
  BY <1>2, <1>3, <1>4 DEF IInv

LEMMA NextStep ==
    ASSUME IInv, [Next]_vars
    PROVE  IInv'
<1>1. ASSUME NEW a \in Actor, Proceed(a) PROVE IInv'
  BY <1>1, CountUsersStep, InsertUserStep, FindUserStep, AwaitVaultStep, UnlockStep,
     CreateSessionStep, LogoutStep, CopyVaultStep, InsertSiteStep, StoreNewStep,
     CleanUpStep, UpdateUrlStep, UpdateLimitsStep, ReadRowStep, StoreUpdateStep,
     DeleteSiteStep, LockRefreshStep, RefreshVaultStep, RefreshListStep,
     RefreshSwapStep, TakeHandleStep, StoreAnswerStep, TakeGuardStep, AnsweringSteps,
     TakeRegistryStep, TakeVaultStep DEF Proceed
<1>2. QED
  BY <1>1, BeginStep, RestartStep, StutterStep DEF Next

LEMMA IInvHolds == Spec => []IInv
<1>1. Init => IInv
  BY InitIInv
<1>2. IInv /\ [Next]_vars => IInv'
  BY NextStep
<1>3. QED
  BY <1>1, <1>2, PTL DEF Spec

-----------------------------------------------------------------------------
(* The theorems.                                                           *)

\* The tables, the vault, the registry and every request keep their types.
THEOREM TypeCorrect == Spec => []TypeOK
<1>1. IInv => TypeOK
  BY DEF IInv
<1>2. QED
  BY <1>1, IInvHolds, PTL

\* However logins, edits, deletions and refreshes interleave, the registry is
\* that of the rows and the vault's key when they have been answered, unless a
\* statement that failed has kept a change from its refresh.
THEOREM RefreshesAreEnough == Spec => []RegistryFollowsRows
<1>1. IInv => RegistryFollowsRows
  <2> SUFFICES ASSUME IInv, \A a \in Actor : ~Changing(a), ~missed
               PROVE  registry = Registrable(vault, rows)
    BY DEF RegistryFollowsRows
  <2>1. ASSUME NEW a \in Actor
        PROVE  ~Pending(req[a], rows) /\ req[a].pc \notin {"rlist", "rswap"}
    <3>1. req[a].pc \in ChangerPc => Changing(a)
      BY RequestTyped DEF Sound, Changers, ChangerPc, Changing
    <3>2. QED
      BY <3>1 DEF Pending, ChangerPc
  <2>2. QED
    BY <2>1 DEF IInv, Caught, UpToDate
<1>2. QED
  BY <1>1, IInvHolds, PTL

\* Nothing is ever stored under a key that no registered user can derive again.
THEOREM CredentialsAreRecoverable == Spec => []StoredIsRecoverable
<1>1. IInv => StoredIsRecoverable
  BY DEF IInv
<1>2. QED
  BY <1>1, IInvHolds, PTL

\* A run that has found adapters in the registry finds a key in the vault, and it is
\* the one that reads their credentials, unless a login of another user came between
\* its two reads, or the registry was owed a refresh, or had lost one, at the first.
THEOREM RunsHaveTheirKey == Spec => []RunHasTheKey
<1>1. IInv => RunHasTheKey
  BY DEF IInv, RequestsSound, Sound, RunHasTheKey, At
<1>2. QED
  BY <1>1, IInvHolds, PTL
=============================================================================
