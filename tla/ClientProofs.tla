---------------------------- MODULE ClientProofs ----------------------------
(***************************************************************************)
(* What a client of a downloader reports, and whose credentials it uses,   *)
(* for any torrents, requests, session ends and lost messages; and what a  *)
(* scan makes of the torrents a client gives, for any torrents and scans.  *)
(*                                                                         *)
(* A call is sent again once, so it succeeds only if the id that the       *)
(* second sending finds is the one of the moment: as long as nothing has   *)
(* expired during the call (shaken), the id in the client, then the id in  *)
(* the request, is the downloader's.  That needs the client to stay the    *)
(* same, which the ownership of clients gives.                             *)
(*                                                                         *)
(* A scan leaves to be sent what the cache does not have at one moment; it *)
(* answers for the rest until it ends (Sent), while other scans send and   *)
(* the writer commits.                                                     *)
(***************************************************************************)
EXTENDS Downloaders, Scanner, FiniteSetTheorems, TLAPS

Running == {"build", "test", "call"}
OnWay == {"send", "wire", "receive", "handshake"}

\* What a request relies on that others may touch: the users of a client, the
\* torrents of the downloader, its session and the credentials on record.
Loaded(q, h) ==
    /\ (q.pc = "vault" /\ q.kind # "create") => q.row \in Row
    /\ (q.pc = "vault" /\ q.kind \in {"build", "test"}) => q.row \in h
    /\ q.pc = "write" => q.row \in Row

Shape(q, a, type) ==
    /\ q.via = IF q.kind = "test" THEN a ELSE Run
    /\ q.pc \in OnWay => q.kind \in Running
    /\ (q.kind = "build" /\ q.pc \in OnWay) => q.op = "connect"
    /\ (q.kind = "call" /\ q.pc \in OnWay) => q.op # "connect"
    /\ q.op = "pieces" => type = "qbittorrent"
    /\ q.op = "add" => q.torrent \in Torrent

Reported(q, d, type) ==
    /\ q.op = "resume" => q.torrent \in d.held
    /\ q.pc = "receive" /\ q.answer = "404" => q.op \in {"export", "pieces"}
    /\ (q.pc = "receive" /\ q.answer = "200" /\ q.op = "add") => q.torrent \in d.held
    /\ (q.pc = "receive" /\ q.answer = "200" /\ q.op = "resume") => q.torrent \in d.running
    /\ (q.pc = "done" /\ q.result = "ok" /\ q.op = "add") => q.torrent \in d.held
    /\ (q.pc = "done" /\ q.result = "ok" /\ q.op = "resume" /\ type = "transmission")
          => q.torrent \in d.running

Handshake(q, known, current) ==
    /\ (q.again /\ ~q.shaken) =>
          /\ q.pc = "send" => known = current
          /\ q.pc = "wire" => q.session = current
          /\ q.pc = "receive" => q.answer # "409"
    /\ (q.pc = "done" /\ q.result = "conflict") => q.shaken

Requests ==
    \A a \in Actor :
        /\ Loaded(req[a], had) /\ Shape(req[a], a, dl_type)
        /\ Reported(req[a], daemon, dl_type)

Handshakes ==
    dl_type = "transmission" =>
        \A a \in Actor : Handshake(req[a], client[req[a].via].session, daemon.session)

NoConflicts ==
    dl_type = "qbittorrent" =>
        \A a \in Actor : ~(req[a].pc = "done" /\ req[a].result = "conflict")

\* A build has the run's client to itself until it has connected.
Building(q) == q.kind = "build" /\ q.pc \in {"row", "vault"} \cup OnWay
BuildsAlone ==
    \A a \in Actor : Building(req[a]) =>
        /\ ~client[Run].connected
        /\ \A b \in Actor : b # a => req[b].kind \notin {"build", "call"}

RowIsOnRecord == row # NoRow => row \in had

IInv ==
    /\ TypeOK /\ Requests /\ Handshakes /\ NoConflicts /\ BuildsAlone /\ RowIsOnRecord
    /\ LoginAsStored

-----------------------------------------------------------------------------
(* Data.                                                                   *)

LEMMA RunIsNoActor == Run \notin Actor /\ Run \in Owner /\ Actor \subseteq Owner
BY BoundsAssumption DEF Run, Owner

LEMMA BlankTyped == Blank \in Row /\ Original \in Row
BY DEF Blank, Original, Row, Secret

LEMMA FreshTyped == Fresh \in Request /\ Fresh.pc = "idle"
<1>1. Run \in Owner
  BY RunIsNoActor
<1>2. 0 \in Nat
  OBVIOUS
<1>3. QED
  BY <1>1, <1>2 DEF Fresh, Request, Kind, Pc, Op, Call, Answer, Result

LEMMA NoClientTyped == NoClient \in Client /\ ~NoClient.built
BY BlankTyped DEF NoClient, Client

LEMMA RequestFields ==
    ASSUME TypeOK, NEW a \in Actor
    PROVE  /\ req[a] \in Request /\ req[a].via \in Owner /\ req[a].session \in Nat
           /\ req[a].kind \in Kind /\ req[a].pc \in Pc /\ req[a].op \in Op
           /\ req[a].torrent \in Torrent \cup {NoRow} /\ req[a].row \in Row \cup {NoRow}
           /\ req[a].shaken \in BOOLEAN /\ req[a].again \in BOOLEAN
           /\ req[a].answer \in Answer
           /\ req[a].start \in BOOLEAN
BY DEF TypeOK, Request

LEMMA Parts ==
    ASSUME IInv, NEW a \in Actor
    PROVE  /\ req[a] \in Request /\ Loaded(req[a], had) /\ Shape(req[a], a, dl_type)
           /\ Reported(req[a], daemon, dl_type)
           /\ dl_type = "transmission" =>
                 Handshake(req[a], client[req[a].via].session, daemon.session)
           /\ dl_type = "qbittorrent" => ~(req[a].pc = "done" /\ req[a].result = "conflict")
           /\ client[req[a].via] \in Client
BY RequestFields DEF IInv, Requests, Handshakes, NoConflicts, TypeOK

\* A slot that is free relies on nothing.
LEMMA FreshSound ==
    ASSUME NEW a \in Actor, NEW h, NEW d, NEW type, NEW known, NEW current
    PROVE  /\ Loaded(Fresh, h) /\ Shape(Fresh, a, type) /\ Reported(Fresh, d, type)
           /\ Handshake(Fresh, known, current) /\ ~Building(Fresh)
           /\ Fresh.pc # "done" /\ Fresh.kind = "none"
BY DEF Fresh, Loaded, Shape, Reported, Handshake, Building, OnWay, Running

LEMMA ReportedGrows ==
    ASSUME NEW q, NEW d, NEW d2, NEW type, d.held \subseteq d2.held,
           d.running \subseteq d2.running, Reported(q, d, type)
    PROVE  Reported(q, d2, type)
BY DEF Reported

LEMMA LoginGrows ==
    ASSUME NEW q, NEW h, NEW h2, h \subseteq h2, Loaded(q, h)
    PROVE  Loaded(q, h2)
BY DEF Loaded

-----------------------------------------------------------------------------
(* Frames.                                                                 *)

\* One request moves; the table and the downloader may grow, and its client
\* changes in ways that concern nobody else.
LEMMA MoveStep ==
    ASSUME IInv, NEW a \in Actor, NEW s \in Request, Set(a, s),
           UNCHANGED <<dl_type, client>>, TypeOK', had \subseteq had', RowIsOnRecord',
           daemon'.session = daemon.session,
           daemon.held \subseteq daemon'.held, daemon.running \subseteq daemon'.running,
           Loaded(s, had'), Shape(s, a, dl_type), Reported(s, daemon', dl_type),
           dl_type = "transmission" =>
               Handshake(s, client[s.via].session, daemon.session),
           dl_type = "qbittorrent" => ~(s.pc = "done" /\ s.result = "conflict"),
           s.kind \in {"build", "call"} =>
               req[a].kind = s.kind \/ \A b \in Actor : ~Building(req[b]),
           Building(s) => Building(req[a])
    PROVE  IInv'
<1>1. req' \in [Actor -> Request] /\ req'[a] = s /\ \A b \in Actor : b # a => req'[b] = req[b]
  BY DEF IInv, TypeOK, Set
<1>2. ASSUME NEW b \in Actor
      PROVE  Loaded(req'[b], had') /\ Shape(req'[b], b, dl_type') /\ Reported(req'[b], daemon', dl_type')
  BY <1>1, Parts, ReportedGrows, LoginGrows
<1>3. Requests'
  BY <1>2 DEF Requests
<1>4. Handshakes'
  BY <1>1, Parts DEF Handshakes
<1>5. NoConflicts'
  BY <1>1, Parts DEF NoConflicts
<1>6. BuildsAlone'
  BY <1>1 DEF IInv, BuildsAlone, Building
<1>7. LoginAsStored'
  BY DEF IInv, LoginAsStored
<1>8. QED
  BY <1>3, <1>4, <1>5, <1>6, <1>7 DEF IInv

Typed == /\ deleted \in BOOLEAN /\ unlocked \in BOOLEAN
         /\ used \in 0 .. MaxRequests /\ faults \in 0 .. MaxFaults

LEMMA CountersTyped ==
    ASSUME IInv, UNCHANGED used, Fault \/ faults' = faults,
           deleted' \in BOOLEAN, unlocked' \in BOOLEAN
    PROVE  Typed'
<1>1. faults' \in 0 .. MaxFaults
  BY BoundsAssumption DEF IInv, TypeOK, Fault
<1>2. QED
  BY <1>1 DEF IInv, TypeOK, Typed

\* A step of one request that the table and the downloader do not see.
LEMMA LocalStep ==
    ASSUME IInv, NEW a \in Actor, NEW s \in Request, Set(a, s),
           UNCHANGED <<dl_type, client, row, had, daemon>>, Typed',
           Loaded(s, had), Shape(s, a, dl_type), Reported(s, daemon, dl_type),
           dl_type = "transmission" =>
               Handshake(s, client[s.via].session, daemon.session),
           dl_type = "qbittorrent" => ~(s.pc = "done" /\ s.result = "conflict"),
           s.kind \in {"build", "call"} =>
               req[a].kind = s.kind \/ \A b \in Actor : ~Building(req[b]),
           Building(s) => Building(req[a])
    PROVE  IInv'
<1>1. req' \in [Actor -> Request]
  BY DEF IInv, TypeOK, Set
<1>2. TypeOK'
  BY <1>1 DEF IInv, TypeOK, Typed
<1>3. RowIsOnRecord'
  BY DEF IInv, RowIsOnRecord
<1>4. QED
  BY <1>2, <1>3, MoveStep

\* A request is answered; it may have written the row.
LEMMA EndStep ==
    ASSUME IInv, NEW a \in Actor, End(a), UNCHANGED <<dl_type, client, daemon>>, Typed',
           row' \in Row \cup {NoRow}, had \subseteq had', had' \subseteq Row,
           RowIsOnRecord'
    PROVE  IInv'
<1>1. Set(a, Fresh) /\ Fresh \in Request /\ Fresh.kind = "none" /\ Fresh.pc # "done"
      /\ ~Building(Fresh) /\ Loaded(Fresh, had') /\ Shape(Fresh, a, dl_type)
      /\ Reported(Fresh, daemon', dl_type)
      /\ Handshake(Fresh, client[Fresh.via].session, daemon.session)
  BY FreshTyped, FreshSound DEF End
<1>2. req' \in [Actor -> Request]
  BY <1>1 DEF IInv, TypeOK, Set
<1>3. TypeOK'
  BY <1>2 DEF IInv, TypeOK, Typed
<1>4. QED
  BY <1>1, <1>3, MoveStep

-----------------------------------------------------------------------------
(* The table.                                                              *)

LEMMA ReadRowStep ==
    ASSUME IInv, NEW a \in Actor, ReadRow(a)
    PROVE  IInv'
<1> DEFINE q == req[a]
           needsKey == q.kind \in {"build", "test"} \/ q.username \/ q.password
           pc == IF needsKey THEN "vault" ELSE "write"
           s == [q EXCEPT !.row = row, !.pc = pc]
<1>1. /\ q.pc = "row" /\ Typed' /\ UNCHANGED <<dl_type, client, row, had, daemon>>
  BY CountersTyped DEF ReadRow, At, table, bounds, IInv, TypeOK
<1>2. CASE End(a)
  BY <1>1, <1>2, EndStep DEF IInv, TypeOK, RowIsOnRecord
<1>3. CASE row # NoRow /\ Set(a, s)
  <2>1. row \in Row /\ row \in had
    BY <1>3 DEF IInv, TypeOK, RowIsOnRecord
  <2>2. pc \in {"vault", "write"} /\ pc \in Pc
    BY DEF Pc
  <2> HIDE DEF pc
  <2>3. /\ s \in Request /\ s.pc = pc /\ s.row = row /\ s.kind = q.kind /\ s.via = q.via
        /\ s.op = q.op /\ s.torrent = q.torrent /\ s.again = q.again /\ s.shaken = q.shaken
    BY <2>1, <2>2, Parts DEF Request
  <2>4. Set(a, s)
    BY <1>3
  <2> HIDE DEF s
  <2>6. Loaded(s, had) /\ Shape(s, a, dl_type)
    BY <2>1, <2>2, <2>3, Parts DEF Loaded, Shape, OnWay
  <2>7. Reported(s, daemon, dl_type) /\ Handshake(s, client[s.via].session, daemon.session)
    BY <2>2, <2>3, Parts DEF Reported, Handshake
  <2>8. s.pc # "done" /\ (Building(s) => Building(q))
    BY <1>1, <2>2, <2>3 DEF Building
  <2>9. QED
    BY <1>1, <2>3, <2>4, <2>6, <2>7, <2>8, LocalStep
<1>4. QED
  BY <1>2, <1>3 DEF ReadRow

LEMMA CopyVaultStep ==
    ASSUME IInv, NEW a \in Actor, CopyVault(a)
    PROVE  IInv'
<1> DEFINE q == req[a]
           old == IF q.kind = "create" THEN Blank ELSE q.row
           new == [username |-> Filled(q.username, old.username),
                   password |-> Filled(q.password, old.password)]
           r == IF unlocked THEN new ELSE old
           s == [q EXCEPT !.row = r, !.pc = "write", !.username = FALSE, !.password = FALSE]
<1>1. /\ q.pc = "vault" /\ q.kind \in {"create", "update"} /\ Typed' /\ Set(a, s)
      /\ UNCHANGED <<dl_type, client, row, had, daemon>>
  BY CountersTyped DEF CopyVault, At, table, bounds, IInv, TypeOK
<1>2. old \in Row
  BY <1>1, BlankTyped, Parts DEF Loaded
<1>3. r \in Row
  BY <1>2 DEF Row, Filled, Secret
<1> HIDE DEF r
<1>4. /\ s \in Request /\ s.pc = "write" /\ s.row = r /\ s.kind = q.kind /\ s.via = q.via
      /\ s.op = q.op /\ s.torrent = q.torrent /\ s.again = q.again /\ s.shaken = q.shaken
  BY <1>3, Parts DEF Request, Pc
<1>5. Set(a, s)
  BY <1>1
<1> HIDE DEF s
<1>6. Loaded(s, had) /\ Shape(s, a, dl_type)
  BY <1>3, <1>4, Parts DEF Loaded, Shape, OnWay
<1>7. Reported(s, daemon, dl_type) /\ Handshake(s, client[s.via].session, daemon.session)
  BY <1>4, Parts DEF Reported, Handshake
<1>8. s.pc # "done" /\ ~Building(s)
  BY <1>1, <1>4 DEF Building
<1>9. s.kind \in {"build", "call"} => q.kind = s.kind
  BY <1>4
<1>10. QED
  BY <1>1, <1>4, <1>5, <1>6, <1>7, <1>8, <1>9, LocalStep

LEMMA InsertRowStep ==
    ASSUME IInv, NEW a \in Actor, InsertRow(a)
    PROVE  IInv'
<1>1. /\ req[a].pc = "write" /\ End(a) /\ Typed'
      /\ UNCHANGED <<dl_type, client, daemon>>
  BY CountersTyped DEF InsertRow, At, bounds, IInv, TypeOK
<1>2. req[a].row \in Row
  BY <1>1, Parts DEF Loaded
<1>3. /\ row' \in Row \cup {NoRow} /\ had \subseteq had' /\ had' \subseteq Row
      /\ RowIsOnRecord'
  BY <1>2 DEF InsertRow, IInv, TypeOK, RowIsOnRecord
<1>4. QED
  BY <1>1, <1>3, EndStep

LEMMA WriteBackStep ==
    ASSUME IInv, NEW a \in Actor, UpdateRow(a) \/ ToggleAutoStart(a)
    PROVE  IInv'
<1>1. /\ req[a].pc = "write" /\ WriteBack(a) /\ End(a) /\ Typed'
      /\ UNCHANGED <<dl_type, client, daemon>>
  BY CountersTyped DEF UpdateRow, ToggleAutoStart, WriteBack, At, bounds, IInv, TypeOK
<1>2. req[a].row \in Row
  BY <1>1, Parts DEF Loaded
<1>3. /\ row' \in Row \cup {NoRow} /\ had \subseteq had' /\ had' \subseteq Row
      /\ RowIsOnRecord'
  BY <1>1, <1>2 DEF WriteBack, Written, IInv, TypeOK, RowIsOnRecord
<1>4. QED
  BY <1>1, <1>3, EndStep

LEMMA DeleteRowStep ==
    ASSUME IInv, NEW a \in Actor, DeleteRow(a)
    PROVE  IInv'
<1>1. /\ End(a) /\ row' = NoRow /\ had' = had
      /\ deleted' \in BOOLEAN /\ UNCHANGED <<dl_type, unlocked, client, daemon, used, faults>>
  BY DEF DeleteRow, bounds
<1>2. Typed' /\ RowIsOnRecord' /\ had' \subseteq Row
  BY <1>1, CountersTyped DEF IInv, TypeOK, RowIsOnRecord
<1>3. QED
  BY <1>1, <1>2, EndStep

LEMMA StatementFailsStep ==
    ASSUME IInv, NEW a \in Actor, StatementFails(a)
    PROVE  IInv'
<1>1. /\ End(a) /\ Typed' /\ UNCHANGED <<dl_type, client, daemon, row, had>>
  BY CountersTyped DEF StatementFails, table, IInv, TypeOK
<1>2. RowIsOnRecord' /\ row' \in Row \cup {NoRow} /\ had' \subseteq Row
  BY <1>1 DEF IInv, TypeOK, RowIsOnRecord
<1>3. QED
  BY <1>1, <1>2, EndStep

-----------------------------------------------------------------------------
(* Requests, calls and the client they share.                              *)

LEMMA FreeTyped ==
    ASSUME IInv, NEW a \in Actor, Free(a), UNCHANGED <<deleted, unlocked, faults>>
    PROVE  Typed' /\ req[a].pc = "idle"
BY BoundsAssumption DEF Free, At, IInv, TypeOK, Typed

\* A step that gives a client, for which nobody else is waiting, a new value.
LEMMA OwnClientStep ==
    ASSUME IInv, NEW a \in Actor, NEW s \in Request, Set(a, s),
           NEW c \in Owner, NEW k \in Client, SetClient(c, k),
           UNCHANGED <<dl_type, row, had, daemon>>, Typed',
           Loaded(s, had), Shape(s, a, dl_type), Reported(s, daemon, dl_type), ~s.again,
           s.pc # "done" \/ s.result # "conflict",
           k.built => k.given \in had,
           \A b \in Actor : b # a /\ req[b].via = c => req[b].pc \notin OnWay,
           s.kind \in {"build", "call"} =>
               \/ req[a].kind = s.kind
               \/ \A b \in Actor : b # a => req[b].kind \notin {"build", "call"},
           Building(s) =>
               /\ IF c = Run THEN ~k.connected ELSE ~client[Run].connected
               /\ \A b \in Actor : b # a => req[b].kind \notin {"build", "call"},
           c = Run /\ k.connected =>
               \A b \in Actor : b # a => req[b].kind # "build"
    PROVE  IInv'
<1>1. req' \in [Actor -> Request] /\ req'[a] = s /\ \A b \in Actor : b # a => req'[b] = req[b]
  BY DEF IInv, TypeOK, Set
<1>2. /\ client' \in [Owner -> Client] /\ client'[c] = k
      /\ \A o \in Owner : o # c => client'[o] = client[o]
  BY DEF IInv, TypeOK, SetClient
<1>3. TypeOK'
  BY <1>1, <1>2 DEF IInv, TypeOK, Typed
<1>4. Requests'
  BY <1>1, Parts DEF Requests
<1>5. Handshakes'
  <2> SUFFICES ASSUME dl_type = "transmission", NEW b \in Actor
               PROVE  Handshake(req'[b], client'[req'[b].via].session, daemon'.session)
    BY DEF Handshakes
  <2>1. CASE b = a
    BY <1>1, <2>1 DEF Handshake
  <2>2. CASE b # a /\ req[b].via # c
    <3>1. client'[req[b].via] = client[req[b].via]
      BY <1>2, <2>2, RequestFields DEF IInv
    <3>2. QED
      BY <1>1, <2>2, <3>1, Parts
  <2>3. CASE b # a /\ req[b].via = c
    BY <1>1, <2>3, Parts DEF Handshake, OnWay
  <2>4. QED
    BY <2>1, <2>2, <2>3
<1>6. NoConflicts'
  BY <1>1, Parts DEF NoConflicts
<1>7. LoginAsStored'
  BY <1>2 DEF IInv, LoginAsStored
<1>8. BuildsAlone'
  <2> SUFFICES ASSUME NEW b \in Actor, Building(req'[b])
               PROVE  /\ ~client'[Run].connected
                      /\ \A d \in Actor : d # b => req'[d].kind \notin {"build", "call"}
    BY DEF BuildsAlone
  <2>1. CASE b = a
    BY <1>1, <1>2, <2>1, RunIsNoActor
  <2>2. CASE b # a
    <3>1. Building(req[b]) /\ req[b].kind = "build"
      BY <1>1, <2>2 DEF Building
    <3>2. /\ ~client[Run].connected
          /\ \A d \in Actor : d # b => req[d].kind \notin {"build", "call"}
      BY <3>1 DEF IInv, BuildsAlone
    <3>3. s.kind \notin {"build", "call"}
      BY <2>2, <3>1, <3>2
    <3>4. ~client'[Run].connected
      BY <1>2, <2>2, <3>1, <3>2, RunIsNoActor
    <3>5. QED
      BY <1>1, <3>2, <3>3, <3>4
  <2>3. QED
    BY <2>1, <2>2
<1>9. RowIsOnRecord'
  BY DEF IInv, RowIsOnRecord
<1>10. QED
  BY <1>3, <1>4, <1>5, <1>6, <1>7, <1>8, <1>9 DEF IInv

LEMMA BeginRequestStep ==
    ASSUME IInv, NEW a \in Actor, BeginRequest(a)
    PROVE  IInv'
<1>1. /\ Typed' /\ req[a].pc = "idle" /\ UNCHANGED <<dl_type, row, had, daemon>>
  BY FreeTyped DEF BeginRequest, table
<1>2. PICK kind \in {"create", "update", "toggle", "delete", "test", "build"},
           u \in BOOLEAN, p \in BOOLEAN :
          /\ kind = "build" => ~InUse(Run)
          /\ Set(a, [Fresh EXCEPT !.kind = kind, !.username = u, !.password = p,
                                  !.via = IF kind = "test" THEN a ELSE Run,
                                  !.pc = FirstPc(kind)])
          /\ IF kind = "build" THEN SetClient(Run, NoClient) ELSE UNCHANGED client
  BY ZenonT(60) DEF BeginRequest
<1> DEFINE via == IF kind = "test" THEN a ELSE Run
           pc == FirstPc(kind)
           s == [Fresh EXCEPT !.kind = kind, !.username = u, !.password = p, !.via = via,
                              !.pc = pc]
<1>3. /\ pc \in {"vault", "delete", "row"} /\ pc \in Pc /\ via \in Owner
      /\ pc = "vault" <=> kind = "create"
      /\ kind \in Kind
  BY RunIsNoActor DEF FirstPc, Pc, Kind
<1> HIDE DEF pc
<1>4. via = IF kind = "test" THEN a ELSE Run
  OBVIOUS
<1> HIDE DEF via
<1>5. s \in Request /\ s.kind = kind /\ s.pc = pc /\ s.via = via
      /\ s.op = "version" /\ ~s.again /\ ~s.shaken
  BY <1>3, FreshTyped DEF Request, Fresh
<1>6. Set(a, s)
  BY <1>2 DEF pc, via
<1> HIDE DEF s
<1>7. /\ Loaded(s, had) /\ Shape(s, a, dl_type) /\ Reported(s, daemon, dl_type)
      /\ s.pc # "done"
  BY <1>3, <1>4, <1>5 DEF Loaded, Shape, Reported, OnWay
<1>8. CASE kind = "build"
  <2>1. \A b \in Actor : req[b].kind \in {"build", "call"} => req[b].via = Run
    BY Parts DEF Shape
  <2>2. \A b \in Actor : req[b].kind \notin {"build", "call"}
    BY <1>2, <1>8, <2>1 DEF InUse
  <2>3. \A b \in Actor : req[b].via = Run => req[b].pc \notin OnWay
    BY <2>2, Parts, RunIsNoActor DEF Shape, Running
  <2>4. SetClient(Run, NoClient) /\ NoClient \in Client /\ ~NoClient.built
        /\ ~NoClient.connected /\ Run \in Owner
    BY <1>2, <1>8, NoClientTyped, RunIsNoActor DEF NoClient
  <2>5. QED
    BY <1>1, <1>5, <1>6, <1>7, <2>2, <2>3, <2>4, OwnClientStep
<1>9. CASE kind # "build"
  <2>1. UNCHANGED client
    BY <1>2, <1>9
  <2>2. ~Building(s) /\ s.kind \notin {"build", "call"}
    BY <1>5, <1>9 DEF Building
  <2>3. Handshake(s, client[s.via].session, daemon.session)
    BY <1>5, <1>7 DEF Handshake
  <2>4. QED
    BY <1>1, <1>5, <1>6, <1>7, <2>1, <2>2, <2>3, LocalStep
<1>10. QED
  BY <1>8, <1>9

LEMMA BeginCallStep ==
    ASSUME IInv, NEW a \in Actor, BeginCall(a)
    PROVE  IInv'
<1>1. /\ Typed' /\ req[a].pc = "idle" /\ UNCHANGED <<dl_type, row, had, daemon, client>>
      /\ client[Run].connected
  BY FreeTyped DEF BeginCall, table
<1>2. PICK op \in Call, t \in Torrent, start \in BOOLEAN :
          /\ op = "pieces" => dl_type = "qbittorrent"
          /\ Set(a, [Fresh EXCEPT !.kind = "call", !.op = op, !.torrent = t,
                                  !.start = start, !.pc = "send"])
  BY DEF BeginCall
<1> DEFINE s == [Fresh EXCEPT !.kind = "call", !.op = op, !.torrent = t, !.start = start,
                              !.pc = "send"]
<1>3. /\ s \in Request /\ s.kind = "call" /\ s.pc = "send" /\ s.via = Run
      /\ s.op = op /\ s.torrent = t /\ ~s.again /\ op \notin {"resume", "connect"}
  BY FreshTyped DEF Request, Fresh, Pc, Kind, Op, Call
<1>4. Set(a, s)
  BY <1>2
<1> HIDE DEF s
<1>5. /\ Loaded(s, had) /\ Shape(s, a, dl_type) /\ Reported(s, daemon, dl_type)
      /\ s.pc # "done" /\ ~Building(s)
  BY <1>2, <1>3 DEF Loaded, Shape, Reported, Running, Building
<1>6. \A b \in Actor : ~Building(req[b])
  BY <1>1 DEF IInv, BuildsAlone
<1>7. Handshake(s, client[s.via].session, daemon.session)
  BY <1>3 DEF Handshake
<1>8. QED
  BY <1>1, <1>3, <1>4, <1>5, <1>6, <1>7, LocalStep

LEMMA StartCallTyped ==
    ASSUME TypeOK, NEW a \in Actor, NEW op \in Op
    PROVE  LET s == StartCall(a, op)
           IN  /\ s \in Request /\ s.pc = "send" /\ s.op = op /\ s.kind = req[a].kind
               /\ s.via = req[a].via /\ s.torrent = req[a].torrent /\ ~s.again
<1>1. req[a] \in Request
  BY RequestFields
<1>2. "send" \in Pc /\ "none" \in Answer /\ 0 \in Nat
  BY DEF Pc, Answer
<1>3. QED
  BY <1>1, <1>2 DEF StartCall, Request

\* A client takes the credentials of the row that the request has read.
LEMMA BuildClientStep ==
    ASSUME IInv, NEW a \in Actor, BuildClient(a)
    PROVE  IInv'
<1> DEFINE q == req[a]
<1>1. /\ q.pc = "vault" /\ q.kind \in {"build", "test"} /\ Typed'
      /\ UNCHANGED <<dl_type, row, had, daemon>>
  BY CountersTyped DEF BuildClient, At, table, bounds, IInv, TypeOK
<1>2. CASE End(a) /\ UNCHANGED client
  BY <1>1, <1>2, EndStep DEF IInv, TypeOK, RowIsOnRecord
<1>3. ASSUME NEW secrets \in Decrypted(q.row), Set(a, StartCall(a, "connect")),
             SetClient(q.via, [NoClient EXCEPT !.built = TRUE, !.given = secrets])
      PROVE  IInv'
  <2> DEFINE k == [NoClient EXCEPT !.built = TRUE, !.given = secrets]
             s == StartCall(a, "connect")
  <2>1. secrets \in Row /\ secrets \in had
    BY <1>1, <1>3, Parts DEF Decrypted, Loaded
  <2>2. k \in Client /\ k.given = secrets /\ ~k.connected
    BY <2>1, NoClientTyped DEF NoClient, Client
  <2>3. /\ s \in Request /\ s.pc = "send" /\ s.op = "connect" /\ s.kind = q.kind
        /\ s.via = q.via /\ ~s.again
    BY StartCallTyped DEF IInv, Op
  <2> HIDE DEF s, k
  <2>4. Set(a, s) /\ SetClient(q.via, k)
    BY <1>3 DEF s, k
  <2>5. q.via = IF q.kind = "test" THEN a ELSE Run
    BY Parts DEF Shape
  <2>6. /\ Loaded(s, had) /\ Shape(s, a, dl_type) /\ Reported(s, daemon, dl_type)
        /\ s.pc # "done"
    BY <1>1, <2>3, <2>5 DEF Loaded, Shape, Reported, Running
  <2>7. Building(q) <=> q.kind = "build"
    BY <1>1 DEF Building
  <2>8. q.kind = "build" => \A b \in Actor : b # a => req[b].kind \notin {"build", "call"}
    BY <2>7 DEF IInv, BuildsAlone
  <2>9. \A b \in Actor : b # a /\ req[b].via = q.via => req[b].pc \notin OnWay
    <3> SUFFICES ASSUME NEW b \in Actor, b # a, req[b].via = q.via, req[b].pc \in OnWay
                 PROVE  FALSE
      OBVIOUS
    <3>1. req[b].kind \in Running /\ req[b].via = IF req[b].kind = "test" THEN b ELSE Run
      BY Parts DEF Shape
    <3>2. QED
      BY <1>1, <2>5, <2>8, <3>1, RunIsNoActor DEF Running
  <2>10. Building(s) => /\ q.via = Run
                        /\ \A b \in Actor : b # a => req[b].kind \notin {"build", "call"}
    BY <2>3, <2>5, <2>8 DEF Building
  <2>11. q.via \in Owner
    BY RequestFields DEF IInv
  <2>12. QED
    BY <1>1, <2>1, <2>2, <2>3, <2>4, <2>6, <2>9, <2>10, <2>11, OwnClientStep
<1>4. QED
  BY <1>2, <1>3 DEF BuildClient

-----------------------------------------------------------------------------
(* The network.                                                            *)

LEMMA SendStep ==
    ASSUME IInv, NEW a \in Actor, Send(a)
    PROVE  IInv'
<1> DEFINE q == req[a]
           s == [q EXCEPT !.session = client[q.via].session, !.pc = "wire"]
<1>1. /\ q.pc = "send" /\ Typed' /\ UNCHANGED <<dl_type, row, had, daemon, client>>
      /\ Set(a, s)
  BY CountersTyped DEF Send, At, table, bounds, IInv, TypeOK
<1>2. client[q.via].session \in Nat
  BY Parts DEF Client
<1>3. /\ s \in Request /\ s.pc = "wire" /\ s.session = client[q.via].session
      /\ s.kind = q.kind /\ s.via = q.via /\ s.op = q.op /\ s.torrent = q.torrent
      /\ s.again = q.again /\ s.shaken = q.shaken
  BY <1>2, Parts DEF Request, Pc
<1>4. Set(a, s)
  BY <1>1
<1> HIDE DEF s
<1>5. /\ Loaded(s, had) /\ Shape(s, a, dl_type) /\ Reported(s, daemon, dl_type)
      /\ s.pc # "done"
  BY <1>1, <1>3, Parts DEF Loaded, Shape, Reported, OnWay
<1>6. dl_type = "transmission" => Handshake(s, client[s.via].session, daemon.session)
  BY <1>1, <1>3, Parts DEF Handshake
<1>7. Building(s) => Building(q)
  BY <1>1, <1>3 DEF Building, OnWay
<1>8. s.kind = q.kind
  BY <1>3
<1>9. QED
  BY <1>1, <1>3, <1>4, <1>5, <1>6, <1>7, <1>8, LocalStep

\* What the downloader does to its torrents.
LEMMA ActsTyped ==
    ASSUME TypeOK, NEW op \in Op, NEW t \in Torrent \cup {NoRow},
           op = "add" => t \in Torrent,
           Acts(op, t) \/ UNCHANGED daemon
    PROVE  /\ daemon' \in [session : Nat, held : SUBSET Torrent, running : SUBSET Torrent]
           /\ daemon'.session = daemon.session
           /\ daemon.held \subseteq daemon'.held
           /\ daemon.running \subseteq daemon'.running
           /\ (Acts(op, t) /\ op = "add") => t \in daemon'.held
           /\ (Acts(op, t) /\ op = "resume" /\ t \in daemon.held) => t \in daemon'.running
BY DEF Acts, TypeOK

LEMMA ServeStep ==
    ASSUME IInv, NEW a \in Actor, Serve(a) \/ Lose(a)
    PROVE  IInv'
<1> DEFINE q == req[a]
<1>1. /\ q.pc = "wire" /\ Typed' /\ UNCHANGED <<dl_type, row, had, client>>
  BY CountersTyped DEF Serve, Lose, At, table, IInv, TypeOK
<1> SUFFICES ASSUME NEW answer \in Answer, NEW id \in Nat,
                    Set(a, [q EXCEPT !.answer = answer, !.session = id, !.pc = "receive"]),
                    Acts(q.op, q.torrent) \/ UNCHANGED daemon,
                    answer = "200" => Acts(q.op, q.torrent),
                    answer \in {"200", "404", "409"} => answer \in Serves(q)
             PROVE  IInv'
  <2>1. CASE Lose(a)
    <3>1. Set(a, [q EXCEPT !.answer = "lost", !.pc = "receive"])
      BY <2>1 DEF Lose
    <3>2. [q EXCEPT !.answer = "lost", !.pc = "receive"]
            = [q EXCEPT !.answer = "lost", !.session = q.session, !.pc = "receive"]
      BY Parts DEF Request
    <3>3. q.session \in Nat /\ "lost" \in Answer
      BY RequestFields DEF IInv, Answer
    <3>4. QED
      BY <2>1, <3>1, <3>2, <3>3 DEF Lose
  <2>2. CASE Set(a, [q EXCEPT !.answer = "error", !.pc = "receive"]) /\ UNCHANGED daemon
    <3>1. [q EXCEPT !.answer = "error", !.pc = "receive"]
            = [q EXCEPT !.answer = "error", !.session = q.session, !.pc = "receive"]
      BY Parts DEF Request
    <3>2. q.session \in Nat /\ "error" \in Answer
      BY RequestFields DEF IInv, Answer
    <3>3. QED
      BY <2>2, <3>1, <3>2
  <2>3. ASSUME NEW answer \in Serves(q),
               Set(a, [q EXCEPT !.answer = answer, !.session = daemon.session,
                                !.pc = "receive"]),
               IF answer = "200" THEN Acts(q.op, q.torrent) ELSE UNCHANGED daemon
        PROVE  IInv'
    <3>1. daemon.session \in Nat
      BY DEF IInv, TypeOK
    <3>2. answer \in Answer
      BY DEF Serves, Answer
    <3>3. QED
      BY <2>3, <3>1, <3>2
  <2>4. QED
    BY <2>1, <2>2, <2>3 DEF Serve
<1> DEFINE s == [q EXCEPT !.answer = answer, !.session = id, !.pc = "receive"]
<1>2. /\ s \in Request /\ s.pc = "receive" /\ s.session = id /\ s.answer = answer
      /\ s.kind = q.kind /\ s.via = q.via /\ s.op = q.op /\ s.torrent = q.torrent
      /\ s.again = q.again /\ s.shaken = q.shaken
  BY Parts DEF Request, Pc
<1>3. Set(a, s)
  OBVIOUS
<1> HIDE DEF s
<1>4. /\ q.op \in Op /\ q.torrent \in Torrent \cup {NoRow} /\ q.via \in Owner
      /\ (q.op = "add" => q.torrent \in Torrent)
      /\ (q.op = "resume" => q.torrent \in daemon.held)
  BY Parts, RequestFields DEF IInv, Shape, Reported
<1>5. /\ daemon' \in [session : Nat, held : SUBSET Torrent, running : SUBSET Torrent]
      /\ daemon'.session = daemon.session
      /\ daemon.held \subseteq daemon'.held /\ daemon.running \subseteq daemon'.running
      /\ (answer = "200" /\ q.op = "add") => q.torrent \in daemon'.held
      /\ (answer = "200" /\ q.op = "resume") => q.torrent \in daemon'.running
  BY <1>4, ActsTyped DEF IInv
<1>6. answer = "404" => q.op \in {"export", "pieces"}
  BY DEF Serves
<1>7. Reported(s, daemon', dl_type)
  BY <1>2, <1>4, <1>5, <1>6 DEF Reported
<1>8. Loaded(s, had') /\ Shape(s, a, dl_type)
  BY <1>1, <1>2, Parts DEF Loaded, Shape, OnWay
<1>9. dl_type = "transmission" => Handshake(s, client[s.via].session, daemon.session)
  <2> SUFFICES ASSUME dl_type = "transmission", q.again, ~q.shaken PROVE answer # "409"
    BY <1>2 DEF Handshake
  <2>1. q.session = daemon.session
    BY <1>1, Parts DEF Handshake
  <2>2. QED
    BY <2>1 DEF Serves
<1>10. (Building(s) => Building(q)) /\ s.kind = q.kind /\ s.pc # "done"
  BY <1>1, <1>2 DEF Building, OnWay
<1>11. req' \in [Actor -> Request]
  BY <1>2, <1>3 DEF IInv, TypeOK, Set
<1>12. TypeOK' /\ RowIsOnRecord' /\ had \subseteq had'
  BY <1>1, <1>5, <1>11 DEF IInv, TypeOK, Typed, RowIsOnRecord
<1>13. QED
  BY <1>1, <1>2, <1>3, <1>5, <1>7, <1>8, <1>9, <1>10, <1>12, MoveStep

\* What the client makes of an answer is what has happened.
LEMMA ReadsAreTrue ==
    ASSUME IInv, NEW a \in Actor, req[a].pc = "receive",
           ~(dl_type = "transmission" /\ req[a].answer = "409" /\ ~req[a].again),
           NEW result \in IF dl_type = "transmission" THEN TransmissionReads(req[a])
                          ELSE QBittorrentReads(req[a])
    PROVE  /\ result \in Result
           /\ (result = "ok" /\ req[a].op = "add") => req[a].torrent \in daemon.held
           /\ (result = "ok" /\ req[a].op = "resume" /\ dl_type = "transmission")
                 => req[a].torrent \in daemon.running
           /\ result = "conflict" => dl_type = "transmission" /\ req[a].shaken
<1> DEFINE q == req[a]
<1>1. /\ q.op \in Op /\ q.answer \in Answer /\ q.shaken \in BOOLEAN
      /\ dl_type \in {"transmission", "qbittorrent"} /\ Reported(q, daemon, dl_type)
      /\ q.op = "pieces" => dl_type = "qbittorrent"
  BY Parts, RequestFields DEF IInv, TypeOK, Shape
<1>2. CASE dl_type = "transmission"
  <2>1. q.op \in {"add", "list", "export", "connect", "version", "resume"}
    BY <1>1, <1>2 DEF Op, Call
  <2>2. q.answer = "409" => q.shaken
    BY <1>2, Parts DEF Handshake
  <2>3. result \in TransmissionReads(q)
    BY <1>2
  <2>4. CASE q.op = "add"
    <3>1. result = Parsed(q.answer)
      BY <2>3, <2>4 DEF TransmissionReads, TransmissionAdd
    <3>2. QED
      BY <1>1, <1>2, <2>2, <2>4, <3>1 DEF Parsed, Reported, Result
  <2>5. CASE q.op \in {"list", "connect", "version"}
    <3>1. result = Parsed(q.answer)
      BY <2>3, <2>5 DEF TransmissionReads, TransmissionList, TransmissionConnect
    <3>2. QED
      BY <1>2, <2>2, <2>5, <3>1 DEF Parsed, Result
  <2>6. CASE q.op = "resume"
    <3>1. result = IF Parsed(q.answer) = "ok" THEN "ok" ELSE "failed"
      BY <2>3, <2>6 DEF TransmissionReads, TransmissionResume
    <3>2. QED
      BY <1>1, <2>6, <3>1 DEF Parsed, Reported, Result
  <2>7. CASE q.op = "export"
    <3>1. result \in {"ok", "absent"} \/ result = Parsed(q.answer)
      BY <2>3, <2>7 DEF TransmissionReads, TransmissionExport
    <3>2. QED
      BY <1>2, <2>2, <2>7, <3>1 DEF Parsed, Result
  <2>8. QED
    BY <2>1, <2>4, <2>5, <2>6, <2>7
<1>3. CASE dl_type = "qbittorrent"
  <2>1. result \in QBittorrentReads(q)
    BY <1>3
  <2>2. result \in {"ok", "failed", "auth", "absent"}
    BY <1>1, <2>1 DEF QBittorrentReads, QBittorrentConnect, QBittorrentVersion,
       QBittorrentList, QBittorrentAdd, QBittorrentResume, QBittorrentExport,
       QBittorrentPieces, Op, Call
  <2>3. (result = "ok" /\ q.op = "add") => q.answer = "200"
    BY <2>1 DEF QBittorrentReads, QBittorrentAdd
  <2>4. QED
    BY <1>1, <1>3, <2>2, <2>3 DEF Reported, Result
<1>4. QED
  BY <1>1, <1>2, <1>3

\* A request that connects has its client to itself.
LEMMA ConnectsAlone ==
    ASSUME IInv, NEW a \in Actor, req[a].pc \in OnWay, req[a].op = "connect"
    PROVE  /\ req[a].kind \in {"build", "test"}
           /\ req[a].via = IF req[a].kind = "test" THEN a ELSE Run
           /\ req[a].kind = "build" =>
                 \A b \in Actor : b # a => req[b].kind \notin {"build", "call"}
           /\ \A b \in Actor : b # a /\ req[b].via = req[a].via => req[b].pc \notin OnWay
<1>1. /\ req[a].kind \in {"build", "test"}
      /\ req[a].via = IF req[a].kind = "test" THEN a ELSE Run
  BY Parts DEF Shape, Running
<1>2. req[a].kind = "build" =>
          \A b \in Actor : b # a => req[b].kind \notin {"build", "call"}
  BY DEF IInv, BuildsAlone, Building
<1>3. ASSUME NEW b \in Actor, b # a, req[b].via = req[a].via, req[b].pc \in OnWay
      PROVE  FALSE
  <2>1. req[b].kind \in Running /\ req[b].via = IF req[b].kind = "test" THEN b ELSE Run
    BY <1>3, Parts DEF Shape
  <2>2. QED
    BY <1>1, <1>2, <1>3, <2>1, RunIsNoActor DEF Running
<1>4. QED
  BY <1>1, <1>2, <1>3

LEMMA FinishStep ==
    ASSUME IInv, NEW a \in Actor, req[a].pc = "receive", NEW result \in Result,
           Finish(a, result), Typed', UNCHANGED <<dl_type, row, had, daemon>>,
           (result = "ok" /\ req[a].op = "add") => req[a].torrent \in daemon.held,
           (result = "ok" /\ req[a].op = "resume" /\ dl_type = "transmission")
               => req[a].torrent \in daemon.running,
           result = "conflict" => dl_type = "transmission" /\ req[a].shaken
    PROVE  IInv'
<1> DEFINE q == req[a]
           connected == q.op = "connect" /\ result = "ok"
           over == [q EXCEPT !.pc = "done", !.result = result, !.session = 0,
                             !.again = FALSE, !.answer = "none", !.start = FALSE]
<1>1. PICK s : /\ Set(a, s)
               /\ \/ s = over
                  \/ q.kind = "test" /\ connected /\ s = StartCall(a, "version")
                  \/ q.kind = "test" /\ s = StartCall(a, "list")
                  \/ q.op = "add" /\ result = "ok" /\ s = StartCall(a, "resume")
  <2> DEFINE next == CASE q.kind = "test" /\ connected -> "version"
                       [] q.kind = "test" /\ q.op = "version" -> "list"
                       [] q.op = "add" /\ result = "ok" /\ q.start -> "resume"
                       [] OTHER -> "none"
  <2>1. Set(a, IF next = "none" THEN over ELSE StartCall(a, next))
    BY DEF Finish
  <2>2. \/ next = "none"
        \/ q.kind = "test" /\ connected /\ next = "version"
        \/ q.kind = "test" /\ next = "list"
        \/ q.op = "add" /\ result = "ok" /\ next = "resume"
    OBVIOUS
  <2> HIDE DEF next, over
  <2>3. QED
    BY <2>1, <2>2
<1>2. /\ over \in Request /\ over.pc = "done" /\ over.result = result /\ ~over.again
      /\ over.kind = q.kind /\ over.via = q.via /\ over.op = q.op
      /\ over.torrent = q.torrent /\ over.shaken = q.shaken
  <2>1. "done" \in Pc /\ "none" \in Answer /\ 0 \in Nat
    BY DEF Pc, Answer
  <2>2. QED
    BY <2>1, Parts DEF Request
<1> HIDE DEF over
<1>3. /\ s \in Request /\ ~s.again /\ s.kind = q.kind /\ s.via = q.via /\ s.torrent = q.torrent
      /\ \/ s.pc = "done" /\ s.op = q.op /\ s.result = result /\ s.shaken = q.shaken
         \/ /\ s.pc = "send"
            /\ \/ q.kind = "test" /\ s.op \in {"version", "list"}
               \/ q.op = "add" /\ result = "ok" /\ s.op = "resume"
  BY <1>1, <1>2, StartCallTyped DEF IInv, Op, Call
<1>4. q.kind \in Running /\ Loaded(q, had) /\ Shape(q, a, dl_type) /\ Reported(q, daemon, dl_type)
  BY Parts DEF Shape, OnWay
<1>5. Loaded(s, had) /\ Shape(s, a, dl_type) /\ Reported(s, daemon, dl_type)
  BY <1>3, <1>4 DEF Loaded, Shape, Reported, OnWay, Running
<1>6. dl_type = "transmission" => Handshake(s, client[s.via].session, daemon.session)
  BY <1>3 DEF Handshake
<1>7. dl_type = "qbittorrent" => ~(s.pc = "done" /\ s.result = "conflict")
  BY <1>3
<1>8. CASE ~connected
  <2>1. UNCHANGED client
    BY <1>8 DEF Finish
  <2>2. Building(s) => Building(q)
    BY <1>3 DEF Building, OnWay
  <2>3. QED
    BY <1>1, <1>3, <1>5, <1>6, <1>7, <2>1, <2>2, LocalStep
<1>9. CASE connected
  <2> DEFINE k == Connected(q)
  <2>1. SetClient(q.via, k) /\ q.via \in Owner /\ client[q.via] \in Client /\ q.session \in Nat
    BY <1>9, Parts, RequestFields DEF Finish, IInv
  <2>2. k \in Client /\ k.built = client[q.via].built /\ k.given = client[q.via].given
    BY <2>1 DEF Connected, Client
  <2> HIDE DEF k
  <2>3. k.built => k.given \in had
    BY <2>1, <2>2 DEF IInv, LoginAsStored
  <2>4. /\ q.kind \in {"build", "test"} /\ q.via = IF q.kind = "test" THEN a ELSE Run
        /\ q.kind = "build" => \A b \in Actor : b # a => req[b].kind \notin {"build", "call"}
        /\ \A b \in Actor : b # a /\ req[b].via = q.via => req[b].pc \notin OnWay
    BY <1>9, ConnectsAlone DEF OnWay
  <2>5. ~Building(s)
    BY <1>3, <1>9, <2>4 DEF Building, OnWay
  <2>6. (q.via = Run /\ k.connected) => \A b \in Actor : b # a => req[b].kind # "build"
    BY <2>4, RunIsNoActor
  <2>7. s.pc # "done" \/ s.result # "conflict"
    BY <1>3, <1>9
  <2>8. QED
    BY <1>1, <1>3, <1>5, <2>1, <2>2, <2>3, <2>4, <2>5, <2>6, <2>7, OwnClientStep
<1>10. QED
  BY <1>8, <1>9

LEMMA ReceiveStep ==
    ASSUME IInv, NEW a \in Actor, Receive(a)
    PROVE  IInv'
<1> DEFINE q == req[a]
<1>1. /\ q.pc = "receive" /\ Typed' /\ UNCHANGED <<dl_type, row, had, daemon>>
  BY CountersTyped DEF Receive, At, table, bounds, IInv, TypeOK
<1>2. CASE Goto(a, "handshake") /\ UNCHANGED client
  <2> DEFINE s == [q EXCEPT !.pc = "handshake"]
  <2>1. /\ s \in Request /\ s.pc = "handshake" /\ s.kind = q.kind /\ s.via = q.via
        /\ s.op = q.op /\ s.torrent = q.torrent /\ s.again = q.again /\ s.shaken = q.shaken
    BY Parts DEF Request, Pc
  <2>2. Set(a, s)
    BY <1>2 DEF Goto
  <2> HIDE DEF s
  <2>3. Loaded(s, had) /\ Shape(s, a, dl_type) /\ Reported(s, daemon, dl_type)
    BY <1>1, <2>1, Parts DEF Loaded, Shape, Reported, OnWay
  <2>4. Handshake(s, client[s.via].session, daemon.session) /\ s.pc # "done"
    BY <2>1 DEF Handshake
  <2>5. (Building(s) => Building(q)) /\ s.kind = q.kind
    BY <1>1, <2>1 DEF Building, OnWay
  <2>6. QED
    BY <1>1, <1>2, <2>1, <2>2, <2>3, <2>4, <2>5, LocalStep
<1>3. CASE ~(dl_type = "transmission" /\ q.answer = "409" /\ ~q.again)
  <2>1. PICK result \in IF dl_type = "transmission" THEN TransmissionReads(q)
                        ELSE QBittorrentReads(q) : Finish(a, result)
    BY <1>3 DEF Receive
  <2>2. QED
    BY <1>1, <1>3, <2>1, ReadsAreTrue, FinishStep
<1>4. QED
  BY <1>2, <1>3 DEF Receive

\* Storing an id makes every call that another id was right for a shaken one.
LEMMA StoreSessionStep ==
    ASSUME IInv, NEW a \in Actor, StoreSession(a)
    PROVE  IInv'
<1> DEFINE q == req[a]
           stale == q.session # daemon.session
           k == [client[q.via] EXCEPT !.session = q.session]
           shaken(b) == req[b].shaken \/ (stale /\ (b = a \/ OnTheWay(b)) /\ req[b].via = q.via)
           moved == [q EXCEPT !.pc = "send", !.again = TRUE, !.shaken = shaken(a)]
           kept(b) == [req[b] EXCEPT !.shaken = shaken(b)]
<1>1. /\ q.pc = "handshake" /\ Typed' /\ UNCHANGED <<dl_type, row, had, daemon>>
      /\ SetClient(q.via, k) /\ OnTheWay(a)
  BY CountersTyped DEF StoreSession, At, table, bounds, IInv, TypeOK, OnTheWay
<1>2. /\ moved \in Request /\ moved.pc = "send" /\ moved.again /\ moved.shaken = shaken(a)
      /\ moved.kind = q.kind /\ moved.via = q.via /\ moved.op = q.op
      /\ moved.torrent = q.torrent
  BY Parts DEF Request, Pc
<1>3. ASSUME NEW b \in Actor
      PROVE  /\ kept(b) \in Request /\ kept(b).pc = req[b].pc /\ kept(b).kind = req[b].kind
             /\ kept(b).via = req[b].via /\ kept(b).op = req[b].op
             /\ kept(b).torrent = req[b].torrent /\ kept(b).answer = req[b].answer
             /\ kept(b).result = req[b].result /\ kept(b).row = req[b].row
             /\ kept(b).session = req[b].session /\ kept(b).again = req[b].again
             /\ kept(b).shaken = shaken(b)
  BY Parts DEF Request
<1>4. /\ req'[a] = moved /\ \A b \in Actor : b # a => req'[b] = kept(b)
      /\ req' \in [Actor -> Request]
  <2>1. req' = [b \in Actor |->
            LET old == IF b = a THEN [q EXCEPT !.pc = "send", !.again = TRUE] ELSE req[b]
            IN  [old EXCEPT !.shaken = @ \/ (stale /\ OnTheWay(b) /\ old.via = q.via)]]
    BY DEF StoreSession
  <2>2. \A b \in Actor : b # a => req'[b] = kept(b)
    BY <2>1, <1>1
  <2>3. req'[a] = moved
    BY <1>1, <2>1, Parts DEF Request
  <2>4. DOMAIN req' = Actor /\ req' = [b \in Actor |-> req'[b]]
    BY <2>1
  <2>5. ASSUME NEW b \in Actor PROVE req'[b] \in Request
    <3>1. CASE b = a
      BY <1>2, <2>3, <3>1
    <3>2. CASE b # a
      <4>1. kept(b) \in Request
        BY <1>3
      <4>2. req'[b] = kept(b)
        BY <2>2, <3>2
      <4>3. QED
        BY <4>1, <4>2
    <3>3. QED
      BY <3>1, <3>2
  <2>6. QED
    BY <2>2, <2>3, <2>4, <2>5
<1>5. q.via \in Owner /\ client[q.via] \in Client /\ q.session \in Nat
  BY Parts, RequestFields DEF IInv
<1>6. k \in Client /\ k.session = q.session /\ k.built = client[q.via].built
      /\ k.given = client[q.via].given /\ k.connected = client[q.via].connected
  BY <1>5 DEF Client
<1> HIDE DEF k, moved, kept
<1>7. /\ client' \in [Owner -> Client] /\ client'[q.via] = k
      /\ \A c \in Owner : c # q.via => client'[c] = client[c]
  BY <1>1, <1>5, <1>6 DEF IInv, TypeOK, SetClient
<1>8. TypeOK'
  BY <1>1, <1>4, <1>7 DEF IInv, TypeOK, Typed
<1>9. Requests'
  <2>1. ASSUME NEW b \in Actor
        PROVE  Loaded(req'[b], had) /\ Shape(req'[b], b, dl_type) /\ Reported(req'[b], daemon, dl_type)
    <3>1. CASE b = a
      BY <1>1, <1>2, <1>4, <3>1, Parts DEF Loaded, Shape, Reported, OnWay
    <3>2. CASE b # a
      BY <1>3, <1>4, <3>2, Parts DEF Loaded, Shape, Reported
    <3>3. QED
      BY <3>1, <3>2
  <2>2. QED
    BY <1>1, <2>1 DEF Requests
<1>10. Handshakes'
  <2> SUFFICES ASSUME dl_type = "transmission", NEW b \in Actor
               PROVE  Handshake(req'[b], client'[req'[b].via].session, daemon.session)
    BY <1>1 DEF Handshakes
  <2>1. CASE b = a
    <3>1. client'[req'[a].via].session = q.session
      BY <1>2, <1>4, <1>6, <1>7
    <3>2. ~moved.shaken => q.session = daemon.session
      BY <1>2
    <3>3. QED
      BY <1>2, <1>4, <2>1, <3>1, <3>2 DEF Handshake
  <2>2. CASE b # a /\ req[b].via # q.via
    <3>1. client'[req'[b].via] = client[req[b].via] /\ (shaken(b) = req[b].shaken)
      BY <1>3, <1>4, <1>7, <2>2, RequestFields DEF IInv
    <3>2. QED
      BY <1>3, <1>4, <2>2, <3>1, Parts DEF Handshake
  <2>3. CASE b # a /\ req[b].via = q.via
    <3>1. client'[req'[b].via].session = q.session
      BY <1>3, <1>4, <1>6, <1>7, <2>3
    <3>2. (req[b].pc = "send" /\ ~shaken(b)) => q.session = daemon.session
      BY <2>3 DEF OnTheWay
    <3>3. ~shaken(b) => ~req[b].shaken
      OBVIOUS
    <3>4. /\ req'[b].pc = req[b].pc /\ req'[b].again = req[b].again
          /\ req'[b].session = req[b].session /\ req'[b].answer = req[b].answer
          /\ req'[b].result = req[b].result /\ req'[b].shaken = shaken(b)
      <4>1. req'[b] = kept(b)
        BY <1>4, <2>3
      <4>2. QED
        BY <1>3, <4>1
    <3>5. Handshake(req[b], client[req[b].via].session, daemon.session)
      BY Parts
    <3> HIDE DEF shaken
    <3>6. ASSUME req[b].again, ~shaken(b)
          PROVE  /\ req[b].pc = "wire" => req[b].session = daemon.session
                 /\ req[b].pc = "receive" => req[b].answer # "409"
      BY <3>3, <3>5, <3>6 DEF Handshake
    <3>7. (req[b].pc = "done" /\ req[b].result = "conflict") => shaken(b)
      BY <3>3, <3>5 DEF Handshake
    <3>8. QED
      BY <3>1, <3>2, <3>4, <3>6, <3>7 DEF Handshake
  <2>4. QED
    BY <2>1, <2>2, <2>3
<1>11. NoConflicts'
  BY <1>1, <1>2, <1>3, <1>4, Parts DEF NoConflicts
<1>12. LoginAsStored'
  BY <1>1, <1>5, <1>6, <1>7 DEF IInv, LoginAsStored
<1>13. BuildsAlone'
  <2>1. \A b \in Actor : req'[b].kind = req[b].kind
    BY <1>2, <1>3, <1>4
  <2>2. \A b \in Actor : Building(req'[b]) => Building(req[b])
    BY <1>1, <1>2, <1>3, <1>4 DEF Building, OnWay
  <2>3. client'[Run].connected = client[Run].connected
    BY <1>6, <1>7, RunIsNoActor
  <2>4. QED
    BY <2>1, <2>2, <2>3 DEF IInv, BuildsAlone
<1>14. RowIsOnRecord'
  BY <1>1 DEF IInv, RowIsOnRecord
<1>15. QED
  BY <1>8, <1>9, <1>10, <1>11, <1>12, <1>13, <1>14 DEF IInv

LEMMA ReturnStep ==
    ASSUME IInv, NEW a \in Actor, Return(a)
    PROVE  IInv'
<1>1. /\ req[a].pc = "done" /\ End(a) /\ Typed' /\ UNCHANGED <<dl_type, row, had, daemon>>
  BY CountersTyped DEF Return, At, table, bounds, IInv, TypeOK
<1>2. CASE UNCHANGED client
  BY <1>1, <1>2, EndStep DEF IInv, TypeOK, RowIsOnRecord
<1>3. CASE DropOwn(a)
  <2>1. /\ Set(a, Fresh) /\ Fresh \in Request /\ Fresh.kind = "none" /\ Fresh.pc # "done"
        /\ ~Building(Fresh) /\ Loaded(Fresh, had) /\ Shape(Fresh, a, dl_type)
        /\ Reported(Fresh, daemon, dl_type) /\ ~Fresh.again
    BY <1>1, FreshTyped, FreshSound DEF End, Fresh
  <2>2. SetClient(a, NoClient) /\ NoClient \in Client /\ ~NoClient.built /\ a \in Owner
        /\ a # Run
    BY <1>3, NoClientTyped, RunIsNoActor DEF DropOwn
  <2>3. \A b \in Actor : b # a => req[b].via # a
    BY Parts, RunIsNoActor DEF Shape
  <2>4. QED
    BY <1>1, <2>1, <2>2, <2>3, OwnClientStep
<1>4. QED
  BY <1>2, <1>3 DEF Return

\* A session that ends shakes every call.
LEMMA ExpireSessionStep ==
    ASSUME IInv, ExpireSession
    PROVE  IInv'
<1> DEFINE shaken(b) == req[b].shaken \/ OnTheWay(b)
           kept(b) == [req[b] EXCEPT !.shaken = shaken(b)]
<1>1. /\ Typed' /\ UNCHANGED <<dl_type, row, had, client>>
  BY CountersTyped DEF ExpireSession, table, IInv, TypeOK
<1>2. daemon' = [daemon EXCEPT !.session = daemon.session + 1]
  BY DEF ExpireSession
<1>3. /\ daemon' \in [session : Nat, held : SUBSET Torrent, running : SUBSET Torrent]
      /\ daemon'.held = daemon.held /\ daemon'.running = daemon.running
  <2>1. daemon.session + 1 \in Nat
    BY DEF IInv, TypeOK
  <2>2. \A n \in Nat : LET d == [daemon EXCEPT !.session = n]
                       IN  /\ d \in [session : Nat, held : SUBSET Torrent, running : SUBSET Torrent]
                           /\ d.held = daemon.held /\ d.running = daemon.running
    BY DEF IInv, TypeOK
  <2>3. QED
    BY <1>2, <2>1, <2>2
<1>4. ASSUME NEW b \in Actor
      PROVE  /\ kept(b) \in Request /\ kept(b).pc = req[b].pc /\ kept(b).kind = req[b].kind
             /\ kept(b).via = req[b].via /\ kept(b).op = req[b].op
             /\ kept(b).torrent = req[b].torrent /\ kept(b).answer = req[b].answer
             /\ kept(b).result = req[b].result /\ kept(b).row = req[b].row
             /\ kept(b).again = req[b].again /\ kept(b).shaken = shaken(b)
  BY Parts DEF Request
<1>5. req' = [b \in Actor |-> kept(b)]
  BY DEF ExpireSession
<1> HIDE DEF kept
<1>6. req' \in [Actor -> Request] /\ \A b \in Actor : req'[b] = kept(b)
  BY <1>4, <1>5
<1>7. TypeOK'
  BY <1>1, <1>3, <1>6 DEF IInv, TypeOK, Typed
<1>8. Requests'
  <2>1. ASSUME NEW b \in Actor
        PROVE  Loaded(req'[b], had) /\ Shape(req'[b], b, dl_type) /\ Reported(req'[b], daemon', dl_type)
    BY <1>3, <1>4, <1>6, Parts DEF Loaded, Shape, Reported
  <2>2. QED
    BY <1>1, <2>1 DEF Requests
<1>9. Handshakes'
  <2>1. ASSUME NEW b \in Actor, dl_type = "transmission"
        PROVE  Handshake(req'[b], client[req'[b].via].session, daemon'.session)
    <3>1. /\ req'[b].pc = req[b].pc /\ req'[b].again = req[b].again
          /\ req'[b].answer = req[b].answer /\ req'[b].result = req[b].result
          /\ req'[b].shaken = (req[b].shaken \/ OnTheWay(b))
      BY <1>4, <1>6
    <3>2. Handshake(req[b], client[req[b].via].session, daemon.session)
      BY <2>1, Parts
    <3>3. CASE OnTheWay(b)
      BY <3>1, <3>3 DEF Handshake
    <3>4. CASE ~OnTheWay(b)
      BY <3>1, <3>2, <3>4 DEF Handshake, OnTheWay
    <3>5. QED
      BY <3>3, <3>4
  <2>2. QED
    BY <1>1, <2>1 DEF Handshakes
<1>10. NoConflicts'
  BY <1>1, <1>4, <1>6, Parts DEF NoConflicts
<1>11. BuildsAlone'
  BY <1>1, <1>4, <1>6 DEF IInv, BuildsAlone, Building
<1>12. LoginAsStored' /\ RowIsOnRecord'
  BY <1>1 DEF IInv, LoginAsStored, RowIsOnRecord
<1>13. QED
  BY <1>7, <1>8, <1>9, <1>10, <1>11, <1>12 DEF IInv

\* What concerns neither requests nor clients.
LEMMA QuietStep ==
    ASSUME IInv, UNCHANGED <<dl_type, row, deleted, had, client, daemon, req, used, faults>>,
           unlocked' \in BOOLEAN
    PROVE  IInv'
<1>1. TypeOK'
  BY DEF IInv, TypeOK
<1>2. Requests' /\ Handshakes' /\ NoConflicts'
  BY DEF IInv, Requests, Handshakes, NoConflicts
<1>3. BuildsAlone' /\ RowIsOnRecord' /\ LoginAsStored'
  BY DEF IInv, BuildsAlone, RowIsOnRecord, LoginAsStored
<1>4. QED
  BY <1>1, <1>2, <1>3 DEF IInv

LEMMA NextStep ==
    ASSUME IInv, [Next]_vars
    PROVE  IInv'
<1>1. ASSUME NEW a \in Actor, Proceed(a) PROVE IInv'
  BY <1>1, ReadRowStep, CopyVaultStep, InsertRowStep, WriteBackStep, DeleteRowStep,
     BuildClientStep, SendStep, ServeStep, ReceiveStep, StoreSessionStep, ReturnStep
     DEF Proceed
<1>2. CASE Login
  <2>1. /\ UNCHANGED <<dl_type, row, deleted, had, client, daemon, req, used, faults>>
        /\ unlocked' \in BOOLEAN
    BY <1>2 DEF Login, table, bounds
  <2>2. QED
    BY <2>1, QuietStep
<1>3. CASE UNCHANGED vars
  <2>1. /\ UNCHANGED <<dl_type, row, deleted, had, client, daemon, req, used, faults>>
        /\ unlocked' \in BOOLEAN
    BY <1>3 DEF vars, IInv, TypeOK
  <2>2. QED
    BY <2>1, QuietStep
<1>4. ASSUME NEW a \in Actor, BeginRequest(a) \/ BeginCall(a) PROVE IInv'
  BY <1>4, BeginRequestStep, BeginCallStep
<1>5. ASSUME NEW a \in Actor, StatementFails(a) \/ Lose(a) PROVE IInv'
  BY <1>5, StatementFailsStep, ServeStep
<1>6. CASE ExpireSession
  BY <1>6, ExpireSessionStep
<1>7. QED
  BY <1>1, <1>2, <1>3, <1>4, <1>5, <1>6 DEF Next

LEMMA InitIInv ==
    ASSUME Init
    PROVE  IInv
<1> DEFINE none == [c \in Owner |-> NoClient]
           k == [built |-> TRUE, connected |-> TRUE, given |-> row, session |-> 1]
<1>1. /\ dl_type \in {"transmission", "qbittorrent"} /\ row \in {NoRow, Original}
      /\ deleted = FALSE /\ unlocked \in BOOLEAN
      /\ daemon = [session |-> 1, held |-> {}, running |-> {}]
      /\ req = [a \in Actor |-> Fresh] /\ used = 0 /\ faults = 0 /\ had = {row} \ {NoRow}
      /\ client = none \/ (row = Original /\ client = [none EXCEPT ![Run] = k])
  BY DEF Init
<1>2. had \subseteq Row /\ row \in Row \cup {NoRow} /\ RowIsOnRecord
  BY <1>1, BlankTyped DEF RowIsOnRecord
<1>3. client \in [Owner -> Client] /\ LoginAsStored
  <2>1. CASE client = none
    BY <2>1, NoClientTyped DEF LoginAsStored
  <2>2. CASE row = Original /\ client = [none EXCEPT ![Run] = k]
    <3>1. k \in Client /\ k.given = row
      BY <2>2, BlankTyped DEF Client
    <3> HIDE DEF k
    <3>2. row \in had
      BY <1>1, <2>2, BlankTyped, BoundsAssumption
    <3>3. /\ client \in [Owner -> Client]
          /\ \A c \in Owner : client[c] = IF c = Run THEN k ELSE NoClient
      BY <2>2, <3>1, NoClientTyped
    <3>4. QED
      BY <3>1, <3>2, <3>3, NoClientTyped DEF LoginAsStored
  <2>3. QED
    BY <1>1, <2>1, <2>2
<1>4. req \in [Actor -> Request] /\ \A a \in Actor : req[a] = Fresh
  BY <1>1, FreshTyped
<1>5. used \in 0 .. MaxRequests /\ faults \in 0 .. MaxFaults
  BY <1>1, BoundsAssumption
<1>6. TypeOK
  BY <1>1, <1>2, <1>3, <1>4, <1>5 DEF TypeOK
<1>7. Requests /\ Handshakes /\ NoConflicts /\ BuildsAlone
  BY <1>4, FreshSound DEF Requests, Handshakes, NoConflicts, BuildsAlone
<1>8. QED
  BY <1>2, <1>3, <1>6, <1>7 DEF IInv

LEMMA IInvHolds == Spec => []IInv
<1>1. Init => IInv
  BY InitIInv
<1>2. IInv /\ [Next]_vars => IInv'
  BY NextStep
<1>3. QED
  BY <1>1, <1>2, PTL DEF Spec

-----------------------------------------------------------------------------
(* The theorems.                                                           *)

\* The row, the clients, the downloader and every request keep their types.
THEOREM TypeCorrect == Spec => []TypeOK
<1>1. IInv => TypeOK
  BY DEF IInv
<1>2. QED
  BY <1>1, IInvHolds, PTL

\* An add or a start that a client reports as done has been done, for any losses,
\* restarts and numbers of callers of one client.
THEOREM ReportsAreTrue == Spec => []OkIsTrue
<1>1. IInv => OkIsTrue
  BY Parts DEF Reported, OkIsTrue, At
<1>2. QED
  BY <1>1, IInvHolds, PTL

\* One repetition of the handshake is enough unless an id went stale meanwhile.
THEOREM OneHandshakeSuffices == Spec => []HandshakeSuffices
<1>1. IInv => HandshakeSuffices
  BY Parts DEF Handshake, HandshakeSuffices, At, IInv, TypeOK
<1>2. QED
  BY <1>1, IInvHolds, PTL

\* No client ever logs in with credentials that the row has not had.
THEOREM LoginsAreStored == Spec => []LoginAsStored
<1>1. IInv => LoginAsStored
  BY DEF IInv
<1>2. QED
  BY <1>1, IInvHolds, PTL

-----------------------------------------------------------------------------
(***************************************************************************)
(* The scan phase.                                                         *)
(***************************************************************************)
ScanPoints == {"idle", "list", "next", "existing", "send", "dest"} \cup Ways

ScanRecord == [at : ScanPoints, listed : BOOLEAN, todo : SUBSET Torrents,
               hash : Torrents \cup {NoTorrent}, parsed : SUBSET Torrents,
               unsent : SUBSET Torrents, usable : SUBSET Ways, hits : SUBSET Ways,
               misses : Nat]

\* Rows, what is on its way to the writer, and the locals of the scans.
ScanTypes ==
    /\ cache \subseteq Torrents /\ queue \in Seq(SUBSET Torrents)
    /\ writer \in {"up", "dead"}
    /\ scan \in [Scans -> ScanRecord]
    /\ found \subseteq Torrents /\ scans \in Nat

\* While a scan asks its client: a way under way is in use and was given a torrent,
\* and the pieces hash, the last resort, is never given up.
WayOK(r) ==
    /\ r.at \in Ways => r.at \in r.usable /\ r.hash \in Torrents
    /\ r.at \in {"list", "next"} \cup Ways => "pieces" \in r.usable

\* A scan that has something has not given up.
Thorough(r) ==
    /\ r.hits \subseteq r.usable
    /\ r.at \in {"existing", "send", "dest"} /\ r.hits # {} => r.todo = {}

\* Cached, or on its way to be.
Kept == cache \cup UNION ToSet(queue)

\* What a scan need not send any more is in the cache or was sent.
Sent(r) ==
    /\ r.at = "send" => r.parsed \subseteq Kept \cup r.unsent
    /\ r.at = "dest" => r.parsed \subseteq Kept

ScanInv ==
    /\ ScanTypes
    /\ \A s \in Scans : WayOK(scan[s]) /\ Thorough(scan[s])
    /\ writer = "up" => found \subseteq Kept /\ \A s \in Scans : Sent(scan[s])

-----------------------------------------------------------------------------
(* The queue of the writer.                                                *)

LEMMA InQueue ==
    ASSUME NEW q \in Seq(SUBSET Torrents), NEW x
    PROVE  x \in UNION ToSet(q) <=> \E i \in 1 .. Len(q) : x \in q[i]
BY DEF ToSet

\* What is sent is on its way, and nothing that was is lost.
LEMMA QueueGrows ==
    ASSUME NEW q \in Seq(SUBSET Torrents), NEW b \in SUBSET Torrents
    PROVE  /\ Append(q, b) \in Seq(SUBSET Torrents)
           /\ UNION ToSet(Append(q, b)) = b \cup UNION ToSet(q)
<1>1. /\ Append(q, b) \in Seq(SUBSET Torrents) /\ Len(Append(q, b)) = Len(q) + 1
      /\ Len(q) \in Nat /\ Append(q, b)[Len(q) + 1] = b
      /\ \A i \in 1 .. Len(q) : Append(q, b)[i] = q[i]
  OBVIOUS
<1>2. ASSUME NEW x PROVE x \in UNION ToSet(Append(q, b)) <=> x \in b \/ x \in UNION ToSet(q)
  <2>1. x \in UNION ToSet(Append(q, b)) <=>
            \E i \in 1 .. Len(q) + 1 : x \in Append(q, b)[i]
    BY <1>1, InQueue
  <2>2. x \in UNION ToSet(q) <=> \E i \in 1 .. Len(q) : x \in q[i]
    BY InQueue
  <2>3. \A i \in 1 .. Len(q) + 1 : i \in 1 .. Len(q) \/ i = Len(q) + 1
    BY <1>1
  <2>4. Len(q) + 1 \in 1 .. Len(q) + 1 /\ 1 .. Len(q) \subseteq 1 .. Len(q) + 1
    BY <1>1
  <2>5. QED
    BY <1>1, <2>1, <2>2, <2>3, <2>4
<1>3. QED
  BY <1>1, <1>2

\* What leaves the head of the queue is the only thing that leaves it.
LEMMA QueueShrinks ==
    ASSUME NEW q \in Seq(SUBSET Torrents), q # <<>>
    PROVE  /\ Tail(q) \in Seq(SUBSET Torrents) /\ Head(q) \in SUBSET Torrents
           /\ UNION ToSet(q) \subseteq Head(q) \cup UNION ToSet(Tail(q))
<1>1. /\ Tail(q) \in Seq(SUBSET Torrents) /\ Len(Tail(q)) = Len(q) - 1
      /\ Len(q) \in Nat \ {0} /\ Head(q) = q[1] /\ q[1] \in SUBSET Torrents
      /\ \A i \in 1 .. Len(q) - 1 : Tail(q)[i] = q[i + 1]
  OBVIOUS
<1>2. ASSUME NEW x, x \in UNION ToSet(q), x \notin Head(q)
      PROVE  x \in UNION ToSet(Tail(q))
  <2>1. PICK i \in 1 .. Len(q) : x \in q[i]
    BY <1>2, InQueue
  <2>2. i # 1
    BY <1>1, <1>2, <2>1
  <2>3. i - 1 \in 1 .. Len(Tail(q)) /\ (i - 1) + 1 = i
    BY <1>1, <2>1, <2>2
  <2>4. Tail(q)[i - 1] = q[i]
    BY <1>1, <2>3
  <2>5. QED
    BY <1>1, <2>1, <2>3, <2>4, InQueue
<1>3. QED
  BY <1>1, <1>2

-----------------------------------------------------------------------------
(* The batches of the ingestion.                                           *)

\* A set that has k elements or more has a subset of k elements.
LEMMA SubsetOfSize ==
    ASSUME NEW S, IsFiniteSet(S), NEW k \in Nat, k <= Cardinality(S)
    PROVE  \E b \in SUBSET S : Cardinality(b) = k
<1>1. Cardinality(S) \in Nat /\ ExistsBijection(1 .. Cardinality(S), S)
  BY FS_CardinalityType
<1>2. PICK f \in Bijection(1 .. Cardinality(S), S) : TRUE
  BY <1>1 DEF ExistsBijection
<1> DEFINE b == {f[i] : i \in 1 .. k}
           g == [i \in 1 .. k |-> f[i]]
<1>3. 1 .. k \subseteq 1 .. Cardinality(S)
  BY <1>1
<1>4. b \in SUBSET S
  BY <1>2, <1>3 DEF Bijection, Injection, Surjection
<1>5. g \in Bijection(1 .. k, b)
  <2>1. g \in [1 .. k -> b]
    OBVIOUS
  <2>2. \A i, j \in 1 .. k : g[i] = g[j] => i = j
    BY <1>2, <1>3 DEF Bijection, Injection, IsInjective
  <2>3. \A x \in b : \E i \in 1 .. k : g[i] = x
    OBVIOUS
  <2> HIDE DEF g, b
  <2>4. QED
    BY <2>1, <2>2, <2>3 DEF Bijection, Injection, Surjection, IsInjective
<1>6. Cardinality(b) = k
  BY <1>5, FS_CountingElements DEF ExistsBijection
<1>7. QED
  BY <1>4, <1>6

\* The loop ends when nothing is left, and what it takes it takes from the rest.
LEMMA NothingLeft ==
    ASSUME NEW unsent \in SUBSET Torrents
    PROVE  /\ Batches(unsent) = {} => unsent = {}
           /\ Batches(unsent) \subseteq SUBSET unsent
<1>1. IsFiniteSet(unsent)
  BY ScannerAssumption, FS_Subset
<1>2. Cardinality(unsent) \in Nat
  BY <1>1, FS_CardinalityType
<1>3. CASE Cardinality(unsent) < BatchSize
  BY <1>3 DEF Batches
<1>4. CASE ~(Cardinality(unsent) < BatchSize)
  <2>1. BatchSize \in Nat /\ BatchSize <= Cardinality(unsent)
    BY <1>2, <1>4, ScannerAssumption
  <2>2. \E b \in SUBSET unsent : Cardinality(b) = BatchSize
    BY <1>1, <2>1, SubsetOfSize
  <2>3. QED
    BY <1>4, <2>2 DEF Batches
<1>5. QED
  BY <1>3, <1>4

-----------------------------------------------------------------------------
(* The steps of a scan.                                                    *)

LEMMA IdleScan == NoScan \in ScanRecord /\ WayOK(NoScan) /\ Thorough(NoScan) /\ Sent(NoScan)
<1>1. NoScan \in ScanRecord
  BY DEF NoScan, ScanRecord, ScanPoints, Ways
<1>2. NoScan.at = "idle" /\ NoScan.hits = {}
  BY DEF NoScan
<1>3. QED
  BY <1>1, <1>2 DEF WayOK, Thorough, Sent, Ways

LEMMA MoveScan ==
    ASSUME ScanTypes, NEW s \in Scans, NEW r \in ScanRecord, Move(s, r)
    PROVE  /\ scan' \in [Scans -> ScanRecord] /\ scan'[s] = r
           /\ \A t \in Scans : t # s => scan'[t] = scan[t]
BY DEF ScanTypes, Move

\* A scan moves; cache, queue and writer stay as they are.
LEMMA QuietScan ==
    ASSUME ScanInv, NEW s \in Scans, NEW r \in ScanRecord, Move(s, r),
           WayOK(r), Thorough(r), writer = "up" => Sent(r),
           UNCHANGED <<cache, queue, writer, found>>, scans' \in Nat
    PROVE  ScanInv'
<1>1. /\ scan' \in [Scans -> ScanRecord] /\ scan'[s] = r
      /\ \A t \in Scans : t # s => scan'[t] = scan[t]
  BY MoveScan DEF ScanInv
<1>2. ScanTypes'
  BY <1>1 DEF ScanInv, ScanTypes
<1>3. Kept' = Kept
  BY DEF Kept
<1>4. ASSUME NEW t \in Scans
      PROVE  WayOK(scan[t])' /\ Thorough(scan[t])' /\ (writer' = "up" => Sent(scan[t])')
  BY <1>1, <1>3 DEF ScanInv, WayOK, Thorough, Sent
<1>5. writer' = "up" => found' \subseteq Kept'
  BY <1>3 DEF ScanInv
<1>6. QED
  BY <1>2, <1>4, <1>5 DEF ScanInv

\* What the invariant says of one scan.
LEMMA OneScan ==
    ASSUME ScanInv, NEW s \in Scans
    PROVE  /\ scan[s] \in ScanRecord /\ WayOK(scan[s]) /\ Thorough(scan[s])
           /\ writer = "up" => Sent(scan[s])
           /\ scans \in Nat
BY DEF ScanInv, ScanTypes

\* A scan that ends, or that fails, promises nothing.
LEMMA GivesUp ==
    ASSUME ScanInv, NEW s \in Scans, Move(s, NoScan), Quiet
    PROVE  ScanInv'
BY QuietScan, IdleScan, OneScan DEF Quiet

\* A scan that is not in its ingestion has nothing sent to answer for.
LEMMA NotSending ==
    ASSUME NEW r, r.at \notin {"send", "dest"}
    PROVE  Sent(r)
BY DEF Sent

LEMMA StartFolderStep ==
    ASSUME ScanInv, NEW s \in Scans, NEW parsed \in SUBSET Torrents, StartFolder(s, parsed)
    PROVE  ScanInv'
<1> DEFINE r == [NoScan EXCEPT !.at = "existing", !.parsed = parsed, !.usable = {}]
<1>1. /\ r \in ScanRecord /\ r.at = "existing" /\ r.usable = {} /\ r.hits = {}
      /\ r.todo = {}
  BY DEF NoScan, ScanRecord, ScanPoints, Ways
<1>2. Move(s, r) /\ UNCHANGED <<cache, queue, writer, found>> /\ scans' = scans + 1
  BY DEF StartFolder, Begin
<1> HIDE DEF r
<1>3. WayOK(r) /\ Thorough(r) /\ Sent(r)
  BY <1>1 DEF WayOK, Thorough, Sent, Ways
<1>4. scans' \in Nat
  BY <1>2, OneScan
<1>5. QED
  BY <1>1, <1>2, <1>3, <1>4, QuietScan

LEMMA StartDownloaderStep ==
    ASSUME ScanInv, NEW s \in Scans, NEW parsed \in SUBSET Torrents,
           StartDownloader(s, parsed)
    PROVE  ScanInv'
<1> DEFINE r == [NoScan EXCEPT !.at = "list", !.parsed = parsed]
<1>1. r \in ScanRecord /\ r.at = "list" /\ r.usable = Ways /\ r.hits = {}
  BY DEF NoScan, ScanRecord, ScanPoints, Ways
<1>2. Move(s, r) /\ UNCHANGED <<cache, queue, writer, found>> /\ scans' = scans + 1
  BY DEF StartDownloader, Begin
<1> HIDE DEF r
<1>3. WayOK(r) /\ Thorough(r) /\ Sent(r)
  BY <1>1 DEF WayOK, Thorough, Sent, Ways
<1>4. scans' \in Nat
  BY <1>2, OneScan
<1>5. QED
  BY <1>1, <1>2, <1>3, <1>4, QuietScan

LEMMA ListStep ==
    ASSUME ScanInv, NEW s \in Scans, NEW listed \in SUBSET Torrents, List(s, listed)
    PROVE  ScanInv'
<1> DEFINE r == scan[s]
           n == [r EXCEPT !.at = "next", !.listed = (listed # {}),
                          !.todo = listed \ r.parsed]
<1>1. r \in ScanRecord /\ WayOK(r) /\ Thorough(r) /\ r.at = "list" /\ scans \in Nat
  BY OneScan DEF List
<1>2. Move(s, n) /\ Quiet
  BY DEF List
<1>3. n \in ScanRecord /\ n.at = "next" /\ n.usable = r.usable /\ n.hits = r.hits
  BY <1>1 DEF ScanRecord, ScanPoints
<1> HIDE DEF n
<1>4. WayOK(n) /\ Thorough(n) /\ Sent(n)
  BY <1>1, <1>3 DEF WayOK, Thorough, Sent, Ways
<1>5. QED
  BY <1>1, <1>2, <1>3, <1>4, QuietScan DEF Quiet

LEMMA VisitStep ==
    ASSUME ScanInv, NEW s \in Scans, Visit(s)
    PROVE  ScanInv'
<1> DEFINE r == scan[s]
<1>1. r \in ScanRecord /\ WayOK(r) /\ Thorough(r) /\ r.at = "next" /\ scans \in Nat
  BY OneScan DEF Visit
<1>2. PICK h \in r.todo, w \in FirstWays(r) :
          Move(s, [r EXCEPT !.at = w, !.hash = h, !.todo = @ \ {h}])
  BY DEF Visit
<1> DEFINE n == [r EXCEPT !.at = w, !.hash = h, !.todo = @ \ {h}]
<1>3. w \in Ways /\ w \in r.usable /\ "pieces" \in r.usable
  BY <1>1 DEF FirstWays, Remote, WayOK, Ways
<1>4. n \in ScanRecord /\ n.at = w /\ n.hash = h /\ n.usable = r.usable /\ n.hits = r.hits
      /\ h \in Torrents
  BY <1>1, <1>3 DEF ScanRecord, ScanPoints
<1>5. Move(s, n) /\ Quiet
  BY <1>2 DEF Visit
<1> HIDE DEF n
<1>6. WayOK(n) /\ Thorough(n) /\ Sent(n)
  BY <1>1, <1>3, <1>4 DEF WayOK, Thorough, Sent, Ways
<1>7. QED
  BY <1>1, <1>4, <1>5, <1>6, QuietScan DEF Quiet

LEMMA EndVisitsStep ==
    ASSUME ScanInv, NEW s \in Scans, EndVisits(s)
    PROVE  ScanInv'
<1> DEFINE r == scan[s]
           n == [r EXCEPT !.at = "existing", !.misses = 0]
<1>1. r \in ScanRecord /\ WayOK(r) /\ Thorough(r) /\ r.at = "next" /\ scans \in Nat
  BY OneScan DEF EndVisits
<1>2. Quiet /\ (r.todo = {} \/ r.hits = {}) /\ (Move(s, NoScan) \/ Move(s, n))
  BY DEF EndVisits, GiveUp
<1>3. n \in ScanRecord /\ n.at = "existing" /\ n.usable = r.usable /\ n.hits = r.hits
      /\ n.todo = r.todo
  BY <1>1 DEF ScanRecord, ScanPoints
<1> HIDE DEF n
<1>4. WayOK(n) /\ Thorough(n) /\ Sent(n)
  BY <1>1, <1>2, <1>3 DEF WayOK, Thorough, Sent, Ways
<1>5. CASE Move(s, n)
  BY <1>1, <1>2, <1>3, <1>4, <1>5, QuietScan DEF Quiet
<1>6. QED
  BY <1>2, <1>5, GivesUp

\* A hit counts for its way, and leaves what has had a hit in use.
LEMMA HitStep ==
    ASSUME ScanInv, NEW s \in Scans, NEW usable \in SUBSET Ways, scan[s].at \in Ways,
           Hit(s, usable), Quiet, scan[s].hits \subseteq usable, scan[s].at \in usable,
           "pieces" \in usable
    PROVE  ScanInv'
<1> DEFINE r == scan[s]
           n == [r EXCEPT !.at = "next", !.hash = NoTorrent, !.misses = 0,
                          !.parsed = @ \cup {r.hash}, !.hits = @ \cup {r.at},
                          !.usable = usable]
<1>1. r \in ScanRecord /\ WayOK(r) /\ Thorough(r) /\ r.hash \in Torrents /\ scans \in Nat
  BY OneScan DEF WayOK
<1>2. Move(s, n)
  BY DEF Hit
<1>3. n \in ScanRecord /\ n.at = "next" /\ n.usable = usable /\ n.hits = r.hits \cup {r.at}
  BY <1>1 DEF ScanRecord, ScanPoints
<1> HIDE DEF n
<1>4. WayOK(n) /\ Thorough(n) /\ Sent(n)
  BY <1>1, <1>3 DEF WayOK, Thorough, Sent, Ways
<1>5. QED
  BY <1>1, <1>2, <1>3, <1>4, QuietScan DEF Quiet

\* The next way is tried, with or without the one before.
LEMMA NextWayStep ==
    ASSUME ScanInv, NEW s \in Scans, NEW usable \in SUBSET Ways, NEW w \in Ways,
           scan[s].at \in Ways, w \in usable, "pieces" \in usable,
           scan[s].hits \subseteq usable, Quiet,
           Move(s, [scan[s] EXCEPT !.usable = usable, !.at = w])
    PROVE  ScanInv'
<1> DEFINE r == scan[s]
           n == [r EXCEPT !.usable = usable, !.at = w]
<1>1. r \in ScanRecord /\ WayOK(r) /\ Thorough(r) /\ r.hash \in Torrents /\ scans \in Nat
  BY OneScan DEF WayOK
<1>2. n \in ScanRecord /\ n.at = w /\ n.usable = usable /\ n.hits = r.hits
      /\ n.hash = r.hash
  BY <1>1 DEF ScanRecord, ScanPoints
<1>3. Move(s, n)
  OBVIOUS
<1> HIDE DEF n
<1>4. WayOK(n) /\ Thorough(n) /\ Sent(n)
  BY <1>1, <1>2 DEF WayOK, Thorough, Sent, Ways
<1>5. QED
  BY <1>1, <1>2, <1>3, <1>4, QuietScan DEF Quiet

LEMMA ReadLocalStep ==
    ASSUME ScanInv, NEW s \in Scans, ReadLocal(s)
    PROVE  ScanInv'
<1> DEFINE r == scan[s]
           Then(usable) == Move(s, [r EXCEPT !.usable = usable, !.at = Remote(usable)])
<1>1. r \in ScanRecord /\ WayOK(r) /\ Thorough(r) /\ r.at = "local" /\ Quiet
  BY OneScan DEF ReadLocal
<1>2. /\ r.usable \in SUBSET Ways /\ r.hits \subseteq r.usable
      /\ "local" \in r.usable /\ "pieces" \in r.usable /\ r.at \in Ways
  BY <1>1 DEF WayOK, Thorough, ScanRecord, Ways
<1>3. CASE Hit(s, r.usable)
  BY <1>1, <1>2, <1>3, HitStep
<1>4. ASSUME NEW usable \in SUBSET Ways, "pieces" \in usable, r.hits \subseteq usable,
             Then(usable)
      PROVE  ScanInv'
  <2>1. Remote(usable) \in usable
    BY <1>4 DEF Remote
  <2>2. QED
    BY <1>1, <1>2, <1>4, <2>1, NextWayStep
<1>5. CASE Then(r.usable)
  BY <1>2, <1>4, <1>5
<1>6. CASE Then(Unreadable(r))
  <2>1. Unreadable(r) \in SUBSET Ways /\ "pieces" \in Unreadable(r)
        /\ r.hits \subseteq Unreadable(r)
    BY <1>2 DEF Unreadable
  <2>2. QED
    BY <1>4, <1>6, <2>1
<1>7. QED
  BY <1>3, <1>5, <1>6 DEF ReadLocal

LEMMA ExportStep ==
    ASSUME ScanInv, NEW s \in Scans, Export(s)
    PROVE  ScanInv'
<1> DEFINE r == scan[s]
<1>1. r \in ScanRecord /\ WayOK(r) /\ Thorough(r) /\ r.at = "export" /\ Quiet
  BY OneScan DEF Export
<1>2. /\ r.usable \in SUBSET Ways /\ r.hits \subseteq r.usable
      /\ "export" \in r.usable /\ "pieces" \in r.usable /\ r.at \in Ways
  BY <1>1 DEF WayOK, Thorough, ScanRecord, Ways
<1>3. CASE Hit(s, r.usable)
  BY <1>1, <1>2, <1>3, HitStep
<1>4. CASE Advance(s, "pieces")
  <2>1. [r EXCEPT !.at = "pieces"] = [r EXCEPT !.usable = r.usable, !.at = "pieces"]
    BY <1>1 DEF ScanRecord
  <2>2. Move(s, [r EXCEPT !.usable = r.usable, !.at = "pieces"])
    BY <1>4, <2>1 DEF Advance
  <2>3. "pieces" \in Ways
    BY DEF Ways
  <2>4. QED
    BY <1>1, <1>2, <2>2, <2>3, NextWayStep
<1>5. QED
  BY <1>3, <1>4 DEF Export

LEMMA PiecesHashStep ==
    ASSUME ScanInv, NEW s \in Scans, PiecesHash(s)
    PROVE  ScanInv'
<1> DEFINE r == scan[s]
           m == r.misses + 1
           n == [r EXCEPT !.at = "next", !.hash = NoTorrent, !.misses = m]
<1>1. r \in ScanRecord /\ WayOK(r) /\ Thorough(r) /\ r.at = "pieces" /\ Quiet
      /\ scans \in Nat
  BY OneScan DEF PiecesHash
<1>2. /\ r.usable \in SUBSET Ways /\ r.hits \subseteq r.usable
      /\ "pieces" \in r.usable /\ r.at \in Ways
  BY <1>1 DEF WayOK, Thorough, ScanRecord, Ways
<1>3. CASE Hit(s, AfterPieces(r))
  <2>1. /\ AfterPieces(r) \in SUBSET Ways /\ r.hits \subseteq AfterPieces(r)
        /\ "pieces" \in AfterPieces(r)
    BY <1>2 DEF AfterPieces
  <2>2. QED
    BY <1>1, <1>2, <1>3, <2>1, HitStep
<1>4. CASE Move(s, n)
  <2> m \in Nat
    BY <1>1 DEF ScanRecord
  <2> HIDE DEF m
  <2>1. n \in ScanRecord /\ n.at = "next" /\ n.usable = r.usable /\ n.hits = r.hits
    BY <1>1 DEF ScanRecord, ScanPoints
  <2> HIDE DEF n
  <2>2. WayOK(n) /\ Thorough(n) /\ Sent(n)
    BY <1>1, <1>2, <2>1 DEF WayOK, Thorough, Sent, Ways
  <2>3. QED
    BY <1>1, <1>4, <2>1, <2>2, QuietScan DEF Quiet
<1>5. QED
  BY <1>3, <1>4 DEF PiecesHash

LEMMA FindExistingStep ==
    ASSUME ScanInv, NEW s \in Scans, FindExisting(s)
    PROVE  ScanInv'
<1> DEFINE r == scan[s]
           n == [r EXCEPT !.at = "send", !.unsent = r.parsed \ cache]
<1>1. r \in ScanRecord /\ WayOK(r) /\ Thorough(r) /\ r.at = "existing" /\ scans \in Nat
  BY OneScan DEF FindExisting
<1>2. Move(s, n) /\ Quiet
  BY DEF FindExisting
<1>3. /\ n \in ScanRecord /\ n.at = "send" /\ n.usable = r.usable /\ n.hits = r.hits
      /\ n.todo = r.todo /\ n.parsed = r.parsed /\ n.unsent = r.parsed \ cache
  BY <1>1 DEF ScanRecord, ScanPoints
<1> HIDE DEF n
<1>4. WayOK(n) /\ Thorough(n)
  BY <1>1, <1>3 DEF WayOK, Thorough, Ways
<1>5. Sent(n)
  BY <1>3 DEF Sent, Kept
<1>6. QED
  BY <1>1, <1>2, <1>3, <1>4, <1>5, QuietScan DEF Quiet

LEMMA EndIngestStep ==
    ASSUME ScanInv, NEW s \in Scans, EndIngest(s)
    PROVE  ScanInv'
<1> DEFINE r == scan[s]
           n == [r EXCEPT !.at = "dest"]
<1>1. r \in ScanRecord /\ WayOK(r) /\ Thorough(r) /\ r.at = "send" /\ scans \in Nat
      /\ (writer = "up" => Sent(r))
  BY OneScan DEF EndIngest
<1>2. Move(s, n) /\ Quiet /\ Batches(r.unsent) = {}
  BY DEF EndIngest, Advance
<1>3. /\ n \in ScanRecord /\ n.at = "dest" /\ n.usable = r.usable /\ n.hits = r.hits
      /\ n.todo = r.todo /\ n.parsed = r.parsed /\ r.unsent \in SUBSET Torrents
  BY <1>1 DEF ScanRecord, ScanPoints
<1> HIDE DEF n
<1>4. WayOK(n) /\ Thorough(n)
  BY <1>1, <1>3 DEF WayOK, Thorough, Ways
<1>5. r.unsent = {}
  BY <1>2, <1>3, NothingLeft
<1>6. writer = "up" => Sent(n)
  BY <1>1, <1>3, <1>5 DEF Sent
<1>7. QED
  BY <1>1, <1>2, <1>3, <1>4, <1>6, QuietScan DEF Quiet

LEMMA FailStep ==
    ASSUME ScanInv, NEW s \in Scans, Fail(s)
    PROVE  ScanInv'
BY GivesUp DEF Fail

-----------------------------------------------------------------------------
(* The steps that send, commit or return.                                  *)

LEMMA SendBatchStep ==
    ASSUME ScanInv, NEW s \in Scans, SendBatch(s)
    PROVE  ScanInv'
<1> DEFINE r == scan[s]
<1>1. r \in ScanRecord /\ WayOK(r) /\ Thorough(r) /\ r.at = "send" /\ scans \in Nat
      /\ (writer = "up" => Sent(r)) /\ UNCHANGED <<cache, writer, found, scans>>
  BY OneScan DEF SendBatch
<1>2. CASE writer = "dead"
  BY <1>1, <1>2, GivesUp DEF SendBatch, Quiet
<1>3. CASE writer # "dead"
  <2>1. PICK b \in Batches(r.unsent) :
            queue' = Append(queue, b) /\ Move(s, [r EXCEPT !.unsent = @ \ b])
    BY <1>3 DEF SendBatch
  <2> DEFINE n == [r EXCEPT !.unsent = @ \ b]
  <2>2. r.unsent \in SUBSET Torrents
    BY <1>1 DEF ScanRecord
  <2>3. b \in SUBSET Torrents
    BY <2>1, <2>2, NothingLeft
  <2>4. /\ n \in ScanRecord /\ n.at = "send" /\ n.usable = r.usable /\ n.hits = r.hits
        /\ n.todo = r.todo /\ n.parsed = r.parsed /\ n.unsent = r.unsent \ b
    BY <1>1, <2>2 DEF ScanRecord
  <2>5. Move(s, n)
    BY <2>1
  <2> HIDE DEF n
  <2>6. /\ scan' \in [Scans -> ScanRecord] /\ scan'[s] = n
        /\ \A t \in Scans : t # s => scan'[t] = scan[t]
    BY <2>4, <2>5, MoveScan DEF ScanInv
  <2>7. /\ queue' \in Seq(SUBSET Torrents)
        /\ UNION ToSet(queue') = b \cup UNION ToSet(queue)
    BY <2>1, <2>3, QueueGrows DEF ScanInv, ScanTypes
  <2>8. ScanTypes'
    BY <1>1, <2>6, <2>7 DEF ScanInv, ScanTypes
  <2>9. Kept' = Kept \cup b
    BY <1>1, <2>7 DEF Kept
  <2>10. ASSUME NEW t \in Scans PROVE WayOK(scan[t])' /\ Thorough(scan[t])'
    <3>1. CASE t = s
      BY <1>1, <2>4, <2>6, <3>1 DEF WayOK, Thorough, Ways
    <3>2. CASE t # s
      BY <2>6, <3>2 DEF ScanInv, WayOK, Thorough
    <3>3. QED
      BY <3>1, <3>2
  <2>11. ASSUME NEW t \in Scans, writer = "up" PROVE Sent(scan[t])'
    <3>1. CASE t = s
      BY <1>1, <2>4, <2>6, <2>9, <2>11, <3>1 DEF Sent
    <3>2. CASE t # s
      BY <2>6, <2>9, <2>11, <3>2 DEF ScanInv, Sent
    <3>3. QED
      BY <3>1, <3>2
  <2>12. writer' = "up" => found' \subseteq Kept'
    BY <1>1, <2>9 DEF ScanInv
  <2>13. QED
    BY <1>1, <2>8, <2>10, <2>11, <2>12 DEF ScanInv
<1>4. QED
  BY <1>2, <1>3

LEMMA EndScanStep ==
    ASSUME ScanInv, NEW s \in Scans, EndScan(s)
    PROVE  ScanInv'
<1> DEFINE r == scan[s]
<1>1. r \in ScanRecord /\ r.at = "dest" /\ (writer = "up" => Sent(r))
      /\ UNCHANGED <<cache, queue, writer, scans>> /\ found' = found \cup r.parsed
  BY OneScan DEF EndScan
<1>2. /\ scan' \in [Scans -> ScanRecord] /\ scan'[s] = NoScan
      /\ \A t \in Scans : t # s => scan'[t] = scan[t]
  BY IdleScan, MoveScan DEF ScanInv, EndScan
<1>3. r.parsed \subseteq Torrents
  BY <1>1 DEF ScanRecord
<1>4. ScanTypes'
  BY <1>1, <1>2, <1>3 DEF ScanInv, ScanTypes
<1>5. Kept' = Kept
  BY <1>1 DEF Kept
<1>6. ASSUME NEW t \in Scans
      PROVE  WayOK(scan[t])' /\ Thorough(scan[t])' /\ (writer = "up" => Sent(scan[t])')
  <2>1. CASE t = s
    BY <1>2, <2>1, IdleScan DEF WayOK, Thorough, Sent, NoScan
  <2>2. CASE t # s
    BY <1>2, <1>5, <2>2 DEF ScanInv, WayOK, Thorough, Sent
  <2>3. QED
    BY <2>1, <2>2
<1>7. writer' = "up" => found' \subseteq Kept'
  BY <1>1, <1>5 DEF ScanInv, Sent
<1>8. QED
  BY <1>1, <1>4, <1>6, <1>7 DEF ScanInv

LEMMA CommitStep ==
    ASSUME ScanInv, Commit
    PROVE  ScanInv'
<1>1. /\ cache' = cache \cup Head(queue) /\ queue' = Tail(queue)
      /\ UNCHANGED <<writer, scan, found, scans>> /\ queue # <<>>
  BY DEF Commit
<1>2. /\ Tail(queue) \in Seq(SUBSET Torrents) /\ Head(queue) \in SUBSET Torrents
      /\ UNION ToSet(queue) \subseteq Head(queue) \cup UNION ToSet(Tail(queue))
  BY <1>1, QueueShrinks DEF ScanInv, ScanTypes
<1>3. ScanTypes'
  BY <1>1, <1>2 DEF ScanInv, ScanTypes
<1>4. Kept \subseteq Kept'
  BY <1>1, <1>2 DEF Kept
<1>5. QED
  BY <1>1, <1>3, <1>4 DEF ScanInv, WayOK, Thorough, Sent

LEMMA WriterDiesStep ==
    ASSUME ScanInv, WriterDies
    PROVE  ScanInv'
<1>1. writer' = "dead" /\ queue' = <<>> /\ UNCHANGED <<cache, scan, found, scans>>
  BY DEF WriterDies
<1>2. <<>> \in Seq(SUBSET Torrents)
  OBVIOUS
<1>3. ScanTypes'
  BY <1>1, <1>2 DEF ScanInv, ScanTypes
<1>4. QED
  BY <1>1, <1>3 DEF ScanInv, WayOK, Thorough

-----------------------------------------------------------------------------
(* The theorems on scans.                                                  *)

LEMMA ScanStart == ScanInit => ScanInv
<1> SUFFICES ASSUME ScanInit PROVE ScanInv
  OBVIOUS
<1>1. <<>> \in Seq(SUBSET Torrents)
  OBVIOUS
<1>2. ScanTypes
  BY <1>1, IdleScan DEF ScanInit, ScanTypes
<1>3. QED
  BY <1>2, IdleScan DEF ScanInit, ScanInv

LEMMA ScanKept == ScanInv /\ [ScanNext]_scanVars => ScanInv'
<1> SUFFICES ASSUME ScanInv, [ScanNext]_scanVars PROVE ScanInv'
  OBVIOUS
<1>1. CASE UNCHANGED scanVars
  BY <1>1 DEF scanVars, ScanInv, ScanTypes, WayOK, Thorough, Sent, Kept
<1>2. ASSUME NEW s \in Scans, NEW parsed \in SUBSET Torrents,
             StartFolder(s, parsed) \/ StartDownloader(s, parsed)
      PROVE  ScanInv'
  BY <1>2, StartFolderStep, StartDownloaderStep
<1>3. ASSUME NEW s \in Scans, ScanStep(s)
      PROVE  ScanInv'
  BY <1>3, ListStep, VisitStep, EndVisitsStep, ReadLocalStep, ExportStep, PiecesHashStep,
     FindExistingStep, SendBatchStep, EndIngestStep, EndScanStep, FailStep DEF ScanStep
<1>4. CASE Commit \/ WriterDies
  BY <1>4, CommitStep, WriterDiesStep
<1>5. QED
  BY <1>1, <1>2, <1>3, <1>4 DEF ScanNext

LEMMA ScanInvHolds == ScanSpec => []ScanInv
BY ScanStart, ScanKept, PTL DEF ScanSpec

\* A torrent of a scan's result has its row in the pieces cache, or the row is on its
\* way: also when the scan found the row of another scan and sent none of its own, and
\* whatever the last batch held (scanner.rs ingest_parsed_metas).
THEOREM ResultsAreCached == ScanSpec => []ResultIsCached
<1>1. ScanInv => ResultIsCached
  BY DEF ScanInv, ResultIsCached, Kept
<1>2. QED
  BY <1>1, ScanInvHolds, PTL

\* A way of reading that has worked is never given up, and a scan that goes on with
\* something from its client has tried all it has (scanner.rs scan_downloader).
THEOREM ScansAreThorough == ScanSpec => []ScanIsThorough
<1>1. ScanInv => ScanIsThorough
  BY DEF ScanInv, Thorough, ScanIsThorough, WorkingWayIsKept, EveryTorrentIsTried
<1>2. QED
  BY <1>1, ScanInvHolds, PTL
=============================================================================
