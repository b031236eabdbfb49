---------------------------- MODULE Downloaders ----------------------------
(***************************************************************************)
(* A downloader: its row, the requests that edit and test it               *)
(* (crates/server/src/api/downloaders.rs), the client that a run builds    *)
(* from the row (crates/core/src/scheduler/executor.rs) and shares between *)
(* its adders, and the two protocols that a client speaks                  *)
(* (crates/core/src/downloader/transmission.rs, qbittorrent.rs).           *)
(*                                                                         *)
(* Every await is a step of its own: a statement, the vault's lock, the    *)
(* sending of a request, its answer.  A request or its answer may be lost; *)
(* the downloader may restart, which ends its sessions and keeps its       *)
(* torrents; a statement may fail.                                         *)
(***************************************************************************)
EXTENDS Naturals, FiniteSets

CONSTANTS
    Torrent,      \* info hashes
    Actor,        \* slots for the requests and calls that are under way at once
    NoRow,        \* there is no such row
    MaxRequests,  \* bound on the requests and calls of a behaviour
    MaxFaults     \* bound on restarts, losses and failures together

VARIABLES
    dl_type,    \* "transmission" or "qbittorrent"
    row,        \* the credentials in the row of the downloaders table
    deleted,    \* the row has been deleted: its id is not used again
    unlocked,   \* the vault holds the key
    client,     \* TransmissionClient or QBittorrentClient: the run's, and each test's
    daemon,     \* the downloader itself
    req,        \* requests of the API, builds, and calls on the run's client
    used, faults,
    had         \* history: the credentials that the row has had

vars == <<dl_type, row, deleted, unlocked, client, daemon, req, used, faults, had>>
table == <<row, deleted, had>>
bounds == <<used, faults>>

Run == 0                      \* the owner of the run's client
Secret == {"unset", "first", "edited"}
Row == [username : Secret, password : Secret]

ASSUME BoundsAssumption ==
    /\ MaxRequests \in Nat /\ MaxFaults \in Nat
    /\ Actor \subseteq Nat \ {0}
    /\ NoRow \notin Row

Blank == [username |-> "unset", password |-> "unset"]
Original == [username |-> "first", password |-> "first"]   \* what the downloader accepts
NoClient == [built |-> FALSE, connected |-> FALSE, given |-> Blank, session |-> 0]

\* What a run calls.
Call == {"add", "list", "export", "pieces"}
Op == Call \cup {"connect", "version", "resume"}
Kind == {"none", "create", "update", "toggle", "delete", "test", "build", "call"}
Answer == {"none", "200", "refused", "401", "403", "404", "409", "error", "lost"}
Result == {"none", "ok", "absent", "auth", "conflict", "failed"}
Fresh == [kind |-> "none", pc |-> "idle", username |-> FALSE, password |-> FALSE,
          row |-> NoRow, via |-> Run, op |-> "version", torrent |-> NoRow, start |-> FALSE,
          session |-> 0, again |-> FALSE, answer |-> "none", result |-> "none",
          shaken |-> FALSE]

Owner == {Run} \cup Actor
Pc == {"idle", "row", "vault", "write", "delete", "send", "wire", "receive", "handshake",
       "done"}
Client == [built : BOOLEAN, connected : BOOLEAN, given : Row, session : Nat]
Request ==
    [kind : Kind, pc : Pc, username : BOOLEAN, password : BOOLEAN, row : Row \cup {NoRow},
     via : Owner, op : Op, torrent : Torrent \cup {NoRow}, start : BOOLEAN, session : Nat,
     again : BOOLEAN, answer : Answer, result : Result, shaken : BOOLEAN]

TypeOK ==
    /\ dl_type \in {"transmission", "qbittorrent"}
    /\ row \in Row \cup {NoRow} /\ deleted \in BOOLEAN /\ unlocked \in BOOLEAN
    /\ had \subseteq Row
    /\ client \in [Owner -> Client]
    /\ daemon \in [session : Nat, held : SUBSET Torrent, running : SUBSET Torrent]
    /\ req \in [Actor -> Request]
    /\ used \in 0 .. MaxRequests /\ faults \in 0 .. MaxFaults

-----------------------------------------------------------------------------
(* Helpers.                                                                *)

At(a, pc) == req[a].pc = pc
Set(a, q) == req' = [req EXCEPT ![a] = q]
Goto(a, pc) == Set(a, [req[a] EXCEPT !.pc = pc])
End(a) == Set(a, Fresh)
SetClient(c, s) == client' = [client EXCEPT ![c] = s]
Fault == faults < MaxFaults /\ faults' = faults + 1

\* A client belongs to the request that has built it.
InUse(c) == \E a \in Actor : req[a].kind \in {"build", "call", "test"} /\ req[a].via = c
DropOwn(a) == SetClient(a, NoClient)

\* A call on the network is under way.
OnTheWay(a) == req[a].pc \in {"send", "wire", "receive", "handshake"}

StartCall(a, op) ==
    [req[a] EXCEPT !.pc = "send", !.op = op, !.row = NoRow, !.session = 0,
                   !.again = FALSE, !.answer = "none", !.shaken = FALSE]

\* A blank field keeps the old value.
Filled(given, old) == IF given THEN "edited" ELSE old

-----------------------------------------------------------------------------
(* The table and its handlers.                                             *)

FirstPc(kind) ==
    CASE kind = "create" -> "vault"
      [] kind = "delete" -> "delete"
      [] OTHER -> "row"

Free(a) ==
    /\ At(a, "idle")
    /\ \A b \in Actor : b < a => ~At(b, "idle")   \* slots differ in nothing but their number
    /\ used < MaxRequests
    /\ used' = used + 1

\* A request is let in.
BeginRequest(a) ==
    /\ Free(a)
    /\ \E kind \in {"create", "update", "toggle", "delete", "test", "build"},
          u \in BOOLEAN, p \in BOOLEAN :
          /\ kind = "create" => row = NoRow /\ ~deleted
          /\ kind \notin {"create", "update"} => ~u /\ ~p
          /\ kind = "build" => ~InUse(Run)
          /\ Set(a, [Fresh EXCEPT !.kind = kind, !.username = u, !.password = p,
                                  !.via = IF kind = "test" THEN a ELSE Run,
                                  !.pc = FirstPc(kind)])
          /\ IF kind = "build" THEN SetClient(Run, NoClient) ELSE UNCHANGED client
    /\ UNCHANGED <<dl_type, table, unlocked, daemon, faults>>

\* An adder or the scanner makes a call on the client of the run.
BeginCall(a) ==
    /\ Free(a)
    /\ client[Run].connected
    /\ \E op \in Call, t \in Torrent, start \in BOOLEAN :
          /\ start => op = "add"
          /\ op = "pieces" => dl_type = "qbittorrent"   \* the others answer None at once
          /\ Set(a, [Fresh EXCEPT !.kind = "call", !.op = op, !.torrent = t,
                                  !.start = start, !.pc = "send"])
    /\ UNCHANGED <<dl_type, table, unlocked, client, daemon, faults>>

\* get_downloader, or the row that a run has loaded.
ReadRow(a) ==
    /\ At(a, "row")
    /\ LET q == req[a]
           needsKey == q.kind \in {"build", "test"} \/ q.username \/ q.password
       IN  IF row = NoRow THEN End(a)
           ELSE Set(a, [q EXCEPT !.row = row, !.pc = IF needsKey THEN "vault" ELSE "write"])
    /\ UNCHANGED <<dl_type, table, unlocked, client, daemon, bounds>>

\* Under a locked vault a new row takes no credentials, and an update keeps
\* the old ones: neither is refused.
CopyVault(a) ==
    /\ At(a, "vault") /\ req[a].kind \in {"create", "update"}
    /\ LET q == req[a]
           old == IF q.kind = "create" THEN Blank ELSE q.row
           new == [username |-> Filled(q.username, old.username),
                   password |-> Filled(q.password, old.password)]
       IN  Set(a, [q EXCEPT !.row = IF unlocked THEN new ELSE old, !.pc = "write",
                            !.username = FALSE, !.password = FALSE])
    /\ UNCHANGED <<dl_type, table, unlocked, client, daemon, bounds>>

\* INSERT, and the read that follows it.
InsertRow(a) ==
    /\ At(a, "write") /\ req[a].kind = "create"
    /\ IF row = NoRow /\ ~deleted
       THEN row' = req[a].row /\ had' = had \cup {row'}
       ELSE UNCHANGED <<row, had>>     \* bound of the model: one row
    /\ End(a)
    /\ UNCHANGED <<dl_type, deleted, unlocked, client, daemon, bounds>>

\* UPDATE of all columns WHERE id = ?: nothing when the row is gone.
Written(new) == IF row = NoRow THEN NoRow ELSE new

\* The row is written back whole, with the columns that are not modelled.
WriteBack(a) ==
    /\ row' = Written(req[a].row)
    /\ had' = had \cup ({row'} \ {NoRow})
    /\ End(a)
    /\ UNCHANGED <<dl_type, deleted, unlocked, client, daemon, bounds>>

UpdateRow(a) == At(a, "write") /\ req[a].kind = "update" /\ WriteBack(a)

\* toggle_auto_start writes the credentials that it has read.
ToggleAutoStart(a) == At(a, "write") /\ req[a].kind = "toggle" /\ WriteBack(a)

DeleteRow(a) ==
    /\ At(a, "delete")
    /\ row' = NoRow /\ deleted' = (deleted \/ row # NoRow)
    /\ End(a)
    /\ UNCHANGED <<dl_type, unlocked, client, daemon, bounds, had>>

StatementFails(a) ==
    /\ req[a].pc \in {"row", "write", "delete"}
    /\ Fault
    /\ End(a)
    /\ UNCHANGED <<dl_type, table, unlocked, client, daemon, used>>

\* Fault: what cannot be read counts as not set.
DecryptedOrBlank(secrets) ==
    IF unlocked \/ secrets = Blank THEN {secrets} ELSE {Blank}

\* decrypt_optional: what is not set needs no key, what is set needs one.
Decrypted(secrets) ==
    IF unlocked \/ secrets = Blank THEN {secrets} ELSE {}

\* Fault: a build waits for a login.
BuildClientOrWait(a) ==
    /\ At(a, "vault") /\ req[a].kind \in {"build", "test"}
    /\ req[a].kind = "test" => unlocked
    /\ \E secrets \in Decrypted(req[a].row) :
          SetClient(req[a].via, [NoClient EXCEPT !.built = TRUE, !.given = secrets])
    /\ Set(a, StartCall(a, "connect"))
    /\ UNCHANGED <<dl_type, table, unlocked, daemon, bounds>>

\* build_downloader, and test_downloader_handler, which takes no locked vault:
\* a client with the credentials, and its connect.
BuildClient(a) ==
    /\ At(a, "vault") /\ req[a].kind \in {"build", "test"}
    /\ \/ /\ req[a].kind = "test" => unlocked
          /\ \E secrets \in Decrypted(req[a].row) :
                SetClient(req[a].via, [NoClient EXCEPT !.built = TRUE, !.given = secrets])
          /\ Set(a, StartCall(a, "connect"))
       \/ /\ Decrypted(req[a].row) = {} \/ (req[a].kind = "test" /\ ~unlocked)
          /\ End(a)
          /\ UNCHANGED client
    /\ UNCHANGED <<dl_type, table, unlocked, daemon, bounds>>

-----------------------------------------------------------------------------
(* A request on the network.                                               *)

\* send_rpc_request puts in the session id of the moment; the cookie jar of
\* the other client does the same.
Send(a) ==
    /\ At(a, "send")
    /\ Set(a, [req[a] EXCEPT !.session = client[req[a].via].session, !.pc = "wire"])
    /\ UNCHANGED <<dl_type, table, unlocked, client, daemon, bounds>>

\* The downloader acts on a request that it accepts.
Acts(op, t) ==
    CASE op = "add" -> daemon' = [daemon EXCEPT !.held = @ \cup {t}]
      [] op = "resume" /\ t \in daemon.held -> daemon' = [daemon EXCEPT !.running = @ \cup {t}]
      [] OTHER -> UNCHANGED daemon

\* External: a transmission daemon checks the password, then the session id;
\* qBittorrent checks the cookie, but for a login, and may refuse a torrent
\* that it holds.
Serves(q) ==
    LET wrong == client[q.via].given # Original
        stale == q.session # daemon.session
        held == q.torrent \in daemon.held
    IN  CASE dl_type = "transmission" /\ wrong -> {"401"}
          [] dl_type = "transmission" /\ ~wrong /\ stale -> {"409"}
          [] dl_type = "qbittorrent" /\ q.op = "connect" -> {IF wrong THEN "refused" ELSE "200"}
          [] dl_type = "qbittorrent" /\ q.op # "connect" /\ stale -> {"403"}
          [] OTHER -> CASE q.op \in {"export", "pieces"} /\ ~held -> {"404"}
                        [] q.op = "add" /\ held /\ dl_type = "qbittorrent" -> {"200", "refused"}
                        [] OTHER -> {"200"}

Serve(a) ==
    /\ At(a, "wire")
    /\ LET q == req[a]
       IN  \/ \E answer \in Serves(q) :
                 /\ Set(a, [q EXCEPT !.answer = answer, !.session = daemon.session,
                                     !.pc = "receive"])
                 /\ IF answer = "200" THEN Acts(q.op, q.torrent) ELSE UNCHANGED daemon
                 /\ UNCHANGED faults
           \/ /\ Fault       \* 5xx, 409 without an id, a result that is no success
              /\ Set(a, [q EXCEPT !.answer = "error", !.pc = "receive"])
              /\ UNCHANGED daemon
    /\ UNCHANGED <<dl_type, table, unlocked, client, used>>

\* The request or its answer is lost: the client gives up after thirty seconds.
Lose(a) ==
    /\ At(a, "wire")
    /\ Fault
    /\ \/ "200" \in Serves(req[a]) /\ Acts(req[a].op, req[a].torrent)
       \/ UNCHANGED daemon
    /\ Set(a, [req[a] EXCEPT !.answer = "lost", !.pc = "receive"])
    /\ UNCHANGED <<dl_type, table, unlocked, client, used>>

\* parse_rpc_response: a torrent that is not there is an empty list, in an
\* answer of its own here.
Parsed(answer) ==
    CASE answer \in {"200", "404"} -> "ok"
      [] answer = "401" -> "auth"
      [] answer = "409" -> "conflict"
      [] OTHER -> "failed"

\* torrent-added and torrent-duplicate are both an add.
TransmissionAdd(q) == {Parsed(q.answer)}

TransmissionList(q) == {Parsed(q.answer)}

TransmissionConnect(q) == {Parsed(q.answer)}

\* The kind of the error is not kept.
TransmissionResume(q) == {IF Parsed(q.answer) = "ok" THEN "ok" ELSE "failed"}

\* The answer names the path of a file, which this host may not have.
TransmissionExport(q) ==
    CASE q.answer = "404" -> {"absent"}
      [] q.answer = "200" -> {"ok", "absent"}
      [] OTHER -> {Parsed(q.answer)}

TransmissionReads(q) ==
    CASE q.op = "add" -> TransmissionAdd(q)
      [] q.op = "list" -> TransmissionList(q)
      [] q.op = "resume" -> TransmissionResume(q)
      [] q.op = "export" -> TransmissionExport(q)
      [] q.op \in {"connect", "version"} -> TransmissionConnect(q)

\* A login is known by the body of its answer.
QBittorrentConnect(q) ==
    {CASE q.answer = "200" -> "ok" [] q.answer = "lost" -> "failed" [] OTHER -> "auth"}

\* Whatever is answered is a version.
QBittorrentVersion(q) == {IF q.answer = "lost" THEN "failed" ELSE "ok"}

\* An answer that is no list is an error.
QBittorrentList(q) == {IF q.answer = "200" THEN "ok" ELSE "failed"}

\* Fault: the answer is not looked at.
QBittorrentAddAnyAnswer(q) == {IF q.answer = "lost" THEN "failed" ELSE "ok"}

\* Both the status and the body must say so.
QBittorrentAdd(q) == {IF q.answer = "200" THEN "ok" ELSE "failed"}

\* The answer is not looked at: with an expired cookie nothing is resumed.
QBittorrentResume(q) == {IF q.answer = "lost" THEN "failed" ELSE "ok"}

\* An export that is refused is one that is not offered.
QBittorrentExport(q) ==
    {CASE q.answer = "200" -> "ok" [] q.answer = "lost" -> "failed" [] OTHER -> "absent"}

\* The hashes of the pieces, when each is one.
QBittorrentPieces(q) ==
    CASE q.answer = "200" -> {"ok", "failed", "absent"}
      [] q.answer = "lost" -> {"failed"}
      [] OTHER -> {"absent"}

QBittorrentReads(q) ==
    CASE q.op = "connect" -> QBittorrentConnect(q)
      [] q.op = "version" -> QBittorrentVersion(q)
      [] q.op = "list" -> QBittorrentList(q)
      [] q.op = "add" -> QBittorrentAdd(q)
      [] q.op = "resume" -> QBittorrentResume(q)
      [] q.op = "export" -> QBittorrentExport(q)
      [] q.op = "pieces" -> QBittorrentPieces(q)

Connected(q) ==
    [client[q.via] EXCEPT !.connected = TRUE,
                          !.session = IF dl_type = "qbittorrent" THEN q.session ELSE @]

\* A call is over.  A test goes on with the version and the list, whatever
\* becomes of them; an adder resumes what it has added, when it is to start.
Finish(a, result) ==
    LET q == req[a]
        connected == q.op = "connect" /\ result = "ok"
        next == CASE q.kind = "test" /\ connected -> "version"
                  [] q.kind = "test" /\ q.op = "version" -> "list"
                  [] q.op = "add" /\ result = "ok" /\ q.start -> "resume"
                  [] OTHER -> "none"
    IN  /\ Set(a, IF next = "none"
                  THEN [q EXCEPT !.pc = "done", !.result = result, !.session = 0,
                                 !.again = FALSE, !.answer = "none", !.start = FALSE]
                  ELSE StartCall(a, next))
        /\ IF connected THEN SetClient(q.via, Connected(q)) ELSE UNCHANGED client

\* rpc_call handles one conflict of a call.
Receive(a) ==
    /\ At(a, "receive")
    /\ LET q == req[a]
       IN  IF dl_type = "transmission" /\ q.answer = "409" /\ ~q.again
           THEN Goto(a, "handshake") /\ UNCHANGED client
           ELSE \E result \in IF dl_type = "transmission" THEN TransmissionReads(q)
                              ELSE QBittorrentReads(q) :
                    Finish(a, result)
    /\ UNCHANGED <<dl_type, table, unlocked, daemon, bounds>>

\* Fault: an id that is known is kept.
StoreSessionIfNone(a) ==
    /\ At(a, "handshake")
    /\ LET q == req[a]
       IN  /\ SetClient(q.via, [client[q.via] EXCEPT !.session = IF @ = 0 THEN q.session ELSE @])
           /\ Set(a, [q EXCEPT !.pc = "send", !.again = TRUE])
    /\ UNCHANGED <<dl_type, table, unlocked, daemon, bounds>>

\* The id that came with the conflict is stored for all callers, and the
\* request is sent once more.
StoreSession(a) ==
    /\ At(a, "handshake")
    /\ LET q == req[a]
           stale == q.session # daemon.session
       IN  /\ SetClient(q.via, [client[q.via] EXCEPT !.session = q.session])
           /\ req' = [b \in Actor |->
                 LET old == IF b = a THEN [q EXCEPT !.pc = "send", !.again = TRUE] ELSE req[b]
                 IN  [old EXCEPT !.shaken = @ \/ (stale /\ OnTheWay(b) /\ old.via = q.via)]]
    /\ UNCHANGED <<dl_type, table, unlocked, daemon, bounds>>

\* The caller takes the result.
Return(a) ==
    /\ At(a, "done")
    /\ End(a)
    /\ IF req[a].kind = "test" THEN DropOwn(a) ELSE UNCHANGED client
    /\ UNCHANGED <<dl_type, table, unlocked, daemon, bounds>>

\* A restart, or a session past its time.
ExpireSession ==
    /\ Fault
    /\ daemon' = [daemon EXCEPT !.session = @ + 1]
    /\ req' = [a \in Actor |-> [req[a] EXCEPT !.shaken = @ \/ OnTheWay(a)]]
    /\ UNCHANGED <<dl_type, table, unlocked, client, used>>

\* A login unlocks the vault.
Login ==
    /\ ~unlocked /\ unlocked' = TRUE
    /\ UNCHANGED <<dl_type, table, client, daemon, req, bounds>>

-----------------------------------------------------------------------------

\* A downloader that has been entered, or none yet, before or after a login,
\* and perhaps a run under way that has connected to it.
Init ==
    /\ dl_type \in {"transmission", "qbittorrent"}
    /\ row \in {NoRow, Original}
    /\ deleted = FALSE
    /\ unlocked \in BOOLEAN
    /\ client = [c \in Owner |-> NoClient]
       \/ /\ row = Original /\ unlocked
          /\ client = [[c \in Owner |-> NoClient] EXCEPT ![Run] =
                [built |-> TRUE, connected |-> TRUE, given |-> row, session |-> 1]]
    /\ daemon = [session |-> 1, held |-> {}, running |-> {}]
    /\ req = [a \in Actor |-> Fresh]
    /\ used = 0 /\ faults = 0
    /\ had = {row} \ {NoRow}

Proceed(a) ==
    \/ ReadRow(a) \/ CopyVault(a) \/ InsertRow(a) \/ UpdateRow(a) \/ ToggleAutoStart(a) \/ DeleteRow(a)
    \/ BuildClient(a) \/ Send(a) \/ Serve(a) \/ Receive(a) \/ StoreSession(a) \/ Return(a)

Next ==
    \/ \E a \in Actor :
          BeginRequest(a) \/ BeginCall(a) \/ Proceed(a) \/ StatementFails(a) \/ Lose(a)
    \/ ExpireSession \/ Login

Spec == Init /\ [][Next]_vars

\* The runtime polls some task that can go on, and a request that is not
\* answered in thirty seconds is given up.  It is fair to each of them, which
\* behaviours of a bounded number of requests do not need.
FairSpec == Spec /\ WF_vars(\E a \in Actor : Proceed(a))

-----------------------------------------------------------------------------
(* Properties.                                                             *)

\* What a client reports as done is done, whatever was lost, refused or
\* expired on the way: an added torrent is in the downloader, and one that
\* Transmission is told to start runs, if it is there.
OkIsTrue ==
    \A a \in Actor : (At(a, "done") /\ req[a].result = "ok") =>
        /\ req[a].op = "add" => req[a].torrent \in daemon.held
        /\ (req[a].op = "resume" /\ dl_type = "transmission" /\ req[a].torrent \in daemon.held)
              => req[a].torrent \in daemon.running

\* One repetition is enough: callers that share a client and find its session
\* expired do not make each other fail.  A call ends in a conflict only if a
\* session expired during it, or an id that had expired was stored during it.
HandshakeSuffices ==
    \A a \in Actor : (At(a, "done") /\ req[a].result = "conflict") => req[a].shaken

\* A client logs in with a pair of credentials that the row has had, never
\* with a blank in place of one that could not be read.
LoginAsStored ==
    \A c \in Owner : client[c].built => client[c].given \in had

\* Every request is answered.
RequestsEnd == \A a \in Actor : ~At(a, "idle") ~> At(a, "idle")
=============================================================================
