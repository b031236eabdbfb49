------------------------------ MODULE Scanner ------------------------------
(***************************************************************************)
(* The scan phase of a reseed run (crates/core/src/engine/scanner.rs).     *)
(*                                                                         *)
(* A scan reads .torrent files of a folder, or asks a downloader for its   *)
(* torrents and gets each one's metadata the cheapest way that works: the  *)
(* file the client names, the client's export, or only its pieces hash.    *)
(* Ways that do not work are given up for the rest of the scan.  What is   *)
(* not in the pieces cache yet goes to the writer in batches.  Runs scan   *)
(* side by side and share the cache and the writer, here a queue that      *)
(* commits in order (DurableLog) and that may die.  Metadata a client      *)
(* hands over for an info hash is taken to have that info hash.            *)
(***************************************************************************)
EXTENDS Integers, FiniteSets, Sequences, SequencesExt

CONSTANTS Torrents,   \* info hashes
          NoTorrent,  \* not an info hash
          Scans,      \* runs, each in one scan at a time
          MissLimit,  \* consecutive misses that end a fruitless scan (3)
          BatchSize,  \* cache rows sent at once (500)
          MaxScans    \* bound: scans over a behaviour

ASSUME ScannerAssumption ==
    /\ IsFiniteSet(Torrents) /\ NoTorrent \notin Torrents
    /\ MissLimit \in Nat \ {0} /\ BatchSize \in Nat \ {0} /\ MaxScans \in Nat

VARIABLES
    cache,   \* info hashes with a row in pieces_cache
    queue,   \* BulkUpsertPiecesCache operations sent to the writer
    writer,  \* "up", or "dead" for the rest of the process
    scan,    \* the scans: where each is, and its locals
    found,   \* torrents in the result of some scan
    scans

scanVars == <<cache, queue, writer, scan, found, scans>>

Ways == {"local", "export", "pieces"}
\* A scan that has not begun; at: "list", "next", a way, "existing", "send", "dest".
NoScan == [at |-> "idle",
           listed |-> FALSE,    \* does the client say it has torrents?
           todo |-> {},         \* hashes of the client to be visited
           hash |-> NoTorrent,
           parsed |-> {},       \* metadata so far
           unsent |-> {},       \* to be cached
           usable |-> Ways,     \* local_file_available, export_available
           hits |-> {},         \* ways with a hit
           misses |-> 0]

ScanInit ==
    /\ cache = {} /\ queue = <<>> /\ writer = "up"
    /\ scan = [s \in Scans |-> NoScan]
    /\ found = {} /\ scans = 0

Move(s, r) == scan' = [scan EXCEPT ![s] = r]
Advance(s, p) == Move(s, [scan[s] EXCEPT !.at = p])
Quiet == UNCHANGED <<cache, queue, writer, found, scans>>

-----------------------------------------------------------------------------
(* Sources.                                                                *)

Begin(s, r) ==
    /\ scan[s].at = "idle" /\ scans < MaxScans
    /\ scans' = scans + 1
    /\ Move(s, r)
    /\ UNCHANGED <<cache, queue, writer, found>>

\* scan_folder: the files that parse; there is no client to ask in any way.
StartFolder(s, parsed) ==
    Begin(s, [NoScan EXCEPT !.at = "existing", !.parsed = parsed, !.usable = {}])

\* scan_downloader starts with the files of its torrent_dir, if it has one.
StartDownloader(s, parsed) == Begin(s, [NoScan EXCEPT !.at = "list", !.parsed = parsed])

\* list_torrents, or get_all_info_hashes when it gives nothing: info hashes, and
\* perhaps the file of each torrent.
List(s, listed) ==
    /\ scan[s].at = "list"
    /\ Move(s, [scan[s] EXCEPT !.at = "next", !.listed = (listed # {}),
                               !.todo = listed \ scan[s].parsed])
    /\ Quiet

-----------------------------------------------------------------------------
(* Metadata of one torrent after the other, in the order of a HashSet.     *)

\* Fault: a torrent known only by its pieces hash does not count as a hit.
ForgetsPieces(r) == r.misses >= MissLimit /\ r.hits \subseteq {"pieces"}
\* Nothing has ever worked, several times in a row.
GiveUp(r) == r.misses >= MissLimit /\ r.hits = {}

\* After the file, or without one, the export comes before the pieces hash.
Remote(usable) == IF "export" \in usable THEN "export" ELSE "pieces"

\* A file is tried first, if the client has named one.
FirstWays(r) == (r.usable \cap {"local"}) \cup {Remote(r.usable)}

Visit(s) ==
    LET r == scan[s]
    IN  /\ r.at = "next" /\ ~GiveUp(r)
        /\ \E h \in r.todo, w \in FirstWays(r) :
              Move(s, [r EXCEPT !.at = w, !.hash = h, !.todo = @ \ {h}])
        /\ Quiet

\* The end of the loop; a client with torrents and no metadata fails the scan.
EndVisits(s) ==
    LET r == scan[s]
    IN  /\ r.at = "next" /\ (r.todo = {} \/ GiveUp(r))
        /\ IF r.listed /\ r.parsed = {} THEN Move(s, NoScan)
           ELSE Move(s, [r EXCEPT !.at = "existing", !.misses = 0])
        /\ Quiet

\* The way the current torrent was reached by works.
Hit(s, usable) ==
    LET r == scan[s]
    IN  Move(s, [r EXCEPT !.at = "next", !.hash = NoTorrent, !.misses = 0,
                          !.parsed = @ \cup {r.hash}, !.hits = @ \cup {r.at},
                          !.usable = usable])

\* What an unreadable file shows: with no hit before, its path is of another
\* host, and an export that had no hit either reads the same path.
Unreadable(r) ==
    IF "local" \in r.hits THEN r.usable
    ELSE r.usable \ ({"local"} \cup ({"export"} \ r.hits))

ReadLocal(s) ==
    LET r == scan[s]
        Then(usable) == Move(s, [r EXCEPT !.usable = usable, !.at = Remote(usable)])
    IN  /\ r.at = "local"
        /\ \/ Hit(s, r.usable)
           \/ Then(r.usable)            \* empty, or does not parse
           \/ Then(Unreadable(r))
        /\ Quiet

Export(s) ==
    /\ scan[s].at = "export"
    /\ Hit(s, scan[s].usable) \/ Advance(s, "pieces")
    /\ Quiet

\* A pieces hash that works where an export and files never have.
AfterPieces(r) ==
    IF r.hits \cap {"local", "export"} = {} THEN r.usable \ {"export"} ELSE r.usable

PiecesHash(s) ==
    LET r == scan[s]
    IN  /\ r.at = "pieces"
        /\ \/ Hit(s, AfterPieces(r))
           \/ Move(s, [r EXCEPT !.at = "next", !.hash = NoTorrent, !.misses = @ + 1])
        /\ Quiet

-----------------------------------------------------------------------------
(* ingest_parsed_metas and the end of the scan.                            *)

FindExisting(s) ==
    LET r == scan[s]
    IN  /\ r.at = "existing"
        /\ Move(s, [r EXCEPT !.at = "send", !.unsent = r.parsed \ cache])
        /\ Quiet

\* Fault: the batch that is not full is left behind.
FullBatches(unsent) == {b \in SUBSET unsent : Cardinality(b) = BatchSize}
\* The next rows to be sent: a full batch, or at the end the rest.
Batches(unsent) ==
    IF Cardinality(unsent) < BatchSize
    THEN {unsent} \ {{}}
    ELSE {b \in SUBSET unsent : Cardinality(b) = BatchSize}

SendBatch(s) ==
    LET r == scan[s]
    IN  /\ r.at = "send"
        /\ IF writer = "dead"
           THEN /\ Batches(r.unsent) # {}
                /\ Move(s, NoScan) /\ UNCHANGED queue
           ELSE \E b \in Batches(r.unsent) :
                    /\ queue' = Append(queue, b)
                    /\ Move(s, [r EXCEPT !.unsent = @ \ b])
        /\ UNCHANGED <<cache, writer, found, scans>>

EndIngest(s) ==
    /\ scan[s].at = "send" /\ Batches(scan[s].unsent) = {}
    /\ Advance(s, "dest")
    /\ Quiet

\* scan_folder has read the destination's hashes, scan_downloader is given none.
EndScan(s) ==
    /\ scan[s].at = "dest"
    /\ found' = found \cup scan[s].parsed
    /\ Move(s, NoScan)
    /\ UNCHANGED <<cache, queue, writer, scans>>

\* A directory that cannot be walked, a client that does not answer, a database
\* error: the scan is an error, and what it sent stays sent.
Fail(s) ==
    /\ \/ scan[s].at \in {"list", "existing"}
       \/ scan[s].at = "dest" /\ scan[s].usable = {}
    /\ Move(s, NoScan)
    /\ Quiet

-----------------------------------------------------------------------------
(* The writer.                                                             *)

Commit ==
    /\ writer = "up" /\ queue # <<>>
    /\ cache' = cache \cup Head(queue) /\ queue' = Tail(queue)
    /\ UNCHANGED <<writer, scan, found, scans>>

WriterDies ==
    /\ writer = "up"
    /\ writer' = "dead" /\ queue' = <<>>
    /\ UNCHANGED <<cache, scan, found, scans>>

ScanStep(s) ==
    \/ \E listed \in SUBSET Torrents : List(s, listed)
    \/ Visit(s) \/ EndVisits(s) \/ ReadLocal(s) \/ Export(s) \/ PiecesHash(s)
    \/ FindExisting(s) \/ SendBatch(s) \/ EndIngest(s) \/ EndScan(s) \/ Fail(s)

ScanNext ==
    \/ \E s \in Scans : \/ \E parsed \in SUBSET Torrents :
                              StartFolder(s, parsed) \/ StartDownloader(s, parsed)
                        \/ ScanStep(s)
    \/ Commit
    \/ WriterDies

ScanSpec == ScanInit /\ [][ScanNext]_scanVars

-----------------------------------------------------------------------------
(* Properties.                                                             *)

\* The cache is what later runs match by: whichever scan decided that another
\* one's row is enough, a torrent of a result is cached or on its way to be.
ResultIsCached ==
    writer = "up" => found \subseteq cache \cup UNION ToSet(queue)

\* Giving a way up is for a client that does not have it: a way that has worked in
\* this scan stays in use for the torrents that are left.
WorkingWayIsKept == \A s \in Scans : scan[s].hits \subseteq scan[s].usable

\* Giving up is for a client that offers nothing: a scan that goes on with
\* metadata from its client has tried every torrent the client has.
EveryTorrentIsTried ==
    \A s \in Scans : scan[s].at \in {"existing", "send", "dest"} /\ scan[s].hits # {}
        => scan[s].todo = {}

\* A scan whose client offers something makes the most of it.
ScanIsThorough == WorkingWayIsKept /\ EveryTorrentIsTried
=============================================================================
