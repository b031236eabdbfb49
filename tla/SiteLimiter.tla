---------------------------- MODULE SiteLimiter ----------------------------
(***************************************************************************)
(* The rate limiter and circuit breaker of one site, with the download     *)
(* loops and the batched match query that share it                         *)
(* (crates/core/src/site/rate_limiter.rs, engine/adder.rs,                 *)
(* engine/matcher.rs).                                                     *)
(*                                                                         *)
(* The limiter is a handful of atomics and a mutex used from any thread,   *)
(* so each access is a step.  The callers belong to different runs.  Time  *)
(* is left out: what a wait is for is a flag, an interval is the number of *)
(* times it was doubled, and the thirty minutes of the breaker pass in one *)
(* step.  The site is external and answers anything.                       *)
(***************************************************************************)
EXTENDS Integers, FiniteSets

CONSTANTS Downloads,    \* download_torrent calls
          Query,        \* the match_single_site call
          Retries,      \* DOWNLOAD_RATE_LIMIT_RETRIES
          Threshold,    \* consecutive errors that open the circuit
          MaxDoublings, \* doublings up to the cap of the interval
          NumHashes,    \* pieces hashes to ask about
          FirstBatch,   \* batch_size of the site's definition
          MinBatch,     \* min_batch_size
          MaxDownloads, \* bound: downloads started
          MaxCooldowns  \* bound: times the open circuit runs out

ASSUME SiteLimiterAssumption ==
    /\ Query \notin Downloads
    /\ Retries \in Nat /\ Threshold \in Nat \ {0} /\ MaxDoublings \in Nat
    /\ NumHashes \in Nat \ {0} /\ FirstBatch \in Nat \ {0} /\ MinBatch \in Nat \ {0}
    /\ MaxDownloads \in Nat /\ MaxCooldowns \in Nat

Callers == Downloads \cup {Query}

VARIABLES
    errors,    \* consecutive_errors
    doublings, \* current_interval_ms, 0 for the base interval
    extra,     \* extra_download_wait_ms is not 0
    circuit,   \* circuit_open_until: "closed" or "open"
    caller,    \* where each caller is and what it loaded
    match,     \* cursor, batch size and results of the query
    downloads, cooldowns

bounds == <<downloads, cooldowns>>
vars == <<errors, doublings, extra, circuit, caller, match, downloads, cooldowns>>
limiter == <<errors, doublings, extra, circuit>>

Points == {"acquire", "wait", "request", "okErrors", "okInterval", "okExtra",
           "recordWait", "count", "load", "store", "trip", "idle", "ended", "failed"}
\* Why the last answer was no success, and what the loop does about it.
Reasons == {"none", "limited", "error"}
Caller == [at : Points, attempt : Nat, seen : Nat, loaded : Nat, reason : Reasons]
Match == [cursor : Nat, batch : Nat, answered : SUBSET Nat, missed : SUBSET Nat]

Init ==
    /\ errors = 0 /\ doublings = 0 /\ extra = FALSE /\ circuit = "closed"
    /\ caller = [c \in Callers |->
                     [at |-> IF c = Query THEN "acquire" ELSE "idle", attempt |-> 0,
                      seen |-> 0, loaded |-> 0, reason |-> "none"]]
    /\ match = [cursor |-> 0, batch |-> FirstBatch, answered |-> {}, missed |-> {}]
    /\ downloads = 0 /\ cooldowns = 0

Set(c, s) == caller' = [caller EXCEPT ![c] = s]
Go(c, p) == Set(c, [caller[c] EXCEPT !.at = p])

-----------------------------------------------------------------------------
(* acquire, acquire_download.                                              *)

\* ensure_circuit_closed; the refusal ends a download, and the query with
\* everything it had matched.
Acquire(c) ==
    /\ caller[c].at = "acquire"
    /\ IF circuit = "open"
       THEN Go(c, "failed")
       ELSE Go(c, IF c = Query THEN "request" ELSE "wait")
    /\ UNCHANGED <<errors, doublings, extra, circuit, match, bounds>>

\* The permit, the back-off and the extra wait, which the swap takes away.
Wait(c) ==
    /\ caller[c].at = "wait"
    /\ extra' = FALSE
    /\ Go(c, "request")
    /\ UNCHANGED <<errors, doublings, circuit, match, bounds>>

\* The query asks about hashes cursor .. End - 1.
End == IF match.cursor + match.batch < NumHashes THEN match.cursor + match.batch
       ELSE NumHashes
Chunk == match.cursor .. End - 1

\* Fault: a batch of the smallest size is halved and tried again as well.
AlwaysShrinks == TRUE
MayShrink == match.batch > MinBatch

\* Fault: the smaller batch starts where the refused one would have ended.
Skipping(size) == [match EXCEPT !.batch = size, !.cursor = End]
Shrunk(size) == [match EXCEPT !.batch = size]

Halved == IF match.batch \div 2 > MinBatch THEN match.batch \div 2 ELSE MinBatch

\* The site's answer.  A batch it finds too large is halved and asked for again
\* without an error being recorded; a download that gets no answer at all fails, and
\* no error is recorded either.
Request(c) ==
    /\ caller[c].at = "request"
    /\ \/ Go(c, "okErrors") /\ UNCHANGED match
       \/ /\ c \in Downloads /\ caller[c].attempt < Retries
          /\ Set(c, [caller[c] EXCEPT !.at = "recordWait", !.reason = "limited"])
          /\ UNCHANGED match
       \/ /\ Set(c, [caller[c] EXCEPT !.at = "count", !.reason = "error"])
          /\ UNCHANGED match
       \/ /\ c = Query /\ MayShrink
          /\ match' = Shrunk(Halved)
          /\ Go(c, "acquire")
       \/ /\ c \in Downloads
          /\ Go(c, "failed") /\ UNCHANGED match
    /\ UNCHANGED <<errors, doublings, extra, circuit, bounds>>

-----------------------------------------------------------------------------
(* record_success.                                                         *)

ClearErrors(c) ==
    /\ caller[c].at = "okErrors"
    /\ errors' = 0 /\ Go(c, "okInterval")
    /\ UNCHANGED <<doublings, extra, circuit, match, bounds>>

ClearInterval(c) ==
    /\ caller[c].at = "okInterval"
    /\ doublings' = 0 /\ Go(c, "okExtra")
    /\ UNCHANGED <<errors, extra, circuit, match, bounds>>

\* The end of a query is the end of its hashes.
Proceed(c) == Go(c, IF c \in Downloads \/ End = NumHashes THEN "ended" ELSE "acquire")

\* The last store of record_success; the download is over, the query goes on behind
\* the answered batch.
ClearExtra(c) ==
    /\ caller[c].at = "okExtra"
    /\ extra' = FALSE /\ Proceed(c)
    /\ match' = IF c = Query THEN [match EXCEPT !.answered = @ \cup Chunk, !.cursor = End]
                ELSE match
    /\ UNCHANGED <<errors, doublings, circuit, bounds>>

-----------------------------------------------------------------------------
(* record_extra_wait, record_error.                                        *)

RecordWait(c) ==
    /\ caller[c].at = "recordWait"
    /\ extra' = TRUE /\ Go(c, "count")
    /\ UNCHANGED <<errors, doublings, circuit, match, bounds>>

\* fetch_add.
CountError(c) ==
    /\ caller[c].at = "count"
    /\ errors' = errors + 1
    /\ Set(c, [caller[c] EXCEPT !.at = "load", !.seen = errors + 1])
    /\ UNCHANGED <<doublings, extra, circuit, match, bounds>>

LoadInterval(c) ==
    /\ caller[c].at = "load"
    /\ Set(c, [caller[c] EXCEPT !.at = "store", !.loaded = doublings])
    /\ UNCHANGED <<limiter, match, bounds>>

\* Fault: one error more than the threshold is needed.
BeyondThreshold(seen) == seen > Threshold
Trips(seen) == seen >= Threshold

\* After an error: the limited download tries again, the query goes on behind the
\* batch, or gives up with what it has when this error opened the circuit.
AfterError(c, tripped) ==
    LET rest == [caller[c] EXCEPT !.seen = 0, !.loaded = 0, !.reason = "none"]
    IN  IF c = Query
        THEN /\ match' = IF tripped THEN match
                         ELSE [match EXCEPT !.missed = @ \cup Chunk, !.cursor = End]
             /\ Set(c, [rest EXCEPT !.at = IF tripped \/ End = NumHashes THEN "ended"
                                           ELSE "acquire"])
        ELSE /\ Set(c, IF caller[c].reason = "limited"
                       THEN [rest EXCEPT !.at = "acquire", !.attempt = @ + 1]
                       ELSE [rest EXCEPT !.at = "failed"])
             /\ UNCHANGED match

StoreInterval(c) ==
    /\ caller[c].at = "store"
    /\ doublings' = IF caller[c].loaded < MaxDoublings THEN caller[c].loaded + 1
                    ELSE MaxDoublings
    /\ IF Trips(caller[c].seen) THEN Go(c, "trip") /\ UNCHANGED match
       ELSE AfterError(c, FALSE)
    /\ UNCHANGED <<errors, extra, circuit, bounds>>

Trip(c) ==
    /\ caller[c].at = "trip"
    /\ circuit' = "open" /\ AfterError(c, TRUE)
    /\ UNCHANGED <<errors, doublings, extra, bounds>>

\* Thirty minutes have passed.  The count of errors stays.
Cooldown ==
    /\ circuit = "open" /\ cooldowns < MaxCooldowns
    /\ circuit' = "closed" /\ cooldowns' = cooldowns + 1
    /\ UNCHANGED <<errors, doublings, extra, caller, match, downloads>>

\* An adder starts the download of its next torrent.
Download(c) ==
    /\ c \in Downloads /\ caller[c].at \in {"idle", "ended", "failed"}
    /\ downloads < MaxDownloads
    /\ downloads' = downloads + 1
    /\ Set(c, [caller[c] EXCEPT !.at = "acquire", !.attempt = 0])
    /\ UNCHANGED <<limiter, match, cooldowns>>

Step(c) ==
    \/ Acquire(c)
    \/ Wait(c)
    \/ Request(c)
    \/ ClearErrors(c)
    \/ ClearInterval(c)
    \/ ClearExtra(c)
    \/ RecordWait(c)
    \/ CountError(c)
    \/ LoadInterval(c)
    \/ StoreInterval(c)
    \/ Trip(c)

Next == (\E c \in Callers : Step(c) \/ Download(c)) \/ Cooldown

Spec == Init /\ [][Next]_vars
FairSpec == Spec /\ \A c \in Callers : WF_vars(Step(c))

-----------------------------------------------------------------------------
(* Properties.                                                             *)

\* Atomics, locals and counters stay within their types, and the query never asks
\* for a slice beyond its hashes.
TypeOK ==
    /\ errors \in Nat /\ doublings \in 0 .. MaxDoublings /\ extra \in BOOLEAN
    /\ circuit \in {"closed", "open"}
    /\ caller \in [Callers -> Caller] /\ match \in Match
    /\ match.cursor <= NumHashes
    /\ downloads \in 0 .. MaxDownloads /\ cooldowns \in 0 .. MaxCooldowns

\* Whatever the sizes it is halved to, the query asks about every hash it passes,
\* in an answered batch or in a failed one, and about none in both.
EveryHashIsAskedFor ==
    /\ match.answered \cup match.missed = 0 .. match.cursor - 1
    /\ match.answered \cap match.missed = {}
    /\ caller[Query].at = "ended" /\ circuit = "closed" /\ cooldowns = 0
          => match.cursor = NumHashes

\* The threshold is never passed unnoticed, however the callers' updates mix: with
\* that many consecutive errors the circuit is open or someone is opening it.
BreakerIsNotMissed ==
    errors >= Threshold /\ cooldowns = 0 =>
        \/ circuit = "open"
        \/ \E c \in Callers : /\ caller[c].at \in {"load", "store", "trip"}
                             /\ caller[c].seen >= Threshold

\* Downloads run out of retries, and halving runs out of batch size: no caller asks
\* the site for ever.
CallersEnd ==
    \A c \in Callers : caller[c].at = "acquire" ~> caller[c].at \in {"ended", "failed"}

=============================================================================
