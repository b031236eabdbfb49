--------------------------- MODULE MatchingProofs ---------------------------
(***************************************************************************)
(* Safety of matching: of the limiter and of one site's batched query      *)
(* (SiteLimiter), for any number of downloads, any threshold, batch sizes  *)
(* and number of hashes; and of the match of a run over its sites          *)
(* (MatchPhase), for any runs, sites, hashes and chunks.                   *)
(*                                                                         *)
(* A query may end early on account of the circuit only, so what           *)
(* EveryHashIsAskedFor says of its end needs no strengthening; what        *)
(* BreakerIsNotMissed says of a count needs the caller that has made it.   *)
(*                                                                         *)
(* MatchAddsUp speaks of ended matches.  While one is under way, the       *)
(* hashes in the history filter belong to neither side of its sum, no      *)
(* target is served twice, and what a task was asked shares no pair with   *)
(* what was skipped or had succeeded when the match began: MatchInv, from  *)
(* which the refinement of MatchContract follows as well.                  *)
(***************************************************************************)
EXTENDS SiteLimiter, MatchPhase, FiniteSetTheorems, TLAPS

IInv ==
    /\ TypeOK
    /\ BreakerIsNotMissed
    /\ EveryHashIsAskedFor

-----------------------------------------------------------------------------
(* Records.                                                                *)

LEMMA CallerFields ==
    ASSUME NEW s \in Caller
    PROVE  /\ s.at \in Points /\ s.attempt \in Nat /\ s.seen \in Nat
           /\ s.loaded \in Nat /\ s.reason \in Reasons
BY DEF Caller

LEMMA Moved ==
    ASSUME NEW s \in Caller, NEW p \in Points
    PROVE  /\ [s EXCEPT !.at = p] \in Caller
           /\ [s EXCEPT !.at = p].at = p
           /\ [s EXCEPT !.at = p].seen = s.seen
BY DEF Caller

LEMMA SetCaller ==
    ASSUME NEW c \in Callers, NEW s \in Caller, caller \in [Callers -> Caller], Set(c, s)
    PROVE  /\ caller' \in [Callers -> Caller] /\ caller'[c] = s
           /\ \A d \in Callers : d # c => caller'[d] = caller[d]
BY DEF Set

LEMMA GoCaller ==
    ASSUME NEW c \in Callers, NEW p \in Points, caller \in [Callers -> Caller], Go(c, p)
    PROVE  /\ caller' \in [Callers -> Caller]
           /\ caller'[c].at = p /\ caller'[c].seen = caller[c].seen
           /\ \A d \in Callers : d # c => caller'[d] = caller[d]
<1>1. caller[c] \in Caller
  OBVIOUS
<1>2. /\ [caller[c] EXCEPT !.at = p] \in Caller
      /\ [caller[c] EXCEPT !.at = p].at = p
      /\ [caller[c] EXCEPT !.at = p].seen = caller[c].seen
  BY <1>1, Moved
<1>3. Set(c, [caller[c] EXCEPT !.at = p])
  BY DEF Go
<1>4. QED
  BY <1>2, <1>3, SetCaller

\* The query never looks beyond its hashes, and never back.
LEMMA EndBounds ==
    ASSUME TypeOK
    PROVE  End \in Nat /\ match.cursor <= End /\ End <= NumHashes
BY SiteLimiterAssumption DEF TypeOK, Match, End

\* Going on behind a batch keeps what is asked for and what is left apart.
LEMMA NextChunk ==
    ASSUME TypeOK, NEW S, NEW T, S \cup T = 0 .. match.cursor - 1, S \cap T = {}
    PROVE  /\ (S \cup Chunk) \cup T = 0 .. End - 1
           /\ S \cup (T \cup Chunk) = 0 .. End - 1
           /\ (S \cup Chunk) \cap T = {} /\ S \cap (T \cup Chunk) = {}
           /\ Chunk \subseteq Nat
BY EndBounds DEF Chunk, TypeOK, Match

LEMMA MatchTyped ==
    ASSUME NEW n \in Nat, NEW b \in Nat, NEW S \in SUBSET Nat, NEW T \in SUBSET Nat
    PROVE  [cursor |-> n, batch |-> b, answered |-> S, missed |-> T] \in Match
BY DEF Match

LEMMA HalvedTyped ==
    ASSUME TypeOK
    PROVE  Halved \in Nat
<1>1. match.batch \in Nat /\ MinBatch \in Nat
  BY SiteLimiterAssumption DEF TypeOK, Match
<1>2. match.batch \div 2 \in Int
  BY <1>1
<1>3. QED
  BY <1>1, <1>2 DEF Halved

-----------------------------------------------------------------------------
(* The parts of the invariant.                                             *)

\* Callers that are on the way to open the circuit.
Opening(c) == caller[c].at \in {"load", "store", "trip"} /\ caller[c].seen >= Threshold

\* A step that counts nothing, closes nothing and keeps its caller on the way.
LEMMA BreakerKeeps ==
    ASSUME BreakerIsNotMissed, UNCHANGED <<errors, cooldowns>>,
           circuit' = circuit \/ circuit' = "open",
           \A c \in Callers : Opening(c) => Opening(c)'
    PROVE  BreakerIsNotMissed'
BY DEF BreakerIsNotMissed, Opening

\* A step of a caller that has not ended the query, or that ends it as it should.
LEMMA HashesKeep ==
    ASSUME EveryHashIsAskedFor, UNCHANGED <<match, cooldowns>>,
           circuit' = circuit \/ circuit' = "open",
           caller'[Query].at = "ended" => caller[Query].at = "ended" \/ circuit' = "open"
    PROVE  EveryHashIsAskedFor'
BY DEF EveryHashIsAskedFor

\* The query has gone on behind its batch.
LEMMA HashesMove ==
    ASSUME TypeOK, EveryHashIsAskedFor,
           \/ match' = [match EXCEPT !.answered = @ \cup Chunk, !.cursor = End]
           \/ match' = [match EXCEPT !.missed = @ \cup Chunk, !.cursor = End],
           caller'[Query].at = "ended" => End = NumHashes
    PROVE  /\ EveryHashIsAskedFor'
           /\ match' \in Match /\ match'.cursor <= NumHashes
<1> DEFINE A == match.answered
           B == match.missed
<1>1. /\ A \cup B = 0 .. match.cursor - 1 /\ A \cap B = {}
      /\ A \subseteq Nat /\ B \subseteq Nat /\ match.batch \in Nat
      /\ match = [cursor |-> match.cursor, batch |-> match.batch, answered |-> A,
                  missed |-> B]
  BY DEF TypeOK, Match, EveryHashIsAskedFor
<1>2. /\ (A \cup Chunk) \cup B = 0 .. End - 1
      /\ A \cup (B \cup Chunk) = 0 .. End - 1
      /\ (A \cup Chunk) \cap B = {} /\ A \cap (B \cup Chunk) = {}
      /\ Chunk \subseteq Nat
  BY <1>1, NextChunk
<1>3. End \in Nat /\ End <= NumHashes
  BY EndBounds
<1>4. \/ match' = [cursor |-> End, batch |-> match.batch, answered |-> A \cup Chunk,
                   missed |-> B]
      \/ match' = [cursor |-> End, batch |-> match.batch, answered |-> A,
                   missed |-> B \cup Chunk]
  BY <1>1
<1>5. /\ match'.cursor = End
      /\ match'.answered \cup match'.missed = 0 .. End - 1
      /\ match'.answered \cap match'.missed = {}
  BY <1>2, <1>4
<1>6. match' \in Match
  BY <1>1, <1>2, <1>3, <1>4, MatchTyped
<1>7. QED
  BY <1>3, <1>5, <1>6 DEF EveryHashIsAskedFor

\* A caller that moves and touches neither the count, the circuit nor the query.
LEMMA QuietStep ==
    ASSUME IInv, NEW c \in Callers,
           caller' \in [Callers -> Caller],
           \A d \in Callers : d # c => caller'[d] = caller[d],
           Opening(c) => Opening(c)', caller'[c].at # "ended",
           UNCHANGED <<errors, circuit, match, cooldowns>>,
           doublings' \in 0 .. MaxDoublings, extra' \in BOOLEAN,
           downloads' \in 0 .. MaxDownloads
    PROVE  IInv'
<1>1. TypeOK'
  BY DEF IInv, TypeOK
<1>2. BreakerIsNotMissed'
  <2>1. \A d \in Callers : Opening(d) => Opening(d)'
    BY DEF Opening
  <2>2. QED
    BY <2>1, BreakerKeeps DEF IInv
<1>3. EveryHashIsAskedFor'
  <2>1. caller'[Query].at = "ended" => caller[Query].at = "ended"
    BY DEF Callers
  <2>2. QED
    BY <2>1, HashesKeep DEF IInv
<1>4. QED
  BY <1>1, <1>2, <1>3 DEF IInv

-----------------------------------------------------------------------------
(* The actions.                                                            *)

LEMMA AcquireStep ==
    ASSUME IInv, NEW c \in Callers, Acquire(c)
    PROVE  IInv'
<1>1. caller \in [Callers -> Caller]
  BY DEF IInv, TypeOK
<1>2. \E p \in {"failed", "request", "wait"} : Go(c, p)
  BY DEF Acquire
<1>3. PICK p \in {"failed", "request", "wait"} : Go(c, p)
  BY <1>2
<1>4. p \in Points
  BY DEF Points
<1>5. /\ caller' \in [Callers -> Caller] /\ caller'[c].at = p
      /\ \A d \in Callers : d # c => caller'[d] = caller[d]
  BY <1>1, <1>3, <1>4, GoCaller
<1>6. ~Opening(c)
  BY DEF Acquire, Opening
<1>7. QED
  BY <1>5, <1>6, QuietStep DEF Acquire, IInv, TypeOK, bounds

LEMMA WaitStep ==
    ASSUME IInv, NEW c \in Callers, Wait(c)
    PROVE  IInv'
<1>1. caller \in [Callers -> Caller] /\ Go(c, "request") /\ "request" \in Points
  BY DEF IInv, TypeOK, Wait, Points
<1>2. /\ caller' \in [Callers -> Caller] /\ caller'[c].at = "request"
      /\ \A d \in Callers : d # c => caller'[d] = caller[d]
  BY <1>1, GoCaller
<1>3. ~Opening(c)
  BY DEF Wait, Opening
<1>4. QED
  BY <1>2, <1>3, QuietStep DEF Wait, IInv, TypeOK, bounds

LEMMA RequestStep ==
    ASSUME IInv, NEW c \in Callers, Request(c)
    PROVE  IInv'
<1>1. caller \in [Callers -> Caller] /\ caller[c] \in Caller
  BY DEF IInv, TypeOK
<1>2. ~Opening(c)
  BY DEF Request, Opening
<1>3. /\ UNCHANGED <<errors, doublings, extra, circuit, downloads, cooldowns>>
      /\ doublings \in 0 .. MaxDoublings /\ extra \in BOOLEAN
      /\ downloads \in 0 .. MaxDownloads
  BY DEF Request, bounds, IInv, TypeOK
<1>4. CASE (Go(c, "okErrors") \/ Go(c, "failed")) /\ UNCHANGED match
  <2>1. PICK p \in {"okErrors", "failed"} : Go(c, p)
    BY <1>4
  <2>2. p \in Points
    BY DEF Points
  <2>3. /\ caller' \in [Callers -> Caller] /\ caller'[c].at = p
        /\ \A d \in Callers : d # c => caller'[d] = caller[d]
    BY <1>1, <2>1, <2>2, GoCaller
  <2>4. QED
    BY <1>2, <1>3, <1>4, <2>3, QuietStep
<1>5. CASE /\ \/ Set(c, [caller[c] EXCEPT !.at = "recordWait", !.reason = "limited"])
              \/ Set(c, [caller[c] EXCEPT !.at = "count", !.reason = "error"])
           /\ UNCHANGED match
  <2>1. PICK p \in {"recordWait", "count"}, r \in {"limited", "error"} :
            Set(c, [caller[c] EXCEPT !.at = p, !.reason = r])
    BY <1>5
  <2>2. /\ [caller[c] EXCEPT !.at = p, !.reason = r] \in Caller
        /\ [caller[c] EXCEPT !.at = p, !.reason = r].at = p
    BY <1>1 DEF Caller, Points, Reasons
  <2>3. /\ caller' \in [Callers -> Caller] /\ caller'[c].at = p
        /\ \A d \in Callers : d # c => caller'[d] = caller[d]
    BY <1>1, <2>1, <2>2, SetCaller
  <2>4. QED
    BY <1>2, <1>3, <1>5, <2>3, QuietStep
<1>6. CASE match' = Shrunk(Halved) /\ Go(c, "acquire")
  <2>1. /\ caller' \in [Callers -> Caller] /\ caller'[c].at = "acquire"
        /\ \A d \in Callers : d # c => caller'[d] = caller[d]
    BY <1>1, <1>6, GoCaller DEF Points
  <2>2. Halved \in Nat
    BY HalvedTyped DEF IInv
  <2>3. /\ match' \in Match
        /\ match'.cursor = match.cursor
        /\ match'.answered = match.answered /\ match'.missed = match.missed
    BY <1>6, <2>2 DEF IInv, TypeOK, Match, Shrunk
  <2>4. TypeOK'
    BY <1>3, <2>1, <2>3 DEF IInv, TypeOK
  <2>5. BreakerIsNotMissed'
    <3>1. \A d \in Callers : Opening(d) => Opening(d)'
      BY <1>2, <2>1 DEF Opening
    <3>2. QED
      BY <1>3, <3>1, BreakerKeeps DEF IInv
  <2>6. EveryHashIsAskedFor'
    <3>1. caller'[Query].at = "ended" => caller[Query].at = "ended"
      BY <2>1 DEF Callers
    <3>2. QED
      BY <1>3, <2>3, <3>1 DEF IInv, EveryHashIsAskedFor
  <2>7. QED
    BY <2>4, <2>5, <2>6 DEF IInv
<1>7. QED
  BY <1>4, <1>5, <1>6 DEF Request

LEMMA ClearErrorsStep ==
    ASSUME IInv, NEW c \in Callers, ClearErrors(c)
    PROVE  IInv'
<1>1. caller \in [Callers -> Caller] /\ Go(c, "okInterval") /\ "okInterval" \in Points
  BY DEF IInv, TypeOK, ClearErrors, Points
<1>2. /\ caller' \in [Callers -> Caller] /\ caller'[c].at = "okInterval"
      /\ \A d \in Callers : d # c => caller'[d] = caller[d]
  BY <1>1, GoCaller
<1>3. TypeOK'
  BY <1>2 DEF IInv, TypeOK, ClearErrors, bounds
<1>4. BreakerIsNotMissed'
  BY SiteLimiterAssumption DEF ClearErrors, BreakerIsNotMissed
<1>5. EveryHashIsAskedFor'
  <2>1. caller'[Query].at = "ended" => caller[Query].at = "ended"
    BY <1>2 DEF Callers
  <2>2. QED
    BY <2>1, HashesKeep DEF IInv, ClearErrors, bounds
<1>6. QED
  BY <1>3, <1>4, <1>5 DEF IInv

LEMMA ClearIntervalStep ==
    ASSUME IInv, NEW c \in Callers, ClearInterval(c)
    PROVE  IInv'
<1>1. caller \in [Callers -> Caller] /\ Go(c, "okExtra") /\ "okExtra" \in Points
  BY DEF IInv, TypeOK, ClearInterval, Points
<1>2. /\ caller' \in [Callers -> Caller] /\ caller'[c].at = "okExtra"
      /\ \A d \in Callers : d # c => caller'[d] = caller[d]
  BY <1>1, GoCaller
<1>3. ~Opening(c) /\ doublings' \in 0 .. MaxDoublings
  BY SiteLimiterAssumption DEF ClearInterval, Opening
<1>4. QED
  BY <1>2, <1>3, QuietStep DEF ClearInterval, IInv, TypeOK, bounds

LEMMA ClearExtraStep ==
    ASSUME IInv, NEW c \in Callers, ClearExtra(c)
    PROVE  IInv'
<1>1. caller \in [Callers -> Caller] /\ Proceed(c)
  BY DEF IInv, TypeOK, ClearExtra
<1> DEFINE p == IF c \in Downloads \/ End = NumHashes THEN "ended" ELSE "acquire"
<1>2. Go(c, p) /\ p \in Points
  BY <1>1 DEF Proceed, Points
<1>3. /\ caller' \in [Callers -> Caller] /\ caller'[c].at = p
      /\ \A d \in Callers : d # c => caller'[d] = caller[d]
  BY <1>1, <1>2, GoCaller
<1>4. ~Opening(c)
  BY DEF ClearExtra, Opening
<1>5. BreakerIsNotMissed'
  <2>1. \A d \in Callers : Opening(d) => Opening(d)'
    BY <1>3, <1>4 DEF Opening
  <2>2. QED
    BY <2>1, BreakerKeeps DEF IInv, ClearExtra, bounds
<1>6. EveryHashIsAskedFor' /\ match' \in Match /\ match'.cursor <= NumHashes
  <2>1. CASE c = Query
    <3>1. match' = [match EXCEPT !.answered = @ \cup Chunk, !.cursor = End]
      BY <2>1 DEF ClearExtra
    <3>2. caller'[Query].at = "ended" => End = NumHashes
      BY <1>3, <2>1, SiteLimiterAssumption
    <3>3. QED
      BY <3>1, <3>2, HashesMove DEF IInv
  <2>2. CASE c # Query
    <3>1. caller'[Query] = caller[Query] /\ match' = match
      BY <1>3, <2>2 DEF Callers, ClearExtra
    <3>2. QED
      BY <3>1, HashesKeep DEF IInv, TypeOK, ClearExtra, bounds
  <2>3. QED
    BY <2>1, <2>2
<1>7. TypeOK'
  BY <1>3, <1>6 DEF IInv, TypeOK, ClearExtra, bounds
<1>8. QED
  BY <1>5, <1>6, <1>7 DEF IInv

LEMMA RecordWaitStep ==
    ASSUME IInv, NEW c \in Callers, RecordWait(c)
    PROVE  IInv'
<1>1. caller \in [Callers -> Caller] /\ Go(c, "count") /\ "count" \in Points
  BY DEF IInv, TypeOK, RecordWait, Points
<1>2. /\ caller' \in [Callers -> Caller] /\ caller'[c].at = "count"
      /\ \A d \in Callers : d # c => caller'[d] = caller[d]
  BY <1>1, GoCaller
<1>3. ~Opening(c)
  BY DEF RecordWait, Opening
<1>4. QED
  BY <1>2, <1>3, QuietStep DEF RecordWait, IInv, TypeOK, bounds

\* The caller that counts up to the threshold is the one that opens.
LEMMA CountErrorStep ==
    ASSUME IInv, NEW c \in Callers, CountError(c)
    PROVE  IInv'
<1> DEFINE s == [caller[c] EXCEPT !.at = "load", !.seen = errors + 1]
<1>1. caller \in [Callers -> Caller] /\ caller[c] \in Caller /\ errors \in Nat /\ Set(c, s)
  BY DEF IInv, TypeOK, CountError
<1>2. s \in Caller /\ s.at = "load" /\ s.seen = errors + 1
  <2>1. errors + 1 \in Nat
    BY <1>1
  <2>2. \A n \in Nat : LET r == [caller[c] EXCEPT !.at = "load", !.seen = n] IN
            r \in Caller /\ r.at = "load" /\ r.seen = n
    BY <1>1 DEF Caller, Points
  <2>3. QED
    BY <2>1, <2>2
<1> HIDE DEF s
<1>3. /\ caller' \in [Callers -> Caller] /\ caller'[c] = s
      /\ \A d \in Callers : d # c => caller'[d] = caller[d]
  BY <1>1, <1>2, SetCaller
<1>4. TypeOK'
  BY <1>1, <1>3 DEF IInv, TypeOK, CountError, bounds
<1>5. BreakerIsNotMissed'
  BY <1>2, <1>3 DEF BreakerIsNotMissed, CountError
<1>6. EveryHashIsAskedFor'
  <2>1. caller'[Query].at = "ended" => caller[Query].at = "ended"
    BY <1>2, <1>3 DEF Callers
  <2>2. QED
    BY <2>1, HashesKeep DEF IInv, CountError, bounds
<1>7. QED
  BY <1>4, <1>5, <1>6 DEF IInv

LEMMA LoadIntervalStep ==
    ASSUME IInv, NEW c \in Callers, LoadInterval(c)
    PROVE  IInv'
<1> DEFINE s == [caller[c] EXCEPT !.at = "store", !.loaded = doublings]
<1>1. /\ caller \in [Callers -> Caller] /\ caller[c] \in Caller /\ Set(c, s)
      /\ doublings \in Nat
  BY SiteLimiterAssumption DEF IInv, TypeOK, LoadInterval
<1>2. s \in Caller /\ s.at = "store" /\ s.seen = caller[c].seen
  BY <1>1 DEF Caller, Points
<1> HIDE DEF s
<1>3. /\ caller' \in [Callers -> Caller] /\ caller'[c] = s
      /\ \A d \in Callers : d # c => caller'[d] = caller[d]
  BY <1>1, <1>2, SetCaller
<1>4. Opening(c) => Opening(c)'
  BY <1>2, <1>3 DEF Opening
<1>5. caller'[c].at # "ended"
  BY <1>2, <1>3
<1>6. QED
  BY <1>3, <1>4, <1>5, QuietStep DEF LoadInterval, IInv, TypeOK, bounds, limiter

\* What the loops do after an error; only the query that opened the circuit may
\* stop before the end of its hashes.
LEMMA AfterErrorFrame ==
    ASSUME TypeOK, EveryHashIsAskedFor, NEW c \in Callers, NEW tripped \in BOOLEAN,
           AfterError(c, tripped), UNCHANGED cooldowns,
           circuit' = IF tripped THEN "open" ELSE circuit
    PROVE  /\ caller' \in [Callers -> Caller]
           /\ \A d \in Callers : d # c => caller'[d] = caller[d]
           /\ match' \in Match /\ match'.cursor <= NumHashes
           /\ EveryHashIsAskedFor'
<1> DEFINE rest == [caller[c] EXCEPT !.seen = 0, !.loaded = 0, !.reason = "none"]
<1>1. /\ caller \in [Callers -> Caller] /\ caller[c] \in Caller
      /\ rest \in Caller /\ rest.attempt \in Nat
  BY DEF TypeOK, Caller, Reasons
<1>2. CASE c = Query
  <2> DEFINE p == IF tripped \/ End = NumHashes THEN "ended" ELSE "acquire"
  <2>1. Set(c, [rest EXCEPT !.at = p])
    BY <1>2 DEF AfterError
  <2>2. [rest EXCEPT !.at = p] \in Caller /\ [rest EXCEPT !.at = p].at = p
    BY <1>1 DEF Caller, Points
  <2>3. /\ caller' \in [Callers -> Caller] /\ caller'[c].at = p
        /\ \A d \in Callers : d # c => caller'[d] = caller[d]
    BY <1>1, <2>1, <2>2, SetCaller
  <2>4. CASE tripped
    <3>1. match' = match /\ circuit' = "open"
      BY <1>2, <2>4 DEF AfterError
    <3>2. EveryHashIsAskedFor'
      BY <3>1, HashesKeep
    <3>3. QED
      BY <2>3, <3>1, <3>2 DEF TypeOK
  <2>5. CASE ~tripped
    <3>1. match' = [match EXCEPT !.missed = @ \cup Chunk, !.cursor = End]
      BY <1>2, <2>5 DEF AfterError
    <3>2. caller'[Query].at = "ended" => End = NumHashes
      BY <1>2, <2>3, <2>5
    <3>3. QED
      BY <2>3, <3>1, <3>2, HashesMove
  <2>6. QED
    BY <2>4, <2>5
<1>3. CASE c # Query
  <2>1. match' = match
    BY <1>3 DEF AfterError
  <2>2. PICK s \in Caller : Set(c, s)
    <3>1. rest.attempt + 1 \in Nat
      BY <1>1
    <3>2. \A n \in Nat : [rest EXCEPT !.at = "acquire", !.attempt = n] \in Caller
      BY <1>1 DEF Caller, Points
    <3>3. [rest EXCEPT !.at = "acquire", !.attempt = @ + 1] \in Caller
      BY <3>1, <3>2
    <3>4. [rest EXCEPT !.at = "failed"] \in Caller
      BY <1>1 DEF Caller, Points
    <3>5. QED
      BY <1>3, <3>3, <3>4 DEF AfterError
  <2>3. /\ caller' \in [Callers -> Caller]
        /\ \A d \in Callers : d # c => caller'[d] = caller[d]
    BY <1>1, <2>2, SetCaller
  <2>4. caller'[Query] = caller[Query]
    BY <1>3, <2>3 DEF Callers
  <2>5. EveryHashIsAskedFor'
    BY <2>1, <2>4, HashesKeep
  <2>6. QED
    BY <2>1, <2>3, <2>5 DEF TypeOK
<1>4. QED
  BY <1>2, <1>3

LEMMA StoreIntervalStep ==
    ASSUME IInv, NEW c \in Callers, StoreInterval(c)
    PROVE  IInv'
<1>1. /\ caller \in [Callers -> Caller] /\ caller[c] \in Caller
      /\ caller[c].at = "store" /\ caller[c].loaded \in Nat
      /\ UNCHANGED <<errors, extra, circuit, downloads, cooldowns>>
  BY DEF IInv, TypeOK, StoreInterval, Caller, bounds
<1>2. doublings' \in 0 .. MaxDoublings
  BY <1>1, SiteLimiterAssumption DEF StoreInterval
<1>3. CASE Trips(caller[c].seen)
  <2>1. Go(c, "trip") /\ UNCHANGED match /\ "trip" \in Points
    BY <1>3 DEF StoreInterval, Points
  <2>2. /\ caller' \in [Callers -> Caller] /\ caller'[c].at = "trip"
        /\ caller'[c].seen = caller[c].seen
        /\ \A d \in Callers : d # c => caller'[d] = caller[d]
    BY <1>1, <2>1, GoCaller
  <2>3. Opening(c) => Opening(c)'
    BY <2>2 DEF Opening
  <2>4. QED
    BY <1>1, <1>2, <2>1, <2>2, <2>3, QuietStep DEF IInv, TypeOK
<1>4. CASE ~Trips(caller[c].seen)
  <2>1. AfterError(c, FALSE)
    BY <1>4 DEF StoreInterval
  <2>2. /\ caller' \in [Callers -> Caller]
        /\ \A d \in Callers : d # c => caller'[d] = caller[d]
        /\ match' \in Match /\ match'.cursor <= NumHashes
        /\ EveryHashIsAskedFor'
    BY <1>1, <2>1, AfterErrorFrame DEF IInv
  <2>3. TypeOK'
    BY <1>1, <1>2, <2>2 DEF IInv, TypeOK
  <2>4. BreakerIsNotMissed'
    <3>1. ~Opening(c)
      BY <1>4 DEF Opening, Trips
    <3>2. \A d \in Callers : Opening(d) => Opening(d)'
      BY <2>2, <3>1 DEF Opening
    <3>3. QED
      BY <1>1, <3>2, BreakerKeeps DEF IInv
  <2>5. QED
    BY <2>2, <2>3, <2>4 DEF IInv
<1>5. QED
  BY <1>3, <1>4

LEMMA TripStep ==
    ASSUME IInv, NEW c \in Callers, Trip(c)
    PROVE  IInv'
<1>1. /\ circuit' = "open" /\ AfterError(c, TRUE)
      /\ UNCHANGED <<errors, doublings, extra, downloads, cooldowns>>
  BY DEF Trip, bounds
<1>2. /\ caller' \in [Callers -> Caller]
      /\ match' \in Match /\ match'.cursor <= NumHashes
      /\ EveryHashIsAskedFor'
  BY <1>1, AfterErrorFrame DEF IInv
<1>3. TypeOK'
  BY <1>1, <1>2 DEF IInv, TypeOK
<1>4. BreakerIsNotMissed'
  BY <1>1 DEF BreakerIsNotMissed
<1>5. QED
  BY <1>2, <1>3, <1>4 DEF IInv

LEMMA CooldownStep ==
    ASSUME IInv, Cooldown
    PROVE  IInv'
<1>1. /\ cooldowns' = cooldowns + 1 /\ cooldowns \in Nat
      /\ UNCHANGED <<errors, doublings, extra, caller, match, downloads>>
  BY SiteLimiterAssumption DEF Cooldown, IInv, TypeOK
<1>2. TypeOK'
  BY <1>1, SiteLimiterAssumption DEF IInv, TypeOK, Cooldown
<1>3. BreakerIsNotMissed'
  BY <1>1 DEF BreakerIsNotMissed
<1>4. EveryHashIsAskedFor'
  BY <1>1 DEF IInv, EveryHashIsAskedFor
<1>5. QED
  BY <1>2, <1>3, <1>4 DEF IInv

LEMMA DownloadStep ==
    ASSUME IInv, NEW c \in Callers, Download(c)
    PROVE  IInv'
<1> DEFINE s == [caller[c] EXCEPT !.at = "acquire", !.attempt = 0]
<1>1. /\ caller \in [Callers -> Caller] /\ caller[c] \in Caller /\ Set(c, s)
  BY DEF IInv, TypeOK, Download
<1>2. s \in Caller /\ s.at = "acquire"
  BY <1>1 DEF Caller, Points
<1> HIDE DEF s
<1>3. /\ caller' \in [Callers -> Caller] /\ caller'[c] = s
      /\ \A d \in Callers : d # c => caller'[d] = caller[d]
  BY <1>1, <1>2, SetCaller
<1>4. ~Opening(c) /\ caller'[c].at # "ended"
  BY <1>2, <1>3 DEF Opening, Download
<1>5. downloads' \in 0 .. MaxDownloads
  BY SiteLimiterAssumption DEF Download, IInv, TypeOK
<1>6. QED
  BY <1>3, <1>4, <1>5, QuietStep DEF Download, IInv, TypeOK, limiter

-----------------------------------------------------------------------------
(* The theorems.                                                           *)

LEMMA InitIInv == Init => IInv
<1> SUFFICES ASSUME Init PROVE IInv
  OBVIOUS
<1>1. /\ 0 .. -1 = {} /\ 0 \in 0 .. MaxDoublings /\ 0 \in 0 .. MaxDownloads
      /\ 0 \in 0 .. MaxCooldowns /\ 0 <= NumHashes /\ FirstBatch \in Nat
  BY SiteLimiterAssumption
<1>2. caller \in [Callers -> Caller]
  BY DEF Init, Caller, Points, Reasons
<1>3. match \in Match /\ match.cursor = 0 /\ match.answered = {} /\ match.missed = {}
  BY <1>1 DEF Init, Match
<1>4. TypeOK
  BY <1>1, <1>2, <1>3 DEF Init, TypeOK
<1>5. BreakerIsNotMissed
  BY SiteLimiterAssumption DEF Init, BreakerIsNotMissed
<1>6. caller[Query].at = "acquire"
  BY DEF Init, Callers
<1>7. EveryHashIsAskedFor
  BY <1>1, <1>3, <1>6 DEF EveryHashIsAskedFor
<1>8. QED
  BY <1>4, <1>5, <1>7 DEF IInv

LEMMA NextIInv == IInv /\ [Next]_vars => IInv'
<1> SUFFICES ASSUME IInv, [Next]_vars PROVE IInv'
  OBVIOUS
<1>1. ASSUME NEW c \in Callers, Step(c) PROVE IInv'
  BY <1>1, AcquireStep, WaitStep, RequestStep, ClearErrorsStep, ClearIntervalStep,
     ClearExtraStep, RecordWaitStep, CountErrorStep, LoadIntervalStep, StoreIntervalStep,
     TripStep DEF Step
<1>2. ASSUME NEW c \in Callers, Download(c) PROVE IInv'
  BY <1>2, DownloadStep
<1>3. CASE Cooldown
  BY <1>3, CooldownStep
<1>4. CASE UNCHANGED vars
  BY <1>4 DEF vars, IInv, TypeOK, BreakerIsNotMissed, EveryHashIsAskedFor, End
<1>5. QED
  BY <1>1, <1>2, <1>3, <1>4 DEF Next

\* The limiter's fields and the locals of its callers keep their types, whatever
\* accesses of rate_limiter.rs interleave, and the query of matcher.rs never asks
\* for a slice beyond its hashes.
THEOREM TypeCorrect == Spec => []TypeOK
<1>1. IInv => TypeOK
  BY DEF IInv
<1>2. QED
  BY <1>1, InitIInv, NextIInv, PTL DEF Spec

\* However the callers of record_error and record_success interleave, the threshold
\* is not passed with nobody opening the circuit (rate_limiter.rs:81-98).
THEOREM ThresholdIsNoticed == Spec => []BreakerIsNotMissed
<1>1. IInv => BreakerIsNotMissed
  BY DEF IInv
<1>2. QED
  BY <1>1, InitIInv, NextIInv, PTL DEF Spec

\* Whatever sizes it is halved to on its way, the query of match_single_site
\* (matcher.rs:276-363) passes over no hash and asks for none twice.
THEOREM NoHashIsSkipped == Spec => []EveryHashIsAskedFor
<1>1. IInv => EveryHashIsAskedFor
  BY DEF IInv
<1>2. QED
  BY <1>1, InitIInv, NextIInv, PTL DEF Spec

-----------------------------------------------------------------------------
(* The match phase.                                                        *)

\* What MatchAddsUp leaves open of a match under way: the hashes of the site that is
\* in the history filter count as neither skipped nor asked for yet.
RunRec == [at : {"idle", "urls", "next", "history", "done", "failed"},
           start : Nat, before : SUBSET Pairs, scanned : SUBSET Hashes,
           todo : SUBSET Sites, served : SUBSET Sites, tracked : SUBSET Pairs,
           site : Sites \cup {NoSite}, unread : SUBSET Hashes, known : SUBSET Hashes,
           skipped : SUBSET Pairs, skippedTracker : Nat, skippedHistory : Nat,
           matchedCount : Nat, matched : SUBSET Pairs]
TaskRec == [at : {"none", "running", "ok", "error"}, asked : SUBSET Hashes,
            left : SUBSET Hashes, found : SUBSET Hashes]
MatchTypes ==
    /\ history \in SUBSET Pairs
    /\ run \in [Runs -> RunRec]
    /\ task \in [Starts -> [Sites -> TaskRec]]
    /\ starts \in 0 .. MaxStarts

\* No two runs share a match, and the tasks of a match to come are unused.
StartsApart ==
    /\ \A r \in Runs : run[r].at # "idle" => run[r].start \in 1 .. starts
    /\ \A r, q \in Runs :
          run[r].at # "idle" /\ run[q].at # "idle" /\ run[r].start = run[q].start
              => r = q
    /\ \A n \in Starts, s \in Sites : n > starts => task[n][s].asked = {}

FoundWasAsked ==
    \A n \in Starts, s \in Sites :
        /\ task[n][s].left \subseteq task[n][s].asked
        /\ task[n][s].found \subseteq task[n][s].asked

Live(r) == run[r].at \in {"urls", "next", "history", "done"}

\* Where the loop over the targets is.
LoopOK(r) ==
    /\ run[r].todo \cap run[r].served = {}
    /\ run[r].at = "urls" => run[r].served = {}
    /\ run[r].at # "history" => run[r].site = NoSite /\ run[r].known = {}
    /\ run[r].at = "history" =>
          /\ run[r].site \in run[r].served
          /\ run[r].unread \subseteq Remaining(run[r], run[r].site)
          /\ run[r].known \subseteq Remaining(run[r], run[r].site)
    /\ \A s \in Sites : MyTask(r, s).asked # {} => s \in run[r].served \ {run[r].site}
    /\ \A p \in run[r].skipped : p[1] \in run[r].served \ {run[r].site}

\* A skipped pair has succeeded, and one that had when the match began is not asked
\* for; a chunk that was read has left nothing of the kind behind.
SkipsAreJust(r) ==
    /\ run[r].before \subseteq history
    /\ run[r].skipped \subseteq history
    /\ run[r].at = "history" =>
          /\ \A h \in run[r].known : <<run[r].site, h>> \in history
          /\ \A h \in Remaining(run[r], run[r].site) \ run[r].unread :
                <<run[r].site, h>> \in run[r].before => h \in run[r].known
    /\ \A s \in Sites : \A h \in MyTask(r, s).asked :
          <<s, h>> \notin run[r].before /\ <<s, h>> \notin run[r].skipped

Pending(r) ==
    IF run[r].at = "history" THEN Remaining(run[r], run[r].site) ELSE {}
Counted(r) ==
    /\ run[r].skippedTracker + run[r].skippedHistory + Cardinality(AskedBy(r))
          + Cardinality(Pending(r))
       = Cardinality(run[r].served) * Cardinality(run[r].scanned)
    /\ run[r].skippedHistory = Cardinality(run[r].skipped)
    /\ run[r].matchedCount = Cardinality(run[r].matched)
    /\ Matching(r) => run[r].matched = {}

RunOK(r) == Live(r) => LoopOK(r) /\ SkipsAreJust(r) /\ Counted(r)
MatchInv ==
    /\ MatchTypes
    /\ StartsApart
    /\ FoundWasAsked
    /\ \A r \in Runs : RunOK(r)

LEMMA FieldsOf ==
    ASSUME MatchTypes, NEW r \in Runs
    PROVE  /\ run[r] \in RunRec
           /\ run[r].start \in Nat /\ run[r].before \subseteq Pairs
           /\ run[r].scanned \subseteq Hashes /\ run[r].todo \subseteq Sites
           /\ run[r].served \subseteq Sites /\ run[r].tracked \subseteq Pairs
           /\ run[r].unread \subseteq Hashes /\ run[r].known \subseteq Hashes
           /\ run[r].skipped \subseteq Pairs /\ run[r].matched \subseteq Pairs
           /\ run[r].skippedTracker \in Nat /\ run[r].skippedHistory \in Nat
           /\ run[r].matchedCount \in Nat
BY DEF MatchTypes, RunRec

LEMMA TaskFields ==
    ASSUME MatchTypes, NEW n \in Starts, NEW s \in Sites
    PROVE  /\ task[n][s] \in TaskRec
           /\ task[n][s].asked \subseteq Hashes /\ task[n][s].left \subseteq Hashes
           /\ task[n][s].found \subseteq Hashes
BY DEF MatchTypes, TaskRec

\* A run that has begun has its tasks.
LEMMA HasStart ==
    ASSUME MatchTypes, StartsApart, NEW r \in Runs, run[r].at # "idle"
    PROVE  run[r].start \in Starts
BY MatchPhaseAssumption DEF MatchTypes, StartsApart, Starts

LEMMA ChunkIsUnread ==
    ASSUME NEW unread, NEW c \in Chunks(unread)
    PROVE  c \subseteq unread
BY DEF Chunks

\* The pairs over some sites: counted site by site.
LEMMA RowOfPairs ==
    ASSUME NEW s, NEW K, IsFiniteSet(K)
    PROVE  IsFiniteSet({s} \X K) /\ Cardinality({s} \X K) = Cardinality(K)
<1>1. IsFiniteSet({s}) /\ Cardinality({s}) = 1
  BY FS_Singleton
<1>2. /\ IsFiniteSet({s} \X K)
      /\ Cardinality({s} \X K) = Cardinality({s}) * Cardinality(K)
  BY <1>1, FS_Product
<1>3. Cardinality(K) \in Nat
  BY FS_CardinalityType
<1>4. QED
  BY <1>1, <1>2, <1>3

LEMMA DisjointSum ==
    ASSUME NEW S, NEW T, IsFiniteSet(S), IsFiniteSet(T), S \cap T = {}
    PROVE  /\ IsFiniteSet(S \cup T)
           /\ Cardinality(S \cup T) = Cardinality(S) + Cardinality(T)
<1>1. /\ IsFiniteSet(S \cup T)
      /\ Cardinality(S \cup T) = Cardinality(S) + Cardinality(T) - Cardinality(S \cap T)
  BY FS_Union
<1>2. Cardinality(S \cap T) = 0
  BY FS_EmptySet
<1>3. Cardinality(S) \in Nat /\ Cardinality(T) \in Nat
  BY FS_CardinalityType
<1>4. QED
  BY <1>1, <1>2, <1>3

LEMMA SplitSum ==
    ASSUME NEW S, NEW T \in SUBSET S, IsFiniteSet(S)
    PROVE  /\ IsFiniteSet(T) /\ IsFiniteSet(S \ T)
           /\ Cardinality(S) = Cardinality(T) + Cardinality(S \ T)
<1>1. IsFiniteSet(T) /\ IsFiniteSet(S \ T)
  BY FS_Subset
<1>2. S = T \cup (S \ T) /\ T \cap (S \ T) = {}
  OBVIOUS
<1>3. QED
  BY <1>1, <1>2, DisjointSum

LEMMA FiniteParts ==
    ASSUME NEW S
    PROVE  /\ S \subseteq Hashes => IsFiniteSet(S) /\ Cardinality(S) \in Nat
           /\ S \subseteq Sites => IsFiniteSet(S) /\ Cardinality(S) \in Nat
           /\ S \subseteq Pairs => IsFiniteSet(S) /\ Cardinality(S) \in Nat
<1>1. IsFiniteSet(Hashes) /\ IsFiniteSet(Sites)
  BY MatchPhaseAssumption
<1>2. IsFiniteSet(Pairs)
  BY <1>1, FS_Product DEF Pairs
<1>3. QED
  BY <1>1, <1>2, FS_Subset, FS_CardinalityType

LEMMA AskedPairs ==
    ASSUME MatchTypes, NEW r \in Runs, run[r].start \in Starts
    PROVE  /\ AskedBy(r) \subseteq Pairs
           /\ \A s, h : <<s, h>> \in AskedBy(r) <=> s \in Sites /\ h \in MyTask(r, s).asked
<1>1. \A s \in Sites : MyTask(r, s).asked \subseteq Hashes
  BY TaskFields DEF MyTask
<1>2. \A p : p \in AskedBy(r) <=> \E s \in Sites : p \in {s} \X MyTask(r, s).asked
  BY DEF AskedBy
<1>3. QED
  BY <1>1, <1>2 DEF Pairs

-----------------------------------------------------------------------------
(* What a match has counted stays so while others move.                    *)

LEMMA OthersStayOK ==
    ASSUME MatchTypes, StartsApart, NEW q \in Runs, RunOK(q), run'[q] = run[q],
           history \subseteq history',
           run[q].at # "idle" =>
              \A s \in Sites : task'[run[q].start][s].asked = task[run[q].start][s].asked
    PROVE  RunOK(q)'
<1> SUFFICES ASSUME Live(q)
             PROVE  (LoopOK(q) /\ SkipsAreJust(q) /\ Counted(q))'
  BY DEF RunOK, Live
<1>1. \A s \in Sites : MyTask(q, s)'.asked = MyTask(q, s).asked
  BY DEF Live, MyTask
<1>2. LoopOK(q)'
  BY <1>1 DEF RunOK, LoopOK, Remaining, FilteredByTracker
<1>3. SkipsAreJust(q)'
  BY <1>1 DEF RunOK, SkipsAreJust, Remaining, FilteredByTracker
<1>4. AskedBy(q)' = AskedBy(q)
  BY <1>1 DEF AskedBy
<1>5. Pending(q)' = Pending(q)
  BY DEF Pending, Remaining, FilteredByTracker
<1>6. Counted(q)'
  BY <1>4, <1>5 DEF RunOK, Counted, Matching
<1>7. QED
  BY <1>2, <1>3, <1>6

LEMMA SetRunFrame ==
    ASSUME MatchTypes, NEW r \in Runs, NEW R \in RunRec, SetRun(r, R)
    PROVE  /\ run' \in [Runs -> RunRec] /\ run'[r] = R
           /\ \A q \in Runs : q # r => run'[q] = run[q]
BY DEF SetRun, MatchTypes

\* A run that goes on with its match, alone.
LEMMA RunMoves ==
    ASSUME MatchInv, NEW r \in Runs, NEW R \in RunRec, SetRun(r, R),
           R.start = run[r].start, run[r].at # "idle",
           UNCHANGED <<history, task, starts>>,
           RunOK(r)'
    PROVE  MatchInv'
<1>1. /\ run' \in [Runs -> RunRec] /\ run'[r] = R
      /\ \A q \in Runs : q # r => run'[q] = run[q]
  BY SetRunFrame DEF MatchInv
<1>2. MatchTypes' /\ FoundWasAsked'
  BY <1>1 DEF MatchInv, MatchTypes, FoundWasAsked
<1>3. StartsApart'
  BY <1>1 DEF MatchInv, StartsApart
<1>4. \A q \in Runs : RunOK(q)'
  BY <1>1, OthersStayOK DEF MatchInv
<1>5. QED
  BY <1>2, <1>3, <1>4 DEF MatchInv

\* The run goes on inside its match.
StaysInside(r) ==
    /\ Matching(r) /\ history' = history
    /\ \E R \in RunRec : /\ SetRun(r, R) /\ R.at \in {"urls", "next", "history"}
                         /\ R.before = run[r].before /\ R.matched = run[r].matched

LEMMA BeginStep ==
    ASSUME MatchInv, NEW r \in Runs, Begin(r)
    PROVE  MatchInv'
<1>1. PICK scanned \in SUBSET Hashes, targets \in SUBSET Sites :
         SetRun(r, [NoRun EXCEPT !.at = "urls", !.start = starts + 1,
                                 !.before = history,
                                 !.scanned = scanned, !.unread = scanned,
                                 !.todo = IF scanned = {} THEN {} ELSE targets])
  BY DEF Begin
<1> DEFINE T == IF scanned = {} THEN {} ELSE targets
           R == [NoRun EXCEPT !.at = "urls", !.start = starts + 1, !.before = history,
                              !.scanned = scanned, !.unread = scanned, !.todo = T]
<1>2. /\ starts \in Nat /\ starts + 1 \in Starts /\ starts' = starts + 1
      /\ UNCHANGED <<history, task>>
  BY MatchPhaseAssumption DEF Begin, MatchInv, MatchTypes, Starts
<1>3. /\ R.at = "urls" /\ R.start = starts + 1 /\ R.before = history
      /\ R.scanned = scanned /\ R.unread = scanned /\ R.todo \subseteq Sites
      /\ R.served = {} /\ R.tracked = {} /\ R.site = NoSite /\ R.known = {}
      /\ R.skipped = {} /\ R.matched = {}
      /\ R.skippedTracker = 0 /\ R.skippedHistory = 0 /\ R.matchedCount = 0
  BY DEF NoRun
<1>4. R \in RunRec
  <2>1. T \in SUBSET Sites /\ history \in SUBSET Pairs /\ starts + 1 \in Nat
    BY <1>2 DEF MatchInv, MatchTypes
  <2> HIDE DEF T
  <2>2. NoRun \in RunRec
    BY DEF NoRun, RunRec
  <2> HIDE DEF NoRun
  <2>3. QED
    BY <2>1, <2>2 DEF RunRec
<1> HIDE DEF R
<1>5. /\ run' \in [Runs -> RunRec] /\ run'[r] = R
      /\ \A q \in Runs : q # r => run'[q] = run[q]
  BY <1>1, <1>4, SetRunFrame DEF MatchInv, R
<1>6. MatchTypes' /\ FoundWasAsked'
  BY <1>2, <1>5 DEF MatchInv, MatchTypes, FoundWasAsked, Starts
<1>7. StartsApart'
  <2>1. \A q \in Runs : run[q].at # "idle" => run[q].start \in 1 .. starts
    BY DEF MatchInv, StartsApart
  <2>2. \A q \in Runs : run'[q].at # "idle" => run'[q].start \in 1 .. starts + 1
    BY <1>2, <1>3, <1>5, <2>1
  <2>3. \A q, p \in Runs :
           run'[q].at # "idle" /\ run'[p].at # "idle" /\ run'[q].start = run'[p].start
              => q = p
    <3>1. \A q \in Runs : q # r /\ run'[q].at # "idle" => run'[q].start # run'[r].start
      BY <1>2, <1>3, <1>5, <2>1
    <3>2. QED
      BY <1>5, <3>1 DEF MatchInv, StartsApart
  <2>4. \A n \in Starts, s \in Sites : n > starts + 1 => task[n][s].asked = {}
    BY <1>2 DEF MatchInv, StartsApart, Starts
  <2>5. QED
    BY <1>2, <2>2, <2>3, <2>4 DEF StartsApart
<1>8. RunOK(r)'
  <2>1. \A s \in Sites : MyTask(r, s)'.asked = {}
    BY <1>2, <1>3, <1>5 DEF MyTask, MatchInv, StartsApart
  <2>2. LoopOK(r)'
    BY <1>3, <1>5, <2>1 DEF LoopOK
  <2>3. SkipsAreJust(r)'
    BY <1>2, <1>3, <1>5, <2>1 DEF SkipsAreJust
  <2>4. AskedBy(r)' = {} /\ Pending(r)' = {}
    <3>1. \A s \in Sites : {s} \X MyTask(r, s)'.asked = {}
      BY <2>1
    <3>2. AskedBy(r)' = {}
      BY <3>1 DEF AskedBy
    <3>3. QED
      BY <1>3, <1>5, <3>2 DEF Pending
  <2>5. Counted(r)'
    <3>1. Cardinality({}) = 0 /\ Cardinality(scanned) \in Nat
      BY FS_EmptySet, FiniteParts
    <3>2. 0 * Cardinality(scanned) = 0
      BY <3>1
    <3>3. /\ run'[r].skippedTracker = 0 /\ run'[r].skippedHistory = 0
          /\ run'[r].matchedCount = 0 /\ run'[r].scanned = scanned
          /\ run'[r].served = {} /\ run'[r].skipped = {} /\ run'[r].matched = {}
      BY <1>3, <1>5
    <3>4. QED
      BY <2>4, <3>1, <3>2, <3>3 DEF Counted
  <2>6. QED
    BY <2>2, <2>3, <2>5 DEF RunOK
<1>9. \A q \in Runs : q # r => RunOK(q)'
  BY <1>2, <1>5, OthersStayOK DEF MatchInv
<1>10. QED
  BY <1>6, <1>7, <1>8, <1>9 DEF MatchInv

LEMMA ReadUrlsStep ==
    ASSUME MatchInv, NEW r \in Runs, ReadUrls(r)
    PROVE  MatchInv' /\ StaysInside(r)
<1> DEFINE now == run[r]
<1>1. PICK c \in Chunks(now.unread), on \in SUBSET Pairs :
         SetRun(r, [now EXCEPT !.tracked = @ \cup on, !.unread = @ \ c,
                               !.at = IF now.unread = c THEN "next" ELSE "urls"])
  BY DEF ReadUrls
<1> DEFINE p == IF now.unread = c THEN "next" ELSE "urls"
           tr == now.tracked \cup on
           un == now.unread \ c
           R == [now EXCEPT !.tracked = tr, !.unread = un, !.at = p]
<1>2. now \in RunRec /\ now.at = "urls" /\ UNCHANGED <<history, task, starts>>
  BY FieldsOf DEF ReadUrls, MatchInv
<1>3. tr \in SUBSET Pairs /\ un \in SUBSET Hashes /\ p \in {"next", "urls"}
  BY FieldsOf DEF MatchInv
<1> HIDE DEF p, tr, un
<1>4. /\ R \in RunRec /\ R.at = p
      /\ R.start = now.start /\ R.before = now.before /\ R.scanned = now.scanned
      /\ R.todo = now.todo /\ R.served = now.served /\ R.site = now.site
      /\ R.known = now.known /\ R.skipped = now.skipped /\ R.matched = now.matched
      /\ R.skippedTracker = now.skippedTracker
      /\ R.skippedHistory = now.skippedHistory /\ R.matchedCount = now.matchedCount
  BY <1>2, <1>3 DEF RunRec
<1>5. SetRun(r, R)
  BY <1>1 DEF p, tr, un
<1> HIDE DEF R
<1>6. run'[r] = R
  BY <1>4, <1>5, SetRunFrame DEF MatchInv
<1>7. \A s \in Sites : MyTask(r, s)' = MyTask(r, s)
  BY <1>2, <1>4, <1>6 DEF MyTask
<1>8. RunOK(r)'
  <2>1. LoopOK(r) /\ SkipsAreJust(r) /\ Counted(r)
    BY <1>2 DEF MatchInv, RunOK, Live
  <2>2. LoopOK(r)'
    BY <1>2, <1>3, <1>4, <1>6, <1>7, <2>1 DEF LoopOK
  <2>3. SkipsAreJust(r)'
    BY <1>2, <1>3, <1>4, <1>6, <1>7, <2>1 DEF SkipsAreJust
  <2>4. AskedBy(r)' = AskedBy(r)
    BY <1>7 DEF AskedBy
  <2>5. Pending(r)' = Pending(r)
    BY <1>2, <1>3, <1>4, <1>6 DEF Pending
  <2>6. Counted(r)'
    BY <1>2, <1>3, <1>4, <1>6, <2>1, <2>4, <2>5 DEF Counted, Matching
  <2>7. QED
    BY <2>2, <2>3, <2>6 DEF RunOK
<1>9. QED
  BY <1>2, <1>3, <1>4, <1>5, <1>8, RunMoves DEF StaysInside, Matching

LEMMA PassOverStep ==
    ASSUME MatchInv, NEW r \in Runs, PassOver(r)
    PROVE  MatchInv' /\ StaysInside(r)
<1> DEFINE now == run[r]
<1>1. PICK s \in now.todo : SetRun(r, [now EXCEPT !.todo = @ \ {s}])
  BY DEF PassOver
<1> DEFINE td == now.todo \ {s}
           R == [now EXCEPT !.todo = td]
<1>2. now \in RunRec /\ now.at = "next" /\ UNCHANGED <<history, task, starts>>
  BY FieldsOf DEF PassOver, MatchInv
<1>3. td \in SUBSET Sites /\ td \subseteq now.todo
  BY FieldsOf DEF MatchInv
<1> HIDE DEF td
<1>4. /\ R \in RunRec /\ R.at = "next" /\ R.todo = td
      /\ R.start = now.start /\ R.before = now.before /\ R.scanned = now.scanned
      /\ R.served = now.served /\ R.site = now.site
      /\ R.known = now.known /\ R.skipped = now.skipped /\ R.matched = now.matched
      /\ R.skippedTracker = now.skippedTracker
      /\ R.skippedHistory = now.skippedHistory /\ R.matchedCount = now.matchedCount
  BY <1>2, <1>3 DEF RunRec
<1>5. SetRun(r, R)
  BY <1>1 DEF td
<1> HIDE DEF R
<1>6. run'[r] = R
  BY <1>4, <1>5, SetRunFrame DEF MatchInv
<1>7. \A x \in Sites : MyTask(r, x)' = MyTask(r, x)
  BY <1>2, <1>4, <1>6 DEF MyTask
<1>8. RunOK(r)'
  <2>1. LoopOK(r) /\ SkipsAreJust(r) /\ Counted(r)
    BY <1>2 DEF MatchInv, RunOK, Live
  <2>2. LoopOK(r)'
    BY <1>2, <1>3, <1>4, <1>6, <1>7, <2>1 DEF LoopOK
  <2>3. SkipsAreJust(r)'
    BY <1>2, <1>4, <1>6, <1>7, <2>1 DEF SkipsAreJust
  <2>4. AskedBy(r)' = AskedBy(r)
    BY <1>7 DEF AskedBy
  <2>5. Pending(r)' = Pending(r)
    BY <1>2, <1>4, <1>6 DEF Pending
  <2>6. Counted(r)'
    BY <1>2, <1>4, <1>6, <2>1, <2>4, <2>5 DEF Counted, Matching
  <2>7. QED
    BY <2>2, <2>3, <2>6 DEF RunOK
<1>9. QED
  BY <1>2, <1>4, <1>5, <1>8, RunMoves DEF StaysInside, Matching

\* Filter 1: what it drops and what is pending make up the scanned hashes of the site.
LEMMA FilterByTrackerStep ==
    ASSUME MatchInv, NEW r \in Runs, FilterByTracker(r)
    PROVE  MatchInv' /\ StaysInside(r)
<1> DEFINE now == run[r]
<1>1. PICK s \in now.todo :
         SetRun(r, [now EXCEPT !.at = "history", !.site = s, !.todo = @ \ {s},
                               !.served = @ \cup {s}, !.unread = Remaining(now, s),
                               !.skippedTracker =
                                   @ + Cardinality(FilteredByTracker(now, s))])
  BY DEF FilterByTracker
<1> DEFINE td == now.todo \ {s}
           sv == now.served \cup {s}
           rest == Remaining(now, s)
           drop == FilteredByTracker(now, s)
           st == now.skippedTracker + Cardinality(drop)
           R == [now EXCEPT !.at = "history", !.site = s, !.todo = td, !.served = sv,
                            !.unread = rest, !.skippedTracker = st]
<1>2. /\ now \in RunRec /\ now.at = "next" /\ UNCHANGED <<history, task, starts>>
      /\ now.todo \subseteq Sites /\ now.scanned \subseteq Hashes
      /\ now.skippedTracker \in Nat /\ now.skippedHistory \in Nat
  BY FieldsOf DEF FilterByTracker, MatchInv
<1>3. s \in Sites
  BY <1>2
<1>4. /\ drop \subseteq now.scanned /\ rest = now.scanned \ drop
      /\ IsFiniteSet(now.scanned)
      /\ Cardinality(now.scanned) = Cardinality(drop) + Cardinality(rest)
      /\ Cardinality(drop) \in Nat /\ Cardinality(rest) \in Nat
  <2>1. drop \subseteq now.scanned /\ rest = now.scanned \ drop
    BY DEF FilteredByTracker, Remaining
  <2>2. IsFiniteSet(now.scanned)
    BY <1>2, FiniteParts
  <2>3. QED
    BY <2>1, <2>2, SplitSum, FS_CardinalityType
<1>5. LoopOK(r) /\ SkipsAreJust(r) /\ Counted(r)
  BY <1>2 DEF MatchInv, RunOK, Live
<1>6. /\ td \in SUBSET Sites /\ sv \in SUBSET Sites /\ rest \in SUBSET Hashes
      /\ st \in Nat /\ s \notin now.served /\ td \cap sv = {}
  <2>1. now.served \subseteq Sites
    BY FieldsOf DEF MatchInv
  <2>2. st \in Nat
    BY <1>2, <1>4
  <2>3. s \notin now.served /\ td \cap sv = {}
    BY <1>5 DEF LoopOK
  <2>4. QED
    BY <1>2, <1>3, <1>4, <2>1, <2>2, <2>3
<1> HIDE DEF td, rest, drop, st, sv
<1>7. /\ R \in RunRec /\ R.at = "history" /\ R.site = s /\ R.todo = td
      /\ R.served = sv /\ R.unread = rest /\ R.skippedTracker = st
      /\ R.start = now.start /\ R.before = now.before /\ R.scanned = now.scanned
      /\ R.tracked = now.tracked /\ R.known = now.known
      /\ R.skipped = now.skipped /\ R.matched = now.matched
      /\ R.skippedHistory = now.skippedHistory /\ R.matchedCount = now.matchedCount
  BY <1>2, <1>3, <1>6 DEF RunRec
<1>8. SetRun(r, R)
  BY <1>1 DEF td, rest, drop, st, sv
<1> HIDE DEF R
<1>9. run'[r] = R
  BY <1>7, <1>8, SetRunFrame DEF MatchInv
<1>10. \A x \in Sites : MyTask(r, x)' = MyTask(r, x)
  BY <1>2, <1>7, <1>9 DEF MyTask
<1>11. Remaining(R, s) = rest
  BY <1>7 DEF Remaining, FilteredByTracker, rest
<1>12. RunOK(r)'
  <2>1. now.known = {}
    BY <1>2, <1>5 DEF LoopOK
  <2>2. LoopOK(r)'
    BY <1>5, <1>6, <1>7, <1>9, <1>10, <1>11, <2>1 DEF LoopOK, sv
  <2>3. SkipsAreJust(r)'
    BY <1>2, <1>5, <1>7, <1>9, <1>10, <1>11, <2>1 DEF SkipsAreJust
  <2>4. AskedBy(r)' = AskedBy(r)
    BY <1>10 DEF AskedBy
  <2>5. Pending(r) = {} /\ Pending(r)' = rest
    BY <1>2, <1>7, <1>9, <1>11 DEF Pending
  <2>6. Counted(r)'
    <3> DEFINE a == Cardinality(AskedBy(r))
               k == Cardinality(now.served)
               n == Cardinality(now.scanned)
               d == Cardinality(drop)
               l == Cardinality(rest)
    <3>1. IsFiniteSet(now.served) /\ Cardinality(now.served) \in Nat
      BY FieldsOf, FiniteParts DEF MatchInv
    <3>2. Cardinality(sv) = k + 1
      BY <1>6, <3>1, FS_AddElement DEF sv
    <3>3. Cardinality(AskedBy(r)) \in Nat
      BY <1>2, HasStart, AskedPairs, FiniteParts DEF MatchInv
    <3>4. now.skippedTracker + now.skippedHistory + a + 0 = k * n
      BY <1>5, <2>5, FS_EmptySet DEF Counted
    <3>5. n = d + l /\ n \in Nat /\ d \in Nat /\ l \in Nat
      BY <1>4
    <3>6. st = now.skippedTracker + d
      BY DEF st
    <3> HIDE DEF a, k, n, d, l
    <3>7. (k + 1) * n = k * n + n
      BY <3>1, <3>5 DEF k
    <3>8. st + now.skippedHistory + a + l = (k + 1) * n
      BY <1>2, <3>1, <3>3, <3>4, <3>5, <3>6, <3>7 DEF k, a
    <3>9. QED
      BY <1>2, <1>5, <1>7, <1>9, <2>4, <2>5, <3>2, <3>8
         DEF Counted, Matching, a, k, n, l
  <2>7. QED
    BY <2>2, <2>3, <2>6 DEF RunOK
<1>13. QED
  BY <1>2, <1>7, <1>8, <1>12, RunMoves DEF StaysInside, Matching

\* A chunk of filter 2: what it has read and was known at the beginning is known now.
LEMMA ReadHistoryStep ==
    ASSUME MatchInv, NEW r \in Runs, ReadHistory(r)
    PROVE  MatchInv' /\ StaysInside(r)
<1> DEFINE now == run[r]
<1>1. PICK c \in Chunks(now.unread) :
         SetRun(r, [now EXCEPT !.known = KnownWith(@, now.site, c), !.unread = @ \ c])
  BY DEF ReadHistory
<1> DEFINE kn == KnownWith(now.known, now.site, c)
           un == now.unread \ c
           R == [now EXCEPT !.known = kn, !.unread = un]
<1>2. now \in RunRec /\ now.at = "history" /\ UNCHANGED <<history, task, starts>>
  BY FieldsOf DEF ReadHistory, MatchInv
<1>3. /\ c \subseteq now.unread /\ un \in SUBSET Hashes /\ kn \in SUBSET Hashes
      /\ kn = now.known \cup {h \in c : <<now.site, h>> \in history}
  BY FieldsOf, ChunkIsUnread DEF MatchInv, KnownWith
<1>4. LoopOK(r) /\ SkipsAreJust(r) /\ Counted(r)
  BY <1>2 DEF MatchInv, RunOK, Live
<1> HIDE DEF kn
<1>5. /\ R \in RunRec /\ R.at = "history" /\ R.unread = un /\ R.known = kn
      /\ R.start = now.start /\ R.before = now.before /\ R.scanned = now.scanned
      /\ R.todo = now.todo /\ R.served = now.served /\ R.site = now.site
      /\ R.tracked = now.tracked
      /\ R.skipped = now.skipped /\ R.matched = now.matched
      /\ R.skippedTracker = now.skippedTracker
      /\ R.skippedHistory = now.skippedHistory /\ R.matchedCount = now.matchedCount
  BY <1>2, <1>3 DEF RunRec
<1>6. SetRun(r, R)
  BY <1>1 DEF kn
<1> HIDE DEF R
<1>7. run'[r] = R
  BY <1>5, <1>6, SetRunFrame DEF MatchInv
<1>8. \A s \in Sites : MyTask(r, s)' = MyTask(r, s)
  BY <1>2, <1>5, <1>7 DEF MyTask
<1>9. Remaining(R, R.site) = Remaining(now, now.site)
  BY <1>5 DEF Remaining, FilteredByTracker
<1>10. RunOK(r)'
  <2>1. LoopOK(r)'
    BY <1>2, <1>3, <1>4, <1>5, <1>7, <1>8, <1>9 DEF LoopOK
  <2>2. /\ \A h \in kn : <<now.site, h>> \in history
        /\ \A h \in Remaining(now, now.site) \ un :
              <<now.site, h>> \in now.before => h \in kn
    BY <1>2, <1>3, <1>4 DEF SkipsAreJust
  <2>3. SkipsAreJust(r)'
    BY <1>2, <1>4, <1>5, <1>7, <1>8, <1>9, <2>2 DEF SkipsAreJust
  <2>4. AskedBy(r)' = AskedBy(r)
    BY <1>8 DEF AskedBy
  <2>5. Pending(r)' = Pending(r)
    BY <1>2, <1>5, <1>7, <1>9 DEF Pending
  <2>6. Counted(r)'
    BY <1>2, <1>4, <1>5, <1>7, <2>4, <2>5 DEF Counted, Matching
  <2>7. QED
    BY <2>1, <2>3, <2>6 DEF RunOK
<1>11. QED
  BY <1>2, <1>5, <1>6, <1>10, RunMoves DEF StaysInside, Matching

\* Filter 2 and the spawn: the pending hashes are skipped or asked for.
LEMMA EndSiteStep ==
    ASSUME MatchInv, NEW r \in Runs, EndSite(r)
    PROVE  MatchInv' /\ StaysInside(r)
<1> DEFINE now == run[r]
<1>a. PICK x : x = now.site
  OBVIOUS
<1>b. PICK n : n = now.start
  OBVIOUS
<1>c. PICK rest : rest = Remaining(now, x)
  OBVIOUS
<1>d. PICK ask : ask = rest \ now.known
  OBVIOUS
<1> DEFINE new == [at |-> "running", asked |-> ask, left |-> ask, found |-> {}]
           sk == now.skipped \cup ({x} \X now.known)
           sh == now.skippedHistory + Cardinality(now.known)
           R == [now EXCEPT !.at = "next", !.site = NoSite, !.known = {},
                            !.skipped = sk, !.skippedHistory = sh]
<1>1. /\ now.at = "history" /\ now.unread = {} /\ SetRun(r, R)
      /\ task' = IF Spawns(ask) THEN [task EXCEPT ![n] = [@ EXCEPT ![x] = new]]
                 ELSE task
      /\ UNCHANGED <<history, starts>>
  BY <1>a, <1>b, <1>c, <1>d DEF EndSite
<1>2. LoopOK(r) /\ SkipsAreJust(r) /\ Counted(r)
  BY <1>1 DEF MatchInv, RunOK, Live
<1>3. /\ now \in RunRec /\ n \in Starts
      /\ now.scanned \subseteq Hashes /\ now.known \subseteq Hashes
      /\ now.skippedTracker \in Nat /\ now.skippedHistory \in Nat
      /\ now.served \subseteq Sites /\ now.skipped \subseteq Pairs
  BY <1>1, <1>b, FieldsOf, HasStart DEF MatchInv
<1>4. /\ x \in now.served /\ x \in Sites /\ now.known \subseteq rest
      /\ rest \subseteq Hashes
  BY <1>1, <1>2, <1>3, <1>a, <1>c DEF LoopOK, Remaining
<1>5. /\ IsFiniteSet(now.known) /\ Cardinality(now.known) \in Nat
      /\ IsFiniteSet(ask) /\ Cardinality(ask) \in Nat
      /\ Cardinality(rest) = Cardinality(now.known) + Cardinality(ask)
  <2>1. IsFiniteSet(rest)
    BY <1>4, FiniteParts
  <2>2. QED
    BY <1>4, <1>d, <2>1, SplitSum, FS_CardinalityType
<1>6. sk \in SUBSET Pairs /\ sh \in Nat
  BY <1>3, <1>4, <1>5 DEF Pairs
<1>7. MyTask(r, x).asked = {} /\ \A p \in now.skipped : p[1] # x
  BY <1>2, <1>4, <1>a DEF LoopOK
<1>8. new \in TaskRec
  BY <1>4, <1>d DEF TaskRec
\* Either way the task of the site has ask now, and no other task has changed.
<1>9. /\ task' \in [Starts -> [Sites -> TaskRec]]
      /\ task'[n][x].asked = ask
      /\ \A m \in Starts, s \in Sites : m # n \/ s # x => task'[m][s] = task[m][s]
      /\ task'[n][x] \in {new, task[n][x]}
  <2>1. CASE Spawns(ask)
    BY <1>1, <1>3, <1>4, <1>8, <2>1 DEF MatchInv, MatchTypes
  <2>2. CASE ~Spawns(ask)
    BY <1>1, <1>7, <1>b, <2>2 DEF MatchInv, MatchTypes, Spawns, MyTask
  <2>3. QED
    BY <2>1, <2>2
<1> HIDE DEF sk, sh
<1>10. /\ R \in RunRec /\ R.at = "next" /\ R.site = NoSite /\ R.known = {}
       /\ R.skipped = sk /\ R.skippedHistory = sh
       /\ R.start = now.start /\ R.before = now.before /\ R.scanned = now.scanned
       /\ R.todo = now.todo /\ R.served = now.served
       /\ R.matched = now.matched
       /\ R.skippedTracker = now.skippedTracker /\ R.matchedCount = now.matchedCount
  BY <1>3, <1>6 DEF RunRec
<1> HIDE DEF R, new
<1>11. /\ run' \in [Runs -> RunRec] /\ run'[r] = R
       /\ \A q \in Runs : q # r => run'[q] = run[q]
  BY <1>1, <1>10, SetRunFrame DEF MatchInv
<1>12. MatchTypes' /\ FoundWasAsked'
  <2>1. MatchTypes'
    BY <1>1, <1>9, <1>11 DEF MatchInv, MatchTypes
  <2>2. FoundWasAsked'
    <3> SUFFICES ASSUME NEW m \in Starts, NEW s \in Sites
                 PROVE  /\ task'[m][s].left \subseteq task'[m][s].asked
                        /\ task'[m][s].found \subseteq task'[m][s].asked
      BY DEF FoundWasAsked
    <3>1. CASE task'[m][s] = new
      BY <3>1 DEF new
    <3>2. CASE task'[m][s] = task[m][s]
      BY <3>2 DEF MatchInv, FoundWasAsked
    <3>3. QED
      BY <1>9, <3>1, <3>2
  <2>3. QED
    BY <2>1, <2>2
<1>13. StartsApart'
  <2>1. n <= starts
    BY <1>1, <1>b DEF MatchInv, StartsApart, MatchTypes
  <2>2. \A m \in Starts, s \in Sites : m > starts => task'[m][s] = task[m][s]
    BY <1>3, <1>9, <2>1 DEF MatchInv, MatchTypes, Starts
  <2>3. \A q \in Runs : run'[q].start = run[q].start /\ (run'[q].at # "idle" <=> run[q].at # "idle")
    BY <1>1, <1>10, <1>11
  <2>4. QED
    BY <1>1, <2>2, <2>3 DEF MatchInv, StartsApart
<1>14. /\ MyTask(r, x)'.asked = ask
       /\ \A s \in Sites : s # x => MyTask(r, s)' = MyTask(r, s)
  BY <1>3, <1>4, <1>b, <1>9, <1>10, <1>11 DEF MyTask
<1>15. LoopOK(r)'
  <2>1. \A p \in sk : p[1] \in now.served \ {NoSite}
    BY <1>2, <1>3, <1>4, MatchPhaseAssumption DEF LoopOK, sk
  <2>2. \A s \in Sites : MyTask(r, s)'.asked # {} => s \in now.served \ {NoSite}
    BY <1>2, <1>4, <1>14, MatchPhaseAssumption DEF LoopOK
  <2>3. QED
    BY <1>2, <1>10, <1>11, <2>1, <2>2 DEF LoopOK
<1>16. SkipsAreJust(r)'
  <2>1. sk \subseteq history
    BY <1>1, <1>2, <1>a DEF SkipsAreJust, sk
  <2>2. \A s \in Sites : \A h \in MyTask(r, s)'.asked :
           <<s, h>> \notin now.before /\ <<s, h>> \notin sk
    <3> SUFFICES ASSUME NEW s \in Sites, NEW h \in MyTask(r, s)'.asked
                 PROVE  <<s, h>> \notin now.before /\ <<s, h>> \notin sk
      OBVIOUS
    <3>1. CASE s = x
      <4>1. h \in rest /\ h \notin now.known
        BY <1>14, <1>d, <3>1
      <4>2. <<x, h>> \notin now.before
        BY <1>1, <1>2, <1>a, <1>c, <4>1 DEF SkipsAreJust
      <4>3. <<x, h>> \notin now.skipped
        BY <1>7
      <4>4. QED
        BY <3>1, <4>1, <4>2, <4>3 DEF sk
    <3>2. CASE s # x
      <4>1. h \in MyTask(r, s).asked
        BY <1>14, <3>2
      <4>2. QED
        BY <1>2, <3>2, <4>1 DEF SkipsAreJust, sk
    <3>3. QED
      BY <3>1, <3>2
  <2>3. QED
    BY <1>1, <1>2, <1>10, <1>11, <2>1, <2>2 DEF SkipsAreJust
<1>17. Counted(r)'
  <2>1. /\ IsFiniteSet(AskedBy(r)) /\ Cardinality(AskedBy(r)) \in Nat
        /\ \A s, h : <<s, h>> \in AskedBy(r) <=> s \in Sites /\ h \in MyTask(r, s).asked
        /\ AskedBy(r) \subseteq Pairs
    BY <1>3, <1>b, AskedPairs, FiniteParts DEF MatchInv
  <2>2. AskedBy(r)' = AskedBy(r) \cup ({x} \X ask) /\ AskedBy(r) \cap ({x} \X ask) = {}
    <3>1. \A p : p \in AskedBy(r)' <=> \E s \in Sites : p \in {s} \X MyTask(r, s)'.asked
      BY DEF AskedBy
    <3>2. \A p : p \in AskedBy(r) <=> \E s \in Sites : p \in {s} \X MyTask(r, s).asked
      BY DEF AskedBy
    <3>3. \A p : ~(p \in {x} \X MyTask(r, x).asked)
      BY <1>7
    <3>4. \A p : p \in AskedBy(r)' <=> p \in AskedBy(r) \/ p \in {x} \X ask
      BY <1>4, <1>14, <3>1, <3>2, <3>3
    <3>5. \A p : p \in AskedBy(r) => p \notin {x} \X ask
      BY <1>7, <3>2
    <3>6. QED
      BY <3>4, <3>5
  <2>3. /\ IsFiniteSet({x} \X ask) /\ Cardinality({x} \X ask) = Cardinality(ask)
        /\ IsFiniteSet({x} \X now.known)
        /\ Cardinality({x} \X now.known) = Cardinality(now.known)
    BY <1>5, RowOfPairs
  <2>4. Cardinality(AskedBy(r)') = Cardinality(AskedBy(r)) + Cardinality(ask)
    BY <2>1, <2>2, <2>3, DisjointSum
  <2>5. IsFiniteSet(now.skipped) /\ now.skipped \cap ({x} \X now.known) = {}
    BY <1>3, <1>7, FiniteParts
  <2>6. Cardinality(sk) = Cardinality(now.skipped) + Cardinality(now.known)
    BY <2>3, <2>5, DisjointSum DEF sk
  <2>7. sh = Cardinality(sk)
    BY <1>2, <2>6 DEF Counted, sh
  <2>8. Pending(r) = rest /\ Pending(r)' = {}
    BY <1>1, <1>10, <1>11, <1>a, <1>c DEF Pending
  <2>9. /\ now.skippedTracker + now.skippedHistory + Cardinality(AskedBy(r))
             + Cardinality(rest)
           = Cardinality(now.served) * Cardinality(now.scanned)
    BY <1>2, <2>8 DEF Counted
  <2>10. now.skippedTracker + sh + Cardinality(AskedBy(r)') + 0
           = Cardinality(now.served) * Cardinality(now.scanned)
    <3> DEFINE a == Cardinality(AskedBy(r))
               k == Cardinality(now.known)
               l == Cardinality(ask)
               z == Cardinality(now.served) * Cardinality(now.scanned)
    <3>1. now.skippedTracker + now.skippedHistory + a + (k + l) = z
      BY <1>5, <2>9
    <3>2. a \in Nat /\ k \in Nat /\ l \in Nat
      BY <1>5, <2>1
    <3> HIDE DEF a, k, l, z
    <3>3. now.skippedTracker + (now.skippedHistory + k) + (a + l) + 0 = z
      BY <1>3, <3>1, <3>2
    <3>4. QED
      BY <2>4, <3>3 DEF a, k, l, z, sh
  <2>11. now.matched = {} /\ now.matchedCount = Cardinality(now.matched)
    BY <1>1, <1>2 DEF Counted, Matching
  <2>12. Cardinality({}) = 0
    BY FS_EmptySet
  <2>13. QED
    BY <1>10, <1>11, <2>7, <2>8, <2>10, <2>11, <2>12 DEF Counted
<1>18. RunOK(r)'
  BY <1>15, <1>16, <1>17 DEF RunOK
<1>19. \A q \in Runs : q # r => RunOK(q)'
  <2> SUFFICES ASSUME NEW q \in Runs, q # r
               PROVE  RunOK(q)'
    OBVIOUS
  <2>1. ASSUME run[q].at # "idle"
        PROVE  \A s \in Sites : task'[run[q].start][s] = task[run[q].start][s]
    <3>1. run[q].start # n /\ run[q].start \in Starts
      BY <1>1, <1>b, <2>1, HasStart DEF MatchInv, StartsApart
    <3>2. QED
      BY <1>9, <3>1
  <2>2. QED
    BY <1>1, <1>11, <2>1, OthersStayOK DEF MatchInv
<1>20. StaysInside(r)
  BY <1>1, <1>10 DEF StaysInside, Matching
<1>21. QED
  BY <1>12, <1>13, <1>18, <1>19, <1>20 DEF MatchInv

LEMMA FailStep ==
    ASSUME MatchInv, NEW r \in Runs, Fail(r)
    PROVE  MatchInv'
<1> DEFINE R == [run[r] EXCEPT !.at = "failed"]
<1>1. run[r] \in RunRec /\ SetRun(r, R) /\ UNCHANGED <<history, task, starts>>
  BY FieldsOf DEF Fail, MatchInv
<1>2. R \in RunRec /\ R.at = "failed" /\ R.start = run[r].start /\ run[r].at # "idle"
  BY <1>1 DEF RunRec, Fail
<1> HIDE DEF R
<1>3. RunOK(r)'
  BY <1>1, <1>2, SetRunFrame DEF MatchInv, RunOK, Live
<1>4. QED
  BY <1>1, <1>2, <1>3, RunMoves

\* What join_all collects was asked for, so it had not succeeded at the beginning.
LEMMA JoinStep ==
    ASSUME MatchInv, NEW r \in Runs, Join(r)
    PROVE  /\ MatchInv'
           /\ run'[r].at = "done" /\ run[r].at = "next"
           /\ run'[r].before = run[r].before /\ run'[r].skipped = run[r].skipped
           /\ run'[r].matched \in SUBSET (Pairs \ run[r].before)
           /\ run[r].skipped \in SUBSET (history \ run'[r].matched)
           /\ \A q \in Runs : q # r => run'[q] = run[q]
           /\ history' = history
<1> DEFINE now == run[r]
           good == {s \in Sites : MyTask(r, s).at = "ok"}
           pairs == UNION {{s} \X MyTask(r, s).found : s \in good}
           count == now.matchedCount + Cardinality(pairs)
           R == [now EXCEPT !.at = "done", !.matched = pairs, !.matchedCount = count]
<1>1. /\ now \in RunRec /\ now.at = "next" /\ SetRun(r, R)
      /\ UNCHANGED <<history, task, starts>>
  BY FieldsOf DEF Join, MatchInv
<1>2. LoopOK(r) /\ SkipsAreJust(r) /\ Counted(r)
  BY <1>1 DEF MatchInv, RunOK, Live
<1>3. now.start \in Starts
  BY <1>1, HasStart DEF MatchInv
<1>4. \A p \in pairs : \E s \in Sites, h \in Hashes :
         p = <<s, h>> /\ h \in MyTask(r, s).asked
  <2>1. \A s \in Sites : /\ MyTask(r, s).found \subseteq MyTask(r, s).asked
                         /\ MyTask(r, s).asked \subseteq Hashes
    BY <1>3, TaskFields DEF MatchInv, FoundWasAsked, MyTask
  <2>2. \A p \in pairs : \E s \in Sites : p \in {s} \X MyTask(r, s).found
    OBVIOUS
  <2> HIDE DEF pairs
  <2>3. QED
    BY <2>1, <2>2
<1> HIDE DEF pairs
<1>5. /\ pairs \in SUBSET (Pairs \ now.before)
      /\ pairs \cap now.skipped = {}
      /\ now.skipped \subseteq history
  BY <1>2, <1>4 DEF SkipsAreJust, Pairs
<1>6. now.matchedCount = 0 /\ Cardinality(pairs) \in Nat
  <2>1. now.matchedCount = Cardinality({})
    BY <1>1, <1>2 DEF Counted, Matching
  <2>2. pairs \subseteq Pairs
    BY <1>5
  <2>3. QED
    BY <2>1, <2>2, FS_EmptySet, FiniteParts
<1>7. count \in Nat /\ count = Cardinality(pairs) /\ pairs \in SUBSET Pairs
  BY <1>5, <1>6
<1> HIDE DEF count
<1>8. /\ R \in RunRec /\ R.at = "done" /\ R.matched = pairs /\ R.matchedCount = count
      /\ R.start = now.start /\ R.before = now.before /\ R.scanned = now.scanned
      /\ R.todo = now.todo /\ R.served = now.served /\ R.site = now.site
      /\ R.known = now.known /\ R.skipped = now.skipped
      /\ R.skippedTracker = now.skippedTracker
      /\ R.skippedHistory = now.skippedHistory
  BY <1>1, <1>7 DEF RunRec
<1> HIDE DEF R
<1>9. run'[r] = R /\ \A q \in Runs : q # r => run'[q] = run[q]
  BY <1>1, <1>8, SetRunFrame DEF MatchInv
<1>10. \A s \in Sites : MyTask(r, s)' = MyTask(r, s)
  BY <1>1, <1>8, <1>9 DEF MyTask
<1>11. RunOK(r)'
  <2>1. LoopOK(r)'
    BY <1>1, <1>2, <1>8, <1>9, <1>10 DEF LoopOK
  <2>2. SkipsAreJust(r)'
    BY <1>1, <1>2, <1>8, <1>9, <1>10 DEF SkipsAreJust
  <2>3. AskedBy(r)' = AskedBy(r)
    BY <1>10 DEF AskedBy
  <2>4. Pending(r)' = Pending(r)
    BY <1>1, <1>8, <1>9 DEF Pending
  <2>5. Counted(r)'
    BY <1>1, <1>2, <1>7, <1>8, <1>9, <2>3, <2>4 DEF Counted, Matching
  <2>6. QED
    BY <2>1, <2>2, <2>5 DEF RunOK
<1>12. MatchInv'
  BY <1>1, <1>8, <1>11, RunMoves
<1>13. QED
  BY <1>1, <1>5, <1>8, <1>9, <1>12

\* A site task answers within what it was asked.
LEMMA TaskStepKeeps ==
    ASSUME MatchInv, NEW n \in Starts, NEW s \in Sites, TaskStep(n, s)
    PROVE  MatchInv' /\ UNCHANGED <<history, run>>
<1> DEFINE t == task[n][s]
<1>0. /\ t \in TaskRec /\ t.left \subseteq t.asked /\ t.found \subseteq t.asked
      /\ t.asked \subseteq Hashes
  BY TaskFields DEF MatchInv, FoundWasAsked
<1>1. PICK u \in TaskRec :
         /\ SetTask(n, s, u) /\ u.asked = t.asked
         /\ u.left \subseteq u.asked /\ u.found \subseteq u.asked
  <2>1. ASSUME NEW c \in SUBSET t.left
        PROVE  /\ Passed(t, c) \in TaskRec /\ Passed(t, c).asked = t.asked
               /\ Passed(t, c).left \subseteq t.left
               /\ Passed(t, c).found = t.found
    <3>1. t.left \ c \in SUBSET Hashes
      BY <1>0
    <3>2. QED
      BY <1>0, <3>1 DEF Passed, TaskRec
  <2>2. ASSUME Answered(n, s)
        PROVE  \E u \in TaskRec :
                  /\ SetTask(n, s, u) /\ u.asked = t.asked
                  /\ u.left \subseteq u.asked /\ u.found \subseteq u.asked
    <3>1. PICK c \in SUBSET t.left : \E hits \in SUBSET c :
             SetTask(n, s, [Passed(t, c) EXCEPT !.found = @ \cup hits])
      BY <2>2 DEF Answered
    <3>2. PICK hits \in SUBSET c :
             SetTask(n, s, [Passed(t, c) EXCEPT !.found = @ \cup hits])
      BY <3>1
    <3> DEFINE p == Passed(t, c)
               f == p.found \cup hits
               u == [p EXCEPT !.found = f]
    <3>3. /\ p \in TaskRec /\ p.asked = t.asked /\ p.left \subseteq t.asked
          /\ f \in SUBSET Hashes /\ f \subseteq t.asked
      BY <1>0, <2>1
    <3> HIDE DEF p, f
    <3>4. u \in TaskRec /\ u.asked = t.asked /\ u.left = p.left /\ u.found = f
      BY <3>3 DEF TaskRec
    <3>5. SetTask(n, s, u)
      BY <3>2 DEF p, f
    <3> HIDE DEF u
    <3>6. QED
      BY <3>3, <3>4, <3>5
  <2>3. ASSUME BatchFailed(n, s)
        PROVE  \E u \in TaskRec :
                  /\ SetTask(n, s, u) /\ u.asked = t.asked
                  /\ u.left \subseteq u.asked /\ u.found \subseteq u.asked
    <3>1. PICK c \in SUBSET t.left : SetTask(n, s, Passed(t, c))
      BY <2>3 DEF BatchFailed
    <3>2. QED
      BY <1>0, <2>1, <3>1
  <2>4. ASSUME NEW p \in {"ok", "error"}, SetTask(n, s, [t EXCEPT !.at = p])
        PROVE  \E u \in TaskRec :
                  /\ SetTask(n, s, u) /\ u.asked = t.asked
                  /\ u.left \subseteq u.asked /\ u.found \subseteq u.asked
    <3> DEFINE u == [t EXCEPT !.at = p]
    <3>1. u \in TaskRec /\ u.asked = t.asked /\ u.left = t.left /\ u.found = t.found
      BY <1>0 DEF TaskRec
    <3>2. SetTask(n, s, u)
      BY <2>4
    <3> HIDE DEF u
    <3>3. QED
      BY <1>0, <3>1, <3>2
  <2>5. QED
    BY <2>2, <2>3, <2>4 DEF TaskStep, Tripped, Refused
<1>2. UNCHANGED <<history, run, starts>>
  BY DEF TaskStep, Answered, BatchFailed, Tripped, Refused
<1>3. /\ task' \in [Starts -> [Sites -> TaskRec]]
      /\ \A m \in Starts, x \in Sites :
            task'[m][x] = IF m = n /\ x = s THEN u ELSE task[m][x]
  BY <1>1 DEF SetTask, MatchInv, MatchTypes
<1>4. \A m \in Starts, x \in Sites : task'[m][x].asked = task[m][x].asked
  BY <1>1, <1>3
<1>5. MatchTypes' /\ FoundWasAsked'
  BY <1>1, <1>2, <1>3 DEF MatchInv, MatchTypes, FoundWasAsked
<1>6. StartsApart'
  BY <1>2, <1>4 DEF MatchInv, StartsApart
<1>7. \A q \in Runs : RunOK(q)'
  BY <1>2, <1>4, HasStart, OthersStayOK DEF MatchInv
<1>8. QED
  BY <1>2, <1>5, <1>6, <1>7 DEF MatchInv

LEMMA SucceedKeeps ==
    ASSUME MatchInv, NEW p \in Pairs, Succeed(p)
    PROVE  MatchInv'
<1>1. history' = history \cup {p} /\ UNCHANGED <<run, task, starts>>
  BY DEF Succeed
<1>2. MatchTypes' /\ FoundWasAsked' /\ StartsApart'
  BY <1>1 DEF MatchInv, MatchTypes, FoundWasAsked, StartsApart
<1>3. \A q \in Runs : RunOK(q)'
  BY <1>1, OthersStayOK DEF MatchInv
<1>4. QED
  BY <1>2, <1>3 DEF MatchInv

LEMMA MatchInvHolds == MatchSpec => []MatchInv
<1>1. MatchInit => MatchInv
  <2> SUFFICES ASSUME MatchInit
               PROVE  MatchInv
    OBVIOUS
  <2>1. NoRun \in RunRec /\ NoTask \in TaskRec
    BY DEF NoRun, NoTask, RunRec, TaskRec
  <2>2. NoRun.at = "idle" /\ NoTask.asked = {} /\ NoTask.left = {} /\ NoTask.found = {}
    BY DEF NoRun, NoTask
  <2>3. QED
    BY <2>1, <2>2, MatchPhaseAssumption
       DEF MatchInit, MatchInv, MatchTypes, StartsApart, FoundWasAsked, RunOK, Live
<1>2. MatchInv /\ [MatchNext]_matchVars => MatchInv'
  <2> SUFFICES ASSUME MatchInv, [MatchNext]_matchVars
               PROVE  MatchInv'
    OBVIOUS
  <2>1. CASE UNCHANGED matchVars
    <3>1. \A q \in Runs : RunOK(q)'
      BY <2>1, OthersStayOK DEF MatchInv, matchVars
    <3>2. QED
      BY <2>1, <3>1 DEF MatchInv, matchVars, MatchTypes, StartsApart, FoundWasAsked
  <2>2. ASSUME NEW r \in Runs, Begin(r) \/ RunStep(r)
        PROVE  MatchInv'
    BY <2>2, BeginStep, ReadUrlsStep, PassOverStep, FilterByTrackerStep,
       ReadHistoryStep, EndSiteStep, FailStep, JoinStep DEF RunStep
  <2>3. QED
    BY <2>1, <2>2, TaskStepKeeps, SucceedKeeps DEF MatchNext
<1>3. QED
  BY <1>1, <1>2, PTL DEF MatchSpec

\* Every pair of a served site and a scanned hash is skipped by one filter and
\* counted, or asked for, for any sites, hashes and chunks, while other runs commit.
THEOREM EveryPairIsAccountedFor == MatchSpec => []MatchAddsUp
<1>1. MatchInv => MatchAddsUp
  <2> SUFFICES ASSUME MatchInv, NEW r \in Runs, run[r].at = "done"
               PROVE  /\ run[r].skippedTracker + run[r].skippedHistory
                            + Cardinality(AskedBy(r))
                         = Cardinality(run[r].served) * Cardinality(run[r].scanned)
                      /\ run[r].skippedHistory = Cardinality(run[r].skipped)
                      /\ run[r].matchedCount = Cardinality(run[r].matched)
    BY DEF MatchAddsUp
  <2>1. Counted(r)
    BY DEF MatchInv, RunOK, Live
  <2>2. Cardinality(Pending(r)) = 0
    BY FS_EmptySet DEF Pending
  <2>3. run[r].skippedTracker \in Nat /\ run[r].skippedHistory \in Nat
    BY FieldsOf DEF MatchInv
  <2>4. Cardinality(AskedBy(r)) \in Nat
    BY HasStart, AskedPairs, FiniteParts DEF MatchInv
  <2>5. QED
    BY <2>1, <2>2, <2>3, <2>4 DEF Counted
<1>2. QED
  BY <1>1, MatchInvHolds, PTL

-----------------------------------------------------------------------------
(* The match phase implements MatchContract.                               *)

beforeOf == [r \in Runs |-> run[r].before]
phaseOf == [r \in Runs |-> IF Matching(r) THEN "open" ELSE run[r].at]
matchedOf == [r \in Runs |-> run[r].matched]
skippedOf == [r \in Runs |-> IF run[r].at = "done" THEN run[r].skipped ELSE {}]

\* A step inside a match, or of a run that is in none, is invisible.
LEMMA Invisible ==
    ASSUME MatchTypes, NEW r \in Runs, StaysInside(r)
    PROVE  UNCHANGED Contract!vars
<1>0. PICK R \in RunRec : /\ SetRun(r, R) /\ R.at \in {"urls", "next", "history"}
                         /\ R.before = run[r].before /\ R.matched = run[r].matched
  BY DEF StaysInside
<1>1. run'[r] = R /\ \A q \in Runs : q # r => run'[q] = run[q]
  BY <1>0, SetRunFrame
<1>2. \A q \in Runs : /\ run'[q].before = run[q].before
                      /\ run'[q].matched = run[q].matched
                      /\ Matching(q)' <=> Matching(q)
                      /\ ~Matching(q) => run'[q] = run[q]
                      /\ Matching(q) => run[q].at # "done" /\ run'[q].at # "done"
  BY <1>0, <1>1 DEF Matching, StaysInside
<1>3. /\ beforeOf' = beforeOf /\ matchedOf' = matchedOf
      /\ phaseOf' = phaseOf /\ skippedOf' = skippedOf
  BY <1>2 DEF beforeOf, matchedOf, phaseOf, skippedOf
<1>4. QED
  BY <1>3 DEF Contract!vars, beforeOf, matchedOf, phaseOf, skippedOf, StaysInside

LEMMA BeginIsBegin ==
    ASSUME MatchInv, NEW r \in Runs, Begin(r)
    PROVE  Contract!Begin(r)
<1>1. PICK scanned \in SUBSET Hashes, targets \in SUBSET Sites :
         SetRun(r, [NoRun EXCEPT !.at = "urls", !.start = starts + 1,
                                 !.before = history,
                                 !.scanned = scanned, !.unread = scanned,
                                 !.todo = IF scanned = {} THEN {} ELSE targets])
  BY DEF Begin
<1> DEFINE R == [NoRun EXCEPT !.at = "urls", !.start = starts + 1, !.before = history,
                              !.scanned = scanned, !.unread = scanned,
                              !.todo = IF scanned = {} THEN {} ELSE targets]
<1>2. R.at = "urls" /\ R.before = history /\ R.matched = {}
  BY DEF NoRun
<1>3. SetRun(r, R)
  BY <1>1
<1> HIDE DEF R
<1>4. run'[r] = R /\ \A q \in Runs : q # r => run'[q] = run[q]
  BY <1>3 DEF SetRun, MatchInv, MatchTypes
<1>5. ~Matching(r) /\ Matching(r)' /\ history' = history
  BY <1>2, <1>4 DEF Begin, Matching
<1>6. \A q \in Runs : q # r => (Matching(q)' <=> Matching(q))
  BY <1>4 DEF Matching
<1>7. /\ beforeOf' = [beforeOf EXCEPT ![r] = history]
      /\ phaseOf' = [phaseOf EXCEPT ![r] = "open"]
      /\ matchedOf' = [matchedOf EXCEPT ![r] = {}]
      /\ skippedOf' = [skippedOf EXCEPT ![r] = {}]
  BY <1>2, <1>4, <1>5, <1>6 DEF beforeOf, matchedOf, phaseOf, skippedOf
<1>8. phaseOf[r] # "open"
  <2>1. run[r].at \in {"idle", "urls", "next", "history", "done", "failed"}
    BY DEF MatchInv, MatchTypes, RunRec
  <2>2. QED
    BY <1>5, <2>1 DEF phaseOf
<1>9. QED
  BY <1>5, <1>7, <1>8 DEF Contract!Begin, beforeOf, matchedOf, phaseOf, skippedOf

LEMMA JoinIsFinish ==
    ASSUME MatchInv, NEW r \in Runs, Join(r)
    PROVE  Contract!Finish(r)
<1>1. /\ run'[r].at = "done" /\ run[r].at = "next"
      /\ run'[r].before = run[r].before /\ run'[r].skipped = run[r].skipped
      /\ run'[r].matched \in SUBSET (Pairs \ run[r].before)
      /\ run[r].skipped \in SUBSET (history \ run'[r].matched)
      /\ \A q \in Runs : q # r => run'[q] = run[q]
      /\ history' = history
  BY JoinStep
<1>2. Matching(r) /\ ~Matching(r)' /\ \A q \in Runs : q # r => (Matching(q)' <=> Matching(q))
  BY <1>1 DEF Matching
<1>3. /\ beforeOf' = beforeOf
      /\ phaseOf' = [phaseOf EXCEPT ![r] = "done"]
      /\ matchedOf' = [matchedOf EXCEPT ![r] = run'[r].matched]
      /\ skippedOf' = [skippedOf EXCEPT ![r] = run[r].skipped]
  BY <1>1, <1>2 DEF beforeOf, matchedOf, phaseOf, skippedOf
<1>4. phaseOf[r] = "open" /\ beforeOf[r] = run[r].before
  BY <1>2 DEF phaseOf, beforeOf
<1>5. \E m \in SUBSET (Pairs \ beforeOf[r]) : \E s \in SUBSET (history \ m) :
         /\ matchedOf' = [matchedOf EXCEPT ![r] = m]
         /\ skippedOf' = [skippedOf EXCEPT ![r] = s]
  BY <1>1, <1>3, <1>4
<1>6. QED
  BY <1>1, <1>3, <1>4, <1>5
     DEF Contract!Finish, beforeOf, matchedOf, phaseOf, skippedOf

LEMMA FailIsGiveUp ==
    ASSUME MatchInv, NEW r \in Runs, Fail(r)
    PROVE  Contract!GiveUp(r)
<1> DEFINE R == [run[r] EXCEPT !.at = "failed"]
<1>1. run[r] \in RunRec /\ SetRun(r, R) /\ history' = history
      /\ run[r].at \in {"urls", "history"}
  BY FieldsOf DEF Fail, MatchInv
<1>2. /\ R \in RunRec /\ R.at = "failed" /\ R.before = run[r].before
      /\ R.matched = run[r].matched
  BY <1>1 DEF RunRec
<1> HIDE DEF R
<1>3. run'[r] = R /\ \A q \in Runs : q # r => run'[q] = run[q]
  BY <1>1, <1>2, SetRunFrame DEF MatchInv
<1>4. /\ Matching(r) /\ ~Matching(r)'
      /\ \A q \in Runs : q # r => (Matching(q)' <=> Matching(q))
  BY <1>1, <1>2, <1>3 DEF Matching
<1>5. /\ beforeOf' = beforeOf /\ matchedOf' = matchedOf /\ skippedOf' = skippedOf
      /\ phaseOf' = [phaseOf EXCEPT ![r] = "failed"] /\ phaseOf[r] = "open"
  <2>1. run'[r].before = run[r].before /\ run'[r].matched = run[r].matched
    BY <1>2, <1>3
  <2>2. beforeOf' = beforeOf /\ matchedOf' = matchedOf
    BY <1>3, <2>1 DEF beforeOf, matchedOf
  <2>3. skippedOf' = skippedOf
    BY <1>1, <1>2, <1>3 DEF skippedOf
  <2>4. phaseOf' = [phaseOf EXCEPT ![r] = "failed"] /\ phaseOf[r] = "open"
    BY <1>2, <1>3, <1>4 DEF phaseOf
  <2>5. QED
    BY <2>2, <2>3, <2>4
<1>6. QED
  BY <1>1, <1>5 DEF Contract!GiveUp, beforeOf, matchedOf, phaseOf, skippedOf

\* For any runs, sites, hashes and chunks: whatever commits between the reads of a
\* match, nothing that had succeeded before it began is matched, and nothing is
\* skipped that has not succeeded.
THEOREM MatchKeepsItsContract == MatchSpec => ImplementsMatchContract
<1>1. MatchInit => Contract!Init
  <2> SUFFICES ASSUME MatchInit
               PROVE  Contract!Init
    OBVIOUS
  <2>1. \A r \in Runs : /\ run[r].before = {} /\ run[r].at = "idle" /\ run[r].matched = {}
                        /\ ~Matching(r)
    BY DEF MatchInit, NoRun, Matching
  <2>2. QED
    BY <2>1 DEF MatchInit, Contract!Init
<1>2. MatchInv /\ [MatchNext]_matchVars => [Contract!Next]_(Contract!vars)
  <2> SUFFICES ASSUME MatchInv, [MatchNext]_matchVars
               PROVE  [Contract!Next]_(Contract!vars)
    OBVIOUS
  <2>1. CASE UNCHANGED <<history, run>>
    <3>1. /\ beforeOf' = beforeOf /\ matchedOf' = matchedOf
          /\ phaseOf' = phaseOf /\ skippedOf' = skippedOf
      BY <2>1 DEF beforeOf, matchedOf, phaseOf, skippedOf, Matching
    <3>2. QED
      BY <2>1, <3>1 DEF Contract!vars, beforeOf, matchedOf, phaseOf, skippedOf
  <2>2. ASSUME NEW r \in Runs, Begin(r) \/ RunStep(r)
        PROVE  [Contract!Next]_(Contract!vars)
    BY <2>2, BeginIsBegin, JoinIsFinish, FailIsGiveUp, Invisible, ReadUrlsStep,
       PassOverStep, FilterByTrackerStep, ReadHistoryStep, EndSiteStep
       DEF RunStep, Contract!Next, MatchInv
  <2>3. ASSUME NEW p \in Pairs, Succeed(p)
        PROVE  [Contract!Next]_(Contract!vars)
    <3>1. history' = history \cup {p} /\ run' = run
      BY <2>3 DEF Succeed
    <3>2. /\ beforeOf' = beforeOf /\ matchedOf' = matchedOf
          /\ phaseOf' = phaseOf /\ skippedOf' = skippedOf
      BY <3>1 DEF beforeOf, matchedOf, phaseOf, skippedOf, Matching
    <3>3. Contract!Succeed(p)
      BY <3>1, <3>2 DEF Contract!Succeed, beforeOf, matchedOf, phaseOf, skippedOf
    <3>4. QED
      BY <3>3 DEF Contract!Next
  <2>4. QED
    BY <2>1, <2>2, <2>3, TaskStepKeeps DEF MatchNext, matchVars
<1>3. QED
  BY <1>1, <1>2, MatchInvHolds, PTL DEF MatchSpec, ImplementsMatchContract, Contract!Spec
=============================================================================
