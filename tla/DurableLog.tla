----------------------------- MODULE DurableLog -----------------------------
(***************************************************************************)
(* What the rest of the program may rely on when it writes through a       *)
(* DbWriterHandle (crates/core/src/db/writer.rs): operations are submitted,*)
(* become durable one after the other in submission order, a submitted     *)
(* operation may be given up, and a flush that succeeds proves that        *)
(* everything submitted before it by this process is durable.  How batches,*)
(* transactions and the channel achieve this is DbWriter's business.       *)
(***************************************************************************)
EXTENDS Integers, Sequences

VARIABLES submitted,  \* kinds of the messages submitted so far: "op" or "flush"
          since,      \* submissions that belong to earlier processes
          durable,    \* positions of the durable operations, in commit order
          vouched     \* operations a successful flush has vouched for

dvars == <<submitted, since, durable, vouched>>

DInit == submitted = <<>> /\ since = 0 /\ durable = <<>> /\ vouched = {}

Durable == {durable[i] : i \in DOMAIN durable}

Submit ==
    /\ \E k \in {"op", "flush"} : submitted' = Append(submitted, k)
    /\ UNCHANGED <<since, durable, vouched>>

\* A batch becomes durable at once, behind what is durable already: operations
\* of this process, in submission order, none of them twice.
Persist ==
    /\ \A i \in DOMAIN durable : i \in DOMAIN durable' /\ durable'[i] = durable[i]
    /\ \A i \in DOMAIN durable' \ DOMAIN durable :
          /\ durable'[i] \in since + 1 .. Len(submitted)
          /\ submitted[durable'[i]] = "op"
    /\ \A i, j \in DOMAIN durable' : i < j => durable'[i] < durable'[j]
    /\ UNCHANGED <<submitted, since, vouched>>

\* The flush submitted at position p reports success.
Vouch ==
    /\ \E p \in since + 1 .. Len(submitted) :
          LET before == {q \in since + 1 .. p : submitted[q] = "op"}
          IN  /\ submitted[p] = "flush"
              /\ before \subseteq Durable
              /\ vouched' = vouched \cup before
    /\ UNCHANGED <<submitted, since, durable>>

\* A restart gives up whatever is not durable yet.
Restart ==
    /\ since' = Len(submitted)
    /\ UNCHANGED <<submitted, durable, vouched>>

DNext == Submit \/ Persist \/ Vouch \/ Restart
DSpec == DInit /\ [][DNext]_dvars
=============================================================================
