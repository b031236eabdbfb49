--------------------------- MODULE MCCredentials ---------------------------
(***************************************************************************)
(* One row, two requests at once and three in all, and one failing         *)
(* statement or restart: two registrations race, two refreshes interleave  *)
(* with an edit, a login waits for a downloader's answer.                  *)
(***************************************************************************)
EXTENDS Credentials

MCActor == 1 .. 2

\* Two users begin with a site that is served under the key of one of them, so
\* that a login of the other, an edit and a run make three requests.  They do
\* all that one user does from there, so one user begins elsewhere.
MCInit ==
    /\ Init
    /\ vault \in {NoKey, Owner}
    /\ users = User <=> registry # Nothing

MCSpec == MCInit /\ [][Next]_vars /\ Fairness
=============================================================================
