---------------------------- MODULE SiteAdapters ----------------------------
(***************************************************************************)
(* One site adapter and the tracker it talks to.  An operation of an       *)
(* adapter is a short script of HTTP requests; every request may be        *)
(* answered in full, refused, answered with another page, or lost, and the *)
(* tracker may end the login session between two requests of one           *)
(* operation.  There is one action per operation of each of the five       *)
(* adapter families (crates/core/src/site/adapters); the probe of          *)
(* crates/core/src/site/probe.rs runs three operations in a row.           *)
(*                                                                         *)
(* An answer is abstracted to what the adapters tell apart. status: "ok"   *)
(* (2xx), "redirect" (3xx that is not followed), "denied" (401, 403),      *)
(* "missing" (404), "limited" (429), "error" (any other), "none" (no       *)
(* answer: transport error or the 30 s timeout of http.rs). body: "good"   *)
(* (what was asked for), "empty" (an envelope without code and data),      *)
(* "refusal" (an envelope with an error code), "page" (an HTML page that   *)
(* is not the one asked for: the login form, an error page, the upload     *)
(* form shown again).                                                      *)
(***************************************************************************)
EXTENDS Integers, FiniteSets

CONSTANT Family   \* the adapter families that are configured

ASSUME FamilyAssumption ==
    Family \subseteq {"nexusphp", "mteam", "unit3d", "gazelle", "zhuque"}

VARIABLES
    family,    \* the adapter under way
    cred,      \* credentials stored for the site: subset of Credential
    seedingSwitch, \* the shared switch for the extra seeding list request
    session,   \* does the tracker still honour the credentials
    call,      \* the operation under way, or the last one that ended
    probe      \* the probe under way

adapterVars == <<family, cred, seedingSwitch, session, call, probe>>

Credential == {"cookie", "token", "passkey"}
Op == {"query", "userinfo", "passkey", "detail", "submit", "search"}
Field == {"totals", "class", "size", "time"}

Status == {"ok", "redirect", "denied", "missing", "limited", "error", "none"}
Body == {"good", "empty", "refusal", "page"}
Answer == [status : Status, body : Body]

-----------------------------------------------------------------------------
(* Which operation needs which credential, and what it can do without a    *)
(* request.                                                                *)

\* require_api_token, require_auth and the "no ... configured" guards at the
\* head of every operation.
HasCredential(f, op) ==
    CASE f = "nexusphp" -> IF op = "query" THEN "passkey" \in cred ELSE "cookie" \in cred
      [] f \in {"mteam", "unit3d"} -> "token" \in cred
      [] f = "gazelle" -> "cookie" \in cred
      [] f = "zhuque" -> cred \cap {"token", "cookie"} # {}

\* Gazelle and Unit3D have no pieces-hash API and answer with an empty list.
NoHashApi(f) == f \in {"gazelle", "unit3d"}

\* What an operation returns without asking the site; "pending" when it asks.
Local(f, op) ==
    IF op = "query" /\ NoHashApi(f) THEN "Ok"
    ELSE IF op = "passkey" /\ f # "nexusphp" /\ "passkey" \in cred THEN "Ok"
    ELSE IF op = "passkey" /\ f = "unit3d" THEN "OkNone"
    ELSE IF ~HasCredential(f, op) THEN "AuthFailed"
    ELSE "pending"

\* The user statistics a family's profile can hold at all.
Exposed(f) ==
    CASE f = "nexusphp" -> Field
      [] f \in {"mteam", "zhuque"} -> {"totals", "class", "size"}
      [] f = "unit3d" -> {"totals", "class"}
      [] f = "gazelle" -> {"totals"}

\* NexusPHP learns the user id from the index page before it reads the
\* user's page: the registry configures no user id.
FirstRequest(f, op) ==
    IF f = "nexusphp" /\ op \in {"userinfo", "passkey"} THEN "index" ELSE "main"

NewCall(op) ==
    [op |-> op,
     req |-> IF Local(family, op) = "pending" THEN FirstRequest(family, op) ELSE "none",
     result |-> Local(family, op), fields |-> {}, file |-> FALSE, stored |-> FALSE,
     lateStart |-> ~session]

-----------------------------------------------------------------------------
(* How each family reads an answer: "Ok" or the error it reports.          *)

\* Fault: the code of the envelope is not looked at.
MTeamReadsDataOnly(a) ==
    CASE a.status = "none" -> "HttpError"
      [] a.status = "limited" -> "RateLimited"
      [] a.status = "denied" -> "AuthFailed"
      [] a.status \in {"redirect", "missing", "error"} -> "HttpError"
      [] OTHER -> "Ok"

\* MTeamAdapter::api_request.
MTeamReads(a) ==
    CASE a.status = "none" -> "HttpError"
      [] a.status = "limited" -> "RateLimited"
      [] a.status = "denied" -> "AuthFailed"
      [] a.status \in {"redirect", "missing", "error"} -> "HttpError"
      [] a.body = "refusal" -> "HttpError"
      [] a.body \in {"empty", "page"} -> "ParseError"
      [] OTHER -> "Ok"

\* ZhuqueAdapter::api_request: only a GET maps 404 to NotFound.
ZhuqueReads(a, isPost) ==
    CASE a.status = "none" -> "HttpError"
      [] a.status = "limited" -> "RateLimited"
      [] a.status = "denied" -> "AuthFailed"
      [] a.status = "missing" /\ ~isPost -> "NotFound"
      [] a.status \in {"redirect", "missing", "error"} -> "HttpError"
      [] a.body = "refusal" -> "HttpError"
      [] a.body \in {"empty", "page"} -> "ParseError"
      [] OTHER -> "Ok"

\* GazelleAdapter::api_get.
GazelleReads(a) ==
    CASE a.status = "none" -> "HttpError"
      [] a.status = "limited" -> "RateLimited"
      [] a.status = "denied" -> "AuthFailed"
      [] a.status \in {"redirect", "missing", "error"} -> "HttpError"
      [] a.body = "refusal" -> "HttpError"
      [] a.body \in {"empty", "page"} -> "ParseError"
      [] OTHER -> "Ok"

\* Unit3dAdapter::api_get and the parse of its body: there is no envelope.
Unit3dReads(a) ==
    CASE a.status = "none" -> "HttpError"
      [] a.status = "denied" -> "AuthFailed"
      [] a.status = "missing" -> "NotFound"
      [] a.status = "limited" -> "RateLimited"
      [] a.status \in {"redirect", "error"} -> "HttpError"
      [] a.body # "good" -> "ParseError"
      [] OTHER -> "Ok"

\* A NexusPHP page: every status but 2xx is an HTTP error, and any page is
\* read as the one that was asked for.
NexusReadsPage(a) == IF a.status = "ok" THEN "Ok" ELSE "HttpError"

\* normalize_pieces_hash_data behind the ret field: an envelope without data
\* means that nothing matched.
NexusReadsHashes(a) ==
    CASE a.status # "ok" -> "HttpError"
      [] a.body \in {"refusal", "page"} -> "ParseError"
      [] OTHER -> "Ok"

-----------------------------------------------------------------------------
(* The tracker.                                                            *)

\* Bounds what the tracker can say: it gives what was asked for, and stores
\* an upload, only while it honours the credentials.
Plausible(a) ==
    /\ a.body = "good" => session
    /\ a.status = "none" => a.body = "page"

\* An upload that was stored is acknowledged, or the acknowledgement is lost.
MayBeStored(a) ==
    IF a.body = "good" THEN {TRUE}
    ELSE IF session /\ a.status \in {"none", "error", "redirect"} THEN BOOLEAN
    ELSE {FALSE}

Expire ==
    /\ session
    /\ session' = FALSE
    /\ UNCHANGED <<family, cred, seedingSwitch, call, probe>>

\* The user logs in again and stores the new credentials.
Renew ==
    /\ ~session
    /\ call.req = "none" /\ probe.stage = "off"
    /\ session' = TRUE
    /\ UNCHANGED <<family, cred, seedingSwitch, call, probe>>

-----------------------------------------------------------------------------
(* Steps every script is made of.                                          *)

At(f, op) == family = f /\ call.op = op /\ call.req # "none"

End(result) == call' = [call EXCEPT !.req = "none", !.result = result]
Ask(req) == call' = [call EXCEPT !.req = req]

\* A script of one request: the answer is the result.
EndWith(result, fields) ==
    call' = [call EXCEPT !.req = "none", !.result = result,
                         !.fields = IF result = "Ok" THEN fields ELSE {}]

\* Fault: without the file the page is read again.
FetchFileOrRetry(a) ==
    IF a.status = "ok"
    THEN call' = [call EXCEPT !.req = "none", !.result = "Ok", !.file = TRUE]
    ELSE Ask("main")

\* fetch_torrent_bytes: a torrent file that cannot be had is not an error.
FetchFile(a) ==
    call' = [call EXCEPT !.req = "none", !.result = "Ok", !.file = (a.status = "ok")]

EndSubmit(result, stored) ==
    call' = [call EXCEPT !.req = "none", !.result = result, !.stored = stored]

-----------------------------------------------------------------------------
(* NexusPHP.                                                               *)

NexusQuery(a) == At("nexusphp", "query") /\ End(NexusReadsHashes(a))

\* resolve_user_id_with_index: the index page of a session that has ended
\* has no link to a user's page.
NexusResolve(a, fields, next) ==
    /\ call.req = "index"
    /\ IF NexusReadsPage(a) # "Ok" THEN End("HttpError")
       ELSE IF a.body # "good" THEN End("AuthFailed")
       ELSE call' = [call EXCEPT !.req = next, !.fields = fields]

\* fetch_user_info: a field the user's page does not give is taken from the
\* index page; the seeding list is asked for when the switch is on.
NexusUserInfo(a, fields) ==
    /\ At("nexusphp", "userinfo")
    /\ \/ NexusResolve(a, fields, "main")
       \/ /\ call.req = "main"
          /\ LET merged == call.fields \cup (IF a.body = "good" THEN fields ELSE {})
             IN  IF NexusReadsPage(a) # "Ok" THEN End("HttpError")
                 ELSE IF seedingSwitch
                      THEN call' = [call EXCEPT !.req = "ajax", !.fields = merged]
                      ELSE EndWith("Ok", merged)
       \/ /\ call.req = "ajax"
          /\ EndWith("Ok", call.fields \cup
                 (IF a = [status |-> "ok", body |-> "good"] THEN {"size"} ELSE {}))

NexusPasskey(a) ==
    /\ At("nexusphp", "passkey")
    /\ \/ NexusResolve(a, {}, "main")
       \/ /\ call.req = "main"
          /\ IF NexusReadsPage(a) # "Ok" THEN End("HttpError")
             ELSE End(IF a.body = "good" THEN "Ok" ELSE "OkNone")

NexusDetail(a) ==
    /\ At("nexusphp", "detail")
    /\ \/ /\ call.req = "main"
          /\ IF NexusReadsPage(a) = "Ok" THEN Ask("file") ELSE End("HttpError")
       \/ call.req = "file" /\ FetchFile(a)

\* submit_torrent: only the redirect to the details page, or the message of
\* success, counts.
NexusSubmit(a, stored) ==
    /\ At("nexusphp", "submit")
    /\ EndSubmit(IF a.status # "none" /\ a.body = "good" THEN "Ok" ELSE "HttpError", stored)

NexusSearch(a) == At("nexusphp", "search") /\ End(NexusReadsPage(a))

-----------------------------------------------------------------------------
(* M-Team.                                                                 *)

MTeamQuery(a) == At("mteam", "query") /\ End(MTeamReads(a))

MTeamUserInfo(a, fields) == At("mteam", "userinfo") /\ EndWith(MTeamReads(a), fields)

MTeamPasskey(a) ==
    /\ At("mteam", "passkey")
    /\ End(IF a.status # "ok" THEN "HttpError"
           ELSE IF a.body = "good" THEN "Ok" ELSE "OkNone")

\* extract_torrent_detail and download_torrent_file: a download token first,
\* then the file; neither is needed for the operation to succeed.
MTeamDetail(a) ==
    /\ At("mteam", "detail")
    /\ \/ /\ call.req = "main"
          /\ IF MTeamReads(a) = "Ok" THEN Ask("dltoken") ELSE End(MTeamReads(a))
       \/ /\ call.req = "dltoken"
          /\ IF MTeamReads(a) = "Ok" THEN Ask("file") ELSE End("Ok")
       \/ call.req = "file" /\ FetchFile(a)

\* Fault: an envelope without a code is taken for a success.
MTeamSubmitAnyEnvelope(a, stored) ==
    /\ At("mteam", "submit")
    /\ EndSubmit(CASE a.status = "none" -> "HttpError"
                   [] a.status = "denied" -> "AuthFailed"
                   [] a.body = "page" -> "ParseError"
                   [] a.body \in {"good", "empty"} -> "Ok"
                   [] OTHER -> "HttpError", stored)

\* submit_torrent: the envelope must carry a code that says success.
MTeamSubmit(a, stored) ==
    /\ At("mteam", "submit")
    /\ EndSubmit(CASE a.status = "none" -> "HttpError"
                   [] a.status = "denied" -> "AuthFailed"
                   [] a.body = "page" -> "ParseError"
                   [] a.body = "good" -> "Ok"
                   [] OTHER -> "HttpError", stored)

MTeamSearch(a) == At("mteam", "search") /\ End(MTeamReads(a))

-----------------------------------------------------------------------------
(* Unit3D.                                                                 *)

Unit3dUserInfo(a, fields) == At("unit3d", "userinfo") /\ EndWith(Unit3dReads(a), fields)

Unit3dDetail(a) ==
    /\ At("unit3d", "detail")
    /\ \/ /\ call.req = "main"
          /\ IF Unit3dReads(a) = "Ok" THEN Ask("file") ELSE End(Unit3dReads(a))
       \/ call.req = "file" /\ FetchFile(a)

\* submit_torrent: every 2xx counts, whatever the body.
Unit3dSubmit(a, stored) ==
    /\ At("unit3d", "submit")
    /\ EndSubmit(CASE a.status = "ok" -> "Ok"
                   [] a.status = "denied" -> "AuthFailed"
                   [] a.status = "limited" -> "RateLimited"
                   [] OTHER -> "HttpError", stored)

Unit3dSearch(a) == At("unit3d", "search") /\ End(Unit3dReads(a))

-----------------------------------------------------------------------------
(* Gazelle.                                                                *)

GazelleUserInfo(a, fields) == At("gazelle", "userinfo") /\ EndWith(GazelleReads(a), fields)

GazellePasskey(a) ==
    /\ At("gazelle", "passkey")
    /\ End(IF a.status # "ok" THEN "HttpError"
           ELSE IF a.body = "good" THEN "Ok" ELSE "OkNone")

GazelleDetail(a) ==
    /\ At("gazelle", "detail")
    /\ \/ /\ call.req = "main"
          /\ IF GazelleReads(a) = "Ok" THEN Ask("file") ELSE End(GazelleReads(a))
       \/ call.req = "file" /\ FetchFile(a)

\* submit_torrent: the redirect to the torrent page counts, and so does any
\* final status 2xx or 3xx without it.
GazelleSubmit(a, stored) ==
    /\ At("gazelle", "submit")
    /\ EndSubmit(IF a.status \in {"ok", "redirect"} \/ (a.status # "none" /\ a.body = "good")
                 THEN "Ok" ELSE "HttpError", stored)

GazelleSearch(a) == At("gazelle", "search") /\ End(GazelleReads(a))

-----------------------------------------------------------------------------
(* Zhuque.                                                                 *)

ZhuqueQuery(a) == At("zhuque", "query") /\ End(ZhuqueReads(a, TRUE))

ZhuqueUserInfo(a, fields) == At("zhuque", "userinfo") /\ EndWith(ZhuqueReads(a, FALSE), fields)

ZhuquePasskey(a, found) ==
    /\ At("zhuque", "passkey")
    /\ End(IF ZhuqueReads(a, FALSE) = "Ok" /\ ~found THEN "OkNone" ELSE ZhuqueReads(a, FALSE))

ZhuqueDetail(a) ==
    /\ At("zhuque", "detail")
    /\ \/ /\ call.req = "main"
          /\ IF ZhuqueReads(a, FALSE) = "Ok" THEN Ask("file") ELSE End(ZhuqueReads(a, FALSE))
       \/ call.req = "file" /\ FetchFile(a)

\* submit_torrent: any JSON body without a code, or with code 0, counts,
\* whatever the status.
ZhuqueSubmit(a, stored) ==
    /\ At("zhuque", "submit")
    /\ EndSubmit(IF a.status # "none" /\ a.body \in {"good", "empty"} THEN "Ok" ELSE "HttpError",
                 stored)

ZhuqueSearch(a) == At("zhuque", "search") /\ End(ZhuqueReads(a, FALSE))

-----------------------------------------------------------------------------
(* Calls and the probe.                                                    *)

\* A caller picks an operation: the matcher, the repost worker, the handlers
\* of the site API, the refresh of the statistics.
Begin(op) ==
    /\ call.req = "none"
    /\ probe.stage = "off"
    /\ call' = NewCall(op)
    /\ UNCHANGED <<family, cred, seedingSwitch, session, probe>>

\* One answer of the tracker, handled by the operation that waits for it.
Reply ==
    /\ call.req # "none"
    /\ \E a \in Answer,
          fields \in IF call.op = "userinfo" THEN SUBSET Exposed(family) ELSE {{}} :
          /\ Plausible(a)
          /\ \/ NexusQuery(a) \/ NexusUserInfo(a, fields) \/ NexusPasskey(a)
             \/ NexusDetail(a) \/ NexusSearch(a)
             \/ MTeamQuery(a) \/ MTeamUserInfo(a, fields) \/ MTeamPasskey(a)
             \/ MTeamDetail(a) \/ MTeamSearch(a)
             \/ Unit3dUserInfo(a, fields) \/ Unit3dDetail(a) \/ Unit3dSearch(a)
             \/ GazelleUserInfo(a, fields) \/ GazellePasskey(a)
             \/ GazelleDetail(a) \/ GazelleSearch(a)
             \/ ZhuqueQuery(a) \/ ZhuqueUserInfo(a, fields) \/ ZhuqueDetail(a)
             \/ ZhuqueSearch(a)
             \/ \E found \in BOOLEAN : ZhuquePasskey(a, found)
             \/ \E stored \in MayBeStored(a) :
                   \/ NexusSubmit(a, stored) \/ MTeamSubmit(a, stored)
                   \/ Unit3dSubmit(a, stored) \/ GazelleSubmit(a, stored)
                   \/ ZhuqueSubmit(a, stored)
          /\ probe' = [probe EXCEPT !.refused =
                           @ \/ (probe.stage # "off" /\ a # [status |-> "ok", body |-> "good"])]
    /\ UNCHANGED <<family, cred, seedingSwitch, session>>

ProbeStart ==
    /\ call.req = "none"
    /\ probe.stage = "off"
    /\ call' = NewCall("query")
    /\ probe' = [stage |-> "query", passed |-> FALSE, failed |-> FALSE,
                 status |-> "unknown", refused |-> FALSE, lateStart |-> ~session]
    /\ UNCHANGED <<family, cred, seedingSwitch, session>>

Succeeded == call.result \in {"Ok", "OkNone"}

\* The hash query has ended: any result but an error says "reachable".
ProbeUserInfo ==
    /\ probe.stage = "query"
    /\ call.req = "none"
    /\ probe' = [probe EXCEPT !.stage = "userinfo", !.passed = Succeeded, !.failed = ~Succeeded]
    /\ call' = NewCall("userinfo")
    /\ UNCHANGED <<family, cred, seedingSwitch, session>>

\* Every field that was read passes, every field that was not fails.
ProbePasskey ==
    /\ probe.stage = "userinfo"
    /\ call.req = "none"
    /\ probe' = [probe EXCEPT !.stage = "passkey",
                              !.passed = @ \/ call.fields # {},
                              !.failed = @ \/ ~Succeeded \/ call.fields # Field]
    /\ call' = NewCall("passkey")
    /\ UNCHANGED <<family, cred, seedingSwitch, session>>

\* Fault: one failed field fails the probe.
OverallStrict(passed, failed) == IF failed THEN "failed" ELSE "ok"

Overall(passed, failed) ==
    IF passed THEN (IF failed THEN "partial" ELSE "ok") ELSE "failed"

\* A passkey passes, none found counts neither way.
ProbeEnd ==
    /\ probe.stage = "passkey"
    /\ call.req = "none"
    /\ LET passed == probe.passed \/ call.result = "Ok"
           failed == probe.failed \/ ~Succeeded
       IN  probe' = [probe EXCEPT !.stage = "off", !.passed = passed, !.failed = failed,
                                  !.status = Overall(passed, failed)]
    /\ UNCHANGED <<family, cred, seedingSwitch, session, call>>

AdapterInit ==
    /\ family \in Family
    /\ cred \in SUBSET Credential
    /\ seedingSwitch \in BOOLEAN
    /\ session \in BOOLEAN
    /\ call = [op |-> "none", req |-> "none", result |-> "pending", fields |-> {},
               file |-> FALSE, stored |-> FALSE, lateStart |-> FALSE]
    /\ probe = [stage |-> "off", passed |-> FALSE, failed |-> FALSE,
                status |-> "unknown", refused |-> FALSE, lateStart |-> FALSE]

AdapterNext ==
    \/ \E op \in Op : Begin(op)
    \/ Reply \/ Expire \/ Renew
    \/ ProbeStart \/ ProbeUserInfo \/ ProbePasskey \/ ProbeEnd

AdapterSpec == AdapterInit /\ [][AdapterNext]_adapterVars

\* Every request ends within the client's timeout, and the probe goes on as
\* soon as a call has ended.  Nothing obliges a caller to call.
FairAdapterSpec ==
    /\ AdapterSpec
    /\ WF_adapterVars(Reply) /\ WF_adapterVars(ProbeUserInfo)
    /\ WF_adapterVars(ProbePasskey) /\ WF_adapterVars(ProbeEnd)

-----------------------------------------------------------------------------
(* Properties.                                                             *)

Ended == call.req = "none" /\ call.op # "none"

\* Families whose acknowledgement of an upload names the torrent, or whose
\* API answers an upload that was not stored with an error.
Acknowledging == {"nexusphp", "mteam"}

\* An upload the adapter reports as submitted is on the tracker: the repost
\* queue marks the entry as uploaded on the strength of this result.
SubmittedIsStored ==
    (Ended /\ call.op = "submit" /\ call.result = "Ok" /\ family \in Acknowledging)
        => call.stored

\* The operations that take any page, or an envelope without content, for
\* the answer they asked for.
Credulous == {<<"nexusphp", "query">>, <<"nexusphp", "detail">>, <<"nexusphp", "search">>,
              <<"unit3d", "submit">>, <<"gazelle", "submit">>, <<"zhuque", "submit">>}

\* The passkeys that are looked for in whatever the site answers with: a page
\* or an envelope without one ends in "no passkey", which is a success.
Overlooking == {<<"mteam", "passkey">>, <<"gazelle", "passkey">>}

\* An operation that asks a tracker that no longer honours the credentials
\* does not succeed, not even with an empty result: an expired login is not
\* stored as fresh statistics (api/sites.rs refresh_stats) and not recorded as
\* "no torrent matched".  The two Overlooking passkeys may end with "none"
\* found, and never with a passkey.
DeadSessionIsReported ==
    (Ended /\ call.lateStart /\ Local(family, call.op) = "pending"
          /\ <<family, call.op>> \notin Credulous)
        => \/ ~Succeeded
           \/ call.result = "OkNone" /\ <<family, call.op>> \in Overlooking

\* What a probe concludes from three operations is what the tracker did: it
\* is "failed" only when some answer was refused or some credential is not
\* configured, and "ok" only on a session that was alive when it began.
ProbeIsJust ==
    probe.stage = "off" =>
        /\ probe.status = "failed" =>
              probe.refused \/ \E op \in {"query", "userinfo", "passkey"} :
                                     Local(family, op) = "AuthFailed"
        /\ probe.status = "ok" => ~probe.lateStart

\* A call ends, and with it a probe: no script waits for an answer twice.
CallsEnd == (call.req # "none") ~> (call.req = "none" /\ probe.stage = "off")
=============================================================================
