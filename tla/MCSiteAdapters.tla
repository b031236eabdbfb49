--------------------------- MODULE MCSiteAdapters ---------------------------
(***************************************************************************)
(* All five adapter families, every set of configured credentials, and a   *)
(* tracker that may end the session between any two requests.              *)
(***************************************************************************)
EXTENDS SiteAdapters

MCFamily == {"nexusphp", "mteam", "unit3d", "gazelle", "zhuque"}
=============================================================================
