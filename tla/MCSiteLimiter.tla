--------------------------- MODULE MCSiteLimiter ---------------------------
(* SiteLimiter for TLC.                                                    *)
EXTENDS SiteLimiter, TLC

DownloadSymmetry == Permutations(Downloads)
=============================================================================
