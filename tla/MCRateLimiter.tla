---------------------------- MODULE MCRateLimiter ----------------------------
(***************************************************************************)
(* Small instances of the API process and its rate limiter for TLC.        *)
(***************************************************************************)
EXTENDS Api
=============================================================================
