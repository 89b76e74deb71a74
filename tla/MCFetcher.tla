----------------------------- MODULE MCFetcher ------------------------------
(* Instances of Fetcher for TLC. *)
EXTENDS FetcherProps, TLC

CONSTANTS r1, r2, r3, r4

\* Two requests never give up, enough to fill the window; the others do, at once or
\* after a retry.
MixedRetries == (r1 :> -1) @@ (r2 :> 1) @@ (r3 :> 0) @@ (r4 :> -1)
=============================================================================
