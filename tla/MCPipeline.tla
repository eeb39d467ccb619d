----------------------------- MODULE MCPipeline -----------------------------
(***************************************************************************)
(* Instances of Pipeline for TLC: two tasks and three URLs, with links that*)
(* lead back and a redirect.                                               *)
(***************************************************************************)
EXTENDS Pipeline, TLC

CONSTANTS t1, t2, u1, u2, u3

\* u1 redirects to u2, whose page links to both others; u3 leads back.
Links == (u1 :> {}) @@ (u2 :> {u1, u3}) @@ (u3 :> {})
Redirected == (u1 :> u2) @@ (u2 :> NoURL) @@ (u3 :> u1)
=============================================================================
