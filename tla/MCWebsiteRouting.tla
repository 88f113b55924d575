--------------------------- MODULE MCWebsiteRouting ---------------------------
(* Two requests, two names, one header with both of them, one malformed path. *)
EXTENDS WebsiteRouting, TLC

CONSTANTS n1, n2, h1, h12

MCContains == (h1 :> {n1}) @@ (h12 :> {n1, n2})
=============================================================================
