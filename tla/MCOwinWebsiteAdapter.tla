------------------------- MODULE MCOwinWebsiteAdapter -------------------------
(* OwinWebsiteAdapter.tla with a website of a few headers and a short body.  *)
EXTENDS OwinWebsiteAdapter
=============================================================================
