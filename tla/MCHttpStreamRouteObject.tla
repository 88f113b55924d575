----------------------- MODULE MCHttpStreamRouteObject -----------------------
(* A request with and one without header lines, responses that fill the      *)
(* array of three bytes once, twice and partly, heads that fit and one that  *)
(* does not.                                                                 *)
EXTENDS HttpStreamRouteObject
SmallRequests ==
  {[head |-> 3, wide |-> {}, body |-> 2, fields |-> f] :
     f \in {"none", "named", "colonless"}}
SmallResponses == [head : {2, 3}, body : {0, 3, 7}] \cup [head : {5}, body : {2}]
=============================================================================
