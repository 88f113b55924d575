------------------------- MODULE MCHttpRequestStream -------------------------
(* Every cut into chunks of requests with heads of up to six bytes, with and *)
(* without a wide character, and bodies of up to six bytes.                  *)
EXTENDS HttpRequestStream
SmallRequests ==
  {r \in [head : {0, 3, 6}, wide : {{}}, body : {0, 6},
          fields : {"none", "named", "colonless"}] :
     r.fields # "none" => r.head >= 3}
    \cup [head : {5}, wide : {{2}, {1, 3}}, body : {6}, fields : {"named"}]
=============================================================================
