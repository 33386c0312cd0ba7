---------------------------- MODULE MCHttpServer ----------------------------
(***************************************************************************)
(* HttpServer with one request of each kind the parser tells apart.        *)
(***************************************************************************)
EXTENDS HttpServer

Kind(m, v, n, c) == [method |-> m, version |-> v, length |-> n, close |-> c]

MCKinds ==
    {Kind("kGet", "kHttp11", -1, FALSE), Kind("kGet", "kHttp10", -1, FALSE),
     Kind("kGet", "kHttp11", -1, TRUE), Kind("kPost", "kHttp11", 0, FALSE),
     Kind("kPost", "kHttp11", 2, FALSE), Kind("kPost", "kHttp11", 1, TRUE),
     Kind("kPost", "kHttp11", -1, FALSE),
     Kind("kGet", "kUnknown", -1, FALSE), Kind("kInvalid", "kHttp11", -1, FALSE)}
=============================================================================
