------------------------------ MODULE MCClient ------------------------------
(* A small instance of the client library: two kinds, two names.           *)
EXTENDS ClientLibrary

ThreeObjects == {<<"host", "a">>, <<"host", "b">>, <<"service", "a">>}
KindsInOrder == <<"host", "service">>
=============================================================================
