-------------------------- MODULE MCRequestLease --------------------------
(* Small instances of RequestLease *)
EXTENDS RequestLease

CONSTANTS a1, a2

AnyOrFirst == {None, a1}
===========================================================================
