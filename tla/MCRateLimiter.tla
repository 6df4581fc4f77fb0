---------------------------- MODULE MCRateLimiter ----------------------------
(* Model values for RateLimiter: a single socket, as sockets do not share    *)
(* anything.                                                                 *)
EXTENDS RateLimiter

CONSTANTS k1

OneSocket == {k1}
=============================================================================
