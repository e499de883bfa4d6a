---------------------------- MODULE MCRateLimiter ----------------------------
(* RateLimiter for TLC. *)
EXTENDS RateLimiter

CONSTANTS u1, u2

\* Only the list of tuples holds the requests of more than one user.
AllAsks == ({"memory", "tuples", "lua", "fixed", "counter"} \X {u1}) \cup {<<"tuples", u2>>}
=============================================================================
