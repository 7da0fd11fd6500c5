----------------------------- MODULE MCHttpParse -----------------------------
EXTENDS HttpParse

(* A negative length, none, and lengths below and at the largest body.     *)
MCLengths == {-1, 0, 1, 3}
=============================================================================
