-------------------------- MODULE MCTokenRefresh --------------------------
(***************************************************************************)
(* TokenRefresh in units of 15 seconds: the margins and delays of          *)
(* redis_auth.rs, tokens of one minute (refused) to four, two pools, and *)
(* one connection, since connections do not affect each other.             *)
(***************************************************************************)
EXTENDS TokenRefresh, TLC

CONSTANT c1

McPools == <<"dcs", "idlists">>
McPoolOf == (c1 :> 1)

With(mode, margin, timeout) ==
    [mode |-> mode, complete |-> TRUE, tls |-> TRUE, plaintext |-> "unset",
     https |-> TRUE, margin |-> margin, timeout |-> timeout]
Settings == With("oauth", 5, 0)

\* Two that are served, with a margin too long for any token and with one
\* that fits, one without tokens, and one per reason to be refused.
McSetups ==
    {With("oauth", 40, 2), [Settings EXCEPT !.tls = FALSE, !.plaintext = "yes"],
     With("password", 2, 0),
     With("other", NoMargin, 0), With("oauth", 2, 0),
     [Settings EXCEPT !.complete = FALSE], [Settings EXCEPT !.https = FALSE],
     [Settings EXCEPT !.tls = FALSE], [Settings EXCEPT !.plaintext = "malformed"]}
=============================================================================
