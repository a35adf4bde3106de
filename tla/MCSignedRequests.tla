-------------------------- MODULE MCSignedRequests --------------------------
(* An instance of SignedRequests for TLC.                                  *)
EXTENDS SignedRequests, TLC

\* Caddyfiles with and without a secret (0 is Configured of AuthServer), and one that
\* excludes the client.
AllFiles == {[whitelist |-> {Address}, secret |-> NoValue],
             [whitelist |-> {Address}, secret |-> 0],
             [whitelist |-> {}, secret |-> 0]}

\* What the server may grant, seen from the client.
ServerGrants == [headers : Keys, exp : Lifetime - MaxTravel + Skew..Lifetime + Skew, uses : {NoValue}]
=============================================================================
