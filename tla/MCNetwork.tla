----------------------------- MODULE MCNetwork -----------------------------
(* Instances of Network for TLC.                                           *)
EXTENDS Network, TLC

CONSTANT Heights   \* the heights the providers of this instance report

Failure == [status |-> TransportError, body |-> Undecodable]

Heard == [status : {200}, body : Heights]

\* Reports and failures only.
PlainResponses == Heard \cup {Failure}

\* The answer that ends the process.
Panicking == {[status |-> 200, body |-> ShortString]}

\* One answer of every kind healthCheck tells apart.
AllResponses == PlainResponses \cup Panicking
                  \cup {[status |-> 429, body |-> 1], [status |-> 500, body |-> 1]}

\* Reports and failures, and the process may end.
LiveResponses == PlainResponses \cup Panicking

Symmetry == Permutations(Providers)
----------------------------------------------------------------------------
(* A chain that grows for ever.  Heights are compared with each other only,*)
(* but for 0, which is none: now and then all are counted from one block   *)
(* later.  What is at 1 stays there; it is the height of the network that  *)
(* must not come so close to it that it would not lag any more.            *)

Later(b) == IF b > 1 THEN b - 1 ELSE b

Rebase ==
  /\ RoundOver
  /\ LatestBlockNumber > BlockLagLimit + 2
  /\ LatestBlockNumber' = Later(LatestBlockNumber)
  /\ startBlock' = Later(startBlock)
  /\ CheckedProviders' = [p \in Providers |-> [k \in DOMAIN CheckedProviders[p] |->
                                                Later(CheckedProviders[p][k])]]
  /\ answer' = [p \in Providers |-> IF Reported(p) THEN [answer[p] EXCEPT !.body = Later(@)]
                                    ELSE answer[p]]
  /\ UNCHANGED <<round, tick, pc, rangeVars, healthVars, metrics>>

GrowingSpec == Init /\ [][Next \/ Rebase]_vars /\ Fairness /\ PostsReturn
=============================================================================
