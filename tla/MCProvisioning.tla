--------------------------- MODULE MCProvisioning ---------------------------
(* An instance of Provisioning for TLC.                                    *)
EXTENDS Provisioning

CONSTANTS h1, h2  \* hosts of providers

Provider(host, sessions) == [kind |-> "provider", host |-> host, sessions |-> sessions]
Interval(value) == [kind |-> "healthcheck_interval", value |-> value]
Bad == [kind |-> "bad"]

\* What may stand in a block: one provider or two, the same host twice, no sessions,
\* no interval, a mistake after a provider, nothing.
Plain == <<Provider(h1, NoAuth)>>
Full == <<Provider(h1, 1), Provider(h2, NoAuth), Interval(2)>>
Twice == <<Provider(h2, NoAuth), Provider(h2, 1)>>
Others == {<<Provider(h2, 0)>>, <<Interval(0), Provider(h1, NoAuth)>>, <<Provider(h2, 1), Bad>>, <<>>}

Eth(items) == [name |-> "eth", items |-> items]
Holesky(items) == [name |-> "holesky", items |-> items]

\* One network or the other, both, or one of them twice.
AllFiles == {<<Eth(items)>> : items \in {Plain, Full, Twice} \cup Others}
              \cup {<<Holesky(items)>> : items \in {Plain, Twice}}
              \cup {<<Eth(Full), Holesky(items)>> : items \in {Plain, <<>>}}
              \cup {<<Eth(Full), Eth(Plain)>>}
=============================================================================
