----------------------------- MODULE MCSessions -----------------------------
(* Instances of Sessions for TLC.                                          *)
EXTENDS Sessions, TLC

\* A server that grants sessions of two lifetimes, the longer for a single use, and a
\* session for a single use without an end, and answers with a JSON object that is no
\* session at all, or is one without its headers.
AllGrants == {[headers |-> "x-api-key", exp |-> 2, uses |-> NoValue],
              [headers |-> "x-api-key", exp |-> 3, uses |-> 1],
              [headers |-> "x-api-key", exp |-> NoValue, uses |-> 1],
              [headers |-> NoValue, exp |-> 2, uses |-> NoValue],
              Empty}

\* One that grants sessions without a limit on their use.
PlainGrants == {[headers |-> "x-api-key", exp |-> 2, uses |-> NoValue]}
=============================================================================
