----------------------------- MODULE AuthServer -----------------------------
(***************************************************************************)
(* The provider's side of a session (lib/auth/siwe/server.go).  It issues  *)
(* a JWT to a client whose address is in its whitelist, and lets requests  *)
(* through that carry one signed with its secret.  It keeps no sessions:   *)
(* what it knows of them is its secret, which comes from the Caddyfile or  *)
(* is made up when the Caddyfile is parsed.                                *)
(*                                                                         *)
(* The object that parses the Caddyfile is registered once per process     *)
(* (module.go) and keeps its secret from one parse to the next.  The       *)
(* configuration it leads to may be loaded by the same process, or by a    *)
(* running server that "caddy reload" sends it to.                         *)
(*                                                                         *)
(* A definition marked "Mutant" is a plausible slip in the definition that *)
(* follows it; it takes part in no behaviour.                              *)
(***************************************************************************)
EXTENDS Integers

CONSTANTS
  Keys,      \* JWT strings
  Files,     \* Caddyfiles: [whitelist, secret], the latter may be NoValue
  NoValue,   \* no secret, no string
  Lifetime,  \* how long a JWT is valid (1 h)
  MaxLoads   \* bound: how often a configuration is loaded

VARIABLES
  parsed,     \* the Secret of the object the process parses with
  Secret,     \* of the handler that serves
  Whitelist,  \* of the handler that serves
  loads,      \* how many configurations have been parsed
  jwt         \* what a JWT says: what it is signed with and what is left of it

vars == <<parsed, Secret, Whitelist, loads, jwt>>

\* The secret of the Caddyfile; those that are made up are numbered, from 1 for that
\* of the first load, so that no two are the same.
Configured == 0

\* kept is a history variable: the secret ought to be the one it was issued with.
Unissued == [secret |-> NoValue, left |-> 0, kept |-> FALSE]

\* Mutant: the file's secret is overlooked in a new process.
ParsedDrawn(f, old) == IF old # NoValue THEN old ELSE loads + 2

\* UnmarshalCaddyfile, by an object that had the secret old.
Parsed(f, old) == IF f.secret # NoValue THEN f.secret
                  ELSE IF old # NoValue THEN old
                  ELSE loads + 2

Init == \E f \in Files :
          /\ loads = 0
          /\ Secret = IF f.secret # NoValue THEN f.secret ELSE 1
          /\ parsed = Secret
          /\ Whitelist = f.whitelist
          /\ jwt = [k \in Keys |-> Unissued]
----------------------------------------------------------------------------
(* Requests.                                                               *)

Issue(address, key, held, secret) ==
  /\ address \in Whitelist
  /\ key \notin held
  /\ jwt' = [k \in Keys |-> IF k = key THEN [secret |-> secret, left |-> Lifetime, kept |-> TRUE]
                            ELSE IF k \in held THEN jwt[k] ELSE Unissued]
  /\ UNCHANGED <<parsed, Secret, Whitelist, loads>>

\* Mutant: the JWT is signed before there is a secret.
createUnsigned(address, key, held) == Issue(address, key, held, NoValue)

\* A session for the address that signed the message, NoValue if it cannot be read,
\* parsed or verified; held are the strings somebody has.
createSession(address, key, held) == Issue(address, key, held, Secret)

\* Every refusal is an error for the client, whatever its status and body.
refuseSession(address) == address \notin Whitelist /\ UNCHANGED vars

Valid(k) == jwt[k].secret = Secret /\ jwt[k].left > 0

\* What becomes of a request for path with the header x-api-key.
ServeHTTP(path, key) ==
  CASE path = "/auth" -> "createSession"
    [] path = "/" -> "next"   \* for the health checks of proxies
    [] OTHER -> IF key = NoValue THEN "401" ELSE IF Valid(key) THEN "next" ELSE "403"
----------------------------------------------------------------------------
(* Configuration.                                                          *)

\* A load that leaves the secret as it was: it is configured and has been, or the
\* process that made it up has parsed this file, too.
Keeps(f, old) == IF f.secret # NoValue THEN Secret = f.secret ELSE old = Secret

Load(f, old) ==
  /\ loads < MaxLoads
  /\ loads' = loads + 1
  /\ Secret' = Parsed(f, old)
  /\ Whitelist' = f.whitelist
  /\ jwt' = [k \in Keys |-> [jwt[k] EXCEPT !.kept = @ /\ Keeps(f, old)]]

\* A new process.
Restart == \E f \in Files : Load(f, NoValue) /\ parsed' = Secret'

\* The running process parses a file and loads the result.
Reload == \E f \in Files : Load(f, parsed) /\ parsed' = Secret'

\* "caddy reload": another process has parsed it.
ReloadFromOutside == \E f \in Files : Load(f, NoValue) /\ UNCHANGED parsed

Age(held) ==
  /\ jwt' = [k \in Keys |-> IF k \notin held THEN Unissued
                            ELSE [jwt[k] EXCEPT !.left = IF @ > 0 THEN @ - 1 ELSE 0]]
  /\ UNCHANGED <<parsed, Secret, Whitelist, loads>>
=============================================================================
