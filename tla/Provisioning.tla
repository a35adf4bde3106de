---------------------------- MODULE Provisioning ----------------------------
(***************************************************************************)
(* How a Caddyfile becomes a router that serves its networks               *)
(* (modules/din_middleware.go, module.go).  One object per process parses  *)
(* every "din" directive and keeps the networks it has read; the JSON of   *)
(* them configures a new instance of DinMiddleware, which opens sessions   *)
(* with the providers and checks every network once before Caddy lets it   *)
(* serve in place of the one before.  A configuration is read by the       *)
(* process itself, or comes from another one ("caddy reload").             *)
(*                                                                         *)
(* A Caddyfile is a sequence of blocks, one per network, with an item for  *)
(* each provider and option.  A definition marked "Mutant" is a plausible  *)
(* slip in the definition that follows it; it takes part in no behaviour.  *)
(***************************************************************************)
EXTENDS Integers, SequencesExt

CONSTANTS
  Files,            \* Caddyfiles: sequences of [name, items]
  DefaultInterval,  \* DefaultHCInterval
  NoAuth,           \* the sessions of a provider without authentication
  NoValue,          \* no instance, no network
  MaxLoads          \* bound: how often a configuration is read

\* What a Caddyfile may hold; a block ends with its first "bad" item.
ItemKinds == {"provider", "healthcheck_interval", "bad"}

IsFile(file) ==
  /\ file \in Seq(Range(file))
  /\ \A block \in Range(file) :
       /\ block.items \in Seq(Range(block.items))
       /\ \A item \in Range(block.items) :
            /\ item.kind \in ItemKinds
            /\ item.kind = "healthcheck_interval" => item.value \in Int

ASSUME ProvisioningAssumption == /\ DefaultInterval \in Nat \ {0}
                                 /\ MaxLoads \in Nat
                                 /\ NoAuth \notin Int
                                 /\ \A file \in Files : IsFile(file)

VARIABLES
  Networks,  \* of the object that parses
  serving,   \* the instance that serves, or NoValue
  loading,   \* the instance being provisioned, or NoValue
  crashed,   \* the process has ended
  loads      \* how many Caddyfiles have been read

vars == <<Networks, serving, loading, crashed, loads>>

Empty == << >>  \* no networks, no providers
----------------------------------------------------------------------------
(* Parsing.                                                                *)

\* An assignment to a map of Go.
Put(map, key, value) ==
  [k \in DOMAIN map \cup {key} |-> IF k = key THEN value ELSE map[k]]

NewNetwork == [Providers |-> Empty, HCInterval |-> DefaultInterval]

Item(net, item) ==
  CASE item.kind = "provider" ->
         [net EXCEPT !.Providers = Put(@, item.host, item.sessions)]
    [] item.kind = "healthcheck_interval" -> [net EXCEPT !.HCInterval = item.value]

\* What has been read, and whether it is all right so far; an option that is not
\* recognized, or whose value cannot be read, ends the parse.
ParseItem(name, read, item) ==
  IF ~read.ok THEN read
  ELSE IF item.kind = "bad" THEN [read EXCEPT !.ok = FALSE]
  ELSE [read EXCEPT !.networks[name] = Item(@, item)]

\* Mutant: a network that exists is added to.
OpenExisting(networks, name) ==
  IF name \in DOMAIN networks THEN networks ELSE Put(networks, name, NewNetwork)

\* A network of that name is replaced.
Open(networks, name) == Put(networks, name, NewNetwork)

ParseItems(name, read, items) ==
  FoldLeft(LAMBDA r, item : ParseItem(name, r, item), read, items)

ParseBlock(read, block) ==
  IF ~read.ok THEN read
  ELSE LET items == ParseItems(block.name, [read EXCEPT !.networks = Open(@, block.name)],
                               block.items)
       IN [items EXCEPT !.ok = @ /\ items.networks[block.name].Providers # Empty]

\* By an object that has read networks before.
UnmarshalCaddyfile(networks, file) ==
  FoldLeft(ParseBlock, [networks |-> networks, ok |-> TRUE], file)
----------------------------------------------------------------------------
Init == /\ Networks = Empty
        /\ serving = NoValue
        /\ loading = NoValue
        /\ crashed = FALSE
        /\ loads = 0

\* A new instance; file and outside are for the properties.
Instance(networks, file, outside) ==
  [Networks |-> networks, opened |-> {}, checking |-> NoValue, polled |-> {},
   file |-> file, outside |-> outside]

\* One configuration is loaded at a time.
Reading == ~crashed /\ loading = NoValue /\ loads < MaxLoads /\ loads' = loads + 1

\* The process reads a Caddyfile.  What it has read of one it rejects, it keeps.
\* A process that cannot read its first Caddyfile ends.
ParseCaddyfile ==
  \E file \in Files :
    LET read == UnmarshalCaddyfile(Networks, file)
    IN /\ Reading
       /\ Networks' = read.networks
       /\ loading' = IF read.ok THEN Instance(read.networks, file, FALSE) ELSE NoValue
       /\ crashed' = (~read.ok /\ serving = NoValue)
       /\ UNCHANGED serving

\* Another process has read it, with an object of its own.
Reload ==
  \E file \in Files :
    LET read == UnmarshalCaddyfile(Empty, file)
    IN /\ Reading
       /\ serving # NoValue
       /\ read.ok
       /\ loading' = Instance(read.networks, file, TRUE)
       /\ UNCHANGED <<Networks, serving, crashed>>
----------------------------------------------------------------------------
(* Provisioning.                                                           *)

\* The providers of all networks, and those that need sessions.
Providers(nets) == UNION {{n} \X DOMAIN nets[n].Providers : n \in DOMAIN nets}

Authenticated(nets) == {p \in Providers(nets) : nets[p[1]].Providers[p[2]] # NoAuth}

\* Mutant: that a provider has no authentication is overlooked.
UnopenedAny == Providers(loading.Networks) \ loading.opened

Unopened == Authenticated(loading.Networks) \ loading.opened

\* Auth.Start opens the sessions of a provider.  An error, as with no sessions to
\* open, is only logged.
StartAuth ==
  /\ loading # NoValue /\ ~crashed
  /\ \E p \in Unopened : loading' = [loading EXCEPT !.opened = @ \cup {p}]
  /\ UNCHANGED <<Networks, serving, crashed, loads>>

\* Mutant: sessions are awaited where there are none to open.
ReadyWithAll == Providers(loading.Networks) = loading.opened

\* startHealthChecks is called when all sessions have been opened.
Ready == Unopened = {}

\* The first round of a network.  The request to a provider is signed with the
\* first of its sessions, and that there is none is a panic.
FirstRound ==
  /\ loading # NoValue /\ ~crashed
  /\ Ready
  /\ loading.checking = NoValue
  /\ \E n \in DOMAIN loading.Networks \ loading.polled :
       /\ loading' = [loading EXCEPT !.checking = n]
       /\ crashed' = \E h \in DOMAIN loading.Networks[n].Providers :
                        \/ loading.Networks[n].Providers[h] = 0
                        \/ /\ loading.Networks[n].Providers[h] # NoAuth
                           /\ <<n, h>> \notin loading.opened
  /\ UNCHANGED <<Networks, serving, loads>>

\* It ends, and the ticker is made; without an interval that is a panic, too, which
\* ends the process or, in a request to Caddy's admin API, only the load.
StartTicker ==
  /\ loading # NoValue /\ ~crashed
  /\ loading.checking # NoValue
  /\ IF loading.Networks[loading.checking].HCInterval > 0
     THEN /\ loading' = [loading EXCEPT !.checking = NoValue, !.polled = @ \cup {loading.checking}]
          /\ UNCHANGED crashed
     ELSE /\ loading' = NoValue
          /\ crashed' \in {TRUE, serving = NoValue}
  /\ UNCHANGED <<Networks, serving, loads>>

\* Mutant: Caddy is not kept waiting for the first rounds.
CheckedLater == loading.checking = NoValue

Checked == loading.polled = DOMAIN loading.Networks

\* Provision has returned, and the instance takes over.
Serve ==
  /\ loading # NoValue /\ ~crashed
  /\ Ready
  /\ Checked
  /\ serving' = loading
  /\ loading' = NoValue
  /\ UNCHANGED <<Networks, crashed, loads>>

\* Docker starts the process again, from the beginning.
Restart ==
  /\ crashed
  /\ Networks' = Empty
  /\ serving' = NoValue
  /\ loading' = NoValue
  /\ crashed' = FALSE
  /\ UNCHANGED loads

Provision == StartAuth \/ FirstRound \/ StartTicker \/ Serve

Next == ParseCaddyfile \/ Reload \/ Provision \/ Restart

Spec == Init /\ [][Next]_vars

\* Start and the first rounds return, which they do if every request does.
LiveSpec == Spec /\ WF_vars(Provision)
----------------------------------------------------------------------------
(* Properties.                                                             *)

Instances == {i \in {serving, loading} : i # NoValue}

\* An instance opens sessions and polls networks of its own only.
TypeOK ==
  /\ crashed \in BOOLEAN
  /\ loads \in 0..MaxLoads
  /\ \A i \in Instances :
       /\ i.opened \subseteq Authenticated(i.Networks)
       /\ i.polled \subseteq DOMAIN i.Networks
       /\ i.checking \in DOMAIN i.Networks \cup {NoValue}
       /\ \A n \in DOMAIN i.Networks : i.Networks[n].HCInterval \in Int

Named(file) == {file[k].name : k \in DOMAIN file}

\* The block of a network, the last one if there are several.
Block(file, name) ==
  file[CHOOSE k \in DOMAIN file :
         file[k].name = name /\ \A l \in k + 1..Len(file) : file[l].name # name].items

Hosts(items) == {items[k].host : k \in {l \in DOMAIN items : items[l].kind = "provider"}}

\* The last of several items of a kind counts.
LastOf(items, Fits(_)) ==
  LET fitting == {k \in DOMAIN items : Fits(items[k])}
  IN items[CHOOSE k \in fitting : \A l \in fitting : l <= k]

Written(items) ==
  [Providers |-> [h \in Hosts(items) |->
                    LastOf(items, LAMBDA x : x.kind = "provider" /\ x.host = h).sessions],
   HCInterval |-> IF \E k \in DOMAIN items : items[k].kind = "healthcheck_interval"
                  THEN LastOf(items, LAMBDA x : x.kind = "healthcheck_interval").value
                  ELSE DefaultInterval]

\* Each network of the Caddyfile loaded last is served as it is written there,
\* whatever the object that read it has read before and whichever of that was
\* rejected; if another process read it, no other network is served
\* (din_middleware.go:229-237, module.go:17-19).
ServedAsWritten ==
  serving # NoValue =>
    /\ \A n \in Named(serving.file) : /\ n \in DOMAIN serving.Networks
                                      /\ serving.Networks[n] = Written(Block(serving.file, n))
    /\ serving.outside => DOMAIN serving.Networks = Named(serving.file)

\* No network is served that has not been through a round of checks and is not
\* going to be polled, and no request is signed for a provider whose sessions have
\* not been opened, those of networks included that are left over from another
\* Caddyfile.  So an interval that is not positive and a provider without sessions
\* do their harm during a load (din_middleware.go:70-110, 385-391; network.go:62).
ServedReady ==
  serving # NoValue =>
    /\ serving.polled = DOMAIN serving.Networks
    /\ serving.opened = Authenticated(serving.Networks)
    /\ \A n \in DOMAIN serving.Networks :
         LET net == serving.Networks[n]
         IN net.HCInterval > 0 /\ \A h \in DOMAIN net.Providers : net.Providers[h] # 0

\* Provisioning ends: the instance takes over, or the load fails or ends the process.
LoadEnds == loading # NoValue ~> loading = NoValue \/ crashed
----------------------------------------------------------------------------
(* What the code says of itself and does not do.                           *)

\* din_middleware.go:376: "expected at least one provider for network".
NetworksHaveProviders ==
  serving # NoValue => \A n \in DOMAIN serving.Networks : serving.Networks[n].Providers # Empty
=============================================================================
