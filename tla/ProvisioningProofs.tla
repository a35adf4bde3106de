------------------------- MODULE ProvisioningProofs -------------------------
(***************************************************************************)
(* Theorems about Provisioning, for all Caddyfiles, of any number of       *)
(* blocks and items, and every number of loads.                            *)
(***************************************************************************)
EXTENDS Provisioning, TLAPS

----------------------------------------------------------------------------
(* The two loops of UnmarshalCaddyfile.                                    *)

\* A turn of the loop over the blocks; what it has for a parameter does not matter.
ParseTurn(any, read, block) == ParseBlock(read, block)

Items == INSTANCE FoldProofs WITH Turn <- ParseItem
Blocks == INSTANCE FoldProofs WITH Turn <- ParseTurn

\* Reading a block goes through its items.
LEMMA ItemsRead ==
  ASSUME NEW name, NEW base, NEW items, NEW n \in Nat, DOMAIN items = 1..n
  PROVE  \E r : /\ r[0] = base
                /\ \A k \in 1..n : r[k] = ParseItem(name, r[k - 1], items[k])
                /\ r[n] = ParseItems(name, base, items)
<1>1. Items!Folded(name, base, items, ParseItems(name, base, items))
  BY DEF Items!Folded, Items!FoldLeft, Items!MapThenFoldSet, Items!Max,
         ParseItems, FoldLeft, MapThenFoldSet, Max
<1>. QED BY <1>1, Items!FoldSteps

\* Reading a Caddyfile goes through its blocks.
LEMMA BlocksRead ==
  ASSUME NEW nets, NEW file, NEW n \in Nat, DOMAIN file = 1..n
  PROVE  \E r : /\ r[0] = [networks |-> nets, ok |-> TRUE]
                /\ \A k \in 1..n : r[k] = ParseBlock(r[k - 1], file[k])
                /\ r[n] = UnmarshalCaddyfile(nets, file)
<1>. DEFINE base == [networks |-> nets, ok |-> TRUE]
<1>1. Blocks!Folded(nets, base, file, UnmarshalCaddyfile(nets, file))
  BY DEF Blocks!Folded, Blocks!FoldLeft, Blocks!MapThenFoldSet, Blocks!Max, ParseTurn,
         UnmarshalCaddyfile, FoldLeft, MapThenFoldSet, Max
<1>2. PICK r : /\ r[0] = base
               /\ \A k \in 1..n : r[k] = ParseTurn(nets, r[k - 1], file[k])
               /\ r[n] = UnmarshalCaddyfile(nets, file)
  BY <1>1, Blocks!FoldSteps
<1>3. ASSUME NEW k \in 1..n
      PROVE  r[k] = ParseBlock(r[k - 1], file[k])
  BY <1>2 DEF ParseTurn
<1>. QED BY <1>2, <1>3
----------------------------------------------------------------------------
(* What has been read of a block.                                          *)

IsProvider(items, l) == items[l].kind = "provider"
IsInterval(items, l) == items[l].kind = "healthcheck_interval"

\* A network as a record of a function and a number.
Formed(net) ==
  /\ net = [Providers |-> net.Providers, HCInterval |-> net.HCInterval]
  /\ net.Providers = [h \in DOMAIN net.Providers |-> net.Providers[h]]

\* Of the first k items of a block the last of each kind counts.
ProvidersTo(net, items, k) ==
  /\ \A h : h \in DOMAIN net.Providers
            <=> \E l \in 1..k : IsProvider(items, l) /\ items[l].host = h
  /\ \A l \in 1..k :
       (/\ IsProvider(items, l)
        /\ \A m \in l + 1..k : ~(IsProvider(items, m) /\ items[m].host = items[l].host))
       => net.Providers[items[l].host] = items[l].sessions

IntervalTo(net, items, k) ==
  /\ (\A l \in 1..k : ~IsInterval(items, l)) => net.HCInterval = DefaultInterval
  /\ \A l \in 1..k :
       (IsInterval(items, l) /\ \A m \in l + 1..k : ~IsInterval(items, m))
       => net.HCInterval = items[l].value

ReadTo(net, items, k) ==
  Formed(net) /\ ProvidersTo(net, items, k) /\ IntervalTo(net, items, k)

LEMMA NothingRead ==
  ASSUME NEW items
  PROVE  ReadTo(NewNetwork, items, 0)
BY DEF ReadTo, Formed, ProvidersTo, IntervalTo, NewNetwork, Empty

LEMMA ItemRead ==
  ASSUME NEW net, NEW items, NEW k \in Nat, ReadTo(net, items, k),
         IsProvider(items, k + 1) \/ IsInterval(items, k + 1)
  PROVE  ReadTo(Item(net, items[k + 1]), items, k + 1)
<1>. DEFINE item == items[k + 1]
            new == Item(net, item)
<1>. SUFFICES ReadTo(new, items, k + 1)
  OBVIOUS
<1>1. CASE IsProvider(items, k + 1)
  <2>. DEFINE P == Put(net.Providers, item.host, item.sessions)
  <2>1. new = [Providers |-> P, HCInterval |-> net.HCInterval]
    BY <1>1 DEF Item, ReadTo, Formed, IsProvider
  <2>2. P = [h \in {item.host} \cup DOMAIN net.Providers |->
               IF h = item.host THEN item.sessions ELSE net.Providers[h]]
    BY DEF Put
  <2>. HIDE DEF P
  <2>3. new.Providers = P /\ new.HCInterval = net.HCInterval /\ Formed(new)
    BY <2>1, <2>2 DEF Formed
  <2>. HIDE DEF new
  <2>4. ASSUME NEW h
        PROVE  h \in DOMAIN P <=> \E l \in 1..k + 1 : IsProvider(items, l) /\ items[l].host = h
    BY <1>1, <2>2 DEF ReadTo, ProvidersTo
  <2>5. ASSUME NEW l \in 1..k + 1, IsProvider(items, l),
               \A m \in l + 1..k + 1 : ~(IsProvider(items, m) /\ items[m].host = items[l].host)
        PROVE  P[items[l].host] = items[l].sessions
    <3>1. CASE l = k + 1
      BY <2>2, <3>1
    <3>2. CASE l # k + 1
      <4>1. l \in 1..k /\ k + 1 \in l + 1..k + 1
        BY <3>2
      <4>2. items[l].host # item.host
        BY <1>1, <2>5, <4>1
      <4>3. net.Providers[items[l].host] = items[l].sessions /\ items[l].host \in DOMAIN net.Providers
        <5>1. \A m \in l + 1..k : m \in l + 1..k + 1
          OBVIOUS
        <5>. QED BY <2>5, <4>1, <5>1 DEF ReadTo, ProvidersTo
      <4>. QED BY <2>2, <4>2, <4>3
    <3>. QED BY <3>1, <3>2
  <2>6. IntervalTo(new, items, k + 1)
    <3>1. ~IsInterval(items, k + 1)
      BY <1>1 DEF IsProvider, IsInterval
    <3>2. \A l \in 1..k + 1 : IsInterval(items, l) => l \in 1..k
      BY <3>1
    <3>. QED BY <2>3, <3>2 DEF ReadTo, IntervalTo
  <2>. QED BY <2>3, <2>4, <2>5, <2>6 DEF ReadTo, ProvidersTo
<1>2. CASE IsInterval(items, k + 1)
  <2>1. new = [Providers |-> net.Providers, HCInterval |-> item.value]
    BY <1>2 DEF Item, ReadTo, Formed, IsInterval
  <2>2. new.Providers = net.Providers /\ new.HCInterval = item.value /\ Formed(new)
    BY <2>1 DEF ReadTo, Formed
  <2>. HIDE DEF new
  <2>3. ProvidersTo(new, items, k + 1)
    <3>1. ~IsProvider(items, k + 1)
      BY <1>2 DEF IsProvider, IsInterval
    <3>2. \A l \in 1..k + 1 : IsProvider(items, l) => l \in 1..k
      BY <3>1
    <3>3. \A l \in 1..k : l \in 1..k + 1 /\ \A m \in l + 1..k : m \in l + 1..k + 1
      OBVIOUS
    <3>. QED BY <2>2, <3>2, <3>3 DEF ReadTo, ProvidersTo
  <2>4. IntervalTo(new, items, k + 1)
    <3>1. \A l \in 1..k + 1 :
            (\A m \in l + 1..k + 1 : ~IsInterval(items, m)) => l = k + 1
      BY <1>2
    <3>. QED BY <1>2, <2>2, <3>1 DEF IntervalTo
  <2>. QED BY <2>2, <2>3, <2>4 DEF ReadTo
<1>. QED BY <1>1, <1>2
\* Of a block that has been read to its end, all is as written.
LEMMA AllRead ==
  ASSUME NEW net, NEW items, NEW n \in Nat, DOMAIN items = 1..n, ReadTo(net, items, n)
  PROVE  net = Written(items)
<1>1. DOMAIN net.Providers = Hosts(items)
  BY DEF ReadTo, ProvidersTo, Hosts, IsProvider
<1>2. ASSUME NEW h \in Hosts(items)
      PROVE  LastOf(items, LAMBDA x : x.kind = "provider" /\ x.host = h).sessions = net.Providers[h]
  <2>. DEFINE F == {k \in DOMAIN items : items[k].kind = "provider" /\ items[k].host = h}
  <2>1. F \subseteq 1..n /\ F # {}
    BY DEF Hosts
  <2>2. PICK k \in F : \A l \in F : l <= k
    BY <2>1, Items!LastOfSome
  <2>3. \A j \in F : (\A l \in F : l <= j) => j = k
    BY <2>1, <2>2
  <2>4. LastOf(items, LAMBDA x : x.kind = "provider" /\ x.host = h) = items[k]
    BY <2>2, <2>3 DEF LastOf
  <2>5. k \in 1..n /\ IsProvider(items, k) /\ items[k].host = h
    BY <2>2 DEF IsProvider
  <2>6. \A m \in k + 1..n : ~(IsProvider(items, m) /\ items[m].host = items[k].host)
    <3>1. SUFFICES ASSUME NEW m \in k + 1..n, m \in F PROVE FALSE
      BY <2>5 DEF IsProvider
    <3>. QED BY <2>2, <2>5, <3>1
  <2>7. net.Providers[h] = items[k].sessions
    BY <2>5, <2>6 DEF ReadTo, ProvidersTo
  <2>. QED BY <2>4, <2>7
<1>3. ASSUME \E k \in DOMAIN items : items[k].kind = "healthcheck_interval"
      PROVE  LastOf(items, LAMBDA x : x.kind = "healthcheck_interval").value = net.HCInterval
  <2>. DEFINE F == {k \in DOMAIN items : items[k].kind = "healthcheck_interval"}
  <2>1. F \subseteq 1..n /\ F # {}
    BY <1>3
  <2>2. PICK k \in F : \A l \in F : l <= k
    BY <2>1, Items!LastOfSome
  <2>3. \A j \in F : (\A l \in F : l <= j) => j = k
    BY <2>1, <2>2
  <2>4. LastOf(items, LAMBDA x : x.kind = "healthcheck_interval") = items[k]
    BY <2>2, <2>3 DEF LastOf
  <2>5. k \in 1..n /\ IsInterval(items, k)
    BY <2>2 DEF IsInterval
  <2>6. \A m \in k + 1..n : ~IsInterval(items, m)
    <3>1. SUFFICES ASSUME NEW m \in k + 1..n, m \in F PROVE FALSE
      BY <2>5 DEF IsInterval
    <3>. QED BY <2>2, <2>5, <3>1
  <2>7. net.HCInterval = items[k].value
    BY <2>5, <2>6 DEF ReadTo, IntervalTo
  <2>. QED BY <2>4, <2>7
<1>4. (\A k \in DOMAIN items : items[k].kind # "healthcheck_interval")
      => net.HCInterval = DefaultInterval
  BY DEF ReadTo, IntervalTo, IsInterval
<1>. DEFINE P == [h \in Hosts(items) |->
                    LastOf(items, LAMBDA x : x.kind = "provider" /\ x.host = h).sessions]
            I == IF \E k \in DOMAIN items : items[k].kind = "healthcheck_interval"
                 THEN LastOf(items, LAMBDA x : x.kind = "healthcheck_interval").value
                 ELSE DefaultInterval
<1>5. Written(items) = [Providers |-> P, HCInterval |-> I]
  BY DEF Written
<1>6. net.Providers = P
  BY <1>1, <1>2 DEF ReadTo, Formed
<1>7. net.HCInterval = I
  BY <1>3, <1>4
<1>. HIDE DEF P, I
<1>. QED BY <1>5, <1>6, <1>7 DEF ReadTo, Formed

\* The items of a block, read so far.
ItemsTo(nets, name, items, k, read) ==
  /\ read = [networks |-> read.networks, ok |-> read.ok]
  /\ read.ok \in BOOLEAN
  /\ read.networks = [m \in DOMAIN nets \cup {name} |-> read.networks[m]]
  /\ \A m \in DOMAIN nets \ {name} : read.networks[m] = nets[m]
  /\ read.networks[name].HCInterval \in Int
  /\ read.ok => ReadTo(read.networks[name], items, k)

LEMMA ItemParsed ==
  ASSUME NEW nets, NEW name, NEW items, NEW k \in Nat, NEW read,
         ItemsTo(nets, name, items, k, read),
         items[k + 1].kind \in ItemKinds,
         items[k + 1].kind = "healthcheck_interval" => items[k + 1].value \in Int
  PROVE  ItemsTo(nets, name, items, k + 1, ParseItem(name, read, items[k + 1]))
<1>. DEFINE item == items[k + 1]
            old == read.networks[name]
<1>1. CASE ~read.ok
  BY <1>1 DEF ParseItem, ItemsTo
<1>2. CASE read.ok /\ item.kind = "bad"
  <2>1. ParseItem(name, read, item) = [networks |-> read.networks, ok |-> FALSE]
    BY <1>2 DEF ParseItem, ItemsTo
  <2>. QED BY <2>1 DEF ItemsTo
<1>3. CASE read.ok /\ item.kind # "bad"
  <2>1. ReadTo(Item(old, item), items, k + 1)
    BY <1>3, ItemRead DEF ItemsTo, ItemKinds, IsProvider, IsInterval
  <2>2. Item(old, item).HCInterval \in Int
    <3>1. Formed(old) /\ old.HCInterval \in Int
      BY <1>3 DEF ItemsTo, ReadTo
    <3>2. CASE item.kind = "provider"
      <4>1. Item(old, item) = [old EXCEPT !.Providers = Put(@, item.host, item.sessions)]
        BY <3>2 DEF Item
      <4>. QED BY <3>1, <4>1 DEF Formed
    <3>3. CASE item.kind = "healthcheck_interval"
      <4>1. Item(old, item) = [old EXCEPT !.HCInterval = item.value]
        BY <3>3 DEF Item
      <4>. QED BY <3>1, <3>3, <4>1 DEF Formed
    <3>. QED BY <1>3, <3>2, <3>3 DEF ItemKinds
  <2>. DEFINE N == [m \in DOMAIN nets \cup {name} |->
                      IF m = name THEN Item(old, item) ELSE read.networks[m]]
  <2>3. ParseItem(name, read, item) = [networks |-> N, ok |-> TRUE]
    <3>1. ParseItem(name, read, item) = [read EXCEPT !.networks[name] = Item(@, item)]
      BY <1>3 DEF ParseItem
    <3>2. [read.networks EXCEPT ![name] = Item(old, item)] = N
      BY DEF ItemsTo
    <3>. QED BY <1>3, <3>1, <3>2 DEF ItemsTo
  <2>4. /\ N = [m \in DOMAIN nets \cup {name} |-> N[m]]
        /\ N[name] = Item(old, item)
        /\ \A m \in DOMAIN nets \ {name} : N[m] = nets[m]
    BY DEF ItemsTo
  <2>. HIDE DEF N
  <2>. QED BY <2>1, <2>2, <2>3, <2>4 DEF ItemsTo
<1>. QED BY <1>1, <1>2, <1>3 DEF ItemsTo
----------------------------------------------------------------------------
(* What has been read of a Caddyfile.                                      *)

Intervals(nets) == \A n \in DOMAIN nets : nets[n].HCInterval \in Int

\* A map of networks as the object that parses keeps it.
IsMap(nets) == nets = [n \in DOMAIN nets |-> nets[n]] /\ Intervals(nets)

\* The blocks of a Caddyfile, read so far: of those of one network the last counts.
BlocksTo(nets, file, k, read) ==
  /\ read = [networks |-> read.networks, ok |-> read.ok]
  /\ read.ok \in BOOLEAN
  /\ IsMap(read.networks)
  /\ read.ok =>
       /\ \A m : m \in DOMAIN read.networks
                <=> m \in DOMAIN nets \/ \E l \in 1..k : file[l].name = m
       /\ \A l \in 1..k : (\A j \in l + 1..k : file[j].name # file[l].name)
                         => read.networks[file[l].name] = Written(file[l].items)

\* A block that has been read is as written, and touches no other network.
LEMMA BlockRead ==
  ASSUME NEW nets, IsMap(nets), NEW name, NEW items, items \in Seq(Range(items)),
         \A l \in DOMAIN items :
           /\ items[l].kind \in ItemKinds
           /\ items[l].kind = "healthcheck_interval" => items[l].value \in Int,
         NEW base, base = [networks |-> Open(nets, name), ok |-> TRUE],
         NEW read, read = ParseItems(name, base, items)
  PROVE  /\ ItemsTo(nets, name, items, Len(items), read)
         /\ read.ok => read.networks[name] = Written(items)
<1>. DEFINE n == Len(items)
<1>1. n \in Nat /\ DOMAIN items = 1..n
  OBVIOUS
<1>. HIDE DEF n
<1>2. PICK r : /\ r[0] = base
               /\ \A k \in 1..n : r[k] = ParseItem(name, r[k - 1], items[k])
               /\ r[n] = read
  BY <1>1, ItemsRead
<1>. DEFINE S == {k \in 0..n : ItemsTo(nets, name, items, k, r[k])}
<1>3. 0 \in S
  <2>1. Open(nets, name) = [m \in DOMAIN nets \cup {name} |->
                              IF m = name THEN NewNetwork ELSE nets[m]]
    BY DEF Open, Put
  <2>2. NewNetwork.HCInterval \in Int
    BY ProvisioningAssumption DEF NewNetwork
  <2>3. ItemsTo(nets, name, items, 0, base)
    BY <2>1, <2>2, NothingRead DEF ItemsTo
  <2>. QED BY <1>1, <1>2, <2>3
<1>4. ASSUME NEW k \in 0..n - 1, k \in S
      PROVE  k + 1 \in S
  <2>1. k + 1 \in 1..n /\ k + 1 \in 0..n /\ k \in Nat /\ k + 1 - 1 = k
    BY <1>1
  <2>2. r[k + 1] = ParseItem(name, r[k], items[k + 1])
    BY <1>2, <2>1
  <2>3. ItemsTo(nets, name, items, k, r[k])
    BY <1>4
  <2>4. ItemsTo(nets, name, items, k + 1, ParseItem(name, r[k], items[k + 1]))
    BY <1>1, <2>1, <2>3, ItemParsed
  <2>. QED BY <2>1, <2>2, <2>4
<1>5. n \in S
  <2>. HIDE DEF S
  <2>1. 0..n \subseteq S
    BY <1>1, <1>3, <1>4, Items!IntervalInduction
  <2>. QED BY <1>1, <2>1
<1>6. ItemsTo(nets, name, items, n, read)
  BY <1>2, <1>5
<1>7. read.ok => read.networks[name] = Written(items)
  BY <1>1, <1>6, AllRead DEF ItemsTo
<1>. QED BY <1>6, <1>7 DEF n

LEMMA BlockParsed ==
  ASSUME NEW nets, NEW file, NEW k \in Nat, NEW read,
         BlocksTo(nets, file, k, read),
         LET items == file[k + 1].items
         IN /\ items \in Seq(Range(items))
            /\ \A l \in DOMAIN items :
                 /\ items[l].kind \in ItemKinds
                 /\ items[l].kind = "healthcheck_interval" => items[l].value \in Int
  PROVE  BlocksTo(nets, file, k + 1, ParseBlock(read, file[k + 1]))
<1>. DEFINE name == file[k + 1].name
            items == file[k + 1].items
            base == [networks |-> Open(read.networks, name), ok |-> TRUE]
            new == ParseItems(name, base, items)
<1>1. CASE ~read.ok
  BY <1>1 DEF ParseBlock, BlocksTo
<1>2. CASE read.ok
  <2>1. [read EXCEPT !.networks = Open(@, name)] = base
    <3>1. read.ok = TRUE
      BY <1>2 DEF BlocksTo
    <3>2. [read EXCEPT !.networks = Open(@, name)] = [networks |-> Open(read.networks, name),
                                                      ok |-> read.ok]
      BY DEF BlocksTo
    <3>. QED BY <3>1, <3>2
  <2>. DEFINE ok == new.ok /\ new.networks[name].Providers # Empty
  <2>2. ParseBlock(read, file[k + 1]) = [new EXCEPT !.ok = @ /\ new.networks[name].Providers # Empty]
    BY <1>2, <2>1 DEF ParseBlock
  <2>3. /\ ItemsTo(read.networks, name, items, Len(items), new)
        /\ new.ok => new.networks[name] = Written(items)
    <3>. HIDE DEF base, items, name
    <3>. QED BY BlockRead DEF BlocksTo, base, items
  <2>. HIDE DEF new
  <2>4. ParseBlock(read, file[k + 1]) = [networks |-> new.networks, ok |-> ok]
    BY <2>2, <2>3 DEF ItemsTo
  <2>5. /\ DOMAIN new.networks = DOMAIN read.networks \cup {name}
        /\ new.networks = [m \in DOMAIN new.networks |-> new.networks[m]]
        /\ \A m \in DOMAIN read.networks \ {name} : new.networks[m] = read.networks[m]
        /\ new.networks[name].HCInterval \in Int
        /\ ok => new.networks[name] = Written(items)
        /\ ok \in BOOLEAN
    BY <2>3 DEF ItemsTo
  <2>. HIDE DEF ok
  <2>6. IsMap(new.networks)
    BY <2>5 DEF IsMap, Intervals, BlocksTo
  <2>7. ASSUME NEW m
        PROVE  m \in DOMAIN new.networks
               <=> m \in DOMAIN nets \/ \E l \in 1..k + 1 : file[l].name = m
    BY <1>2, <2>5 DEF BlocksTo
  <2>8. ASSUME ok, NEW l \in 1..k + 1, \A j \in l + 1..k + 1 : file[j].name # file[l].name
        PROVE  new.networks[file[l].name] = Written(file[l].items)
    <3>1. CASE l = k + 1
      BY <2>5, <2>8, <3>1
    <3>2. CASE l # k + 1
      <4>1. l \in 1..k /\ k + 1 \in l + 1..k + 1 /\ \A j \in l + 1..k : j \in l + 1..k + 1
        BY <3>2
      <4>2. file[l].name # name
        BY <2>8, <4>1
      <4>3. /\ read.networks[file[l].name] = Written(file[l].items)
            /\ file[l].name \in DOMAIN read.networks
        BY <1>2, <2>8, <4>1 DEF BlocksTo
      <4>. QED BY <2>5, <4>2, <4>3
    <3>. QED BY <3>1, <3>2
  <2>. QED BY <2>4, <2>5, <2>6, <2>7, <2>8 DEF BlocksTo
<1>. QED BY <1>1, <1>2 DEF BlocksTo

\* The whole Caddyfile.
LEMMA FileRead ==
  ASSUME NEW nets, IsMap(nets), NEW file \in Files
  PROVE  BlocksTo(nets, file, Len(file), UnmarshalCaddyfile(nets, file))
<1>. DEFINE n == Len(file)
            all == UnmarshalCaddyfile(nets, file)
<1>1. /\ file \in Seq(Range(file))
      /\ \A k \in DOMAIN file : LET items == file[k].items
                               IN /\ items \in Seq(Range(items))
                                  /\ \A l \in DOMAIN items :
                                       /\ items[l].kind \in ItemKinds
                                       /\ items[l].kind = "healthcheck_interval"
                                            => items[l].value \in Int
  BY ProvisioningAssumption DEF IsFile, Range
<1>2. n \in Nat /\ DOMAIN file = 1..n
  BY <1>1
<1>. HIDE DEF n
<1>3. PICK r : /\ r[0] = [networks |-> nets, ok |-> TRUE]
               /\ \A k \in 1..n : r[k] = ParseBlock(r[k - 1], file[k])
               /\ r[n] = all
  BY <1>2, BlocksRead
<1>. DEFINE S == {k \in 0..n : BlocksTo(nets, file, k, r[k])}
<1>. HIDE DEF all
<1>4. 0 \in S
  <2>1. BlocksTo(nets, file, 0, [networks |-> nets, ok |-> TRUE])
    BY DEF BlocksTo
  <2>. QED BY <1>2, <1>3, <2>1
<1>5. ASSUME NEW k \in 0..n - 1, k \in S
      PROVE  k + 1 \in S
  <2>1. k + 1 \in 1..n /\ k + 1 \in 0..n /\ k \in Nat /\ k + 1 - 1 = k
    BY <1>2
  <2>2. r[k + 1] = ParseBlock(r[k], file[k + 1])
    BY <1>3, <2>1
  <2>3. BlocksTo(nets, file, k, r[k])
    BY <1>5
  <2>4. BlocksTo(nets, file, k + 1, ParseBlock(r[k], file[k + 1]))
    BY <1>1, <1>2, <2>1, <2>3, BlockParsed
  <2>. QED BY <2>1, <2>2, <2>4
<1>6. n \in S
  <2>. HIDE DEF S
  <2>1. 0..n \subseteq S
    BY <1>2, <1>4, <1>5, Blocks!IntervalInduction
  <2>. QED BY <1>2, <2>1
<1>. QED BY <1>3, <1>6 DEF n, all
\* The networks of an instance include those of its Caddyfile, as written there.
AsFile(i) ==
  /\ \A n \in Named(i.file) : n \in DOMAIN i.Networks /\ i.Networks[n] = Written(Block(i.file, n))
  /\ i.outside => DOMAIN i.Networks = Named(i.file)

\* A Caddyfile that is accepted makes an instance with the networks written in it,
\* whatever networks there were before.
LEMMA AcceptedAsWritten ==
  ASSUME NEW nets, IsMap(nets), NEW file \in Files, NEW outside, outside => nets = Empty,
         NEW read, read = UnmarshalCaddyfile(nets, file), read.ok
  PROVE  AsFile(Instance(read.networks, file, outside))
<1>. DEFINE n == Len(file)
            i == Instance(read.networks, file, outside)
<1>1. i.Networks = read.networks /\ i.file = file /\ i.outside = outside
  BY DEF Instance
<1>. SUFFICES AsFile(i)
  OBVIOUS
<1>. HIDE DEF i
<1>2. n \in Nat /\ DOMAIN file = 1..n
  BY ProvisioningAssumption DEF IsFile
<1>3. BlocksTo(nets, file, n, read)
  BY FileRead
<1>4. ASSUME NEW m \in Named(file)
      PROVE  m \in DOMAIN read.networks /\ read.networks[m] = Written(Block(file, m))
  <2>. DEFINE F == {k \in 1..n : file[k].name = m}
  <2>1. F \subseteq 1..n /\ F # {}
    BY <1>2 DEF Named
  <2>2. PICK k \in F : \A l \in F : l <= k
    BY <1>2, <2>1, Blocks!LastOfSome
  <2>3. k \in 1..n /\ file[k].name = m
    BY <2>2
  <2>4. \A j \in k + 1..n : file[j].name # m
    <3>. SUFFICES ASSUME NEW j \in k + 1..n, file[j].name = m PROVE FALSE
      OBVIOUS
    <3>1. j \in F /\ ~(j <= k)
      BY <1>2, <2>3
    <3>. QED BY <2>2, <3>1
  <2>5. \A l \in DOMAIN file :
          (file[l].name = m /\ \A j \in l + 1..Len(file) : file[j].name # m) => l = k
    <3>. SUFFICES ASSUME NEW l \in 1..n, file[l].name = m, \A j \in l + 1..n : file[j].name # m
                  PROVE  l = k
      BY <1>2
    <3>1. l <= k
      BY <2>2
    <3>2. ~(l < k)
      <4>1. l < k => k \in l + 1..n
        BY <1>2, <2>3
      <4>. QED BY <2>3, <4>1
    <3>. QED BY <1>2, <2>3, <3>1, <3>2
  <2>6. Block(file, m) = file[k].items
    BY <1>2, <2>3, <2>4, <2>5 DEF Block
  <2>7. read.networks[file[k].name] = Written(file[k].items)
    BY <1>3, <2>3, <2>4 DEF BlocksTo
  <2>8. m \in DOMAIN read.networks
    BY <1>3, <2>3 DEF BlocksTo
  <2>. QED BY <2>3, <2>6, <2>7, <2>8
<1>5. outside => DOMAIN read.networks = Named(file)
  <2>1. DOMAIN Empty = {}
    BY DEF Empty
  <2>. QED BY <1>2, <1>3, <2>1 DEF BlocksTo, Named
<1>. QED BY <1>1, <1>4, <1>5 DEF AsFile
----------------------------------------------------------------------------
(* The inductive invariant.                                                *)

\* A network whose first round ends well and whose ticker can be made.
NoneWithout(net) == \A h \in DOMAIN net.Providers : net.Providers[h] # 0

Sound(net) == net.HCInterval > 0 /\ NoneWithout(net)

\* A record with the fields of an instance.
Shaped(i) == i = [Networks |-> i.Networks, opened |-> i.opened, checking |-> i.checking,
                  polled |-> i.polled, file |-> i.file, outside |-> i.outside]

\* An instance has the networks of its Caddyfile; it opens sessions only where there
\* are any to open, and checks and polls only networks of its own.
Own(i) ==
  /\ i.opened \subseteq Authenticated(i.Networks)
  /\ i.polled \subseteq DOMAIN i.Networks
  /\ i.checking \in DOMAIN i.Networks \cup {NoValue}
  /\ Intervals(i.Networks)
  /\ AsFile(i)

\* It has polled only sound networks; the one it is checking has its sessions.
Progress(i) ==
  /\ \A n \in i.polled : Sound(i.Networks[n])
  /\ i.checking # NoValue => NoneWithout(i.Networks[i.checking])

\* The inductive invariant: the instance being loaded is on its way to ServedReady.
IInv ==
  /\ crashed \in BOOLEAN
  /\ loads \in 0..MaxLoads
  /\ IsMap(Networks)
  /\ loading # NoValue => Shaped(loading) /\ Own(loading)
  /\ (loading # NoValue /\ ~crashed) => Progress(loading)
  /\ serving # NoValue => Own(serving)
  /\ ServedReady
----------------------------------------------------------------------------
(* It is preserved.                                                        *)

\* Nothing has been opened or polled by an instance that has just been made of a
\* Caddyfile that was accepted.
LEMMA NewInstance ==
  ASSUME NEW nets, IsMap(nets), NEW file \in Files, NEW outside, outside => nets = Empty,
         NEW read, read = UnmarshalCaddyfile(nets, file), read.ok,
         NEW i, i = Instance(read.networks, file, outside)
  PROVE  Shaped(i) /\ Own(i) /\ Progress(i)
<1>1. AsFile(i)
  BY AcceptedAsWritten
<1>2. Intervals(read.networks)
  BY FileRead DEF BlocksTo, IsMap
<1>3. Shaped(i) /\ Progress(i) /\ i.Networks = read.networks
  BY DEF Instance, Shaped, Progress
<1>4. i.opened = {} /\ i.polled = {} /\ i.checking = NoValue
  BY DEF Instance
<1>. QED BY <1>1, <1>2, <1>3, <1>4 DEF Own

\* The inductive invariant holds initially.
LEMMA InitIInv == Init => IInv
<1>1. IsMap(Empty)
  BY DEF IsMap, Intervals, Empty
<1>2. MaxLoads \in Nat
  BY ProvisioningAssumption
<1>. SUFFICES ASSUME Init PROVE IInv
  OBVIOUS
<1>3. IsMap(Networks) /\ loads \in 0..MaxLoads /\ crashed \in BOOLEAN
  <2>1. Networks = Empty /\ loads = 0 /\ (crashed <=> FALSE) /\ crashed \in BOOLEAN
    BY DEF Init
  <2>2. IsMap(Networks)
    BY <1>1, <2>1
  <2>. QED BY <1>2, <2>1, <2>2
<1>4. ServedReady /\ loading = NoValue /\ serving = NoValue
  BY DEF Init, ServedReady
<1>. QED BY <1>3, <1>4 DEF IInv

\* What has to be shown of a step.
LEMMA Kept ==
  ASSUME crashed' \in BOOLEAN, loads' \in 0..MaxLoads, IsMap(Networks'),
         loading' # NoValue => Shaped(loading') /\ Own(loading'),
         (loading' # NoValue /\ ~crashed') => Progress(loading'),
         serving' # NoValue => Own(serving'),
         ServedReady'
  PROVE  IInv'
BY DEF IInv, Shaped, Own, Progress, IsMap, Intervals, AsFile

\* A step of Provision does not read, and all but the last leave what is served.
LEMMA ProvisionKept ==
  ASSUME IInv, UNCHANGED <<Networks, loads>>
  PROVE  /\ loads' \in 0..MaxLoads
         /\ IsMap(Networks')
         /\ serving' = serving => ServedReady' /\ (serving' # NoValue => Own(serving'))
<1>1. serving' = serving => ServedReady'
  BY DEF IInv, ServedReady
<1>. QED BY <1>1 DEF IInv

\* Reading a Caddyfile makes a new instance, or none.
LEMMA ReadingKeeps ==
  ASSUME IInv, ParseCaddyfile \/ Reload
  PROVE  IInv'
<1>1. loads' \in 0..MaxLoads
  <2>1. loads < MaxLoads /\ loads' = loads + 1
    BY DEF ParseCaddyfile, Reload, Reading
  <2>2. MaxLoads \in Nat /\ loads \in 0..MaxLoads
    BY ProvisioningAssumption DEF IInv
  <2>. QED BY <2>1, <2>2
<1>2. CASE ParseCaddyfile
  <2>1. PICK file \in Files :
          LET read == UnmarshalCaddyfile(Networks, file)
          IN /\ Networks' = read.networks
             /\ loading' = IF read.ok THEN Instance(read.networks, file, FALSE) ELSE NoValue
             /\ crashed' = (~read.ok /\ serving = NoValue)
             /\ serving' = serving
    BY <1>2 DEF ParseCaddyfile
  <2>. DEFINE read == UnmarshalCaddyfile(Networks, file)
  <2>2. loading' # NoValue => read.ok /\ loading' = Instance(read.networks, file, FALSE)
    BY <2>1
  <2>3. crashed' \in BOOLEAN
    BY <2>1
  <2>4. ServedReady' /\ (serving' # NoValue => Own(serving'))
    BY <2>1 DEF IInv, ServedReady
  <2>5. IsMap(Networks')
    BY <2>1, FileRead DEF IInv, BlocksTo
  <2>6. loading' # NoValue => Shaped(loading') /\ Own(loading') /\ Progress(loading')
    BY <2>2, NewInstance DEF IInv
  <2>. QED BY <1>1, <2>3, <2>4, <2>5, <2>6, Kept
<1>3. CASE Reload
  <2>1. PICK file \in Files :
          /\ UnmarshalCaddyfile(Empty, file).ok
          /\ loading' = Instance(UnmarshalCaddyfile(Empty, file).networks, file, TRUE)
          /\ UNCHANGED <<Networks, serving, crashed>>
    BY <1>3 DEF Reload
  <2>2. Shaped(loading') /\ Own(loading') /\ Progress(loading')
    <3>1. IsMap(Empty)
      BY DEF IsMap, Intervals, Empty
    <3>. QED BY <2>1, <3>1, NewInstance
  <2>3. ServedReady' /\ (serving' # NoValue => Own(serving'))
    BY <2>1 DEF IInv, ServedReady
  <2>4. crashed' \in BOOLEAN /\ IsMap(Networks')
    BY <2>1 DEF IInv
  <2>. QED BY <1>1, <2>2, <2>3, <2>4, Kept
<1>. QED
  BY <1>2, <1>3

\* A step of Auth.Start opens sessions that there are to open.
LEMMA StartAuthKeeps ==
  ASSUME IInv, StartAuth
  PROVE  IInv'
<1>1. PICK p \in Unopened : loading' = [loading EXCEPT !.opened = @ \cup {p}]
  BY DEF StartAuth
<1>2. loading # NoValue /\ ~crashed /\ UNCHANGED <<Networks, serving, crashed, loads>>
  BY DEF StartAuth
<1>3. Shaped(loading) /\ Own(loading) /\ Progress(loading)
  BY <1>2 DEF IInv
<1>4. loading' = [Networks |-> loading.Networks, opened |-> loading.opened \cup {p},
                  checking |-> loading.checking, polled |-> loading.polled,
                  file |-> loading.file, outside |-> loading.outside]
  BY <1>1, <1>3 DEF Shaped
<1>5. Shaped(loading') /\ Own(loading') /\ Progress(loading')
  BY <1>3, <1>4 DEF Shaped, Own, Progress, Unopened, AsFile
<1>6. crashed' \in BOOLEAN
  BY <1>2 DEF IInv
<1>. QED BY <1>2, <1>5, <1>6, ProvisionKept, Kept

\* A first round that does not end the process found all sessions it needed.
LEMMA FirstRoundKeeps ==
  ASSUME IInv, FirstRound
  PROVE  IInv'
<1>1. PICK n \in DOMAIN loading.Networks \ loading.polled :
        /\ loading' = [loading EXCEPT !.checking = n]
        /\ crashed' = \E h \in DOMAIN loading.Networks[n].Providers :
                         \/ loading.Networks[n].Providers[h] = 0
                         \/ /\ loading.Networks[n].Providers[h] # NoAuth
                            /\ <<n, h>> \notin loading.opened
  BY DEF FirstRound
<1>2. loading # NoValue /\ ~crashed /\ UNCHANGED <<Networks, serving, loads>>
  BY DEF FirstRound
<1>3. Shaped(loading) /\ Own(loading) /\ Progress(loading)
  BY <1>2 DEF IInv
<1>4. loading' = [Networks |-> loading.Networks, opened |-> loading.opened,
                  checking |-> n, polled |-> loading.polled,
                  file |-> loading.file, outside |-> loading.outside]
  BY <1>1, <1>3 DEF Shaped
<1>5. crashed' \in BOOLEAN
  BY <1>1
<1>6. ~crashed' => NoneWithout(loading.Networks[n])
  BY <1>1 DEF NoneWithout
<1>7. Shaped(loading') /\ Own(loading')
  BY <1>3, <1>4 DEF Shaped, Own, AsFile
<1>8. ~crashed' => Progress(loading')
  BY <1>3, <1>4, <1>6 DEF Progress
<1>. QED BY <1>2, <1>5, <1>7, <1>8, ProvisionKept, Kept

\* A network is polled only once its ticker has been made.
LEMMA StartTickerKeeps ==
  ASSUME IInv, StartTicker
  PROVE  IInv'
<1>. DEFINE n == loading.checking
<1>1. /\ loading # NoValue /\ ~crashed /\ n # NoValue
      /\ UNCHANGED <<Networks, serving, loads>>
  BY DEF StartTicker
<1>2. Shaped(loading) /\ Own(loading) /\ Progress(loading)
  BY <1>1 DEF IInv
<1>3. CASE loading.Networks[n].HCInterval > 0
  <2>1. loading' = [loading EXCEPT !.checking = NoValue, !.polled = @ \cup {n}]
    BY <1>3 DEF StartTicker
  <2>2. crashed' \in BOOLEAN
    BY <1>3 DEF StartTicker, IInv
  <2>3. loading' = [Networks |-> loading.Networks, opened |-> loading.opened,
                    checking |-> NoValue, polled |-> loading.polled \cup {n},
                    file |-> loading.file, outside |-> loading.outside]
    BY <1>2, <2>1 DEF Shaped
  <2>4. Sound(loading.Networks[n])
    BY <1>1, <1>2, <1>3 DEF Progress, Sound
  <2>5. Shaped(loading') /\ Own(loading') /\ Progress(loading')
    BY <1>1, <1>2, <2>3, <2>4 DEF Shaped, Own, Progress, AsFile
  <2>. QED BY <1>1, <2>2, <2>5, ProvisionKept, Kept
<1>4. CASE ~(loading.Networks[n].HCInterval > 0)
  <2>1. loading' = NoValue /\ crashed' \in {TRUE, serving = NoValue}
    BY <1>4 DEF StartTicker
  <2>2. crashed' \in BOOLEAN
    BY <2>1
  <2>. QED BY <1>1, <2>1, <2>2, ProvisionKept, Kept
<1>. QED BY <1>3, <1>4

\* An instance serves when it has been through all of Provision.
LEMMA ServeKeeps ==
  ASSUME IInv, Serve
  PROVE  IInv'
<1>1. /\ loading # NoValue /\ ~crashed /\ Ready /\ Checked
      /\ serving' = loading /\ loading' = NoValue
      /\ UNCHANGED <<Networks, crashed, loads>>
  BY DEF Serve
<1>2. Own(loading) /\ Progress(loading)
  BY <1>1 DEF IInv
<1>3. loading.opened = Authenticated(loading.Networks)
  BY <1>1, <1>2 DEF Own, Ready, Unopened
<1>4. \A n \in DOMAIN loading.Networks : Sound(loading.Networks[n])
  BY <1>1, <1>2 DEF Progress, Checked
<1>5. ServedReady'
  BY <1>1, <1>3, <1>4 DEF ServedReady, Checked, Sound, NoneWithout
<1>6. crashed' \in BOOLEAN
  BY <1>1 DEF IInv
<1>. QED BY <1>1, <1>2, <1>5, <1>6, ProvisionKept, Kept

\* A process starts from nothing.
LEMMA RestartKeeps ==
  ASSUME IInv, Restart
  PROVE  IInv'
<1>1. Networks' = Empty /\ serving' = NoValue /\ loading' = NoValue /\ crashed' = FALSE /\ loads' = loads
  BY DEF Restart
<1>2. IsMap(Networks') /\ loads' \in 0..MaxLoads
  BY <1>1 DEF IInv, IsMap, Intervals, Empty
<1>3. ServedReady'
  BY <1>1 DEF ServedReady
<1>. QED BY <1>1, <1>2, <1>3, Kept

\* Every step preserves the inductive invariant.
LEMMA NextIInv == IInv /\ [Next]_vars => IInv'
<1>. SUFFICES ASSUME IInv, [Next]_vars PROVE IInv'
  OBVIOUS
<1>1. CASE ParseCaddyfile \/ Reload
  BY <1>1, ReadingKeeps
<1>2. CASE Provision
  BY <1>2, StartAuthKeeps, FirstRoundKeeps, StartTickerKeeps, ServeKeeps DEF Provision
<1>3. CASE Restart
  BY <1>3, RestartKeeps
<1>4. CASE UNCHANGED vars
  <2>1. UNCHANGED <<Networks, serving, loading, crashed, loads>>
    BY <1>4 DEF vars
  <2>2. loading' # NoValue => Shaped(loading') /\ Own(loading')
    BY <2>1 DEF IInv
  <2>3. (loading' # NoValue /\ ~crashed') => Progress(loading')
    BY <2>1 DEF IInv
  <2>4. crashed' \in BOOLEAN
    BY <2>1 DEF IInv
  <2>. QED BY <2>1, <2>2, <2>3, <2>4, ProvisionKept, Kept
<1>. QED
  BY <1>1, <1>2, <1>3, <1>4 DEF Next
----------------------------------------------------------------------------
(* The theorems.                                                           *)

\* The inductive invariant of Provisioning (din_middleware.go:61-113, 227-400).
THEOREM Inductive == Spec => []IInv
<1>1. Init => IInv
  BY InitIInv
<1>2. IInv /\ [Next]_vars => IInv'
  BY NextIInv
<1>. QED BY <1>1, <1>2, PTL DEF Spec

\* The types of the variables; what an instance has opened, checked and polled is
\* its own, while it is loaded and when it serves (din_middleware.go:70-110, 385-391).
THEOREM TypeCorrect == Spec => []TypeOK
<1>1. IInv => TypeOK
  BY DEF IInv, TypeOK, Instances, Own, Intervals
<1>. QED BY <1>1, Inductive, PTL

\* A Caddyfile of any length, read by an object that has read and rejected any
\* others before, is served as it is written (din_middleware.go:227-382).
THEOREM ServedAsWrittenHolds == Spec => []ServedAsWritten
<1>1. IInv => ServedAsWritten
  BY DEF IInv, Own, AsFile, ServedAsWritten
<1>. QED BY <1>1, Inductive, PTL

\* Whatever has been read and rejected before, a network is served only with open
\* sessions, after a round of checks, and with a poller
\* (din_middleware.go:70-110, 385-391; network.go:60-63).
THEOREM ServedReadyHolds == Spec => []ServedReady
<1>1. IInv => ServedReady
  BY DEF IInv
<1>. QED BY <1>1, Inductive, PTL
=============================================================================
