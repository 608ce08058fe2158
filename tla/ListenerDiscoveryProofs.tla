----------------------- MODULE ListenerDiscoveryProofs ----------------------
(***************************************************************************)
(* Proofs about the start of the application, ListenerDiscovery over       *)
(* ModuleConfiguration, for any calls of forRoot() and forRootAsync(), any *)
(* providers and any classes.                                              *)
(***************************************************************************)
EXTENDS ListenerDiscovery, WellFoundedInduction, SequenceTheorems, TLAPS

ConnectionEntries == [name : Names, options : AMQPConnectionOptions]

ProviderTypes ==
  [token : {"module", "options", "connection", "class"} \X Names,
   name : Names, options : AMQPConnectionOptions, async : BOOLEAN,
   needs : SUBSET ({"class", "options"} \X Names), injects : SUBSET Exports]

(* The module definition.                                                  *)
Definitions ==
  [global : BOOLEAN, imports : SUBSET Exports, providers : Seq(ProviderTypes)]

IsStorage(f) ==
  DOMAIN f \subseteq Names /\ f \in [DOMAIN f -> AMQPConnectionOptions]

Discovering ==
  {"attaching", "ready", "noHost", "scoped", "noConnection", "refused"}

StartTypes ==
  /\ calls \in Seq(RootCalls)
  /\ definition \in Definitions
  /\ IsStorage(storedOptions) /\ IsStorage(connections)
  /\ unopened \subseteq DOMAIN connections
  /\ resolved \subseteq DOMAIN Providers
  /\ stage \in {"importing", "resolving", "attaching", "ready"} \cup Failures
  /\ explored \in Seq(ListenerMetadata)
  /\ position \in 0..(Len(explored) + 1)
  /\ receivers \in [DOMAIN receivers ->
                      [listener : ListenerMetadata, bound : DOMAIN app]]

(* What has not begun yet in each stage.                                   *)
StagesInOrder ==
  /\ stage \in {"importing", "noSource"} =>
       DOMAIN connections = {} /\ unopened = {} /\ resolved = {}
  /\ stage \in {"importing", "resolving"} => DOMAIN receivers = {}

(* A provider has the token of its kind and name; only the default         *)
(* connection has providers of forRootAsync().                             *)
WellNamed(p) ==
  /\ p.token = Token(p.token[1], p.name)
  /\ p.token[1] = "connection" => p.needs = {Token("options", p.name)}
  /\ p.async => p.name = Default

TokensNamed == \A p \in Range(Providers) : WellNamed(p)

AllForms == Synchronous \cup {"async"}

(* Does some call give both useClass and useExisting?                      *)
TwoSources ==
  \E k \in DOMAIN calls :
    /\ calls[k].form = "async"
    /\ calls[k].sources = {"useClass", "useExisting"}

Provided(token) == \E p \in Range(Providers) : p.token = token

NeedsProvided ==
  \A p \in Range(Providers) : \A t \in p.needs : Provided(t) \/ TwoSources

IsLastAsync(k) == k \in AsyncCalls /\ \A j \in AsyncCalls : j <= k

(* Does a call inject what the last forRootAsync() does not import?        *)
ImportsLost ==
  \E i \in AsyncCalls : \E last \in AsyncCalls :
    /\ \A j \in AsyncCalls : j <= last
    /\ ~(calls[i].injects \subseteq calls[last].imports)

(* What is injected is what some call injects, and what is imported is     *)
(* what the last call imports.                                             *)
InjectsImported ==
  stage # "noSource" =>
    /\ \A p \in Range(Providers) :
         p.injects # {} => \E i \in AsyncCalls : p.injects = calls[i].injects
    /\ \A k : IsLastAsync(k) => definition.imports = calls[k].imports

EntriesProvided ==
  stage # "noSource" =>
    \A p \in Entries(AllForms) :
      /\ Provided(Token("options", Entry(p).name))
      /\ Provided(Token("connection", Entry(p).name))

NoProviderUnnamed ==
  ~EmptyNames => \A p \in Range(Providers) : p.name # Empty

IsLast(p, S) == p \in S /\ \A q \in S : AtOrAfter(p, q)
IsFirst(p, S) == p \in S /\ \A q \in S : AtOrAfter(q, p)

GiversExist ==
  /\ \A n \in Names : SyncFor(n) # {} => \E p \in SyncFor(n) : IsLast(p, SyncFor(n))
  /\ Entries({"async"}) # {} =>
       \E p \in Entries({"async"}) : IsFirst(p, Entries({"async"}))

(* The last provider of a token in a list (at most one).                   *)
Lasts(list, token) ==
  {list[i] : i \in {j \in DOMAIN list :
     /\ list[j].token = token
     /\ \A k \in DOMAIN list : list[k].token = token => k <= j}}

(* The last provider of the options of n has those of its giver.           *)
LastProviderGives ==
  ~EmptyNames =>
    \A n \in Names \ {Empty} : \A p \in Lasts(Providers, <<"options", n>>) :
      IF SyncFor(n) # {}
        THEN ~p.async /\ p.options = Kept(Giver(n))
        ELSE p.async /\ p.options = Giver(n) /\ Entries({"async"}) # {}

SyncStored ==
  ~EmptyNames =>
    \A n \in Names : SyncFor(n) # {} =>
      n \in DOMAIN storedOptions /\ storedOptions[n] = Kept(Giver(n))

(* What is resolved has left its traces in the storages.                   *)
ResolvedStored ==
  ~EmptyNames =>
    \A i \in resolved : Providers[i].token[1] = "options" =>
      /\ Providers[i].name \in DOMAIN storedOptions
      /\ storedOptions[Providers[i].name].id = Giver(Providers[i].name).id

ResolvedConnected ==
  \A i \in resolved : Providers[i].token[1] = "connection" =>
    Providers[i].name \in DOMAIN connections

OpenedAsStored ==
  ~EmptyNames =>
    \A n \in DOMAIN connections :
      /\ n \in DOMAIN storedOptions
      /\ connections[n].id = Giver(n).id
      /\ storedOptions[n].id = Giver(n).id

DiscoveredAll ==
  stage \in Discovering =>
    /\ app \in Applications /\ explored = Explore(app)
    /\ InUse \subseteq resolved
    /\ position \in 1..(Len(explored) + 1)

(* Why the start failed, or that it is over.                               *)
FailedAsSaid ==
  /\ stage = "unresolvable" => TwoSources \/ ImportsLost
  /\ stage = "noHost" =>
       position \in 1..Len(explored) /\ Hosts(Listener) = {}
  /\ stage = "scoped" =>
       \E w \in Hosts(Listener) : app[w].scoped
  /\ stage = "noConnection" =>
       position \in 1..Len(explored) /\ ~Found(Listener.connection)
  /\ stage = "ready" => position = Len(explored) + 1

TokenAt(i) == LinkToken(explored[i].connection, explored[i].source)

(* Behind the listeners that attachListeners() has come past is the first  *)
(* of each token, bound to one of its hosts.                               *)
FirstServes ==
  stage \in Discovering =>
    /\ \A i \in 1..(position - 1) : TokenAt(i) \in DOMAIN receivers
    /\ \A t \in DOMAIN receivers :
         \E j \in 1..(position - 1) :
           /\ TokenAt(j) = t
           /\ \A k \in 1..(j - 1) : TokenAt(k) # t
           /\ receivers[t].listener = explored[j]
           /\ receivers[t].bound \in Hosts(explored[j])

StartInv ==
  /\ StartTypes /\ StagesInOrder
  /\ TokensNamed /\ NeedsProvided /\ EntriesProvided /\ NoProviderUnnamed
  /\ InjectsImported
  /\ GiversExist /\ LastProviderGives /\ SyncStored
  /\ ResolvedStored /\ ResolvedConnected /\ OpenedAsStored
  /\ ExceptionIsThrown
  /\ DiscoveredAll /\ FailedAsSaid /\ FirstServes
-----------------------------------------------------------------------------
(* Sequences and sets of numbers.                                          *)

(* A set of numbers that is not empty has a least one.                      *)
LEMMA Least ==
  ASSUME NEW T \in SUBSET Nat, T # {}
  PROVE  \E m \in T : \A k \in T : m <= k
<1> DEFINE R == OpToRel(<, Nat)
<1>1. IsWellFoundedOn(R, Nat)
  BY NatLessThanWellFounded
<1>2. \A x, y \in Nat : x < y => <<x, y>> \in R
  BY DEF OpToRel
<1> HIDE DEF R
<1>3. PICK m \in T : \A k \in T : ~(<<k, m>> \in R)
  BY <1>1, WFMin
<1>4. \A k \in T : ~(k < m)
  BY <1>2, <1>3
<1>5. \A k \in T : k \in Nat
  OBVIOUS
<1> QED
  BY <1>4, <1>5

(* And a greatest one, if it is bounded.                                    *)
LEMMA Greatest ==
  ASSUME NEW n \in Nat, NEW T \in SUBSET (1..n), T # {}
  PROVE  \E m \in T : \A k \in T : k <= m
<1> DEFINE U == {n - k : k \in T}
<1>1. PICK m \in U : \A k \in U : m <= k
  <2>1. \A k \in T : k \in Nat /\ n - k \in Nat
    OBVIOUS
  <2>2. U \subseteq Nat
    BY <2>1
  <2>3. U # {}
    OBVIOUS
  <2> QED
    BY <2>2, <2>3, Least
<1>2. PICK t \in T : m = n - t
  BY <1>1
<1>3. \A k \in T : k <= t
  BY <1>1, <1>2
<1> QED
  BY <1>3

LEMMA FunctionIsSeq ==
  ASSUME NEW T, NEW n \in Nat, NEW f \in [1..n -> T]
  PROVE  f \in Seq(T)
BY SeqDef

(* FlattenSeq() is defined by a function on the lengths; it is there, and   *)
(* its values are sequences, by induction on the length.                    *)
LEMMA FlattenSeqType ==
  ASSUME NEW S, NEW ss \in Seq(Seq(S))
  PROVE  FlattenSeq(ss) \in Seq(S)
<1>1. CASE Len(ss) = 0
  BY <1>1 DEF FlattenSeq
<1>2. CASE Len(ss) # 0
  <2> DEFINE N == Len(ss)
             Eq(g, n) == g = [i \in 1..n |-> IF i = 1 THEN ss[i] ELSE g[i-1] \o ss[i]]
             Typed(n) == \E g \in [1..n -> Seq(S)] : Eq(g, n)
             flatten == CHOOSE g : Eq(g, N)
  <2>1. N \in Nat /\ \A i \in 1..N : ss[i] \in Seq(S)
    OBVIOUS
  <2>2. Typed(0)
    <3> DEFINE g == [i \in 1..0 |-> << >>]
    <3>1. g \in [1..0 -> Seq(S)] /\ Eq(g, 0)
      OBVIOUS
    <3> QED BY <3>1
  <2>3. ASSUME NEW n \in 0..(N-1), Typed(n)
        PROVE  Typed(n+1)
    <3>1. PICK g \in [1..n -> Seq(S)] : Eq(g, n)
      BY <2>3
    <3> DEFINE last == IF n = 0 THEN ss[1] ELSE g[n] \o ss[n+1]
               h == [i \in 1..(n+1) |-> IF i = n+1 THEN last ELSE g[i]]
    <3>2. last \in Seq(S)
      BY <2>1
    <3> HIDE DEF last
    <3>3. h \in [1..(n+1) -> Seq(S)]
      BY <3>2
    <3>4. \A i \in 1..(n+1) : h[i] = IF i = 1 THEN ss[i] ELSE h[i-1] \o ss[i]
      <4> TAKE i \in 1..(n+1)
      <4>1. CASE i = n+1
        BY <4>1 DEF last
      <4>2. CASE i # n+1
        <5>1. i \in 1..n /\ h[i] = g[i] /\ (i # 1 => h[i-1] = g[i-1])
          BY <4>2
        <5>2. g[i] = IF i = 1 THEN ss[i] ELSE g[i-1] \o ss[i]
          BY <3>1, <5>1
        <5> QED BY <5>1, <5>2
      <4> QED BY <4>1, <4>2
    <3>5. Eq(h, n+1)
      BY <3>4
    <3> QED
      BY <3>3, <3>5
  <2>4. Typed(N)
    <3> DEFINE T == {n \in 0..N : ~Typed(n)}
    <3> HIDE DEF Typed
    <3>1. SUFFICES ASSUME T # {} PROVE FALSE
      BY <2>1
    <3>2. PICK n \in T : \A k \in T : n <= k
      <4>1. T \in SUBSET Nat
        BY <2>1
      <4> HIDE DEF T
      <4> QED BY <3>1, <4>1, Least
    <3>3. n # 0 /\ n - 1 \in 0..(N-1) /\ n - 1 + 1 = n
      BY <2>1, <2>2, <3>2
    <3>4. Typed(n - 1)
      BY <2>1, <3>2, <3>3
    <3> QED
      BY <2>3, <3>2, <3>3, <3>4
  <2>5. Eq(flatten, N)
    <3> HIDE DEF Eq
    <3> QED
    BY <2>4
  <2>6. \A i \in 1..N : flatten[i] \in Seq(S)
    <3> DEFINE T == {n \in 1..N : flatten[n] \notin Seq(S)}
    <3> HIDE DEF flatten
    <3>1. SUFFICES ASSUME T # {} PROVE FALSE
      OBVIOUS
    <3>2. PICK n \in T : \A k \in T : n <= k
      <4>1. T \in SUBSET Nat
        BY <2>1
      <4> HIDE DEF T
      <4> QED BY <3>1, <4>1, Least
    <3>3. flatten[n] = IF n = 1 THEN ss[n] ELSE flatten[n-1] \o ss[n]
      BY <2>5
    <3>4. n # 1
      BY <2>1, <3>2, <3>3
    <3>5. n - 1 \in 1..N /\ n - 1 \notin T
      BY <2>1, <3>2, <3>4
    <3>6. flatten[n-1] \in Seq(S)
      BY <3>5
    <3>7. flatten[n] \in Seq(S)
      BY <2>1, <3>2, <3>3, <3>4, <3>6
    <3> QED
      BY <3>2, <3>7
  <2>7. FlattenSeq(ss) = flatten[N]
    BY <1>2 DEF FlattenSeq
  <2> HIDE DEF flatten
  <2> QED
    BY <1>2, <2>1, <2>6, <2>7
<1> QED
  BY <1>1, <1>2

-----------------------------------------------------------------------------
(* The storages.                                                           *)

(* add() of a storage of options.                                           *)
LEMMA StoredType ==
  ASSUME NEW storage, IsStorage(storage),
         NEW name \in Names, NEW value \in AMQPConnectionOptions
  PROVE  IsStorage(Stored(storage, name, value))
<1> DEFINE new == Stored(storage, name, value)
<1>1. DOMAIN new = DOMAIN storage \cup {name}
  BY DEF Stored
<1>2. \A n \in DOMAIN new : new[n] \in AMQPConnectionOptions
  BY DEF Stored, IsStorage
<1>3. new \in [DOMAIN new -> AMQPConnectionOptions]
  BY <1>1, <1>2 DEF Stored
<1>4. DOMAIN new \subseteq Names
  BY <1>1 DEF IsStorage
<1> QED
  BY <1>3, <1>4 DEF IsStorage

(* What getConnectionOptions() leaves of the options.                       *)
LEMMA KeptType ==
  ASSUME NEW options \in AMQPConnectionOptions
  PROVE  /\ Kept(options) \in AMQPConnectionOptions
         /\ Kept(options).id = options.id
         /\ Kept(options).throws = options.throws
BY DEF Kept, AMQPConnectionOptions

(* The last entry of a name is one of that name.                            *)
LEMMA LastNamingIs ==
  ASSUME NEW entries \in Seq(ConnectionEntries), NEW n,
         Naming(entries, n) # {}
  PROVE  /\ LastNaming(entries, n) \in Naming(entries, n)
         /\ \A i \in Naming(entries, n) : i <= LastNaming(entries, n)
<1>1. Len(entries) \in Nat /\ Naming(entries, n) \in SUBSET (1..Len(entries))
  BY DEF Naming
<1>2. \E m \in Naming(entries, n) : \A k \in Naming(entries, n) : k <= m
  BY <1>1, Greatest
<1> QED
  BY <1>2 DEF LastNaming

(* forRoot() stores the options of the last entry of each name.             *)
LEMMA AllStoredIs ==
  ASSUME NEW storage, IsStorage(storage),
         NEW entries \in Seq(ConnectionEntries)
  PROVE  /\ IsStorage(AllStored(storage, entries))
         /\ DOMAIN storage \subseteq DOMAIN AllStored(storage, entries)
         /\ \A n \in DOMAIN storage : Naming(entries, n) = {} =>
              AllStored(storage, entries)[n] = storage[n]
         /\ \A n : Naming(entries, n) # {} =>
              /\ n \in DOMAIN AllStored(storage, entries)
              /\ AllStored(storage, entries)[n] =
                   Kept(entries[LastNaming(entries, n)].options)
<1> DEFINE names == {entries[i].name : i \in DOMAIN entries}
           all == AllStored(storage, entries)
<1>1. DOMAIN all = DOMAIN storage \cup names
  BY DEF AllStored
<1>2. \A n : n \in names <=> Naming(entries, n) # {}
  BY DEF Naming
<1>3. \A i \in DOMAIN entries : entries[i] \in ConnectionEntries
  OBVIOUS
<1>4. names \subseteq Names
  BY <1>3 DEF ConnectionEntries
<1>5. \A n \in DOMAIN all :
        all[n] = IF Naming(entries, n) # {}
                   THEN Kept(entries[LastNaming(entries, n)].options)
                   ELSE storage[n]
  BY DEF AllStored
<1>6. \A n \in DOMAIN all : all[n] \in AMQPConnectionOptions
  <2> TAKE n \in DOMAIN all
  <2>1. CASE Naming(entries, n) # {}
    <3>1. LastNaming(entries, n) \in DOMAIN entries
      BY <2>1, LastNamingIs DEF Naming
    <3>2. entries[LastNaming(entries, n)].options \in AMQPConnectionOptions
      BY <3>1, <1>3 DEF ConnectionEntries
    <3> QED
      BY <1>5, <2>1, <3>2, KeptType
  <2>2. CASE Naming(entries, n) = {}
    BY <1>1, <1>2, <1>5, <2>2 DEF IsStorage
  <2> QED
    BY <2>1, <2>2
<1>7. all = [n \in DOMAIN all |-> all[n]]
  BY DEF AllStored
<1>8. IsStorage(all)
  BY <1>1, <1>4, <1>6, <1>7 DEF IsStorage
<1> QED
  BY <1>1, <1>2, <1>5, <1>8

-----------------------------------------------------------------------------
(* The explorer.                                                           *)

(* The listeners that the providers can have.                              *)
ListenersIn(providers) ==
  {l \in ListenerMetadata :
     \E w \in DOMAIN providers :
       \E i \in DOMAIN Lineage[providers[w].class] :
         l.target = Lineage[providers[w].class][i]}

LEMMA MetadataType ==
  ASSUME NEW class \in Classes, NEW method \in Methods
  PROVE  /\ Metadata(class, method) \in ListenerMetadata
         /\ Metadata(class, method).target = class
<1>1. ConnectionArgument(method.second, method.third) \in Names
  BY ConfigurationAssumption DEF Methods, ConnectionArgument
<1> QED
  BY <1>1 DEF Metadata, ListenerMetadata, Methods

(* The listeners that a class has of one class of its lineage are declared  *)
(* there.                                                                   *)
LEMMA AlongType ==
  ASSUME NEW class \in Classes, NEW i \in DOMAIN Lineage[class],
         NEW S, S = {l \in ListenerMetadata : l.target = Lineage[class][i]}
  PROVE  ListenersAlong(class, i) \in Seq(S)
<1> DEFINE declares == Lineage[class][i]
           own == Prototype[declares]
           Found1(m) == IF own[m].listens /\ ~Overridden(class, i, own[m].name)
                          THEN << Metadata(declares, own[m]) >> ELSE << >>
           parts == [m \in DOMAIN own |-> Found1(m)]
<1>1. Lineage[class] \in Seq(Classes)
  BY DiscoveryAssumption
<1>2. declares \in Classes
  BY <1>1
<1>3. own \in Seq(Methods)
  BY <1>2, DiscoveryAssumption
<1>4. \A m \in DOMAIN own : Metadata(declares, own[m]) \in S
  <2> TAKE m \in DOMAIN own
  <2>1. own[m] \in Methods
    BY <1>3
  <2> QED
    BY <1>2, <2>1, MetadataType
<1>5. \A m \in DOMAIN own : Found1(m) \in Seq(S)
  <2> TAKE m \in DOMAIN own
  <2> DEFINE one == << Metadata(declares, own[m]) >>
  <2>1. one \in Seq(S)
    BY <1>4
  <2>2. << >> \in Seq(S)
    OBVIOUS
  <2>3. Found1(m) = one \/ Found1(m) = << >>
    OBVIOUS
  <2> HIDE DEF one, Found1
  <2> QED
    BY <2>1, <2>2, <2>3
<1>6. parts \in Seq(Seq(S))
  <2>1. DOMAIN own = 1..Len(own) /\ Len(own) \in Nat
    BY <1>3
  <2> HIDE DEF own, Found1
  <2>2. parts \in [1..Len(own) -> Seq(S)]
    BY <1>5, <2>1
  <2> HIDE DEF parts
  <2> QED
    BY <2>1, <2>2, FunctionIsSeq
<1>7. ListenersAlong(class, i) = FlattenSeq(parts)
  BY DEF ListenersAlong
<1> HIDE DEF parts
<1> QED
  BY <1>6, <1>7, FlattenSeqType

(* All listeners of a class are declared along its prototypes.              *)
LEMMA ListenersOfType ==
  ASSUME NEW class \in Classes,
         NEW S, S = {l \in ListenerMetadata :
                       \E i \in DOMAIN Lineage[class] :
                         l.target = Lineage[class][i]}
  PROVE  ListenersOf(class) \in Seq(S)
<1> DEFINE parts == [i \in DOMAIN Lineage[class] |-> ListenersAlong(class, i)]
<1>1. Lineage[class] \in Seq(Classes)
  BY DiscoveryAssumption
<1>2. \A i \in DOMAIN Lineage[class] : ListenersAlong(class, i) \in Seq(S)
  <2> TAKE i \in DOMAIN Lineage[class]
  <2> DEFINE R == {l \in ListenerMetadata : l.target = Lineage[class][i]}
  <2>1. ListenersAlong(class, i) \in Seq(R)
    BY AlongType
  <2>2. R \subseteq S
    OBVIOUS
  <2> HIDE DEF R
  <2> QED
    BY <2>1, <2>2, SeqMonotonic
<1>3. parts \in Seq(Seq(S))
  <2>1. /\ DOMAIN Lineage[class] = 1..Len(Lineage[class])
        /\ Len(Lineage[class]) \in Nat
    BY <1>1
  <2>2. parts \in [1..Len(Lineage[class]) -> Seq(S)]
    BY <1>2, <2>1
  <2> HIDE DEF parts
  <2> QED
    BY <2>1, <2>2, FunctionIsSeq
<1>4. ListenersOf(class) = FlattenSeq(parts)
  BY DEF ListenersOf
<1> HIDE DEF parts
<1> QED
  BY <1>3, <1>4, FlattenSeqType

(* All listeners of the application are declared along the prototypes of    *)
(* one of its providers.                                                    *)
LEMMA ExploreType ==
  ASSUME NEW providers \in Applications
  PROVE  Explore(providers) \in Seq(ListenersIn(providers))
<1> DEFINE S == ListenersIn(providers)
           part(w) == IF providers[w].live
                        THEN ListenersOf(providers[w].class) ELSE << >>
           parts == [w \in DOMAIN providers |-> part(w)]
<1>1. providers \in Seq(InstanceWrappers)
  BY DiscoveryAssumption
<1>2. \A w \in DOMAIN providers : part(w) \in Seq(S)
  <2> TAKE w \in DOMAIN providers
  <2> DEFINE class == providers[w].class
             R == {l \in ListenerMetadata :
                     \E i \in DOMAIN Lineage[class] :
                       l.target = Lineage[class][i]}
  <2>1. class \in Classes
    <3>1. providers[w] \in InstanceWrappers
      BY <1>1
    <3> QED
      BY <3>1 DEF InstanceWrappers
  <2>2. ListenersOf(class) \in Seq(R)
    <3> HIDE DEF class
    <3> QED
      BY <2>1, ListenersOfType
  <2>3. R \subseteq S
    BY DEF ListenersIn
  <2>4. ListenersOf(class) \in Seq(S)
    <3> HIDE DEF R, S, class
    <3> QED
      BY <2>2, <2>3, SeqMonotonic
  <2>5. << >> \in Seq(S)
    OBVIOUS
  <2> HIDE DEF S
  <2> QED
    BY <2>4, <2>5
<1>3. parts \in Seq(Seq(S))
  <2>1. DOMAIN providers = 1..Len(providers) /\ Len(providers) \in Nat
    BY <1>1
  <2> HIDE DEF part, S
  <2>2. parts \in [1..Len(providers) -> Seq(S)]
    BY <1>2, <2>1
  <2> HIDE DEF parts
  <2> QED
    BY <2>1, <2>2, FunctionIsSeq
<1>4. Explore(providers) = FlattenSeq(parts)
  BY DEF Explore
<1> HIDE DEF parts, S
<1>5. Explore(providers) \in Seq(S)
  BY <1>3, <1>4, FlattenSeqType
<1> QED
  BY <1>5 DEF S

-----------------------------------------------------------------------------
(* The providers of a call.                                                *)

(* What the assumption says of a call.                                      *)
LEMMA CallTypes ==
  ASSUME NEW call \in RootCalls
  PROVE  /\ call.form \in AllForms
         /\ call.global \in BOOLEAN
         /\ call.entries \in Seq(ConnectionEntries)
         /\ call.sources \subseteq Sources
         /\ call.imports \subseteq Exports /\ call.injects \subseteq Exports
         /\ call.form # "array" =>
              Len(call.entries) = 1 /\ call.entries[1].name = Default
BY ConfigurationAssumption
   DEF RootCall, AllForms, Synchronous, ConnectionEntries

(* Tokens of one kind differ with the name, the empty one aside.            *)
LEMMA TokenIs ==
  ASSUME NEW kind, NEW name \in Names
  PROVE  /\ Token(kind, name) \in {kind} \X (Names \ {Empty})
         /\ Token(kind, name)[1] = kind
         /\ name # Empty => Token(kind, name) = <<kind, name>>
         /\ \A n : name # Empty /\ Token(kind, name) = <<kind, n>> => n = name
BY ConfigurationAssumption DEF Token

LEMMA ModuleOptionsProviderType ==
  /\ ModuleOptionsProvider \in ProviderTypes /\ WellNamed(ModuleOptionsProvider)
  /\ ModuleOptionsProvider.needs = {} /\ ModuleOptionsProvider.name = Default
  /\ ModuleOptionsProvider.token[1] = "module"
  /\ ModuleOptionsProvider.injects = {}
<1>1. NoOptions \in AMQPConnectionOptions
  BY DEF NoOptions, AMQPConnectionOptions
<1>2. Token("module", Default) \in {"module"} \X Names
  BY TokenIs, ConfigurationAssumption
<1> QED
  BY <1>1, <1>2, ConfigurationAssumption
     DEF ModuleOptionsProvider, Provider, ProviderTypes, WellNamed

LEMMA OptionsProviderType ==
  ASSUME NEW entry \in ConnectionEntries
  PROVE  LET p == OptionsProvider(entry)
         IN  /\ p \in ProviderTypes /\ WellNamed(p)
             /\ p.needs = {} /\ p.injects = {}
             /\ p.name = entry.name /\ ~p.async
             /\ p.token = Token("options", entry.name)
             /\ p.token[1] = "options"
             /\ p.options = Kept(entry.options)
<1>1. Kept(entry.options) \in AMQPConnectionOptions
  BY KeptType DEF ConnectionEntries
<1>2. entry.name \in Names
  BY DEF ConnectionEntries
<1>3. /\ Token("options", entry.name) \in {"options"} \X Names
      /\ Token("options", entry.name)[1] = "options"
  BY <1>2, TokenIs
<1> QED
  BY <1>1, <1>2, <1>3 DEF OptionsProvider, Provider, ProviderTypes, WellNamed

LEMMA ConnectionProviderType ==
  ASSUME NEW name \in Names
  PROVE  LET p == ConnectionProvider(name)
         IN  /\ p \in ProviderTypes /\ WellNamed(p)
             /\ p.needs = {Token("options", name)} /\ p.name = name
             /\ p.injects = {}
             /\ p.token = Token("connection", name)
             /\ p.token[1] = "connection"
<1>1. NoOptions \in AMQPConnectionOptions
  BY DEF NoOptions, AMQPConnectionOptions
<1>2. /\ Token("options", name) \in {"options"} \X Names
      /\ Token("connection", name) \in {"connection"} \X Names
      /\ Token("connection", name)[1] = "connection"
  BY TokenIs
<1> QED
  BY <1>1, <1>2 DEF ConnectionProvider, Provider, ProviderTypes, WellNamed

(* What forRootAsync() provides in front, its options second.              *)
LEMMA AsyncProvidersType ==
  ASSUME NEW call \in RootCalls, call.form = "async"
  PROVE  LET list == AsyncProviders(call)
         IN  /\ list \in Seq(ProviderTypes)
             /\ \A p \in Range(list) :
                  /\ WellNamed(p) /\ p.name = Default
                  /\ p.injects \in {{}, call.injects}
                  /\ p.needs \subseteq {Token("class", Default)}
                  /\ p.needs # {} =>
                       \/ call.sources = {"useClass", "useExisting"}
                       \/ \E q \in Range(list) : q.token = Token("class", Default)
                  /\ p.token[1] = "options" =>
                       /\ p.async /\ p.options = call.entries[1].options
                       /\ p.token = Token("options", Default)
                  /\ p.token[1] # "connection"
             /\ \E p \in Range(list) : p.token = Token("options", Default)
<1> DEFINE options == call.entries[1].options
           needs == IF InjectsClass(call) THEN {Token("class", Default)} ELSE {}
           injects == IF InjectsClass(call) THEN {} ELSE call.injects
           a == AsyncProvider("module", NoOptions, call)
           b == AsyncProvider("options", options, call)
           c == Provider("class", Default, NoOptions, FALSE, {}, call.injects)
<1>1. NoOptions \in AMQPConnectionOptions
  BY DEF NoOptions, AMQPConnectionOptions
<1>2. options \in AMQPConnectionOptions
  <2>1. call.entries[1] \in ConnectionEntries
    BY CallTypes
  <2> QED
    BY <2>1 DEF ConnectionEntries
<1>3. \A kind : /\ Token(kind, Default) \in {kind} \X Names
                /\ Token(kind, Default)[1] = kind
  BY TokenIs, ConfigurationAssumption
<1>4. /\ needs \subseteq {Token("class", Default)}
      /\ needs \in SUBSET ({"class", "options"} \X Names)
      /\ needs # {} =>
           \/ call.sources = {"useClass", "useExisting"}
           \/ call.sources = {"useClass"}
      /\ injects \in {{}, call.injects}
      /\ injects \subseteq Exports /\ call.injects \subseteq Exports
  <2>1. Token("class", Default) \in {"class", "options"} \X Names
    BY <1>3
  <2>2. call.sources \subseteq {"useFactory", "useClass", "useExisting"}
    BY CallTypes DEF Sources
  <2>3. call.injects \subseteq Exports
    BY CallTypes
  <2> QED
    BY <2>1, <2>2, <2>3 DEF InjectsClass
<1>0. /\ a = Provider("module", Default, NoOptions, TRUE, needs, injects)
      /\ b = Provider("options", Default, options, TRUE, needs, injects)
  <2>1. CASE InjectsClass(call)
    BY <2>1 DEF AsyncProvider
  <2>2. CASE ~InjectsClass(call)
    BY <2>2 DEF AsyncProvider
  <2> QED
    BY <2>1, <2>2
<1> HIDE DEF needs, injects, a, b
<1>5. a \in ProviderTypes /\ b \in ProviderTypes /\ c \in ProviderTypes
  <2> HIDE DEF options
  <2> QED
    BY <1>0, <1>1, <1>2, <1>3, <1>4, ConfigurationAssumption
       DEF Provider, ProviderTypes
<1>6. /\ a.token = Token("module", Default) /\ a.name = Default
      /\ a.needs = needs /\ a.async /\ a.injects = injects
      /\ b.token = Token("options", Default) /\ b.name = Default
      /\ b.needs = needs /\ b.async /\ b.injects = injects
      /\ b.options = options
      /\ c.token = Token("class", Default) /\ c.name = Default
      /\ c.needs = {} /\ ~c.async /\ c.injects = call.injects
  BY <1>0 DEF Provider
<1> DEFINE tail == IF call.sources = {"useClass"} THEN << c >> ELSE << >>
<1>12. AsyncProviders(call) = << a, b >> \o tail
  BY DEF AsyncProviders, a, b
<1> HIDE DEF c
<1> DEFINE S == IF call.sources = {"useClass"} THEN {a, b, c} ELSE {a, b}
<1>7. AsyncProviders(call) \in Seq(ProviderTypes)
      /\ Range(AsyncProviders(call)) = S
  <2>1. CASE call.sources = {"useClass"}
    <3>1. AsyncProviders(call) = << a, b >> \o << c >>
      BY <1>12, <2>1
    <3>2. << a, b >> \in Seq(ProviderTypes) /\ << c >> \in Seq(ProviderTypes)
      BY <1>5
    <3>3. Range(<< a, b >>) = {a, b} /\ Range(<< c >>) = {c}
      BY DEF Range
    <3>4. Range(<< a, b >> \o << c >>) = Range(<< a, b >>) \cup Range(<< c >>)
      BY <3>2, RangeConcatenation
    <3> QED
      BY <2>1, <3>1, <3>2, <3>3, <3>4
  <2>2. CASE call.sources # {"useClass"}
    <3>1. AsyncProviders(call) = << a, b >> \o << >>
      BY <1>12, <2>2
    <3>2. << a, b >> \o << >> = << a, b >>
      OBVIOUS
    <3>3. << a, b >> \in Seq(ProviderTypes)
      BY <1>5
    <3>4. Range(<< a, b >>) = {a, b}
      BY DEF Range
    <3> QED
      BY <2>2, <3>1, <3>2, <3>3, <3>4
  <2> QED
    BY <2>1, <2>2
<1>8. /\ a \in S /\ b \in S
      /\ call.sources = {"useClass"} => c \in S
      /\ \A p \in S : p \in {a, b, c}
  OBVIOUS
<1> HIDE DEF S, options
<1>9. \A p \in {a, b, c} :
        /\ WellNamed(p) /\ p.name = Default
        /\ p.injects \in {{}, call.injects}
        /\ p.needs \subseteq {Token("class", Default)}
        /\ p.token[1] = "options" =>
             /\ p.async /\ p.options = options
             /\ p.token = Token("options", Default)
        /\ p.token[1] # "connection"
        /\ p.needs # {} => needs # {}
  BY <1>3, <1>4, <1>6 DEF WellNamed
<1>10. \A p \in S : p.needs # {} =>
         \/ call.sources = {"useClass", "useExisting"}
         \/ \E q \in S : q.token = Token("class", Default)
  BY <1>4, <1>6, <1>8, <1>9
<1>11. \E p \in S : p.token = Token("options", Default)
  BY <1>6, <1>8
<1> QED
  BY <1>7, <1>8, <1>9, <1>10, <1>11 DEF options

-----------------------------------------------------------------------------
(* Lists of providers put together.                                        *)

(* The last provider of a token is in the second list if that has one.      *)
LEMMA LastsOfConcat ==
  ASSUME NEW P \in Seq(ProviderTypes), NEW Q \in Seq(ProviderTypes),
         NEW t, NEW p \in Lasts(P \o Q, t)
  PROVE  \/ p \in Lasts(Q, t)
         \/ p \in Lasts(P, t) /\ \A q \in Range(Q) : q.token # t
<1> DEFINE R == P \o Q
<1>1. /\ R \in Seq(ProviderTypes) /\ Len(R) = Len(P) + Len(Q)
      /\ \A i \in 1..Len(P) : R[i] = P[i]
      /\ \A i \in 1..Len(Q) : R[Len(P) + i] = Q[i]
      /\ Len(P) \in Nat /\ Len(Q) \in Nat
  OBVIOUS
<1>2. DOMAIN P = 1..Len(P) /\ DOMAIN Q = 1..Len(Q)
      /\ DOMAIN R = 1..(Len(P) + Len(Q))
  BY <1>1
<1> HIDE DEF R
<1>3. PICK i \in DOMAIN R :
        /\ p = R[i] /\ R[i].token = t
        /\ \A k \in DOMAIN R : R[k].token = t => k <= i
  BY DEF Lasts, R
<1>4. CASE i > Len(P)
  <2>1. i - Len(P) \in DOMAIN Q /\ R[i] = Q[i - Len(P)]
    <3>1. i - Len(P) \in 1..Len(Q) /\ Len(P) + (i - Len(P)) = i
      BY <1>1, <1>2, <1>4
    <3> QED
      BY <1>1, <1>2, <3>1
  <2>2. \A k \in DOMAIN Q : Q[k].token = t => k <= i - Len(P)
    <3> TAKE k \in DOMAIN Q
    <3>1. Len(P) + k \in DOMAIN R /\ R[Len(P) + k] = Q[k]
      BY <1>1, <1>2
    <3> QED
      BY <1>1, <1>2, <1>3, <3>1
  <2> QED
    BY <1>3, <2>1, <2>2 DEF Lasts
<1>5. CASE i <= Len(P)
  <2>1. i \in DOMAIN P /\ R[i] = P[i]
    BY <1>1, <1>2, <1>5
  <2>2. \A k \in DOMAIN P : P[k].token = t => k <= i
    BY <1>1, <1>2, <1>3
  <2>3. \A k \in DOMAIN Q : Q[k].token # t
    <3> TAKE k \in DOMAIN Q
    <3>1. Len(P) + k \in DOMAIN R /\ R[Len(P) + k] = Q[k] /\ Len(P) + k > i
      BY <1>1, <1>2, <1>5
    <3>2. ~(Len(P) + k <= i)
      BY <1>1, <1>2, <3>1
    <3> QED
      BY <1>3, <3>1, <3>2
  <2>4. p \in Lasts(P, t)
    BY <1>3, <2>1, <2>2 DEF Lasts
  <2>5. \A q \in Range(Q) : q.token # t
    BY <2>3 DEF Range
  <2> QED
    BY <2>4, <2>5
<1> QED
  BY <1>1, <1>2, <1>4, <1>5

LEMMA RangeOfConcat ==
  ASSUME NEW P \in Seq(ProviderTypes), NEW Q \in Seq(ProviderTypes)
  PROVE  Range(P \o Q) = Range(P) \cup Range(Q)
BY RangeConcatenation

(* A list of one provider for each entry.                                  *)
LEMMA ListType ==
  ASSUME NEW n \in Nat, NEW list \in [1..n -> ProviderTypes]
  PROVE  list \in Seq(ProviderTypes) /\ Range(list) = {list[i] : i \in 1..n}
<1>1. list \in Seq(ProviderTypes)
  BY FunctionIsSeq
<1>2. DOMAIN list = 1..n
  OBVIOUS
<1> QED
  BY <1>1, <1>2 DEF Range

LEMMA LastsAreThere ==
  ASSUME NEW P, NEW t, NEW p \in Lasts(P, t)
  PROVE  p \in Range(P) /\ p.token = t
BY DEF Lasts, Range

(* What the list of providers is after forRoot().                          *)
LEMMA ForRootAdds ==
  ASSUME definition \in Definitions,
         NEW call \in RootCalls, ForRoot(call)
  PROVE  /\ definition' \in Definitions
         /\ definition'.imports = definition.imports
         /\ \A p \in Range(Providers)' :
              \/ p \in Range(Providers) \/ p = ModuleOptionsProvider
              \/ \E i \in DOMAIN call.entries :
                   \/ p = OptionsProvider(call.entries[i])
                   \/ p = ConnectionProvider(call.entries[i].name)
         /\ Range(Providers) \subseteq Range(Providers)'
         /\ \A i \in DOMAIN call.entries :
              /\ OptionsProvider(call.entries[i]) \in Range(Providers)'
              /\ ConnectionProvider(call.entries[i].name) \in Range(Providers)'
         /\ \A n : \A p \in Lasts(Providers', <<"options", n>>) :
              \/ p \in Lasts(OptionsProviders(call.entries), <<"options", n>>)
              \/ /\ p \in Lasts(Providers, <<"options", n>>)
                 /\ \A i \in DOMAIN call.entries :
                      OptionsProvider(call.entries[i]).token # <<"options", n>>
<1> DEFINE A == << ModuleOptionsProvider >>
           O == OptionsProviders(call.entries)
           C == ConnectionProviders(call.entries)
<1>1. /\ Providers \in Seq(ProviderTypes)
      /\ Providers' = ((A \o Providers) \o O) \o C
      /\ definition'.global \in BOOLEAN
      /\ definition'.imports = definition.imports
      /\ definition.imports \subseteq Exports
      /\ definition' = [global |-> definition'.global,
                        imports |-> definition'.imports,
                        providers |-> Providers']
  BY DEF ForRoot, Providers, Definitions
<1>2. A \in Seq(ProviderTypes) /\ Range(A) = {ModuleOptionsProvider}
  BY ModuleOptionsProviderType DEF Range
<1>3. call.entries \in Seq(ConnectionEntries)
  BY CallTypes
<1>4. \A i \in DOMAIN call.entries :
        /\ call.entries[i] \in ConnectionEntries
        /\ call.entries[i].name \in Names
  <2> TAKE i \in DOMAIN call.entries
  <2>1. call.entries[i] \in ConnectionEntries
    BY <1>3
  <2> QED
    BY <2>1 DEF ConnectionEntries
<1>5. /\ O \in Seq(ProviderTypes)
      /\ Range(O) = {OptionsProvider(call.entries[i]) : i \in DOMAIN call.entries}
  <2>1. O = [i \in 1..Len(call.entries) |-> OptionsProvider(call.entries[i])]
    BY <1>3 DEF OptionsProviders
  <2>2. Len(call.entries) \in Nat
    BY <1>3
  <2>3. \A i \in 1..Len(call.entries) : OptionsProvider(call.entries[i]) \in ProviderTypes
    BY <1>3, <1>4, OptionsProviderType
  <2> HIDE DEF O
  <2>4. \A i \in 1..Len(call.entries) : O[i] = OptionsProvider(call.entries[i])
    BY <2>1
  <2>5. O \in [1..Len(call.entries) -> ProviderTypes]
    BY <2>1, <2>3
  <2>6. /\ O \in Seq(ProviderTypes)
        /\ Range(O) = {O[i] : i \in 1..Len(call.entries)}
    BY <2>2, <2>5, ListType
  <2>7. DOMAIN call.entries = 1..Len(call.entries)
    BY <1>3
  <2> QED
    BY <2>4, <2>6, <2>7
<1>6. /\ C \in Seq(ProviderTypes)
      /\ Range(C) = {ConnectionProvider(call.entries[i].name) :
                       i \in DOMAIN call.entries}
  <2>1. C = [i \in 1..Len(call.entries) |->
               ConnectionProvider(call.entries[i].name)]
    BY <1>3 DEF ConnectionProviders
  <2>2. Len(call.entries) \in Nat
    BY <1>3
  <2>3. \A i \in 1..Len(call.entries) :
          ConnectionProvider(call.entries[i].name) \in ProviderTypes
    BY <1>3, <1>4, ConnectionProviderType
  <2> HIDE DEF C
  <2>4. \A i \in 1..Len(call.entries) : C[i] = ConnectionProvider(call.entries[i].name)
    BY <2>1
  <2>5. C \in [1..Len(call.entries) -> ProviderTypes]
    BY <2>1, <2>3
  <2>6. /\ C \in Seq(ProviderTypes)
        /\ Range(C) = {C[i] : i \in 1..Len(call.entries)}
    BY <2>2, <2>5, ListType
  <2>7. DOMAIN call.entries = 1..Len(call.entries)
    BY <1>3
  <2> QED
    BY <2>4, <2>6, <2>7
<1> HIDE DEF A, O, C
<1>7. /\ A \o Providers \in Seq(ProviderTypes)
      /\ (A \o Providers) \o O \in Seq(ProviderTypes)
      /\ Providers' \in Seq(ProviderTypes)
  BY <1>1, <1>2, <1>5, <1>6
<1>8. Range(Providers') = Range(A) \cup Range(Providers) \cup Range(O) \cup Range(C)
  <2>1. Range(A \o Providers) = Range(A) \cup Range(Providers)
    BY <1>1, <1>2, RangeOfConcat
  <2>2. Range((A \o Providers) \o O) = Range(A \o Providers) \cup Range(O)
    BY <1>5, <1>7, RangeOfConcat
  <2>3. Range(((A \o Providers) \o O) \o C)
          = Range((A \o Providers) \o O) \cup Range(C)
    BY <1>6, <1>7, RangeOfConcat
  <2> QED
    BY <1>1, <2>1, <2>2, <2>3
<1>9. Range(Providers)' = Range(Providers')
  BY DEF Range
<1>10. ASSUME NEW n, NEW p \in Lasts(Providers', <<"options", n>>)
       PROVE  \/ p \in Lasts(O, <<"options", n>>)
              \/ /\ p \in Lasts(Providers, <<"options", n>>)
                 /\ \A q \in Range(O) : q.token # <<"options", n>>
  <2> DEFINE t == <<"options", n>>
  <2>1. t[1] = "options"
    OBVIOUS
  <2> HIDE DEF t
  <2>2. p \in Lasts(C, t) \/ p \in Lasts((A \o Providers) \o O, t)
    BY <1>1, <1>6, <1>7, <1>10, LastsOfConcat DEF t
  <2>3. p \notin Lasts(C, t)
    <3>1. \A q \in Range(C) : q.token[1] = "connection"
      BY <1>4, <1>6, ConnectionProviderType
    <3> QED
      BY <2>1, <3>1, LastsAreThere
  <2>4. \/ p \in Lasts(O, t)
        \/ p \in Lasts(A \o Providers, t) /\ \A q \in Range(O) : q.token # t
    BY <1>5, <1>7, <2>2, <2>3, LastsOfConcat
  <2>5. p \in Lasts(A \o Providers, t) => p \in Lasts(Providers, t)
    <3>1. \A q \in Range(A) : q.token[1] = "module"
      BY <1>2, ModuleOptionsProviderType
    <3>2. p \notin Lasts(A, t)
      BY <2>1, <3>1, LastsAreThere
    <3> QED
      BY <1>1, <1>2, <3>2, LastsOfConcat
  <2> QED
    BY <2>4, <2>5 DEF t
<1>11. definition' \in Definitions
  <2> DEFINE list == Providers'
             flag == definition'.global
             exports == definition'.imports
  <2> HIDE DEF list, flag, exports
  <2>1. definition' = [global |-> flag, imports |-> exports, providers |-> list]
    BY <1>1 DEF list, flag, exports
  <2>2. /\ list \in Seq(ProviderTypes) /\ flag \in BOOLEAN
        /\ exports \subseteq Exports
    BY <1>1, <1>7 DEF list, flag, exports
  <2> QED
    BY <2>1, <2>2 DEF Definitions
<1> QED
  BY <1>1, <1>2, <1>5, <1>6, <1>8, <1>9, <1>10, <1>11 DEF O

(* And after forRootAsync().                                               *)
LEMMA ForRootAsyncAdds ==
  ASSUME definition \in Definitions,
         NEW call \in RootCalls, ForRootAsync(call), call.sources # {}
  PROVE  /\ definition' \in Definitions
         /\ definition'.imports = call.imports
         /\ Range(Providers)' = Range(Providers) \cup Range(AsyncProviders(call))
                                  \cup {ConnectionProvider(Default)}
         /\ \A n : \A p \in Lasts(Providers', <<"options", n>>) :
              \/ p \in Lasts(Providers, <<"options", n>>)
              \/ /\ p \in Lasts(AsyncProviders(call), <<"options", n>>)
                 /\ \A q \in Range(Providers) : q.token # <<"options", n>>
<1> DEFINE A == AsyncProviders(call)
           C == << ConnectionProvider(Default) >>
<1>1. /\ Providers \in Seq(ProviderTypes)
      /\ Providers' = (A \o Providers) \o C
      /\ definition' = [global |-> call.global, imports |-> call.imports,
                        providers |-> Providers']
      /\ call.form = "async"
  BY DEF ForRootAsync, Providers, Definitions
<1>2. A \in Seq(ProviderTypes)
  BY <1>1, AsyncProvidersType
<1>3. C \in Seq(ProviderTypes) /\ Range(C) = {ConnectionProvider(Default)}
  BY ConnectionProviderType, ConfigurationAssumption DEF Range
<1> HIDE DEF A, C
<1>4. A \o Providers \in Seq(ProviderTypes) /\ Providers' \in Seq(ProviderTypes)
  BY <1>1, <1>2, <1>3
<1>5. Range(Providers') = Range(A) \cup Range(Providers) \cup Range(C)
  <2>1. Range(A \o Providers) = Range(A) \cup Range(Providers)
    BY <1>1, <1>2, RangeOfConcat
  <2>2. Range((A \o Providers) \o C) = Range(A \o Providers) \cup Range(C)
    BY <1>3, <1>4, RangeOfConcat
  <2> QED
    BY <1>1, <2>1, <2>2
<1>6. Range(Providers)' = Range(Providers')
  BY DEF Range
<1>7. ASSUME NEW n, NEW p \in Lasts(Providers', <<"options", n>>)
      PROVE  \/ p \in Lasts(Providers, <<"options", n>>)
             \/ /\ p \in Lasts(A, <<"options", n>>)
                /\ \A q \in Range(Providers) : q.token # <<"options", n>>
  <2> DEFINE t == <<"options", n>>
  <2>1. t[1] = "options"
    OBVIOUS
  <2> HIDE DEF t
  <2>2. p \in Lasts(C, t) \/ p \in Lasts(A \o Providers, t)
    BY <1>1, <1>3, <1>4, <1>7, LastsOfConcat DEF t
  <2>3. p \notin Lasts(C, t)
    <3>1. \A q \in Range(C) : q.token[1] = "connection"
      BY <1>3, ConnectionProviderType, ConfigurationAssumption
    <3> QED
      BY <2>1, <3>1, LastsAreThere
  <2> QED
    BY <1>1, <1>2, <2>2, <2>3, LastsOfConcat DEF t
<1>8. definition' \in Definitions
  BY <1>1, <1>4, CallTypes DEF Definitions
<1> QED
  BY <1>1, <1>3, <1>5, <1>6, <1>7, <1>8 DEF A

-----------------------------------------------------------------------------
(* The entries of all calls, and whose options a connection gets.          *)

(* Entries are pairs of a call and a position in it.                        *)
LEMMA EntriesAre ==
  calls \in Seq(RootCalls) =>
    \A form : \A p \in Entries(form) :
      /\ p \in (1..Len(calls)) \X Nat
      /\ p = <<p[1], p[2]>>
      /\ p[2] \in DOMAIN calls[p[1]].entries
      /\ calls[p[1]].form \in form
      /\ Entry(p) \in ConnectionEntries
<1> SUFFICES ASSUME calls \in Seq(RootCalls),
                    NEW form, NEW p \in Entries(form)
             PROVE  /\ p \in (1..Len(calls)) \X Nat
                    /\ p = <<p[1], p[2]>>
                    /\ p[2] \in DOMAIN calls[p[1]].entries
                    /\ calls[p[1]].form \in form
                    /\ Entry(p) \in ConnectionEntries
  OBVIOUS
<1>1. PICK i \in DOMAIN calls :
        calls[i].form \in form /\ p \in {i} \X DOMAIN calls[i].entries
  BY DEF Entries
<1>2. i \in 1..Len(calls) /\ calls[i] \in RootCalls
  BY <1>1
<1>3. calls[i].entries \in Seq(ConnectionEntries)
  BY <1>2, CallTypes
<1>4. p[1] = i /\ p[2] \in DOMAIN calls[i].entries /\ p = <<p[1], p[2]>>
  BY <1>1
<1>5. p[2] \in Nat /\ calls[i].entries[p[2]] \in ConnectionEntries
  BY <1>3, <1>4
<1> QED
  BY <1>1, <1>2, <1>4, <1>5 DEF Entry

(* The calls of forRootAsync() when there is one call more.                *)
LEMMA AsyncCallsGrow ==
  ASSUME calls \in Seq(RootCalls), NEW call \in RootCalls,
         calls' = Append(calls, call), NEW new, new = Len(calls) + 1
  PROVE  /\ \A i \in AsyncCalls : i \in AsyncCalls' /\ calls'[i] = calls[i]
         /\ call.form # "async" => AsyncCalls' = AsyncCalls
         /\ call.form = "async" =>
              /\ new \in AsyncCalls' /\ calls'[new] = call
              /\ \A k : IsLastAsync(k)' => k = new
<1>1. /\ Len(calls) \in Nat /\ DOMAIN calls = 1..Len(calls)
      /\ DOMAIN calls' = 1..new
      /\ calls'[new] = call
      /\ \A i \in DOMAIN calls : calls'[i] = calls[i]
  OBVIOUS
<1>2. \A i \in 1..new : i = new \/ i \in DOMAIN calls
  BY <1>1
<1>3. \A i \in DOMAIN calls : i \in 1..new /\ i # new
  BY <1>1
<1>4. \A k \in 1..new : new <= k => k = new
  BY <1>1
<1> QED
  BY <1>1, <1>2, <1>3, <1>4 DEF AsyncCalls, IsLastAsync

(* Some forRootAsync() is the last one.                                    *)
LEMMA LastAsyncIs ==
  ASSUME calls \in Seq(RootCalls), AsyncCalls # {}
  PROVE  \E k : IsLastAsync(k)
<1>1. AsyncCalls \subseteq 1..Len(calls) /\ Len(calls) \in Nat
  BY DEF AsyncCalls
<1>2. \E m \in AsyncCalls : \A k \in AsyncCalls : k <= m
  BY <1>1, Greatest
<1> QED
  BY <1>2 DEF IsLastAsync

(* There is one last forRoot() of a name and one first forRootAsync().      *)
LEMMA GiverIs ==
  calls \in Seq(RootCalls) =>
    \A n, p :
      /\ IsLast(p, SyncFor(n)) => Giver(n) = Entry(p).options
      /\ SyncFor(n) = {} /\ IsFirst(p, Entries({"async"})) =>
           Giver(n) = Entry(p).options
<1> SUFFICES ASSUME calls \in Seq(RootCalls), NEW n, NEW p
             PROVE  /\ IsLast(p, SyncFor(n)) => Giver(n) = Entry(p).options
                    /\ SyncFor(n) = {} /\ IsFirst(p, Entries({"async"})) =>
                         Giver(n) = Entry(p).options
  OBVIOUS
<1>1. \A form : \A q \in Entries(form) :
        q = <<q[1], q[2]>> /\ q[1] \in Nat /\ q[2] \in Nat
  BY EntriesAre
<1>2. \A q \in SyncFor(n) :
        q = <<q[1], q[2]>> /\ q[1] \in Nat /\ q[2] \in Nat
  BY <1>1 DEF SyncFor
<1>3. ASSUME IsLast(p, SyncFor(n))
      PROVE  Giver(n) = Entry(p).options
  <2> DEFINE c == CHOOSE q \in SyncFor(n) :
                    \A r \in SyncFor(n) : AtOrAfter(q, r)
  <2>1. c \in SyncFor(n) /\ \A r \in SyncFor(n) : AtOrAfter(c, r)
    BY <1>3 DEF IsLast
  <2>2. Giver(n) = Entry(c).options
    BY <1>3 DEF Giver, IsLast
  <2> HIDE DEF c
  <2>3. AtOrAfter(c, p) /\ AtOrAfter(p, c) /\ p \in SyncFor(n)
    BY <1>3, <2>1 DEF IsLast
  <2>4. c[1] = p[1] /\ c[2] = p[2]
    BY <1>2, <2>1, <2>3 DEF AtOrAfter
  <2>5. c = p
    BY <1>2, <2>1, <2>3, <2>4
  <2> QED
    BY <2>2, <2>5
<1>4. ASSUME SyncFor(n) = {}, IsFirst(p, Entries({"async"}))
      PROVE  Giver(n) = Entry(p).options
  <2> DEFINE S == Entries({"async"})
             c == CHOOSE q \in S : \A r \in S : AtOrAfter(r, q)
  <2>1. c \in S /\ \A r \in S : AtOrAfter(r, c)
    BY <1>4 DEF IsFirst
  <2>2. Giver(n) = Entry(c).options
    BY <1>4 DEF Giver
  <2> HIDE DEF c
  <2>3. AtOrAfter(c, p) /\ AtOrAfter(p, c) /\ p \in S
    BY <1>4, <2>1 DEF IsFirst
  <2> HIDE DEF S
  <2>4. \A q \in S : q = <<q[1], q[2]>> /\ q[1] \in Nat /\ q[2] \in Nat
    BY <1>1 DEF S
  <2>5. c[1] = p[1] /\ c[2] = p[2]
    BY <2>1, <2>3, <2>4 DEF AtOrAfter
  <2>6. c = p
    BY <2>1, <2>3, <2>4, <2>5
  <2> QED
    BY <2>2, <2>6
<1> QED
  BY <1>3, <1>4

(* A call adds its own entries.                                             *)
LEMMA EntriesGrow ==
  ASSUME calls \in Seq(RootCalls), NEW call \in RootCalls,
         calls' = Append(calls, call), NEW new, new = Len(calls) + 1
  PROVE  /\ calls' \in Seq(RootCalls)
         /\ \A form, p :
              p \in Entries(form)' <=>
                \/ p \in Entries(form)
                \/ call.form \in form /\ p \in {new} \X DOMAIN call.entries
         /\ \A form : \A p \in Entries(form) : Entry(p)' = Entry(p)
         /\ \A i \in DOMAIN call.entries :
              Entry(<<new, i>>)' = call.entries[i]
<1>1. /\ calls' \in Seq(RootCalls) /\ Len(calls) \in Nat
      /\ DOMAIN calls = 1..Len(calls)
      /\ DOMAIN calls' = 1..new
      /\ calls'[new] = call
      /\ \A i \in DOMAIN calls : calls'[i] = calls[i]
  OBVIOUS
<1>2. DOMAIN calls' = DOMAIN calls \cup {new}
  BY <1>1
<1>3. ASSUME NEW form, NEW p
      PROVE  p \in Entries(form)' <=>
               \/ p \in Entries(form)
               \/ call.form \in form /\ p \in {new} \X DOMAIN call.entries
  <2>1. p \in Entries(form)' <=>
          \E i \in DOMAIN calls' :
            calls'[i].form \in form /\ p \in {i} \X DOMAIN calls'[i].entries
    BY DEF Entries
  <2>2. p \in Entries(form) <=>
          \E i \in DOMAIN calls :
            calls[i].form \in form /\ p \in {i} \X DOMAIN calls[i].entries
    BY DEF Entries
  <2> QED
    BY <1>1, <1>2, <2>1, <2>2
<1>4. ASSUME NEW form, NEW p \in Entries(form)
      PROVE  Entry(p)' = Entry(p)
  <2>1. p[1] \in DOMAIN calls
    BY <1>1, EntriesAre
  <2> QED
    BY <1>1, <2>1 DEF Entry
<1>5. ASSUME NEW i \in DOMAIN call.entries
      PROVE  Entry(<<new, i>>)' = call.entries[i]
  BY <1>1 DEF Entry
<1> QED
  BY <1>1, <1>3, <1>4, <1>5

(* And those of a forRoot() that have the name are the last for it.         *)
LEMMA SyncForGrows ==
  ASSUME calls \in Seq(RootCalls), NEW call \in RootCalls,
         calls' = Append(calls, call), NEW new, new = Len(calls) + 1,
         NEW n, NEW p
  PROVE  p \in SyncFor(n)' <=>
           \/ p \in SyncFor(n)
           \/ /\ call.form \in Synchronous
              /\ p \in {new} \X Naming(call.entries, n)
<1>1. p \in SyncFor(n)' <=> p \in Entries(Synchronous)' /\ Entry(p)'.name = n
  BY DEF SyncFor
<1>2. p \in SyncFor(n) <=> p \in Entries(Synchronous) /\ Entry(p).name = n
  BY DEF SyncFor
<1>3. p \in Entries(Synchronous)' <=>
        \/ p \in Entries(Synchronous)
        \/ call.form \in Synchronous /\ p \in {new} \X DOMAIN call.entries
  BY EntriesGrow
<1>4. p \in Entries(Synchronous) => Entry(p)' = Entry(p)
  BY EntriesGrow
<1>5. ASSUME p \in {new} \X DOMAIN call.entries
      PROVE  /\ Entry(p)'.name = n <=> p \in {new} \X Naming(call.entries, n)
  <2>1. PICK i \in DOMAIN call.entries : p = <<new, i>>
    BY <1>5
  <2>2. Entry(p)' = call.entries[i]
    BY <2>1, EntriesGrow
  <2> QED
    BY <2>1, <2>2 DEF Naming
<1>6. p \in {new} \X Naming(call.entries, n) => p \in {new} \X DOMAIN call.entries
  BY DEF Naming
<1> QED
  BY <1>1, <1>2, <1>3, <1>4, <1>5, <1>6

(* A call takes over the names that its entries have.                      *)
LEMMA GiversGrow ==
  ASSUME calls \in Seq(RootCalls), GiversExist, NEW call \in RootCalls,
         calls' = Append(calls, call), NEW new, new = Len(calls) + 1
  PROVE  /\ GiversExist'
         /\ \A n \in Names :
              IF call.form \in Synchronous /\ Naming(call.entries, n) # {}
                THEN /\ SyncFor(n)' # {}
                     /\ Giver(n)' =
                          call.entries[LastNaming(call.entries, n)].options
                ELSE /\ SyncFor(n)' = SyncFor(n)
                     /\ SyncFor(n) # {} \/ Entries({"async"}) # {} =>
                          Giver(n)' = Giver(n)
                     /\ /\ SyncFor(n) = {} /\ Entries({"async"}) = {}
                        /\ call.form = "async"
                        => Giver(n)' = call.entries[1].options
         /\ Entries({"async"})' # {} <=>
              Entries({"async"}) # {} \/ call.form = "async"
<1> DEFINE A == Entries({"async"})
<1>1. /\ calls' \in Seq(RootCalls) /\ Len(calls) \in Nat
      /\ call.entries \in Seq(ConnectionEntries)
      /\ call.form = "async" => DOMAIN call.entries = {1}
  <2>1. call.form = "async" => Len(call.entries) = 1
    BY CallTypes
  <2>2. DOMAIN call.entries = 1..Len(call.entries)
    BY CallTypes
  <2>3. calls' \in Seq(RootCalls) /\ Len(calls) \in Nat
    OBVIOUS
  <2>4. call.form = "async" => DOMAIN call.entries = {1}
    <3>1. 1..1 = {1}
      OBVIOUS
    <3> QED
      BY <2>1, <2>2, <3>1
  <2> QED
    BY <2>3, <2>4, CallTypes
<1>2. /\ \A n : \A p \in SyncFor(n) : p[1] \in 1..Len(calls)
      /\ \A p \in A : p[1] \in 1..Len(calls)
  BY EntriesAre DEF SyncFor
<1>3. \A n, p : IsLast(p, SyncFor(n)') => Giver(n)' = Entry(p)'.options
  <2>1. (calls \in Seq(RootCalls) =>
           \A n, p :
             /\ IsLast(p, SyncFor(n)) => Giver(n) = Entry(p).options
             /\ SyncFor(n) = {} /\ IsFirst(p, Entries({"async"})) =>
                  Giver(n) = Entry(p).options)'
    BY GiverIs, PTL
  <2> QED
    BY <1>1, <2>1 DEF IsLast, AtOrAfter
<1>4. \A n, p : SyncFor(n)' = {} /\ IsFirst(p, A') => Giver(n)' = Entry(p)'.options
  <2>1. (calls \in Seq(RootCalls) =>
           \A n, p :
             /\ IsLast(p, SyncFor(n)) => Giver(n) = Entry(p).options
             /\ SyncFor(n) = {} /\ IsFirst(p, Entries({"async"})) =>
                  Giver(n) = Entry(p).options)'
    BY GiverIs, PTL
  <2> QED
    BY <1>1, <2>1 DEF IsFirst, AtOrAfter
<1>5. ASSUME NEW n \in Names, call.form \in Synchronous,
             Naming(call.entries, n) # {}
      PROVE  \E p \in SyncFor(n)' :
               /\ IsLast(p, SyncFor(n)')
               /\ Entry(p)' = call.entries[LastNaming(call.entries, n)]
  <2> DEFINE i == LastNaming(call.entries, n)
             p == <<new, i>>
  <2>1. i \in Naming(call.entries, n) /\ i \in Nat
        /\ \A j \in Naming(call.entries, n) : j <= i
    BY <1>1, <1>5, LastNamingIs DEF Naming
  <2>2. Entry(p)' = call.entries[i]
    BY <2>1, EntriesGrow DEF Naming
  <2> HIDE DEF i
  <2>3. p \in SyncFor(n)'
    BY <1>5, <2>1, SyncForGrows
  <2>4. \A q \in SyncFor(n)' : AtOrAfter(p, q)
    <3> TAKE q \in SyncFor(n)'
    <3>1. CASE q \in SyncFor(n)
      BY <1>1, <1>2, <3>1 DEF AtOrAfter
    <3>2. CASE q \in {new} \X Naming(call.entries, n)
      <4>1. q[1] = new /\ q[2] \in Naming(call.entries, n)
        BY <3>2
      <4>2. q[2] <= i
        BY <2>1, <4>1
      <4>3. q[2] \in Nat
        BY <1>1, <4>1 DEF Naming
      <4> QED
        BY <1>1, <2>1, <4>1, <4>2, <4>3 DEF AtOrAfter
    <3> QED
      BY <3>1, <3>2, SyncForGrows
  <2> QED
    BY <2>2, <2>3, <2>4 DEF IsLast, i
<1>6. ASSUME NEW n \in Names,
             ~(call.form \in Synchronous /\ Naming(call.entries, n) # {})
      PROVE  SyncFor(n)' = SyncFor(n)
  <2>1. \A p : p \in SyncFor(n)' <=> p \in SyncFor(n)
    BY <1>6, SyncForGrows
  <2> QED
    BY <2>1
<1>7. ASSUME NEW n \in Names, SyncFor(n)' = SyncFor(n), SyncFor(n) # {}
      PROVE  \E p \in SyncFor(n)' :
               IsLast(p, SyncFor(n)') /\ Giver(n)' = Giver(n)
  <2>1. PICK p \in SyncFor(n) : IsLast(p, SyncFor(n))
    BY <1>7 DEF GiversExist
  <2>2. Giver(n) = Entry(p).options
    BY <2>1, GiverIs
  <2>3. IsLast(p, SyncFor(n)')
    BY <1>7, <2>1
  <2>4. Giver(n)' = Entry(p)'.options
    BY <1>3, <2>3
  <2>5. Entry(p)' = Entry(p)
    BY <2>1, EntriesGrow DEF SyncFor
  <2> QED
    BY <1>7, <2>1, <2>2, <2>3, <2>4, <2>5
<1>8. \A p : p \in A' <=> p \in A \/ (call.form = "async" /\ p = <<new, 1>>)
  <2>1. \A p : p \in A' <=>
          p \in A \/ (call.form \in {"async"} /\ p \in {new} \X DOMAIN call.entries)
    BY EntriesGrow
  <2>2. call.form = "async" =>
          \A p : p \in {new} \X DOMAIN call.entries <=> p = <<new, 1>>
    BY <1>1
  <2> HIDE DEF A
  <2> QED
    BY <2>1, <2>2
<1>9. ASSUME A # {}
      PROVE  \E p \in A' : IsFirst(p, A') /\
               \A n : SyncFor(n) = {} /\ SyncFor(n)' = {} => Giver(n)' = Giver(n)
  <2>1. PICK p \in A : IsFirst(p, A)
    BY <1>9 DEF GiversExist
  <2>2. p \in A' /\ Entry(p)' = Entry(p)
    BY <1>8, EntriesGrow
  <2>3. \A q \in A' : AtOrAfter(q, p)
    <3> TAKE q \in A'
    <3>1. CASE q \in A
      BY <2>1, <3>1 DEF IsFirst
    <3>2. CASE q = <<new, 1>>
      BY <1>1, <1>2, <3>2 DEF AtOrAfter
    <3> QED
      BY <1>8, <3>1, <3>2
  <2>4. IsFirst(p, A')
    BY <2>2, <2>3 DEF IsFirst
  <2>5. \A n : SyncFor(n) = {} => Giver(n) = Entry(p).options
    BY <2>1, GiverIs
  <2> HIDE DEF A
  <2> QED
    BY <1>4, <2>2, <2>4, <2>5
<1>10. ASSUME A = {}, call.form = "async"
       PROVE  \E p \in A' : IsFirst(p, A') /\
                \A n : SyncFor(n)' = {} => Giver(n)' = call.entries[1].options
  <2> DEFINE p == <<new, 1>>
  <2>1. \A q : q \in A' <=> q = p
    BY <1>8, <1>10
  <2>2. AtOrAfter(p, p)
    BY <1>1 DEF AtOrAfter
  <2>3. IsFirst(p, A')
    BY <2>1, <2>2 DEF IsFirst
  <2>4. Entry(p)' = call.entries[1]
    BY <1>1, <1>10, EntriesGrow
  <2> HIDE DEF A, p
  <2> QED
    BY <1>4, <2>1, <2>3, <2>4
<1>11. GiversExist'
  <2>1. ASSUME NEW n \in Names, SyncFor(n)' # {}
        PROVE  \E p \in SyncFor(n)' : IsLast(p, SyncFor(n)')
    BY <1>5, <1>6, <1>7, <2>1
  <2>2. A' # {} => \E p \in A' : IsFirst(p, A')
    <3>1. A' # {} => A # {} \/ call.form = "async"
      BY <1>8
    <3> HIDE DEF A
    <3> QED
      BY <1>9, <1>10, <3>1
  <2>3. \A n \in Names : SyncFor(n)' # {} =>
          \E p \in SyncFor(n)' : IsLast(p, SyncFor(n)')
    BY <2>1
  <2> QED
    BY <2>2, <2>3 DEF GiversExist, IsLast, IsFirst, AtOrAfter
<1>12. A' # {} <=> A # {} \/ call.form = "async"
  BY <1>8
<1>13. ASSUME NEW n \in Names
       PROVE  IF call.form \in Synchronous /\ Naming(call.entries, n) # {}
                THEN /\ SyncFor(n)' # {}
                     /\ Giver(n)' =
                          call.entries[LastNaming(call.entries, n)].options
                ELSE /\ SyncFor(n)' = SyncFor(n)
                     /\ SyncFor(n) # {} \/ A # {} => Giver(n)' = Giver(n)
                     /\ SyncFor(n) = {} /\ A = {} /\ call.form = "async"
                          => Giver(n)' = call.entries[1].options
  <2>1. CASE call.form \in Synchronous /\ Naming(call.entries, n) # {}
    BY <1>3, <1>5, <2>1
  <2>2. CASE ~(call.form \in Synchronous /\ Naming(call.entries, n) # {})
    <3>1. SyncFor(n)' = SyncFor(n)
      BY <1>6, <2>2
    <3>2. SyncFor(n) # {} => Giver(n)' = Giver(n)
      BY <1>7, <3>1
    <3>3. SyncFor(n) = {} /\ A # {} => Giver(n)' = Giver(n)
      BY <1>9, <3>1
    <3>4. SyncFor(n) = {} /\ A = {} /\ call.form = "async"
            => Giver(n)' = call.entries[1].options
      BY <1>10, <3>1
    <3> HIDE DEF A
    <3> QED
      BY <2>2, <3>1, <3>2, <3>3, <3>4
  <2> QED
    BY <2>1, <2>2
<1> QED
  BY <1>11, <1>12, <1>13

(* No empty name after a call: none before it and none in it.               *)
LEMMA EmptyNamesGrow ==
  ASSUME calls \in Seq(RootCalls), NEW call \in RootCalls,
         calls' = Append(calls, call), ~EmptyNames'
  PROVE  /\ ~EmptyNames
         /\ \A i \in DOMAIN call.entries :
              call.entries[i] \in ConnectionEntries /\ call.entries[i].name # Empty
<1> PICK new : new = Len(calls) + 1
  OBVIOUS
<1>1. \A p \in Entries({"array"}) :
        p \in Entries({"array"})' /\ Entry(p)' = Entry(p)
  BY EntriesGrow
<1>2. ~EmptyNames
  BY <1>1 DEF EmptyNames
<1>3. call.entries \in Seq(ConnectionEntries)
  BY CallTypes
<1>4. ASSUME NEW i \in DOMAIN call.entries
      PROVE  call.entries[i].name # Empty
  <2>1. CASE call.form = "array"
    <3>1. <<new, i>> \in Entries({"array"})'
      BY <2>1, EntriesGrow
    <3>2. Entry(<<new, i>>)' = call.entries[i]
      BY EntriesGrow
    <3> QED
      BY <3>1, <3>2 DEF EmptyNames
  <2>2. CASE call.form # "array"
    <3>1. Len(call.entries) = 1 /\ call.entries[1].name = Default
      BY <2>2, CallTypes
    <3>2. i = 1
      BY <1>3, <3>1
    <3> QED
      BY <3>1, <3>2, ConfigurationAssumption
  <2> QED
    BY <2>1, <2>2
<1>5. \A i \in DOMAIN call.entries : call.entries[i] \in ConnectionEntries
  BY <1>3
<1> QED
  BY <1>2, <1>4, <1>5

(* Before the providers are resolved much has not happened yet.            *)
LEMMA NothingYet ==
  ASSUME StartInv, stage \in {"importing"}, stage' \in {"importing", "noSource"},
         UNCHANGED <<connections, unopened, resolved>>,
         UNCHANGED <<app, explored, position, receivers>>
  PROVE  /\ StagesInOrder'
         /\ ResolvedStored' /\ ResolvedConnected' /\ OpenedAsStored'
         /\ ExceptionIsThrown'
         /\ DiscoveredAll' /\ FailedAsSaid' /\ FirstServes'
         /\ IsStorage(connections') /\ unopened' \subseteq DOMAIN connections'
         /\ resolved' = {} /\ stage' \in {"importing", "noSource"}
         /\ explored' \in Seq(ListenerMetadata)
         /\ position' \in 0..(Len(explored') + 1)
         /\ receivers' \in [DOMAIN receivers' ->
                              [listener : ListenerMetadata, bound : DOMAIN app']]
<1>1. /\ DOMAIN connections' = {} /\ unopened' = {} /\ resolved' = {}
      /\ DOMAIN receivers' = {}
  BY DEF StartInv, StagesInOrder
<1>2. StagesInOrder'
  BY <1>1 DEF StagesInOrder
<1>3. ResolvedStored' /\ ResolvedConnected' /\ OpenedAsStored'
  BY <1>1 DEF ResolvedStored, ResolvedConnected, OpenedAsStored
<1>4. ExceptionIsThrown'
  BY <1>1 DEF ExceptionIsThrown
<1>5. DiscoveredAll' /\ FailedAsSaid' /\ FirstServes'
  BY DEF DiscoveredAll, FailedAsSaid, FirstServes, Discovering
<1>6. StartTypes
  BY DEF StartInv
<1> QED
  BY <1>1, <1>2, <1>3, <1>4, <1>5, <1>6 DEF StartTypes

(* A provider whose options n gets is named n.                             *)
LEMMA NamedFor ==
  ASSUME NEW entry \in ConnectionEntries, entry.name # Empty, NEW n
  PROVE  OptionsProvider(entry).token = <<"options", n>> <=> entry.name = n
<1>1. entry.name \in Names
  BY DEF ConnectionEntries
<1>2. OptionsProvider(entry).token = <<"options", entry.name>>
  BY <1>1, OptionsProviderType, TokenIs
<1> QED
  BY <1>2

(* The last provider that forRoot() adds for a name is of its last entry.   *)
LEMMA LastOfEntries ==
  ASSUME NEW entries \in Seq(ConnectionEntries),
         \A i \in DOMAIN entries : entries[i].name # Empty,
         NEW n, NEW p \in Lasts(OptionsProviders(entries), <<"options", n>>)
  PROVE  /\ Naming(entries, n) # {}
         /\ p = OptionsProvider(entries[LastNaming(entries, n)])
<1> DEFINE O == OptionsProviders(entries)
<1>1. \A i \in DOMAIN entries : entries[i] \in ConnectionEntries
  OBVIOUS
<1>2. /\ DOMAIN O = DOMAIN entries
      /\ \A i \in DOMAIN entries : O[i] = OptionsProvider(entries[i])
  BY DEF OptionsProviders
<1> HIDE DEF O
<1>3. \A i \in DOMAIN entries :
        O[i].token = <<"options", n>> <=> i \in Naming(entries, n)
  BY <1>1, <1>2, NamedFor DEF Naming
<1>4. PICK i \in DOMAIN O :
        /\ p = O[i] /\ O[i].token = <<"options", n>>
        /\ \A k \in DOMAIN O : O[k].token = <<"options", n>> => k <= i
  BY DEF Lasts, O
<1>5. i \in Naming(entries, n) /\ \A k \in Naming(entries, n) : k <= i
  BY <1>2, <1>3, <1>4 DEF Naming
<1>6. /\ LastNaming(entries, n) \in Naming(entries, n)
      /\ i <= LastNaming(entries, n)
  BY <1>5, LastNamingIs
<1>7. LastNaming(entries, n) <= i
  BY <1>5, <1>6
<1>8. Naming(entries, n) \subseteq Nat
  BY DEF Naming
<1>9. LastNaming(entries, n) = i
  BY <1>5, <1>6, <1>7, <1>8
<1> QED
  BY <1>2, <1>4, <1>5, <1>9

(* forRoot(): its providers come last, and its options are stored last.     *)
LEMMA ForRootKeeps ==
  ASSUME StartInv, stage = "importing",
         NEW call \in RootCalls, ForRoot(call), calls' = Append(calls, call),
         UNCHANGED <<connections, unopened, resolved>>,
         UNCHANGED <<app, explored, position, receivers>>
  PROVE  StartInv'
<1> DEFINE entries == call.entries
<1> PICK new : new = Len(calls) + 1
  OBVIOUS
<1>1. /\ StartTypes /\ GiversExist /\ TokensNamed /\ NeedsProvided
      /\ EntriesProvided /\ NoProviderUnnamed /\ LastProviderGives /\ SyncStored
      /\ InjectsImported
      /\ calls \in Seq(RootCalls)
      /\ definition \in Definitions
      /\ IsStorage(storedOptions)
  BY DEF StartInv, StartTypes
<1>2. stage' = "importing" /\ call.form \in Synchronous
      /\ storedOptions' = AllStored(storedOptions, entries)
  BY CallTypes DEF ForRoot, AllForms
<1>3. /\ entries \in Seq(ConnectionEntries)
      /\ \A i \in DOMAIN entries :
           entries[i] \in ConnectionEntries /\ entries[i].name \in Names
  <2>1. entries \in Seq(ConnectionEntries)
    BY CallTypes
  <2>2. \A i \in DOMAIN entries : entries[i] \in ConnectionEntries
    BY <2>1
  <2> QED
    BY <2>1, <2>2 DEF ConnectionEntries
<1>4. IsStorage(storedOptions')
  BY <1>1, <1>2, <1>3, AllStoredIs
<1>5. definition' \in Definitions
  BY <1>1, ForRootAdds
<1>6. /\ \A p \in Range(Providers)' :
           \/ p \in Range(Providers) \/ p = ModuleOptionsProvider
           \/ \E i \in DOMAIN entries :
                \/ p = OptionsProvider(entries[i])
                \/ p = ConnectionProvider(entries[i].name)
      /\ Range(Providers) \subseteq Range(Providers)'
      /\ \A i \in DOMAIN entries :
           /\ OptionsProvider(entries[i]) \in Range(Providers)'
           /\ ConnectionProvider(entries[i].name) \in Range(Providers)'
  BY <1>1, ForRootAdds
<1>7. calls' \in Seq(RootCalls)
  BY <1>1
<1>8. StartTypes'
  BY <1>2, <1>4, <1>5, <1>7, NothingYet DEF StartTypes, Providers
<1>9. GiversExist'
  BY <1>1, GiversGrow
<1>10. TokensNamed'
  <2>1. \A i \in DOMAIN entries :
          /\ WellNamed(OptionsProvider(entries[i]))
          /\ WellNamed(ConnectionProvider(entries[i].name))
    BY <1>3, OptionsProviderType, ConnectionProviderType
  <2>2. \A p \in Range(Providers) : WellNamed(p)
    BY <1>1 DEF TokensNamed
  <2>3. \A p \in Range(Providers)' : WellNamed(p)
    BY <1>6, <2>1, <2>2, ModuleOptionsProviderType
  <2> QED
    BY <2>3 DEF TokensNamed
<1>11. \A t : Provided(t) => Provided(t)'
  BY <1>6 DEF Provided
<1>12. TwoSources => TwoSources'
  BY <1>1 DEF TwoSources
<1>13. NeedsProvided'
  <2> SUFFICES ASSUME NEW p \in Range(Providers)', NEW t \in p.needs
               PROVE  Provided(t)' \/ TwoSources'
    BY DEF NeedsProvided
  <2>1. CASE p \in Range(Providers)
    BY <1>1, <1>11, <1>12, <2>1 DEF NeedsProvided
  <2>2. CASE p = ModuleOptionsProvider
    BY <2>2, ModuleOptionsProviderType
  <2>3. ASSUME NEW i \in DOMAIN entries,
               \/ p = OptionsProvider(entries[i])
               \/ p = ConnectionProvider(entries[i].name)
        PROVE  Provided(t)'
    <3>1. t = Token("options", entries[i].name)
      BY <1>3, <2>3, OptionsProviderType, ConnectionProviderType
    <3>2. OptionsProvider(entries[i]).token = t
      BY <1>3, <3>1, OptionsProviderType
    <3> QED
      BY <1>6, <3>2 DEF Provided
  <2> QED
    BY <1>6, <2>1, <2>2, <2>3
<1>14. EntriesProvided'
  <2> SUFFICES ASSUME NEW p \in Entries(AllForms)', NEW n,
                      n = Entry(p)'.name
               PROVE  /\ Provided(Token("options", n))'
                      /\ Provided(Token("connection", n))'
    BY DEF EntriesProvided, Provided, Token
  <2>1. CASE p \in Entries(AllForms)
    <3>1. /\ Provided(Token("options", Entry(p).name))
          /\ Provided(Token("connection", Entry(p).name))
      BY <1>1, <2>1 DEF EntriesProvided
    <3>2. Entry(p)' = Entry(p)
      BY <1>1, <2>1, EntriesGrow
    <3> QED
      BY <1>11, <3>1, <3>2
  <2>2. CASE p \in {new} \X DOMAIN entries
    <3>1. PICK i \in DOMAIN entries : p = <<new, i>>
      BY <2>2
    <3>2. Entry(p)' = entries[i]
      BY <1>1, <3>1, EntriesGrow
    <3>3. /\ ConnectionProvider(entries[i].name).token
               = Token("connection", entries[i].name)
          /\ OptionsProvider(entries[i]).token
               = Token("options", entries[i].name)
      BY <1>3, ConnectionProviderType, OptionsProviderType
    <3> QED
      BY <1>6, <3>2, <3>3 DEF Provided
  <2> QED
    BY <1>1, <2>1, <2>2, EntriesGrow
<1>15. ASSUME ~EmptyNames'
       PROVE  /\ ~EmptyNames
              /\ \A i \in DOMAIN entries : entries[i].name # Empty
  BY <1>1, <1>15, EmptyNamesGrow
<1>16. NoProviderUnnamed'
  <2> SUFFICES ASSUME ~EmptyNames', NEW p \in Range(Providers)'
               PROVE  p.name # Empty
    BY DEF NoProviderUnnamed
  <2>1. CASE p \in Range(Providers)
    BY <1>1, <1>15, <2>1 DEF NoProviderUnnamed
  <2>2. CASE p = ModuleOptionsProvider
    BY <2>2, ModuleOptionsProviderType, ConfigurationAssumption
  <2>3. ASSUME NEW i \in DOMAIN entries,
               \/ p = OptionsProvider(entries[i])
               \/ p = ConnectionProvider(entries[i].name)
        PROVE  p.name # Empty
    BY <1>3, <1>15, <2>3, OptionsProviderType, ConnectionProviderType
  <2> QED
    BY <1>6, <2>1, <2>2, <2>3
<1>17. ASSUME NEW n \in Names
       PROVE  IF Naming(entries, n) # {}
                THEN /\ SyncFor(n)' # {}
                     /\ Giver(n)' = entries[LastNaming(entries, n)].options
                ELSE /\ SyncFor(n)' = SyncFor(n)
                     /\ SyncFor(n) # {} \/ Entries({"async"}) # {} =>
                          Giver(n)' = Giver(n)
  BY <1>1, <1>2, GiversGrow
<1>18. Entries({"async"}) # {} => Entries({"async"})' # {}
  BY <1>1, GiversGrow
<1>19. LastProviderGives'
  <2> SUFFICES ASSUME ~EmptyNames', NEW n \in Names \ {Empty},
                      NEW p \in Lasts(Providers', <<"options", n>>)
               PROVE  IF SyncFor(n)' # {}
                        THEN ~p.async /\ p.options = Kept(Giver(n)')
                        ELSE /\ p.async /\ p.options = Giver(n)'
                             /\ Entries({"async"})' # {}
    BY DEF LastProviderGives, Lasts, Kept
  <2>1. \/ p \in Lasts(OptionsProviders(entries), <<"options", n>>)
        \/ /\ p \in Lasts(Providers, <<"options", n>>)
           /\ \A i \in DOMAIN entries :
                OptionsProvider(entries[i]).token # <<"options", n>>
    BY <1>1, ForRootAdds
  <2>2. CASE p \in Lasts(OptionsProviders(entries), <<"options", n>>)
    <3>1. /\ Naming(entries, n) # {}
          /\ p = OptionsProvider(entries[LastNaming(entries, n)])
      BY <1>3, <1>15, <2>2, LastOfEntries
    <3>2. LastNaming(entries, n) \in DOMAIN entries
      BY <1>3, <3>1, LastNamingIs DEF Naming
    <3> QED
      BY <1>3, <1>17, <3>1, <3>2, OptionsProviderType
  <2>3. CASE /\ p \in Lasts(Providers, <<"options", n>>)
             /\ \A i \in DOMAIN entries :
                  OptionsProvider(entries[i]).token # <<"options", n>>
    <3>1. Naming(entries, n) = {}
      BY <1>3, <1>15, <2>3, NamedFor DEF Naming
    <3>2. IF SyncFor(n) # {}
            THEN ~p.async /\ p.options = Kept(Giver(n))
            ELSE p.async /\ p.options = Giver(n) /\ Entries({"async"}) # {}
      BY <1>1, <1>15, <2>3 DEF LastProviderGives
    <3> QED
      BY <1>17, <1>18, <3>1, <3>2
  <2> QED
    BY <2>1, <2>2, <2>3
<1>20. SyncStored'
  <2> SUFFICES ASSUME ~EmptyNames', NEW n \in Names, SyncFor(n)' # {}
               PROVE  /\ n \in DOMAIN storedOptions'
                      /\ storedOptions'[n] = Kept(Giver(n)')
    BY DEF SyncStored, Kept
  <2>1. CASE Naming(entries, n) # {}
    BY <1>1, <1>2, <1>3, <1>17, <2>1, AllStoredIs
  <2>2. CASE Naming(entries, n) = {}
    <3>1. /\ n \in DOMAIN storedOptions /\ storedOptions[n] = Kept(Giver(n))
          /\ Giver(n)' = Giver(n)
      BY <1>1, <1>15, <1>17, <2>2 DEF SyncStored
    <3> QED
      BY <1>1, <1>2, <1>3, <2>2, <3>1, AllStoredIs
  <2> QED
    BY <2>1, <2>2
<1>21. InjectsImported'
  <2>1. /\ AsyncCalls' = AsyncCalls
        /\ \A i \in AsyncCalls : calls'[i] = calls[i]
    BY <1>1, <1>2, AsyncCallsGrow DEF Synchronous
  <2>2. definition'.imports = definition.imports
    BY <1>1, ForRootAdds
  <2>3. \A p \in Range(Providers)' :
          p.injects # {} => p \in Range(Providers)
    BY <1>3, <1>6, ModuleOptionsProviderType, OptionsProviderType,
       ConnectionProviderType
  <2>4. /\ \A p \in Range(Providers) :
             p.injects # {} => \E i \in AsyncCalls : p.injects = calls[i].injects
        /\ \A k : IsLastAsync(k) => definition.imports = calls[k].imports
    BY <1>1 DEF InjectsImported
  <2>5. \A p \in Range(Providers)' :
          p.injects # {} => \E i \in AsyncCalls : p.injects = calls'[i].injects
    BY <2>1, <2>3, <2>4
  <2>6. \A k : IsLastAsync(k)' => definition'.imports = calls'[k].imports
    BY <2>1, <2>2, <2>4 DEF IsLastAsync
  <2> QED
    BY <2>1, <2>5, <2>6 DEF InjectsImported
<1> QED
  BY <1>2, <1>8, <1>9, <1>10, <1>13, <1>14, <1>16, <1>19, <1>20, <1>21,
     NothingYet
     DEF StartInv

(* forRootAsync(): its providers come first, so that they count only if     *)
(* there were none of the default connection.                               *)
LEMMA ForRootAsyncKeeps ==
  ASSUME StartInv, stage = "importing",
         NEW call \in RootCalls, ForRootAsync(call), calls' = Append(calls, call),
         UNCHANGED <<connections, unopened, resolved>>,
         UNCHANGED <<app, explored, position, receivers>>
  PROVE  StartInv'
<1> PICK new : new = Len(calls) + 1
  OBVIOUS
<1>1. /\ StartTypes /\ GiversExist /\ TokensNamed /\ NeedsProvided
      /\ EntriesProvided /\ NoProviderUnnamed /\ LastProviderGives /\ SyncStored
      /\ InjectsImported
      /\ calls \in Seq(RootCalls)
      /\ definition \in Definitions
      /\ IsStorage(storedOptions)
  BY DEF StartInv, StartTypes
<1>2. /\ stage' \in {"importing", "noSource"} /\ call.form = "async"
      /\ call.form \notin Synchronous
      /\ storedOptions' = storedOptions
      /\ stage' = "noSource" <=> call.sources = {}
  BY DEF ForRootAsync, Synchronous
<1>3. calls' \in Seq(RootCalls)
  BY <1>1
<1>4. ASSUME NEW n \in Names
      PROVE  /\ SyncFor(n)' = SyncFor(n)
             /\ SyncFor(n) # {} \/ Entries({"async"}) # {} => Giver(n)' = Giver(n)
             /\ /\ SyncFor(n) = {} /\ Entries({"async"}) = {}
                => Giver(n)' = call.entries[1].options
  BY <1>1, <1>2, GiversGrow
<1>5. GiversExist' /\ Entries({"async"})' # {}
  BY <1>1, <1>2, GiversGrow
<1>6. ~EmptyNames' => ~EmptyNames
  BY <1>1, EmptyNamesGrow
<1>7. TwoSources => TwoSources'
  BY <1>1 DEF TwoSources
<1>8. SyncStored'
  BY <1>1, <1>2, <1>4, <1>6 DEF SyncStored, Kept
<1>11. IsStorage(storedOptions')
  BY <1>1, <1>2
<1>9. CASE call.sources = {}
  <2>1. definition' = definition /\ stage' = "noSource"
    BY <1>9 DEF ForRootAsync
  <2>2. StartTypes'
    BY <1>1, <1>2, <1>3, <1>11, <2>1, NothingYet
       DEF StartTypes, Providers, Failures
  <2>3. Range(Providers)' = Range(Providers) /\ Providers' = Providers
    BY <2>1 DEF Range, Providers
  <2>4. TokensNamed' /\ NoProviderUnnamed' /\ NeedsProvided'
    BY <1>1, <1>6, <1>7, <2>3
       DEF TokensNamed, NoProviderUnnamed, NeedsProvided, Provided
  <2>5. EntriesProvided' /\ InjectsImported'
    BY <2>1 DEF EntriesProvided, InjectsImported
  <2>6. LastProviderGives'
    <3> SUFFICES ASSUME ~EmptyNames', NEW n \in Names \ {Empty},
                        NEW p \in Lasts(Providers', <<"options", n>>)
                 PROVE  IF SyncFor(n)' # {}
                          THEN ~p.async /\ p.options = Kept(Giver(n)')
                          ELSE /\ p.async /\ p.options = Giver(n)'
                               /\ Entries({"async"})' # {}
      BY DEF LastProviderGives, Lasts, Kept
    <3>1. IF SyncFor(n) # {}
            THEN ~p.async /\ p.options = Kept(Giver(n))
            ELSE p.async /\ p.options = Giver(n) /\ Entries({"async"}) # {}
      BY <1>1, <1>6, <2>3 DEF LastProviderGives
    <3> QED
      BY <1>4, <1>5, <3>1
  <2> QED
    BY <1>2, <1>5, <1>8, <2>2, <2>4, <2>5, <2>6, NothingYet DEF StartInv
<1>10. CASE call.sources # {}
  <2> DEFINE async == AsyncProviders(call)
  <2>1. /\ definition' \in Definitions
        /\ definition'.imports = call.imports
        /\ Range(Providers)' = Range(Providers) \cup Range(async)
                                 \cup {ConnectionProvider(Default)}
    BY <1>1, <1>10, ForRootAsyncAdds
  <2>2. stage' = "importing"
    BY <1>2, <1>10
  <2>3. StartTypes'
    BY <1>2, <1>3, <1>11, <2>1, <2>2, NothingYet DEF StartTypes, Providers
  <2>4. /\ \A p \in Range(async) :
             /\ WellNamed(p) /\ p.name = Default
             /\ p.injects \in {{}, call.injects}
             /\ p.needs # {} =>
                  \/ call.sources = {"useClass", "useExisting"}
                  \/ \E q \in Range(async) : q.token = Token("class", Default)
             /\ p.needs \subseteq {Token("class", Default)}
             /\ p.token[1] = "options" =>
                  /\ p.async /\ p.options = call.entries[1].options
                  /\ p.token = Token("options", Default)
        /\ \E p \in Range(async) : p.token = Token("options", Default)
    BY <1>2, AsyncProvidersType
  <2>5. LET p == ConnectionProvider(Default)
        IN  /\ WellNamed(p) /\ p.name = Default
            /\ p.needs = {Token("options", Default)} /\ p.injects = {}
            /\ p.token = Token("connection", Default)
    BY ConnectionProviderType, ConfigurationAssumption
  <2> HIDE DEF async
  <2>6. \A t : Provided(t) => Provided(t)'
    BY <2>1 DEF Provided
  <2>7. /\ Provided(Token("options", Default))'
        /\ Provided(Token("connection", Default))'
    BY <2>1, <2>4, <2>5 DEF Provided
  <2>8. TokensNamed'
    <3>1. \A p \in Range(Providers)' : WellNamed(p)
      BY <1>1, <2>1, <2>4, <2>5 DEF TokensNamed
    <3> QED
      BY <3>1 DEF TokensNamed
  <2>9. NoProviderUnnamed'
    <3>1. ~EmptyNames' => \A p \in Range(Providers)' : p.name # Empty
      BY <1>1, <1>6, <2>1, <2>4, <2>5, ConfigurationAssumption
         DEF NoProviderUnnamed
    <3> QED
      BY <3>1 DEF NoProviderUnnamed
  <2>10. NeedsProvided'
    <3> SUFFICES ASSUME NEW p \in Range(Providers)', NEW t \in p.needs
                 PROVE  Provided(t)' \/ TwoSources'
      BY DEF NeedsProvided
    <3>1. CASE p \in Range(Providers)
      BY <1>1, <1>7, <2>6, <3>1 DEF NeedsProvided
    <3>2. CASE p = ConnectionProvider(Default)
      BY <2>5, <2>7, <3>2
    <3>3. CASE p \in Range(async)
      <4>1. t = Token("class", Default) /\ p.needs # {}
        BY <2>4, <3>3
      <4>2. ASSUME call.sources = {"useClass", "useExisting"}
            PROVE  TwoSources'
        <5>1. Len(calls) + 1 \in DOMAIN calls' /\ calls'[Len(calls) + 1] = call
          BY <1>1
        <5> QED
          BY <1>2, <4>2, <5>1 DEF TwoSources
      <4>3. (\E q \in Range(async) : q.token = Token("class", Default))
              => Provided(t)'
        BY <2>1, <4>1 DEF Provided
      <4> QED
        BY <2>4, <3>3, <4>1, <4>2, <4>3
    <3> QED
      BY <2>1, <3>1, <3>2, <3>3
  <2>11. EntriesProvided'
    <3> SUFFICES ASSUME NEW p \in Entries(AllForms)', NEW n,
                        n = Entry(p)'.name
                 PROVE  /\ Provided(Token("options", n))'
                        /\ Provided(Token("connection", n))'
      BY DEF EntriesProvided, Provided, Token
    <3>1. CASE p \in Entries(AllForms)
      <4>1. /\ Provided(Token("options", Entry(p).name))
            /\ Provided(Token("connection", Entry(p).name))
        BY <1>1, <3>1 DEF EntriesProvided
      <4>2. Entry(p)' = Entry(p)
        BY <1>1, <3>1, EntriesGrow
      <4> QED
        BY <2>6, <4>1, <4>2
    <3>2. CASE p \in {new} \X DOMAIN call.entries
      <4>1. PICK i \in DOMAIN call.entries : p = <<new, i>>
        BY <3>2
      <4>2. Entry(p)' = call.entries[i]
        BY <1>1, <4>1, EntriesGrow
      <4>3. i = 1 /\ call.entries[1].name = Default
        BY <1>2, CallTypes
      <4> QED
        BY <2>7, <4>2, <4>3
    <3> QED
      BY <1>1, <3>1, <3>2, EntriesGrow
  <2>12. LastProviderGives'
    <3> SUFFICES ASSUME ~EmptyNames', NEW n \in Names \ {Empty},
                        NEW p \in Lasts(Providers', <<"options", n>>)
                 PROVE  IF SyncFor(n)' # {}
                          THEN ~p.async /\ p.options = Kept(Giver(n)')
                          ELSE /\ p.async /\ p.options = Giver(n)'
                               /\ Entries({"async"})' # {}
      BY DEF LastProviderGives, Lasts, Kept
    <3>1. \/ p \in Lasts(Providers, <<"options", n>>)
          \/ /\ p \in Lasts(async, <<"options", n>>)
             /\ \A q \in Range(Providers) : q.token # <<"options", n>>
      BY <1>1, <1>10, ForRootAsyncAdds DEF async
    <3>2. CASE p \in Lasts(Providers, <<"options", n>>)
      <4>1. IF SyncFor(n) # {}
              THEN ~p.async /\ p.options = Kept(Giver(n))
              ELSE p.async /\ p.options = Giver(n) /\ Entries({"async"}) # {}
        BY <1>1, <1>6, <3>2 DEF LastProviderGives
      <4> QED
        BY <1>4, <1>5, <4>1
    <3>3. CASE /\ p \in Lasts(async, <<"options", n>>)
               /\ \A q \in Range(Providers) : q.token # <<"options", n>>
      <4>1. p \in Range(async) /\ p.token = <<"options", n>>
        BY <3>3, LastsAreThere
      <4>2. p.async /\ p.options = call.entries[1].options
            /\ <<"options", n>> = Token("options", Default)
        BY <2>4, <4>1
      <4>3. n = Default
        BY <4>2, TokenIs, ConfigurationAssumption
      <4>4. ~Provided(Token("options", Default))
        BY <3>3, <4>2 DEF Provided
      <4>5. \A q \in Entries(AllForms) : Entry(q).name # Default
        BY <1>1, <4>4 DEF EntriesProvided
      <4>6. SyncFor(n) = {}
        <5>1. SyncFor(n) \subseteq Entries(AllForms)
          BY DEF SyncFor, Entries, AllForms
        <5> QED
          BY <4>3, <4>5, <5>1 DEF SyncFor
      <4>7. Entries({"async"}) = {}
        <5> SUFFICES ASSUME NEW q \in Entries({"async"}) PROVE FALSE
          OBVIOUS
        <5>1. q \in Entries(AllForms)
          BY DEF Entries, AllForms
        <5>2. /\ q[1] \in DOMAIN calls /\ q[2] \in DOMAIN calls[q[1]].entries
              /\ calls[q[1]].form = "async"
          BY <1>1, EntriesAre
        <5>3. calls[q[1]] \in RootCalls
          BY <1>1, <5>2
        <5>4. /\ Len(calls[q[1]].entries) = 1
              /\ calls[q[1]].entries[1].name = Default
              /\ calls[q[1]].entries \in Seq(ConnectionEntries)
          BY <5>2, <5>3, CallTypes
        <5>5. q[2] = 1
          BY <5>2, <5>4
        <5> QED
          BY <4>5, <5>1, <5>4, <5>5 DEF Entry
      <4> QED
        BY <1>4, <4>2, <4>3, <4>6, <4>7, <1>5
    <3> QED
      BY <3>1, <3>2, <3>3
  <2>13. InjectsImported'
    <3>1. /\ \A i \in AsyncCalls : i \in AsyncCalls' /\ calls'[i] = calls[i]
          /\ new \in AsyncCalls' /\ calls'[new] = call
          /\ \A k : IsLastAsync(k)' => k = new
      BY <1>1, <1>2, AsyncCallsGrow
    <3>2. ASSUME NEW p \in Range(Providers)', p.injects # {}
          PROVE  \E i \in AsyncCalls' : p.injects = calls'[i].injects
      <4>1. CASE p \in Range(Providers)
        BY <1>1, <3>1, <3>2, <4>1 DEF InjectsImported
      <4>2. CASE p \in Range(async)
        BY <2>4, <3>1, <3>2, <4>2
      <4>3. CASE p = ConnectionProvider(Default)
        BY <2>5, <3>2, <4>3
      <4> QED
        BY <2>1, <3>2, <4>1, <4>2, <4>3
    <3>3. \A k : IsLastAsync(k)' => definition'.imports = calls'[k].imports
      BY <2>1, <3>1
    <3> QED
      BY <3>2, <3>3 DEF InjectsImported
  <2> QED
    BY <1>2, <1>5, <1>8, <2>2, <2>3, <2>8, <2>9, <2>10, <2>11, <2>12, <2>13,
       NothingYet
       DEF StartInv
<1> QED
  BY <1>9, <1>10

-----------------------------------------------------------------------------
(* What Nest resolves.                                                     *)

(* The provider in use is the last of its token; every token provided has   *)
(* one.                                                                     *)
LEMMA CurrentIs ==
  Providers \in Seq(ProviderTypes) =>
    /\ \A t : \A i \in Current(t) :
         /\ i \in DOMAIN Providers /\ i \in InUse
         /\ Providers[i].token = t
         /\ Providers[i] \in Lasts(Providers, t)
         /\ Providers[i] \in Range(Providers)
         /\ Providers[i] \in ProviderTypes
    /\ \A t : Provided(t) => Current(t) # {}
    /\ \A i \in InUse : i \in Current(Providers[i].token)
<1> SUFFICES ASSUME Providers \in Seq(ProviderTypes)
             PROVE  /\ \A t : \A i \in Current(t) :
                         /\ i \in DOMAIN Providers /\ i \in InUse
                         /\ Providers[i].token = t
                         /\ Providers[i] \in Lasts(Providers, t)
                         /\ Providers[i] \in Range(Providers)
                         /\ Providers[i] \in ProviderTypes
                    /\ \A t : Provided(t) => Current(t) # {}
                    /\ \A i \in InUse : i \in Current(Providers[i].token)
  OBVIOUS
<1>1. DOMAIN Providers = 1..Len(Providers) /\ Len(Providers) \in Nat
  OBVIOUS
<1>2. \A t : \A i \in Current(t) :
        /\ i \in DOMAIN Providers /\ Providers[i].token = t
        /\ \A j \in DOMAIN Providers : Providers[j].token = t => j <= i
  BY DEF Current
<1>3. ASSUME NEW t, NEW i \in Current(t)
      PROVE  /\ i \in DOMAIN Providers /\ i \in InUse
             /\ Providers[i].token = t
             /\ Providers[i] \in Lasts(Providers, t)
             /\ Providers[i] \in Range(Providers)
             /\ Providers[i] \in ProviderTypes
  <2>1. /\ i \in DOMAIN Providers /\ Providers[i].token = t
        /\ \A j \in DOMAIN Providers : Providers[j].token = t => j <= i
    BY <1>2
  <2>2. i \in InUse
    BY <2>1 DEF InUse
  <2>3. Providers[i] \in Lasts(Providers, t)
    BY <2>1 DEF Lasts
  <2>4. Providers[i] \in Range(Providers) /\ Providers[i] \in ProviderTypes
    BY <2>1 DEF Range
  <2> QED
    BY <2>1, <2>2, <2>3, <2>4
<1>4. ASSUME NEW t, Provided(t)
      PROVE  Current(t) # {}
  <2> DEFINE same == {i \in DOMAIN Providers : Providers[i].token = t}
  <2>1. same # {}
    BY <1>4 DEF Provided, Range
  <2>2. same \in SUBSET (1..Len(Providers))
    BY <1>1
  <2> HIDE DEF same
  <2>3. PICK i \in same : \A j \in same : j <= i
    BY <1>1, <2>1, <2>2, Greatest
  <2>4. i \in Current(t)
    BY <2>3 DEF Current, same
  <2> QED
    BY <2>4
<1>5. ASSUME NEW i \in InUse
      PROVE  i \in Current(Providers[i].token)
  <2>1. PICK j \in DOMAIN Providers : i \in Current(Providers[j].token)
    BY DEF InUse
  <2>2. Providers[i].token = Providers[j].token
    BY <1>2, <2>1
  <2> QED
    BY <2>1, <2>2
<1> QED
  BY <1>3, <1>4, <1>5

(* Whose options a connection gets is an entry of some call.                *)
LEMMA GiverType ==
  calls \in Seq(RootCalls) /\ GiversExist =>
    \A n \in Names :
      SyncFor(n) # {} \/ Entries({"async"}) # {} =>
        /\ Giver(n) \in AMQPConnectionOptions
        /\ Kept(Giver(n)) \in AMQPConnectionOptions
        /\ Kept(Giver(n)).id = Giver(n).id
        /\ Kept(Giver(n)).throws = Giver(n).throws
<1> SUFFICES ASSUME calls \in Seq(RootCalls), GiversExist, NEW n \in Names,
                    SyncFor(n) # {} \/ Entries({"async"}) # {}
             PROVE  Giver(n) \in AMQPConnectionOptions
  BY KeptType
<1>1. CASE SyncFor(n) # {}
  <2>1. PICK p \in SyncFor(n) : IsLast(p, SyncFor(n))
    BY <1>1 DEF GiversExist
  <2>2. Giver(n) = Entry(p).options
    BY <2>1, GiverIs
  <2>3. Entry(p) \in ConnectionEntries
    BY EntriesAre DEF SyncFor
  <2> QED
    BY <2>2, <2>3 DEF ConnectionEntries
<1>2. CASE SyncFor(n) = {}
  <2>1. PICK p \in Entries({"async"}) : IsFirst(p, Entries({"async"}))
    BY <1>2 DEF GiversExist
  <2>2. Giver(n) = Entry(p).options
    BY <1>2, <2>1, GiverIs
  <2>3. Entry(p) \in ConnectionEntries
    BY EntriesAre
  <2> QED
    BY <2>2, <2>3 DEF ConnectionEntries
<1> QED
  BY <1>1, <1>2

(* What depends on the calls and the providers alone.                      *)
LEMMA CallsStay ==
  ASSUME StartInv, UNCHANGED <<calls, definition>>,
         stage = "noSource" => stage' = "noSource"
  PROVE  /\ TokensNamed' /\ NeedsProvided' /\ EntriesProvided'
         /\ NoProviderUnnamed' /\ GiversExist' /\ LastProviderGives'
         /\ InjectsImported'
         /\ EmptyNames' <=> EmptyNames
         /\ TwoSources' <=> TwoSources
         /\ ImportsLost' <=> ImportsLost
         /\ Providers' = Providers
         /\ InUse' = InUse
         /\ \A n : SyncFor(n)' = SyncFor(n)
         /\ \A n : Giver(n)' = Giver(n)
<1>1. Providers' = Providers /\ calls' = calls
  BY DEF Providers
<1>2. InUse' = InUse
  BY <1>1 DEF InUse, Current
<1>3. Range(Providers)' = Range(Providers) /\ \A t : Provided(t)' <=> Provided(t)
  BY <1>1 DEF Range, Provided
<1>4. /\ \A form : Entries(form)' = Entries(form)
      /\ \A p : Entry(p)' = Entry(p)
  BY <1>1 DEF Entries, Entry
<1>5. \A n : SyncFor(n)' = SyncFor(n)
  BY <1>4 DEF SyncFor
<1>6. EmptyNames' <=> EmptyNames
  BY <1>4 DEF EmptyNames
<1>7. /\ TwoSources' <=> TwoSources
      /\ ImportsLost' <=> ImportsLost
  BY <1>1 DEF TwoSources, ImportsLost, AsyncCalls
<1>13. InjectsImported'
  <2>1. /\ AsyncCalls' = AsyncCalls
        /\ \A k : IsLastAsync(k)' <=> IsLastAsync(k)
        /\ definition'.imports = definition.imports
    BY <1>1 DEF AsyncCalls, IsLastAsync
  <2> QED
    BY <1>1, <1>3, <2>1 DEF StartInv, InjectsImported
<1>8. \A n : Giver(n)' = Giver(n)
  BY <1>1 DEF Giver, SyncFor, Entries, Entry, AtOrAfter
<1>9. TokensNamed' /\ NeedsProvided' /\ NoProviderUnnamed'
  BY <1>3, <1>6, <1>7 DEF StartInv, TokensNamed, NeedsProvided, NoProviderUnnamed
<1>10. EntriesProvided'
  <2> SUFFICES ASSUME stage' # "noSource", NEW p \in Entries(AllForms)', NEW n,
                      n = Entry(p)'.name
               PROVE  /\ Provided(Token("options", n))'
                      /\ Provided(Token("connection", n))'
    BY DEF EntriesProvided, Provided, Token
  <2>1. p \in Entries(AllForms) /\ n = Entry(p).name
    BY <1>4
  <2>2. Provided(Token("options", n)) /\ Provided(Token("connection", n))
    BY <2>1 DEF StartInv, EntriesProvided
  <2> QED
    BY <1>3, <2>2
<1>11. GiversExist'
  BY <1>1, <1>5 DEF StartInv, GiversExist, IsLast, IsFirst, Entries, AtOrAfter
<1>12. LastProviderGives'
  BY <1>1, <1>4, <1>5, <1>6, <1>8 DEF StartInv, LastProviderGives
<1> QED
  BY <1>1, <1>2, <1>5, <1>6, <1>7, <1>8, <1>9, <1>10, <1>11, <1>12, <1>13

(* A step that leaves the configuration as it is.                          *)
LEMMA ConfigurationStays ==
  ASSUME StartInv,
         UNCHANGED <<calls, definition, storedOptions, connections, unopened,
                     resolved>>,
         stage = "noSource" => stage' = "noSource"
  PROVE  /\ TokensNamed' /\ NeedsProvided' /\ EntriesProvided'
         /\ NoProviderUnnamed' /\ GiversExist' /\ LastProviderGives'
         /\ InjectsImported'
         /\ SyncStored' /\ ResolvedStored' /\ ResolvedConnected'
         /\ OpenedAsStored' /\ ExceptionIsThrown'
         /\ TwoSources' <=> TwoSources
         /\ ImportsLost' <=> ImportsLost
         /\ Providers' = Providers /\ InUse' = InUse
         /\ calls' \in Seq(RootCalls)
         /\ definition' \in Definitions
         /\ IsStorage(storedOptions') /\ IsStorage(connections')
         /\ unopened' \subseteq DOMAIN connections'
         /\ resolved' \subseteq DOMAIN Providers'
<1>1. /\ TokensNamed' /\ NeedsProvided' /\ EntriesProvided'
      /\ NoProviderUnnamed' /\ GiversExist' /\ LastProviderGives'
      /\ InjectsImported'
      /\ EmptyNames' <=> EmptyNames
      /\ TwoSources' <=> TwoSources
      /\ ImportsLost' <=> ImportsLost
      /\ Providers' = Providers /\ InUse' = InUse
      /\ \A n : SyncFor(n)' = SyncFor(n)
      /\ \A n : Giver(n)' = Giver(n)
  BY CallsStay
<1>2. SyncStored'
  BY <1>1 DEF StartInv, SyncStored, Kept
<1>3. ResolvedStored' /\ ResolvedConnected'
  BY <1>1 DEF StartInv, ResolvedStored, ResolvedConnected
<1>4. OpenedAsStored' /\ ExceptionIsThrown'
  BY <1>1 DEF StartInv, OpenedAsStored, ExceptionIsThrown
<1>5. StartTypes
  BY DEF StartInv
<1>6. /\ calls' \in Seq(RootCalls)
      /\ definition' \in Definitions
      /\ unopened' \subseteq DOMAIN connections'
      /\ resolved' \subseteq DOMAIN Providers'
  BY <1>1, <1>5 DEF StartTypes
<1>7. IsStorage(storedOptions') /\ IsStorage(connections')
  BY <1>5 DEF StartTypes
<1> QED
  BY <1>1, <1>2, <1>3, <1>4, <1>6, <1>7

(* A step before the listeners are discovered.                             *)
LEMMA NotDiscovering ==
  ASSUME StartInv, stage \in {"importing", "resolving"},
         stage' \in {"resolving", "notSupported", "notOpened", "unresolvable"},
         stage' = "unresolvable" => TwoSources' \/ ImportsLost',
         UNCHANGED <<app, explored, position, receivers>>
  PROVE  /\ StagesInOrder' /\ DiscoveredAll' /\ FailedAsSaid' /\ FirstServes'
         /\ stage' \in {"importing", "resolving", "attaching", "ready"}
                         \cup Failures
         /\ explored' \in Seq(ListenerMetadata)
         /\ position' \in 0..(Len(explored') + 1)
         /\ receivers' \in [DOMAIN receivers' ->
                              [listener : ListenerMetadata, bound : DOMAIN app']]
<1>1. StagesInOrder'
  BY DEF StartInv, StagesInOrder
<1>2. DiscoveredAll' /\ FailedAsSaid' /\ FirstServes'
  BY DEF DiscoveredAll, FailedAsSaid, FirstServes, Discovering
<1>3. StartTypes
  BY DEF StartInv
<1> QED
  BY <1>1, <1>2, <1>3 DEF StartTypes, Failures

(* Nest begins to resolve the providers.                                    *)
LEMMA BootstrapKeeps ==
  ASSUME StartInv, Bootstrap, UNCHANGED <<app, explored, position, receivers>>
  PROVE  StartInv'
<1>1. /\ UNCHANGED <<calls, definition, storedOptions, connections, unopened,
                     resolved>>
      /\ stage = "importing" /\ stage' = "resolving"
  BY DEF Bootstrap
<1>2. StartTypes'
  BY <1>1, ConfigurationStays, NotDiscovering DEF StartTypes
<1> QED
  BY <1>1, <1>2, ConfigurationStays, NotDiscovering DEF StartInv

(* A factory of forRootAsync() writes the storage only for the default      *)
(* connection, and only if no forRoot() did.                                *)
LEMMA ResolveKeeps ==
  ASSUME StartInv, NEW i, Resolve(i),
         UNCHANGED <<app, explored, position, receivers>>
  PROVE  StartInv'
<1> DEFINE p == Providers[i]
<1>1. /\ StartTypes /\ TokensNamed /\ NoProviderUnnamed /\ GiversExist
      /\ LastProviderGives /\ SyncStored /\ ResolvedStored
      /\ ResolvedConnected /\ OpenedAsStored /\ ExceptionIsThrown
      /\ calls \in Seq(RootCalls)
      /\ Providers \in Seq(ProviderTypes)
      /\ IsStorage(storedOptions) /\ IsStorage(connections)
      /\ resolved \subseteq DOMAIN Providers
      /\ unopened \subseteq DOMAIN connections
  BY DEF StartInv, StartTypes, Providers, Definitions
<1>2. /\ stage = "resolving" /\ stage' = "resolving"
      /\ UNCHANGED <<calls, definition, connections, unopened>>
      /\ i \in InUse /\ p.token[1] # "connection"
      /\ resolved' = resolved \cup {i}
      /\ storedOptions' = IF p.async /\ p.token[1] = "options"
                            THEN Stored(storedOptions, Default, Kept(p.options))
                            ELSE storedOptions
  BY DEF Resolve, Ready
<1>3. /\ TokensNamed' /\ NeedsProvided' /\ EntriesProvided'
      /\ NoProviderUnnamed' /\ GiversExist' /\ LastProviderGives'
      /\ InjectsImported'
      /\ EmptyNames' <=> EmptyNames
      /\ Providers' = Providers
      /\ \A n : SyncFor(n)' = SyncFor(n)
      /\ \A n : Giver(n)' = Giver(n)
  BY <1>2, CallsStay
<1>4. /\ i \in DOMAIN Providers /\ p \in Lasts(Providers, p.token)
      /\ p \in Range(Providers) /\ p \in ProviderTypes
  BY <1>1, <1>2, CurrentIs
<1>5. /\ p.options \in AMQPConnectionOptions /\ p.name \in Names
      /\ WellNamed(p)
  BY <1>1, <1>4 DEF ProviderTypes, TokensNamed
<1> HIDE DEF p
<1>6. Kept(p.options) \in AMQPConnectionOptions /\ Kept(p.options).id = p.options.id
  BY <1>5, KeptType
<1>7. IsStorage(storedOptions')
  BY <1>1, <1>2, <1>6, StoredType, ConfigurationAssumption
<1>8. StartTypes'
  <2>1. resolved' \subseteq DOMAIN Providers'
    BY <1>1, <1>2, <1>3, <1>4
  <2>2. calls' \in Seq(RootCalls) /\ unopened' \subseteq DOMAIN connections'
        /\ IsStorage(connections')
        /\ definition' \in Definitions
    BY <1>1, <1>2 DEF StartTypes
  <2> QED
    BY <1>2, <1>7, <2>1, <2>2, NotDiscovering DEF StartTypes
(* The options of a provider of forRootAsync() reach the storage only when *)
(* no forRoot() names the default connection.                              *)
<1>9. ASSUME ~EmptyNames, p.token[1] = "options"
      PROVE  /\ p.name # Empty
             /\ p.async => /\ p.name = Default /\ SyncFor(Default) = {}
                           /\ p.options = Giver(Default)
             /\ ~p.async => SyncFor(p.name) # {}
  <2>1. p.name # Empty
    BY <1>1, <1>4, <1>9 DEF NoProviderUnnamed
  <2>2. p.token = <<"options", p.name>>
    BY <1>5, <1>9, <2>1, TokenIs DEF WellNamed
  <2>3. IF SyncFor(p.name) # {}
          THEN ~p.async /\ p.options = Kept(Giver(p.name))
          ELSE p.async /\ p.options = Giver(p.name)
    BY <1>1, <1>4, <1>5, <1>9, <2>1, <2>2 DEF LastProviderGives
  <2>4. p.async => p.name = Default
    BY <1>5 DEF WellNamed
  <2> QED
    BY <2>1, <2>3, <2>4
<1>10. ASSUME ~EmptyNames, p.async, p.token[1] = "options"
       PROVE  /\ Default \in DOMAIN storedOptions'
              /\ storedOptions'[Default] = Kept(Giver(Default))
              /\ storedOptions'[Default].id = Giver(Default).id
              /\ SyncFor(Default) = {}
              /\ \A n \in DOMAIN storedOptions \ {Default} :
                   n \in DOMAIN storedOptions' /\ storedOptions'[n] = storedOptions[n]
  <2>1. storedOptions' = Stored(storedOptions, Default, Kept(p.options))
    BY <1>2, <1>10
  <2>2. SyncFor(Default) = {} /\ p.options = Giver(Default)
    BY <1>9, <1>10
  <2>3. /\ Default \in DOMAIN storedOptions'
        /\ storedOptions'[Default] = Kept(p.options)
        /\ \A n \in DOMAIN storedOptions \ {Default} :
             n \in DOMAIN storedOptions' /\ storedOptions'[n] = storedOptions[n]
    BY <2>1 DEF Stored
  <2>4. /\ storedOptions'[Default] = Kept(Giver(Default))
        /\ Kept(Giver(Default)).id = Giver(Default).id
    BY <1>6, <2>2, <2>3
  <2>5. storedOptions'[Default].id = Giver(Default).id
    BY <2>4
  <2> QED
    BY <2>2, <2>3, <2>4, <2>5
<1>11. ~(p.async /\ p.token[1] = "options") => storedOptions' = storedOptions
  BY <1>2
<1>12. SyncStored'
  <2> SUFFICES ASSUME ~EmptyNames, NEW n \in Names, SyncFor(n) # {}
               PROVE  /\ n \in DOMAIN storedOptions'
                      /\ storedOptions'[n] = Kept(Giver(n))
    BY <1>3 DEF SyncStored, Kept
  <2>1. n \in DOMAIN storedOptions /\ storedOptions[n] = Kept(Giver(n))
    BY <1>1 DEF SyncStored
  <2> QED
    BY <1>10, <1>11, <2>1
(* What holds of the name of a connection in the storage still does.       *)
<1>13. ASSUME ~EmptyNames, NEW n \in DOMAIN storedOptions,
              storedOptions[n].id = Giver(n).id
       PROVE  n \in DOMAIN storedOptions' /\ storedOptions'[n].id = Giver(n).id
  BY <1>10, <1>11, <1>13
<1>14. OpenedAsStored'
  BY <1>1, <1>2, <1>3, <1>13 DEF OpenedAsStored
<1>15. ResolvedStored'
  <2> SUFFICES ASSUME ~EmptyNames, NEW j \in resolved',
                      Providers[j].token[1] = "options"
               PROVE  /\ Providers[j].name \in DOMAIN storedOptions'
                      /\ storedOptions'[Providers[j].name].id
                           = Giver(Providers[j].name).id
    BY <1>3 DEF ResolvedStored
  <2>1. CASE j \in resolved
    BY <1>1, <1>13, <2>1 DEF ResolvedStored
  <2>2. CASE j = i /\ p.async
    BY <1>9, <1>10, <2>2 DEF p
  <2>3. CASE j = i /\ ~p.async
    <3>1. SyncFor(p.name) # {}
      BY <1>9, <2>3 DEF p
    <3>2. /\ p.name \in DOMAIN storedOptions
          /\ storedOptions[p.name] = Kept(Giver(p.name))
      BY <1>1, <1>5, <3>1 DEF SyncStored
    <3>3. Kept(Giver(p.name)).id = Giver(p.name).id
      BY <1>1, <1>5, <3>1, GiverType
    <3> QED
      BY <1>13, <2>3, <3>2, <3>3 DEF p
  <2> QED
    BY <1>2, <2>1, <2>2, <2>3
<1>16. ResolvedConnected'
  BY <1>1, <1>2, <1>3 DEF ResolvedConnected, p
<1>17. ExceptionIsThrown'
  BY <1>1, <1>2, <1>3 DEF ExceptionIsThrown
<1> QED
  BY <1>2, <1>3, <1>8, <1>12, <1>14, <1>15, <1>16, <1>17, NotDiscovering
     DEF StartInv

(* Only a class that is injected and not provided is missing, or what the  *)
(* last call does not import.                                              *)
LEMMA UnresolvableKeeps ==
  ASSUME StartInv, Unresolvable,
         UNCHANGED <<app, explored, position, receivers>>
  PROVE  StartInv'
<1>1. /\ UNCHANGED <<calls, definition, storedOptions, connections, unopened,
                     resolved>>
      /\ stage = "resolving" /\ stage' = "unresolvable"
  BY DEF Unresolvable
<1>2. /\ Providers \in Seq(ProviderTypes) /\ calls \in Seq(RootCalls)
      /\ NeedsProvided /\ InjectsImported
  BY DEF StartInv, StartTypes, Providers, Definitions
<1>3. PICK i \in InUse :
        \/ \E t \in Providers[i].needs : Current(t) = {}
        \/ ~(Providers[i].injects \subseteq definition.imports)
  BY DEF Unresolvable
<1>4. TwoSources \/ ImportsLost
  <2>1. ASSUME NEW t \in Providers[i].needs, Current(t) = {}
        PROVE  TwoSources
    <3>1. Providers[i] \in Range(Providers) /\ ~Provided(t)
      BY <1>2, <1>3, <2>1, CurrentIs
    <3> QED
      BY <1>2, <2>1, <3>1 DEF NeedsProvided
  <2>2. ASSUME ~(Providers[i].injects \subseteq definition.imports)
        PROVE  ImportsLost
    <3>1. Providers[i] \in Range(Providers) /\ Providers[i].injects # {}
      BY <1>2, <1>3, <2>2, CurrentIs
    <3>2. PICK k \in AsyncCalls : Providers[i].injects = calls[k].injects
      BY <1>1, <1>2, <3>1 DEF InjectsImported
    <3>3. PICK last : IsLastAsync(last)
      BY <1>2, <3>2, LastAsyncIs
    <3>4. definition.imports = calls[last].imports
      BY <1>1, <1>2, <3>3 DEF InjectsImported
    <3> QED
      BY <2>2, <3>2, <3>3, <3>4 DEF ImportsLost, IsLastAsync
  <2> QED
    BY <1>3, <2>1, <2>2
<1>7. TwoSources' \/ ImportsLost'
  BY <1>1, <1>4, ConfigurationStays
<1>8. StartTypes'
  BY <1>1, <1>7, ConfigurationStays, NotDiscovering DEF StartTypes
<1> QED
  BY <1>1, <1>7, <1>8, ConfigurationStays, NotDiscovering DEF StartInv

(* createConnection() gets the options that were stored before it was       *)
(* called.                                                                  *)
LEMMA CreateConnectionKeeps ==
  ASSUME StartInv, NEW i, CreateConnection(i),
         UNCHANGED <<app, explored, position, receivers>>
  PROVE  StartInv'
<1> DEFINE name == Providers[i].name
<1>1. /\ StartTypes /\ TokensNamed /\ NoProviderUnnamed /\ GiversExist
      /\ LastProviderGives /\ SyncStored /\ ResolvedStored
      /\ ResolvedConnected /\ OpenedAsStored /\ ExceptionIsThrown
      /\ calls \in Seq(RootCalls)
      /\ Providers \in Seq(ProviderTypes)
      /\ IsStorage(storedOptions) /\ IsStorage(connections)
      /\ resolved \subseteq DOMAIN Providers
      /\ unopened \subseteq DOMAIN connections
  BY DEF StartInv, StartTypes, Providers, Definitions
<1>2. /\ stage = "resolving" /\ i \in InUse
      /\ Providers[i].token[1] = "connection"
      /\ \A t \in Providers[i].needs : Current(t) \subseteq resolved
      /\ UNCHANGED <<calls, definition, storedOptions>>
  BY DEF CreateConnection, Ready
<1>3. /\ i \in DOMAIN Providers /\ Providers[i] \in ProviderTypes
      /\ WellNamed(Providers[i]) /\ Providers[i] \in Range(Providers)
  BY <1>1, <1>2, CurrentIs DEF TokensNamed
<1>4. name \in Names /\ Providers[i].needs = {Token("options", name)}
  BY <1>2, <1>3 DEF ProviderTypes, WellNamed
<1>5. PICK from \in Current(Token("options", name)), opens \in BOOLEAN :
        LET options == Providers[from].options
        IN  IF ~options.supported \/ (~opens /\ options.throws)
              THEN /\ stage' = IF options.supported THEN "notOpened"
                                                    ELSE "notSupported"
                   /\ UNCHANGED <<connections, unopened, resolved>>
              ELSE /\ connections' = Stored(connections, name, options)
                   /\ unopened' = IF opens THEN unopened
                                           ELSE unopened \cup {name}
                   /\ resolved' = resolved \cup {i}
                   /\ UNCHANGED stage
  BY DEF CreateConnection
<1> DEFINE p == Providers[from]
           options == p.options
<1>6. /\ from \in resolved /\ p.token = Token("options", name)
      /\ p \in Lasts(Providers, Token("options", name))
      /\ p \in Range(Providers) /\ p \in ProviderTypes
  BY <1>1, <1>2, <1>4, <1>5, CurrentIs
<1>7. options \in AMQPConnectionOptions /\ p.name \in Names /\ WellNamed(p)
  BY <1>1, <1>6 DEF ProviderTypes, TokensNamed
<1>8. CASE ~options.supported \/ (~opens /\ options.throws)
  <2>1. /\ stage' \in {"notOpened", "notSupported"}
        /\ UNCHANGED <<calls, definition, storedOptions, connections, unopened,
                       resolved>>
    BY <1>2, <1>5, <1>8
  <2>2. StartTypes'
    BY <1>2, <2>1, ConfigurationStays, NotDiscovering DEF StartTypes
  <2> QED
    BY <1>2, <2>1, <2>2, ConfigurationStays, NotDiscovering DEF StartInv
<1>9. CASE ~(~options.supported \/ (~opens /\ options.throws))
  <2>1. /\ connections' = Stored(connections, name, options)
        /\ unopened' = IF opens THEN unopened ELSE unopened \cup {name}
        /\ resolved' = resolved \cup {i}
        /\ stage' = "resolving"
    BY <1>2, <1>5, <1>9
  <2>2. opens \/ ~options.throws
    BY <1>9
  <2>3. /\ TokensNamed' /\ NeedsProvided' /\ EntriesProvided'
        /\ NoProviderUnnamed' /\ GiversExist' /\ LastProviderGives'
        /\ InjectsImported'
        /\ EmptyNames' <=> EmptyNames
        /\ Providers' = Providers
        /\ \A n : SyncFor(n)' = SyncFor(n)
        /\ \A n : Giver(n)' = Giver(n)
    BY <1>2, <2>1, CallsStay
  <2> HIDE DEF name, options, p
  <2>4. IsStorage(connections')
    BY <1>1, <1>4, <1>7, <2>1, StoredType
  <2>5. /\ DOMAIN connections' = DOMAIN connections \cup {name}
        /\ connections'[name] = options
        /\ \A n \in DOMAIN connections \ {name} :
             connections'[n] = connections[n]
    <3> DEFINE new == Stored(connections, name, options)
    <3>1. /\ DOMAIN new = DOMAIN connections \cup {name}
          /\ new[name] = options
          /\ \A n \in DOMAIN connections \ {name} : new[n] = connections[n]
      BY DEF Stored
    <3>2. connections' = new
      BY <2>1
    <3> HIDE DEF new
    <3> QED
      BY <3>1, <3>2
  <2>6. StartTypes'
    <3>1. resolved' \subseteq DOMAIN Providers'
      BY <1>1, <1>3, <2>1, <2>3
    <3>2. unopened' \subseteq DOMAIN connections'
      BY <1>1, <2>1, <2>5
    <3>3. /\ calls' \in Seq(RootCalls) /\ IsStorage(storedOptions')
          /\ definition' \in Definitions
      BY <1>1, <1>2 DEF StartTypes
    <3> QED
      BY <1>2, <2>1, <2>4, <3>1, <3>2, <3>3, NotDiscovering DEF StartTypes
  <2>7. ResolvedStored'
    <3>1. Providers[i].token[1] # "options"
      BY <1>2
    <3> QED
      BY <1>1, <1>2, <2>1, <2>3, <3>1 DEF ResolvedStored
  <2>8. ResolvedConnected'
    BY <1>1, <2>1, <2>3, <2>5 DEF ResolvedConnected, name
  <2>9. SyncStored'
    BY <1>1, <1>2, <2>3 DEF SyncStored, Kept
(* The options are those of the giver, and so is what was stored.          *)
  <2>10. ASSUME ~EmptyNames
         PROVE  /\ name \in DOMAIN storedOptions
                /\ storedOptions[name].id = Giver(name).id
                /\ options.id = Giver(name).id
                /\ options.throws <=> Giver(name).throws
    <3>1. name # Empty /\ p.name # Empty
      BY <1>1, <1>3, <1>6, <2>10 DEF NoProviderUnnamed, name
    <3>2. p.token = <<"options", name>>
      BY <1>4, <1>6, <3>1, TokenIs
    <3>3. p.name = name
      <4>1. p.token = Token("options", p.name)
        BY <1>7, <3>2 DEF WellNamed
      <4> QED
        BY <1>7, <3>1, <3>2, <4>1, TokenIs
    <3>4. /\ name \in DOMAIN storedOptions
          /\ storedOptions[name].id = Giver(name).id
      BY <1>1, <1>6, <2>10, <3>2, <3>3 DEF ResolvedStored, p
    <3>5. p \in Lasts(Providers, <<"options", name>>)
      BY <1>6, <3>2
    <3>6. IF SyncFor(name) # {}
            THEN options = Kept(Giver(name))
            ELSE options = Giver(name)
      BY <1>1, <1>4, <2>10, <3>1, <3>5 DEF LastProviderGives, options
    <3>7. SyncFor(name) # {} =>
            /\ Kept(Giver(name)).id = Giver(name).id
            /\ Kept(Giver(name)).throws = Giver(name).throws
      BY <1>1, <1>4, GiverType
    <3> QED
      BY <3>4, <3>6, <3>7
  <2>11. OpenedAsStored'
    <3> SUFFICES ASSUME ~EmptyNames, NEW n \in DOMAIN connections'
                 PROVE  /\ n \in DOMAIN storedOptions
                        /\ connections'[n].id = Giver(n).id
                        /\ storedOptions[n].id = Giver(n).id
      BY <1>2, <2>3 DEF OpenedAsStored
    <3>1. CASE n = name
      BY <2>5, <2>10, <3>1
    <3>2. CASE n # name
      BY <1>1, <2>5, <3>2 DEF OpenedAsStored
    <3> QED
      BY <3>1, <3>2
  <2>12. ExceptionIsThrown'
    <3> SUFFICES ASSUME ~EmptyNames, NEW n \in unopened'
                 PROVE  ~Giver(n).throws
      BY <2>3 DEF ExceptionIsThrown
    <3>1. CASE n \in unopened
      BY <1>1, <3>1 DEF ExceptionIsThrown
    <3>2. CASE n = name /\ ~opens
      BY <2>2, <2>10, <3>2
    <3> QED
      BY <2>1, <3>1, <3>2
  <2> QED
    BY <1>2, <2>1, <2>3, <2>6, <2>7, <2>8, <2>9, <2>11, <2>12, NotDiscovering
       DEF StartInv
<1> QED
  BY <1>8, <1>9

-----------------------------------------------------------------------------
(* The listeners.                                                          *)

(* The listeners are explored once all providers are resolved.              *)
LEMMA OnModuleInitKeeps ==
  ASSUME StartInv, OnModuleInit
  PROVE  StartInv'
<1>1. PICK providers \in Applications :
        app' = providers /\ explored' = Explore(providers)
  BY DEF OnModuleInit
<1>2. /\ stage = "resolving" /\ InUse \subseteq resolved
      /\ stage' = "attaching" /\ position' = 1
      /\ UNCHANGED <<calls, definition, storedOptions, connections, unopened,
                     resolved, receivers>>
  BY DEF OnModuleInit
<1>3. explored' \in Seq(ListenerMetadata)
  <2>1. ListenersIn(providers) \subseteq ListenerMetadata
    BY DEF ListenersIn
  <2> QED
    BY <1>1, <2>1, ExploreType, SeqMonotonic
<1>4. /\ DOMAIN receivers' = {}
      /\ receivers' \in [DOMAIN receivers -> [listener : ListenerMetadata,
                                              bound : DOMAIN app]]
  BY <1>2 DEF StartInv, StagesInOrder, StartTypes
<1>5. StartTypes'
  <2>1. position' \in 0..(Len(explored') + 1)
    BY <1>2, <1>3
  <2>2. receivers' \in [DOMAIN receivers' -> [listener : ListenerMetadata,
                                              bound : DOMAIN app']]
    BY <1>2, <1>4
  <2> QED
    BY <1>2, <1>3, <2>1, <2>2, ConfigurationStays DEF StartTypes
<1>6. StagesInOrder' /\ FailedAsSaid'
  BY <1>2 DEF StagesInOrder, FailedAsSaid
<1>7. DiscoveredAll'
  <2>1. InUse' \subseteq resolved'
    BY <1>2, ConfigurationStays
  <2>2. position' \in 1..(Len(explored') + 1)
    BY <1>2, <1>3
  <2>3. app' \in Applications /\ explored' = Explore(app')
    BY <1>1
  <2> QED
    BY <2>1, <2>2, <2>3 DEF DiscoveredAll, Explore
<1>8. FirstServes'
  BY <1>2, <1>4 DEF FirstServes
<1> QED
  BY <1>2, <1>5, <1>6, <1>7, <1>8, ConfigurationStays DEF StartInv

(* A step of attachListeners() leaves the configuration and the list of    *)
(* listeners as they are.                                                  *)
LEMMA AttachingStays ==
  ASSUME StartInv, stage = "attaching",
         stage' \in Discovering,
         UNCHANGED <<calls, definition, storedOptions, connections, unopened,
                     resolved, app, explored>>,
         position' \in 1..(Len(explored) + 1),
         receivers' \in [DOMAIN receivers' -> [listener : ListenerMetadata,
                                               bound : DOMAIN app]],
         FailedAsSaid', FirstServes'
  PROVE  StartInv'
<1>1. StartTypes /\ DiscoveredAll
  BY DEF StartInv
<1>2. StartTypes'
  <2>1. explored' \in Seq(ListenerMetadata)
    BY <1>1 DEF StartTypes
  <2>2. position' \in 0..(Len(explored') + 1)
    BY <1>1 DEF StartTypes
  <2>3. receivers' \in [DOMAIN receivers' -> [listener : ListenerMetadata,
                                              bound : DOMAIN app']]
    OBVIOUS
  <2> QED
    BY <2>1, <2>2, <2>3, ConfigurationStays DEF StartTypes, Failures, Discovering
<1>3. StagesInOrder'
  BY DEF StagesInOrder, Discovering
<1>4. DiscoveredAll'
  <2>1. InUse' \subseteq resolved'
    BY <1>1, ConfigurationStays DEF DiscoveredAll, Discovering
  <2>2. app \in Applications /\ explored = Explore(app)
    BY <1>1 DEF DiscoveredAll, Discovering
  <2>3. app' \in Applications /\ explored' = Explore(app')
    BY <2>2
  <2> QED
    BY <2>1, <2>3 DEF DiscoveredAll
<1> QED
  BY <1>2, <1>3, <1>4, ConfigurationStays DEF StartInv

(* While no listener is attached FirstServes is about the same ones.       *)
LEMMA FirstServesStays ==
  ASSUME StartInv, stage' \in Discovering => stage \in Discovering,
         UNCHANGED <<app, explored, position, receivers>>
  PROVE  FirstServes'
<1> SUFFICES ASSUME stage \in Discovering
             PROVE  FirstServes'
  BY DEF FirstServes
<1>1. /\ \A i : TokenAt(i)' = TokenAt(i)
      /\ \A l : Hosts(l)' = Hosts(l)
  BY DEF TokenAt, Hosts
<1>2. /\ \A i \in 1..(position - 1) : TokenAt(i) \in DOMAIN receivers
      /\ \A t \in DOMAIN receivers :
           \E j \in 1..(position - 1) :
             /\ TokenAt(j) = t
             /\ \A k \in 1..(j - 1) : TokenAt(k) # t
             /\ receivers[t].listener = explored[j]
             /\ receivers[t].bound \in Hosts(explored[j])
  BY DEF StartInv, FirstServes
<1>3. position' = position /\ receivers' = receivers /\ explored' = explored
  OBVIOUS
<1> QED
  BY <1>1, <1>2, <1>3 DEF FirstServes

(* The end of attachListeners(), with a failure or without.                 *)
LEMMA FailsKeeps ==
  ASSUME StartInv,
         UNCHANGED <<calls, definition, storedOptions, connections, unopened,
                     resolved>>,
         NoHost \/ ScopedHost \/ ListenFails \/ Initialized
  PROVE  StartInv'
<1>1. /\ StartTypes /\ DiscoveredAll
      /\ stage = "attaching"
      /\ UNCHANGED <<app, explored, position, receivers>>
  BY DEF StartInv, NoHost, ScopedHost, ListenFails, Initialized, Attaching, Fails
<1>2. /\ position \in 1..(Len(explored) + 1)
      /\ explored \in Seq(ListenerMetadata)
      /\ receivers \in [DOMAIN receivers -> [listener : ListenerMetadata,
                                             bound : DOMAIN app]]
  BY <1>1 DEF DiscoveredAll, Discovering, StartTypes
<1>3. position' \in 1..(Len(explored) + 1)
  BY <1>1, <1>2
<1>4. receivers' \in [DOMAIN receivers' -> [listener : ListenerMetadata,
                                            bound : DOMAIN app]]
  BY <1>1, <1>2
<1>5. FirstServes'
  BY <1>1, FirstServesStays DEF Discovering
<1>6. /\ Hosts(Listener)' = Hosts(Listener)
      /\ Found(Listener.connection)' <=> Found(Listener.connection)
  BY <1>1 DEF Hosts, Listener, Found
<1>7. CASE NoHost
  <2>1. /\ stage' = "noHost" /\ position \in 1..Len(explored)
        /\ Hosts(Listener) = {}
    BY <1>2, <1>7 DEF NoHost, Attaching, Fails
  <2>2. FailedAsSaid'
    BY <1>1, <1>6, <2>1 DEF FailedAsSaid
  <2> QED
    BY <1>1, <1>3, <1>4, <1>5, <2>1, <2>2, AttachingStays DEF Discovering
<1>8. CASE ListenFails
  <2>1. /\ stage' \in {"refused", "noConnection"}
        /\ position \in 1..Len(explored)
        /\ stage' = "noConnection" => ~Found(Listener.connection)
    BY <1>2, <1>8 DEF ListenFails, Attaching, Fails
  <2>2. FailedAsSaid'
    BY <1>1, <1>6, <2>1 DEF FailedAsSaid
  <2> QED
    BY <1>1, <1>3, <1>4, <1>5, <2>1, <2>2, AttachingStays DEF Discovering
<1>9. CASE Initialized
  <2>1. stage' = "ready" /\ position = Len(explored) + 1
    BY <1>2, <1>9 DEF Initialized
  <2>2. FailedAsSaid'
    BY <1>1, <2>1 DEF FailedAsSaid
  <2> QED
    BY <1>1, <1>3, <1>4, <1>5, <2>1, <2>2, AttachingStays DEF Discovering
<1>10. CASE ScopedHost
  <2>1. stage' = "scoped" /\ \E w \in Hosts(Listener) : app[w].scoped
    BY <1>10 DEF ScopedHost, Fails
  <2>2. FailedAsSaid'
    BY <1>1, <1>6, <2>1 DEF FailedAsSaid
  <2> QED
    BY <1>1, <1>3, <1>4, <1>5, <2>1, <2>2, AttachingStays DEF Discovering
<1> QED
  BY <1>7, <1>8, <1>9, <1>10

(* A listener is attached: it is the first of its token, or another one     *)
(* was there before it.                                                     *)
LEMMA AttachKeeps ==
  ASSUME StartInv,
         UNCHANGED <<calls, definition, storedOptions, connections, unopened,
                     resolved>>,
         Attach
  PROVE  StartInv'
<1> DEFINE token == LinkToken(Listener.connection, Listener.source)
<1>1. /\ StartTypes /\ DiscoveredAll /\ FirstServes
      /\ stage = "attaching" /\ stage' = "attaching"
      /\ position <= Len(explored) /\ position' = position + 1
      /\ UNCHANGED <<app, explored>>
  BY DEF StartInv, Attach, Attaching
<1>2. PICK w \in Hosts(Listener) :
        IF Known(token)
          THEN UNCHANGED receivers
          ELSE receivers' = Stored(receivers, token,
                              [listener |-> Listener, bound |-> w])
  BY DEF Attach, Instances
<1>3. /\ explored \in Seq(ListenerMetadata) /\ position \in 1..Len(explored)
      /\ receivers \in [DOMAIN receivers -> [listener : ListenerMetadata,
                                             bound : DOMAIN app]]
  BY <1>1 DEF DiscoveredAll, Discovering, StartTypes
<1>4. /\ position' \in 1..(Len(explored) + 1)
      /\ position' - 1 = position /\ position \in 1..position
      /\ \A i \in 1..position : i = position \/ i \in 1..(position - 1)
      /\ \A i \in 1..(position - 1) : i \in 1..position
  BY <1>1, <1>3
<1>5. Listener \in ListenerMetadata /\ w \in DOMAIN app
  BY <1>2, <1>3 DEF Listener, Hosts
<1>6. token = TokenAt(position) /\ Listener = explored[position]
  BY DEF TokenAt, Listener
<1>7. /\ \A i \in 1..(position - 1) : TokenAt(i) \in DOMAIN receivers
      /\ \A t \in DOMAIN receivers :
           \E j \in 1..(position - 1) :
             /\ TokenAt(j) = t
             /\ \A k \in 1..(j - 1) : TokenAt(k) # t
             /\ receivers[t].listener = explored[j]
             /\ receivers[t].bound \in Hosts(explored[j])
  BY <1>1 DEF FirstServes, Discovering
<1>8. /\ \A i : TokenAt(i)' = TokenAt(i)
      /\ \A l : Hosts(l)' = Hosts(l)
  BY <1>1 DEF TokenAt, Hosts
<1>9. FailedAsSaid'
  BY <1>1 DEF FailedAsSaid
<1> HIDE DEF token
<1>10. /\ receivers' \in [DOMAIN receivers' -> [listener : ListenerMetadata,
                                                bound : DOMAIN app]]
       /\ \A i \in 1..position : TokenAt(i) \in DOMAIN receivers'
       /\ \A t \in DOMAIN receivers' :
            \E j \in 1..position :
              /\ TokenAt(j) = t
              /\ \A k \in 1..(j - 1) : TokenAt(k) # t
              /\ receivers'[t].listener = explored[j]
              /\ receivers'[t].bound \in Hosts(explored[j])
  <2>1. CASE Known(token)
    <3>1. receivers' = receivers /\ token \in DOMAIN receivers
      BY <1>2, <2>1 DEF Known
    <3>2. \A i \in 1..position : TokenAt(i) \in DOMAIN receivers'
      BY <1>4, <1>6, <1>7, <3>1
    <3>3. ASSUME NEW t \in DOMAIN receivers'
          PROVE  \E j \in 1..position :
                   /\ TokenAt(j) = t
                   /\ \A k \in 1..(j - 1) : TokenAt(k) # t
                   /\ receivers'[t].listener = explored[j]
                   /\ receivers'[t].bound \in Hosts(explored[j])
      BY <1>4, <1>7, <3>1
    <3> QED
      BY <1>3, <3>1, <3>2, <3>3
  <2>2. CASE ~Known(token)
    <3> DEFINE new == [listener |-> Listener, bound |-> w]
    <3>1. /\ receivers' = Stored(receivers, token, new)
          /\ token \notin DOMAIN receivers
      BY <1>2, <2>2 DEF Known
    <3>2. /\ new \in [listener : ListenerMetadata, bound : DOMAIN app]
          /\ new.listener = Listener /\ new.bound = w
      BY <1>5
    <3> HIDE DEF new
    <3>3. /\ DOMAIN receivers' = DOMAIN receivers \cup {token}
          /\ receivers'[token] = new
          /\ \A t \in DOMAIN receivers : receivers'[t] = receivers[t]
          /\ receivers' = [t \in DOMAIN receivers' |-> receivers'[t]]
      BY <3>1 DEF Stored
    <3>4. receivers' \in [DOMAIN receivers' -> [listener : ListenerMetadata,
                                                bound : DOMAIN app]]
      BY <1>3, <3>2, <3>3
    <3>5. \A i \in 1..position : TokenAt(i) \in DOMAIN receivers'
      BY <1>4, <1>6, <1>7, <3>3
    <3>6. ASSUME NEW t \in DOMAIN receivers'
          PROVE  \E j \in 1..position :
                   /\ TokenAt(j) = t
                   /\ \A k \in 1..(j - 1) : TokenAt(k) # t
                   /\ receivers'[t].listener = explored[j]
                   /\ receivers'[t].bound \in Hosts(explored[j])
      <4>1. CASE t \in DOMAIN receivers
        BY <1>4, <1>7, <3>3, <4>1
      <4>2. CASE t = token
        <5>1. \A k \in 1..(position - 1) : TokenAt(k) # t
          BY <1>7, <3>1, <4>2
        <5>2. /\ receivers'[t].listener = explored[position]
              /\ receivers'[t].bound \in Hosts(explored[position])
          BY <1>2, <1>6, <3>2, <3>3, <4>2
        <5> QED
          BY <1>4, <1>6, <4>2, <5>1, <5>2
      <4> QED
        BY <3>3, <4>1, <4>2
    <3> QED
      BY <3>4, <3>5, <3>6
  <2> QED
    BY <2>1, <2>2
<1>11. FirstServes'
  <2>1. 1..(position' - 1) = 1..position
    BY <1>4
  <2> QED
    BY <1>1, <1>8, <1>10, <2>1 DEF FirstServes
<1> QED
  BY <1>1, <1>4, <1>9, <1>10, <1>11, AttachingStays DEF Discovering

-----------------------------------------------------------------------------
(* The invariant.                                                          *)

LEMMA StartInvInit == StartupInit => StartInv
<1> SUFFICES ASSUME StartupInit PROVE StartInv
  OBVIOUS
<1>1. /\ calls = << >>
      /\ definition = [global |-> FALSE, imports |-> {}, providers |-> << >>]
      /\ storedOptions = << >> /\ connections = << >>
      /\ unopened = {} /\ resolved = {} /\ stage = "importing"
      /\ explored = << >> /\ position = 0 /\ receivers = << >>
  BY DEF StartupInit, ConfigurationInit
<1>2. Providers = << >> /\ Range(Providers) = {}
  BY <1>1 DEF Providers, Range
<1>3. \A form : Entries(form) = {}
  BY <1>1 DEF Entries
<1>4. \A n : SyncFor(n) = {}
  BY <1>3 DEF SyncFor
<1>5. StartTypes
  <2>1. IsStorage(storedOptions) /\ IsStorage(connections)
    BY <1>1 DEF IsStorage
  <2>2. definition \in Definitions
    BY <1>1 DEF Definitions
  <2>3. receivers \in [DOMAIN receivers -> [listener : ListenerMetadata,
                                            bound : DOMAIN app]]
    BY <1>1
  <2> QED
    BY <1>1, <2>1, <2>2, <2>3 DEF StartTypes
<1>6. StagesInOrder
  BY <1>1 DEF StagesInOrder
<1>7. TokensNamed /\ NeedsProvided /\ NoProviderUnnamed
  BY <1>2 DEF TokensNamed, NeedsProvided, NoProviderUnnamed
<1>8. EntriesProvided /\ GiversExist
  BY <1>3, <1>4 DEF EntriesProvided, GiversExist
<1>12. InjectsImported
  BY <1>1, <1>2 DEF InjectsImported, IsLastAsync, AsyncCalls
<1>9. LastProviderGives /\ SyncStored
  BY <1>2, <1>4 DEF LastProviderGives, SyncStored, Lasts
<1>10. ResolvedStored /\ ResolvedConnected /\ OpenedAsStored /\ ExceptionIsThrown
  BY <1>1 DEF ResolvedStored, ResolvedConnected, OpenedAsStored, ExceptionIsThrown
<1>11. DiscoveredAll /\ FailedAsSaid /\ FirstServes
  BY <1>1 DEF DiscoveredAll, FailedAsSaid, FirstServes, Discovering
<1> QED
  BY <1>5, <1>6, <1>7, <1>8, <1>9, <1>10, <1>11, <1>12 DEF StartInv

(* Nothing happens.                                                         *)
LEMMA StutterKeeps ==
  ASSUME StartInv, UNCHANGED startup
  PROVE  StartInv'
<1>1. /\ UNCHANGED <<calls, definition, storedOptions, connections, unopened,
                     resolved>>
      /\ UNCHANGED stage
      /\ UNCHANGED <<app, explored, position, receivers>>
  BY DEF startup, configuration
<1>2. /\ Providers' = Providers /\ InUse' = InUse
      /\ TwoSources' <=> TwoSources
      /\ ImportsLost' <=> ImportsLost
  BY <1>1, ConfigurationStays
<1>3. StartTypes /\ StagesInOrder /\ DiscoveredAll /\ FailedAsSaid /\ FirstServes
  BY DEF StartInv
<1>4. StartTypes'
  BY <1>1, <1>2, <1>3 DEF StartTypes, IsStorage
<1>5. StagesInOrder'
  BY <1>1, <1>3 DEF StagesInOrder
<1>6. DiscoveredAll'
  <2> SUFFICES ASSUME stage \in Discovering
               PROVE  /\ app' \in Applications /\ explored' = Explore(app')
                      /\ InUse' \subseteq resolved'
                      /\ position' \in 1..(Len(explored') + 1)
    BY <1>1 DEF DiscoveredAll
  <2>1. /\ app \in Applications /\ explored = Explore(app)
        /\ InUse \subseteq resolved
        /\ position \in 1..(Len(explored) + 1)
    BY <1>3 DEF DiscoveredAll
  <2>2. app' = app
    BY <1>1
  <2>3. Explore(app') = Explore(app)
    BY <2>2
  <2> QED
    BY <1>1, <1>2, <2>1, <2>3
<1>7. FailedAsSaid'
  BY <1>1, <1>2, <1>3 DEF FailedAsSaid, Hosts, Listener, Found
<1>8. FirstServes'
  BY <1>1, FirstServesStays
<1> QED
  BY <1>1, <1>4, <1>5, <1>6, <1>7, <1>8, ConfigurationStays DEF StartInv

LEMMA StartInvNext == StartInv /\ [StartupNext]_startup => StartInv'
<1> SUFFICES ASSUME StartInv, [StartupNext]_startup PROVE StartInv'
  OBVIOUS
<1>1. CASE UNCHANGED startup
  BY <1>1, StutterKeeps
<1>2. CASE Import /\ UNCHANGED <<app, explored, position, receivers>>
  <2>1. PICK call \in RootCalls :
          /\ ForRoot(call) \/ ForRootAsync(call)
          /\ calls' = Append(calls, call)
    BY <1>2 DEF Import
  <2>2. stage = "importing" /\ UNCHANGED <<connections, unopened, resolved>>
    BY <1>2 DEF Import
  <2> QED
    BY <1>2, <2>1, <2>2, ForRootKeeps, ForRootAsyncKeeps
<1>3. CASE Bootstrap /\ UNCHANGED <<app, explored, position, receivers>>
  BY <1>3, BootstrapKeeps
<1>4. CASE Resolving /\ UNCHANGED <<app, explored, position, receivers>>
  BY <1>4, ResolveKeeps, CreateConnectionKeeps, UnresolvableKeeps DEF Resolving
<1>5. CASE OnModuleInit
  BY <1>5, OnModuleInitKeeps
<1>6. CASE AttachListeners
  BY <1>6, AttachKeeps, FailsKeeps DEF AttachListeners
<1> QED
  BY <1>1, <1>2, <1>3, <1>4, <1>5, <1>6 DEF StartupNext, Configure

(* The invariant.                                                           *)
LEMMA StartInvHolds == StartupSpec => []StartInv
  BY StartInvInit, StartInvNext, PTL DEF StartupSpec

-----------------------------------------------------------------------------
(* The types of the state of the start, whatever the application.          *)
THEOREM StartupTypeCorrect == StartupSpec => []StartupTypeOK
<1>1. StartInv => StartupTypeOK
  <2> SUFFICES ASSUME StartInv PROVE StartupTypeOK
    OBVIOUS
  <2>1. /\ StartTypes
        /\ receivers \in [DOMAIN receivers -> [listener : ListenerMetadata,
                                               bound : DOMAIN app]]
    BY DEF StartInv, StartTypes
  <2> QED
    BY <2>1 DEF StartTypes, StartupTypeOK, IsStorage
<1> QED
  BY <1>1, StartInvHolds, PTL

(* However forRoot() and forRootAsync() are combined, with any names and   *)
(* any number of calls, a connection is opened with the options that are   *)
(* stored for it: those that the last provider of its options has.         *)
THEOREM StoragesAgree == StartupSpec => []OptionsAgree
<1>1. StartInv => OptionsAgree
  BY DEF StartInv, OpenedAsStored, OptionsAgree
<1> QED
  BY <1>1, StartInvHolds, PTL

(* A connection that asks for exceptions and does not open ends the start: *)
(* createConnection() throws, and the storage never has such a connection. *)
THEOREM ConnectionErrorsEndStart == StartupSpec => []ExceptionIsThrown
<1>1. StartInv => ExceptionIsThrown
  BY DEF StartInv
<1> QED
  BY <1>1, StartInvHolds, PTL

(* The start of an application fails for one of the reasons that           *)
(* StartFailsOnlyFor names, never because of the order of calls, providers *)
(* or listeners, but for the imports of the last forRootAsync(): what a    *)
(* call names is provided, what is provided was resolved before the        *)
(* listeners are attached, and a listener's class is found under its token *)
(* and has an instance unless it is scoped.                                *)
THEOREM StartFailsOnlyForReasons == StartupSpec => []StartFailsOnlyFor
<1>1. StartInv => StartFailsOnlyFor
  <2> SUFFICES ASSUME StartInv, ~EmptyNames PROVE StartFailsOnlyFor
    BY DEF StartFailsOnlyFor
  <2>1. /\ StartTypes /\ FailedAsSaid /\ DiscoveredAll /\ EntriesProvided
        /\ TokensNamed /\ NoProviderUnnamed /\ ResolvedConnected
        /\ calls \in Seq(RootCalls) /\ Providers \in Seq(ProviderTypes)
    BY DEF StartInv, StartTypes, Providers, Definitions
  <2>2. ASSUME stage = "unresolvable"
        PROVE  \E i \in AsyncCalls :
                 \/ calls[i].sources = {"useClass", "useExisting"}
                 \/ \E last \in AsyncCalls :
                      /\ \A j \in AsyncCalls : j <= last
                      /\ ~(calls[i].injects \subseteq calls[last].imports)
    BY <2>1, <2>2 DEF FailedAsSaid, TwoSources, ImportsLost, AsyncCalls
  <2>5. ASSUME stage = "scoped"
        PROVE  \E w \in DOMAIN app :
                 app[w].scoped /\ app[w].of = Listener.target
    BY <2>1, <2>5 DEF FailedAsSaid, Hosts
  <2>3. ASSUME stage = "noConnection", NEW e \in Entries(AllForms)
        PROVE  Entry(e).name # Listener.connection
    <3> DEFINE n == Entry(e).name
    <3>1. n \in Names /\ n # Empty
      <4>1. Entry(e) \in ConnectionEntries
        BY <2>1, EntriesAre
      <4>2. /\ e[1] \in DOMAIN calls /\ e[2] \in DOMAIN calls[e[1]].entries
            /\ calls[e[1]].form \in AllForms
            /\ e = <<e[1], e[2]>>
        BY <2>1, EntriesAre
      <4>3. calls[e[1]] \in RootCalls
        BY <2>1, <4>2
      <4>4. CASE calls[e[1]].form = "array"
        <5>1. e \in {e[1]} \X DOMAIN calls[e[1]].entries
          BY <4>2
        <5>2. e \in Entries({"array"})
          BY <4>2, <4>4, <5>1 DEF Entries
        <5> QED
          BY <4>1, <5>2 DEF EmptyNames, ConnectionEntries
      <4>5. CASE calls[e[1]].form # "array"
        <5>1. /\ Len(calls[e[1]].entries) = 1
              /\ calls[e[1]].entries[1].name = Default
              /\ calls[e[1]].entries \in Seq(ConnectionEntries)
          BY <4>3, <4>5, CallTypes
        <5>2. e[2] = 1
          BY <4>2, <5>1
        <5> QED
          BY <5>1, <5>2, ConfigurationAssumption DEF Entry
      <4> QED
        BY <4>4, <4>5
    <3>2. PICK i \in Current(Token("connection", n)) : TRUE
      <4>1. Provided(Token("connection", n))
        BY <2>1, <2>3 DEF EntriesProvided
      <4> QED
        BY <2>1, <4>1, CurrentIs
    <3>3. /\ i \in InUse /\ Providers[i] \in Range(Providers)
          /\ Providers[i] \in ProviderTypes
          /\ Providers[i].token = <<"connection", n>>
      BY <2>1, <3>1, <3>2, CurrentIs, TokenIs
    <3>4. i \in resolved
      BY <2>1, <2>3, <3>3 DEF DiscoveredAll, Discovering
    <3>5. Providers[i].name = n
      <4>1. /\ Providers[i].name \in Names \ {Empty}
            /\ Providers[i].token = Token("connection", Providers[i].name)
        BY <2>1, <3>3 DEF ProviderTypes, NoProviderUnnamed, TokensNamed, WellNamed
      <4> QED
        BY <3>3, <4>1, TokenIs
    <3>6. n \in DOMAIN connections
      BY <2>1, <3>3, <3>4, <3>5 DEF ResolvedConnected
    <3>7. Found(n)
      BY <3>1, <3>6 DEF Found
    <3> QED
      BY <2>1, <2>3, <3>7 DEF FailedAsSaid
  <2>4. ASSUME stage = "noHost"
        PROVE  \E w \in DOMAIN app :
                 \/ Len(Lineage[app[w].class]) > 1
                 \/ app[w].of # app[w].class
                 \/ app[w].as = "custom"
    <3>1. /\ app \in Applications /\ explored = Explore(app)
          /\ position \in 1..Len(explored) /\ Hosts(Listener) = {}
      BY <2>1, <2>4 DEF DiscoveredAll, Discovering, FailedAsSaid
    <3>2. Listener \in ListenersIn(app)
      BY <3>1, ExploreType DEF Listener
    <3>3. PICK w \in DOMAIN app :
            \E i \in DOMAIN Lineage[app[w].class] :
              Listener.target = Lineage[app[w].class][i]
      BY <3>2 DEF ListenersIn
    <3>4. app[w] \in InstanceWrappers
      BY <3>1, DiscoveryAssumption
    <3>5. /\ app[w].class \in Classes
          /\ app[w].as \in {"class", "name", "custom"}
      BY <3>4 DEF InstanceWrappers
    <3>6. /\ Lineage[app[w].class] \in Seq(Classes)
          /\ Len(Lineage[app[w].class]) > 0
          /\ Lineage[app[w].class][1] = app[w].class
      BY <3>5, DiscoveryAssumption
    <3>7. ASSUME Len(Lineage[app[w].class]) <= 1,
                 app[w].of = app[w].class, app[w].as # "custom"
          PROVE  FALSE
      <4>1. Listener.target = app[w].of
        BY <3>3, <3>6, <3>7
      <4> QED
        BY <3>1, <3>5, <3>7, <4>1 DEF Hosts
    <3>8. ~(Len(Lineage[app[w].class]) <= 1)
            => Len(Lineage[app[w].class]) > 1
      BY <3>6
    <3> QED
      BY <3>7, <3>8
  <2> QED
    BY <2>2, <2>3, <2>4, <2>5 DEF StartFailsOnlyFor, AllForms
<1> QED
  BY <1>1, StartInvHolds, PTL

(* Two sequences that differ only in the names of one part in front.       *)
LEMMA JoinedOnce ==
  ASSUME NEW S, NEW a \in Seq(S), NEW b \in Seq(S),
         NEW c \in Seq(S), NEW d \in Seq(S),
         Len(a) = 1, Len(b) = 1, a \o c = b \o d
  PROVE  a = b /\ c = d
<1>0. Len(c) \in Nat /\ Len(d) \in Nat
  OBVIOUS
<1>1. /\ Len(a \o c) = 1 + Len(c)
      /\ \A i \in 1..(1 + Len(c)) :
           (a \o c)[i] = IF i <= 1 THEN a[i] ELSE c[i - 1]
      /\ Len(b \o d) = 1 + Len(d)
      /\ \A i \in 1..(1 + Len(d)) :
           (b \o d)[i] = IF i <= 1 THEN b[i] ELSE d[i - 1]
  <2>1. /\ Len(a \o c) = Len(a) + Len(c)
        /\ \A i \in 1 .. Len(a) + Len(c) :
             (a \o c)[i] = IF i <= Len(a) THEN a[i] ELSE c[i - Len(a)]
    BY ConcatProperties
  <2>2. /\ Len(b \o d) = Len(b) + Len(d)
        /\ \A i \in 1 .. Len(b) + Len(d) :
             (b \o d)[i] = IF i <= Len(b) THEN b[i] ELSE d[i - Len(b)]
    BY ConcatProperties
  <2> QED
    BY <2>1, <2>2
<1>2. Len(c) = Len(d) /\ a[1] = b[1]
  <2>1. Len(c) = Len(d)
    BY <1>0, <1>1
  <2>2. 1 \in 1..(1 + Len(c)) /\ 1 \in 1..(1 + Len(d)) /\ 1 <= 1
    BY <1>0
  <2>3. (a \o c)[1] = a[1] /\ (b \o d)[1] = b[1]
    BY <1>1, <2>2
  <2> QED
    BY <2>1, <2>3
<1>3. a = b
  BY <1>2
<1>4. \A i \in 1..Len(c) : c[i] = d[i]
  <2> TAKE i \in 1..Len(c)
  <2>1. /\ 1 + i \in 1..(1 + Len(c)) /\ 1 + i \in 1..(1 + Len(d))
        /\ ~(1 + i <= 1) /\ (1 + i) - 1 = i
    BY <1>0, <1>2
  <2>2. (a \o c)[1 + i] = c[(1 + i) - 1]
    BY <1>1, <2>1
  <2>3. (b \o d)[1 + i] = d[(1 + i) - 1]
    BY <1>1, <2>1
  <2> QED
    BY <2>1, <2>2, <2>3
<1>5. c = d
  BY <1>2, <1>4
<1> QED
  BY <1>3, <1>5

(* A message of a queue comes to the first of the methods that listen on   *)
(* it, bound to a provider of the class that declares the method, and to   *)
(* no other queue's method: listen() leaves a receiver that is there.      *)
THEOREM TheFirstServes == StartupSpec => []FirstListenerServes
<1>1. StartInv => FirstListenerServes
  <2> SUFFICES ASSUME StartInv, stage = "ready",
                      \A i \in DOMAIN explored : Len(explored[i].connection) = 1,
                      NEW i \in DOMAIN explored
               PROVE  LET l == explored[i]
                          same == {j \in DOMAIN explored :
                                     /\ explored[j].connection = l.connection
                                     /\ explored[j].source = l.source}
                          first == explored[CHOOSE j \in same :
                                              \A k \in same : j <= k]
                          handler == receivers[LinkToken(l.connection, l.source)]
                      IN  /\ handler.listener = first
                          /\ app[handler.bound].of = first.target
    BY DEF FirstListenerServes
  <2> DEFINE same == {j \in DOMAIN explored :
                        /\ explored[j].connection = explored[i].connection
                        /\ explored[j].source = explored[i].source}
             first == CHOOSE j \in same : \A k \in same : j <= k
  <2>1. /\ FirstServes /\ explored \in Seq(ListenerMetadata)
        /\ position = Len(explored) + 1
    BY DEF StartInv, StartTypes, FailedAsSaid
  <2>2. DOMAIN explored = 1..(position - 1) /\ Len(explored) \in Nat
    BY <2>1
  <2>3. \A j \in DOMAIN explored : TokenAt(j) = TokenAt(i) <=> j \in same
    <3> TAKE j \in DOMAIN explored
    <3>1. explored[i] \in ListenerMetadata /\ explored[j] \in ListenerMetadata
      BY <2>1
    <3>2. /\ explored[i].connection \in Seq(STRING)
          /\ explored[j].connection \in Seq(STRING)
          /\ explored[i].source \in Seq(STRING)
          /\ explored[j].source \in Seq(STRING)
      BY <3>1, DiscoveryAssumption DEF ListenerMetadata
    <3>3. ASSUME TokenAt(j) = TokenAt(i)
          PROVE  /\ explored[j].connection = explored[i].connection
                 /\ explored[j].source = explored[i].source
      <4> DEFINE S == STRING
                 a == explored[j].connection
                 b == explored[i].connection
                 c == explored[j].source
                 d == explored[i].source
      <4>1. /\ a \in Seq(S) /\ b \in Seq(S) /\ c \in Seq(S) /\ d \in Seq(S)
            /\ Len(a) = 1 /\ Len(b) = 1
        BY <3>2
      <4>2. a \o c = b \o d
        BY <3>3 DEF TokenAt, LinkToken
      <4> HIDE DEF S, a, b, c, d
      <4>3. a = b /\ c = d
        BY <4>1, <4>2, JoinedOnce
      <4> QED
        BY <4>3 DEF a, b, c, d
    <3> QED
      BY <3>3 DEF TokenAt
  <2>4. TokenAt(i) \in DOMAIN receivers
    BY <2>1, <2>2 DEF FirstServes, Discovering
  <2>5. PICK j \in 1..(position - 1) :
          /\ TokenAt(j) = TokenAt(i)
          /\ \A k \in 1..(j - 1) : TokenAt(k) # TokenAt(i)
          /\ receivers[TokenAt(i)].listener = explored[j]
          /\ receivers[TokenAt(i)].bound \in Hosts(explored[j])
    BY <2>1, <2>4 DEF FirstServes, Discovering
  <2>6. j \in same /\ \A k \in same : j <= k
    <3>1. j \in same
      BY <2>2, <2>3, <2>5
    <3>2. ASSUME NEW k \in same, ~(j <= k)
          PROVE  FALSE
      <4>1. k \in DOMAIN explored /\ TokenAt(k) = TokenAt(i)
        BY <2>3
      <4>2. k \in 1..(j - 1)
        BY <2>2, <3>2, <4>1
      <4> QED
        BY <2>5, <4>1, <4>2
    <3> QED
      BY <3>1, <3>2
  <2>7. same \subseteq Nat
    BY <2>2
  <2>8. first = j
    <3>1. first \in same /\ \A k \in same : first <= k
      <4> HIDE DEF same
      <4> QED
        BY <2>6
    <3> HIDE DEF first, same
    <3>2. first <= j /\ j <= first
      BY <2>6, <3>1
    <3> QED
      BY <2>6, <2>7, <3>1, <3>2
  <2>9. app[receivers[TokenAt(i)].bound].of = explored[j].target
    BY <2>5 DEF Hosts
  <2>10. /\ receivers[TokenAt(i)].listener = explored[first]
         /\ app[receivers[TokenAt(i)].bound].of = explored[first].target
    <3> HIDE DEF first
    <3> QED
      BY <2>5, <2>8, <2>9
  <2> QED
    BY <2>10 DEF TokenAt
<1> QED
  BY <1>1, StartInvHolds, PTL

=============================================================================
