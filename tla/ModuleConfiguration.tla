------------------------- MODULE ModuleConfiguration ------------------------
(***************************************************************************)
(* QueueModule.forRoot() and forRootAsync() while the application's        *)
(* modules are imported, and what Nest makes of the result: the calls      *)
(* extend one static module definition, Nest resolves its providers, the   *)
(* factories of those open the connections, and both leave what the        *)
(* services read later in two static storages.                             *)
(***************************************************************************)
EXTENDS Naturals, SequencesExt

CONSTANTS
  Names,        (* connection names, as sequences cut at their colons      *)
  Default,      (* AMQP_DEFAULT_CONNECTION_TOKEN                           *)
  Empty,        (* the empty string                                        *)
  Exports,      (* what modules of the application export, none is global  *)
  RootCalls,    (* the calls an application may make                       *)
  MaxRoots      (* bound: how many it makes                                *)

VARIABLES
  calls,          (* the calls made                                        *)
  definition,     (* QueueModule.moduleDefinition                          *)
  storedOptions,  (* AMQConnectionOptionsStorage                           *)
  connections,    (* AMQConnectionStorage: each with its options           *)
  unopened,       (* connections whose first open() failed                 *)
  resolved,       (* the providers that Nest has resolved                  *)
  stage           (* where the start is, or why it failed                  *)

configuration == <<calls, definition, storedOptions, connections, unopened,
                   resolved, stage>>

-----------------------------------------------------------------------------
(* The options of one connection; `id` tells whose options they are, and   *)
(* `supported` stands for a URI that parses to a protocol of getTransport. *)
AMQPConnectionOptions ==
  [id : Nat, retry : BOOLEAN, throws : BOOLEAN, supported : BOOLEAN]

Sources == {"useFactory", "useClass", "useExisting"}

(* The last three matter to forRootAsync() only: what the modules export   *)
(* that it imports, and what is injected into its factory, or the class of *)
(* useClass, or is the provider of useExisting.                            *)
RootCall ==
  [form : {"uri", "object", "array", "async"}, global : BOOLEAN,
   entries : Seq([name : Names, options : AMQPConnectionOptions]),
   sources : SUBSET Sources, imports : SUBSET Exports,
   injects : SUBSET Exports]

InjectsClass(call) ==
  "useFactory" \notin call.sources /\ "useClass" \in call.sources

(* Every form but "array" is about one connection, and that is Default; a  *)
(* `name` that is missing in an array is Default as well.  All calls that  *)
(* give useClass give the same class.                                      *)
ASSUME ConfigurationAssumption ==
  /\ Default \in Names /\ Empty \in Names /\ Default # Empty
  /\ MaxRoots \in Nat
  /\ RootCalls \subseteq RootCall
  /\ \A call \in RootCalls :
       call.form # "array" =>
         Len(call.entries) = 1 /\ call.entries[1].name = Default
  /\ \A one, other \in RootCalls :
       InjectsClass(one) /\ InjectsClass(other) => one.injects = other.injects

(* Not used: throwExceptionOnConnectionError is not copied.                *)
KeptQuietly(options) == [options EXCEPT !.retry = FALSE, !.throws = FALSE]

(* getConnectionOptions() copies what it knows, and not retryConnection.   *)
Kept(options) == [options EXCEPT !.retry = FALSE]

NoOptions == [id |-> 0, retry |-> FALSE, throws |-> FALSE, supported |-> FALSE]

(* getAMQConnectionToken(), getAMQConnectionOptionsToken().                *)
Token(kind, name) == <<kind, IF name = Empty THEN Default ELSE name>>

(* `needs` are providers of the module itself, `injects` are imported.     *)
Provider(kind, name, options, async, needs, injects) ==
  [token |-> Token(kind, name), name |-> name, options |-> options,
   async |-> async, needs |-> needs, injects |-> injects]

ModuleOptionsProvider == Provider("module", Default, NoOptions, FALSE, {}, {})

OptionsProvider(entry) ==
  Provider("options", entry.name, Kept(entry.options), FALSE, {}, {})

ConnectionProvider(name) ==
  Provider("connection", name, NoOptions, FALSE, {Token("options", name)}, {})

(* The factories of forRootAsync() for the options of the module and of    *)
(* the connection.                                                         *)
AsyncProvider(kind, options, call) ==
  IF InjectsClass(call)
    THEN Provider(kind, Default, options, TRUE, {Token("class", Default)}, {})
    ELSE Provider(kind, Default, options, TRUE, {}, call.injects)

(* Not used: the class is never provided.                                  *)
AsyncProvidersOnly(call) ==
  << AsyncProvider("module", NoOptions, call),
     AsyncProvider("options", call.entries[1].options, call) >>

AsyncProviders(call) ==
  << AsyncProvider("module", NoOptions, call),
     AsyncProvider("options", call.entries[1].options, call) >>
    \o IF call.sources = {"useClass"}
         THEN << Provider("class", Default, NoOptions, FALSE, {},
                          call.injects) >>
         ELSE << >>

-----------------------------------------------------------------------------
ConfigurationInit ==
  /\ calls = << >>
  /\ definition = [global |-> FALSE, imports |-> {}, providers |-> << >>]
  /\ storedOptions = << >> /\ connections = << >>
  /\ unopened = {} /\ resolved = {}
  /\ stage = "importing"

(* add() of both storages.                                                 *)
Stored(storage, name, value) ==
  [n \in DOMAIN storage \cup {name} |->
     IF n = name THEN value ELSE storage[n]]

(* add() for one entry of a call after the other: the last of a name stays. *)
Naming(entries, name) == {i \in DOMAIN entries : entries[i].name = name}

LastNaming(entries, name) ==
  CHOOSE i \in Naming(entries, name) :
    \A j \in Naming(entries, name) : j <= i

AllStored(storage, entries) ==
  [n \in DOMAIN storage \cup {entries[i].name : i \in DOMAIN entries} |->
     IF Naming(entries, n) # {}
       THEN Kept(entries[LastNaming(entries, n)].options) ELSE storage[n]]

(* AMQConnectionStorage.get() does not look for an empty name.             *)
Found(name) == name \in DOMAIN connections \ {Empty}

OptionsProviders(entries) ==
  [i \in DOMAIN entries |-> OptionsProvider(entries[i])]

ConnectionProviders(entries) ==
  [i \in DOMAIN entries |-> ConnectionProvider(entries[i].name)]

(* Not used: the providers of the options go in front of older ones.       *)
ForRootInFront(call) ==
  /\ call.form # "async"
  /\ definition' =
       [definition EXCEPT
          !.global = call.form # "object" /\ call.global,
          !.providers = << ModuleOptionsProvider >>
            \o OptionsProviders(call.entries)
            \o definition.providers
            \o ConnectionProviders(call.entries)]
  /\ storedOptions' = AllStored(storedOptions, call.entries)
  /\ UNCHANGED stage

(* forRoot(): isGlobal is read from the second argument, which an options  *)
(* object in the place of the URI does not have.                           *)
ForRoot(call) ==
  /\ call.form # "async"
  /\ definition' =
       [definition EXCEPT
          !.global = call.form # "object" /\ call.global,
          !.providers = << ModuleOptionsProvider >>
            \o definition.providers
            \o OptionsProviders(call.entries)
            \o ConnectionProviders(call.entries)]
  /\ storedOptions' = AllStored(storedOptions, call.entries)
  /\ UNCHANGED stage

(* forRootAsync(): its imports take the place of those of an earlier call. *)
ForRootAsync(call) ==
  /\ call.form = "async"
  /\ IF call.sources = {}
       THEN stage' = "noSource" /\ UNCHANGED definition
       ELSE /\ definition' =
                 [global |-> call.global,
                  imports |-> call.imports,
                  providers |-> AsyncProviders(call) \o definition.providers
                                  \o << ConnectionProvider(Default) >>]
            /\ UNCHANGED stage
  /\ UNCHANGED storedOptions

Import ==
  /\ stage = "importing" /\ Len(calls) < MaxRoots
  /\ \E call \in RootCalls :
       /\ ForRoot(call) \/ ForRootAsync(call)
       /\ calls' = Append(calls, call)
  /\ UNCHANGED <<connections, unopened, resolved>>

-----------------------------------------------------------------------------
(* Nest: the last provider of a token counts, and it is resolved once what *)
(* it needs is.                                                            *)

Bootstrap ==
  /\ stage = "importing" /\ calls # << >>
  /\ stage' = "resolving"
  /\ UNCHANGED <<calls, definition, storedOptions, connections, unopened,
                 resolved>>

Providers == definition.providers

Current(token) ==
  LET same == {i \in DOMAIN Providers : Providers[i].token = token}
  IN  {i \in same : \A j \in same : j <= i}

InUse == UNION {Current(Providers[i].token) : i \in DOMAIN Providers}

Ready(i) ==
  /\ stage = "resolving" /\ i \in InUse \ resolved
  /\ \A t \in Providers[i].needs :
       Current(t) # {} /\ Current(t) \subseteq resolved
  /\ Providers[i].injects \subseteq definition.imports

(* A value, a class or the factory of forRootAsync(), which stores a part  *)
(* of the options and returns all of them.                                 *)
Resolve(i) ==
  /\ Ready(i)
  /\ Providers[i].token[1] # "connection"
  /\ resolved' = resolved \cup {i}
  /\ storedOptions' =
       IF Providers[i].async /\ Providers[i].token[1] = "options"
         THEN Stored(storedOptions, Default, Kept(Providers[i].options))
         ELSE storedOptions
  /\ UNCHANGED <<calls, definition, connections, unopened, stage>>

(* AMQPService.createConnection() as the factory of a connection: it may   *)
(* reject the URI, and open() may fail.                                    *)
CreateConnection(i) ==
  /\ Ready(i)
  /\ Providers[i].token[1] = "connection"
  /\ \E from \in Current(Token("options", Providers[i].name)),
        opens \in BOOLEAN :
       LET options == Providers[from].options
           name == Providers[i].name
       IN  IF ~options.supported \/ (~opens /\ options.throws)
             THEN /\ stage' = IF options.supported THEN "notOpened"
                                                   ELSE "notSupported"
                  /\ UNCHANGED <<connections, unopened, resolved>>
             ELSE /\ connections' = Stored(connections, name, options)
                  /\ unopened' = IF opens THEN unopened
                                          ELSE unopened \cup {name}
                  /\ resolved' = resolved \cup {i}
                  /\ UNCHANGED stage
  /\ UNCHANGED <<calls, definition, storedOptions>>

(* A provider needs something that the module neither has nor imports.     *)
Unresolvable ==
  /\ stage = "resolving"
  /\ \E i \in InUse :
       \/ \E t \in Providers[i].needs : Current(t) = {}
       \/ ~(Providers[i].injects \subseteq definition.imports)
  /\ stage' = "unresolvable"
  /\ UNCHANGED <<calls, definition, storedOptions, connections, unopened,
                 resolved>>

Resolving ==
  \/ \E i \in DOMAIN Providers : Resolve(i) \/ CreateConnection(i)
  \/ Unresolvable

-----------------------------------------------------------------------------
Entries(form) ==
  UNION {{i} \X DOMAIN calls[i].entries :
           i \in {k \in DOMAIN calls : calls[k].form \in form}}

Entry(p) == calls[p[1]].entries[p[2]]

EmptyNames ==
  \E p \in Entries({"array"}) : Entry(p).name = Empty

Synchronous == {"uri", "object", "array"}

SyncFor(n) == {p \in Entries(Synchronous) : Entry(p).name = n}

AtOrAfter(p, q) == p[1] > q[1] \/ (p[1] = q[1] /\ p[2] >= q[2])

(* Whose options connection n gets: those of the last forRoot() that names *)
(* it, else those of the first forRootAsync().                             *)
Giver(n) ==
  IF SyncFor(n) # {}
    THEN Entry(CHOOSE p \in SyncFor(n) :
                 \A q \in SyncFor(n) : AtOrAfter(p, q)).options
    ELSE Entry(CHOOSE p \in Entries({"async"}) :
                 \A q \in Entries({"async"}) : AtOrAfter(q, p)).options

(* However forRoot() and forRootAsync() are combined and names repeated,   *)
(* each connection is opened with the options that the services later read *)
(* from the storage for it: the order in which providers override one      *)
(* another agrees with the order in which the storage is written.          *)
OptionsAgree ==
  stage \in {"attaching", "ready"} /\ ~EmptyNames =>
    \A n \in DOMAIN connections :
      /\ n \in DOMAIN storedOptions
      /\ connections[n].id = Giver(n).id
      /\ storedOptions[n].id = Giver(n).id

(* README, throwExceptionOnConnectionError: "If it's `true` then           *)
(* QueueModule will throw forward the exception which occurs during the    *)
(* connection creation" -- the start never gets past such a connection.    *)
ExceptionIsThrown ==
  ~EmptyNames => \A n \in unopened : ~Giver(n).throws

(* AMQPConnectionOptions.retryConnection, "Retry configuration for senders *)
(* and receivers": it reaches the storage that the retry loops read.       *)
RetryHonoured ==
  stage = "ready" /\ ~EmptyNames =>
    \A n \in DOMAIN connections : storedOptions[n].retry = Giver(n).retry

=============================================================================
