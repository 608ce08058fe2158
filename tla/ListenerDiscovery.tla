-------------------------- MODULE ListenerDiscovery -------------------------
(***************************************************************************)
(* QueueModule.onModuleInit() over ModuleConfiguration: ListenerExplorer   *)
(* collects the @Listen() methods of all providers of the application, and *)
(* attachListeners() looks up an instance for each and calls listen().     *)
(***************************************************************************)
EXTENDS ModuleConfiguration

CONSTANTS
  Unset,        (* an argument that is missing, or not a string            *)
  Classes,      (* the classes of the application's providers              *)
  Lineage,      (* the classes along the prototypes of each class          *)
  Prototype,    (* the methods each class declares, in order               *)
  Applications  (* sequences of providers, in the order of the modules     *)

(* A method with what its decorator was given, if it has one.              *)
Methods ==
  [name : STRING, listens : BOOLEAN, source : Seq(STRING),
   second : Names \cup {Unset}, third : Names \cup {Unset}]

(* A provider of `class`, under the token `of`: that class or its name, or *)
(* one of the application's own; live once it has an instance; scoped when *)
(* every request, or everyone who injects it, gets an instance of its own. *)
InstanceWrappers ==
  [as : {"class", "name", "custom"}, of : Classes, class : Classes,
   live : BOOLEAN, scoped : BOOLEAN]

ASSUME DiscoveryAssumption ==
  /\ Names \subseteq Seq(STRING)
  /\ Lineage \in [Classes -> Seq(Classes)]
  /\ \A c \in Classes : Len(Lineage[c]) > 0 /\ Lineage[c][1] = c
  /\ Prototype \in [Classes -> Seq(Methods)]
  /\ Applications \subseteq Seq(InstanceWrappers)

VARIABLES
  app,          (* the providers of the application                        *)
  explored,     (* the result of explore()                                 *)
  position,     (* the listener attachListeners() has come to              *)
  receivers     (* QueueService.receivers: the handler behind each token   *)

startup == <<configuration, app, explored, position, receivers>>

-----------------------------------------------------------------------------
(* Not used: there is no default.                                          *)
ConnectionArgumentUnset(second, third) ==
  IF third # Unset THEN third ELSE second

(* @Listen(source, second, third), and send() alike: a connection name is  *)
(* the third argument, or the second if that is a string.                  *)
ConnectionArgument(second, third) ==
  IF third # Unset THEN third ELSE IF second # Unset THEN second ELSE Default

(* What the decorator leaves at the method; the target is the class that   *)
(* declares it.                                                            *)
ListenerMetadata ==
  [target : Classes, callback : STRING, source : Seq(STRING),
   connection : Names]

Metadata(class, method) ==
  [target |-> class, callback |-> method.name, source |-> method.source,
   connection |-> ConnectionArgument(method.second, method.third)]

(* MetadataScanner: every name along the prototypes once, from the first.  *)
Overridden(class, i, name) ==
  \E k \in 1..(i - 1) :
    LET own == Prototype[Lineage[class][k]]
    IN  \E m \in DOMAIN own : own[m].name = name

(* exploreMethodMetadata() at the methods that class has from the i-th of  *)
(* its Lineage; it finds nothing at undecorated ones.                      *)
ListenersAlong(class, i) ==
  LET declares == Lineage[class][i]
      own == Prototype[declares]
  IN  FlattenSeq([m \in DOMAIN own |->
                    IF own[m].listens /\ ~Overridden(class, i, own[m].name)
                      THEN << Metadata(declares, own[m]) >> ELSE << >>])

ListenersOf(class) ==
  FlattenSeq([i \in DOMAIN Lineage[class] |-> ListenersAlong(class, i)])

(* explore(): the instances of all modules, one after the other.           *)
Explore(providers) ==
  FlattenSeq([i \in DOMAIN providers |->
                IF providers[i].live THEN ListenersOf(providers[i].class)
                                     ELSE << >>])

(* getLinkToken(): both names joined with a colon.                         *)
LinkToken(connection, source) == connection \o source

(* moduleRef.get() by class, and by the name of the class when no provider *)
(* has the class for its token.                                            *)
Hosts(listener) ==
  LET under(as) == {w \in DOMAIN app :
                      app[w].as = as /\ app[w].of = listener.target}
  IN  IF under("class") # {} THEN under("class") ELSE under("name")

-----------------------------------------------------------------------------
StartupInit ==
  /\ ConfigurationInit
  /\ app = << >> /\ explored = << >> /\ position = 0 /\ receivers = << >>

Configure ==
  /\ Import \/ Bootstrap \/ Resolving
  /\ UNCHANGED <<app, explored, position, receivers>>

(* All providers are there: Nest calls onModuleInit().                     *)
OnModuleInit ==
  /\ stage = "resolving" /\ InUse \subseteq resolved
  /\ \E providers \in Applications :
       app' = providers /\ explored' = Explore(providers)
  /\ stage' = "attaching" /\ position' = 1
  /\ UNCHANGED <<calls, definition, storedOptions, connections, unopened,
                 resolved, receivers>>

Listener == explored[position]

Attaching == stage = "attaching" /\ position <= Len(explored)

Fails(why) ==
  /\ stage' = why
  /\ UNCHANGED <<app, explored, position, receivers>>

NoHost == Attaching /\ Hosts(Listener) = {} /\ Fails("noHost")

(* moduleRef.get() has no instance of a scoped provider to return: an      *)
(* error other than an unknown element is thrown on.                       *)
ScopedHost ==
  /\ Attaching
  /\ \E w \in Hosts(Listener) : app[w].scoped
  /\ Fails("scoped")

Instances(listener) == {w \in Hosts(listener) : ~app[w].scoped}

(* Not used: the Map is not asked first.                                   *)
Forgotten(token) == FALSE

Known(token) == token \in DOMAIN receivers

(* listen() resolves: with a receiver of its own, or without one if the    *)
(* Map has one for that token.                                             *)
Attach ==
  /\ Attaching
  /\ LET token == LinkToken(Listener.connection, Listener.source)
     IN  \E w \in Instances(Listener) :
           IF Known(token)
             THEN UNCHANGED receivers
             ELSE /\ Found(Listener.connection)
                  /\ receivers' = Stored(receivers, token,
                                    [listener |-> Listener, bound |-> w])
  /\ position' = position + 1
  /\ UNCHANGED <<app, explored, stage>>

(* listen() rejects: there is no such connection, or the broker refuses.   *)
ListenFails ==
  /\ Attaching
  /\ Instances(Listener) # {}
  /\ ~Known(LinkToken(Listener.connection, Listener.source))
  /\ Fails(IF Found(Listener.connection)
             THEN "refused" ELSE "noConnection")

Initialized ==
  /\ stage = "attaching" /\ position > Len(explored)
  /\ stage' = "ready"
  /\ UNCHANGED <<app, explored, position, receivers>>

AttachListeners ==
  /\ NoHost \/ ScopedHost \/ Attach \/ ListenFails \/ Initialized
  /\ UNCHANGED <<calls, definition, storedOptions, connections, unopened,
                 resolved>>

StartupNext == Configure \/ OnModuleInit \/ AttachListeners

StartupSpec == StartupInit /\ [][StartupNext]_startup

-----------------------------------------------------------------------------
Failures == {"noSource", "unresolvable", "notSupported", "notOpened",
             "noHost", "scoped", "noConnection", "refused"}

StartupTypeOK ==
  /\ calls \in Seq(RootCalls)
  /\ DOMAIN storedOptions \subseteq Names
  /\ DOMAIN connections \subseteq Names
  /\ unopened \subseteq DOMAIN connections
  /\ resolved \subseteq DOMAIN Providers
  /\ stage \in {"importing", "resolving", "attaching", "ready"} \cup Failures
  /\ position \in 0..(Len(explored) + 1)
  /\ explored \in Seq(ListenerMetadata)
  /\ \A t \in DOMAIN receivers :
       /\ receivers[t].listener \in ListenerMetadata
       /\ receivers[t].bound \in DOMAIN app

AsyncCalls == {i \in DOMAIN calls : calls[i].form = "async"}

(* The application fails to start only for what it is to blame for, in any *)
(* combination of root calls, providers and listeners: no source of        *)
(* options or two (useClass is injected but not provided when useExisting  *)
(* is given as well), something injected that the last forRootAsync() does *)
(* not import, even if an earlier one did, an unsupported URI, a listener  *)
(* on a connection that no call names, or one whose class is provided only *)
(* through a subclass, under another token, or for a scope.                *)
StartFailsOnlyFor ==
  ~EmptyNames =>
    /\ stage = "unresolvable" =>
         \E i \in AsyncCalls :
           \/ calls[i].sources = {"useClass", "useExisting"}
           \/ \E last \in AsyncCalls :
                /\ \A j \in AsyncCalls : j <= last
                /\ ~(calls[i].injects \subseteq calls[last].imports)
    /\ stage = "scoped" =>
         \E w \in DOMAIN app : app[w].scoped /\ app[w].of = Listener.target
    /\ stage = "noConnection" =>
         \A p \in Entries(Synchronous \cup {"async"}) :
           Entry(p).name # Listener.connection
    /\ stage = "noHost" =>
         \E w \in DOMAIN app :
           Len(Lineage[app[w].class]) > 1 \/ app[w].of # app[w].class
             \/ app[w].as = "custom"

(* Of several methods that listen on one queue of one connection (also by  *)
(* being explored twice) the first serves it, bound to a provider of the   *)
(* class that declares it, and no other method's queue gets its messages,  *)
(* as long as connection names have no colon.                              *)
FirstListenerServes ==
  stage = "ready"
    /\ (\A i \in DOMAIN explored : Len(explored[i].connection) = 1)
    => \A i \in DOMAIN explored :
         LET l == explored[i]
             same == {j \in DOMAIN explored :
                        /\ explored[j].connection = l.connection
                        /\ explored[j].source = l.source}
             first == explored[CHOOSE j \in same : \A k \in same : j <= k]
             handler == receivers[LinkToken(l.connection, l.source)]
         IN  /\ handler.listener = first
             /\ app[handler.bound].of = first.target

=============================================================================
