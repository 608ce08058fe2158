------------------------ MODULE MCListenerDiscovery ------------------------
(* Up to two root calls, of every form; a class A that listens on two      *)
(* queues, a subclass B that overrides one of the methods and listens on a *)
(* queue of A as well, and a class C that listens on named connections, of *)
(* which one has a colon in its name.  The calls of forRootAsync() import  *)
(* a module that exports X, or one that exports Y, or none.                *)
EXTENDS ListenerDiscovery

CONSTANTS A, B, C, X, Y

MCDefault == <<"default">>
MCEmpty == <<"">>
MCNames == {MCDefault, MCEmpty, <<"a">>, <<"a", "b">>}

Given(i, throws, supported) ==
  [id |-> i, retry |-> TRUE, throws |-> throws, supported |-> supported]

Plain(i) == Given(i, FALSE, TRUE)

Named(name, options) == [name |-> name, options |-> options]

Sync(form, entries) ==
  [form |-> form, global |-> TRUE, entries |-> entries, sources |-> {},
   imports |-> {}, injects |-> {}]

Async(options, sources, imports, injects) ==
  [form |-> "async", global |-> TRUE,
   entries |-> << Named(MCDefault, options) >>, sources |-> sources,
   imports |-> imports, injects |-> injects]

(* The class of useClass injects X.                                        *)
MCRootCalls ==
  {Sync("uri", << Named(MCDefault, Plain(1)) >>),
   Sync("object", << Named(MCDefault, Given(2, TRUE, TRUE)) >>),
   Sync("uri", << Named(MCDefault, Given(3, FALSE, FALSE)) >>),
   Sync("array", << Named(MCDefault, Plain(4)),
                    Named(<<"a">>, Given(5, TRUE, TRUE)) >>),
   Sync("array", << Named(<<"a">>, Plain(6)), Named(<<"a">>, Plain(7)) >>),
   Sync("array", << Named(MCDefault, Plain(8)), Named(MCEmpty, Plain(9)) >>),
   Sync("array", << Named(<<"a">>, Plain(10)),
                    Named(<<"a", "b">>, Plain(11)) >>)}
  \cup {Async(Plain(12), s, {X}, {X}) : s \in SUBSET Sources}
  \cup {Async(Given(13, TRUE, TRUE), {"useClass"}, {X, Y}, {X}),
        Async(Plain(14), {"useFactory"}, {Y}, {Y}),
        Async(Plain(15), {"useFactory"}, {}, {}),
        Async(Plain(16), {"useExisting"}, {}, {Y})}

Method(name, listens, source, second, third) ==
  [name |-> name, listens |-> listens, source |-> source, second |-> second,
   third |-> third]

MCLineage == A :> << A >> @@ B :> << B, A >> @@ C :> << C >>

MCPrototype ==
  A :> << Method("one", TRUE, <<"q">>, Unset, Unset),
          Method("two", TRUE, <<"r">>, Unset, Unset) >> @@
  B :> << Method("two", FALSE, <<"r">>, Unset, Unset),
          Method("three", TRUE, <<"q">>, Unset, MCDefault) >> @@
  C :> << Method("four", TRUE, <<"b", "q">>, <<"a">>, Unset),
          Method("five", TRUE, <<"q">>, Unset, <<"a", "b">>),
          Method("six", TRUE, <<"q">>, <<"a">>, MCDefault) >>

Wrapper(as, of, class) ==
  [as |-> as, of |-> of, class |-> class, live |-> TRUE,
   scoped |-> FALSE]

Usual(class) == Wrapper("class", class, class)

MCApplications ==
  {<< >>, << Usual(A) >>, << Usual(B), Usual(A) >>, << Usual(B) >>,
   << Usual(C) >>, << Usual(C), Usual(A), Usual(A) >>,
   << Wrapper("class", A, B) >>, << Wrapper("name", A, A), Usual(B) >>,
   << Wrapper("custom", A, A) >>,
   << [Usual(A) EXCEPT !.live = FALSE], Usual(C) >>,
   << Usual(C), [Usual(A) EXCEPT !.scoped = TRUE], Wrapper("name", A, A) >>}

=============================================================================
