------------------------------- MODULE MCFacts -------------------------------
(* An instance of Facts for TLC. *)
EXTENDS Facts, ProtocolRuns

CONSTANTS a, b, c, id, expr

\* Proven calls: a site that calls 2, which calls 3, which may call 2 again or
\* outside code; arguments by way of parameters, locals and results.
P(i) == <<"param", i>>
C(k) == <<"call", k>>
Call(callee, args) ==
  [callee |-> callee, dispatch |-> "direct", args |-> args, onto |-> {}]
Extern == [Call(0, <<{P(1)}>>) EXCEPT !.dispatch = "extern"]
Write(kind, t) == {[kind |-> kind, target |-> {t}]}

Meth(inert, writes, stores, returns, calls) ==
  [params |-> <<inert>>, receiver |-> FALSE, locals |-> <<{P(1)}>>,
   derefs |-> {P(1)}, writes |-> writes, stores |-> stores, returns |-> returns,
   calls |-> calls, unknown |-> FALSE, returnInert |-> FALSE]

Third ==
  { Meth(FALSE, w, {}, r, << >>) : w \in {{}, Write("indirect", P(1))}, r \in {{}, {P(1)}} }
  \cup { Meth(FALSE, w, {}, r, <<c3>>) :
           w \in {{}, Write("instance", P(1))}, r \in {{}, {P(1), C(1)}},
           c3 \in {Call(2, <<{P(1)}>>), Extern} }
  \cup {[Meth(FALSE, {}, {}, {}, << >>) EXCEPT !.unknown = TRUE]}

AllPrograms ==
  { [methods |-> << Meth(FALSE, {}, {}, r1, <<Call(2, <<{x}>>)>>),
                    Meth(inert, ws[1], ws[2], r2, <<Call(3, <<{y}>>)>>), m3 >>,
     site |-> 1, callee |-> 2] :
    x \in {Heap, <<"local", 1>>}, r1 \in {{}, {C(1)}}, inert \in BOOLEAN,
    y \in {P(1), Heap}, r2 \in {{}, {C(1)}}, m3 \in Third,
    ws \in {<<{}, {}>>, <<Write("instance", C(1)), {}>>, <<Write("static", Heap), {}>>,
            <<{}, {C(1)}>>} }

\* Lifetimes: orders of three regions with a second declaration, an undeclared
\* region and cycles; one function that subscribes to two of its parameters.
RegionNames == {"App", "Win", "View"}
Decls == [name : RegionNames, longer : {{}} \cup {{r} : r \in RegionNames \cup {"Ghost"}}]

AllLifetimeModules ==
  { [decls |-> <<d1, d2, d3>>,
     functions |-> <<[life |-> {l}, params |-> [bus |-> {p}, hub |-> {"App"}, cb |-> {}],
                      subs |-> {"bus", "cb", "gone"}]>>] :
    d1 \in Decls, d2 \in Decls, d3 \in Decls, l \in {"View", "Ghost"}, p \in {"App", "Win"} }

\* Services: a singleton over two transients and two scoped services, in cycles,
\* with an unregistered name and a second registration.
Service(name, life, deps, disp) ==
  [name |-> name, life |-> life, deps |-> deps, disposable |-> disp,
   weak |-> << >>, roots |-> << >>, cached |-> << >>]

Single(deps) == [Service("S", "singleton", deps, FALSE)
                   EXCEPT !.weak = deps, !.roots = deps, !.cached = deps]

Heads == {<<"T">>, <<"C", "T">>, <<"X", "U", "T">>}
Lists == {<< >>, <<"U">>, <<"C">>, <<"U", "C">>, <<"T", "D">>, <<"U", "T">>}

AllRegistrations ==
  { <<Single(h), Service("T", "transient", t, dt), Service("U", "transient", u, TRUE),
      Service("C", "scoped", <<"T">>, TRUE), Service("D", "scoped", << >>, TRUE)>> \o again :
    h \in Heads, t \in Lists, u \in Lists, dt \in BOOLEAN,
    again \in {<< >>, <<Single(<<"U">>)>>, <<Service("U", "singleton", <<"T">>, TRUE)>>} }

\* Effects: three bindings with at most two references each.
BoundNames  == {a, b, c}
PlainNames  == {id}
OpaqueNames == {expr}

RefLists == {<< >>} \cup {<<x>> : x \in {a, b, c, expr}}
            \cup ({<<x, y>> : x \in {a, b, c, expr}, y \in BoundNames}
                   \ {<<x, x>> : x \in BoundNames})
Bindings == {[init |-> "derived", refs |-> rs] : rs \in RefLists}
            \cup {[init |-> i, refs |-> << >>] : i \in {"fresh", "referential", "call"}}
AllTables == [BoundNames -> Bindings]
AllDeps   == <<id, a, b, c>>

\* Protocols: loops in loops, branches in loops, branches that leave.
Assign(v, n) == [ev |-> "assign", target |-> "Loaded", value |-> v, line |-> n]
Raise(arg, n) == [ev |-> "call", target |-> "Raise", value |-> arg, line |-> n]
Stop(n)   == [ev |-> "return", line |-> n]
If(t, e)  == [ev |-> "if", then |-> t, orelse |-> e]
While(s)  == [ev |-> "while", body |-> s]

M(kind, target, values) == [kind |-> kind, target |-> target, values |-> values]

Loading ==
  [opens |-> M("assign", "Loaded", {"false"}), closes |-> M("assign", "Loaded", {"true"}),
   barriers |-> {M("call", "Raise", {"Doc", "Busy"}), M("assign", "Loaded", {})},
   allow |-> {M("call", "Raise", {"Busy"})}, exits |-> TRUE, scope |-> {"Load"}]

\* The same for every method, which may end with the obligation open.
Lenient == [Loading EXCEPT !.exits = FALSE, !.scope = {}]

Events(n) == {Assign("false", n), Assign("true", n), Assign("opaque", n),
              Raise("Doc", n), Stop(n)}

Trees ==
  UNION {
    { <<s, While(<<t, While(<<u>>), v>>), Raise("Doc", 5)>>,
      <<While(<<s, If(<<t, u>>, <<v>>)>>), Raise("Busy", 5)>>,
      <<While(<<s, t>>), If(<<u>>, <<v>>), Raise("Doc", 5)>> } :
   s \in Events(1), t \in Events(2), u \in Events(3), v \in Events(4)}

AllChecks ==
  { [protocols |-> <<Loading>>, methods |-> <<[name |-> "Save", events |-> << >>],
                                              [name |-> "Load", events |-> t]>>] :
     t \in Trees }
  \cup
  { [protocols |-> <<Loading, Lenient>>, methods |-> <<[name |-> "Load", events |-> <<s, t>>],
                                                       [name |-> "Save", events |-> <<t, s>>]>>] :
     s \in Events(1), t \in Events(2) }
=============================================================================
