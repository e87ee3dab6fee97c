----------------------------- MODULE HeapEffects -----------------------------
(***************************************************************************)
(* Heap effects (ownlang/heap_effects.py) and the one place they decide    *)
(* anything: OwnIR admits a `proven_call` in an exclusive region only if   *)
(* its site is proven harmless (ownlang/ownir.py, _admit_proven_calls).    *)
(*                                                                         *)
(* A method states, flow-insensitively, what it reads, writes, stores,     *)
(* returns and calls in terms of tokens: <<"param", i>>, <<"local", j>>    *)
(* (whatever the local's sources are), <<"call", k>> (what the call        *)
(* returned), <<"receiver">>, <<"heap">>.  A call is [callee, dispatch,    *)
(* args, onto], onto {} for a call without a receiver; a callee that       *)
(* returns its receiver then returns the heap.  Methods are numbered in    *)
(* the order of their keys; callee 0 is a method without a record.  The    *)
(* solver takes the components of the call graph bottom-up and evaluates   *)
(* the methods of one again until nothing changes.                         *)
(***************************************************************************)
EXTENDS Naturals, Sequences, FiniteSets

CONSTANT Programs   \* inputs: [methods, site, callee]

Kinds == {"instance", "static", "indirect"}

\* Effects in their order, and the levels of a write: none < may < unknown.
EffectOrder == <<"plain", "borrow", "borrow_mut", "may_escape", "unknown">>
Grade(e)    == CHOOSE g \in DOMAIN EffectOrder : EffectOrder[g] = e
Worst(S)    == CHOOSE e \in S : \A x \in S : Grade(x) <= Grade(e)
Beyond(e)   == Grade(e) >= Grade("borrow_mut")

Worse(S) == IF "unknown" \in S THEN "unknown" ELSE IF "may" \in S THEN "may" ELSE "none"

Anything == <<"unknown">>
Heap     == <<"heap">>
Receiver == <<"receiver">>

VARIABLES
  program,     \* the methods, and the proven_call asked about
  unsolved,    \* methods of components still to come
  component,   \* the methods of the component being solved
  todoMethods, \* those still to evaluate in this pass
  changed,     \* this pass changed a summary
  solved,      \* method -> summary
  admitted     \* << >>, or the verdict in one: the call is admitted

hevars == <<program, unsolved, component, todoMethods, changed, solved, admitted>>

Methods == DOMAIN program.methods
NoSummary(call) == call.dispatch # "direct" \/ call.callee \notin Methods

Callees(m) ==
  {program.methods[m].calls[k].callee :
     k \in {x \in DOMAIN program.methods[m].calls :
              ~ NoSummary(program.methods[m].calls[x])}}

\* The methods m reaches by calls, itself included.
Calls(m) ==
  LET n == Len(program.methods)
      step[k \in 0 .. n] ==
        IF k = 0 THEN {m}
        ELSE LET prev == step[k - 1] IN prev \cup UNION {Callees(x) : x \in prev}
  IN step[n]

Untouched(m) ==
  [params |-> [i \in DOMAIN m.params |-> "plain"], receiver |-> "plain",
   writes |-> [k \in Kinds |-> "none"], returns |-> {}]

-----------------------------------------------------------------------------
(* One application of a method's transfer function (_evaluate). *)

\* What the value of a token may be, one step further (roots).
Sources(m, t, summaries) ==
  CASE t[1] = "local" -> m.locals[t[2]]
    [] t[1] = "call"  ->
         LET call == m.calls[t[2]] IN
         IF NoSummary(call) THEN {Anything}
         ELSE UNION {CASE r[1] = "param" -> call.args[r[2]]
                       [] r = Receiver   -> IF call.onto = {} THEN {Heap} ELSE call.onto
                       [] OTHER          -> {r} : r \in summaries[call.callee].returns}
    [] OTHER -> {}

IsRoot(t) == t[1] \in {"param", "receiver", "heap", "unknown"}

Roots(m, tokens, summaries) ==
  LET n == Len(m.locals) + Len(m.calls)
      step[k \in 0 .. n] ==
        IF k = 0 THEN tokens
        ELSE LET prev == step[k - 1]
             IN prev \cup UNION {Sources(m, t, summaries) : t \in prev}
  IN {t \in step[n] : IsRoot(t)}

\* Every application of an effect to a root: <<root, effect, kind>>.
Marks(m, summaries) ==
  LET on(tokens, e, kind) == {<<r, e, kind>> : r \in Roots(m, tokens, summaries)} IN
  on(m.derefs, "borrow", "instance")
    \cup UNION {on(w.target, "borrow_mut", w.kind) : w \in {x \in m.writes : x.kind # "static"}}
    \cup on(m.stores, "may_escape", "instance")
    \cup UNION {LET call == m.calls[k] IN
                IF NoSummary(call)
                THEN UNION {on(call.args[j], "unknown", "instance") : j \in DOMAIN call.args}
                       \cup on(call.onto, "unknown", "instance")
                ELSE UNION {on(call.args[j], summaries[call.callee].params[j], "instance") :
                              j \in DOMAIN call.args}
                       \cup on(call.onto, summaries[call.callee].receiver, "instance") :
                k \in DOMAIN m.calls}

\* How bad the writes of one kind are: to memory no parameter reaches.
Writes(m, kind, summaries, marks) ==
  Worse({IF k[1] = Anything \/ k[2] = "unknown" THEN "unknown" ELSE "may" :
           k \in {x \in marks : x[3] = kind /\ x[1] \in {Heap, Anything} /\ Beyond(x[2])}}
        \cup {"may" : w \in {x \in m.writes : kind = "static" /\ x.kind = "static"}}
        \cup {IF NoSummary(m.calls[k]) THEN "unknown"
              ELSE summaries[m.calls[k].callee].writes[kind] : k \in DOMAIN m.calls})

\* A value that may be unknown is unknown, whatever else it may be.
Returned(m, summaries) ==
  LET r == {t \in Roots(m, m.returns, summaries) : t[1] = "param" => ~ m.params[t[2]]}
  IN CASE m.returnInert -> {}
       [] ~ m.returnInert /\ Anything \in r -> {Anything}
       [] OTHER -> r

EvaluateKnown(m, summaries) ==
  LET marks == Marks(m, summaries) IN
  [params |-> [i \in DOMAIN m.params |->
                 Worst({"plain"} \cup {k[2] : k \in {x \in marks :
                          x[1] = <<"param", i>> /\ ~ m.params[i]}})],
   receiver |-> Worst({"plain"} \cup {k[2] : k \in {x \in marks : x[1] = Receiver}}),
   writes  |-> [k \in Kinds |-> Writes(m, k, summaries, marks)],
   returns |-> Returned(m, summaries)]

Evaluate(m, summaries) ==
  IF m.unknown
  THEN [params |-> [i \in DOMAIN m.params |-> IF m.params[i] THEN "plain" ELSE "unknown"],
        receiver |-> IF m.receiver THEN "unknown" ELSE "plain",
        writes |-> [k \in Kinds |-> "unknown"],
        returns |-> IF m.returnInert THEN {} ELSE {Anything}]
  ELSE EvaluateKnown(m, summaries)

-----------------------------------------------------------------------------
HeInit(given) ==
  /\ program \in given
  /\ unsolved = Methods /\ component = {} /\ todoMethods = {}
  /\ changed = FALSE
  /\ solved = [m \in Methods |-> Untouched(program.methods[m])]
  /\ admitted = << >>

\* Mutant of Resolve: one pass over a component is taken for all.
ResolveNever ==
  /\ component # {} /\ todoMethods = {} /\ changed
  /\ changed' = FALSE
  /\ UNCHANGED <<program, unsolved, component, todoMethods, solved, admitted>>

\* The next component: the methods it calls outside are solved.
NextComponent ==
  /\ component = {}
  /\ \E m \in unsolved :
       /\ component' = {x \in Calls(m) : m \in Calls(x)}
       /\ (Calls(m) \ component') \cap unsolved = {}
       /\ \A x \in component' : m <= x
       /\ unsolved' = unsolved \ component'
       /\ todoMethods' = component'
  /\ changed' = FALSE
  /\ UNCHANGED <<program, solved, admitted>>

\* for k in comp
EvaluateNext ==
  /\ \E m \in todoMethods :
       /\ \A x \in todoMethods : m <= x
       /\ todoMethods' = todoMethods \ {m}
       /\ LET new == Evaluate(program.methods[m], solved) IN
            /\ solved' = [solved EXCEPT ![m] = new]
            /\ changed' = (changed \/ new # solved[m])
  /\ UNCHANGED <<program, unsolved, component, admitted>>

\* while changed
Resolve ==
  /\ component # {} /\ todoMethods = {} /\ changed
  /\ todoMethods' = component /\ changed' = FALSE
  /\ UNCHANGED <<program, unsolved, component, solved, admitted>>

Solved ==
  /\ component # {} /\ todoMethods = {} /\ ~ changed
  /\ component' = {}
  /\ UNCHANGED <<program, unsolved, todoMethods, changed, solved, admitted>>

Harmless(s) ==
  /\ \A i \in DOMAIN s.params : ~ Beyond(s.params[i])
  /\ ~ Beyond(s.receiver)
  /\ \A k \in Kinds : s.writes[k] = "none"
  /\ s.returns = {}

\* site_verdict: every call of the site, one of them the callee, and the site.
SiteHarmless(site, callee) ==
  LET calls == program.methods[site].calls IN
  /\ \E k \in DOMAIN calls : calls[k].callee = callee /\ calls[k].dispatch = "direct"
  /\ \A k \in DOMAIN calls : ~ NoSummary(calls[k]) /\ Harmless(solved[calls[k].callee])
  /\ Harmless(solved[site])

Admit ==
  /\ component = {} /\ unsolved = {} /\ admitted = << >>
  /\ admitted' = <<program.site \in Methods /\ SiteHarmless(program.site, program.callee)>>
  /\ UNCHANGED <<program, unsolved, component, todoMethods, changed, solved>>

HeNext == NextComponent \/ EvaluateNext \/ Resolve \/ Solved \/ Admit

HeDone == admitted # << >>

-----------------------------------------------------------------------------
(* The reference: what the runs of a method may return and affect, over any *)
(* number of nested calls; nothing of it is cut off at an unknown value.    *)

\* Rounds: a parameter passed on by each method, then a root behind it.
Rounds == 2 * Len(program.methods)

MayReturn ==
  LET round[k \in 0 .. Rounds] ==
        IF k = 0 THEN [m \in Methods |-> [returns |-> {}]]
        ELSE LET prev == round[k - 1] IN
             [m \in Methods |->
                LET r == program.methods[m] IN
                [returns |->
                   IF r.returnInert THEN {} ELSE IF r.unknown THEN {Anything}
                   ELSE {t \in Roots(r, r.returns, prev) : t[1] = "param" => ~ r.params[t[2]]}]]
  IN round[Rounds]

\* What a run of m may write, keep, or hand to code nothing is known of.
MayAffect ==
  LET rets == MayReturn
      through(r, call, x) ==
        CASE x[1] = "param" -> Roots(r, call.args[x[2]], rets)
          [] x = Receiver   -> Roots(r, call.onto, rets)
          [] OTHER          -> {x}
      once(r, below) ==
        IF r.unknown THEN {Anything}
        ELSE {t \in Roots(r, r.stores \cup UNION {w.target : w \in r.writes}, rets)
                      \cup {Heap : w \in {x \in r.writes : x.kind = "static"}}
                      \cup UNION {LET call == r.calls[k] IN
                                  IF NoSummary(call) THEN {Anything}
                                  ELSE UNION {through(r, call, x) : x \in below[call.callee]} :
                                    k \in DOMAIN r.calls} :
                t[1] = "param" => ~ r.params[t[2]]}
      round[k \in 0 .. Rounds] ==
        IF k = 0 THEN [m \in Methods |-> {}]
        ELSE LET prev == round[k - 1] IN
             [m \in Methods |-> once(program.methods[m], prev)]
  IN round[Rounds]

(***************************************************************************)
(* A proven_call is admitted exactly when no run of its site, nor of a     *)
(* method it calls, writes or keeps anything its caller can see, hands it  *)
(* to unknown code, or returns a way to reach it: neither the component by *)
(* component evaluation nor the collapse of a possibly unknown return      *)
(* value admits a call that is not harmless, or refuses one that is.       *)
(***************************************************************************)
HarmlessExact ==
  HeDone =>
    LET affects  == MayAffect
        returns  == MayReturn
        clean(m) == affects[m] = {} /\ returns[m].returns = {}
        calls    == program.methods[program.site].calls
    IN admitted[1] <=>
         /\ program.site \in Methods /\ clean(program.site)
         /\ \E k \in DOMAIN calls : calls[k].callee = program.callee
                                   /\ calls[k].dispatch = "direct"
         /\ \A k \in DOMAIN calls : ~ NoSummary(calls[k]) /\ clean(calls[k].callee)
=============================================================================
