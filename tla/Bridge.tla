-------------------------------- MODULE Bridge --------------------------------
(***************************************************************************)
(* From OwnIR facts to the core (ownlang/ownir.py): the functions of a     *)
(* document are given skeletons, the solver (Mos) makes summaries of them, *)
(* and each body is lowered to instructions of the core under those        *)
(* summaries.  Beside it, a run of the program: what the facts say happens *)
(* to real objects, next to what the core makes of the lowered body.       *)
(*                                                                         *)
(* A method is [params, body]; a body is a sequence of operations, each a  *)
(* record with the name it is about in `var` ("" for none; for a call, its *)
(* result).  A loop has its body in `then`.  `kills` and `emit` are filled *)
(* in by the lowering: the names a call ends the tracking of, and the      *)
(* instructions of the core.  One record per name: no overloads.           *)
(***************************************************************************)
EXTENDS Mos, FiniteSets, SequencesExt

CONSTANTS
  Programs,                           \* inputs: methods -> [params, body]
  SinkConsume, SinkBorrow, Factory,   \* callees that are not methods
  MaxSyms,                            \* bound: handles of one body
  MaxTrips, MaxCalls                  \* bounds: loop entries, calls within calls

Core == INSTANCE OwnDomain

VARIABLES
  fns,       \* the functions of the document
  plan,      \* the method that is run, lowered
  stage,     \* "solve", "run", "over" or "refused"
  stack,     \* calls: [m, env, todo, into, given, before]
  heap,      \* object -> "live", "disposed" or "gone"
  mine,      \* the objects the method run answers for
  waived,    \* those whose handoff could not be verified
  faulted,   \* those touched after they were disposed or gone
  births,    \* what its hoisted names were bound to, in order
  loose,     \* an unverified handoff not where tracking ends
  trips,
  core,      \* what the core knows on this path
  said,      \* what it reported there
  returned   \* the last call that returned

runvars == <<stack, heap, mine, waived, faulted, births, loose, trips,
             core, said, returned>>
bvars   == <<solver, fns, plan, stage, runvars>>

-----------------------------------------------------------------------------
(* Reading a body. *)

\* Every operation of a body, in order, with the branches above it.
RECURSIVE Placed(_, _, _)
Placed(nodes, depth, loop) ==
  FlattenSeq([k \in DOMAIN nodes |->
    <<[node |-> nodes[k], depth |-> depth, loop |-> loop]>>
    \o Placed(nodes[k].then, depth + 1, loop \/ nodes[k].op = "while")
    \o Placed(nodes[k].else, depth + 1, loop)])

Places(nodes) == ToSet(Placed(nodes, 0, FALSE))
Ops(nodes)    == {x.node : x \in Places(nodes)}
AllOps(nodes) == [k \in DOMAIN Placed(nodes, 0, FALSE) |-> Placed(nodes, 0, FALSE)[k].node]

Does(op, name, nodes) == \E n \in Ops(nodes) : n.op = op /\ n.var = name
Hands(n, name)        == n.op = "call" /\ name \in ToSet(n.args)
Passed(name, nodes)   == \E n \in Ops(nodes) : Hands(n, name)
Vars(op, nodes)       == {n.var : n \in {x \in Ops(nodes) : x.op = op}} \ {""}

\* `_walk_release`: is the parameter released on every normal-return path?
\* rel is 0, 1 or 2: on no path so far, on some, on all of them.
RECURSIVE WalkRelease(_, _, _)
WalkRelease(p, nodes, rel) ==
  IF nodes = << >> THEN [rel |-> rel, falls |-> TRUE, ok |-> TRUE]
  ELSE
    LET n       == Head(nodes)
        rest(r) == WalkRelease(p, Tail(nodes), r)
        t       == WalkRelease(p, n.then, rel)
        e       == WalkRelease(p, n.else, rel)
        on(r, ok) == [rest(r) EXCEPT !.ok = @ /\ ok]
    IN CASE n.op = "release" /\ n.var = p -> rest(2)
         [] n.op = "return" -> [rel |-> rel, falls |-> FALSE, ok |-> rel = 2]
         [] n.op = "if" /\ ~ t.falls /\ ~ e.falls ->
              [rel |-> rel, falls |-> FALSE, ok |-> t.ok /\ e.ok]
         [] n.op = "if" /\ t.falls /\ e.falls ->
              on(IF t.rel = e.rel THEN t.rel ELSE 1, t.ok /\ e.ok)
         [] n.op = "if" /\ t.falls # e.falls ->
              on(IF t.falls THEN t.rel ELSE e.rel, t.ok /\ e.ok)
         [] n.op = "while" -> on(IF t.falls /\ t.rel # rel THEN 1 ELSE rel, t.ok)
         [] OTHER -> rest(rel)

DefiniteRelease(p, nodes) ==
  LET w == WalkRelease(p, nodes, 0) IN w.ok /\ (~ w.falls \/ w.rel = 2)

\* `_forward_targets`: the places where a name is handed on.
Handoffs(name, nodes) ==
  {x \in (DOMAIN nodes) \X (1 .. 2) :
     /\ nodes[x[1]].op = "call"
     /\ x[2] \in DOMAIN nodes[x[1]].args
     /\ nodes[x[1]].args[x[2]] = name}

\* A return may be taken before the first handoff at the top.
EarlyReturn(name, nodes) ==
  \E k \in DOMAIN nodes :
    /\ Vars("return", <<nodes[k]>>) # {} \/ Does("return", "", <<nodes[k]>>)
    /\ \A j \in 1 .. k : ~ Hands(nodes[j], name)

\* Mutant of Straight: an early return does not count.
StraightAnyway(name, nodes) ==
  /\ Cardinality(Handoffs(name, AllOps(nodes))) = 1
  /\ Handoffs(name, nodes) # {}

\* A single handoff, which every path that returns has been through.
Straight(name, nodes) ==
  /\ Cardinality(Handoffs(name, AllOps(nodes))) = 1
  /\ Handoffs(name, nodes) # {}
  /\ ~ EarlyReturn(name, nodes)

-----------------------------------------------------------------------------
(* `_build_skeletons` *)

Act(kind) == [kind |-> kind, callee |-> NoMethod, arg |-> 0]

\* `_forward_path_action`: a sink is a resolved transfer.
PathAction(n, j) ==
  CASE n.callee = SinkConsume -> Act("dispose")
    [] n.callee = SinkBorrow  -> Act("borrow")
    [] OTHER -> [kind |-> "forward", callee |-> n.callee, arg |-> j - 1]

PathsOf(p, body) ==
  CASE Does("release", p, body) ->
         {Act("dispose")} \cup
         (IF DefiniteRelease(p, body) THEN {} ELSE {Act("borrow")})
    [] ~ Does("release", p, body) /\ Passed(p, body) ->
         {PathAction(AllOps(body)[h[1]], h[2]) : h \in Handoffs(p, AllOps(body))}
         \cup (IF Straight(p, body) THEN {} ELSE {Act("borrow")})
    [] OTHER -> IF Does("use", p, body) THEN {Act("borrow")} ELSE {}

\* `_infer_return_skeleton`
ReturnOf(f) ==
  LET values   == Vars("return", f.body)
      made     == Vars("acquire", f.body)
      given    == ToSet(f.params)
      results  == Vars("call", f.body)
      makers   == {n.callee : n \in {x \in Ops(f.body) : x.op = "call" /\ x.var \in values}}
      to(k, c)  == [kind |-> k, callee |-> c]
  IN CASE values = {} \/ Does("return", "", f.body) -> to("none", NoMethod)
       [] /\ values # {} /\ ~ Does("return", "", f.body)
          /\ values \subseteq made \ (given \cup results) -> to("fresh", NoMethod)
       [] OTHER ->
            IF \/ Cardinality(values) # 1 \/ Cardinality(makers) # 1
               \/ values \cap (given \cup made) # {}
            THEN to("none", NoMethod)
            ELSE IF makers = {Factory} THEN to("fresh", NoMethod)
            ELSE to("forward", CHOOSE c \in makers : TRUE)

Skeleton(f) ==
  [params |-> [i \in {j - 1 : j \in DOMAIN f.params} |->
                 [disposable |-> TRUE, paths |-> PathsOf(f.params[i + 1], f.body)]],
   ret |-> ReturnOf(f)]

Skeletons(program) == [m \in DOMAIN program |-> Skeleton(program[m])]

-----------------------------------------------------------------------------
(* What the summaries say about a body (`to_module`). *)

TransferAt(callee, j) ==
  IF callee \in Methods /\ <<callee, j - 1>> \in DOMAIN val
  THEN val[<<callee, j - 1>>] ELSE "none"

Unverified(n, j) == TransferAt(n.callee, j) \in {"may", "unknown"}

GapIn(n, name) ==
  n.op = "call" /\ \E j \in DOMAIN n.args : n.args[j] = name /\ Unverified(n, j)

\* `_callee_returns_fresh`
Makes(n) ==
  n.op = "call" /\ (IF n.callee \in Methods THEN ret[n.callee] = "fresh"
                    ELSE n.callee = Factory)

Acquires(n, name) == n.var = name /\ (n.op = "acquire" \/ Makes(n))

\* `_kill_sites_for_unverified`: the first handoff at the top of a name that
\* was bound before.
KillSite(body, name) ==
  LET sites == {k \in DOMAIN body :
                  /\ GapIn(body[k], name)
                  /\ \E n \in Ops(SubSeq(body, 1, k - 1)) :
                       n.op \in {"acquire", "alias", "call"} /\ n.var = name}
  IN IF sites = {} THEN 0 ELSE CHOOSE k \in sites : \A j \in sites : k <= j

Handed(body) == {a \in UNION {ToSet(n.args) : n \in Ops(body)} :
                   \E n \in Ops(body) : GapIn(n, a)}

Untracked(body) == {a \in Handed(body) : KillSite(body, a) = 0}

Marked(body) ==
  [k \in DOMAIN body |->
     [body[k] EXCEPT !.kills = {a \in Handed(body) : KillSite(body, a) = k}]]

\* `_branch_hoist_safe`: no return before the name is acquired, unless it is
\* the name that is returned.
RECURSIVE Guarded(_, _, _)
Guarded(name, nodes, has) ==
  IF nodes = << >> THEN [safe |-> TRUE, has |-> has]
  ELSE
    LET n == Head(nodes)
        t == Guarded(name, n.then, has)
        e == Guarded(name, n.else, has)
        rest(h) == Guarded(name, Tail(nodes), h)
        unsafe  == [safe |-> FALSE, has |-> has]
    IN CASE Acquires(n, name) -> rest(TRUE)
         [] n.op = "return"   -> IF has \/ n.var = name THEN rest(has) ELSE unsafe
         [] n.op = "if"       -> IF t.safe /\ e.safe THEN rest(has \/ (t.has /\ e.has))
                                 ELSE unsafe
         [] n.op = "while"    -> IF t.safe THEN rest(has) ELSE unsafe
         [] OTHER             -> rest(has)

RefersTo(n, name) ==
  \/ n.op \in {"use", "release", "return"} /\ n.var = name
  \/ Hands(n, name)

\* Mutant of Hoistable: a return may come before the name is acquired.
HoistableAnyway(body, name) ==
  LET at == {x \in Places(body) : Acquires(x.node, name)}
  IN /\ at # {} /\ \A x \in at : x.depth >= 1 /\ ~ x.loop
     /\ \E x \in Places(body) : RefersTo(x.node, name) /\ x.depth = 0

\* `_hoisted_branch_locals`: acquired in a branch and referred to after it.
Hoistable(body, name) ==
  LET at == {x \in Places(body) : Acquires(x.node, name)}
  IN /\ at # {} /\ \A x \in at : x.depth >= 1 /\ ~ x.loop
     /\ \E x \in Places(body) : RefersTo(x.node, name) /\ x.depth = 0
     /\ Guarded(name, body, FALSE).safe

Hoisted(body) ==
  {a \in Vars("acquire", body) \cup Vars("call", body) : Hoistable(body, a)}
  \ Untracked(body)

\* `_infer_param_effect`
EffectOf(m, j) ==
  LET p    == fns[m].params[j]
      body == fns[m].body
  IN CASE Does("release", p, body) ->
            IF DefiniteRelease(p, body) THEN "consume" ELSE "plain"
       [] ~ Does("release", p, body) /\ Passed(p, body) ->
            (CASE TransferAt(m, j) = "must" -> "consume"
               [] TransferAt(m, j) = "no"   -> "borrow"
               [] OTHER                     -> "plain")
       [] OTHER -> IF Does("use", p, body) THEN "borrow" ELSE "plain"

-----------------------------------------------------------------------------
(* The lowering (`_lower_flow`).  Names map to handles, in order, whatever *)
(* branch an operation stands in; the core knows a handle only in the      *)
(* branch that declares it.                                                *)

I(op, sym, src, eff) ==
  [op |-> op, sym |-> sym, src |-> src, mut |-> FALSE, eff |-> eff, line |-> 1]

Symbol(kind) ==
  [kind |-> kind, param |-> kind = "borrow", mut |-> FALSE, buf |-> "none",
   type |-> "Disposable"]

NoHandle == 0

HandleOf(st, a) == IF a \in DOMAIN st.map THEN st.map[a] ELSE NoHandle
IsOwned(st, a)  == HandleOf(st, a) # NoHandle /\ st.syms[st.map[a]].kind = "owned"

Names(st, names, h) ==
  [a \in DOMAIN st.map \cup names |-> IF a \in names THEN h ELSE st.map[a]]

\* What the resolver of the core finds no declaration for.
Undefined(st, i) ==
  \/ i.op = "arg" /\ i.sym = NoHandle
  \/ ~ ({i.sym, i.src} \ {NoHandle} \subseteq st.scope)

Lowered(st, n, instrs) ==
  [st EXCEPT !.code = Append(@, [n EXCEPT !.emit = instrs]),
             !.undefined = @ \/ \E k \in DOMAIN instrs : Undefined(st, instrs[k])]

\* A new handle for the name, after what the node does before.
Minted(st, n, before, op, src) ==
  LET h == Len(st.syms) + 1
  IN Lowered([st EXCEPT !.map = Names(st, {n.var}, h),
                        !.syms = Append(@, Symbol("owned")),
                        !.scope = @ \cup {h}],
             n, Append(before, I(op, h, src, "plain")))

\* The name stood for another handle, on the paths that do not come here, or
\* in a loop that comes back.
Rebound(st, n, where) ==
  [st EXCEPT !.rebound = @ \/ (where /\ HandleOf(st, n.var) # NoHandle)]

LowerAcquire(c, st, n) ==
  IF n.var \in c.hoisted \cup c.untracked THEN Lowered(st, n, << >>)
  ELSE Minted(Rebound(st, n, c.looped), n, << >>, "acquire", NoHandle)

\* Mutant of Dropped: what a branch does to the map ends with the branch.
DroppedAtTop(c, st, n) ==
  IF n.var \in c.hoisted \cup {""} THEN st
  ELSE [Rebound(st, n, c.nested) EXCEPT
          !.map = IF c.nested THEN @ ELSE Names(st, {n.var}, NoHandle)]

\* Overwriting a name drops its handle, unless the name was hoisted.
Dropped(c, st, n) ==
  IF n.var \in c.hoisted \cup {""} THEN st
  ELSE [Rebound(st, n, c.nested) EXCEPT !.map = Names(st, {n.var}, NoHandle)]

LowerAlias(c, st, n) ==
  IF HandleOf(st, n.src) = NoHandle \/ n.var \in c.hoisted \cup c.untracked
  THEN Lowered(Dropped(c, st, n), n, << >>)
  ELSE Minted(Dropped(c, st, n), n, << >>, "alias", HandleOf(st, n.src))

LowerUse(st, n) ==
  Lowered(st, n, IF HandleOf(st, n.var) = NoHandle THEN << >>
                 ELSE <<I("use", HandleOf(st, n.var), NoHandle, "plain")>>)

LowerRelease(st, n) ==
  Lowered(st, n, IF ~ IsOwned(st, n.var) THEN << >>
                 ELSE <<I("release", HandleOf(st, n.var), NoHandle, "plain")>>)

LowerReturn(st, n) ==
  Lowered(st, n, <<I("return", IF IsOwned(st, n.var) THEN HandleOf(st, n.var)
                               ELSE NoHandle, NoHandle, "plain")>>)

Arg(st, a, eff) == I("arg", HandleOf(st, a), NoHandle, eff)

\* One channel per argument when a contract of the callee is not verified;
\* a direct call when all of them are; nothing for code that was not read.
CallArgs(c, st, n) ==
  LET arg(j, eff) == <<Arg(st, n.args[j], eff)>>
      channel(j)  ==
        CASE n.args[j] \in c.untracked         -> << >>
          [] /\ n.args[j] \notin c.untracked
             /\ TransferAt(n.callee, j) = "must" -> arg(j, "consume")
          [] /\ n.args[j] \notin c.untracked
             /\ TransferAt(n.callee, j) = "no"   -> arg(j, "borrow")
          [] OTHER -> << >>
      direct(j)   ==
        CASE n.callee = SinkConsume -> arg(j, "consume")
          [] n.callee = SinkBorrow  -> arg(j, "borrow")
          [] n.callee \in Methods   -> arg(j, EffectOf(n.callee, j))
          [] OTHER                  -> << >>
      doubted     ==
        n.callee \in Methods /\
        \E i \in DOMAIN sk[n.callee].params : val[<<n.callee, i>>] \in {"may", "unknown"}
  IN FlattenSeq([j \in DOMAIN n.args |-> IF doubted THEN channel(j) ELSE direct(j)])

\* Mutant of Killed: tracking ends without a discharge.
KilledOnly(st, n) == << >>

\* The tracking of a name ends: ownership is taken to have left here.
Killed(st, n) ==
  LET gone == SetToSeq({a \in n.kills : HandleOf(st, a) # NoHandle})
  IN [k \in DOMAIN gone |-> Arg(st, gone[k], "consume")]

LowerCall(c, st, n) ==
  LET before == CallArgs(c, st, n) \o Killed(st, n)
      after  == Dropped(c, [st EXCEPT !.map = Names(st, n.kills, NoHandle)], n)
  IN IF Makes(n) /\ n.var \notin c.hoisted \cup c.untracked \cup {""}
     THEN Minted(after, n, before, "acquire", NoHandle)
     ELSE Lowered(after, n, before)

RECURSIVE LowerAll(_, _, _)
LowerAll(c, nodes, st) ==
  LET \* what a branch declares is in scope there, what it maps stays mapped
      branch(acc, b, loop) ==
        LowerAll([c EXCEPT !.nested = TRUE, !.looped = @ \/ loop], b,
                 [acc EXCEPT !.code = << >>])
      one(acc, n) ==
        CASE n.op = "acquire" -> LowerAcquire(c, acc, n)
          [] n.op = "alias"   -> LowerAlias(c, acc, n)
          [] n.op = "use"     -> LowerUse(acc, n)
          [] n.op = "release" -> LowerRelease(acc, n)
          [] n.op = "return"  -> LowerReturn(acc, n)
          [] n.op = "call"    -> LowerCall(c, acc, n)
          [] n.op \in {"if", "while"} ->
               LET t == branch(acc, n.then, n.op = "while")
                   e == branch([t EXCEPT !.scope = acc.scope], n.else, FALSE)
               IN [e EXCEPT !.scope = acc.scope,
                            !.code = Append(acc.code, [n EXCEPT !.then = t.code,
                                                                !.else = e.code])]
  IN FoldLeft(one, st, nodes)

KindOfEffect(eff) ==
  CASE eff = "consume" -> "owned" [] eff = "borrow" -> "borrow" [] OTHER -> "plain"

\* The parameters, the hoisted names, then the body.
LowerMethod(m) ==
  LET f       == fns[m]
      hoisted == SetToSeq(Hoisted(f.body))
      heads   == f.params \o hoisted
      c       == [hoisted |-> Hoisted(f.body), untracked |-> Untracked(f.body),
                  nested |-> FALSE, looped |-> FALSE]
      start   == [code |-> << >>, undefined |-> FALSE, rebound |-> FALSE,
                  map |-> [a \in ToSet(heads) |-> CHOOSE k \in DOMAIN heads : heads[k] = a],
                  syms |-> [k \in DOMAIN heads |->
                              Symbol(IF k \in DOMAIN f.params
                                     THEN KindOfEffect(EffectOf(m, k)) ELSE "owned")],
                  scope |-> DOMAIN heads]
      end     == LowerAll(c, Marked(f.body), start)
  IN [m |-> m, body |-> end.code, syms |-> end.syms, undefined |-> end.undefined,
      rebound |-> end.rebound, hoisted |-> c.hoisted, untracked |-> c.untracked,
      heads |-> Len(heads)]

-----------------------------------------------------------------------------
(* The solver, on the skeletons of the document.  The components come      *)
(* callees first (module Sccs), their members and the returns by number.   *)

Reaches(m) ==
  {n \in Methods : \A S \in SUBSET Methods :
     (m \in S /\ \A x \in S : CallGraph[x] \subseteq S) => n \in S}

CalleesFirst(order) ==
  /\ UNION {order[k] : k \in DOMAIN order} = Methods
  /\ \A k \in DOMAIN order : \A m \in order[k] :
       /\ order[k] = {n \in Reaches(m) : m \in Reaches(n)}
       /\ Reaches(m) \subseteq UNION {order[j] : j \in 1 .. k}

BridgeInit ==
  /\ fns \in Programs
  /\ sk = Skeletons(fns)
  /\ phase = "graph"
  /\ comps = << >> /\ cur = Empty /\ todo = {} /\ changed = FALSE
  /\ val = Empty /\ log = {} /\ path = << >> /\ hop = NoMethod /\ ret = Empty
  /\ plan = << >> /\ stage = "solve"
  /\ stack = << >> /\ heap = << >> /\ mine = {} /\ waived = {} /\ faulted = {}
  /\ births = << >> /\ loose = FALSE /\ trips = 0
  /\ core = Core!EmptyState /\ said = {} /\ returned = << >>

Begin ==
  /\ stage = "solve"
  /\ Start(CHOOSE order \in Orders : CalleesFirst(order))
  /\ UNCHANGED <<fns, plan, stage, runvars>>

FirstKey(key) ==
  \A k \in todo : key[1] < k[1] \/ (key[1] = k[1] /\ key[2] <= k[2])

Solve ==
  /\ stage = "solve"
  /\ \/ Take \/ Again \/ Settle \/ Solved \/ Follow \/ HandBack \/ Summarised
     \/ \E key \in todo : FirstKey(key) /\ Evaluate(key)
     \/ \E m \in Methods : (\A n \in Methods \ DOMAIN ret : m <= n) /\ Ask(m)
  /\ UNCHANGED <<fns, plan, stage, runvars>>

-----------------------------------------------------------------------------
(* A run of one method: its body on objects, its lowered body in the core. *)

\* The states of some objects; 0 is none.
StatesOf(os, h) == [k \in DOMAIN os |-> IF os[k] = 0 THEN "none" ELSE h[os[k]]]

Frame(m, env, code, into, given, h) ==
  [m |-> m, env |-> env, todo |-> code, into |-> into, given |-> given,
   before |-> StatesOf(given, h)]

\* One instruction after the other.  A handle acquired anew while it is held
\* is reported (OwnInvariants: OverwritesDiagnosed); what is wrong with the
\* types the bridge made up is not (`check_facts`).
Artifacts == {"OWN033", "OWN034", "OWN035", "OWN040", "OWN041"}

Execute(syms, instrs) ==
  LET graph == [syms |-> syms]
      one(acc, i) ==
        [s |-> Core!Step(graph, i, acc.s),
         said |-> acc.said
                  \cup {p.code : p \in Core!Problems(graph, i, acc.s)}
                  \cup (IF i.op = "acquire" /\ "OWNED" \in acc.s.var[i.sym]
                        THEN {"OWN001"} ELSE {})]
      end == FoldLeft(one, [s |-> core, said |-> said], instrs)
  IN core' = end.s /\ said' = end.said \ Artifacts

Lower(m) ==
  /\ stage = "solve" /\ phase = "done"
  /\ plan' = LowerMethod(m)
  /\ stage' = IF plan'.undefined THEN "refused" ELSE "run"
  /\ LET given == [k \in DOMAIN fns[m].params |-> k]
         env   == [a \in ToSet(fns[m].params) |->
                     CHOOSE k \in DOMAIN given : fns[m].params[k] = a]
         held  == {k \in 1 .. plan'.heads : plan'.syms[k].kind = "owned"}
     IN /\ heap' = [k \in DOMAIN given |-> "live"]
        /\ mine' = held \cap DOMAIN given
        /\ waived' = DOMAIN given \ held
        /\ stack' = <<Frame(m, env, plan'.body, "", given, heap')>>
        /\ Execute(plan'.syms, SetToSeq({I("acquire", k, NoHandle, "plain") : k \in held}))
  /\ UNCHANGED <<solver, fns, faulted, births, loose, trips, returned>>

Top     == Last(stack)
AtRoot  == Len(stack) = 1
Running == stage = "run" /\ Top.todo # << >>
Node    == Head(Top.todo)

Bound(env, name, o) ==
  [a \in DOMAIN env \cup ({name} \ {""}) |-> IF a = name THEN o ELSE env[a]]

Object(name) == IF name \in DOMAIN Top.env THEN Top.env[name] ELSE 0

Continue(env, code) ==
  stack' = [stack EXCEPT ![Len(stack)] = [@ EXCEPT !.env = env, !.todo = code]]

Done(env) == Continue(env, Tail(Top.todo))

\* The objects are touched by the method run: they had better be live.
Touch(os) ==
  faulted' = faulted \cup
    {o \in os \cap (mine \ waived) : AtRoot /\ heap[o] # "live"}

Birth(name, how) ==
  births' = IF AtRoot /\ name \in plan.hoisted THEN Append(births, <<name, how>>)
            ELSE births

\* An object the method run has to see to, unless its name is not tracked.
Own(o, name) ==
  /\ mine' = IF AtRoot THEN mine \cup {o} ELSE mine
  /\ waived' = IF AtRoot /\ name \in plan.untracked THEN waived \cup {o} ELSE waived

Unchanged == UNCHANGED <<solver, fns, plan, stage, returned>>

MakeObject ==
  /\ Running
  /\ Node.op = "acquire" \/ (Node.op = "call" /\ Node.callee = Factory)
  /\ heap' = Append(heap, "live")
  /\ Done(Bound(Top.env, Node.var, Len(heap) + 1))
  /\ IF Node.var = "" THEN UNCHANGED <<mine, waived>> ELSE Own(Len(heap) + 1, Node.var)
  /\ Birth(Node.var, "made")
  /\ Execute(plan.syms, Node.emit)
  /\ Unchanged /\ UNCHANGED <<faulted, loose, trips>>

UseObject ==
  /\ Running /\ Node.op \in {"use", "release"}
  /\ LET o == {Object(Node.var)} \ {0} IN
       /\ Touch(o)
       /\ heap' = [k \in DOMAIN heap |->
                     IF Node.op = "release" /\ k \in o THEN "disposed" ELSE heap[k]]
  /\ Done(Top.env) /\ Execute(plan.syms, Node.emit)
  /\ Unchanged /\ UNCHANGED <<mine, waived, births, loose, trips>>

\* Another name for the same object.
Rename ==
  /\ Running /\ Node.op = "alias"
  /\ Done(Bound(Top.env, Node.var, Object(Node.src)))
  /\ waived' = IF AtRoot /\ Node.var \in plan.untracked
               THEN waived \cup ({Object(Node.src)} \ {0}) ELSE waived
  /\ Birth(Node.var, "renamed")
  /\ Execute(plan.syms, Node.emit)
  /\ Unchanged /\ UNCHANGED <<heap, mine, faulted, loose, trips>>

Branch ==
  /\ Running /\ Node.op = "if"
  /\ \E arm \in {Node.then, Node.else} : Continue(Top.env, arm \o Tail(Top.todo))
  /\ Unchanged
  /\ UNCHANGED <<heap, mine, waived, faulted, births, loose, trips, core, said>>

Loop ==
  /\ Running /\ Node.op = "while"
  /\ \/ Done(Top.env) /\ UNCHANGED trips
     \/ /\ trips < MaxTrips /\ trips' = trips + 1
        /\ Continue(Top.env, Node.then \o Top.todo)
  /\ Unchanged
  /\ UNCHANGED <<heap, mine, waived, faulted, births, loose, core, said>>

Args == [j \in DOMAIN Node.args |-> Object(Node.args[j])]

\* A call into code that was not read: a sink takes an argument, or borrows
\* it, and the result is no object of ours.
CallOutside ==
  /\ Running /\ Node.op = "call" /\ Node.callee \notin Methods \cup {Factory}
  /\ LET os == ToSet(Args) \ {0} IN
       /\ IF Node.callee \in {SinkConsume, SinkBorrow} THEN Touch(os)
          ELSE UNCHANGED faulted
       /\ heap' = [k \in DOMAIN heap |->
                     IF Node.callee = SinkConsume /\ k \in os THEN "gone" ELSE heap[k]]
  /\ Done(Bound(Top.env, Node.var, 0))
  /\ Birth(Node.var, "overwritten")
  /\ Execute(plan.syms, Node.emit)
  /\ Unchanged /\ UNCHANGED <<mine, waived, loose, trips>>

\* The argument is handed over and the contract is not verified.
Handing(j) == Object(Node.args[j]) # 0 /\ Unverified(Node, j)

\* The callee does something with this parameter.
Minds(m, j) ==
  LET p == fns[m].params[j] IN
  \/ Passed(p, fns[m].body)
  \/ Does("release", p, fns[m].body) \/ Does("use", p, fns[m].body)

SharedName(o) == \E a, b \in DOMAIN Top.env : a # b /\ Top.env[a] = o /\ Top.env[b] = o

CallMethod ==
  /\ Running /\ Node.op = "call" /\ Node.callee \in Methods
  /\ Len(stack) <= MaxCalls
  /\ LET m  == Node.callee
         at == {j \in DOMAIN Args : Handing(j)}
     IN /\ Touch({Args[j] : j \in {x \in DOMAIN Args : Minds(m, x)}} \ {0})
        /\ waived' = IF AtRoot THEN waived \cup {Args[j] : j \in at} ELSE waived
        /\ loose' = (loose \/ (AtRoot /\ \E j \in at :
                       /\ Args[j] \in mine \ waived
                       /\ Node.args[j] \notin Node.kills \/ SharedName(Args[j])))
        /\ stack' = Append(
             [stack EXCEPT ![Len(stack)].todo = Tail(@)],
             Frame(m, [a \in ToSet(fns[m].params) |->
                         Args[CHOOSE j \in DOMAIN Args : fns[m].params[j] = a]],
                   fns[m].body, Node.var, Args, heap))
  /\ Execute(plan.syms, Node.emit)
  /\ Unchanged /\ UNCHANGED <<heap, mine, births, trips>>

\* A return, or the end of the body.
Returning == IF Top.todo = << >> THEN TRUE ELSE Node.op = "return"
Result    == IF Top.todo = << >> THEN 0 ELSE Object(Node.var)

Returned ==
  returned' = [m |-> Top.m, before |-> Top.before, after |-> StatesOf(Top.given, heap)]

ReturnToCaller ==
  /\ stage = "run" /\ Len(stack) > 1 /\ Returning
  /\ LET caller == stack[Len(stack) - 1]
         root   == Len(stack) = 2 /\ Top.into # ""
         ours   == root /\ Result # 0 /\ ret[Top.m] = "fresh"
     IN /\ stack' = Append(SubSeq(stack, 1, Len(stack) - 2),
                      [caller EXCEPT !.env = Bound(@, Top.into, Result)])
        /\ mine' = IF ours THEN mine \cup {Result} ELSE mine
        /\ waived' = IF ours /\ Top.into \in plan.untracked
                     THEN waived \cup {Result} ELSE waived
        /\ births' = IF root /\ Top.into \in plan.hoisted
                     THEN Append(births, <<Top.into, IF ours THEN "made" ELSE "overwritten">>)
                     ELSE births
  /\ Returned
  /\ UNCHANGED <<solver, fns, plan, stage, heap, faulted, loose, trips, core, said>>

EndOfRun ==
  /\ stage = "run" /\ AtRoot /\ Returning
  /\ stage' = "over" /\ stack' = << >>
  /\ Touch({Result} \ {0})
  /\ heap' = [k \in DOMAIN heap |->
                IF k \in {Result} \cap mine /\ heap[k] = "live" THEN "gone" ELSE heap[k]]
  /\ Execute(plan.syms,
             IF Top.todo = << >> THEN <<I("return", NoHandle, NoHandle, "plain")>>
             ELSE Node.emit)
  /\ Returned
  /\ UNCHANGED <<solver, fns, plan, mine, waived, births, loose, trips>>

RunStep ==
  \/ MakeObject \/ UseObject \/ Rename \/ Branch \/ Loop
  \/ CallOutside \/ CallMethod \/ ReturnToCaller \/ EndOfRun

BridgeNext == Begin \/ Solve \/ (\E m \in Methods : Lower(m)) \/ RunStep

BridgeSpec == BridgeInit /\ [][BridgeNext]_bvars

-----------------------------------------------------------------------------
(***************************************************************************)
(* _build_skeletons: "Three precision rules keep `solve()` from ever       *)
(* inferring a false `must`".  Whatever branches a call takes, however     *)
(* often it loops and through however many methods the argument is handed  *)
(* on: when it returns, an argument with transfer `must` has left, and one *)
(* with `no` is as it was.                                                 *)
(***************************************************************************)
TransfersHold ==
  returned # << >> =>
    \A j \in {x \in DOMAIN returned.before : returned.before[x] = "live"} :
      CASE TransferAt(returned.m, j) = "must" -> returned.after[j] # "live"
        [] TransferAt(returned.m, j) = "no"   -> returned.after[j] = "live"
        [] OTHER                              -> TRUE

\* What the lowering counts on: "exactly one acquire runs" of a hoisted name,
\* names are not overwritten in branches, and the tracking of a name ends at
\* the top, for all its names at once.
HoistedOnce ==
  \A a \in plan.hoisted :
    SelectSeq(births, LAMBDA b : b[1] = a) = << <<a, "made">> >>

AsAssumed == HoistedOnce /\ ~ plan.rebound /\ ~ loose

(***************************************************************************)
(* The body that is checked is the body that was written.  On each path    *)
(* through a method that is as the lowering assumes, the core reports a    *)
(* leak exactly if an object the method answers for is left, and a fault   *)
(* exactly if it touches one that was disposed or handed over: handles,    *)
(* hoisting, the contracts of its callees and the end of tracking at an    *)
(* unverified handoff neither make up a verdict nor lose one.              *)
(***************************************************************************)
LoweringExact ==
  stage = "over" /\ AsAssumed =>
    /\ ("OWN001" \in said) = (\E o \in mine \ waived : heap[o] = "live")
    /\ (said \ {"OWN001"} # {}) = (faulted # {})

(***************************************************************************)
(* BR-L6: when a name is overwritten, "the old obligation must leak rather *)
(* than be discharged through a dead handle". The map is one for all arms: *)
(* an overwriting in one of them counts after all. So names may be         *)
(* overwritten anywhere, in branches too, and an object that is left is    *)
(* charged. What LoweringExact assumes of hoisted names and of handoffs is *)
(* assumed here, and that no loop comes back: in a second turn a name may  *)
(* stand for the handle it had in the first.                               *)
(***************************************************************************)
OverwrittenLeaks ==
  stage = "over" /\ HoistedOnce /\ ~ loose /\ trips <= 1 =>
    ((\E o \in mine \ waived : heap[o] = "live") => "OWN001" \in said)

(***************************************************************************)
(* _hoisted_branch_locals (4): "no path can early-`return` before the      *)
(* release on a path that did not acquire the local (else the              *)
(* unconditional hoisted acquire fabricates a leak)". Through whatever     *)
(* branches and loops a run comes to a return, each hoisted name was given *)
(* an object on the way there, or is what is returned.                     *)
(***************************************************************************)
HoistInventsNoLeak ==
  Running /\ AtRoot /\ Node.op = "return" =>
    \A a \in plan.hoisted \ {Node.var} :
      \E k \in DOMAIN births : births[k] = <<a, "made">>

(***************************************************************************)
(* INF-A5: at an unverified handoff "neither a missing nor a defensive     *)
(* dispose after the call is charged", "later references stay silent", and *)
(* "an untracked name is never referenced in emitted core code (which      *)
(* would raise OWN030)".  So the document is accepted, and what is charged *)
(* is the matter of objects that were not handed on.                       *)
(***************************************************************************)
HandoffSilent ==
  /\ stage # "refused"
  /\ stage = "over" /\ HoistedOnce /\ ~ plan.rebound =>
       /\ "OWN001" \in said => \E o \in mine \ waived : heap[o] = "live"
       /\ said \ {"OWN001"} # {} => faulted # {}
=============================================================================
