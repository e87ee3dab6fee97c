-------------------------- MODULE SummariesProofs --------------------------
(***************************************************************************)
(* `solve_with_log` for every table, in whatever order its methods come:   *)
(* `_sccs` finds the components of the call graph, callees first; swept in *)
(* that order each has its least verdicts, and those are sound; the chase  *)
(* of the returns ends where the chain does, and logs all that leaves.     *)
(*                                                                         *)
(* First the sweeps alone (MosRun), whatever skeletons there are and in    *)
(* whatever order their components are solved: a summary is sound for      *)
(* every call, and no iterate goes down.  A swept component that does not  *)
(* change any more is a fixpoint, so each of its parameters is above what  *)
(* its paths say, and a call only ever moves downwards (Covered,           *)
(* RunCovered).  The exceptions are parameters without evidence, which are *)
(* final as "no" whatever their callees are: they forward to each other    *)
(* for ever, so that no such call ends (Barren).                           *)
(*                                                                         *)
(* SccsInv is about the walk, RestInv about the log and the returns,       *)
(* LeastInv about the sweeps; SummariesInv is their composition with the   *)
(* invariant of the sweeps, IInv.                                          *)
(***************************************************************************)
EXTENDS Summaries, FiniteSetTheorems, TLAPS

-----------------------------------------------------------------------------
(* The lattice. *)

\* Leq relates each verdict to itself.
LEMMA LeqRefl == \A a : Leq(a, a)
BY DEF Leq

\* It goes on along chains.
LEMMA LeqTrans ==
  ASSUME NEW a \in Values, NEW b \in Values, NEW c \in Values,
         Leq(a, b), Leq(b, c)
  PROVE  Leq(a, c)
BY DEF Leq, Values

\* A fold of verdicts is a verdict.
LEMMA JoinAllType ==
  ASSUME NEW V \in SUBSET Values
  PROVE  JoinAll(V) \in Values
BY DEF JoinAll, Values

\* It is above each of them.
LEMMA JoinAllUpper ==
  ASSUME NEW V \in SUBSET Values, NEW v \in V
  PROVE  Leq(v, JoinAll(V))
BY DEF JoinAll, Values, Leq

\* It is below whatever is above all of them.
LEMMA JoinAllLeast ==
  ASSUME NEW V \in SUBSET Values, NEW u \in Values, \A v \in V : Leq(v, u)
  PROVE  Leq(JoinAll(V), u)
BY DEF JoinAll, Values, Leq

\* It is no evidence only where there is none.
LEMMA JoinAllBot ==
  ASSUME NEW V \in SUBSET Values, JoinAll(V) = "bot"
  PROVE  V \subseteq {"bot"}
BY DEF JoinAll, Values

-----------------------------------------------------------------------------
(* The invariant. *)

\* Verdicts are verdicts, and a final one is not "no evidence".
Typed ==
  /\ phase \in {"graph", "solve", "sweep", "returns", "done"}
  /\ mode \in {"waiting", "running", "left", "kept"}
  /\ \A key \in DOMAIN val : val[key] \in Values \ {"bot"}
  /\ cur \in [DOMAIN cur -> Values]
  /\ todo \subseteq DOMAIN cur
  /\ changed \in BOOLEAN

\* Each parameter is final, in hand or still to come.
Parted ==
  /\ comps \in Seq(SUBSET Methods)
  /\ DOMAIN val \subseteq Disposables
  /\ \A i, j \in DOMAIN comps : i # j => comps[i] \cap comps[j] = {}
  /\ phase \in {"solve", "sweep"} =>
       /\ \A j \in DOMAIN comps : DOMAIN val \cap Members(comps[j]) = {}
       /\ \A key \in Disposables :
            key \in DOMAIN val \/ \E j \in DOMAIN comps : key \in Members(comps[j])
  /\ IF phase = "sweep"
     THEN comps # <<>> /\ DOMAIN cur = Members(Head(comps))
     ELSE DOMAIN cur = {}
  /\ phase = "graph" => DOMAIN val = {}
  /\ phase \in {"returns", "done"} => DOMAIN val = Disposables

\* What the sweep has evaluated and not changed is what its paths say.
Swept ==
  phase = "sweep" /\ ~ changed =>
    \A key \in DOMAIN cur \ todo : cur[key] = TransferOf(key)

\* No iterate is above what its paths say: the next one is not lower.
Rising == \A key \in DOMAIN cur : Leq(cur[key], TransferOf(key))

\* The parameters that do nothing but forward to each other.
Circles(S) ==
  \A key \in S : /\ Param(key).paths # {}
                 /\ \A a \in Param(key).paths : Passes(a) /\ Target(a) \in S

Barren == UNION {S \in SUBSET Disposables : Circles(S)}

\* A final verdict is above what each path says, also of a callee.
Bounds(key, a) ==
  \/ val[key] = "unknown"
  \/ a.kind \in {"dispose", "adopt", "return"} /\ Leq("must", val[key])
  \/ a.kind = "borrow" /\ Leq("no", val[key])
  \/ Keeps(a) /\ Leq("no", val[key])
  \/ Passes(a) /\ Target(a) \in DOMAIN val /\ Leq(val[Target(a)], val[key])
  \/ Passes(a) /\ Target(a) \in Barren

Covered ==
  \A key \in DOMAIN val :
    /\ Param(key).paths = {} => val[key] = "no"
    /\ \A a \in Param(key).paths : Bounds(key, a)

\* A call moves downwards, until it is where no call ends.
RunCovered ==
  mode # "waiting" =>
    /\ phase = "done"
    /\ start \in Disposables /\ at \in Disposables
    /\ at \in Barren \/ Leq(val[at], val[start])

IInv == Typed /\ Parted /\ Swept /\ Rising /\ Covered /\ RunCovered /\ TransferSound

-----------------------------------------------------------------------------
(* What a path says. *)

\* A lookup finds a verdict, known or iterated.
LEMMA LookupType ==
  ASSUME Typed, NEW a
  PROVE  Lookup(a) \in Values
<1>1. CASE Known(a) /\ Target(a) \notin Disposables
  BY <1>1 DEF Lookup, Values
<1>2. CASE Target(a) \in Disposables \cap DOMAIN val
  BY <1>2 DEF Lookup, Typed
<1>3. CASE Target(a) \in (Disposables \cap DOMAIN cur) \ DOMAIN val
  BY <1>3 DEF Lookup, Typed
<1>4. CASE /\ ~ (Known(a) /\ Target(a) \notin Disposables)
           /\ Target(a) \notin Disposables \cap (DOMAIN cur \cup DOMAIN val)
  BY <1>4 DEF Lookup, Values
<1> QED BY <1>1, <1>2, <1>3, <1>4

\* What a path says is a verdict.
LEMMA ContribType ==
  ASSUME Typed, NEW a
  PROVE  Contrib(a) \in Values
BY LookupType DEF Contrib, Values

\* The same, for all of them.
LEMMA ContribTypes == Typed => \A a : Contrib(a) \in Values
BY ContribType

\* Also after a step.
LEMMA ContribTypesNext == (Typed => \A a : Contrib(a) \in Values)'
BY ContribTypes, PTL

\* What the paths say together is a verdict.
LEMMA TransferType ==
  ASSUME Typed, NEW key
  PROVE  TransferOf(key) \in Values
<1>1. {Contrib(a) : a \in Param(key).paths} \in SUBSET Values
  BY ContribType
<1> QED BY <1>1, JoinAllType DEF TransferOf, Values

\* The same, for all parameters.
LEMMA TransferTypes == Typed => \A key : TransferOf(key) \in Values
BY TransferType

\* Also after a step.
LEMMA TransferTypesNext == (Typed => \A key : TransferOf(key) \in Values)'
BY TransferTypes, PTL

\* A verdict is above what each path says.
LEMMA TransferAbove ==
  ASSUME Typed, NEW key, NEW a \in Param(key).paths
  PROVE  Leq(Contrib(a), TransferOf(key))
<1>1. {Contrib(x) : x \in Param(key).paths} \in SUBSET Values
  BY ContribType
<1> QED BY <1>1, JoinAllUpper DEF TransferOf

\* It is no evidence only where no path has any.
LEMMA TransferBot ==
  ASSUME Typed, NEW key, TransferOf(key) = "bot"
  PROVE  /\ Param(key).paths # {}
         /\ \A a \in Param(key).paths : Contrib(a) = "bot"
<1>1. {Contrib(x) : x \in Param(key).paths} \in SUBSET Values
  BY ContribType
<1>2. Param(key).paths # {}
  BY DEF TransferOf
<1> QED BY <1>1, <1>2, JoinAllBot DEF TransferOf

\* Only a forward to a parameter in hand that has none itself says nothing.
LEMMA ContribBot ==
  ASSUME Typed, NEW a, Contrib(a) = "bot"
  PROVE  /\ Passes(a) /\ Target(a) \in DOMAIN cur \ DOMAIN val
         /\ cur[Target(a)] = "bot"
<1>1. a.kind = "forward" /\ Lookup(a) = "bot"
  BY DEF Contrib
<1>2. Target(a) \in (Disposables \cap DOMAIN cur) \ DOMAIN val
  BY <1>1 DEF Lookup, Typed
<1> QED BY <1>1, <1>2 DEF Passes, Lookup

\* When the iterates of the component rise, so does what a path says.
LEMMA ContribRises ==
  ASSUME Typed, Typed', sk' = sk, val' = val, DOMAIN cur' = DOMAIN cur,
         \A key \in DOMAIN cur : Leq(cur[key], cur'[key]), NEW a
  PROVE  Leq(Contrib(a), Contrib(a)')
<1>0. Known(a)' = Known(a) /\ Target(a)' = Target(a) /\ Disposables' = Disposables
  BY DEF Known, Target, Disposables, Members, Keys, Param, Methods
<1>1. Leq(Lookup(a), Lookup(a)')
  <2>1. CASE Known(a) /\ Target(a) \notin Disposables
    BY <1>0, <2>1 DEF Lookup, Leq
  <2>2. CASE Target(a) \in Disposables \cap DOMAIN val
    BY <1>0, <2>2 DEF Lookup, Leq
  <2>3. CASE Target(a) \in (Disposables \cap DOMAIN cur) \ DOMAIN val
    BY <1>0, <2>3 DEF Lookup
  <2>4. CASE /\ ~ (Known(a) /\ Target(a) \notin Disposables)
             /\ Target(a) \notin Disposables \cap (DOMAIN cur \cup DOMAIN val)
    BY <1>0, <2>4 DEF Lookup, Leq
  <2> QED BY <2>1, <2>2, <2>3, <2>4
<1> QED BY <1>1, LeqRefl DEF Contrib

\* And so does what the paths say together.
LEMMA TransferRises ==
  ASSUME Typed, Typed', sk' = sk, val' = val, DOMAIN cur' = DOMAIN cur,
         \A key \in DOMAIN cur : Leq(cur[key], cur'[key]), NEW key
  PROVE  Leq(TransferOf(key), TransferOf(key)')
<1> DEFINE V == {Contrib(a) : a \in Param(key).paths}
           W == {(Contrib(a))' : a \in Param(key).paths}
<1>1. V \in SUBSET Values /\ W \in SUBSET Values
  BY ContribType, ContribTypesNext
<1>2. \A v \in V : Leq(v, JoinAll(W))
  <2> TAKE v \in V
  <2>1. PICK a \in Param(key).paths : v = Contrib(a)
    OBVIOUS
  <2>2. Leq(v, (Contrib(a))')
    BY <2>1, ContribRises
  <2>3. Leq((Contrib(a))', JoinAll(W))
    BY <1>1, JoinAllUpper
  <2> QED BY <1>1, <2>1, <2>2, <2>3, JoinAllType, LeqTrans
<1>3. Leq(JoinAll(V), JoinAll(W))
  BY <1>1, <1>2, JoinAllType, JoinAllLeast
<1>4. Param(key)' = Param(key)
  BY DEF Param
<1>5. CASE Param(key).paths = {}
  BY <1>4, <1>5, LeqRefl DEF TransferOf
<1>6. CASE Param(key).paths # {}
  BY <1>3, <1>4, <1>6 DEF TransferOf
<1> QED BY <1>5, <1>6

-----------------------------------------------------------------------------
(* What a step leaves alone. *)

\* What is derived from the skeletons stays as long as they do.
LEMMA SameSkeletons ==
  ASSUME sk' = sk
  PROVE  /\ Methods' = Methods /\ Disposables' = Disposables
         /\ \A ms : Members(ms)' = Members(ms)
         /\ \A key : Param(key)' = Param(key)
         /\ \A a : /\ Known(a)' = Known(a) /\ Target(a)' = Target(a)
                   /\ Passes(a)' = Passes(a) /\ Keeps(a)' = Keeps(a)
BY DEF Methods, Disposables, Members, Keys, Param, Known, Target, Passes, Keeps

\* The barren parameters are among that.
LEMMA SameBarren ==
  ASSUME sk' = sk
  PROVE  Barren' = Barren
<1>1. \A S : Circles(S)' = Circles(S)
  BY SameSkeletons DEF Circles
<1> QED BY <1>1, SameSkeletons DEF Barren

\* What the paths say stays as long as the verdicts do.
LEMMA SameVerdicts ==
  ASSUME sk' = sk, cur' = cur, val' = val
  PROVE  \A key : TransferOf(key)' = TransferOf(key)
<1>1. \A a : Lookup(a)' = Lookup(a)
  BY SameSkeletons DEF Lookup
<1>2. \A a : Contrib(a)' = Contrib(a)
  BY <1>1 DEF Contrib
<1> QED BY <1>2, SameSkeletons DEF TransferOf

\* Final verdicts stay above what their paths say while none is added.
LEMMA SameCovered ==
  ASSUME sk' = sk, val' = val, Covered
  PROVE  Covered'
<1>1. \A key, a : Bounds(key, a)' = Bounds(key, a)
  BY SameSkeletons, SameBarren DEF Bounds
<1> QED BY <1>1, SameSkeletons DEF Covered

\* A step that touches no verdict.
LEMMA QuietStep ==
  ASSUME IInv, sk' = sk, cur' = cur, val' = val, todo' = todo,
         changed' = changed, phase' = "sweep" => phase = "sweep"
  PROVE  Swept' /\ Rising' /\ Covered'
BY SameVerdicts, SameCovered DEF IInv, Swept, Rising

\* Nothing is called before the summaries are there.
LEMMA NotYet ==
  ASSUME RunCovered, phase # "done", UNCHANGED runvars
  PROVE  RunCovered' /\ TransferSound'
BY DEF RunCovered, TransferSound, runvars

\* What forwards to each other for ever stays there.
LEMMA BarrenCircles == Barren \subseteq Disposables /\ Circles(Barren)
BY DEF Barren, Circles

-----------------------------------------------------------------------------
(* The steps of the solver. *)

\* Nothing is solved and nothing called yet.
LEMMA InitInv ==
  ASSUME Init
  PROVE  IInv
<1> USE DEF Init, MosInit, RunInit
<1>1. DOMAIN Empty = {} /\ Empty \in [{} -> Values]
  BY DEF Empty
<1>2. Typed
  BY <1>1 DEF Typed
<1>3. Parted
  BY <1>1 DEF Parted
<1>4. Swept /\ Rising /\ Covered
  BY <1>1 DEF Swept, Rising, Covered
<1> QED BY <1>2, <1>3, <1>4 DEF IInv, RunCovered, TransferSound

\* Each parameter is in one of the components.
LEMMA StartInv ==
  ASSUME IInv, NEW order, ListOk(order), Start(order), UNCHANGED runvars
  PROVE  IInv'
<1> USE DEF Start
<1>1. Typed'
  BY DEF IInv, Typed, runvars
<1>2. Parted'
  <2>1. DOMAIN val = {} /\ DOMAIN cur = {}
    BY DEF IInv, Parted
  <2>2. \A key \in Disposables : \E j \in DOMAIN order : key \in Members(order[j])
    BY DEF ListOk, Disposables, Members
  <2> QED BY <2>1, <2>2, SameSkeletons DEF IInv, Parted, ListOk
<1>3. Swept' /\ Rising' /\ Covered'
  BY QuietStep
<1> QED BY <1>1, <1>2, <1>3, NotYet DEF IInv

\* The next component is in hand, without evidence.
LEMMA TakeInv ==
  ASSUME IInv, Take, UNCHANGED runvars
  PROVE  IInv'
<1> USE DEF Take
<1>1. Typed'
  BY DEF IInv, Typed, runvars, Values
<1>2. Parted'
  BY SameSkeletons DEF IInv, Parted
<1>3. Swept'
  BY DEF Swept
<1>4. Rising'
  BY DEF Rising, Leq
<1>5. Covered'
  BY SameCovered DEF IInv
<1> QED BY <1>1, <1>2, <1>3, <1>4, <1>5, NotYet DEF IInv

\* The iterates only rise in an evaluation, and with them what is said.
LEMMA EvaluateRises ==
  ASSUME IInv, NEW key \in todo, Evaluate(key), UNCHANGED runvars
  PROVE  /\ Typed' /\ DOMAIN cur' = DOMAIN cur
         /\ \A k \in DOMAIN cur : Leq(cur[k], cur'[k])
<1>1. key \in DOMAIN cur /\ TransferOf(key) \in Values
  BY TransferType DEF IInv, Typed
<1>2. DOMAIN cur' = DOMAIN cur /\ cur' \in [DOMAIN cur' -> Values]
  BY <1>1 DEF IInv, Typed, Evaluate
<1>3. Typed'
  BY <1>1, <1>2 DEF IInv, Typed, Evaluate, runvars
<1>4. \A k \in DOMAIN cur : Leq(cur[k], cur'[k])
  BY <1>1, LeqRefl DEF IInv, Typed, Rising, Evaluate
<1> QED BY <1>2, <1>3, <1>4

\* One evaluation: unless something changed, the rest is still a fixpoint.
LEMMA EvaluateInv ==
  ASSUME IInv, NEW key \in todo, Evaluate(key), UNCHANGED runvars
  PROVE  IInv'
<1>0. /\ key \in DOMAIN cur /\ phase = "sweep" /\ phase' = phase /\ sk' = sk
      /\ val' = val /\ comps' = comps /\ todo' = todo \ {key}
  BY DEF Evaluate, IInv, Typed
<1>1. /\ Typed' /\ DOMAIN cur' = DOMAIN cur
      /\ \A k \in DOMAIN cur : Leq(cur[k], cur'[k])
  BY EvaluateRises
<1>2. Parted'
  BY <1>0, <1>1, SameSkeletons DEF IInv, Parted
<1>3. Swept'
  <2>1. SUFFICES ASSUME ~ changed' PROVE \A k \in DOMAIN cur \ todo' : cur'[k] = TransferOf(k)'
    BY <1>1 DEF Swept
  <2>2. ~ changed /\ TransferOf(key) = cur[key]
    BY <2>1 DEF Evaluate
  <2>3. cur' = cur
    BY <2>2, <1>0 DEF Evaluate, IInv, Typed
  <2> QED BY <1>0, <2>2, <2>3, SameVerdicts DEF IInv, Swept
<1>4. Rising'
  <2> SUFFICES ASSUME NEW k \in DOMAIN cur PROVE Leq(cur'[k], TransferOf(k)')
    BY <1>1 DEF Rising
  <2>1. Leq(TransferOf(k), TransferOf(k)')
    BY <1>0, <1>1, TransferRises DEF IInv
  <2>2. CASE k = key
    BY <1>0, <2>1, <2>2 DEF Evaluate
  <2>3. CASE k # key
    <3>1. cur'[k] = cur[k] /\ Leq(cur[k], TransferOf(k))
      BY <2>3 DEF Evaluate, IInv, Rising
    <3>2. TransferOf(k) \in Values /\ cur[k] \in Values
      BY TransferType DEF IInv, Typed
    <3>3. TransferOf(k)' \in Values
      BY <1>1, TransferTypesNext
    <3> QED BY <2>1, <3>1, <3>2, <3>3, LeqTrans
  <2> QED BY <2>2, <2>3
<1>5. Covered'
  BY <1>0, SameCovered DEF IInv
<1> QED BY <1>0, <1>1, <1>2, <1>3, <1>4, <1>5, NotYet DEF IInv

\* Another sweep, from what the last one found.
LEMMA AgainInv ==
  ASSUME IInv, Again, UNCHANGED runvars
  PROVE  IInv'
<1> USE DEF Again
<1>1. Typed'
  BY DEF IInv, Typed, runvars
<1>2. Parted'
  BY SameSkeletons DEF IInv, Parted
<1>3. Swept'
  BY DEF Swept
<1>4. Rising'
  BY SameVerdicts DEF IInv, Rising
<1>5. Covered'
  BY SameCovered DEF IInv
<1> QED BY <1>1, <1>2, <1>3, <1>4, <1>5, NotYet DEF IInv

\* A component that settles has no parameter in common with what is final
\* or still to come.
LEMMA Disjoint ==
  ASSUME IInv, phase = "sweep"
  PROVE  /\ DOMAIN val \cap DOMAIN cur = {}
         /\ \A j \in DOMAIN comps : j # 1 => DOMAIN cur \cap Members(comps[j]) = {}
BY DEF IInv, Parted, Members

\* Its parameters are final, the others where they were.
LEMMA SettleParted ==
  ASSUME IInv, Settle
  PROVE  Parted'
<1>1. /\ comps # <<>> /\ comps \in Seq(SUBSET Methods)
      /\ DOMAIN cur = Members(comps[1]) /\ phase = "sweep" /\ sk' = sk
  BY DEF IInv, Parted, Settle
<1>2. /\ DOMAIN val' = DOMAIN val \cup DOMAIN cur /\ phase' = "solve"
      /\ DOMAIN cur' = {} /\ comps' = Tail(comps)
  BY DEF Settle, Empty
<1>3. /\ comps' \in Seq(SUBSET Methods)
      /\ \A j \in DOMAIN comps' : j + 1 \in DOMAIN comps /\ comps'[j] = comps[j + 1]
      /\ \A j \in DOMAIN comps : j # 1 =>
           j - 1 \in DOMAIN comps' /\ comps'[j - 1] = comps[j]
  BY <1>1, <1>2
<1>4. DOMAIN val' \subseteq Disposables
  BY <1>1, <1>2 DEF IInv, Parted, Disposables, Members
<1>5. \A i, j \in DOMAIN comps' : i # j => comps'[i] \cap comps'[j] = {}
  <2> SUFFICES ASSUME NEW i \in DOMAIN comps', NEW j \in DOMAIN comps', i # j
               PROVE  comps'[i] \cap comps'[j] = {}
    OBVIOUS
  <2>1. i + 1 # j + 1
    BY <1>3
  <2>2. comps[i + 1] \cap comps[j + 1] = {}
    BY <1>3, <2>1 DEF IInv, Parted
  <2> QED BY <1>3, <2>2
<1>6. \A j \in DOMAIN comps' : DOMAIN val' \cap Members(comps'[j]) = {}
  BY <1>1, <1>2, <1>3, Disjoint DEF IInv, Parted
<1>7. \A key \in Disposables :
        key \in DOMAIN val' \/ \E j \in DOMAIN comps' : key \in Members(comps'[j])
  <2> TAKE key \in Disposables
  <2>1. CASE key \in DOMAIN val
    BY <1>2, <2>1
  <2>2. CASE \E j \in DOMAIN comps : key \in Members(comps[j])
    BY <1>1, <1>2, <1>3, <2>2
  <2> QED BY <1>1, <2>1, <2>2 DEF IInv, Parted
<1> QED BY <1>1, <1>2, <1>3, <1>4, <1>5, <1>6, <1>7, SameSkeletons DEF Parted

\* What settles without evidence only forwards to what does, too.
LEMMA SettleBarren ==
  ASSUME IInv, Settle
  PROVE  \A key \in DOMAIN cur : cur[key] = "bot" => key \in Barren
<1> DEFINE B == {key \in DOMAIN cur : cur[key] = "bot"}
<1>1. B \in SUBSET Disposables
  BY DEF IInv, Parted, Settle, Members, Disposables
<1>2. Circles(B)
  <2> SUFFICES ASSUME NEW key \in B
               PROVE  /\ Param(key).paths # {}
                      /\ \A a \in Param(key).paths : Passes(a) /\ Target(a) \in B
    BY DEF Circles
  <2>1. TransferOf(key) = "bot"
    BY DEF IInv, Swept, Settle
  <2> QED BY <2>1, TransferBot, ContribBot DEF IInv
<1> QED BY <1>1, <1>2 DEF Barren

\* What a path of a settled parameter says, is final.
LEMMA SettleBounds ==
  ASSUME IInv, Settle, NEW key \in DOMAIN cur, cur[key] # "bot",
         NEW a \in Param(key).paths
  PROVE  Bounds(key, a)'
<1>1. /\ cur[key] = TransferOf(key) /\ val'[key] = cur[key]
      /\ sk' = sk /\ DOMAIN val' = DOMAIN val \cup DOMAIN cur
  BY DEF IInv, Swept, Settle, Final
<1>2. Leq(Contrib(a), val'[key]) /\ val'[key] \in Values
  BY <1>1, TransferAbove, TransferType DEF IInv
<1>3. \A k \in DOMAIN val : val'[k] = val[k]
  BY Disjoint DEF Settle, IInv
<1>4. \A k \in DOMAIN cur : cur[k] # "bot" => val'[k] = cur[k]
  BY DEF Settle, Final
<1> USE SameSkeletons, SameBarren
<1>5. CASE a.kind \in {"dispose", "adopt", "return", "borrow"}
  BY <1>1, <1>2, <1>5 DEF Contrib, Bounds
<1>6. CASE a.kind = "forward"
  <2>0. Contrib(a) = Lookup(a)
    BY <1>6 DEF Contrib
  <2>1. CASE Known(a) /\ Target(a) \notin Disposables
    BY <1>1, <1>2, <1>6, <2>0, <2>1 DEF Lookup, Bounds, Keeps
  <2>2. CASE Target(a) \in Disposables \cap DOMAIN val
    BY <1>1, <1>2, <1>3, <1>6, <2>0, <2>2 DEF Lookup, Bounds, Passes
  <2>3. CASE Target(a) \in (Disposables \cap DOMAIN cur) \ DOMAIN val
    BY <1>1, <1>2, <1>4, <1>6, <2>0, <2>3, SettleBarren DEF Lookup, Bounds, Passes
  <2>4. CASE /\ ~ (Known(a) /\ Target(a) \notin Disposables)
             /\ Target(a) \notin Disposables \cap (DOMAIN cur \cup DOMAIN val)
    <3>1. Lookup(a) = "unknown"
      BY <2>4 DEF Lookup
    <3> QED BY <1>1, <1>2, <2>0, <3>1 DEF Leq, Bounds
  <2> QED BY <2>1, <2>2, <2>3, <2>4
<1>7. CASE a.kind \notin {"dispose", "adopt", "return", "borrow", "forward"}
  BY <1>1, <1>2, <1>7 DEF Contrib, Leq, Bounds
<1> QED BY <1>5, <1>6, <1>7

\* What settles is above what its paths say; what was final still is.
LEMMA SettleCovered ==
  ASSUME IInv, Settle
  PROVE  Covered'
<1> USE SameSkeletons, SameBarren
<1>1. sk' = sk /\ DOMAIN val' = DOMAIN val \cup DOMAIN cur
  BY DEF Settle
<1>2. \A k \in DOMAIN val : val'[k] = val[k]
  BY Disjoint DEF Settle, IInv
<1> SUFFICES ASSUME NEW key \in DOMAIN val'
             PROVE  /\ Param(key).paths = {} => val'[key] = "no"
                    /\ \A a \in Param(key).paths : Bounds(key, a)'
  BY <1>1 DEF Covered
<1>3. CASE key \in DOMAIN val
  <2>1. \A a \in Param(key).paths : Bounds(key, a)'
    BY <1>1, <1>2, <1>3 DEF IInv, Covered, Bounds
  <2> QED BY <1>2, <1>3, <2>1 DEF IInv, Covered
<1>4. CASE key \in DOMAIN cur
  <2>1. cur[key] = TransferOf(key) /\ val'[key] = Final(cur[key])
    BY <1>4 DEF IInv, Swept, Settle
  <2>2. Param(key).paths = {} => val'[key] = "no"
    BY <2>1 DEF TransferOf, Final
  <2>3. CASE cur[key] = "bot"
    <3>1. \A a \in Param(key).paths : Passes(a) /\ Target(a) \in Barren
      BY <1>4, <2>3, SettleBarren, BarrenCircles DEF Circles
    <3> QED BY <1>1, <2>2, <3>1 DEF Bounds
  <2>4. CASE cur[key] # "bot"
    BY <1>4, <2>2, <2>4, SettleBounds
  <2> QED BY <2>3, <2>4
<1> QED BY <1>1, <1>3, <1>4

\* A component settles.
LEMMA SettleInv ==
  ASSUME IInv, Settle, UNCHANGED runvars
  PROVE  IInv'
<1>1. Typed'
  <2>1. \A key \in DOMAIN cur : Final(cur[key]) \in Values \ {"bot"}
    BY DEF IInv, Typed, Final, Values
  <2> QED BY <2>1 DEF IInv, Typed, Settle, Empty, runvars
<1>2. Swept' /\ Rising'
  BY DEF Settle, Swept, Rising, Empty
<1>3. RunCovered' /\ TransferSound'
  BY NotYet DEF IInv, Settle
<1> QED BY <1>1, <1>2, <1>3, SettleParted, SettleCovered DEF IInv

\* Solved, and the steps that chase the returns.
LEMMA ReturnsInv ==
  ASSUME IInv, UNCHANGED runvars,
         Solved \/ Follow \/ HandBack \/ Summarised \/ \E m \in Methods : Ask(m)
  PROVE  IInv'
<1>1. /\ UNCHANGED <<sk, comps, cur, todo, changed, val>>
      /\ phase' \in {"returns", "done"} /\ phase # "done"
      /\ phase = "returns" \/ (phase = "solve" /\ comps = <<>>)
  <2>1. CASE Solved
    BY <2>1 DEF Solved
  <2>2. CASE Follow
    BY <2>2 DEF Follow, Chasing
  <2>3. CASE HandBack
    <3>1. UNCHANGED <<sk, phase, comps, cur, todo, changed, val>> /\ phase = "returns"
      BY <2>3 DEF HandBack, Chasing
    <3> QED BY <3>1
  <2>4. CASE Summarised
    BY <2>4 DEF Summarised
  <2>5. CASE \E m \in Methods : Ask(m)
    BY <2>5 DEF Ask
  <2> QED BY <2>1, <2>2, <2>3, <2>4, <2>5
<1>2. Typed'
  BY <1>1 DEF IInv, Typed, runvars
<1>3. Parted'
  <2>1. CASE phase = "returns"
    BY <1>1, <2>1, SameSkeletons DEF IInv, Parted
  <2>2. CASE phase = "solve" /\ comps = <<>>
    <3>1. DOMAIN comps = {}
      BY <2>2
    <3>2. DOMAIN val = Disposables
      BY <2>2, <3>1 DEF IInv, Parted
    <3> QED BY <1>1, <2>2, <3>2, SameSkeletons DEF IInv, Parted
  <2> QED BY <1>1, <2>1, <2>2
<1>4. Swept' /\ Rising' /\ Covered'
  BY <1>1, QuietStep
<1> QED BY <1>1, <1>2, <1>3, <1>4, NotYet DEF IInv

-----------------------------------------------------------------------------
(* The steps of a call. *)

\* A step of a call changes nothing of the summaries.
LEMMA RunStepQuiet ==
  ASSUME IInv, UNCHANGED solver, mode' \in {"running", "left", "kept"}
  PROVE  Typed' /\ Parted' /\ Swept' /\ Rising' /\ Covered'
<1>1. Swept' /\ Rising' /\ Covered'
  BY QuietStep DEF solver
<1>2. Typed'
  BY DEF IInv, Typed, solver
<1>3. Parted'
  BY SameSkeletons DEF IInv, Parted, solver
<1> QED BY <1>1, <1>2, <1>3

\* A call starts at the parameter it is about.
LEMMA CallInv ==
  ASSUME IInv, Call
  PROVE  IInv'
<1>1. Typed' /\ Parted' /\ Swept' /\ Rising' /\ Covered'
  BY RunStepQuiet DEF Call
<1>2. RunCovered'
  BY SameSkeletons, LeqRefl DEF Call, RunCovered, solver
<1>3. TransferSound'
  BY DEF Call, TransferSound
<1> QED BY <1>1, <1>2, <1>3 DEF IInv

\* In a call: the summaries are there, and the verdict where it stands is
\* below the one it is about, or it never ends.
LEMMA Running ==
  ASSUME IInv, mode = "running"
  PROVE  /\ DOMAIN val = Disposables /\ phase = "done"
         /\ start \in DOMAIN val /\ at \in DOMAIN val
         /\ val[start] \in Values /\ val[at] \in Values
         /\ at \in Barren \/ Leq(val[at], val[start])
         /\ Transfer(start) = val[start]
BY DEF IInv, Typed, Parted, RunCovered, Transfer

\* A call that goes on in a callee moves downwards, or is where no call ends.
LEMMA EnterInv ==
  ASSUME IInv, Enter
  PROVE  IInv'
<1>1. Typed' /\ Parted' /\ Swept' /\ Rising' /\ Covered'
  BY RunStepQuiet DEF Enter
<1>2. RunCovered'
  <2>1. PICK a \in Param(at).paths : Passes(a) /\ at' = Target(a)
    BY DEF Enter
  <2>2. /\ sk' = sk /\ val' = val /\ start' = start /\ phase' = phase
    BY DEF Enter, solver
  <2>3. at' \in Disposables
    BY <2>1 DEF Passes
  <2>4. CASE at \in Barren
    <3>1. at' \in Barren
      BY <2>1, <2>4, BarrenCircles DEF Circles
    <3> QED BY <2>2, <2>3, <3>1, Running, SameSkeletons, SameBarren
            DEF RunCovered, Enter
  <2>5. CASE at \notin Barren
    <3>1. Bounds(at, a) /\ Leq(val[at], val[start])
      BY <2>1, <2>5, Running DEF IInv, Covered, Enter
    <3>2. at' \in Barren \/ Leq(val[at'], val[start])
      <4>1. CASE val[at] = "unknown"
        BY <3>1, <4>1 DEF Leq
      <4>2. CASE Target(a) \in DOMAIN val /\ Leq(val[Target(a)], val[at])
        <5>1. val[at'] \in Values
          BY <2>1, <4>2 DEF IInv, Typed
        <5> QED BY <2>1, <3>1, <4>2, <5>1, Running, LeqTrans DEF Enter
      <4>3. CASE Target(a) \in Barren
        BY <2>1, <4>3
      <4> QED BY <2>1, <3>1, <4>1, <4>2, <4>3 DEF Bounds, Passes, Keeps
    <3> QED BY <2>2, <2>3, <3>2, Running, SameSkeletons, SameBarren
            DEF RunCovered, Enter
  <2> QED BY <2>4, <2>5
<1>3. TransferSound'
  BY DEF Enter, TransferSound
<1> QED BY <1>1, <1>2, <1>3 DEF IInv

\* A call that ends does so where its verdict says it may.
LEMMA EndSound ==
  ASSUME IInv, mode = "running", NEW a \in Param(at).paths, NEW e \in Ends(a)
  PROVE  /\ e \in {"left", "kept"}
         /\ e = "kept" => val[start] # "must"
         /\ e = "left" => val[start] # "no"
<1>0. Ends(a) \in {{"left"}, {"kept"}, {}, {"left", "kept"}}
  BY DEF Ends
<1>1. ~ Passes(a)
  BY DEF Ends, Passes, Keeps
<1>2. at \notin Barren
  BY <1>1, BarrenCircles DEF Circles
<1>3. /\ Leq(val[at], val[start]) /\ val[start] \in Values \ {"bot"}
      /\ Bounds(at, a) /\ val[at] \in Values \ {"bot"}
  BY <1>2, Running DEF IInv, Covered, Typed
<1>4. CASE val[at] = "unknown"
  <2>1. val[start] = "unknown"
    BY <1>3, <1>4 DEF Leq
  <2>2. e \in {"left", "kept"}
    BY <1>0
  <2> QED BY <2>1, <2>2
<1>5. CASE a.kind \in {"dispose", "adopt", "return"} /\ Leq("must", val[at])
  <2>1. Leq("must", val[start])
    BY <1>3, <1>5, LeqTrans DEF Values
  <2>2. e = "left"
    BY <1>5 DEF Ends, Keeps, Passes
  <2> QED BY <2>1, <2>2 DEF Leq
<1>6. CASE (a.kind = "borrow" \/ Keeps(a)) /\ Leq("no", val[at])
  BY <1>3, <1>6 DEF Leq, Ends, Values, Keeps
<1> QED BY <1>1, <1>3, <1>4, <1>5, <1>6 DEF Bounds

\* A call ends on one of its paths.
LEMMA EndInv ==
  ASSUME IInv, End
  PROVE  IInv'
<1>1. /\ mode' \in {"left", "kept"}
      /\ mode' = "kept" => val[start] # "must"
      /\ mode' = "left" => val[start] # "no"
  BY EndSound DEF End
<1>2. Typed' /\ Parted' /\ Swept' /\ Rising' /\ Covered'
  BY <1>1, RunStepQuiet DEF End
<1>3. RunCovered'
  BY Running, SameSkeletons, SameBarren DEF RunCovered, End, solver
<1>4. TransferSound'
  BY <1>1, Running DEF TransferSound, Transfer, End, solver
<1> QED BY <1>2, <1>3, <1>4 DEF IInv

\* A call ends where nothing is done with the argument: it is kept.
LEMMA FallInv ==
  ASSUME IInv, Fall
  PROVE  IInv'
<1>1. at \notin Barren /\ val[at] = "no"
  BY BarrenCircles, Running DEF Fall, Circles, IInv, Covered
<1>2. val[start] # "must"
  BY <1>1, Running DEF Leq, Fall
<1>3. Typed' /\ Parted' /\ Swept' /\ Rising' /\ Covered'
  BY RunStepQuiet DEF Fall
<1>4. RunCovered'
  BY Running, SameSkeletons, SameBarren DEF RunCovered, Fall, solver
<1>5. TransferSound'
  BY <1>2, Running DEF TransferSound, Transfer, Fall, solver
<1> QED BY <1>3, <1>4, <1>5 DEF IInv

\* Nothing happens.
LEMMA StutterInv ==
  ASSUME IInv, UNCHANGED vars
  PROVE  IInv'
<1>1. Swept' /\ Rising' /\ Covered'
  BY QuietStep DEF vars, solver
<1>2. Typed'
  BY DEF IInv, Typed, vars, solver, runvars
<1>3. Parted'
  BY SameSkeletons DEF IInv, Parted, vars, solver
<1>4. RunCovered' /\ TransferSound'
  BY SameSkeletons, SameBarren
     DEF IInv, RunCovered, TransferSound, Transfer, vars, solver, runvars
<1> QED BY <1>1, <1>2, <1>3, <1>4 DEF IInv

-----------------------------------------------------------------------------
(* The theorems. *)

\* Every step of the solver keeps the invariant,
LEMMA SolverInv ==
  ASSUME IInv, SolverStep, UNCHANGED runvars
  PROVE  IInv'
<1>1. CASE Take
  BY <1>1, TakeInv
<1>2. CASE Again
  BY <1>2, AgainInv
<1>3. CASE Settle
  BY <1>3, SettleInv
<1>4. CASE \E key \in todo : Evaluate(key)
  BY <1>4, EvaluateInv
<1>5. CASE Solved \/ Follow \/ HandBack \/ Summarised \/ \E m \in Methods : Ask(m)
  BY <1>5, ReturnsInv
<1> QED BY <1>1, <1>2, <1>3, <1>4, <1>5 DEF SolverStep

\* and every step of a call.
LEMMA CallsInv ==
  ASSUME IInv, RunStep
  PROVE  IInv'
BY CallInv, FallInv, EndInv, EnterInv DEF RunStep

\* No step of a sweep lowers an iterate.
LEMMA StepRises ==
  ASSUME IInv, (SolverStep /\ UNCHANGED runvars) \/ RunStep,
         phase = "sweep", phase' = "sweep"
  PROVE  \A key \in DOMAIN cur : Leq(cur[key], cur'[key])
<1>1. ASSUME NEW k \in todo, Evaluate(k), UNCHANGED runvars
      PROVE  \A key \in DOMAIN cur : Leq(cur[key], cur'[key])
  BY <1>1, EvaluateRises
<1>2. CASE Again \/ RunStep
  BY <1>2, LeqRefl DEF Again, RunStep, Call, Fall, End, Enter, solver
<1>3. CASE SolverStep /\ UNCHANGED runvars
  <2>1. Again \/ \E k \in todo : Evaluate(k)
    BY <1>3 DEF SolverStep, Take, Settle, Solved, Ask, Follow, HandBack,
                Summarised, Chasing
  <2> QED BY <1>1, <1>2, <1>3, <2>1
<1> QED BY <1>2, <1>3

\* Every step keeps the invariant.
LEMMA NextInv ==
  ASSUME IInv, [Next]_vars
  PROVE  IInv'
<1>1. ASSUME \E order \in Orders : ListOk(order) /\ Start(order), UNCHANGED runvars
      PROVE  IInv'
  BY <1>1, StartInv
<1> QED BY <1>1, SolverInv, CallsInv, StutterInv DEF Next

\* The solver and the calls keep the invariant for ever.
THEOREM SolverInvariant == Spec => []IInv
<1>1. Init => IInv
  BY InitInv
<1>2. IInv /\ [Next]_vars => IInv'
  BY NextInv
<1> QED BY <1>1, <1>2, PTL DEF Spec

(***************************************************************************)
(* `solve_with_log` is sound whatever the table and whatever the list of   *)
(* components: no call that keeps its argument is summarised as must, and  *)
(* none that gives it away as no.                                          *)
(***************************************************************************)
THEOREM TransfersAreSound == Spec => []TransferSound
BY SolverInvariant, PTL DEF IInv

\* Its iteration is monotone: it never lowers a verdict it has reached.
THEOREM IteratesRise == Spec => OnlyRises
<1>1. /\ IInv /\ [Next]_vars
      => [phase = "sweep" /\ phase' = "sweep" =>
            \A key \in DOMAIN cur : Leq(cur[key], cur'[key])]_vars
  <2> SUFFICES ASSUME IInv, Next, phase = "sweep", phase' = "sweep"
               PROVE  \A key \in DOMAIN cur : Leq(cur[key], cur'[key])
    OBVIOUS
  <2>1. (SolverStep /\ UNCHANGED runvars) \/ RunStep
    BY DEF Next, Start
  <2> QED BY <2>1, StepRises
<1> QED BY <1>1, SolverInvariant, PTL DEF Spec, OnlyRises

-----------------------------------------------------------------------------
(* The invariant of the walk. *)

Node(k) == walks[k].node
Left(k) == walks[k].left
Emitted == UNION {out[c] : c \in DOMAIN out}
Walked  == {Node(k) : k \in DOMAIN walks}

\* A graph of numbers, which the edges do not leave.
GraphOk ==
  /\ DOMAIN adj \subseteq Nat
  /\ \A n \in DOMAIN adj : adj[n] \subseteq DOMAIN adj

Shapes ==
  /\ IsFiniteSet(Met) /\ Met \subseteq DOMAIN adj
  /\ index \in [Met -> Nat] /\ low \in [Met -> Nat]
  /\ stack \in Seq(Met)
  /\ walks \in Seq([node : Met, left : SUBSET DOMAIN adj])
  /\ out \in Seq(SUBSET Met)
  /\ roots \in Seq(DOMAIN adj)

\* Methods are numbered as they are met, and stay in that order.
Numbered ==
  /\ \A n \in Met : index[n] < Cardinality(Met)
  /\ \A i, j \in DOMAIN stack : i < j => index[stack[i]] < index[stack[j]]
  /\ \A i, j \in DOMAIN walks : i < j => index[Node(i)] < index[Node(j)]

\* What has been met is on the stack or in a component.
Placed ==
  /\ Met = OnStack \cup Emitted
  /\ OnStack \cap Emitted = {}
  /\ Walked \subseteq OnStack
  /\ \A n \in DOMAIN adj : n \in Met \/ \E j \in DOMAIN roots : roots[j] = n

\* Only what a walk has still to look at may not have been met.
Looked ==
  /\ \A n \in Met \ Walked : adj[n] \subseteq Met
  /\ \A k \in DOMAIN walks : /\ Left(k) \subseteq adj[Node(k)]
                             /\ adj[Node(k)] \ Left(k) \subseteq Met

\* A walk reaches whatever is above it, and that reaches a walk below it.
Reaching ==
  /\ \A k \in DOMAIN walks : \A x \in OnStack :
       index[Node(k)] <= index[x] => x \in Reach(Node(k))
  /\ \A x \in OnStack : \E k \in DOMAIN walks :
       Node(k) \in Reach(x) /\ index[Node(k)] <= index[x]

\* The low link of a walk is the number of something it reaches,
LowReal ==
  \A k \in DOMAIN walks :
    /\ low[Node(k)] <= index[Node(k)]
    /\ \E y \in OnStack : y \in Reach(Node(k)) /\ index[y] = low[Node(k)]

\* and no method between it and the next walk has looked at a lower one.
Between(k, x) ==
  /\ index[Node(k)] <= index[x]
  /\ k + 1 \in DOMAIN walks => index[x] < index[Node(k + 1)]

LowSeen ==
  \A k \in DOMAIN walks : \A x, y \in OnStack :
    Between(k, x) /\ y \in adj[x] /\ (x = Node(k) => y \notin Left(k))
      => low[Node(k)] <= index[y]

\* The components are whole and callees first.
Whole ==
  \A c \in DOMAIN out : \A n \in out[c] :
    /\ out[c] = {m \in Reach(n) : n \in Reach(m)}
    /\ adj[n] \subseteq UNION {out[d] : d \in 1 .. c}

Apart == \A c, d \in DOMAIN out : c # d => out[c] \cap out[d] = {}

SccsInv ==
  /\ GraphOk /\ Shapes /\ Numbered /\ Placed /\ Looked
  /\ Reaching /\ LowReal /\ LowSeen /\ Whole /\ Apart
-----------------------------------------------------------------------------
(* Reaching. *)

\* A set of numbers has a least one, and Least finds it.
LEMMA LeastIn ==
  ASSUME NEW S \in SUBSET Nat, S # {}
  PROVE  Least(S) \in S
<1>1. PICK l \in S : \A n \in S : ~ (<<n, l>> \in OpToRel(<, Nat))
  BY WFMin, NatLessThanWellFounded
<1>2. \A n \in S : <<n, l>> \in OpToRel(<, Nat) <=> n < l
  BY DEF OpToRel
<1>3. \A n \in S : ~ (n < l)
  BY <1>1, <1>2
<1>4. \A n \in S : l <= n
  BY <1>3
<1> QED BY <1>4 DEF Least

\* A method reaches itself.
LEMMA ReachSelf == \A n \in DOMAIN adj : n \in Reach(n)
BY DEF Reach

\* It reaches nothing outside a set that is closed.
LEMMA ReachInside ==
  ASSUME NEW S \in SUBSET DOMAIN adj, \A x \in S : adj[x] \subseteq S
  PROVE  \A n \in S : Reach(n) \subseteq S
BY DEF Reach

\* What it reaches is closed.
LEMMA ReachClosed ==
  ASSUME GraphOk, NEW n
  PROVE  Reach(n) \subseteq DOMAIN adj /\ \A m \in Reach(n) : adj[m] \subseteq Reach(n)
<1> SUFFICES ASSUME NEW m \in Reach(n), NEW x \in adj[m] PROVE x \in Reach(n)
  BY DEF Reach
<1>1. x \in DOMAIN adj
  BY DEF Reach, GraphOk
<1>2. ASSUME NEW S \in SUBSET DOMAIN adj, n \in S, \A y \in S : adj[y] \subseteq S
      PROVE  x \in S
  BY <1>2 DEF Reach
<1> QED BY <1>1, <1>2 DEF Reach

\* Reaching is transitive.
LEMMA ReachTrans ==
  ASSUME GraphOk, NEW n, NEW m \in Reach(n)
  PROVE  Reach(m) \subseteq Reach(n)
BY ReachClosed, ReachInside

\* The graph stays, and so does what is reached in it.
LEMMA SameReach ==
  ASSUME adj' = adj
  PROVE  \A n : Reach(n)' = Reach(n)
BY DEF Reach

-----------------------------------------------------------------------------
(* A method is met. *)

\* The walks there are: at most n is taken from what they have left.
Ready(n, before) ==
  /\ before \in Seq([node : Met, left : SUBSET DOMAIN adj])
  /\ Len(before) = Len(walks)
  /\ \A k \in DOMAIN walks :
       /\ before[k].node = Node(k)
       /\ before[k].left \subseteq Left(k)
       /\ Left(k) \subseteq before[k].left \cup {n}
       /\ n \in Reach(Node(k))

\* It is numbered,
LEMMA MeetNumbers ==
  ASSUME SccsInv, NEW n \in DOMAIN adj \ Met, NEW before, Meet(n, before)
  PROVE  /\ Met' = Met \cup {n} /\ IsFiniteSet(Met')
         /\ Cardinality(Met) \in Nat /\ Cardinality(Met') = Cardinality(Met) + 1
         /\ index' \in [Met' -> Nat] /\ low' \in [Met' -> Nat]
         /\ index'[n] = Cardinality(Met) /\ low'[n] = Cardinality(Met)
         /\ \A x \in Met : index'[x] = index[x] /\ low'[x] = low[x]
<1> USE DEF SccsInv, Shapes
<1>1. Met' = Met \cup {n} /\ DOMAIN low' = Met'
  BY DEF Meet, Extended, Met
<1>2. IsFiniteSet(Met') /\ Cardinality(Met') = Cardinality(Met) + 1
  <2>1. IsFiniteSet(Met) /\ n \notin Met
    OBVIOUS
  <2>2. IsFiniteSet(Met \cup {n}) /\ Cardinality(Met \cup {n}) = Cardinality(Met) + 1
    BY ONLY <2>1, FS_AddElement
  <2> QED BY <1>1, <2>2
<1>3. Cardinality(Met) \in Nat
  BY FS_CardinalityType
<1>4. /\ index'[n] = Cardinality(Met) /\ low'[n] = Cardinality(Met)
      /\ \A x \in Met : index'[x] = index[x] /\ low'[x] = low[x]
  BY DEF Meet, Extended, Met
<1>5. index' \in [Met' -> Nat] /\ low' \in [Met' -> Nat]
  BY <1>1, <1>3, <1>4 DEF Meet, Extended, Met
<1> QED BY <1>1, <1>2, <1>3, <1>4, <1>5

\* put on the stack
LEMMA MeetStacks ==
  ASSUME SccsInv, NEW n \in DOMAIN adj \ Met, NEW before, Meet(n, before)
  PROVE  /\ stack' \in Seq(Met') /\ OnStack' = OnStack \cup {n}
         /\ Len(stack) \in Nat /\ DOMAIN stack = 1 .. Len(stack)
         /\ DOMAIN stack' = 1 .. Len(stack) + 1
         /\ stack'[Len(stack) + 1] = n
         /\ \A j \in DOMAIN stack : stack'[j] = stack[j]
         /\ Emitted' = Emitted /\ out' = out /\ adj' = adj
<1>1. stack \in Seq(Met') /\ n \in Met'
  BY MeetNumbers DEF SccsInv, Shapes
<1>2. stack' = Append(stack, n) /\ out' = out /\ adj' = adj
  BY DEF Meet
<1> HIDE DEF Met
<1>3. /\ stack' \in Seq(Met') /\ DOMAIN stack' = 1 .. Len(stack) + 1
      /\ DOMAIN stack = 1 .. Len(stack) /\ Len(stack) \in Nat
      /\ stack'[Len(stack) + 1] = n
      /\ \A j \in DOMAIN stack : stack'[j] = stack[j]
  BY <1>1, <1>2
<1>4. OnStack' = OnStack \cup {n}
  <2>1. OnStack' = {stack'[j] : j \in 1 .. Len(stack) + 1}
    BY <1>3 DEF OnStack
  <2> QED BY <1>3, <2>1 DEF OnStack
<1> QED BY <1>2, <1>3, <1>4 DEF Emitted

\* and walked.
LEMMA MeetWalks ==
  ASSUME SccsInv, NEW n \in DOMAIN adj \ Met, NEW before, Ready(n, before),
         Meet(n, before)
  PROVE  /\ walks' \in Seq([node : Met', left : SUBSET DOMAIN adj])
         /\ Len(walks) \in Nat /\ DOMAIN walks = 1 .. Len(walks)
         /\ DOMAIN walks' = 1 .. Len(walks) + 1
         /\ Walked' = Walked \cup {n}
         /\ \A t : t = Len(walks) + 1 => Node(t)' = n /\ Left(t)' = adj[n]
         /\ \A k \in DOMAIN walks :
              /\ Node(k)' = Node(k) /\ Left(k)' \subseteq Left(k)
              /\ Left(k) \subseteq Left(k)' \cup {n}
<1> DEFINE W == [node : Met', left : SUBSET DOMAIN adj]
           new == [node |-> n, left |-> adj[n]]
<1>1. new \in W
  BY MeetNumbers DEF SccsInv, GraphOk
<1>2. before \in Seq(W) /\ Len(before) = Len(walks)
  <2> DEFINE V == [node : Met, left : SUBSET DOMAIN adj]
  <2>1. V \subseteq W
    BY MeetNumbers
  <2>2. before \in Seq(V) /\ Len(before) = Len(walks)
    BY DEF Ready
  <2> HIDE DEF V, W
  <2> QED BY <2>1, <2>2
<1>3. walks' = Append(before, new)
  BY DEF Meet
<1>4. Len(walks) \in Nat /\ DOMAIN walks = 1 .. Len(walks)
  BY DEF SccsInv, Shapes
<1> HIDE DEF W, new
<1>5. /\ walks' \in Seq(W) /\ DOMAIN walks' = 1 .. Len(walks) + 1
      /\ walks'[Len(walks) + 1] = new
      /\ \A k \in 1 .. Len(walks) : walks'[k] = before[k]
  BY <1>1, <1>2, <1>3, <1>4
<1>6. \A k \in DOMAIN walks :
        /\ Node(k)' = Node(k) /\ Left(k)' \subseteq Left(k)
        /\ Left(k) \subseteq Left(k)' \cup {n}
  BY <1>4, <1>5 DEF Ready, Node, Left
<1>7. \A t : t = Len(walks) + 1 => Node(t)' = n /\ Left(t)' = adj[n]
  BY <1>5 DEF Node, Left, new
<1>8. Walked' = Walked \cup {n}
  <2>1. PICK t : t = Len(walks) + 1
    OBVIOUS
  <2>2. Walked' = {(Node(k))' : k \in 1 .. t}
    BY <1>4, <1>5, <2>1 DEF Walked
  <2>3. (Node(t))' = n /\ \A k \in 1 .. Len(walks) : (Node(k))' = Node(k)
    BY <1>4, <1>6, <1>7, <2>1
  <2>4. Walked' = {(Node(k))' : k \in 1 .. Len(walks)} \cup {(Node(t))'}
    BY <1>4, <2>1, <2>2
  <2> QED BY <1>4, <2>3, <2>4 DEF Walked
<1> QED BY <1>4, <1>5, <1>6, <1>7, <1>8 DEF W

\* Nothing is disturbed when a method is met.
LEMMA MeetInv ==
  ASSUME SccsInv, NEW n \in DOMAIN adj \ Met, NEW before, Ready(n, before),
         Meet(n, before), roots' \in Seq(DOMAIN adj),
         \A m \in DOMAIN adj : m \in Met' \/ \E j \in DOMAIN roots' : roots'[j] = m
  PROVE  SccsInv'
<1>1. /\ Met' = Met \cup {n} /\ IsFiniteSet(Met')
      /\ Cardinality(Met) \in Nat /\ Cardinality(Met') = Cardinality(Met) + 1
      /\ index' \in [Met' -> Nat] /\ low' \in [Met' -> Nat]
      /\ index'[n] = Cardinality(Met) /\ low'[n] = Cardinality(Met)
      /\ \A x \in Met : index'[x] = index[x] /\ low'[x] = low[x]
  BY MeetNumbers
<1>2. /\ stack' \in Seq(Met') /\ OnStack' = OnStack \cup {n}
      /\ Len(stack) \in Nat /\ DOMAIN stack = 1 .. Len(stack)
      /\ DOMAIN stack' = 1 .. Len(stack) + 1
      /\ stack'[Len(stack) + 1] = n
      /\ \A j \in DOMAIN stack : stack'[j] = stack[j]
      /\ Emitted' = Emitted /\ out' = out /\ adj' = adj
  BY MeetStacks
<1>3. /\ walks' \in Seq([node : Met', left : SUBSET DOMAIN adj])
      /\ Len(walks) \in Nat /\ DOMAIN walks = 1 .. Len(walks)
      /\ DOMAIN walks' = 1 .. Len(walks) + 1
      /\ Walked' = Walked \cup {n}
      /\ \A t : t = Len(walks) + 1 => Node(t)' = n /\ Left(t)' = adj[n]
      /\ \A k \in DOMAIN walks :
           /\ Node(k)' = Node(k) /\ Left(k)' \subseteq Left(k)
           /\ Left(k) \subseteq Left(k)' \cup {n}
  BY MeetWalks
<1>4. /\ \A m : Reach(m)' = Reach(m)
      /\ n \in Reach(n)
      /\ \A k \in DOMAIN walks : n \in Reach(Node(k))
  BY <1>2, SameReach, ReachSelf DEF Ready
<1>5. /\ OnStack \subseteq Met
      /\ \A j \in DOMAIN stack : stack[j] \in Met
      /\ \A k \in DOMAIN walks : Node(k) \in Met /\ Node(k) \in OnStack
      /\ \A x \in Met : index[x] \in Nat /\ low[x] \in Nat /\ index[x] < Cardinality(Met)
      /\ Met \subseteq DOMAIN adj
      /\ \A k \in DOMAIN walks : /\ k \in DOMAIN walks'
                                 /\ index'[Node(k)'] = index[Node(k)]
                                 /\ low'[Node(k)'] = low[Node(k)]
      /\ \A x \in OnStack : x \in OnStack' /\ index'[x] = index[x]
  <2>1. /\ OnStack \subseteq Met
        /\ \A j \in DOMAIN stack : stack[j] \in Met
        /\ \A k \in DOMAIN walks : Node(k) \in Met /\ Node(k) \in OnStack
        /\ \A x \in Met : index[x] \in Nat /\ low[x] \in Nat /\ index[x] < Cardinality(Met)
        /\ Met \subseteq DOMAIN adj
    BY DEF SccsInv, Placed, Walked, Shapes, Numbered, OnStack
  <2>2. ASSUME NEW k \in DOMAIN walks
        PROVE  /\ k \in DOMAIN walks'
               /\ index'[Node(k)'] = index[Node(k)] /\ low'[Node(k)'] = low[Node(k)]
    <3>1. k \in DOMAIN walks' /\ Node(k)' = Node(k)
      BY <1>3
    <3>2. Node(k) \in Met
      BY <2>1
    <3> QED BY <1>1, <3>1, <3>2
  <2>3. \A x \in OnStack : x \in OnStack' /\ index'[x] = index[x]
    BY <1>1, <1>2, <2>1
  <2> QED BY <2>1, <2>2, <2>3
<1>6. GraphOk'
  BY <1>2 DEF SccsInv, GraphOk
<1>7. Shapes'
  <2>1. out' \in Seq(SUBSET Met')
    <3>1. out \in Seq(SUBSET Met) /\ SUBSET Met \subseteq SUBSET Met'
      BY <1>1 DEF SccsInv, Shapes
    <3> QED BY <1>2, <3>1
  <2>2. Met' \subseteq DOMAIN adj'
    BY <1>1, <1>2, <1>5
  <2> QED BY <1>1, <1>2, <1>3, <2>1, <2>2 DEF Shapes
<1>8. Numbered'
  <2>1. \A m \in Met' : index'[m] < Cardinality(Met')
    BY <1>1, <1>5
  <2>2. \A i, j \in DOMAIN stack' : i < j => index'[stack'[i]] < index'[stack'[j]]
    <3> SUFFICES ASSUME NEW i \in DOMAIN stack', NEW j \in DOMAIN stack', i < j
                 PROVE  index'[stack'[i]] < index'[stack'[j]]
      OBVIOUS
    <3>1. i \in DOMAIN stack /\ i \in Nat /\ j \in Nat
      BY <1>2
    <3>2. CASE j \in DOMAIN stack
      BY <1>1, <1>2, <1>5, <3>1, <3>2 DEF SccsInv, Numbered
    <3>3. CASE j = Len(stack) + 1
      BY <1>1, <1>2, <1>5, <3>1, <3>3
    <3> QED BY <1>2, <3>2, <3>3
  <2>3. \A i, j \in DOMAIN walks' : i < j => index'[Node(i)'] < index'[Node(j)']
    <3> SUFFICES ASSUME NEW i \in DOMAIN walks', NEW j \in DOMAIN walks', i < j
                 PROVE  index'[Node(i)'] < index'[Node(j)']
      OBVIOUS
    <3>1. i \in DOMAIN walks /\ i \in Nat /\ j \in Nat
      BY <1>3
    <3>2. CASE j \in DOMAIN walks
      <4>1. index[Node(i)] < index[Node(j)]
        BY <3>1, <3>2 DEF SccsInv, Numbered
      <4> QED BY <1>5, <3>1, <3>2, <4>1
    <3>3. CASE j = Len(walks) + 1
      <4>1. Node(j)' = n
        BY <1>3, <3>3
      <4>2. index'[Node(i)'] = index[Node(i)] /\ index[Node(i)] < Cardinality(Met)
        BY <1>5, <3>1
      <4> QED BY <1>1, <4>1, <4>2
    <3> QED BY <1>3, <3>2, <3>3
  <2> QED BY <2>1, <2>2, <2>3 DEF Numbered
<1>9. Placed'
  BY <1>1, <1>2, <1>3 DEF SccsInv, Placed
<1>10. Looked'
  <2>1. \A m \in Met' \ Walked' : adj[m] \subseteq Met'
    BY <1>1, <1>3 DEF SccsInv, Looked
  <2>2. \A k \in DOMAIN walks' : /\ Left(k)' \subseteq adj[Node(k)']
                                 /\ adj[Node(k)'] \ Left(k)' \subseteq Met'
    <3> TAKE k \in DOMAIN walks'
    <3>1. CASE k \in DOMAIN walks
      BY <1>1, <1>3, <3>1 DEF SccsInv, Looked
    <3>2. CASE k = Len(walks) + 1
      BY <1>3, <3>2
    <3> QED BY <1>3, <3>1, <3>2
  <2> QED BY <1>2, <2>1, <2>2 DEF Looked
<1>11. Reaching'
  <2>1. \A k \in DOMAIN walks' : \A x \in OnStack' :
          index'[Node(k)'] <= index'[x] => x \in Reach(Node(k)')
    <3> TAKE k \in DOMAIN walks'
    <3> TAKE x \in OnStack'
    <3>1. CASE k \in DOMAIN walks /\ x = n
      BY <1>3, <1>4, <3>1
    <3>2. CASE k \in DOMAIN walks /\ x \in OnStack
      <4>1. Node(k)' = Node(k) /\ index'[Node(k)] = index[Node(k)] /\ index'[x] = index[x]
        BY <1>1, <1>3, <1>5, <3>2
      <4> QED BY <3>2, <4>1 DEF SccsInv, Reaching
    <3>3. CASE k = Len(walks) + 1
      BY <1>1, <1>2, <1>3, <1>4, <1>5, <3>3
    <3> QED BY <1>2, <1>3, <3>1, <3>2, <3>3
  <2>2. \A x \in OnStack' : \E k \in DOMAIN walks' :
          Node(k)' \in Reach(x) /\ index'[Node(k)'] <= index'[x]
    <3> TAKE x \in OnStack'
    <3>1. CASE x \in OnStack
      <4>1. PICK k \in DOMAIN walks : Node(k) \in Reach(x) /\ index[Node(k)] <= index[x]
        BY <3>1 DEF SccsInv, Reaching
      <4>2. Node(k)' = Node(k)
        BY <1>3
      <4>3. k \in DOMAIN walks' /\ index'[Node(k)'] <= index'[x]
        BY <1>5, <3>1, <4>1
      <4> QED BY <4>1, <4>2, <4>3
    <3>2. CASE x = n
      <4>1. PICK t : t = Len(walks) + 1
        OBVIOUS
      <4>2. t \in DOMAIN walks' /\ Node(t)' = n
        BY <1>3, <4>1
      <4> QED BY <1>1, <1>4, <3>2, <4>2
    <3> QED BY <1>2, <3>1, <3>2
  <2>3. \A m : Reach(m)' = Reach(m)
    BY <1>4
  <2> QED BY <2>1, <2>2, <2>3 DEF Reaching
<1>12. LowReal'
  <2>1. \A k \in DOMAIN walks' :
          /\ low'[Node(k)'] <= index'[Node(k)']
          /\ \E y \in OnStack' : y \in Reach(Node(k)') /\ index'[y] = low'[Node(k)']
    <3> TAKE k \in DOMAIN walks'
    <3>1. CASE k \in DOMAIN walks
      <4>1. low[Node(k)] <= index[Node(k)]
        BY <3>1 DEF SccsInv, LowReal
      <4>2. PICK y \in OnStack : y \in Reach(Node(k)) /\ index[y] = low[Node(k)]
        BY <3>1 DEF SccsInv, LowReal
      <4>3. Node(k)' = Node(k)
        BY <1>3, <3>1
      <4>4. /\ index'[Node(k)'] = index[Node(k)] /\ low'[Node(k)'] = low[Node(k)]
            /\ y \in OnStack' /\ index'[y] = index[y]
        BY <1>5, <3>1
      <4> QED BY <4>1, <4>2, <4>3, <4>4
    <3>2. CASE k = Len(walks) + 1
      BY <1>1, <1>2, <1>3, <1>4, <3>2
    <3> QED BY <1>3, <3>1, <3>2
  <2> QED BY <1>4, <2>1 DEF LowReal
<1>13. LowSeen'
  <2>1. SUFFICES ASSUME NEW k \in DOMAIN walks', NEW x \in OnStack', NEW y \in OnStack',
                        Between(k, x)', y \in adj'[x], x = Node(k)' => y \notin Left(k)'
                 PROVE  low'[Node(k)'] <= index'[y]
    BY DEF LowSeen
  <2>2. CASE k = Len(walks) + 1
    <3>1. Node(k)' = n /\ Left(k)' = adj[n]
      BY <1>3, <2>2
    <3>2. index'[n] <= index'[x]
      BY <2>1, <3>1 DEF Between
    <3>3. x = n
      BY <1>1, <1>2, <1>5, <3>2
    <3> QED BY <1>2, <2>1, <3>1, <3>3
  <2>3. CASE k \in DOMAIN walks
    <3>1. x \in OnStack
      <4>1. CASE k + 1 \in DOMAIN walks
        <5>1. PICK t : t = k + 1
          OBVIOUS
        <5>2. t \in DOMAIN walks' /\ index'[Node(t)'] = index[Node(t)] /\ Node(t) \in Met
          BY <1>5, <4>1, <5>1
        <5>3. index'[x] < index'[Node(t)']
          BY <2>1, <5>1, <5>2 DEF Between
        <5>4. index'[x] < Cardinality(Met)
          <6>1. index'[x] < index[Node(t)]
            BY <5>2, <5>3
          <6>2. index[Node(t)] < Cardinality(Met) /\ index[Node(t)] \in Nat
            BY <1>5, <5>2
          <6>3. x \in Met'
            BY <1>1, <1>2, <1>5
          <6>4. index'[x] \in Nat
            BY <1>1, <6>3
          <6> QED BY <1>1, <6>1, <6>2, <6>4
        <5> QED BY <1>1, <1>2, <5>4
      <4>2. CASE k = Len(walks)
        <5>1. PICK t : t = k + 1
          OBVIOUS
        <5>2. t \in DOMAIN walks' /\ Node(t)' = n
          BY <1>3, <4>2, <5>1
        <5>3. index'[x] < index'[n]
          BY <2>1, <5>1, <5>2 DEF Between
        <5> QED BY <1>1, <1>2, <5>3
      <4> QED BY <1>3, <2>3, <4>1, <4>2
    <3>2. Between(k, x)
      <4>1. index'[x] = index[x]
        BY <1>5, <3>1
      <4>2. index[Node(k)] <= index[x]
        BY <1>5, <2>1, <2>3, <4>1 DEF Between
      <4>3. ASSUME NEW t, t = k + 1, t \in DOMAIN walks
            PROVE  index[x] < index[Node(t)]
        <5>1. t \in DOMAIN walks' /\ index'[Node(t)'] = index[Node(t)]
          BY <1>5, <4>3
        <5>2. index'[x] < index'[Node(t)']
          BY <2>1, <4>3, <5>1 DEF Between
        <5> QED BY <4>1, <5>1, <5>2
      <4> QED BY <4>2, <4>3 DEF Between
    <3>3. CASE y = n
      <4>1. low[Node(k)] <= index[Node(k)] /\ Node(k) \in Met
        BY <1>5, <2>3 DEF SccsInv, LowReal
      <4>2. low[Node(k)] \in Nat /\ index[Node(k)] \in Nat /\ index[Node(k)] < Cardinality(Met)
        BY <1>5, <4>1
      <4>3. low[Node(k)] <= Cardinality(Met)
        BY <1>1, <4>1, <4>2
      <4> QED BY <1>1, <1>5, <2>3, <3>3, <4>3
    <3>4. CASE y \in OnStack
      <4>1. x = Node(k) => y \notin Left(k)
        BY <1>3, <1>5, <2>1, <2>3, <3>4
      <4>2. low[Node(k)] <= index[y]
        BY <1>2, <2>1, <2>3, <3>1, <3>2, <3>4, <4>1 DEF SccsInv, LowSeen
      <4> QED BY <1>1, <1>3, <1>5, <2>3, <3>4, <4>2
    <3> QED BY <1>2, <3>3, <3>4
  <2> QED BY <1>3, <2>2, <2>3
<1>14. Whole' /\ Apart'
  BY <1>2, <1>4 DEF SccsInv, Whole, Apart
<1> QED BY <1>6, <1>7, <1>8, <1>9, <1>10, <1>11, <1>12, <1>13, <1>14 DEF SccsInv

-----------------------------------------------------------------------------
(* The walk in hand. *)

\* It is the last of the walks, and the others are below it.
LEMMA TopWalk ==
  ASSUME SccsInv, walks # <<>>
  PROVE  /\ Len(walks) \in Nat \ {0} /\ DOMAIN walks = 1 .. Len(walks)
         /\ Walk = walks[Len(walks)]
         /\ Walk.node \in OnStack /\ Walk.node \in Met
         /\ Walk.left \subseteq DOMAIN adj
         /\ Rest \in Seq([node : Met, left : SUBSET DOMAIN adj])
         /\ Len(Rest) = Len(walks) - 1
         /\ DOMAIN Rest = 1 .. Len(walks) - 1
         /\ \A k \in 1 .. Len(walks) - 1 : Rest[k] = walks[k]
<1> DEFINE W == [node : Met, left : SUBSET DOMAIN adj]
<1>1. walks \in Seq(W) /\ Walked \subseteq OnStack
  BY DEF SccsInv, Shapes, Placed
<1> HIDE DEF W
<1>2. Len(walks) \in Nat \ {0} /\ DOMAIN walks = 1 .. Len(walks)
  BY <1>1
<1>3. Walk = walks[Len(walks)] /\ Walk \in W
  BY <1>1, <1>2 DEF Walk
<1>4. /\ Rest \in Seq(W) /\ Len(Rest) = Len(walks) - 1
      /\ DOMAIN Rest = 1 .. Len(walks) - 1
      /\ \A k \in 1 .. Len(walks) - 1 : Rest[k] = walks[k]
  BY <1>1, <1>2 DEF Rest
<1>5. Walk.node \in OnStack
  BY <1>1, <1>2, <1>3 DEF Walked, Node
<1>6. Walk.node \in Met /\ Walk.left \subseteq DOMAIN adj
  BY <1>3 DEF W
<1> QED BY <1>2, <1>3, <1>4, <1>5, <1>6 DEF W

\* Its least callee is one of the callees it has left.
LEMMA CalleeIn ==
  ASSUME SccsInv, walks # <<>>, Walk.left # {}
  PROVE  /\ Callee \in Walk.left /\ Callee \in DOMAIN adj
         /\ Callee \in adj[Walk.node] /\ Callee \in Reach(Walk.node)
<1>1. Walk.left \in SUBSET Nat
  BY TopWalk DEF SccsInv, GraphOk
<1>2. Callee \in Walk.left
  BY <1>1, LeastIn DEF Callee
<1>3. Walk.left \subseteq adj[Walk.node]
  BY TopWalk DEF SccsInv, Looked, Left, Node
<1>4. Walk.node \in Reach(Walk.node)
  BY TopWalk, ReachSelf DEF SccsInv, Shapes
<1>5. Callee \in Reach(Walk.node)
  BY <1>2, <1>3, <1>4, ReachClosed DEF SccsInv
<1> QED BY <1>2, <1>3, <1>5, TopWalk

\* Onward only takes it from there.
LEMMA OnwardIs ==
  ASSUME SccsInv, walks # <<>>, Walk.left # {}
  PROVE  /\ Onward \in Seq([node : Met, left : SUBSET DOMAIN adj])
         /\ Len(Onward) = Len(walks) /\ DOMAIN Onward = DOMAIN walks
         /\ \A k \in DOMAIN walks : Onward[k].node = Node(k)
         /\ \A k \in DOMAIN walks :
              Onward[k].left = IF k = Len(walks) THEN Left(k) \ {Callee} ELSE Left(k)
<1> DEFINE W == [node : Met, left : SUBSET DOMAIN adj]
           new == [Walk EXCEPT !.left = @ \ {Callee}]
<1>0. Walk \in W
  <2>1. walks \in Seq(W)
    BY DEF SccsInv, Shapes
  <2> HIDE DEF W
  <2> QED BY <2>1, TopWalk
<1>1. new \in W /\ new.node = Walk.node /\ new.left = Walk.left \ {Callee}
  BY <1>0
<1>2. /\ Rest \in Seq(W) /\ Len(Rest) = Len(walks) - 1
      /\ \A k \in 1 .. Len(walks) - 1 : Rest[k] = walks[k]
      /\ Len(walks) \in Nat \ {0} /\ DOMAIN walks = 1 .. Len(walks)
      /\ Walk = walks[Len(walks)]
  BY TopWalk
<1>3. Onward = Append(Rest, new)
  BY DEF Onward
<1> HIDE DEF W, new
<1>4. /\ Onward \in Seq(W) /\ Len(Onward) = Len(walks) /\ DOMAIN Onward = DOMAIN walks
      /\ Onward[Len(walks)] = new
      /\ \A k \in 1 .. Len(walks) - 1 : Onward[k] = walks[k]
  BY <1>1, <1>2, <1>3
<1>5. \A k \in DOMAIN walks :
        /\ Onward[k].node = Node(k)
        /\ Onward[k].left = IF k = Len(walks) THEN Left(k) \ {Callee} ELSE Left(k)
  <2> TAKE k \in DOMAIN walks
  <2>1. CASE k = Len(walks)
    BY <1>1, <1>2, <1>4, <2>1 DEF Node, Left
  <2>2. CASE k \in 1 .. Len(walks) - 1
    BY <1>2, <1>4, <2>2 DEF Node, Left
  <2> QED BY <1>2, <2>1, <2>2
<1> QED BY <1>4, <1>5 DEF W

\* The next callee is met.
LEMMA DescendInv ==
  ASSUME SccsInv, Descend
  PROVE  SccsInv'
<1> USE DEF Descend
<1>1. /\ Callee \in Walk.left /\ Callee \in DOMAIN adj \ Met
      /\ Callee \in Reach(Walk.node)
  BY CalleeIn
<1>2. Ready(Callee, Onward)
  <2>1. \A k \in DOMAIN walks : Walk.node \in Reach(Node(k))
    <3> TAKE k \in DOMAIN walks
    <3>1. index[Node(k)] <= index[Walk.node]
      <4>1. CASE k = Len(walks)
        BY <4>1, TopWalk DEF Node, SccsInv, Shapes
      <4>2. CASE k < Len(walks)
        <5>1. index[Node(k)] < index[Node(Len(walks))]
          BY <4>2, TopWalk DEF SccsInv, Numbered
        <5>2. Node(k) \in Met /\ Walk.node \in Met /\ Walk.node = Node(Len(walks))
          BY TopWalk DEF SccsInv, Placed, Walked, Node
        <5>3. index[Walk.node] \in Nat /\ index[Node(k)] \in Nat
          BY <5>2 DEF SccsInv, Shapes
        <5> QED BY <5>1, <5>2, <5>3
      <4> QED BY <4>1, <4>2, TopWalk
    <3> QED BY <3>1, TopWalk DEF SccsInv, Reaching
  <2>2. \A k \in DOMAIN walks : Callee \in Reach(Node(k))
    BY <1>1, <2>1, ReachTrans DEF SccsInv
  <2> QED BY <2>2, OnwardIs DEF Ready
<1>3. Meet(Callee, Onward) /\ roots' = roots
  OBVIOUS
<1>4. \A m \in DOMAIN adj : m \in Met' \/ \E j \in DOMAIN roots' : roots'[j] = m
  BY <1>1, <1>3, MeetNumbers DEF SccsInv, Placed
<1>5. roots' \in Seq(DOMAIN adj)
  BY <1>3 DEF SccsInv, Shapes
<1> HIDE DEF Descend
<1> QED BY <1>1, <1>2, <1>3, <1>4, <1>5, MeetInv

\* A root is met, unless it has been.
LEMMA RootInv ==
  ASSUME SccsInv, Root
  PROVE  SccsInv'
<1> USE DEF Root
<1>1. /\ Head(roots) \in DOMAIN adj /\ Tail(roots) \in Seq(DOMAIN adj)
      /\ \A j \in DOMAIN roots :
           roots[j] = Head(roots) \/ \E i \in DOMAIN Tail(roots) : Tail(roots)[i] = roots[j]
  <2> DEFINE D == DOMAIN adj
  <2>1. roots \in Seq(D) /\ roots # <<>>
    BY DEF SccsInv, Shapes
  <2> HIDE DEF D
  <2>2. Head(roots) \in D /\ Tail(roots) \in Seq(D) /\ Head(roots) = roots[1]
        /\ Len(roots) \in Nat /\ DOMAIN roots = 1 .. Len(roots)
        /\ DOMAIN Tail(roots) = 1 .. Len(roots) - 1
        /\ \A i \in 1 .. Len(roots) - 1 : Tail(roots)[i] = roots[i + 1]
    BY <2>1
  <2>3. ASSUME NEW j \in DOMAIN roots
        PROVE  roots[j] = Head(roots) \/ \E i \in DOMAIN Tail(roots) : Tail(roots)[i] = roots[j]
    <3>1. CASE j = 1
      BY <2>2, <3>1
    <3>2. CASE j # 1
      <4>1. j - 1 \in 1 .. Len(roots) - 1 /\ (j - 1) + 1 = j
        BY <2>2, <2>3, <3>2
      <4> QED BY <2>2, <4>1
    <3> QED BY <3>1, <3>2
  <2> QED BY <2>2, <2>3 DEF D
<1>2. CASE Head(roots) \in Met
  <2>1. /\ adj' = adj /\ index' = index /\ low' = low /\ stack' = stack
        /\ walks' = walks /\ out' = out /\ roots' = Tail(roots)
    BY <1>2
  <2>2. /\ GraphOk' /\ Numbered' /\ Looked' /\ LowReal' /\ LowSeen' /\ Reaching'
        /\ Whole' /\ Apart'
    BY <2>1, SameReach
       DEF SccsInv, GraphOk, Numbered, Looked, LowReal, LowSeen, Reaching, Whole,
           Apart, Met, OnStack, Node, Left, Walked, Between
  <2>3. Shapes'
    BY <1>1, <2>1 DEF SccsInv, Shapes, Met
  <2>4. Met' = Met /\ OnStack' = OnStack /\ Emitted' = Emitted /\ Walked' = Walked
    BY <2>1 DEF Met, OnStack, Emitted, Walked, Node
  <2>5. Placed'
    BY <1>1, <1>2, <2>1, <2>4 DEF SccsInv, Placed
  <2> QED BY <2>2, <2>3, <2>5 DEF SccsInv
<1>3. CASE Head(roots) \notin Met
  <2>1. Meet(Head(roots), walks) /\ roots' = Tail(roots) /\ walks = <<>>
    BY <1>3
  <2>2. Ready(Head(roots), walks)
    BY <2>1 DEF Ready, SccsInv, Shapes
  <2>3. Met' = Met \cup {Head(roots)}
    BY <1>1, <1>3, <2>1, MeetNumbers
  <2>4. \A m \in DOMAIN adj : m \in Met' \/ \E j \in DOMAIN roots' : roots'[j] = m
    BY <1>1, <2>1, <2>3 DEF SccsInv, Placed
  <2> HIDE DEF Root
  <2> QED BY <1>1, <1>3, <2>1, <2>2, <2>4, MeetInv
<1> QED BY <1>2, <1>3

\* A callee that has been met is looked at.
LEMMA RevisitInv ==
  ASSUME SccsInv, Revisit
  PROVE  SccsInv'
<1> DEFINE top == Len(walks)
<1>1. /\ adj' = adj /\ index' = index /\ stack' = stack /\ walks' = Onward
      /\ out' = out /\ roots' = roots /\ Callee \in Met
      /\ low' = IF Callee \in OnStack
                THEN [low EXCEPT ![Walk.node] = Lower(@, index[Callee])] ELSE low
  BY DEF Revisit
<1>2. /\ Callee \in Walk.left /\ Callee \in Reach(Walk.node)
      /\ top \in DOMAIN walks /\ Walk.node = Node(top)
      /\ Walk.node \in OnStack /\ Walk.node \in Met
  BY CalleeIn, TopWalk DEF Revisit, Node
<1>3. /\ walks' \in Seq([node : Met, left : SUBSET DOMAIN adj])
      /\ DOMAIN walks' = DOMAIN walks
      /\ \A k \in DOMAIN walks : Node(k)' = Node(k)
      /\ \A k \in DOMAIN walks :
           Left(k)' = IF k = top THEN Left(k) \ {Callee} ELSE Left(k)
  BY <1>1, OnwardIs DEF Revisit, Node, Left
<1>4. Met' = Met /\ OnStack' = OnStack /\ Emitted' = Emitted /\ Walked' = Walked
  <2>1. Walked' = {(Node(k))' : k \in DOMAIN walks}
    BY <1>3 DEF Walked
  <2> QED BY <1>1, <1>3, <2>1 DEF Met, OnStack, Emitted, Walked
<1>5. /\ \A x \in Met : index[x] \in Nat /\ low[x] \in Nat
      /\ OnStack \subseteq Met
      /\ \A k \in DOMAIN walks : Node(k) \in Met
  BY DEF SccsInv, Placed, Walked, Shapes
<1>6. /\ low' \in [Met -> Nat]
      /\ \A x \in Met : low'[x] <= low[x] /\ (x # Walk.node => low'[x] = low[x])
      /\ Callee \in OnStack => /\ low'[Walk.node] <= index[Callee]
                               /\ low'[Walk.node] \in {low[Walk.node], index[Callee]}
      /\ Callee \notin OnStack => low'[Walk.node] = low[Walk.node]
  BY <1>1, <1>2, <1>5 DEF Lower, SccsInv, Shapes
<1>7. \A n : Reach(n)' = Reach(n)
  BY <1>1, SameReach
<1>8. GraphOk' /\ Whole' /\ Apart'
  BY <1>1, <1>7 DEF SccsInv, GraphOk, Whole, Apart
<1>9. Shapes'
  BY <1>1, <1>3, <1>4, <1>6 DEF SccsInv, Shapes
<1>10. Numbered'
  <2>1. \A i, j \in DOMAIN walks' : i < j => index[Node(i)'] < index[Node(j)']
    BY <1>3 DEF SccsInv, Numbered
  <2> QED BY <1>1, <1>4, <2>1 DEF SccsInv, Numbered
<1>11. Placed'
  BY <1>1, <1>4 DEF SccsInv, Placed
<1>12. Looked'
  <2>1. \A k \in DOMAIN walks' : /\ Left(k)' \subseteq adj[Node(k)']
                                 /\ adj[Node(k)'] \ Left(k)' \subseteq Met
    BY <1>1, <1>3 DEF SccsInv, Looked
  <2> QED BY <1>1, <1>4, <2>1 DEF SccsInv, Looked
<1>13. Reaching'
  <2>1. \A k \in DOMAIN walks' : \A x \in OnStack :
          index[Node(k)'] <= index[x] => x \in Reach(Node(k)')
    BY <1>3 DEF SccsInv, Reaching
  <2>2. \A x \in OnStack : \E k \in DOMAIN walks' :
          Node(k)' \in Reach(x) /\ index[Node(k)'] <= index[x]
    BY <1>3 DEF SccsInv, Reaching
  <2> QED BY <1>1, <1>4, <1>7, <2>1, <2>2 DEF Reaching
<1>14. LowReal'
  <2>1. ASSUME NEW k \in DOMAIN walks
        PROVE  /\ low'[Node(k)] <= index[Node(k)]
               /\ \E y \in OnStack : y \in Reach(Node(k)) /\ index[y] = low'[Node(k)]
    <3>1. low[Node(k)] <= index[Node(k)] /\ Node(k) \in Met
      BY <1>5 DEF SccsInv, LowReal
    <3>2. low'[Node(k)] <= index[Node(k)]
      BY <1>5, <1>6, <3>1
    <3>3. CASE low'[Node(k)] = low[Node(k)]
      BY <3>2, <3>3 DEF SccsInv, LowReal
    <3>4. CASE low'[Node(k)] # low[Node(k)]
      <4>1. Node(k) = Walk.node /\ Callee \in OnStack /\ low'[Node(k)] = index[Callee]
        BY <1>6, <3>1, <3>4
      <4> QED BY <1>2, <3>2, <4>1
    <3> QED BY <3>3, <3>4
  <2> QED BY <1>1, <1>3, <1>4, <1>7, <2>1 DEF LowReal
<1>15. LowSeen'
  <2>1. SUFFICES ASSUME NEW k \in DOMAIN walks, NEW x \in OnStack, NEW y \in OnStack,
                        Between(k, x)', y \in adj[x], x = Node(k)' => y \notin Left(k)'
                 PROVE  low'[Node(k)] <= index[y]
    BY <1>1, <1>3, <1>4 DEF LowSeen
  <2>2. Between(k, x)
    BY <1>1, <1>3, <2>1 DEF Between
  <2>3. CASE x = Node(k) => y \notin Left(k)
    <3>1. low[Node(k)] <= index[y]
      BY <2>1, <2>2, <2>3 DEF SccsInv, LowSeen
    <3> QED BY <1>5, <1>6, <3>1
  <2>4. CASE x = Node(k) /\ y \in Left(k)
    BY <1>2, <1>3, <1>6, <2>1, <2>4
  <2> QED BY <2>3, <2>4
<1> QED BY <1>8, <1>9, <1>10, <1>11, <1>12, <1>13, <1>14, <1>15 DEF SccsInv

-----------------------------------------------------------------------------
(* A walk is finished. *)

\* The methods from its own to the top of the stack.
Popped == {x \in OnStack : index[Walk.node] <= index[x]}

\* Components depend on components.
LEMMA EmittedClosed ==
  ASSUME SccsInv
  PROVE  Emitted \subseteq DOMAIN adj /\ \A n \in Emitted : adj[n] \subseteq Emitted
<1>1. Emitted \subseteq DOMAIN adj
  BY DEF SccsInv, Placed, Shapes
<1>2. ASSUME NEW n \in Emitted
      PROVE  adj[n] \subseteq Emitted
  <2>1. PICK c \in DOMAIN out : n \in out[c]
    BY DEF Emitted
  <2>2. adj[n] \subseteq UNION {out[d] : d \in 1 .. c}
    BY <2>1 DEF SccsInv, Whole
  <2>3. 1 .. c \subseteq DOMAIN out
    BY DEF SccsInv, Shapes
  <2> QED BY <2>2, <2>3 DEF Emitted
<1> QED BY <1>1, <1>2

\* With the low link of the walk's own method, they depend on nothing below.
LEMMA PoppedClosed ==
  ASSUME SccsInv, walks # <<>>, Walk.left = {}, low[Walk.node] = index[Walk.node]
  PROVE  \A x \in Popped : adj[x] \subseteq Popped \cup Emitted
<1> SUFFICES ASSUME NEW x \in Popped, NEW y \in adj[x]
             PROVE  y \in Popped \cup Emitted
  OBVIOUS
<1>1. /\ Len(walks) \in Nat \ {0} /\ DOMAIN walks = 1 .. Len(walks)
      /\ Walk.node = Node(Len(walks)) /\ Walk.left = Left(Len(walks))
  BY TopWalk DEF Node, Left
<1>2. x \in OnStack /\ x \in Met /\ index[Walk.node] <= index[x]
      /\ \A z \in Met : index[z] \in Nat
  BY DEF Popped, SccsInv, Placed, Shapes
<1>3. y \in Met
  <2>1. CASE x \notin Walked
    BY <1>2, <2>1 DEF SccsInv, Looked
  <2>2. CASE x \in Walked
    <3>1. PICK k \in DOMAIN walks : x = Node(k)
      BY <2>2 DEF Walked
    <3>2. k = Len(walks)
      <4>1. CASE k < Len(walks)
        <5>1. index[Node(k)] < index[Node(Len(walks))]
          BY <1>1, <4>1 DEF SccsInv, Numbered
        <5>2. Walk.node \in Met
          BY TopWalk
        <5> QED BY <1>1, <1>2, <3>1, <5>1, <5>2
      <4> QED BY <1>1, <4>1
    <3> QED BY <1>1, <3>1, <3>2 DEF SccsInv, Looked
  <2> QED BY <2>1, <2>2
<1>4. CASE y \in OnStack
  <2>1. Between(Len(walks), x)
    BY <1>1, <1>2 DEF Between
  <2>2. low[Walk.node] <= index[y]
    BY <1>1, <1>2, <1>4, <2>1 DEF SccsInv, LowSeen
  <2> QED BY <1>4, <2>2 DEF Popped
<1> QED BY <1>3, <1>4 DEF SccsInv, Placed

\* They are a whole component.
LEMMA PoppedWhole ==
  ASSUME SccsInv, walks # <<>>, Walk.left = {}, low[Walk.node] = index[Walk.node]
  PROVE  \A n \in Popped : Popped = {m \in Reach(n) : n \in Reach(m)}
<1> DEFINE w == Walk.node
<1>1. /\ Len(walks) \in Nat \ {0} /\ DOMAIN walks = 1 .. Len(walks)
      /\ w = Node(Len(walks)) /\ w \in Met /\ w \in OnStack
  BY TopWalk DEF Node
<1>2. /\ OnStack \subseteq Met /\ Met \subseteq DOMAIN adj
      /\ \A z \in Met : index[z] \in Nat
  BY DEF SccsInv, Placed, Shapes
<1>3. \A n \in Popped \cup Emitted : Reach(n) \subseteq Popped \cup Emitted
  <2>1. Popped \cup Emitted \in SUBSET DOMAIN adj
    BY <1>2, EmittedClosed DEF Popped
  <2>2. \A x \in Popped \cup Emitted : adj[x] \subseteq Popped \cup Emitted
    BY PoppedClosed, EmittedClosed
  <2> QED BY <2>1, <2>2, ReachInside
<1>4. \A n \in Emitted : Reach(n) \subseteq Emitted
  BY EmittedClosed, ReachInside
<1>5. \A n \in Popped : n \in Reach(w)
  BY <1>1 DEF Popped, SccsInv, Reaching
<1>6. \A n \in Popped : w \in Reach(n)
  <2> TAKE n \in Popped
  <2>1. n \in OnStack
    BY DEF Popped
  <2>2. PICK k \in DOMAIN walks : Node(k) \in Reach(n) /\ index[Node(k)] <= index[n]
    BY <2>1 DEF SccsInv, Reaching
  <2>3. Node(k) \in OnStack /\ Node(k) \in Met
    BY <1>2 DEF SccsInv, Placed, Walked
  <2>4. Node(k) \in Popped
    BY <1>3, <2>2, <2>3 DEF SccsInv, Placed
  <2>5. CASE k < Len(walks)
    <3>1. index[Node(k)] < index[w]
      BY <1>1, <2>5 DEF SccsInv, Numbered
    <3> QED BY <1>1, <1>2, <2>3, <2>4, <3>1 DEF Popped
  <2> QED BY <1>1, <2>2, <2>5
<1>7. ASSUME NEW n \in Popped, NEW m \in Popped
      PROVE  m \in Reach(n)
  BY <1>5, <1>6, ReachTrans DEF SccsInv
<1>8. ASSUME NEW n \in Popped, NEW m \in Reach(n), n \in Reach(m)
      PROVE  m \in Popped
  <2>1. n \notin Emitted
    BY DEF Popped, SccsInv, Placed
  <2> QED BY <1>3, <1>4, <1>8, <2>1
<1> QED BY <1>7, <1>8

\* They are what is taken from the stack.
LEMMA EmitIs ==
  ASSUME SccsInv, walks # <<>>, Emit(Walk.node)
  PROVE  /\ out' = Append(out, Popped)
         /\ stack' \in Seq(Met) /\ OnStack' = OnStack \ Popped
         /\ \A i, j \in DOMAIN stack' : i < j => index[stack'[i]] < index[stack'[j]]
<1> DEFINE w == Walk.node
           p == Position(w)
<1>1. /\ stack \in Seq(Met) /\ w \in OnStack
      /\ \A z \in Met : index[z] \in Nat
  BY TopWalk DEF SccsInv, Shapes
<1>2. /\ Len(stack) \in Nat /\ DOMAIN stack = 1 .. Len(stack)
      /\ \A j \in DOMAIN stack : stack[j] \in Met /\ index[stack[j]] \in Nat
  <2> HIDE DEF Met
  <2> QED BY <1>1
<1>3. p \in DOMAIN stack /\ stack[p] = w
  BY <1>1 DEF OnStack, Position
<1>4. \A i, j \in DOMAIN stack : i < j => index[stack[i]] < index[stack[j]]
  BY DEF SccsInv, Numbered
<1>5. \A j \in DOMAIN stack : index[w] <= index[stack[j]] <=> p <= j
  <2> TAKE j \in DOMAIN stack
  <2>1. j \in Nat /\ p \in Nat /\ index[w] \in Nat /\ index[stack[j]] \in Nat
    BY <1>2, <1>3
  <2>2. j < p => index[stack[j]] < index[w]
    BY <1>3, <1>4
  <2>3. p < j => index[w] < index[stack[j]]
    BY <1>3, <1>4
  <2>4. j = p => index[w] = index[stack[j]]
    BY <1>3
  <2> HIDE DEF p, w
  <2> QED BY <2>1, <2>2, <2>3, <2>4
<1>6. Popped = {stack[j] : j \in p .. Len(stack)}
  <2>1. p .. Len(stack) \subseteq DOMAIN stack
    BY <1>2, <1>3
  <2>2. \A j \in DOMAIN stack : j \in p .. Len(stack) <=> index[w] <= index[stack[j]]
    BY <1>2, <1>3, <1>5
  <2> QED BY <2>1, <2>2 DEF Popped, OnStack
<1>7. /\ stack' \in Seq(Met) /\ DOMAIN stack' = 1 .. p - 1
      /\ \A j \in 1 .. p - 1 : stack'[j] = stack[j] /\ j \in DOMAIN stack
  <2>1. stack' = SubSeq(stack, 1, p - 1) /\ p \in 1 .. Len(stack)
    BY <1>2, <1>3 DEF Emit
  <2> HIDE DEF p, Met
  <2> QED BY <1>1, <1>2, <2>1
<1>8. OnStack' = OnStack \ Popped
  <2>1. OnStack' = {stack[j] : j \in 1 .. p - 1}
    BY <1>7 DEF OnStack
  <2>2. \A j \in DOMAIN stack : j \in 1 .. p - 1 <=> ~ (index[w] <= index[stack[j]])
    BY <1>2, <1>3, <1>5
  <2>3. 1 .. p - 1 \subseteq DOMAIN stack
    BY <1>7
  <2> QED BY <2>1, <2>2, <2>3 DEF OnStack, Popped
<1>9. out' = Append(out, Popped)
  BY <1>6 DEF Emit
<1>10. \A i, j \in DOMAIN stack' : i < j => index[stack'[i]] < index[stack'[j]]
  BY <1>4, <1>7
<1> QED BY <1>7, <1>8, <1>9, <1>10

\* The walk below goes on, with what the finished one has reached.
LEMMA FinishWalks ==
  ASSUME SccsInv, Finish
  PROVE  /\ adj' = adj /\ index' = index /\ roots' = roots
         /\ walks' \in Seq([node : Met, left : SUBSET DOMAIN adj])
         /\ Len(walks) \in Nat \ {0} /\ DOMAIN walks = 1 .. Len(walks)
         /\ DOMAIN walks' = 1 .. Len(walks) - 1
         /\ \A k \in 1 .. Len(walks) - 1 : Node(k)' = Node(k) /\ Left(k)' = Left(k)
         /\ \A k \in 1 .. Len(walks) - 1 : index[Node(k)] < index[Walk.node]
         /\ Walked' = Walked \ {Walk.node}
         /\ low' \in [Met -> Nat]
         /\ \A k \in 1 .. Len(walks) - 1 :
              IF k = Len(walks) - 1
              THEN low'[Node(k)] = Lower(low[Node(k)], low[Walk.node])
              ELSE low'[Node(k)] = low[Node(k)]
<1> DEFINE r == Len(walks) - 1
<1>1. /\ adj' = adj /\ index' = index /\ roots' = roots /\ walks' = Rest
      /\ walks # <<>>
      /\ low' = IF Rest = <<>> THEN low
                ELSE [low EXCEPT ![Rest[Len(Rest)].node] = Lower(@, low[Walk.node])]
  BY DEF Finish
<1>2. /\ Len(walks) \in Nat \ {0} /\ DOMAIN walks = 1 .. Len(walks)
      /\ Walk = walks[Len(walks)] /\ Walk.node \in Met
      /\ Rest \in Seq([node : Met, left : SUBSET DOMAIN adj])
      /\ Len(Rest) = r /\ DOMAIN Rest = 1 .. r
      /\ \A k \in 1 .. r : Rest[k] = walks[k]
  BY <1>1, TopWalk
<1>3. \A k \in 1 .. r : Node(k)' = Node(k) /\ Left(k)' = Left(k)
  BY <1>1, <1>2 DEF Node, Left
<1>4. \A k \in DOMAIN walks : Node(k) \in Met
  BY DEF SccsInv, Placed, Walked
<1>5. \A i, j \in DOMAIN walks : i < j => index[Node(i)] < index[Node(j)]
  BY DEF SccsInv, Numbered
<1>6. \A k \in 1 .. r : index[Node(k)] < index[Walk.node]
  BY <1>2, <1>5 DEF Node
<1>7. \A x \in Met : index[x] \in Nat /\ low[x] \in Nat
  BY DEF SccsInv, Shapes
<1>8. Walked' = Walked \ {Walk.node}
  <2>1. Walked' = {Node(k) : k \in 1 .. r}
    <3>1. Walked' = {(Node(k))' : k \in 1 .. r}
      BY <1>1, <1>2 DEF Walked
    <3> QED BY <1>3, <3>1
  <2>2. \A k \in 1 .. r : Node(k) # Walk.node
    BY <1>2, <1>4, <1>6, <1>7
  <2>3. \A k \in DOMAIN walks : k \in 1 .. r \/ Node(k) = Walk.node
    BY <1>2 DEF Node
  <2>4. 1 .. r \subseteq DOMAIN walks
    BY <1>2
  <2> QED BY <2>1, <2>2, <2>3, <2>4 DEF Walked
<1>9. /\ low' \in [Met -> Nat]
      /\ \A k \in 1 .. r :
           IF k = r THEN low'[Node(k)] = Lower(low[Node(k)], low[Walk.node])
           ELSE low'[Node(k)] = low[Node(k)]
  <2>0. low \in [Met -> Nat]
    BY DEF SccsInv, Shapes
  <2>1. CASE r = 0
    <3>1. Rest = <<>>
      <4> DEFINE W == [node : Met, left : SUBSET DOMAIN adj]
      <4>1. Rest \in Seq(W) /\ Len(Rest) = 0
        BY <1>2, <2>1
      <4> HIDE DEF W
      <4> QED BY <4>1
    <3>2. 1 .. r = {}
      BY <2>1, Len(walks) \in Nat, <1>2
    <3> QED BY <1>1, <2>0, <3>1, <3>2
  <2>2. CASE r # 0
    <3>1. r \in DOMAIN Rest /\ r \in 1 .. r /\ Rest # <<>>
      BY <1>2, <2>2
    <3>2. low' = [low EXCEPT ![Node(r)] = Lower(@, low[Walk.node])]
      BY <1>1, <1>2, <3>1 DEF Node
    <3>3. Node(r) \in Met /\ r \in DOMAIN walks
      BY <1>2, <1>4, <3>1
    <3>4. \A k \in 1 .. r : k # r => Node(k) # Node(r)
      <4> TAKE k \in 1 .. r
      <4> HAVE k # r
      <4>1. PICK t : t = Len(walks)
        OBVIOUS
      <4>2. t \in Nat \ {0} /\ DOMAIN walks = 1 .. t
        BY <1>2, <4>1
      <4>3. r = t - 1
        BY <4>1
      <4>4. t \in Int /\ r = t - 1 /\ DOMAIN walks = 1 .. t
        BY <4>2, <4>3
      <4>5. k \in 1 .. t - 1 /\ k # t - 1
        BY <4>4
      <4>6. k < r /\ k \in DOMAIN walks
        BY <4>4, <4>5
      <4>7. index[Node(k)] < index[Node(r)]
        BY <1>5, <3>3, <4>6
      <4>8. index[Node(k)] \in Nat
        BY <1>4, <1>7, <4>6
      <4> QED BY <4>7, <4>8
    <3>5. Lower(low[Node(r)], low[Walk.node]) \in Nat
      BY <1>2, <1>7, <3>3 DEF Lower
    <3>6. low' \in [Met -> Nat]
      BY <2>0, <3>2, <3>5
    <3>7. \A k \in 1 .. r : Node(k) \in Met
      BY <1>2, <1>4
    <3> QED BY <2>0, <3>2, <3>4, <3>6, <3>7
  <2> QED BY <2>1, <2>2
<1> QED BY <1>1, <1>2, <1>3, <1>6, <1>8, <1>9

\* What either kind of finish keeps.
LEMMA FinishKeeps ==
  ASSUME SccsInv, Finish,
         stack' \in Seq(Met), out' \in Seq(SUBSET Met),
         \A i, j \in DOMAIN stack' : i < j => index[stack'[i]] < index[stack'[j]],
         OnStack' \cup Emitted' = Met, OnStack' \cap Emitted' = {},
         Walked' \subseteq OnStack'
  PROVE  GraphOk' /\ Shapes' /\ Numbered' /\ Placed' /\ Looked'
<1>1. /\ adj' = adj /\ index' = index /\ roots' = roots
      /\ walks' \in Seq([node : Met, left : SUBSET DOMAIN adj])
      /\ Len(walks) \in Nat \ {0} /\ DOMAIN walks = 1 .. Len(walks)
      /\ DOMAIN walks' = 1 .. Len(walks) - 1
      /\ \A k \in 1 .. Len(walks) - 1 : Node(k)' = Node(k) /\ Left(k)' = Left(k)
      /\ Walked' = Walked \ {Walk.node}
      /\ low' \in [Met -> Nat]
  BY FinishWalks
<1>2. Met' = Met
  BY <1>1 DEF Met
<1>3. GraphOk' /\ Shapes'
  BY <1>1, <1>2 DEF SccsInv, GraphOk, Shapes
<1>4. Numbered'
  <2>1. \A k \in DOMAIN walks' : k \in DOMAIN walks /\ Node(k)' = Node(k)
    BY <1>1
  <2>2. \A i, j \in DOMAIN walks' : i < j => index[Node(i)'] < index[Node(j)']
    BY <2>1 DEF SccsInv, Numbered
  <2> QED BY <1>1, <1>2, <2>2 DEF SccsInv, Numbered
<1>5. Placed'
  BY <1>1, <1>2 DEF SccsInv, Placed
<1>6. Looked'
  <2>1. \A k \in DOMAIN walks' : /\ Left(k)' \subseteq adj[Node(k)']
                                 /\ adj[Node(k)'] \ Left(k)' \subseteq Met
    <3> TAKE k \in DOMAIN walks'
    <3>1. k \in DOMAIN walks /\ k \in 1 .. Len(walks) - 1
      BY <1>1
    <3> QED BY <1>1, <3>1 DEF SccsInv, Looked
  <2>2. adj[Walk.node] \subseteq Met
    <3>1. walks # <<>> /\ Walk.left = {}
      BY DEF Finish
    <3>2. Len(walks) \in Nat \ {0} /\ DOMAIN walks = 1 .. Len(walks)
      BY <1>1
    <3>3. Len(walks) \in DOMAIN walks
      BY ONLY <3>2
    <3>4. PICK k \in DOMAIN walks : k = Len(walks)
      BY <3>3
    <3>5. Node(k) = Walk.node /\ Left(k) = {}
      BY <3>1, <3>4, TopWalk DEF Node, Left
    <3>6. adj[Node(k)] \ Left(k) \subseteq Met
      BY DEF SccsInv, Looked
    <3> QED BY <3>5, <3>6
  <2>3. \A n \in Met \ Walked' : adj[n] \subseteq Met
    BY <1>1, <2>2 DEF SccsInv, Looked
  <2> QED BY <1>1, <1>2, <2>1, <2>3 DEF Looked
<1> QED BY <1>3, <1>4, <1>5, <1>6

\* A walk whose component goes on below it.
LEMMA PassInv ==
  ASSUME SccsInv, Finish, low[Walk.node] # index[Walk.node]
  PROVE  SccsInv'
<1>0. PICK top, w : top = Len(walks) /\ w = Walk.node
  OBVIOUS
<1>1. /\ adj' = adj /\ index' = index /\ top \in Nat /\ top >= 1
      /\ DOMAIN walks = 1 .. top
      /\ DOMAIN walks' = 1 .. top - 1
      /\ \A k \in 1 .. top - 1 : Node(k)' = Node(k) /\ Left(k)' = Left(k)
      /\ \A k \in 1 .. top - 1 : index[Node(k)] < index[w]
      /\ Walked' = Walked \ {w}
      /\ \A k \in 1 .. top - 1 :
           IF k = top - 1 THEN low'[Node(k)] = Lower(low[Node(k)], low[w])
           ELSE low'[Node(k)] = low[Node(k)]
  BY <1>0, FinishWalks
<1>2. /\ stack' = stack /\ out' = out /\ walks # <<>> /\ Walk.left = {}
  BY DEF Finish
<1>3. w = Node(top) /\ w \in OnStack /\ w \in Met /\ Left(top) = {} /\ top \in DOMAIN walks
  BY <1>0, <1>1, <1>2, TopWalk DEF Node, Left
<1>4. Met' = Met /\ OnStack' = OnStack /\ Emitted' = Emitted
  BY <1>1, <1>2 DEF Met, OnStack, Emitted
<1>5. /\ \A x \in Met : index[x] \in Nat /\ low[x] \in Nat
      /\ OnStack \subseteq Met
      /\ \A k \in DOMAIN walks : Node(k) \in Met
      /\ \A k \in 1 .. top - 1 : k \in DOMAIN walks
  BY <1>1 DEF SccsInv, Placed, Walked, Shapes
<1>6. \A m : Reach(m)' = Reach(m)
  BY <1>1, SameReach
<1>7. GraphOk' /\ Shapes' /\ Numbered' /\ Placed' /\ Looked'
  <2>1. /\ stack' \in Seq(Met) /\ out' \in Seq(SUBSET Met)
        /\ \A i, j \in DOMAIN stack' : i < j => index[stack'[i]] < index[stack'[j]]
        /\ OnStack' \cup Emitted' = Met /\ OnStack' \cap Emitted' = {}
        /\ Walked' \subseteq OnStack'
    BY <1>1, <1>2, <1>4 DEF SccsInv, Shapes, Numbered, Placed
  <2> QED BY <2>1, FinishKeeps
<1>8. low[w] < index[w] /\ \E y \in OnStack : y \in Reach(w) /\ index[y] = low[w]
  <2>1. low[w] <= index[w] /\ \E y \in OnStack : y \in Reach(w) /\ index[y] = low[w]
    BY <1>3 DEF SccsInv, LowReal
  <2> QED BY <1>0, <1>3, <1>5, <2>1
<1>9. Reaching'
  <2>1. \A k \in 1 .. top - 1 : \A x \in OnStack :
          index[Node(k)] <= index[x] => x \in Reach(Node(k))
    BY <1>5 DEF SccsInv, Reaching
  <2>2. \A x \in OnStack : \E k \in 1 .. top - 1 :
          Node(k) \in Reach(x) /\ index[Node(k)] <= index[x]
    <3> TAKE x \in OnStack
    <3>1. PICK k \in DOMAIN walks : Node(k) \in Reach(x) /\ index[Node(k)] <= index[x]
      BY DEF SccsInv, Reaching
    <3>2. CASE k \in 1 .. top - 1
      BY <3>1, <3>2
    <3>3. CASE k = top
      <4>1. PICK y \in OnStack : y \in Reach(w) /\ index[y] = low[w]
        BY <1>8
      <4>2. PICK j \in DOMAIN walks : Node(j) \in Reach(y) /\ index[Node(j)] <= index[y]
        BY DEF SccsInv, Reaching
      <4>3. index[Node(j)] < index[w]
        BY <1>3, <1>5, <1>8, <4>1, <4>2
      <4>4. j # top
        BY <1>3, <1>5, <4>3
      <4>5. j \in 1 .. top - 1
        BY <1>1, <4>4
      <4>6. Node(j) \in Reach(x)
        BY <1>3, <3>1, <3>3, <4>1, <4>2, ReachTrans DEF SccsInv
      <4>7. index[Node(j)] <= index[x]
        BY <1>3, <1>5, <3>1, <3>3, <4>3
      <4> QED BY <4>5, <4>6, <4>7
    <3> QED BY <1>1, <3>2, <3>3
  <2> QED BY <1>1, <1>4, <1>6, <2>1, <2>2 DEF Reaching
<1>10. \A k \in 1 .. top - 1 :
         /\ low'[Node(k)] <= low[Node(k)]
         /\ k = top - 1 => low'[Node(k)] <= low[w]
         /\ low'[Node(k)] = low[Node(k)] \/ (k = top - 1 /\ low'[Node(k)] = low[w])
  <2> TAKE k \in 1 .. top - 1
  <2>1. low[Node(k)] \in Nat /\ low[w] \in Nat
    BY <1>3, <1>5
  <2>2. CASE k = top - 1
    <3>1. low'[Node(k)] = Lower(low[Node(k)], low[w])
      BY <1>1, <2>2
    <3> QED BY <2>1, <2>2, <3>1 DEF Lower
  <2>3. CASE k # top - 1
    <3>1. low'[Node(k)] = low[Node(k)]
      BY <1>1, <2>3
    <3> QED BY <2>1, <2>3, <3>1
  <2> QED BY <2>2, <2>3
<1>11. LowReal'
  <2>1. ASSUME NEW k \in 1 .. top - 1
        PROVE  /\ low'[Node(k)] <= index[Node(k)]
               /\ \E y \in OnStack : y \in Reach(Node(k)) /\ index[y] = low'[Node(k)]
    <3>1. /\ k \in DOMAIN walks /\ low[Node(k)] <= index[Node(k)]
          /\ \E y \in OnStack : y \in Reach(Node(k)) /\ index[y] = low[Node(k)]
      BY <1>5 DEF SccsInv, LowReal
    <3>2. low[Node(k)] \in Nat /\ low[w] \in Nat /\ index[Node(k)] \in Nat /\ index[w] \in Nat
      BY <1>3, <1>5
    <3>3. CASE low'[Node(k)] = low[Node(k)]
      BY <3>1, <3>3
    <3>4. CASE low'[Node(k)] = low[w] /\ low'[Node(k)] <= low[Node(k)]
      <4>1. w \in Reach(Node(k))
        <5>1. index[Node(k)] <= index[w]
          BY <1>1, <3>2
        <5> QED BY <1>3, <3>1, <5>1 DEF SccsInv, Reaching
      <4>2. Reach(w) \subseteq Reach(Node(k))
        BY <4>1, ReachTrans DEF SccsInv
      <4> QED BY <1>8, <3>1, <3>2, <3>4, <4>2
    <3> QED BY <1>10, <3>3, <3>4
  <2> QED BY <1>1, <1>4, <1>6, <2>1 DEF LowReal
<1>12. LowSeen'
  <2>1. SUFFICES ASSUME NEW k \in 1 .. top - 1, NEW x \in OnStack, NEW y \in OnStack,
                        Between(k, x)', y \in adj[x], x = Node(k) => y \notin Left(k)
                 PROVE  low'[Node(k)] <= index[y]
    BY <1>1, <1>4 DEF LowSeen
  <2>2. index[y] \in Nat /\ low[Node(k)] \in Nat /\ low[w] \in Nat /\ k \in DOMAIN walks
        /\ index[x] \in Nat /\ index[w] \in Nat
    BY <1>3, <1>5
  <2>3. CASE Between(k, x)
    <3>1. low[Node(k)] <= index[y]
      BY <2>1, <2>2, <2>3 DEF SccsInv, LowSeen
    <3>2. low'[Node(k)] <= low[Node(k)] /\ low'[Node(k)] \in {low[Node(k)], low[w]}
      BY <1>10
    <3> QED BY <2>2, <3>1, <3>2
  <2>4. CASE ~ Between(k, x)
    <3>1. index[Node(k)] <= index[x]
      BY <1>1, <2>1 DEF Between
    <3>2. k + 1 \in DOMAIN walks /\ ~ (index[x] < index[Node(k + 1)])
      BY <2>4, <3>1 DEF Between
    <3>3. k = top - 1
      <4>1. CASE k + 1 \in 1 .. top - 1
        <5>1. PICK t : t = k + 1
          OBVIOUS
        <5>2. t \in DOMAIN walks' /\ index[x] < index[Node(t)'] /\ Node(t)' = Node(t)
          BY <1>1, <2>1, <4>1, <5>1 DEF Between
        <5> QED BY <3>2, <5>1, <5>2
      <4> QED BY <1>1, <3>2, <4>1
    <3>4. index[w] <= index[x]
      <4>1. k + 1 = top
        BY <1>1, <3>3
      <4> QED BY <1>3, <2>2, <3>2, <4>1
    <3>5. Between(top, x)
      BY <1>1, <1>3, <3>4 DEF Between
    <3>6. low[w] <= index[y]
      BY <1>3, <2>1, <3>5 DEF SccsInv, LowSeen
    <3>7. /\ low'[Node(k)] <= low[w]
          /\ low'[Node(k)] = low[w] \/ low'[Node(k)] = low[Node(k)]
      BY <1>10, <3>3
    <3> QED BY <2>2, <3>6, <3>7
  <2> QED BY <2>3, <2>4
<1>13. Whole' /\ Apart'
  BY <1>1, <1>2, <1>6 DEF SccsInv, Whole, Apart
<1> QED BY <1>7, <1>9, <1>11, <1>12, <1>13 DEF SccsInv

\* A walk that ends with its component.
LEMMA EmitInv ==
  ASSUME SccsInv, Finish, low[Walk.node] = index[Walk.node]
  PROVE  SccsInv'
<1>0. PICK top, w : top = Len(walks) /\ w = Walk.node
  OBVIOUS
<1>1. /\ adj' = adj /\ index' = index /\ top \in Nat /\ top >= 1
      /\ DOMAIN walks = 1 .. top
      /\ DOMAIN walks' = 1 .. top - 1
      /\ \A k \in 1 .. top - 1 : Node(k)' = Node(k) /\ Left(k)' = Left(k)
      /\ \A k \in 1 .. top - 1 : index[Node(k)] < index[w]
      /\ Walked' = Walked \ {w}
      /\ \A k \in 1 .. top - 1 :
           IF k = top - 1 THEN low'[Node(k)] = Lower(low[Node(k)], low[w])
           ELSE low'[Node(k)] = low[Node(k)]
  <2>1. adj' = adj /\ index' = index
    BY FinishWalks
  <2>2. Len(walks) \in Nat \ {0} /\ DOMAIN walks = 1 .. Len(walks)
        /\ DOMAIN walks' = 1 .. Len(walks) - 1
    BY FinishWalks
  <2>3. Len(walks) - 1 = top - 1
    BY <1>0
  <2>4. /\ top \in Nat /\ top >= 1 /\ DOMAIN walks = 1 .. top
        /\ DOMAIN walks' = 1 .. top - 1
    BY <1>0, <2>2
  <2>5. /\ \A k \in 1 .. top - 1 : Node(k)' = Node(k) /\ Left(k)' = Left(k)
        /\ \A k \in 1 .. top - 1 : index[Node(k)] < index[w]
    BY <1>0, <2>3, FinishWalks
  <2>6. Walked' = Walked \ {w}
    BY <1>0, FinishWalks
  <2>7. \A k \in 1 .. top - 1 :
          IF k = top - 1 THEN low'[Node(k)] = Lower(low[Node(k)], low[w])
          ELSE low'[Node(k)] = low[Node(k)]
    BY <1>0, <2>3, FinishWalks
  <2> QED BY <2>1, <2>4, <2>5, <2>6, <2>7
<1>2. walks # <<>> /\ Walk.left = {} /\ Emit(Walk.node)
  BY DEF Finish
<1>3. w = Node(top) /\ w \in OnStack /\ w \in Met /\ top \in DOMAIN walks
  BY <1>0, <1>1, <1>2, TopWalk DEF Node
<1>4. PICK C : C = Popped
  OBVIOUS
<1>5. /\ \A x \in Met : index[x] \in Nat /\ low[x] \in Nat
      /\ OnStack \subseteq Met
      /\ \A k \in DOMAIN walks : Node(k) \in Met /\ Node(k) \in OnStack
      /\ \A k \in 1 .. top - 1 : k \in DOMAIN walks
  BY <1>1 DEF SccsInv, Placed, Walked, Shapes
<1>6. \A m : Reach(m)' = Reach(m)
  BY <1>1, SameReach
<1>7. /\ C = {x \in OnStack : index[w] <= index[x]}
      /\ out' = Append(out, C) /\ stack' \in Seq(Met) /\ OnStack' = OnStack \ C
      /\ \A i, j \in DOMAIN stack' : i < j => index[stack'[i]] < index[stack'[j]]
  BY <1>0, <1>2, <1>4, EmitIs DEF Popped
<1>8. \A x \in OnStack' : x \in OnStack /\ index[x] < index[w]
  BY <1>3, <1>5, <1>7
<1>9. PICK u : u = Len(out)
  OBVIOUS
<1>10. /\ u \in Nat /\ DOMAIN out = 1 .. u /\ DOMAIN out' = 1 .. u + 1
       /\ out' \in Seq(SUBSET Met)
       /\ out'[u + 1] = C
       /\ \A c \in 1 .. u : out'[c] = out[c]
  <2> DEFINE S == SUBSET Met
  <2>1. out \in Seq(S) /\ C \in S
    BY <1>5, <1>7 DEF SccsInv, Shapes
  <2> HIDE DEF S
  <2>2. /\ u \in Nat /\ DOMAIN out = 1 .. u /\ DOMAIN out' = 1 .. u + 1
        /\ out' \in Seq(S) /\ out'[u + 1] = C
        /\ \A c \in 1 .. u : out'[c] = out[c]
    BY <1>7, <1>9, <2>1
  <2> QED BY <2>2 DEF S
<1>11. Emitted' = Emitted \cup C
  <2>1. Emitted' = UNION {out'[c] : c \in 1 .. u + 1}
    BY <1>10 DEF Emitted
  <2>2. {out'[c] : c \in 1 .. u + 1} = {out[c] : c \in 1 .. u} \cup {C}
    <3>1. \A c \in 1 .. u + 1 : c \in 1 .. u \/ c = u + 1
      BY <1>10
    <3>2. 1 .. u \subseteq 1 .. u + 1 /\ u + 1 \in 1 .. u + 1
      BY <1>10
    <3> QED BY <1>10, <3>1, <3>2
  <2> QED BY <1>10, <2>1, <2>2 DEF Emitted
<1>12. GraphOk' /\ Shapes' /\ Numbered' /\ Placed' /\ Looked'
  <2>1. OnStack' \cup Emitted' = Met /\ OnStack' \cap Emitted' = {}
    BY <1>7, <1>11 DEF SccsInv, Placed
  <2>2. Walked' \subseteq OnStack'
    <3>1. Walked' = {(Node(k))' : k \in 1 .. top - 1}
      BY <1>1 DEF Walked
    <3>2. ASSUME NEW k \in 1 .. top - 1
          PROVE  Node(k)' \in OnStack'
      <4>1. k \in DOMAIN walks /\ Node(k)' = Node(k) /\ index[Node(k)] < index[w]
        BY <1>1, <1>5
      <4>2. Node(k) \in OnStack /\ index[Node(k)] \in Nat /\ index[w] \in Nat
        BY <1>3, <1>5, <4>1
      <4>3. ~ (index[w] <= index[Node(k)])
        BY <4>1, <4>2
      <4> QED BY <1>7, <4>1, <4>2, <4>3
    <3> QED BY <3>1, <3>2
  <2> QED BY <1>7, <1>10, <2>1, <2>2, FinishKeeps
<1>13. Reaching'
  <2>1. \A k \in 1 .. top - 1 : \A x \in OnStack' :
          index[Node(k)] <= index[x] => x \in Reach(Node(k))
    BY <1>5, <1>8 DEF SccsInv, Reaching
  <2>2. \A x \in OnStack' : \E k \in 1 .. top - 1 :
          Node(k) \in Reach(x) /\ index[Node(k)] <= index[x]
    <3> TAKE x \in OnStack'
    <3>1. PICK k \in DOMAIN walks : Node(k) \in Reach(x) /\ index[Node(k)] <= index[x]
      BY <1>8 DEF SccsInv, Reaching
    <3>2. k # top
      BY <1>3, <1>5, <1>8, <3>1
    <3>3. k \in 1 .. top - 1
      BY <1>1, <3>2
    <3> QED BY <3>1, <3>3
  <2> QED BY <1>1, <1>6, <2>1, <2>2 DEF Reaching
<1>14. \A k \in 1 .. top - 1 :
         /\ low'[Node(k)] = low[Node(k)]
         /\ low[Node(k)] <= index[Node(k)] /\ index[Node(k)] < index[w]
  <2> TAKE k \in 1 .. top - 1
  <2>1. low[Node(k)] \in Nat /\ low[w] \in Nat /\ index[Node(k)] \in Nat
    BY <1>3, <1>5
  <2>2. /\ low[Node(k)] <= index[Node(k)] /\ index[Node(k)] < index[w]
        /\ low[w] = index[w]
    BY <1>0, <1>1, <1>5 DEF SccsInv, LowReal
  <2>3. Lower(low[Node(k)], low[w]) = low[Node(k)]
    BY <2>1, <2>2 DEF Lower
  <2> QED BY <1>1, <2>2, <2>3
<1>15. LowReal'
  <2>1. ASSUME NEW k \in 1 .. top - 1
        PROVE  /\ low'[Node(k)] <= index[Node(k)]
               /\ \E y \in OnStack' : y \in Reach(Node(k)) /\ index[y] = low'[Node(k)]
    <3>1. PICK y \in OnStack : y \in Reach(Node(k)) /\ index[y] = low[Node(k)]
      BY <1>5 DEF SccsInv, LowReal
    <3>2. index[y] < index[w]
      BY <1>3, <1>5, <1>14, <3>1
    <3>3. y \in OnStack'
      BY <1>3, <1>5, <1>7, <3>2
    <3> QED BY <1>14, <3>1, <3>3
  <2> QED BY <1>1, <1>6, <2>1 DEF LowReal
<1>16. LowSeen'
  <2>1. SUFFICES ASSUME NEW k \in 1 .. top - 1, NEW x \in OnStack', NEW y \in OnStack',
                        Between(k, x)', y \in adj[x], x = Node(k) => y \notin Left(k)
                 PROVE  low'[Node(k)] <= index[y]
    BY <1>1 DEF LowSeen
  <2>2. Between(k, x)
    <3>1. index[Node(k)] <= index[x]
      BY <1>1, <2>1 DEF Between
    <3>2. ASSUME NEW t, t = k + 1, t \in DOMAIN walks
          PROVE  index[x] < index[Node(t)]
      <4>1. CASE t = top
        BY <1>3, <1>8, <4>1
      <4>2. CASE t \in 1 .. top - 1
        BY <1>1, <2>1, <3>2, <4>2 DEF Between
      <4> QED BY <1>1, <3>2, <4>1, <4>2
    <3> QED BY <3>1, <3>2 DEF Between
  <2>3. low[Node(k)] <= index[y]
    <3>1. k \in DOMAIN walks /\ x \in OnStack /\ y \in OnStack
      BY <1>5, <1>8
    <3> QED BY <2>1, <2>2, <3>1 DEF SccsInv, LowSeen
  <2> QED BY <1>14, <2>3
<1>17. Whole'
  <2>1. SUFFICES \A c \in DOMAIN out' : \A n \in out'[c] :
          /\ out'[c] = {m \in Reach(n)' : n \in Reach(m)'}
          /\ adj'[n] \subseteq UNION {out'[d] : d \in 1 .. c}
    BY DEF Whole
  <2> TAKE c \in DOMAIN out'
  <2> TAKE n \in out'[c]
  <2>2. {m \in Reach(n)' : n \in Reach(m)'} = {m \in Reach(n) : n \in Reach(m)}
    BY <1>6
  <2>3. CASE c \in 1 .. u
    <3>1. /\ out[c] = {m \in Reach(n) : n \in Reach(m)}
          /\ adj[n] \subseteq UNION {out[d] : d \in 1 .. c}
      BY <1>10, <2>3 DEF SccsInv, Whole
    <3>2. \A d \in 1 .. c : out'[d] = out[d]
      BY <1>10, <2>3
    <3>3. out'[c] = out[c] /\ adj' = adj
      BY <1>1, <1>10, <2>3
    <3> QED BY <2>2, <3>1, <3>2, <3>3
  <2>4. CASE c = u + 1
    <3>1. out'[c] = C /\ n \in Popped /\ C = Popped
      BY <1>4, <1>10, <2>4
    <3>2. adj[n] \subseteq C \cup Emitted
      BY <1>2, <3>1, PoppedClosed
    <3>3. UNION {out'[d] : d \in 1 .. c} = Emitted'
      BY <1>10, <2>4 DEF Emitted
    <3>4. Popped = {m \in Reach(n) : n \in Reach(m)}
      BY <1>2, <3>1, PoppedWhole
    <3>5. adj'[n] \subseteq UNION {out'[d] : d \in 1 .. c}
      BY <1>1, <1>11, <3>2, <3>3
    <3> QED BY <2>2, <3>1, <3>4, <3>5
  <2> QED BY <1>10, <2>3, <2>4
<1>18. Apart'
  <2>1. SUFFICES ASSUME NEW c \in 1 .. u + 1, NEW d \in 1 .. u + 1, c # d
                 PROVE  out'[c] \cap out'[d] = {}
    BY <1>10 DEF Apart
  <2>2. \A e \in 1 .. u : out[e] \cap C = {}
    BY <1>7, <1>10 DEF SccsInv, Placed, Emitted
  <2>3. CASE c \in 1 .. u /\ d \in 1 .. u
    BY <1>10, <2>1, <2>3 DEF SccsInv, Apart
  <2>4. CASE c \in 1 .. u /\ d = u + 1
    BY <1>10, <2>2, <2>4
  <2>5. CASE c = u + 1 /\ d \in 1 .. u
    BY <1>10, <2>2, <2>5
  <2> QED BY <1>10, <2>1, <2>3, <2>4, <2>5
<1> QED BY <1>12, <1>13, <1>15, <1>16, <1>17, <1>18 DEF SccsInv

-----------------------------------------------------------------------------
(* The walk as a whole. *)

\* Nothing of the walk changes.
LEMMA SccsStutter ==
  ASSUME SccsInv, UNCHANGED svars
  PROVE  SccsInv'
<1>1. /\ adj' = adj /\ roots' = roots /\ index' = index /\ low' = low
      /\ stack' = stack /\ walks' = walks /\ out' = out
  BY DEF svars
<1>2. GraphOk' /\ Numbered' /\ Looked' /\ LowReal' /\ LowSeen' /\ Reaching' /\ Apart'
  BY <1>1, SameReach
     DEF SccsInv, GraphOk, Numbered, Looked, LowReal, LowSeen, Reaching,
         Apart, Met, OnStack, Node, Left, Walked, Between
<1>3. Met' = Met /\ OnStack' = OnStack /\ Emitted' = Emitted /\ Walked' = Walked
  BY <1>1 DEF Met, OnStack, Emitted, Walked, Node
<1>4. Shapes' /\ Placed'
  BY <1>1, <1>3 DEF SccsInv, Shapes, Placed
<1>5. Whole'
  BY <1>1, SameReach DEF SccsInv, Whole
<1> QED BY <1>2, <1>4, <1>5 DEF SccsInv

\* Every step of the walk keeps the invariant.
LEMMA SccsStepInv ==
  ASSUME SccsInv, SccsStep
  PROVE  SccsInv'
<1>1. CASE Finish
  BY <1>1, PassInv, EmitInv
<1> QED BY <1>1, RootInv, DescendInv, RevisitInv DEF SccsStep

\* It starts on a graph of numbers whose methods are all roots.
LEMMA SccsInitInv ==
  ASSUME NEW graph, NEW order \in Seq(DOMAIN graph), SccsInit(graph, order),
         DOMAIN graph \subseteq Nat, \A n \in DOMAIN graph : graph[n] \subseteq DOMAIN graph,
         \A n \in DOMAIN graph : \E j \in DOMAIN order : order[j] = n
  PROVE  SccsInv
<1> USE DEF SccsInit
<1>1. /\ Met = {} /\ DOMAIN stack = {} /\ DOMAIN walks = {} /\ DOMAIN out = {}
      /\ adj = graph /\ roots = order
  BY DEF Met
<1>2. OnStack = {} /\ Emitted = {} /\ Walked = {}
  BY <1>1 DEF OnStack, Emitted, Walked
<1>3. IsFiniteSet(Met) /\ Cardinality(Met) = 0
  BY <1>1, FS_EmptySet
<1>4. index \in [Met -> Nat] /\ low \in [Met -> Nat]
  BY <1>1
<1>5. Shapes
  BY <1>1, <1>3, <1>4 DEF Shapes
<1>6. GraphOk /\ Numbered /\ Placed
  BY <1>1, <1>2 DEF GraphOk, Numbered, Placed
<1>7. Looked /\ Reaching /\ LowReal /\ LowSeen /\ Whole /\ Apart
  BY <1>1, <1>2 DEF Looked, Reaching, LowReal, LowSeen, Whole, Apart
<1> QED BY <1>5, <1>6, <1>7 DEF SccsInv

\* What has been emitted is whole, and in the end it is everything.
LEMMA InvBottomUp ==
  ASSUME SccsInv
  PROVE  BottomUp
<1>1. SccsDone => UNION {out[c] : c \in DOMAIN out} = DOMAIN adj
  <2> SUFFICES ASSUME SccsDone PROVE Emitted = DOMAIN adj
    BY DEF Emitted
  <2>1. DOMAIN walks = {} /\ DOMAIN roots = {}
    BY DEF SccsDone
  <2>2. OnStack = {}
    BY <2>1 DEF SccsInv, Reaching
  <2>3. Met = Emitted
    BY <2>2 DEF SccsInv, Placed
  <2> QED BY <2>1, <2>3 DEF SccsInv, Placed, Shapes
<1> QED BY <1>1 DEF BottomUp, SccsInv, Whole, Apart

\* It can be handed to the solver.
LEMMA InvListOk ==
  ASSUME SccsInv, SccsDone, adj = CallGraph
  PROVE  ListOk(out)
<1>1. DOMAIN adj = Methods
  BY DEF CallGraph
<1>2. UNION {out[c] : c \in DOMAIN out} = Methods
  BY <1>1, InvBottomUp DEF BottomUp
<1>3. out \in Seq(SUBSET Methods)
  <2> DEFINE S == SUBSET Met
             T == SUBSET Methods
  <2>1. out \in Seq(S) /\ S \subseteq T
    BY <1>1 DEF SccsInv, Shapes
  <2> HIDE DEF S, T
  <2>2. out \in Seq(T)
    BY <2>1
  <2> QED BY <2>2 DEF T
<1> QED BY <1>2, <1>3 DEF ListOk, SccsInv, Apart

-----------------------------------------------------------------------------
(* The log. *)

OutOf(m) ==
  IF sk[m].ret.kind = "forward" /\ sk[m].ret.callee \notin Methods
  THEN {<<sk[m].ret.callee>>} ELSE {}

\* What has been evaluated and handed back is in the log, and nothing else.
Logged ==
  /\ \A key \in DOMAIN val : Outside(key) \subseteq log
  /\ phase = "sweep" => \A key \in DOMAIN cur \ todo : Outside(key) \subseteq log
  /\ \A m \in DOMAIN ret : OutOf(m) \subseteq log
  /\ \A e \in log : \/ \E key \in Disposables : e \in Outside(key)
                    \/ \E m \in Methods : e \in OutOf(m)

-----------------------------------------------------------------------------
(* The returns. *)

\* What is above on the path is forwarded, and to somewhere on the path.
Passing ==
  /\ DOMAIN ret \subseteq Methods
  /\ path \in Seq(Methods)
  /\ hop # NoMethod => hop \in Methods
  /\ \A m \in Above : /\ sk[m].ret.kind = "forward"
                      /\ sk[m].ret.callee \in Methods
                      /\ sk[m].ret.callee \in Above \cup {hop}
  /\ phase = "done" => DOMAIN ret = Methods

\* Where the chain of a method ends, if it does.
EndsOf(m) == {n \in Chain(m) : sk[n].ret.kind # "forward"}

\* A method on the path ends where the one in hand does.
SameEnds == \A m \in Above : EndsOf(m) = EndsOf(hop)

\* What a return of m must be.
Exact(m, v) ==
  CASE EndsOf(m) = {}    -> v = "unknown"
    [] m \in EndsOf(m)   -> v = Terminal(sk[m].ret)
    [] OTHER             -> \A n \in EndsOf(m) :
         v = IF sk[n].ret.kind \in {"fresh", "aliased", "none"}
             THEN sk[n].ret.kind ELSE "unknown"

Returned == \A m \in DOMAIN ret : Exact(m, ret[m])

RestInv == Logged /\ Passing /\ SameEnds /\ Returned

\* The table stays, and with it what the chains and the log are made of.
LEMMA SameChains ==
  ASSUME sk' = sk
  PROVE  /\ Methods' = Methods
         /\ \A m : Chain(m)' = Chain(m) /\ EndsOf(m)' = EndsOf(m) /\ OutOf(m)' = OutOf(m)
         /\ \A m, v : Exact(m, v)' <=> Exact(m, v)
         /\ \A key : Outside(key)' = Outside(key)
<1>1. Methods' = Methods
  BY DEF Methods
<1>2. \A m : Chain(m)' = Chain(m)
  BY <1>1 DEF Chain
<1>3. \A m : EndsOf(m)' = EndsOf(m) /\ OutOf(m)' = OutOf(m)
  BY <1>1, <1>2 DEF EndsOf, OutOf
<1>4. \A m, v : Exact(m, v)' <=> Exact(m, v)
  BY <1>3 DEF Exact, Terminal
<1>5. \A key : Outside(key)' = Outside(key)
  BY <1>1 DEF Outside, Param
<1> QED BY <1>1, <1>2, <1>3, <1>4, <1>5

\* A chain is closed, and no larger than any closed set around its start.
LEMMA ChainFacts ==
  ASSUME NEW m \in Methods
  PROVE  /\ m \in Chain(m) /\ Chain(m) \subseteq Methods
         /\ \A n \in Chain(m) :
              sk[n].ret.kind = "forward" /\ sk[n].ret.callee \in Methods
                => sk[n].ret.callee \in Chain(m)
         /\ \A S \in SUBSET Methods :
              /\ m \in S
              /\ \A n \in S : sk[n].ret.kind = "forward" /\ sk[n].ret.callee \in Methods
                                => sk[n].ret.callee \in S
              => Chain(m) \subseteq S
<1>1. m \in Chain(m) /\ Chain(m) \subseteq Methods
  BY DEF Chain
<1>2. ASSUME NEW S \in SUBSET Methods, m \in S,
             \A n \in S : sk[n].ret.kind = "forward" /\ sk[n].ret.callee \in Methods
                            => sk[n].ret.callee \in S
      PROVE  Chain(m) \subseteq S
  <2>1. \A n \in S : sk[n].ret.kind = "forward" => {sk[n].ret.callee} \cap Methods \subseteq S
    BY <1>2
  <2> QED BY <1>2, <2>1 DEF Chain
<1>3. ASSUME NEW n \in Chain(m), sk[n].ret.kind = "forward", sk[n].ret.callee \in Methods
      PROVE  sk[n].ret.callee \in Chain(m)
  <2> SUFFICES ASSUME NEW S \in SUBSET Methods, m \in S,
                      \A x \in S : sk[x].ret.kind = "forward" =>
                                     {sk[x].ret.callee} \cap Methods \subseteq S
               PROVE  sk[n].ret.callee \in S
    BY <1>3 DEF Chain
  <2>1. n \in S
    BY DEF Chain
  <2> QED BY <1>3, <2>1
<1> QED BY <1>1, <1>2, <1>3

\* A forwarding method ends where its callee does.
LEMMA EndsForward ==
  ASSUME NEW m \in Methods, sk[m].ret.kind = "forward", sk[m].ret.callee \in Methods
  PROVE  EndsOf(m) = EndsOf(sk[m].ret.callee) /\ m \notin EndsOf(m)
<1>0. PICK c \in Methods : c = sk[m].ret.callee
  OBVIOUS
<1>1. Chain(c) \subseteq Chain(m)
  <2>1. c \in Chain(m) /\ Chain(m) \subseteq Methods
    BY <1>0, ChainFacts
  <2>2. \A n \in Chain(m) : sk[n].ret.kind = "forward" /\ sk[n].ret.callee \in Methods
                              => sk[n].ret.callee \in Chain(m)
    BY ChainFacts
  <2> QED BY <2>1, <2>2, ChainFacts
<1>2. Chain(m) \subseteq Chain(c) \cup {m}
  <2>1. c \in Chain(c) /\ Chain(c) \cup {m} \in SUBSET Methods
    BY ChainFacts
  <2>2. \A n \in Chain(c) \cup {m} :
          sk[n].ret.kind = "forward" /\ sk[n].ret.callee \in Methods
            => sk[n].ret.callee \in Chain(c) \cup {m}
    BY <1>0, <2>1, ChainFacts
  <2> QED BY <2>1, <2>2, ChainFacts
<1> QED BY <1>0, <1>1, <1>2 DEF EndsOf

\* A chain does not go on where it ends or leaves the table.
LEMMA EndsHere ==
  ASSUME NEW m \in Methods, ~ (sk[m].ret.kind = "forward" /\ sk[m].ret.callee \in Methods)
  PROVE  EndsOf(m) = IF sk[m].ret.kind = "forward" THEN {} ELSE {m}
<1>1. Chain(m) = {m}
  <2>1. Chain(m) \subseteq {m}
    <3>1. PICK S \in SUBSET Methods : S = {m}
      OBVIOUS
    <3>2. \A n \in S : sk[n].ret.kind = "forward" /\ sk[n].ret.callee \in Methods
                         => sk[n].ret.callee \in S
      BY <3>1
    <3> QED BY <3>1, <3>2, ChainFacts
  <2> QED BY <2>1, ChainFacts
<1> QED BY <1>1 DEF EndsOf

\* A chain that goes round ends nowhere.
LEMMA EndsRound ==
  ASSUME NEW S \in SUBSET Methods, NEW m \in S,
         \A n \in S : sk[n].ret.kind = "forward" /\ sk[n].ret.callee \in S
  PROVE  EndsOf(m) = {}
<1>1. Chain(m) \subseteq S
  BY ChainFacts
<1> QED BY <1>1 DEF EndsOf

\* What a chain says is handed on to a method that ends where it does.
LEMMA ExactHandedOn ==
  ASSUME NEW m \in Methods, NEW h \in Methods, NEW v,
         EndsOf(m) = EndsOf(h), sk[m].ret.kind = "forward", Exact(h, v)
  PROVE  Exact(m, Degraded(v))
<1>1. m \notin EndsOf(m)
  BY DEF EndsOf
<1>2. CASE EndsOf(h) = {}
  BY <1>1, <1>2 DEF Exact, Degraded
<1>3. CASE h \in EndsOf(h)
  <2>1. sk[h].ret.kind # "forward"
    BY <1>3 DEF EndsOf
  <2>2. EndsOf(h) = {h}
    BY <2>1, EndsHere
  <2>3. v = Terminal(sk[h].ret)
    BY <1>3 DEF Exact
  <2>4. Degraded(v) = IF sk[h].ret.kind \in {"fresh", "aliased", "none"}
                      THEN sk[h].ret.kind ELSE "unknown"
    BY <2>3 DEF Degraded, Terminal
  <2> QED BY <1>1, <2>2, <2>4 DEF Exact
<1>4. CASE EndsOf(h) # {} /\ h \notin EndsOf(h)
  <2>1. \A n \in EndsOf(h) :
          v = IF sk[n].ret.kind \in {"fresh", "aliased", "none"}
              THEN sk[n].ret.kind ELSE "unknown"
    BY <1>4 DEF Exact
  <2>2. Degraded(v) = v
    BY <1>4, <2>1 DEF Degraded
  <2> QED BY <1>1, <1>4, <2>1, <2>2 DEF Exact
<1> QED BY <1>2, <1>3, <1>4

\* Nothing is evaluated or handed back.
LEMMA SameLogged ==
  ASSUME Logged, UNCHANGED <<sk, cur, todo, val, log, ret>>,
         phase' = "sweep" => phase = "sweep"
  PROVE  Logged'
<1>1. Disposables' = Disposables /\ Methods' = Methods
  BY SameSkeletons
<1> QED BY <1>1, SameChains DEF Logged

\* The path stays.
LEMMA SamePath ==
  ASSUME Passing, SameEnds, Returned, UNCHANGED <<sk, path, hop, ret>>,
         phase' = "done" => phase = "done" \/ DOMAIN ret = Methods
  PROVE  Passing' /\ SameEnds' /\ Returned'
<1>1. Above' = Above /\ Methods' = Methods
  BY SameChains DEF Above
<1>2. Passing'
  BY <1>1 DEF Passing
<1>3. SameEnds' /\ Returned'
  BY <1>1, SameChains DEF SameEnds, Returned
<1> QED BY <1>2, <1>3

\* The sweeps write to the log what leaves the table.
LEMMA SweepsLogged ==
  ASSUME IInv, RestInv, Take \/ Again \/ Settle \/ \E key \in todo : Evaluate(key)
  PROVE  RestInv'
<1> USE DEF RestInv
<1>0. /\ UNCHANGED <<sk, path, hop, ret>> /\ phase \in {"solve", "sweep"}
      /\ phase' \in {"solve", "sweep"}
  BY DEF Take, Again, Settle, Evaluate
<1>1. Passing' /\ SameEnds' /\ Returned'
  BY <1>0, SamePath
<1>2. Disposables' = Disposables /\ Methods' = Methods
  BY <1>0, SameSkeletons
<1>3. CASE Take
  <2>1. DOMAIN cur' \ todo' = {} /\ val' = val /\ log' = log
    BY <1>3 DEF Take
  <2> QED BY <1>0, <1>1, <1>2, <2>1, SameChains DEF Logged
<1>4. CASE Again
  <2>1. DOMAIN cur' \ todo' = {} /\ val' = val /\ log' = log
    BY <1>4 DEF Again
  <2> QED BY <1>0, <1>1, <1>2, <2>1, SameChains DEF Logged
<1>5. CASE Settle
  <2>1. /\ DOMAIN val' = DOMAIN val \cup DOMAIN cur /\ log' = log /\ phase' = "solve"
        /\ todo = {} /\ phase = "sweep"
    BY <1>5 DEF Settle
  <2> QED BY <1>0, <1>1, <1>2, <2>1, SameChains DEF Logged
<1>6. ASSUME NEW key \in todo, Evaluate(key)
      PROVE  Logged'
  <2>1. /\ DOMAIN cur' = DOMAIN cur /\ val' = val /\ log' = log \cup Outside(key)
        /\ todo' = todo \ {key} /\ phase = "sweep" /\ phase' = "sweep"
    BY <1>6 DEF Evaluate
  <2>2. key \in Disposables
    <3>1. key \in Members(Head(comps)) /\ comps # <<>> /\ comps \in Seq(SUBSET Methods)
      BY <2>1 DEF IInv, Parted, Typed
    <3>2. Head(comps) \subseteq Methods
      <4> DEFINE S == SUBSET Methods
      <4>1. comps # <<>> /\ comps \in Seq(S)
        BY <3>1
      <4> HIDE DEF S
      <4>2. Head(comps) \in S
        BY <4>1
      <4> QED BY <4>2 DEF S
    <3> QED BY <3>1, <3>2 DEF Disposables, Members
  <2> QED BY <1>0, <1>2, <2>1, <2>2, SameChains DEF Logged
<1> QED BY <1>1, <1>3, <1>4, <1>5, <1>6

\* A chain is followed one step further.
LEMMA FollowRest ==
  ASSUME RestInv, Follow
  PROVE  RestInv'
<1> USE DEF RestInv
<1>0. /\ UNCHANGED <<sk, phase, cur, todo, val, log, ret>> /\ phase = "returns"
      /\ path' = Append(path, hop) /\ hop' = sk[hop].ret.callee
      /\ sk[hop].ret.kind = "forward" /\ sk[hop].ret.callee \in Methods
      /\ hop \in Methods /\ path \in Seq(Methods)
  BY DEF Follow, Chasing, Passing
<1>1. Logged'
  BY <1>0, SameLogged
<1>2. Methods' = Methods
  BY <1>0, SameChains
<1>3. path' \in Seq(Methods) /\ Above' = Above \cup {hop}
  <2>1. PICK l : l = Len(path)
    OBVIOUS
  <2>2. /\ path' \in Seq(Methods) /\ l \in Nat
        /\ DOMAIN path = 1 .. l /\ DOMAIN path' = 1 .. l + 1
        /\ path'[l + 1] = hop /\ \A j \in 1 .. l : path'[j] = path[j]
    <3> HIDE DEF Methods
    <3> QED BY <1>0, <2>1
  <2>3. Above' = {path'[j] : j \in 1 .. l + 1}
    BY <2>2 DEF Above
  <2>4. Above' = {path[j] : j \in 1 .. l} \cup {hop}
    BY <2>2, <2>3
  <2> QED BY <2>2, <2>4 DEF Above
<1>4. Passing'
  <2>1. \A m \in Above' : /\ sk[m].ret.kind = "forward" /\ sk[m].ret.callee \in Methods
                          /\ sk[m].ret.callee \in Above' \cup {hop'}
    BY <1>0, <1>3 DEF Passing
  <2> QED BY <1>0, <1>2, <1>3, <2>1 DEF Passing
<1>5. SameEnds'
  <2>1. EndsOf(hop) = EndsOf(hop')
    BY <1>0, EndsForward
  <2>2. \A m \in Above' : EndsOf(m) = EndsOf(hop')
    BY <1>3, <2>1 DEF SameEnds
  <2>3. PICK h : h = hop'
    OBVIOUS
  <2>4. EndsOf(h)' = EndsOf(h)
    BY <1>0, SameChains
  <2>5. EndsOf(hop)' = EndsOf(h)'
    BY <2>3
  <2> QED BY <1>0, <2>2, <2>3, <2>4, <2>5, SameChains DEF SameEnds
<1>6. Returned'
  BY <1>0, SameChains DEF Returned
<1> QED BY <1>1, <1>4, <1>5, <1>6

\* What is found at the end is what the method in hand returns.
LEMMA FoundExact ==
  ASSUME RestInv, HandBack
  PROVE  hop \in Methods /\ Exact(hop, Found)
<1>1. hop \in Methods
  BY DEF RestInv, HandBack, Chasing, Passing
<1>2. CASE hop \in DOMAIN ret
  <2>1. Exact(hop, ret[hop])
    BY <1>2 DEF RestInv, Returned
  <2>2. Found = ret[hop]
    BY <1>2 DEF Found
  <2> QED BY <1>1, <2>1, <2>2
<1>3. CASE hop \notin DOMAIN ret /\ sk[hop].ret.kind # "forward"
  <2>1. EndsOf(hop) = {hop}
    BY <1>1, <1>3, EndsHere
  <2>2. Found = Terminal(sk[hop].ret)
    BY <1>3 DEF Found
  <2> QED BY <1>1, <2>1, <2>2 DEF Exact
<1>4. CASE hop \notin DOMAIN ret /\ sk[hop].ret.kind = "forward"
  <2>1. Found = "unknown"
    BY <1>4 DEF Found
  <2>2. EndsOf(hop) = {}
    <3>1. CASE sk[hop].ret.callee \notin Methods
      BY <1>1, <1>4, <3>1, EndsHere
    <3>2. CASE OnCycle
      <4>1. Above \cup {hop} \in SUBSET Methods
        BY <1>1 DEF RestInv, Passing, Above
      <4>2. \A n \in Above \cup {hop} :
              sk[n].ret.kind = "forward" /\ sk[n].ret.callee \in Above \cup {hop}
        BY <1>4, <3>2 DEF RestInv, Passing, OnCycle
      <4> QED BY <4>1, <4>2, EndsRound
    <3> QED BY <1>4, <3>1, <3>2 DEF HandBack
  <2> QED BY <1>1, <2>1, <2>2 DEF Exact
<1> QED BY <1>1, <1>2, <1>3, <1>4

\* And what all the methods above it return.
LEMMA HandBackRest ==
  ASSUME RestInv, HandBack
  PROVE  RestInv'
<1> USE DEF RestInv
<1>0. /\ UNCHANGED <<sk, phase, cur, todo, val>> /\ phase = "returns"
      /\ log' = log \cup Crossing /\ hop' = NoMethod /\ path' = <<>>
      /\ DOMAIN ret' = DOMAIN ret \cup Above \cup {hop}
      /\ \A m \in DOMAIN ret : ret'[m] = ret[m]
      /\ hop \notin DOMAIN ret => ret'[hop] = Found
      /\ \A m \in Above \ (DOMAIN ret \cup {hop}) : ret'[m] = Degraded(Found)
  BY DEF HandBack, Chasing
<1>1. hop \in Methods /\ Exact(hop, Found)
  BY FoundExact
<1>2. Methods' = Methods /\ Disposables' = Disposables
  BY <1>0, SameSkeletons
<1>3. Above \subseteq Methods /\ Above' = {}
  BY <1>0 DEF Passing, Above
<1>4. Logged'
  <2>1. Crossing = IF hop \in DOMAIN ret THEN {} ELSE OutOf(hop)
    BY DEF Crossing, OutOf
  <2>2. \A m \in Above : OutOf(m) = {}
    BY DEF Passing, OutOf
  <2>3. \A m \in DOMAIN ret' : OutOf(m) \subseteq log'
    BY <1>0, <2>1, <2>2 DEF Logged
  <2>4. \A e \in log' : \/ \E key \in Disposables : e \in Outside(key)
                        \/ \E m \in Methods : e \in OutOf(m)
    BY <1>0, <1>1, <2>1 DEF Logged
  <2> QED BY <1>0, <1>2, <2>3, <2>4, SameChains DEF Logged
<1>5. Passing'
  BY <1>0, <1>1, <1>2, <1>3 DEF Passing
<1>6. SameEnds'
  BY <1>3 DEF SameEnds
<1>7. Returned'
  <2>1. \A m \in DOMAIN ret' : Exact(m, ret'[m])
    <3> TAKE m \in DOMAIN ret'
    <3>1. CASE m \in DOMAIN ret
      BY <1>0, <3>1 DEF Returned
    <3>2. CASE m = hop /\ m \notin DOMAIN ret
      BY <1>0, <1>1, <3>2
    <3>3. CASE m \in Above \ (DOMAIN ret \cup {hop})
      <4>1. EndsOf(m) = EndsOf(hop) /\ sk[m].ret.kind = "forward" /\ m \in Methods
        BY <1>3, <3>3 DEF SameEnds, Passing
      <4>2. Exact(m, Degraded(Found))
        BY <1>1, <4>1, ExactHandedOn
      <4> QED BY <1>0, <3>3, <4>2
    <3> QED BY <1>0, <3>1, <3>2, <3>3
  <2> QED BY <1>0, <2>1, SameChains DEF Returned
<1> QED BY <1>4, <1>5, <1>6, <1>7

\* The other steps of the solver and the calls touch neither.
LEMMA OtherRest ==
  ASSUME IInv, RestInv,
         \/ \E order : Start(order)
         \/ Solved \/ Summarised \/ RunStep \/ UNCHANGED vars
         \/ \E m \in Methods : Ask(m)
  PROVE  RestInv'
<1> USE DEF RestInv
<1>1. ASSUME NEW m \in Methods, Ask(m)
      PROVE  RestInv'
  <2>1. /\ UNCHANGED <<sk, phase, cur, todo, val, log, ret>> /\ phase = "returns"
        /\ hop' = m /\ path' = <<>>
    BY <1>1 DEF Ask
  <2>2. Logged'
    BY <2>1, SameLogged
  <2>3. Above' = {} /\ Methods' = Methods
    BY <2>1, SameChains DEF Above
  <2>4. Passing' /\ SameEnds'
    BY <2>1, <2>3 DEF Passing, SameEnds
  <2>5. Returned'
    BY <2>1, SameChains DEF Returned
  <2> QED BY <2>2, <2>4, <2>5
<1>2. ASSUME UNCHANGED <<sk, cur, todo, val, log, path, hop, ret>>,
             phase' = "sweep" => phase = "sweep",
             phase' = "done" => phase = "done" \/ DOMAIN ret = Methods
      PROVE  RestInv'
  BY <1>2, SameLogged, SamePath
<1>3. CASE \E order : Start(order)
  BY <1>2, <1>3 DEF Start
<1>4. CASE Solved
  BY <1>2, <1>4 DEF Solved
<1>5. CASE Summarised
  BY <1>2, <1>5 DEF Summarised
<1>6. CASE RunStep \/ UNCHANGED vars
  BY <1>2, <1>6 DEF RunStep, Call, Fall, End, Enter, vars, solver
<1> QED BY <1>1, <1>3, <1>4, <1>5, <1>6

\* No step of the solver disturbs the log, the path or a return.
LEMMA SolverRest ==
  ASSUME IInv, RestInv, SolverStep
  PROVE  RestInv'
BY SweepsLogged, FollowRest, HandBackRest, OtherRest DEF SolverStep

\* Nothing is in the log and nothing on the path.
LEMMA InitRest ==
  ASSUME MosInit
  PROVE  RestInv
<1>1. DOMAIN Empty = {}
  BY DEF Empty
<1>2. path \in Seq(Methods) /\ Above = {}
  BY DEF MosInit, Above
<1> QED BY <1>1, <1>2 DEF MosInit, RestInv, Logged, Passing, SameEnds, Returned

\* In the end the log is complete and every return is exact.
LEMMA RestDone ==
  ASSUME IInv, RestInv
  PROVE  LogComplete /\ ReturnsExact
<1>1. CASE phase = "done"
  <2>1. DOMAIN val = Disposables /\ DOMAIN ret = Methods
    BY <1>1 DEF IInv, Parted, RestInv, Passing
  <2>2. {<<sk[m].ret.callee>> : m \in {n \in Methods :
           sk[n].ret.kind = "forward" /\ sk[n].ret.callee \notin Methods}}
        = UNION {OutOf(m) : m \in Methods}
    BY DEF OutOf
  <2>3. \A e \in log : \/ \E key \in Disposables : e \in Outside(key)
                      \/ \E m \in Methods : e \in OutOf(m)
    BY DEF RestInv, Logged
  <2>4. /\ \A key \in Disposables : Outside(key) \subseteq log
        /\ \A m \in Methods : OutOf(m) \subseteq log
    BY <2>1 DEF RestInv, Logged
  <2>5. log = (UNION {Outside(key) : key \in Disposables}) \cup (UNION {OutOf(m) : m \in Methods})
    <3> DEFINE A == UNION {Outside(key) : key \in Disposables}
               B == UNION {OutOf(m) : m \in Methods}
    <3>1. log \subseteq A \cup B
      BY <2>3
    <3>2. A \subseteq log /\ B \subseteq log
      BY <2>4
    <3>3. log = A \cup B
      <4> HIDE DEF A, B
      <4> QED BY <3>1, <3>2
    <3> QED BY <3>3
  <2>6. \A m \in Methods : Exact(m, ret[m])
    BY <2>1 DEF RestInv, Returned
  <2>7. ReturnsExact
    BY <2>6 DEF ReturnsExact, Exact, EndsOf
  <2> QED BY <2>2, <2>5, <2>7 DEF LogComplete
<1>2. CASE phase # "done"
  BY <1>2 DEF LogComplete, ReturnsExact
<1> QED BY <1>1, <1>2
-----------------------------------------------------------------------------
(* The least verdicts. *)

\* What the parameters a parameter forwards to in its component meet.
Sum(key, ms) == JoinAll(UNION {Meets(x, ms) : x \in Forwarded(key, ms)})

\* The components are solved in their order, and what is final is the least
\* verdict of its component;
SolvedTo(p) ==
  /\ Len(comps) = Len(out) - p
  /\ \A j \in 1 .. Len(comps) : comps[j] = out[p + j]
  /\ \A d \in 1 .. p : Members(out[d]) \subseteq DOMAIN val
  /\ \A key \in DOMAIN val : \E d \in 1 .. p :
       key \in Members(out[d]) /\ val[key] = LeastOf(key, out[d])

InOrder == phase # "graph" => \E p \in 0 .. Len(out) : SolvedTo(p)

\* no iterate is above it.
Below ==
  phase = "sweep" =>
    \A key \in DOMAIN cur : Leq(cur[key], Sum(key, comps[1]))

\* Two verdicts that are below each other are the same.
LEMMA LeqAnti ==
  ASSUME NEW a \in Values, NEW b \in Values, Leq(a, b), Leq(b, a)
  PROVE  a = b
BY DEF Values, Leq

\* Forwarding goes on inside the component, and no further than it must.
LEMMA ForwardedFacts ==
  ASSUME NEW ms, NEW key \in Disposables
  PROVE  /\ key \in Forwarded(key, ms) /\ Forwarded(key, ms) \subseteq Disposables
         /\ \A y \in Forwarded(key, ms) : Inside(y, ms) \subseteq Forwarded(key, ms)
         /\ \A S \in SUBSET Disposables :
              key \in S /\ (\A y \in S : Inside(y, ms) \subseteq S)
                => Forwarded(key, ms) \subseteq S
<1>1. \A y : Inside(y, ms) \subseteq Disposables
  BY DEF Inside, Passes
<1>2. ASSUME NEW y \in Forwarded(key, ms), NEW z \in Inside(y, ms)
      PROVE  z \in Forwarded(key, ms)
  BY <1>1, <1>2 DEF Forwarded
<1> QED BY <1>2 DEF Forwarded

\* What a forwarded parameter forwards to is forwarded to.
LEMMA ForwardedTrans ==
  ASSUME NEW ms, NEW key \in Disposables, NEW y \in Forwarded(key, ms)
  PROVE  Forwarded(y, ms) \subseteq Forwarded(key, ms)
<1>1. y \in Disposables /\ Forwarded(key, ms) \in SUBSET Disposables
  BY ForwardedFacts
<1>2. \A x \in Forwarded(key, ms) : Inside(x, ms) \subseteq Forwarded(key, ms)
  BY ForwardedFacts
<1> QED BY <1>1, <1>2, ForwardedFacts

\* A forward inside a component ends at one of its members.
LEMMA InsideMembers ==
  ASSUME NEW ms \in SUBSET Methods
  PROVE  /\ Members(ms) \subseteq Disposables
         /\ \A y : Inside(y, ms) \subseteq Members(ms)
         /\ \A key \in Members(ms) : Forwarded(key, ms) \subseteq Members(ms)
<1>1. Members(ms) \subseteq Disposables
  BY DEF Members, Disposables
<1>2. \A y : Inside(y, ms) \subseteq Members(ms)
  <2> SUFFICES ASSUME NEW y, NEW a \in Param(y).paths, Passes(a), a.callee \in ms
               PROVE  Target(a) \in Members(ms)
    BY DEF Inside
  <2>1. Target(a) \in Disposables /\ Target(a)[1] = a.callee
    BY DEF Passes, Target
  <2> QED BY <2>1 DEF Disposables, Members
<1>3. ASSUME NEW key \in Members(ms)
      PROVE  Forwarded(key, ms) \subseteq Members(ms)
  BY <1>1, <1>2, ForwardedFacts
<1> QED BY <1>1, <1>2, <1>3

\* What it meets are verdicts, and so is what that comes to.
LEMMA SumType ==
  ASSUME Typed
  PROVE  /\ \A x, ms : Meets(x, ms) \in SUBSET Values
         /\ \A key, ms : UNION {Meets(x, ms) : x \in Forwarded(key, ms)} \in SUBSET Values
         /\ \A key, ms : Sum(key, ms) \in Values
<1>1. \A x, ms : Meets(x, ms) \in SUBSET Values
  BY ContribTypes DEF Meets, Values
<1>2. \A key, ms : UNION {Meets(x, ms) : x \in Forwarded(key, ms)} \in SUBSET Values
  BY <1>1
<1>3. \A key, ms : Sum(key, ms) \in Values
  BY <1>2, JoinAllType DEF Sum
<1> QED BY <1>1, <1>2, <1>3

\* The sum is above what is met,
LEMMA SumUpper ==
  ASSUME Typed, NEW key, NEW ms, NEW x \in Forwarded(key, ms), NEW v \in Meets(x, ms)
  PROVE  Leq(v, Sum(key, ms))
<1>1. v \in UNION {Meets(y, ms) : y \in Forwarded(key, ms)}
  OBVIOUS
<1> QED BY <1>1, SumType, JoinAllUpper DEF Sum

\* and the least such,
LEMMA SumLeast ==
  ASSUME Typed, NEW key, NEW ms, NEW u \in Values,
         \A x \in Forwarded(key, ms) : \A v \in Meets(x, ms) : Leq(v, u)
  PROVE  Leq(Sum(key, ms), u)
<1>1. \A v \in UNION {Meets(y, ms) : y \in Forwarded(key, ms)} : Leq(v, u)
  OBVIOUS
<1> QED BY <1>1, SumType, JoinAllLeast DEF Sum

\* so that a forward adds nothing to it.
LEMMA SumForward ==
  ASSUME Typed, NEW ms, NEW key \in Disposables, NEW y \in Forwarded(key, ms)
  PROVE  Leq(Sum(y, ms), Sum(key, ms))
<1>1. Forwarded(y, ms) \subseteq Forwarded(key, ms)
  BY ForwardedTrans
<1>2. \A x \in Forwarded(y, ms) : \A v \in Meets(x, ms) : Leq(v, Sum(key, ms))
  BY <1>1, SumUpper
<1>3. Sum(key, ms) \in Values
  BY SumType
<1> QED BY <1>2, <1>3, SumLeast

\* An evaluation does not go above the sum,
LEMMA EvaluateBelow ==
  ASSUME IInv, NEW ms \in SUBSET Methods, DOMAIN cur = Members(ms),
         DOMAIN cur \cap DOMAIN val = {},
         \A y \in DOMAIN cur : Leq(cur[y], Sum(y, ms)), NEW key \in DOMAIN cur
  PROVE  Leq(TransferOf(key), Sum(key, ms))
<1>0. Typed /\ key \in Disposables /\ Sum(key, ms) \in Values
  BY InsideMembers, SumType DEF IInv
<1>1. key \in Forwarded(key, ms)
  BY <1>0, ForwardedFacts
<1>2. CASE Param(key).paths = {}
  <2>1. "no" \in Meets(key, ms)
    BY <1>2 DEF Meets
  <2> QED BY <1>0, <1>1, <1>2, <2>1, SumUpper DEF TransferOf
<1>3. CASE Param(key).paths # {}
  <2>1. ASSUME NEW a \in Param(key).paths
        PROVE  Leq(Contrib(a), Sum(key, ms))
    <3>1. CASE Passes(a) /\ a.callee \in ms
      <4>1. PICK y : y = Target(a)
        OBVIOUS
      <4>2. y \in Inside(key, ms)
        BY <3>1, <4>1 DEF Inside
      <4>3. y \in DOMAIN cur /\ y \notin DOMAIN val /\ y \in Disposables
        BY <4>2, InsideMembers
      <4>4. Contrib(a) = cur[y]
        BY <3>1, <4>1, <4>3 DEF Passes, Contrib, Lookup
      <4>5. y \in Forwarded(key, ms)
        BY <1>0, <1>1, <4>2, ForwardedFacts
      <4>6. Leq(Sum(y, ms), Sum(key, ms)) /\ Leq(cur[y], Sum(y, ms))
        BY <1>0, <4>3, <4>5, SumForward
      <4>7. cur[y] \in Values /\ Sum(y, ms) \in Values
        BY <1>0, <4>3, SumType DEF Typed
      <4> QED BY <1>0, <4>4, <4>6, <4>7, LeqTrans
    <3>2. CASE ~ (Passes(a) /\ a.callee \in ms)
      <4>1. Contrib(a) \in Meets(key, ms)
        BY <3>2 DEF Meets
      <4> QED BY <1>0, <1>1, <4>1, SumUpper
    <3> QED BY <3>1, <3>2
  <2>2. {Contrib(a) : a \in Param(key).paths} \in SUBSET Values
    BY <1>0, ContribTypes
  <2>3. \A v \in {Contrib(a) : a \in Param(key).paths} : Leq(v, Sum(key, ms))
    BY <2>1
  <2> QED BY <1>0, <1>3, <2>2, <2>3, JoinAllLeast DEF TransferOf
<1> QED BY <1>2, <1>3

\* and a component that does not change any more is not below it.
LEMMA FixpointAbove ==
  ASSUME IInv, NEW ms \in SUBSET Methods, DOMAIN cur = Members(ms),
         DOMAIN cur \cap DOMAIN val = {},
         \A y \in DOMAIN cur : cur[y] = TransferOf(y), NEW key \in DOMAIN cur
  PROVE  Leq(Sum(key, ms), cur[key])
<1>0. Typed /\ key \in Disposables /\ DOMAIN cur \subseteq Disposables
      /\ \A y \in DOMAIN cur : cur[y] \in Values
  BY InsideMembers DEF IInv, Typed
<1>1. \A y \in DOMAIN cur : \A a \in Param(y).paths : Leq(Contrib(a), cur[y])
  BY <1>0, TransferAbove
<1>2. PICK S : S = {y \in DOMAIN cur : Leq(cur[y], cur[key])}
  OBVIOUS
<1>3. ASSUME NEW y \in S, NEW z \in Inside(y, ms)
      PROVE  z \in S
  <2>1. PICK a \in Param(y).paths : Passes(a) /\ a.callee \in ms /\ z = Target(a)
    BY DEF Inside
  <2>2. z \in DOMAIN cur /\ z \notin DOMAIN val /\ z \in Disposables
    BY InsideMembers
  <2>3. Contrib(a) = cur[z]
    BY <2>1, <2>2 DEF Passes, Contrib, Lookup
  <2>4. Leq(cur[z], cur[y]) /\ Leq(cur[y], cur[key]) /\ y \in DOMAIN cur
    BY <1>1, <1>2, <2>1, <2>3
  <2>5. Leq(cur[z], cur[key])
    BY <1>0, <2>2, <2>4, LeqTrans
  <2> QED BY <1>2, <2>2, <2>5
<1>4. Forwarded(key, ms) \subseteq S
  <2>1. key \in S /\ S \in SUBSET Disposables
    BY <1>0, <1>2, LeqRefl
  <2>2. \A y \in S : Inside(y, ms) \subseteq S
    BY <1>3
  <2> QED BY <1>0, <2>1, <2>2, ForwardedFacts
<1>5. ASSUME NEW x \in Forwarded(key, ms), NEW v \in Meets(x, ms)
      PROVE  Leq(v, cur[key])
  <2>1. x \in DOMAIN cur /\ Leq(cur[x], cur[key])
    BY <1>2, <1>4
  <2>2. Leq(v, cur[x])
    <3>1. CASE Param(x).paths = {} /\ v = "no"
      <4>1. cur[x] = "no"
        BY <2>1, <3>1 DEF TransferOf
      <4> QED BY <3>1, <4>1, LeqRefl
    <3>2. CASE \E a \in Param(x).paths : v = Contrib(a)
      BY <1>1, <2>1, <3>2
    <3> QED BY <1>5, <3>1, <3>2 DEF Meets
  <2>3. v \in Values
    BY <1>0, SumType
  <2> QED BY <1>0, <2>1, <2>2, <2>3, LeqTrans
<1> QED BY <1>0, <1>5, SumLeast

\* A component that depends on final verdicts only, apart from its own.
Grounded(ms) ==
  \A key \in Members(ms) : \A a \in Param(key).paths :
    Passes(a) => a.callee \in ms \/ Target(a) \in DOMAIN val

\* Its least verdicts stay as more verdicts become final.
LEMMA SameLeast ==
  ASSUME sk' = sk, NEW ms \in SUBSET Methods, Grounded(ms),
         \A key \in DOMAIN val : key \in DOMAIN val' /\ val'[key] = val[key],
         NEW key \in Members(ms)
  PROVE  Sum(key, ms)' = Sum(key, ms) /\ LeastOf(key, ms)' = LeastOf(key, ms)
<1>0. /\ Disposables' = Disposables /\ Methods' = Methods
      /\ \A k : Param(k)' = Param(k)
      /\ \A a : Known(a)' = Known(a) /\ Target(a)' = Target(a) /\ Passes(a)' = Passes(a)
  BY SameSkeletons
<1>1. \A x : Inside(x, ms)' = Inside(x, ms)
  BY <1>0 DEF Inside
<1>2. Forwarded(key, ms)' = Forwarded(key, ms)
  BY <1>0, <1>1 DEF Forwarded
<1>3. ASSUME NEW x \in Members(ms), NEW a \in Param(x).paths, ~ (Passes(a) /\ a.callee \in ms)
      PROVE  Contrib(a)' = Contrib(a)
  <2>1. CASE a.kind # "forward"
    BY <2>1 DEF Contrib
  <2>2. CASE a.kind = "forward" /\ Target(a) \notin Disposables
    <3>1. Lookup(a)' = Lookup(a)
      BY <1>0, <2>2 DEF Lookup
    <3> QED BY <3>1 DEF Contrib
  <2>3. CASE a.kind = "forward" /\ Target(a) \in Disposables
    <3>1. Target(a) \in DOMAIN val /\ Target(a) \in DOMAIN val'
          /\ val'[Target(a)] = val[Target(a)]
      BY <1>3, <2>3 DEF Grounded, Passes
    <3>2. Lookup(a)' = Lookup(a)
      BY <1>0, <2>3, <3>1 DEF Lookup
    <3> QED BY <3>2 DEF Contrib
  <2> QED BY <2>1, <2>2, <2>3
<1>4. ASSUME NEW x \in Members(ms)
      PROVE  Meets(x, ms)' = Meets(x, ms)
  <2>1. {(Contrib(a))' : a \in {b \in Param(x).paths : ~ (Passes(b) /\ b.callee \in ms)}}
        = {Contrib(a) : a \in {b \in Param(x).paths : ~ (Passes(b) /\ b.callee \in ms)}}
    BY <1>3
  <2>2. {b \in Param(x)'.paths : ~ (Passes(b)' /\ b.callee \in ms)}
        = {b \in Param(x).paths : ~ (Passes(b) /\ b.callee \in ms)}
    BY <1>0
  <2> QED BY <1>0, <2>1, <2>2 DEF Meets
<1>5. Forwarded(key, ms) \subseteq Members(ms)
  BY InsideMembers
<1>6. {(Meets(x, ms))' : x \in Forwarded(key, ms)} = {Meets(x, ms) : x \in Forwarded(key, ms)}
  BY <1>4, <1>5
<1>7. JoinAll(UNION {Meets(x, ms) : x \in Forwarded(key, ms)})'
      = JoinAll(UNION {Meets(x, ms) : x \in Forwarded(key, ms)})
  BY <1>2, <1>6 DEF JoinAll
<1> QED BY <1>7 DEF Sum, LeastOf, Final

LeastInv == InOrder /\ Below

\* What a component forwards to is in it or in one before it.
LEMMA CalleesBefore ==
  ASSUME SccsInv, adj = CallGraph, NEW c \in DOMAIN out, NEW key \in Members(out[c]),
         NEW a \in Param(key).paths, Passes(a)
  PROVE  \E d \in 1 .. c : a.callee \in out[d] /\ Target(a) \in Members(out[d])
<1>1. /\ key[1] \in out[c] /\ key[1] \in Methods /\ key[2] \in DOMAIN sk[key[1]].params
      /\ a \in sk[key[1]].params[key[2]].paths
  BY DEF Members, Keys, Param
<1>2. a.kind = "forward" /\ Target(a) \in Disposables /\ a.callee \in Methods
      /\ Target(a)[1] = a.callee
  BY DEF Passes, Disposables, Members, Target
<1>3. a.callee \in CallGraph[key[1]]
  BY <1>1, <1>2 DEF CallGraph
<1>4. PICK d \in 1 .. c : a.callee \in out[d]
  BY <1>1, <1>3 DEF SccsInv, Whole
<1>5. Target(a) \in Members(out[d])
  BY <1>2, <1>4 DEF Disposables, Members
<1> QED BY <1>4, <1>5

\* So the solved components and the one in hand depend on final verdicts.
LEMMA GroundedAt ==
  ASSUME SccsInv, adj = CallGraph, NEW p \in 0 .. Len(out), SolvedTo(p),
         NEW c \in DOMAIN out, c <= p + 1
  PROVE  Grounded(out[c]) /\ out[c] \in SUBSET Methods
<1>0. Len(out) \in Nat /\ DOMAIN out = 1 .. Len(out) /\ c \in Nat /\ p \in Nat
  BY DEF SccsInv, Shapes
<1>1. out[c] \in SUBSET Methods
  <2>1. Met \subseteq Methods /\ out[c] \subseteq Met
    BY DEF SccsInv, Shapes, CallGraph
  <2> QED BY <2>1
<1>2. ASSUME NEW key \in Members(out[c]), NEW a \in Param(key).paths, Passes(a)
      PROVE  a.callee \in out[c] \/ Target(a) \in DOMAIN val
  <2>1. PICK d \in 1 .. c : a.callee \in out[d] /\ Target(a) \in Members(out[d])
    BY <1>2, CalleesBefore
  <2>2. CASE d # c
    <3>1. d \in 1 .. p
      BY <1>0, <2>2
    <3> QED BY <2>1, <3>1 DEF SolvedTo
  <2> QED BY <2>1, <2>2
<1> QED BY <1>1, <1>2 DEF Grounded

\* The component in hand is the next one.
LEMMA HeadIs ==
  ASSUME SccsInv, adj = CallGraph, IInv, NEW p \in 0 .. Len(out), SolvedTo(p),
         comps # <<>>
  PROVE  /\ p + 1 \in DOMAIN out /\ Head(comps) = out[p + 1]
         /\ Head(comps) \in SUBSET Methods /\ Grounded(Head(comps))
         /\ Len(comps) \in Nat /\ Len(comps) >= 1 /\ Len(out) \in Nat
         /\ DOMAIN out = 1 .. Len(out)
<1>1. Len(out) \in Nat /\ DOMAIN out = 1 .. Len(out)
  BY DEF SccsInv, Shapes
<1>2. Len(comps) \in Nat /\ Len(comps) >= 1 /\ Head(comps) = comps[1]
  <2> DEFINE S == SUBSET Methods
  <2>1. comps \in Seq(S)
    BY DEF IInv, Parted
  <2> HIDE DEF S
  <2> QED BY <2>1
<1>3. PICK l, n : l = Len(comps) /\ n = Len(out)
  OBVIOUS
<1>4. l = n - p /\ comps[1] = out[p + 1]
  BY <1>2, <1>3 DEF SolvedTo
<1>5. p + 1 \in DOMAIN out
  BY <1>1, <1>2, <1>3, <1>4
<1>6. p + 1 <= p + 1
  OBVIOUS
<1>7. Grounded(out[p + 1]) /\ out[p + 1] \in SUBSET Methods
  BY <1>5, <1>6, GroundedAt
<1> QED BY <1>1, <1>2, <1>4, <1>5, <1>7

\* While no component is settled the order stays.
LEMMA OrderStays ==
  ASSUME SccsInv, adj = CallGraph, InOrder,
         UNCHANGED <<sk, val, comps, out>>, phase # "graph"
  PROVE  InOrder'
<1>1. PICK p \in 0 .. Len(out) : SolvedTo(p)
  BY DEF InOrder
<1>2. Len(out) \in Nat /\ DOMAIN out = 1 .. Len(out)
  BY DEF SccsInv, Shapes
<1>3. \A d : Members(out[d])' = Members(out[d])
  BY SameSkeletons
<1>4. ASSUME NEW d \in 1 .. p, NEW key \in Members(out[d])
      PROVE  LeastOf(key, out[d])' = LeastOf(key, out[d])
  <2>1. d \in DOMAIN out /\ d <= p + 1
    BY <1>2
  <2>2. Grounded(out[d]) /\ out[d] \in SUBSET Methods
    BY <1>1, <2>1, GroundedAt
  <2>3. PICK ms : ms = out[d]
    OBVIOUS
  <2>4. LeastOf(key, ms)' = LeastOf(key, ms)
    BY <2>2, <2>3, SameLeast
  <2>5. LeastOf(key, out[d])' = LeastOf(key, ms)'
    BY <2>3 DEF LeastOf, Forwarded, Inside, Meets
  <2> QED BY <2>3, <2>4, <2>5
<1>5. /\ (Len(comps) = Len(out) - p)'
      /\ (\A j \in 1 .. Len(comps) : comps[j] = out[p + j])'
      /\ \A d \in 1 .. p : Members(out[d])' \subseteq DOMAIN val'
  BY <1>1, <1>3 DEF SolvedTo
<1>6. \A key \in DOMAIN val' : \E d \in 1 .. p :
        key \in Members(out[d])' /\ val'[key] = LeastOf(key, out[d])'
  <2> TAKE key \in DOMAIN val'
  <2>1. PICK d \in 1 .. p : key \in Members(out[d]) /\ val[key] = LeastOf(key, out[d])
    BY <1>1 DEF SolvedTo
  <2>2. key \in Members(out[d])'
    BY <1>3, <2>1
  <2> QED BY <1>4, <2>1, <2>2
<1>7. SolvedTo(p)'
  BY <1>5, <1>6 DEF SolvedTo
<1>8. (0 .. Len(out))' = 0 .. Len(out)
  OBVIOUS
<1> QED BY <1>1, <1>7, <1>8 DEF InOrder

\* No iterate of the component in hand goes above its sum.
LEMMA BelowStays ==
  ASSUME SccsInv, adj = CallGraph, IInv, InOrder, Below,
         UNCHANGED <<sk, val, comps>>, phase = "sweep", phase' = "sweep",
         DOMAIN cur' = DOMAIN cur,
         \A key \in DOMAIN cur : cur'[key] = cur[key] \/ cur'[key] = TransferOf(key)
  PROVE  Below'
<1>1. PICK p \in 0 .. Len(out) : SolvedTo(p)
  BY DEF InOrder
<1>2. /\ comps # <<>> /\ DOMAIN cur = Members(Head(comps))
      /\ DOMAIN cur \cap DOMAIN val = {} /\ Head(comps) = comps[1]
  <2>1. comps # <<>> /\ DOMAIN cur = Members(Head(comps))
    BY DEF IInv, Parted
  <2>2. 1 \in DOMAIN comps /\ Head(comps) = comps[1]
    <3> DEFINE S == SUBSET Methods
    <3>1. comps \in Seq(S) /\ comps # <<>>
      BY <2>1 DEF IInv, Parted
    <3> HIDE DEF S
    <3> QED BY <3>1
  <2> QED BY <2>1, <2>2 DEF IInv, Parted
<1>3. PICK ms \in SUBSET Methods : ms = Head(comps) /\ ms = comps[1] /\ Grounded(ms)
  BY <1>1, <1>2, HeadIs
<1>4. ASSUME NEW key \in DOMAIN cur
      PROVE  Leq(cur'[key], Sum(key, ms)')
  <2>1. Leq(cur[key], Sum(key, ms))
    BY <1>3 DEF Below
  <2>2. Leq(TransferOf(key), Sum(key, ms))
    BY <1>2, <1>3, EvaluateBelow DEF Below
  <2>3. Sum(key, ms)' = Sum(key, ms)
    BY <1>2, <1>3, SameLeast
  <2> QED BY <2>1, <2>2, <2>3
<1>5. comps'[1] = ms
  BY <1>3
<1>6. ASSUME NEW key \in DOMAIN cur
      PROVE  Sum(key, comps[1])' = Sum(key, ms)'
  BY <1>5 DEF Sum, Forwarded, Inside, Meets
<1> QED BY <1>4, <1>6 DEF Below

\* A component that is settled has its least verdicts.
LEMMA SettleOrder ==
  ASSUME SccsInv, adj = CallGraph, IInv, InOrder, Below, Settle, out' = out
  PROVE  InOrder'
<1>1. /\ phase = "sweep" /\ todo = {} /\ ~ changed /\ comps' = Tail(comps) /\ sk' = sk
      /\ DOMAIN val' = DOMAIN val \cup DOMAIN cur
      /\ \A key \in DOMAIN cur : val'[key] = Final(cur[key])
      /\ \A key \in DOMAIN val \ DOMAIN cur : val'[key] = val[key]
  BY DEF Settle
<1>2. PICK p \in 0 .. Len(out) : SolvedTo(p)
  BY <1>1 DEF InOrder
<1>3. comps # <<>> /\ DOMAIN cur = Members(Head(comps))
  BY <1>1 DEF IInv, Parted
<1>4. /\ p + 1 \in DOMAIN out /\ Head(comps) = out[p + 1]
      /\ Head(comps) \in SUBSET Methods /\ Grounded(Head(comps))
      /\ Len(comps) \in Nat /\ Len(comps) >= 1 /\ Len(out) \in Nat
      /\ DOMAIN out = 1 .. Len(out)
  BY <1>2, <1>3, HeadIs
<1>5. /\ Head(comps) = comps[1] /\ DOMAIN comps = 1 .. Len(comps)
      /\ Len(Tail(comps)) = Len(comps) - 1
      /\ \A j \in 1 .. Len(comps) - 1 : Tail(comps)[j] = comps[j + 1]
  <2> DEFINE S == SUBSET Methods
  <2>1. comps \in Seq(S)
    BY DEF IInv, Parted
  <2> HIDE DEF S
  <2> QED BY <1>3, <2>1
<1>6. DOMAIN cur \cap DOMAIN val = {}
  BY <1>1, <1>3, <1>4, <1>5 DEF IInv, Parted
<1>7. PICK ms \in SUBSET Methods : /\ ms = Head(comps) /\ ms = comps[1]
                                  /\ Grounded(ms) /\ DOMAIN cur = Members(ms)
  BY <1>3, <1>4, <1>5
<1>8. \A key \in DOMAIN val : key \in DOMAIN val' /\ val'[key] = val[key]
  BY <1>1, <1>6
<1>9. \A d : Members(out[d])' = Members(out[d])
  BY <1>1, SameSkeletons
<1>10. ASSUME NEW key \in DOMAIN cur
       PROVE  val'[key] = LeastOf(key, ms)'
  <2>1. \A y \in DOMAIN cur : cur[y] = TransferOf(y)
    BY <1>1 DEF IInv, Swept
  <2>2. Leq(Sum(key, ms), cur[key])
    BY <1>6, <1>7, <2>1, FixpointAbove
  <2>3. Leq(cur[key], Sum(key, ms))
    BY <1>1, <1>7 DEF Below
  <2>4. cur[key] \in Values /\ Sum(key, ms) \in Values
    BY SumType DEF IInv, Typed
  <2>5. cur[key] = Sum(key, ms)
    BY <2>2, <2>3, <2>4, LeqAnti
  <2>6. val'[key] = LeastOf(key, ms)
    BY <1>1, <2>5 DEF LeastOf, Sum
  <2>7. LeastOf(key, ms)' = LeastOf(key, ms)
    BY <1>1, <1>7, <1>8, SameLeast
  <2> QED BY <2>6, <2>7
<1>11. ASSUME NEW d \in 1 .. p, NEW key \in Members(out[d])
       PROVE  LeastOf(key, out[d])' = LeastOf(key, out[d])
  <2>1. d \in DOMAIN out /\ d <= p + 1
    BY <1>4
  <2>2. PICK ns \in SUBSET Methods : ns = out[d] /\ Grounded(ns)
    BY <1>2, <2>1, GroundedAt
  <2>3. LeastOf(key, ns)' = LeastOf(key, ns)
    BY <1>1, <1>8, <2>2, SameLeast
  <2>4. LeastOf(key, out[d])' = LeastOf(key, ns)'
    BY <2>2 DEF LeastOf, Forwarded, Inside, Meets
  <2> QED BY <2>2, <2>3, <2>4
<1>12. PICK q, l, n : q = p + 1 /\ l = Len(comps) /\ n = Len(out)
  OBVIOUS
<1>13. q \in 0 .. n /\ l = n - p /\ l \in Nat /\ n \in Nat /\ p \in Nat
  BY <1>2, <1>4, <1>12 DEF SolvedTo
<1>14. Len(comps') = n - q /\ \A j \in 1 .. Len(comps') : comps'[j] = out[q + j]
  <2>1. Len(comps') = l - 1
    BY <1>1, <1>5, <1>12
  <2>2. ASSUME NEW j \in 1 .. l - 1
        PROVE  comps'[j] = out[q + j]
    <3>1. comps'[j] = comps[j + 1] /\ j + 1 \in 1 .. l
      BY <1>1, <1>5, <1>12, <1>13
    <3>2. comps[j + 1] = out[p + (j + 1)] /\ p + (j + 1) = q + j
      BY <1>2, <1>12, <1>13, <3>1 DEF SolvedTo
    <3> QED BY <3>1, <3>2
  <2> QED BY <1>12, <1>13, <2>1, <2>2
<1>15. \A d \in 1 .. q : Members(out[d]) \subseteq DOMAIN val'
  <2> TAKE d \in 1 .. q
  <2>1. CASE d = q
    BY <1>1, <1>3, <1>4, <1>12, <2>1
  <2>2. CASE d \in 1 .. p
    BY <1>1, <1>2, <2>2 DEF SolvedTo
  <2> QED BY <1>12, <1>13, <2>1, <2>2
<1>16. \A key \in DOMAIN val' : \E d \in 1 .. q :
         key \in Members(out[d]) /\ val'[key] = LeastOf(key, out[d])'
  <2> TAKE key \in DOMAIN val'
  <2>1. CASE key \in DOMAIN cur
    <3>1. q \in 1 .. q /\ out[q] = ms /\ key \in Members(out[q])
      BY <1>4, <1>7, <1>12, <1>13, <2>1
    <3>2. out'[q] = ms
      BY <3>1
    <3>3. LeastOf(key, out[q])' = LeastOf(key, ms)'
      BY <3>2 DEF LeastOf, Forwarded, Inside, Meets
    <3> QED BY <1>10, <2>1, <3>1, <3>3
  <2>2. CASE key \in DOMAIN val
    <3>1. PICK d \in 1 .. p : key \in Members(out[d]) /\ val[key] = LeastOf(key, out[d])
      BY <1>2, <2>2 DEF SolvedTo
    <3>2. d \in 1 .. q
      BY <1>12, <1>13
    <3> QED BY <1>8, <1>11, <2>2, <3>1, <3>2
  <2> QED BY <1>1, <2>1, <2>2
<1>17. SolvedTo(q)'
  <2>1. (Len(comps) = Len(out) - q)' /\ (\A j \in 1 .. Len(comps) : comps[j] = out[q + j])'
    BY <1>12, <1>14
  <2>2. \A d \in 1 .. q : Members(out[d])' \subseteq DOMAIN val'
    BY <1>9, <1>15
  <2>3. \A key \in DOMAIN val' : \E d \in 1 .. q :
          key \in Members(out[d])' /\ val'[key] = LeastOf(key, out[d])'
    BY <1>9, <1>16
  <2> QED BY <2>1, <2>2, <2>3 DEF SolvedTo
<1> QED BY <1>12, <1>13, <1>17 DEF InOrder

\* The walk over, the component of a parameter is the whole one it is in.
LEMMA LeastDone ==
  ASSUME SccsInv, adj = CallGraph, IInv, InOrder
  PROVE  SummariesLeast
<1> SUFFICES ASSUME phase = "done", NEW key \in Disposables
             PROVE  val[key] = LeastOf(key, {m \in Reach(key[1]) : key[1] \in Reach(m)})
  BY DEF SummariesLeast
<1>1. PICK p \in 0 .. Len(out) : SolvedTo(p)
  BY DEF InOrder
<1>2. key \in DOMAIN val
  BY DEF IInv, Parted
<1>3. PICK d \in 1 .. p : key \in Members(out[d]) /\ val[key] = LeastOf(key, out[d])
  BY <1>1, <1>2 DEF SolvedTo
<1>4. d \in DOMAIN out /\ key[1] \in out[d]
  <2>1. Len(out) \in Nat /\ DOMAIN out = 1 .. Len(out)
    BY DEF SccsInv, Shapes
  <2> QED BY <1>3, <2>1 DEF Members
<1>5. out[d] = {m \in Reach(key[1]) : key[1] \in Reach(m)}
  BY <1>4 DEF SccsInv, Whole
<1> QED BY <1>3, <1>5

\* The first component is taken up: nothing is final yet.
LEMMA BeginLeast ==
  ASSUME SccsInv, IInv, Start(out), out' = out
  PROVE  LeastInv'
<1>1. phase = "graph" /\ phase' = "solve" /\ comps' = out /\ val' = val
  BY DEF Start
<1>2. DOMAIN val = {}
  BY <1>1 DEF IInv, Parted
<1>3. Len(out) \in Nat
  BY DEF SccsInv, Shapes
<1>4. 0 \in 0 .. Len(out) /\ Len(out) = Len(out) - 0
      /\ \A j \in 1 .. Len(out) : out[j] = out[0 + j]
  BY <1>3
<1>5. SolvedTo(0)'
  BY <1>1, <1>2, <1>4 DEF SolvedTo
<1> QED BY <1>1, <1>4, <1>5 DEF LeastInv, InOrder, Below

\* Every step of the solver keeps them.
LEMMA SolverLeast ==
  ASSUME SccsInv, adj = CallGraph, IInv, LeastInv, SolverStep, out' = out
  PROVE  LeastInv'
<1> USE DEF LeastInv
<1>1. CASE Take
  <2>1. UNCHANGED <<sk, val, comps>> /\ phase # "graph"
        /\ \A key \in DOMAIN cur' : cur'[key] = "bot"
    BY <1>1 DEF Take
  <2> QED BY <2>1, OrderStays DEF Below, Leq
<1>2. ASSUME UNCHANGED <<sk, val, comps>>, phase = "sweep", phase' = "sweep",
             DOMAIN cur' = DOMAIN cur,
             \A key \in DOMAIN cur : cur'[key] = cur[key] \/ cur'[key] = TransferOf(key)
      PROVE  LeastInv'
  BY <1>2, OrderStays, BelowStays
<1>3. CASE Again
  BY <1>2, <1>3 DEF Again
<1>4. ASSUME NEW key \in todo, Evaluate(key)
      PROVE  LeastInv'
  BY <1>2, <1>4 DEF Evaluate
<1>5. CASE Settle
  BY <1>5, SettleOrder DEF Settle, Below
<1>6. ASSUME UNCHANGED <<sk, val, comps>>, phase # "graph", phase' # "sweep"
      PROVE  LeastInv'
  BY <1>6, OrderStays DEF Below
<1>7. CASE Solved \/ Summarised
  BY <1>6, <1>7 DEF Solved, Summarised
<1>8. CASE Follow \/ HandBack
  BY <1>6, <1>8 DEF Follow, HandBack, Chasing
<1>9. ASSUME NEW m \in Methods, Ask(m)
      PROVE  LeastInv'
  BY <1>6, <1>9 DEF Ask
<1> QED BY <1>1, <1>3, <1>4, <1>5, <1>7, <1>8, <1>9 DEF SolverStep

\* So do the calls, which leave the solver alone.
LEMMA SameLeastInv ==
  ASSUME SccsInv, adj = CallGraph, IInv, LeastInv, UNCHANGED solver, out' = out
  PROVE  LeastInv'
<1>1. CASE phase = "graph"
  BY <1>1 DEF LeastInv, InOrder, Below, solver
<1>2. CASE phase = "sweep"
  BY <1>2, OrderStays, BelowStays DEF LeastInv, solver
<1>3. CASE phase \notin {"graph", "sweep"}
  BY <1>3, OrderStays DEF LeastInv, Below, solver
<1> QED BY <1>1, <1>2, <1>3
-----------------------------------------------------------------------------
(* `solve_with_log` as a whole. *)

\* The walk is over when the solver starts, and was on the table's graph.
Linked == adj = CallGraph /\ (phase # "graph" => SccsDone)

SummariesInv == SccsInv /\ Linked /\ IInv /\ RestInv /\ LeastInv

\* The table stays.
LEMMA SameTable ==
  ASSUME sk' = sk
  PROVE  CallGraph' = CallGraph
BY DEF CallGraph, Methods

\* The solver leaves the table alone and works when the components are known.
LEMMA SolverKeeps ==
  ASSUME SolverStep
  PROVE  sk' = sk /\ phase # "graph" /\ phase' # "graph"
BY DEF SolverStep, Take, Again, Settle, Solved, Follow, HandBack, Summarised,
       Evaluate, Ask, Chasing

\* It starts with the graph of the table.
LEMMA SummariesInitInv ==
  ASSUME SummariesInit
  PROVE  SummariesInv
<1> USE DEF SummariesInit
<1>1. IInv
  BY InitInv DEF Init
<1>2. PICK order \in KeyOrders : {order[j] : j \in DOMAIN order} = Methods
                                 /\ SccsInit(CallGraph, order)
  OBVIOUS
<1>3. Methods \subseteq Nat /\ order \in Seq(Methods)
  <2>1. order \in Seq(Nat)
    BY KeyOrdersAssumption
  <2>2. \A j \in DOMAIN order : order[j] \in Nat /\ order[j] \in Methods
    BY <1>2, <2>1
  <2>3. Methods \subseteq Nat
    BY <1>2, <2>2
  <2>4. Len(order) \in Nat /\ DOMAIN order = 1 .. Len(order) /\ order \in [1 .. Len(order) -> Nat]
    BY <2>1
  <2>5. order \in [1 .. Len(order) -> Methods]
    BY <2>2, <2>4
  <2>6. order \in Seq(Methods)
    BY <2>4, <2>5
  <2> QED BY <2>3, <2>6
<1>4. DOMAIN CallGraph = Methods /\ \A n \in Methods : CallGraph[n] \subseteq Methods
  BY DEF CallGraph
<1>5. SccsInv
  BY <1>2, <1>3, <1>4, SccsInitInv
<1>6. Linked
  BY <1>2 DEF Linked, SccsInit, MosInit
<1>7. RestInv
  BY InitRest
<1>8. LeastInv
  BY DEF LeastInv, InOrder, Below, MosInit
<1> QED BY <1>1, <1>5, <1>6, <1>7, <1>8 DEF SummariesInv

\* Every step keeps all of it.
LEMMA SummariesNextInv ==
  ASSUME SummariesInv, [SummariesNext]_allvars
  PROVE  SummariesInv'
<1> USE DEF SummariesInv
<1>1. CASE Condense
  <2>1. SccsInv' /\ adj' = adj
    BY <1>1, SccsStepInv DEF Condense, SccsStep, Root, Descend, Revisit, Finish, Meet
  <2>2. IInv' /\ sk' = sk /\ phase' = phase
    BY <1>1, StutterInv DEF Condense, vars, solver
  <2>3. phase = "graph"
    BY <1>1 DEF Condense, SccsStep, Root, Descend, Revisit, Finish, SccsDone, Linked
  <2>4. Linked' /\ LeastInv'
    BY <2>1, <2>2, <2>3, SameTable DEF Linked, LeastInv, InOrder, Below
  <2>5. RestInv'
    BY <1>1, OtherRest DEF Condense
  <2> QED BY <2>1, <2>2, <2>4, <2>5
<1>2. CASE Begin
  <2>1. SccsDone /\ Start(out) /\ UNCHANGED svars /\ UNCHANGED runvars
    BY <1>2 DEF Begin
  <2>2. ListOk(out)
    BY <2>1, InvListOk DEF Linked
  <2>3. IInv' /\ sk' = sk
    BY <2>1, <2>2, StartInv DEF Start
  <2>4. SccsInv' /\ adj' = adj /\ out' = out /\ SccsDone'
    BY <2>1, SccsStutter DEF svars, SccsDone
  <2>5. RestInv' /\ LeastInv'
    BY <2>1, <2>4, OtherRest, BeginLeast
  <2> QED BY <2>3, <2>4, <2>5, SameTable DEF Linked
<1>3. CASE Solve
  <2>1. SolverStep /\ UNCHANGED svars /\ UNCHANGED runvars
    BY <1>3 DEF Solve
  <2>2. IInv' /\ sk' = sk /\ phase # "graph"
    BY <2>1, SolverInv, SolverKeeps
  <2>3. SccsInv' /\ adj' = adj /\ out' = out /\ SccsDone' = SccsDone
    BY <2>1, SccsStutter DEF svars, SccsDone
  <2>4. RestInv' /\ LeastInv'
    BY <2>1, <2>3, SolverRest, SolverLeast DEF Linked
  <2> QED BY <2>2, <2>3, <2>4, SameTable DEF Linked
<1>4. CASE RunStep /\ UNCHANGED svars
  <2>1. IInv' /\ UNCHANGED solver
    BY <1>4, CallsInv DEF RunStep, Call, Fall, End, Enter
  <2>2. SccsInv' /\ adj' = adj /\ out' = out /\ SccsDone' = SccsDone
    BY <1>4, SccsStutter DEF svars, SccsDone
  <2>3. RestInv' /\ LeastInv'
    BY <1>4, <2>1, <2>2, OtherRest, SameLeastInv DEF Linked
  <2>4. sk' = sk /\ phase' = phase
    BY <2>1 DEF solver
  <2> QED BY <2>1, <2>2, <2>3, <2>4, SameTable DEF Linked
<1>5. CASE UNCHANGED allvars
  <2>1. IInv' /\ UNCHANGED solver /\ UNCHANGED vars
    BY <1>5, StutterInv DEF allvars, vars
  <2>2. SccsInv' /\ adj' = adj /\ out' = out /\ SccsDone' = SccsDone
    BY <1>5, SccsStutter DEF allvars, svars, SccsDone
  <2>3. RestInv' /\ LeastInv'
    BY <2>1, <2>2, OtherRest, SameLeastInv DEF Linked
  <2>4. sk' = sk /\ phase' = phase
    BY <2>1 DEF solver
  <2> QED BY <2>1, <2>2, <2>3, <2>4, SameTable DEF Linked
<1> QED BY <1>1, <1>2, <1>3, <1>4, <1>5 DEF SummariesNext

\* The walk and the solver keep the invariant for ever.
THEOREM SummariesInvariant == SummariesSpec => []SummariesInv
<1>1. SummariesInit => SummariesInv
  BY SummariesInitInv
<1>2. SummariesInv /\ [SummariesNext]_allvars => SummariesInv'
  BY SummariesNextInv
<1> QED BY <1>1, <1>2, PTL DEF SummariesSpec

(***************************************************************************)
(* `_sccs`, "every component precedes its callers": whatever the call      *)
(* graph and whatever the order of the table, each component Tarjan's walk *)
(* emits is a whole one, once, after all it depends on.                    *)
(***************************************************************************)
THEOREM ComponentsBottomUp == SummariesSpec => []BottomUp
<1>1. SummariesInv => BottomUp
  BY InvBottomUp DEF SummariesInv
<1> QED BY <1>1, SummariesInvariant, PTL

\* The summaries of `solve_with_log` with its own components are sound.
THEOREM SummariesAreSound == SummariesSpec => []TransferSound
<1>1. SummariesInv => TransferSound
  BY DEF SummariesInv, IInv
<1> QED BY <1>1, SummariesInvariant, PTL

\* Its sweeps of those components never lower an iterate.
THEOREM SweepsRise == SummariesSpec => OnlyRises
<1>1. /\ SummariesInv /\ [SummariesNext]_allvars
      => [phase = "sweep" /\ phase' = "sweep" =>
            \A key \in DOMAIN cur : Leq(cur[key], cur'[key])]_vars
  <2> SUFFICES ASSUME SummariesInv, SummariesNext, ~ UNCHANGED vars,
                      phase = "sweep", phase' = "sweep"
               PROVE  \A key \in DOMAIN cur : Leq(cur[key], cur'[key])
    BY DEF allvars
  <2>1. (SolverStep /\ UNCHANGED runvars) \/ RunStep
    BY DEF SummariesNext, Condense, Begin, Start, Solve
  <2> QED BY <2>1, StepRises DEF SummariesInv
<1> QED BY <1>1, SummariesInvariant, PTL DEF SummariesSpec, OnlyRises

(***************************************************************************)
(* "Cycles are solved to their least fixpoint": whatever the table and the *)
(* order of its methods, the verdict on a parameter is the join of all it  *)
(* meets by forwarding any number of times inside its component; no cycle  *)
(* of forwards makes itself an owner.                                      *)
(***************************************************************************)
THEOREM SummariesAreLeast == SummariesSpec => []SummariesLeast
<1>1. SummariesInv => SummariesLeast
  BY LeastDone DEF SummariesInv, Linked, LeastInv
<1> QED BY <1>1, SummariesInvariant, PTL

\* `resolve_return` with its memo says of each method what the end of its
\* chain of forwards says, in whatever order the methods are asked about.
THEOREM ReturnsAreExact == SummariesSpec => []ReturnsExact
<1>1. SummariesInv => ReturnsExact
  BY RestDone DEF SummariesInv
<1> QED BY <1>1, SummariesInvariant, PTL

\* `unresolved` names every forward out of the table and nothing else.
THEOREM LogIsComplete == SummariesSpec => []LogComplete
<1>1. SummariesInv => LogComplete
  BY RestDone DEF SummariesInv
<1> QED BY <1>1, SummariesInvariant, PTL

(***************************************************************************)
(* With its own components the solver is the solver of MosRun, handed one  *)
(* of the lists that module allows; the walk before it is not seen.  The   *)
(* premise is that MosRun may be handed any list of sets of methods.       *)
(***************************************************************************)
THEOREM CondensationImplements ==
  Seq(SUBSET Nat) \subseteq Orders => (SummariesSpec => Init /\ [][Next]_vars)
<1> SUFFICES ASSUME Seq(SUBSET Nat) \subseteq Orders
             PROVE  SummariesSpec => Init /\ [][Next]_vars
  OBVIOUS
<1>1. SummariesInit => Init
  BY DEF SummariesInit, Init
<1>2. SummariesInv /\ [SummariesNext]_allvars => [Next]_vars
  <2> SUFFICES ASSUME SummariesInv, SummariesNext, ~ UNCHANGED vars
               PROVE  Next
    BY DEF allvars
  <2>1. CASE Begin
    <3>1. ListOk(out)
      BY <2>1, InvListOk DEF Begin, SummariesInv, Linked
    <3>2. out \in Seq(SUBSET Nat)
      <4>1. out \in Seq(SUBSET Met) /\ Met \subseteq Nat
        BY DEF SummariesInv, SccsInv, Shapes, GraphOk
      <4>2. SUBSET Met \subseteq SUBSET Nat
        BY <4>1
      <4> DEFINE S == SUBSET Met
                 T == SUBSET Nat
      <4>3. out \in Seq(S) /\ S \subseteq T
        BY <4>1, <4>2
      <4> HIDE DEF S, T
      <4>4. out \in Seq(T)
        BY <4>3
      <4> QED BY <4>4 DEF T
    <3> QED BY <2>1, <3>1, <3>2 DEF Begin, Next
  <2>2. CASE Solve \/ RunStep
    BY <2>2 DEF Solve, Next
  <2> QED BY <2>1, <2>2 DEF SummariesNext, Condense
<1> QED BY <1>1, <1>2, SummariesInvariant, PTL DEF SummariesSpec
=============================================================================
