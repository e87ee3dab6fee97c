----------------------------- MODULE FactsProofs -----------------------------
(***************************************************************************)
(* What check_facts reports, for every document: the region lifetimes, the *)
(* effects and the registrations of the services.  Each analysis has an    *)
(* inductive invariant; a step of one leaves the others alone, so that     *)
(* together they are one of FactsSpec.                                     *)
(***************************************************************************)
EXTENDS Facts, EffectInvariants, DiGraphProofs

-----------------------------------------------------------------------------
(* The region lifetimes. *)

(* What the search of the regions keeps: the regions whose search is over   *)
(* have exactly their chains, and the one searched has its chains found or  *)
(* on the stack.                                                            *)
RegionsTyped ==
  /\ starts \subseteq Regions(lmod) /\ start \subseteq Regions(lmod)
  /\ starts \cap start = {} /\ \A r, s \in start : r = s
  /\ longer \in [Regions(lmod) -> SUBSET Regions(lmod)]
  /\ \A r \in starts : longer[r] = {}
  /\ diags # << >> => starts = {} /\ start = {}

Explored(r) == \A s : s \in longer[r] <=> Chain(r, s)

Exploring(r) ==
  /\ Direct(r) \subseteq longer[r] \cup frontier
  /\ \A x \in longer[r] : Direct(x) \subseteq longer[r] \cup frontier
  /\ \A x \in longer[r] \cup frontier : Chain(r, x)

LtInv ==
  /\ RegionsTyped
  /\ \A r \in Regions(lmod) \ (starts \cup start) : Explored(r)
  /\ \A r \in start : Exploring(r)
  /\ start = {} => frontier = {}
  /\ EscapesExact

(* The longer regions a declaration names are regions of the module. *)
LEMMA DirectAreRegions == \A r : Direct(r) \subseteq Regions(lmod)
  BY DEF Direct, Regions

(* A chain starts with a declaration, and goes on with the next. *)
LEMMA ChainStarts == \A r : \A s \in Direct(r) : Chain(r, s)
  BY DirectAreRegions DEF Chain

(* A chain goes on with any declaration of the region where it ends. *)
LEMMA ChainGoesOn == \A r, x : Chain(r, x) => \A s \in Direct(x) : Chain(r, s)
  BY DirectAreRegions DEF Chain

(* What holds the direct longer regions of a region, and of its own         *)
(* members, holds every region at the end of a chain.                       *)
LEMMA ChainStaysIn ==
  ASSUME NEW r, NEW S, S \subseteq Regions(lmod), Direct(r) \subseteq S,
         \A x \in S : Direct(x) \subseteq S, NEW s, Chain(r, s)
  PROVE  s \in S
  BY DEF Chain

(* A search that has nothing left on its stack has found its chains. *)
LEMMA SearchComplete ==
  ASSUME NEW r \in Regions(lmod), RegionsTyped, Exploring(r), frontier = {}
  PROVE  Explored(r)
<1>1. longer[r] \subseteq Regions(lmod)
  BY DEF RegionsTyped
<1>2. \A s : Chain(r, s) => s \in longer[r]
  BY <1>1, ChainStaysIn DEF Exploring
<1> QED BY <1>2 DEF Exploring, Explored

(* The inputs of check_lifetimes leave the searches still to come. *)
LEMMA LtInitInv == ASSUME NEW given, LtInit(given) PROVE LtInv
  BY DEF LtInit, LtInv, RegionsTyped, EscapesExact, LtDone

(* The declarations do not change, and neither do the chains. *)
LEMMA ChainsStay ==
  ASSUME lmod' = lmod
  PROVE  /\ Regions(lmod)' = Regions(lmod)
         /\ \A r : Direct(r)' = Direct(r)
         /\ \A r, s : Chain(r, s)' <=> Chain(r, s)
  BY DEF Regions, Declared, Direct, Chain

(* The diagnostics stay, once they are made. *)
LEMMA EscapesStay ==
  ASSUME EscapesExact, UNCHANGED <<lmod, diags>> PROVE EscapesExact'
<1>1. Declared(lmod)' = Declared(lmod) /\ \A r, s : Chain(r, s)' <=> Chain(r, s)
  BY ChainsStay DEF Declared
<1>2. lmod' = lmod /\ diags' = diags
  OBVIOUS
<1> QED BY <1>1, <1>2 DEF EscapesExact, LtDone

(* What is judged are the chains. *)
LEMMA LtJudged == ASSUME LtInv, JudgeRegions PROVE EscapesExact'
<1> SUFFICES
      /\ \A j \in DOMAIN lmod.decls :
           j \in Cyclic <=> Chain(lmod.decls[j].name, lmod.decls[j].name)
      /\ \A j \in DOMAIN lmod.functions :
           \A p \in DOMAIN lmod.functions[j].params :
             p \in Escapes(lmod.functions[j]) <=>
               /\ p \in lmod.functions[j].subs
               /\ \E r \in lmod.functions[j].life, s \in lmod.functions[j].params[p] :
                    Chain(r, s) /\ {r, s} \subseteq Declared(lmod)
  <2> DEFINE d == [redeclared |-> Redeclared, unknown |-> UnknownLonger, cyclic |-> Cyclic,
                 untagged |-> [j \in DOMAIN lmod.functions |->
                                 {t \in Tags(lmod.functions[j]) : t # Known(t)}],
                 escapes |-> [j \in DOMAIN lmod.functions |-> Escapes(lmod.functions[j])]]
  <2>1. lmod' = lmod /\ diags'[1] = d
    BY DEF JudgeRegions
  <2>2. /\ diags'[1].cyclic = Cyclic
        /\ \A j \in DOMAIN lmod.functions : diags'[1].escapes[j] = Escapes(lmod.functions[j])
    BY <2>1
  <2>3. /\ Declared(lmod)' = Declared(lmod)
        /\ \A r, s : Chain(r, s)' <=> Chain(r, s)
    BY <2>1, ChainsStay DEF Declared
  <2> QED BY <2>1, <2>2, <2>3 DEF EscapesExact
<1>1. \A r \in Regions(lmod) : Explored(r)
  BY DEF LtInv, JudgeRegions
<1>2. Declared(lmod) \subseteq Regions(lmod)
  BY DEF Regions
<1>3. \A j \in DOMAIN lmod.decls : lmod.decls[j].name \in Regions(lmod)
  BY <1>2 DEF Declared
<1>4. \A j \in DOMAIN lmod.decls :
        j \in Cyclic <=> Chain(lmod.decls[j].name, lmod.decls[j].name)
  BY <1>1, <1>3 DEF Cyclic, Explored
<1>5. ASSUME NEW j \in DOMAIN lmod.functions, NEW p \in DOMAIN lmod.functions[j].params
      PROVE  p \in Escapes(lmod.functions[j]) <=>
               /\ p \in lmod.functions[j].subs
               /\ \E r \in lmod.functions[j].life, s \in lmod.functions[j].params[p] :
                    Chain(r, s) /\ {r, s} \subseteq Declared(lmod)
  BY <1>1, <1>2 DEF Escapes, Known, Explored
<1> QED BY <1>4, <1>5

(* Every step of the search, and the judgement, keeps the invariant. *)
LEMMA LtNextInv == ASSUME LtInv, LtNext PROVE LtInv'
<1>0. /\ lmod' = lmod /\ Regions(lmod)' = Regions(lmod)
      /\ \A r : Direct(r)' = Direct(r)
      /\ \A r, s : Chain(r, s)' <=> Chain(r, s)
  BY ChainsStay DEF LtNext, Search, PopRegion, Searched, JudgeRegions
<1>1. CASE Search
  <2>1. PICK r \in starts :
          starts' = starts \ {r} /\ start' = {r} /\ frontier' = Direct(r)
    BY <1>1 DEF Search
  <2>2. longer' = longer /\ diags' = diags /\ start = {}
    BY <1>1 DEF Search
  <2>3. RegionsTyped'
    BY <1>0, <2>1, <2>2 DEF LtInv, RegionsTyped
  <2>4. longer[r] = {}
    BY DEF LtInv, RegionsTyped
  <2>5. Exploring(r)'
    BY <1>0, <2>1, <2>2, <2>4, ChainStarts DEF Exploring
  <2>6. \A x \in (Regions(lmod) \ (starts \cup start))' : Explored(x)'
    BY <1>0, <2>1, <2>2 DEF LtInv, Explored
  <2>7. EscapesExact'
    BY <1>0, <2>2, EscapesStay DEF LtInv
  <2> QED BY <2>1, <2>3, <2>5, <2>6, <2>7 DEF LtInv
<1>2. CASE PopRegion
  <2>1. PICK s \in start, r \in frontier :
          /\ longer' = [longer EXCEPT ![s] = @ \cup {r}]
          /\ frontier' = IF r \in longer[s] THEN frontier \ {r}
                         ELSE (frontier \ {r}) \cup Direct(r)
    BY <1>2 DEF PopRegion
  <2>2. UNCHANGED <<starts, start, diags>>
    BY <1>2 DEF PopRegion
  <2>3. s \in Regions(lmod) /\ start = {s} /\ s \notin starts
    BY DEF LtInv, RegionsTyped
  <2>4. Chain(s, r) /\ r \in Regions(lmod)
    BY DEF LtInv, Exploring, Chain
  <2>5. longer'[s] = longer[s] \cup {r} /\ \A x \in Regions(lmod) \ {s} : longer'[x] = longer[x]
    BY <2>1, <2>3 DEF LtInv, RegionsTyped
  <2>6. RegionsTyped'
    BY <1>0, <2>1, <2>2, <2>3, <2>4, <2>5 DEF LtInv, RegionsTyped
  <2>7. \A x \in Direct(r) : Chain(s, x)
    BY <2>4, ChainGoesOn
  <2>8. Exploring(s)
    BY DEF LtInv
  <2>9. Exploring(s)'
    BY <1>0, <2>1, <2>4, <2>5, <2>7, <2>8 DEF Exploring
  <2>10. \A x \in (Regions(lmod) \ (starts \cup start))' : Explored(x)'
    BY <1>0, <2>2, <2>3, <2>5 DEF LtInv, Explored
  <2>11. EscapesExact'
    BY <1>0, <2>2, EscapesStay DEF LtInv
  <2> QED BY <2>2, <2>3, <2>6, <2>9, <2>10, <2>11 DEF LtInv
<1>3. CASE Searched
  <2>1. /\ start' = {} /\ frontier = {} /\ start # {}
        /\ UNCHANGED <<starts, frontier, longer, diags>>
    BY <1>3 DEF Searched
  <2>2. RegionsTyped'
    BY <1>0, <2>1 DEF LtInv, RegionsTyped
  <2>3. \A r \in Regions(lmod) \ starts : Explored(r)
    BY <2>1, SearchComplete DEF LtInv
  <2>4. \A r \in (Regions(lmod) \ (starts \cup start))' : Explored(r)'
    BY <1>0, <2>1, <2>3 DEF Explored
  <2>5. EscapesExact'
    BY <1>0, <2>1, EscapesStay DEF LtInv
  <2> QED BY <2>1, <2>2, <2>4, <2>5 DEF LtInv
<1>4. CASE JudgeRegions
  <2>1. /\ starts = {} /\ start = {} /\ frontier = {}
        /\ UNCHANGED <<starts, start, frontier, longer>>
    BY <1>4 DEF JudgeRegions
  <2>2. RegionsTyped'
    BY <1>0, <2>1 DEF LtInv, RegionsTyped
  <2>3. \A r \in (Regions(lmod) \ (starts \cup start))' : Explored(r)'
    BY <1>0, <2>1 DEF LtInv, Explored
  <2> QED BY <1>4, <2>1, <2>2, <2>3, LtJudged DEF LtInv
<1> QED BY <1>1, <1>2, <1>3, <1>4 DEF LtNext

(* Steps that leave the lifetimes alone keep it. *)
LEMMA LtStutters == ASSUME LtInv, UNCHANGED ltvars PROVE LtInv'
<1>1. /\ lmod' = lmod /\ Regions(lmod)' = Regions(lmod)
      /\ \A r : Direct(r)' = Direct(r)
      /\ \A r, s : Chain(r, s)' <=> Chain(r, s)
  BY ChainsStay DEF ltvars
<1>2. UNCHANGED <<starts, start, frontier, longer, diags>>
  BY DEF ltvars
<1>3. RegionsTyped' /\ \A r : (Explored(r)' <=> Explored(r)) /\ (Exploring(r)' <=> Exploring(r))
  BY <1>1, <1>2 DEF LtInv, RegionsTyped, Explored, Exploring
<1>4. EscapesExact'
  BY <1>1, <1>2, EscapesStay DEF LtInv
<1> QED BY <1>1, <1>2, <1>3, <1>4 DEF LtInv

-----------------------------------------------------------------------------
(* The effects. *)

(* What a table refers to are names. *)
LEMMA RefsAreNames ==
  ASSUME IsTable(table) PROVE \A n : RefsOf(n) \subseteq Names
<1> SUFFICES ASSUME NEW n, n \in Bound PROVE RefsOf(n) \subseteq Names
  BY DEF RefsOf
<1>1. table[n].refs \in Seq(Names)
  BY DEF IsTable
<1> QED BY <1>1 DEF RefsOf, Binding

(* A fresh binding is unsteady itself. *)
LEMMA FreshUnsteady == \A n \in Fresh : Unsteady(n)
  BY DEF Fresh, Unsteady, Reaches, Names

(* What refers to something unsteady is unsteady. *)
LEMMA UnsteadyBack ==
  ASSUME NEW n, NEW x \in RefsOf(n), Unsteady(x) PROVE Unsteady(n)
<1>1. Reaches(x) \subseteq Reaches(n)
  BY DEF Reaches
<1> QED BY <1>1 DEF Unsteady

(* With no activation open, and nothing unstable, a settled name is steady. *)
LEMMA SettledIsSteady ==
  ASSUME IsTable(table), Memory, ~ Hot, stack = << >>, NEW n \in Names, Settled(n)
  PROVE  ~ Unsteady(n)
<1> DEFINE S == {x \in Names : x \notin Bound \/ x \in DOMAIN memo}
<1>1. Open = {}
  BY DEF Open
<1>2. n \in S
  BY <1>1 DEF Settled
<1>3. ASSUME NEW y \in S PROVE RefsOf(y) \subseteq S
  <2>1. CASE y \notin Bound
    BY <2>1 DEF RefsOf
  <2>2. CASE y \in DOMAIN memo
    <3>1. \A x \in RefsOf(y) : Settled(x)
      BY <2>2 DEF Memory
    <3> QED BY <1>1, <3>1, RefsAreNames DEF Settled
  <2> QED BY <2>1, <2>2
<1>4. S \cap Fresh = {}
  BY DEF Memory, Fresh
<1>5. Reaches(n) \subseteq S
  <2>1. S \in SUBSET Names
    OBVIOUS
  <2> HIDE DEF S
  <2> QED BY <1>2, <1>3, <2>1 DEF Reaches
<1> QED BY <1>4, <1>5 DEF Unsteady

(* The bindings stay, and with them what they say of a name. *)
LEMMA TableStays ==
  ASSUME table' = table
  PROVE  /\ IsTable(table)' <=> IsTable(table)
         /\ \A n : Binding(n)' = Binding(n) /\ RefsOf(n)' = RefsOf(n)
         /\ Fresh' = Fresh
         /\ \A n : Unsteady(n)' <=> Unsteady(n)
         /\ \A n, p : Evidence(n, p)' <=> Evidence(n, p)
<1>1. /\ IsTable(table)' <=> IsTable(table)
      /\ \A n : Binding(n)' = Binding(n) /\ RefsOf(n)' = RefsOf(n)
  BY DEF Binding, RefsOf, IsTable
<1>2. Fresh' = Fresh
  BY <1>1 DEF Fresh
<1>3. \A n : Reaches(n)' = Reaches(n)
  BY <1>1 DEF Reaches
<1>4. \A n : Unsteady(n)' <=> Unsteady(n)
  BY <1>2, <1>3 DEF Unsteady
<1>5. \A n, p : Evidence(n, p)' <=> Evidence(n, p)
  BY <1>1, <1>2 DEF Evidence
<1> QED BY <1>1, <1>2, <1>4, <1>5

(* A step that touches neither the activations nor the memo leaves what is  *)
(* said of them alone.                                                      *)
LEMMA Calm ==
  ASSUME UNCHANGED <<table, next, stack, memo>>
  PROVE  /\ InHand' = InHand
         /\ \A x : Settled(x)' <=> Settled(x)
         /\ StackRight => StackRight'
         /\ \A n, r : Proven(n, r)' <=> Proven(n, r)
<1>1. InHand' = InHand
  BY TableStays DEF InHand, Asked, Top
<1>2. \A x : Settled(x)' <=> Settled(x)
  BY DEF Settled, Open
<1>3. \A f : (FrameRight(f)' <=> FrameRight(f)) /\ Asked(f)' = Asked(f)
  BY TableStays DEF FrameRight, Asked
<1>4. StackRight => StackRight'
  BY <1>3 DEF StackRight
<1>5. \A n, r : Proven(n, r)' <=> Proven(n, r)
  BY TableStays DEF Proven
<1> QED BY <1>1, <1>2, <1>4, <1>5

Work == EffTyped /\ StackRight /\ AtWork /\ Through /\ Memory /\ Judged

(* The activations are those of bindings. *)
LEMMA FramesTyped ==
  ASSUME EffTyped
  PROVE  \A j \in DOMAIN stack :
           stack[j].name \in Bound /\ stack[j].ref \in Nat /\ stack[j].worst \in Results
<1>1. \A j \in DOMAIN stack : stack[j] \in Frames
  BY DEF EffTyped
<1> QED BY <1>1 DEF Frames

(* A name is returned with a result of its own. *)
LEMMA Answered ==
  ASSUME Work, NEW r \in Results, call \in Names, Settled(call), Proven(call, r),
         Answer(r), UNCHANGED <<table, io, next, stack, memo, storm>>
  PROVE  Work'
<1>1. call # None /\ call = InHand /\ ret = << >>
  BY NamesAssumption DEF Work, EffTyped, AtWork
<1>2. /\ InHand' = InHand /\ StackRight'
      /\ \A x : Settled(x)' <=> Settled(x)
      /\ \A n, q : Proven(n, q)' <=> Proven(n, q)
  BY Calm DEF Work
<1>3. ret' = <<r>> /\ call' = None
  BY DEF Answer
<1>4. EffTyped'
  BY <1>3, TableStays DEF Work, EffTyped
<1>5. AtWork'
  BY <1>1, <1>3 DEF Work, AtWork, Top
<1>6. Through'
  <2>1. Settled(InHand)' /\ Proven(InHand, ret[1])'
    BY <1>1, <1>2, <1>3
  <2>2. ASSUME NEW j \in DOMAIN stack, NEW k \in DOMAIN Binding(stack[j].name).refs,
               k < stack[j].ref
        PROVE  Settled(Binding(stack[j].name).refs[k])
    BY <1>1, <2>2 DEF Work, Through, InHand, Asked, Top
  <2> QED BY <1>2, <2>1, <2>2, TableStays DEF Through
<1>7. Memory'
  <2>1. Hot => Hot'
    BY <1>1 DEF Hot
  <2> QED BY <1>2, <2>1, TableStays DEF Work, Memory
<1>8. Judged'
  BY TableStays DEF Work, Judged
<1> QED BY <1>2, <1>4, <1>5, <1>6, <1>7, <1>8 DEF Work

(* The next dependency is asked for. *)
LEMMA EffAsk == ASSUME Work, Ask PROVE Work'
<1>1. /\ call = None /\ ret = << >> /\ stack = << >> /\ storm = << >>
      /\ next \in DOMAIN DepList /\ call' = DepList[next]
      /\ UNCHANGED <<table, io, next, ret, stack, memo, storm>>
  BY DEF Ask, Idle
<1>2. /\ InHand' = InHand /\ StackRight'
      /\ \A x : Settled(x)' <=> Settled(x)
      /\ \A n, q : Proven(n, q)' <=> Proven(n, q)
  BY <1>1, Calm DEF Work
<1>3. call' \in Names
  BY <1>1, DepsAssumption
<1>4. EffTyped'
  BY <1>1, <1>3, TableStays DEF Work, EffTyped
<1>5. AtWork'
  BY <1>1, <1>2 DEF AtWork, InHand
<1>6. Through'
  BY <1>1 DEF Through
<1>7. Memory'
  <2>1. Hot => Hot'
    BY <1>1 DEF Hot
  <2> QED BY <1>1, <1>2, <2>1, TableStays DEF Work, Memory
<1>8. Judged'
  BY <1>1, TableStays DEF Work, Judged
<1> QED BY <1>2, <1>4, <1>5, <1>6, <1>7, <1>8 DEF Work

(* A name already classified is answered from the memo. *)
LEMMA EffMemoHit == ASSUME Work, MemoHit PROVE Work'
<1>1. /\ call \in DOMAIN memo /\ Answer(memo[call])
      /\ UNCHANGED <<table, io, next, stack, memo, storm>>
  BY DEF MemoHit
<1>2. /\ call \in Names /\ memo[call] \in Results /\ Proven(call, memo[call])
  BY <1>1 DEF Work, EffTyped, Memory, Names
<1> QED BY <1>1, <1>2, Answered DEF Settled

(* A name that is not bound is a parameter, or opaque. *)
LEMMA EffUnbound == ASSUME Work, Unbound PROVE Work'
<1> DEFINE r == Result(IF call \in Plain THEN "stable" ELSE "unknown", <<call>>)
<1>1. /\ call \in Plain \cup Opaque /\ Answer(r)
      /\ UNCHANGED <<table, io, next, stack, memo, storm>>
  BY DEF Unbound
<1>2. call \in Names /\ call \notin Bound
  BY <1>1, NamesAssumption DEF Names
<1>3. r \in Results /\ Proven(call, r)
  BY <1>2 DEF Result, Results, Stability, Proven, Unstable
<1> QED BY <1>1, <1>2, <1>3, Answered DEF Settled

(* A name being classified cuts its cycle. *)
LEMMA EffCycleCut == ASSUME Work, CycleCut PROVE Work'
<1> DEFINE r == Result("unknown", <<call>>)
<1>1. /\ call \in Open /\ Answer(r)
      /\ UNCHANGED <<table, io, next, stack, memo, storm>>
  BY DEF CycleCut
<1>2. call \in Names
  BY <1>1, FramesTyped DEF Work, Open, Names
<1>3. r \in Results /\ Proven(call, r)
  BY <1>2 DEF Result, Results, Stability, Proven, Unstable
<1> QED BY <1>1, <1>2, <1>3, Answered DEF Settled

(* The top activation changes, those below it stay. *)
LEMMA TopReplaced ==
  ASSUME NEW S, NEW s \in Seq(S), s # << >>, NEW f \in S
  PROVE  LET t == Append(SubSeq(s, 1, Len(s) - 1), f) IN
         /\ t \in Seq(S) /\ Len(t) = Len(s) /\ DOMAIN t = DOMAIN s /\ t # << >>
         /\ t[Len(s)] = f
         /\ \A j \in 1 .. Len(s) - 1 : t[j] = s[j]
<1> DEFINE b == SubSeq(s, 1, Len(s) - 1)
<1>1. /\ Len(s) \in Nat /\ Len(s) >= 1 /\ b \in Seq(S) /\ Len(b) = Len(s) - 1
      /\ \A j \in 1 .. Len(s) - 1 : b[j] = s[j]
  BY TopOf
<1> HIDE DEF b
<1> QED BY <1>1

(* The name asked for is entered. *)
LEMMA EffEnter == ASSUME Work, Enter PROVE Work'
<1>1. /\ call \in Bound /\ call \notin Open /\ call \notin DOMAIN memo
      /\ call # None /\ ret = << >> /\ call = InHand
      /\ storm = << >> /\ next \in DOMAIN DepList
      /\ call' = None
      /\ UNCHANGED <<table, io, next, ret, memo, storm>>
  BY NamesAssumption DEF Enter, Work, AtWork, EffTyped, Names
<1>2. PICK f : f = [name |-> call, ref |-> 1, worst |-> Result("stable", <<call>>)]
  OBVIOUS
<1>3. stack' = Append(stack, f)
  BY <1>2 DEF Enter
<1>4. f.name = call /\ f.ref = 1 /\ ~ Unstable(f.worst) /\ f \in Frames
  BY <1>1, <1>2 DEF Result, Unstable, Frames, Results, Stability, Names
<1>5. PICK n : n = Len(stack)
  OBVIOUS
<1>6. /\ n \in Nat /\ stack \in Seq(Frames) /\ stack' \in Seq(Frames)
      /\ DOMAIN stack = 1 .. n /\ DOMAIN stack' = 1 .. n + 1 /\ Len(stack') = n + 1
      /\ stack'[n + 1] = f /\ \A j \in 1 .. n : stack'[j] = stack[j]
  BY <1>3, <1>4, <1>5 DEF Work, EffTyped
<1>7. Open' = Open \cup {call}
  BY <1>4, <1>6 DEF Open
<1>8. \A x : Settled(x) => Settled(x)'
  BY <1>1, <1>7 DEF Settled
<1>9. EffTyped'
  BY <1>1, <1>6, TableStays DEF Work, EffTyped
<1>10. \A g : (FrameRight(g)' <=> FrameRight(g)) /\ Asked(g)' = Asked(g)
  BY <1>1, TableStays DEF FrameRight, Asked
<1>11. StackRight'
  <2>1. FrameRight(f)
    <3>1. table[call].refs \in Seq(Names)
      BY <1>1 DEF Work, EffTyped, IsTable
    <3>2. Len(table[call].refs) \in Nat
      BY <3>1
    <3> QED BY <1>1, <1>4, <3>2 DEF FrameRight, Binding
  <2>2. \A j \in DOMAIN stack' : FrameRight(stack'[j])
    BY <1>6, <2>1 DEF Work, StackRight
  <2>3. \A i, j \in DOMAIN stack' : stack'[i].name = stack'[j].name => i = j
    BY <1>1, <1>4, <1>6 DEF Work, StackRight, Open
  <2>4. ASSUME NEW j \in DOMAIN stack', j < Len(stack')
        PROVE  stack'[j].ref > 1 /\ stack'[j + 1].name = Asked(stack'[j])
    <3>1. CASE j = n
      <4>1. stack # << >> /\ Top = stack'[j]
        BY <1>5, <1>6, <2>4, <3>1 DEF Top
      <4> QED BY <1>1, <1>4, <1>6, <3>1, <4>1 DEF Work, AtWork, InHand
    <3>2. CASE j # n
      BY <1>5, <1>6, <2>4, <3>2 DEF Work, StackRight
    <3> QED BY <3>1, <3>2
  <2>5. stack'[1].name = DepList[next]
    BY <1>1, <1>4, <1>5, <1>6 DEF Work, StackRight, InHand
  <2> QED BY <1>1, <1>10, <2>2, <2>3, <2>4, <2>5 DEF StackRight
<1>12. AtWork'
  BY <1>1 DEF AtWork
<1>13. Through'
  <2>1. ASSUME NEW j \in DOMAIN stack', NEW k \in DOMAIN Binding(stack'[j].name).refs,
               k < stack'[j].ref, NEW x, x = Binding(stack'[j].name).refs[k]
        PROVE  Settled(x)'
    <3>1. CASE j = n + 1
      <4>1. table[call].refs \in Seq(Names)
        BY <1>1 DEF Work, EffTyped, IsTable
      <4> QED BY <1>4, <1>6, <2>1, <3>1, <4>1 DEF Binding
    <3>2. CASE j # n + 1
      <4>1. j \in DOMAIN stack /\ stack'[j] = stack[j]
        BY <1>6, <3>2
      <4>2. Settled(x) \/ x = call
        BY <1>1, <1>5, <2>1, <4>1 DEF Work, Through, InHand, Asked, Top
      <4>3. x = call => Settled(x)'
        BY <1>7 DEF Settled
      <4> QED BY <1>8, <4>2, <4>3
    <3> QED BY <3>1, <3>2
  <2>2. \A j \in DOMAIN stack' : Binding(stack'[j].name) = table[stack'[j].name]
    BY DEF Binding
  <2> QED BY <1>1, <2>1, TableStays DEF Through, Settled, Binding
<1>14. Memory'
  <2>1. Hot => Hot'
    BY <1>1, <1>6 DEF Hot
  <2>2. \A m, r : Proven(m, r)' <=> Proven(m, r)
    BY <1>1, TableStays DEF Proven
  <2> QED BY <1>1, <1>8, <2>1, <2>2, TableStays DEF Work, Memory
<1>15. Judged'
  BY <1>1, TableStays DEF Work, Judged
<1> QED BY <1>9, <1>11, <1>12, <1>13, <1>14, <1>15 DEF Work

(* What every activation went through is settled after a step. *)
LEMMA ThroughAfter ==
  ASSUME table' = table, ret' = << >>,
         \A j \in DOMAIN stack' : \A k \in DOMAIN Binding(stack'[j].name).refs :
           k < stack'[j].ref => \A x : x = Binding(stack'[j].name).refs[k] =>
             Settled(x)' \/ (j = Len(stack') /\ k = stack'[j].ref - 1 /\ call' # None)
  PROVE  Through'
<1>1. \A j \in DOMAIN stack' : Binding(stack'[j].name) = table[stack'[j].name]
  BY DEF Binding
<1> QED BY <1>1 DEF Through, Settled, Binding

(* The next reference of the binding at the top is asked for. *)
LEMMA EffNextRef == ASSUME Work, NextRef PROVE Work'
<1>1. PICK f : f = Top
  OBVIOUS
<1>2. PICK g : g = [f EXCEPT !.ref = @ + 1]
  OBVIOUS
<1>3. /\ stack # << >> /\ call = None /\ ret = << >>
      /\ Binding(f.name).init = "derived" /\ f.ref \in DOMAIN Binding(f.name).refs
      /\ call' = Binding(f.name).refs[f.ref]
      /\ stack' = Append(SubSeq(stack, 1, Len(stack) - 1), g)
      /\ UNCHANGED <<table, io, next, ret, memo, storm>>
  BY <1>1, <1>2 DEF NextRef, Classifying, BelowTop
<1>4. PICK n : n = Len(stack)
  OBVIOUS
<1>5. /\ stack \in Seq(Frames) /\ n \in Nat /\ n >= 1 /\ f = stack[n] /\ f \in Frames
      /\ DOMAIN stack = 1 .. n
  BY <1>1, <1>3, <1>4, TopOf DEF Work, EffTyped, Top
<1>6. /\ g \in Frames /\ g.name = f.name /\ g.ref = f.ref + 1 /\ g.worst = f.worst
      /\ f.ref \in Nat /\ f.name \in Bound
  BY <1>2, <1>5 DEF Frames
<1>7. /\ stack' \in Seq(Frames) /\ Len(stack') = n /\ DOMAIN stack' = 1 .. n
      /\ stack' # << >> /\ stack'[n] = g /\ \A j \in 1 .. n - 1 : stack'[j] = stack[j]
  BY <1>3, <1>4, <1>5, <1>6, TopReplaced
<1>8. Open' = Open
  BY <1>5, <1>6, <1>7 DEF Open
<1>9. \A x : Settled(x)' <=> Settled(x)
  BY <1>3, <1>8 DEF Settled
<1>10. table[f.name].refs \in Seq(Names)
  BY <1>6 DEF Work, EffTyped, IsTable
<1>11. EffTyped'
  <2>1. call' \in Names
    BY <1>3, <1>10 DEF Binding
  <2> QED BY <1>3, <1>7, <2>1, TableStays DEF Work, EffTyped
<1>12. \A h : (FrameRight(h)' <=> FrameRight(h)) /\ Asked(h)' = Asked(h)
  BY <1>3, TableStays DEF FrameRight, Asked
<1>13. StackRight'
  <2>1. FrameRight(g)
    <3>1. FrameRight(f)
      BY <1>5 DEF Work, StackRight
    <3>2. f.ref <= Len(table[f.name].refs) /\ Len(table[f.name].refs) \in Nat
      BY <1>3, <1>10 DEF Binding
    <3> QED BY <1>3, <1>6, <3>1, <3>2 DEF FrameRight, Binding
  <2>2. \A j \in DOMAIN stack' : FrameRight(stack'[j])
    BY <1>5, <1>7, <2>1 DEF Work, StackRight
  <2>3. \A j \in DOMAIN stack' : stack'[j].name = stack[j].name
    BY <1>5, <1>6, <1>7
  <2>4. \A i, j \in DOMAIN stack' : stack'[i].name = stack'[j].name => i = j
    BY <1>5, <1>7, <2>3 DEF Work, StackRight
  <2>5. ASSUME NEW j \in DOMAIN stack', j < Len(stack')
        PROVE  stack'[j].ref > 1 /\ stack'[j + 1].name = Asked(stack'[j])
    BY <1>4, <1>5, <1>7, <2>3, <2>5 DEF Work, StackRight
  <2>6. stack'[1].name = DepList[next]
    BY <1>3, <1>5, <1>7, <2>3 DEF Work, StackRight
  <2> QED BY <1>3, <1>12, <2>2, <2>4, <2>5, <2>6 DEF StackRight
<1>14. AtWork'
  <2>1. Top' = g
    BY <1>7 DEF Top
  <2>2. InHand' = call'
    BY <1>3, <1>6, <1>7, <2>1, TableStays DEF InHand, Asked
  <2> QED BY <1>3, <1>5, <1>6, <2>1, <2>2 DEF Work, AtWork, StackRight, FrameRight
<1>15. Through'
  <2>1. call' # None
    BY <1>11, <1>3, <1>10, NamesAssumption DEF Binding
  <2>2. ASSUME NEW j \in DOMAIN stack', NEW k \in DOMAIN Binding(stack'[j].name).refs,
               k < stack'[j].ref, NEW x, x = Binding(stack'[j].name).refs[k]
        PROVE  Settled(x) \/ (j = n /\ k = stack'[j].ref - 1)
    <3>1. CASE j = n
      <4>1. k \in DOMAIN table[f.name].refs /\ k < f.ref + 1 /\ k \in Nat
        BY <1>6, <1>7, <1>10, <2>2, <3>1 DEF Binding
      <4>2. k < f.ref => Settled(x)
        BY <1>3, <1>5, <1>6, <1>7, <2>2, <3>1 DEF Work, Through
      <4> QED BY <1>6, <1>7, <3>1, <4>1, <4>2
    <3>2. CASE j # n
      BY <1>3, <1>5, <1>7, <2>2, <3>2 DEF Work, Through
    <3> QED BY <3>1, <3>2
  <2>3. \A x : Settled(x) => Settled(x)'
    BY <1>9
  <2> QED BY <1>3, <1>7, <2>1, <2>2, <2>3, ThroughAfter
<1>16. Memory'
  <2>1. Hot => Hot'
    <3>1. \A j \in DOMAIN stack : Unstable(stack[j].worst) => Unstable(stack'[j].worst)
      BY <1>5, <1>6, <1>7
    <3> QED BY <1>3, <1>5, <1>7, <3>1 DEF Hot
  <2>2. \A m, r : Proven(m, r)' <=> Proven(m, r)
    BY <1>3, TableStays DEF Proven
  <2> QED BY <1>3, <1>9, <2>1, <2>2, TableStays DEF Work, Memory
<1>17. Judged'
  BY <1>3, TableStays DEF Work, Judged
<1> QED BY <1>11, <1>13, <1>14, <1>15, <1>16, <1>17 DEF Work

(* Evidence for a reference of a name, led by the name, is evidence for it. *)
LEMMA EvidenceBack ==
  ASSUME NEW p \in Seq(Names), NEW x, Evidence(x, p), NEW m \in Names, x \in RefsOf(m),
         \A j \in DOMAIN p : p[j] # m
  PROVE  Evidence(m, <<m>> \o p)
<1>1. PICK q : q = <<m>> \o p
  OBVIOUS
<1>2. PICK l : l = Len(p)
  OBVIOUS
<1>3. /\ q \in Seq(Names) /\ l \in Nat /\ l > 0 /\ Len(q) = l + 1 /\ q[1] = m
      /\ DOMAIN p = 1 .. l /\ DOMAIN q = 1 .. l + 1
      /\ \A j \in 1 .. l : q[j + 1] = p[j]
  BY <1>1, <1>2 DEF Evidence
<1>4. \A j \in 2 .. l + 1 : q[j] = p[j - 1] /\ j - 1 \in 1 .. l
  <2>1. ASSUME NEW j \in 2 .. l + 1 PROVE q[j] = p[j - 1] /\ j - 1 \in 1 .. l
    <3>1. PICK i : i = j - 1
      OBVIOUS
    <3>2. i \in 1 .. l /\ j = i + 1
      BY <1>3, <3>1
    <3> QED BY <1>3, <3>1, <3>2
  <2> QED BY <2>1
<1>5. q[l + 1] \in Fresh
  BY <1>2, <1>3 DEF Evidence
<1>6. ASSUME NEW j \in 1 .. l PROVE q[j + 1] \in RefsOf(q[j])
  <2>1. CASE j = 1
    BY <1>3, <2>1 DEF Evidence
  <2>2. CASE j # 1
    <3>1. PICK i : i = j - 1
      OBVIOUS
    <3>2. i \in 1 .. l - 1 /\ j = i + 1
      BY <1>3, <2>2, <3>1
    <3>3. p[i + 1] \in RefsOf(p[i])
      BY <1>2, <3>2 DEF Evidence
    <3> QED BY <1>3, <3>2, <3>3
  <2> QED BY <2>1, <2>2
<1>7. ASSUME NEW i \in 1 .. l + 1, NEW j \in 1 .. l + 1, q[i] = q[j] PROVE i = j
  <2>0. ASSUME NEW k \in 2 .. l + 1 PROVE q[k] # m
    <3>1. q[k] = p[k - 1] /\ k - 1 \in DOMAIN p
      BY <1>3, <1>4
    <3> QED BY <3>1
  <2>1. CASE i = 1 \/ j = 1
    BY <1>3, <1>7, <2>0, <2>1
  <2>2. CASE i # 1 /\ j # 1
    <3>1. p[i - 1] = p[j - 1] /\ i - 1 \in 1 .. l /\ j - 1 \in 1 .. l
      BY <1>3, <1>4, <1>7, <2>2
    <3>2. i - 1 = j - 1
      BY <1>3, <3>1 DEF Evidence
    <3> QED BY <1>3, <3>2
  <2> QED BY <2>1, <2>2
<1>8. Evidence(m, q)
  BY <1>3, <1>5, <1>6, <1>7 DEF Evidence
<1> QED BY <1>1, <1>8

(* An activation that has taken the result of a reference.                  *)
WithWorst(f, r) ==
  IF Rank(r.stab) > Rank(f.worst.stab)
  THEN [f EXCEPT !.worst = Result(r.stab, <<f.name>> \o r.path)] ELSE f

(* An unstable result of a reference makes the activation's worst one. *)
LEMMA WorstTaken ==
  ASSUME Work, NEW f \in Frames, FrameRight(f), f.ref > 1, NEW x, x = Asked(f),
         NEW r \in Results, Proven(x, r), NEW g, g = WithWorst(f, r)
  PROVE  /\ g \in Frames /\ g.name = f.name /\ g.ref = f.ref /\ FrameRight(g)
         /\ Unstable(r) \/ Unstable(f.worst) => Unstable(g.worst)
<1>1. /\ f.name \in Bound /\ f.ref \in Nat /\ f.worst \in Results
      /\ f = [name |-> f.name, ref |-> f.ref, worst |-> f.worst]
  BY DEF Frames
<1>2. f.name \in Names
  BY <1>1 DEF Names
<1>3. /\ r.stab \in Stability /\ r.path \in Seq(Names) /\ f.worst.stab \in Stability
  BY <1>1 DEF Results
<1>4. x \in RefsOf(f.name)
  <2>1. table[f.name].refs \in Seq(Names)
    BY <1>1 DEF Work, EffTyped, IsTable
  <2>2. Binding(f.name).init = "derived" /\ f.ref - 1 \in DOMAIN Binding(f.name).refs
    BY <1>1, <2>1 DEF FrameRight, Binding
  <2> QED BY <1>1, <2>2 DEF RefsOf, Asked
<1>5. CASE Rank(r.stab) > Rank(f.worst.stab)
  <2>1. PICK q : q = <<f.name>> \o r.path
    OBVIOUS
  <2>2. q \in Seq(Names) /\ \A j \in DOMAIN q : j > 1 => j - 1 \in DOMAIN r.path /\ q[j] = r.path[j - 1]
    BY <1>2, <1>3, <2>1
  <2>3. g = [f EXCEPT !.worst = Result(r.stab, q)]
    BY <1>5, <2>1 DEF WithWorst
  <2>4. g \in Frames /\ g.name = f.name /\ g.ref = f.ref /\ g.worst = Result(r.stab, q)
    <3>1. Result(r.stab, q) \in Results
      BY <1>3, <2>2 DEF Results, Result
    <3> QED BY <1>1, <2>3, <3>1 DEF Frames
  <2>5. g.worst.stab = r.stab /\ g.worst.path = q
    BY <2>4 DEF Result
  <2>6. Unstable(f.worst) => Unstable(r)
    BY <1>3, <1>5 DEF Rank, Stability, Unstable
  <2>7. ASSUME Unstable(r)
        PROVE  /\ Unsteady(f.name) /\ Evidence(f.name, q)
               /\ \A j \in DOMAIN q : j > 1 => q[j] \in DOMAIN memo
    <3>1. Unsteady(x) /\ Evidence(x, r.path) /\ \A j \in DOMAIN r.path : r.path[j] \in DOMAIN memo
      BY <2>7 DEF Proven
    <3>2. \A j \in DOMAIN r.path : r.path[j] # f.name
      BY <3>1 DEF FrameRight
    <3>3. Evidence(f.name, q)
      BY <1>2, <1>3, <1>4, <2>1, <3>1, <3>2, EvidenceBack
    <3> QED BY <1>4, <2>2, <3>1, <3>3, UnsteadyBack
  <2>8. FrameRight(g)
    BY <2>4, <2>5, <2>7 DEF FrameRight, Unstable
  <2> QED BY <2>4, <2>5, <2>6, <2>8 DEF Unstable
<1>6. CASE ~ Rank(r.stab) > Rank(f.worst.stab)
  <2>1. Unstable(r) => Unstable(f.worst)
    BY <1>3, <1>6 DEF Rank, Stability, Unstable
  <2> QED BY <1>6, <2>1 DEF WithWorst
<1> QED BY <1>5, <1>6

(* The result of a reference is taken. *)
LEMMA EffTakeRef == ASSUME Work, TakeRef PROVE Work'
<1>1. PICK f, r : f = Top /\ r = ret[1]
  OBVIOUS
<1>2. PICK g : g = WithWorst(f, r)
  OBVIOUS
<1>3. /\ stack # << >> /\ ret # << >> /\ ret' = << >>
      /\ stack' = IF Rank(r.stab) > Rank(f.worst.stab)
                  THEN Append(SubSeq(stack, 1, Len(stack) - 1), g) ELSE stack
      /\ UNCHANGED <<table, io, next, call, memo, storm>>
  BY <1>1, <1>2 DEF TakeRef, BelowTop, WithWorst
<1>4. PICK n : n = Len(stack)
  OBVIOUS
<1>5. /\ stack \in Seq(Frames) /\ n \in Nat /\ n >= 1 /\ f = stack[n] /\ f \in Frames
      /\ DOMAIN stack = 1 .. n /\ call = None
  BY <1>1, <1>3, <1>4, TopOf DEF Work, EffTyped, Top
<1>6. /\ FrameRight(f) /\ f.ref > 1 /\ r \in Results /\ Proven(Asked(f), r)
  BY <1>1, <1>3, <1>5 DEF Work, EffTyped, StackRight, AtWork, Through, InHand
<1>7. /\ g \in Frames /\ g.name = f.name /\ g.ref = f.ref /\ FrameRight(g)
      /\ Unstable(r) \/ Unstable(f.worst) => Unstable(g.worst)
  <2>1. PICK x : x = Asked(f)
    OBVIOUS
  <2>2. Proven(x, r)
    BY <1>6, <2>1
  <2>3. f \in Frames /\ FrameRight(f) /\ f.ref > 1 /\ r \in Results
    BY <1>5, <1>6
  <2> QED BY <1>2, <2>1, <2>2, <2>3, WorstTaken
<1>8. /\ stack' \in Seq(Frames) /\ Len(stack') = n /\ DOMAIN stack' = 1 .. n
      /\ stack' # << >> /\ stack'[n] = g /\ \A j \in 1 .. n - 1 : stack'[j] = stack[j]
  <2>1. CASE Rank(r.stab) > Rank(f.worst.stab)
    BY <1>3, <1>4, <1>5, <1>7, <2>1, TopReplaced
  <2>2. CASE ~ Rank(r.stab) > Rank(f.worst.stab)
    BY <1>2, <1>3, <1>4, <1>5, <2>2 DEF WithWorst
  <2> QED BY <2>1, <2>2
<1>9. \A j \in 1 .. n : stack'[j].name = stack[j].name /\ stack'[j].ref = stack[j].ref
  BY <1>5, <1>7, <1>8
<1>10. Open' = Open
  BY <1>5, <1>8, <1>9 DEF Open
<1>11. \A x : Settled(x)' <=> Settled(x)
  BY <1>3, <1>10 DEF Settled
<1>12. EffTyped'
  BY <1>3, <1>5, <1>8, TableStays DEF Work, EffTyped
<1>13. \A h : (FrameRight(h)' <=> FrameRight(h)) /\ Asked(h)' = Asked(h)
  BY <1>3, TableStays DEF FrameRight, Asked
<1>14. StackRight'
  <2>1. \A j \in DOMAIN stack' : FrameRight(stack'[j])
    BY <1>5, <1>7, <1>8 DEF Work, StackRight
  <2>2. \A i, j \in DOMAIN stack' : stack'[i].name = stack'[j].name => i = j
    BY <1>5, <1>8, <1>9 DEF Work, StackRight
  <2>3. ASSUME NEW j \in DOMAIN stack', j < Len(stack')
        PROVE  stack'[j].ref > 1 /\ stack'[j + 1].name = Asked(stack'[j])
    BY <1>4, <1>5, <1>8, <1>9, <2>3 DEF Work, StackRight
  <2>4. stack'[1].name = DepList[next]
    BY <1>3, <1>5, <1>9 DEF Work, StackRight
  <2> QED BY <1>3, <1>13, <2>1, <2>2, <2>3, <2>4 DEF StackRight
<1>15. AtWork'
  BY <1>3, <1>5 DEF Work, AtWork
<1>16. Through'
  <2>1. ASSUME NEW j \in DOMAIN stack', NEW k \in DOMAIN Binding(stack'[j].name).refs,
               k < stack'[j].ref, NEW x, x = Binding(stack'[j].name).refs[k]
        PROVE  Settled(x)
    BY <1>5, <1>8, <1>9, <2>1 DEF Work, Through
  <2>2. \A j \in DOMAIN stack' : Binding(stack'[j].name) = table[stack'[j].name]
    BY DEF Binding
  <2>3. \A x : Settled(x) <=> (x \notin Bound \/ x \in Open \/ x \in DOMAIN memo)
    BY DEF Settled
  <2> QED BY <1>3, <1>10, <2>1, <2>2, <2>3 DEF Through, Settled, Binding
<1>17. Memory'
  <2>1. Hot => Hot'
    <3>1. \A j \in DOMAIN stack : Unstable(stack[j].worst) => Unstable(stack'[j].worst)
      BY <1>5, <1>7, <1>8
    <3>2. Unstable(r) => Unstable(stack'[n].worst)
      BY <1>7, <1>8
    <3> QED BY <1>1, <1>3, <1>5, <1>8, <3>1, <3>2 DEF Hot
  <2>2. \A m, q : Proven(m, q)' <=> Proven(m, q)
    BY <1>3, TableStays DEF Proven
  <2> QED BY <1>3, <1>11, <2>1, <2>2, TableStays DEF Work, Memory
<1>18. Judged'
  BY <1>3, TableStays DEF Work, Judged
<1> QED BY <1>12, <1>14, <1>15, <1>16, <1>17, <1>18 DEF Work

(* What a classification comes to, once its references are taken. *)
LEMMA ClassifiedRight ==
  ASSUME Work, ret = << >>, call = None, NEW f \in Frames, FrameRight(f),
         \A k \in DOMAIN Binding(f.name).refs :
           k < f.ref => Settled(Binding(f.name).refs[k]),
         Binding(f.name).init # "derived" \/ f.ref \notin DOMAIN Binding(f.name).refs
  PROVE  /\ Classified(f) \in Results
         /\ Unstable(f.worst) => Unstable(Classified(f))
         /\ ~ Unstable(Classified(f)) =>
              f.name \notin Fresh /\ \A x \in RefsOf(f.name) : Settled(x)
         /\ Unstable(Classified(f)) =>
              /\ Unsteady(f.name) /\ Evidence(f.name, Classified(f).path)
              /\ \A j \in DOMAIN Classified(f).path :
                   Classified(f).path[j] \in DOMAIN memo \cup {f.name}
<1>1. /\ f.name \in Bound /\ f.name \in Names /\ f.ref \in Nat /\ f.worst \in Results
  BY DEF Frames, Names
<1>2. PICK b : b = Binding(f.name)
  OBVIOUS
<1>3. b.init \in Inits /\ b.refs \in Seq(Names)
  BY <1>1, <1>2 DEF Work, EffTyped, IsTable, Binding
<1>4. Len(b.refs) \in Nat /\ DOMAIN b.refs = 1 .. Len(b.refs)
  BY <1>3
<1>5. CASE b.init = "fresh"
  <2>1. PICK q : q = <<f.name>>
    OBVIOUS
  <2>2. Classified(f) = Result("unstable", q)
    BY <1>2, <1>5, <2>1 DEF Classified
  <2>3. q \in Seq(Names) /\ Len(q) = 1 /\ DOMAIN q = {1} /\ q[1] = f.name
    BY <1>1, <2>1
  <2>4. Classified(f) \in Results /\ Classified(f).path = q
    BY <2>2, <2>3 DEF Result, Results, Stability
  <2>5. f.name \in Fresh
    BY <1>1, <1>2, <1>5 DEF Fresh
  <2>6. Evidence(f.name, q)
    BY <2>3, <2>5 DEF Evidence
  <2>7. Unstable(Classified(f))
    BY <2>2 DEF Result, Unstable
  <2> QED BY <2>3, <2>4, <2>5, <2>6, <2>7, FreshUnsteady
<1>6. CASE b.init = "derived" /\ b.refs # << >>
  <2>1. Classified(f) = f.worst
    BY <1>2, <1>6 DEF Classified
  <2>2. f.name \notin Fresh
    BY <1>2, <1>6 DEF Fresh
  <2>3. f.ref = Len(b.refs) + 1
    BY <1>1, <1>2, <1>4, <1>6 DEF FrameRight
  <2>4. \A k \in DOMAIN b.refs : Settled(b.refs[k])
    BY <1>2, <1>4, <2>3
  <2>5. \A x \in RefsOf(f.name) : Settled(x)
    BY <1>2, <2>4 DEF RefsOf
  <2>6. ASSUME Unstable(f.worst), NEW j \in DOMAIN f.worst.path
        PROVE  f.worst.path[j] \in DOMAIN memo \cup {f.name}
    <3>1. f.worst.path \in Seq(Names)
      BY <1>1 DEF Results
    <3>2. j \in Nat /\ j >= 1
      BY <3>1
    <3> QED BY <2>6, <3>2 DEF FrameRight, Evidence
  <2> QED BY <1>1, <2>1, <2>2, <2>5, <2>6 DEF FrameRight
<1>7. CASE b.init # "fresh" /\ ~ (b.init = "derived" /\ b.refs # << >>)
  <2>1. PICK q : q = <<f.name>>
    OBVIOUS
  <2>2. Classified(f) \in Results /\ ~ Unstable(Classified(f))
    <3>1. q \in Seq(Names)
      BY <1>1, <2>1
    <3>2. Classified(f) \in {Result("stable", q), Result("unknown", q)}
      BY <1>2, <1>7, <2>1 DEF Classified
    <3> QED BY <3>1, <3>2 DEF Result, Results, Stability, Unstable
  <2>3. f.name \notin Fresh
    BY <1>2, <1>7 DEF Fresh
  <2>4. RefsOf(f.name) = {}
    BY <1>2, <1>4, <1>7 DEF RefsOf
  <2>5. ~ Unstable(f.worst)
    BY <1>1, <1>2, <1>4, <1>7 DEF FrameRight
  <2> QED BY <2>2, <2>3, <2>4, <2>5
<1> QED BY <1>5, <1>6, <1>7

(* A binding is left: its result is memoised and returned. *)
LEMMA EffLeave == ASSUME Work, LeaveBinding PROVE Work'
<1>1. PICK f, c, n : f = Top /\ c = Classified(Top) /\ n = Len(stack)
  OBVIOUS
<1>2. /\ stack # << >> /\ call = None /\ ret = << >> /\ ret' = <<c>>
      /\ Binding(f.name).init # "derived" \/ f.ref \notin DOMAIN Binding(f.name).refs
      /\ stack' = SubSeq(stack, 1, n - 1)
      /\ memo' = [m \in DOMAIN memo \cup {f.name} |-> IF m = f.name THEN c ELSE memo[m]]
      /\ UNCHANGED <<table, io, next, call, storm>>
  BY <1>1 DEF LeaveBinding, Classifying, BelowTop
<1>3. /\ stack \in Seq(Frames) /\ n \in Nat /\ n >= 1 /\ f = stack[n] /\ f \in Frames
      /\ DOMAIN stack = 1 .. n /\ stack' \in Seq(Frames) /\ Len(stack') = n - 1
      /\ DOMAIN stack' = 1 .. n - 1 /\ \A j \in 1 .. n - 1 : stack'[j] = stack[j]
  BY <1>1, <1>2, TopOf DEF Work, EffTyped, Top
<1>4. FrameRight(f) /\ f.name \notin DOMAIN memo /\ f.name \in Bound
  BY <1>3 DEF Work, StackRight, FrameRight, Frames
<1>5. \A k \in DOMAIN Binding(f.name).refs : k < f.ref => Settled(Binding(f.name).refs[k])
  BY <1>2, <1>3 DEF Work, Through
<1>6. /\ c \in Results
      /\ Unstable(f.worst) => Unstable(c)
      /\ ~ Unstable(c) => f.name \notin Fresh /\ \A x \in RefsOf(f.name) : Settled(x)
      /\ Unstable(c) =>
           /\ Unsteady(f.name) /\ Evidence(f.name, c.path)
           /\ \A j \in DOMAIN c.path : c.path[j] \in DOMAIN memo \cup {f.name}
  <2>1. c = Classified(f)
    BY <1>1
  <2> QED BY <1>2, <1>3, <1>4, <1>5, <2>1, ClassifiedRight
<1>7. /\ DOMAIN memo' = DOMAIN memo \cup {f.name} /\ memo'[f.name] = c
      /\ \A m \in DOMAIN memo : memo'[m] = memo[m]
  BY <1>2, <1>4
<1>8. Open = Open' \cup {f.name}
  <2>1. \A j \in DOMAIN stack : j = n \/ (j \in DOMAIN stack' /\ stack'[j] = stack[j])
    BY <1>3
  <2> QED BY <1>3, <2>1 DEF Open
<1>9. \A x : Settled(x) <=> Settled(x)'
  BY <1>4, <1>7, <1>8 DEF Settled
<1>10. \A m, r : Proven(m, r) => Proven(m, r)'
  BY <1>2, <1>7, TableStays DEF Proven
<1>11. \A q : q = f.name => Proven(q, c)'
  BY <1>2, <1>6, <1>7, TableStays DEF Proven
<1>12. EffTyped'
  <2>1. \A m \in DOMAIN memo' : m \in Bound /\ memo'[m] \in Results
    BY <1>4, <1>6, <1>7 DEF Work, EffTyped
  <2>2. ret' \in Seq(Results) /\ Len(ret') <= 1
    BY <1>2, <1>6
  <2> QED BY <1>2, <1>3, <2>1, <2>2, TableStays DEF Work, EffTyped
<1>13. \A h : Asked(h)' = Asked(h)
  BY <1>2, TableStays DEF Asked
<1>14. \A j \in DOMAIN stack' : FrameRight(stack[j])'
  <2>1. ASSUME NEW j \in DOMAIN stack', NEW h, h = stack[j] PROVE FrameRight(h)'
    <3>1. FrameRight(h) /\ h.name # f.name
      BY <1>3, <2>1 DEF Work, StackRight
    <3> QED BY <1>2, <1>7, <3>1, TableStays DEF FrameRight
  <2>2. \A j \in DOMAIN stack' : stack'[j] = stack[j]
    BY <1>3
  <2>3. \A j \in DOMAIN stack' : \A h : h = stack'[j] => FrameRight(h)'
    BY <2>1, <2>2
  <2> QED BY <2>3
<1>15. StackRight'
  <2>1. \A i, j \in DOMAIN stack' : stack'[i].name = stack'[j].name => i = j
    BY <1>3 DEF Work, StackRight
  <2>2. ASSUME NEW j \in DOMAIN stack', j < Len(stack')
        PROVE  stack'[j].ref > 1 /\ stack'[j + 1].name = Asked(stack'[j])
    <3>1. /\ j \in DOMAIN stack /\ j < Len(stack) /\ stack'[j] = stack[j]
          /\ j + 1 \in 1 .. n - 1
      BY <1>1, <1>3, <2>2
    <3>2. stack'[j + 1] = stack[j + 1]
      BY <1>3, <3>1
    <3> QED BY <3>1, <3>2 DEF Work, StackRight
  <2>3. stack' # << >> => stack'[1].name = DepList[next]
    BY <1>2, <1>3 DEF Work, StackRight
  <2> QED BY <1>2, <1>13, <1>14, <2>1, <2>2, <2>3 DEF StackRight
<1>16. \A x : x = InHand' => x = f.name
  <2>1. CASE n = 1
    <3>1. stack' = << >>
      BY <1>3, <2>1
    <3> QED BY <1>2, <1>3, <2>1, <3>1 DEF InHand, Work, StackRight
  <2>2. CASE n # 1
    <3>1. stack' # << >> /\ stack'[n - 1] = stack[n - 1] /\ n - 1 \in DOMAIN stack
      BY <1>3, <2>2
    <3>2. stack[n].name = Asked(stack[n - 1])
      <4>1. PICK j : j = n - 1
        OBVIOUS
      <4>2. j \in DOMAIN stack /\ j < Len(stack) /\ j + 1 = n
        BY <1>1, <1>3, <2>2, <4>1
      <4>3. stack[j + 1].name = Asked(stack[j])
        BY <4>2 DEF Work, StackRight
      <4> QED BY <4>1, <4>2, <4>3
    <3>3. \A h : h = stack'[n - 1] => Asked(h)' = f.name
      BY <1>3, <1>13, <3>1, <3>2
    <3> QED BY <1>3, <3>1, <3>3 DEF InHand, Top, Asked
  <2> QED BY <2>1, <2>2
<1>17. AtWork'
  <2>1. stack' # << >> => Top'.ref > 1
    <3>1. ASSUME stack' # << >> PROVE stack'[n - 1].ref > 1
      <4>1. n - 1 \in DOMAIN stack /\ n - 1 < Len(stack) /\ stack'[n - 1] = stack[n - 1]
        BY <1>1, <1>3, <3>1
      <4> QED BY <4>1 DEF Work, StackRight
    <3> QED BY <1>3, <3>1 DEF Top
  <2> QED BY <1>2, <2>1 DEF Work, AtWork
<1>18. Through'
  <2>1. ASSUME NEW j \in DOMAIN stack', NEW k \in DOMAIN Binding(stack'[j].name).refs,
               k < stack'[j].ref, NEW x, x = Binding(stack'[j].name).refs[k]
        PROVE  Settled(x)'
    BY <1>2, <1>3, <1>9, <2>1 DEF Work, Through
  <2>2. \A j \in DOMAIN stack' : Binding(stack'[j].name) = table[stack'[j].name]
    BY DEF Binding
  <2>3. \A x : x = InHand' => Settled(x)' /\ Proven(x, c)'
    <3>1. \A x : x = f.name => Settled(x)'
      BY <1>7 DEF Settled
    <3> QED BY <1>11, <1>16, <3>1
  <2>4. \A x : x = InHand' => Settled(x)' /\ \A r : r = ret'[1] => Proven(x, r)'
    BY <1>2, <2>3
  <2>5. Settled(InHand)' /\ Proven(InHand, ret[1])'
    BY <2>4
  <2> QED BY <1>2, <2>1, <2>2, <2>5 DEF Through, Settled, Binding
<1>19. Memory'
  <2>1. Hot => Hot'
    <3>1. \A j \in DOMAIN stack : j = n \/ (j \in DOMAIN stack' /\ stack'[j] = stack[j])
      BY <1>3
    <3> QED BY <1>2, <1>3, <1>6, <3>1 DEF Hot
  <2>2. Unstable(c) => Hot'
    BY <1>2 DEF Hot
  <2>3. ASSUME NEW m \in DOMAIN memo', NEW r, r = memo'[m]
        PROVE  /\ ~ Unstable(r) => m \notin Fresh /\ \A x \in RefsOf(m) : Settled(x)'
               /\ Unstable(r) => Hot'
               /\ Proven(m, r)'
    <3>1. CASE m = f.name
      BY <1>6, <1>7, <1>9, <1>11, <2>2, <2>3, <3>1
    <3>2. CASE m # f.name
      BY <1>7, <1>9, <1>10, <2>1, <2>3, <3>2 DEF Work, Memory
    <3> QED BY <3>1, <3>2
  <2> QED BY <1>2, <2>3, TableStays DEF Memory
<1>20. Judged'
  BY <1>2, TableStays DEF Work, Judged
<1> QED BY <1>12, <1>15, <1>17, <1>18, <1>19, <1>20 DEF Work

(* A dependency is judged. *)
LEMMA EffJudge == ASSUME Work, Judge PROVE Work'
<1>1. PICK r : r = ret[1]
  OBVIOUS
<1>2. /\ stack = << >> /\ ret # << >> /\ ret' = << >> /\ call = None /\ storm = << >>
      /\ next \in DOMAIN DepList /\ UNCHANGED <<table, io, call, stack, memo>>
      /\ Settled(InHand) /\ Proven(InHand, r) /\ InHand = DepList[next]
  BY <1>1 DEF Judge, Work, AtWork, EffTyped, Through, InHand
<1>3. /\ Len(DepList) \in Nat /\ DOMAIN DepList = 1 .. Len(DepList)
      /\ DepList[next] \in Names
  BY <1>2, DepsAssumption
<1>4. \A x : Settled(x)' <=> Settled(x)
  BY <1>2 DEF Settled, Open
<1>5. \A m, q : Proven(m, q)' <=> Proven(m, q)
  BY <1>2, TableStays DEF Proven
<1>6. StackRight' /\ AtWork' /\ Through'
  BY <1>2 DEF StackRight, AtWork, Through
<1>7. CASE Unstable(r)
  <2>1. /\ storm' = <<[dep |-> DepList[next], origin |-> Origin(r), path |-> r.path]>>
        /\ next' = next
    BY <1>1, <1>7 DEF Judge, Unstable
  <2>2. /\ storm' # << >> /\ storm'[1].dep = DepList[next] /\ storm'[1].path = r.path
        /\ storm'[1].origin = r.path[Len(r.path)]
    BY <2>1 DEF Origin
  <2>3. EffTyped'
    BY <1>2, <2>1, TableStays DEF Work, EffTyped
  <2>4. Hot'
    BY <2>2 DEF Hot
  <2>5. Memory'
    BY <1>2, <1>4, <1>5, <2>4, TableStays DEF Work, Memory
  <2>6. Unsteady(DepList[next]) /\ Evidence(DepList[next], r.path)
    BY <1>2, <1>7 DEF Proven
  <2>7. Judged'
    <3>1. \A p : p = storm'[1].path => Evidence(DepList[next], p)
      BY <2>2, <2>6
    <3> QED BY <1>2, <2>1, <2>2, <2>6, <3>1, TableStays DEF Work, Judged
  <2> QED BY <1>6, <2>3, <2>5, <2>7 DEF Work
<1>8. CASE ~ Unstable(r)
  <2>1. next' = next + 1 /\ storm' = storm
    BY <1>1, <1>8 DEF Judge, Unstable
  <2>2. ~ Hot
    BY <1>1, <1>2, <1>8 DEF Hot
  <2>3. ~ Unsteady(DepList[next])
    BY <1>2, <1>3, <2>2, SettledIsSteady DEF Work, EffTyped
  <2>4. EffTyped'
    BY <1>2, <1>3, <2>1, TableStays DEF Work, EffTyped
  <2>5. Memory'
    BY <1>2, <1>4, <1>5, <2>2, TableStays DEF Work, Memory
  <2>6. Judged'
    BY <1>2, <1>3, <2>1, <2>3, TableStays DEF Work, Judged
  <2> QED BY <1>6, <2>4, <2>5, <2>6 DEF Work
<1> QED BY <1>7, <1>8

(* No effect is looked at before its IO is known; without IO none is. *)
LEMMA EffInitInv ==
  ASSUME NEW tables, NEW doesIo, EffInit(tables, doesIo),
         tables \subseteq Tables \/ doesIo = {FALSE}
  PROVE  EffInv
<1>1. /\ table \in tables /\ io \in doesIo /\ next = 1 /\ call = None
      /\ ret = << >> /\ stack = << >> /\ storm = << >>
      /\ memo = [n \in {} |-> Result("stable", <<n>>)]
  BY DEF EffInit
<1>2. CASE io
  <2>1. IsTable(table)
    BY <1>1, <1>2, TablesAssumption
  <2>2. Len(DepList) \in Nat /\ DOMAIN DepList = 1 .. Len(DepList)
    BY DepsAssumption
  <2>3. DOMAIN memo = {}
    BY <1>1
  <2>4. EffTyped
    BY <1>1, <2>1, <2>2, <2>3 DEF EffTyped
  <2>5. StackRight /\ AtWork /\ Through /\ Memory
    BY <1>1, <2>3 DEF StackRight, AtWork, Through, Memory
  <2>6. Judged
    BY <1>1, <2>2 DEF Judged
  <2> QED BY <1>2, <2>4, <2>5, <2>6 DEF EffInv
<1>3. CASE ~ io
  <2>1. DOMAIN memo = {}
    BY <1>1
  <2> QED BY <1>1, <1>3, <2>1 DEF EffInv, Idle
<1> QED BY <1>2, <1>3

(* Every step of the search keeps the invariant. *)
LEMMA EffNextInv == ASSUME EffInv, EffNext PROVE EffInv'
<1>0. io' = io
  BY DEF EffNext, Ask, MemoHit, Unbound, CycleCut, Enter, NextRef, TakeRef,
         LeaveBinding, Judge
<1>1. io
  <2>1. ASSUME ~ io PROVE FALSE
    <3>1. call = None /\ ret = << >> /\ stack = << >> /\ DOMAIN memo = {} /\ Open = {}
      BY <2>1 DEF EffInv, Idle, Open
    <3>2. Ask \/ call \in DOMAIN memo \/ call \in Names \/ call \in Open
      BY <3>1 DEF EffNext, MemoHit, Unbound, CycleCut, Enter, NextRef, TakeRef,
                  LeaveBinding, Judge, Classifying, Names
    <3> QED BY <2>1, <3>1, <3>2, NamesAssumption DEF Ask
  <2> QED BY <2>1
<1>2. Work
  BY <1>1 DEF EffInv, Work
<1>3. Work'
  BY <1>2, EffAsk, EffMemoHit, EffUnbound, EffCycleCut, EffEnter, EffNextRef,
     EffTakeRef, EffLeave, EffJudge DEF EffNext
<1> QED BY <1>0, <1>1, <1>3 DEF EffInv, Work

(* Steps that leave the effects alone keep it. *)
LEMMA EffStutters == ASSUME EffInv, UNCHANGED evars PROVE EffInv'
<1>1. UNCHANGED <<table, io, next, call, ret, stack, memo, storm>>
  BY DEF evars
<1>2. /\ InHand' = InHand
      /\ \A x : Settled(x)' <=> Settled(x)
      /\ StackRight => StackRight'
      /\ \A n, r : Proven(n, r)' <=> Proven(n, r)
  BY <1>1, Calm
<1>3. EffTyped => EffTyped'
  BY <1>1, TableStays DEF EffTyped
<1>4. AtWork => AtWork'
  BY <1>1, <1>2 DEF AtWork, Top
<1>5. Through => Through'
  BY <1>1, <1>2, TableStays DEF Through
<1>6. Memory => Memory'
  BY <1>1, <1>2, TableStays DEF Memory, Hot
<1>7. Judged => Judged'
  BY <1>1, TableStays DEF Judged
<1>8. CASE io
  BY <1>1, <1>2, <1>3, <1>4, <1>5, <1>6, <1>7, <1>8 DEF EffInv
<1>9. CASE ~ io
  BY <1>1, <1>9 DEF EffInv, Idle
<1> QED BY <1>8, <1>9

(* The invariant gives both properties of the finding. *)
LEMMA EffInvProves == ASSUME EffInv PROVE StormExact /\ PathIsReal
<1>1. CASE ~ io
  BY <1>1 DEF EffInv, StormExact, PathIsReal
<1>2. CASE io
  <2>1. EffTyped /\ Judged /\ next \in 1 .. Len(DepList) + 1
    BY <1>2 DEF EffInv, EffTyped
  <2>2. Len(DepList) \in Nat /\ DOMAIN DepList = 1 .. Len(DepList)
    BY DepsAssumption
  <2>3. PathIsReal
    BY <2>1 DEF Judged, PathIsReal, Evidence
  <2>4. CASE storm # << >>
    <3>1. \A x \in DOMAIN DepList : Unsteady(DepList[x]) => next <= x
      BY <2>1, <2>2 DEF Judged
    <3> QED BY <1>2, <2>1, <2>3, <2>4, <3>1 DEF Judged, StormExact
  <2>5. CASE storm = << >>
    <3>1. ASSUME EffDone PROVE \A x \in DOMAIN DepList : ~ Unsteady(DepList[x])
      BY <1>2, <2>1, <2>2, <2>5, <3>1 DEF EffDone, Judged
    <3> QED BY <2>3, <2>5, <3>1 DEF StormExact
  <2> QED BY <2>4, <2>5
<1> QED BY <1>1, <1>2

-----------------------------------------------------------------------------
(* One document. *)

FactsInv == LtInv /\ EffInv /\ DiInv

(* A document has facts for one of the analyses, and no facts is an input   *)
(* of the others.                                                           *)
LEMMA FactsInitInv == FactsInit => FactsInv
<1> SUFFICES ASSUME FactsInit PROVE FactsInv
  OBVIOUS
<1>1. PICK part :
        /\ LtInit(IF part = "lifetimes" THEN LifetimeModules ELSE {NoLifetimes})
        /\ DiInit(IF part = "services" THEN Registrations ELSE {<< >>})
        /\ EffInit(IF part = "effects" THEN Tables ELSE {CHOOSE t \in Tables : TRUE},
                   IF part = "effects" THEN BOOLEAN ELSE NoEffects)
  BY DEF FactsInit
<1>2. LtInv
  BY <1>1, LtInitInv
<1>3. DiInv
  <2>1. PICK given : given = IF part = "services" THEN Registrations ELSE {<< >>}
    OBVIOUS
  <2>2. given \subseteq Seq(Registration)
    <3>1. << >> \in Seq(Registration)
      OBVIOUS
    <3> QED BY <2>1, <3>1, RegistrationsAssumption
  <2> QED BY <1>1, <2>1, <2>2, DiInitInv
<1>4. EffInv
  <2>1. PICK tables, doesIo :
          /\ tables = IF part = "effects" THEN Tables ELSE {CHOOSE t \in Tables : TRUE}
          /\ doesIo = IF part = "effects" THEN BOOLEAN ELSE NoEffects
    OBVIOUS
  <2>2. EffInit(tables, doesIo)
    BY <1>1, <2>1
  <2>3. tables \subseteq Tables \/ doesIo = {FALSE}
    BY <2>1 DEF NoEffects
  <2> QED BY <2>2, <2>3, EffInitInv
<1> QED BY <1>2, <1>3, <1>4 DEF FactsInv

(* Every step of check_facts is one of an analysis, or passes on to the     *)
(* next.                                                                    *)
LEMMA FactsNextInv == ASSUME FactsInv, [FactsNext]_factvars PROVE FactsInv'
<1>1. LtInv /\ EffInv /\ DiInv
  BY DEF FactsInv
<1>2. CASE LifetimesStep
  <2>1. LtInv'
    BY <1>1, <1>2, LtNextInv DEF LifetimesStep
  <2>2. DiInv' /\ EffInv'
    BY <1>1, <1>2, DiStutters, EffStutters DEF LifetimesStep
  <2> QED BY <2>1, <2>2 DEF FactsInv
<1>3. CASE ServicesStep
  <2>1. DiInv'
    BY <1>1, <1>3, DiNextInv DEF ServicesStep
  <2>2. LtInv' /\ EffInv'
    BY <1>1, <1>3, LtStutters, EffStutters DEF ServicesStep
  <2> QED BY <2>1, <2>2 DEF FactsInv
<1>4. CASE EffectsStep
  <2>1. EffInv'
    BY <1>1, <1>4, EffNextInv DEF EffectsStep
  <2>2. LtInv' /\ DiInv'
    BY <1>1, <1>4, LtStutters, DiStutters DEF EffectsStep
  <2> QED BY <2>1, <2>2 DEF FactsInv
<1>5. CASE UNCHANGED <<ltvars, divars, evars>>
  <2>1. LtInv' /\ EffInv' /\ DiInv'
    BY <1>1, <1>5, LtStutters, EffStutters, DiStutters
  <2> QED BY <2>1 DEF FactsInv
<1>6. CASE CallsStep \/ ProtocolsStep \/ UNCHANGED factvars
  BY <1>5, <1>6 DEF CallsStep, ProtocolsStep, factvars
<1>7. CASE \/ Refuse \/ ToLifetimes \/ ToServices \/ ToEffects \/ ToProtocols \/ ToReport
  BY <1>5, <1>7 DEF Refuse, ToLifetimes, ToServices, ToEffects, ToProtocols, ToReport, Pass
<1> QED BY <1>2, <1>3, <1>4, <1>6, <1>7 DEF FactsNext

(* The three invariants hold throughout the check of a document. *)
THEOREM FactsInvariant == FactsSpec => []FactsInv
<1>1. FactsInit => FactsInv
  BY FactsInitInv
<1>2. FactsInv /\ [FactsNext]_factvars => FactsInv'
  BY FactsNextInv
<1> QED BY <1>1, <1>2, PTL DEF FactsSpec

(* A subscription is an escape exactly when a chain of declarations leads   *)
(* from the function's region to the source's (`check_lifetimes`), and a    *)
(* declaration is cyclic exactly when a chain leads back to its region.     *)
THEOREM LifetimesExact == FactsSpec => []EscapesExact
<1>1. FactsInv => EscapesExact
  BY DEF FactsInv, LtInv
<1> QED BY <1>1, FactsInvariant, PTL

(* An effect that does i/o storms exactly if a dependency refers, through   *)
(* any chain of bindings, to a fresh identity; the dependency diagnosed is  *)
(* the first such.                                                          *)
THEOREM StormsExact == FactsSpec => []StormExact
<1>1. FactsInv => StormExact
  BY EffInvProves DEF FactsInv
<1> QED BY <1>1, FactsInvariant, PTL

(* Each of the five checks reports each captive of each singleton, once,    *)
(* and nothing else.                                                        *)
THEOREM EveryCaptiveReported == FactsSpec => []CaptivesExact
<1>1. FactsInv => CaptivesExact
  BY DiInvProves DEF FactsInv
<1> QED BY <1>1, FactsInvariant, PTL

(* The evidence is real: the chain of a captive leads from what the         *)
(* singleton holds through transients to it, the path of a storm from the   *)
(* dependency through references to a fresh identity, without a turn.       *)
THEOREM EvidenceReal == FactsSpec => []EvidenceIsReal
<1>1. FactsInv => EvidenceIsReal
  BY EffInvProves, DiInvProves DEF FactsInv, EvidenceIsReal
<1> QED BY <1>1, FactsInvariant, PTL
==============================================================================
