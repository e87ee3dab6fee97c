-------------------------- MODULE OwnAnalysisProofs --------------------------
(***************************************************************************)
(* Proofs about the analyzer for every set of well-formed graphs: what     *)
(* joining and stepping produce, that a join says everything its parts     *)
(* say, and that the step of the analysis covers the step of a run; that   *)
(* the analyzer and the run keep their types; and that the worklist        *)
(* converges to a fixpoint: when it is empty each reachable block has an   *)
(* out-state that its own instructions lead to and that its successors'    *)
(* in-states say at least as much as.  The verdicts are then right about   *)
(* every run: the state an instruction was judged on covers the run's, a   *)
(* fault or a leak of the run is in the bag of diagnostics, and a definite *)
(* verdict is a fault on every path.                                       *)
(***************************************************************************)
EXTENDS OwnInvariants, WellFoundedInduction, TLAPS

(* Any non-empty set of naturals has a least element. *)
LEMMA LeastNat ==
  ASSUME NEW T \in SUBSET Nat, T # {}
  PROVE  \E l \in T : \A n \in T : l <= n
<1>1. PICK l \in T : \A n \in T : ~ (<<n, l>> \in OpToRel(<, Nat))
  BY WFMin, NatLessThanWellFounded
<1>2. \A n \in T : <<n, l>> \in OpToRel(<, Nat) <=> n < l
  BY DEF OpToRel
<1>3. \A n \in T : ~ (n < l)
  BY <1>1, <1>2
<1> QED BY <1>3

(* Joining provenance sites gives a site. *)
LEMMA JoinSitesType ==
  ASSUME NEW sites \in SUBSET Site
  PROVE  JoinSites(sites) \in Site
<1> DEFINE known == {x \in sites : x.line # 0}
<1> DEFINE lines == {x.line : x \in known}
<1>1. CASE known = {}
  BY <1>1 DEF JoinSites, Site, NoSite
<1>2. CASE known # {}
  <2>1. lines \in SUBSET Nat /\ lines # {}
    BY <1>2 DEF Site
  <2>2. \E l \in lines : \A n \in lines : l <= n
    BY <2>1, LeastNat
  <2>3. \E l \in lines : \A x \in known : l <= x.line
    BY <2>2
  <2> QED BY <1>2, <2>1, <2>3 DEF JoinSites, Site
<1> QED BY <1>1, <1>2

(* The join of states is a state. *)
LEMMA JoinType ==
  ASSUME NEW SS \in SUBSET State, SS # {}
  PROVE  JoinAll(SS) \in State
<1>1. [r \in Sym |-> UNION {s.var[r] : s \in SS}] \in [Sym -> SUBSET VarState]
  BY DEF State
<1>2. (CHOOSE s \in SS : TRUE).loans \in SUBSET Loan
  BY DEF State
<1>3. \A h \in Sym : (\E s \in SS : s.rid[h] # NoSym) =>
         (CHOOSE s \in SS : s.rid[h] # NoSym).rid[h] \in Sym \cup {NoSym}
  BY DEF State
<1>4. \A r \in Sym : JoinSites({s.moved[r] : s \in SS}) \in Site
  BY JoinSitesType DEF State
<1>5. \A r \in Sym : JoinSites({s.acq[r] : s \in SS}) \in Site
  BY JoinSitesType DEF State
<1> QED BY <1>1, <1>2, <1>3, <1>4, <1>5 DEF JoinAll, State, NoSym

(* A join that is not in conflict says all that each of its parts says. *)
LEMMA JoinBelow ==
  ASSUME NEW SS \in SUBSET State, NEW s \in SS, ~ MergeConflict(SS)
  PROVE  Below(s, JoinAll(SS))
<1>1. \A r \in Sym : s.var[r] \subseteq JoinAll(SS).var[r]
  BY DEF JoinAll
<1>2. \A h \in Sym : s.rid[h] # NoSym => JoinAll(SS).rid[h] = s.rid[h]
  <2> SUFFICES ASSUME NEW h \in Sym, s.rid[h] # NoSym
               PROVE  JoinAll(SS).rid[h] = s.rid[h]
    OBVIOUS
  <2> DEFINE t == CHOOSE u \in SS : u.rid[h] # NoSym
  <2>1. t \in SS /\ t.rid[h] # NoSym
    OBVIOUS
  <2>2. t.rid[h] = s.rid[h]
    BY <2>1 DEF MergeConflict
  <2>3. JoinAll(SS).rid[h] = t.rid[h]
    BY DEF JoinAll
  <2> QED BY <2>2, <2>3
<1>3. s.loans = JoinAll(SS).loans
  <2>1. (CHOOSE u \in SS : TRUE) \in SS
    OBVIOUS
  <2> QED BY <2>1 DEF MergeConflict, JoinAll
<1> QED BY <1>1, <1>2, <1>3 DEF Below

(* What a handle resolves to is a symbol. *)
LEMMA RidOfType ==
  ASSUME NEW s \in State, NEW h \in Sym
  PROVE  RidOf(s, h) \in Sym
BY DEF RidOf, State, NoSym

LEMMA MintType ==
  ASSUME NEW s \in State, NEW h \in Sym, NEW l \in Nat
  PROVE  Mint(s, h, l) \in State
BY DEF Mint, State, Site, VarState

LEMMA SetHeldType ==
  ASSUME NEW s \in State, NEW h \in Sym, NEW v \in VarState
  PROVE  SetHeld(s, h, v) \in State
BY RidOfType DEF SetHeld, State

(* An instruction takes a state to a state. *)
LEMMA StepType ==
  ASSUME NEW c, NEW i, NEW s \in State, WellFormed(c), InstrOk(c, i)
  PROVE  Step(c, i, s) \in State
<1> i \in Instr /\ i.line \in Nat /\ i.mut \in BOOLEAN
  BY DEF InstrOk, Instr
<1> DOMAIN c.syms \subseteq Sym
  BY DEF WellFormed
<1>1. CASE i.op = "acquire"
  BY <1>1, MintType DEF Step, InstrOk, Consumes
<1>2. CASE i.op = "move"
  <2> i.src \in Sym /\ i.sym \in Sym
    BY <1>2 DEF InstrOk
  <2> DEFINE r == RidOf(s, i.src)
  <2>1. r \in Sym
    BY RidOfType
  <2> DEFINE site == IF "OWNED" \in Held(s, i.src)
                     THEN [line |-> i.line, exact |-> TRUE] ELSE s.moved[r]
  <2>2. site \in Site
    BY <2>1 DEF State, Site
  <2> HIDE DEF site
  <2>3. [s EXCEPT !.moved[r] = site, !.var[r] = {"MOVED"}] \in State
    BY <2>1, <2>2 DEF State, VarState
  <2>4. MoveInto(s, i) \in State
    BY <2>3, MintType DEF MoveInto, site
  <2> QED BY <1>2, <2>4 DEF Step, Consumes
<1>3. CASE i.op = "alias"
  <2> i.src \in Sym /\ i.sym \in Sym
    BY <1>3 DEF InstrOk
  <2>1. RidOf(s, i.src) \in Sym
    BY RidOfType
  <2> QED BY <1>3, <2>1 DEF Step, Consumes, State
<1>4. CASE i.op = "release"
  BY <1>4, SetHeldType DEF Step, InstrOk, VarState, Consumes
<1>5. CASE Consumes(c, i)
  BY <1>5, SetHeldType DEF Step, InstrOk, VarState, Consumes
<1>6. CASE i.op = "return" /\ i.sym # NoSym
  BY <1>6, SetHeldType DEF Step, InstrOk, VarState, Consumes
<1>7. CASE i.op = "borrow_start"
  <2> i.src \in Sym /\ i.sym \in Sym
    BY <1>7 DEF InstrOk
  <2>1. RidOf(s, i.src) \in Sym
    BY RidOfType
  <2>2. OpenLoan(s, i) \in State
    BY <2>1 DEF OpenLoan, State, Loan
  <2> QED BY <1>7, <2>2 DEF Step, Consumes
<1>8. CASE i.op = "borrow_end"
  BY <1>8 DEF Step, Consumes, CloseLoan, State
<1>9. CASE /\ i.op \notin {"acquire", "move", "alias", "release",
                           "borrow_start", "borrow_end"}
           /\ ~ Consumes(c, i)
           /\ ~ (i.op = "return" /\ i.sym # NoSym)
  BY <1>9 DEF Step
<1> QED BY <1>1, <1>2, <1>3, <1>4, <1>5, <1>6, <1>7, <1>8, <1>9

-----------------------------------------------------------------------------
(* An instruction in a run against the same instruction in the analysis. *)

(* One instruction keeps the run covered. *)
LEMMA StepCovers ==
  ASSUME NEW i, NEW s \in State, cs \in RunState, WellFormed(cfg),
         InstrOk(cfg, i), Covers(s, cs), ~ Stuck(i)
  PROVE  Covers(Step(cfg, i, s), Effect(i)) /\ Effect(i) \in RunState
<1> i \in Instr /\ i.line \in Nat /\ i.mut \in BOOLEAN
  BY DEF InstrOk, Instr
<1> DOMAIN cfg.syms \subseteq Sym
  BY DEF WellFormed
<1> NoSym \notin Sym
  BY MaxSymsAssumption DEF NoSym, Sym
<1>0. \A h \in Sym : cs.rid[h] # NoSym =>
        RidOf(s, h) = Obl(h) /\ Obl(h) \in Sym
  BY DEF Covers, RidOf, Obl, RunState, State
<1>1. CASE i.op = "acquire"
  <2> DEFINE where == cfg.syms[i.sym].buf
  <2> i.sym \in Sym /\ i.sym \in DOMAIN cfg.syms
    BY <1>1 DEF InstrOk
  <2> where \in Backing
    <3>1. cfg.syms[i.sym] \in SymInfo
      BY DEF WellFormed
    <3> QED BY <3>1 DEF SymInfo
  <2> HIDE DEF where
  <2>1. Step(cfg, i, s) = Mint(s, i.sym, i.line) /\ Effect(i) = Own(cs, i.sym, where)
    BY <1>1 DEF Step, Effect, Consumes, where
  <2>2. Own(cs, i.sym, where) \in RunState
    BY DEF Own, RunState, VarState
  <2>3. Covers(Mint(s, i.sym, i.line), Own(cs, i.sym, where))
    BY DEF Mint, Own, Covers, RunState, State
  <2> QED BY <2>1, <2>2, <2>3
<1>2. CASE i.op = "move"
  <2> i.src \in Sym /\ i.sym \in Sym
    BY <1>2 DEF InstrOk
  <2>1. Step(cfg, i, s) = MoveInto(s, i) /\ Effect(i) = MoveOut(i)
    BY <1>2 DEF Step, Effect, Consumes
  <2>2. Obl(i.src) \in Sym /\ RidOf(s, i.src) = Obl(i.src)
    <3>1. Subject(i) = i.src
      BY <1>2 DEF Subject
    <3>2. cs.rid[i.src] # NoSym
      BY <3>1 DEF Stuck, Bound, Obl
    <3> QED BY <3>2, <1>0
  <2>3. MoveOut(i) \in RunState
    BY <2>2 DEF MoveOut, Own, RunState, VarState
  <2>4. Covers(MoveInto(s, i), MoveOut(i))
    BY <2>2 DEF MoveInto, MoveOut, Mint, Own, Covers, RunState, State
  <2> QED BY <2>1, <2>3, <2>4
<1>3. CASE i.op = "alias"
  <2> i.src \in Sym /\ i.sym \in Sym
    BY <1>3 DEF InstrOk
  <2>1. /\ Step(cfg, i, s) = [s EXCEPT !.rid[i.sym] = RidOf(s, i.src)]
        /\ Effect(i) = [cs EXCEPT !.rid[i.sym] = Obl(i.src)]
    BY <1>3 DEF Step, Effect, Consumes
  <2>2. Obl(i.src) \in Sym /\ RidOf(s, i.src) = Obl(i.src)
    <3>1. Subject(i) = i.src
      BY <1>3 DEF Subject
    <3>2. cs.rid[i.src] # NoSym
      BY <3>1 DEF Stuck, Bound, Obl
    <3> QED BY <3>2, <1>0
  <2> QED BY <2>1, <2>2 DEF Covers, RunState, State
<1>4. CASE \/ i.op = "release"
           \/ Consumes(cfg, i)
           \/ i.op = "return" /\ i.sym # NoSym
  <2> DEFINE v == IF i.op = "release" THEN "RELEASED" ELSE "ESCAPED"
  <2> i.sym \in Sym /\ v \in VarState
    BY <1>4 DEF InstrOk, Consumes, VarState
  <2>1. Step(cfg, i, s) = SetHeld(s, i.sym, v) /\ Effect(i) = Take(i.sym, v)
    BY <1>4 DEF Step, Effect, Consumes
  <2>2. Obl(i.sym) \in Sym /\ RidOf(s, i.sym) = Obl(i.sym)
    <3>1. Subject(i) = i.sym
      BY <1>4 DEF Subject, Consumes
    <3>2. cs.rid[i.sym] # NoSym
      BY <3>1 DEF Stuck, Bound, Obl
    <3> QED BY <3>2, <1>0
  <2> HIDE DEF v
  <2> QED BY <2>1, <2>2 DEF SetHeld, Take, Covers, RunState, State
<1>5. CASE i.op = "borrow_start"
  <2> i.src \in Sym /\ i.sym \in Sym
    BY <1>5 DEF InstrOk
  <2>1. Obl(i.src) \in Sym /\ RidOf(s, i.src) = Obl(i.src)
    <3>1. Subject(i) = i.src
      BY <1>5 DEF Subject
    <3>2. cs.rid[i.src] # NoSym
      BY <3>1 DEF Stuck, Bound, Obl
    <3> QED BY <3>2, <1>0
  <2>2. /\ Step(cfg, i, s) = OpenLoan(s, i)
        /\ Effect(i) = [cs EXCEPT !.loans = {l \in @ : l.binding # i.sym} \cup
             {[binding |-> i.sym, owner |-> Obl(i.src), mut |-> i.mut]}]
    BY <1>5 DEF Step, Effect, Consumes
  <2> QED BY <2>1, <2>2 DEF OpenLoan, Covers, RunState, State, Loan
<1>6. CASE i.op = "borrow_end"
  <2>1. /\ Step(cfg, i, s) = CloseLoan(s, i)
        /\ Effect(i) = [cs EXCEPT !.loans = {l \in @ : l.binding # i.sym}]
    BY <1>6 DEF Step, Effect, Consumes
  <2> QED BY <2>1 DEF CloseLoan, Covers, RunState, State
<1>7. CASE /\ i.op \notin {"acquire", "move", "alias", "release",
                           "borrow_start", "borrow_end"}
           /\ ~ Consumes(cfg, i)
           /\ ~ (i.op = "return" /\ i.sym # NoSym)
  BY <1>7 DEF Step, Effect
<1> QED BY <1>1, <1>2, <1>3, <1>4, <1>5, <1>6, <1>7

(* An operation on an obligation that is gone is reported as such, returns *)
(* excepted.                                                               *)
LEMMA GoneReported ==
  ASSUME NEW i, NEW s \in State, cs \in RunState, WellFormed(cfg),
         InstrOk(cfg, i), Covers(s, cs), ~ Stuck(i),
         GoneFault(i), i.op # "return"
  PROVE  \E p \in Problems(cfg, i, s) : p.code \in GoneCodes
<1> DEFINE h == Subject(i)
<1> DEFINE S == Held(s, h)
<1> i \in Instr
  BY DEF InstrOk
<1>1. h \in Sym
  BY DEF GoneFault, Subject, InstrOk, WellFormed, NoSym, Instr
<1>2. RidOf(s, h) = Obl(h) /\ Obl(h) \in Sym
  BY <1>1 DEF Covers, RidOf, Obl, RunState, State, Stuck, Bound, GoneFault
<1>3. cs.var[Obl(h)] \in S /\ cs.var[Obl(h)] \in Gone
  BY <1>2 DEF Covers, Held, GoneFault, Gone
<1>4. S \subseteq VarState
  BY <1>2 DEF Held, State, VarState
<1>5. \E p \in StateProblem(s, h) : p.code \in GoneCodes
  BY <1>3, <1>4 DEF StateProblem, Gone, Problem, GoneCodes, VarState
<1>6. \A Q : \E p \in OrElse(StateProblem(s, h), Q) : p.code \in GoneCodes
  BY <1>5 DEF OrElse
<1>7. CASE i.op = "move"
  BY <1>6, <1>7 DEF Problems, ConsumeLike, Subject
<1>8. CASE i.op = "release"
  <2>1. \E p \in ReleaseProblems(s, i.sym) : p.code \in GoneCodes
    BY <1>6, <1>8 DEF ReleaseProblems, Subject, Problem, GoneCodes
  <2> QED BY <1>8, <2>1 DEF Problems
<1>9. CASE i.op = "use"
  <2>1. cfg.syms[i.sym].kind = "owned" /\ h = i.sym
    BY <1>9 DEF Subject, GoneFault
  <2>2. \E p \in UseProblems(cfg, s, i.sym) : p.code \in GoneCodes
    BY <1>6, <2>1 DEF UseProblems
  <2> QED BY <1>9, <2>2 DEF Problems
<1>10. CASE i.op = "arg"
  <2>1. cfg.syms[i.sym].kind = "owned" /\ h = i.sym
    BY <1>10 DEF Subject, GoneFault
  <2>2. i.eff \in {"consume", "borrow_mut", "borrow"}
    BY <1>10 DEF GoneFault, Touches, Takes, Excludes, Reads
  <2>3. \E p \in OwnedArg(cfg, i, s) : p.code \in GoneCodes
    BY <1>6, <2>1, <2>2
       DEF OwnedArg, ConsumeLike, MutBorrowable, SharedBorrowable
  <2> QED BY <1>10, <2>1, <2>3 DEF Problems, ArgProblems
<1>11. CASE i.op = "borrow_start"
  BY <1>6, <1>11 DEF Problems, Subject, MutBorrowable, SharedBorrowable,
                     Instr
<1> QED BY <1>7, <1>8, <1>9, <1>10, <1>11
        DEF GoneFault, Touches, Takes, Excludes, Reads

(* An operation against a live loan is reported, for the loan or because   *)
(* the obligation may be gone.                                             *)
LEMMA LoanReported ==
  ASSUME NEW i, NEW s \in State, cs \in RunState, WellFormed(cfg),
         InstrOk(cfg, i), Covers(s, cs), ~ Stuck(i),
         LoanFault(i), ~ GoneFault(i)
  PROVE  \E p \in Problems(cfg, i, s) : p.code \in GoneCodes \cup LoanCodes
<1> DEFINE h == Subject(i)
<1> DEFINE codes == GoneCodes \cup LoanCodes
<1> i \in Instr
  BY DEF InstrOk
<1>1. h \in Sym
  BY DEF LoanFault, Subject, InstrOk, WellFormed, NoSym, Instr
<1>2. RidOf(s, h) = Obl(h) /\ s.loans = cs.loans
  BY <1>1 DEF Covers, RidOf, Obl, RunState, State, Stuck, Bound, LoanFault
<1>3. SharedOn(s, h) <=> SharedLoan(h)
  BY <1>2 DEF SharedOn, SharedLoan
<1>4. MutOn(s, h) <=> MutLoan(h)
  BY <1>2 DEF MutOn, MutLoan
<1>5. \A p \in StateProblem(s, h) : p.code \in codes
  BY DEF StateProblem, Problem, GoneCodes
<1>6. \A Q : (\E p \in Q : p.code \in codes) =>
             \E p \in OrElse(StateProblem(s, h), Q) : p.code \in codes
  BY <1>5 DEF OrElse
<1>7. CASE i.op = "move"
  BY <1>3, <1>4, <1>6, <1>7 DEF Problems, ConsumeLike, Subject, LoanFault,
     When, Problem, Borrowed, LoanCodes
<1>8. CASE i.op = "release"
  <2>1. \E p \in ReleaseProblems(s, i.sym) : p.code \in codes
    BY <1>3, <1>4, <1>6, <1>8 DEF ReleaseProblems, Subject, LoanFault,
       Problem, When, Borrowed, LoanCodes, GoneCodes
  <2> QED BY <1>8, <2>1 DEF Problems
<1>9. CASE i.op = "use"
  <2>1. cfg.syms[i.sym].kind = "owned" /\ h = i.sym
    BY <1>9 DEF Subject, LoanFault
  <2>2. MutLoan(h)
    BY <1>9 DEF LoanFault, Takes, Excludes
  <2>3. \E p \in UseProblems(cfg, s, i.sym) : p.code \in codes
    BY <1>4, <1>6, <2>1, <2>2 DEF UseProblems, When, Problem, LoanCodes
  <2> QED BY <1>9, <2>3 DEF Problems
<1>10. CASE i.op = "arg"
  <2>1. cfg.syms[i.sym].kind = "owned" /\ h = i.sym
    BY <1>10 DEF Subject, LoanFault
  <2>2. CASE i.eff = "consume"
    <3>1. \E p \in ConsumeLike(s, h) : p.code \in codes
      BY <1>3, <1>4, <1>6 DEF ConsumeLike, LoanFault, When, Problem,
         Borrowed, LoanCodes
    <3> QED BY <1>10, <2>1, <2>2, <3>1 DEF Problems, ArgProblems, OwnedArg
  <2>3. CASE i.eff = "borrow_mut"
    <3>1. \E p \in OrElse(When(SharedOn(s, h), "OWN006", h),
                          When(MutOn(s, h), "OWN011", h)) : p.code \in codes
      BY <1>3, <1>4 DEF LoanFault, When, Problem, LoanCodes, OrElse
    <3>2. \E p \in MutBorrowable(s, h) : p.code \in codes
      BY <1>6, <3>1 DEF MutBorrowable
    <3> QED BY <1>10, <2>1, <2>3, <3>2 DEF Problems, ArgProblems, OwnedArg
  <2>4. CASE i.eff = "borrow"
    <3>1. \E p \in SharedBorrowable(s, h) : p.code \in codes
      BY <1>4, <1>6, <1>10, <2>4 DEF SharedBorrowable, LoanFault, Takes,
         Excludes, When, Problem, LoanCodes
    <3> QED BY <1>10, <2>1, <2>4, <3>1 DEF Problems, ArgProblems, OwnedArg
  <2> QED BY <1>10, <2>2, <2>3, <2>4 DEF LoanFault, Takes, Excludes, Reads
<1>11. CASE i.op = "borrow_start" /\ i.mut
  <2>1. \E p \in OrElse(When(SharedOn(s, h), "OWN006", h),
                        When(MutOn(s, h), "OWN011", h)) : p.code \in codes
    BY <1>3, <1>4 DEF LoanFault, When, Problem, LoanCodes, OrElse
  <2>2. \E p \in MutBorrowable(s, h) : p.code \in codes
    BY <1>6, <2>1 DEF MutBorrowable
  <2> QED BY <1>11, <2>2 DEF Problems, Subject
<1>12. CASE i.op = "borrow_start" /\ ~ i.mut
  <2>1. \E p \in SharedBorrowable(s, h) : p.code \in codes
    BY <1>4, <1>6, <1>12 DEF SharedBorrowable, LoanFault, Takes, Excludes,
       When, Problem, LoanCodes
  <2> QED BY <1>12, <2>1 DEF Problems, Subject
<1>13. CASE i.op = "return"
  <2> i.sym # NoSym /\ h = i.sym
    BY <1>13 DEF Subject, LoanFault
  <2>1. \E p \in ReturnProblems(cfg, s, h) : p.code \in codes
    BY <1>3, <1>4 DEF ReturnProblems, LoanFault, When, Problem, Borrowed,
       LoanCodes, GoneCodes
  <2> QED BY <1>13, <2>1 DEF Problems
<1> QED BY <1>7, <1>8, <1>9, <1>10, <1>11, <1>12, <1>13
        DEF LoanFault, Takes, Excludes, Reads

-----------------------------------------------------------------------------
(* Types. *)

(* The instructions of a well-formed graph are well-formed. *)
LEMMA GraphFacts ==
  ASSUME NEW c, WellFormed(c)
  PROVE  /\ Blocks(c) = 1 .. Len(c.instrs) /\ Len(c.instrs) \in Nat \ {0}
         /\ \A b \in Blocks(c) :
              /\ c.instrs[b] \in Seq(Instr)
              /\ Len(c.instrs[b]) \in Nat
              /\ DOMAIN c.instrs[b] = 1 .. Len(c.instrs[b])
              /\ c.succ[b] \in Seq(Blocks(c))
              /\ Succs(c, b) \subseteq Blocks(c)
              /\ \A j \in DOMAIN c.instrs[b] : InstrOk(c, c.instrs[b][j])
         /\ Entry \in Blocks(c)
BY DEF WellFormed, Blocks, Succs, Entry

(* reachable() has the entry block and is closed under successors. *)
LEMMA ReachClosed ==
  ASSUME NEW c, WellFormed(c)
  PROVE  /\ Reachable(c) \subseteq Blocks(c)
         /\ Entry \in Reachable(c)
         /\ \A p \in Reachable(c) : Succs(c, p) \subseteq Reachable(c)
<1>1. Reachable(c) \subseteq Blocks(c) /\ Entry \in Reachable(c)
  BY GraphFacts DEF Reachable
<1>2. ASSUME NEW p \in Reachable(c), NEW b \in Succs(c, p)
      PROVE  b \in Reachable(c)
  <2>1. b \in Blocks(c)
    BY <1>1, GraphFacts
  <2>2. ASSUME NEW R \in SUBSET Blocks(c), Entry \in R,
               \A q \in R : Succs(c, q) \subseteq R
        PROVE  b \in R
    BY <2>2 DEF Reachable
  <2> QED BY <2>1, <2>2 DEF Reachable
<1> QED BY <1>1, <1>2

(* The initial states and the in-states are states. *)
LEMMA InitialStateType == ASSUME WellFormed(cfg) PROVE InitialState(cfg) \in State
BY DEF InitialState, EmptyState, State, Site, NoSite, VarState, NoSym, WellFormed

LEMMA EmptyStateType == EmptyState \in State
BY DEF EmptyState, State, Site, NoSite, NoSym

LEMMA InStateType ==
  ASSUME WellFormed(cfg), outs \in [Blocks(cfg) -> State], NEW b \in Blocks(cfg)
  PROVE  InStateOf(b) \in State
<1> DEFINE SS == {outs[p] : p \in Known(b)}
<1>1. SS \in SUBSET State
  BY DEF Known, Preds
<1>2. CASE b # Entry /\ Known(b) # {}
  BY <1>1, <1>2, JoinType DEF InStateOf
<1> QED BY <1>2, InitialStateType, EmptyStateType DEF InStateOf

(* The elements of a queue when one is taken from it or put on it. *)
LEMMA TailElements ==
  ASSUME NEW S, NEW q \in Seq(S), q # <<>>
  PROVE  /\ Tail(q) \in Seq(S) /\ Head(q) \in S
         /\ Head(q) \in {q[j] : j \in DOMAIN q}
         /\ {Tail(q)[j] : j \in DOMAIN Tail(q)} \subseteq {q[j] : j \in DOMAIN q}
         /\ {q[j] : j \in DOMAIN q} \subseteq
              {Head(q)} \cup {Tail(q)[j] : j \in DOMAIN Tail(q)}
<1>1. Len(q) \in Nat \ {0} /\ DOMAIN q = 1 .. Len(q) /\ Head(q) = q[1]
  OBVIOUS
<1>2. Tail(q) \in Seq(S) /\ DOMAIN Tail(q) = 1 .. Len(q) - 1
  OBVIOUS
<1>3. \A j \in DOMAIN Tail(q) : Tail(q)[j] = q[j + 1] /\ j + 1 \in DOMAIN q
  BY <1>1, <1>2
<1>4. \A j \in DOMAIN q : j # 1 => j - 1 \in DOMAIN Tail(q) /\ Tail(q)[j - 1] = q[j]
  BY <1>1, <1>2, <1>3
<1>5. Head(q) \in S /\ Head(q) \in {q[j] : j \in DOMAIN q}
  BY <1>1
<1>6. {Tail(q)[j] : j \in DOMAIN Tail(q)} \subseteq {q[j] : j \in DOMAIN q}
  BY <1>3, Zenon
<1>7. ASSUME NEW j \in DOMAIN q
      PROVE  q[j] \in {Head(q)} \cup {Tail(q)[l] : l \in DOMAIN Tail(q)}
  <2>1. CASE j = 1
    BY <1>1, <2>1
  <2>2. CASE j # 1
    BY <1>4, <1>7, <2>2, Zenon
  <2> QED BY <2>1, <2>2
<1>8. {q[j] : j \in DOMAIN q} \subseteq
        {Head(q)} \cup {Tail(q)[j] : j \in DOMAIN Tail(q)}
  BY <1>7
<1> QED BY <1>2, <1>5, <1>6, <1>8

LEMMA AppendElements ==
  ASSUME NEW S, NEW q \in Seq(S), NEW x \in S
  PROVE  /\ Append(q, x) \in Seq(S)
         /\ {Append(q, x)[j] : j \in DOMAIN Append(q, x)} =
              {q[j] : j \in DOMAIN q} \cup {x}
<1>1. /\ Append(q, x) \in Seq(S) /\ Len(q) \in Nat /\ DOMAIN q = 1 .. Len(q)
      /\ DOMAIN Append(q, x) = 1 .. Len(q) + 1
  OBVIOUS
<1>2. \A j \in DOMAIN q : Append(q, x)[j] = q[j]
  BY <1>1
<1>3. Append(q, x)[Len(q) + 1] = x
  OBVIOUS
<1>4. \A j \in DOMAIN Append(q, x) : j \in DOMAIN q \/ j = Len(q) + 1
  BY <1>1
<1> QED BY <1>1, <1>2, <1>3, <1>4

(* One instruction takes the run to a run state. *)
LEMMA EffectType ==
  ASSUME NEW i, cs \in RunState, WellFormed(cfg), InstrOk(cfg, i), ~ Stuck(i)
  PROVE  Effect(i) \in RunState
<1> DEFINE s == [EmptyState EXCEPT
                   !.var = [r \in Sym |-> {cs.var[r]} \cap VarState],
                   !.rid = cs.rid, !.loans = cs.loans]
<1>1. s \in State
  BY EmptyStateType DEF State, RunState
<1>2. Covers(s, cs)
  BY EmptyStateType DEF Covers, RunState, State
<1> QED BY <1>1, <1>2, StepCovers

(* Interpreting one instruction keeps the types, silent or not. *)
LEMMA StepKeepsType ==
  ASSUME TypeInv, NEW during, during \in {"transfer", "judge"}, NEW silent,
         Transfer(during, silent), UNCHANGED rvars
  PROVE  TypeInv'
<1> USE DEF TypeInv
<1> DEFINE i == Instrs(blk)[k]
<1>1. WellFormed(cfg) /\ blk \in reach /\ blk \in Blocks(cfg)
  BY DEF Transfer, Shape, TypeOK
<1>2. /\ DOMAIN Instrs(blk) = 1 .. Len(cfg.instrs[blk])
      /\ Len(cfg.instrs[blk]) \in Nat /\ InstrOk(cfg, i)
  BY <1>1, GraphFacts DEF Transfer, Instrs
<1>3. Step(cfg, i, st) \in State
  BY <1>1, <1>2, StepType DEF TypeOK
<1>4. k \in 1 .. Len(cfg.instrs[blk]) /\ k + 1 \in 1 .. Len(cfg.instrs[blk]) + 1
  BY <1>2 DEF Transfer
<1>5. st' = Step(cfg, i, st) /\ at' = [at EXCEPT ![blk][k + 1] = Step(cfg, i, st)]
  BY DEF Transfer
<1> HIDE DEF i
<1>6. /\ DOMAIN at' = Blocks(cfg)
      /\ \A b \in Blocks(cfg) :
           at'[b] \in [1 .. Len(cfg.instrs[b]) + 1 -> State]
  BY <1>3, <1>4, <1>5 DEF TypeOK
<1>7. TypeOK'
  BY <1>3, <1>5, <1>6 DEF Transfer, rvars, TypeOK, Phases, Blocks
<1>8. Shape'
  BY <1>1, <1>4 DEF Transfer, rvars, Shape, Queued, Todo
<1> QED BY <1>7, <1>8

(* A step keeps the types, the successors' ranges and the cursors. *)
LEMMA TypeStep == TypeInv /\ [AnyNext]_vars => TypeInv'
<1> SUFFICES ASSUME TypeInv, [AnyNext]_vars PROVE TypeInv'
  OBVIOUS
<1> USE DEF TypeInv
<1>1. ASSUME NEW c, WellFormed(c), Begin(c), UNCHANGED rvars PROVE TypeInv'
  <2>1. WellFormed(c)
    BY <1>1
  <2>2. /\ Reachable(c) \subseteq Blocks(c)
        /\ Entry \in Reachable(c)
        /\ \A p \in Reachable(c) : Succs(c, p) \subseteq Reachable(c)
    BY <2>1, ReachClosed
  <2>3. cfg' = c /\ reach' = Reachable(c) /\ phase' = "seed" /\ phase = "idle"
    BY <1>1 DEF Begin
  <2>4. Blocks(cfg) = {}
    BY <2>3 DEF Shape, NoCfg, Blocks
  <2>5. work = <<>> /\ todo = <<>> /\ computed = {}
    BY <2>4 DEF TypeOK
  <2>6. TypeOK'
    BY <1>1, <2>1, <2>2, <2>3, <2>5, EmptyStateType, GraphFacts
       DEF TypeOK, Begin, rvars, Phases, Blocks
  <2>7. Shape'
    BY <1>1, <2>1, <2>2, <2>3, <2>5 DEF Shape, Begin, rvars, Queued, Todo, Entry
  <2> QED BY <2>6, <2>7
<1>2. CASE Seed /\ UNCHANGED rvars
  <2>1. WellFormed(cfg) /\ blk \in Nat
    BY <1>2 DEF Seed, Shape
  <2>2. CASE blk \in reach
    <3>2. blk \in Blocks(cfg) /\ work' = Append(work, blk)
      BY <1>2, <2>2 DEF Seed, TypeOK
    <3>1. /\ Append(work, blk) \in Seq(Blocks(cfg))
          /\ {Append(work, blk)[j] : j \in DOMAIN Append(work, blk)} =
                Queued \cup {blk}
      <4>1. work \in Seq(Blocks(cfg))
        BY DEF TypeOK
      <4> QED BY <3>2, <4>1, AppendElements DEF Queued
    <3>3. Queued' = Queued \cup {blk}
      BY <3>1, <3>2 DEF Queued
    <3>4. TypeOK'
      BY <1>2, <3>1, <3>2 DEF TypeOK, Seed, rvars, Phases, Blocks
    <3>5. /\ phase = "seed" /\ phase' = "seed" /\ blk' = blk + 1
          /\ UNCHANGED <<cfg, reach, computed, k, todo, mode, rb, rk>>
      BY <1>2, <2>2, <3>2 DEF Seed, rvars
    <3>6. Todo' = Todo
      BY <3>5 DEF Todo
    <3>7. Shape'
      BY <2>1, <2>2, <3>3, <3>5, <3>6 DEF Shape
    <3> QED BY <3>4, <3>7
  <2>3. CASE blk \notin reach
    <3>1. TypeOK'
      BY <1>2, <2>3 DEF TypeOK, Seed, rvars, Phases, Blocks
    <3>2. Shape'
      BY <1>2, <2>1, <2>3 DEF Shape, Seed, rvars, Todo, Queued, NoBlock
    <3> QED BY <3>1, <3>2
  <2> QED BY <2>2, <2>3
<1>3. CASE Pop /\ UNCHANGED rvars
  <2>1. /\ Tail(work) \in Seq(Blocks(cfg)) /\ Head(work) \in Blocks(cfg)
        /\ Head(work) \in Queued
        /\ {Tail(work)[j] : j \in DOMAIN Tail(work)} \subseteq Queued
    BY <1>3, TailElements DEF TypeOK, Pop, Queued
  <2>2. WellFormed(cfg) /\ work' = Tail(work)
    BY <1>3 DEF Pop, Shape
  <2>3. InStateOf(Head(work)) \in State
    BY <2>1, <2>2, InStateType DEF TypeOK
  <2>4. Len(cfg.instrs[Head(work)]) \in Nat /\ Head(work) \in Nat
    BY <2>1, <2>2, GraphFacts
  <2>5. Queued' \subseteq Queued
    BY <2>1, <2>2 DEF Queued
  <2>6. ins' \in [Blocks(cfg) -> State]
    BY <1>3, <2>3 DEF TypeOK, Pop
  <2>7. /\ DOMAIN at' = Blocks(cfg)
        /\ \A b \in Blocks(cfg) :
             at'[b] \in [1 .. Len(cfg.instrs[b]) + 1 -> State]
    BY <1>3, <2>3 DEF TypeOK, Pop
  <2>8. TypeOK'
    BY <1>3, <2>1, <2>2, <2>3, <2>6, <2>7
       DEF TypeOK, Pop, rvars, Phases, Blocks
  <2>9. Shape'
    BY <1>3, <2>1, <2>2, <2>4, <2>5 DEF Shape, Pop, rvars, Todo
  <2> QED BY <2>8, <2>9
<1>4. CASE Raise /\ UNCHANGED rvars
  BY <1>4 DEF Raise, rvars, TypeOK, Shape, Phases, Blocks, Queued, Todo
<1>5. CASE SilentStep /\ UNCHANGED rvars
  BY <1>5, StepKeepsType DEF SilentStep
<1>6. CASE Store /\ UNCHANGED rvars
  <2>1. WellFormed(cfg) /\ blk \in reach /\ blk \in Blocks(cfg)
    BY <1>6 DEF Store, Shape, TypeOK
  <2>2. CASE phase' = "requeue"
    <3>1. todo' = cfg.succ[blk] /\ todo' \in Seq(Blocks(cfg))
      BY <1>6, <2>1, <2>2, GraphFacts DEF Store
    <3>2. Todo' \subseteq reach
      <4>1. Todo' = Succs(cfg, blk)
        BY <3>1 DEF Todo, Succs
      <4>2. Succs(cfg, blk) \subseteq reach
        BY <1>6, <2>1 DEF Shape, Store
      <4> QED BY <4>1, <4>2
    <3>3. TypeOK'
      BY <1>6, <2>1, <2>2, <3>1 DEF Store, rvars, TypeOK, Phases, Blocks
    <3> QED BY <1>6, <2>1, <2>2, <3>2, <3>3 DEF Store, rvars, Shape, Queued
  <2>3. CASE phase' # "requeue"
    BY <1>6, <2>1, <2>3
       DEF Store, rvars, TypeOK, Shape, Phases, Blocks, Queued, Todo
  <2> QED BY <2>2, <2>3
<1>7. CASE Requeue /\ UNCHANGED rvars
  <2>1. WellFormed(cfg)
    BY <1>7 DEF Requeue, Shape
  <2>2. CASE todo = <<>>
    BY <1>7, <2>1, <2>2
       DEF Requeue, rvars, TypeOK, Shape, Phases, Blocks, Queued, Todo
  <2>3. CASE todo # <<>>
    <3>1. /\ Tail(todo) \in Seq(Blocks(cfg)) /\ Head(todo) \in Blocks(cfg)
          /\ {Tail(todo)[j] : j \in DOMAIN Tail(todo)} \subseteq Todo
      BY <2>3, TailElements DEF TypeOK, Todo
    <3>2. Todo' \subseteq Todo
      BY <1>7, <2>3, <3>1 DEF Requeue, Todo
    <3>3. work' \in Seq(Blocks(cfg)) /\ Queued' \subseteq reach
      <4>1. CASE Head(todo) \in reach \ Queued
        <5>1. work' = Append(work, Head(todo))
          BY <1>7, <2>3, <4>1 DEF Requeue
        <5>2. work \in Seq(Blocks(cfg)) /\ Queued \subseteq reach
          BY DEF TypeOK, Shape
        <5>3. work' \in Seq(Blocks(cfg)) /\ Queued' = Queued \cup {Head(todo)}
          BY <3>1, <5>1, <5>2, AppendElements DEF Queued
        <5> QED BY <4>1, <5>2, <5>3
      <4>2. CASE Head(todo) \notin reach \ Queued
        BY <1>7, <2>3, <4>2 DEF Requeue, Queued, TypeOK, Shape
      <4> QED BY <4>1, <4>2
    <3>4. TypeOK'
      BY <1>7, <2>1, <2>3, <3>1, <3>3
         DEF Requeue, rvars, TypeOK, Phases, Blocks
    <3> QED BY <1>7, <2>1, <2>3, <3>2, <3>3, <3>4 DEF Requeue, rvars, Shape
  <2> QED BY <2>2, <2>3
<1>8. CASE Converged /\ UNCHANGED rvars
  BY <1>8
     DEF Converged, rvars, TypeOK, Shape, Phases, Blocks, Queued, Todo, Entry
<1>9. CASE ReportBlock /\ UNCHANGED rvars
  <2>1. WellFormed(cfg) /\ blk \in Blocks(cfg)
    BY <1>9 DEF ReportBlock, Shape
  <2>2. Len(cfg.instrs[blk]) \in Nat
    BY <2>1, GraphFacts
  <2>3. CASE blk \in reach
    <3>1. ins[blk] \in State
      BY <2>1 DEF TypeOK
    <3>2. /\ DOMAIN at' = Blocks(cfg)
          /\ \A b \in Blocks(cfg) :
               at'[b] \in [1 .. Len(cfg.instrs[b]) + 1 -> State]
      <4>1. at' = [at EXCEPT ![blk][1] = ins[blk]]
        BY <1>9, <2>3 DEF ReportBlock
      <4>2. 1 \in 1 .. Len(cfg.instrs[blk]) + 1 /\ cfg' = cfg
        BY <1>9, <2>2 DEF ReportBlock
      <4> QED BY <2>1, <3>1, <4>1, <4>2 DEF TypeOK
    <3>3. TypeOK'
      BY <1>9, <2>3, <3>1, <3>2 DEF TypeOK, ReportBlock, rvars, Phases, Blocks
    <3> QED BY <1>9, <2>1, <2>2, <2>3, <3>3
            DEF Shape, ReportBlock, rvars, Queued, Todo
  <2>4. CASE blk \notin reach
    BY <1>9, <2>1, <2>4
       DEF ReportBlock, rvars, TypeOK, Shape, Phases, Blocks, Queued, Todo
  <2> QED BY <2>3, <2>4
<1>10. CASE JudgeStep /\ UNCHANGED rvars
  BY <1>10, StepKeepsType DEF JudgeStep
<1>11. CASE JudgedBlock /\ UNCHANGED rvars
  <2>1. fin' \in [Blocks(cfg) -> State]
    BY <1>11 DEF JudgedBlock, TypeOK
  <2> QED BY <1>11, <2>1
          DEF JudgedBlock, rvars, TypeOK, Shape, Phases, Blocks, Queued, Todo
<1>12. CASE StartLeaks /\ UNCHANGED rvars
  BY <1>12
     DEF StartLeaks, rvars, TypeOK, Shape, Phases, Blocks, Queued, Todo, Entry
<1>13. CASE LeakCheck /\ UNCHANGED rvars
  BY <1>13 DEF LeakCheck, rvars, TypeOK, Shape, Phases, Blocks, Queued, Todo
<1>14. CASE Finished /\ UNCHANGED rvars
  BY <1>14 DEF Finished, rvars, TypeOK, Shape, Phases, Blocks, Queued, Todo
<1>15. CASE StartRun
  <2>1. cs' \in RunState
    BY <1>15 DEF StartRun, RunState, NotRunning, VarState, Backing
  <2>2. Len(cfg.instrs[Entry]) \in Nat
    BY <1>15, GraphFacts DEF StartRun, Shape
  <2> QED BY <1>15, <2>1, <2>2
          DEF StartRun, avars, TypeOK, Shape, Phases, Blocks, Queued, Todo
<1>16. CASE Execute
  <2>1. WellFormed(cfg) /\ rb \in reach /\ rb \in Blocks(cfg)
    BY <1>16 DEF Execute, AtInstr, Shape, TypeOK
  <2>2. /\ DOMAIN Instrs(rb) = 1 .. Len(cfg.instrs[rb])
        /\ Len(cfg.instrs[rb]) \in Nat /\ InstrOk(cfg, Here)
    BY <1>16, <2>1, GraphFacts DEF Execute, AtInstr, Instrs, Here
  <2>3. cs' \in RunState
    BY <1>16, <2>1, <2>2, EffectType DEF Execute, TypeOK
  <2>4. rk' \in 1 .. Len(cfg.instrs[rb]) + 1
    BY <1>16, <2>2 DEF Execute, AtInstr
  <2>5. lost' \subseteq Sym
    <3>1. Here.op \in {"acquire", "move"} => Here.sym \in Sym
      BY <2>1, <2>2 DEF InstrOk, WellFormed
    <3> QED BY <1>16, <3>1 DEF Execute, TypeOK
  <2> QED BY <1>16, <2>3, <2>4, <2>5
          DEF Execute, avars, TypeOK, Shape, Phases, Blocks, Queued, Todo
<1>17. CASE GetStuck
  BY <1>17
     DEF GetStuck, AtInstr, avars, TypeOK, Shape, Phases, Blocks, Queued, Todo
<1>18. CASE Jump
  <2>1. WellFormed(cfg) /\ rb \in reach /\ rb' \in reach
    BY <1>18 DEF Jump, Shape
  <2>2. Len(cfg.instrs[rb']) \in Nat
    BY <2>1, GraphFacts DEF TypeOK
  <2> QED BY <1>18, <2>1, <2>2
          DEF Jump, avars, TypeOK, Shape, Phases, Blocks, Queued, Todo
<1>19. CASE Leave
  BY <1>19 DEF Leave, avars, TypeOK, Shape, Phases, Blocks, Queued, Todo
<1>20. CASE UNCHANGED vars
  BY <1>20
     DEF vars, avars, rvars, TypeOK, Shape, Phases, Blocks, Queued, Todo
<1> QED
  BY <1>1, <1>2, <1>3, <1>4, <1>5, <1>6, <1>7, <1>8, <1>9, <1>10, <1>11,
     <1>12, <1>13, <1>14, <1>15, <1>16, <1>17, <1>18, <1>19, <1>20
     DEF AnyNext, AnyCall, AnalyzerStep, RunnerStep

LEMMA InitTyped == Init => TypeInv
<1> SUFFICES ASSUME Init PROVE TypeInv
  OBVIOUS
<1>1. Blocks(cfg) = {}
  BY DEF Init, AnalysisInit, NoCfg, Blocks
<1>2. TypeOK
  BY <1>1, EmptyStateType
     DEF Init, AnalysisInit, RunInit, TypeOK, Phases, NoStates, RunState,
         NotRunning, Backing
<1>3. Shape
  BY DEF Init, AnalysisInit, RunInit, Shape, NoBlock, Queued, Todo
<1> QED BY <1>2, <1>3 DEF TypeInv

(* The graphs of `Cfgs` are well-formed: a step of Spec is one of AnyNext.  *)
LEMMA SpecCalls == Next => AnyNext
BY CfgsAssumption DEF Next, Call, AnyNext, AnyCall

(* Every reachable state of the analyzer and of the run is well typed, the  *)
(* cursors stay inside their blocks and every jump stays among the          *)
(* reachable blocks (analysis.py: `fixpoint`, `transfer`, `run`).           *)
THEOREM TypeInvariant == Spec => []TypeInv
<1>1. Init => TypeInv
  BY InitTyped
<1>2. TypeInv /\ [Next]_vars => TypeInv'
  BY TypeStep, SpecCalls
<1> QED BY <1>1, <1>2, PTL DEF Spec

(* The type invariant the runs check, for every set of graphs.              *)
THEOREM TypeCorrect == Spec => []TypeOK
<1>1. TypeInv => TypeOK
  BY DEF TypeInv
<1> QED BY <1>1, TypeInvariant, PTL

-----------------------------------------------------------------------------
(* The fixpoint. *)

(* FixInv reads these variables only.                                      *)
fixvars == <<cfg, phase, reach, work, computed, ins, outs, blk, k, st, todo, at>>

LEMMA FixUnchanged == FixInv /\ UNCHANGED fixvars => FixInv'
BY DEF fixvars, FixInv, ChainInv, CurrentInv, EntryInv, SeededInv, EdgeInv,
       InFlight, Stepped, Last, Instrs, Queued, Todo, InitialState, Succs

(* The reporting pass and the leak checks leave the states alone.          *)
LEMMA SettledKeepsFix ==
  ASSUME TypeInv, FixInv, phase \in Settled, phase' \in Settled,
         \A b \in Blocks(cfg) : at'[b] = at[b],
         UNCHANGED <<cfg, reach, work, computed, ins, outs, todo>>,
         CurrentInv'
  PROVE  FixInv'
<1>1. phase # "transfer" /\ phase' # "transfer" /\ computed \subseteq Blocks(cfg)
  BY DEF Settled, TypeInv, TypeOK
<1>2. ChainInv'
  BY <1>1 DEF FixInv, ChainInv, InFlight, Stepped, Last, Instrs
<1>3. EntryInv'
  BY <1>1 DEF FixInv, EntryInv, InFlight, InitialState
<1>4. SeededInv'
  BY DEF FixInv, SeededInv, Settled, Converging, InFlight, Queued
<1>5. EdgeInv'
  BY DEF FixInv, EdgeInv, Settled, Queued, Todo, Succs
<1> QED BY <1>2, <1>3, <1>4, <1>5 DEF FixInv

(* The silent transfer of one instruction.                                 *)
LEMMA SilentKeepsFix ==
  ASSUME TypeInv, FixInv, SilentStep PROVE FixInv'
<1> DEFINE i == Instrs(blk)[k]
<1>1. /\ phase = "transfer" /\ phase' = "transfer"
      /\ k \in DOMAIN Instrs(blk) /\ k' = k + 1
      /\ st' = Step(cfg, i, st)
      /\ at' = [at EXCEPT ![blk][k + 1] = Step(cfg, i, st)]
      /\ UNCHANGED <<cfg, reach, work, computed, ins, outs, blk, todo>>
  BY DEF SilentStep, Transfer
<1>2. WellFormed(cfg) /\ blk \in Blocks(cfg) /\ DOMAIN at = Blocks(cfg)
  BY <1>1 DEF TypeInv, Shape, TypeOK
<1>3. /\ DOMAIN Instrs(blk) = 1 .. Len(cfg.instrs[blk])
      /\ Len(cfg.instrs[blk]) \in Nat
  BY <1>2, GraphFacts DEF Instrs
<1>4. at[blk] \in [1 .. Len(cfg.instrs[blk]) + 1 -> State]
  BY <1>2 DEF TypeInv, TypeOK
<1>5. \A b \in Blocks(cfg) : b # blk => at'[b] = at[b]
  BY <1>1, <1>2
<1>6. /\ at'[blk][k + 1] = Step(cfg, i, st)
      /\ \A j \in 1 .. Len(cfg.instrs[blk]) + 1 : j # k + 1 => at'[blk][j] = at[blk][j]
  BY <1>1, <1>2, <1>3, <1>4
<1> HIDE DEF i
<1>7. ChainInv'
  <2>1. computed \subseteq Blocks(cfg)
    BY DEF TypeInv, TypeOK
  <2> QED BY <1>1, <1>5, <2>1
          DEF FixInv, ChainInv, InFlight, Stepped, Last, Instrs
<1>8. CurrentInv'
  <2>1. at'[blk][1] = ins[blk]
    BY <1>1, <1>3, <1>6 DEF FixInv, CurrentInv
  <2>2. ASSUME NEW j \in DOMAIN Instrs(blk), j < k + 1
        PROVE  at'[blk][j + 1] = Step(cfg, Instrs(blk)[j], at'[blk][j])
    <3>1. at'[blk][j] = at[blk][j]
      BY <1>3, <1>6, <2>2
    <3>2. CASE j = k
      BY <1>1, <1>6, <3>1, <3>2 DEF FixInv, CurrentInv, i
    <3>3. CASE j < k
      <4>1. at'[blk][j + 1] = at[blk][j + 1]
        BY <1>3, <1>6, <1>1, <3>3
      <4>2. at[blk][j + 1] = Step(cfg, Instrs(blk)[j], at[blk][j])
        BY <1>1, <3>3 DEF FixInv, CurrentInv, Stepped
      <4> QED BY <3>1, <4>1, <4>2
    <3> QED BY <1>1, <1>3, <2>2, <3>2, <3>3
  <2>3. Stepped(blk, k)'
    BY <1>1, <2>2 DEF Stepped, Instrs
  <2> QED BY <1>1, <1>6, <2>1, <2>3 DEF CurrentInv
<1>9. EntryInv' /\ SeededInv' /\ EdgeInv'
  BY <1>1 DEF FixInv, EntryInv, SeededInv, EdgeInv, InFlight, InitialState,
     Queued, Todo, Succs, Settled
<1> QED BY <1>7, <1>8, <1>9 DEF FixInv

(* bid = work.popleft(): the in-state of the block takes in what each of   *)
(* its computed predecessors sends out.                                    *)
LEMMA PopKeepsFix ==
  ASSUME TypeInv, FixInv, Pop PROVE FixInv'
<1>0. PICK b : b = Head(work)
  OBVIOUS
<1>1. /\ phase = "fixpoint" /\ phase' = "transfer" /\ work # <<>>
      /\ ~ JoinRaises(b) /\ work' = Tail(work)
      /\ ins' = [ins EXCEPT ![b] = InStateOf(b)]
      /\ st' = InStateOf(b)
      /\ at' = [at EXCEPT ![b][1] = InStateOf(b)]
      /\ blk' = b /\ k' = 1
      /\ UNCHANGED <<cfg, reach, computed, outs, todo>>
  BY <1>0 DEF Pop
<1>2. /\ b \in Blocks(cfg) /\ b \in Queued
      /\ Queued \subseteq {b} \cup Queued'
  <2>1. work \in Seq(Blocks(cfg))
    BY DEF TypeInv, TypeOK
  <2>2. /\ Head(work) \in Blocks(cfg)
        /\ Head(work) \in {work[j] : j \in DOMAIN work}
        /\ {work[j] : j \in DOMAIN work} \subseteq
             {Head(work)} \cup {Tail(work)[j] : j \in DOMAIN Tail(work)}
    BY <1>1, <2>1, TailElements
  <2> QED BY <1>0, <1>1, <2>2 DEF Queued
<1>3. /\ WellFormed(cfg) /\ DOMAIN at = Blocks(cfg)
      /\ ins \in [Blocks(cfg) -> State] /\ outs \in [Blocks(cfg) -> State]
      /\ computed \subseteq Blocks(cfg)
  BY <1>1 DEF TypeInv, Shape, TypeOK
<1>4. /\ DOMAIN Instrs(b) = 1 .. Len(cfg.instrs[b])
      /\ Len(cfg.instrs[b]) \in Nat
      /\ at[b] \in [1 .. Len(cfg.instrs[b]) + 1 -> State]
  BY <1>2, <1>3, GraphFacts DEF Instrs, TypeInv, TypeOK
<1>5. \A d \in Blocks(cfg) : d # b => at'[d] = at[d] /\ ins'[d] = ins[d]
  BY <1>1, <1>3
<1>6. at'[b][1] = InStateOf(b) /\ ins'[b] = InStateOf(b)
  BY <1>1, <1>2, <1>3, <1>4
<1>7. ChainInv'
  <2> SUFFICES ASSUME NEW d \in computed, d # b
               PROVE  /\ at'[d][1] = ins'[d] /\ Stepped(d, Last(d))'
                      /\ at'[d][Last(d)'] = outs'[d]
    BY <1>1 DEF ChainInv, InFlight
  <2>1. d \in Blocks(cfg) /\ at'[d] = at[d] /\ ins'[d] = ins[d]
    BY <1>3, <1>5
  <2>2. at[d][1] = ins[d] /\ Stepped(d, Last(d)) /\ at[d][Last(d)] = outs[d]
    BY <1>1 DEF FixInv, ChainInv, InFlight
  <2> QED BY <1>1, <2>1, <2>2 DEF Stepped, Last, Instrs
<1>8. CurrentInv'
  <2>1. Stepped(b, 1)'
    BY <1>1, <1>4 DEF Stepped, Instrs
  <2> QED BY <1>1, <1>6, <2>1 DEF CurrentInv
<1>9. EntryInv'
  <2>1. InitialState(cfg)' = InitialState(cfg) /\ Entry \in Blocks(cfg)
    BY <1>1, <1>3, GraphFacts DEF InitialState
  <2>2. CASE b = Entry
    BY <1>6, <2>1, <2>2 DEF EntryInv, InStateOf
  <2>3. CASE b # Entry
    BY <1>1, <1>5, <2>1, <2>3 DEF FixInv, EntryInv, InFlight
  <2> QED BY <2>2, <2>3
<1>10. SeededInv'
  BY <1>1, <1>2 DEF FixInv, SeededInv, InFlight, Converging, Settled
<1>11. EdgeInv'
  <2> SUFFICES ASSUME NEW p \in computed, NEW d \in Succs(cfg, p), d \notin Queued'
               PROVE  Below(outs[p], ins'[d])
    BY <1>1 DEF EdgeInv, Succs
  <2>1. p \in Blocks(cfg) /\ d \in Blocks(cfg) /\ d # Entry
    BY <1>3, GraphFacts DEF WellFormed
  <2>2. CASE d = b
    <3> DEFINE SS == {outs[q] : q \in Known(b)}
    <3>1. p \in Known(b)
      BY <2>1, <2>2 DEF Known, Preds
    <3>2. SS \in SUBSET State /\ outs[p] \in SS
      BY <1>3, <3>1 DEF Known
    <3>3. ~ MergeConflict(SS)
      BY <1>1, <2>1, <2>2 DEF JoinRaises
    <3>4. InStateOf(b) = JoinAll(SS)
      BY <2>1, <2>2, <3>1 DEF InStateOf
    <3> QED BY <1>6, <2>2, <3>2, <3>3, <3>4, JoinBelow
  <2>3. CASE d # b
    <3>1. d \notin Queued
      BY <1>2, <2>3
    <3>2. Below(outs[p], ins[d])
      BY <1>1, <3>1 DEF FixInv, EdgeInv
    <3> QED BY <1>5, <2>1, <2>3, <3>2
  <2> QED BY <2>2, <2>3
<1> QED BY <1>7, <1>8, <1>9, <1>10, <1>11 DEF FixInv

(* Keeping an out-state: its successors are owed a visit.                  *)
LEMMA StoreKeepsFix ==
  ASSUME TypeInv, FixInv, Store PROVE FixInv'
<1>1. /\ phase = "transfer" /\ k \notin DOMAIN Instrs(blk)
      /\ phase' \in {"requeue", "fixpoint"}
      /\ UNCHANGED <<cfg, reach, work, ins, blk, k, st, at>>
  BY DEF Store
<1>2. WellFormed(cfg) /\ blk \in Blocks(cfg) /\ blk \in reach
  BY <1>1 DEF TypeInv, Shape, TypeOK
<1>3. k = Last(blk)
  <2>1. /\ DOMAIN Instrs(blk) = 1 .. Len(cfg.instrs[blk])
        /\ Len(cfg.instrs[blk]) \in Nat
    BY <1>2, GraphFacts DEF Instrs
  <2> QED BY <1>1, <2>1 DEF TypeInv, Shape, Last
<1>4. outs'[blk] = st /\ computed' = computed \cup {blk}
  BY <1>2 DEF Store, TypeInv, TypeOK
<1>5. \A p \in computed : p # blk => outs'[p] = outs[p]
  BY DEF Store, TypeInv, TypeOK
<1>6. at[blk][1] = ins[blk] /\ Stepped(blk, Last(blk)) /\ st = at[blk][Last(blk)]
  BY <1>1, <1>3 DEF FixInv, CurrentInv
<1>7. ChainInv'
  <2> SUFFICES ASSUME NEW p \in computed'
               PROVE  /\ at[p][1] = ins[p] /\ Stepped(p, Last(p))
                      /\ at[p][Last(p)] = outs'[p]
    BY <1>1 DEF ChainInv, Stepped, Last, Instrs
  <2>1. CASE p = blk
    BY <1>4, <1>6, <2>1
  <2>2. CASE p # blk
    BY <1>4, <1>5, <2>2 DEF FixInv, ChainInv, InFlight
  <2> QED BY <2>1, <2>2
<1>8. CurrentInv'
  BY <1>1 DEF CurrentInv
<1>9. EntryInv'
  BY <1>1, <1>4 DEF FixInv, EntryInv, InFlight, InitialState
<1>10. SeededInv'
  BY <1>1, <1>4 DEF FixInv, SeededInv, InFlight, Converging, Settled, Queued
<1>11. EdgeInv'
  <2> SUFFICES ASSUME NEW p \in computed', NEW d \in Succs(cfg, p)
               PROVE  \/ d \in Queued
                      \/ phase' = "requeue" /\ p = blk /\ d \in Todo'
                      \/ Below(outs'[p], ins[d])
    BY <1>1 DEF EdgeInv, Succs, Queued
  <2>1. CASE p = blk /\ (blk \notin computed \/ st # outs[blk])
    <3>1. phase' = "requeue" /\ todo' = cfg.succ[blk]
      BY <2>1 DEF Store
    <3> QED BY <2>1, <3>1 DEF Todo, Succs
  <2>2. CASE p \in computed /\ (p = blk => st = outs[blk])
    <3>1. outs'[p] = outs[p]
      BY <1>4, <1>5, <2>2
    <3> QED BY <1>1, <2>2, <3>1 DEF FixInv, EdgeInv
  <2> QED BY <1>4, <2>1, <2>2
<1> QED BY <1>7, <1>8, <1>9, <1>10, <1>11 DEF FixInv

(* Queueing the successors: what was to be queued is queued, or still to be. *)
LEMMA RequeueQueues ==
  ASSUME TypeInv, Requeue
  PROVE  /\ Queued \subseteq Queued'
         /\ Todo \subseteq Todo' \cup Queued'
         /\ Todo # {} => phase' = "requeue"
<1>1. /\ phase = "requeue" /\ phase' \in {"requeue", "fixpoint"}
      /\ UNCHANGED <<cfg, reach, computed, ins, outs, blk, k, st, at>>
  BY DEF Requeue
<1>2. work \in Seq(Blocks(cfg)) /\ todo \in Seq(Blocks(cfg))
  BY DEF TypeInv, TypeOK
<1>3. CASE todo = <<>>
  <2>1. Todo = {} /\ work' = work
    BY <1>3 DEF Todo, Requeue
  <2> QED BY <2>1 DEF Queued
<1>4. CASE todo # <<>>
  <2>1. todo' = Tail(todo) /\ phase' = "requeue"
    BY <1>1, <1>4 DEF Requeue
  <2>2. Todo \subseteq {Head(todo)} \cup Todo' /\ Head(todo) \in Todo
    <3>1. /\ Head(todo) \in {todo[j] : j \in DOMAIN todo}
          /\ {todo[j] : j \in DOMAIN todo} \subseteq
               {Head(todo)} \cup {Tail(todo)[j] : j \in DOMAIN Tail(todo)}
      BY <1>2, <1>4, TailElements
    <3> QED BY <2>1, <3>1 DEF Todo
  <2>3. Head(todo) \in reach /\ Head(todo) \in Blocks(cfg)
    BY <2>2, <1>2, <1>4, TailElements DEF TypeInv, Shape
  <2>4. CASE Head(todo) \notin Queued
    <3>1. work' = Append(work, Head(todo))
      BY <1>4, <2>3, <2>4 DEF Requeue
    <3>2. Queued' = Queued \cup {Head(todo)}
      BY <1>2, <2>3, <3>1, AppendElements DEF Queued
    <3> QED BY <2>1, <2>2, <3>2
  <2>5. CASE Head(todo) \in Queued
    <3>1. work' = work
      BY <1>4, <2>5 DEF Requeue
    <3>2. Queued' = Queued
      BY <3>1 DEF Queued
    <3> QED BY <2>1, <2>2, <2>5, <3>2
  <2> QED BY <2>4, <2>5
<1> QED BY <1>3, <1>4

LEMMA RequeueKeepsFix ==
  ASSUME TypeInv, FixInv, Requeue PROVE FixInv'
<1>1. /\ phase = "requeue" /\ phase' \in {"requeue", "fixpoint"}
      /\ UNCHANGED <<cfg, reach, computed, ins, outs, blk, k, st, at>>
  BY DEF Requeue
<1>3. /\ Queued \subseteq Queued'
      /\ Todo \subseteq Todo' \cup Queued'
      /\ Todo # {} => phase' = "requeue"
  BY RequeueQueues
<1>4. ChainInv' /\ CurrentInv' /\ EntryInv'
  BY <1>1 DEF FixInv, ChainInv, CurrentInv, EntryInv, InFlight, Stepped, Last,
     Instrs, InitialState
<1>5. SeededInv'
  BY <1>1, <1>3 DEF FixInv, SeededInv, InFlight, Converging, Settled
<1>6. EdgeInv'
  BY <1>1, <1>3 DEF FixInv, EdgeInv, Succs
<1> QED BY <1>4, <1>5, <1>6 DEF FixInv

(* The reporting transfer recomputes the states it finds.                  *)
LEMMA JudgeSame ==
  ASSUME TypeInv, FixInv, JudgeStep
  PROVE  /\ \A b \in Blocks(cfg) : at'[b] = at[b]
         /\ st' = at[blk][k + 1]
<1> DEFINE i == Instrs(blk)[k]
<1>1. /\ phase = "judge" /\ k \in DOMAIN Instrs(blk)
      /\ st' = Step(cfg, i, st)
      /\ at' = [at EXCEPT ![blk][k + 1] = Step(cfg, i, st)]
  BY DEF JudgeStep, Transfer
<1>2. /\ WellFormed(cfg) /\ blk \in Blocks(cfg) /\ DOMAIN at = Blocks(cfg)
      /\ blk \in reach
  BY <1>1 DEF TypeInv, Shape, TypeOK
<1>3. /\ DOMAIN Instrs(blk) = 1 .. Len(cfg.instrs[blk])
      /\ Len(cfg.instrs[blk]) \in Nat
      /\ at[blk] \in [1 .. Len(cfg.instrs[blk]) + 1 -> State]
  BY <1>2, GraphFacts DEF Instrs, TypeInv, TypeOK
<1>4. Stepped(blk, Last(blk)) /\ st = at[blk][k]
  BY <1>1, <1>2 DEF FixInv, ChainInv, CurrentInv, SeededInv, InFlight, Settled
<1>5. Step(cfg, i, st) = at[blk][k + 1]
  BY <1>1, <1>3, <1>4 DEF Stepped, Last
<1> HIDE DEF i
<1>6. at' = [at EXCEPT ![blk][k + 1] = at[blk][k + 1]]
  BY <1>1, <1>5
<1>7. [at[blk] EXCEPT ![k + 1] = at[blk][k + 1]] = at[blk]
  BY <1>3
<1>8. \A b \in Blocks(cfg) : at'[b] = at[b]
  BY <1>2, <1>6, <1>7
<1> QED BY <1>1, <1>5, <1>8

LEMMA ReportSame ==
  ASSUME TypeInv, FixInv, ReportBlock
  PROVE  \A b \in Blocks(cfg) : at'[b] = at[b]
<1>1. phase = "report" /\ blk \in Blocks(cfg) /\ DOMAIN at = Blocks(cfg)
  BY DEF ReportBlock, TypeInv, TypeOK
<1>2. CASE blk \in reach
  <2>1. at[blk][1] = ins[blk]
    BY <1>1, <1>2 DEF FixInv, ChainInv, SeededInv, InFlight, Settled
  <2>2. at' = [at EXCEPT ![blk][1] = at[blk][1]]
    BY <1>2, <2>1 DEF ReportBlock
  <2>3. at[blk] \in [1 .. Len(cfg.instrs[blk]) + 1 -> State]
    BY <1>1 DEF TypeInv, TypeOK
  <2>4. [at[blk] EXCEPT ![1] = at[blk][1]] = at[blk]
    BY <2>3
  <2> QED BY <1>1, <2>2, <2>4
<1>3. CASE blk \notin reach
  BY <1>3 DEF ReportBlock
<1> QED BY <1>2, <1>3

(* A step keeps the facts about the fixpoint.                              *)
LEMMA FixStep == TypeInv /\ FixInv /\ [AnyNext]_vars => FixInv'
<1> SUFFICES ASSUME TypeInv, FixInv, [AnyNext]_vars PROVE FixInv'
  OBVIOUS
<1>1. ASSUME NEW c, WellFormed(c), Begin(c) PROVE FixInv'
  <2>1. computed' = {} /\ phase' = "seed" /\ blk' = Entry
    BY <1>1 DEF Begin, FixInv, SeededInv
  <2>2. \A b \in reach' : ~ (b < Entry)
    <3>1. reach' \subseteq Blocks(c) /\ WellFormed(c)
      BY <1>1 DEF Begin, Reachable
    <3> QED BY <3>1, GraphFacts DEF Entry
  <2> QED BY <2>1, <2>2
          DEF FixInv, ChainInv, CurrentInv, EntryInv, SeededInv, EdgeInv,
              InFlight, Converging, Settled
<1>2. CASE Seed
  <2>1. /\ phase = "seed" /\ computed = {} /\ computed' = {}
        /\ phase' \in {"seed", "fixpoint"}
        /\ UNCHANGED <<cfg, reach>>
    BY <1>2 DEF Seed, FixInv, SeededInv
  <2>2. /\ WellFormed(cfg) /\ blk \in Nat /\ work \in Seq(Blocks(cfg))
        /\ reach \subseteq Blocks(cfg)
    BY <2>1 DEF TypeInv, TypeOK, Shape
  <2>3. Queued \subseteq Queued' /\ (blk \in reach => blk \in Queued')
    <3>1. CASE blk \in reach
      <4>1. work' = Append(work, blk)
        BY <1>2, <2>2, <3>1 DEF Seed
      <4> QED BY <2>2, <3>1, <4>1, AppendElements DEF Queued
    <3>2. CASE blk \notin reach
      <4>1. work' = work
        BY <1>2, <3>2 DEF Seed
      <4> QED BY <3>2, <4>1 DEF Queued
    <3> QED BY <3>1, <3>2
  <2>4. SeededInv'
    <3>1. CASE blk \in Blocks(cfg)
      <4>1. phase' = "seed" /\ blk' = blk + 1
        BY <1>2, <2>1, <3>1 DEF Seed
      <4>2. \A b \in reach : b < blk + 1 => b < blk \/ b = blk
        BY <2>2, GraphFacts
      <4> QED BY <2>1, <2>3, <4>1, <4>2
              DEF FixInv, SeededInv, Converging, Settled
    <3>2. CASE blk \notin Blocks(cfg)
      <4>1. phase' = "fixpoint"
        BY <1>2, <3>2 DEF Seed
      <4>2. \A b \in reach : b < blk
        <5>1. blk > 0
          BY <2>1 DEF TypeInv, Shape
        <5> QED BY <2>2, <3>2, <5>1, GraphFacts
      <4> QED BY <2>1, <2>3, <4>1, <4>2
              DEF FixInv, SeededInv, Converging, Settled
    <3> QED BY <3>1, <3>2
  <2> QED BY <2>1, <2>4
          DEF FixInv, ChainInv, CurrentInv, EntryInv, EdgeInv, InFlight
<1>3. CASE Pop
  BY <1>3, PopKeepsFix
<1>4. CASE Raise
  BY <1>4 DEF Raise, FixInv, ChainInv, CurrentInv, EntryInv, SeededInv,
     EdgeInv, InFlight, Stepped, Last, Instrs, Queued, Todo, InitialState,
     Succs, Converging, Settled
<1>5. CASE SilentStep
  BY <1>5, SilentKeepsFix
<1>6. CASE Store
  BY <1>6, StoreKeepsFix
<1>7. CASE Requeue
  BY <1>7, RequeueKeepsFix
<1>8. CASE Converged
  <2>1. phase = "fixpoint" /\ phase' = "report" /\ Queued = {} /\ Queued' = {}
    BY <1>8 DEF Converged, Queued
  <2>2. computed = reach
    BY <2>1 DEF TypeInv, Shape, FixInv, SeededInv, InFlight, Converging
  <2> QED BY <1>8, <2>1, <2>2
          DEF Converged, FixInv, ChainInv, CurrentInv, EntryInv, SeededInv,
              EdgeInv, InFlight, Stepped, Last, Instrs, InitialState, Succs,
              Converging, Settled
<1>9. CASE ReportBlock
  <2>1. \A b \in Blocks(cfg) : at'[b] = at[b]
    BY <1>9, ReportSame
  <2>2. CurrentInv'
    <3>1. CASE blk \in reach
      <4>1. at[blk][1] = ins[blk] /\ blk \in Blocks(cfg)
        BY <1>9, <3>1
           DEF ReportBlock, FixInv, ChainInv, SeededInv, InFlight, Settled
      <4> QED BY <1>9, <2>1, <3>1, <4>1 DEF ReportBlock, CurrentInv
    <3>2. CASE blk \notin reach
      BY <1>9, <3>2 DEF ReportBlock, CurrentInv
    <3> QED BY <3>1, <3>2
  <2> QED BY <1>9, <2>1, <2>2, SettledKeepsFix DEF ReportBlock, Settled
<1>10. CASE JudgeStep
  <2>1. (\A b \in Blocks(cfg) : at'[b] = at[b]) /\ st' = at[blk][k + 1]
    BY <1>10, JudgeSame
  <2>2. CurrentInv'
    <3>1. blk \in Blocks(cfg)
      BY <1>10 DEF JudgeStep, Transfer, TypeInv, Shape, TypeOK
    <3> QED BY <1>10, <2>1, <3>1 DEF JudgeStep, Transfer, CurrentInv
  <2> QED BY <1>10, <2>1, <2>2, SettledKeepsFix
          DEF JudgeStep, Transfer, Settled
<1>11. CASE JudgedBlock
  BY <1>11, SettledKeepsFix DEF JudgedBlock, Settled, CurrentInv
<1>12. CASE StartLeaks
  BY <1>12, SettledKeepsFix DEF StartLeaks, Settled, CurrentInv
<1>13. CASE LeakCheck
  BY <1>13, SettledKeepsFix DEF LeakCheck, Settled, CurrentInv
<1>14. CASE Finished
  BY <1>14, SettledKeepsFix DEF Finished, Settled, CurrentInv
<1>15. CASE UNCHANGED avars
  BY <1>15, FixUnchanged DEF avars, fixvars
<1>16. RunnerStep => UNCHANGED avars
  BY DEF RunnerStep, StartRun, Execute, GetStuck, Jump, Leave
<1> QED
  BY <1>1, <1>2, <1>3, <1>4, <1>5, <1>6, <1>7, <1>8, <1>9, <1>10, <1>11,
     <1>12, <1>13, <1>14, <1>15, <1>16 DEF AnyNext, AnyCall, AnalyzerStep, vars

-----------------------------------------------------------------------------
(* The in-states are joins of ALL the predecessors. *)

LEMMA InStateSame ==
  ASSUME NEW b, UNCHANGED <<cfg, outs, computed>>
  PROVE  InStateOf(b)' = InStateOf(b)
BY DEF InStateOf, Known, InitialState, Preds, Blocks, Succs

(* A new out-state changes the in-state of the successors of its block only. *)
LEMMA InStateElsewhere ==
  ASSUME TypeInv, Store, NEW b \in Blocks(cfg), b # Entry,
         b \notin Succs(cfg, blk)
  PROVE  InStateOf(b)' = InStateOf(b)
<1>1. /\ cfg' = cfg /\ computed' \subseteq computed \cup {blk}
      /\ computed \subseteq computed'
      /\ \A p \in computed : p # blk => outs'[p] = outs[p]
  BY DEF Store, TypeInv, TypeOK
<1>2. blk \notin Preds(cfg, b)
  BY DEF Preds
<1>3. Known(b)' = Known(b) /\ \A p \in Known(b) : outs'[p] = outs[p]
  BY <1>1, <1>2 DEF Known, Preds, Blocks, Succs
<1>4. {outs'[p] : p \in Known(b)} = {outs[p] : p \in Known(b)}
  BY <1>3
<1> QED BY <1>3, <1>4 DEF InStateOf

(* Each in-state agrees with what the predecessors have sent out, or its   *)
(* block will be visited again.                                            *)
LEMMA AgreeStep == TypeInv /\ FixInv /\ AgreeInv /\ [AnyNext]_vars => AgreeInv'
<1> SUFFICES ASSUME TypeInv, FixInv, AgreeInv, [AnyNext]_vars PROVE AgreeInv'
  OBVIOUS
<1>1. CASE AnyCall
  BY <1>1 DEF AnyCall, Begin, FixInv, SeededInv, AgreeInv, InFlight
<1>2. CASE Seed \/ Raise \/ Converged
  <2>1. /\ UNCHANGED <<cfg, reach, computed, ins, outs>>
        /\ phase \in {"seed", "fixpoint"} /\ phase' # "transfer"
    BY <1>2 DEF Seed, Raise, Converged
  <2>2. CASE Seed
    BY <2>1, <2>2 DEF Seed, FixInv, SeededInv, AgreeInv, InFlight
  <2>3. CASE Raise \/ Converged
    <3>1. Queued' = Queued /\ phase = "fixpoint"
      BY <2>3 DEF Raise, Converged, Queued
    <3>2. \A b \in reach : InStateOf(b)' = InStateOf(b)
      BY <2>1, InStateSame
    <3> QED BY <2>1, <3>1, <3>2 DEF AgreeInv, InFlight
  <2> QED BY <1>2, <2>2, <2>3
<1>3. CASE Pop
  <2>1. PICK b : b = Head(work)
    OBVIOUS
  <2>2. /\ phase = "fixpoint" /\ phase' = "transfer" /\ work # <<>>
        /\ work' = Tail(work) /\ blk' = b
        /\ ins' = [ins EXCEPT ![b] = InStateOf(b)]
        /\ UNCHANGED <<cfg, reach, computed, outs, todo>>
    BY <1>3, <2>1 DEF Pop
  <2>3. b \in Blocks(cfg) /\ Queued \subseteq {b} \cup Queued'
    <3>1. work \in Seq(Blocks(cfg))
      BY DEF TypeInv, TypeOK
    <3>2. /\ Head(work) \in Blocks(cfg)
          /\ {work[j] : j \in DOMAIN work} \subseteq
               {Head(work)} \cup {Tail(work)[j] : j \in DOMAIN Tail(work)}
      BY <2>2, <3>1, TailElements
    <3> QED BY <2>1, <2>2, <3>2 DEF Queued
  <2>4. ins \in [Blocks(cfg) -> State] /\ reach \subseteq Blocks(cfg)
    BY DEF TypeInv, TypeOK
  <2>5. \A d \in reach : InStateOf(d)' = InStateOf(d)
    BY <2>2, InStateSame
  <2> SUFFICES ASSUME NEW d \in reach \ {Entry}, d \in computed \/ d = b,
                      d \notin Queued'
               PROVE  ins'[d] = InStateOf(d)
    BY <2>2, <2>5 DEF AgreeInv, InFlight
  <2>6. CASE d = b
    BY <2>2, <2>3, <2>4, <2>6
  <2>7. CASE d # b
    BY <2>2, <2>3, <2>4, <2>7 DEF AgreeInv
  <2> QED BY <2>6, <2>7
<1>4. CASE SilentStep
  <2>1. /\ UNCHANGED <<cfg, phase, reach, work, computed, ins, outs, blk, todo>>
        /\ phase = "transfer"
    BY <1>4 DEF SilentStep, Transfer
  <2>2. \A b \in reach : InStateOf(b)' = InStateOf(b)
    BY <2>1, InStateSame
  <2> QED BY <2>1, <2>2 DEF AgreeInv, InFlight, Queued
<1>5. CASE Store
  <2>1. /\ phase = "transfer" /\ phase' \in {"requeue", "fixpoint"}
        /\ computed' = computed \cup {blk}
        /\ UNCHANGED <<cfg, reach, work, ins, blk>>
    BY <1>5 DEF Store
  <2>2. reach \subseteq Blocks(cfg) /\ Queued' = Queued
    BY <2>1 DEF TypeInv, TypeOK, Queued
  <2> SUFFICES ASSUME NEW b \in reach \ {Entry},
                      b \in computed \/ b = blk, b \notin Queued,
                      ~ (phase' = "requeue" /\ b \in Todo')
               PROVE  ins[b] = InStateOf(b)'
    BY <2>1, <2>2 DEF AgreeInv, InFlight
  <2>3. ins[b] = InStateOf(b)
    BY <2>1 DEF AgreeInv, InFlight
  <2>4. CASE phase' = "requeue"
    <3>1. Todo' = Succs(cfg, blk)
      BY <1>5, <2>4 DEF Store, Todo, Succs
    <3>2. InStateOf(b)' = InStateOf(b)
      BY <1>5, <2>2, <2>4, <3>1, InStateElsewhere
    <3> QED BY <2>3, <3>2
  <2>5. CASE phase' = "fixpoint"
    <3>1. UNCHANGED <<cfg, outs, computed>>
      BY <1>5, <2>5 DEF Store
    <3> QED BY <2>3, <3>1, InStateSame
  <2> QED BY <2>1, <2>4, <2>5
<1>6. CASE Requeue
  <2>1. /\ phase = "requeue" /\ phase' \in {"requeue", "fixpoint"}
        /\ UNCHANGED <<cfg, reach, computed, ins, outs>>
    BY <1>6 DEF Requeue
  <2>2. /\ Queued \subseteq Queued'
        /\ Todo \subseteq Todo' \cup Queued'
        /\ Todo # {} => phase' = "requeue"
    BY <1>6, RequeueQueues
  <2>3. \A b \in reach : InStateOf(b)' = InStateOf(b)
    BY <2>1, InStateSame
  <2> QED BY <2>1, <2>2, <2>3 DEF AgreeInv, InFlight
<1>7. CASE ReportBlock \/ JudgeStep \/ JudgedBlock \/ StartLeaks \/ LeakCheck
           \/ Finished
  <2>1. /\ UNCHANGED <<cfg, reach, work, computed, ins, outs>>
        /\ phase \notin {"transfer", "requeue"} /\ phase' # "transfer"
    BY <1>7 DEF ReportBlock, JudgeStep, Transfer, JudgedBlock, StartLeaks,
       LeakCheck, Finished
  <2>2. \A b \in reach : InStateOf(b)' = InStateOf(b)
    BY <2>1, InStateSame
  <2> QED BY <2>1, <2>2 DEF AgreeInv, InFlight, Queued
<1>8. CASE UNCHANGED avars
  <2>1. \A b \in reach : InStateOf(b)' = InStateOf(b)
    BY <1>8, InStateSame DEF avars
  <2> QED BY <1>8, <2>1 DEF avars, AgreeInv, InFlight, Queued, Todo
<1>9. RunnerStep => UNCHANGED avars
  BY DEF RunnerStep, StartRun, Execute, GetStuck, Jump, Leave
<1> QED
  BY <1>1, <1>2, <1>3, <1>4, <1>5, <1>6, <1>7, <1>8, <1>9
     DEF AnyNext, AnalyzerStep, vars

(* A reachable block other than the entry block has a reachable predecessor. *)
LEMMA ReachedFrom ==
  ASSUME NEW c, WellFormed(c), NEW b \in Reachable(c), b # Entry
  PROVE  Preds(c, b) \cap Reachable(c) # {}
<1> SUFFICES ASSUME Preds(c, b) \cap Reachable(c) = {} PROVE FALSE
  OBVIOUS
<1> DEFINE R == Reachable(c) \ {b}
<1>1. /\ Reachable(c) \subseteq Blocks(c) /\ Entry \in Reachable(c)
      /\ \A p \in Reachable(c) : Succs(c, p) \subseteq Reachable(c)
  BY ReachClosed
<1>2. \A p \in R : Succs(c, p) \subseteq R
  BY <1>1 DEF Preds
<1>3. R \in SUBSET Blocks(c) /\ Entry \in R
  BY <1>1
<1>4. b \in R
  BY <1>2, <1>3 DEF Reachable
<1> QED BY <1>4

(* When the worklist is empty each in-state is the join of the out-states  *)
(* of all the reachable predecessors.                                      *)
LEMMA SettledIsJoin ==
  ASSUME TypeInv, FixInv, AgreeInv, phase \in Settled,
         NEW b \in reach, b # Entry
  PROVE  ins[b] = JoinAll({outs[p] : p \in Preds(cfg, b) \cap reach})
<1>1. /\ computed = reach /\ work = <<>> /\ WellFormed(cfg)
      /\ reach = Reachable(cfg)
  BY DEF FixInv, SeededInv, Settled, TypeInv, Shape
<1>2. Queued = {} /\ phase # "requeue"
  BY <1>1 DEF Queued, Settled
<1>3. ins[b] = InStateOf(b)
  BY <1>1, <1>2 DEF AgreeInv
<1>4. Known(b) = Preds(cfg, b) \cap reach
  BY <1>1 DEF Known
<1>5. Known(b) # {}
  BY <1>1, <1>4, ReachedFrom
<1> QED BY <1>3, <1>4, <1>5 DEF InStateOf

-----------------------------------------------------------------------------
(* The verdicts. *)

(* err() appends: what was in the bag stays in it.                         *)
LEMMA ErrGrows ==
  ASSUME NEW ds, NEW silent, Err(ds, silent)
  PROVE  /\ DOMAIN diags \subseteq DOMAIN diags'
         /\ silent => DOMAIN diags' = DOMAIN diags
         /\ ~ silent => DOMAIN diags' = DOMAIN diags \cup ds
BY DEF Err, (+), SetToBag, BagToSet

(* A problem that is reported is in the bag with its place.                *)
LEMMA ReportedMember ==
  ASSUME NEW P, NEW b, NEW j, NEW l, NEW p \in P,
         Reported(P, b, j, l) \subseteq DOMAIN diags
  PROVE  \E d \in DOMAIN diags :
            d.code = p.code /\ d.sym = p.sym /\ d.blk = b /\ d.k = j
<1> DEFINE d == [code |-> p.code, maybe |-> p.maybe, sym |-> p.sym,
                 blk |-> b, k |-> j, line |-> l]
<1>1. d \in Reported(P, b, j, l)
  BY DEF Reported
<1>2. d.code = p.code /\ d.sym = p.sym /\ d.blk = b /\ d.k = j
  OBVIOUS
<1> HIDE DEF d
<1> QED BY <1>1, <1>2

(* In the reporting pass the states the problems are about do not change.  *)
LEMMA SettledStates ==
  ASSUME TypeInv, FixInv, phase \in Settled, AnalyzerStep
  PROVE  /\ \A b \in Blocks(cfg) : at'[b] = at[b]
         /\ phase' \in Settled
         /\ UNCHANGED <<cfg, reach>>
<1>1. CASE ReportBlock
  BY <1>1, ReportSame DEF ReportBlock, Settled
<1>2. CASE JudgeStep
  BY <1>2, JudgeSame DEF JudgeStep, Transfer, Settled
<1>3. CASE JudgedBlock \/ StartLeaks \/ LeakCheck \/ Finished
  BY <1>3 DEF JudgedBlock, StartLeaks, LeakCheck, Finished, Settled
<1> QED BY <1>1, <1>2, <1>3
        DEF AnalyzerStep, Seed, Pop, Raise, SilentStep, Transfer, Store,
            Requeue, Converged, Settled

(* Nothing is reported before the reporting pass.                          *)
LEMMA QuietBefore ==
  ASSUME TypeInv, phase \notin Settled, AnalyzerStep
  PROVE  /\ diags' = diags
         /\ phase' \in Settled => /\ Converged
                                  /\ phase' = "report" /\ blk' = Entry
BY DEF AnalyzerStep, Seed, Pop, Raise, SilentStep, Transfer, Err, Store,
   Requeue, Converged, ReportBlock, JudgeStep, JudgedBlock, StartLeaks,
   LeakCheck, Finished, Settled

(* Each problem of a judged instruction is in the bag.                     *)
LEMMA JudgedStep ==
  ASSUME TypeInv, FixInv, JudgedInv, AnalyzerStep PROVE JudgedInv'
<1>1. CASE phase \notin Settled
  <2>1. CASE phase' \notin Settled
    BY <2>1 DEF JudgedInv, Judged, Settled
  <2>2. CASE phase' \in Settled
    <3>1. phase' = "report" /\ blk' = Entry /\ reach' = reach /\ cfg' = cfg
      BY <1>1, <2>2, QuietBefore DEF Converged
    <3>2. \A b \in reach : ~ (b < Entry)
      <4>1. WellFormed(cfg) /\ reach \subseteq Blocks(cfg)
        BY <1>1, <2>2, QuietBefore DEF Converged, TypeInv, Shape, TypeOK
      <4> QED BY <4>1, GraphFacts DEF Entry
    <3> QED BY <3>1, <3>2 DEF JudgedInv, Judged
  <2> QED BY <2>1, <2>2
<1>2. CASE phase \in Settled
  <2>1. /\ \A b \in Blocks(cfg) : at'[b] = at[b]
        /\ UNCHANGED <<cfg, reach>>
    BY <1>2, SettledStates
  <2>2. /\ WellFormed(cfg) /\ reach \subseteq Blocks(cfg) /\ blk \in Nat
        /\ Blocks(cfg) \subseteq Nat
    <3>1. WellFormed(cfg) /\ reach \subseteq Blocks(cfg) /\ blk \in Nat
      BY <1>2 DEF TypeInv, Shape, TypeOK, Settled
    <3> QED BY <3>1, GraphFacts
  <2>3. DOMAIN diags \subseteq DOMAIN diags'
    BY <1>2, ErrGrows
       DEF AnalyzerStep, Seed, Pop, Raise, SilentStep, Transfer, Store,
           Requeue, Converged, ReportBlock, JudgeStep, JudgedBlock,
           StartLeaks, LeakCheck, Finished, Settled
  <2> SUFFICES ASSUME NEW b \in reach, NEW j \in DOMAIN Instrs(b), Judged(b, j)'
               PROVE  Reported(Problems(cfg, Instrs(b)[j], at[b][j]), b, j,
                               Instrs(b)[j].line) \subseteq DOMAIN diags'
    BY <2>1, <2>2 DEF JudgedInv, Instrs
  <2>4. /\ DOMAIN Instrs(b) = 1 .. Len(cfg.instrs[b])
        /\ Len(cfg.instrs[b]) \in Nat /\ b \in Nat
    BY <2>2, GraphFacts DEF Instrs
  <2>5. CASE Judged(b, j)
    BY <2>3, <2>5 DEF JudgedInv
  <2>6. CASE JudgeStep /\ b = blk /\ j = k
    <3>1. /\ phase = "judge"
          /\ Err(Reported(Problems(cfg, Instrs(b)[j], st), b, j,
                          Instrs(b)[j].line), FALSE)
      BY <2>6 DEF JudgeStep, Transfer
    <3>2. st = at[b][j]
      BY <2>6, <3>1 DEF FixInv, CurrentInv
    <3> QED BY <3>1, <3>2, ErrGrows
  <2>7. Judged(b, j) \/ (JudgeStep /\ b = blk /\ j = k)
    <3>1. CASE ReportBlock
      BY <2>2, <2>4, <3>1 DEF ReportBlock, Judged
    <3>2. CASE JudgeStep
      <4>1. k \in Nat
        BY DEF TypeInv, Shape
      <4>2. phase = "judge" /\ phase' = "judge" /\ blk' = blk /\ k' = k + 1
        BY <3>2 DEF JudgeStep, Transfer
      <4>3. b < blk \/ (b = blk /\ j < k + 1)
        BY <4>2 DEF Judged
      <4>4. j < k + 1 => j < k \/ j = k
        BY <2>4, <4>1
      <4> QED BY <3>2, <4>2, <4>3, <4>4 DEF Judged
    <3>3. CASE JudgedBlock
      <4>1. k = Len(cfg.instrs[blk]) + 1
        <5>1. blk \in reach
          BY <3>3 DEF JudgedBlock, TypeInv, Shape
        <5>2. /\ DOMAIN Instrs(blk) = 1 .. Len(cfg.instrs[blk])
              /\ Len(cfg.instrs[blk]) \in Nat
          BY <5>1, <2>2, GraphFacts DEF Instrs
        <5> QED BY <3>3, <5>2 DEF JudgedBlock, TypeInv, Shape
      <4> QED BY <2>2, <2>4, <3>3, <4>1 DEF JudgedBlock, Judged
    <3>4. CASE StartLeaks
      <4>1. b < blk
        BY <2>2, <3>4, GraphFacts DEF StartLeaks, TypeInv, Shape
      <4> QED BY <3>4, <4>1 DEF StartLeaks, Judged
    <3>5. CASE LeakCheck \/ Finished
      BY <3>5 DEF LeakCheck, Finished, Judged
    <3> QED BY <1>2, <3>1, <3>2, <3>3, <3>4, <3>5
            DEF AnalyzerStep, Seed, Pop, Raise, SilentStep, Transfer, Store,
                Requeue, Converged, Settled
  <2> QED BY <2>5, <2>6, <2>7
<1> QED BY <1>1, <1>2

(* The leak checks of the blocks visited are in the bag.                   *)
LEMMA LeakStep ==
  ASSUME TypeInv, FixInv, LeakInv, AnalyzerStep PROVE LeakInv'
<1>1. CASE phase \notin Settled
  <2>1. CASE phase' \notin Settled
    BY <2>1 DEF LeakInv, Settled
  <2>2. CASE phase' \in Settled
    <3>1. phase' = "report" /\ blk' = Entry /\ reach' = reach /\ cfg' = cfg
      BY <1>1, <2>2, QuietBefore DEF Converged
    <3>2. \A b \in reach : ~ (b < Entry)
      <4>1. WellFormed(cfg) /\ reach \subseteq Blocks(cfg)
        BY <1>1, <2>2, QuietBefore DEF Converged, TypeInv, Shape, TypeOK
      <4> QED BY <4>1, GraphFacts DEF Entry
    <3> QED BY <3>1, <3>2 DEF LeakInv
  <2> QED BY <2>1, <2>2
<1>2. CASE phase \in Settled
  <2>1. /\ \A b \in Blocks(cfg) : at'[b] = at[b]
        /\ UNCHANGED <<cfg, reach>>
    BY <1>2, SettledStates
  <2>2. /\ WellFormed(cfg) /\ reach \subseteq Blocks(cfg) /\ blk \in Nat
        /\ Blocks(cfg) \subseteq Nat
    <3>1. WellFormed(cfg) /\ reach \subseteq Blocks(cfg) /\ blk \in Nat
      BY <1>2 DEF TypeInv, Shape, TypeOK, Settled
    <3> QED BY <3>1, GraphFacts
  <2>3. DOMAIN diags \subseteq DOMAIN diags'
    BY <1>2, ErrGrows
       DEF AnalyzerStep, Seed, Pop, Raise, SilentStep, Transfer, Store,
           Requeue, Converged, ReportBlock, JudgeStep, JudgedBlock,
           StartLeaks, LeakCheck, Finished, Settled
  <2>4. ASSUME NEW b \in reach,
               \/ phase' \in {"leaks", "done"}
               \/ phase' \in {"report", "judge"} /\ b < blk'
        PROVE  fin'[b] = at[b][Last(b)]
    <3>1. CASE JudgedBlock /\ b = blk
      <4>1. fin'[b] = st /\ st = at[b][k] /\ phase = "judge"
        BY <2>2, <3>1 DEF JudgedBlock, TypeInv, TypeOK, FixInv, CurrentInv
      <4>2. k = Last(b)
        <5>1. /\ DOMAIN Instrs(b) = 1 .. Len(cfg.instrs[b])
              /\ Len(cfg.instrs[b]) \in Nat
          BY <2>2, GraphFacts DEF Instrs
        <5> QED BY <3>1, <5>1 DEF JudgedBlock, TypeInv, Shape, Last
      <4> QED BY <4>1, <4>2
    <3>2. CASE ~ (JudgedBlock /\ b = blk)
      <4>1. fin'[b] = fin[b]
        BY <1>2, <3>2, <2>2
           DEF AnalyzerStep, Seed, Pop, Raise, SilentStep, Transfer, Store,
               Requeue, Converged, ReportBlock, JudgeStep, JudgedBlock,
               StartLeaks, LeakCheck, Finished, Settled, TypeInv, TypeOK
      <4>2. \/ phase \in {"leaks", "done"}
            \/ phase \in {"report", "judge"} /\ b < blk
        <5>1. b \in Nat /\ b \in Blocks(cfg)
          BY <2>2
        <5>2. CASE StartLeaks
          <6>1. b < blk
            BY <2>2, <5>1, <5>2, GraphFacts DEF StartLeaks, TypeInv, Shape
          <6> QED BY <5>2, <6>1 DEF StartLeaks
        <5>3. CASE ReportBlock \/ JudgeStep \/ JudgedBlock
          <6>1. phase \in {"report", "judge"} /\ blk' \in {blk, blk + 1}
            BY <5>3 DEF ReportBlock, JudgeStep, Transfer, JudgedBlock
          <6>2. phase' \in {"report", "judge"} /\ b < blk'
            BY <2>4, <5>3
               DEF ReportBlock, JudgeStep, Transfer, JudgedBlock
          <6>3. blk' = blk + 1 => b # blk
            <7>1. CASE ReportBlock
              BY <2>2, <7>1 DEF ReportBlock
            <7>2. CASE JudgeStep
              BY <2>2, <7>2 DEF JudgeStep, Transfer
            <7> QED BY <3>2, <5>3, <7>1, <7>2
          <6> QED BY <2>2, <5>1, <6>1, <6>2, <6>3
        <5>4. CASE LeakCheck \/ Finished
          BY <5>4 DEF LeakCheck, Finished
        <5> QED BY <1>2, <5>2, <5>3, <5>4
                DEF AnalyzerStep, Seed, Pop, Raise, SilentStep, Transfer,
                    Store, Requeue, Converged, Settled
      <4> QED BY <4>1, <4>2 DEF LeakInv
    <3> QED BY <3>1, <3>2
  <2>5. ASSUME NEW b \in reach, FallsOffEnd(cfg, b),
               phase' = "done" \/ (phase' = "leaks" /\ b < blk')
        PROVE  Reported(Leaks(fin'[b], NoSym), b, Last(b), LastLine(cfg, b))
                  \subseteq DOMAIN diags'
    <3>1. b \in Nat /\ b \in Blocks(cfg) /\ Entry \in Blocks(cfg)
      BY <2>2, GraphFacts
    <3>2. CASE LeakCheck
      <4>1. /\ phase = "leaks" /\ phase' = "leaks" /\ blk' = blk + 1
            /\ fin' = fin
        BY <3>2 DEF LeakCheck
      <4>2. CASE b = blk
        <5>1. Err(Reported(Leaks(fin[b], NoSym), b, Last(b),
                           LastLine(cfg, b)), FALSE)
          BY <2>5, <3>2, <4>2 DEF LeakCheck, Last, Instrs
        <5> QED BY <4>1, <5>1, ErrGrows
      <4>3. CASE b # blk
        <5>1. b < blk
          BY <2>2, <2>5, <3>1, <4>1, <4>3
        <5> QED BY <2>3, <2>5, <4>1, <5>1 DEF LeakInv
      <4> QED BY <4>2, <4>3
    <3>3. CASE Finished
      <4>1. b < blk
        BY <2>2, <3>1, <3>3, GraphFacts DEF Finished, TypeInv, Shape
      <4> QED BY <2>3, <2>5, <3>3, <4>1 DEF Finished, LeakInv
    <3>4. CASE StartLeaks
      <4>1. ~ (b < Entry) /\ phase' = "leaks" /\ blk' = Entry
        BY <2>2, <3>1, <3>4, GraphFacts DEF StartLeaks, Entry
      <4> QED BY <2>5, <4>1
    <3> QED BY <1>2, <2>5, <3>2, <3>3, <3>4
            DEF AnalyzerStep, Seed, Pop, Raise, SilentStep, Transfer, Store,
                Requeue, Converged, ReportBlock, JudgeStep, JudgedBlock,
                Settled
  <2> QED BY <2>1, <2>2, <2>4, <2>5 DEF LeakInv, Last
<1> QED BY <1>1, <1>2

(* What is reported of an instruction is a problem of its state.           *)
LEMMA OnlyStep ==
  ASSUME TypeInv, FixInv, OnlyInv, AnalyzerStep PROVE OnlyInv'
<1>1. CASE phase \notin Settled
  BY <1>1, QuietBefore DEF OnlyInv
<1>2. CASE phase \in Settled
  <2>1. /\ \A b \in Blocks(cfg) : at'[b] = at[b]
        /\ phase' \in Settled
        /\ UNCHANGED <<cfg, reach>>
    BY <1>2, SettledStates
  <2>2. reach \subseteq Blocks(cfg)
    BY DEF TypeInv, TypeOK
  <2> SUFFICES ASSUME NEW d \in DOMAIN diags', d.code # "OWN001"
               PROVE  /\ d.blk \in reach /\ d.k \in DOMAIN Instrs(d.blk)
                      /\ \E p \in Problems(cfg, Instrs(d.blk)[d.k],
                                           at[d.blk][d.k]) :
                           p.code = d.code /\ p.maybe = d.maybe
    BY <2>1, <2>2 DEF OnlyInv, Instrs
  <2>3. CASE d \in DOMAIN diags
    BY <2>3 DEF OnlyInv
  <2>4. CASE d \notin DOMAIN diags
    <3>1. CASE JudgeStep
      <4>1. d \in Reported(Problems(cfg, Instrs(blk)[k], st), blk, k,
                           Instrs(blk)[k].line)
        BY <2>4, <3>1, ErrGrows DEF JudgeStep, Transfer
      <4>2. blk \in reach /\ k \in DOMAIN Instrs(blk) /\ st = at[blk][k]
        BY <3>1
           DEF JudgeStep, Transfer, TypeInv, Shape, FixInv, CurrentInv
      <4> QED BY <4>1, <4>2 DEF Reported
    <3>2. CASE LeakCheck
      <4>1. d \in Reported(Leaks(fin[blk], NoSym), blk, Len(Instrs(blk)) + 1,
                           LastLine(cfg, blk))
        BY <2>4, <3>2, ErrGrows DEF LeakCheck
      <4>2. \A p \in Leaks(fin[blk], NoSym) : p.code = "OWN001"
        BY DEF Leaks, Problem
      <4> QED BY <4>1, <4>2 DEF Reported
    <3> QED BY <1>2, <2>4, <3>1, <3>2
            DEF AnalyzerStep, Seed, Pop, Raise, SilentStep, Transfer, Store,
                Requeue, Converged, ReportBlock, JudgedBlock, StartLeaks,
                Finished, Settled
  <2> QED BY <2>3, <2>4
<1> QED BY <1>1, <1>2

(* err() appends each diagnostic once: its place had not been judged yet,  *)
(* or its block had not been checked for leaks yet.                        *)
LEMMA AppendedOnce ==
  ASSUME PlacedInv, NEW ds, Err(ds, FALSE), \A d \in ds : d \notin DOMAIN diags
  PROVE  \A d \in DOMAIN diags' : diags'[d] = 1
BY DEF PlacedInv, Err, (+), SetToBag, BagToSet

LEMMA PlacedStep ==
  ASSUME TypeInv, FixInv, OnlyInv, PlacedInv, AnalyzerStep PROVE PlacedInv'
<1>1. CASE phase \notin Settled
  BY <1>1, QuietBefore DEF OnlyInv, PlacedInv
<1>2. CASE phase \in Settled
  <2>1. UNCHANGED <<cfg, reach>>
    BY <1>2, SettledStates
  <2>2. /\ WellFormed(cfg) /\ reach \subseteq Blocks(cfg) /\ blk \in Nat
        /\ Blocks(cfg) \subseteq Nat
    <3>1. WellFormed(cfg) /\ reach \subseteq Blocks(cfg) /\ blk \in Nat
      BY <1>2 DEF TypeInv, Shape, TypeOK, Settled
    <3> QED BY <3>1, GraphFacts
  <2>3. ASSUME NEW b \in reach
        PROVE  /\ b \in Nat
               /\ DOMAIN Instrs(b) = 1 .. Len(cfg.instrs[b])
               /\ Len(cfg.instrs[b]) \in Nat
    BY <2>2, GraphFacts DEF Instrs
  <2>4. \A b \in reach : Instrs(b)' = Instrs(b) /\ Last(b)' = Last(b)
    BY <2>1 DEF Instrs, Last
  <2>5. CASE JudgeStep
    <3> DEFINE ds == Reported(Problems(cfg, Instrs(blk)[k], st), blk, k,
                              Instrs(blk)[k].line)
    <3>1. /\ phase = "judge" /\ phase' = "judge" /\ blk' = blk /\ k' = k + 1
          /\ k \in DOMAIN Instrs(blk) /\ Err(ds, FALSE)
      BY <2>5 DEF JudgeStep, Transfer
    <3>2. blk \in reach /\ k \in Nat
      BY <3>1 DEF TypeInv, Shape
    <3>3. \A d \in ds : d.blk = blk /\ d.k = k
      BY DEF Reported
    <3> HIDE DEF ds
    <3>4. \A d \in ds : d \notin DOMAIN diags
      BY <2>2, <3>1, <3>2, <3>3 DEF PlacedInv, Placed, Judged
    <3>5. \A d \in DOMAIN diags' : diags'[d] = 1
      BY <3>1, <3>4, AppendedOnce
    <3>6. ASSUME NEW d \in DOMAIN diags' PROVE Placed(d)'
      <4>1. CASE d \in DOMAIN diags
        <5>1. Placed(d)
          BY <4>1 DEF PlacedInv
        <5>2. d.k \in Nat
          BY <2>3, <3>1, <5>1 DEF Placed
        <5> QED BY <2>1, <2>3, <2>4, <3>1, <3>2, <5>1, <5>2 DEF Placed, Judged
      <4>2. CASE d \notin DOMAIN diags
        <5>1. d \in ds
          BY <3>1, <4>2, ErrGrows
        <5> QED BY <2>1, <2>4, <3>1, <3>2, <3>3, <5>1 DEF Placed, Judged
      <4> QED BY <4>1, <4>2
    <3> QED BY <3>5, <3>6 DEF PlacedInv
  <2>6. CASE LeakCheck
    <3> DEFINE ds == Reported(Leaks(fin[blk], NoSym), blk,
                              Len(Instrs(blk)) + 1, LastLine(cfg, blk))
    <3>1. /\ phase = "leaks" /\ phase' = "leaks" /\ blk' = blk + 1
          /\ blk \in Blocks(cfg)
      BY <2>6 DEF LeakCheck
    <3>2. ASSUME NEW d \in DOMAIN diags
          PROVE  Placed(d)'
      <4>1. Placed(d) /\ d.blk \in Nat
        BY <2>3 DEF PlacedInv, Placed
      <4> QED BY <2>1, <2>2, <2>4, <3>1, <4>1 DEF Placed, Judged
    <3>3. CASE diags' = diags
      BY <3>2, <3>3 DEF PlacedInv
    <3>4. CASE diags' # diags
      <4>1. blk \in reach /\ Err(ds, FALSE)
        BY <2>6, <3>4 DEF LeakCheck
      <4>2. \A d \in ds : d.blk = blk /\ d.k = Last(blk)
        BY DEF Reported, Last, Instrs
      <4> HIDE DEF ds
      <4>3. \A d \in ds : d \notin DOMAIN diags
        BY <2>2, <2>3, <3>1, <4>1, <4>2 DEF PlacedInv, Placed, Last
      <4>4. \A d \in DOMAIN diags' : diags'[d] = 1
        BY <4>1, <4>3, AppendedOnce
      <4>5. \A d \in ds : Placed(d)'
        BY <2>1, <2>2, <2>4, <3>1, <4>1, <4>2 DEF Placed
      <4>6. DOMAIN diags' = DOMAIN diags \cup ds
        BY <4>1, ErrGrows
      <4> QED BY <3>2, <4>4, <4>5, <4>6 DEF PlacedInv
    <3> QED BY <3>3, <3>4
  <2>7. CASE ReportBlock \/ JudgedBlock \/ StartLeaks \/ Finished
    <3>1. diags' = diags
      BY <2>7 DEF ReportBlock, JudgedBlock, StartLeaks, Finished
    <3>2. ASSUME NEW d \in DOMAIN diags PROVE Placed(d)'
      <4>1. Placed(d) /\ d.blk \in reach /\ d.blk \in Nat
        BY <2>3 DEF PlacedInv, Placed
      <4>2. CASE ReportBlock
        BY <2>1, <2>2, <2>4, <4>1, <4>2 DEF ReportBlock, Placed, Judged
      <4>3. CASE JudgedBlock
        BY <2>1, <2>2, <2>4, <4>1, <4>3 DEF JudgedBlock, Placed, Judged
      <4>4. CASE StartLeaks
        BY <2>1, <2>4, <4>1, <4>4 DEF StartLeaks, Placed, Judged
      <4>5. CASE Finished
        BY <2>1, <2>4, <4>1, <4>5 DEF Finished, Placed, Judged
      <4> QED BY <2>7, <4>2, <4>3, <4>4, <4>5
    <3> QED BY <3>1, <3>2 DEF PlacedInv
  <2> QED BY <1>2, <2>5, <2>6, <2>7
          DEF AnalyzerStep, Seed, Pop, Raise, SilentStep, Transfer, Store,
              Requeue, Converged, Settled
<1> QED BY <1>1, <1>2

(* Only what the function mints is OWNED: in the state it is called with,  *)
LEMMA InitialOwns == Owns(EmptyState) /\ Owns(InitialState(cfg))
BY DEF Owns, EmptyState, InitialState, Minted

(* in a join of such states,                                               *)
LEMMA JoinOwns ==
  ASSUME NEW SS, \A s \in SS : Owns(s) PROVE Owns(JoinAll(SS))
BY DEF Owns, JoinAll

(* and in the state an instruction makes of one.                           *)
LEMMA StepOwns ==
  ASSUME NEW s \in State, Owns(s), WellFormed(cfg), NEW b \in Blocks(cfg),
         NEW j \in DOMAIN cfg.instrs[b], NEW i, i = cfg.instrs[b][j]
  PROVE  Owns(Step(cfg, i, s))
<1>1. InstrOk(cfg, i) /\ i \in Instr /\ DOMAIN cfg.syms \subseteq Sym
  BY DEF WellFormed, InstrOk
<1>2. i.op \in {"acquire", "move"} => i.sym \in Minted
  BY DEF Minted
<1>3. CASE i.op = "acquire"
  BY <1>1, <1>2, <1>3 DEF InstrOk, Step, Consumes, Mint, Owns, State
<1>4. CASE i.op = "move"
  <2>1. Step(cfg, i, s) = MoveInto(s, i)
    BY <1>4 DEF Step, Consumes
  <2> QED BY <1>1, <1>2, <1>4, <2>1 DEF InstrOk, MoveInto, Mint, Owns, State
<1>5. CASE i.op = "alias" \/ i.op = "borrow_start" \/ i.op = "borrow_end"
  <2>1. CASE i.op = "alias"
    <3>1. Step(cfg, i, s) = [s EXCEPT !.rid[i.sym] = RidOf(s, i.src)]
      BY <2>1 DEF Step, Consumes
    <3> QED BY <3>1 DEF Owns, State
  <2>2. CASE i.op = "borrow_start"
    <3>1. Step(cfg, i, s) = OpenLoan(s, i)
      BY <2>2 DEF Step, Consumes
    <3> QED BY <3>1 DEF OpenLoan, Owns, State
  <2>3. CASE i.op = "borrow_end"
    <3>1. Step(cfg, i, s) = CloseLoan(s, i)
      BY <2>3 DEF Step, Consumes
    <3> QED BY <3>1 DEF CloseLoan, Owns, State
  <2> QED BY <1>5, <2>1, <2>2, <2>3
<1>6. CASE \/ i.op = "release"
           \/ Consumes(cfg, i)
           \/ i.op = "return" /\ i.sym # NoSym
  <2>1. PICK v \in {"RELEASED", "ESCAPED"} :
                Step(cfg, i, s) = SetHeld(s, i.sym, v)
    BY <1>6 DEF Step, Consumes
  <2> QED BY <2>1 DEF SetHeld, Owns, State
<1>7. CASE /\ i.op \notin {"acquire", "move", "alias", "release",
                           "borrow_start", "borrow_end"}
           /\ ~ Consumes(cfg, i)
           /\ ~ (i.op = "return" /\ i.sym # NoSym)
  BY <1>7 DEF Step
<1> QED BY <1>3, <1>4, <1>5, <1>6, <1>7

(* OWN001 is the code of a leak, and a leak is of an OWNED obligation.     *)
LEMMA LeaksOfOwned ==
  ASSUME NEW s, Owns(s), NEW i,
         NEW p \in Leaks(s, i.sym) \cup Problems(cfg, i, s) \cup Leaks(s, NoSym),
         p.code = "OWN001"
  PROVE  p.sym \in Minted
<1>1. \A x : \A q \in Leaks(s, x) : q.sym \in Minted
  BY DEF Leaks, Owns, Problem
<1>2. ASSUME p \in Problems(cfg, i, s) PROVE p \in Leaks(s, i.sym)
  <2>1. \A h : /\ \A q \in StateProblem(s, h) : q.code # "OWN001"
               /\ \A q \in ReturnProblems(cfg, s, h) : q.code # "OWN001"
    BY DEF StateProblem, ReturnProblems, When, Problem
  <2>2. \A h : /\ \A q \in ConsumeLike(s, h) : q.code # "OWN001"
               /\ \A q \in MutBorrowable(s, h) : q.code # "OWN001"
               /\ \A q \in SharedBorrowable(s, h) : q.code # "OWN001"
               /\ \A q \in ReleaseProblems(s, h) : q.code # "OWN001"
    BY <2>1 DEF ConsumeLike, MutBorrowable, SharedBorrowable, ReleaseProblems,
       OrElse, When, Problem
  <2>3. \A h : \A q \in UseProblems(cfg, s, h) : q.code # "OWN001"
    BY <2>1 DEF UseProblems, OrElse, When, Problem
  <2>4. \A q \in ArgProblems(cfg, i, s) : q.code # "OWN001"
    BY <2>2 DEF ArgProblems, OwnedArg, BorrowArg, When, Problem
  <2> QED BY <1>2, <2>1, <2>2, <2>3, <2>4 DEF Problems, When, Problem
<1> QED BY <1>1, <1>2

LEMMA OriginStep ==
  ASSUME TypeInv, OnlyInv, OriginInv, [AnyNext]_vars PROVE OriginInv'
<1>0. Owns(EmptyState)
  BY InitialOwns
<1>1. CASE AnyCall
  <2>1. PICK c : Begin(c)
    BY <1>1 DEF AnyCall
  <2>2. DOMAIN diags' = {}
    BY <2>1 DEF Begin, OnlyInv, Settled
  <2>3. cfg' = c /\ phase' = "seed"
        /\ \A b \in Blocks(c) : /\ ins'[b] = EmptyState
                                /\ outs'[b] = EmptyState
                                /\ fin'[b] = EmptyState
    BY <2>1 DEF Begin
  <2>4. Owns(EmptyState)'
    BY DEF Owns, EmptyState
  <2> QED BY <2>2, <2>3, <2>4 DEF OriginInv, Owns
<1>2. CASE AnalyzerStep
  <2>1. cfg' = cfg /\ WellFormed(cfg) /\ Minted' = Minted
    <3>1. cfg' = cfg /\ phase # "idle"
      BY <1>2 DEF AnalyzerStep, Seed, Pop, Raise, SilentStep, Transfer, Store,
         Requeue, Converged, ReportBlock, JudgeStep, JudgedBlock, StartLeaks,
         LeakCheck, Finished
    <3> QED BY <3>1 DEF TypeInv, Shape, Minted, Blocks
  <2>2. /\ ins \in [Blocks(cfg) -> State] /\ outs \in [Blocks(cfg) -> State]
        /\ fin \in [Blocks(cfg) -> State] /\ st \in State
        /\ reach \subseteq Blocks(cfg) /\ work \in Seq(Blocks(cfg))
    BY DEF TypeInv, TypeOK
  <2>3. CASE Pop
    <3> DEFINE b == Head(work)
    <3>1. /\ st' = InStateOf(b) /\ ins' = [ins EXCEPT ![b] = InStateOf(b)]
          /\ UNCHANGED <<outs, fin, diags>> /\ b \in Blocks(cfg)
      BY <2>2, <2>3 DEF Pop
    <3>2. Owns(InStateOf(b))
      <4>1. \A s \in {outs[p] : p \in Known(b)} : Owns(s)
        BY DEF OriginInv, Known, Preds
      <4>2. Owns(JoinAll({outs[p] : p \in Known(b)}))
        BY <4>1, JoinOwns
      <4> QED BY <4>2, InitialOwns DEF InStateOf
    <3> HIDE DEF b
    <3> QED BY <2>1, <2>2, <3>1, <3>2 DEF OriginInv, Owns
  <2>4. CASE SilentStep \/ JudgeStep
    <3> DEFINE i == Instrs(blk)[k]
    <3>1. /\ phase \in {"transfer", "judge"} /\ phase' = phase
          /\ k \in DOMAIN cfg.instrs[blk] /\ st' = Step(cfg, i, st)
          /\ UNCHANGED <<ins, outs, fin>>
      BY <2>4 DEF SilentStep, JudgeStep, Transfer, Instrs
    <3>2. blk \in Blocks(cfg) /\ Owns(st) /\ i = cfg.instrs[blk][k]
      BY <2>2, <3>1 DEF TypeInv, Shape, OriginInv, Instrs
    <3> HIDE DEF i
    <3>3. Owns(st')
      BY <2>1, <2>2, <3>1, <3>2, StepOwns
    <3>4. ASSUME NEW d \in DOMAIN diags', d.code = "OWN001"
          PROVE  d.sym \in Minted
      <4>1. CASE d \in DOMAIN diags
        BY <3>4, <4>1 DEF OriginInv
      <4>2. CASE d \notin DOMAIN diags
        <5>1. \E p \in Problems(cfg, i, st) : p.code = d.code /\ p.sym = d.sym
          <6>1. d \in Reported(Problems(cfg, i, st), blk, k, i.line)
            BY <2>4, <4>2, ErrGrows DEF SilentStep, JudgeStep, Transfer, i
          <6> QED BY <6>1 DEF Reported
        <5> QED BY <3>2, <3>4, <5>1, LeaksOfOwned
      <4> QED BY <4>1, <4>2
    <3> QED BY <2>1, <3>1, <3>3, <3>4 DEF OriginInv, Owns
  <2>5. CASE Store
    <3>1. /\ phase = "transfer" /\ blk \in Blocks(cfg) /\ phase' # "transfer"
          /\ outs' \in {outs, [outs EXCEPT ![blk] = st]} /\ phase' # "judge"
          /\ UNCHANGED <<ins, fin, diags>>
      BY <2>2, <2>5 DEF Store, TypeInv, Shape
    <3> QED BY <2>1, <2>2, <3>1 DEF OriginInv, Owns
  <2>6. CASE ReportBlock
    BY <2>1, <2>6 DEF ReportBlock, OriginInv, Owns
  <2>7. CASE JudgedBlock
    <3>1. blk \in Blocks(cfg) /\ fin' = [fin EXCEPT ![blk] = st] /\ Owns(st)
      BY <2>2, <2>7 DEF JudgedBlock, TypeInv, Shape, OriginInv
    <3> QED BY <2>1, <2>2, <2>7, <3>1 DEF JudgedBlock, OriginInv, Owns
  <2>8. CASE LeakCheck
    <3>1. ASSUME NEW d \in DOMAIN diags', d.code = "OWN001"
          PROVE  d.sym \in Minted
      <4>1. CASE d \in DOMAIN diags
        BY <3>1, <4>1 DEF OriginInv
      <4>2. CASE d \notin DOMAIN diags
        <5>1. d \in Reported(Leaks(fin[blk], NoSym), blk,
                             Len(Instrs(blk)) + 1, LastLine(cfg, blk))
          BY <2>8, <4>2, ErrGrows DEF LeakCheck
        <5>2. PICK p \in Leaks(fin[blk], NoSym) : p.sym = d.sym
          BY <5>1 DEF Reported
        <5>3. Owns(fin[blk])
          BY <2>8 DEF LeakCheck, OriginInv
        <5> QED BY <5>2, <5>3 DEF Leaks, Owns, Problem
      <4> QED BY <4>1, <4>2
    <3> QED BY <2>1, <2>8, <3>1 DEF LeakCheck, OriginInv, Owns
  <2>9. CASE Seed \/ Raise \/ Requeue \/ Converged \/ StartLeaks \/ Finished
    BY <2>1, <2>9 DEF Seed, Raise, Requeue, Converged, StartLeaks, Finished,
       OriginInv, Owns
  <2> QED BY <1>2, <2>3, <2>4, <2>5, <2>6, <2>7, <2>8, <2>9 DEF AnalyzerStep
<1>3. CASE UNCHANGED avars
  BY <1>3 DEF avars, OriginInv, Owns, Minted, Blocks
<1>4. RunnerStep => UNCHANGED avars
  BY DEF RunnerStep, StartRun, Execute, GetStuck, Jump, Leave
<1> QED BY <1>1, <1>2, <1>3, <1>4 DEF AnyNext, vars

-----------------------------------------------------------------------------
(* The run. *)

(* When the analyzer is done, the states it keeps follow the graph.        *)
LEMMA DoneFacts ==
  ASSUME TypeInv, FixInv, phase = "done"
  PROVE  /\ WellFormed(cfg)
         /\ at[Entry][1] = InitialState(cfg)
         /\ \A b \in reach : Stepped(b, Last(b))
         /\ \A p \in reach : \A b \in Succs(cfg, p) :
               Below(at[p][Last(p)], at[b][1])
<1>1. computed = reach /\ Queued = {} /\ WellFormed(cfg) /\ Entry \in reach
  BY DEF FixInv, SeededInv, Settled, TypeInv, Shape, Queued
<1>2. \A b \in reach : /\ at[b][1] = ins[b] /\ Stepped(b, Last(b))
                       /\ at[b][Last(b)] = outs[b]
  BY <1>1 DEF FixInv, ChainInv, InFlight
<1>3. at[Entry][1] = InitialState(cfg)
  BY <1>1, <1>2 DEF FixInv, EntryInv
<1>4. ASSUME NEW p \in reach, NEW b \in Succs(cfg, p)
      PROVE  Below(at[p][Last(p)], at[b][1])
  <2>1. b \in reach
    BY DEF TypeInv, Shape
  <2>2. Below(outs[p], ins[b])
    BY <1>1 DEF FixInv, EdgeInv
  <2> QED BY <1>2, <2>1, <2>2
<1> QED BY <1>1, <1>2, <1>3, <1>4

(* What covers a run still covers it when it says more.                    *)
LEMMA CoversBelow ==
  ASSUME NEW a \in State, NEW b \in State, cs \in RunState, Covers(a, cs),
         Below(a, b)
  PROVE  Covers(b, cs)
<1>1. \A h \in Sym : cs.rid[h] # NoSym => b.rid[h] = cs.rid[h]
  BY DEF Covers, Below
<1> QED BY <1>1 DEF Covers, Below

(* An operation of the run leaves no handle with an obligation of no       *)
(* state.                                                                  *)
LEMMA EffectHandles ==
  ASSUME NEW i, cs \in RunState, WellFormed(cfg), InstrOk(cfg, i), ~ Stuck(i),
         HandlesInv
  PROVE  \A h \in Sym : Effect(i).rid[h] # NoSym =>
            Effect(i).var[Effect(i).rid[h]] # "NONE"
<1> DOMAIN cfg.syms \subseteq Sym
  BY DEF WellFormed
<1>0. \A h \in Sym : cs.rid[h] # NoSym =>
         cs.rid[h] \in Sym /\ cs.var[cs.rid[h]] # "NONE"
  BY DEF HandlesInv, Bound, Obl, RunState
<1>1. CASE i.op = "acquire"
  <2> i.sym \in Sym
    BY <1>1 DEF InstrOk
  <2>1. Effect(i) = Own(cs, i.sym, cfg.syms[i.sym].buf)
    BY <1>1 DEF Effect, Consumes
  <2> QED BY <1>0, <2>1 DEF Own, RunState
<1>2. CASE i.op = "move"
  <2> i.sym \in Sym
    BY <1>2 DEF InstrOk
  <2>1. Effect(i) = MoveOut(i)
    BY <1>2 DEF Effect, Consumes
  <2> QED BY <1>0, <2>1 DEF MoveOut, Own, RunState
<1>3. CASE i.op = "alias"
  <2> i.src \in Sym /\ i.sym \in Sym
    BY <1>3 DEF InstrOk
  <2>1. Subject(i) = i.src
    BY <1>3 DEF Subject
  <2>2. Bound(i.src) /\ i.src # NoSym
    BY <2>1, MaxSymsAssumption DEF Stuck, Sym, NoSym
  <2>3. Effect(i) = [cs EXCEPT !.rid[i.sym] = Obl(i.src)]
    BY <1>3 DEF Effect, Consumes
  <2> QED BY <1>0, <2>2, <2>3 DEF Bound, Obl, RunState
<1>4. CASE \/ i.op = "release"
           \/ Consumes(cfg, i)
           \/ i.op = "return" /\ i.sym # NoSym
  <2> DEFINE v == IF i.op = "release" THEN "RELEASED" ELSE "ESCAPED"
  <2>1. Effect(i) = Take(i.sym, v) /\ v # "NONE"
    BY <1>4 DEF Effect, Consumes
  <2> HIDE DEF v
  <2> QED BY <1>0, <2>1 DEF Take, RunState
<1>5. CASE i.op \in {"borrow_start", "borrow_end"}
  <2>1. Effect(i).rid = cs.rid /\ Effect(i).var = cs.var
    BY <1>5 DEF Effect, Consumes, RunState
  <2> QED BY <1>0, <2>1
<1>6. CASE /\ i.op \notin {"acquire", "move", "alias", "release",
                           "borrow_start", "borrow_end"}
           /\ ~ Consumes(cfg, i)
           /\ ~ (i.op = "return" /\ i.sym # NoSym)
  BY <1>0, <1>6 DEF Effect
<1> QED BY <1>1, <1>2, <1>3, <1>4, <1>5, <1>6

(* Where the run stands, and what it stands on.                            *)
LEMMA HereFacts ==
  ASSUME TypeInv, AtInstr
  PROVE  /\ WellFormed(cfg) /\ InstrOk(cfg, Here) /\ rb \in reach
         /\ rk \in DOMAIN Instrs(rb) /\ Here = Instrs(rb)[rk]
         /\ rk \in Nat /\ rk < Last(rb) /\ at[rb][rk] \in State
         /\ cs \in RunState /\ phase = "done"
<1>1. /\ rb \in reach /\ rb \in Blocks(cfg) /\ WellFormed(cfg)
      /\ phase = "done" /\ cs \in RunState
  BY DEF AtInstr, TypeInv, TypeOK, Shape
<1>2. /\ DOMAIN Instrs(rb) = 1 .. Len(cfg.instrs[rb])
      /\ Len(cfg.instrs[rb]) \in Nat
      /\ \A j \in DOMAIN Instrs(rb) : InstrOk(cfg, Instrs(rb)[j])
  BY <1>1, GraphFacts DEF Instrs
<1>3. at[rb] \in [1 .. Len(cfg.instrs[rb]) + 1 -> State]
  BY <1>1 DEF TypeInv, TypeOK
<1>4. rk \in 1 .. Len(cfg.instrs[rb])
  BY <1>2 DEF AtInstr
<1>5. at[rb][rk] \in State /\ rk < Last(rb) /\ rk \in Nat
  BY <1>2, <1>3, <1>4 DEF Last
<1> QED BY <1>1, <1>2, <1>4, <1>5 DEF AtInstr, Here

(* Executing an instruction keeps what is known of the path.               *)
LEMMA ExecuteKeepsRun ==
  ASSUME TypeInv, FixInv, VerdictInv, RunInv, Execute
  PROVE  RunInv'
<1> DEFINE s == at[rb][rk]
<1>1. /\ AtInstr /\ mode = "running" /\ ~ Stuck(Here) /\ cs' = Effect(Here)
      /\ rk' = rk + 1 /\ UNCHANGED <<cfg, rb, at, diags, mode>>
  BY DEF Execute, AtInstr, avars
<1>2. /\ WellFormed(cfg) /\ InstrOk(cfg, Here) /\ rb \in reach
      /\ rk \in DOMAIN Instrs(rb) /\ Here = Instrs(rb)[rk]
      /\ rk \in Nat /\ rk < Last(rb) /\ s \in State
      /\ cs \in RunState /\ phase = "done"
  BY <1>1, HereFacts
<1>3. Covers(s, cs)
  BY <1>1 DEF RunInv, StateCovered
<1>4. HandlesInv'
  BY <1>1, <1>2, EffectHandles DEF RunInv, HandlesInv, Bound, Obl
<1>5. StateCovered'
  <2>1. at[rb][rk + 1] = Step(cfg, Here, s)
    BY <1>2, DoneFacts DEF Stepped
  <2>2. Covers(Step(cfg, Here, s), Effect(Here))
    BY <1>1, <1>2, <1>3, StepCovers
  <2> QED BY <1>1, <2>1, <2>2 DEF StateCovered, Covers
<1>6. Reported(Problems(cfg, Here, s), rb, rk, Here.line) \subseteq DOMAIN diags
  BY <1>2 DEF VerdictInv, JudgedInv, Judged
<1>7. \A p \in Problems(cfg, Here, s) : \E d \in DOMAIN diags :
         d.code = p.code /\ d.sym = p.sym /\ d.blk = rb /\ d.k = rk
  BY <1>6, ReportedMember
<1>8. FaultsDiagnosed'
  <2> SUFFICES ASSUME NEW x \in FaultKinds(Here), x \in {"gone", "borrowed"}
               PROVE  \E d \in DOMAIN diags :
                        d.blk = rb /\ d.k = rk /\ d.code \in CodesFor(x)
    BY <1>1 DEF Execute, RunInv, FaultsDiagnosed, Diagnosed
  <2>1. CASE x = "gone"
    <3>1. \E p \in Problems(cfg, Here, s) : p.code \in GoneCodes
      BY <1>1, <1>2, <1>3, <2>1, GoneReported DEF FaultKinds
    <3> QED BY <1>7, <2>1, <3>1 DEF CodesFor
  <2>2. CASE x = "borrowed"
    <3>1. \E p \in Problems(cfg, Here, s) : p.code \in GoneCodes \cup LoanCodes
      BY <1>1, <1>2, <1>3, <2>2, LoanReported DEF FaultKinds
    <3> QED BY <1>7, <2>2, <3>1 DEF CodesFor
  <2> QED BY <2>1, <2>2
<1>9. LeaksDiagnosed'
  <2>1. CASE Here.op # "return"
    BY <1>1, <2>1 DEF Execute, RunInv, LeaksDiagnosed
  <2>2. CASE Here.op = "return"
    <3>1. leaked' = leaked \cup LeftBehind(Here.sym)
      BY <2>2 DEF Execute
    <3>2. ASSUME NEW r \in HeldNow(Here.sym)
          PROVE  \E d \in DOMAIN diags :
                   d.code = "OWN001" /\ d.sym = r /\ d.blk = rb /\ d.k = rk
      <4>1. r \in Sym /\ "OWNED" \in s.var[r]
        BY <1>3 DEF HeldNow, Covers
      <4>2. Here.sym = NoSym \/ r # RidOf(s, Here.sym)
        <5>1. CASE Here.sym # NoSym
          <6>1. Subject(Here) = Here.sym /\ Here.sym \in Sym
            BY <1>2, <2>2, <5>1 DEF Subject, InstrOk, WellFormed
          <6>2. cs.rid[Here.sym] # NoSym
            BY <1>1, <5>1, <6>1 DEF Stuck, Bound, Obl
          <6>3. RidOf(s, Here.sym) = Obl(Here.sym)
            BY <1>3, <6>1, <6>2 DEF RidOf, Obl, Covers
          <6> QED BY <5>1, <6>3 DEF HeldNow
        <5> QED BY <5>1
      <4>3. Problem("OWN001", FALSE, r) \in Problems(cfg, Here, s)
        BY <2>2, <4>1, <4>2 DEF Problems, Leaks
      <4> QED BY <1>7, <4>3 DEF Problem
    <3> QED BY <1>1, <3>1, <3>2 DEF RunInv, LeaksDiagnosed, LeftBehind
  <2> QED BY <2>1, <2>2
<1> QED BY <1>4, <1>5, <1>8, <1>9 DEF RunInv

(* Leaving the function by falling off its end.                            *)
LEMMA LeaveKeepsRun ==
  ASSUME TypeInv, FixInv, VerdictInv, RunInv, Leave
  PROVE  RunInv'
<1>1. /\ mode = "running" /\ rk \notin DOMAIN Instrs(rb) /\ mode' = "ended"
      /\ UNCHANGED <<cfg, rb, rk, cs, faults, at, diags>>
  BY DEF Leave, avars
<1>2. phase = "done" /\ rb \in reach /\ rb \in Blocks(cfg) /\ WellFormed(cfg)
  BY <1>1 DEF TypeInv, Shape, TypeOK
<1>3. rk = Last(rb)
  <2>1. /\ DOMAIN Instrs(rb) = 1 .. Len(cfg.instrs[rb])
        /\ Len(cfg.instrs[rb]) \in Nat
    BY <1>2, GraphFacts DEF Instrs
  <2> QED BY <1>1, <2>1 DEF TypeInv, Shape, Last
<1>4. HandlesInv' /\ StateCovered' /\ FaultsDiagnosed'
  BY <1>1 DEF RunInv, HandlesInv, StateCovered, FaultsDiagnosed, Diagnosed,
     Bound, Obl
<1>5. CASE ~ FallsOffEnd(cfg, rb)
  BY <1>1, <1>4, <1>5 DEF Leave, RunInv, LeaksDiagnosed
<1>6. CASE FallsOffEnd(cfg, rb)
  <2>1. fin[rb] = at[rb][rk]
    BY <1>2, <1>3 DEF VerdictInv, LeakInv
  <2>2. Covers(fin[rb], cs)
    BY <1>1, <2>1 DEF RunInv, StateCovered
  <2>3. Reported(Leaks(fin[rb], NoSym), rb, rk, LastLine(cfg, rb))
           \subseteq DOMAIN diags
    BY <1>2, <1>3, <1>6 DEF VerdictInv, LeakInv
  <2>4. ASSUME NEW r \in HeldNow(NoSym)
        PROVE  \E d \in DOMAIN diags :
                 d.code = "OWN001" /\ d.sym = r /\ d.blk = rb /\ d.k = rk
    <3>1. Problem("OWN001", FALSE, r) \in Leaks(fin[rb], NoSym)
      BY <2>2 DEF HeldNow, Covers, Leaks
    <3>2. Problem("OWN001", FALSE, r).code = "OWN001"
          /\ Problem("OWN001", FALSE, r).sym = r
      BY DEF Problem
    <3>3. \A p \in Leaks(fin[rb], NoSym) : \E d \in DOMAIN diags :
             d.code = p.code /\ d.sym = p.sym /\ d.blk = rb /\ d.k = rk
      BY <2>3, ReportedMember
    <3> QED BY <3>1, <3>2, <3>3
  <2>5. leaked' = leaked \cup LeftBehind(NoSym)
    BY <1>6 DEF Leave
  <2> QED BY <1>1, <1>4, <2>4, <2>5 DEF RunInv, LeaksDiagnosed, LeftBehind
<1> QED BY <1>5, <1>6

(* A step keeps what is known of the path.                                 *)
LEMMA RunStep ==
  ASSUME TypeInv, TypeInv', FixInv, VerdictInv, RunInv, [AnyNext]_vars
  PROVE  RunInv'
<1>1. CASE AnyCall \/ (AnalyzerStep /\ UNCHANGED rvars) \/ UNCHANGED vars
  <2>1. UNCHANGED rvars
    BY <1>1 DEF AnyCall, vars
  <2>2. DOMAIN diags \subseteq DOMAIN diags'
    BY <1>1, ErrGrows
       DEF AnyCall, Begin, vars, avars, AnalyzerStep, Seed, Pop, Raise,
           SilentStep, Transfer, Store, Requeue, Converged, ReportBlock,
           JudgeStep, JudgedBlock, StartLeaks, LeakCheck, Finished
  <2>3. StateCovered'
    <3>1. CASE mode = "running"
      <4>1. phase = "done"
        BY <3>1 DEF TypeInv, Shape
      <4>2. UNCHANGED vars
        BY <1>1, <4>1
           DEF AnyCall, Begin, AnalyzerStep, Seed, Pop, Raise, SilentStep, Transfer,
               Store, Requeue, Converged, ReportBlock, JudgeStep,
               JudgedBlock, StartLeaks, LeakCheck, Finished
      <4> QED BY <4>2 DEF RunInv, StateCovered, vars, avars, rvars
    <3>2. CASE mode # "running"
      BY <2>1, <3>2 DEF StateCovered, rvars
    <3> QED BY <3>1, <3>2
  <2> QED BY <2>1, <2>2, <2>3
          DEF RunInv, HandlesInv, FaultsDiagnosed, LeaksDiagnosed, Diagnosed,
              Bound, Obl, rvars
<1>2. CASE StartRun
  <2>1. /\ phase = "done" /\ mode = "waiting" /\ rb' = Entry /\ rk' = 1
        /\ UNCHANGED <<cfg, at, diags, faults, leaked>>
    BY <1>2 DEF StartRun, avars
  <2>2. WellFormed(cfg) /\ at[Entry][1] = InitialState(cfg)
    BY <2>1, DoneFacts
  <2>3. Covers(InitialState(cfg), cs')
    BY <1>2, <2>2
       DEF StartRun, NotRunning, InitialState, EmptyState, Covers, NoSym
  <2>4. HandlesInv'
    BY <1>2 DEF StartRun, NotRunning, HandlesInv, Bound, Obl
  <2> QED BY <2>1, <2>2, <2>3, <2>4
          DEF RunInv, StateCovered, Covers, FaultsDiagnosed, LeaksDiagnosed,
              Diagnosed
<1>3. CASE Execute
  BY <1>3, ExecuteKeepsRun
<1>4. CASE GetStuck
  BY <1>4 DEF GetStuck, avars, RunInv, HandlesInv, StateCovered,
     FaultsDiagnosed, LeaksDiagnosed, Diagnosed, Bound, Obl
<1>5. CASE Jump
  <2>1. /\ mode = "running" /\ rk \notin DOMAIN Instrs(rb)
        /\ rb' \in Succs(cfg, rb) /\ rk' = 1
        /\ UNCHANGED <<cfg, cs, at, diags, faults, leaked, mode, reach>>
    BY <1>5 DEF Jump, avars
  <2>2. phase = "done" /\ rb \in reach /\ rb \in Blocks(cfg) /\ WellFormed(cfg)
    BY <2>1 DEF TypeInv, Shape, TypeOK
  <2>3. /\ DOMAIN Instrs(rb) = 1 .. Len(cfg.instrs[rb])
        /\ Len(cfg.instrs[rb]) \in Nat
    BY <2>2, GraphFacts DEF Instrs
  <2>4. rk = Last(rb) /\ rk \in 1 .. Len(cfg.instrs[rb]) + 1
    BY <2>1, <2>3 DEF TypeInv, Shape, Last
  <2>5. Below(at[rb][rk], at[rb'][1])
    BY <2>1, <2>2, <2>4, DoneFacts
  <2>6. at[rb][rk] \in State
    BY <2>2, <2>4 DEF TypeInv, TypeOK
  <2>7. at[rb'][1] \in State
    <3>1. rb' \in Blocks(cfg) /\ Len(cfg.instrs[rb']) \in Nat
      BY <2>1, <2>2, GraphFacts
    <3>2. at[rb'] \in [1 .. Len(cfg.instrs[rb']) + 1 -> State]
      BY <3>1 DEF TypeInv, TypeOK
    <3> QED BY <3>1, <3>2
  <2>8. Covers(at[rb][rk], cs) /\ cs \in RunState
    BY <2>1 DEF RunInv, StateCovered, TypeInv, TypeOK
  <2>9. Covers(at[rb'][1], cs)
    BY <2>5, <2>6, <2>7, <2>8, CoversBelow
  <2>10. StateCovered'
    BY <2>1, <2>9 DEF StateCovered, Covers
  <2> QED BY <2>1, <2>10
          DEF RunInv, HandlesInv, FaultsDiagnosed, LeaksDiagnosed, Diagnosed,
              Bound, Obl
<1>6. CASE Leave
  BY <1>6, LeaveKeepsRun
<1> QED BY <1>1, <1>2, <1>3, <1>4, <1>5, <1>6 DEF AnyNext, RunnerStep

-----------------------------------------------------------------------------
(* The theorems. *)

(* A definite verdict on an operation is a fault of every run it covers.   *)
LEMMA DefiniteSound ==
  ASSUME NEW i, NEW s \in State, cs \in RunState, WellFormed(cfg),
         InstrOk(cfg, i), Covers(s, cs), HandlesInv, ~ Stuck(i),
         NEW p \in Problems(cfg, i, s), ~ p.maybe,
         p.code \in {"OWN002", "OWN003", "OWN005"}
  PROVE  GoneFault(i)
<1> DEFINE h == Subject(i)
<1> DEFINE definite == {"OWN002", "OWN003", "OWN005"}
<1> i \in Instr /\ DOMAIN cfg.syms \subseteq Sym /\ NoSym \notin Sym
  BY MaxSymsAssumption DEF InstrOk, WellFormed, Sym, NoSym
<1>1. ASSUME h \in Sym
      PROVE  /\ cs.var[Obl(h)] \in Held(s, h)
             /\ Held(s, h) \subseteq VarState
             /\ h # NoSym
  <2>1. Bound(h) /\ h # NoSym
    BY <1>1 DEF Stuck
  <2>2. Obl(h) \in Sym /\ RidOf(s, h) = Obl(h) /\ cs.var[Obl(h)] # "NONE"
    BY <1>1, <2>1 DEF Bound, Obl, RidOf, Covers, RunState, HandlesInv
  <2>3. cs.var[Obl(h)] \in s.var[Obl(h)]
    BY <2>2 DEF Covers
  <2> QED BY <2>1, <2>2, <2>3 DEF Held, State
<1>2. ASSUME h \in Sym, p \in StateProblem(s, h)
      PROVE  cs.var[Obl(h)] \in Gone
  <2>1. "OWNED" \notin Held(s, h)
    BY <1>2 DEF StateProblem, Problem
  <2> QED BY <1>1, <1>2, <2>1 DEF VarState, Gone
<1>3. ASSUME h \in Sym, p \in ReleaseProblems(s, h)
      PROVE  cs.var[Obl(h)] \in Gone
  <2>1. CASE "RELEASED" \in Held(s, h)
    <3>1. Held(s, h) = {"RELEASED"}
      <4>1. p = Problem("OWN003", Held(s, h) # {"RELEASED"}, h)
        BY <1>3, <2>1 DEF ReleaseProblems
      <4>2. p.maybe = (Held(s, h) # {"RELEASED"})
        BY <4>1 DEF Problem
      <4> QED BY <4>2, Zenon
    <3> QED BY <1>1, <1>3, <3>1 DEF Gone
  <2>2. CASE "RELEASED" \notin Held(s, h)
    BY <1>2, <1>3, <2>2 DEF ReleaseProblems, OrElse, When, Problem
  <2> QED BY <2>1, <2>2
<1>4. ASSUME h \in Sym, p \in ReturnProblems(cfg, s, h)
      PROVE  cs.var[Obl(h)] \in Gone
  <2>1. "OWNED" \notin Held(s, h)
    BY <1>4 DEF ReturnProblems, When, Problem
  <2> QED BY <1>1, <1>4, <2>1 DEF VarState, Gone
<1>5. CASE i.op = "move"
  <2>1. h = i.src /\ h \in Sym
    BY <1>5 DEF Subject, InstrOk
  <2>2. p \in StateProblem(s, h)
    BY <1>5, <2>1 DEF Problems, ConsumeLike, OrElse, When, Problem
  <2> QED BY <1>1, <1>2, <1>5, <2>1, <2>2 DEF GoneFault, Touches, Takes
<1>6. CASE i.op = "release"
  <2>1. h = i.sym /\ h \in Sym /\ p \in ReleaseProblems(s, h)
    BY <1>6 DEF Subject, InstrOk, Problems
  <2> QED BY <1>1, <1>3, <1>6, <2>1 DEF GoneFault, Touches, Takes
<1>7. CASE i.op = "use"
  <2>1. cfg.syms[i.sym].kind = "owned"
    BY <1>7 DEF Problems, UseProblems, When, Problem
  <2>2. h = i.sym /\ h \in Sym
    BY <1>7, <2>1 DEF Subject, InstrOk
  <2>3. p \in StateProblem(s, h)
    BY <1>7, <2>1, <2>2 DEF Problems, UseProblems, OrElse, When, Problem
  <2> QED BY <1>1, <1>2, <1>7, <2>2, <2>3 DEF GoneFault, Touches, Reads
<1>8. CASE i.op = "arg"
  <2>1. cfg.syms[i.sym].kind = "owned"
    BY <1>8 DEF Problems, ArgProblems, BorrowArg, When, Problem
  <2>2. h = i.sym /\ h \in Sym
    BY <1>8, <2>1 DEF Subject, InstrOk
  <2>3. p \in OwnedArg(cfg, i, s)
    BY <1>8, <2>1 DEF Problems, ArgProblems
  <2>4. i.eff \in {"consume", "borrow_mut", "borrow"}
    BY <2>3 DEF OwnedArg, When, Problem
  <2>5. p \in StateProblem(s, h)
    BY <2>2, <2>3, <2>4
       DEF OwnedArg, ConsumeLike, MutBorrowable, SharedBorrowable, OrElse,
           When, Problem
  <2> QED BY <1>1, <1>2, <1>8, <2>2, <2>4, <2>5
          DEF GoneFault, Touches, Takes, Excludes, Reads
<1>9. CASE i.op = "borrow_start"
  <2>1. h = i.src /\ h \in Sym
    BY <1>9 DEF Subject, InstrOk
  <2>2. p \in StateProblem(s, h)
    BY <1>9, <2>1
       DEF Problems, MutBorrowable, SharedBorrowable, OrElse, When, Problem,
           Instr
  <2> QED BY <1>1, <1>2, <1>9, <2>1, <2>2
          DEF GoneFault, Touches, Excludes, Reads, Instr
<1>10. CASE i.op = "return"
  <2>1. i.sym # NoSym /\ p \in ReturnProblems(cfg, s, i.sym)
    BY <1>10 DEF Problems, Leaks, Problem
  <2>2. h = i.sym /\ h \in Sym
    BY <1>10, <2>1 DEF Subject, InstrOk
  <2> QED BY <1>1, <1>4, <1>10, <2>1, <2>2 DEF GoneFault, Touches, Takes
<1> QED BY <1>5, <1>6, <1>7, <1>8, <1>9, <1>10 DEF Problems, When, Problem

(* The invariant of the analyzer and of the run, as it starts.             *)
LEMMA InitInvariant == Init => IndInv
<1> SUFFICES ASSUME Init PROVE IndInv
  OBVIOUS
<1>1. phase = "idle" /\ computed = {} /\ diags = EmptyBag
  BY DEF Init, AnalysisInit
<1>2. FixInv
  BY <1>1 DEF Init, AnalysisInit, FixInv, ChainInv, CurrentInv, EntryInv,
     SeededInv, EdgeInv, InFlight, Converging, Settled
<1>3. JudgedInv /\ LeakInv
  BY <1>1 DEF JudgedInv, LeakInv, Judged
<1>4. OnlyInv
  BY <1>1 DEF OnlyInv, Settled, EmptyBag, SetToBag
<1>5. RunInv
  BY DEF Init, RunInit, RunInv, HandlesInv, StateCovered, FaultsDiagnosed,
     LeaksDiagnosed, Bound, Obl, NotRunning
<1>6. AgreeInv /\ PlacedInv
  BY <1>1 DEF Init, AnalysisInit, AgreeInv, PlacedInv, EmptyBag, SetToBag
<1>7. OriginInv
  BY <1>1 DEF Init, AnalysisInit, OriginInv, Blocks, NoCfg, EmptyBag, SetToBag
<1> QED BY <1>2, <1>3, <1>4, <1>5, <1>6, <1>7, InitTyped
        DEF IndInv, VerdictInv

(* The verdicts are kept by every step.                                    *)
LEMMA VerdictStep ==
  ASSUME TypeInv, FixInv, VerdictInv, [AnyNext]_vars PROVE VerdictInv'
<1>1. CASE AnalyzerStep
  BY <1>1, JudgedStep, LeakStep, OnlyStep DEF VerdictInv
<1>2. CASE AnyCall
  BY <1>2 DEF AnyCall, Begin, VerdictInv, JudgedInv, Judged, LeakInv, OnlyInv,
     Settled
<1>3. CASE UNCHANGED avars
  BY <1>3 DEF avars, VerdictInv, JudgedInv, Judged, LeakInv, OnlyInv, Settled,
     Instrs, Last
<1>4. RunnerStep => UNCHANGED avars
  BY DEF RunnerStep, StartRun, Execute, GetStuck, Jump, Leave
<1> QED BY <1>1, <1>2, <1>3, <1>4 DEF AnyNext, vars

(* The inductive invariant is kept, whatever well-formed graph is analyzed. *)
LEMMA InvariantStep == IndInv /\ [AnyNext]_vars => IndInv'
<1> SUFFICES ASSUME IndInv, [AnyNext]_vars PROVE IndInv'
  OBVIOUS
<1>1. TypeInv'
  BY TypeStep DEF IndInv
<1>2. FixInv'
  BY FixStep DEF IndInv
<1>3. VerdictInv'
  BY VerdictStep DEF IndInv
<1>4. RunInv'
  BY <1>1, RunStep DEF IndInv
<1>5. AgreeInv'
  BY AgreeStep DEF IndInv
<1>6. PlacedInv'
  <2>1. CASE AnalyzerStep
    BY <2>1, PlacedStep DEF IndInv, VerdictInv
  <2>2. CASE AnyCall
    BY <2>2 DEF AnyCall, Begin, IndInv, VerdictInv, OnlyInv, Settled,
       PlacedInv
  <2>3. CASE UNCHANGED avars
    BY <2>3 DEF avars, IndInv, PlacedInv, Placed, Judged, Instrs, Last
  <2>4. RunnerStep => UNCHANGED avars
    BY DEF RunnerStep, StartRun, Execute, GetStuck, Jump, Leave
  <2> QED BY <2>1, <2>2, <2>3, <2>4 DEF AnyNext, vars
<1>7. OriginInv'
  BY OriginStep DEF IndInv, VerdictInv
<1> QED BY <1>1, <1>2, <1>3, <1>4, <1>5, <1>6, <1>7 DEF IndInv

(* What the worklist, the reporting pass and the run keep, for every set of *)
(* graphs (`fixpoint`, `run`).                                              *)
THEOREM Invariant == Spec => []IndInv
<1>1. Init => IndInv
  BY InitInvariant
<1>2. IndInv /\ [Next]_vars => IndInv'
  BY InvariantStep, SpecCalls
<1> QED BY <1>1, <1>2, PTL DEF Spec

(* Whatever path a run takes through whatever graph, its state is covered  *)
(* at each instruction by the one the instruction was judged on.           *)
THEOREM Soundness == Spec => []StateCovered
<1>1. IndInv => StateCovered
  BY DEF IndInv, RunInv
<1> QED BY <1>1, Invariant, PTL

(* An operation that fails on some path, because the obligation is gone or *)
(* because a loan forbids it, is reported at that operation (`_state_      *)
(* problem`, `_consume_like`, `_check_mut_borrowable` and their like).     *)
THEOREM EveryFaultDiagnosed == Spec => []FaultsDiagnosed
<1>1. IndInv => FaultsDiagnosed
  BY DEF IndInv, RunInv
<1> QED BY <1>1, Invariant, PTL

(* An obligation a path leaves behind is reported where the path leaves    *)
(* the function (`leak_check`).                                            *)
THEOREM EveryLeakDiagnosed == Spec => []LeaksDiagnosed
<1>1. IndInv => LeaksDiagnosed
  BY DEF IndInv, RunInv
<1> QED BY <1>1, Invariant, PTL

(* A verdict that claims certainty is a fault on every path that gets      *)
(* there: the state of the path is among those the analyzer has joined.    *)
LEMMA CertainOnEveryPath == IndInv => DefiniteMeansEveryPath
<1> SUFFICES ASSUME IndInv, AtInstr, ~ Stuck(Here), NEW d \in DOMAIN diags,
                    d.blk = rb, d.k = rk, ~ d.maybe,
                    d.code \in {"OWN002", "OWN003", "OWN005"}
             PROVE  GoneFault(Here)
  BY DEF DefiniteMeansEveryPath
<1>1. /\ WellFormed(cfg) /\ InstrOk(cfg, Here) /\ at[rb][rk] \in State
      /\ cs \in RunState /\ Here = Instrs(rb)[rk]
  BY HereFacts DEF IndInv
<1>2. Covers(at[rb][rk], cs) /\ HandlesInv
  BY DEF IndInv, RunInv, StateCovered, AtInstr
<1>3. PICK p \in Problems(cfg, Here, at[rb][rk]) :
             p.code = d.code /\ p.maybe = d.maybe
  BY <1>1 DEF IndInv, VerdictInv, OnlyInv
<1> QED BY <1>1, <1>2, <1>3, DefiniteSound

(* The definite codes raise no false alarm.                                *)
THEOREM DefiniteIsCertain == Spec => []DefiniteMeansEveryPath
BY CertainOnEveryPath, Invariant, PTL

(* The reporting pass recomputes the states of the fixpoint, the in-states *)
(* are joins of all the predecessors, and nothing is reported twice.       *)
LEMMA FixpointReported == IndInv => ReportsOnFixpoint
<1> SUFFICES ASSUME IndInv PROVE ReportsOnFixpoint
  OBVIOUS
<1>1. \A d \in DOMAIN diags : diags[d] = 1
  BY DEF IndInv, PlacedInv
<1>2. ASSUME phase \in {"leaks", "done"}, NEW b \in reach
      PROVE  /\ fin[b] = outs[b]
             /\ b # Entry =>
                  ins[b] = JoinAll({outs[p] : p \in Preds(cfg, b) \cap reach})
  <2>1. fin[b] = at[b][Last(b)]
    BY <1>2 DEF IndInv, VerdictInv, LeakInv
  <2>2. at[b][Last(b)] = outs[b]
    BY <1>2 DEF IndInv, FixInv, SeededInv, ChainInv, InFlight, Settled
  <2> QED BY <1>2, <2>1, <2>2, SettledIsJoin DEF IndInv, Settled
<1> QED BY <1>1, <1>2 DEF ReportsOnFixpoint

(* The fixpoint the verdicts are given on is one, for every set of graphs  *)
(* (`fixpoint` and the reporting transfer of `run`).                       *)
THEOREM FixpointIsReported == Spec => []ReportsOnFixpoint
BY FixpointReported, Invariant, PTL

(* A leak is only reported of an obligation the function has               *)
(* (`leak_check`, `initial_state`).                                        *)
THEOREM LeaksAreReal == Spec => []NoPhantomLeaks
<1>1. IndInv => NoPhantomLeaks
  BY DEF IndInv, OriginInv, NoPhantomLeaks
<1> QED BY <1>1, Invariant, PTL
=============================================================================
