------------------------------ MODULE Lifetimes ------------------------------
(***************************************************************************)
(* Region escape (ownlang/lifetimes.py, the first step of check_module):   *)
(* `lifetime X < Y` declares that region X is shorter-lived than Y.  For   *)
(* each region the regions strictly longer than it are searched along the  *)
(* declarations; a function of region X that subscribes itself to a source *)
(* of a strictly longer region escapes to it.                              *)
(*                                                                         *)
(* The declarations of the input are a sequence of [name, longer], longer  *)
(* {} or {region}; a region may be declared again, be longer than others   *)
(* without a declaration, or lie on a cycle.  A function is [life, params, *)
(* subs]: its region ({} or one), the regions of its tagged parameters,    *)
(* and the sources its body subscribes to, wherever in the body.  The      *)
(* stack of the search starts from a Python set, in no particular order.   *)
(***************************************************************************)
EXTENDS Naturals, Sequences

CONSTANT LifetimeModules   \* inputs: [decls, functions]

ASSUME LifetimesAssumption ==
  \A m \in LifetimeModules : \A j \in DOMAIN m.decls :
    \A r, s \in m.decls[j].longer : r = s

VARIABLES
  lmod,      \* the module's declarations and functions
  starts,    \* regions whose search is still to come
  start,     \* {} or {the region of the search}
  frontier,  \* what is on the stack of the search
  longer,    \* region -> the strictly longer ones found so far
  diags      \* {} or the diagnostics, once made

ltvars == <<lmod, starts, start, frontier, longer, diags>>

Declared(m) == {m.decls[j].name : j \in DOMAIN m.decls}

\* `direct`: the regions named, and the longer ones their declarations give.
Regions(m) == Declared(m) \cup UNION {m.decls[j].longer : j \in DOMAIN m.decls}
Direct(r)  ==
  UNION {lmod.decls[j].longer : j \in {k \in DOMAIN lmod.decls : lmod.decls[k].name = r}}

LtInit(given) ==
  /\ lmod \in given
  /\ starts = Regions(lmod) /\ start = {} /\ frontier = {}
  /\ longer = [r \in Regions(lmod) |-> {}]
  /\ diags = << >>

\* for start in direct
Search ==
  /\ start = {} /\ frontier = {}
  /\ \E r \in starts :
       /\ starts' = starts \ {r} /\ start' = {r}
       /\ frontier' = Direct(r)
  /\ UNCHANGED <<lmod, longer, diags>>

\* Mutant of PopRegion: only the regions one declaration away are longer.
PopRegionDirect ==
  \E s \in start, r \in frontier :
    /\ longer' = [longer EXCEPT ![s] = @ \cup {r}]
    /\ frontier' = frontier \ {r}
    /\ UNCHANGED <<lmod, starts, start, diags>>

\* while stack: a region met before is not followed again.
PopRegion ==
  \E s \in start, r \in frontier :
    /\ longer' = [longer EXCEPT ![s] = @ \cup {r}]
    /\ frontier' = IF r \in longer[s] THEN frontier \ {r}
                   ELSE (frontier \ {r}) \cup Direct(r)
    /\ UNCHANGED <<lmod, starts, start, diags>>

Searched ==
  /\ start # {} /\ frontier = {}
  /\ start' = {}
  /\ UNCHANGED <<lmod, starts, frontier, longer, diags>>

\* check_lifetimes and _check_fn, once `longer` is there.
Redeclared == {j \in DOMAIN lmod.decls : \E k \in 1 .. j - 1 :
                 lmod.decls[k].name = lmod.decls[j].name}
UnknownLonger == {j \in DOMAIN lmod.decls : ~ lmod.decls[j].longer \subseteq Declared(lmod)}
Cyclic == {j \in DOMAIN lmod.decls : lmod.decls[j].name \in longer[lmod.decls[j].name]}

\* A region that is not declared compares with nothing.
Known(regions) == regions \cap Declared(lmod)

Tags(f) == {f.life} \cup {f.params[p] : p \in DOMAIN f.params}

Escapes(f) ==
  {p \in f.subs \cap DOMAIN f.params :
     \E self \in Known(f.life), source \in Known(f.params[p]) : source \in longer[self]}

JudgeRegions ==
  /\ starts = {} /\ start = {} /\ frontier = {} /\ diags = << >>
  /\ diags' = <<[redeclared |-> Redeclared, unknown |-> UnknownLonger, cyclic |-> Cyclic,
                 untagged |-> [j \in DOMAIN lmod.functions |->
                                 {t \in Tags(lmod.functions[j]) : t # Known(t)}],
                 escapes |-> [j \in DOMAIN lmod.functions |-> Escapes(lmod.functions[j])]]>>
  /\ UNCHANGED <<lmod, starts, start, frontier, longer>>

LtNext == Search \/ PopRegion \/ Searched \/ JudgeRegions

LtDone == diags # << >>

-----------------------------------------------------------------------------
\* There is a chain of declarations from region r to region s.
Chain(r, s) ==
  /\ s \in Regions(lmod)
  /\ \A S \in SUBSET Regions(lmod) :
       (Direct(r) \subseteq S /\ \A x \in S : Direct(x) \subseteq S) => s \in S

(***************************************************************************)
(* A subscription is an escape exactly when a chain of declarations leads  *)
(* from the function's region to the source's, through redeclared,         *)
(* undeclared and cyclic regions, whatever order the search takes; and a   *)
(* declaration is cyclic exactly when a chain leads back to its region.    *)
(***************************************************************************)
EscapesExact ==
  LtDone =>
    /\ \A j \in DOMAIN lmod.decls :
         j \in diags[1].cyclic <=> Chain(lmod.decls[j].name, lmod.decls[j].name)
    /\ \A j \in DOMAIN lmod.functions :
         LET f == lmod.functions[j] IN
         \A p \in DOMAIN f.params :
           p \in diags[1].escapes[j] <=>
             /\ p \in f.subs
             /\ \E r \in f.life, s \in f.params[p] :
                  Chain(r, s) /\ {r, s} \subseteq Declared(lmod)
=============================================================================
