-------------------------- MODULE EffectInvariants ---------------------------
(***************************************************************************)
(* The inductive invariant of the effect stability classification, as      *)
(* conjunctions of named parts: what each activation went through, what    *)
(* the memo stands for, and what was judged.  FactsProofs shows that it    *)
(* holds for every table of bindings.                                      *)
(***************************************************************************)
EXTENDS EffectStability

Results == [stab : Stability, path : Seq(Names)]
Frames  == [name : Bound, ref : Nat, worst : Results]

(* The reference a classification asked for last, and the name in hand.     *)
Asked(f) == Binding(f.name).refs[f.ref - 1]
InHand   == IF stack = << >> THEN DepList[next] ELSE Asked(Top)

(* Nothing hangs on a name that is unbound, being classified or memoised.   *)
Settled(x) == x \notin Bound \/ x \in Open \/ x \in DOMAIN memo

Unstable(r) == r.stab = "unstable"

(* A chain of references from n to a fresh identity.                        *)
Evidence(n, p) ==
  /\ Len(p) > 0 /\ p[1] = n /\ p[Len(p)] \in Fresh
  /\ \A j \in 1 .. Len(p) - 1 : p[j + 1] \in RefsOf(p[j])
  /\ \A j, l \in DOMAIN p : p[j] = p[l] => j = l

Proven(n, r) ==
  Unstable(r) => /\ Unsteady(n) /\ Evidence(n, r.path)
                 /\ \A j \in DOMAIN r.path : r.path[j] \in DOMAIN memo

EffTyped ==
  /\ IsTable(table)
  /\ next \in 1 .. Len(DepList) + 1
  /\ call \in Names \cup {None}
  /\ ret \in Seq(Results) /\ Len(ret) <= 1
  /\ stack \in Seq(Frames)
  /\ \A n \in DOMAIN memo : n \in Bound /\ memo[n] \in Results
  /\ call # None => ret = << >>

(* One activation: how far it is, and what its worst reference shows.       *)
FrameRight(f) ==
  /\ f.ref >= 1 /\ f.name \notin DOMAIN memo
  /\ Binding(f.name).init # "derived" => f.ref = 1
  /\ f.ref <= Len(Binding(f.name).refs) + 1
  /\ Unstable(f.worst) => /\ f.ref > 1 /\ Unsteady(f.name) /\ Evidence(f.name, f.worst.path)
                          /\ \A j \in DOMAIN f.worst.path :
                               j > 1 => f.worst.path[j] \in DOMAIN memo

StackRight ==
  /\ \A j \in DOMAIN stack : FrameRight(stack[j])
  /\ \A i, j \in DOMAIN stack : stack[i].name = stack[j].name => i = j
  /\ \A j \in DOMAIN stack : j < Len(stack) =>
       stack[j].ref > 1 /\ stack[j + 1].name = Asked(stack[j])
  /\ stack # << >> => stack[1].name = DepList[next]

(* A resolution that goes on is one for a dependency.                       *)
AtWork ==
  (call # None \/ ret # << >> \/ stack # << >>) =>
    /\ storm = << >> /\ next \in DOMAIN DepList
    /\ (call # None \/ ret # << >>) /\ stack # << >> => Top.ref > 1
    /\ call # None => call = InHand

(* What an activation went through is settled, but for the name in hand.    *)
Through ==
  /\ \A j \in DOMAIN stack : \A k \in DOMAIN Binding(stack[j].name).refs :
       k < stack[j].ref =>
         \/ Settled(Binding(stack[j].name).refs[k])
         \/ j = Len(stack) /\ k = stack[j].ref - 1 /\ call # None
  /\ ret # << >> => Settled(InHand) /\ Proven(InHand, ret[1])

(* What is memoised as anything but unstable hides no fresh identity, and   *)
(* hangs on settled names only; what is memoised as unstable is in force.   *)
Hot ==
  \/ storm # << >>
  \/ ret # << >> /\ Unstable(ret[1])
  \/ \E j \in DOMAIN stack : Unstable(stack[j].worst)

Memory ==
  \A n \in DOMAIN memo :
    /\ ~ Unstable(memo[n]) => n \notin Fresh /\ \A x \in RefsOf(n) : Settled(x)
    /\ Unstable(memo[n]) => Hot
    /\ Proven(n, memo[n])

Judged ==
  /\ \A j \in DOMAIN DepList : j < next => ~ Unsteady(DepList[j])
  /\ storm # << >> =>
       /\ next \in DOMAIN DepList /\ Unsteady(DepList[next])
       /\ storm[1].dep = DepList[next]
       /\ Evidence(DepList[next], storm[1].path)
       /\ storm[1].origin = storm[1].path[Len(storm[1].path)]

EffInv ==
  IF io THEN EffTyped /\ StackRight /\ AtWork /\ Through /\ Memory /\ Judged
        ELSE Idle /\ storm = << >> /\ DOMAIN memo = {}
==============================================================================
