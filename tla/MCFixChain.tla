---------------------------- MODULE MCFixChain ----------------------------
(***************************************************************************)
(* The pipeline for TLC.  Two plans made from one source and a third made  *)
(* from another one.  Of six sites, 1 and 2 are one statement twice in a  *)
(* member, 3 is the same event and handler in another member, 4 stands     *)
(* alone, 5 cannot be fixed although it prints like 4, and 6 cannot either. *)
(***************************************************************************)
EXTENDS FixChain, TLC

CONSTANTS r1, r2, p1, p2, p3, s1, s2, c1, c2, t1, t2

TwoRuns     == {r1, r2}
ThreePlans  == {p1, p2, p3}
TwoSources  == {s1, s2}
MadeFrom    == (p1 :> s1) @@ (p2 :> s1) @@ (p3 :> s2)
TwoClosures == {c1, c2}
TwoRuntimes == {t1, t2}

SixSites    == 1..6
Identities  == <<"ab", "ab", "b", "c", "d", "e">>
Keys        == <<"k", "k", "k", "m", "m", "n">>
Shapes      == <<"leak", "leak", "leak", "leak", "region", "leak">>
Resolved    == (c1 :> {1, 2, 3, 4}) @@ (c2 :> {1, 2, 4})

(* An undisturbed world about plan p1; the others convert nothing. *)
Calm(left, chosen, converted, edited, fixed, closure, wrapper) ==
  LET pre == [left |-> left, advice |-> 1] IN
  [plan |-> p1, by |-> r1, rivals |-> {},
   image     |-> [s \in TwoSources |-> pre],
   selected  |-> (s1 :> chosen) @@ (s2 :> {}),
   convert   |-> (p1 :> converted) @@ (p2 :> {}) @@ (p3 :> {}),
   edited    |-> IF edited THEN {p1} ELSE {},
   fixed     |-> (p1 :> IF edited THEN fixed ELSE pre) @@ (p2 :> pre) @@ (p3 :> pre),
   collected |-> c1,
   tools     |-> [refs |-> closure, runtime |-> t1],
   wrapper   |-> [c \in TwoClosures |-> wrapper]]

\* Every selection, every choice of conversions and every outcome.
Outcomes(left) ==
  UNION {
    { Calm(left, chosen, converted, converted # {}, [left |-> l, advice |-> n],
           c1, "weak") :
        converted \in SUBSET chosen, l \in SUBSET (left \cup {3}), n \in {1, 2} } :
    chosen \in SUBSET (left \cap Resolved[c1]) }

\* Exact conversions, with everything else that can differ.
Circumstances(left) ==
  { Calm(left, left, converted, edited, [left |-> left \ converted, advice |-> 0],
         closure, wrapper) :
      converted \in SUBSET left, edited \in BOOLEAN,
      closure \in TwoClosures, wrapper \in {"weak", "strong", "flaky"} }

\* The three plans are all good, and everything may be replaced; the rivals
\* differ from the attempt in one respect.
Disturbed(plan) ==
  [plan |-> plan, by |-> r1,
   rivals    |-> [plan : ThreePlans \ {plan}, refs : {c1}, runtime : {t1}]
                   \cup [plan : {plan}, refs : {c2}, runtime : {t1}]
                   \cup [plan : {plan}, refs : {c1}, runtime : {t2}],
   image     |-> (s1 :> [left |-> {1, 4}, advice |-> 0])
                   @@ (s2 :> [left |-> {4}, advice |-> 0]),
   selected  |-> (s1 :> {1, 4}) @@ (s2 :> {4}),
   convert   |-> (p1 :> {1, 4}) @@ (p2 :> {4}) @@ (p3 :> {}),
   edited    |-> {p1, p2},
   fixed     |-> (p1 :> [left |-> {}, advice |-> 0])
                   @@ (p2 :> [left |-> {1}, advice |-> 0])
                   @@ (p3 :> [left |-> {4}, advice |-> 0]),
   collected |-> c1,
   tools     |-> [refs |-> c1, runtime |-> t1],
   wrapper   |-> [c \in TwoClosures |-> "weak"]]

SomeWorlds ==
  Outcomes({1, 2, 4}) \cup Outcomes({1, 3, 4}) \cup Outcomes({1, 4, 6})
    \cup Circumstances({1, 3, 4}) \cup Circumstances({1, 4})
    \cup Outcomes({4, 5})
    \cup {Disturbed(p1), Disturbed(p3)}
=============================================================================
