---------------------------- MODULE ProtocolRuns ----------------------------
(***************************************************************************)
(* The runs of a method, and what the protocol checker must say of them.   *)
(*                                                                         *)
(* A run is at [todo, since]: the events left to happen, and the line an   *)
(* obligation has been open since.  A loop happens any number of times, a  *)
(* branch either way, and an opaque write to a tracked flag may close.     *)
(***************************************************************************)
EXTENDS Obligations

After1(p, e, since) ==
  CASE Matches(p.opens, e) -> {Least(since \cup {e.line})}
    [] ~ Matches(p.opens, e) /\ Matches(p.closes, e) -> {{}}
    [] OTHER -> IF e.ev = "assign" /\ e.value = "opaque" /\ TracksTarget(p, e.target)
                THEN {since, {}} ELSE {since}

Happens(p, run) ==
  IF run.todo = << >> THEN {}
  ELSE LET e == Head(run.todo)
           rest == Tail(run.todo)
           to(s) == [run EXCEPT !.todo = s]
       IN CASE e.ev \in {"return", "throw"} -> {}
            [] e.ev = "if"    -> {to(e.then \o rest), to(e.orelse \o rest)}
            [] e.ev = "while" -> {to(rest), to(e.body \o run.todo)}
            [] OTHER -> {[todo |-> rest, since |-> s] : s \in After1(p, e, run.since)}

RECURSIVE Closure(_, _)
Closure(p, runs) ==
  LET more == runs \cup UNION {Happens(p, r) : r \in runs} IN
  IF more = runs THEN runs ELSE Closure(p, more)

Runs(p, method) == Closure(p, {[todo |-> method.events, since |-> {}]})

\* Where an obligation may not be open: barriers, exits, the end of the body.
Places(p, run) ==
  IF run.todo = << >> THEN {<<"end", 0>> : x \in {TRUE} \cap {p.exits}}
  ELSE {<<e.ev, e.line>> :
          e \in {x \in {Head(run.todo)} :
                   \/ x.ev \in {"return", "throw"} /\ p.exits
                   \/ x.ev \in {"assign", "call"} /\ Crosses(p, x)}}

PlaceOf(v) == IF v.what = "end" THEN <<"end", 0>> ELSE <<v.what, v.line>>

\* The walk that has just ended, and the runs of its method.
JustWalked == ~ Walking /\ violations # << >>
Walked  == violations[Len(violations)]
Rules == input.protocols[Walked.turn[1]]
RunsThere(place) ==
  {r \in Runs(Rules, input.methods[Walked.turn[2]]) : place \in Places(Rules, r)}

(***************************************************************************)
(* A violation is reported at a place exactly when some run stands there   *)
(* with the obligation open: the states joined at merges and the silent    *)
(* fixpoint of a loop neither lose a run nor invent one, also where loops  *)
(* nest and where branches leave the method; and it is reported once,      *)
(* however often its loops were walked.                                    *)
(***************************************************************************)
CrossingsReported ==
  JustWalked =>
    LET runs == Runs(Rules, input.methods[Walked.turn[2]]) IN
    /\ {PlaceOf(Walked.found[j]) : j \in DOMAIN Walked.found}
         = UNION {Places(Rules, r) : r \in {x \in runs : x.since # {}}}
    /\ \A i, j \in DOMAIN Walked.found :
         PlaceOf(Walked.found[i]) = PlaceOf(Walked.found[j]) => i = j

(***************************************************************************)
(* The error of a definite violation: every run that stands there has the  *)
(* obligation open.  The opening line a violation names is the earliest    *)
(* one of the runs that do, and a leak off the end is anchored at it.      *)
(***************************************************************************)
DefiniteCrossing ==
  JustWalked =>
    \A j \in DOMAIN Walked.found :
      LET v == Walked.found[j]
          there == RunsThere(PlaceOf(v))
      IN /\ v.definite <=> \A r \in there : r.since # {}
         /\ v.since = Least(UNION {r.since : r \in there})
         /\ v.what = "end" => v.since = {v.line}
=============================================================================
