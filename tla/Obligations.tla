----------------------------- MODULE Obligations -----------------------------
(***************************************************************************)
(* The protocol checker (ownlang/obligations.py): each protocol walks the  *)
(* event tree of each method in its scope.  The state of a walk is which   *)
(* of "open" and "closed" the obligation may be, with the earliest line it *)
(* was opened at.  A loop is solved silently on the state of its header,   *)
(* then its body is walked once more, reporting, unless an enclosing loop  *)
(* is itself being solved.                                                 *)
(*                                                                         *)
(* An event is [ev, target, value, line]: an assignment of "true", "false" *)
(* or something opaque to a member, a call of a callee with its argument   *)
(* (or an unknown one), "return", "throw"; or [ev |-> "if", then, orelse], *)
(* [ev |-> "while", body].  `nest` holds the branches and loops the walk   *)
(* is inside of, the recursion of walk and walk_seq.                       *)
(***************************************************************************)
EXTENDS Naturals, Sequences

CONSTANT Checks   \* inputs: [protocols, methods]

\* A matcher is [kind, target, values]; no values: any value, opaque included.
Matches(m, e) ==
  /\ m.kind = e.ev /\ m.target = e.target
  /\ m.values = {} \/ e.value \in m.values

AppliesTo(p, method) == p.scope = {} \/ method.name \in p.scope

TracksTarget(p, t) ==
  \E m \in {p.opens, p.closes} : m.kind = "assign" /\ m.target = t

ASSUME ChecksAssumption ==
  \A c \in Checks : \A p \in {c.protocols[j] : j \in DOMAIN c.protocols} :
    /\ p.barriers # {} \/ p.exits
    /\ p.opens \notin p.barriers
    /\ \A m \in {p.opens, p.closes} : m.kind = "assign" => m.values # {}

VARIABLES
  input,        \* the protocols and methods
  pending,      \* pairs <<protocol, method>> still to walk
  turn,         \* << >> or the pair being walked
  todo,         \* what is left of the current sequence of events
  st,           \* the path state: [may, since], since {} or {line}
  alive,        \* some path is still inside the method
  silent,       \* violations are not recorded
  nest,         \* the branches and loops around `todo`
  crossed,      \* violations of this walk, in order
  violations    \* violations of the walks before it

obvars ==
  <<input, pending, turn, todo, st, alive, silent, nest, crossed, violations>>

Least(S) == {x \in S : \A y \in S : x <= y}

Bottom == [may |-> {}, since |-> {}]

\* Mutant of Join: the opening site of the second branch is lost.
JoinKeepsFirst(a, b) ==
  [may |-> a.may \cup b.may, since |-> IF a.since # {} THEN a.since ELSE b.since]

Join(a, b) == [may |-> a.may \cup b.may, since |-> Least(a.since \cup b.since)]

Innermost == nest[Len(nest)]
Around    == SubSeq(nest, 1, Len(nest) - 1)

Before(s, t) == s[1] < t[1] \/ (s[1] = t[1] /\ s[2] < t[2])

Walking == turn # << >>
Proto   == input.protocols[turn[1]]
Method  == input.methods[turn[2]]
Here    == Head(todo)

Violation(kind, what, line) ==
  [kind |-> kind, what |-> what, line |-> line,
   definite |-> st.may = {"open"}, since |-> st.since]

-----------------------------------------------------------------------------
ObInit(given) ==
  /\ input \in given
  /\ pending = {t \in (DOMAIN input.protocols) \X (DOMAIN input.methods) :
                  AppliesTo(input.protocols[t[1]], input.methods[t[2]])}
  /\ turn = << >> /\ todo = << >> /\ nest = << >>
  /\ st = Bottom /\ alive = FALSE /\ silent = FALSE
  /\ crossed = << >> /\ violations = << >>

\* The next protocol and method of check_protocols, and the start of run.
Begin ==
  /\ ~ Walking
  /\ \E t \in pending :
       /\ \A other \in pending : other = t \/ Before(t, other)
       /\ pending' = pending \ {t}
       /\ turn' = t
       /\ todo' = input.methods[t[2]].events
  /\ st' = [may |-> {"closed"}, since |-> {}]
  /\ alive' = TRUE
  /\ crossed' = << >>
  /\ UNCHANGED <<input, silent, nest, violations>>

Emit(vs) == crossed' = IF silent THEN crossed ELSE crossed \o vs

\* Mutant of After: an opaque write to the flag is taken to close.
AfterTrusts(e) ==
  CASE Matches(Proto.opens, e) ->
         [may |-> {"open"}, since |-> Least(st.since \cup {e.line})]
    [] e.ev = "assign" /\ TracksTarget(Proto, e.target) /\ ~ Matches(Proto.opens, e) ->
         [may |-> {"closed"}, since |-> {}]
    [] OTHER -> st

\* _leaf: the state after an assignment or a call.
After(e) ==
  CASE Matches(Proto.opens, e) ->
         [may |-> {"open"}, since |-> Least(st.since \cup {e.line})]
    [] ~ Matches(Proto.opens, e) /\ Matches(Proto.closes, e) ->
         [may |-> {"closed"}, since |-> {}]
    [] OTHER ->
         IF "open" \in st.may /\ e.ev = "assign" /\ e.value = "opaque"
            /\ TracksTarget(Proto, e.target)
         THEN [st EXCEPT !.may = @ \cup {"closed"}] ELSE st

\* Opening and closing come before the barriers, and so does an allowed event.
Crosses(p, e) ==
  /\ ~ Matches(p.opens, e) /\ ~ Matches(p.closes, e)
  /\ \A a \in p.allow : ~ Matches(a, e)
  /\ \E b \in p.barriers : Matches(b, e)

Leaf ==
  /\ todo # << >> /\ Here.ev \in {"assign", "call"}
  /\ Emit(IF "open" \in st.may /\ Crosses(Proto, Here)
          THEN <<Violation("barrier", Here.ev, Here.line)>> ELSE << >>)
  /\ st' = After(Here)
  /\ todo' = Tail(todo)
  /\ UNCHANGED <<input, pending, turn, alive, silent, nest, violations>>

\* return and throw: nothing after them in the sequence is walked.
Exit ==
  /\ todo # << >> /\ Here.ev \in {"return", "throw"}
  /\ Emit(IF Proto.exits /\ "open" \in st.may
          THEN <<Violation("exit", Here.ev, Here.line)>> ELSE << >>)
  /\ st' = Bottom /\ alive' = FALSE
  /\ todo' = << >>
  /\ UNCHANGED <<input, pending, turn, silent, nest, violations>>

Inside(phase, saved, quiet) ==
  [phase |-> phase, event |-> Here, rest |-> Tail(todo), saved |-> saved,
   reach |-> alive, quiet |-> quiet]

EnterIf ==
  /\ todo # << >> /\ Here.ev = "if"
  /\ nest' = Append(nest, Inside("then", st, silent))
  /\ todo' = Here.then
  /\ UNCHANGED <<input, pending, turn, st, alive, silent, crossed, violations>>

EnterWhile ==
  /\ todo # << >> /\ Here.ev = "while"
  /\ nest' = Append(nest, Inside("solve", st, silent))
  /\ todo' = Here.body
  /\ silent' = TRUE
  /\ UNCHANGED <<input, pending, turn, st, alive, crossed, violations>>

AtEnd(phase) == todo = << >> /\ nest # << >> /\ Innermost.phase = phase

Now == IF alive THEN st ELSE Bottom

\* The walk goes on behind the branch or loop, in state s.
GoOn(s, live) ==
  /\ st' = s /\ alive' = live
  /\ todo' = IF live THEN Innermost.rest ELSE << >>
  /\ nest' = Around

Else ==
  /\ AtEnd("then")
  /\ nest' = Append(Around, [Innermost EXCEPT !.phase = "else",
                                              !.saved = Now, !.reach = alive])
  /\ st' = Innermost.saved /\ alive' = TRUE
  /\ todo' = Innermost.event.orelse
  /\ UNCHANGED <<input, pending, turn, silent, crossed, violations>>

Merge ==
  /\ AtEnd("else")
  /\ GoOn(Join(Innermost.saved, Now), alive \/ Innermost.reach)
  /\ UNCHANGED <<input, pending, turn, silent, crossed, violations>>

Again(frame, quiet) ==
  /\ nest' = Append(Around, frame)
  /\ st' = frame.saved /\ alive' = TRUE
  /\ todo' = frame.event.body
  /\ silent' = quiet

NextHeader == Join(Innermost.saved, Now)

\* Mutant of Iterate: the body is walked again whatever the header state.
IterateAlways ==
  /\ AtEnd("solve")
  /\ Again([Innermost EXCEPT !.saved = NextHeader], TRUE)
  /\ UNCHANGED <<input, pending, turn, crossed, violations>>

\* The header state still grows: the body is walked again.
Iterate ==
  /\ AtEnd("solve") /\ NextHeader # Innermost.saved
  /\ Again([Innermost EXCEPT !.saved = NextHeader], TRUE)
  /\ UNCHANGED <<input, pending, turn, crossed, violations>>

\* Mutant of Settle: the silence of an enclosing loop is broken.
SettleAloud ==
  /\ AtEnd("solve") /\ NextHeader = Innermost.saved
  /\ Again([Innermost EXCEPT !.phase = "emit"], FALSE)
  /\ UNCHANGED <<input, pending, turn, crossed, violations>>

\* The header has settled: one more walk of the body, if this one reports.
Settle ==
  /\ AtEnd("solve") /\ NextHeader = Innermost.saved
  /\ \/ /\ Innermost.quiet
        /\ GoOn(Innermost.saved, TRUE)
        /\ silent' = TRUE
     \/ /\ ~ Innermost.quiet
        /\ Again([Innermost EXCEPT !.phase = "emit"], FALSE)
  /\ UNCHANGED <<input, pending, turn, crossed, violations>>

Rewalked ==
  /\ AtEnd("emit")
  /\ GoOn(Innermost.saved, TRUE)
  /\ UNCHANGED <<input, pending, turn, silent, crossed, violations>>

\* The end of the body: an open obligation is reported where it was opened.
Finish ==
  /\ Walking /\ todo = << >> /\ nest = << >>
  /\ LET leak == alive /\ Proto.exits /\ "open" \in st.may
         all  == IF leak
                 THEN crossed \o <<[Violation("exit", "end", 0)
                                      EXCEPT !.line = CHOOSE x \in st.since : TRUE]>>
                 ELSE crossed
     IN violations' = violations \o <<[turn |-> turn, found |-> all]>>
  /\ turn' = << >>
  /\ UNCHANGED <<input, pending, todo, st, alive, silent, nest, crossed>>

ObNext ==
  \/ Begin \/ Leaf \/ Exit \/ EnterIf \/ EnterWhile \/ Else \/ Merge
  \/ Iterate \/ Settle \/ Rewalked \/ Finish

ObDone == ~ Walking /\ pending = {}
=============================================================================
