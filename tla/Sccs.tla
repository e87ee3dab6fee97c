-------------------------------- MODULE Sccs --------------------------------
(***************************************************************************)
(* The strongly connected components of the call graph, callees first      *)
(* (ownlang/ownership.py: `_sccs`): Tarjan's algorithm with an explicit    *)
(* stack of walks, each with the callees it has not looked at yet.         *)
(* Methods are numbers, in the order `sorted` puts their keys.             *)
(***************************************************************************)
EXTENDS Naturals, Sequences, FiniteSets

VARIABLES
  adj,      \* the call graph: method -> the methods it depends on
  roots,    \* the methods still to be started from
  index, low,
  stack,    \* the methods of no component yet, in the order they were met
  walks,    \* `work`: a sequence of [node, left]
  out       \* the components so far

svars == <<adj, roots, index, low, stack, walks, out>>

Met     == DOMAIN index
OnStack == {stack[j] : j \in DOMAIN stack}

Least(S)  == CHOOSE x \in S : \A y \in S : x <= y
Lower(a, b) == IF a <= b THEN a ELSE b

Extended(f, n, v) == [x \in DOMAIN f \cup {n} |-> IF x = n THEN v ELSE f[x]]

SccsInit(graph, order) ==
  /\ adj = graph /\ roots = order
  /\ index = [n \in {} |-> 0] /\ low = [n \in {} |-> 0]
  /\ stack = <<>> /\ walks = <<>> /\ out = <<>>

\* A method is met: it is numbered, put on the stack and walked.
Meet(n, before) ==
  /\ index' = Extended(index, n, Cardinality(Met))
  /\ low'   = Extended(low, n, Cardinality(Met))
  /\ stack' = Append(stack, n)
  /\ walks' = Append(before, [node |-> n, left |-> adj[n]])
  /\ UNCHANGED <<adj, out>>

Root ==
  /\ walks = <<>> /\ roots # <<>>
  /\ roots' = Tail(roots)
  /\ IF Head(roots) \in Met
     THEN UNCHANGED <<adj, index, low, stack, walks, out>>
     ELSE Meet(Head(roots), walks)

Walk  == walks[Len(walks)]
Rest  == SubSeq(walks, 1, Len(walks) - 1)
Callee == Least(Walk.left)
Onward == Append(Rest, [Walk EXCEPT !.left = @ \ {Callee}])

Descend ==
  /\ walks # <<>> /\ Walk.left # {}
  /\ Callee \notin Met
  /\ Meet(Callee, Onward)
  /\ UNCHANGED roots

\* Mutant of Revisit: a callee in a finished component counts too.
RevisitAny ==
  /\ walks # <<>> /\ Walk.left # {}
  /\ Callee \in Met
  /\ low' = [low EXCEPT ![Walk.node] = Lower(@, index[Callee])]
  /\ walks' = Onward
  /\ UNCHANGED <<adj, roots, index, stack, out>>

\* Only a callee that is still on the stack can be in this component.
Revisit ==
  /\ walks # <<>> /\ Walk.left # {}
  /\ Callee \in Met
  /\ low' = IF Callee \in OnStack
            THEN [low EXCEPT ![Walk.node] = Lower(@, index[Callee])] ELSE low
  /\ walks' = Onward
  /\ UNCHANGED <<adj, roots, index, stack, out>>

\* The methods from the root of a component to the top of the stack.
Position(n) == CHOOSE j \in DOMAIN stack : stack[j] = n

\* Mutant of Emit: the root of a component stays on the stack.
EmitLeavesRoot(n) ==
  /\ out' = Append(out, {stack[j] : j \in Position(n) .. Len(stack)})
  /\ stack' = SubSeq(stack, 1, Position(n))

Emit(n) ==
  /\ out' = Append(out, {stack[j] : j \in Position(n) .. Len(stack)})
  /\ stack' = SubSeq(stack, 1, Position(n) - 1)

Finish ==
  /\ walks # <<>> /\ Walk.left = {}
  /\ IF low[Walk.node] = index[Walk.node]
     THEN Emit(Walk.node) ELSE UNCHANGED <<out, stack>>
  /\ walks' = Rest
  /\ low' = IF Rest = <<>> THEN low
            ELSE [low EXCEPT ![Rest[Len(Rest)].node] =
                                Lower(@, low[Walk.node])]
  /\ UNCHANGED <<adj, roots, index>>

SccsStep == Root \/ Descend \/ Revisit \/ Finish

SccsDone == walks = <<>> /\ roots = <<>>

-----------------------------------------------------------------------------
(* The reference. *)

Reach(n) ==
  {m \in DOMAIN adj : \A S \in SUBSET DOMAIN adj :
     (n \in S /\ \A x \in S : adj[x] \subseteq S) => m \in S}

(***************************************************************************)
(* `_sccs`: "every component precedes its callers".  What has been emitted *)
(* is a whole component of the graph, once, and whatever it depends on has *)
(* been emitted before; in the end each method is in one of them.          *)
(***************************************************************************)
BottomUp ==
  /\ \A c \in DOMAIN out : \A n \in out[c] :
       /\ out[c] = {m \in Reach(n) : n \in Reach(m)}
       /\ adj[n] \subseteq UNION {out[d] : d \in 1 .. c}
  /\ \A c, d \in DOMAIN out : c # d => out[c] \cap out[d] = {}
  /\ SccsDone => UNION {out[c] : c \in DOMAIN out} = DOMAIN adj
=============================================================================
