------------------------------ MODULE MCBridge ------------------------------
(***************************************************************************)
(* Documents for TLC.  Method 1 is a body of its own; 2 and 3 are what it  *)
(* may call.  Parameters are not written to, objects are passed under one  *)
(* name, and what a method returns it has made.                            *)
(***************************************************************************)
EXTENDS Bridge, TLC

None    == 0
Consume == 11
Borrow  == 12
Bcl     == 13
Unread  == 14

Op(op, name) ==
  [op |-> op, var |-> name, src |-> "", callee |-> None, args |-> << >>,
   then |-> << >>, else |-> << >>, kills |-> {}, emit |-> << >>]

Acquire(a)      == Op("acquire", a)
Use(a)          == Op("use", a)
Release(a)      == Op("release", a)
Alias(a, b)     == [Op("alias", a) EXCEPT !.src = b]
Return(a)       == Op("return", a)
Call(m, args)   == [Op("call", "") EXCEPT !.callee = m, !.args = args]
Get(m, a)       == [Op("call", a) EXCEPT !.callee = m]
If(t, e)        == [Op("if", "") EXCEPT !.then = t, !.else = e]
While(b)        == [Op("while", "") EXCEPT !.then = b]
Stop            == Return("")

Takes(body) == [params |-> <<"p">>, body |-> body]
Gives(body) == [params |-> << >>, body |-> body]

\* What a method may do with its parameter; 3 is another method.
Bodies ==
  { << >>, <<Use("p")>>, <<Release("p")>>,
    <<If(<<Release("p")>>, << >>)>>,
    <<If(<<Release("p")>>, <<Release("p")>>)>>,
    <<If(<<Stop>>, << >>), Release("p")>>,
    <<If(<<Release("p"), Stop>>, << >>), Release("p")>>,
    <<While(<<Release("p"), Stop>>)>>,
    <<While(<<Use("p")>>), If(<<Release("p")>>, <<Release("p"), Stop>>)>>,
    <<Call(Consume, <<"p">>)>>, <<Call(Borrow, <<"p">>), Use("p")>>,
    <<Call(Unread, <<"p">>)>> }

\* What it may do by way of method m.
Forwards(m) ==
  { <<Call(m, <<"p">>)>>,
    <<If(<<Call(m, <<"p">>)>>, << >>)>>,
    <<If(<<Call(m, <<"p">>)>>, <<Call(m, <<"p">>)>>)>>,
    <<If(<<Stop>>, << >>), Call(m, <<"p">>)>>,
    <<If(<<Release("p")>>, <<Call(m, <<"p">>)>>)>>,
    <<Use("p"), Call(m, <<"p">>)>> }

Factories ==
  { <<Acquire("n"), Return("n")>>, <<Get(Bcl, "n"), Return("n")>>,
    <<If(<<Acquire("n"), Return("n")>>, <<Acquire("o"), Return("o")>>)>>,
    <<If(<<Stop>>, << >>), Acquire("n"), Return("n")>> }

Makers == Factories \cup {<<Get(2, "n"), Return("n")>>}

Document(one, two, three) == (1 :> one) @@ (2 :> two) @@ (3 :> three)

\* Chains and rings of two methods that hand a parameter on.
Chains ==
  {Document(Gives(<<Acquire("x"), Call(2, <<"x">>)>>), Takes(b), Takes(c)) :
     b \in Forwards(3), c \in Bodies \cup Forwards(2)}

\* A method with two parameters, which come in another order where they go.
Swapped ==
  {Document(Gives(<<Acquire("x"), Acquire("y"), Call(2, <<"x", "y">>)>> \o r),
            [params |-> <<"p", "q">>, body |-> b],
            [params |-> <<"p", "q">>, body |-> c]) :
     b \in {<<Call(3, <<"q", "p">>)>>, <<Use("q"), Call(3, <<"p", "q">>)>>},
     c \in {<<Release("p")>>, <<Release("q"), Use("p")>>, <<If(<<Release("p")>>, << >>)>>},
     r \in {<< >>, <<Release("x")>>, <<Release("y")>>}}

\* What method 2 does matters to a body that calls it.
Callees(body, bodies) ==
  IF \E n \in Ops(body) : n.callee = 2 THEN bodies ELSE {<<Release("p")>>}

Around(body, bodies, maker) ==
  {Document(Gives(body), Takes(b), Gives(maker)) : b \in Callees(body, bodies)}

Maybe == {<<Release("p")>>, <<If(<<Release("p")>>, << >>)>>}

\* A straight body around an object and the two methods.
Simple ==
  {Acquire("x"), Acquire("y"), Use("x"), Release("x"), Release("y"),
   Alias("y", "x"), Alias("x", "y"), Stop, Return("x"),
   Call(2, <<"x">>), Get(3, "y"), Get(3, "x"), Get(Unread, "x"),
   Call(Consume, <<"x">>)}

Straights ==
  UNION {Around(<<Acquire("x"), i, j, k>>, Maybe \cup {<<Use("p")>>},
                <<Acquire("n"), Return("n")>>) : i, j, k \in Simple}

\* A branch, or a loop, with something before and after it.
Small == {Acquire("x"), Use("x"), Release("x"), Alias("y", "x"), Stop,
          Return("x"), Call(2, <<"x">>), Get(3, "x"), Get(Unread, "x")}

Arms == {<< >>} \cup {<<i>> : i \in Small}
        \cup {<<Acquire("x"), i>> : i \in Small \ {Alias("y", "x")}}
        \cup {<<Call(2, <<"x">>), Stop>>, <<Release("x"), Get(Unread, "x")>>}

Ends == {<< >>, <<Release("x")>>, <<Use("x"), Release("x")>>, <<Return("x")>>,
         <<Call(2, <<"x">>)>>, <<Release("x"), Release("y")>>}

Branches ==
  UNION {Around(h \o m \o e, Maybe, <<Acquire("n"), Return("n")>>) :
     h \in {<< >>, <<Acquire("x")>>},
     m \in {<<If(t, f)>> : t, f \in Arms} \cup {<<While(t)>> : t \in Arms},
     e \in Ends}

\* Two branches one after the other, or one inside the other.
Inner == {<<Acquire("x")>>, <<Release("x")>>, <<Use("x")>>, <<Get(3, "x")>>,
          <<Call(2, <<"x">>)>>, <<Stop>>, <<Release("x"), Stop>>,
          <<Acquire("x"), Release("x")>>}

Shapes(t, u) ==
  {<<If(t, << >>), If(u, << >>)>>, <<If(t, u), While(u)>>,
   <<If(<<If(t, u)>>, u)>>, <<While(<<If(t, u)>>)>>, <<While(<<While(t)>> \o u)>>,
   <<If(<<While(t)>>, u)>>}

\* Without an object before them, the branches make one or leave.
Making == {<<Acquire("x")>>, <<Get(3, "x")>>, <<Acquire("x"), Release("x")>>, <<Stop>>}

Nested ==
  UNION {Around(m \o e, Maybe, <<Get(Bcl, "n"), Return("n")>>) :
     m \in UNION {Shapes(t, u) : t, u \in Making}
          \cup {<<Acquire("x")>> \o s : s \in UNION {Shapes(t, u) : t, u \in Inner}},
     e \in {<< >>, <<Release("x")>>}}

Returns ==
  {Document(Gives(<<Get(3, "x")>> \o e), Gives(b), Gives(c)) :
     b \in Factories, c \in Makers,
     e \in {<< >>, <<Release("x")>>, <<Get(3, "x"), Release("x")>>}}

AllDocuments == Chains \cup Swapped \cup Straights \cup Branches \cup Nested
                \cup Returns

\* A name that is handed on unverified, and what may come after.
Handoff == {<<Call(2, <<"x">>)>>, <<If(<<Call(2, <<"x">>)>>, << >>)>>,
            <<If(<<Call(2, <<"x">>), Stop>>, << >>), Call(2, <<"x">>)>>,
            <<Alias("y", "x"), Call(2, <<"x">>)>>}

UnverifiedOnes ==
  {Document(Gives(<<Acquire("x")>> \o h \o e), Takes(b), Takes(c)) :
     h \in Handoff,
     e \in {<< >>, <<Release("x")>>, <<Release("y")>>, <<Use("x")>>, <<Call(3, <<"x">>)>>},
     b \in {<<If(<<Release("p")>>, << >>)>>, <<If(<<Stop>>, << >>), Call(3, <<"p">>)>>},
     c \in {<<Release("p")>>, <<Use("p")>>}}

NoTables == {}   \* the skeletons come from the documents

Lists ==
  {order \in UNION {[1 .. n -> (SUBSET (1 .. 3)) \ {{}}] : n \in 1 .. 3} :
     /\ UNION {order[j] : j \in DOMAIN order} = 1 .. 3
     /\ \A i, j \in DOMAIN order : i # j => order[i] \cap order[j] = {}}
=============================================================================
