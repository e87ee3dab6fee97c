---------------------------- MODULE MCOwnChecker ----------------------------
(* Instances of OwnChecker for TLC. *)
EXTENDS OwnChecker

CONSTANTS n1, n2   \* the identifiers, as model values

NoGraphs == {}   \* the builder makes the graphs

Res         == {"R"}
SomeUnknown == {"R", "Z"}

Symmetry == Permutations({n1, n2})

Param(n, b, m, t) == [name |-> n, borrowed |-> b, mut |-> m, type |-> t]

Sigs == ("swap" :> <<"borrow_mut", "borrow_mut">>)
        @@ ("take" :> <<"borrow_mut", "consume">>)
        @@ ("peek" :> <<"borrow", "borrow">>)
        @@ ("keep" :> <<"consume">>)
        @@ ("put"  :> <<"plain">>)
        @@ ("see"  :> <<"borrow">>)

Header(params, ret, names, callees, forms, maxStmts, maxDepth, maxErrors) ==
  [params |-> params, ret |-> ret, names |-> names, callees |-> callees,
   forms |-> forms, maxStmts |-> maxStmts, maxDepth |-> maxDepth,
   maxErrors |-> maxErrors]

OneParam == <<Param("p", FALSE, FALSE, "R")>>

\* Loops and branches around one name.
LoopHeaders ==
  {Header(<<>>, "none", {n1}, {},
          {"acquire", "release", "use", "while", "if"}, 4, 2, 0)}

\* Two handles on one obligation.
AliasHeaders ==
  {Header(<<>>, "none", {n1, n2}, {},
          {"acquire", "alias", "borrow", "release", "if"}, 5, 2, 0)}

\* Moves and returns on branches.
MoveHeaders ==
  {Header(<<>>, "R", {n1, n2}, {},
          {"acquire", "move", "release", "if", "return"}, 4, 1, 1)}

\* Calls that lend and consume an owned parameter.
CallHeaders ==
  {Header(OneParam, "none", {n1}, {"swap", "take", "peek", "keep", "self"},
          {"call", "borrow", "release", "if"}, 3, 1, 0)}

PathHeaders == AliasHeaders \cup MoveHeaders \cup CallHeaders

\* Every nesting of the blocks.
ScopeHeaders ==
  {Header(<<>>, "R", {n1, n2}, {},
          {"acquire", "borrow", "alias", "if", "while", "return", "use"},
          4, 2, 1)}

\* Buffers that are renamed and leave the function.
BufferHeaders ==
  {Header(<<>>, "R", {n1, n2}, {"keep"},
          {"buffer", "move", "alias", "borrow", "call", "return", "if"},
          4, 1, 0)}

\* Functions with an error of the resolver.
ErrorHeaders ==
  {Header(<<Param("p", b, FALSE, t)>>, r, {n1},
          {"put", "keep", "see", "self", "nobody"},
          {"acquire", "buffer", "move", "copy", "int", "overspan", "call",
           "release", "return"}, 3, 1, 1) :
     b \in BOOLEAN, t \in {"R", "int"}, r \in {"none", "R"}}

LoweringHeaders == ScopeHeaders \cup BufferHeaders \cup ErrorHeaders

\* The smallest functions that show the three disagreements.
ReturnHeaders ==
  {Header(<<>>, "R", {n1}, {},
          {"acquire", "move", "release", "if", "return"}, 4, 1, 0)}
LendHeaders ==
  {Header(OneParam, "none", {n1}, {"swap", "take", "peek"},
          {"call", "borrow"}, 2, 1, 0)}
MoveSiteHeaders ==
  {Header(<<>>, "none", {n1, n2}, {}, {"acquire", "move", "if", "use"},
          5, 1, 0)}
=============================================================================
