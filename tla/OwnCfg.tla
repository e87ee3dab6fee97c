------------------------------- MODULE OwnCfg -------------------------------
(***************************************************************************)
(* The resolver and lowering of ownlang/cfg.py (`_Builder`): one pass over *)
(* the statements of a function that resolves names to symbols through a   *)
(* stack of scopes, reports the flow-insensitive errors, and lowers to     *)
(* basic blocks.  The model writes the function while it is lowered: each  *)
(* statement action lowers one statement of any shape, and the recursion   *)
(* of lower_seq / lower_if / lower_while / lower_borrow is the stack       *)
(* `frames`.  After a terminating statement (`cur` = NoBlock) lower_seq    *)
(* skips the rest of its list, so only the enclosing lists may go on.      *)
(***************************************************************************)
EXTENDS OwnAnalysis

CONSTANTS
  Resources,   \* names of the declared resources
  Types,       \* types an acquire may name, declared or not
  Signatures,  \* extern callee -> its parameters' effects
  Headers      \* the functions to lower, see below

(***************************************************************************)
(* A header is [params, ret, names, callees, forms, maxStmts, maxDepth,    *)
(* maxErrors]: its parameters [name, borrowed, mut, type], its return type *)
(* or "none", what its body is written with (identifiers, callees declared *)
(* or not, statement forms), and the bounds of the body: statements,       *)
(* nesting of blocks, errors of the resolver.                              *)
(***************************************************************************)
ASSUME HeadersAssumption ==
  \A h \in Headers :
     /\ Len(h.params) \in Nat /\ DOMAIN h.params = 1 .. Len(h.params)
     /\ DOMAIN h.params \subseteq Sym
     /\ \A j \in DOMAIN h.params :
          /\ h.params[j].borrowed \in BOOLEAN /\ h.params[j].mut \in BOOLEAN
          /\ h.params[j].type \in STRING

\* The type names; the provers are told here that the literals are strings.
ASSUME TypesAssumption == Types \cup {"int", "unknown"} \subseteq STRING

ASSUME SignaturesAssumption ==
  \A f \in DOMAIN Signatures : Signatures[f] \in Seq(Effects)

VARIABLES
  header, blocks, cur, frames, scopes, syms,
  berrs,       \* errors of the resolver: [code, line]
  stmts        \* statements written so far; also the line of the last one

bvars == <<header, blocks, cur, frames, scopes, syms, berrs, stmts>>

Owned(t)     == [kind |-> "owned", param |-> FALSE, mut |-> FALSE,
                 buf |-> "none", type |-> t]
Plain(t)     == [Owned(t) EXCEPT !.kind = "plain"]
BorrowOf(m)  == [Owned("unknown") EXCEPT !.kind = "borrow", !.mut = m]
Untyped      == "unknown"

Line == stmts + 1

\* lookup(): the innermost scope that has the name, NoSym if none.
Lookup(n) ==
  LET having == {j \in DOMAIN scopes : n \in DOMAIN scopes[j]}
  IN  IF having = {} THEN NoSym
      ELSE scopes[CHOOSE j \in having : \A x \in having : x <= j][n]

KindOf(h) == syms[h].kind

ErrIf(cond, code) == IF cond THEN {[code |-> code, line |-> Line]} ELSE {}

Undefined(n) == ErrIf(Lookup(n) = NoSym, "OWN030")
NotOwned(n)  ==
  ErrIf(Lookup(n) # NoSym /\ KindOf(Lookup(n)) # "owned", "OWN034")
IsOwned(n)   == Lookup(n) # NoSym /\ KindOf(Lookup(n)) = "owned"

\* declare(): OWN031 when an open scope already has the name; the new
\* symbol is declared in the innermost scope all the same.
NewSym == Len(syms) + 1
Shadows(n) == ErrIf(\E j \in DOMAIN scopes : n \in DOMAIN scopes[j], "OWN031")
DeclareIn(scs, n, info) ==
  /\ NewSym \in Sym
  /\ syms' = Append(syms, info)
  /\ scopes' = [scs EXCEPT ![Len(scs)] =
                  [x \in DOMAIN @ \cup {n} |-> IF x = n THEN NewSym ELSE @[x]]]
Declare(n, info) == DeclareIn(scopes, n, info)

PushScope == Append(scopes, <<>>)
PopScope  == SubSeq(scopes, 1, Len(scopes) - 1)

\* Instructions and blocks.
I(op, sym, src) == [op |-> op, sym |-> sym, src |-> src, mut |-> FALSE,
                    eff |-> "plain", line |-> Line]

Emitted(is)  == [blocks EXCEPT ![cur].instrs = @ \o is]
Emit(is)     == blocks' = Emitted(is)
NewBlock     == [instrs |-> <<>>, succ |-> <<>>]
Linked(bs, b, ss) == [bs EXCEPT ![b].succ = ss]

Errors(es) ==
  /\ berrs' = berrs \cup es
  /\ Cardinality(berrs') <= header.maxErrors

-----------------------------------------------------------------------------
ParamSym(p) ==
  CASE p.borrowed            -> [BorrowOf(p.mut) EXCEPT !.param = TRUE,
                                                       !.type = p.type]
    [] ~ p.borrowed /\ p.type \in Resources -> Owned(p.type)
    [] OTHER                 -> Plain(p.type)

ParamNames == {header.params[j].name : j \in DOMAIN header.params}
Mentionable == header.names \cup ParamNames

\* build(): one scope with the parameters, the entry block.
BuilderInit ==
  /\ header \in Headers
  /\ syms = [j \in DOMAIN header.params |-> ParamSym(header.params[j])]
  /\ scopes = << [n \in ParamNames |->
                   CHOOSE j \in DOMAIN header.params :
                      header.params[j].name = n] >>
  /\ blocks = <<NewBlock>>
  /\ cur = Entry
  /\ frames = <<>>
  /\ berrs = {}
  /\ stmts = 0

\* lower_stmt() on a statement of form `op`, in a list that goes on.
Statement(op) ==
  /\ phase = "idle"
  /\ op \in header.forms
  /\ cur # NoBlock
  /\ stmts < header.maxStmts
  /\ stmts' = stmts + 1
  /\ UNCHANGED header

\* let n = acquire T(..)
LetAcquire(n, t) ==
  /\ Statement("acquire")
  /\ Declare(n, Owned(t))
  /\ Errors(ErrIf(t \notin Resources, "OWN030") \cup Shadows(n))
  /\ Emit(<<I("acquire", NewSym, NoSym)>>)
  /\ UNCHANGED <<cur, frames>>

(***************************************************************************)
(* let n = Buffer.mode(size): `buf` is what the policy resolves to, "none" *)
(* for an unknown namespace or mode, which declares the name and emits     *)
(* nothing.  `size` is a name, "literal" or "missing".                     *)
(***************************************************************************)
SizeErrors(size) ==
  CASE size = "missing" -> ErrIf(TRUE, "OWN018")
    [] size = "literal" -> {}
    [] OTHER -> Undefined(size) \cup
                ErrIf(/\ Lookup(size) # NoSym
                      /\ \/ KindOf(Lookup(size)) # "plain"
                         \/ syms[Lookup(size)].type # "int", "OWN018")

LetBuffer(n, buf, size) ==
  /\ Statement("buffer")
  /\ Declare(n, [Owned(Untyped) EXCEPT !.buf = buf])
  /\ IF buf = "none"
     THEN Errors(ErrIf(TRUE, "OWN030") \cup Shadows(n)) /\ UNCHANGED blocks
     ELSE /\ Errors(SizeErrors(size) \cup Shadows(n))
          /\ Emit(<<I("acquire", NewSym, NoSym)>>)
  /\ UNCHANGED <<cur, frames>>

\* Mutant of Derived: the storage policy does not follow the value.
DerivedForgetsBuffer(op, n, m) ==
  /\ Statement(op)
  /\ Errors(Undefined(m) \cup NotOwned(m) \cup Shadows(n))
  /\ IF IsOwned(m)
     THEN /\ Declare(n, Owned(syms[Lookup(m)].type))
          /\ Emit(<<I(op, NewSym, Lookup(m))>>)
     ELSE Declare(n, Owned(Untyped)) /\ UNCHANGED blocks
  /\ UNCHANGED <<cur, frames>>

\* let n = move m, and the bridge's alias join of m under the name n: a
\* source that is not owned is reported and n is declared with no source.
Derived(op, n, m) ==
  /\ Statement(op)
  /\ Errors(Undefined(m) \cup NotOwned(m) \cup Shadows(n))
  /\ IF IsOwned(m)
     THEN /\ Declare(n, [Owned(syms[Lookup(m)].type) EXCEPT
                           !.buf = syms[Lookup(m)].buf])
          /\ Emit(<<I(op, NewSym, Lookup(m))>>)
     ELSE Declare(n, Owned(Untyped)) /\ UNCHANGED blocks
  /\ UNCHANGED <<cur, frames>>

LetMove(n, m)  == Derived("move", n, m)
AliasOf(n, m)  == Derived("alias", n, m)

\* let n = m: a plain copy; copying an owned resource is OWN032.
LetCopy(n, m) ==
  /\ Statement("copy")
  /\ Errors(Undefined(m) \cup ErrIf(IsOwned(m), "OWN032") \cup Shadows(n))
  /\ LET src == Lookup(m) IN
       Declare(n, Plain(IF src # NoSym /\ KindOf(src) = "plain"
                        THEN syms[src].type ELSE Untyped))
  /\ UNCHANGED <<blocks, cur, frames>>

\* let n = 1
LetInt(n) ==
  /\ Statement("int")
  /\ Declare(n, Plain("int"))
  /\ Errors(Shadows(n))
  /\ UNCHANGED <<blocks, cur, frames>>

\* release m; and the full-length view of m: both need an owned resource.
OnOwned(op, m) ==
  /\ Statement(op)
  /\ Errors(Undefined(m) \cup NotOwned(m))
  /\ IF IsOwned(m) THEN Emit(<<I(op, Lookup(m), NoSym)>>)
                   ELSE UNCHANGED blocks
  /\ UNCHANGED <<cur, frames, scopes, syms>>

ReleaseStmt(m)  == OnOwned("release", m)
OverspanStmt(m) == OnOwned("overspan", m)

UseStmt(m) ==
  /\ Statement("use")
  /\ Errors(Undefined(m))
  /\ IF Lookup(m) # NoSym THEN Emit(<<I("use", Lookup(m), NoSym)>>)
                          ELSE UNCHANGED blocks
  /\ UNCHANGED <<cur, frames, scopes, syms>>

\* collect_signatures(): the externs as declared, the module's functions (the
\* one being lowered, "self", among them) by the types of their parameters.
EffectOf(p) ==
  CASE p.borrowed /\ p.mut                   -> "borrow_mut"
    [] p.borrowed /\ ~ p.mut                 -> "borrow"
    [] ~ p.borrowed /\ p.type \in Resources  -> "consume"
    [] OTHER                                 -> "plain"

OwnSignature ==
  [j \in DOMAIN header.params |-> EffectOf(header.params[j])]

Declared == DOMAIN Signatures \cup {"self"}

\* f(args): an undeclared callee or a wrong arity emits no instruction; an
\* undefined argument and a literal carry no effect.
Signature(f) == IF f = "self" THEN OwnSignature ELSE Signatures[f]

ArgInstr(f, args, j) ==
  IF j \in DOMAIN args /\ Lookup(args[j]) # NoSym
  THEN <<[I("arg", Lookup(args[j]), NoSym) EXCEPT !.eff = Signature(f)[j]]>>
  ELSE <<>>

\* Bound: a call has two arguments at most (see BuilderStep).
ArgInstrs(f, args) ==
  <<I("invoke", NoSym, NoSym)>> \o ArgInstr(f, args, 1) \o ArgInstr(f, args, 2)

CallStmt(f, args) ==
  /\ Statement("call")
  /\ LET names == {args[j] : j \in DOMAIN args} \ {"literal"}
         unresolved == UNION {Undefined(n) : n \in names}
     IN  CASE f \notin Declared ->
                Errors(ErrIf(TRUE, "OWN040") \cup unresolved)
                /\ UNCHANGED blocks
           [] f \in Declared /\ Len(args) # Len(Signature(f)) ->
                Errors(ErrIf(TRUE, "OWN041") \cup unresolved)
                /\ UNCHANGED blocks
           [] OTHER ->
                Errors(unresolved) /\ Emit(ArgInstrs(f, args))
  /\ UNCHANGED <<cur, frames, scopes, syms>>

\* borrow m as n { .. }: the body of a refused borrow is not lowered.
OpenBorrow(m, n, mut) ==
  /\ Statement("borrow")
  /\ Len(frames) < header.maxDepth
  /\ IF IsOwned(m)
     THEN /\ DeclareIn(PushScope, n, BorrowOf(mut))
          /\ Errors(Shadows(n))
          /\ Emit(<<[I("borrow_start", NewSym, Lookup(m)) EXCEPT !.mut = mut]>>)
          /\ frames' = Append(frames, [kind |-> "borrow", end |->
                 [I("borrow_end", NewSym, Lookup(m)) EXCEPT !.mut = mut]])
     ELSE /\ Errors(Undefined(m) \cup NotOwned(m))
          /\ UNCHANGED <<blocks, frames, scopes, syms>>
  /\ UNCHANGED cur

\* if (..) { .. } else { .. }
OpenIf ==
  /\ Statement("if")
  /\ Len(frames) < header.maxDepth
  /\ LET n == Len(blocks) IN
       /\ blocks' = Linked(blocks \o <<NewBlock, NewBlock>>, cur,
                           <<n + 1, n + 2>>)
       /\ frames' = Append(frames, [kind |-> "then", els |-> n + 2])
       /\ cur' = n + 1
  /\ scopes' = PushScope
  /\ UNCHANGED <<syms, berrs>>

\* while (..) { .. }: header, body and after are created before the body.
OpenWhile ==
  /\ Statement("while")
  /\ Len(frames) < header.maxDepth
  /\ LET n == Len(blocks) IN
       /\ blocks' = Linked(Linked(blocks \o <<NewBlock, NewBlock, NewBlock>>,
                                  cur, <<n + 1>>), n + 1, <<n + 2, n + 3>>)
       /\ frames' = Append(frames, [kind |-> "while", header |-> n + 1,
                                    after |-> n + 3])
       /\ cur' = n + 2
  /\ scopes' = PushScope
  /\ UNCHANGED <<syms, berrs>>

(***************************************************************************)
(* lower_return: the returned symbol is dropped (NoSym) when nothing owned *)
(* leaves the function; `m` = "nothing" is a bare `return;`.               *)
(***************************************************************************)
ReturnsWrongKind(h) ==
  /\ header.ret \in Resources
  /\ syms[h].buf = "none"
  /\ KindOf(h) # "owned" \/ syms[h].type # header.ret

ReturnErrors(m) ==
  LET h == Lookup(m) IN
  CASE m = "nothing" -> ErrIf(header.ret # "none", "OWN035")
    [] m # "nothing" /\ h = NoSym -> Undefined(m)
    [] header.ret = "none" -> ErrIf(TRUE, "OWN035")
    [] KindOf(h) = "borrow" -> ErrIf(TRUE, "OWN004")
    [] OTHER -> ErrIf(ReturnsWrongKind(h), "OWN035")

Returned(m) ==
  IF m = "nothing" \/ header.ret = "none" \/ ~ IsOwned(m)
  THEN NoSym ELSE Lookup(m)

ReturnStmt(m) ==
  /\ Statement("return")
  /\ Errors(ReturnErrors(m))
  /\ blocks' = Linked(Emitted(<<I("return", Returned(m), NoSym)>>), cur, <<>>)
  /\ cur' = NoBlock
  /\ UNCHANGED <<frames, scopes, syms>>

-----------------------------------------------------------------------------
(* The ends of the nested lists. *)

Top == frames[Len(frames)]
Pop1(fs) == SubSeq(fs, 1, Len(fs) - 1)

Closing(kind) ==
  /\ phase = "idle"
  /\ frames # <<>>
  /\ Top.kind = kind
  /\ UNCHANGED <<header, syms, berrs, stmts>>

\* Mutant of CloseBorrow: the loan is not ended.
CloseBorrowKeepsLoan ==
  /\ Closing("borrow")
  /\ scopes' = PopScope
  /\ frames' = Pop1(frames)
  /\ UNCHANGED <<blocks, cur>>

CloseBorrow ==
  /\ Closing("borrow")
  /\ scopes' = PopScope
  /\ frames' = Pop1(frames)
  /\ IF cur # NoBlock THEN Emit(<<Top.end>>) ELSE UNCHANGED blocks
  /\ UNCHANGED cur

\* Mutant of StartElse: the names of the then-branch stay in scope.
StartElseKeepsScope ==
  /\ Closing("then")
  /\ frames' = Append(Pop1(frames), [kind |-> "else", then |-> cur])
  /\ cur' = Top.els
  /\ UNCHANGED <<blocks, scopes>>

StartElse ==
  /\ Closing("then")
  /\ scopes' = Append(PopScope, <<>>)
  /\ frames' = Append(Pop1(frames), [kind |-> "else", then |-> cur])
  /\ cur' = Top.els
  /\ UNCHANGED blocks

\* Mutant of CloseIf: the then-branch is not joined to the merge block.
CloseIfForgetsThen ==
  /\ Closing("else")
  /\ scopes' = PopScope
  /\ frames' = Pop1(frames)
  /\ LET merge == Len(blocks) + 1
     IN  IF cur = NoBlock
         THEN UNCHANGED <<blocks, cur>>
         ELSE /\ cur' = merge
              /\ blocks' = Append(Linked(blocks, cur, <<merge>>), NewBlock)

\* The merge block exists only when a branch reaches it.
CloseIf ==
  /\ Closing("else")
  /\ scopes' = PopScope
  /\ frames' = Pop1(frames)
  /\ LET exits == {Top.then, cur} \ {NoBlock}
         merge == Len(blocks) + 1
     IN  IF exits = {}
         THEN UNCHANGED <<blocks, cur>>
         ELSE /\ cur' = merge
              /\ blocks' = [b \in 1 .. merge |->
                   CASE b = merge   -> NewBlock
                     [] b \in exits -> [blocks[b] EXCEPT !.succ = <<merge>>]
                     [] OTHER       -> blocks[b]]

CloseWhile ==
  /\ Closing("while")
  /\ scopes' = PopScope
  /\ frames' = Pop1(frames)
  /\ blocks' = IF cur # NoBlock THEN Linked(blocks, cur, <<Top.header>>)
               ELSE blocks
  /\ cur' = Top.after

\* The graph build() returns, and what it reports at the end.
BuiltCfg ==
  [instrs |-> [b \in DOMAIN blocks |-> blocks[b].instrs],
   succ   |-> [b \in DOMAIN blocks |-> blocks[b].succ],
   syms   |-> syms,
   params |-> DOMAIN header.params]

Complete == phase = "idle" /\ frames = <<>>

EndErrors ==
  IF header.ret # "none" /\ cur # NoBlock
  THEN {[code |-> "OWN033", line |-> 0]} ELSE {}

BuilderStep ==
  \/ \E n \in header.names :
       \/ \E t \in Types : LetAcquire(n, t)
       \/ \E buf \in Backing, size \in header.names \cup {"literal", "missing"} :
            LetBuffer(n, buf, size)
       \/ \E m \in Mentionable :
            LetMove(n, m) \/ AliasOf(n, m) \/ LetCopy(n, m)
       \/ LetInt(n)
  \/ \E m \in Mentionable :
       \/ ReleaseStmt(m) \/ UseStmt(m) \/ OverspanStmt(m)
       \/ \E n \in header.names, mut \in BOOLEAN : OpenBorrow(m, n, mut)
  \/ \E f \in header.callees, m \in {1, 2} :
       \E args \in [1 .. m -> Mentionable \cup {"literal"}] :
          CallStmt(f, args)
  \/ OpenIf \/ OpenWhile
  \/ \E m \in Mentionable \cup {"nothing"} : ReturnStmt(m)
  \/ CloseBorrow \/ StartElse \/ CloseIf \/ CloseWhile
=============================================================================
