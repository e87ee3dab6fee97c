-------------------------- MODULE OwnCheckerProofs --------------------------
(***************************************************************************)
(* The CFG builder makes graphs the analyzer can work on, so that what is  *)
(* proved of the analyzer on well-formed graphs is true of the checker on  *)
(* every function.                                                         *)
(***************************************************************************)
EXTENDS OwnBuilderInvariants, OwnAnalysisProofs, SequenceTheorems,
        FiniteSetTheorems

-----------------------------------------------------------------------------
(* Sequences. *)

(* All but the last element of a stack.                                    *)
LEMMA FrontFacts ==
  ASSUME NEW S, NEW q \in Seq(S), q # <<>>
  PROVE  /\ SubSeq(q, 1, Len(q) - 1) \in Seq(S)
         /\ Len(SubSeq(q, 1, Len(q) - 1)) = Len(q) - 1
         /\ DOMAIN SubSeq(q, 1, Len(q) - 1) = 1 .. Len(q) - 1
         /\ \A j \in 1 .. Len(q) - 1 : SubSeq(q, 1, Len(q) - 1)[j] = q[j]
         /\ Len(q) \in Nat \ {0} /\ DOMAIN q = 1 .. Len(q) /\ q[Len(q)] \in S
<1>1. Len(q) \in Nat \ {0} /\ DOMAIN q = 1 .. Len(q)
  OBVIOUS
<1> QED BY <1>1, SubSeqProperties

LEMMA AppendFacts ==
  ASSUME NEW S, NEW q \in Seq(S), NEW x \in S
  PROVE  /\ Append(q, x) \in Seq(S)
         /\ Len(Append(q, x)) = Len(q) + 1 /\ Len(q) \in Nat
         /\ DOMAIN q = 1 .. Len(q)
         /\ DOMAIN Append(q, x) = 1 .. Len(q) + 1
         /\ \A j \in DOMAIN q : Append(q, x)[j] = q[j]
         /\ Append(q, x)[Len(q) + 1] = x
BY AppendProperties

LEMMA ConcatFacts ==
  ASSUME NEW S, NEW q \in Seq(S), NEW r \in Seq(S)
  PROVE  /\ q \o r \in Seq(S)
         /\ Len(q) \in Nat /\ Len(r) \in Nat
         /\ DOMAIN q = 1 .. Len(q) /\ DOMAIN r = 1 .. Len(r)
         /\ Len(q \o r) = Len(q) + Len(r)
         /\ DOMAIN (q \o r) = 1 .. Len(q) + Len(r)
         /\ \A j \in DOMAIN q : (q \o r)[j] = q[j]
         /\ \A j \in DOMAIN r : (q \o r)[Len(q) + j] = r[j]
         /\ \A j \in DOMAIN (q \o r) : j \in DOMAIN q \/ j - Len(q) \in DOMAIN r
<1>1. /\ q \o r \in Seq(S) /\ Len(q) \in Nat /\ Len(r) \in Nat
      /\ DOMAIN q = 1 .. Len(q) /\ DOMAIN r = 1 .. Len(r)
      /\ Len(q \o r) = Len(q) + Len(r)
      /\ DOMAIN (q \o r) = 1 .. Len(q) + Len(r)
  BY ConcatProperties
<1>2. \A j \in DOMAIN q : (q \o r)[j] = q[j]
  BY <1>1, ConcatProperties
<1>3. \A j \in DOMAIN r : (q \o r)[Len(q) + j] = r[j]
  BY <1>1, ConcatProperties
<1> QED BY <1>1, <1>2, <1>3

(* A non-empty set of positions has a last one.                            *)
LEMMA GreatestNat ==
  ASSUME NEW n \in Nat, NEW T \in SUBSET (1 .. n), T # {}
  PROVE  \E m \in T : \A x \in T : x <= m
<1> DEFINE U == {n - x : x \in T}
<1>1. \A x \in T : x \in Nat /\ n - x \in Nat
  OBVIOUS
<1>0. U \in SUBSET Nat /\ U # {}
  BY <1>1, Zenon
<1>2. PICK u \in U : \A v \in U : u <= v
  BY <1>0, LeastNat
<1>3. PICK m \in T : u = n - m
  OBVIOUS
<1>4. \A x \in T : n - m <= n - x
  BY <1>2, <1>3
<1> QED BY <1>4

-----------------------------------------------------------------------------
(* Names. *)

(* lookup() finds a declared symbol or nothing.                            *)
LEMMA LookupType ==
  ASSUME SymbolsOk, NEW n
  PROVE  Lookup(n) # NoSym => Lookup(n) \in DOMAIN syms /\ Lookup(n) \in Sym
<1> DEFINE having == {j \in DOMAIN scopes : n \in DOMAIN scopes[j]}
<1>1. CASE having = {}
  BY <1>1 DEF Lookup
<1>2. CASE having # {}
  <2>1. Len(scopes) \in Nat /\ having \in SUBSET (1 .. Len(scopes))
    BY DEF SymbolsOk
  <2>2. \E m \in having : \A x \in having : x <= m
    BY <1>2, <2>1, GreatestNat
  <2> DEFINE m == CHOOSE j \in having : \A x \in having : x <= j
  <2>3. m \in having
    BY <2>2
  <2>4. Lookup(n) = scopes[m][n]
    BY <1>2 DEF Lookup
  <2> HIDE DEF m
  <2> QED BY <2>3, <2>4 DEF SymbolsOk
<1> QED BY <1>1, <1>2

(* declare() in the innermost of the scopes `scs`.                         *)
LEMMA DeclareFacts ==
  ASSUME SymbolsOk, NEW scs \in Seq(Scope), scs # <<>>,
         \A j \in DOMAIN scs : \A x \in DOMAIN scs[j] : scs[j][x] \in DOMAIN syms,
         NEW n \in Mentionable, NEW info \in SymInfo, DeclareIn(scs, n, info)
  PROVE  /\ syms' \in Seq(SymInfo)
         /\ NewSym \in DOMAIN syms' /\ NewSym \in Sym
         /\ DOMAIN syms' = DOMAIN syms \cup {NewSym} /\ DOMAIN syms' \subseteq Sym
         /\ scopes' \in Seq(Scope) /\ Len(scopes') = Len(scs)
         /\ \A j \in DOMAIN scopes' : \A x \in DOMAIN scopes'[j] :
               scopes'[j][x] \in DOMAIN syms'
<1>1. /\ syms' = Append(syms, info) /\ NewSym \in Sym /\ NewSym = Len(syms) + 1
      /\ scopes' = [scs EXCEPT ![Len(scs)] = [x \in DOMAIN @ \cup {n} |->
                                             IF x = n THEN NewSym ELSE @[x]]]
  BY DEF DeclareIn, NewSym
<1>2. /\ syms' \in Seq(SymInfo) /\ DOMAIN syms = 1 .. Len(syms)
      /\ DOMAIN syms' = 1 .. Len(syms) + 1 /\ Len(syms) \in Nat
  BY <1>1, AppendFacts DEF SymbolsOk
<1>3. DOMAIN syms' = DOMAIN syms \cup {NewSym}
  BY <1>1, <1>2
<1>4. Len(scs) \in Nat \ {0} /\ DOMAIN scs = 1 .. Len(scs) /\ Len(scs) \in DOMAIN scs
  OBVIOUS
<1> DEFINE old == scs[Len(scs)]
<1> DEFINE new == [x \in DOMAIN old \cup {n} |-> IF x = n THEN NewSym ELSE old[x]]
<1>5. PICK D \in SUBSET Mentionable : old \in [D -> Sym]
  BY <1>4 DEF Scope
<1>6. new \in [D \cup {n} -> Sym]
  BY <1>1, <1>5
<1>7. \A x \in DOMAIN new : new[x] \in DOMAIN syms'
  BY <1>3, <1>4
<1>8. new \in Scope
  BY <1>6 DEF Scope
<1> HIDE DEF new
<1>9. scopes' = [scs EXCEPT ![Len(scs)] = new]
  BY <1>1 DEF new
<1>10. scopes' \in Seq(Scope) /\ Len(scopes') = Len(scs)
  BY <1>8, <1>9
<1>11. \A j \in DOMAIN scopes' : \A x \in DOMAIN scopes'[j] :
          scopes'[j][x] \in DOMAIN syms'
  BY <1>3, <1>4, <1>7, <1>9
<1> QED BY <1>1, <1>2, <1>3, <1>10, <1>11 DEF SymbolsOk

-----------------------------------------------------------------------------
(* Graphs. *)

(* What an instruction refers to goes on existing.                         *)
LEMMA InstrOkGrows ==
  ASSUME NEW c, NEW c2, DOMAIN c.syms \subseteq DOMAIN c2.syms, NEW i,
         InstrOk(c, i)
  PROVE  InstrOk(c2, i)
BY DEF InstrOk

(* A graph stays one when its open blocks change and blocks are added.     *)
LEMMA GraphGrows ==
  ASSUME NEW bs, NEW c, NEW open, GraphOk(bs, c, open),
         NEW bs2 \in Seq(BlockType), NEW c2, NEW open2,
         DOMAIN bs \subseteq DOMAIN bs2,
         \A b \in DOMAIN bs2 : \A j \in DOMAIN bs2[b].instrs :
            InstrOk(c2, bs2[b].instrs[j]),
         \A b \in DOMAIN bs2 : Targets(bs2, b) \subseteq DOMAIN bs2 \ {Entry},
         \A b \in DOMAIN bs \ open : bs2[b] = bs[b],
         \A b \in DOMAIN bs2 \ DOMAIN bs :
            \E p \in DOMAIN bs2 : p < b /\ b \in Targets(bs2, p),
         open2 \subseteq DOMAIN bs2,
         \A b \in open2 : bs2[b].succ = <<>>,
         \A b \in DOMAIN bs2 \ open2 :
            \/ b \in DOMAIN bs \ open
            \/ bs2[b].succ # <<>>
            \/ Returns(bs2[b])
  PROVE  GraphOk(bs2, c2, open2)
<1>1. bs2 # <<>>
  BY DEF GraphOk
<1>2. ASSUME NEW b \in DOMAIN bs2 \ {Entry}
      PROVE  \E p \in DOMAIN bs2 : p < b /\ b \in Targets(bs2, p)
  <2>1. CASE b \in DOMAIN bs
    <3>1. PICK p \in DOMAIN bs : p < b /\ b \in Targets(bs, p)
      BY <1>2, <2>1 DEF GraphOk
    <3>2. bs[p].succ # <<>>
      BY <3>1 DEF Targets
    <3>3. bs2[p] = bs[p]
      BY <3>1, <3>2 DEF GraphOk
    <3> QED BY <3>1, <3>3 DEF Targets
  <2> QED BY <1>2, <2>1
<1>3. \A b \in DOMAIN bs2 \ open2 : bs2[b].succ = <<>> => Returns(bs2[b])
  BY DEF GraphOk
<1> QED BY <1>1, <1>2, <1>3 DEF GraphOk

(* Instructions are added at the end of an open block.                     *)
LEMMA EmitKeeps ==
  ASSUME NEW bs, NEW c, NEW open, GraphOk(bs, c, open), NEW b \in open,
         NEW is \in Seq(Instr), NEW c2, DOMAIN c.syms \subseteq DOMAIN c2.syms,
         \A j \in DOMAIN is : InstrOk(c2, is[j])
  PROVE  GraphOk([bs EXCEPT ![b].instrs = @ \o is], c2, open)
<1> DEFINE bs2 == [bs EXCEPT ![b].instrs = @ \o is]
<1>0. b \in DOMAIN bs /\ bs \in Seq(BlockType)
  BY DEF GraphOk
<1>1. bs[b] \in BlockType /\ bs[b].instrs \in Seq(Instr)
  <2>1. bs[b] \in BlockType
    BY <1>0
  <2> QED BY <2>1 DEF BlockType
<1>2. bs[b].instrs \o is \in Seq(Instr)
  BY <1>1
<1>3. DOMAIN bs2 = DOMAIN bs /\ \A d \in DOMAIN bs \ {b} : bs2[d] = bs[d]
  BY <1>0
<1>4. bs2[b] \in BlockType /\ bs2[b].succ = bs[b].succ
      /\ bs2[b].instrs = bs[b].instrs \o is
  <2>1. bs2[b] = [bs[b] EXCEPT !.instrs = @ \o is]
    BY <1>0
  <2> HIDE DEF bs2
  <2> QED BY <1>1, <1>2, <2>1 DEF BlockType
<1>5. bs2 \in Seq(BlockType)
  BY <1>0, <1>1, <1>4
<1> HIDE DEF bs2
<1>6. ASSUME NEW d \in DOMAIN bs2, NEW j \in DOMAIN bs2[d].instrs
      PROVE  InstrOk(c2, bs2[d].instrs[j])
  <2>1. CASE d = b
    <3> DEFINE q == bs[b].instrs
    <3>0. q \in Seq(Instr) /\ bs2[d].instrs = q \o is /\ j \in DOMAIN (q \o is)
      BY <1>1, <1>4, <1>6, <2>1
    <3>1. CASE j \in DOMAIN q
      <4>1. (q \o is)[j] = q[j]
        BY <3>0, <3>1, ConcatFacts
      <4>2. InstrOk(c, q[j])
        BY <1>0, <3>1 DEF GraphOk
      <4>3. InstrOk(c2, q[j])
        <5> HIDE DEF q
        <5> QED BY <4>2, InstrOkGrows
      <4> QED BY <3>0, <4>1, <4>3
    <3>2. CASE j \notin DOMAIN q
      <4> DEFINE l == j - Len(q)
      <4>1. /\ l \in DOMAIN is /\ Len(q) \in Nat /\ DOMAIN is = 1 .. Len(is)
            /\ Len(is) \in Nat /\ j \in 1 .. Len(q) + Len(is)
        <5> HIDE DEF q
        <5> QED BY <3>0, <3>2, ConcatFacts
      <4>2. j = Len(q) + l
        BY <4>1
      <4>3. (q \o is)[Len(q) + l] = is[l]
        <5> HIDE DEF q, l
        <5> QED BY <3>0, <4>1, ConcatFacts
      <4> QED BY <3>0, <4>1, <4>2, <4>3
    <3> QED BY <3>1, <3>2
  <2>2. CASE d # b
    <3>1. PICK i : i = bs2[d].instrs[j]
      OBVIOUS
    <3>2. InstrOk(c, i)
      BY <1>3, <1>6, <2>2, <3>1 DEF GraphOk
    <3>3. InstrOk(c2, i)
      BY <3>2, InstrOkGrows
    <3> QED BY <3>1, <3>3
  <2> QED BY <2>1, <2>2
<1>7. \A d \in DOMAIN bs2 : bs2[d].succ = bs[d].succ
  BY <1>3, <1>4
<1>8. \A d \in DOMAIN bs2 : Targets(bs2, d) = Targets(bs, d)
  BY <1>7 DEF Targets
<1>9. \A d \in DOMAIN bs2 : Targets(bs2, d) \subseteq DOMAIN bs2 \ {Entry}
  BY <1>3, <1>8 DEF GraphOk
<1>10. /\ \A d \in DOMAIN bs \ open : bs2[d] = bs[d]
       /\ open \subseteq DOMAIN bs2
       /\ \A d \in open : bs2[d].succ = <<>>
  BY <1>3, <1>7 DEF GraphOk
<1> QED
  <2>1. GraphOk(bs2, c2, open)
    BY <1>3, <1>5, <1>6, <1>9, <1>10, GraphGrows
  <2> QED BY <2>1 DEF bs2

-----------------------------------------------------------------------------
(* Statements that lower to instructions of the current block. *)

(* An instruction that names existing symbols.                             *)
LEMMA InstrMade ==
  ASSUME stmts \in Nat, NEW ss, DOMAIN ss \subseteq Sym, NEW op \in InstrOps,
         NEW s \in DOMAIN ss \cup {NoSym}, NEW r \in DOMAIN ss \cup {NoSym},
         op \notin {"invoke", "return"} => s \in DOMAIN ss,
         op \in {"move", "alias", "borrow_start", "borrow_end"} => r \in DOMAIN ss
  PROVE  /\ I(op, s, r) \in Instr /\ InstrOk([syms |-> ss], I(op, s, r))
         /\ \A mut \in BOOLEAN :
              LET i == [I(op, s, r) EXCEPT !.mut = mut] IN
              i \in Instr /\ InstrOk([syms |-> ss], i)
         /\ \A eff \in Effects :
              LET i == [I(op, s, r) EXCEPT !.eff = eff] IN
              i \in Instr /\ InstrOk([syms |-> ss], i)
<1> DEFINE i == I(op, s, r)
<1>1. i \in Instr
  BY DEF I, Line, Instr, Effects
<1>2. i.op = op /\ i.sym = s /\ i.src = r
  BY DEF I
<1> HIDE DEF i
<1>3. InstrOk([syms |-> ss], i)
  BY <1>1, <1>2 DEF InstrOk
<1>4. ASSUME NEW x \in Instr, x.op = op, x.sym = s, x.src = r
      PROVE  InstrOk([syms |-> ss], x)
  BY <1>4 DEF InstrOk
<1>5. \A mut \in BOOLEAN :
        /\ [i EXCEPT !.mut = mut] \in Instr
        /\ [i EXCEPT !.mut = mut].op = op /\ [i EXCEPT !.mut = mut].sym = s
        /\ [i EXCEPT !.mut = mut].src = r
  BY <1>1, <1>2 DEF Instr
<1>6. \A eff \in Effects :
        /\ [i EXCEPT !.eff = eff] \in Instr
        /\ [i EXCEPT !.eff = eff].op = op /\ [i EXCEPT !.eff = eff].sym = s
        /\ [i EXCEPT !.eff = eff].src = r
  BY <1>1, <1>2 DEF Instr
<1>7. \A mut \in BOOLEAN : InstrOk([syms |-> ss], [i EXCEPT !.mut = mut])
  BY <1>4, <1>5
<1>8. \A eff \in Effects : InstrOk([syms |-> ss], [i EXCEPT !.eff = eff])
  BY <1>4, <1>6
<1> QED BY <1>1, <1>3, <1>5, <1>6, <1>7, <1>8 DEF i

Emits ==
  \/ blocks' = blocks
  \/ \E is \in Seq(Instr) : /\ \A j \in DOMAIN is : InstrOk([syms |-> syms'], is[j])
                            /\ blocks' = Emitted(is)

LEMMA EmitsOne ==
  ASSUME NEW i, InstrOk([syms |-> syms'], i), Emit(<<i>>)
  PROVE  Emits
<1>1. i \in Instr
  BY DEF InstrOk
<1>2. <<i>> \in Seq(Instr) /\ \A j \in DOMAIN <<i>> : <<i>>[j] = i
  BY <1>1
<1> QED BY <1>2 DEF Emits, Emit

(* The symbols go on being sound and none is lost.                         *)
Grows == SymbolsOk' /\ DOMAIN syms \subseteq DOMAIN syms'

Straight == Grows /\ Emits /\ UNCHANGED <<header, cur, frames>>

LEMMA DeclareGrows ==
  ASSUME SymbolsOk, NEW op, Statement(op), NEW n \in header.names,
         NEW info \in SymInfo, Declare(n, info), UNCHANGED frames
  PROVE  Grows /\ NewSym \in DOMAIN syms' /\ NewSym \in Sym
<1>1. header' = header /\ stmts' = stmts + 1 /\ n \in Mentionable
  BY DEF Statement, Mentionable
<1>2. /\ scopes \in Seq(Scope) /\ scopes # <<>>
      /\ \A j \in DOMAIN scopes : \A x \in DOMAIN scopes[j] :
            scopes[j][x] \in DOMAIN syms
  <2>1. Len(frames) \in Nat \/ scopes # <<>>
    BY DEF SymbolsOk
  <2> QED BY <2>1 DEF SymbolsOk
<1>3. /\ syms' \in Seq(SymInfo)
      /\ NewSym \in DOMAIN syms' /\ NewSym \in Sym
      /\ DOMAIN syms' = DOMAIN syms \cup {NewSym} /\ DOMAIN syms' \subseteq Sym
      /\ scopes' \in Seq(Scope) /\ Len(scopes') = Len(scopes)
      /\ \A j \in DOMAIN scopes' : \A x \in DOMAIN scopes'[j] :
            scopes'[j][x] \in DOMAIN syms'
  BY <1>1, <1>2, DeclareFacts DEF Declare
<1>4. Scope' = Scope
  BY <1>1 DEF Scope, Mentionable, ParamNames
<1>5. stmts' \in Nat /\ header' \in Headers /\ DOMAIN header'.params \subseteq DOMAIN syms'
  BY <1>1, <1>3 DEF SymbolsOk
<1> QED BY <1>3, <1>4, <1>5 DEF SymbolsOk, Grows

(* A statement that declares nothing.                                      *)
LEMMA SameSymbols ==
  ASSUME SymbolsOk, NEW op, Statement(op), UNCHANGED <<scopes, syms, frames>>
  PROVE  Grows
<1>1. header' = header /\ stmts' = stmts + 1
  BY DEF Statement
<1>2. Scope' = Scope
  BY <1>1 DEF Scope, Mentionable, ParamNames
<1> QED BY <1>1, <1>2 DEF SymbolsOk, Grows

(* What the lowering knows of a new symbol is of its type.                 *)
LEMMA SymbolMade ==
  ASSUME NEW t \in STRING
  PROVE  /\ Owned(t) \in SymInfo /\ Plain(t) \in SymInfo
         /\ \A b \in Backing : [Owned(t) EXCEPT !.buf = b] \in SymInfo
         /\ \A m \in BOOLEAN : BorrowOf(m) \in SymInfo
         /\ Untyped \in STRING /\ "int" \in STRING
<1>1. \A u \in STRING : Owned(u) \in SymInfo
  BY DEF Owned, SymInfo, Kinds, Backing
<1>2. Plain(t) \in SymInfo
  BY <1>1 DEF Plain, SymInfo, Kinds
<1>3. \A b \in Backing : [Owned(t) EXCEPT !.buf = b] \in SymInfo
  BY <1>1 DEF SymInfo
<1>4. ASSUME NEW m \in BOOLEAN PROVE BorrowOf(m) \in SymInfo
  <2>1. Owned("unknown") \in SymInfo
    BY <1>1, TypesAssumption
  <2> QED BY <2>1 DEF BorrowOf, SymInfo, Kinds
<1>5. Untyped \in STRING /\ "int" \in STRING
  BY TypesAssumption DEF Untyped
<1>6. Owned(t) \in SymInfo
  BY <1>1
<1> QED BY <1>2, <1>3, <1>4, <1>5, <1>6, Zenon

(* The symbol a name stands for, when it stands for an owned one.          *)
LEMMA OwnedFacts ==
  ASSUME SymbolsOk, NEW m, IsOwned(m)
  PROVE  /\ Lookup(m) \in DOMAIN syms /\ Lookup(m) \in Sym
         /\ syms[Lookup(m)].type \in STRING /\ syms[Lookup(m)].buf \in Backing
<1>1. Lookup(m) \in DOMAIN syms /\ Lookup(m) \in Sym
  BY LookupType DEF IsOwned
<1>2. syms[Lookup(m)] \in SymInfo
  BY <1>1 DEF SymbolsOk
<1> QED BY <1>1, <1>2 DEF SymInfo

Fine(is) ==
  is \in Seq(Instr) /\ \A j \in DOMAIN is : InstrOk([syms |-> syms], is[j])

LEMMA FineConcat ==
  ASSUME NEW q, NEW r, Fine(q), Fine(r) PROVE Fine(q \o r)
<1>1. q \in Seq(Instr) /\ r \in Seq(Instr)
  BY DEF Fine
<1>2. q \o r \in Seq(Instr)
  BY <1>1
<1>3. ASSUME NEW j \in DOMAIN (q \o r)
      PROVE  InstrOk([syms |-> syms], (q \o r)[j])
  <2>1. CASE j \in DOMAIN q
    BY <1>1, <2>1, ConcatFacts DEF Fine
  <2>2. CASE j \notin DOMAIN q
    <3>1. j - Len(q) \in DOMAIN r /\ j \in Nat /\ Len(q) \in Nat
      BY <1>1, <1>3, <2>2, ConcatFacts
    <3>2. j = Len(q) + (j - Len(q))
      BY <3>1
    <3>3. (q \o r)[Len(q) + (j - Len(q))] = r[j - Len(q)]
      BY <1>1, <3>1, ConcatFacts
    <3> QED BY <3>1, <3>2, <3>3 DEF Fine
  <2> QED BY <2>1, <2>2
<1> QED BY <1>2, <1>3 DEF Fine

(* A callee's signature gives each parameter an effect.                    *)
LEMMA SignatureType ==
  ASSUME SymbolsOk, NEW f \in Declared
  PROVE  Signature(f) \in Seq(Effects)
<1>1. CASE f = "self"
  <2>1. \A j \in DOMAIN header.params : EffectOf(header.params[j]) \in Effects
    BY HeadersAssumption DEF SymbolsOk, EffectOf, Effects
  <2>2. Len(header.params) \in Nat /\ DOMAIN header.params = 1 .. Len(header.params)
    BY HeadersAssumption DEF SymbolsOk
  <2>3. OwnSignature \in Seq(Effects)
    BY <2>1, <2>2 DEF OwnSignature
  <2> QED BY <1>1, <2>3 DEF Signature
<1> QED BY <1>1, SignaturesAssumption DEF Declared, Signature

LEMMA CallFine ==
  ASSUME SymbolsOk, NEW f \in Declared, NEW args, NEW m \in Nat,
         DOMAIN args = 1 .. m, Len(Signature(f)) = m
  PROVE  Fine(ArgInstrs(f, args))
<1> stmts \in Nat /\ DOMAIN syms \subseteq Sym
  BY DEF SymbolsOk
<1>1. Fine(<<I("invoke", NoSym, NoSym)>>)
  <2> DEFINE i == I("invoke", NoSym, NoSym)
  <2>1. i \in Instr /\ InstrOk([syms |-> syms], i)
    BY InstrMade DEF InstrOps
  <2> HIDE DEF i
  <2>2. <<i>> \in Seq(Instr) /\ \A j \in DOMAIN <<i>> : <<i>>[j] = i
    BY <2>1
  <2>3. Fine(<<i>>)
    BY <2>1, <2>2 DEF Fine
  <2> QED BY <2>3 DEF i
<1>2. ASSUME NEW j PROVE Fine(ArgInstr(f, args, j))
  <2>1. CASE j \in DOMAIN args /\ Lookup(args[j]) # NoSym
    <3> DEFINE i == [I("arg", Lookup(args[j]), NoSym) EXCEPT !.eff = Signature(f)[j]]
    <3>1. Signature(f)[j] \in Effects
      BY <2>1, SignatureType
    <3>2. Lookup(args[j]) \in DOMAIN syms
      BY <2>1, LookupType
    <3>3. i \in Instr /\ InstrOk([syms |-> syms], i)
      BY <3>1, <3>2, InstrMade DEF InstrOps
    <3>4. ArgInstr(f, args, j) = <<i>>
      BY <2>1 DEF ArgInstr
    <3> HIDE DEF i
    <3>5. <<i>> \in Seq(Instr) /\ \A l \in DOMAIN <<i>> : <<i>>[l] = i
      BY <3>3
    <3> QED BY <3>3, <3>4, <3>5 DEF Fine
  <2>2. CASE ~ (j \in DOMAIN args /\ Lookup(args[j]) # NoSym)
    BY <2>2 DEF ArgInstr, Fine
  <2> QED BY <2>1, <2>2
<1>3. Fine(<<I("invoke", NoSym, NoSym)>> \o ArgInstr(f, args, 1))
  BY <1>1, <1>2, FineConcat
<1> QED BY <1>2, <1>3, FineConcat DEF ArgInstrs

(* The statements that neither open, close nor leave a block.              *)
StraightStmt ==
  \/ \E n \in header.names :
       \/ \E t \in Types : LetAcquire(n, t)
       \/ \E buf \in Backing,
             size \in header.names \cup {"literal", "missing"} :
            LetBuffer(n, buf, size)
       \/ \E m \in Mentionable :
            LetMove(n, m) \/ AliasOf(n, m) \/ LetCopy(n, m)
       \/ LetInt(n)
  \/ \E m \in Mentionable : ReleaseStmt(m) \/ UseStmt(m) \/ OverspanStmt(m)
  \/ \E f \in header.callees, m \in {1, 2} :
       \E args \in [1 .. m -> Mentionable \cup {"literal"}] :
          CallStmt(f, args)

LEMMA StraightStep ==
  ASSUME SymbolsOk, StraightStmt PROVE Straight
<1> stmts \in Nat /\ DOMAIN syms \subseteq Sym /\ syms \in Seq(SymInfo)
  BY DEF SymbolsOk
<1> Untyped \in STRING
  BY TypesAssumption DEF Untyped
<1>0. \A op : Statement(op) => header' = header
  BY DEF Statement
<1>1. ASSUME NEW n \in header.names, NEW t \in Types, LetAcquire(n, t)
      PROVE  Straight
  <2>1. Grows /\ NewSym \in DOMAIN syms'
    BY <1>1, SymbolMade, TypesAssumption, DeclareGrows DEF LetAcquire
  <2>2. DOMAIN syms' \subseteq Sym /\ "acquire" \in InstrOps
    BY <2>1 DEF Grows, SymbolsOk, InstrOps
  <2>3. InstrOk([syms |-> syms'], I("acquire", NewSym, NoSym))
    BY <2>1, <2>2, InstrMade
  <2>4. Emits
    BY <1>1, <2>3, EmitsOne DEF LetAcquire
  <2> QED BY <1>0, <1>1, <2>1, <2>4 DEF LetAcquire, Straight
<1>2. ASSUME NEW n \in header.names, NEW buf \in Backing, NEW size,
             LetBuffer(n, buf, size)
      PROVE  Straight
  <2>0. [Owned(Untyped) EXCEPT !.buf = buf] \in SymInfo
    BY SymbolMade
  <2>1. Grows /\ NewSym \in DOMAIN syms'
    BY <1>2, <2>0, DeclareGrows DEF LetBuffer
  <2>2. DOMAIN syms' \subseteq Sym /\ "acquire" \in InstrOps
    BY <2>1 DEF Grows, SymbolsOk, InstrOps
  <2>3. InstrOk([syms |-> syms'], I("acquire", NewSym, NoSym))
    BY <2>1, <2>2, InstrMade
  <2>4. CASE buf = "none"
    BY <1>0, <1>2, <2>1, <2>4 DEF LetBuffer, Emits, Straight
  <2>5. CASE buf # "none"
    <3>1. Emits
      BY <1>2, <2>3, <2>5, EmitsOne DEF LetBuffer
    <3> QED BY <1>0, <1>2, <2>1, <3>1 DEF LetBuffer, Straight
  <2> QED BY <2>4, <2>5
<1>3. ASSUME NEW n \in header.names, NEW op \in {"move", "alias"}, NEW m,
             Derived(op, n, m)
      PROVE  Straight
  <2>1. CASE IsOwned(m)
    <3>1. /\ Lookup(m) \in DOMAIN syms /\ syms[Lookup(m)].type \in STRING
          /\ syms[Lookup(m)].buf \in Backing
      BY <2>1, OwnedFacts
    <3>2. Grows /\ NewSym \in DOMAIN syms'
      BY <1>3, <2>1, <3>1, SymbolMade, DeclareGrows DEF Derived
    <3>3. DOMAIN syms' \subseteq Sym /\ op \in InstrOps /\ Lookup(m) \in DOMAIN syms'
      BY <3>1, <3>2 DEF Grows, SymbolsOk, InstrOps
    <3>4. InstrOk([syms |-> syms'], I(op, NewSym, Lookup(m)))
      BY <3>2, <3>3, InstrMade
    <3>5. Emits
      BY <1>3, <2>1, <3>4, EmitsOne DEF Derived
    <3> QED BY <1>0, <1>3, <3>2, <3>5 DEF Derived, Straight
  <2>2. CASE ~ IsOwned(m)
    <3>0. Owned(Untyped) \in SymInfo
      BY SymbolMade
    <3>1. Grows
      BY <1>3, <2>2, <3>0, DeclareGrows DEF Derived
    <3> QED BY <1>0, <1>3, <2>2, <3>1 DEF Derived, Straight, Emits
  <2> QED BY <2>1, <2>2
<1>4. ASSUME NEW n \in header.names, NEW m, LetCopy(n, m) PROVE Straight
  <2> DEFINE type == IF Lookup(m) # NoSym /\ KindOf(Lookup(m)) = "plain"
                     THEN syms[Lookup(m)].type ELSE Untyped
  <2>1. type \in STRING
    <3>0. Untyped \in STRING
      BY TypesAssumption DEF Untyped
    <3>1. CASE Lookup(m) # NoSym
      <4>1. syms[Lookup(m)] \in SymInfo
        BY <3>1, LookupType
      <4>2. syms[Lookup(m)].type \in STRING
        BY <4>1 DEF SymInfo
      <4> QED BY <3>0, <4>2
    <3> QED BY <3>0, <3>1
  <2>2. Statement("copy") /\ Declare(n, Plain(type)) /\ UNCHANGED <<blocks, cur, frames>>
    BY <1>4 DEF LetCopy
  <2> HIDE DEF type
  <2>3. Grows
    BY <2>1, <2>2, SymbolMade, DeclareGrows
  <2> QED BY <1>0, <2>2, <2>3 DEF Straight, Emits
<1>5. ASSUME NEW n \in header.names, LetInt(n) PROVE Straight
  <2>0. Plain("int") \in SymInfo
    BY TypesAssumption, SymbolMade
  <2>1. Grows
    BY <1>5, <2>0, DeclareGrows DEF LetInt
  <2> QED BY <1>0, <1>5, <2>1 DEF LetInt, Straight, Emits
<1>6. ASSUME NEW op \in {"release", "overspan"}, NEW m, OnOwned(op, m)
      PROVE  Straight
  <2>1. Grows
    BY <1>6, SameSymbols DEF OnOwned
  <2>2. CASE IsOwned(m)
    <3>1. Lookup(m) \in DOMAIN syms /\ syms' = syms /\ op \in InstrOps
      BY <1>6, <2>2, OwnedFacts DEF OnOwned, InstrOps
    <3>2. InstrOk([syms |-> syms'], I(op, Lookup(m), NoSym))
      BY <3>1, InstrMade
    <3>3. Emits
      BY <1>6, <2>2, <3>2, EmitsOne DEF OnOwned
    <3> QED BY <1>0, <1>6, <2>1, <3>3 DEF OnOwned, Straight
  <2> QED BY <1>0, <1>6, <2>1, <2>2 DEF OnOwned, Straight, Emits
<1>7. ASSUME NEW m, UseStmt(m) PROVE Straight
  <2>1. Grows
    BY <1>7, SameSymbols DEF UseStmt
  <2>2. CASE Lookup(m) # NoSym
    <3>1. Lookup(m) \in DOMAIN syms /\ syms' = syms /\ "use" \in InstrOps
      BY <1>7, <2>2, LookupType DEF UseStmt, InstrOps
    <3>2. InstrOk([syms |-> syms'], I("use", Lookup(m), NoSym))
      BY <3>1, InstrMade
    <3>3. Emits
      BY <1>7, <2>2, <3>2, EmitsOne DEF UseStmt
    <3> QED BY <1>0, <1>7, <2>1, <3>3 DEF UseStmt, Straight
  <2> QED BY <1>0, <1>7, <2>1, <2>2 DEF UseStmt, Straight, Emits
<1>8. ASSUME NEW f, NEW m \in {1, 2}, NEW args, DOMAIN args = 1 .. m,
             Len(args) = m, CallStmt(f, args)
      PROVE  Straight
  <2>1. Grows /\ UNCHANGED <<cur, frames, scopes, syms, header>>
    BY <1>0, <1>8, SameSymbols DEF CallStmt
  <2>2. CASE f \in Declared /\ Len(args) = Len(Signature(f))
    <3>1. Fine(ArgInstrs(f, args))
      BY <1>8, <2>2, CallFine
    <3>2. blocks' = Emitted(ArgInstrs(f, args))
      BY <1>8, <2>2 DEF CallStmt, Emit
    <3> QED BY <2>1, <3>1, <3>2 DEF Straight, Emits, Fine
  <2>3. CASE ~ (f \in Declared /\ Len(args) = Len(Signature(f)))
    <3>1. UNCHANGED blocks
      BY <1>8, <2>3 DEF CallStmt
    <3> QED BY <2>1, <3>1 DEF Straight, Emits
  <2> QED BY <2>2, <2>3
<1>9. ASSUME NEW m \in {1, 2}, NEW args \in [1 .. m -> Mentionable \cup {"literal"}]
      PROVE  DOMAIN args = 1 .. m /\ Len(args) = m
  BY <1>9
<1> QED
  BY <1>1, <1>2, <1>3, <1>4, <1>5, <1>6, <1>7, <1>8, <1>9
     DEF StraightStmt, LetMove, AliasOf, ReleaseStmt, OverspanStmt

-----------------------------------------------------------------------------
(* The stack of open statements. *)

LEMMA FramePushed ==
  ASSUME NEW fs \in Seq(Frame), NEW c, Apart(fs, c), NEW f \in Frame, NEW c2,
         c2 \notin FrameBlocks(fs), OpenBlock(f) \notin FrameBlocks(fs),
         OpenBlock(f) # NoBlock => OpenBlock(f) # c2
  PROVE  /\ Append(fs, f) \in Seq(Frame) /\ Len(Append(fs, f)) = Len(fs) + 1
         /\ FrameBlocks(Append(fs, f)) =
              FrameBlocks(fs) \cup ({OpenBlock(f)} \ {NoBlock})
         /\ Apart(Append(fs, f), c2)
<1> DEFINE gs == Append(fs, f)
<1>1. /\ gs \in Seq(Frame) /\ Len(fs) \in Nat /\ DOMAIN fs = 1 .. Len(fs)
      /\ Len(gs) = Len(fs) + 1
      /\ DOMAIN gs = 1 .. Len(fs) + 1 /\ \A j \in DOMAIN fs : gs[j] = fs[j]
      /\ gs[Len(fs) + 1] = f
  BY AppendFacts
<1> HIDE DEF gs
<1>2. DOMAIN gs = DOMAIN fs \cup {Len(fs) + 1} /\ Len(fs) + 1 \notin DOMAIN fs
  BY <1>1
<1>3. FrameBlocks(gs) = FrameBlocks(fs) \cup ({OpenBlock(f)} \ {NoBlock})
  BY <1>1, <1>2 DEF FrameBlocks
<1>4. Apart(gs, c2)
  BY <1>1, <1>2, <1>3 DEF Apart, FrameBlocks
<1> QED BY <1>1, <1>3, <1>4 DEF gs

LEMMA FramePopped ==
  ASSUME NEW fs \in Seq(Frame), NEW c, Apart(fs, c), fs # <<>>
  PROVE  /\ Pop1(fs) \in Seq(Frame) /\ Len(Pop1(fs)) = Len(fs) - 1
         /\ DOMAIN Pop1(fs) \subseteq DOMAIN fs
         /\ Len(fs) \in DOMAIN fs /\ fs[Len(fs)] \in Frame
         /\ \A j \in DOMAIN Pop1(fs) : Pop1(fs)[j] = fs[j]
         /\ FrameBlocks(fs) =
              FrameBlocks(Pop1(fs)) \cup ({OpenBlock(fs[Len(fs)])} \ {NoBlock})
         /\ OpenBlock(fs[Len(fs)]) \notin FrameBlocks(Pop1(fs))
         /\ \A c2 : c2 \notin FrameBlocks(Pop1(fs)) => Apart(Pop1(fs), c2)
<1> DEFINE gs == Pop1(fs)
<1>1. /\ gs \in Seq(Frame) /\ Len(gs) = Len(fs) - 1
      /\ DOMAIN gs = 1 .. Len(fs) - 1
      /\ \A j \in 1 .. Len(fs) - 1 : gs[j] = fs[j]
      /\ Len(fs) \in Nat \ {0} /\ DOMAIN fs = 1 .. Len(fs)
      /\ fs[Len(fs)] \in Frame
  BY FrontFacts DEF Pop1
<1> HIDE DEF gs
<1>2. DOMAIN fs = DOMAIN gs \cup {Len(fs)} /\ Len(fs) \notin DOMAIN gs
  BY <1>1
<1>3. FrameBlocks(fs) = FrameBlocks(gs) \cup ({OpenBlock(fs[Len(fs)])} \ {NoBlock})
  BY <1>1, <1>2 DEF FrameBlocks
<1>4. OpenBlock(fs[Len(fs)]) \notin FrameBlocks(gs)
  BY <1>1, <1>2 DEF FrameBlocks, Apart
<1>5. \A c2 : c2 \notin FrameBlocks(gs) => Apart(gs, c2)
  BY <1>1, <1>2 DEF Apart
<1> QED BY <1>1, <1>2, <1>3, <1>4, <1>5 DEF gs

(* An open statement goes on being sound.                                  *)
LEMMA FrameOkGrows ==
  ASSUME DOMAIN syms \subseteq DOMAIN syms', DOMAIN blocks \subseteq DOMAIN blocks',
         NEW f, FrameOk(f)
  PROVE  FrameOk(f)'
<1>1. f.kind = "borrow" => InstrOk([syms |-> syms'], f.end)
  <2> DEFINE c == [syms |-> syms]  c2 == [syms |-> syms']
  <2>1. DOMAIN c.syms \subseteq DOMAIN c2.syms
    OBVIOUS
  <2>2. f.kind = "borrow" => InstrOk(c, f.end)
    BY DEF FrameOk
  <2> HIDE DEF c, c2
  <2>3. f.kind = "borrow" => InstrOk(c2, f.end)
    BY <2>1, <2>2, InstrOkGrows
  <2> QED BY <2>3 DEF c2
<1> QED BY <1>1 DEF FrameOk

-----------------------------------------------------------------------------
(* Blocks. *)

LEMMA NewBlockFacts ==
  /\ NewBlock \in BlockType /\ NewBlock.instrs = <<>> /\ NewBlock.succ = <<>>
BY DEF NewBlock, BlockType

LEMMA LinkedFacts ==
  ASSUME NEW bs \in Seq(BlockType), NEW b \in DOMAIN bs, NEW ss \in Seq(Nat)
  PROVE  /\ Linked(bs, b, ss) \in Seq(BlockType)
         /\ DOMAIN Linked(bs, b, ss) = DOMAIN bs
         /\ Linked(bs, b, ss)[b].instrs = bs[b].instrs
         /\ Linked(bs, b, ss)[b].succ = ss
         /\ \A d \in DOMAIN bs \ {b} : Linked(bs, b, ss)[d] = bs[d]
<1> DEFINE bs2 == Linked(bs, b, ss)
<1>1. bs[b] \in BlockType
  OBVIOUS
<1>2. /\ DOMAIN bs2 = DOMAIN bs
      /\ \A d \in DOMAIN bs \ {b} : bs2[d] = bs[d]
  BY DEF Linked
<1>3. bs2[b] = [bs[b] EXCEPT !.succ = ss]
  BY DEF Linked
<1>4. bs2[b] \in BlockType /\ bs2[b].instrs = bs[b].instrs /\ bs2[b].succ = ss
  <2> HIDE DEF bs2
  <2> QED BY <1>1, <1>3 DEF BlockType
<1>5. bs2 \in Seq(BlockType)
  BY <1>4 DEF Linked
<1> QED BY <1>2, <1>4, <1>5

LEMMA AddedFacts ==
  ASSUME NEW bs \in Seq(BlockType), NEW r \in Seq(BlockType),
         \A j \in DOMAIN r : r[j] = NewBlock
  PROVE  /\ bs \o r \in Seq(BlockType)
         /\ Len(bs) \in Nat /\ DOMAIN bs = 1 .. Len(bs)
         /\ DOMAIN (bs \o r) = 1 .. Len(bs) + Len(r)
         /\ \A d \in DOMAIN bs : (bs \o r)[d] = bs[d]
         /\ \A d \in DOMAIN (bs \o r) \ DOMAIN bs : (bs \o r)[d] = NewBlock
<1>1. /\ bs \o r \in Seq(BlockType)
      /\ Len(bs) \in Nat /\ Len(r) \in Nat
      /\ DOMAIN bs = 1 .. Len(bs) /\ DOMAIN r = 1 .. Len(r)
      /\ DOMAIN (bs \o r) = 1 .. Len(bs) + Len(r)
      /\ \A d \in DOMAIN bs : (bs \o r)[d] = bs[d]
      /\ \A j \in DOMAIN r : (bs \o r)[Len(bs) + j] = r[j]
  BY ConcatFacts
<1>2. ASSUME NEW d \in DOMAIN (bs \o r) \ DOMAIN bs
      PROVE  (bs \o r)[d] = NewBlock
  <2>1. d - Len(bs) \in DOMAIN r /\ d = Len(bs) + (d - Len(bs))
    BY <1>1
  <2>2. (bs \o r)[Len(bs) + (d - Len(bs))] = NewBlock
    BY <1>1, <2>1
  <2> QED BY <2>1, <2>2
<1> QED BY <1>1, <1>2

(* Only jumps are added, and empty blocks.                                 *)
LEMMA GraphLinks ==
  ASSUME NEW bs, NEW c, NEW open, GraphOk(bs, c, open),
         NEW bs2 \in Seq(BlockType), NEW open2,
         DOMAIN bs \subseteq DOMAIN bs2,
         \A b \in DOMAIN bs : bs2[b].instrs = bs[b].instrs,
         \A b \in DOMAIN bs2 \ DOMAIN bs : bs2[b].instrs = <<>>,
         \A b \in DOMAIN bs2 : Targets(bs2, b) \subseteq DOMAIN bs2 \ {Entry},
         \A b \in DOMAIN bs \ open : bs2[b] = bs[b],
         \A b \in DOMAIN bs2 \ DOMAIN bs :
            \E p \in DOMAIN bs2 : p < b /\ b \in Targets(bs2, p),
         open2 \subseteq DOMAIN bs2,
         \A b \in open2 : bs2[b].succ = <<>>,
         \A b \in DOMAIN bs2 \ open2 :
            b \in DOMAIN bs \ open \/ bs2[b].succ # <<>>
  PROVE  GraphOk(bs2, c, open2)
<1>1. \A b \in DOMAIN bs2 : \A j \in DOMAIN bs2[b].instrs :
         InstrOk(c, bs2[b].instrs[j])
  <2> SUFFICES ASSUME NEW b \in DOMAIN bs2, NEW j \in DOMAIN bs2[b].instrs
               PROVE  InstrOk(c, bs2[b].instrs[j])
    OBVIOUS
  <2>1. b \in DOMAIN bs
    OBVIOUS
  <2> QED BY <2>1 DEF GraphOk
<1> QED BY <1>1, GraphGrows

-----------------------------------------------------------------------------
(* Scopes. *)

ScopesOk(scs) ==
  /\ scs \in Seq(Scope)
  /\ \A j \in DOMAIN scs : \A n \in DOMAIN scs[j] : scs[j][n] \in DOMAIN syms

LEMMA ScopePushed ==
  ASSUME NEW scs, ScopesOk(scs)
  PROVE  ScopesOk(Append(scs, <<>>)) /\ Len(Append(scs, <<>>)) = Len(scs) + 1
<1> DEFINE e == <<>>
<1>1. e \in Scope /\ DOMAIN e = {}
  <2>1. e \in [{} -> Sym] /\ {} \in SUBSET Mentionable
    OBVIOUS
  <2> QED BY <2>1 DEF Scope
<1> HIDE DEF e
<1>2. scs \in Seq(Scope)
  BY DEF ScopesOk
<1> DEFINE new == Append(scs, e)
<1>3. /\ new \in Seq(Scope) /\ Len(new) = Len(scs) + 1
      /\ DOMAIN scs = 1 .. Len(scs) /\ DOMAIN new = 1 .. Len(scs) + 1
      /\ \A j \in DOMAIN scs : new[j] = scs[j]
      /\ new[Len(scs) + 1] = e /\ Len(scs) \in Nat
  BY <1>1, <1>2, AppendFacts
<1> HIDE DEF new
<1>4. \A j \in DOMAIN new : j \in DOMAIN scs \/ j = Len(scs) + 1
  BY <1>3
<1>5. ScopesOk(new)
  BY <1>1, <1>3, <1>4 DEF ScopesOk
<1> QED BY <1>3, <1>5 DEF new, e

LEMMA ScopePopped ==
  ASSUME ScopesOk(scopes), scopes # <<>>
  PROVE  ScopesOk(PopScope) /\ Len(PopScope) = Len(scopes) - 1
<1>1. scopes \in Seq(Scope)
  BY DEF ScopesOk
<1>2. /\ PopScope \in Seq(Scope) /\ Len(PopScope) = Len(scopes) - 1
      /\ DOMAIN PopScope = 1 .. Len(scopes) - 1
      /\ \A j \in 1 .. Len(scopes) - 1 : PopScope[j] = scopes[j]
      /\ Len(scopes) \in Nat \ {0} /\ DOMAIN scopes = 1 .. Len(scopes)
  BY <1>1, FrontFacts DEF PopScope
<1>3. \A j \in DOMAIN PopScope : j \in DOMAIN scopes /\ PopScope[j] = scopes[j]
  BY <1>2
<1> QED BY <1>2, <1>3 DEF ScopesOk

(* Whatever is done to the scopes and the stack, no symbol changes.        *)
LEMMA ScopesKept ==
  ASSUME SymbolsOk, NEW scs, ScopesOk(scs), scopes' = scs,
         UNCHANGED <<header, syms>>, stmts' \in Nat, Len(scs) = Len(frames') + 1
  PROVE  SymbolsOk'
<1>1. Scope' = Scope
  BY DEF Scope, Mentionable, ParamNames
<1> QED BY <1>1 DEF SymbolsOk, ScopesOk

-----------------------------------------------------------------------------
(* Each step of the builder keeps its invariant. *)

LEMMA BuiltFacts ==
  ASSUME Built
  PROVE  /\ SymbolsOk /\ ScopesOk(scopes) /\ scopes # <<>>
         /\ Len(scopes) = Len(frames) + 1 /\ stmts \in Nat
         /\ frames \in Seq(Frame) /\ Len(frames) \in Nat /\ Apart(frames, cur)
         /\ GraphOk(blocks, [syms |-> syms], Open)
         /\ blocks \in Seq(BlockType) /\ Len(blocks) \in Nat
         /\ DOMAIN blocks = 1 .. Len(blocks) /\ Entry \in DOMAIN blocks
         /\ NoBlock \notin DOMAIN blocks
         /\ FrameBlocks(frames) \subseteq DOMAIN blocks
         /\ cur # NoBlock => cur \in DOMAIN blocks /\ cur \in Open
         /\ cur \notin FrameBlocks(frames)
<1>1. frames \in Seq(Frame) /\ Apart(frames, cur)
  BY DEF Built, FramesOk
<1>2. Len(frames) \in Nat /\ cur \notin FrameBlocks(frames)
  BY <1>1 DEF Apart
<1>3. SymbolsOk /\ ScopesOk(scopes) /\ Len(scopes) = Len(frames) + 1 /\ stmts \in Nat
  BY DEF Built, SymbolsOk, ScopesOk
<1>4. scopes # <<>>
  BY <1>2, <1>3
<1>5. /\ GraphOk(blocks, [syms |-> syms], Open)
      /\ blocks \in Seq(BlockType) /\ blocks # <<>> /\ Open \subseteq DOMAIN blocks
  BY DEF Built, GraphOk
<1>6. Len(blocks) \in Nat /\ DOMAIN blocks = 1 .. Len(blocks)
      /\ Entry \in DOMAIN blocks /\ NoBlock \notin DOMAIN blocks
  BY <1>5 DEF Entry, NoBlock
<1>7. /\ FrameBlocks(frames) \subseteq DOMAIN blocks
      /\ cur # NoBlock => cur \in DOMAIN blocks /\ cur \in Open
  BY <1>5 DEF Open
<1> QED BY <1>1, <1>2, <1>3, <1>4, <1>5, <1>6, <1>7

(* Emitting into the current block.                                        *)
LEMMA EmitsKeeps ==
  ASSUME Built, Emits, cur # NoBlock, DOMAIN syms \subseteq DOMAIN syms'
  PROVE  GraphOk(blocks', [syms |-> syms'], Open) /\ DOMAIN blocks' = DOMAIN blocks
<1> DEFINE c == [syms |-> syms]  c2 == [syms |-> syms']
<1>1. GraphOk(blocks, c, Open) /\ cur \in Open
  BY BuiltFacts
<1>2. DOMAIN c.syms \subseteq DOMAIN c2.syms
  OBVIOUS
<1> HIDE DEF c, c2
<1>3. CASE blocks' = blocks
  <2> DEFINE is == <<>>
  <2>1. \A b \in DOMAIN blocks : \A j \in DOMAIN blocks[b].instrs :
           InstrOk(c2, blocks[b].instrs[j])
    <3>1. ASSUME NEW b \in DOMAIN blocks, NEW j \in DOMAIN blocks[b].instrs
          PROVE  InstrOk(c2, blocks[b].instrs[j])
      <4>1. InstrOk(c, blocks[b].instrs[j])
        BY <1>1, <3>1 DEF GraphOk
      <4> QED BY <1>2, <4>1, InstrOkGrows
    <3> QED BY <3>1
  <2>2. GraphOk(blocks, c2, Open)
    BY <1>1, <2>1 DEF GraphOk
  <2> QED BY <1>3, <2>2 DEF c2
<1>4. ASSUME NEW is \in Seq(Instr), \A j \in DOMAIN is : InstrOk(c2, is[j]),
             blocks' = Emitted(is)
      PROVE  GraphOk(blocks', c2, Open) /\ DOMAIN blocks' = DOMAIN blocks
  <2>1. blocks' = [blocks EXCEPT ![cur].instrs = @ \o is]
    BY <1>4 DEF Emitted
  <2>2. GraphOk([blocks EXCEPT ![cur].instrs = @ \o is], c2, Open)
    BY <1>1, <1>2, <1>4, EmitKeeps
  <2> QED BY <2>1, <2>2
<1> QED BY <1>3, <1>4 DEF Emits, c2

(* The open statements go on being sound.                                  *)
LEMMA FramesStay ==
  ASSUME Built, Grows, DOMAIN blocks \subseteq DOMAIN blocks', NEW j \in DOMAIN frames
  PROVE  \E f : f = frames[j] /\ FrameOk(f)'
<1>1. PICK f : f = frames[j] /\ FrameOk(f)
  BY DEF Built, FramesOk
<1>2. FrameOk(f)'
  BY <1>1, FrameOkGrows DEF Grows
<1> QED BY <1>1, <1>2

LEMMA FramesMade ==
  ASSUME frames' \in Seq(Frame), Apart(frames', cur'),
         \A j \in DOMAIN frames' : \E f : f = frames'[j] /\ FrameOk(f)'
  PROVE  FramesOk'
<1>1. ASSUME NEW j \in DOMAIN frames' PROVE FrameOk(frames[j])'
  <2>1. PICK f : f = frames'[j] /\ FrameOk(f)'
    BY <1>1
  <2> QED BY <2>1 DEF FrameOk
<1> QED BY <1>1 DEF FramesOk

LEMMA PushedOk ==
  ASSUME Built, Grows, DOMAIN blocks \subseteq DOMAIN blocks', NEW frame \in Frame,
         frames' = Append(frames, frame), \E f : f = frame /\ FrameOk(f)',
         Apart(frames', cur')
  PROVE  FramesOk'
<1>1. /\ frames' \in Seq(Frame) /\ Len(frames) \in Nat
      /\ DOMAIN frames = 1 .. Len(frames)
      /\ DOMAIN frames' = 1 .. Len(frames) + 1
      /\ \A j \in DOMAIN frames : frames'[j] = frames[j]
      /\ frames'[Len(frames) + 1] = frame
  BY BuiltFacts, AppendFacts
<1>2. ASSUME NEW j \in DOMAIN frames' PROVE \E f : f = frames'[j] /\ FrameOk(f)'
  <2>1. CASE j \in DOMAIN frames
    BY <1>1, <2>1, FramesStay
  <2>2. CASE j \notin DOMAIN frames
    <3>1. j = Len(frames) + 1
      BY <1>1, <1>2, <2>2
    <3> QED BY <1>1, <3>1
  <2> QED BY <2>1, <2>2
<1> QED BY <1>1, <1>2, FramesMade

LEMMA PoppedOk ==
  ASSUME Built, Grows, DOMAIN blocks \subseteq DOMAIN blocks', frames # <<>>,
         frames' = Pop1(frames), cur' \notin FrameBlocks(frames')
  PROVE  FramesOk'
<1>1. /\ frames' \in Seq(Frame) /\ DOMAIN frames' \subseteq DOMAIN frames
      /\ \A j \in DOMAIN frames' : frames'[j] = frames[j]
      /\ Apart(frames', cur')
  BY BuiltFacts, FramePopped
<1>2. ASSUME NEW j \in DOMAIN frames' PROVE \E f : f = frames'[j] /\ FrameOk(f)'
  BY <1>1, FramesStay
<1> QED BY <1>1, <1>2, FramesMade

LEMMA StraightKeeps ==
  ASSUME Built, Straight, cur # NoBlock PROVE Built'
<1>1. Grows /\ Emits /\ cur' = cur /\ frames' = frames
  BY DEF Straight
<1>2. GraphOk(blocks', [syms |-> syms'], Open) /\ DOMAIN blocks' = DOMAIN blocks
  BY <1>1, EmitsKeeps DEF Grows
<1>3. Open' = Open
  BY <1>1 DEF Open, FrameBlocks
<1>4. GraphOk(blocks, [syms |-> syms], Open)'
  BY <1>2, <1>3
<1>5. \A j \in DOMAIN frames' : \E f : f = frames'[j] /\ FrameOk(f)'
  BY <1>1, <1>2, FramesStay
<1>6. FramesOk'
  BY <1>1, <1>5, BuiltFacts, FramesMade
<1> QED BY <1>1, <1>4, <1>6 DEF Built, Grows

LEMMA OpenBorrowKeeps ==
  ASSUME Built, NEW m \in Mentionable, NEW n \in header.names,
         NEW mut \in BOOLEAN, OpenBorrow(m, n, mut)
  PROVE  Built'
<1>1. /\ cur' = cur /\ header' = header /\ stmts' = stmts + 1 /\ cur # NoBlock
      /\ Statement("borrow")
  BY DEF OpenBorrow, Statement
<1>2. CASE ~ IsOwned(m)
  <2>1. UNCHANGED <<blocks, frames, scopes, syms>>
    BY <1>2 DEF OpenBorrow
  <2>2. Grows
    BY <1>1, <2>1, SameSymbols DEF Built
  <2>3. Straight
    BY <1>1, <2>1, <2>2 DEF Straight, Emits
  <2> QED BY <1>1, <2>3, StraightKeeps
<1>3. CASE IsOwned(m)
  <2> DEFINE scs == Append(scopes, <<>>)
             start == [I("borrow_start", NewSym, Lookup(m)) EXCEPT !.mut = mut]
             end == [I("borrow_end", NewSym, Lookup(m)) EXCEPT !.mut = mut]
             frame == [kind |-> "borrow", end |-> end]
  <2>1. /\ DeclareIn(scs, n, BorrowOf(mut)) /\ Emit(<<start>>)
        /\ frames' = Append(frames, frame)
    BY <1>3 DEF OpenBorrow, PushScope
  <2>2. BorrowOf(mut) \in SymInfo
    <3>1. Untyped \in STRING
      BY TypesAssumption DEF Untyped
    <3> QED BY <3>1, SymbolMade
  <2>3. ScopesOk(scs) /\ Len(scs) = Len(scopes) + 1 /\ Len(scopes) = Len(frames) + 1
        /\ Len(frames) \in Nat
    BY BuiltFacts, ScopePushed
  <2>4. scs # <<>>
    <3> HIDE DEF scs
    <3> QED BY <2>3
  <2>5. n \in Mentionable
    BY DEF Mentionable
  <2> HIDE DEF scs
  <2>6. /\ syms' \in Seq(SymInfo)
        /\ NewSym \in DOMAIN syms' /\ NewSym \in Sym
        /\ DOMAIN syms' = DOMAIN syms \cup {NewSym} /\ DOMAIN syms' \subseteq Sym
        /\ scopes' \in Seq(Scope) /\ Len(scopes') = Len(scs)
        /\ \A j \in DOMAIN scopes' : \A x \in DOMAIN scopes'[j] :
              scopes'[j][x] \in DOMAIN syms'
    BY <2>1, <2>2, <2>3, <2>4, <2>5, BuiltFacts, DeclareFacts DEF ScopesOk
  <2>7. Lookup(m) \in DOMAIN syms'
    BY <1>3, <2>6, OwnedFacts DEF Built
  <2>8. /\ InstrOk([syms |-> syms'], start)
        /\ end \in Instr /\ InstrOk([syms |-> syms'], end)
    BY <2>6, <2>7, BuiltFacts, InstrMade DEF InstrOps
  <2> HIDE DEF start, end
  <2>9. frame \in Frame /\ OpenBlock(frame) = NoBlock
    BY <2>8 DEF Frame, OpenBlock
  <2>10. \E f : f = frame /\ FrameOk(f)'
    <3>1. PICK f : f = frame
      OBVIOUS
    <3>2. f.kind = "borrow" /\ f.end = end
      BY <3>1
    <3> QED BY <2>8, <3>1, <3>2 DEF FrameOk
  <2> HIDE DEF frame
  <2>11. /\ frames' \in Seq(Frame) /\ Len(frames') = Len(frames) + 1
         /\ FrameBlocks(frames') = FrameBlocks(frames) /\ Apart(frames', cur')
    <3>1. NoBlock \notin FrameBlocks(frames)
      BY DEF FrameBlocks
    <3>2. frames \in Seq(Frame) /\ Apart(frames, cur) /\ cur \notin FrameBlocks(frames)
      BY BuiltFacts
    <3>3. /\ Append(frames, frame) \in Seq(Frame) /\ Apart(Append(frames, frame), cur)
          /\ Len(Append(frames, frame)) = Len(frames) + 1
          /\ FrameBlocks(Append(frames, frame)) =
               FrameBlocks(frames) \cup ({NoBlock} \ {NoBlock})
      BY <2>9, <3>1, <3>2, FramePushed
    <3> QED BY <1>1, <2>1, <3>3
  <2>12. SymbolsOk'
    <3>1. Scope' = Scope
      BY <1>1 DEF Scope, Mentionable, ParamNames
    <3> QED BY <1>1, <2>3, <2>6, <2>11, <3>1 DEF SymbolsOk, Built
  <2>13. Grows
    BY <2>6, <2>12 DEF Grows
  <2>14. GraphOk(blocks', [syms |-> syms'], Open) /\ DOMAIN blocks' = DOMAIN blocks
    BY <1>1, <2>1, <2>6, <2>8, EmitsOne, EmitsKeeps
  <2>15. FramesOk'
    BY <2>1, <2>9, <2>10, <2>11, <2>13, <2>14, PushedOk
  <2>16. Open' = Open
    BY <1>1, <2>11 DEF Open
  <2> QED BY <2>12, <2>14, <2>15, <2>16 DEF Built
<1> QED BY <1>2, <1>3

(* if: the branches start at blocks of their own.                          *)
LEMMA IfBlocks ==
  ASSUME Built, OpenIf, NEW n, n = Len(blocks)
  PROVE  /\ cur \in 1 .. n /\ n \in Nat /\ DOMAIN blocks = 1 .. n
         /\ blocks' \in Seq(BlockType) /\ DOMAIN blocks' = 1 .. n + 2
         /\ blocks'[cur].instrs = blocks[cur].instrs
         /\ blocks'[cur].succ = <<n + 1, n + 2>> /\ blocks'[cur].succ # <<>>
         /\ \A d \in (1 .. n) \ {cur} : blocks'[d] = blocks[d]
         /\ blocks'[n + 1] = NewBlock /\ blocks'[n + 2] = NewBlock
         /\ Targets(blocks', cur) = {n + 1, n + 2}
<1> DEFINE r == <<NewBlock, NewBlock>>
           bs == blocks \o r
<1>1. cur # NoBlock /\ blocks' = Linked(bs, cur, <<n + 1, n + 2>>)
  BY DEF OpenIf, Statement
<1>2. r \in Seq(BlockType) /\ Len(r) = 2 /\ \A j \in DOMAIN r : r[j] = NewBlock
  BY NewBlockFacts
<1> HIDE DEF r
<1>3. /\ bs \in Seq(BlockType) /\ n \in Nat /\ DOMAIN blocks = 1 .. n
      /\ DOMAIN bs = 1 .. n + 2
      /\ \A d \in DOMAIN blocks : bs[d] = blocks[d]
      /\ \A d \in DOMAIN bs \ DOMAIN blocks : bs[d] = NewBlock
  BY <1>2, BuiltFacts, AddedFacts
<1>4. cur \in 1 .. n
  BY <1>1, BuiltFacts
<1> HIDE DEF bs
<1>5. /\ blocks' \in Seq(BlockType) /\ DOMAIN blocks' = 1 .. n + 2
      /\ blocks'[cur].instrs = blocks[cur].instrs
      /\ blocks'[cur].succ = <<n + 1, n + 2>> /\ blocks'[cur].succ # <<>>
      /\ \A d \in (1 .. n) \ {cur} : blocks'[d] = blocks[d]
      /\ blocks'[n + 1] = NewBlock /\ blocks'[n + 2] = NewBlock
  <2>1. <<n + 1, n + 2>> \in Seq(Nat) /\ <<n + 1, n + 2>> # <<>> /\ cur \in DOMAIN bs
    BY <1>3, <1>4
  <2>2. /\ blocks' \in Seq(BlockType) /\ DOMAIN blocks' = DOMAIN bs
        /\ blocks'[cur].instrs = bs[cur].instrs
        /\ blocks'[cur].succ = <<n + 1, n + 2>>
        /\ \A d \in DOMAIN bs \ {cur} : blocks'[d] = bs[d]
    <3> DEFINE ss == <<n + 1, n + 2>>
    <3>1. ss \in Seq(Nat) /\ blocks' = Linked(bs, cur, ss)
      BY <1>1, <2>1
    <3> HIDE DEF ss
    <3>2. bs \in Seq(BlockType) /\ cur \in DOMAIN bs
      BY <1>3, <2>1
    <3>3. /\ blocks' \in Seq(BlockType) /\ DOMAIN blocks' = DOMAIN bs
          /\ blocks'[cur].instrs = bs[cur].instrs
          /\ blocks'[cur].succ = ss
          /\ \A d \in DOMAIN bs \ {cur} : blocks'[d] = bs[d]
      BY <3>1, <3>2, LinkedFacts, ZenonT(60)
    <3> QED BY <3>3 DEF ss
  <2> QED BY <1>3, <1>4, <2>1, <2>2
<1>6. Targets(blocks', cur) = {n + 1, n + 2}
  BY <1>5 DEF Targets
<1> QED BY <1>3, <1>4, <1>5, <1>6

LEMMA OpenIfKeeps ==
  ASSUME Built, OpenIf PROVE Built'
<1> DEFINE n == Len(blocks)
           frame == [kind |-> "then", els |-> n + 2]
           open == {n + 1, n + 2} \cup FrameBlocks(frames)
<1>1. /\ cur # NoBlock /\ UNCHANGED <<header, syms>> /\ stmts' \in Nat
      /\ frames' = Append(frames, frame)
      /\ cur' = n + 1
      /\ scopes' = Append(scopes, <<>>)
  BY BuiltFacts DEF OpenIf, Statement, PushScope
<1>3. n \in Nat /\ DOMAIN blocks = 1 .. n
  BY BuiltFacts
<1>4. cur \in 1 .. n /\ Entry \in 1 .. n /\ cur \in Open
      /\ FrameBlocks(frames) \subseteq 1 .. n
      /\ cur \notin FrameBlocks(frames) /\ Open = {cur} \cup FrameBlocks(frames)
  BY <1>1, BuiltFacts DEF Open
<1>5. /\ blocks' \in Seq(BlockType) /\ DOMAIN blocks' = 1 .. n + 2
      /\ blocks'[cur].instrs = blocks[cur].instrs
      /\ blocks'[cur].succ = <<n + 1, n + 2>> /\ blocks'[cur].succ # <<>>
      /\ \A d \in (1 .. n) \ {cur} : blocks'[d] = blocks[d]
      /\ blocks'[n + 1] = NewBlock /\ blocks'[n + 2] = NewBlock
  BY IfBlocks
<1>6. Targets(blocks', cur) = {n + 1, n + 2}
  BY IfBlocks
<1> HIDE DEF n
<1>7. \A d \in DOMAIN blocks' : Targets(blocks', d) \subseteq DOMAIN blocks' \ {Entry}
  <2>1. \A d \in (1 .. n) \ {cur} : Targets(blocks', d) \subseteq DOMAIN blocks \ {Entry}
    <3>1. \A d \in (1 .. n) \ {cur} : Targets(blocks', d) = Targets(blocks, d)
      BY <1>5 DEF Targets
    <3>2. \A d \in 1 .. n : Targets(blocks, d) \subseteq DOMAIN blocks \ {Entry}
      BY <1>3, BuiltFacts DEF GraphOk
    <3> QED BY <3>1, <3>2
  <2>2. \A d \in {n + 1, n + 2} : Targets(blocks', d) = {}
    BY <1>5, NewBlockFacts DEF Targets
  <2>3. \A d \in DOMAIN blocks' : d = cur \/ d \in (1 .. n) \ {cur} \/ d \in {n + 1, n + 2}
    BY <1>3, <1>5
  <2>4. {n + 1, n + 2} \subseteq DOMAIN blocks' \ {Entry}
    BY <1>3, <1>4, <1>5
  <2> QED BY <1>3, <1>5, <1>6, <2>1, <2>2, <2>3, <2>4
<1>8. GraphOk(blocks', [syms |-> syms], open)
  <2>1. \A d \in DOMAIN blocks : blocks'[d].instrs = blocks[d].instrs
    BY <1>3, <1>5
  <2>2. \A d \in DOMAIN blocks' \ DOMAIN blocks : blocks'[d] = NewBlock /\ d \in {n + 1, n + 2}
    BY <1>3, <1>5
  <2>3. \A d \in DOMAIN blocks' \ DOMAIN blocks :
           \E p \in DOMAIN blocks' : p < d /\ d \in Targets(blocks', p)
    BY <1>3, <1>4, <1>5, <1>6, <2>2
  <2>4. \A d \in FrameBlocks(frames) : blocks'[d].succ = <<>>
    BY <1>4, <1>5, BuiltFacts DEF GraphOk
  <2>5. open \subseteq DOMAIN blocks' /\ \A d \in open : blocks'[d].succ = <<>>
    BY <1>3, <1>4, <1>5, <2>4, NewBlockFacts
  <2>6. \A d \in DOMAIN blocks' \ open :
           d \in DOMAIN blocks \ Open \/ blocks'[d].succ # <<>>
    <3>1. \A d \in DOMAIN blocks' \ open : d \in DOMAIN blocks /\ d \notin FrameBlocks(frames)
      BY <1>3, <1>5
    <3> QED BY <1>4, <1>5, <3>1
  <2>7. \A d \in DOMAIN blocks \ Open : blocks'[d] = blocks[d]
    BY <1>3, <1>4, <1>5
  <2>8. \A d \in DOMAIN blocks' \ DOMAIN blocks : blocks'[d].instrs = <<>>
    BY <2>2, NewBlockFacts
  <2>9. GraphOk(blocks, [syms |-> syms], Open) /\ DOMAIN blocks \subseteq DOMAIN blocks'
    BY <1>3, <1>5, BuiltFacts
  <2> HIDE DEF open
  <2>10. PICK bs, new, c, o : bs = blocks /\ new = blocks' /\ c = [syms |-> syms] /\ o = Open
    OBVIOUS
  <2>11. GraphOk(bs, c, o) /\ new \in Seq(BlockType) /\ DOMAIN bs \subseteq DOMAIN new
         /\ open \subseteq DOMAIN new
    BY <1>5, <2>5, <2>9, <2>10
  <2>12. /\ \A d \in DOMAIN bs : new[d].instrs = bs[d].instrs
         /\ \A d \in DOMAIN new \ DOMAIN bs : new[d].instrs = <<>>
         /\ \A d \in DOMAIN bs \ o : new[d] = bs[d]
    BY <2>1, <2>7, <2>8, <2>10
  <2>13. \A d \in DOMAIN new : Targets(new, d) \subseteq DOMAIN new \ {Entry}
    BY <1>7, <2>10
  <2>14. \A d \in DOMAIN new \ DOMAIN bs : \E p \in DOMAIN new : p < d /\ d \in Targets(new, p)
    BY <2>3, <2>10
  <2>15. /\ \A d \in open : new[d].succ = <<>>
         /\ \A d \in DOMAIN new \ open : d \in DOMAIN bs \ o \/ new[d].succ # <<>>
    BY <2>5, <2>6, <2>10
  <2>16. GraphOk(new, c, open)
    BY <2>11, <2>12, <2>13, <2>14, <2>15, GraphLinks
  <2> QED BY <2>10, <2>16
<1>9. /\ frame \in Frame /\ OpenBlock(frame) = n + 2
      /\ \E f : f = frame /\ FrameOk(f)'
  BY <1>3, <1>4 DEF Frame, OpenBlock, FrameOk, NoBlock
<1> HIDE DEF frame
<1>10. /\ frames' \in Seq(Frame) /\ Len(frames') = Len(frames) + 1
       /\ FrameBlocks(frames') = FrameBlocks(frames) \cup {n + 2}
       /\ Apart(frames', cur')
  <2>1. n + 1 \notin FrameBlocks(frames) /\ n + 2 \notin FrameBlocks(frames)
        /\ n + 2 # n + 1 /\ n + 2 # NoBlock
    BY <1>3, <1>4 DEF NoBlock
  <2> QED BY <1>1, <1>9, <2>1, BuiltFacts, FramePushed, AppendFacts
<1>11. SymbolsOk'
  BY <1>1, <1>10, BuiltFacts, ScopePushed, ScopesKept
<1>12. FramesOk'
  <2>1. Grows /\ DOMAIN blocks \subseteq DOMAIN blocks'
    BY <1>1, <1>3, <1>5, <1>11 DEF Grows
  <2> QED BY <1>1, <1>9, <1>10, <2>1, PushedOk
<1>13. Open' = open
  BY <1>1, <1>3, <1>10 DEF Open, NoBlock
<1> QED BY <1>1, <1>8, <1>11, <1>12, <1>13 DEF Built

(* while: the header is reached from the current block, and the body and   *)
(* what comes after the loop from the header.                              *)
LEMMA WhileBlocks ==
  ASSUME Built, OpenWhile, NEW n, n = Len(blocks)
  PROVE  /\ cur \in 1 .. n /\ n \in Nat /\ DOMAIN blocks = 1 .. n
         /\ blocks' \in Seq(BlockType) /\ DOMAIN blocks' = 1 .. n + 3
         /\ blocks'[cur].instrs = blocks[cur].instrs
         /\ blocks'[cur].succ = <<n + 1>> /\ blocks'[cur].succ # <<>>
         /\ \A d \in (1 .. n) \ {cur} : blocks'[d] = blocks[d]
         /\ blocks'[n + 1].instrs = <<>>
         /\ blocks'[n + 1].succ = <<n + 2, n + 3>> /\ blocks'[n + 1].succ # <<>>
         /\ blocks'[n + 2] = NewBlock /\ blocks'[n + 3] = NewBlock
         /\ Targets(blocks', cur) = {n + 1} /\ Targets(blocks', n + 1) = {n + 2, n + 3}
<1> DEFINE r == <<NewBlock, NewBlock, NewBlock>>
           bs == blocks \o r
           into == <<n + 1>>
           out == <<n + 2, n + 3>>
           bs1 == Linked(bs, cur, into)
<1>1. cur # NoBlock /\ blocks' = Linked(bs1, n + 1, out)
  BY DEF OpenWhile, Statement
<1>2. r \in Seq(BlockType) /\ Len(r) = 3 /\ \A j \in DOMAIN r : r[j] = NewBlock
  BY NewBlockFacts
<1> HIDE DEF r
<1>3. /\ bs \in Seq(BlockType) /\ n \in Nat /\ DOMAIN blocks = 1 .. n
      /\ DOMAIN bs = 1 .. n + 3
      /\ \A d \in DOMAIN blocks : bs[d] = blocks[d]
      /\ \A d \in DOMAIN bs \ DOMAIN blocks : bs[d] = NewBlock
  <2>1. PICK old, add, new : old = blocks /\ add = r /\ new = bs
    OBVIOUS
  <2>2. old \in Seq(BlockType) /\ add \in Seq(BlockType) /\ Len(add) = 3
        /\ \A j \in DOMAIN add : add[j] = NewBlock
    BY <1>2, <2>1, BuiltFacts
  <2>3. new = old \o add
    BY <2>1
  <2>4. /\ old \o add \in Seq(BlockType) /\ Len(old) \in Nat /\ DOMAIN old = 1 .. Len(old)
        /\ DOMAIN (old \o add) = 1 .. Len(old) + Len(add)
        /\ \A d \in DOMAIN old : (old \o add)[d] = old[d]
        /\ \A d \in DOMAIN (old \o add) \ DOMAIN old : (old \o add)[d] = NewBlock
    BY <2>2, AddedFacts, ZenonT(30)
  <2> QED BY <2>1, <2>2, <2>3, <2>4
<1>4. cur \in 1 .. n
  BY <1>1, BuiltFacts
<1> HIDE DEF bs
<1>5. /\ blocks' \in Seq(BlockType) /\ DOMAIN blocks' = 1 .. n + 3
      /\ blocks'[cur].instrs = blocks[cur].instrs
      /\ blocks'[cur].succ = <<n + 1>> /\ blocks'[cur].succ # <<>>
      /\ \A d \in (1 .. n) \ {cur} : blocks'[d] = blocks[d]
      /\ blocks'[n + 1].instrs = <<>>
      /\ blocks'[n + 1].succ = <<n + 2, n + 3>> /\ blocks'[n + 1].succ # <<>>
      /\ blocks'[n + 2] = NewBlock /\ blocks'[n + 3] = NewBlock
  <2>1. /\ into \in Seq(Nat) /\ into # <<>> /\ out \in Seq(Nat) /\ out # <<>>
        /\ cur \in DOMAIN bs /\ n + 1 \in DOMAIN bs /\ cur # n + 1
    BY <1>3, <1>4
  <2>2. /\ bs1 \in Seq(BlockType) /\ DOMAIN bs1 = DOMAIN bs
        /\ bs1[cur].instrs = bs[cur].instrs /\ bs1[cur].succ = into
        /\ \A d \in DOMAIN bs \ {cur} : bs1[d] = bs[d]
    <3> HIDE DEF into
    <3> QED BY <1>3, <2>1, LinkedFacts, ZenonT(60)
  <2> HIDE DEF bs1
  <2>3. /\ blocks' \in Seq(BlockType) /\ DOMAIN blocks' = DOMAIN bs
        /\ blocks'[n + 1].instrs = bs1[n + 1].instrs /\ blocks'[n + 1].succ = out
        /\ \A d \in DOMAIN bs \ {n + 1} : blocks'[d] = bs1[d]
    <3> HIDE DEF out
    <3>0. bs1 \in Seq(BlockType) /\ out \in Seq(Nat)
      BY <2>1, <2>2
    <3>1. ASSUME NEW h \in DOMAIN bs1, blocks' = Linked(bs1, h, out)
          PROVE  /\ blocks' \in Seq(BlockType) /\ DOMAIN blocks' = DOMAIN bs1
                 /\ blocks'[h].instrs = bs1[h].instrs /\ blocks'[h].succ = out
                 /\ \A d \in DOMAIN bs1 \ {h} : blocks'[d] = bs1[d]
      BY <3>0, <3>1, LinkedFacts, ZenonT(60)
    <3>2. n + 1 \in DOMAIN bs1
      BY <2>1, <2>2
    <3> QED BY <1>1, <2>2, <3>1, <3>2
  <2>4. /\ blocks'[cur] = bs1[cur] /\ bs1[n + 1] = NewBlock /\ bs[cur] = blocks[cur]
        /\ n + 2 \in DOMAIN bs \ DOMAIN blocks /\ n + 3 \in DOMAIN bs \ DOMAIN blocks
        /\ n + 2 # cur /\ n + 3 # cur
    BY <1>3, <1>4, <2>1, <2>2, <2>3
  <2>5. blocks'[n + 2] = NewBlock /\ blocks'[n + 3] = NewBlock
    BY <1>3, <2>2, <2>3, <2>4
  <2>6. \A d \in (1 .. n) \ {cur} : blocks'[d] = blocks[d]
    BY <1>3, <2>2, <2>3
  <2> QED BY <1>3, <2>1, <2>2, <2>3, <2>4, <2>5, <2>6, NewBlockFacts
<1>6. Targets(blocks', cur) = {n + 1} /\ Targets(blocks', n + 1) = {n + 2, n + 3}
  BY <1>5 DEF Targets
<1> QED BY <1>3, <1>4, <1>5, <1>6

LEMMA OpenWhileKeeps ==
  ASSUME Built, OpenWhile PROVE Built'
<1> DEFINE n == Len(blocks)
           frame == [kind |-> "while", header |-> n + 1, after |-> n + 3]
           open == {n + 2, n + 3} \cup FrameBlocks(frames)
<1>1. /\ cur # NoBlock /\ UNCHANGED <<header, syms>> /\ stmts' \in Nat
      /\ frames' = Append(frames, frame)
      /\ cur' = n + 2
      /\ scopes' = Append(scopes, <<>>)
  BY BuiltFacts DEF OpenWhile, Statement, PushScope
<1>3. n \in Nat /\ DOMAIN blocks = 1 .. n
  BY BuiltFacts
<1>4. cur \in 1 .. n /\ Entry \in 1 .. n /\ cur \in Open
      /\ FrameBlocks(frames) \subseteq 1 .. n
      /\ cur \notin FrameBlocks(frames) /\ Open = {cur} \cup FrameBlocks(frames)
  BY <1>1, BuiltFacts DEF Open
<1>5. /\ blocks' \in Seq(BlockType) /\ DOMAIN blocks' = 1 .. n + 3
      /\ blocks'[cur].instrs = blocks[cur].instrs
      /\ blocks'[cur].succ = <<n + 1>> /\ blocks'[cur].succ # <<>>
      /\ \A d \in (1 .. n) \ {cur} : blocks'[d] = blocks[d]
      /\ blocks'[n + 1].instrs = <<>>
      /\ blocks'[n + 1].succ = <<n + 2, n + 3>> /\ blocks'[n + 1].succ # <<>>
      /\ blocks'[n + 2] = NewBlock /\ blocks'[n + 3] = NewBlock
  BY WhileBlocks
<1>6. Targets(blocks', cur) = {n + 1} /\ Targets(blocks', n + 1) = {n + 2, n + 3}
  BY WhileBlocks
<1> HIDE DEF n
<1>7. \A d \in DOMAIN blocks' : Targets(blocks', d) \subseteq DOMAIN blocks' \ {Entry}
  <2>1. \A d \in (1 .. n) \ {cur} : Targets(blocks', d) \subseteq DOMAIN blocks \ {Entry}
    <3>1. \A d \in (1 .. n) \ {cur} : Targets(blocks', d) = Targets(blocks, d)
      BY <1>5 DEF Targets
    <3>2. \A d \in 1 .. n : Targets(blocks, d) \subseteq DOMAIN blocks \ {Entry}
      BY <1>3, BuiltFacts DEF GraphOk
    <3> QED BY <3>1, <3>2
  <2>2. \A d \in {n + 2, n + 3} : Targets(blocks', d) = {}
    BY <1>5, NewBlockFacts DEF Targets
  <2>3. \A d \in DOMAIN blocks' : \/ d = cur \/ d \in (1 .. n) \ {cur}
                                  \/ d = n + 1 \/ d \in {n + 2, n + 3}
    BY <1>3, <1>5
  <2>4. {n + 1, n + 2, n + 3} \subseteq DOMAIN blocks' \ {Entry}
    BY <1>3, <1>4, <1>5
  <2> QED BY <1>3, <1>5, <1>6, <2>1, <2>2, <2>3, <2>4
<1>8. GraphOk(blocks', [syms |-> syms], open)
  <2>1. \A d \in DOMAIN blocks : blocks'[d].instrs = blocks[d].instrs
    BY <1>3, <1>5
  <2>2. \A d \in DOMAIN blocks' \ DOMAIN blocks :
           blocks'[d].instrs = <<>> /\ d \in {n + 1, n + 2, n + 3}
    BY <1>3, <1>5, NewBlockFacts
  <2>3. \A d \in DOMAIN blocks' \ DOMAIN blocks :
           \E p \in DOMAIN blocks' : p < d /\ d \in Targets(blocks', p)
    <3>1. /\ cur \in DOMAIN blocks' /\ cur < n + 1 /\ n + 1 \in DOMAIN blocks'
          /\ n + 1 < n + 2 /\ n + 1 < n + 3
      BY <1>3, <1>4, <1>5
    <3> QED BY <1>6, <2>2, <3>1
  <2>4. \A d \in FrameBlocks(frames) : blocks'[d].succ = <<>>
    BY <1>4, <1>5, BuiltFacts DEF GraphOk
  <2>5. open \subseteq DOMAIN blocks' /\ \A d \in open : blocks'[d].succ = <<>>
    BY <1>3, <1>4, <1>5, <2>4, NewBlockFacts
  <2>6. \A d \in DOMAIN blocks' \ open :
           d \in DOMAIN blocks \ Open \/ blocks'[d].succ # <<>>
    <3>1. \A d \in DOMAIN blocks' \ open :
             (d \in DOMAIN blocks /\ d \notin FrameBlocks(frames)) \/ d = n + 1
      BY <1>3, <1>5
    <3> QED BY <1>4, <1>5, <3>1
  <2>7. \A d \in DOMAIN blocks \ Open : blocks'[d] = blocks[d]
    BY <1>3, <1>4, <1>5
  <2>8. \A d \in DOMAIN blocks' \ DOMAIN blocks : blocks'[d].instrs = <<>>
    BY <2>2
  <2>9. GraphOk(blocks, [syms |-> syms], Open) /\ DOMAIN blocks \subseteq DOMAIN blocks'
    BY <1>3, <1>5, BuiltFacts
  <2> HIDE DEF open
  <2>10. PICK bs, new, c, o : bs = blocks /\ new = blocks' /\ c = [syms |-> syms] /\ o = Open
    OBVIOUS
  <2>11. GraphOk(bs, c, o) /\ new \in Seq(BlockType) /\ DOMAIN bs \subseteq DOMAIN new
         /\ open \subseteq DOMAIN new
    BY <1>5, <2>5, <2>9, <2>10
  <2>12. /\ \A d \in DOMAIN bs : new[d].instrs = bs[d].instrs
         /\ \A d \in DOMAIN new \ DOMAIN bs : new[d].instrs = <<>>
         /\ \A d \in DOMAIN bs \ o : new[d] = bs[d]
    BY <2>1, <2>7, <2>8, <2>10
  <2>13. \A d \in DOMAIN new : Targets(new, d) \subseteq DOMAIN new \ {Entry}
    BY <1>7, <2>10
  <2>14. \A d \in DOMAIN new \ DOMAIN bs : \E p \in DOMAIN new : p < d /\ d \in Targets(new, p)
    BY <2>3, <2>10
  <2>15. /\ \A d \in open : new[d].succ = <<>>
         /\ \A d \in DOMAIN new \ open : d \in DOMAIN bs \ o \/ new[d].succ # <<>>
    BY <2>5, <2>6, <2>10
  <2>16. GraphOk(new, c, open)
    BY <2>11, <2>12, <2>13, <2>14, <2>15, GraphLinks
  <2> QED BY <2>10, <2>16
<1>9. /\ frame \in Frame /\ OpenBlock(frame) = n + 3
      /\ \E f : f = frame /\ FrameOk(f)'
  <2>1. n + 1 \in DOMAIN blocks' \ {Entry} /\ n + 3 # NoBlock /\ n \in Nat
    BY <1>3, <1>4, <1>5 DEF NoBlock
  <2> QED BY <2>1 DEF Frame, OpenBlock, FrameOk
<1> HIDE DEF frame
<1>10. /\ frames' \in Seq(Frame) /\ Len(frames') = Len(frames) + 1
       /\ FrameBlocks(frames') = FrameBlocks(frames) \cup {n + 3}
       /\ Apart(frames', cur')
  <2>1. n + 2 \notin FrameBlocks(frames) /\ n + 3 \notin FrameBlocks(frames)
        /\ n + 2 # n + 3 /\ n + 3 # NoBlock
    BY <1>3, <1>4 DEF NoBlock
  <2> QED BY <1>1, <1>9, <2>1, BuiltFacts, FramePushed, AppendFacts
<1>11. SymbolsOk'
  BY <1>1, <1>10, BuiltFacts, ScopePushed, ScopesKept
<1>12. FramesOk'
  <2>1. Grows /\ DOMAIN blocks \subseteq DOMAIN blocks'
    BY <1>1, <1>3, <1>5, <1>11 DEF Grows
  <2> QED BY <1>1, <1>9, <1>10, <2>1, PushedOk
<1>13. Open' = open
  BY <1>1, <1>3, <1>10 DEF Open, NoBlock
<1> QED BY <1>1, <1>8, <1>11, <1>12, <1>13 DEF Built

(* return: the block is left for good, with the return as its last         *)
(* instruction.                                                            *)
LEMMA ReturnKeeps ==
  ASSUME Built, NEW m, ReturnStmt(m) PROVE Built'
<1> DEFINE i == I("return", Returned(m), NoSym)
           bs == Emitted(<<i>>)
<1>1. /\ cur # NoBlock /\ UNCHANGED <<frames, scopes, syms, header>>
      /\ stmts' = stmts + 1 /\ Statement("return")
      /\ blocks' = Linked(bs, cur, <<>>) /\ cur' = NoBlock
  BY DEF ReturnStmt, Statement
<1>2. Grows
  BY <1>1, SameSymbols DEF Built
<1>3. InstrOk([syms |-> syms], i) /\ i.op = "return"
  <2>1. Returned(m) \in DOMAIN syms \cup {NoSym}
    BY OwnedFacts DEF Returned, Built
  <2>2. stmts \in Nat /\ DOMAIN syms \subseteq Sym
    BY DEF Built, SymbolsOk
  <2>3. i.op = "return"
    BY DEF I
  <2> QED BY <2>1, <2>2, <2>3, InstrMade DEF InstrOps
<1> HIDE DEF i
<1>4. <<i>> \in Seq(Instr) /\ Len(<<i>>) = 1 /\ <<i>>[1] = i
      /\ \A j \in DOMAIN <<i>> : InstrOk([syms |-> syms], <<i>>[j])
  BY <1>3 DEF InstrOk
<1>5. GraphOk(bs, [syms |-> syms], Open)
  BY <1>1, <1>4, BuiltFacts, EmitKeeps DEF Emitted
<1>6. cur \in DOMAIN blocks /\ cur \in Open /\ blocks[cur] \in BlockType
  BY <1>1, BuiltFacts
<1>7. DOMAIN bs = DOMAIN blocks /\ bs \in Seq(BlockType)
      /\ bs[cur].instrs = blocks[cur].instrs \o <<i>>
  <2>1. bs[cur] = [blocks[cur] EXCEPT !.instrs = @ \o <<i>>] /\ DOMAIN bs = DOMAIN blocks
    BY <1>6 DEF Emitted
  <2>2. bs \in Seq(BlockType)
    BY <1>5 DEF GraphOk
  <2> HIDE DEF bs
  <2>3. bs[cur].instrs = blocks[cur].instrs \o <<i>>
    BY <1>6, <2>1 DEF BlockType
  <2> QED BY <2>1, <2>2, <2>3
<1>8. Returns(bs[cur])
  <2> DEFINE q == blocks[cur].instrs  e == <<i>>
  <2>1. q \in Seq(Instr)
    BY <1>6 DEF BlockType
  <2>2. e \in Seq(Instr) /\ Len(e) = 1 /\ e[1] = i /\ 1 \in DOMAIN e
    BY <1>4
  <2>3. bs[cur].instrs = q \o e
    BY <1>7
  <2> HIDE DEF q, e, bs
  <2>4. Len(q \o e) = Len(q) + 1 /\ Len(q) \in Nat /\ (q \o e)[Len(q) + 1] = i
    BY <2>1, <2>2, ConcatFacts
  <2> QED BY <1>3, <2>3, <2>4 DEF Returns
<1> HIDE DEF bs
<1>9. /\ blocks' \in Seq(BlockType) /\ DOMAIN blocks' = DOMAIN bs
      /\ blocks'[cur].instrs = bs[cur].instrs /\ blocks'[cur].succ = <<>>
      /\ \A d \in DOMAIN bs \ {cur} : blocks'[d] = bs[d]
  <2> DEFINE none == <<>>
  <2>1. none \in Seq(Nat) /\ cur \in DOMAIN bs /\ blocks' = Linked(bs, cur, none)
    BY <1>1, <1>6, <1>7
  <2> HIDE DEF none
  <2> QED BY <1>7, <2>1, LinkedFacts, ZenonT(60) DEF none
<1> DEFINE open == FrameBlocks(frames)
<1>10. open \subseteq Open /\ Open = {cur} \cup open /\ cur \notin open
  BY <1>1, BuiltFacts DEF Open
<1>11. GraphOk(blocks', [syms |-> syms], open)
  <2>1. \A d \in DOMAIN bs : blocks'[d].instrs = bs[d].instrs /\ blocks'[d].succ = bs[d].succ
    BY <1>5, <1>6, <1>7, <1>9 DEF GraphOk
  <2>2. \A d \in DOMAIN bs : Targets(blocks', d) = Targets(bs, d)
    BY <2>1 DEF Targets
  <2>3. \A d \in DOMAIN bs \ open : bs[d].succ = <<>> => Returns(blocks'[d])
    BY <1>5, <1>8, <1>10, <2>1 DEF GraphOk, Returns
  <2> HIDE DEF open
  <2>4. blocks' # <<>>
    BY <1>6, <1>7, <1>9
  <2> QED BY <1>5, <1>9, <1>10, <2>1, <2>2, <2>3, <2>4 DEF GraphOk
<1>12. FramesOk'
  <2>1. \A j \in DOMAIN frames' : \E f : f = frames'[j] /\ FrameOk(f)'
    BY <1>1, <1>2, <1>7, <1>9, FramesStay
  <2>2. frames \in Seq(Frame) /\ Apart(frames, cur')
    <3>1. NoBlock \notin FrameBlocks(frames)
      BY DEF FrameBlocks
    <3> QED BY <1>1, <3>1, BuiltFacts DEF Apart
  <2> QED BY <1>1, <2>1, <2>2, FramesMade
<1>13. Open' = open
  BY <1>1 DEF Open
<1> QED BY <1>1, <1>2, <1>11, <1>12, <1>13 DEF Built, Grows

-----------------------------------------------------------------------------
(* The ends of the nested lists. *)

Rest == FrameBlocks(Pop1(frames))

LEMMA ClosingFacts ==
  ASSUME Built, NEW kind, Closing(kind)
  PROVE  /\ frames # <<>> /\ Top.kind = kind /\ UNCHANGED <<header, syms>>
         /\ stmts' \in Nat
         /\ Top \in Frame /\ FrameOk(Top)
         /\ Pop1(frames) \in Seq(Frame) /\ Len(Pop1(frames)) = Len(frames) - 1
         /\ \A c2 : c2 \notin Rest => Apart(Pop1(frames), c2)
         /\ FrameBlocks(frames) = Rest \cup ({OpenBlock(Top)} \ {NoBlock})
         /\ OpenBlock(Top) \notin Rest /\ cur \notin Rest
         /\ ScopesOk(PopScope) /\ Len(PopScope) = Len(frames)
         /\ Len(frames) \in Nat
<1>1. frames # <<>> /\ Top.kind = kind /\ UNCHANGED <<header, syms>> /\ stmts' = stmts
  BY DEF Closing
<1>2. frames \in Seq(Frame) /\ Apart(frames, cur) /\ cur \notin FrameBlocks(frames)
      /\ stmts \in Nat /\ Len(frames) \in Nat
  BY BuiltFacts
<1>3. /\ Pop1(frames) \in Seq(Frame) /\ Len(Pop1(frames)) = Len(frames) - 1
      /\ Len(frames) \in DOMAIN frames /\ Top \in Frame
      /\ FrameBlocks(frames) = Rest \cup ({OpenBlock(Top)} \ {NoBlock})
      /\ OpenBlock(Top) \notin Rest
      /\ \A c2 : c2 \notin Rest => Apart(Pop1(frames), c2)
  BY <1>1, <1>2, FramePopped DEF Top, Rest
<1>4. FrameOk(Top)
  BY <1>3 DEF Built, FramesOk, Top
<1>5. ScopesOk(PopScope) /\ Len(PopScope) = Len(scopes) - 1
      /\ Len(scopes) = Len(frames) + 1
  BY BuiltFacts, ScopePopped
<1> QED BY <1>1, <1>2, <1>3, <1>4, <1>5

(* Closing a list whose scope is dropped.                                  *)
LEMMA ClosedSymbols ==
  ASSUME Built, NEW kind, Closing(kind), scopes' = PopScope, frames' = Pop1(frames)
  PROVE  Grows
<1>1. /\ Len(Pop1(frames)) = Len(frames) - 1 /\ Len(PopScope) = Len(frames)
      /\ ScopesOk(PopScope) /\ UNCHANGED <<header, syms>> /\ stmts' \in Nat
      /\ Len(frames) \in Nat
  BY ClosingFacts
<1>2. Len(PopScope) = Len(frames') + 1
  BY <1>1
<1>3. SymbolsOk'
  BY <1>1, <1>2, ScopesKept DEF Built
<1> QED BY <1>1, <1>3 DEF Grows

LEMMA CloseBorrowKeeps ==
  ASSUME Built, CloseBorrow PROVE Built'
<1>1. Closing("borrow") /\ scopes' = PopScope /\ frames' = Pop1(frames) /\ cur' = cur
  BY DEF CloseBorrow
<1>2. /\ frames # <<>> /\ Top.kind = "borrow" /\ syms' = syms /\ FrameOk(Top)
      /\ FrameBlocks(frames) = Rest \cup ({OpenBlock(Top)} \ {NoBlock})
      /\ cur \notin Rest
  BY <1>1, ClosingFacts
<1>3. Grows
  BY <1>1, ClosedSymbols
<1>4. GraphOk(blocks', [syms |-> syms'], Open) /\ DOMAIN blocks' = DOMAIN blocks
  <2>1. CASE cur = NoBlock
    <3>1. UNCHANGED blocks
      BY <2>1 DEF CloseBorrow
    <3> QED BY <1>2, <3>1 DEF Built
  <2>2. CASE cur # NoBlock
    <3>1. Emit(<<Top.end>>) /\ InstrOk([syms |-> syms'], Top.end)
      BY <1>2, <2>2 DEF CloseBorrow, FrameOk
    <3>2. Emits
      BY <3>1, EmitsOne
    <3> QED BY <1>3, <2>2, <3>2, EmitsKeeps DEF Grows
  <2> QED BY <2>1, <2>2
<1>5. FrameBlocks(frames') = Rest /\ FrameBlocks(frames) = Rest
  BY <1>1, <1>2 DEF OpenBlock, Rest
<1>6. FramesOk'
  BY <1>1, <1>2, <1>3, <1>4, <1>5, PoppedOk
<1>7. Open' = Open
  BY <1>1, <1>5 DEF Open
<1> QED BY <1>3, <1>4, <1>6, <1>7 DEF Built, Grows

LEMMA StartElseKeeps ==
  ASSUME Built, StartElse PROVE Built'
<1> DEFINE frame == [kind |-> "else", then |-> cur]
<1>1. /\ Closing("then") /\ scopes' = Append(PopScope, <<>>)
      /\ frames' = Append(Pop1(frames), frame)
      /\ cur' = Top.els /\ blocks' = blocks
  BY DEF StartElse
<1>2. /\ frames # <<>> /\ Top.kind = "then" /\ UNCHANGED <<header, syms>>
      /\ stmts' \in Nat /\ Top \in Frame /\ FrameOk(Top)
      /\ Pop1(frames) \in Seq(Frame) /\ Len(Pop1(frames)) = Len(frames) - 1
      /\ FrameBlocks(frames) = Rest \cup ({OpenBlock(Top)} \ {NoBlock})
      /\ OpenBlock(Top) \notin Rest /\ cur \notin Rest
      /\ ScopesOk(PopScope) /\ Len(PopScope) = Len(frames) /\ Len(frames) \in Nat
      /\ Apart(Pop1(frames), cur)
  BY <1>1, ClosingFacts
<1>3. OpenBlock(Top) = Top.els /\ Top.els # NoBlock
  BY <1>2 DEF OpenBlock, FrameOk
<1>4. cur # Top.els /\ cur \in Nat
  <2>1. cur \notin FrameBlocks(frames)
    BY BuiltFacts
  <2>2. cur = NoBlock \/ cur \in DOMAIN blocks
    BY BuiltFacts
  <2>3. DOMAIN blocks \subseteq Nat
    BY BuiltFacts
  <2> QED BY <1>2, <1>3, <2>1, <2>2, <2>3 DEF NoBlock
<1>5. frame \in Frame /\ OpenBlock(frame) = cur /\ \E f : f = frame /\ FrameOk(f)'
  BY <1>4 DEF Frame, OpenBlock, FrameOk
<1> HIDE DEF frame
<1>6. /\ frames' \in Seq(Frame) /\ Len(frames') = Len(frames)
      /\ FrameBlocks(frames') = Rest \cup ({cur} \ {NoBlock})
      /\ Apart(frames', cur')
  <2> DEFINE fs == Pop1(frames)
  <2>1. /\ fs \in Seq(Frame) /\ Apart(fs, cur) /\ cur' \notin FrameBlocks(fs)
        /\ OpenBlock(frame) \notin FrameBlocks(fs)
        /\ OpenBlock(frame) # NoBlock => OpenBlock(frame) # cur'
        /\ Len(fs) = Len(frames) - 1
    BY <1>1, <1>2, <1>3, <1>4, <1>5 DEF Rest
  <2> HIDE DEF fs
  <2>2. /\ Append(fs, frame) \in Seq(Frame) /\ Len(Append(fs, frame)) = Len(fs) + 1
        /\ FrameBlocks(Append(fs, frame)) =
             FrameBlocks(fs) \cup ({OpenBlock(frame)} \ {NoBlock})
        /\ Apart(Append(fs, frame), cur')
    BY <1>5, <2>1, FramePushed
  <2> QED BY <1>1, <1>2, <1>5, <2>1, <2>2 DEF fs, Rest
<1>7. SymbolsOk'
  <2> DEFINE scs == Append(PopScope, <<>>)
  <2>1. ScopesOk(scs) /\ Len(scs) = Len(PopScope) + 1
    BY <1>2, ScopePushed
  <2> HIDE DEF scs
  <2>2. scopes' = scs
    BY <1>1 DEF scs
  <2> QED BY <1>2, <1>6, <2>1, <2>2, ScopesKept DEF Built
<1>8. Grows
  BY <1>2, <1>7 DEF Grows
<1>9. \A j \in DOMAIN frames' : \E f : f = frames'[j] /\ FrameOk(f)'
  <2> DEFINE fs == Pop1(frames)
  <2>1. /\ fs \in Seq(Frame) /\ DOMAIN fs \subseteq DOMAIN frames
        /\ \A j \in DOMAIN fs : fs[j] = frames[j]
    BY <1>2, BuiltFacts, FramePopped
  <2> HIDE DEF fs
  <2>2. /\ frames' = Append(fs, frame) /\ Len(fs) \in Nat
        /\ DOMAIN frames' = 1 .. Len(fs) + 1 /\ DOMAIN fs = 1 .. Len(fs)
        /\ \A j \in DOMAIN fs : frames'[j] = fs[j]
        /\ frames'[Len(fs) + 1] = frame
    BY <1>1, <1>5, <2>1, AppendFacts DEF fs
  <2>3. ASSUME NEW j \in DOMAIN frames' PROVE \E f : f = frames'[j] /\ FrameOk(f)'
    <3>1. CASE j \in DOMAIN fs
      <4>1. \E f : f = frames[j] /\ FrameOk(f)'
        BY <1>1, <1>8, <2>1, <3>1, FramesStay
      <4> QED BY <2>1, <2>2, <3>1, <4>1
    <3>2. CASE j \notin DOMAIN fs
      <4>1. j = Len(fs) + 1
        BY <2>2, <2>3, <3>2
      <4> QED BY <1>5, <2>2, <4>1
    <3> QED BY <3>1, <3>2
  <2> QED BY <2>3
<1>10. FramesOk'
  BY <1>6, <1>9, FramesMade
<1>11. Open' = Open
  BY <1>1, <1>2, <1>3, <1>6 DEF Open
<1>12. GraphOk(blocks', [syms |-> syms'], Open')
  BY <1>1, <1>2, <1>11 DEF Built
<1> QED BY <1>7, <1>10, <1>12 DEF Built

(* The branches that reach the end of the if are joined in a new block.    *)
LEMMA JoinBlocks ==
  ASSUME Built, CloseIf, NEW exits, exits = {Top.then, cur} \ {NoBlock},
         NEW merge, merge = Len(blocks) + 1, exits # {}, exits \subseteq DOMAIN blocks
  PROVE  /\ cur' = merge /\ blocks' \in Seq(BlockType)
         /\ DOMAIN blocks' = DOMAIN blocks \cup {merge}
         /\ blocks'[merge] = NewBlock
         /\ \A b \in exits : /\ blocks'[b].instrs = blocks[b].instrs
                              /\ blocks'[b].succ = <<merge>>
                              /\ Targets(blocks', b) = {merge}
         /\ \A b \in DOMAIN blocks \ exits : blocks'[b] = blocks[b]
<1> DEFINE joined(b) == [blocks[b] EXCEPT !.succ = <<merge>>]
<1>0. blocks \in Seq(BlockType)
  BY BuiltFacts
<1>1. /\ cur' = merge
      /\ blocks' = [b \in 1 .. merge |->
                      CASE b = merge   -> NewBlock
                        [] b \in exits -> joined(b)
                        [] OTHER       -> blocks[b]]
  BY DEF CloseIf
<1>2. /\ merge \in Nat /\ merge \notin DOMAIN blocks
      /\ 1 .. merge = DOMAIN blocks \cup {merge}
  BY BuiltFacts
<1>3. \A b \in DOMAIN blocks : /\ joined(b) \in BlockType
                               /\ joined(b).instrs = blocks[b].instrs
                               /\ joined(b).succ = <<merge>>
  <2>1. \A b \in DOMAIN blocks : blocks[b] \in BlockType
    BY <1>0
  <2>2. ASSUME NEW x \in BlockType
        PROVE  /\ [x EXCEPT !.succ = <<merge>>] \in BlockType
               /\ [x EXCEPT !.succ = <<merge>>].instrs = x.instrs
               /\ [x EXCEPT !.succ = <<merge>>].succ = <<merge>>
    <3> DEFINE ss == <<merge>>
    <3>1. ss \in Seq(Nat)
      BY <1>2
    <3> HIDE DEF ss
    <3>2. /\ [x EXCEPT !.succ = ss] \in BlockType
          /\ [x EXCEPT !.succ = ss].instrs = x.instrs
          /\ [x EXCEPT !.succ = ss].succ = ss
      BY <3>1 DEF BlockType
    <3> QED BY <3>2 DEF ss
  <2> QED BY <2>1, <2>2
<1> HIDE DEF joined
<1>4. /\ DOMAIN blocks' = DOMAIN blocks \cup {merge}
      /\ blocks'[merge] = NewBlock
      /\ \A b \in exits : blocks'[b] = joined(b)
      /\ \A b \in DOMAIN blocks \ exits : blocks'[b] = blocks[b]
  BY <1>1, <1>2
<1>5. blocks' \in Seq(BlockType)
  <2>1. \A b \in 1 .. merge : blocks'[b] \in BlockType
    BY <1>0, <1>2, <1>3, <1>4, NewBlockFacts
  <2>2. blocks' \in [1 .. merge -> BlockType]
    BY <1>1, <2>1
  <2> QED BY <1>2, <2>2
<1>6. \A b \in exits : Targets(blocks', b) = {merge}
  BY <1>2, <1>3, <1>4 DEF Targets
<1> QED BY <1>1, <1>3, <1>4, <1>5, <1>6

LEMMA CloseIfKeeps ==
  ASSUME Built, CloseIf PROVE Built'
<1> DEFINE exits == {Top.then, cur} \ {NoBlock}
           merge == Len(blocks) + 1
<1>1. Closing("else") /\ scopes' = PopScope /\ frames' = Pop1(frames)
  BY DEF CloseIf
<1>2. /\ frames # <<>> /\ Top.kind = "else" /\ syms' = syms
      /\ FrameBlocks(frames) = Rest \cup ({OpenBlock(Top)} \ {NoBlock})
      /\ OpenBlock(Top) \notin Rest /\ cur \notin Rest
  BY <1>1, ClosingFacts
<1>3. OpenBlock(Top) = Top.then
  BY <1>2 DEF OpenBlock
<1>4. /\ Open = exits \cup Rest /\ exits \cap Rest = {} /\ NoBlock \notin Rest
  BY <1>2, <1>3 DEF Open, Rest, FrameBlocks
<1>5. FrameBlocks(frames') = Rest
  BY <1>1 DEF Rest
<1>6. Grows
  BY <1>1, ClosedSymbols
<1>7. /\ blocks \in Seq(BlockType) /\ Len(blocks) \in Nat
      /\ DOMAIN blocks = 1 .. Len(blocks) /\ Entry \in DOMAIN blocks
      /\ GraphOk(blocks, [syms |-> syms], Open) /\ Open \subseteq DOMAIN blocks
  BY BuiltFacts DEF GraphOk
<1>8. CASE exits = {}
  <2>1. UNCHANGED <<blocks, cur>> /\ cur = NoBlock
    BY <1>8 DEF CloseIf
  <2>2. Open' = Open
    BY <1>4, <1>5, <1>8, <2>1 DEF Open
  <2>3. FramesOk'
    BY <1>1, <1>2, <1>5, <1>6, <2>1, PoppedOk
  <2>4. GraphOk(blocks', [syms |-> syms'], Open')
    BY <1>2, <1>7, <2>1, <2>2
  <2> QED BY <1>6, <2>3, <2>4 DEF Built, Grows
<1>9. CASE exits # {}
  <2> DEFINE open == {merge} \cup Rest
  <2>1. /\ merge \in Nat /\ merge \notin DOMAIN blocks /\ merge # NoBlock
        /\ 1 .. merge = DOMAIN blocks \cup {merge} /\ merge # Entry
        /\ \A b \in DOMAIN blocks : b < merge
        /\ exits \subseteq DOMAIN blocks /\ Rest \subseteq DOMAIN blocks
    BY <1>4, <1>7 DEF NoBlock
  <2>2. /\ cur' = merge /\ blocks' \in Seq(BlockType)
        /\ DOMAIN blocks' = DOMAIN blocks \cup {merge}
        /\ blocks'[merge] = NewBlock
        /\ \A b \in exits : /\ blocks'[b].instrs = blocks[b].instrs
                             /\ blocks'[b].succ = <<merge>>
                             /\ Targets(blocks', b) = {merge}
        /\ \A b \in DOMAIN blocks \ exits : blocks'[b] = blocks[b]
    BY <1>9, <2>1, JoinBlocks
  <2> HIDE DEF merge, exits
  <2>3. \A d \in DOMAIN blocks' : Targets(blocks', d) \subseteq DOMAIN blocks' \ {Entry}
    <3>1. \A d \in DOMAIN blocks \ exits : Targets(blocks', d) = Targets(blocks, d)
      BY <2>2 DEF Targets
    <3>2. \A d \in DOMAIN blocks : Targets(blocks, d) \subseteq DOMAIN blocks \ {Entry}
      BY <1>7 DEF GraphOk
    <3>3. Targets(blocks', merge) = {}
      BY <2>2, NewBlockFacts DEF Targets
    <3> QED BY <2>1, <2>2, <3>1, <3>2, <3>3
  <2>4. GraphOk(blocks', [syms |-> syms], open)
    <3>1. \A d \in DOMAIN blocks : blocks'[d].instrs = blocks[d].instrs
      BY <2>2
    <3>2. \A d \in DOMAIN blocks' \ DOMAIN blocks : d = merge /\ blocks'[d].instrs = <<>>
      BY <2>2, NewBlockFacts
    <3>3. \A d \in DOMAIN blocks' \ DOMAIN blocks :
             \E p \in DOMAIN blocks' : p < d /\ d \in Targets(blocks', p)
      <4>1. PICK p \in exits : TRUE
        BY <1>9
      <4> QED BY <2>1, <2>2, <3>2, <4>1
    <3>4. \A d \in Rest : blocks'[d].succ = <<>>
      BY <1>4, <1>7, <2>1, <2>2 DEF GraphOk
    <3>5. open \subseteq DOMAIN blocks' /\ \A d \in open : blocks'[d].succ = <<>>
      BY <2>1, <2>2, <3>4, NewBlockFacts
    <3>6. \A d \in DOMAIN blocks' \ open :
             d \in DOMAIN blocks \ Open \/ blocks'[d].succ # <<>>
      <4>1. ASSUME NEW d \in exits PROVE blocks'[d].succ # <<>>
        <5>1. blocks'[d].succ = <<merge>>
          BY <2>2
        <5> QED BY <5>1
      <4> QED BY <1>4, <2>2, <4>1
    <3>7. \A d \in DOMAIN blocks \ Open : blocks'[d] = blocks[d]
      BY <1>4, <2>2
    <3>8. DOMAIN blocks \subseteq DOMAIN blocks'
          /\ \A d \in DOMAIN blocks' \ DOMAIN blocks : blocks'[d].instrs = <<>>
      BY <2>2, <3>2
    <3> HIDE DEF open
    <3>9. PICK bs, new, c, o : bs = blocks /\ new = blocks' /\ c = [syms |-> syms] /\ o = Open
      OBVIOUS
    <3>10. GraphOk(bs, c, o) /\ new \in Seq(BlockType) /\ DOMAIN bs \subseteq DOMAIN new
           /\ open \subseteq DOMAIN new
      BY <1>7, <2>2, <3>5, <3>8, <3>9
    <3>11. /\ \A d \in DOMAIN bs : new[d].instrs = bs[d].instrs
           /\ \A d \in DOMAIN new \ DOMAIN bs : new[d].instrs = <<>>
           /\ \A d \in DOMAIN bs \ o : new[d] = bs[d]
      BY <3>1, <3>7, <3>8, <3>9
    <3>12. \A d \in DOMAIN new : Targets(new, d) \subseteq DOMAIN new \ {Entry}
      BY <2>3, <3>9
    <3>13. \A d \in DOMAIN new \ DOMAIN bs : \E p \in DOMAIN new : p < d /\ d \in Targets(new, p)
      BY <3>3, <3>9
    <3>14. /\ \A d \in open : new[d].succ = <<>>
           /\ \A d \in DOMAIN new \ open : d \in DOMAIN bs \ o \/ new[d].succ # <<>>
      BY <3>5, <3>6, <3>9
    <3>15. GraphOk(new, c, open)
      BY <3>10, <3>11, <3>12, <3>13, <3>14, GraphLinks
    <3> QED BY <3>9, <3>15
  <2>5. cur' \notin FrameBlocks(frames')
    BY <1>5, <2>1, <2>2
  <2>6. FramesOk'
    BY <1>1, <1>2, <1>6, <2>2, <2>5, PoppedOk
  <2>7. Open' = open
    BY <1>5, <2>1, <2>2 DEF Open
  <2> QED BY <1>2, <1>6, <2>4, <2>6, <2>7 DEF Built, Grows
<1> QED BY <1>8, <1>9

(* The end of a loop's body jumps back to the header.                      *)
LEMMA CloseWhileKeeps ==
  ASSUME Built, CloseWhile PROVE Built'
<1> DEFINE back == <<Top.header>>
<1>1. /\ Closing("while") /\ scopes' = PopScope /\ frames' = Pop1(frames)
      /\ blocks' = IF cur # NoBlock THEN Linked(blocks, cur, back) ELSE blocks
      /\ cur' = Top.after
  BY DEF CloseWhile
<1>2. /\ frames # <<>> /\ Top.kind = "while" /\ syms' = syms /\ FrameOk(Top)
      /\ FrameBlocks(frames) = Rest \cup ({OpenBlock(Top)} \ {NoBlock})
      /\ OpenBlock(Top) \notin Rest /\ cur \notin Rest
  BY <1>1, ClosingFacts
<1>3. OpenBlock(Top) = Top.after /\ Top.after # NoBlock
      /\ Top.header \in DOMAIN blocks \ {Entry}
  BY <1>2 DEF OpenBlock, FrameOk
<1>4. FrameBlocks(frames) = Rest \cup {Top.after} /\ Top.after \notin Rest
  BY <1>2, <1>3
<1>5. FrameBlocks(frames') = Rest
  BY <1>1 DEF Rest
<1>6. Grows
  BY <1>1, ClosedSymbols
<1>7. /\ blocks \in Seq(BlockType) /\ DOMAIN blocks \subseteq Nat
      /\ GraphOk(blocks, [syms |-> syms], Open)
      /\ cur # NoBlock => cur \in DOMAIN blocks /\ cur \in Open
      /\ cur \notin FrameBlocks(frames)
  BY BuiltFacts
<1>8. Open' = FrameBlocks(frames)
  BY <1>1, <1>3, <1>4, <1>5 DEF Open
<1>9. GraphOk(blocks', [syms |-> syms], FrameBlocks(frames))
      /\ DOMAIN blocks' = DOMAIN blocks
  <2>1. CASE cur = NoBlock
    <3>1. Open = FrameBlocks(frames) /\ blocks' = blocks
      BY <1>1, <2>1 DEF Open
    <3> QED BY <1>7, <3>1
  <2>2. CASE cur # NoBlock
    <3>1. back \in Seq(Nat) /\ back # <<>> /\ blocks' = Linked(blocks, cur, back)
          /\ back[1] = Top.header /\ DOMAIN back = {1}
      BY <1>1, <1>3, <1>7, <2>2
    <3> HIDE DEF back
    <3>2. blocks \in Seq(BlockType) /\ cur \in DOMAIN blocks
      BY <1>7, <2>2
    <3>3. /\ blocks' \in Seq(BlockType) /\ DOMAIN blocks' = DOMAIN blocks
          /\ blocks'[cur].instrs = blocks[cur].instrs
          /\ blocks'[cur].succ = back
          /\ \A d \in DOMAIN blocks \ {cur} : blocks'[d] = blocks[d]
      BY <3>1, <3>2, LinkedFacts, ZenonT(60)
    <3>4. Targets(blocks', cur) = {Top.header}
      BY <3>1, <3>3 DEF Targets
    <3>5. \A d \in DOMAIN blocks' : Targets(blocks', d) \subseteq DOMAIN blocks' \ {Entry}
      <4>1. \A d \in DOMAIN blocks \ {cur} : Targets(blocks', d) = Targets(blocks, d)
        BY <3>3 DEF Targets
      <4>2. \A d \in DOMAIN blocks : Targets(blocks, d) \subseteq DOMAIN blocks \ {Entry}
        BY <1>7 DEF GraphOk
      <4> QED BY <1>3, <3>3, <3>4, <4>1, <4>2
    <3> DEFINE open == FrameBlocks(frames)
    <3>6. Open = {cur} \cup open /\ cur \notin open
      BY <1>7, <2>2 DEF Open
    <3>7. open \subseteq DOMAIN blocks' /\ \A d \in open : blocks'[d].succ = <<>>
      BY <1>7, <3>3, <3>6 DEF GraphOk
    <3> HIDE DEF open
    <3>8. /\ \A d \in DOMAIN blocks : blocks'[d].instrs = blocks[d].instrs
          /\ \A d \in DOMAIN blocks \ Open : blocks'[d] = blocks[d]
          /\ \A d \in DOMAIN blocks' \ open :
                d \in DOMAIN blocks \ Open \/ blocks'[d].succ # <<>>
          /\ DOMAIN blocks' \ DOMAIN blocks = {}
      BY <3>1, <3>3, <3>6
    <3>9. GraphOk(blocks', [syms |-> syms], open)
      BY <1>7, <3>3, <3>5, <3>7, <3>8, GraphLinks
    <3> QED BY <3>3, <3>9 DEF open
  <2> QED BY <2>1, <2>2
<1>10. cur' \notin FrameBlocks(frames')
  BY <1>1, <1>4, <1>5
<1>11. FramesOk'
  BY <1>1, <1>2, <1>6, <1>9, <1>10, PoppedOk
<1> QED BY <1>2, <1>6, <1>8, <1>9, <1>11 DEF Built, Grows

LEMMA BuilderKeeps ==
  ASSUME Built, BuilderStep PROVE Built'
<1>1. CASE StraightStmt
  <2>1. Straight
    BY <1>1, StraightStep DEF Built
  <2>2. cur # NoBlock
    BY <1>1 DEF StraightStmt, LetAcquire, LetBuffer, LetMove, AliasOf, LetCopy,
       LetInt, ReleaseStmt, UseStmt, OverspanStmt, CallStmt, OnOwned, Derived,
       Statement
  <2> QED BY <2>1, <2>2, StraightKeeps
<1>2. ASSUME NEW m \in Mentionable, NEW n \in header.names, NEW mut \in BOOLEAN,
             OpenBorrow(m, n, mut)
      PROVE  Built'
  BY <1>2, OpenBorrowKeeps
<1>3. \/ StraightStmt
      \/ \E m \in Mentionable, n \in header.names, mut \in BOOLEAN :
            OpenBorrow(m, n, mut)
      \/ OpenIf \/ OpenWhile
      \/ \E m \in Mentionable \cup {"nothing"} : ReturnStmt(m)
      \/ CloseBorrow \/ StartElse \/ CloseIf \/ CloseWhile
  BY DEF BuilderStep, StraightStmt
<1> QED BY <1>1, <1>2, <1>3, OpenIfKeeps, OpenWhileKeeps, ReturnKeeps,
        CloseBorrowKeeps, StartElseKeeps, CloseIfKeeps, CloseWhileKeeps

-----------------------------------------------------------------------------
(* The graph that build() returns. *)

LEMMA BuiltGraph ==
  ASSUME Built
  PROVE  /\ WellFormed(BuiltCfg) /\ Blocks(BuiltCfg) = DOMAIN blocks
         /\ \A b \in DOMAIN blocks : Succs(BuiltCfg, b) = Targets(blocks, b)
         /\ \A b \in DOMAIN blocks : BuiltCfg.instrs[b] = blocks[b].instrs
         /\ \A b \in DOMAIN blocks : BuiltCfg.succ[b] = blocks[b].succ
<1> DEFINE c == BuiltCfg
<1>1. /\ blocks \in Seq(BlockType) /\ Len(blocks) \in Nat \ {0}
      /\ DOMAIN blocks = 1 .. Len(blocks) /\ GraphOk(blocks, [syms |-> syms], Open)
  <2>1. Len(blocks) # 0
    BY BuiltFacts DEF Entry
  <2> QED BY <2>1, BuiltFacts
<1>2. \A b \in DOMAIN blocks : /\ blocks[b].instrs \in Seq(Instr)
                               /\ blocks[b].succ \in Seq(DOMAIN blocks)
                               /\ Entry \notin Targets(blocks, b)
  <2> SUFFICES ASSUME NEW b \in DOMAIN blocks
               PROVE  /\ blocks[b].instrs \in Seq(Instr)
                      /\ blocks[b].succ \in Seq(DOMAIN blocks)
                      /\ Entry \notin Targets(blocks, b)
    OBVIOUS
  <2>1. blocks[b] \in BlockType
    BY <1>1
  <2>2. blocks[b].instrs \in Seq(Instr) /\ blocks[b].succ \in Seq(Nat)
    BY <2>1 DEF BlockType
  <2>3. Targets(blocks, b) \subseteq DOMAIN blocks \ {Entry}
    BY <1>1 DEF GraphOk
  <2>4. \A j \in DOMAIN blocks[b].succ : blocks[b].succ[j] \in DOMAIN blocks
    BY <2>3 DEF Targets
  <2>5. blocks[b].succ \in Seq(DOMAIN blocks)
    <3> DEFINE q == blocks[b].succ
    <3>1. q \in Seq(Nat) /\ \A j \in DOMAIN q : q[j] \in DOMAIN blocks
      BY <2>2, <2>4
    <3> HIDE DEF q
    <3>2. q \in Seq(DOMAIN blocks)
      BY <3>1
    <3> QED BY <3>2 DEF q
  <2> QED BY <2>2, <2>3, <2>5
<1>3. /\ c.instrs = [b \in DOMAIN blocks |-> blocks[b].instrs]
      /\ c.succ = [b \in DOMAIN blocks |-> blocks[b].succ]
      /\ c.syms = syms /\ c.params = DOMAIN header.params
  BY DEF BuiltCfg
<1> HIDE DEF c
<1>4. /\ Blocks(c) = DOMAIN blocks
      /\ \A b \in DOMAIN blocks : c.instrs[b] = blocks[b].instrs
      /\ \A b \in DOMAIN blocks : c.succ[b] = blocks[b].succ
  BY <1>3 DEF Blocks
<1>5. \A b \in DOMAIN blocks : Succs(c, b) = Targets(blocks, b)
  BY <1>4 DEF Succs, Targets
<1>6. c.instrs \in Seq(Seq(Instr)) /\ Len(c.instrs) > 0 /\ Len(c.succ) = Len(c.instrs)
      /\ c.succ \in Seq(Seq(DOMAIN blocks))
  BY <1>1, <1>2, <1>3
<1>7. \A b \in DOMAIN blocks : \A j \in DOMAIN c.instrs[b] : InstrOk(c, c.instrs[b][j])
  <2>1. \A b \in DOMAIN blocks : \A j \in DOMAIN blocks[b].instrs :
           InstrOk([syms |-> syms], blocks[b].instrs[j])
    BY <1>1 DEF GraphOk
  <2>2. \A i : InstrOk([syms |-> syms], i) => InstrOk(c, i)
    BY <1>3 DEF InstrOk
  <2> QED BY <1>4, <2>1, <2>2
<1>8. /\ c.syms \in Seq(SymInfo) /\ DOMAIN c.syms \subseteq Sym
      /\ c.params \subseteq DOMAIN c.syms
  BY <1>3 DEF Built, SymbolsOk
<1>9. WellFormed(c)
  BY <1>2, <1>4, <1>5, <1>6, <1>7, <1>8 DEF WellFormed
<1> QED BY <1>4, <1>5, <1>9 DEF c

(* Every block is reachable: each has a predecessor with a smaller number. *)
LEMMA AllReachable ==
  ASSUME NEW c, WellFormed(c),
         \A b \in Blocks(c) \ {Entry} : \E p \in Preds(c, b) : p < b
  PROVE  Reachable(c) = Blocks(c)
<1> SUFFICES ASSUME NEW R \in SUBSET Blocks(c), Entry \in R,
                    \A p \in R : Succs(c, p) \subseteq R
             PROVE  Blocks(c) \subseteq R
  BY DEF Reachable
<1>1. Blocks(c) \subseteq Nat
  BY DEF WellFormed, Blocks
<1>2. CASE Blocks(c) \ R # {}
  <2>1. PICK m \in Blocks(c) \ R : \A x \in Blocks(c) \ R : m <= x
    BY <1>1, <1>2, LeastNat
  <2>2. PICK p \in Preds(c, m) : p < m
    BY <2>1
  <2>3. p \in Blocks(c) /\ m \in Succs(c, p)
    BY <2>2 DEF Preds
  <2>4. p \in R
    BY <1>1, <2>1, <2>2, <2>3
  <2> QED BY <2>1, <2>3, <2>4
<1> QED BY <1>2

LEMMA BuiltSound ==
  ASSUME Built, frames = <<>>
  PROVE  SoundGraph(BuiltCfg, Reachable(BuiltCfg))
<1> DEFINE c == BuiltCfg
<1>1. /\ WellFormed(c) /\ Blocks(c) = DOMAIN blocks
      /\ \A b \in DOMAIN blocks : Succs(c, b) = Targets(blocks, b)
      /\ \A b \in DOMAIN blocks : c.instrs[b] = blocks[b].instrs
      /\ \A b \in DOMAIN blocks : c.succ[b] = blocks[b].succ
  BY BuiltGraph
<1> HIDE DEF c
<1>2. GraphOk(blocks, [syms |-> syms], Open)
  BY DEF Built
<1>3. \A b \in Blocks(c) \ {Entry} : \E p \in Preds(c, b) : p < b
  BY <1>1, <1>2 DEF GraphOk, Preds
<1>4. Reachable(c) = Blocks(c)
  BY <1>1, <1>3, AllReachable
<1>5. Open \subseteq {cur}
  BY DEF Open, FrameBlocks
<1>6. \A b \in Blocks(c) : FallsOffEnd(c, b) => b = cur
  BY <1>1, <1>2, <1>5 DEF GraphOk, FallsOffEnd, Returns
<1>7. Cardinality({b \in Blocks(c) : FallsOffEnd(c, b)}) <= 1
  <2> DEFINE S == {b \in Blocks(c) : FallsOffEnd(c, b)}
  <2>1. S = {} \/ S = {cur}
    BY <1>6
  <2> HIDE DEF S
  <2>2. Cardinality(S) = 0 \/ Cardinality(S) = 1
    BY <2>1, FS_EmptySet, FS_Singleton, Zenon
  <2>3. Cardinality(S) <= 1
    BY <2>2
  <2> QED BY <2>3 DEF S
<1> QED BY <1>1, <1>3, <1>4, <1>7 DEF SoundGraph, c

(* Before the first statement.                                             *)
LEMMA InitBuilt == BuilderInit => Built
<1> SUFFICES ASSUME BuilderInit PROVE Built
  OBVIOUS
<1> DEFINE ps == header.params  n == Len(ps)
           scope == [x \in ParamNames |->
                       CHOOSE j \in DOMAIN ps : ps[j].name = x]
<1>1. /\ header \in Headers /\ stmts = 0 /\ frames = <<>> /\ cur = Entry
      /\ syms = [j \in DOMAIN ps |-> ParamSym(ps[j])]
      /\ scopes = <<scope>> /\ blocks = <<NewBlock>>
  BY DEF BuilderInit
<1>2. /\ n \in Nat /\ DOMAIN ps = 1 .. n /\ DOMAIN ps \subseteq Sym
      /\ \A j \in DOMAIN ps : /\ ps[j].borrowed \in BOOLEAN
                              /\ ps[j].mut \in BOOLEAN /\ ps[j].type \in STRING
  BY <1>1, HeadersAssumption
<1>3. \A j \in DOMAIN ps : ParamSym(ps[j]) \in SymInfo
  <2> SUFFICES ASSUME NEW p, p.borrowed \in BOOLEAN, p.mut \in BOOLEAN,
                      p.type \in STRING
               PROVE  ParamSym(p) \in SymInfo
    BY <1>2
  <2>1. CASE p.borrowed
    <3> DEFINE b == BorrowOf(p.mut)
    <3>1. b \in SymInfo
      BY TypesAssumption, SymbolMade
    <3>2. ParamSym(p) = [b EXCEPT !.param = TRUE, !.type = p.type]
      BY <2>1 DEF ParamSym
    <3> HIDE DEF b
    <3> QED BY <3>1, <3>2 DEF SymInfo
  <2>2. CASE ~ p.borrowed
    <3>1. Owned(p.type) \in SymInfo /\ Plain(p.type) \in SymInfo
      BY SymbolMade
    <3> QED BY <2>2, <3>1 DEF ParamSym
  <2> QED BY <2>1, <2>2
<1>4. scope \in Scope /\ \A x \in DOMAIN scope : scope[x] \in DOMAIN syms
  <2>1. \A x \in ParamNames : scope[x] \in DOMAIN ps
    BY DEF ParamNames
  <2>2. scope \in [ParamNames -> Sym] /\ ParamNames \subseteq Mentionable
    BY <1>2, <2>1 DEF Mentionable
  <2>3. DOMAIN syms = DOMAIN ps
    BY <1>1
  <2> HIDE DEF scope
  <2> QED BY <2>1, <2>2, <2>3 DEF Scope
<1> HIDE DEF scope
<1>5. SymbolsOk
  <2>1. syms \in Seq(SymInfo) /\ DOMAIN syms = DOMAIN ps
    BY <1>1, <1>2, <1>3
  <2>2. scopes \in Seq(Scope) /\ Len(scopes) = 1 /\ \A j \in DOMAIN scopes : scopes[j] = scope
    BY <1>1, <1>4
  <2>3. Len(frames) = 0
    BY <1>1
  <2> QED BY <1>1, <1>2, <1>4, <2>1, <2>2, <2>3 DEF SymbolsOk
<1>6. FramesOk
  BY <1>1 DEF FramesOk, Apart, FrameBlocks
<1>7. GraphOk(blocks, [syms |-> syms], Open)
  <2>1. Open = {Entry}
    BY <1>1 DEF Open, FrameBlocks, Entry, NoBlock
  <2>2. blocks \in Seq(BlockType) /\ DOMAIN blocks = {Entry} /\ blocks[Entry] = NewBlock
        /\ blocks # <<>>
    BY <1>1, NewBlockFacts DEF Entry
  <2>3. Targets(blocks, Entry) = {}
    BY <2>2, NewBlockFacts DEF Targets
  <2> QED BY <2>1, <2>2, <2>3, NewBlockFacts DEF GraphOk
<1> QED BY <1>5, <1>6, <1>7 DEF Built

-----------------------------------------------------------------------------
(* The checker. *)

(* Whatever the checker does, to the analyzer it is one of its own steps.  *)
LEMMA CheckerCalls ==
  ASSUME BuilderInv, [CheckerNext]_allvars PROVE [AnyNext]_vars
<1>1. CASE Analyze
  <2>1. WellFormed(BuiltCfg)
    BY <1>1, BuiltGraph DEF Analyze, Complete, BuilderInv
  <2> QED BY <1>1, <2>1 DEF Analyze, AnyNext, AnyCall
<1> QED BY <1>1 DEF CheckerNext, AnalyzerTurn, AnyNext, allvars

LEMMA CheckerStep ==
  ASSUME CheckerInv, [CheckerNext]_allvars PROVE CheckerInv'
<1>1. IndInv'
  BY CheckerCalls, InvariantStep DEF CheckerInv
<1>2. BuilderInv'
  <2>1. CASE BuilderStep /\ UNCHANGED vars
    BY <2>1, BuilderKeeps DEF CheckerInv, BuilderInv, vars, avars
  <2>2. CASE Analyze
    BY <2>2 DEF Analyze, Begin, BuilderInv
  <2>3. CASE AnalyzerTurn
    BY <2>3 DEF AnalyzerTurn, BuilderInv, AnalyzerStep, Seed, Pop, Raise,
       SilentStep, Transfer, Store, Requeue, Converged, ReportBlock, JudgeStep,
       JudgedBlock, StartLeaks, LeakCheck, Finished
  <2>4. CASE UNCHANGED <<bvars, phase>>
    BY <2>4 DEF CheckerInv, BuilderInv, Built, SymbolsOk, FramesOk, FrameOk,
       Apart, FrameBlocks, Open, bvars, Scope, Mentionable, ParamNames
  <2>5. RunnerStep => UNCHANGED phase
    BY DEF RunnerStep, StartRun, Execute, GetStuck, Jump, Leave, avars
  <2> QED BY <2>1, <2>2, <2>3, <2>4, <2>5 DEF CheckerNext, allvars, vars, avars
<1>3. (phase # "idle" => SoundGraph(cfg, reach))'
  <2>1. CASE Analyze
    <3>1. cfg' = BuiltCfg /\ reach' = Reachable(BuiltCfg)
      BY <2>1 DEF Analyze, Begin
    <3>2. SoundGraph(BuiltCfg, Reachable(BuiltCfg))
      BY <2>1, BuiltSound DEF Analyze, Complete, CheckerInv, BuilderInv
    <3> QED BY <3>1, <3>2
  <2>2. CASE UNCHANGED <<cfg, reach>> /\ (phase' # "idle" => phase # "idle")
    BY <2>2 DEF CheckerInv
  <2>3. AnalyzerTurn => UNCHANGED <<cfg, reach>> /\ phase # "idle"
    BY DEF AnalyzerTurn, AnalyzerStep, Seed, Pop, Raise,
       SilentStep, Transfer, Store, Requeue, Converged, ReportBlock, JudgeStep,
       JudgedBlock, StartLeaks, LeakCheck, Finished
  <2>4. RunnerStep => UNCHANGED avars
    BY DEF RunnerStep, StartRun, Execute, GetStuck, Jump, Leave
  <2> QED BY <2>1, <2>2, <2>3, <2>4 DEF CheckerNext, allvars, vars, avars
<1> QED BY <1>1, <1>2, <1>3 DEF CheckerInv

(* The invariant of the builder, the analyzer and the run, for every       *)
(* function the checker may be given (`check_module`, `build_cfg`).        *)
THEOREM CheckerInvariant == CheckerSpec => []CheckerInv
<1>1. CheckerInit => CheckerInv
  <2> SUFFICES ASSUME CheckerInit PROVE CheckerInv
    OBVIOUS
  <2>1. Built /\ Init /\ phase = "idle"
    BY InitBuilt DEF CheckerInit, Init, AnalysisInit
  <2> QED BY <2>1, InitInvariant DEF CheckerInv, BuilderInv
<1>2. CheckerInv /\ [CheckerNext]_allvars => CheckerInv'
  BY CheckerStep
<1> QED BY <1>1, <1>2, PTL DEF CheckerSpec

(* Every graph the analyzer is given is one it can work on, and no block   *)
(* of it is out of reach (`build`, `reachable`).                           *)
THEOREM GraphsAreSound == CheckerSpec => []GraphSound
<1>1. CheckerInv => GraphSound
  BY DEF CheckerInv, SoundGraph, GraphSound
<1> QED BY <1>1, CheckerInvariant, PTL

(* The variables of the checker hold what their comments say.              *)
THEOREM CheckerTypes == CheckerSpec => []TypeOK
<1>1. CheckerInv => TypeOK
  BY DEF CheckerInv, IndInv, TypeInv
<1> QED BY <1>1, CheckerInvariant, PTL

(* What the analyzer promises of well-formed graphs is true of every       *)
(* function that is built and then analyzed (`check_module`).              *)
THEOREM CheckerSound ==
  CheckerSpec => [](StateCovered /\ FaultsDiagnosed /\ LeaksDiagnosed)
<1>1. CheckerInv => StateCovered /\ FaultsDiagnosed /\ LeaksDiagnosed
  BY DEF CheckerInv, IndInv, RunInv
<1> QED BY <1>1, CheckerInvariant, PTL

(* What the checker calls certain happens on every path of the function.   *)
THEOREM CheckerIsCertain == CheckerSpec => []DefiniteMeansEveryPath
<1>1. CheckerInv => DefiniteMeansEveryPath
  BY CertainOnEveryPath DEF CheckerInv
<1> QED BY <1>1, CheckerInvariant, PTL

(* A leak is only reported of an obligation that the function has.         *)
THEOREM CheckerLeaksAreReal == CheckerSpec => []NoPhantomLeaks
<1>1. CheckerInv => NoPhantomLeaks
  BY DEF CheckerInv, IndInv, OriginInv, NoPhantomLeaks
<1> QED BY <1>1, CheckerInvariant, PTL

(* The reporting pass of every function repeats what the fixpoint has      *)
(* converged to, and each diagnostic is appended once.                     *)
THEOREM CheckerReportsOnFixpoint == CheckerSpec => []ReportsOnFixpoint
<1>1. CheckerInv => ReportsOnFixpoint
  BY FixpointReported DEF CheckerInv
<1> QED BY <1>1, CheckerInvariant, PTL
=============================================================================
