------------------------- MODULE OwnBindingProofs -------------------------
(***************************************************************************)
(* What the text of a function says of its handles is true of every state  *)
(* of the analyzer and of every run: the merge assertions are never        *)
(* raised, a function without resolver errors never uses a handle that has *)
(* no obligation, and stack memory is not let out of its function.         *)
(***************************************************************************)
EXTENDS OwnBindings, OwnCheckerProofs

-----------------------------------------------------------------------------
(* The notes on a graph, as the graph grows. *)

(* A new symbol, which stands for obligation r.                            *)
Ext(A, new, r) ==
  [obl   |-> [h \in Sym |-> IF h = new THEN r ELSE A.obl[h]],
   bound |-> A.bound \cup {new},
   here  |-> A.here,
   loans |-> A.loans]

(* What is bound and open after position n of block c.                     *)
Noting(A, c, n, nh, nl) ==
  [obl   |-> A.obl,
   bound |-> A.bound,
   here  |-> [b \in Nat |-> [j \in Nat |-> IF b = c /\ j > n THEN nh
                                           ELSE A.here[b][j]]],
   loans |-> [b \in Nat |-> [j \in Nat |-> IF b = c /\ j > n THEN nl
                                           ELSE A.loans[b][j]]]]

(* New blocks.                                                             *)
Opening(A, N, nh, nl) ==
  [obl   |-> A.obl,
   bound |-> A.bound,
   here  |-> [b \in Nat |-> [j \in Nat |-> IF b \in N THEN nh ELSE A.here[b][j]]],
   loans |-> [b \in Nat |-> [j \in Nat |-> IF b \in N THEN nl ELSE A.loans[b][j]]]]

(* Z says of everything but symbol new what A says.                        *)
AsExtended(A, new, r, Z) ==
  /\ Z \in Bindings /\ Z.bound = A.bound \cup {new}
  /\ Z.here = A.here /\ Z.loans = A.loans /\ Z.obl[new] = r
  /\ \A h \in Sym : h # new => Z.obl[h] = A.obl[h]

LEMMA ExtFacts ==
  ASSUME NEW A \in Bindings, NEW new \in Sym, NEW r \in Sym
  PROVE  AsExtended(A, new, r, Ext(A, new, r))
BY DEF Ext, Bindings, AsExtended

(* Z says of everything but the end of block c what A says.                *)
AsNoted(A, c, n, nh, nl, Z) ==
  /\ Z \in Bindings /\ Z.obl = A.obl /\ Z.bound = A.bound
  /\ \A b, j \in Nat : (b # c \/ j <= n) =>
       Z.here[b][j] = A.here[b][j] /\ Z.loans[b][j] = A.loans[b][j]
  /\ \A j \in Nat : j > n => Z.here[c][j] = nh /\ Z.loans[c][j] = nl

LEMMA NotingFacts ==
  ASSUME NEW A \in Bindings, NEW c \in Nat, NEW n \in Nat,
         NEW nh \in SUBSET Sym, NEW nl \in SUBSET Loan
  PROVE  AsNoted(A, c, n, nh, nl, Noting(A, c, n, nh, nl))
BY DEF Noting, Bindings, AsNoted

(* Z says of everything but the blocks N what A says.                      *)
AsOpened(A, N, nh, nl, Z) ==
  /\ Z \in Bindings /\ Z.obl = A.obl /\ Z.bound = A.bound
  /\ \A b \in Nat \ N : Z.here[b] = A.here[b] /\ Z.loans[b] = A.loans[b]
  /\ \A b \in Nat \cap N : \A j \in Nat : Z.here[b][j] = nh /\ Z.loans[b][j] = nl

LEMMA OpeningFacts ==
  ASSUME NEW A \in Bindings, NEW N, NEW nh \in SUBSET Sym, NEW nl \in SUBSET Loan
  PROVE  AsOpened(A, N, nh, nl, Opening(A, N, nh, nl))
<1> DEFINE Z == Opening(A, N, nh, nl)
<1>1. Z \in Bindings /\ Z.obl = A.obl /\ Z.bound = A.bound
  BY DEF Opening, Bindings
<1>2. ASSUME NEW b \in Nat \ N PROVE Z.here[b] = A.here[b] /\ Z.loans[b] = A.loans[b]
  BY DEF Opening, Bindings
<1>3. \A b \in Nat \cap N : \A j \in Nat : Z.here[b][j] = nh /\ Z.loans[b][j] = nl
  BY DEF Opening
<1> QED BY <1>1, <1>2, <1>3 DEF AsOpened

(* The handles of an instruction keep what is noted of them.               *)
LEMMA FlowsSame ==
  ASSUME NEW sy, NEW sy2, NEW A, NEW A2, NEW i, NEW h, NEW ls, NEW h2, NEW ls2,
         InstrOk([syms |-> sy], i), NoSym \notin DOMAIN sy,
         \A x \in DOMAIN sy : /\ sy2[x] = sy[x] /\ A2.obl[x] = A.obl[x]
                              /\ x \in A2.bound => x \in A.bound,
         Flows(sy, A, i, h, ls, h2, ls2)
  PROVE  Flows(sy2, A2, i, h, ls, h2, ls2)
<1>1. /\ i.op \notin {"invoke", "return"} => i.sym \in DOMAIN sy
      /\ i.op = "return" => i.sym = NoSym \/ i.sym \in DOMAIN sy
      /\ i.op \in {"move", "alias", "borrow_start", "borrow_end"} => i.src \in DOMAIN sy
  BY DEF InstrOk
<1>2. SubjectIn(sy2, i) = SubjectIn(sy, i)
  BY <1>1 DEF SubjectIn
<1>3. SubjectIn(sy, i) # NoSym => SubjectIn(sy, i) \in DOMAIN sy
  BY <1>1 DEF SubjectIn
<1>4. InPlace(sy2, A2, SubjectIn(sy2, i), h)
  BY <1>2, <1>3 DEF InPlace, Flows
<1>5. LoansAfter(A2, i, ls) = LoansAfter(A, i, ls)
  <2>1. i.op = "borrow_start" => LoanOf(A2, i) = LoanOf(A, i)
    BY <1>1 DEF LoanOf
  <2> QED BY <2>1 DEF LoansAfter
<1>6. /\ i.op \in {"acquire", "move"} => A2.obl[i.sym] = i.sym
      /\ i.op = "alias" => A2.obl[i.sym] = A2.obl[i.src]
      /\ i.op = "move" => sy2[i.sym].buf = sy2[i.src].buf
  BY <1>1 DEF Flows
<1> QED BY <1>4, <1>5, <1>6 DEF Flows

(* A2 says what A says, and of the new symbol what it may.                 *)
SaysOfNew(A, A2, sy2, new) ==
  /\ A2 \in Bindings /\ A2.here = A.here /\ A2.loans = A.loans
  /\ \A h \in Sym : h # new => A2.obl[h] = A.obl[h]
  /\ A2.bound = A.bound \/ A2.bound = A.bound \cup {new}
  /\ new \notin A2.bound => A2.obl[new] = new
  /\ A2.obl[new] \in DOMAIN sy2 /\ sy2[A2.obl[new]].buf = sy2[new].buf

(* A symbol is declared, and perhaps bound.                                *)
LEMMA NotedDeclare ==
  ASSUME NEW bs, NEW sy \in Seq(SymInfo), NEW ps, NEW A, NEW open,
         GraphOk(bs, [syms |-> sy], open), Noted(bs, sy, ps, A),
         ps \subseteq DOMAIN sy, DOMAIN sy \subseteq Sym,
         NEW info \in SymInfo, NEW sy2, sy2 = Append(sy, info),
         NEW new \in Sym, new = Len(sy) + 1, NEW A2, SaysOfNew(A, A2, sy2, new)
  PROVE  Noted(bs, sy2, ps, A2)
<1>0. /\ A2 \in Bindings /\ A2.here = A.here /\ A2.loans = A.loans
      /\ \A h \in Sym : h # new => A2.obl[h] = A.obl[h]
      /\ A2.bound = A.bound \/ A2.bound = A.bound \cup {new}
      /\ new \notin A2.bound => A2.obl[new] = new
      /\ A2.obl[new] \in DOMAIN sy2 /\ sy2[A2.obl[new]].buf = sy2[new].buf
  BY DEF SaysOfNew
<1>1. /\ sy2 \in Seq(SymInfo) /\ Len(sy) \in Nat /\ DOMAIN sy = 1 .. Len(sy)
      /\ DOMAIN sy2 = 1 .. Len(sy) + 1
      /\ \A x \in DOMAIN sy : sy2[x] = sy[x]
      /\ sy2[new] = info
  BY AppendFacts
<1>2. /\ DOMAIN sy2 = DOMAIN sy \cup {new} /\ new \notin DOMAIN sy
      /\ NoSym \notin DOMAIN sy
  BY <1>1 DEF NoSym
<1>3. \A x \in DOMAIN sy : /\ sy2[x] = sy[x] /\ A2.obl[x] = A.obl[x]
                           /\ x \in A2.bound => x \in A.bound
  BY <1>0, <1>1, <1>2
<1>4. SymbolsNoted(sy2, ps, A2)
  <2>1. SymbolsNoted(sy, ps, A)
    BY DEF Noted
  <2>2. \A h \in Sym \ A2.bound : A2.obl[h] = h
    BY <1>0, <2>1 DEF SymbolsNoted
  <2>3. A2.bound \subseteq DOMAIN sy2
    BY <1>0, <1>2, <2>1 DEF SymbolsNoted
  <2>4. ASSUME NEW h \in DOMAIN sy2
        PROVE  A2.obl[h] \in DOMAIN sy2 /\ sy2[A2.obl[h]].buf = sy2[h].buf
    <3>1. CASE h = new
      BY <1>0, <1>1, <3>1
    <3>2. CASE h \in DOMAIN sy
      <4>1. A.obl[h] \in DOMAIN sy /\ sy[A.obl[h]].buf = sy[h].buf
        BY <2>1, <3>2 DEF SymbolsNoted
      <4> QED BY <1>2, <1>3, <3>2, <4>1
    <3> QED BY <1>2, <2>4, <3>1, <3>2
  <2>5. \A p \in ps : A2.obl[p] = p
    BY <1>3, <2>1 DEF SymbolsNoted
  <2> QED BY <2>2, <2>3, <2>4, <2>5 DEF SymbolsNoted
<1>5. EntryNoted(sy2, ps, A2)
  BY <1>0, <1>3 DEF Noted, EntryNoted
<1>6. JumpsNoted(bs, A2)
  BY <1>0 DEF Noted, JumpsNoted
<1>7. ASSUME NEW b \in DOMAIN bs, NEW j \in DOMAIN bs[b].instrs
      PROVE  Flows(sy2, A2, bs[b].instrs[j], A2.here[b][j], A2.loans[b][j],
                   A2.here[b][j + 1], A2.loans[b][j + 1])
  <2>1. Flows(sy, A, bs[b].instrs[j], A.here[b][j], A.loans[b][j],
              A.here[b][j + 1], A.loans[b][j + 1])
    BY <1>0 DEF Noted, BlocksNoted
  <2>2. InstrOk([syms |-> sy], bs[b].instrs[j])
    BY DEF GraphOk
  <2>3. PICK i, h, ls, h2, ls2 :
          /\ i = bs[b].instrs[j] /\ h = A.here[b][j] /\ ls = A.loans[b][j]
          /\ h2 = A.here[b][j + 1] /\ ls2 = A.loans[b][j + 1]
    OBVIOUS
  <2>4. InstrOk([syms |-> sy], i) /\ Flows(sy, A, i, h, ls, h2, ls2)
    BY <2>1, <2>2, <2>3
  <2>5. Flows(sy2, A2, i, h, ls, h2, ls2)
    BY <1>2, <1>3, <2>4, FlowsSame, ZenonT(60)
  <2> QED BY <1>0, <2>3, <2>5
<1> QED BY <1>0, <1>4, <1>5, <1>6, <1>7 DEF Noted, BlocksNoted

LEMMA BlockFacts ==
  ASSUME NEW bs \in Seq(BlockType), NEW b \in DOMAIN bs
  PROVE  /\ bs[b] \in BlockType /\ b \in Nat /\ b >= 1
         /\ bs[b].instrs \in Seq(Instr) /\ bs[b].succ \in Seq(Nat)
         /\ Len(bs[b].instrs) \in Nat
         /\ DOMAIN bs[b].instrs = 1 .. Len(bs[b].instrs)
         /\ EndOf(bs, b) \in Nat /\ EndOf(bs, b) >= 1
         /\ Targets(bs, b) \subseteq Nat
<1>1. bs[b] \in BlockType
  OBVIOUS
<1>2. bs[b].instrs \in Seq(Instr) /\ bs[b].succ \in Seq(Nat)
  BY <1>1 DEF BlockType
<1>3. DOMAIN bs = 1 .. Len(bs) /\ Len(bs) \in Nat
  OBVIOUS
<1>4. Targets(bs, b) \subseteq Nat
  <2> DEFINE q == bs[b].succ
  <2>1. q \in Seq(Nat)
    BY <1>2
  <2>2. Targets(bs, b) = {q[j] : j \in DOMAIN q}
    BY DEF Targets
  <2> HIDE DEF q
  <2> QED BY <2>1, <2>2
<1>5. Len(bs[b].instrs) \in Nat /\ DOMAIN bs[b].instrs = 1 .. Len(bs[b].instrs)
  BY <1>2
<1> QED BY <1>1, <1>2, <1>3, <1>4, <1>5 DEF EndOf

(* Z notes the graph bs2, in which the current block c of bs goes on.      *)
EmissionNoted(bs, sy, ps, A, c, nh, nl, Z, bs2) ==
  /\ Noted(bs2, sy, ps, Z)
  /\ Z.obl = A.obl /\ Z.bound = A.bound
  /\ Z.here[c][EndOf(bs2, c)] = nh /\ Z.loans[c][EndOf(bs2, c)] = nl
  /\ \A b \in DOMAIN bs \ {c} :
        /\ EndOf(bs2, b) = EndOf(bs, b)
        /\ \A j \in Nat : /\ Z.here[b][j] = A.here[b][j]
                          /\ Z.loans[b][j] = A.loans[b][j]
  /\ \A b \in DOMAIN bs : /\ Z.here[b][1] = A.here[b][1]
                         /\ Z.loans[b][1] = A.loans[b][1]

(* Instructions are added at the end of an open block, after which nh is   *)
(* bound and nl open.                                                      *)
LEMMA NotedEmit ==
  ASSUME NEW bs \in Seq(BlockType), NEW sy, NEW ps, NEW A, Noted(bs, sy, ps, A),
         NEW c \in DOMAIN bs, bs[c].succ = <<>>, NEW is \in Seq(Instr), is # <<>>,
         NEW nh \in SUBSET Sym, NEW nl \in SUBSET Loan,
         \A m \in DOMAIN is :
            Flows(sy, A, is[m],
                  IF m = 1 THEN A.here[c][EndOf(bs, c)] ELSE nh,
                  IF m = 1 THEN A.loans[c][EndOf(bs, c)] ELSE nl, nh, nl),
         NEW n, n = EndOf(bs, c), NEW Z, AsNoted(A, c, n, nh, nl, Z),
         NEW bs2, bs2 = [bs EXCEPT ![c].instrs = @ \o is]
  PROVE  EmissionNoted(bs, sy, ps, A, c, nh, nl, Z, bs2)
<1> DEFINE q == bs[c].instrs
<1>1. /\ bs[c] \in BlockType /\ q \in Seq(Instr) /\ c \in Nat /\ DOMAIN bs \subseteq Nat
  <2>1. bs[c] \in BlockType /\ bs[c].instrs \in Seq(Instr) /\ c \in Nat
    BY BlockFacts
  <2>2. DOMAIN bs = 1 .. Len(bs) /\ Len(bs) \in Nat
    OBVIOUS
  <2> QED BY <2>1, <2>2
<1>2. /\ q \o is \in Seq(Instr)
      /\ Len(q) \in Nat /\ Len(is) \in Nat
      /\ DOMAIN q = 1 .. Len(q) /\ DOMAIN is = 1 .. Len(is)
      /\ Len(q \o is) = Len(q) + Len(is)
      /\ DOMAIN (q \o is) = 1 .. Len(q) + Len(is)
      /\ \A j \in DOMAIN q : (q \o is)[j] = q[j]
      /\ \A j \in DOMAIN is : (q \o is)[Len(q) + j] = is[j]
  BY <1>1, ConcatFacts
<1>3. /\ DOMAIN bs2 = DOMAIN bs /\ \A d \in DOMAIN bs \ {c} : bs2[d] = bs[d]
      /\ bs2[c].instrs = q \o is /\ bs2[c].succ = <<>>
  <2>1. DOMAIN bs2 = DOMAIN bs /\ \A d \in DOMAIN bs \ {c} : bs2[d] = bs[d]
    OBVIOUS
  <2>2. bs2[c] = [bs[c] EXCEPT !.instrs = @ \o is]
    OBVIOUS
  <2>3. bs2[c].instrs = bs[c].instrs \o is /\ bs2[c].succ = bs[c].succ
    BY <1>1, <2>2 DEF BlockType
  <2> QED BY <2>1, <2>3
<1>4. n = Len(q) + 1 /\ n \in Nat /\ Len(is) > 0 /\ n >= 1
  BY <1>2 DEF EndOf
<1>5. /\ Z \in Bindings /\ Z.obl = A.obl /\ Z.bound = A.bound
      /\ \A b, j \in Nat : (b # c \/ j <= n) =>
           Z.here[b][j] = A.here[b][j] /\ Z.loans[b][j] = A.loans[b][j]
      /\ \A j \in Nat : j > n => Z.here[c][j] = nh /\ Z.loans[c][j] = nl
  BY DEF AsNoted
<1> HIDE DEF q
<1>6. EndOf(bs2, c) = n + Len(is) /\ EndOf(bs2, c) \in Nat /\ EndOf(bs2, c) > n
  <2>1. EndOf(bs2, c) = Len(q \o is) + 1
    BY <1>3 DEF EndOf
  <2> QED BY <1>2, <1>4, <2>1
<1>7. \A b \in DOMAIN bs \ {c} : EndOf(bs2, b) = EndOf(bs, b)
  BY <1>3 DEF EndOf
<1>8. \A b \in DOMAIN bs : Z.here[b][1] = A.here[b][1] /\ Z.loans[b][1] = A.loans[b][1]
  <2> SUFFICES ASSUME NEW b \in DOMAIN bs
               PROVE  Z.here[b][1] = A.here[b][1] /\ Z.loans[b][1] = A.loans[b][1]
    OBVIOUS
  <2>1. b \in Nat /\ 1 \in Nat /\ 1 <= n
    BY <1>1, <1>4
  <2> QED BY <1>5, <2>1
<1>9. \A b \in DOMAIN bs \ {c} : \A j \in Nat :
         Z.here[b][j] = A.here[b][j] /\ Z.loans[b][j] = A.loans[b][j]
  BY <1>1, <1>5
<1>10. \A i, h, ls, h2, ls2 :
          Flows(sy, A, i, h, ls, h2, ls2) => Flows(sy, Z, i, h, ls, h2, ls2)
  BY <1>5 DEF Flows, InPlace, LoansAfter, LoanOf
<1>11. ASSUME NEW b \in DOMAIN bs2, NEW j \in DOMAIN bs2[b].instrs
       PROVE  Flows(sy, Z, bs2[b].instrs[j], Z.here[b][j], Z.loans[b][j],
                    Z.here[b][j + 1], Z.loans[b][j + 1])
  <2>1. CASE b # c
    <3>1. bs2[b] = bs[b] /\ b \in DOMAIN bs /\ j \in DOMAIN bs[b].instrs
      BY <1>3, <1>11, <2>1
    <3>2. j \in Nat /\ j + 1 \in Nat
      <4>1. DOMAIN bs[b].instrs = 1 .. Len(bs[b].instrs) /\ Len(bs[b].instrs) \in Nat
        BY <3>1, BlockFacts
      <4> QED BY <3>1, <4>1
    <3>3. Flows(sy, A, bs[b].instrs[j], A.here[b][j], A.loans[b][j],
                A.here[b][j + 1], A.loans[b][j + 1])
      BY <3>1 DEF Noted, BlocksNoted
    <3>4. Flows(sy, Z, bs[b].instrs[j], A.here[b][j], A.loans[b][j],
                A.here[b][j + 1], A.loans[b][j + 1])
      BY <1>10, <3>3
    <3>5. /\ Z.here[b][j] = A.here[b][j] /\ Z.loans[b][j] = A.loans[b][j]
          /\ Z.here[b][j + 1] = A.here[b][j + 1] /\ Z.loans[b][j + 1] = A.loans[b][j + 1]
      <4>1. b \in DOMAIN bs \ {c}
        BY <2>1, <3>1
      <4> QED BY ONLY <1>9, <3>2, <4>1
    <3> QED BY <3>1, <3>4, <3>5
  <2>2. CASE b = c /\ j \in DOMAIN q
    <3>1. bs2[b].instrs[j] = q[j] /\ j \in Nat /\ j + 1 \in Nat /\ j + 1 <= n /\ j <= n
      <4>1. j \in 1 .. Len(q) /\ Len(q) \in Nat /\ n = Len(q) + 1
        BY <1>2, <1>4, <2>2
      <4>2. bs2[b].instrs[j] = q[j]
        BY ONLY <1>2, <1>3, <2>2
      <4> QED BY ONLY <4>1, <4>2
    <3>2. Flows(sy, A, q[j], A.here[c][j], A.loans[c][j],
                A.here[c][j + 1], A.loans[c][j + 1])
      <4>1. j \in DOMAIN bs[c].instrs /\ q[j] = bs[c].instrs[j]
        BY <2>2 DEF q
      <4>2. BlocksNoted(bs, sy, A)
        BY DEF Noted
      <4> QED BY ONLY <4>1, <4>2, c \in DOMAIN bs DEF BlocksNoted
    <3>3. Flows(sy, Z, q[j], A.here[c][j], A.loans[c][j],
                A.here[c][j + 1], A.loans[c][j + 1])
      BY <1>10, <3>2
    <3>4. /\ Z.here[c][j] = A.here[c][j] /\ Z.loans[c][j] = A.loans[c][j]
          /\ Z.here[c][j + 1] = A.here[c][j + 1] /\ Z.loans[c][j + 1] = A.loans[c][j + 1]
      BY <1>1, <1>5, <3>1
    <3> QED BY <2>2, <3>1, <3>3, <3>4
  <2>3. CASE b = c /\ j \notin DOMAIN q
    <3> DEFINE m == j - Len(q)
    <3>1. m \in DOMAIN is /\ m \in Nat /\ j = Len(q) + m /\ j \in Nat /\ j + 1 \in Nat
      BY <1>2, <1>3, <1>11, <2>3
    <3> HIDE DEF m
    <3>2. bs2[b].instrs[j] = is[m]
      BY <1>2, <1>3, <2>3, <3>1
    <3>3. Flows(sy, Z, is[m], IF m = 1 THEN A.here[c][n] ELSE nh,
                IF m = 1 THEN A.loans[c][n] ELSE nl, nh, nl)
      BY <1>10, <3>1
    <3>4. Z.here[c][j + 1] = nh /\ Z.loans[c][j + 1] = nl
      <4>1. j + 1 > n
        BY <1>2, <1>4, <3>1
      <4> QED BY <1>5, <3>1, <4>1
    <3>5. CASE m = 1
      <4>1. j = n /\ Z.here[c][j] = A.here[c][n] /\ Z.loans[c][j] = A.loans[c][n]
        <5>1. j = n
          BY <1>4, <3>1, <3>5
        <5>2. c \in Nat /\ n \in Nat /\ n <= n
          BY <1>1, <1>4
        <5>3. Z.here[c][n] = A.here[c][n] /\ Z.loans[c][n] = A.loans[c][n]
          BY <1>5, <5>2, Zenon
        <5> QED BY <5>1, <5>3
      <4> QED BY <2>3, <3>2, <3>3, <3>4, <3>5, <4>1
    <3>6. CASE m # 1
      <4>1. j > n
        BY <1>2, <1>4, <3>1, <3>6
      <4>2. Z.here[c][j] = nh /\ Z.loans[c][j] = nl
        BY <1>5, <3>1, <4>1
      <4> QED BY <2>3, <3>2, <3>3, <3>4, <3>6, <4>2
    <3> QED BY <3>5, <3>6
  <2> QED BY <2>1, <2>2, <2>3
<1>12. JumpsNoted(bs2, Z)
  <2> SUFFICES ASSUME NEW b \in DOMAIN bs2, NEW t \in Targets(bs2, b)
               PROVE  /\ Z.here[t][1] \subseteq Z.here[b][EndOf(bs2, b)]
                      /\ Z.loans[t][1] = Z.loans[b][EndOf(bs2, b)]
    BY DEF JumpsNoted
  <2>1. b # c
    BY <1>3 DEF Targets
  <2>2. b \in DOMAIN bs /\ Targets(bs2, b) = Targets(bs, b)
    BY <1>3, <2>1 DEF Targets
  <2>3. t \in Nat /\ EndOf(bs, b) \in Nat
    BY <2>2, BlockFacts
  <2>4. /\ A.here[t][1] \subseteq A.here[b][EndOf(bs, b)]
        /\ A.loans[t][1] = A.loans[b][EndOf(bs, b)]
    BY <2>2 DEF Noted, JumpsNoted
  <2>5. Z.here[t][1] = A.here[t][1] /\ Z.loans[t][1] = A.loans[t][1]
    BY <1>4, <1>5, <2>3
  <2>6. /\ EndOf(bs2, b) = EndOf(bs, b)
        /\ Z.here[b][EndOf(bs, b)] = A.here[b][EndOf(bs, b)]
        /\ Z.loans[b][EndOf(bs, b)] = A.loans[b][EndOf(bs, b)]
    <3>1. b \in DOMAIN bs \ {c}
      BY <2>1, <2>2
    <3> QED BY ONLY <1>7, <1>9, <2>3, <3>1
  <2> QED BY ONLY <2>4, <2>5, <2>6
<1>13. SymbolsNoted(sy, ps, Z)
  BY <1>5 DEF Noted, SymbolsNoted
<1>14. EntryNoted(sy, ps, Z)
  <2>1. Z.here[Entry][1] = A.here[Entry][1] /\ Z.loans[Entry][1] = A.loans[Entry][1]
    BY <1>4, <1>5 DEF Entry
  <2> QED BY <2>1 DEF Noted, EntryNoted
<1>15. Noted(bs2, sy, ps, Z)
  BY <1>5, <1>11, <1>12, <1>13, <1>14 DEF Noted, BlocksNoted
<1>16. Z.here[c][EndOf(bs2, c)] = nh /\ Z.loans[c][EndOf(bs2, c)] = nl
  BY <1>5, <1>6
<1> QED BY <1>5, <1>7, <1>8, <1>9, <1>15, <1>16 DEF EmissionNoted

(* A block leads to t with what is bound and open at its end.              *)
Leads(A, bs, b, t) ==
  /\ A.here[t][1] \subseteq A.here[b][EndOf(bs, b)]
  /\ A.loans[t][1] = A.loans[b][EndOf(bs, b)]

LEMMA FlowsOf ==
  ASSUME NEW sy, NEW A, NEW A2, A2.obl = A.obl, A2.bound = A.bound,
         NEW i, NEW h, NEW ls, NEW h2, NEW ls2, Flows(sy, A, i, h, ls, h2, ls2)
  PROVE  Flows(sy, A2, i, h, ls, h2, ls2)
BY DEF Flows, InPlace, LoansAfter, LoanOf

(* Jumps and empty blocks are added.                                       *)
LEMMA NotedLinks ==
  ASSUME NEW bs \in Seq(BlockType), NEW sy, NEW ps, NEW A, Noted(bs, sy, ps, A),
         Entry \in DOMAIN bs,
         NEW bs2, NEW A2 \in Bindings, A2.obl = A.obl, A2.bound = A.bound,
         \A b \in DOMAIN bs : A2.here[b] = A.here[b] /\ A2.loans[b] = A.loans[b],
         DOMAIN bs \subseteq DOMAIN bs2,
         \A b \in DOMAIN bs : bs2[b].instrs = bs[b].instrs,
         \A b \in DOMAIN bs2 \ DOMAIN bs : bs2[b].instrs = <<>>,
         \A b \in DOMAIN bs2 : \A t \in Targets(bs2, b) :
            \/ b \in DOMAIN bs /\ t \in DOMAIN bs /\ t \in Targets(bs, b)
            \/ Leads(A2, bs2, b, t)
  PROVE  Noted(bs2, sy, ps, A2)
<1>1. SymbolsNoted(sy, ps, A2)
  BY DEF Noted, SymbolsNoted
<1>2. EntryNoted(sy, ps, A2)
  BY DEF Noted, EntryNoted
<1>3. ASSUME NEW b \in DOMAIN bs2, NEW j \in DOMAIN bs2[b].instrs
      PROVE  Flows(sy, A2, bs2[b].instrs[j], A2.here[b][j], A2.loans[b][j],
                   A2.here[b][j + 1], A2.loans[b][j + 1])
  <2>1. b \in DOMAIN bs /\ bs2[b].instrs = bs[b].instrs
    OBVIOUS
  <2>2. Flows(sy, A, bs[b].instrs[j], A.here[b][j], A.loans[b][j],
              A.here[b][j + 1], A.loans[b][j + 1])
    BY <2>1 DEF Noted, BlocksNoted
  <2>3. A2.here[b] = A.here[b] /\ A2.loans[b] = A.loans[b]
    BY <2>1
  <2>4. Flows(sy, A2, bs[b].instrs[j], A.here[b][j], A.loans[b][j],
              A.here[b][j + 1], A.loans[b][j + 1])
    BY <2>2, FlowsOf
  <2> QED BY <2>1, <2>3, <2>4
<1>4. ASSUME NEW b \in DOMAIN bs2, NEW t \in Targets(bs2, b)
      PROVE  Leads(A2, bs2, b, t)
  <2> SUFFICES ASSUME b \in DOMAIN bs, t \in DOMAIN bs, t \in Targets(bs, b)
               PROVE  Leads(A2, bs2, b, t)
    OBVIOUS
  <2>1. EndOf(bs2, b) = EndOf(bs, b)
    BY DEF EndOf
  <2>2. /\ A.here[t][1] \subseteq A.here[b][EndOf(bs, b)]
        /\ A.loans[t][1] = A.loans[b][EndOf(bs, b)]
    BY DEF Noted, JumpsNoted
  <2> QED BY <2>1, <2>2 DEF Leads
<1> QED BY <1>1, <1>2, <1>3, <1>4 DEF Noted, BlocksNoted, JumpsNoted, Leads

-----------------------------------------------------------------------------
(* What is visible and what is lent, as the scopes and the stack change. *)

(* A2 says of the symbols there are what A says.                           *)
Alike(A, A2) ==
  \A h \in DOMAIN syms : A2.obl[h] = A.obl[h] /\ (h \in A2.bound <=> h \in A.bound)

(* And of the blocks, but for what the current one adds.                   *)
Stays(A, A2, bs2) ==
  /\ Alike(A, A2)
  /\ \A b \in DOMAIN blocks : /\ A2.here[b][1] = A.here[b][1]
                              /\ A2.loans[b][1] = A.loans[b][1]
  /\ \A b \in DOMAIN blocks \ {cur} :
        /\ A2.here[b][EndOf(bs2, b)] = A.here[b][EndOf(blocks, b)]
        /\ A2.loans[b][EndOf(bs2, b)] = A.loans[b][EndOf(blocks, b)]

LEMMA VisibleKnown ==
  ASSUME SymbolsOk, NEW n \in Nat, n <= Len(scopes)
  PROVE  Visible(scopes, n) \subseteq DOMAIN syms
<1>1. Len(scopes) \in Nat /\ DOMAIN scopes = 1 .. Len(scopes)
  BY DEF SymbolsOk
<1>2. \A j \in 1 .. n : j \in DOMAIN scopes
  BY <1>1
<1> QED BY <1>2 DEF Visible, SymbolsOk

LEMMA VisibleSame ==
  ASSUME NEW scs, NEW scs2, NEW n, \A j \in 1 .. n : scs2[j] = scs[j]
  PROVE  Visible(scs2, n) = Visible(scs, n)
BY DEF Visible

LEMMA VisibleGrows ==
  ASSUME NEW scs, NEW n \in Nat, NEW m \in Nat, n <= m
  PROVE  Visible(scs, n) \subseteq Visible(scs, m)
<1>1. \A j \in 1 .. n : j \in 1 .. m
  OBVIOUS
<1> QED BY <1>1 DEF Visible

(* A name that resolves is visible.                                        *)
LEMMA LookupVisible ==
  ASSUME SymbolsOk, NEW n, Lookup(n) # NoSym
  PROVE  Lookup(n) \in Visible(scopes, Len(scopes))
<1> DEFINE having == {j \in DOMAIN scopes : n \in DOMAIN scopes[j]}
<1>1. having # {}
  BY DEF Lookup
<1>2. Len(scopes) \in Nat /\ having \in SUBSET (1 .. Len(scopes))
  BY DEF SymbolsOk
<1>3. \E m \in having : \A x \in having : x <= m
  BY <1>1, <1>2, GreatestNat
<1> DEFINE m == CHOOSE j \in having : \A x \in having : x <= j
<1>4. m \in having
  BY <1>3
<1>5. Lookup(n) = scopes[m][n]
  BY <1>1 DEF Lookup
<1>6. Lookup(n) \in Sym
  BY LookupType
<1> HIDE DEF m
<1>7. m \in 1 .. Len(scopes) /\ n \in DOMAIN scopes[m]
  BY <1>2, <1>4
<1> QED BY <1>5, <1>6, <1>7 DEF Visible

(* The end of an open borrow names symbols that exist.                     *)
LEMMA LoanKnown ==
  ASSUME Built, NEW A, BuilderNoted(A), NEW j \in DOMAIN frames,
         frames[j].kind = "borrow"
  PROVE  /\ frames[j].end \in Instr /\ frames[j].end.op = "borrow_end"
         /\ InstrOk([syms |-> syms], frames[j].end)
         /\ frames[j].end.sym \in DOMAIN syms /\ frames[j].end.src \in DOMAIN syms
<1>1. FrameOk(frames[j])
  BY DEF Built, FramesOk
<1>2. frames[j].end.op = "borrow_end"
  BY DEF BuilderNoted, FrameNoted
<1> QED BY <1>1, <1>2 DEF FrameOk, InstrOk

LEMMA OpenLoansSame ==
  ASSUME Built, NEW A, BuilderNoted(A), NEW A2, Alike(A, A2),
         NEW n \in Nat, n <= Len(frames),
         NEW fs, \A j \in 1 .. n : fs[j] = frames[j]
  PROVE  OpenLoans(A2, fs, n) = OpenLoans(A, frames, n)
<1>1. Lent(fs, n) = Lent(frames, n)
  BY DEF Lent
<1>2. ASSUME NEW j \in Lent(frames, n)
      PROVE  LoanOf(A2, fs[j].end) = LoanOf(A, frames[j].end)
  <2>1. frames \in Seq(Frame) /\ Len(frames) \in Nat
    BY BuiltFacts
  <2>2. j \in 1 .. n /\ j \in DOMAIN frames /\ frames[j].kind = "borrow"
    BY <2>1 DEF Lent
  <2>3. frames[j].end.src \in DOMAIN syms
    BY <2>2, LoanKnown
  <2> QED BY <2>2, <2>3 DEF LoanOf, Alike
<1> QED BY <1>1, <1>2 DEF OpenLoans

LEMMA GoesOnSame ==
  ASSUME Built, NEW A, BuilderNoted(A), NEW A2, Alike(A, A2),
         NEW n \in 1 .. Len(scopes),
         NEW scs, \A j \in 1 .. n : scs[j] = scopes[j],
         NEW fs, \A j \in 1 .. n - 1 : fs[j] = frames[j],
         NEW b, NEW bs,
         A2.here[b][EndOf(bs, b)] = A.here[b][EndOf(blocks, b)],
         A2.loans[b][EndOf(bs, b)] = A.loans[b][EndOf(blocks, b)],
         GoesOn(A, blocks, b, scopes, frames, n)
  PROVE  GoesOn(A2, bs, b, scs, fs, n)
<1>1. SymbolsOk /\ Len(scopes) = Len(frames) + 1 /\ Len(frames) \in Nat
  BY BuiltFacts
<1>2. n \in Nat /\ n <= Len(scopes) /\ n - 1 \in Nat /\ n - 1 <= Len(frames)
  BY <1>1
<1>3. Visible(scs, n) = Visible(scopes, n)
  BY VisibleSame
<1>4. Visible(scopes, n) \subseteq DOMAIN syms
  BY <1>1, <1>2, VisibleKnown
<1>5. Visible(scs, n) \cap A2.bound = Visible(scopes, n) \cap A.bound
  BY <1>3, <1>4 DEF Alike
<1>6. OpenLoans(A2, fs, n - 1) = OpenLoans(A, frames, n - 1)
  BY <1>2, OpenLoansSame
<1> QED BY <1>5, <1>6 DEF GoesOn

(* An open statement goes on as noted.                                     *)
LEMMA FrameStays ==
  ASSUME Built, NEW A, BuilderNoted(A), NEW bs, NEW A2, Stays(A, A2, bs),
         NEW j \in DOMAIN frames,
         NEW scs, \A l \in 1 .. j : scs[l] = scopes[l],
         NEW fs, \A l \in 1 .. j : fs[l] = frames[l]
  PROVE  FrameNoted(A2, bs, scs, fs, j)
<1> DEFINE f == frames[j]
<1>1. /\ SymbolsOk /\ Len(scopes) = Len(frames) + 1 /\ Len(frames) \in Nat
      /\ frames \in Seq(Frame) /\ cur \notin FrameBlocks(frames)
      /\ FrameBlocks(frames) \subseteq DOMAIN blocks
  BY BuiltFacts
<1>2. j \in Nat /\ j \in 1 .. Len(frames) /\ j \in 1 .. Len(scopes) /\ fs[j] = f
      /\ j - 1 \in Nat /\ j - 1 <= Len(frames)
  BY <1>1
<1>3. FrameNoted(A, blocks, scopes, frames, j) /\ FrameOk(f)
  BY DEF BuilderNoted, Built, FramesOk
<1> HIDE DEF f
<1>4. \A l \in 1 .. j - 1 : fs[l] = frames[l]
  BY <1>2
<1>5. Alike(A, A2)
  BY DEF Stays
<1>6. ASSUME OpenBlock(f) # NoBlock
      PROVE  GoesOn(A2, bs, OpenBlock(f), scs, fs, j)
  <2>1. OpenBlock(f) \in FrameBlocks(frames)
    BY <1>6 DEF FrameBlocks, f
  <2>2. OpenBlock(f) \in DOMAIN blocks \ {cur}
    BY <1>1, <2>1
  <2>3. GoesOn(A, blocks, OpenBlock(f), scopes, frames, j)
    BY <1>3, <1>6 DEF FrameNoted, f
  <2>4. /\ A2.here[OpenBlock(f)][EndOf(bs, OpenBlock(f))] =
             A.here[OpenBlock(f)][EndOf(blocks, OpenBlock(f))]
        /\ A2.loans[OpenBlock(f)][EndOf(bs, OpenBlock(f))] =
             A.loans[OpenBlock(f)][EndOf(blocks, OpenBlock(f))]
    BY <2>2 DEF Stays
  <2> QED BY <1>2, <1>4, <1>5, <2>3, <2>4, GoesOnSame
<1>7. ASSUME f.kind = "while"
      PROVE  /\ A2.here[f.header][1] \subseteq Visible(scs, j) \cap A2.bound
             /\ A2.loans[f.header][1] = OpenLoans(A2, fs, j - 1)
  <2>1. f.header \in DOMAIN blocks
    BY <1>3, <1>7 DEF FrameOk
  <2>2. /\ A.here[f.header][1] \subseteq Visible(scopes, j) \cap A.bound
        /\ A.loans[f.header][1] = OpenLoans(A, frames, j - 1)
    BY <1>3, <1>7 DEF FrameNoted, f
  <2>3. OpenLoans(A2, fs, j - 1) = OpenLoans(A, frames, j - 1)
    BY <1>2, <1>4, <1>5, OpenLoansSame
  <2>4. Visible(scs, j) = Visible(scopes, j)
    BY VisibleSame
  <2>5. Visible(scopes, j) \subseteq DOMAIN syms
    BY <1>1, <1>2, VisibleKnown
  <2>6. Visible(scs, j) \cap A2.bound = Visible(scopes, j) \cap A.bound
    BY <1>5, <2>4, <2>5 DEF Alike
  <2>7. /\ A2.here[f.header][1] = A.here[f.header][1]
        /\ A2.loans[f.header][1] = A.loans[f.header][1]
    BY <2>1 DEF Stays
  <2> QED BY <2>2, <2>3, <2>6, <2>7
<1>8. ASSUME f.kind = "borrow"
      PROVE  /\ f.end.op = "borrow_end"
             /\ \A i \in Lent(fs, j - 1) : fs[i].end.sym # f.end.sym
  <2>1. /\ f.end.op = "borrow_end"
        /\ \A i \in Lent(frames, j - 1) : frames[i].end.sym # f.end.sym
    BY <1>3, <1>8 DEF FrameNoted, f
  <2> QED BY <1>4, <2>1 DEF Lent
<1> QED BY <1>2, <1>6, <1>7, <1>8 DEF FrameNoted

-----------------------------------------------------------------------------
(* Statements that stay in the current block. *)

LEMMA StatementNoted ==
  ASSUME Built, NEW A, BuilderNoted(A), cur # NoBlock,
         UNCHANGED <<header, cur, frames>>, Len(scopes') = Len(scopes),
         \A j \in 1 .. Len(frames) : scopes'[j] = scopes[j],
         NEW A2, Noted(blocks', syms', DOMAIN header.params, A2),
         Stays(A, A2, blocks'),
         Visible(scopes', Len(scopes)) \cap A2.bound
            \subseteq A2.here[cur][EndOf(blocks', cur)],
         A2.loans[cur][EndOf(blocks', cur)] = A.loans[cur][EndOf(blocks, cur)],
         berrs' = {} =>
            \A h \in DOMAIN syms' : syms'[h].kind = "owned" => h \in A2.bound
  PROVE  BuilderNoted(A2)'
<1>1. /\ Len(scopes) = Len(frames) + 1 /\ Len(frames) \in Nat
      /\ DOMAIN frames = 1 .. Len(frames)
  BY BuiltFacts
<1>2. CurNoted(A2, blocks', cur', scopes', frames')
  <2>1. GoesOn(A, blocks, cur, scopes, frames, Len(scopes))
    BY DEF BuilderNoted, CurNoted
  <2>2. OpenLoans(A2, frames, Len(frames)) = OpenLoans(A, frames, Len(frames))
    BY <1>1, OpenLoansSame DEF Stays
  <2>3. GoesOn(A2, blocks', cur, scopes', frames, Len(scopes))
    BY <1>1, <2>1, <2>2 DEF GoesOn
  <2> QED BY <2>3 DEF CurNoted
<1>3. ASSUME NEW j \in DOMAIN frames
      PROVE  FrameNoted(A2, blocks', scopes', frames', j)
  <2>1. \A l \in 1 .. j : scopes'[l] = scopes[l]
    BY <1>1
  <2> QED BY <2>1, FrameStays
<1> QED BY <1>2, <1>3 DEF BuilderNoted, AllBound

(* Instructions that bind, open and close nothing.                         *)
LEMMA StillNoted ==
  ASSUME Built, NEW A, BuilderNoted(A), cur # NoBlock,
         UNCHANGED <<header, cur, frames, scopes, syms>>, berrs \subseteq berrs',
         NEW is \in Seq(Instr), is # <<>>, blocks' = Emitted(is),
         NEW h, h = A.here[cur][EndOf(blocks, cur)],
         NEW ls, ls = A.loans[cur][EndOf(blocks, cur)],
         \A m \in DOMAIN is : Flows(syms, A, is[m], h, ls, h, ls)
  PROVE  \E A2 : BuilderNoted(A2)'
<1> DEFINE ps == DOMAIN header.params
<1>1. /\ blocks \in Seq(BlockType) /\ cur \in DOMAIN blocks /\ blocks[cur].succ = <<>>
      /\ Len(scopes) = Len(frames) + 1 /\ Len(frames) \in Nat
  BY BuiltFacts DEF GraphOk
<1>2. PICK n : n = EndOf(blocks, cur)
  OBVIOUS
<1>3. n \in Nat /\ cur \in Nat
  BY <1>1, <1>2, BlockFacts
<1>4. A \in Bindings /\ Noted(blocks, syms, ps, A)
  BY DEF BuilderNoted, Noted
<1>5. h \in SUBSET Sym /\ ls \in SUBSET Loan
  BY <1>2, <1>3, <1>4 DEF Bindings
<1>6. PICK Z : Z = Noting(A, cur, n, h, ls)
  OBVIOUS
<1>7. AsNoted(A, cur, n, h, ls, Z)
  BY <1>3, <1>4, <1>5, <1>6, NotingFacts
<1>8. blocks' = [blocks EXCEPT ![cur].instrs = @ \o is]
  BY DEF Emitted
<1>9. \A m \in DOMAIN is :
         Flows(syms, A, is[m], IF m = 1 THEN A.here[cur][EndOf(blocks, cur)] ELSE h,
               IF m = 1 THEN A.loans[cur][EndOf(blocks, cur)] ELSE ls, h, ls)
  OBVIOUS
<1> HIDE DEF ps
<1>10. /\ Noted(blocks', syms, ps, Z)
       /\ Z.obl = A.obl /\ Z.bound = A.bound
       /\ Z.here[cur][EndOf(blocks', cur)] = h /\ Z.loans[cur][EndOf(blocks', cur)] = ls
       /\ \A b \in DOMAIN blocks \ {cur} :
             /\ EndOf(blocks', b) = EndOf(blocks, b)
             /\ \A j \in Nat : /\ Z.here[b][j] = A.here[b][j]
                               /\ Z.loans[b][j] = A.loans[b][j]
       /\ \A b \in DOMAIN blocks : /\ Z.here[b][1] = A.here[b][1]
                                   /\ Z.loans[b][1] = A.loans[b][1]
  <2>1. EmissionNoted(blocks, syms, ps, A, cur, h, ls, Z, blocks')
    BY <1>1, <1>2, <1>4, <1>5, <1>7, <1>8, <1>9, NotedEmit
  <2> QED BY <2>1 DEF EmissionNoted
<1>11. Stays(A, Z, blocks')
  <2>1. \A b \in DOMAIN blocks : EndOf(blocks, b) \in Nat
    BY <1>1, BlockFacts
  <2> QED BY <1>10, <2>1 DEF Stays, Alike
<1>12. Visible(scopes', Len(scopes)) \cap Z.bound \subseteq h
  <2>1. GoesOn(A, blocks, cur, scopes, frames, Len(scopes))
    BY DEF BuilderNoted, CurNoted
  <2> QED BY <1>10, <2>1 DEF GoesOn
<1>13. berrs' = {} => \A x \in DOMAIN syms' : syms'[x].kind = "owned" => x \in Z.bound
  BY <1>10 DEF BuilderNoted, AllBound
<1>14. BuilderNoted(Z)'
  BY <1>1, <1>10, <1>11, <1>12, <1>13, StatementNoted DEF ps
<1> QED BY <1>14

(* declare(): what becomes visible.                                        *)
LEMMA DeclaredVisible ==
  ASSUME SymbolsOk, NEW scs, ScopesOk(scs), scs # <<>>,
         NEW n \in Mentionable, NEW info \in SymInfo, DeclareIn(scs, n, info)
  PROVE  /\ NewSym \in Sym /\ NewSym = Len(syms) + 1 /\ syms' = Append(syms, info)
         /\ NewSym \notin DOMAIN syms
         /\ Len(scopes') = Len(scs)
         /\ \A j \in 1 .. Len(scs) - 1 : scopes'[j] = scs[j]
         /\ Visible(scopes', Len(scs)) \subseteq Visible(scs, Len(scs)) \cup {NewSym}
<1> DEFINE old == scs[Len(scs)]
           new == [x \in DOMAIN old \cup {n} |-> IF x = n THEN NewSym ELSE old[x]]
<1>1. /\ syms' = Append(syms, info) /\ NewSym \in Sym /\ NewSym = Len(syms) + 1
      /\ scopes' = [scs EXCEPT ![Len(scs)] = new]
  BY DEF DeclareIn, NewSym
<1>0. scs \in Seq(Scope)
  BY DEF ScopesOk
<1>2. Len(scs) \in Nat \ {0} /\ DOMAIN scs = 1 .. Len(scs)
  BY <1>0
<1>3. /\ Len(scopes') = Len(scs)
      /\ \A j \in 1 .. Len(scs) - 1 : scopes'[j] = scs[j]
      /\ scopes'[Len(scs)] = new
  <2> HIDE DEF new
  <2>1. Len(scopes') = Len(scs)
    BY <1>0, DeclareFacts DEF ScopesOk
  <2> QED BY <1>1, <1>2, <2>1
<1>4. NewSym \notin DOMAIN syms
  BY <1>1 DEF SymbolsOk
<1>5. ASSUME NEW x \in Visible(scopes', Len(scs)), x # NewSym
      PROVE  x \in Visible(scs, Len(scs))
  <2>1. PICK j \in 1 .. Len(scs) : \E y \in DOMAIN scopes'[j] : scopes'[j][y] = x
    BY <1>5 DEF Visible
  <2>2. x \in Sym
    BY <1>5 DEF Visible
  <2>3. CASE j = Len(scs)
    <3>1. PICK y \in DOMAIN new : new[y] = x
      <4> HIDE DEF new
      <4> QED BY <1>3, <2>1, <2>3
    <3>2. y \in DOMAIN old /\ old[y] = x
      BY <1>5, <3>1
    <3> QED BY <1>2, <2>2, <3>2 DEF Visible
  <2>4. CASE j # Len(scs)
    <3>1. scopes'[j] = scs[j]
      BY ONLY <1>2, <1>3, <2>4, j \in 1 .. Len(scs)
    <3> QED BY <2>1, <2>2, <3>1 DEF Visible
  <2> QED BY <2>3, <2>4
<1> QED BY <1>1, <1>3, <1>4, <1>5

(* What noting has to say of a symbol before it is declared.               *)
LEMMA FreshFacts ==
  ASSUME Built, NEW A, BuilderNoted(A), NewSym \in Sym, NewSym \notin DOMAIN syms
  PROVE  /\ A \in Bindings /\ NewSym \notin A.bound /\ A.obl[NewSym] = NewSym
         /\ A.bound \subseteq DOMAIN syms
         /\ \A h \in DOMAIN syms : A.obl[h] \in DOMAIN syms
         /\ \A h \in DOMAIN syms : syms[A.obl[h]].buf = syms[h].buf
BY DEF BuilderNoted, Noted, SymbolsNoted

(* A declaration in the innermost scope.                                   *)
LEMMA DeclaredHere ==
  ASSUME Built, NEW n \in header.names, NEW info \in SymInfo, Declare(n, info)
  PROVE  /\ NewSym \in Sym /\ NewSym = Len(syms) + 1 /\ syms' = Append(syms, info)
         /\ NewSym \notin DOMAIN syms /\ DOMAIN syms \subseteq Sym
         /\ syms \in Seq(SymInfo) /\ DOMAIN syms' = DOMAIN syms \cup {NewSym}
         /\ syms'[NewSym] = info /\ \A h \in DOMAIN syms : syms'[h] = syms[h]
         /\ Len(scopes') = Len(scopes)
         /\ \A j \in 1 .. Len(frames) : scopes'[j] = scopes[j]
         /\ Visible(scopes', Len(scopes)) \subseteq
               Visible(scopes, Len(scopes)) \cup {NewSym}
<1>1. /\ SymbolsOk /\ ScopesOk(scopes) /\ scopes # <<>>
      /\ Len(scopes) = Len(frames) + 1 /\ Len(frames) \in Nat
  BY BuiltFacts
<1>2. n \in Mentionable
  BY DEF Mentionable
<1>3. DeclareIn(scopes, n, info)
  BY DEF Declare
<1>4. /\ NewSym \in Sym /\ NewSym = Len(syms) + 1 /\ syms' = Append(syms, info)
      /\ NewSym \notin DOMAIN syms
      /\ Len(scopes') = Len(scopes)
      /\ \A j \in 1 .. Len(scopes) - 1 : scopes'[j] = scopes[j]
      /\ Visible(scopes', Len(scopes)) \subseteq
            Visible(scopes, Len(scopes)) \cup {NewSym}
  BY <1>1, <1>2, <1>3, DeclaredVisible
<1>5. /\ syms \in Seq(SymInfo) /\ DOMAIN syms \subseteq Sym
  BY <1>1 DEF SymbolsOk
<1>6. /\ DOMAIN syms' = DOMAIN syms \cup {NewSym}
      /\ syms'[NewSym] = info /\ \A h \in DOMAIN syms : syms'[h] = syms[h]
  <2>1. /\ DOMAIN syms = 1 .. Len(syms) /\ Len(syms) \in Nat
        /\ DOMAIN syms' = 1 .. Len(syms) + 1
        /\ \A j \in DOMAIN syms : syms'[j] = syms[j]
        /\ syms'[Len(syms) + 1] = info
    BY <1>4, <1>5, AppendFacts
  <2> QED BY <1>4, <2>1
<1>7. Len(scopes) - 1 = Len(frames)
  BY <1>1
<1> QED BY <1>4, <1>5, <1>6, <1>7

(* A name is declared that nothing is bound to.                            *)
LEMMA UnboundNoted ==
  ASSUME Built, NEW A, BuilderNoted(A), cur # NoBlock,
         UNCHANGED <<header, cur, frames, blocks>>, berrs \subseteq berrs',
         NEW n \in header.names, NEW info \in SymInfo, Declare(n, info),
         info.kind = "owned" => berrs' # {}
  PROVE  BuilderNoted(A)'
<1> DEFINE new == NewSym
<1>1. /\ new \in Sym /\ new = Len(syms) + 1 /\ syms' = Append(syms, info)
      /\ new \notin DOMAIN syms /\ DOMAIN syms \subseteq Sym
      /\ syms \in Seq(SymInfo) /\ DOMAIN syms' = DOMAIN syms \cup {new}
      /\ syms'[new] = info /\ \A h \in DOMAIN syms : syms'[h] = syms[h]
      /\ Len(scopes') = Len(scopes)
      /\ \A j \in 1 .. Len(frames) : scopes'[j] = scopes[j]
      /\ Visible(scopes', Len(scopes)) \subseteq Visible(scopes, Len(scopes)) \cup {new}
  BY DeclaredHere
<1>2. A \in Bindings /\ new \notin A.bound /\ A.obl[new] = new
  BY <1>1, FreshFacts
<1> HIDE DEF new
<1>3. Noted(blocks', syms', DOMAIN header.params, A)
  <2>1. /\ GraphOk(blocks, [syms |-> syms], Open)
        /\ Noted(blocks, syms, DOMAIN header.params, A)
        /\ DOMAIN header.params \subseteq DOMAIN syms
    BY BuiltFacts DEF BuilderNoted, SymbolsOk
  <2>2. SaysOfNew(A, A, syms', new)
    BY <1>1, <1>2 DEF SaysOfNew
  <2> QED BY <1>1, <1>2, <2>1, <2>2, NotedDeclare
<1>4. Stays(A, A, blocks')
  BY DEF Stays, Alike
<1>5. Visible(scopes', Len(scopes)) \cap A.bound
         \subseteq A.here[cur][EndOf(blocks', cur)]
  <2>1. GoesOn(A, blocks, cur, scopes, frames, Len(scopes))
    BY DEF BuilderNoted, CurNoted
  <2> QED BY <1>1, <1>2, <2>1 DEF GoesOn
<1>6. berrs' = {} =>
         \A h \in DOMAIN syms' : syms'[h].kind = "owned" => h \in A.bound
  BY <1>1 DEF BuilderNoted, AllBound
<1> QED BY <1>1, <1>3, <1>4, <1>5, <1>6, StatementNoted

(* The source of a move or of an alias.                                    *)
Source(i, info) ==
  /\ i.src \in DOMAIN syms /\ i.src \in Visible(scopes, Len(scopes))
  /\ syms[i.src].kind = "owned" /\ syms[i.src].buf = info.buf

(* A name is declared and bound.                                           *)
LEMMA BoundNoted ==
  ASSUME Built, NEW A, BuilderNoted(A), cur # NoBlock,
         UNCHANGED <<header, cur, frames>>, berrs \subseteq berrs',
         NEW n \in header.names, NEW info \in SymInfo, Declare(n, info),
         NEW i \in Instr, i.sym = NewSym, Emit(<<i>>),
         i.op = "acquire" \/ (i.op \in {"move", "alias"} /\ Source(i, info))
  PROVE  \E A2 : BuilderNoted(A2)'
<1> DEFINE ps == DOMAIN header.params
<1>0. PICK new : new = NewSym
  OBVIOUS
<1>1. /\ new \in Sym /\ new = Len(syms) + 1 /\ syms' = Append(syms, info)
      /\ new \notin DOMAIN syms /\ DOMAIN syms \subseteq Sym
      /\ syms \in Seq(SymInfo) /\ DOMAIN syms' = DOMAIN syms \cup {new}
      /\ syms'[new] = info /\ \A h \in DOMAIN syms : syms'[h] = syms[h]
      /\ Len(scopes') = Len(scopes)
      /\ \A j \in 1 .. Len(frames) : scopes'[j] = scopes[j]
      /\ Visible(scopes', Len(scopes)) \subseteq Visible(scopes, Len(scopes)) \cup {new}
  BY <1>0, DeclaredHere
<1>2. /\ A \in Bindings /\ new \notin A.bound /\ A.obl[new] = new
      /\ A.bound \subseteq DOMAIN syms
      /\ \A h \in DOMAIN syms : A.obl[h] \in DOMAIN syms
      /\ \A h \in DOMAIN syms : syms[A.obl[h]].buf = syms[h].buf
  BY <1>0, <1>1, FreshFacts
<1>3. PICK r : r = IF i.op = "alias" THEN A.obl[i.src] ELSE new
  OBVIOUS
<1>4. /\ r \in DOMAIN syms' /\ r \in Sym /\ syms'[r].buf = info.buf
  <2>1. CASE i.op = "alias"
    <3>1. i.src \in DOMAIN syms /\ syms[i.src].buf = info.buf /\ r = A.obl[i.src]
      BY <1>3, <2>1 DEF Source
    <3>2. r \in DOMAIN syms /\ syms[r].buf = info.buf
      BY <1>2, <3>1
    <3> QED BY <1>1, <3>2
  <2>2. CASE i.op # "alias"
    BY <1>1, <1>3, <2>2
  <2> QED BY <2>1, <2>2
<1>5. PICK A1 : A1 = Ext(A, new, r)
  OBVIOUS
<1>6. /\ A1 \in Bindings /\ A1.bound = A.bound \cup {new}
      /\ A1.here = A.here /\ A1.loans = A.loans /\ A1.obl[new] = r
      /\ \A h \in Sym : h # new => A1.obl[h] = A.obl[h]
  <2>1. AsExtended(A, new, r, A1)
    BY <1>1, <1>2, <1>4, <1>5, ExtFacts
  <2> QED BY <2>1 DEF AsExtended
<1>7. Noted(blocks, syms', ps, A1)
  <2>1. /\ GraphOk(blocks, [syms |-> syms], Open)
        /\ Noted(blocks, syms, ps, A) /\ ps \subseteq DOMAIN syms
    BY BuiltFacts DEF BuilderNoted, SymbolsOk
  <2> HIDE DEF ps
  <2>2. SaysOfNew(A, A1, syms', new)
    BY <1>1, <1>4, <1>6 DEF SaysOfNew
  <2> QED BY <1>1, <2>1, <2>2, NotedDeclare
<1>8. /\ blocks \in Seq(BlockType) /\ cur \in DOMAIN blocks /\ blocks[cur].succ = <<>>
      /\ Len(scopes) = Len(frames) + 1 /\ Len(frames) \in Nat
  BY BuiltFacts DEF GraphOk
<1>9. PICK m : m = EndOf(blocks, cur)
  OBVIOUS
<1>10. m \in Nat /\ cur \in Nat
  BY <1>8, <1>9, BlockFacts
<1>11. PICK h, ls : h = A.here[cur][m] \cup {new} /\ ls = A.loans[cur][m]
  OBVIOUS
<1>12. h \in SUBSET Sym /\ ls \in SUBSET Loan
  BY <1>1, <1>2, <1>10, <1>11 DEF Bindings
<1>13. PICK Z : Z = Noting(A1, cur, m, h, ls)
  OBVIOUS
<1>14. AsNoted(A1, cur, m, h, ls, Z)
  BY <1>6, <1>10, <1>12, <1>13, NotingFacts
<1>15. Visible(scopes, Len(scopes)) \cap A.bound \subseteq A.here[cur][m]
       /\ A.loans[cur][m] = OpenLoans(A, frames, Len(scopes) - 1)
  BY <1>9 DEF BuilderNoted, CurNoted, GoesOn
<1>16. Flows(syms', A1, i, A1.here[cur][m], A1.loans[cur][m], h, ls)
  <2>1. InPlace(syms', A1, SubjectIn(syms', i), A.here[cur][m])
    <3>1. CASE i.op = "acquire"
      BY <3>1 DEF SubjectIn, InPlace
    <3>2. CASE i.op \in {"move", "alias"} /\ Source(i, info)
      <4>1. SubjectIn(syms', i) = i.src
        BY <3>2 DEF SubjectIn
      <4>2. syms'[i.src].kind = "owned"
        BY <1>1, <3>2 DEF Source
      <4>3. i.src \in A1.bound => i.src \in A.here[cur][m]
        BY <1>1, <1>6, <1>15, <3>2 DEF Source
      <4> QED BY <4>1, <4>2, <4>3 DEF InPlace
    <3> QED BY <3>1, <3>2
  <2>2. h \subseteq A.here[cur][m] \cup Binds(i)
    BY <1>0, <1>11 DEF Binds
  <2>3. ls = LoansAfter(A1, i, ls)
    BY DEF LoansAfter
  <2>4. i.op \in {"acquire", "move"} => A1.obl[i.sym] = i.sym
    BY <1>0, <1>3, <1>6
  <2>5. i.op = "alias" => A1.obl[i.sym] = A1.obl[i.src]
    <3>1. i.op = "alias" => i.src \in Sym /\ i.src # new
      BY <1>1 DEF Source
    <3> QED BY <1>0, <1>3, <1>6, <3>1
  <2>6. i.op = "move" => syms'[i.sym].buf = syms'[i.src].buf
    BY <1>0, <1>1 DEF Source
  <2> QED BY <1>6, <1>11, <2>1, <2>2, <2>3, <2>4, <2>5, <2>6 DEF Flows
<1> DEFINE is == <<i>>
<1>17. /\ is \in Seq(Instr) /\ is # <<>>
       /\ blocks' = [blocks EXCEPT ![cur].instrs = @ \o is]
       /\ \A x \in DOMAIN is : x = 1 /\ is[x] = i
  BY DEF Emit, Emitted
<1> HIDE DEF is, ps
<1>18. \A x \in DOMAIN is :
          Flows(syms', A1, is[x],
                IF x = 1 THEN A1.here[cur][EndOf(blocks, cur)] ELSE h,
                IF x = 1 THEN A1.loans[cur][EndOf(blocks, cur)] ELSE ls, h, ls)
  BY <1>9, <1>16, <1>17
<1>19. EmissionNoted(blocks, syms', ps, A1, cur, h, ls, Z, blocks')
  BY <1>7, <1>8, <1>9, <1>12, <1>14, <1>17, <1>18, NotedEmit
<1>20. Stays(A, Z, blocks')
  <2>1. \A b \in DOMAIN blocks : EndOf(blocks, b) \in Nat
    BY <1>8, BlockFacts
  <2>2. Alike(A, Z)
    BY <1>1, <1>6, <1>19 DEF Alike, EmissionNoted
  <2> QED BY <1>6, <1>19, <2>1, <2>2 DEF Stays, EmissionNoted
<1>21. Visible(scopes', Len(scopes)) \cap Z.bound
          \subseteq Z.here[cur][EndOf(blocks', cur)]
  BY <1>1, <1>6, <1>11, <1>15, <1>19 DEF EmissionNoted
<1>22. berrs' = {} =>
          \A x \in DOMAIN syms' : syms'[x].kind = "owned" => x \in Z.bound
  BY <1>1, <1>6, <1>19 DEF BuilderNoted, AllBound, EmissionNoted
<1>23. Z.loans[cur][EndOf(blocks', cur)] = A.loans[cur][EndOf(blocks, cur)]
  BY <1>9, <1>11, <1>19 DEF EmissionNoted
<1>24. Noted(blocks', syms', DOMAIN header.params, Z)
  BY <1>19 DEF EmissionNoted, ps
<1>25. BuilderNoted(Z)'
  BY <1>1, <1>8, <1>20, <1>21, <1>22, <1>23, <1>24, StatementNoted
<1> QED BY <1>25

(* Nothing is lowered.                                                     *)
LEMMA SameNoted ==
  ASSUME NEW A, BuilderNoted(A), berrs \subseteq berrs',
         UNCHANGED <<header, blocks, cur, frames, scopes, syms>>
  PROVE  BuilderNoted(A)'
BY DEF BuilderNoted, AllBound

ErrorsGrow == berrs \subseteq berrs'

LEMMA ErrorsKept ==
  ASSUME NEW es, Errors(es)
  PROVE  /\ ErrorsGrow
         /\ es # {} => berrs' # {}
BY DEF Errors, ErrorsGrow

(* An instruction that binds nothing and is about something visible.       *)
Quiet(i) ==
  /\ i \in Instr
  /\ i.op \in {"release", "overspan", "use", "invoke", "arg", "return"}
  /\ i.sym = NoSym \/ i.sym \in Visible(scopes, Len(scopes))
  /\ i.op \in {"release", "return"} =>
        i.sym = NoSym \/ syms[i.sym].kind = "owned"

LEMMA QuietFlows ==
  ASSUME NEW A, BuilderNoted(A), cur # NoBlock, NEW i, Quiet(i),
         NEW h, h = A.here[cur][EndOf(blocks, cur)], NEW ls
  PROVE  Flows(syms, A, i, h, ls, h, ls)
<1>1. Visible(scopes, Len(scopes)) \cap A.bound \subseteq h
  BY DEF BuilderNoted, CurNoted, GoesOn
<1>2. InPlace(syms, A, SubjectIn(syms, i), h)
  BY <1>1 DEF Quiet, SubjectIn, InPlace
<1>3. ls = LoansAfter(A, i, ls)
  BY DEF LoansAfter, Quiet
<1> QED BY <1>2, <1>3 DEF Flows, Quiet

(* A symbol found by name may be named by an instruction.                  *)
LEMMA QuietMade ==
  ASSUME Built, NEW s, s = NoSym \/ (s \in DOMAIN syms /\ s \in Visible(scopes, Len(scopes))),
         NEW op \in {"release", "overspan", "use", "invoke", "arg", "return"},
         op \in {"release", "return"} => s = NoSym \/ syms[s].kind = "owned"
  PROVE  /\ Quiet(I(op, s, NoSym))
         /\ \A eff \in Effects : Quiet([I(op, s, NoSym) EXCEPT !.eff = eff])
<1> DEFINE i == I(op, s, NoSym)
<1>1. stmts \in Nat /\ DOMAIN syms \subseteq Sym
  BY DEF Built, SymbolsOk
<1>2. i \in Instr
  BY <1>1 DEF I, Line, Instr, Effects, InstrOps
<1>3. i.op = op /\ i.sym = s
  BY DEF I
<1> HIDE DEF i
<1>4. Quiet(i)
  BY <1>2, <1>3 DEF Quiet
<1>5. ASSUME NEW eff \in Effects PROVE Quiet([i EXCEPT !.eff = eff])
  <2>1. PICK x : x = [i EXCEPT !.eff = eff]
    OBVIOUS
  <2>2. x \in Instr /\ x.op = op /\ x.sym = s
    BY <1>2, <1>3, <2>1 DEF Instr
  <2>3. Quiet(x)
    BY <2>2 DEF Quiet
  <2> QED BY <2>1, <2>3
<1> QED BY <1>4, <1>5 DEF i

Quietly(q) == q \in Seq(Instr) /\ \A j \in DOMAIN q : Quiet(q[j])

LEMMA QuietOne ==
  ASSUME NEW i, Quiet(i) PROVE Quietly(<<i>>)
<1>1. i \in Instr
  BY DEF Quiet
<1>2. <<i>> \in Seq(Instr) /\ \A j \in DOMAIN <<i>> : <<i>>[j] = i
  BY <1>1
<1> QED BY <1>2 DEF Quietly

LEMMA QuietConcat ==
  ASSUME NEW q, NEW r, Quietly(q), Quietly(r)
  PROVE  Quietly(q \o r) /\ (q # <<>> => q \o r # <<>>)
<1>1. q \in Seq(Instr) /\ r \in Seq(Instr)
  BY DEF Quietly
<1>2. /\ q \o r \in Seq(Instr) /\ Len(q \o r) = Len(q) + Len(r)
      /\ Len(q) \in Nat /\ Len(r) \in Nat
  BY <1>1, ConcatFacts
<1>3. ASSUME NEW j \in DOMAIN (q \o r) PROVE Quiet((q \o r)[j])
  <2>1. CASE j \in DOMAIN q
    BY <1>1, <2>1, ConcatFacts DEF Quietly
  <2>2. CASE j \notin DOMAIN q
    <3>1. j - Len(q) \in DOMAIN r /\ j \in Nat /\ Len(q) \in Nat
      BY <1>1, <1>3, <2>2, ConcatFacts
    <3>2. j = Len(q) + (j - Len(q))
      BY <3>1
    <3>3. (q \o r)[Len(q) + (j - Len(q))] = r[j - Len(q)]
      BY <1>1, <3>1, ConcatFacts
    <3> QED BY <3>1, <3>2, <3>3 DEF Quietly
  <2> QED BY <2>1, <2>2
<1>4. q # <<>> => q \o r # <<>>
  <2>1. q # <<>> => Len(q) > 0
    BY <1>1, <1>2
  <2>2. q \o r = <<>> => Len(q \o r) = 0
    OBVIOUS
  <2> QED BY <1>2, <2>1, <2>2
<1> QED BY <1>2, <1>3, <1>4 DEF Quietly

LEMMA QuietNoted ==
  ASSUME Built, NEW A, BuilderNoted(A), cur # NoBlock, ErrorsGrow,
         UNCHANGED <<header, cur, frames, scopes, syms>>,
         NEW is, Quietly(is), is # <<>>, Emit(is)
  PROVE  \E A2 : BuilderNoted(A2)'
<1>1. PICK h, ls : /\ h = A.here[cur][EndOf(blocks, cur)]
                   /\ ls = A.loans[cur][EndOf(blocks, cur)]
  OBVIOUS
<1>2. is \in Seq(Instr) /\ blocks' = Emitted(is) /\ berrs \subseteq berrs'
  BY DEF Quietly, Emit, ErrorsGrow
<1>3. \A m \in DOMAIN is : Flows(syms, A, is[m], h, ls, h, ls)
  BY <1>1, QuietFlows DEF Quietly
<1> QED BY <1>1, <1>2, <1>3, StillNoted

LEMMA CallQuiet ==
  ASSUME Built, NEW f \in Declared, NEW args, NEW m \in Nat,
         DOMAIN args = 1 .. m, Len(Signature(f)) = m
  PROVE  Quietly(ArgInstrs(f, args)) /\ ArgInstrs(f, args) # <<>>
<1>1. SymbolsOk
  BY DEF Built
<1> DEFINE inv == <<I("invoke", NoSym, NoSym)>>
<1>2. Quietly(inv) /\ inv # <<>>
  BY QuietMade, QuietOne
<1>3. ASSUME NEW j PROVE Quietly(ArgInstr(f, args, j))
  <2>1. CASE j \in DOMAIN args /\ Lookup(args[j]) # NoSym
    <3> DEFINE s == Lookup(args[j])
    <3>1. Signature(f)[j] \in Effects
      BY <1>1, <2>1, SignatureType
    <3>2. s \in DOMAIN syms /\ s \in Visible(scopes, Len(scopes))
      BY <1>1, <2>1, LookupType, LookupVisible
    <3>3. ArgInstr(f, args, j) = <<[I("arg", s, NoSym) EXCEPT !.eff = Signature(f)[j]]>>
      BY <2>1 DEF ArgInstr
    <3> HIDE DEF s
    <3>4. Quiet([I("arg", s, NoSym) EXCEPT !.eff = Signature(f)[j]])
      BY <3>1, <3>2, QuietMade
    <3> QED BY <3>3, <3>4, QuietOne
  <2>2. CASE ~ (j \in DOMAIN args /\ Lookup(args[j]) # NoSym)
    BY <2>2 DEF ArgInstr, Quietly
  <2> QED BY <2>1, <2>2
<1> HIDE DEF inv
<1>4. Quietly(inv \o ArgInstr(f, args, 1)) /\ inv \o ArgInstr(f, args, 1) # <<>>
  BY <1>2, <1>3, QuietConcat
<1>5. /\ Quietly(inv \o ArgInstr(f, args, 1) \o ArgInstr(f, args, 2))
      /\ inv \o ArgInstr(f, args, 1) \o ArgInstr(f, args, 2) # <<>>
  BY <1>3, <1>4, QuietConcat
<1> QED BY <1>5 DEF ArgInstrs, inv

LEMMA StraightNoted ==
  ASSUME Built, NEW A, BuilderNoted(A), StraightStmt
  PROVE  \E A2 : BuilderNoted(A2)'
<1>0. SymbolsOk /\ stmts \in Nat /\ DOMAIN syms \subseteq Sym
  BY DEF Built, SymbolsOk
<1>1. \A op : Statement(op) => header' = header /\ cur # NoBlock
  BY DEF Statement
<1>2. ASSUME NEW op \in {"acquire", "move", "alias"}, NEW s \in DOMAIN syms \cup {NoSym},
             NewSym \in Sym
      PROVE  /\ I(op, NewSym, s) \in Instr /\ I(op, NewSym, s).op = op
             /\ I(op, NewSym, s).sym = NewSym /\ I(op, NewSym, s).src = s
  BY <1>0, <1>2 DEF I, Line, Instr, Effects, InstrOps
<1>3. ASSUME NEW n \in header.names, NEW info \in SymInfo, Declare(n, info)
      PROVE  NewSym \in Sym
  BY <1>3, DeclaredHere
<1>4. ASSUME NEW n \in header.names, NEW t \in Types, LetAcquire(n, t)
      PROVE  \E A2 : BuilderNoted(A2)'
  <2>1. Owned(t) \in SymInfo /\ Declare(n, Owned(t))
    BY <1>4, SymbolMade, TypesAssumption DEF LetAcquire
  <2>2. PICK i : i = I("acquire", NewSym, NoSym)
    OBVIOUS
  <2>3. i \in Instr /\ i.op = "acquire" /\ i.sym = NewSym
    BY <1>2, <1>3, <2>1, <2>2
  <2>4. /\ cur # NoBlock /\ UNCHANGED <<header, cur, frames>> /\ Emit(<<i>>)
        /\ berrs \subseteq berrs'
    BY <1>1, <1>4, <2>2, ErrorsKept DEF LetAcquire, ErrorsGrow
  <2> QED BY <2>1, <2>3, <2>4, BoundNoted
<1>5. ASSUME NEW n \in header.names, NEW buf \in Backing, NEW size,
             LetBuffer(n, buf, size)
      PROVE  \E A2 : BuilderNoted(A2)'
  <2>0. PICK info : info = [Owned(Untyped) EXCEPT !.buf = buf]
    OBVIOUS
  <2>1. info \in SymInfo /\ Declare(n, info)
    <3>1. Untyped \in STRING
      BY TypesAssumption DEF Untyped
    <3> QED BY <1>5, <2>0, <3>1, SymbolMade DEF LetBuffer
  <2>2. cur # NoBlock /\ UNCHANGED <<header, cur, frames>>
    BY <1>1, <1>5 DEF LetBuffer
  <2>3. CASE buf = "none"
    <3>1. Errors(ErrIf(TRUE, "OWN030") \cup Shadows(n)) /\ UNCHANGED blocks
      BY <1>5, <2>3 DEF LetBuffer
    <3>2. ErrIf(TRUE, "OWN030") # {}
      BY DEF ErrIf
    <3>3. berrs \subseteq berrs' /\ berrs' # {}
      BY <3>1, <3>2, ErrorsKept DEF ErrorsGrow
    <3> QED BY <2>1, <2>2, <3>1, <3>3, UnboundNoted
  <2>4. CASE buf # "none"
    <3>1. PICK i : i = I("acquire", NewSym, NoSym)
      OBVIOUS
    <3>2. i \in Instr /\ i.op = "acquire" /\ i.sym = NewSym
      BY <1>2, <1>3, <2>1, <3>1
    <3>3. Emit(<<i>>) /\ berrs \subseteq berrs'
      BY <1>5, <2>4, <3>1, ErrorsKept DEF LetBuffer, ErrorsGrow
    <3> QED BY <2>1, <2>2, <3>2, <3>3, BoundNoted
  <2> QED BY <2>3, <2>4
<1>6. ASSUME NEW n \in header.names, NEW op \in {"move", "alias"}, NEW m,
             Derived(op, n, m)
      PROVE  \E A2 : BuilderNoted(A2)'
  <2>1. cur # NoBlock /\ UNCHANGED <<header, cur, frames>>
        /\ Errors(Undefined(m) \cup NotOwned(m) \cup Shadows(n))
    BY <1>1, <1>6 DEF Derived
  <2>2. berrs \subseteq berrs'
    BY <2>1, ErrorsKept DEF ErrorsGrow
  <2>3. CASE IsOwned(m)
    <3>1. /\ Lookup(m) \in DOMAIN syms /\ syms[Lookup(m)].type \in STRING
          /\ syms[Lookup(m)].buf \in Backing
          /\ Lookup(m) \in Visible(scopes, Len(scopes))
          /\ syms[Lookup(m)].kind = "owned"
      BY <1>0, <2>3, OwnedFacts, LookupVisible DEF IsOwned, KindOf
    <3>2. PICK info : info = [Owned(syms[Lookup(m)].type) EXCEPT
                                !.buf = syms[Lookup(m)].buf]
      OBVIOUS
    <3>3. info \in SymInfo /\ Declare(n, info) /\ info.buf = syms[Lookup(m)].buf
      <4>1. info \in SymInfo
        BY <3>1, <3>2, SymbolMade
      <4>2. info.buf = syms[Lookup(m)].buf
        BY <3>2 DEF Owned
      <4> QED BY <1>6, <2>3, <3>2, <4>1, <4>2 DEF Derived
    <3>4. PICK i : i = I(op, NewSym, Lookup(m))
      OBVIOUS
    <3>5. /\ i \in Instr /\ i.op \in {"move", "alias"} /\ i.sym = NewSym
          /\ i.src = Lookup(m)
      BY <1>2, <1>3, <3>1, <3>3, <3>4
    <3>6. Source(i, info)
      BY <3>1, <3>3, <3>5 DEF Source
    <3>7. Emit(<<i>>)
      BY <1>6, <2>3, <3>4 DEF Derived
    <3> QED BY <2>1, <2>2, <3>3, <3>5, <3>6, <3>7, BoundNoted
  <2>4. CASE ~ IsOwned(m)
    <3>1. PICK info : info = Owned(Untyped)
      OBVIOUS
    <3>2. info \in SymInfo /\ Declare(n, info) /\ UNCHANGED blocks
      <4>1. Untyped \in STRING
        BY TypesAssumption DEF Untyped
      <4> QED BY <1>6, <2>4, <3>1, <4>1, SymbolMade DEF Derived
    <3>3. Undefined(m) \cup NotOwned(m) \cup Shadows(n) # {}
      BY <2>4 DEF IsOwned, Undefined, NotOwned, ErrIf
    <3>4. berrs' # {}
      BY <2>1, <3>3, ErrorsKept
    <3> QED BY <2>1, <2>2, <3>2, <3>4, UnboundNoted
  <2> QED BY <2>3, <2>4
<1>7. ASSUME NEW n \in header.names, NEW type \in STRING, NEW es,
             Declare(n, Plain(type)), Errors(es), cur # NoBlock,
             UNCHANGED <<header, cur, frames, blocks>>
      PROVE  \E A2 : BuilderNoted(A2)'
  <2>1. PICK info : info = Plain(type)
    OBVIOUS
  <2>2. info \in SymInfo /\ info.kind = "plain" /\ Declare(n, info)
    BY <1>7, <2>1, SymbolMade DEF Plain, Owned
  <2>3. berrs \subseteq berrs'
    BY <1>7, ErrorsKept DEF ErrorsGrow
  <2> QED BY <1>7, <2>2, <2>3, UnboundNoted
<1>8. ASSUME NEW n \in header.names, NEW m, LetCopy(n, m)
      PROVE  \E A2 : BuilderNoted(A2)'
  <2> DEFINE type == IF Lookup(m) # NoSym /\ KindOf(Lookup(m)) = "plain"
                     THEN syms[Lookup(m)].type ELSE Untyped
             es == Undefined(m) \cup ErrIf(IsOwned(m), "OWN032") \cup Shadows(n)
  <2>1. type \in STRING
    <3>0. Untyped \in STRING
      BY TypesAssumption DEF Untyped
    <3>1. CASE Lookup(m) # NoSym
      <4>1. syms[Lookup(m)] \in SymInfo
        BY <1>0, <3>1, LookupType DEF SymbolsOk
      <4>2. syms[Lookup(m)].type \in STRING
        BY <4>1 DEF SymInfo
      <4> QED BY <3>0, <4>2
    <3> QED BY <3>0, <3>1
  <2>2. /\ Statement("copy") /\ Declare(n, Plain(type)) /\ Errors(es)
        /\ UNCHANGED <<blocks, cur, frames>>
    BY <1>8 DEF LetCopy
  <2> HIDE DEF type, es
  <2> QED BY <1>1, <1>7, <2>1, <2>2
<1>9. ASSUME NEW n \in header.names, LetInt(n) PROVE \E A2 : BuilderNoted(A2)'
  <2>1. "int" \in STRING
    BY TypesAssumption
  <2>2. /\ Statement("int") /\ Declare(n, Plain("int")) /\ Errors(Shadows(n))
        /\ UNCHANGED <<blocks, cur, frames>>
    BY <1>9 DEF LetInt
  <2> QED BY <1>1, <1>7, <2>1, <2>2
<1>10. ASSUME NEW op \in {"release", "overspan"}, NEW m, OnOwned(op, m)
       PROVE  \E A2 : BuilderNoted(A2)'
  <2>1. cur # NoBlock /\ UNCHANGED <<header, cur, frames, scopes, syms>> /\ ErrorsGrow
    BY <1>1, <1>10, ErrorsKept DEF OnOwned
  <2>2. CASE IsOwned(m)
    <3>1. /\ Lookup(m) \in DOMAIN syms /\ Lookup(m) \in Visible(scopes, Len(scopes))
          /\ syms[Lookup(m)].kind = "owned"
      BY <1>0, <2>2, OwnedFacts, LookupVisible DEF IsOwned, KindOf
    <3>2. PICK i : i = I(op, Lookup(m), NoSym)
      OBVIOUS
    <3>3. Quiet(i)
      BY <3>1, <3>2, QuietMade
    <3>4. Quietly(<<i>>) /\ <<i>> # <<>>
      BY <3>3, QuietOne
    <3>5. Emit(<<i>>)
      BY <1>10, <2>2, <3>2 DEF OnOwned
    <3> QED BY <2>1, <3>4, <3>5, QuietNoted
  <2>3. CASE ~ IsOwned(m)
    <3>1. UNCHANGED blocks
      BY <1>10, <2>3 DEF OnOwned
    <3> QED BY <2>1, <3>1, SameNoted DEF ErrorsGrow
  <2> QED BY <2>2, <2>3
<1>11. ASSUME NEW m, UseStmt(m) PROVE \E A2 : BuilderNoted(A2)'
  <2>1. cur # NoBlock /\ UNCHANGED <<header, cur, frames, scopes, syms>> /\ ErrorsGrow
    BY <1>1, <1>11, ErrorsKept DEF UseStmt
  <2>2. CASE Lookup(m) # NoSym
    <3>1. Lookup(m) \in DOMAIN syms /\ Lookup(m) \in Visible(scopes, Len(scopes))
      BY <1>0, <2>2, LookupType, LookupVisible
    <3>2. PICK i : i = I("use", Lookup(m), NoSym)
      OBVIOUS
    <3>3. Quiet(i)
      BY <3>1, <3>2, QuietMade
    <3>4. Quietly(<<i>>) /\ <<i>> # <<>>
      BY <3>3, QuietOne
    <3>5. Emit(<<i>>)
      BY <1>11, <2>2, <3>2 DEF UseStmt
    <3> QED BY <2>1, <3>4, <3>5, QuietNoted
  <2>3. CASE Lookup(m) = NoSym
    <3>1. UNCHANGED blocks
      BY <1>11, <2>3 DEF UseStmt
    <3> QED BY <2>1, <3>1, SameNoted DEF ErrorsGrow
  <2> QED BY <2>2, <2>3
<1>12. ASSUME NEW f, NEW m \in {1, 2}, NEW args, DOMAIN args = 1 .. m,
              Len(args) = m, CallStmt(f, args)
       PROVE  \E A2 : BuilderNoted(A2)'
  <2>1. cur # NoBlock /\ UNCHANGED <<header, cur, frames, scopes, syms>> /\ ErrorsGrow
    BY <1>1, <1>12, ErrorsKept DEF CallStmt
  <2>2. CASE f \in Declared /\ Len(args) = Len(Signature(f))
    <3>1. Quietly(ArgInstrs(f, args)) /\ ArgInstrs(f, args) # <<>>
      BY <1>12, <2>2, CallQuiet
    <3>2. Emit(ArgInstrs(f, args))
      BY <1>12, <2>2 DEF CallStmt
    <3> QED BY <2>1, <3>1, <3>2, QuietNoted
  <2>3. CASE ~ (f \in Declared /\ Len(args) = Len(Signature(f)))
    <3>1. UNCHANGED blocks
      BY <1>12, <2>3 DEF CallStmt
    <3> QED BY <2>1, <3>1, SameNoted DEF ErrorsGrow
  <2> QED BY <2>2, <2>3
<1>13. ASSUME NEW m \in {1, 2}, NEW args \in [1 .. m -> Mentionable \cup {"literal"}]
       PROVE  DOMAIN args = 1 .. m /\ Len(args) = m
  BY <1>13
<1> QED
  BY <1>4, <1>5, <1>6, <1>8, <1>9, <1>10, <1>11, <1>12, <1>13
     DEF StraightStmt, LetMove, AliasOf, ReleaseStmt, OverspanStmt

-----------------------------------------------------------------------------
(* Statements that open and close lists. *)

(* One instruction is added to the current block.                          *)
LEMMA EmitOneNoted ==
  ASSUME Built, cur # NoBlock, NEW A, NEW sy, NEW ps, Noted(blocks, sy, ps, A),
         NEW i \in Instr, NEW nh \in SUBSET Sym, NEW nl \in SUBSET Loan,
         NEW h, h = A.here[cur][EndOf(blocks, cur)],
         NEW ls, ls = A.loans[cur][EndOf(blocks, cur)],
         Flows(sy, A, i, h, ls, nh, nl), NEW bs2, bs2 = Emitted(<<i>>)
  PROVE  \E Z : EmissionNoted(blocks, sy, ps, A, cur, nh, nl, Z, bs2)
                /\ Stays(A, Z, bs2)
<1>1. /\ blocks \in Seq(BlockType) /\ cur \in DOMAIN blocks /\ blocks[cur].succ = <<>>
  BY BuiltFacts DEF GraphOk
<1>2. PICK n : n = EndOf(blocks, cur)
  OBVIOUS
<1>3. n \in Nat /\ cur \in Nat
  BY <1>1, <1>2, BlockFacts
<1>4. A \in Bindings
  BY DEF Noted
<1>5. PICK Z : Z = Noting(A, cur, n, nh, nl)
  OBVIOUS
<1>6. AsNoted(A, cur, n, nh, nl, Z)
  BY <1>3, <1>4, <1>5, NotingFacts
<1> DEFINE is == <<i>>
<1>7. /\ is \in Seq(Instr) /\ is # <<>>
      /\ bs2 = [blocks EXCEPT ![cur].instrs = @ \o is]
      /\ \A x \in DOMAIN is : x = 1 /\ is[x] = i
  BY DEF Emitted
<1> HIDE DEF is
<1>8. \A x \in DOMAIN is :
         Flows(sy, A, is[x],
               IF x = 1 THEN A.here[cur][EndOf(blocks, cur)] ELSE nh,
               IF x = 1 THEN A.loans[cur][EndOf(blocks, cur)] ELSE nl, nh, nl)
  BY <1>7
<1>9. EmissionNoted(blocks, sy, ps, A, cur, nh, nl, Z, bs2)
  BY <1>1, <1>2, <1>6, <1>7, <1>8, NotedEmit
<1>10. Stays(A, Z, bs2)
  <2>1. \A b \in DOMAIN blocks : EndOf(blocks, b) \in Nat
    BY <1>1, BlockFacts
  <2>2. Alike(A, Z)
    BY <1>9 DEF Alike, EmissionNoted
  <2> QED BY <1>9, <2>1, <2>2 DEF Stays, EmissionNoted
<1> QED BY <1>9, <1>10

LEMMA VisiblePushed ==
  ASSUME NEW scs, ScopesOk(scs)
  PROVE  /\ Visible(Append(scs, <<>>), Len(scs) + 1) = Visible(scs, Len(scs))
         /\ \A j \in 1 .. Len(scs) : Append(scs, <<>>)[j] = scs[j]
<1> DEFINE e == <<>>
           new == Append(scs, e)
<1>1. e \in Scope /\ DOMAIN e = {} /\ scs \in Seq(Scope)
  <2>1. e \in [{} -> Sym] /\ {} \in SUBSET Mentionable
    OBVIOUS
  <2> QED BY <2>1 DEF Scope, ScopesOk
<1> HIDE DEF e
<1>2. /\ Len(scs) \in Nat /\ DOMAIN scs = 1 .. Len(scs)
      /\ \A j \in DOMAIN scs : new[j] = scs[j]
      /\ new[Len(scs) + 1] = e
  BY <1>1, AppendFacts
<1> HIDE DEF new
<1>3. \A j \in 1 .. Len(scs) + 1 : j \in 1 .. Len(scs) \/ j = Len(scs) + 1
  BY <1>2
<1>4. Visible(new, Len(scs) + 1) = Visible(scs, Len(scs))
  <2>1. ASSUME NEW x \in Visible(new, Len(scs) + 1) PROVE x \in Visible(scs, Len(scs))
    <3>1. x \in Sym /\ \E j \in 1 .. Len(scs) + 1 : \E y \in DOMAIN new[j] : new[j][y] = x
      BY <2>1 DEF Visible
    <3>2. PICK j \in 1 .. Len(scs) + 1 : \E y \in DOMAIN new[j] : new[j][y] = x
      BY <3>1
    <3>3. j # Len(scs) + 1
      BY <1>1, <1>2, <3>2
    <3>4. j \in 1 .. Len(scs)
      BY ONLY <1>3, <3>3, j \in 1 .. Len(scs) + 1
    <3> QED BY <1>2, <3>1, <3>2, <3>4 DEF Visible
  <2>2. ASSUME NEW x \in Visible(scs, Len(scs)) PROVE x \in Visible(new, Len(scs) + 1)
    <3>1. x \in Sym
      BY <2>2 DEF Visible
    <3>2. PICK j \in 1 .. Len(scs) : \E y \in DOMAIN scs[j] : scs[j][y] = x
      BY <2>2 DEF Visible
    <3>3. j \in 1 .. Len(scs) + 1 /\ new[j] = scs[j]
      BY <1>2
    <3> QED BY <3>1, <3>2, <3>3 DEF Visible
  <2> QED BY <2>1, <2>2
<1> QED BY <1>2, <1>4 DEF new, e

(* A statement is opened: what is lent above it.                           *)
LEMMA LentPushed ==
  ASSUME NEW A, NEW fs \in Seq(Frame), NEW f \in Frame
  PROVE  /\ Len(Append(fs, f)) = Len(fs) + 1 /\ Append(fs, f)[Len(fs) + 1] = f
         /\ DOMAIN Append(fs, f) = DOMAIN fs \cup {Len(fs) + 1}
         /\ \A j \in 1 .. Len(fs) : Append(fs, f)[j] = fs[j]
         /\ f.kind # "borrow" =>
              OpenLoans(A, Append(fs, f), Len(fs) + 1) = OpenLoans(A, fs, Len(fs))
         /\ f.kind = "borrow" =>
              OpenLoans(A, Append(fs, f), Len(fs) + 1) =
                 OpenLoans(A, fs, Len(fs)) \cup {LoanOf(A, f.end)}
<1> DEFINE gs == Append(fs, f)
<1>1. /\ Len(fs) \in Nat /\ DOMAIN fs = 1 .. Len(fs) /\ Len(gs) = Len(fs) + 1
      /\ DOMAIN gs = 1 .. Len(fs) + 1
      /\ \A j \in DOMAIN fs : gs[j] = fs[j]
      /\ gs[Len(fs) + 1] = f
  BY AppendFacts
<1> HIDE DEF gs
<1>2. 1 .. Len(fs) + 1 = 1 .. Len(fs) \cup {Len(fs) + 1} /\ Len(fs) + 1 \notin 1 .. Len(fs)
  BY <1>1
<1>3. Lent(gs, Len(fs) + 1) =
        Lent(fs, Len(fs)) \cup (IF f.kind = "borrow" THEN {Len(fs) + 1} ELSE {})
  BY <1>1, <1>2 DEF Lent
<1>4. \A j \in Lent(fs, Len(fs)) : gs[j].end = fs[j].end
  BY <1>1 DEF Lent
<1>5. f.kind # "borrow" => OpenLoans(A, gs, Len(fs) + 1) = OpenLoans(A, fs, Len(fs))
  BY <1>3, <1>4 DEF OpenLoans
<1>6. f.kind = "borrow" => OpenLoans(A, gs, Len(fs) + 1) =
                             OpenLoans(A, fs, Len(fs)) \cup {LoanOf(A, f.end)}
  BY <1>1, <1>3, <1>4 DEF OpenLoans
<1> QED BY <1>1, <1>2, <1>5, <1>6 DEF gs

LEMMA PushedNoted ==
  ASSUME Built, NEW A, BuilderNoted(A), NEW A2, Stays(A, A2, blocks'),
         NEW f \in Frame, frames' = Append(frames, f),
         \A j \in 1 .. Len(scopes) : scopes'[j] = scopes[j],
         FrameNoted(A2, blocks', scopes', frames', Len(frames) + 1)
  PROVE  \A j \in DOMAIN frames' : FrameNoted(A2, blocks', scopes', frames', j)
<1>1. /\ frames \in Seq(Frame) /\ Len(scopes) = Len(frames) + 1 /\ Len(frames) \in Nat
      /\ DOMAIN frames = 1 .. Len(frames)
  BY BuiltFacts
<1>2. /\ DOMAIN frames' = DOMAIN frames \cup {Len(frames) + 1}
      /\ \A j \in 1 .. Len(frames) : frames'[j] = frames[j]
  BY <1>1, LentPushed
<1>3. ASSUME NEW j \in DOMAIN frames PROVE FrameNoted(A2, blocks', scopes', frames', j)
  <2>1. /\ \A l \in 1 .. j : frames'[l] = frames[l]
        /\ \A l \in 1 .. j : scopes'[l] = scopes[l]
    BY <1>1, <1>2
  <2> QED BY <2>1, FrameStays
<1> QED BY <1>2, <1>3

(* The instructions of a borrow.                                           *)
BorrowEnds(start, end, h, m, mut) ==
  /\ start.op = "borrow_start" /\ end.op = "borrow_end"
  /\ start.sym = h /\ end.sym = h /\ start.src = m /\ end.src = m
  /\ start.mut = mut /\ end.mut = mut

LEMMA BorrowNoted ==
  ASSUME Built, NEW A, BuilderNoted(A), NEW m \in Mentionable, NEW n \in header.names,
         NEW mut \in BOOLEAN, OpenBorrow(m, n, mut), IsOwned(m)
  PROVE  \E A2 : BuilderNoted(A2)'
<1> DEFINE ps == DOMAIN header.params
           top == Len(scopes)
<1>1. /\ cur' = cur /\ header' = header /\ cur # NoBlock
  BY DEF OpenBorrow, Statement
<1>2. PICK start, end, scs :
         /\ start = [I("borrow_start", NewSym, Lookup(m)) EXCEPT !.mut = mut]
         /\ end = [I("borrow_end", NewSym, Lookup(m)) EXCEPT !.mut = mut]
         /\ scs = Append(scopes, <<>>)
  OBVIOUS
<1>3. PICK frame : frame = [kind |-> "borrow", end |-> end]
  OBVIOUS
<1>4. /\ DeclareIn(scs, n, BorrowOf(mut)) /\ blocks' = Emitted(<<start>>)
      /\ frames' = Append(frames, frame) /\ Errors(Shadows(n))
  BY <1>2, <1>3 DEF OpenBorrow, PushScope, Emit
<1>5. PICK info : info = BorrowOf(mut)
  OBVIOUS
<1>6. info \in SymInfo /\ info.kind = "borrow"
  <2>1. Untyped \in STRING
    BY TypesAssumption DEF Untyped
  <2>2. info \in SymInfo
    BY <1>5, <2>1, SymbolMade
  <2>3. info.kind = "borrow"
    BY <1>5 DEF BorrowOf, Owned
  <2> QED BY <2>2, <2>3
<1>7. /\ SymbolsOk /\ ScopesOk(scs) /\ Len(scs) = top + 1 /\ top = Len(frames) + 1
      /\ Len(frames) \in Nat /\ frames \in Seq(Frame)
      /\ GraphOk(blocks, [syms |-> syms], Open)
      /\ Visible(scs, top + 1) = Visible(scopes, top)
      /\ \A j \in 1 .. top : scs[j] = scopes[j]
  BY <1>2, BuiltFacts, ScopePushed, VisiblePushed
<1> HIDE DEF top
<1>8. PICK new : new = NewSym
  OBVIOUS
<1>9. /\ new \in Sym /\ new = Len(syms) + 1 /\ syms' = Append(syms, info)
      /\ new \notin DOMAIN syms
      /\ Len(scopes') = top + 1
      /\ \A j \in 1 .. top : scopes'[j] = scopes[j]
      /\ Visible(scopes', top + 1) \subseteq Visible(scopes, top) \cup {new}
  <2>1. scs # <<>> /\ n \in Mentionable /\ Len(scs) - 1 = top
    <3>1. scs # <<>>
      BY <1>7
    <3> QED BY <1>7, <3>1 DEF Mentionable
  <2>2. /\ NewSym \in Sym /\ NewSym = Len(syms) + 1 /\ syms' = Append(syms, info)
        /\ NewSym \notin DOMAIN syms
        /\ Len(scopes') = Len(scs)
        /\ \A j \in 1 .. Len(scs) - 1 : scopes'[j] = scs[j]
        /\ Visible(scopes', Len(scs)) \subseteq Visible(scs, Len(scs)) \cup {NewSym}
    BY <1>4, <1>5, <1>6, <1>7, <2>1, DeclaredVisible
  <2> QED BY <1>7, <1>8, <2>1, <2>2
<1>10. /\ syms \in Seq(SymInfo) /\ DOMAIN syms \subseteq Sym
       /\ DOMAIN syms' = DOMAIN syms \cup {new}
       /\ syms'[new] = info /\ \A h \in DOMAIN syms : syms'[h] = syms[h]
  <2>1. syms \in Seq(SymInfo) /\ DOMAIN syms \subseteq Sym
    BY <1>7 DEF SymbolsOk
  <2>2. /\ DOMAIN syms = 1 .. Len(syms) /\ Len(syms) \in Nat
        /\ DOMAIN syms' = 1 .. Len(syms) + 1
        /\ \A j \in DOMAIN syms : syms'[j] = syms[j]
        /\ syms'[Len(syms) + 1] = info
    BY <1>6, <1>9, <2>1, AppendFacts
  <2> QED BY <1>9, <2>1, <2>2
<1>11. /\ A \in Bindings /\ new \notin A.bound /\ A.obl[new] = new
  BY <1>8, <1>9, FreshFacts
<1>12. Noted(blocks, syms', ps, A)
  <2>1. Noted(blocks, syms, ps, A) /\ ps \subseteq DOMAIN syms
    BY <1>7 DEF BuilderNoted, SymbolsOk
  <2> HIDE DEF ps
  <2>2. SaysOfNew(A, A, syms', new)
    BY <1>9, <1>10, <1>11 DEF SaysOfNew
  <2> QED BY <1>6, <1>7, <1>9, <1>10, <2>1, <2>2, NotedDeclare
<1>13. PICK src : src = Lookup(m)
  OBVIOUS
<1>14. /\ src \in DOMAIN syms /\ src \in Visible(scopes, top) /\ syms[src].kind = "owned"
  BY <1>7, <1>13, OwnedFacts, LookupVisible DEF IsOwned, KindOf, top
<1>15. /\ start \in Instr /\ end \in Instr /\ BorrowEnds(start, end, new, src, mut)
  <2>1. I("borrow_start", new, src) \in Instr /\ I("borrow_end", new, src) \in Instr
    <3>1. stmts \in Nat
      BY BuiltFacts
    <3> QED BY <1>9, <1>10, <1>14, <3>1 DEF I, Line, Instr, Effects, InstrOps
  <2>2. \A op : /\ I(op, new, src).op = op /\ I(op, new, src).sym = new
                /\ I(op, new, src).src = src
    BY DEF I
  <2>3. ASSUME NEW x \in Instr
        PROVE  /\ [x EXCEPT !.mut = mut] \in Instr /\ [x EXCEPT !.mut = mut].op = x.op
               /\ [x EXCEPT !.mut = mut].sym = x.sym
               /\ [x EXCEPT !.mut = mut].src = x.src
               /\ [x EXCEPT !.mut = mut].mut = mut
    BY DEF Instr
  <2>4. /\ start = [I("borrow_start", new, src) EXCEPT !.mut = mut]
        /\ end = [I("borrow_end", new, src) EXCEPT !.mut = mut]
    BY <1>2, <1>8, <1>13
  <2> QED BY <2>1, <2>2, <2>3, <2>4 DEF BorrowEnds
<1>16. PICK h, ls, nl : /\ h = A.here[cur][EndOf(blocks, cur)]
                        /\ ls = A.loans[cur][EndOf(blocks, cur)]
                        /\ nl = ls \cup {LoanOf(A, end)}
  OBVIOUS
<1>17. /\ Visible(scopes, top) \cap A.bound \subseteq h
       /\ ls = OpenLoans(A, frames, Len(frames))
  <2>1. GoesOn(A, blocks, cur, scopes, frames, top)
    BY <1>1 DEF BuilderNoted, CurNoted, top
  <2>2. top - 1 = Len(frames)
    BY <1>7
  <2> QED BY <1>16, <2>1, <2>2 DEF GoesOn
<1>18. h \in SUBSET Sym /\ nl \in SUBSET Loan
  <2>1. cur \in Nat /\ EndOf(blocks, cur) \in Nat
    BY <1>1, BuiltFacts, BlockFacts
  <2>2. h \in SUBSET Sym /\ ls \in SUBSET Loan
    BY <1>11, <1>16, <2>1 DEF Bindings
  <2>3. A.obl[src] \in Sym
    BY <1>10, <1>11, <1>14 DEF Bindings
  <2>4. LoanOf(A, end) \in Loan
    BY <1>9, <1>15, <2>3 DEF LoanOf, Loan, BorrowEnds
  <2> QED BY <1>16, <2>2, <2>4
<1>19. \A l \in ls : l.binding # new
  <2>1. ASSUME NEW j \in Lent(frames, Len(frames))
        PROVE  LoanOf(A, frames[j].end).binding # new /\ frames[j].end.sym # new
    <3>1. j \in DOMAIN frames /\ frames[j].kind = "borrow"
      BY <1>7 DEF Lent
    <3>2. frames[j].end.sym \in DOMAIN syms
      BY <3>1, LoanKnown
    <3> QED BY <1>9, <3>2 DEF LoanOf
  <2> QED BY <1>17, <2>1 DEF OpenLoans
<1>20. Flows(syms', A, start, h, ls, h, nl)
  <2>1. InPlace(syms', A, SubjectIn(syms', start), h)
    <3>1. SubjectIn(syms', start) = src
      BY <1>15 DEF SubjectIn, BorrowEnds
    <3> QED BY <1>10, <1>14, <1>17, <3>1 DEF InPlace
  <2>2. nl = LoansAfter(A, start, ls)
    <3>1. LoanOf(A, start) = LoanOf(A, end)
      BY <1>15 DEF LoanOf, BorrowEnds
    <3>2. {l \in ls : l.binding # start.sym} = ls
      BY <1>15, <1>19 DEF BorrowEnds
    <3> QED BY <1>15, <1>16, <3>1, <3>2 DEF LoansAfter, BorrowEnds
  <2> QED BY <1>15, <2>1, <2>2 DEF Flows, BorrowEnds
<1> HIDE DEF ps
<1>21. PICK Z : /\ EmissionNoted(blocks, syms', ps, A, cur, h, nl, Z, blocks')
                /\ Stays(A, Z, blocks')
  BY <1>1, <1>4, <1>12, <1>15, <1>16, <1>18, <1>20, EmitOneNoted
<1>22. /\ Noted(blocks', syms', ps, Z) /\ Z.obl = A.obl /\ Z.bound = A.bound
       /\ Z.here[cur][EndOf(blocks', cur)] = h /\ Z.loans[cur][EndOf(blocks', cur)] = nl
  BY <1>21 DEF EmissionNoted
<1>23. frame \in Frame /\ frame.kind = "borrow" /\ frame.end = end
       /\ OpenBlock(frame) = NoBlock
  BY <1>3, <1>15 DEF Frame, OpenBlock
<1>24. /\ frames'[Len(frames) + 1] = frame
       /\ \A j \in 1 .. Len(frames) : frames'[j] = frames[j]
       /\ OpenLoans(Z, frames', Len(frames) + 1) = OpenLoans(Z, frames, Len(frames))
             \cup {LoanOf(Z, end)}
       /\ Len(frames') = Len(frames) + 1
  <2> DEFINE gs == Append(frames, frame)
  <2>1. /\ Len(gs) = Len(frames) + 1 /\ gs[Len(frames) + 1] = frame
        /\ \A j \in 1 .. Len(frames) : gs[j] = frames[j]
        /\ OpenLoans(Z, gs, Len(frames) + 1) =
             OpenLoans(Z, frames, Len(frames)) \cup {LoanOf(Z, frame.end)}
    <3>1. frames \in Seq(Frame) /\ frame \in Frame /\ frame.kind = "borrow"
      BY <1>7, <1>23
    <3> QED BY ONLY <3>1, LentPushed DEF gs
  <2>2. frames' = gs
    BY <1>4
  <2> HIDE DEF gs
  <2> QED BY <1>23, <2>1, <2>2
<1>25. FrameNoted(Z, blocks', scopes', frames', Len(frames) + 1)
  <2>1. ASSUME NEW i \in Lent(frames', Len(frames)) PROVE frames'[i].end.sym # end.sym
    <3>1. i \in Lent(frames, Len(frames)) /\ frames'[i] = frames[i]
      BY <1>24 DEF Lent
    <3>2. i \in DOMAIN frames /\ frames[i].kind = "borrow"
      BY <1>7, <3>1 DEF Lent
    <3>3. frames[i].end.sym \in DOMAIN syms
      BY <3>2, LoanKnown
    <3> QED BY <1>9, <1>15, <3>1, <3>3 DEF BorrowEnds
  <2>2. Len(frames) + 1 - 1 = Len(frames) /\ end.op = "borrow_end"
    BY <1>7, <1>15 DEF BorrowEnds
  <2> QED BY <1>23, <1>24, <2>1, <2>2 DEF FrameNoted
<1>26. \A j \in DOMAIN frames' : FrameNoted(Z, blocks', scopes', frames', j)
  BY <1>4, <1>9, <1>21, <1>23, <1>25, PushedNoted DEF top
<1>27. CurNoted(Z, blocks', cur', scopes', frames')
  <2>1. OpenLoans(Z, frames, Len(frames)) = ls
    <3>1. Alike(A, Z) /\ Len(frames) <= Len(frames)
      BY <1>7, <1>21 DEF Stays
    <3> QED BY <1>7, <1>17, <3>1, OpenLoansSame
  <2>2. LoanOf(Z, end) = LoanOf(A, end)
    BY <1>22 DEF LoanOf
  <2>3. OpenLoans(Z, frames', Len(scopes') - 1) = nl
    <3>1. Len(scopes') - 1 = Len(frames) + 1
      BY <1>7, <1>9
    <3> QED BY <1>16, <1>24, <2>1, <2>2, <3>1
  <2>4. Visible(scopes', Len(scopes')) \cap Z.bound \subseteq h
    BY <1>9, <1>11, <1>17, <1>22
  <2> QED BY <1>1, <1>22, <2>3, <2>4 DEF CurNoted, GoesOn
<1>28. AllBound(syms, Z)'
  <2>1. berrs' = {} => berrs = {}
    BY <1>4, ErrorsKept DEF ErrorsGrow
  <2> QED BY <1>6, <1>10, <1>22, <2>1 DEF BuilderNoted, AllBound
<1>29. BuilderNoted(Z)'
  BY <1>1, <1>22, <1>26, <1>27, <1>28 DEF BuilderNoted, ps
<1> QED BY <1>29

LEMMA OpenBorrowNoted ==
  ASSUME Built, NEW A, BuilderNoted(A), NEW m \in Mentionable, NEW n \in header.names,
         NEW mut \in BOOLEAN, OpenBorrow(m, n, mut)
  PROVE  \E A2 : BuilderNoted(A2)'
<1>1. CASE ~ IsOwned(m)
  <2>1. UNCHANGED <<header, blocks, cur, frames, scopes, syms>>
    BY <1>1 DEF OpenBorrow, Statement
  <2>2. berrs \subseteq berrs'
    BY <1>1, ErrorsKept DEF OpenBorrow, ErrorsGrow
  <2> QED BY <2>1, <2>2, SameNoted
<1> QED BY <1>1, BorrowNoted

LEMMA ReturnNoted ==
  ASSUME Built, NEW A, BuilderNoted(A), NEW m, ReturnStmt(m)
  PROVE  \E A2 : BuilderNoted(A2)'
<1> DEFINE ps == DOMAIN header.params
<1>1. /\ cur # NoBlock /\ UNCHANGED <<header, frames, scopes, syms>> /\ cur' = NoBlock
      /\ Errors(ReturnErrors(m))
  BY DEF ReturnStmt, Statement
<1>2. PICK i, bs : /\ i = I("return", Returned(m), NoSym)
                   /\ bs = Emitted(<<i>>)
  OBVIOUS
<1>3. blocks' = Linked(bs, cur, <<>>)
  BY <1>2 DEF ReturnStmt
<1>4. Quiet(i)
  <2>1. CASE Returned(m) = NoSym
    BY <1>2, <2>1, QuietMade
  <2>2. CASE Returned(m) # NoSym
    <3>1. Returned(m) = Lookup(m) /\ IsOwned(m)
      BY <2>2 DEF Returned
    <3>2. /\ Lookup(m) \in DOMAIN syms /\ Lookup(m) \in Visible(scopes, Len(scopes))
          /\ syms[Lookup(m)].kind = "owned"
      BY <3>1, BuiltFacts, OwnedFacts, LookupVisible DEF IsOwned, KindOf
    <3> QED BY <1>2, <3>1, <3>2, QuietMade
  <2> QED BY <2>1, <2>2
<1>5. PICK h, ls : /\ h = A.here[cur][EndOf(blocks, cur)]
                   /\ ls = A.loans[cur][EndOf(blocks, cur)]
  OBVIOUS
<1>6. /\ Noted(blocks, syms, ps, A) /\ A \in Bindings
  BY DEF BuilderNoted, Noted
<1>7. h \in SUBSET Sym /\ ls \in SUBSET Loan
  <2>1. cur \in Nat /\ EndOf(blocks, cur) \in Nat
    BY <1>1, BuiltFacts, BlockFacts
  <2> QED BY <1>5, <1>6, <2>1 DEF Bindings
<1>8. Flows(syms, A, i, h, ls, h, ls) /\ i \in Instr
  BY <1>1, <1>4, <1>5, QuietFlows DEF Quiet
<1> HIDE DEF ps
<1>9. PICK Z : /\ EmissionNoted(blocks, syms, ps, A, cur, h, ls, Z, bs)
               /\ Stays(A, Z, bs)
  BY <1>1, <1>2, <1>5, <1>6, <1>7, <1>8, EmitOneNoted
<1>10. Noted(bs, syms, ps, Z) /\ Z.bound = A.bound
  BY <1>9 DEF EmissionNoted
<1>11. /\ blocks \in Seq(BlockType) /\ cur \in DOMAIN blocks /\ blocks[cur].succ = <<>>
  BY <1>1, BuiltFacts DEF GraphOk
<1>12. /\ DOMAIN bs = DOMAIN blocks /\ \A b \in DOMAIN blocks \ {cur} : bs[b] = blocks[b]
       /\ bs[cur].succ = <<>>
  <2>1. bs[cur] = [blocks[cur] EXCEPT !.instrs = @ \o <<i>>] /\ DOMAIN bs = DOMAIN blocks
        /\ \A b \in DOMAIN blocks \ {cur} : bs[b] = blocks[b]
    BY <1>2, <1>11 DEF Emitted
  <2>2. blocks[cur] \in BlockType
    BY <1>11
  <2>3. bs[cur].succ = blocks[cur].succ
    BY <2>1, <2>2 DEF BlockType
  <2> QED BY <1>11, <2>1, <2>3
<1>13. blocks' = bs
  <2>1. bs[cur] = [bs[cur] EXCEPT !.succ = <<>>]
    <3>1. blocks[cur] \in BlockType
      BY <1>11
    <3>2. bs[cur] = [blocks[cur] EXCEPT !.instrs = @ \o <<i>>]
      BY <1>2, <1>11 DEF Emitted
    <3> QED BY <1>12, <3>1, <3>2 DEF BlockType
  <2>2. blocks' = [bs EXCEPT ![cur] = [bs[cur] EXCEPT !.succ = <<>>]]
    BY <1>3 DEF Linked
  <2> QED BY <1>2, <1>11, <2>1, <2>2 DEF Emitted
<1>14. \A j \in DOMAIN frames' : FrameNoted(Z, blocks', scopes', frames', j)
  BY <1>1, <1>9, <1>13, FrameStays
<1>15. AllBound(syms, Z)'
  <2>1. berrs' = {} => berrs = {}
    BY <1>1, ErrorsKept DEF ErrorsGrow
  <2> QED BY <1>1, <1>10, <2>1 DEF BuilderNoted, AllBound
<1>16. BuilderNoted(Z)'
  BY <1>1, <1>10, <1>13, <1>14, <1>15 DEF BuilderNoted, CurNoted, ps
<1> QED BY <1>16

LEMMA PopFacts ==
  ASSUME Built, frames # <<>>
  PROVE  /\ Len(frames) \in Nat \ {0} /\ DOMAIN frames = 1 .. Len(frames)
         /\ frames \in Seq(Frame) /\ Pop1(frames) \in Seq(Frame)
         /\ Len(Pop1(frames)) = Len(frames) - 1
         /\ DOMAIN Pop1(frames) = 1 .. Len(frames) - 1
         /\ \A j \in 1 .. Len(frames) - 1 : Pop1(frames)[j] = frames[j]
         /\ Len(scopes) = Len(frames) + 1 /\ Len(PopScope) = Len(frames)
         /\ \A j \in 1 .. Len(frames) : PopScope[j] = scopes[j]
         /\ ScopesOk(PopScope)
<1>1. /\ frames \in Seq(Frame) /\ scopes \in Seq(Scope) /\ scopes # <<>>
      /\ Len(scopes) = Len(frames) + 1 /\ Len(frames) \in Nat /\ ScopesOk(PopScope)
  BY BuiltFacts, ScopePopped DEF ScopesOk
<1>2. /\ Pop1(frames) \in Seq(Frame) /\ Len(Pop1(frames)) = Len(frames) - 1
      /\ DOMAIN Pop1(frames) = 1 .. Len(frames) - 1
      /\ \A j \in 1 .. Len(frames) - 1 : Pop1(frames)[j] = frames[j]
      /\ Len(frames) \in Nat \ {0} /\ DOMAIN frames = 1 .. Len(frames)
  BY <1>1, FrontFacts DEF Pop1
<1>3. /\ Len(PopScope) = Len(scopes) - 1
      /\ \A j \in 1 .. Len(scopes) - 1 : PopScope[j] = scopes[j]
  BY <1>1, FrontFacts DEF PopScope
<1>4. Len(scopes) - 1 = Len(frames)
  BY <1>1
<1> QED BY <1>1, <1>2, <1>3, <1>4

(* A list is closed.                                                       *)
LEMMA ClosedNoted ==
  ASSUME Built, NEW A, BuilderNoted(A), NEW kind, Closing(kind),
         frames' = Pop1(frames), scopes' = PopScope,
         NEW A2, Noted(blocks', syms, DOMAIN header.params, A2),
         Stays(A, A2, blocks'), CurNoted(A2, blocks', cur', scopes', frames')
  PROVE  BuilderNoted(A2)'
<1>1. frames # <<>> /\ UNCHANGED <<header, syms, berrs>>
  BY DEF Closing
<1>2. /\ Len(frames) \in Nat \ {0} /\ DOMAIN frames = 1 .. Len(frames)
      /\ DOMAIN frames' = 1 .. Len(frames) - 1
      /\ \A j \in 1 .. Len(frames) - 1 : frames'[j] = frames[j]
      /\ \A j \in 1 .. Len(frames) : scopes'[j] = scopes[j]
  BY <1>1, PopFacts
<1>3. ASSUME NEW j \in DOMAIN frames' PROVE FrameNoted(A2, blocks', scopes', frames', j)
  <2>1. /\ j \in DOMAIN frames
        /\ \A l \in 1 .. j : frames'[l] = frames[l]
        /\ \A l \in 1 .. j : scopes'[l] = scopes[l]
    BY <1>2
  <2> QED BY <2>1, FrameStays
<1>4. AllBound(syms, A2)'
  BY <1>1 DEF Stays, Alike, AllBound, BuilderNoted
<1> QED BY <1>1, <1>3, <1>4 DEF BuilderNoted

(* What is bound and open in a nested list is so outside of it.            *)
LEMMA Outside ==
  ASSUME Built, NEW A, frames # <<>>, Top.kind # "borrow", NEW b,
         GoesOn(A, blocks, b, scopes, frames, Len(scopes))
  PROVE  GoesOn(A, blocks, b, scopes, frames, Len(frames))
<1>1. Len(frames) \in Nat \ {0} /\ Len(scopes) = Len(frames) + 1
  BY PopFacts
<1>2. PICK n : n = Len(frames)
  OBVIOUS
<1>3. n \in Nat /\ n - 1 \in Nat /\ n + 1 \in Nat /\ n <= n + 1 /\ n + 1 - 1 = n
      /\ frames[n].kind # "borrow" /\ 1 .. n = 1 .. n - 1 \cup {n}
  BY <1>1, <1>2 DEF Top
<1>4. Visible(scopes, n) \subseteq Visible(scopes, n + 1)
  BY ONLY <1>3, VisibleGrows
<1>5. Lent(frames, n) = Lent(frames, n - 1)
  BY ONLY <1>3 DEF Lent
<1> QED BY <1>1, <1>2, <1>3, <1>4, <1>5 DEF GoesOn, OpenLoans

LEMMA CloseBorrowNoted ==
  ASSUME Built, NEW A, BuilderNoted(A), CloseBorrow
  PROVE  \E A2 : BuilderNoted(A2)'
<1> DEFINE ps == DOMAIN header.params
<1>1. /\ Closing("borrow") /\ scopes' = PopScope /\ frames' = Pop1(frames) /\ cur' = cur
      /\ frames # <<>> /\ Top.kind = "borrow"
  BY DEF CloseBorrow, Closing
<1>2. PICK n : n = Len(frames)
  OBVIOUS
<1>3. /\ n \in Nat \ {0} /\ DOMAIN frames = 1 .. n /\ Len(scopes) = n + 1
      /\ Len(scopes') = n
      /\ \A j \in 1 .. n - 1 : frames'[j] = frames[j]
      /\ \A j \in 1 .. n : scopes'[j] = scopes[j]
  BY <1>1, <1>2, PopFacts
<1>4. Noted(blocks, syms, ps, A) /\ A \in Bindings
  BY DEF BuilderNoted, Noted
<1> HIDE DEF ps
<1>5. CASE cur = NoBlock
  <2>1. blocks' = blocks
    BY <1>5 DEF CloseBorrow
  <2>2. Stays(A, A, blocks')
    BY <2>1 DEF Stays, Alike
  <2>3. CurNoted(A, blocks', cur', scopes', frames')
    BY <1>1, <1>5 DEF CurNoted
  <2>4. BuilderNoted(A)'
    BY <1>1, <1>4, <2>1, <2>2, <2>3, ClosedNoted DEF ps
  <2> QED BY <2>4
<1>6. CASE cur # NoBlock
  <2>1. PICK i, h, ls, nl : /\ i = Top.end
                            /\ h = A.here[cur][EndOf(blocks, cur)]
                            /\ ls = A.loans[cur][EndOf(blocks, cur)]
                            /\ nl = {l \in ls : l.binding # i.sym}
    OBVIOUS
  <2>2. /\ n \in DOMAIN frames /\ frames[n].kind = "borrow" /\ frames[n].end = i
    BY <1>1, <1>2, <1>3, <2>1 DEF Top
  <2>3. i \in Instr /\ i.op = "borrow_end"
    BY <2>2, LoanKnown
  <2>4. /\ Visible(scopes, n + 1) \cap A.bound \subseteq h
        /\ ls = OpenLoans(A, frames, n)
    <3>1. PICK m : m = n + 1 /\ GoesOn(A, blocks, cur, scopes, frames, m)
      BY <1>3, <1>6 DEF BuilderNoted, CurNoted
    <3>2. m - 1 = n
      BY <1>3, <3>1
    <3> QED BY <2>1, <3>1, <3>2 DEF GoesOn
  <2>5. h \in SUBSET Sym /\ ls \in SUBSET Loan /\ nl \in SUBSET Loan
    <3>1. cur \in Nat /\ EndOf(blocks, cur) \in Nat
      BY <1>6, BuiltFacts, BlockFacts
    <3>2. h \in SUBSET Sym /\ ls \in SUBSET Loan
      BY <1>4, <2>1, <3>1 DEF Bindings
    <3> QED BY <2>1, <3>2
  <2>6. nl = OpenLoans(A, frames, n - 1)
    <3>1. \A j \in Lent(frames, n - 1) : frames[j].end.sym # i.sym
      BY <2>2 DEF BuilderNoted, FrameNoted
    <3>2. Lent(frames, n) = Lent(frames, n - 1) \cup {n}
      <4>1. 1 .. n = 1 .. n - 1 \cup {n}
        BY <1>3
      <4> QED BY <2>2, <4>1 DEF Lent
    <3>3. \A j : LoanOf(A, frames[j].end).binding = frames[j].end.sym
      BY DEF LoanOf
    <3>4. ls = {LoanOf(A, frames[j].end) : j \in Lent(frames, n - 1) \cup {n}}
      BY <2>4, <3>2 DEF OpenLoans
    <3>5. nl = {LoanOf(A, frames[j].end) : j \in Lent(frames, n - 1)}
      BY <2>1, <2>2, <3>1, <3>3, <3>4
    <3> QED BY <3>5 DEF OpenLoans
  <2>7. Flows(syms, A, i, h, ls, h, nl)
    <3>1. InPlace(syms, A, SubjectIn(syms, i), h)
      BY <2>3 DEF SubjectIn, InPlace
    <3>2. nl = LoansAfter(A, i, ls)
      BY <2>1, <2>3 DEF LoansAfter
    <3> QED BY <2>3, <3>1, <3>2 DEF Flows
  <2>8. blocks' = Emitted(<<i>>)
    BY <1>6, <2>1 DEF CloseBorrow, Emit
  <2>9. PICK Z : /\ EmissionNoted(blocks, syms, ps, A, cur, h, nl, Z, blocks')
                 /\ Stays(A, Z, blocks')
    BY <1>4, <1>6, <2>1, <2>3, <2>5, <2>7, <2>8, EmitOneNoted
  <2>10. /\ Noted(blocks', syms, ps, Z) /\ Z.bound = A.bound
         /\ Z.here[cur][EndOf(blocks', cur)] = h /\ Z.loans[cur][EndOf(blocks', cur)] = nl
    BY <2>9 DEF EmissionNoted
  <2>11. CurNoted(Z, blocks', cur', scopes', frames')
    <3>1. OpenLoans(Z, frames', n - 1) = OpenLoans(A, frames, n - 1)
      <4>1. Alike(A, Z) /\ n - 1 \in Nat /\ n - 1 <= Len(frames)
        BY <1>2, <1>3, <2>9 DEF Stays
      <4> QED BY <1>3, <4>1, OpenLoansSame
    <3>2. Visible(scopes', n) = Visible(scopes, n)
      BY <1>3, VisibleSame
    <3>3. Visible(scopes, n) \subseteq Visible(scopes, n + 1)
      <4>1. n \in Nat /\ n + 1 \in Nat /\ n <= n + 1
        BY <1>3
      <4> QED BY ONLY <4>1, VisibleGrows
    <3>4. Visible(scopes', n) \cap Z.bound \subseteq h
      BY <2>4, <2>10, <3>2, <3>3
    <3> QED BY <1>1, <1>3, <2>6, <2>10, <3>1, <3>4 DEF CurNoted, GoesOn
  <2>12. BuilderNoted(Z)'
    BY <1>1, <2>9, <2>10, <2>11, ClosedNoted DEF ps
  <2> QED BY <2>12
<1> QED BY <1>5, <1>6

LEMMA StartElseNoted ==
  ASSUME Built, NEW A, BuilderNoted(A), StartElse
  PROVE  BuilderNoted(A)'
<1>1. PICK frame, scs, fs : /\ frame = [kind |-> "else", then |-> cur]
                            /\ scs = PopScope /\ fs = Pop1(frames)
  OBVIOUS
<1>2. /\ Closing("then") /\ scopes' = Append(scs, <<>>) /\ frames' = Append(fs, frame)
      /\ cur' = Top.els /\ blocks' = blocks
      /\ frames # <<>> /\ Top.kind = "then" /\ UNCHANGED <<header, syms, berrs>>
  BY <1>1 DEF StartElse, Closing
<1>3. PICK n : n = Len(frames)
  OBVIOUS
<1>4. /\ n \in Nat \ {0} /\ DOMAIN frames = 1 .. n /\ Len(scopes) = n + 1
      /\ fs \in Seq(Frame) /\ Len(fs) = n - 1 /\ DOMAIN fs = 1 .. n - 1
      /\ \A j \in 1 .. n - 1 : fs[j] = frames[j]
      /\ Len(scs) = n /\ ScopesOk(scs) /\ \A j \in 1 .. n : scs[j] = scopes[j]
  BY <1>1, <1>2, <1>3, PopFacts
<1>5. frame \in Frame /\ frame.kind = "else" /\ frame.then = cur /\ OpenBlock(frame) = cur
  <2>1. cur \in Nat
    <3>1. cur = NoBlock \/ cur \in DOMAIN blocks
      BY BuiltFacts
    <3>2. DOMAIN blocks \subseteq Nat
      BY BuiltFacts
    <3> QED BY <3>1, <3>2 DEF NoBlock
  <2> QED BY <1>1, <2>1 DEF Frame, OpenBlock
<1>6. /\ Len(scopes') = n + 1 /\ Visible(scopes', n + 1) = Visible(scs, n)
      /\ \A j \in 1 .. n : scopes'[j] = scopes[j]
  <2>1. PICK new : new = Append(scs, <<>>)
    OBVIOUS
  <2>2. /\ Len(new) = Len(scs) + 1 /\ Visible(new, Len(scs) + 1) = Visible(scs, Len(scs))
        /\ \A j \in 1 .. Len(scs) : new[j] = scs[j]
    BY <1>4, <2>1, ScopePushed, VisiblePushed
  <2> QED BY <1>2, <1>4, <2>1, <2>2
<1>7. /\ frames'[n] = frame /\ DOMAIN frames' = DOMAIN fs \cup {n}
      /\ \A j \in 1 .. n - 1 : frames'[j] = frames[j]
      /\ OpenLoans(A, frames', n) = OpenLoans(A, fs, n - 1)
  <2>1. PICK gs : gs = Append(fs, frame)
    OBVIOUS
  <2>2. /\ gs[Len(fs) + 1] = frame
        /\ DOMAIN gs = DOMAIN fs \cup {Len(fs) + 1}
        /\ \A j \in 1 .. Len(fs) : gs[j] = fs[j]
        /\ OpenLoans(A, gs, Len(fs) + 1) = OpenLoans(A, fs, Len(fs))
    BY <1>4, <1>5, <2>1, LentPushed
  <2>3. Len(fs) = n - 1 /\ Len(fs) + 1 = n
    BY <1>4
  <2> QED BY <1>2, <1>4, <2>1, <2>2, <2>3
<1>8. Alike(A, A) /\ Stays(A, A, blocks')
  BY <1>2 DEF Stays, Alike
<1>9. ASSUME NEW j \in 1 .. n - 1 PROVE FrameNoted(A, blocks', scopes', frames', j)
  <2>1. /\ j \in DOMAIN frames
        /\ \A l \in 1 .. j : frames'[l] = frames[l]
        /\ \A l \in 1 .. j : scopes'[l] = scopes[l]
    BY <1>4, <1>6, <1>7
  <2> QED BY <1>8, <2>1, FrameStays
<1>10. FrameNoted(A, blocks', scopes', frames', n)
  <2>1. ASSUME cur # NoBlock PROVE GoesOn(A, blocks', cur, scopes', frames', n)
    <3>1. GoesOn(A, blocks, cur, scopes, frames, n)
      BY <1>2, <1>3, <2>1, Outside DEF BuilderNoted, CurNoted
    <3>2. n \in 1 .. Len(scopes)
      BY <1>4
    <3> QED BY <1>2, <1>6, <1>7, <1>8, <3>1, <3>2, GoesOnSame
  <2> QED BY <1>5, <1>7, <2>1 DEF FrameNoted
<1>11. CurNoted(A, blocks', cur', scopes', frames')
  <2>1. OpenBlock(frames[n]) = Top.els /\ n \in DOMAIN frames
    BY <1>2, <1>3, <1>4 DEF OpenBlock, Top
  <2>2. Top.els # NoBlock => GoesOn(A, blocks, Top.els, scopes, frames, n)
    BY <2>1 DEF BuilderNoted, FrameNoted
  <2>3. Visible(scopes', n + 1) = Visible(scopes, n)
    BY <1>4, <1>6, VisibleSame
  <2>4. OpenLoans(A, fs, n - 1) = OpenLoans(A, frames, n - 1)
    <3>1. n - 1 \in Nat /\ n - 1 <= Len(frames)
      BY <1>3, <1>4
    <3> QED BY <1>4, <1>8, <3>1, OpenLoansSame
  <2>5. PICK m : m = n + 1 /\ m - 1 = n
    BY <1>4
  <2>6. Top.els # NoBlock => GoesOn(A, blocks, Top.els, scopes', frames', m)
    BY <1>7, <2>2, <2>3, <2>4, <2>5 DEF GoesOn
  <2> QED BY <1>2, <1>6, <2>5, <2>6 DEF CurNoted
<1>12. ASSUME NEW j \in DOMAIN frames' PROVE FrameNoted(A, blocks', scopes', frames', j)
  <2>1. j \in 1 .. n - 1 \/ j = n
    BY <1>4, <1>7
  <2> QED BY <1>9, <1>10, <2>1
<1>13. /\ Noted(blocks', syms', DOMAIN header'.params, A)
       /\ berrs' = {} => \A h \in DOMAIN syms' : syms'[h].kind = "owned" => h \in A.bound
  BY <1>2 DEF BuilderNoted, AllBound
<1> QED BY <1>11, <1>12, <1>13 DEF BuilderNoted, AllBound

(* Blocks go on elsewhere: only jumps and empty blocks are added, and the  *)
(* jumps lead where as much is visible and the same is open.               *)
OnlyLinks(A, bs2, nh, nl, Z) ==
  /\ DOMAIN blocks \subseteq DOMAIN bs2 /\ DOMAIN bs2 \subseteq Nat
  /\ \A b \in DOMAIN blocks : bs2[b].instrs = blocks[b].instrs
  /\ \A b \in DOMAIN bs2 \ DOMAIN blocks : bs2[b].instrs = <<>>
  /\ nh \in SUBSET Sym /\ nl \in SUBSET Loan
  /\ AsOpened(A, DOMAIN bs2 \ DOMAIN blocks, nh, nl, Z)
  /\ \A b \in DOMAIN bs2 : \A t \in Targets(bs2, b) :
        \/ b \in DOMAIN blocks /\ t \in Targets(blocks, b)
        \/ Leads(Z, bs2, b, t)

AsLinked(A, bs2, nh, nl, Z) ==
  /\ Noted(bs2, syms, DOMAIN header.params, Z) /\ Stays(A, Z, bs2)
  /\ Z.bound = A.bound
  /\ \A b \in DOMAIN bs2 \ DOMAIN blocks :
        /\ EndOf(bs2, b) = 1 /\ Z.here[b][1] = nh /\ Z.loans[b][1] = nl
  /\ \A b \in DOMAIN blocks :
        /\ EndOf(bs2, b) = EndOf(blocks, b)
        /\ Z.here[b] = A.here[b] /\ Z.loans[b] = A.loans[b]

LEMMA LinksNoted ==
  ASSUME Built, NEW A, BuilderNoted(A), NEW bs2, NEW nh, NEW nl, NEW Z,
         OnlyLinks(A, bs2, nh, nl, Z)
  PROVE  AsLinked(A, bs2, nh, nl, Z)
<1> DEFINE N == DOMAIN bs2 \ DOMAIN blocks
           ps == DOMAIN header.params
<1>1. /\ blocks \in Seq(BlockType) /\ Entry \in DOMAIN blocks
      /\ GraphOk(blocks, [syms |-> syms], Open)
  BY BuiltFacts
<1>2. Noted(blocks, syms, ps, A)
  BY DEF BuilderNoted
<1> USE DEF OnlyLinks
<1> HIDE DEF N, ps
<1>3. /\ Z \in Bindings /\ Z.obl = A.obl /\ Z.bound = A.bound
      /\ \A b \in Nat \ N : Z.here[b] = A.here[b] /\ Z.loans[b] = A.loans[b]
      /\ \A b \in Nat \cap N : \A j \in Nat : Z.here[b][j] = nh /\ Z.loans[b][j] = nl
  BY DEF AsOpened, N
<1>4. \A b \in DOMAIN blocks : /\ EndOf(bs2, b) = EndOf(blocks, b)
                               /\ Z.here[b] = A.here[b] /\ Z.loans[b] = A.loans[b]
  <2>1. \A b \in DOMAIN blocks : b \in Nat \ N
    BY DEF N
  <2> QED BY <1>3, <2>1 DEF EndOf
<1>5. \A b \in N : EndOf(bs2, b) = 1 /\ Z.here[b][1] = nh /\ Z.loans[b][1] = nl
  <2>1. \A b \in N : b \in Nat \cap N /\ bs2[b].instrs = <<>>
    BY DEF N
  <2> QED BY <1>3, <2>1 DEF EndOf
<1>6. Noted(bs2, syms, ps, Z)
  <2>1. \A b \in DOMAIN bs2 : \A t \in Targets(bs2, b) :
           \/ b \in DOMAIN blocks /\ t \in DOMAIN blocks /\ t \in Targets(blocks, b)
           \/ Leads(Z, bs2, b, t)
    BY <1>1 DEF GraphOk
  <2> QED BY <1>1, <1>2, <1>3, <1>4, <2>1, NotedLinks
<1>7. Stays(A, Z, bs2)
  BY <1>3, <1>4 DEF Stays, Alike
<1> QED BY <1>3, <1>4, <1>5, <1>6, <1>7 DEF N, ps, AsLinked

(* What GoesOn asks for may be noted.                                      *)
LEMMA NotesMade ==
  ASSUME Built, NEW A, BuilderNoted(A), NEW n \in Nat, n <= Len(frames),
         NEW scs
  PROVE  /\ Visible(scs, n) \cap A.bound \in SUBSET Sym
         /\ OpenLoans(A, frames, n) \in SUBSET Loan
<1>1. ASSUME NEW j \in Lent(frames, n) PROVE LoanOf(A, frames[j].end) \in Loan
  <2>1. j \in DOMAIN frames /\ frames[j].kind = "borrow"
    BY BuiltFacts DEF Lent
  <2>2. /\ frames[j].end \in Instr
        /\ frames[j].end.sym \in DOMAIN syms /\ frames[j].end.src \in DOMAIN syms
    BY <2>1, LoanKnown
  <2>3. DOMAIN syms \subseteq Sym /\ A.obl \in [Sym -> Sym]
    BY BuiltFacts DEF SymbolsOk, BuilderNoted, Noted, Bindings
  <2>4. frames[j].end.mut \in BOOLEAN
    BY <2>2 DEF Instr
  <2> QED BY <2>2, <2>3, <2>4 DEF LoanOf, Loan
<1>2. OpenLoans(A, frames, n) \in SUBSET Loan
  BY <1>1 DEF OpenLoans
<1> QED BY <1>2 DEF Visible

(* A list of an if or of a while is opened: what is visible and open before *)
(* it is so at the start of every new block.                               *)
OpenedAt(A, Z, bs2, c, f, nh, nl) ==
  /\ f \in Frame /\ f.kind # "borrow" /\ Z.bound = A.bound
  /\ nh = Visible(scopes, Len(scopes)) \cap A.bound
  /\ nl = OpenLoans(A, frames, Len(frames))
  /\ \A b \in {c, OpenBlock(f)} :
        Z.here[b][EndOf(bs2, b)] = nh /\ Z.loans[b][EndOf(bs2, b)] = nl
  /\ f.kind = "while" => Z.here[f.header][1] = nh /\ Z.loans[f.header][1] = nl

LEMMA OpenedNoted ==
  ASSUME Built, NEW A, BuilderNoted(A), UNCHANGED <<header, syms, berrs>>,
         NEW A2, Noted(blocks', syms, DOMAIN header.params, A2),
         Stays(A, A2, blocks'),
         NEW f, frames' = Append(frames, f), scopes' = Append(scopes, <<>>),
         NEW nh, NEW nl, OpenedAt(A, A2, blocks', cur', f, nh, nl)
  PROVE  BuilderNoted(A2)'
<1>0. /\ f \in Frame /\ f.kind # "borrow" /\ A2.bound = A.bound
      /\ nh = Visible(scopes, Len(scopes)) \cap A.bound
      /\ nl = OpenLoans(A, frames, Len(frames))
      /\ \A b \in {cur', OpenBlock(f)} :
            A2.here[b][EndOf(blocks', b)] = nh /\ A2.loans[b][EndOf(blocks', b)] = nl
      /\ f.kind = "while" => A2.here[f.header][1] = nh /\ A2.loans[f.header][1] = nl
  BY DEF OpenedAt
<1>1. PICK n : n = Len(frames)
  OBVIOUS
<1>2. /\ n \in Nat /\ frames \in Seq(Frame) /\ Len(scopes) = n + 1 /\ ScopesOk(scopes)
      /\ DOMAIN frames = 1 .. n
  BY <1>1, BuiltFacts DEF Built, SymbolsOk
<1>3. /\ Len(scopes') = n + 2 /\ Visible(scopes', n + 2) = Visible(scopes, n + 1)
      /\ \A j \in 1 .. n + 1 : scopes'[j] = scopes[j]
      /\ Visible(scopes', n + 1) = Visible(scopes, n + 1)
  <2>1. PICK new : new = Append(scopes, <<>>)
    OBVIOUS
  <2>2. /\ Len(new) = Len(scopes) + 1
        /\ Visible(new, Len(scopes) + 1) = Visible(scopes, Len(scopes))
        /\ \A j \in 1 .. Len(scopes) : new[j] = scopes[j]
    BY <1>2, <2>1, ScopePushed, VisiblePushed
  <2>3. Len(scopes) + 1 = n + 2
    BY <1>2
  <2>4. Visible(new, n + 1) = Visible(scopes, n + 1)
    BY <1>2, <2>2, VisibleSame
  <2> QED BY <1>2, <2>1, <2>2, <2>3, <2>4
<1>4. /\ frames'[n + 1] = f
      /\ \A j \in 1 .. n : frames'[j] = frames[j]
      /\ OpenLoans(A2, frames', n + 1) = OpenLoans(A2, frames, n)
      /\ OpenLoans(A2, frames', n) = OpenLoans(A2, frames, n)
  <2>1. PICK gs : gs = Append(frames, f)
    OBVIOUS
  <2>2. /\ gs[Len(frames) + 1] = f /\ \A j \in 1 .. Len(frames) : gs[j] = frames[j]
        /\ OpenLoans(A2, gs, Len(frames) + 1) = OpenLoans(A2, frames, Len(frames))
    BY <1>0, <1>2, <2>1, LentPushed
  <2>3. OpenLoans(A2, gs, n) = OpenLoans(A2, frames, n)
    BY <1>1, <2>2 DEF OpenLoans, Lent
  <2> QED BY <1>1, <2>1, <2>2, <2>3
<1>5. OpenLoans(A2, frames, n) = nl
  <2>1. Alike(A, A2) /\ n <= Len(frames)
    BY <1>1, <1>2 DEF Stays
  <2> QED BY <1>0, <1>1, <1>2, <2>1, OpenLoansSame
<1>6. nh = Visible(scopes, n + 1) \cap A2.bound
  BY <1>0, <1>2
<1>7. PICK m, l : m = n + 2 /\ m - 1 = n + 1 /\ l = n + 1 /\ l - 1 = n
  BY <1>2
<1>8. CurNoted(A2, blocks', cur', scopes', frames')
  <2>1. GoesOn(A2, blocks', cur', scopes', frames', m)
    BY <1>0, <1>3, <1>4, <1>5, <1>6, <1>7 DEF GoesOn
  <2> QED BY <1>3, <1>7, <2>1 DEF CurNoted
<1>9. FrameNoted(A2, blocks', scopes', frames', l)
  <2>1. GoesOn(A2, blocks', OpenBlock(f), scopes', frames', l)
    BY <1>0, <1>3, <1>4, <1>5, <1>6, <1>7 DEF GoesOn
  <2>2. frames'[l] = f /\ OpenLoans(A2, frames', l - 1) = nl
    BY <1>4, <1>5, <1>7
  <2>3. nh \subseteq Visible(scopes', l) \cap A2.bound
    BY <1>3, <1>6, <1>7
  <2> QED BY <1>0, <2>1, <2>2, <2>3 DEF FrameNoted
<1>10. \A j \in DOMAIN frames' : FrameNoted(A2, blocks', scopes', frames', j)
  <2>1. l = Len(frames) + 1 /\ \A j \in 1 .. Len(scopes) : scopes'[j] = scopes[j]
    BY <1>1, <1>2, <1>3, <1>7
  <2> QED BY <1>0, <1>9, <2>1, PushedNoted
<1>11. /\ Noted(blocks', syms', DOMAIN header'.params, A2)
       /\ berrs' = {} => \A h \in DOMAIN syms' : syms'[h].kind = "owned" => h \in A2.bound
  BY <1>0 DEF BuilderNoted, AllBound
<1> QED BY <1>8, <1>10, <1>11 DEF BuilderNoted, AllBound

LEMMA OpenIfNoted ==
  ASSUME Built, NEW A, BuilderNoted(A), OpenIf
  PROVE  \E A2 : BuilderNoted(A2)'
<1>1. PICK n, f, nh, nl, N :
         /\ n = Len(blocks) /\ f = [kind |-> "then", els |-> n + 2]
         /\ nh = Visible(scopes, Len(scopes)) \cap A.bound
         /\ nl = OpenLoans(A, frames, Len(frames)) /\ N = DOMAIN blocks' \ DOMAIN blocks
  OBVIOUS
<1>2. /\ cur # NoBlock /\ UNCHANGED <<header, syms, berrs>>
      /\ frames' = Append(frames, f) /\ cur' = n + 1 /\ scopes' = Append(scopes, <<>>)
  BY <1>1 DEF OpenIf, Statement, PushScope
<1>3. /\ cur \in 1 .. n /\ n \in Nat /\ DOMAIN blocks = 1 .. n
      /\ DOMAIN blocks' = 1 .. n + 2
      /\ blocks'[cur].instrs = blocks[cur].instrs
      /\ \A d \in (1 .. n) \ {cur} : blocks'[d] = blocks[d]
      /\ blocks'[n + 1] = NewBlock /\ blocks'[n + 2] = NewBlock
      /\ Targets(blocks', cur) = {n + 1, n + 2}
  BY <1>1, IfBlocks
<1>4. f \in Frame /\ f.kind = "then" /\ OpenBlock(f) = n + 2
  BY <1>1, <1>3 DEF Frame, OpenBlock
<1>5. nh \in SUBSET Sym /\ nl \in SUBSET Loan /\ A \in Bindings
  <2>1. Len(frames) \in Nat /\ Len(frames) <= Len(frames)
    BY BuiltFacts
  <2>2. OpenLoans(A, frames, Len(frames)) \in SUBSET Loan
    BY <2>1, NotesMade
  <2> QED BY <1>1, <2>2 DEF Visible, BuilderNoted, Noted
<1>6. PICK Z : AsOpened(A, N, nh, nl, Z)
  BY <1>5, OpeningFacts
<1>7. GoesOn(A, blocks, cur, scopes, frames, Len(scopes))
  BY <1>2 DEF BuilderNoted, CurNoted
<1>8. nh \subseteq A.here[cur][EndOf(blocks, cur)] /\ nl = A.loans[cur][EndOf(blocks, cur)]
  <2>1. PICK m : m = Len(scopes) /\ m - 1 = Len(frames)
    <3>1. Len(scopes) = Len(frames) + 1 /\ Len(frames) \in Nat
      BY BuiltFacts
    <3> QED BY <3>1
  <2> QED BY <1>1, <1>7, <2>1 DEF GoesOn
<1>9. /\ N = {n + 1, n + 2} /\ N \subseteq Nat
      /\ DOMAIN blocks \subseteq DOMAIN blocks' /\ DOMAIN blocks' \subseteq Nat
      /\ \A b \in DOMAIN blocks : blocks'[b].instrs = blocks[b].instrs
      /\ \A b \in DOMAIN blocks' \ DOMAIN blocks :
            blocks'[b].instrs = <<>> /\ Targets(blocks', b) = {}
  <2>1. N = {n + 1, n + 2} /\ N \subseteq Nat
    BY <1>1, <1>3
  <2>2. \A b \in N : blocks'[b].instrs = <<>> /\ Targets(blocks', b) = {}
    BY <1>3, <2>1, NewBlockFacts DEF Targets
  <2> QED BY <1>1, <1>3, <2>1, <2>2
<1>10. /\ \A b \in N : Z.here[b][1] = nh /\ Z.loans[b][1] = nl
       /\ Z.here[cur] = A.here[cur] /\ Z.loans[cur] = A.loans[cur]
       /\ EndOf(blocks', cur) = EndOf(blocks, cur) /\ Z.bound = A.bound
  <2>1. cur \in Nat \ N
    BY <1>3, <1>9
  <2> QED BY <1>3, <1>6, <1>9, <2>1 DEF AsOpened, EndOf
<1>11. \A b \in DOMAIN blocks' : \A t \in Targets(blocks', b) :
          \/ b \in DOMAIN blocks /\ t \in Targets(blocks, b)
          \/ Leads(Z, blocks', b, t)
  <2>1. \A d \in DOMAIN blocks \ {cur} : Targets(blocks', d) = Targets(blocks, d)
    BY <1>3 DEF Targets
  <2>2. \A t \in Targets(blocks', cur) : Leads(Z, blocks', cur, t)
    BY <1>3, <1>8, <1>9, <1>10 DEF Leads
  <2> QED BY <1>9, <2>1, <2>2
<1>12. AsLinked(A, blocks', nh, nl, Z)
  <2>1. OnlyLinks(A, blocks', nh, nl, Z)
    BY <1>1, <1>5, <1>6, <1>9, <1>11 DEF OnlyLinks
  <2> QED BY <2>1, LinksNoted
<1>13. OpenedAt(A, Z, blocks', cur', f, nh, nl)
  BY <1>1, <1>2, <1>4, <1>9, <1>12 DEF OpenedAt, AsLinked
<1>14. BuilderNoted(Z)'
  <2>1. Noted(blocks', syms, DOMAIN header.params, Z) /\ Stays(A, Z, blocks')
    BY <1>12 DEF AsLinked
  <2> QED BY <1>2, <1>13, <2>1, OpenedNoted
<1> QED BY <1>14

LEMMA OpenWhileNoted ==
  ASSUME Built, NEW A, BuilderNoted(A), OpenWhile
  PROVE  \E A2 : BuilderNoted(A2)'
<1>1. PICK n, f, nh, nl, N :
         /\ n = Len(blocks) /\ f = [kind |-> "while", header |-> n + 1, after |-> n + 3]
         /\ nh = Visible(scopes, Len(scopes)) \cap A.bound
         /\ nl = OpenLoans(A, frames, Len(frames)) /\ N = DOMAIN blocks' \ DOMAIN blocks
  OBVIOUS
<1>2. /\ cur # NoBlock /\ UNCHANGED <<header, syms, berrs>>
      /\ frames' = Append(frames, f) /\ cur' = n + 2 /\ scopes' = Append(scopes, <<>>)
  BY <1>1 DEF OpenWhile, Statement, PushScope
<1>3. /\ cur \in 1 .. n /\ n \in Nat /\ DOMAIN blocks = 1 .. n
      /\ DOMAIN blocks' = 1 .. n + 3
      /\ blocks'[cur].instrs = blocks[cur].instrs
      /\ \A d \in (1 .. n) \ {cur} : blocks'[d] = blocks[d]
      /\ blocks'[n + 1].instrs = <<>>
      /\ blocks'[n + 2] = NewBlock /\ blocks'[n + 3] = NewBlock
      /\ Targets(blocks', cur) = {n + 1} /\ Targets(blocks', n + 1) = {n + 2, n + 3}
  BY <1>1, WhileBlocks
<1>4. f \in Frame /\ f.kind = "while" /\ OpenBlock(f) = n + 3 /\ f.header = n + 1
  BY <1>1, <1>3 DEF Frame, OpenBlock
<1>5. nh \in SUBSET Sym /\ nl \in SUBSET Loan /\ A \in Bindings
  <2>1. Len(frames) \in Nat /\ Len(frames) <= Len(frames)
    BY BuiltFacts
  <2>2. OpenLoans(A, frames, Len(frames)) \in SUBSET Loan
    BY <2>1, NotesMade
  <2> QED BY <1>1, <2>2 DEF Visible, BuilderNoted, Noted
<1>6. PICK Z : AsOpened(A, N, nh, nl, Z)
  BY <1>5, OpeningFacts
<1>7. GoesOn(A, blocks, cur, scopes, frames, Len(scopes))
  BY <1>2 DEF BuilderNoted, CurNoted
<1>8. nh \subseteq A.here[cur][EndOf(blocks, cur)] /\ nl = A.loans[cur][EndOf(blocks, cur)]
  <2>1. PICK m : m = Len(scopes) /\ m - 1 = Len(frames)
    <3>1. Len(scopes) = Len(frames) + 1 /\ Len(frames) \in Nat
      BY BuiltFacts
    <3> QED BY <3>1
  <2> QED BY <1>1, <1>7, <2>1 DEF GoesOn
<1>9. /\ N = {n + 1, n + 2, n + 3} /\ N \subseteq Nat
      /\ DOMAIN blocks \subseteq DOMAIN blocks' /\ DOMAIN blocks' \subseteq Nat
      /\ \A b \in DOMAIN blocks : blocks'[b].instrs = blocks[b].instrs
      /\ \A b \in DOMAIN blocks' \ DOMAIN blocks :
            /\ blocks'[b].instrs = <<>>
            /\ Targets(blocks', b) = IF b = n + 1 THEN {n + 2, n + 3} ELSE {}
  <2>1. N = {n + 1, n + 2, n + 3} /\ N \subseteq Nat
    BY <1>1, <1>3
  <2>2. \A b \in {n + 2, n + 3} : blocks'[b].instrs = <<>> /\ Targets(blocks', b) = {}
    BY <1>3, <2>1, NewBlockFacts DEF Targets
  <2>3. n + 2 # n + 1 /\ n + 3 # n + 1
    BY <1>3
  <2> QED BY <1>1, <1>3, <2>1, <2>2, <2>3
<1>10. /\ \A b \in N : Z.here[b][1] = nh /\ Z.loans[b][1] = nl
       /\ Z.here[cur] = A.here[cur] /\ Z.loans[cur] = A.loans[cur]
       /\ EndOf(blocks', cur) = EndOf(blocks, cur) /\ Z.bound = A.bound
  <2>1. cur \in Nat \ N
    BY <1>3, <1>9
  <2> QED BY <1>3, <1>6, <1>9, <2>1 DEF AsOpened, EndOf
<1>11. \A b \in DOMAIN blocks' : \A t \in Targets(blocks', b) :
          \/ b \in DOMAIN blocks /\ t \in Targets(blocks, b)
          \/ Leads(Z, blocks', b, t)
  <2>1. \A d \in DOMAIN blocks \ {cur} : Targets(blocks', d) = Targets(blocks, d)
    BY <1>3 DEF Targets
  <2>2. \A t \in Targets(blocks', cur) : Leads(Z, blocks', cur, t)
    BY <1>3, <1>8, <1>9, <1>10 DEF Leads
  <2>3. \A t \in Targets(blocks', n + 1) : Leads(Z, blocks', n + 1, t)
    <3>1. EndOf(blocks', n + 1) = 1
      BY <1>1, <1>9 DEF EndOf
    <3> QED BY <1>3, <1>9, <1>10, <3>1 DEF Leads
  <2>4. \A b \in DOMAIN blocks' :
           b \in DOMAIN blocks \ {cur} \/ b = cur \/ b = n + 1 \/ Targets(blocks', b) = {}
    BY <1>9
  <2> QED BY <2>1, <2>2, <2>3, <2>4
<1>12. AsLinked(A, blocks', nh, nl, Z)
  <2>1. OnlyLinks(A, blocks', nh, nl, Z)
    BY <1>1, <1>5, <1>6, <1>9, <1>11 DEF OnlyLinks
  <2> QED BY <2>1, LinksNoted
<1>13. OpenedAt(A, Z, blocks', cur', f, nh, nl)
  <2>1. \A b \in N : /\ EndOf(blocks', b) = 1
                     /\ Z.here[b][1] = nh /\ Z.loans[b][1] = nl
    BY <1>1, <1>12 DEF AsLinked
  <2>2. f.header \in N /\ cur' \in N /\ OpenBlock(f) \in N
    BY <1>2, <1>4, <1>9
  <2> QED BY <1>1, <1>4, <1>10, <2>1, <2>2 DEF OpenedAt
<1>14. BuilderNoted(Z)'
  <2>1. Noted(blocks', syms, DOMAIN header.params, Z) /\ Stays(A, Z, blocks')
    BY <1>12 DEF AsLinked
  <2> QED BY <1>2, <1>13, <2>1, OpenedNoted
<1> QED BY <1>14

(* The branches of an if go on in one block.                               *)
LEMMA CloseIfNoted ==
  ASSUME Built, NEW A, BuilderNoted(A), CloseIf
  PROVE  \E A2 : BuilderNoted(A2)'
<1>1. PICK n, exits, merge : /\ n = Len(frames) /\ exits = {Top.then, cur} \ {NoBlock}
                             /\ merge = Len(blocks) + 1
  OBVIOUS
<1>2. /\ Closing("else") /\ scopes' = PopScope /\ frames' = Pop1(frames)
      /\ frames # <<>> /\ Top.kind = "else"
  BY DEF CloseIf, Closing
<1>3. /\ n \in Nat \ {0} /\ DOMAIN frames = 1 .. n /\ Len(scopes) = n + 1
      /\ Len(scopes') = n
      /\ \A j \in 1 .. n - 1 : frames'[j] = frames[j]
      /\ \A j \in 1 .. n : scopes'[j] = scopes[j]
  BY <1>1, <1>2, PopFacts
<1>4. CASE exits = {}
  <2>1. blocks' = blocks /\ cur' = cur /\ cur = NoBlock
    BY <1>1, <1>4 DEF CloseIf
  <2>2. Stays(A, A, blocks') /\ CurNoted(A, blocks', cur', scopes', frames')
    BY <2>1 DEF Stays, Alike, CurNoted
  <2>3. Noted(blocks', syms, DOMAIN header.params, A)
    BY <2>1 DEF BuilderNoted
  <2>4. BuilderNoted(A)'
    BY <1>2, <2>2, <2>3, ClosedNoted
  <2> QED BY <2>4
<1>5. CASE exits # {}
  <2>1. PICK nh, nl : /\ nh = Visible(scopes, n) \cap A.bound
                      /\ nl = OpenLoans(A, frames, n - 1)
    OBVIOUS
  <2>2. nh \in SUBSET Sym /\ nl \in SUBSET Loan /\ A \in Bindings
    <3>1. n - 1 \in Nat /\ n - 1 <= Len(frames)
      BY <1>1, <1>3
    <3>2. OpenLoans(A, frames, n - 1) \in SUBSET Loan
      BY <3>1, NotesMade
    <3> QED BY <2>1, <3>2 DEF Visible, BuilderNoted, Noted
  <2>3. \A b \in exits : GoesOn(A, blocks, b, scopes, frames, n)
    <3>1. cur # NoBlock => GoesOn(A, blocks, cur, scopes, frames, n)
      BY <1>1, <1>2, Outside DEF BuilderNoted, CurNoted
    <3>2. n \in DOMAIN frames /\ OpenBlock(frames[n]) = Top.then
      BY <1>1, <1>2, <1>3 DEF OpenBlock, Top
    <3>3. Top.then # NoBlock => GoesOn(A, blocks, Top.then, scopes, frames, n)
      BY <3>2 DEF BuilderNoted, FrameNoted
    <3> QED BY <1>1, <3>1, <3>3
  <2>4. \A b \in exits : /\ nh \subseteq A.here[b][EndOf(blocks, b)]
                         /\ nl = A.loans[b][EndOf(blocks, b)]
    BY <2>1, <2>3 DEF GoesOn
  <2>5. /\ exits \subseteq DOMAIN blocks /\ DOMAIN blocks = 1 .. Len(blocks)
        /\ Len(blocks) \in Nat
    <3>1. /\ FrameBlocks(frames) \subseteq DOMAIN blocks
          /\ cur # NoBlock => cur \in DOMAIN blocks
      BY BuiltFacts DEF GraphOk, Open
    <3>2. Top.then # NoBlock => Top.then \in FrameBlocks(frames)
      <4>1. n \in DOMAIN frames /\ OpenBlock(frames[n]) = Top.then
        BY <1>1, <1>2, <1>3 DEF OpenBlock, Top
      <4> QED BY <4>1 DEF FrameBlocks
    <3> QED BY <1>1, <3>1, <3>2, BuiltFacts
  <2>6. /\ cur' = merge /\ DOMAIN blocks' = DOMAIN blocks \cup {merge}
        /\ blocks'[merge] = NewBlock
        /\ \A b \in exits : /\ blocks'[b].instrs = blocks[b].instrs
                             /\ Targets(blocks', b) = {merge}
        /\ \A b \in DOMAIN blocks \ exits : blocks'[b] = blocks[b]
    <3>1. /\ cur' = merge /\ DOMAIN blocks' = DOMAIN blocks \cup {merge}
          /\ blocks'[merge] = NewBlock
          /\ \A b \in exits : /\ blocks'[b].instrs = blocks[b].instrs
                               /\ blocks'[b].succ = <<merge>>
                               /\ Targets(blocks', b) = {merge}
          /\ \A b \in DOMAIN blocks \ exits : blocks'[b] = blocks[b]
      <4> DEFINE ex == {Top.then, cur} \ {NoBlock}
                 mg == Len(blocks) + 1
      <4>1. ex = exits /\ mg = merge
        BY <1>1
      <4>2. ex # {} /\ ex \subseteq DOMAIN blocks
        BY <1>5, <2>5, <4>1
      <4>3. /\ cur' = mg /\ DOMAIN blocks' = DOMAIN blocks \cup {mg}
            /\ blocks'[mg] = NewBlock
            /\ \A b \in ex : /\ blocks'[b].instrs = blocks[b].instrs
                              /\ blocks'[b].succ = <<mg>>
                              /\ Targets(blocks', b) = {mg}
            /\ \A b \in DOMAIN blocks \ ex : blocks'[b] = blocks[b]
        BY <4>2, JoinBlocks
      <4> HIDE DEF ex, mg
      <4> QED BY <4>1, <4>3
    <3> QED BY <3>1
  <2>7. /\ merge \in Nat /\ merge \notin DOMAIN blocks /\ merge # NoBlock
        /\ DOMAIN blocks \subseteq Nat
        /\ DOMAIN blocks' \ DOMAIN blocks = {merge}
    BY <1>1, <2>5, <2>6 DEF NoBlock
  <2>8. PICK Z : AsOpened(A, {merge}, nh, nl, Z)
    BY <2>2, OpeningFacts
  <2>9. /\ Z.bound = A.bound /\ Z.here[merge][1] = nh /\ Z.loans[merge][1] = nl
        /\ \A b \in DOMAIN blocks : Z.here[b] = A.here[b] /\ Z.loans[b] = A.loans[b]
    BY <2>7, <2>8 DEF AsOpened
  <2>10. \A b \in DOMAIN blocks : /\ blocks'[b].instrs = blocks[b].instrs
                                  /\ EndOf(blocks', b) = EndOf(blocks, b)
    BY <2>6 DEF EndOf
  <2>11. \A b \in DOMAIN blocks' : \A t \in Targets(blocks', b) :
            \/ b \in DOMAIN blocks /\ t \in Targets(blocks, b)
            \/ Leads(Z, blocks', b, t)
    <3>1. \A b \in DOMAIN blocks \ exits : Targets(blocks', b) = Targets(blocks, b)
      BY <2>6 DEF Targets
    <3>2. \A b \in exits : Leads(Z, blocks', b, merge)
      BY <2>4, <2>5, <2>9, <2>10 DEF Leads
    <3>3. Targets(blocks', merge) = {}
      BY <2>6, NewBlockFacts DEF Targets
    <3> QED BY <2>6, <3>1, <3>2, <3>3
  <2>12. AsLinked(A, blocks', nh, nl, Z)
    <3>1. \A b \in DOMAIN blocks' \ DOMAIN blocks : blocks'[b].instrs = <<>>
      BY <2>6, <2>7, NewBlockFacts
    <3>2. OnlyLinks(A, blocks', nh, nl, Z)
      BY <2>2, <2>6, <2>7, <2>8, <2>10, <2>11, <3>1 DEF OnlyLinks
    <3> QED BY <3>2, LinksNoted
  <2>13. /\ Noted(blocks', syms, DOMAIN header.params, Z) /\ Stays(A, Z, blocks')
         /\ EndOf(blocks', merge) = 1
    BY <2>7, <2>12 DEF AsLinked
  <2>14. CurNoted(Z, blocks', cur', scopes', frames')
    <3>1. OpenLoans(Z, frames', n - 1) = OpenLoans(A, frames, n - 1)
      <4>1. Alike(A, Z) /\ n - 1 \in Nat /\ n - 1 <= Len(frames)
        BY <1>1, <1>3, <2>13 DEF Stays
      <4> QED BY <1>3, <4>1, OpenLoansSame
    <3>2. Visible(scopes', n) = Visible(scopes, n)
      BY <1>3, VisibleSame
    <3> QED BY <1>3, <2>1, <2>6, <2>9, <2>13, <3>1, <3>2 DEF CurNoted, GoesOn
  <2>15. BuilderNoted(Z)'
    BY <1>2, <2>13, <2>14, ClosedNoted
  <2> QED BY <2>15
<1> QED BY <1>4, <1>5

(* What the body of a loop has bound is forgotten at its header.           *)
LEMMA CloseWhileNoted ==
  ASSUME Built, NEW A, BuilderNoted(A), CloseWhile
  PROVE  BuilderNoted(A)'
<1>1. PICK n, back : n = Len(frames) /\ back = <<Top.header>>
  OBVIOUS
<1>2. /\ Closing("while") /\ scopes' = PopScope /\ frames' = Pop1(frames)
      /\ frames # <<>> /\ Top.kind = "while" /\ cur' = Top.after
      /\ blocks' = IF cur # NoBlock THEN Linked(blocks, cur, back) ELSE blocks
  BY <1>1 DEF CloseWhile, Closing
<1>3. /\ n \in Nat \ {0} /\ DOMAIN frames = 1 .. n /\ Len(scopes) = n + 1
      /\ Len(scopes') = n
      /\ \A j \in 1 .. n - 1 : frames'[j] = frames[j]
      /\ \A j \in 1 .. n : scopes'[j] = scopes[j]
  BY <1>1, <1>2, PopFacts
<1>4. /\ n \in DOMAIN frames /\ frames[n] = Top /\ frames[n] \in Frame
      /\ OpenBlock(Top) = Top.after /\ FrameOk(Top)
  <2>1. n \in DOMAIN frames /\ frames[n] = Top
    BY <1>1, <1>3 DEF Top
  <2> QED BY <1>2, <2>1, BuiltFacts, ClosingFacts DEF OpenBlock
<1>5. Top.after # NoBlock /\ Top.header \in DOMAIN blocks /\ Top.header \in Nat
  BY <1>2, <1>4, BuiltFacts DEF FrameOk
<1>6. /\ GoesOn(A, blocks, Top.after, scopes, frames, n)
      /\ A.here[Top.header][1] \subseteq Visible(scopes, n) \cap A.bound
      /\ A.loans[Top.header][1] = OpenLoans(A, frames, n - 1)
  BY <1>2, <1>4, <1>5 DEF BuilderNoted, FrameNoted
<1>7. /\ DOMAIN blocks' = DOMAIN blocks
      /\ \A b \in DOMAIN blocks : blocks'[b].instrs = blocks[b].instrs
      /\ \A b \in DOMAIN blocks : \A t \in Targets(blocks', b) :
            t \in Targets(blocks, b) \/ (b = cur /\ cur # NoBlock /\ t = Top.header)
  <2>1. CASE cur = NoBlock
    BY <1>2, <2>1
  <2>2. CASE cur # NoBlock
    <3>1. /\ back \in Seq(Nat) /\ blocks \in Seq(BlockType) /\ cur \in DOMAIN blocks
          /\ blocks' = Linked(blocks, cur, back)
      BY <1>1, <1>2, <1>5, <2>2, BuiltFacts
    <3>2. /\ DOMAIN blocks' = DOMAIN blocks
          /\ blocks'[cur].instrs = blocks[cur].instrs /\ blocks'[cur].succ = back
          /\ \A d \in DOMAIN blocks \ {cur} : blocks'[d] = blocks[d]
      BY <3>1, LinkedFacts, ZenonT(60)
    <3>3. Targets(blocks', cur) = {Top.header}
      BY <1>1, <3>2 DEF Targets
    <3>4. \A d \in DOMAIN blocks \ {cur} : Targets(blocks', d) = Targets(blocks, d)
      BY <3>2 DEF Targets
    <3> QED BY <2>2, <3>2, <3>3, <3>4
  <2> QED BY <2>1, <2>2
<1>8. \A b \in DOMAIN blocks : EndOf(blocks', b) = EndOf(blocks, b)
  BY <1>7 DEF EndOf
<1>9. cur # NoBlock => Leads(A, blocks', cur, Top.header)
  <2>1. cur # NoBlock => GoesOn(A, blocks, cur, scopes, frames, n) /\ cur \in DOMAIN blocks
    BY <1>1, <1>2, Outside, BuiltFacts DEF BuilderNoted, CurNoted
  <2> QED BY <1>6, <1>8, <2>1 DEF GoesOn, Leads
<1>10. Noted(blocks', syms, DOMAIN header.params, A)
  <2>1. /\ blocks \in Seq(BlockType) /\ Entry \in DOMAIN blocks
        /\ Noted(blocks, syms, DOMAIN header.params, A) /\ A \in Bindings
    BY BuiltFacts DEF BuilderNoted, Noted
  <2>2. \A b \in DOMAIN blocks' : \A t \in Targets(blocks', b) :
           \/ b \in DOMAIN blocks /\ t \in DOMAIN blocks /\ t \in Targets(blocks, b)
           \/ Leads(A, blocks', b, t)
    <3>1. \A b \in DOMAIN blocks : Targets(blocks, b) \subseteq DOMAIN blocks
      BY BuiltFacts DEF GraphOk
    <3> QED BY <1>7, <1>9, <3>1
  <2> QED BY <1>7, <2>1, <2>2, NotedLinks
<1>11. Stays(A, A, blocks')
  BY <1>8 DEF Stays, Alike
<1>12. CurNoted(A, blocks', cur', scopes', frames')
  <2>1. OpenLoans(A, frames', n - 1) = OpenLoans(A, frames, n - 1)
    <3>1. n - 1 \in Nat /\ n - 1 <= Len(frames)
      BY <1>1, <1>3
    <3> QED BY <1>3, <1>11, <3>1, OpenLoansSame DEF Stays
  <2>2. Visible(scopes', n) = Visible(scopes, n)
    BY <1>3, VisibleSame
  <2>3. EndOf(blocks', Top.after) = EndOf(blocks, Top.after)
    <3>1. Top.after \in DOMAIN blocks
      <4>1. Top.after \in FrameBlocks(frames)
        BY <1>4, <1>5 DEF FrameBlocks
      <4> QED BY <4>1, BuiltFacts DEF GraphOk, Open
    <3> QED BY <1>8, <3>1
  <2> QED BY <1>2, <1>3, <1>6, <2>1, <2>2, <2>3 DEF CurNoted, GoesOn
<1> QED BY <1>2, <1>10, <1>11, <1>12, ClosedNoted

(* One statement more, or the end of a list of statements.                 *)
LEMMA BuilderNotedStep ==
  ASSUME Built, NEW A, BuilderNoted(A), BuilderStep
  PROVE  \E A2 : BuilderNoted(A2)'
<1>1. ASSUME NEW m \in Mentionable, NEW n \in header.names, NEW mut \in BOOLEAN,
             OpenBorrow(m, n, mut)
      PROVE  \E A2 : BuilderNoted(A2)'
  BY <1>1, OpenBorrowNoted
<1>2. ASSUME NEW m, ReturnStmt(m) PROVE \E A2 : BuilderNoted(A2)'
  BY <1>2, ReturnNoted
<1>3. CASE StartElse
  BY <1>3, StartElseNoted
<1>4. CASE CloseWhile
  BY <1>4, CloseWhileNoted
<1>5. \/ StraightStmt
      \/ \E m \in Mentionable, n \in header.names, mut \in BOOLEAN :
            OpenBorrow(m, n, mut)
      \/ OpenIf \/ OpenWhile
      \/ \E m \in Mentionable \cup {"nothing"} : ReturnStmt(m)
      \/ CloseBorrow \/ StartElse \/ CloseIf \/ CloseWhile
  BY DEF BuilderStep, StraightStmt
<1> QED BY <1>1, <1>2, <1>3, <1>4, <1>5, StraightNoted, OpenIfNoted, OpenWhileNoted,
        CloseBorrowNoted, CloseIfNoted

(* Before the first statement, the owned parameters are bound.             *)
LEMMA InitNoted ==
  ASSUME BuilderInit PROVE \E A : BuilderNoted(A)
<1>1. PICK held : held = {p \in DOMAIN syms : syms[p].kind = "owned"}
  OBVIOUS
<1>2. PICK A : A = [obl   |-> [h \in Sym |-> h],
                    bound |-> held,
                    here  |-> [b \in Nat |-> [j \in Nat |-> held]],
                    loans |-> [b \in Nat |-> [j \in Nat |-> {}]]]
  OBVIOUS
<1>3. Built
  BY InitBuilt
<1>4. /\ frames = <<>> /\ cur = Entry /\ blocks = <<NewBlock>>
      /\ DOMAIN syms = DOMAIN header.params
  BY DEF BuilderInit
<1>5. /\ DOMAIN syms \subseteq Sym /\ Len(scopes) = 1 /\ 1 - 1 = 0 /\ Len(frames) = 0
      /\ held \subseteq Sym /\ held \subseteq DOMAIN syms
  <2>1. DOMAIN syms \subseteq Sym /\ Len(scopes) = Len(frames) + 1 /\ Len(frames) = 0
    BY <1>3, <1>4, BuiltFacts DEF SymbolsOk
  <2> QED BY <1>1, <2>1
<1>6. A \in Bindings
  BY <1>2, <1>5 DEF Bindings
<1>7. /\ A.bound = held /\ \A h \in Sym : A.obl[h] = h
      /\ \A b, j \in Nat : A.here[b][j] = held /\ A.loans[b][j] = {}
  BY <1>2
<1>8. /\ DOMAIN blocks = {Entry} /\ blocks[Entry].instrs = <<>>
      /\ Targets(blocks, Entry) = {} /\ EndOf(blocks, Entry) = 1 /\ Entry \in Nat
      /\ DOMAIN blocks[Entry].instrs = {}
  <2>1. DOMAIN blocks = {Entry} /\ blocks[Entry] = NewBlock /\ Entry \in Nat
    BY <1>4 DEF Entry
  <2> QED BY <2>1, NewBlockFacts DEF Targets, EndOf
<1>9. Noted(blocks, syms, DOMAIN header.params, A)
  <2>1. SymbolsNoted(syms, DOMAIN header.params, A)
    BY <1>4, <1>5, <1>7 DEF SymbolsNoted
  <2>2. EntryNoted(syms, DOMAIN header.params, A)
    <3>1. A.here[Entry][1] = held /\ A.loans[Entry][1] = {}
      BY <1>7, <1>8
    <3> QED BY <1>1, <1>4, <3>1 DEF EntryNoted
  <2>3. BlocksNoted(blocks, syms, A) /\ JumpsNoted(blocks, A)
    BY <1>8 DEF BlocksNoted, JumpsNoted
  <2> QED BY <1>6, <2>1, <2>2, <2>3 DEF Noted
<1>10. AllBound(syms, A)
  BY <1>1, <1>7 DEF AllBound
<1>11. CurNoted(A, blocks, cur, scopes, frames)
  <2>1. OpenLoans(A, frames, 0) = {}
    BY DEF OpenLoans, Lent
  <2>2. A.here[Entry][1] = held /\ A.loans[Entry][1] = {}
    BY <1>7, <1>8
  <2>3. GoesOn(A, blocks, Entry, scopes, frames, 1)
    BY <1>5, <1>7, <1>8, <2>1, <2>2 DEF GoesOn
  <2> QED BY <1>4, <1>5, <2>3 DEF CurNoted
<1>12. \A j \in DOMAIN frames : FrameNoted(A, blocks, scopes, frames, j)
  BY <1>4
<1> QED BY <1>9, <1>10, <1>11, <1>12 DEF BuilderNoted

(* What is noted of the blocks is noted of the graph that build() returns. *)
LEMMA GraphNoted ==
  ASSUME Built, NEW A, BuilderNoted(A)
  PROVE  /\ Noted(CodeOf(BuiltCfg), BuiltCfg.syms, BuiltCfg.params, A)
         /\ AllBound(BuiltCfg.syms, A)
<1>1. PICK c : c = BuiltCfg
  OBVIOUS
<1>2. c.syms = syms /\ c.params = DOMAIN header.params
  BY <1>1 DEF BuiltCfg
<1>3. /\ Blocks(c) = DOMAIN blocks
      /\ \A b \in DOMAIN blocks : c.instrs[b] = blocks[b].instrs /\ c.succ[b] = blocks[b].succ
  BY <1>1, BuiltGraph
<1>4. PICK bs : bs = CodeOf(c)
  OBVIOUS
<1>5. /\ DOMAIN bs = DOMAIN blocks
      /\ \A b \in DOMAIN blocks : bs[b].instrs = blocks[b].instrs /\ bs[b].succ = blocks[b].succ
  BY <1>3, <1>4 DEF CodeOf
<1>6. \A b \in DOMAIN blocks : EndOf(bs, b) = EndOf(blocks, b) /\ Targets(bs, b) = Targets(blocks, b)
  BY <1>5 DEF EndOf, Targets
<1>7. Noted(blocks, syms, DOMAIN header.params, A) /\ AllBound(syms, A)
  BY DEF BuilderNoted
<1>8. Noted(bs, syms, DOMAIN header.params, A)
  <2>1. BlocksNoted(bs, syms, A)
    BY <1>5, <1>7 DEF Noted, BlocksNoted
  <2>2. JumpsNoted(bs, A)
    BY <1>5, <1>6, <1>7 DEF Noted, JumpsNoted
  <2> QED BY <1>7, <2>1, <2>2 DEF Noted
<1> QED BY <1>1, <1>2, <1>4, <1>7, <1>8

-----------------------------------------------------------------------------
(* The analyzer and the run agree with what is noted of the text of a      *)
(* function (OwnBindings).  So the states that meet at a merge never       *)
(* disagree, a path never uses a handle it has not bound, and a stack      *)
(* buffer is known for one under whatever name it has been moved to.       *)

InText(A) == Noted(CodeOf(cfg), cfg.syms, cfg.params, A)

(* What is noted of the text, in the words of the analyzer.                *)
LEMMA TextFacts ==
  ASSUME WellFormed(cfg), NEW A, InText(A)
  PROVE  /\ A \in Bindings /\ SymbolsNoted(cfg.syms, cfg.params, A)
         /\ A.here[Entry][1] \subseteq {p \in cfg.params : cfg.syms[p].kind = "owned"}
         /\ A.loans[Entry][1] = {}
         /\ \A b \in Blocks(cfg) : \A j \in DOMAIN Instrs(b) :
               Flows(cfg.syms, A, Instrs(b)[j], A.here[b][j], A.loans[b][j],
                     A.here[b][j + 1], A.loans[b][j + 1])
         /\ \A b \in Blocks(cfg) : \A t \in Succs(cfg, b) :
               /\ A.here[t][1] \subseteq A.here[b][Last(b)]
               /\ A.loans[t][1] = A.loans[b][Last(b)]
<1>1. PICK bs : bs = CodeOf(cfg)
  OBVIOUS
<1>2. /\ DOMAIN bs = Blocks(cfg)
      /\ \A b \in Blocks(cfg) : bs[b].instrs = Instrs(b) /\ bs[b].succ = cfg.succ[b]
  BY <1>1 DEF CodeOf, Instrs
<1>3. \A b \in Blocks(cfg) : EndOf(bs, b) = Last(b) /\ Targets(bs, b) = Succs(cfg, b)
  BY <1>2 DEF EndOf, Last, Targets, Succs, Instrs
<1>4. /\ A \in Bindings /\ SymbolsNoted(cfg.syms, cfg.params, A)
      /\ EntryNoted(cfg.syms, cfg.params, A)
      /\ BlocksNoted(bs, cfg.syms, A) /\ JumpsNoted(bs, A)
  BY <1>1 DEF InText, Noted
<1> QED BY <1>2, <1>3, <1>4 DEF EntryNoted, BlocksNoted, JumpsNoted

(* The obligation of a handle in place is the one noted.                   *)
LEMMA RidStands ==
  ASSUME NEW A \in Bindings, \A h \in Sym \ A.bound : A.obl[h] = h,
         NEW s, NEW here, Stands(A, s.rid, here),
         NEW h \in Sym, h \in A.bound => h \in here
  PROVE  RidOf(s, h) = A.obl[h]
<1>1. A.obl[h] \in Sym /\ NoSym \notin Sym
  <2>1. NoSym \notin Sym
    BY DEF Sym, NoSym
  <2> QED BY <2>1 DEF Bindings
<1>2. s.rid[h] \in {NoSym, A.obl[h]} /\ (h \in here => s.rid[h] = A.obl[h])
  BY DEF Stands
<1> QED BY <1>1, <1>2 DEF RidOf

(* Only the obligation of h is new in s2, of the handles and the loans.    *)
Rebound(s, s2, h, r) == s2.rid = [s.rid EXCEPT ![h] = r] /\ s2.loans = s.loans

LEMMA MintFields ==
  ASSUME NEW s \in State, NEW h, NEW line PROVE Rebound(s, Mint(s, h, line), h, h)
BY DEF Mint, State, Rebound

(* A move takes the obligation from its source, then mints.                *)
LEMMA MovedOut ==
  ASSUME NEW s \in State, NEW i \in Instr, i.src \in Sym
  PROVE  \E s2 : /\ s2 \in State /\ s2.rid = s.rid /\ s2.loans = s.loans
                 /\ MoveInto(s, i) = Mint(s2, i.sym, i.line)
<1> DEFINE r == RidOf(s, i.src)
           site == IF "OWNED" \in Held(s, i.src)
                   THEN [line |-> i.line, exact |-> TRUE] ELSE s.moved[r]
           s2 == [s EXCEPT !.moved[r] = site, !.var[r] = {"MOVED"}]
<1>1. r \in Sym
  BY RidOfType
<1>2. site \in Site
  BY <1>1 DEF State, Site, Instr
<1>3. MoveInto(s, i) = Mint(s2, i.sym, i.line)
  BY DEF MoveInto
<1> HIDE DEF site, r
<1>4. s2 \in State /\ s2.rid = s.rid /\ s2.loans = s.loans
  BY <1>1, <1>2 DEF State, VarState
<1> QED BY <1>3, <1>4

LEMMA AliasFields ==
  ASSUME NEW s \in State, NEW h, NEW r
  PROVE  Rebound(s, [s EXCEPT !.rid[h] = r], h, r)
BY DEF State, Rebound

(* An instruction of the analyzer keeps what is noted.                     *)
LEMMA StepFits ==
  ASSUME WellFormed(cfg), NEW A \in Bindings, SymbolsNoted(cfg.syms, cfg.params, A),
         NEW i, InstrOk(cfg, i), NEW s \in State, NEW h1, NEW h2, NEW l2,
         Stands(A, s.rid, h1), Flows(cfg.syms, A, i, h1, s.loans, h2, l2)
  PROVE  Stands(A, Step(cfg, i, s).rid, h2) /\ Step(cfg, i, s).loans = l2
<1>1. /\ i \in Instr /\ DOMAIN cfg.syms \subseteq Sym /\ NoSym \notin Sym
      /\ i.op \in {"acquire", "move", "alias"} => i.sym \in Sym
      /\ i.op \in {"move", "alias", "borrow_start"} => i.src \in Sym
  BY DEF InstrOk, WellFormed, Sym, NoSym
<1>2. \A h \in Sym \ A.bound : A.obl[h] = h
  BY DEF SymbolsNoted
<1>3. i.op \in {"move", "alias", "borrow_start"} => RidOf(s, i.src) = A.obl[i.src]
  <2>1. i.op \in {"move", "alias", "borrow_start"} => (i.src \in A.bound => i.src \in h1)
    BY <1>1 DEF Flows, InPlace, SubjectIn
  <2> QED BY <1>1, <1>2, <2>1, RidStands
<1>4. h2 \subseteq h1 \cup Binds(i) /\ l2 = LoansAfter(A, i, s.loans)
  BY DEF Flows
<1>5. CASE i.op \in {"acquire", "move", "alias"}
  <2>1. Rebound(s, Step(cfg, i, s), i.sym, A.obl[i.sym])
    <3>1. CASE i.op = "acquire"
      <4>1. Step(cfg, i, s) = Mint(s, i.sym, i.line) /\ A.obl[i.sym] = i.sym
        BY <3>1 DEF Step, Consumes, Flows
      <4> QED BY <4>1, MintFields
    <3>2. CASE i.op = "move"
      <4>1. PICK s2 : /\ s2 \in State /\ s2.rid = s.rid /\ s2.loans = s.loans
                      /\ MoveInto(s, i) = Mint(s2, i.sym, i.line)
        BY <1>1, <3>2, MovedOut
      <4>2. Step(cfg, i, s) = MoveInto(s, i) /\ A.obl[i.sym] = i.sym
        BY <3>2 DEF Step, Consumes, Flows
      <4>3. Rebound(s2, Mint(s2, i.sym, i.line), i.sym, i.sym)
        BY <4>1, MintFields
      <4>4. Rebound(s, Mint(s2, i.sym, i.line), i.sym, i.sym)
        BY <4>1, <4>3 DEF Rebound
      <4> QED BY <4>1, <4>2, <4>4
    <3>3. CASE i.op = "alias"
      <4>1. /\ Step(cfg, i, s) = [s EXCEPT !.rid[i.sym] = RidOf(s, i.src)]
            /\ RidOf(s, i.src) = A.obl[i.sym]
        BY <1>3, <3>3 DEF Step, Consumes, Flows
      <4> QED BY <4>1, AliasFields
    <3> QED BY <1>5, <3>1, <3>2, <3>3
  <2>3. Stands(A, Step(cfg, i, s).rid, h2)
    <3>1. s.rid \in [Sym -> Sym \cup {NoSym}] /\ i.sym \in Sym /\ Binds(i) = {i.sym}
      BY <1>1, <1>5 DEF State, Binds
    <3> QED BY <1>4, <2>1, <3>1 DEF Stands, Rebound
  <2>4. l2 = s.loans
    BY <1>4, <1>5 DEF LoansAfter
  <2> QED BY <2>1, <2>3, <2>4 DEF Rebound
<1>6. CASE i.op \notin {"acquire", "move", "alias"}
  <2>1. Step(cfg, i, s).rid = s.rid
    BY <1>1, <1>6 DEF Step, SetHeld, OpenLoan, CloseLoan, State
  <2>2. Stands(A, Step(cfg, i, s).rid, h2)
    <3>1. Binds(i) = {}
      BY <1>6 DEF Binds
    <3> QED BY <1>4, <2>1, <3>1 DEF Stands
  <2>3. Step(cfg, i, s).loans = l2
    <3>1. CASE i.op = "borrow_start"
      <4>1. Step(cfg, i, s) = OpenLoan(s, i)
        BY <3>1 DEF Step, Consumes
      <4>2. l2 = {l \in s.loans : l.binding # i.sym} \cup {LoanOf(A, i)}
        BY <1>4, <3>1 DEF LoansAfter
      <4>3. LoanOf(A, i) = [binding |-> i.sym, owner |-> RidOf(s, i.src), mut |-> i.mut]
        BY <1>3, <3>1 DEF LoanOf
      <4> QED BY <4>1, <4>2, <4>3 DEF OpenLoan, State
    <3>2. CASE i.op = "borrow_end"
      <4>1. Step(cfg, i, s) = CloseLoan(s, i)
        BY <3>2 DEF Step, Consumes
      <4>2. l2 = {l \in s.loans : l.binding # i.sym}
        BY <1>4, <3>2 DEF LoansAfter
      <4> QED BY <4>1, <4>2 DEF CloseLoan, State
    <3>3. CASE i.op \notin {"borrow_start", "borrow_end"}
      <4>1. l2 = s.loans
        BY <1>4, <3>3 DEF LoansAfter
      <4>2. Step(cfg, i, s).loans = s.loans
        BY <1>6, <3>3 DEF Step, SetHeld, State
      <4> QED BY <4>1, <4>2
    <3> QED BY <3>1, <3>2, <3>3
  <2> QED BY <2>2, <2>3
<1> QED BY <1>5, <1>6

-----------------------------------------------------------------------------
(* The analyzer. *)

(* States that agree with the text are merged into one that does, and never *)
(* raise the assertions of `join`.                                         *)
AllStand(A, SS, here, ls) ==
  \A s \in SS : Stands(A, s.rid, here) /\ s.loans = ls

Merged(A, SS, here, ls) ==
  /\ ~ MergeConflict(SS)
  /\ Stands(A, JoinAll(SS).rid, here) /\ JoinAll(SS).loans = ls

LEMMA JoinFits ==
  ASSUME NEW A \in Bindings, NEW SS, SS # {}, NEW here, NEW ls, AllStand(A, SS, here, ls)
  PROVE  Merged(A, SS, here, ls)
<1> USE DEF AllStand, Merged
<1>1. \A h \in Sym : /\ A.obl[h] # NoSym
                     /\ \A s \in SS : s.rid[h] \in {NoSym, A.obl[h]}
                     /\ h \in here => \A s \in SS : s.rid[h] = A.obl[h]
  <2>1. NoSym \notin Sym
    BY DEF Sym, NoSym
  <2> QED BY <2>1 DEF Bindings, Stands
<1>2. ~ MergeConflict(SS)
  BY <1>1 DEF MergeConflict
<1>3. JoinAll(SS).loans = ls
  BY DEF JoinAll
<1>4. ASSUME NEW h \in Sym
      PROVE  /\ JoinAll(SS).rid[h] \in {NoSym, A.obl[h]}
             /\ h \in here => JoinAll(SS).rid[h] = A.obl[h]
  <2>1. JoinAll(SS).rid[h] = IF \E s \in SS : s.rid[h] # NoSym
                             THEN (CHOOSE s \in SS : s.rid[h] # NoSym).rid[h]
                             ELSE NoSym
    BY DEF JoinAll
  <2>2. CASE \E s \in SS : s.rid[h] # NoSym
    <3>1. PICK t : t = CHOOSE s \in SS : s.rid[h] # NoSym
      OBVIOUS
    <3>2. t \in SS /\ t.rid[h] # NoSym
      BY <2>2, <3>1
    <3> QED BY <1>1, <2>1, <2>2, <3>1, <3>2
  <2>3. CASE ~ \E s \in SS : s.rid[h] # NoSym
    BY <1>1, <2>1, <2>3
  <2> QED BY <2>2, <2>3
<1> QED BY <1>2, <1>3, <1>4 DEF Stands

(* What a block has sent out fits its successors.                          *)
LEMMA ArrivesFitting ==
  ASSUME WellFormed(cfg), NEW A, InText(A), NEW p \in Blocks(cfg),
         NEW b \in Succs(cfg, p), NEW s, Fits(A, s, p, Last(p))
  PROVE  Fits(A, s, b, 1)
BY TextFacts DEF Fits, Stands

(* The predecessors that are computed never disagree.                      *)
LEMMA KnownFit ==
  ASSUME WellFormed(cfg), NEW A, InText(A), StatesFit(A),
         computed \subseteq Blocks(cfg), NEW b
  PROVE  /\ ~ MergeConflict({outs[p] : p \in Known(b)})
         /\ Known(b) # {} => Fits(A, JoinAll({outs[p] : p \in Known(b)}), b, 1)
<1>1. PICK SS : SS = {outs[p] : p \in Known(b)}
  OBVIOUS
<1>2. \A p \in Known(b) : Fits(A, outs[p], b, 1)
  BY ArrivesFitting DEF Known, Preds, StatesFit
<1>3. \A s \in SS : Stands(A, s.rid, A.here[b][1]) /\ s.loans = A.loans[b][1]
  BY <1>1, <1>2 DEF Fits
<1>4. CASE SS = {}
  BY <1>1, <1>4 DEF MergeConflict
<1>5. CASE SS # {}
  <2>1. A \in Bindings
    BY TextFacts
  <2>2. AllStand(A, SS, A.here[b][1], A.loans[b][1])
    BY <1>3 DEF AllStand
  <2>3. Merged(A, SS, A.here[b][1], A.loans[b][1])
    BY <1>5, <2>1, <2>2, JoinFits
  <2> QED BY <1>1, <2>3 DEF Fits, Merged
<1> QED BY <1>4, <1>5

(* So do the parameters.                                                   *)
LEMMA InitialFits ==
  ASSUME WellFormed(cfg), NEW A, InText(A) PROVE Fits(A, InitialState(cfg), Entry, 1)
<1>1. PICK held : held = {p \in cfg.params : cfg.syms[p].kind = "owned"}
  OBVIOUS
<1>2. /\ A.here[Entry][1] \subseteq held /\ A.loans[Entry][1] = {}
      /\ \A p \in held : A.obl[p] = p
  BY <1>1, TextFacts DEF SymbolsNoted
<1>3. /\ InitialState(cfg).loans = {}
      /\ \A h \in Sym : InitialState(cfg).rid[h] = IF h \in held THEN h ELSE NoSym
  <2>1. PICK vs, rs : /\ vs = [r \in Sym |-> IF r \in held THEN {"OWNED"} ELSE {}]
                      /\ rs = [h \in Sym |-> IF h \in held THEN h ELSE NoSym]
    OBVIOUS
  <2>2. InitialState(cfg) = [EmptyState EXCEPT !.var = vs, !.rid = rs]
    BY <1>1, <2>1 DEF InitialState
  <2>3. InitialState(cfg).loans = {} /\ InitialState(cfg).rid = rs
    BY <2>2 DEF EmptyState
  <2> QED BY <2>1, <2>3
<1> QED BY <1>2, <1>3 DEF Fits, Stands

(* The worklist meets the blocks for the first time in their order.        *)
Ordered(q, done) ==
  \A i, j \in DOMAIN q :
     (i < j /\ q[i] \notin done /\ q[j] \notin done) => q[i] < q[j]

LEMMA OrderedTail ==
  ASSUME NEW q \in Seq(Nat), q # <<>>, NEW done, Ordered(q, done)
  PROVE  /\ Ordered(Tail(q), done)
         /\ \A p \in {q[j] : j \in DOMAIN q} :
               (p < Head(q) /\ Head(q) \notin done) => p \in done
<1>1. /\ Len(q) \in Nat \ {0} /\ DOMAIN q = 1 .. Len(q) /\ Head(q) = q[1]
      /\ DOMAIN Tail(q) = 1 .. Len(q) - 1
      /\ \A j \in 1 .. Len(q) - 1 : Tail(q)[j] = q[j + 1]
  OBVIOUS
<1>2. ASSUME NEW j \in DOMAIN q, q[j] < Head(q), Head(q) \notin done PROVE q[j] \in done
  <2>1. j # 1 /\ 1 < j /\ 1 \in DOMAIN q /\ q[1] \in Nat /\ q[j] \in Nat
    BY <1>1, <1>2
  <2>2. q[j] \notin done => q[1] < q[j]
    BY <1>1, <1>2, <2>1 DEF Ordered
  <2> QED BY <1>1, <1>2, <2>1, <2>2
<1>3. ASSUME NEW i \in DOMAIN Tail(q), NEW j \in DOMAIN Tail(q), i < j,
             Tail(q)[i] \notin done, Tail(q)[j] \notin done
      PROVE  Tail(q)[i] < Tail(q)[j]
  <2>1. /\ i + 1 \in DOMAIN q /\ j + 1 \in DOMAIN q /\ i + 1 < j + 1
        /\ Tail(q)[i] = q[i + 1] /\ Tail(q)[j] = q[j + 1]
    BY <1>1, <1>3
  <2> QED BY <1>3, <2>1 DEF Ordered
<1> QED BY <1>2, <1>3 DEF Ordered

LEMMA OrderedAppend ==
  ASSUME NEW q \in Seq(Nat), NEW x \in Nat, NEW done, Ordered(q, done),
         x \in done \/ \A j \in DOMAIN q : q[j] < x
  PROVE  Ordered(Append(q, x), done)
<1>1. PICK r, n : r = Append(q, x) /\ n = Len(q)
  OBVIOUS
<1>2. /\ n \in Nat /\ DOMAIN q = 1 .. n /\ DOMAIN r = 1 .. n + 1 /\ r[n + 1] = x
      /\ \A j \in 1 .. n : r[j] = q[j]
  BY <1>1
<1>3. ASSUME NEW i \in DOMAIN r, NEW j \in DOMAIN r, i < j,
             r[i] \notin done, r[j] \notin done
      PROVE  r[i] < r[j]
  <2>1. i \in 1 .. n /\ r[i] = q[i]
    BY <1>2, <1>3
  <2>2. CASE j \in 1 .. n
    <3>1. i \in DOMAIN q /\ j \in DOMAIN q /\ r[j] = q[j]
      BY <1>2, <2>1, <2>2
    <3> QED BY <1>3, <2>1, <3>1 DEF Ordered
  <2>3. CASE j = n + 1
    BY <1>2, <1>3, <2>1, <2>3
  <2> QED BY <1>2, <2>2, <2>3
<1> QED BY <1>1, <1>3 DEF Ordered

LEMMA OrderStep ==
  ASSUME TypeInv, FixInv, InOrder, phase # "idle", AnalyzerStep
  PROVE  InOrder'
<1>1. /\ work \in Seq(Nat) /\ WellFormed(cfg) /\ reach \subseteq Blocks(cfg)
      /\ Blocks(cfg) \subseteq Nat /\ computed \subseteq reach
      /\ Queued = {work[j] : j \in DOMAIN work} /\ Queued \subseteq reach
  <2>1. WellFormed(cfg) /\ work \in Seq(Blocks(cfg)) /\ reach \subseteq Blocks(cfg)
    BY DEF TypeInv, TypeOK, Shape
  <2>2. Blocks(cfg) \subseteq Nat
    BY <2>1, GraphFacts
  <2>3. work \in Seq(Nat)
    BY <2>1, <2>2
  <2> QED BY <2>1, <2>2, <2>3 DEF Queued, TypeInv, Shape
<1>2. /\ Ordered(work, computed)
      /\ phase = "seed" => \A j \in DOMAIN work : work[j] < blk
      /\ \A b \in reach : (b \in computed \/ InFlight(b)) =>
            \A p \in reach : p < b => p \in computed
  BY DEF InOrder, Ordered
<1> DEFINE Early(b, cs2) == \A p \in reach : p < b => p \in cs2
<1>3. SUFFICES /\ Ordered(work', computed') /\ phase' # "idle"
               /\ phase' = "seed" => \A j \in DOMAIN work' : work'[j] < blk'
               /\ reach' = reach
               /\ \A b \in reach : (b \in computed' \/ (phase' = "transfer" /\ b = blk'))
                     => Early(b, computed')
  BY DEF InOrder, Ordered, InFlight
<1>4. CASE Seed
  <2>1. /\ computed = {} /\ computed' = computed /\ reach' = reach /\ blk \in Nat
        /\ phase' \in {"seed", "fixpoint"}
    BY <1>4 DEF Seed, FixInv, SeededInv, TypeInv, Shape
  <2>2. CASE work' = work
    <3>1. phase = "seed" /\ (phase' = "seed" => blk' = blk + 1)
      BY <1>4 DEF Seed
    <3>2. \A j \in DOMAIN work : work[j] \in Nat /\ work[j] < blk
      BY <1>1, <1>2, <3>1
    <3>3. phase' = "seed" => \A j \in DOMAIN work' : work'[j] < blk'
      BY <2>1, <2>2, <3>1, <3>2
    <3>4. phase' # "idle" /\ phase' # "transfer"
      BY <2>1
    <3> QED BY <1>2, <2>1, <2>2, <3>3, <3>4
  <2>3. CASE work' = Append(work, blk) /\ blk' = blk + 1
    <3>1. \A j \in DOMAIN work : work[j] < blk
      BY <1>2, <1>4 DEF Seed
    <3>2. Ordered(Append(work, blk), computed)
      BY <1>1, <1>2, <2>1, <3>1, OrderedAppend
    <3>3. \A j \in DOMAIN work' : work'[j] < blk'
      <4>1. \A j \in DOMAIN work : work[j] \in Nat
        BY <1>1
      <4>2. \A j \in DOMAIN work' : (j \in DOMAIN work /\ work'[j] = work[j]) \/ work'[j] = blk
        BY <1>1, <2>1, <2>3
      <4> QED BY <2>1, <2>3, <3>1, <4>1, <4>2
    <3> QED BY <2>1, <2>3, <3>2, <3>3
  <2>4. work' = work \/ (work' = Append(work, blk) /\ blk' = blk + 1)
    BY <1>4 DEF Seed
  <2> QED BY <2>2, <2>3, <2>4
<1>5. CASE Pop
  <2>1. PICK b : b = Head(work)
    OBVIOUS
  <2>2. /\ work # <<>> /\ work' = Tail(work) /\ blk' = b /\ phase' = "transfer"
        /\ computed' = computed /\ reach' = reach /\ phase = "fixpoint"
    BY <1>5, <2>1 DEF Pop
  <2>3. Ordered(Tail(work), computed)
    BY <1>1, <1>2, <2>2, OrderedTail
  <2>4. Early(b, computed)
    <3>1. CASE b \in computed
      BY <1>1, <1>2, <3>1
    <3>2. CASE b \notin computed
      <4>1. \A p \in Queued : p < b => p \in computed
        BY <1>1, <1>2, <2>1, <2>2, <3>2, OrderedTail
      <4>2. \A p \in reach : p \in computed \/ p \in Queued
        BY <2>2 DEF FixInv, SeededInv, Converging, InFlight
      <4> QED BY <4>1, <4>2
    <3> QED BY <3>1, <3>2
  <2> QED BY <1>2, <2>2, <2>3, <2>4
<1>6. CASE Store
  <2>1. /\ phase = "transfer" /\ phase' # "transfer" /\ phase' # "seed" /\ phase' # "idle"
        /\ work' = work /\ reach' = reach /\ computed \subseteq computed'
        /\ computed' \subseteq computed \cup {blk}
    BY <1>6 DEF Store
  <2>2. Ordered(work, computed')
    BY <1>2, <2>1 DEF Ordered
  <2>3. \A b \in reach : b \in computed' => Early(b, computed)
    BY <1>2, <2>1 DEF InFlight
  <2> QED BY <2>1, <2>2, <2>3
<1>7. CASE Requeue
  <2>1. /\ phase = "requeue" /\ phase' \in {"requeue", "fixpoint"}
        /\ computed' = computed /\ reach' = reach
    BY <1>7 DEF Requeue
  <2>2. Ordered(work', computed)
    <3>1. CASE work' = work
      BY <1>2, <3>1
    <3>2. CASE work' = Append(work, Head(todo)) /\ Head(todo) \in reach \ Queued
      <4>1. Head(todo) \in computed /\ Head(todo) \in Nat
        BY <1>1, <2>1, <3>2 DEF FixInv, SeededInv, Converging, InFlight
      <4> QED BY <1>1, <1>2, <3>2, <4>1, OrderedAppend
    <3> QED BY <1>7, <3>1, <3>2 DEF Requeue
  <2>3. \A b \in reach : b \in computed => Early(b, computed)
    BY <1>2
  <2> QED BY <2>1, <2>2, <2>3
<1>8. CASE SilentStep
  <2>1. UNCHANGED <<phase, work, computed, reach, blk>> /\ phase = "transfer"
    BY <1>8 DEF SilentStep, Transfer
  <2> QED BY <1>2, <2>1 DEF InFlight
<1>9. CASE Raise \/ Converged \/ ReportBlock \/ JudgeStep \/ JudgedBlock \/ StartLeaks
           \/ LeakCheck \/ Finished
  <2>1. /\ UNCHANGED <<work, computed, reach>>
        /\ phase' \notin {"idle", "seed", "transfer"}
    BY <1>9 DEF Raise, Converged, ReportBlock, JudgeStep, Transfer, JudgedBlock,
       StartLeaks, LeakCheck, Finished
  <2> QED BY <1>2, <2>1
<1> QED BY <1>4, <1>5, <1>6, <1>7, <1>8, <1>9 DEF AnalyzerStep

(* When a block is met, one of its predecessors has been computed.         *)
LEMMA PoppedKnown ==
  ASSUME TypeInv, FixInv, InOrder, SoundGraph(cfg, reach), Pop, Head(work) # Entry
  PROVE  Known(Head(work)) # {}
<1>1. PICK b : b = Head(work)
  OBVIOUS
<1>2. /\ work # <<>> /\ blk' = b /\ phase' = "transfer" /\ phase # "idle"
      /\ UNCHANGED <<cfg, reach, computed>>
  BY <1>1 DEF Pop
<1>3. InOrder'
  BY <1>2, OrderStep DEF AnalyzerStep
<1>4. b \in reach
  <2>1. Queued \subseteq reach /\ work \in Seq(Blocks(cfg))
    BY DEF TypeInv, Shape, TypeOK
  <2> QED BY <1>1, <1>2, <2>1, TailElements DEF Queued
<1>5. PICK p \in Preds(cfg, b) : p < b
  BY <1>1, <1>4 DEF SoundGraph
<1>6. p \in reach
  BY <1>5 DEF Preds, SoundGraph
<1>7. p \in computed
  BY <1>2, <1>3, <1>4, <1>5, <1>6 DEF InOrder, InFlight
<1> QED BY <1>1, <1>5, <1>7 DEF Known

(* No merge raises, and the states of the analyzer stay those noted.       *)
LEMMA AnalyzerFits ==
  ASSUME TypeInv, FixInv, InOrder, SoundGraph(cfg, reach), phase # "idle",
         NEW A, InText(A), StatesFit(A), AnalyzerStep
  PROVE  StatesFit(A)' /\ phase' # "raised"
<1>1. /\ WellFormed(cfg) /\ computed \subseteq Blocks(cfg) /\ reach \subseteq Blocks(cfg)
      /\ st \in State /\ outs \in [Blocks(cfg) -> State]
      /\ A \in Bindings /\ SymbolsNoted(cfg.syms, cfg.params, A)
  BY TextFacts DEF TypeInv, TypeOK, Shape
<1>2. /\ phase = "transfer" => Fits(A, st, blk, k)
      /\ \A b \in computed : Fits(A, outs[b], b, Last(b))
  BY DEF StatesFit
<1>3. CASE Pop
  <2>1. PICK b : b = Head(work)
    OBVIOUS
  <2>2. /\ st' = InStateOf(b) /\ blk' = b /\ k' = 1 /\ phase' = "transfer"
        /\ UNCHANGED <<cfg, computed, outs>>
    BY <1>3, <2>1 DEF Pop
  <2>3. Fits(A, InStateOf(b), b, 1)
    <3>1. CASE b = Entry
      BY <1>1, <3>1, InitialFits DEF InStateOf
    <3>2. CASE b # Entry
      <4>1. Known(b) # {}
        BY <1>3, <2>1, <3>2, PoppedKnown
      <4>2. InStateOf(b) = JoinAll({outs[p] : p \in Known(b)})
        BY <3>2, <4>1 DEF InStateOf
      <4> QED BY <1>1, <4>1, <4>2, KnownFit
    <3> QED BY <3>1, <3>2
  <2> QED BY <1>2, <2>2, <2>3 DEF StatesFit, Fits, Last
<1>4. CASE Raise
  BY <1>1, <1>4, KnownFit DEF Raise, JoinRaises
<1>5. CASE SilentStep
  <2>1. PICK i : i = Instrs(blk)[k]
    OBVIOUS
  <2>2. /\ st' = Step(cfg, i, st) /\ k' = k + 1 /\ k \in DOMAIN Instrs(blk)
        /\ phase = "transfer" /\ UNCHANGED <<cfg, phase, blk, computed, outs>>
    BY <1>5, <2>1 DEF SilentStep, Transfer
  <2>3. blk \in Blocks(cfg) /\ InstrOk(cfg, i)
    BY <1>1, <2>1, <2>2 DEF TypeInv, Shape, WellFormed, Instrs
  <2>4. Flows(cfg.syms, A, i, A.here[blk][k], A.loans[blk][k],
              A.here[blk][k + 1], A.loans[blk][k + 1])
    BY <1>1, <2>1, <2>2, <2>3, TextFacts
  <2>5. Stands(A, st.rid, A.here[blk][k]) /\ st.loans = A.loans[blk][k]
    BY <1>2, <2>2 DEF Fits
  <2>6. PICK h1, h2, l2 : /\ h1 = A.here[blk][k] /\ h2 = A.here[blk][k + 1]
                         /\ l2 = A.loans[blk][k + 1]
    OBVIOUS
  <2>7. Flows(cfg.syms, A, i, h1, st.loans, h2, l2) /\ Stands(A, st.rid, h1)
    BY <2>4, <2>5, <2>6
  <2>8. Stands(A, Step(cfg, i, st).rid, h2) /\ Step(cfg, i, st).loans = l2
    BY <1>1, <2>3, <2>7, StepFits
  <2>9. Fits(A, st', blk', k')
    BY <2>2, <2>6, <2>8 DEF Fits
  <2> QED BY <1>2, <2>2, <2>9 DEF StatesFit, Fits, Last
<1>6. CASE Store
  <2>1. /\ phase = "transfer" /\ phase' \in {"requeue", "fixpoint"} /\ cfg' = cfg
        /\ k \notin DOMAIN Instrs(blk)
        /\ \/ computed' = computed \cup {blk} /\ outs' = [outs EXCEPT ![blk] = st]
           \/ UNCHANGED <<computed, outs>>
    BY <1>6 DEF Store
  <2>2. blk \in Blocks(cfg) /\ k = Last(blk)
    <3>1. blk \in Blocks(cfg) /\ k \in 1 .. Len(cfg.instrs[blk]) + 1
      BY <1>1, <2>1 DEF TypeInv, Shape
    <3>2. Len(cfg.instrs[blk]) \in Nat /\ DOMAIN Instrs(blk) = 1 .. Len(cfg.instrs[blk])
      BY <1>1, <3>1, GraphFacts DEF Instrs
    <3> QED BY <2>1, <3>1, <3>2 DEF Last
  <2>3. Fits(A, st, blk, Last(blk))
    BY <1>2, <2>1, <2>2
  <2>4. \A b \in computed' : Fits(A, outs'[b], b, Last(b))
    BY <1>1, <1>2, <2>1, <2>2, <2>3
  <2> QED BY <2>1, <2>4 DEF StatesFit, Fits, Last
<1>7. CASE Seed \/ Requeue \/ Converged \/ ReportBlock \/ JudgeStep \/ JudgedBlock
           \/ StartLeaks \/ LeakCheck \/ Finished
  <2>1. UNCHANGED <<cfg, computed, outs>> /\ phase' \notin {"transfer", "raised"}
    BY <1>7 DEF Seed, Requeue, Converged, ReportBlock, JudgeStep, Transfer, JudgedBlock,
       StartLeaks, LeakCheck, Finished
  <2> QED BY <1>2, <2>1 DEF StatesFit, Fits, Last
<1> QED BY <1>3, <1>4, <1>5, <1>6, <1>7 DEF AnalyzerStep

-----------------------------------------------------------------------------
(* The run. *)

(* An instruction the path takes keeps what is noted.                      *)
LEMMA EffectFits ==
  ASSUME WellFormed(cfg), NEW A \in Bindings, SymbolsNoted(cfg.syms, cfg.params, A),
         NEW i, InstrOk(cfg, i), cs \in RunState, ~ Stuck(i), StoreFits,
         NEW h1, NEW l1, NEW h2, NEW l2,
         Stands(A, cs.rid, h1), Flows(cfg.syms, A, i, h1, l1, h2, l2)
  PROVE  /\ Stands(A, Effect(i).rid, h2)
         /\ \A r \in Sym : Effect(i).store[r] # "none" =>
               r \in DOMAIN cfg.syms /\ Effect(i).store[r] = cfg.syms[r].buf
<1>1. /\ i \in Instr /\ DOMAIN cfg.syms \subseteq Sym /\ NoSym \notin Sym
      /\ i.op \in {"acquire", "move", "alias"} => i.sym \in DOMAIN cfg.syms
      /\ i.op \in {"move", "alias", "borrow_start"} => i.src \in DOMAIN cfg.syms
  BY DEF InstrOk, WellFormed, Sym, NoSym
<1>2. /\ cs.rid \in [Sym -> Sym \cup {NoSym}] /\ cs.store \in [Sym -> Backing]
      /\ h2 \subseteq h1 \cup Binds(i)
      /\ \A h \in Sym : A.obl[h] \in Sym
  BY DEF RunState, Flows, Bindings
<1>3. i.op \in {"move", "alias"} => Obl(i.src) = A.obl[i.src]
  BY <1>1 DEF Stuck, Subject, Bound, Obl, Stands
<1>4. CASE i.op \in {"acquire", "move", "alias"}
  <2>1. i.sym \in Sym /\ Binds(i) = {i.sym}
    BY <1>1, <1>4 DEF Binds
  <2>2. Effect(i).rid = [cs.rid EXCEPT ![i.sym] = A.obl[i.sym]]
    <3>1. CASE i.op = "acquire"
      BY <3>1 DEF Effect, Consumes, Own, Flows, RunState
    <3>2. CASE i.op = "move"
      BY <3>2 DEF Effect, Consumes, MoveOut, Own, Flows, RunState
    <3>3. CASE i.op = "alias"
      BY <1>3, <3>3 DEF Effect, Consumes, Flows, RunState
    <3> QED BY <1>4, <3>1, <3>2, <3>3
  <2>3. Stands(A, Effect(i).rid, h2)
    BY <1>2, <2>1, <2>2 DEF Stands
  <2>4. \/ Effect(i).store = cs.store
        \/ Effect(i).store = [cs.store EXCEPT ![i.sym] = cfg.syms[i.sym].buf]
        \/ Effect(i).store = [cs.store EXCEPT ![i.sym] = "none"]
    <3>1. CASE i.op = "acquire"
      BY <3>1 DEF Effect, Consumes, Own, RunState
    <3>2. CASE i.op = "move"
      <4>1. Effect(i).store = [cs.store EXCEPT ![i.sym] = cs.store[A.obl[i.src]]]
        BY <1>3, <3>2 DEF Effect, Consumes, MoveOut, Own, RunState
      <4>2. cs.store[A.obl[i.src]] \in {"none", cfg.syms[A.obl[i.src]].buf}
        BY <1>1, <1>2, <3>2 DEF StoreFits
      <4>3. cfg.syms[A.obl[i.src]].buf = cfg.syms[i.sym].buf
        BY <1>1, <3>2 DEF SymbolsNoted, Flows
      <4> QED BY <4>1, <4>2, <4>3
    <3>3. CASE i.op = "alias"
      BY <3>3 DEF Effect, Consumes, RunState
    <3> QED BY <1>4, <3>1, <3>2, <3>3
  <2> QED BY <1>1, <1>2, <1>4, <2>1, <2>3, <2>4 DEF StoreFits
<1>5. CASE i.op \notin {"acquire", "move", "alias"}
  <2>1. Effect(i).rid = cs.rid /\ Effect(i).store = cs.store
    BY <1>5 DEF Effect, Take, RunState
  <2>2. Binds(i) = {}
    BY <1>5 DEF Binds
  <2> QED BY <1>2, <2>1, <2>2 DEF Stands, StoreFits
<1> QED BY <1>4, <1>5

(* So the run keeps what is noted as well.                                 *)
LEMMA RunFitsStep ==
  ASSUME TypeInv, NEW A, InText(A), RunFits(A), RunnerStep
  PROVE  RunFits(A)'
<1>1. WellFormed(cfg) /\ phase # "idle" /\ cfg' = cfg
  BY DEF RunnerStep, StartRun, Execute, AtInstr, GetStuck, Jump, Leave, avars, TypeInv, Shape
<1>2. A \in Bindings /\ SymbolsNoted(cfg.syms, cfg.params, A)
  BY <1>1, TextFacts
<1>3. CASE StartRun
  <2>1. PICK held : held = {p \in cfg.params : cfg.syms[p].kind = "owned"}
    OBVIOUS
  <2>2. /\ cs'.rid = [h \in Sym |-> IF h \in held THEN h ELSE NoSym]
        /\ cs'.store = [r \in Sym |-> "none"] /\ rb' = Entry /\ rk' = 1
    BY <1>3, <2>1 DEF StartRun, NotRunning
  <2>3. A.here[Entry][1] \subseteq held /\ \A p \in held : A.obl[p] = p
    BY <1>1, <1>2, <2>1, TextFacts DEF SymbolsNoted
  <2> QED BY <2>2, <2>3 DEF RunFits, Stands, StoreFits
<1>4. CASE Execute
  <2>1. PICK i : i = Here
    OBVIOUS
  <2>2. /\ mode = "running" /\ mode' = mode /\ cs' = Effect(i) /\ rk' = rk + 1 /\ rb' = rb
        /\ ~ Stuck(i) /\ AtInstr
    BY <1>4, <2>1 DEF Execute, AtInstr
  <2>3. /\ InstrOk(cfg, i) /\ rb \in Blocks(cfg) /\ rk \in DOMAIN Instrs(rb)
        /\ i = Instrs(rb)[rk] /\ cs \in RunState
    BY <2>1, <2>2, HereFacts DEF TypeInv, TypeOK, Shape
  <2>4. PICK h1, l1, h2, l2 : /\ h1 = A.here[rb][rk] /\ h2 = A.here[rb][rk + 1]
                              /\ l1 = A.loans[rb][rk] /\ l2 = A.loans[rb][rk + 1]
    OBVIOUS
  <2>5. Flows(cfg.syms, A, i, h1, l1, h2, l2)
    BY <1>1, <2>3, <2>4, TextFacts
  <2>6. Stands(A, cs.rid, h1) /\ StoreFits
    BY <2>2, <2>4 DEF RunFits
  <2>7. /\ Stands(A, Effect(i).rid, h2)
        /\ \A r \in Sym : Effect(i).store[r] # "none" =>
              r \in DOMAIN cfg.syms /\ Effect(i).store[r] = cfg.syms[r].buf
    BY <1>1, <1>2, <2>2, <2>3, <2>5, <2>6, EffectFits
  <2> QED BY <1>1, <2>2, <2>4, <2>7 DEF RunFits, StoreFits
<1>5. CASE Jump
  <2>1. /\ mode = "running" /\ rk \notin DOMAIN Instrs(rb) /\ rb' \in Succs(cfg, rb)
        /\ rk' = 1 /\ cs' = cs
    BY <1>5 DEF Jump
  <2>2. rb \in Blocks(cfg) /\ rk = Last(rb)
    <3>1. rb \in Blocks(cfg) /\ rk \in 1 .. Len(cfg.instrs[rb]) + 1
      BY <2>1 DEF TypeInv, Shape, TypeOK
    <3>2. Len(cfg.instrs[rb]) \in Nat /\ DOMAIN Instrs(rb) = 1 .. Len(cfg.instrs[rb])
      BY <1>1, <3>1, GraphFacts DEF Instrs
    <3> QED BY <2>1, <3>1, <3>2 DEF Last
  <2>3. A.here[rb'][1] \subseteq A.here[rb][Last(rb)]
    BY <1>1, <2>1, <2>2, TextFacts
  <2> QED BY <1>1, <2>1, <2>2, <2>3 DEF RunFits, Stands, StoreFits
<1>6. CASE GetStuck \/ Leave
  BY <1>6 DEF GetStuck, Leave, RunFits
<1> QED BY <1>3, <1>4, <1>5, <1>6 DEF RunnerStep

(* A path of a function without resolver errors has bound each handle it   *)
(* acts on.                                                                *)
LEMMA NeverStuck ==
  ASSUME TypeInv, NEW A, CallNoted(A), berrs = {}, AtInstr
  PROVE  ~ Stuck(Here)
<1>1. PICK i : i = Here
  OBVIOUS
<1>2. /\ WellFormed(cfg) /\ InstrOk(cfg, i) /\ rb \in Blocks(cfg)
      /\ rk \in DOMAIN Instrs(rb) /\ i = Instrs(rb)[rk] /\ mode = "running"
  BY <1>1, HereFacts DEF TypeInv, TypeOK, Shape, AtInstr
<1>3. /\ InText(A) /\ Stands(A, cs.rid, A.here[rb][rk])
      /\ \A h \in DOMAIN cfg.syms : cfg.syms[h].kind = "owned" => h \in A.bound
  BY <1>2 DEF CallNoted, InText, RunFits, AllBound
<1>4. InPlace(cfg.syms, A, SubjectIn(cfg.syms, i), A.here[rb][rk]) /\ A \in Bindings
  BY <1>2, <1>3, TextFacts DEF Flows
<1>5. Subject(i) = SubjectIn(cfg.syms, i)
  BY DEF Subject, SubjectIn
<1>6. Subject(i) \in DOMAIN cfg.syms \cup {NoSym}
  BY <1>2 DEF Subject, InstrOk
<1>7. DOMAIN cfg.syms \subseteq Sym /\ NoSym \notin Sym
  BY <1>2 DEF WellFormed, Sym, NoSym
<1>8. ASSUME Subject(i) # NoSym PROVE Bound(Subject(i))
  <2>1. PICK h : h = Subject(i)
    OBVIOUS
  <2>2. h \in DOMAIN cfg.syms /\ h \in Sym /\ h \in A.here[rb][rk]
    BY <1>3, <1>4, <1>5, <1>6, <1>7, <1>8, <2>1 DEF InPlace
  <2>3. cs.rid[h] = A.obl[h] /\ A.obl[h] \in Sym
    BY <1>3, <1>4, <2>2 DEF Stands, Bindings
  <2> QED BY <1>7, <2>1, <2>3 DEF Bound, Obl
<1> QED BY <1>1, <1>8 DEF Stuck

(* A stack buffer that is still held is refused where it would leave the   *)
(* function: the handle it is under has the storage of the obligation.     *)
LEMMA OutlivesReported ==
  ASSUME IndInv, AtInstr, ~ Stuck(Here), NEW A, InText(A), RunFits(A),
         Outlives(Here), ~ GoneFault(Here)
  PROVE  \E d \in DOMAIN diags :
            d.blk = rb /\ d.k = rk /\ d.code \in {"OWN007", "OWN015", "OWN016"}
<1>1. PICK i, h, r, s : /\ i = Here /\ h = Subject(i) /\ r = Obl(h)
                        /\ s = at[rb][rk]
  OBVIOUS
<1>2. /\ WellFormed(cfg) /\ InstrOk(cfg, i) /\ rb \in reach /\ s \in State
      /\ rk \in DOMAIN Instrs(rb) /\ i = Instrs(rb)[rk] /\ cs \in RunState
      /\ phase = "done" /\ mode = "running"
  BY <1>1, HereFacts DEF IndInv, AtInstr
<1>3. /\ h # NoSym /\ r # NoSym /\ Touches(i) /\ cs.var[r] \notin Gone
      /\ cs.store[r] = "stack"
      /\ (i.op = "return" /\ h = i.sym) \/ (Consumes(cfg, i) /\ h = i.sym)
  BY <1>1 DEF Outlives, GoneFault, Stuck, Bound, Touches, Takes, Consumes, Subject
<1>4. h \in DOMAIN cfg.syms /\ h \in Sym /\ r \in Sym
  <2>1. h \in DOMAIN cfg.syms
    BY <1>2, <1>3 DEF InstrOk, Consumes
  <2>2. h \in Sym
    BY <1>2, <2>1 DEF WellFormed
  <2> QED BY <1>1, <1>2, <1>3, <2>1, <2>2 DEF RunState, Obl
<1>5. cfg.syms[h].buf = "stack"
  <2>1. Stands(A, cs.rid, A.here[rb][rk]) /\ StoreFits
    BY <1>2 DEF RunFits
  <2>2. r = A.obl[h]
    BY <1>1, <1>3, <1>4, <2>1 DEF Stands, Obl
  <2>3. cfg.syms[r].buf = "stack"
    BY <1>3, <1>4, <2>1 DEF StoreFits
  <2>4. cfg.syms[A.obl[h]].buf = cfg.syms[h].buf
    BY <1>2, <1>4, TextFacts DEF SymbolsNoted
  <2> QED BY <2>2, <2>3, <2>4
<1>6. Held(s, h) = s.var[r] /\ "OWNED" \in Held(s, h)
  <2>1. Covers(s, cs)
    BY <1>1, <1>2 DEF IndInv, RunInv, StateCovered
  <2>2. s.rid[h] = r
    BY <1>1, <1>3, <1>4, <2>1 DEF Covers, Obl
  <2>3. cs.var[r] # "NONE"
    BY <1>1, <1>3, <1>4 DEF IndInv, RunInv, HandlesInv, Bound
  <2>4. cs.var[r] = "OWNED"
    BY <1>2, <1>3, <1>4, <2>3 DEF RunState, VarState, Gone
  <2>5. "OWNED" \in s.var[r]
    BY <1>4, <2>1, <2>4 DEF Covers
  <2> QED BY <1>3, <2>2, <2>5 DEF Held, RidOf
<1>7. \E p \in Problems(cfg, i, s) : p.code \in {"OWN007", "OWN015", "OWN016"}
  <2>1. CASE i.op = "return" /\ h = i.sym
    <3>1. ReturnProblems(cfg, s, h) \subseteq Problems(cfg, i, s)
      BY <1>3, <2>1 DEF Problems
    <3>2. \E p \in ReturnProblems(cfg, s, h) : p.code \in {"OWN007", "OWN015", "OWN016"}
      <4>1. CASE Borrowed(s, h)
        <5>1. ReturnProblems(cfg, s, h) = {Problem("OWN007", FALSE, h)}
          BY <1>6, <4>1 DEF ReturnProblems, When
        <5> QED BY <5>1 DEF Problem
      <4>2. CASE ~ Borrowed(s, h)
        <5>1. Problem("OWN015", FALSE, h) \in ReturnProblems(cfg, s, h)
          BY <1>5, <1>6, <4>2 DEF ReturnProblems, When
        <5> QED BY <5>1 DEF Problem
      <4> QED BY <4>1, <4>2
    <3> QED BY <3>1, <3>2
  <2>2. CASE Consumes(cfg, i) /\ h = i.sym
    <3>1. Problems(cfg, i, s) = OwnedArg(cfg, i, s)
      BY <2>2 DEF Problems, ArgProblems, Consumes
    <3>2. Problem("OWN016", FALSE, h) \in OwnedArg(cfg, i, s)
      BY <1>5, <2>2 DEF OwnedArg, When, Consumes
    <3> QED BY <3>1, <3>2 DEF Problem
  <2> QED BY <1>3, <2>1, <2>2
<1>8. Reported(Problems(cfg, i, s), rb, rk, i.line) \subseteq DOMAIN diags
  BY <1>1, <1>2 DEF IndInv, VerdictInv, JudgedInv, Judged
<1> QED BY <1>7, <1>8, ReportedMember

(* The analyzer and the run only add to what is reported.                  *)
LEMMA DiagsGrow == [AnyNext]_vars => DOMAIN diags \subseteq DOMAIN diags'
<1> SUFFICES ASSUME [AnyNext]_vars PROVE DOMAIN diags \subseteq DOMAIN diags'
  OBVIOUS
<1>1. CASE AnalyzerStep
  BY <1>1, ErrGrows
     DEF AnalyzerStep, Seed, Pop, Raise, SilentStep, Transfer, Store, Requeue,
         Converged, ReportBlock, JudgeStep, JudgedBlock, StartLeaks, LeakCheck, Finished
<1>2. CASE AnyCall \/ RunnerStep \/ UNCHANGED vars
  BY <1>2 DEF AnyCall, Begin, RunnerStep, StartRun, Execute, GetStuck, Jump, Leave,
     vars, avars
<1> QED BY <1>1, <1>2 DEF AnyNext

LEMMA StackStep ==
  ASSUME IndInv, StackStaysHome, [AnyNext]_vars, phase # "idle" => \E A : CallNoted(A)
  PROVE  StackStaysHome'
<1>1. DOMAIN diags \subseteq DOMAIN diags'
  BY DiagsGrow
<1>2. CASE Execute
  <2>1. /\ AtInstr /\ ~ Stuck(Here) /\ diags' = diags
        /\ \A f \in faults' : f \in faults \/
              \E x \in FaultKinds(Here) :
                 f = [kind |-> x, sym |-> Subject(Here), blk |-> rb, k |-> rk]
    BY <1>2 DEF Execute, avars
  <2>2. PICK A : InText(A) /\ RunFits(A)
    BY <2>1, HereFacts DEF IndInv, CallNoted, InText
  <2>3. "outlives" \in FaultKinds(Here) =>
           \E d \in DOMAIN diags :
              d.blk = rb /\ d.k = rk /\ d.code \in {"OWN007", "OWN015", "OWN016"}
    BY <2>1, <2>2, OutlivesReported DEF FaultKinds
  <2> QED BY <2>1, <2>3 DEF StackStaysHome
<1>3. CASE AnyCall \/ (AnalyzerStep /\ UNCHANGED rvars) \/ UNCHANGED vars
           \/ StartRun \/ GetStuck \/ Jump \/ Leave
  <2>1. faults' = faults
    BY <1>3 DEF AnyCall, StartRun, GetStuck, Jump, Leave, vars, rvars
  <2> QED BY <1>1, <2>1 DEF StackStaysHome
<1> QED BY <1>2, <1>3 DEF AnyNext, RunnerStep

-----------------------------------------------------------------------------
(* The checker. *)

(* What is noted outlives a step that leaves the builder's or the          *)
(* analyzer's variables alone.                                             *)
LEMMA NotesUnchanged ==
  ASSUME NEW A, UNCHANGED <<bvars, avars>>
  PROVE  /\ BuilderNoted(A) => BuilderNoted(A)'
         /\ StatesFit(A) => StatesFit(A)'
         /\ (Noted(CodeOf(cfg), cfg.syms, cfg.params, A) /\ AllBound(cfg.syms, A))
               => (Noted(CodeOf(cfg), cfg.syms, cfg.params, A) /\ AllBound(cfg.syms, A))'
<1>1. BuilderNoted(A) => BuilderNoted(A)'
  BY DEF bvars, BuilderNoted, CurNoted, FrameNoted, AllBound
<1>2. StatesFit(A) => StatesFit(A)'
  BY DEF avars, StatesFit, Fits, Last
<1>3. cfg' = cfg /\ berrs' = berrs
  BY DEF avars, bvars
<1> QED BY <1>1, <1>2, <1>3 DEF AllBound

LEMMA OrderUnchanged ==
  ASSUME UNCHANGED avars
  PROVE  (InOrder => InOrder') /\ (NeverRaises => NeverRaises')
BY DEF avars, InOrder, InFlight, NeverRaises

LEMMA BuilderIdle ==
  ASSUME BuilderStep PROVE phase = "idle"
BY DEF BuilderStep, LetAcquire, LetBuffer, LetMove, AliasOf, LetCopy, LetInt,
   ReleaseStmt, UseStmt, OverspanStmt, CallStmt, OnOwned, Derived, Statement,
   OpenBorrow, OpenIf, OpenWhile, ReturnStmt, CloseBorrow, StartElse, CloseIf,
   CloseWhile, Closing

LEMMA BuilderBinds ==
  ASSUME CheckerInv, BindingInv, BuilderStep, UNCHANGED vars PROVE BindingInv'
<1>1. phase = "idle" /\ mode = "waiting"
  <2>1. phase = "idle"
    BY BuilderIdle
  <2> QED BY <2>1 DEF CheckerInv, IndInv, TypeInv, Shape
<1>2. UNCHANGED <<phase, work, computed, reach, blk, mode, faults, diags>>
  BY DEF vars, avars, rvars
<1>3. \E A2 : BuilderNoted(A2)'
  <2>1. PICK A : BuilderNoted(A)
    BY <1>1 DEF BindingInv
  <2> QED BY <1>1, <2>1, BuilderNotedStep DEF CheckerInv, BuilderInv
<1>4. InOrder' /\ NeverRaises' /\ StackStaysHome'
  BY <1>2 DEF BindingInv, InOrder, InFlight, NeverRaises, StackStaysHome
<1> QED BY <1>1, <1>2, <1>3, <1>4 DEF BindingInv, BoundBeforeUse

LEMMA AnalyzeBinds ==
  ASSUME CheckerInv, BindingInv, Analyze PROVE BindingInv'
<1>1. /\ phase = "idle" /\ phase' = "seed" /\ cfg' = BuiltCfg /\ blk' = Entry
      /\ UNCHANGED <<work, computed, mode, cs, rb, rk, faults, diags>>
      /\ berrs' = berrs \cup EndErrors
  BY DEF Analyze, Begin, Complete, rvars
<1>2. mode = "waiting" /\ computed = {} /\ work = <<>>
  BY <1>1 DEF CheckerInv, IndInv, TypeInv, Shape, FixInv, SeededInv, BindingInv, InOrder
<1>3. PICK A : BuilderNoted(A)
  BY <1>1 DEF BindingInv
<1>4. PICK c : c = BuiltCfg
  OBVIOUS
<1>5. Noted(CodeOf(c), c.syms, c.params, A) /\ AllBound(c.syms, A) /\ cfg' = c
  BY <1>1, <1>3, <1>4, GraphNoted DEF CheckerInv, BuilderInv
<1>6. CallNoted(A)'
  <2>1. StatesFit(A)' /\ RunFits(A)'
    BY <1>1, <1>2 DEF StatesFit, RunFits
  <2>2. AllBound(cfg.syms, A)'
    BY <1>1, <1>5 DEF AllBound
  <2> QED BY <1>5, <2>1, <2>2 DEF CallNoted
<1>7. InOrder' /\ NeverRaises' /\ BoundBeforeUse' /\ StackStaysHome'
  BY <1>1, <1>2 DEF InOrder, InFlight, NeverRaises, BoundBeforeUse, StackStaysHome,
     BindingInv
<1> QED BY <1>1, <1>6, <1>7 DEF BindingInv

LEMMA AnalyzerBinds ==
  ASSUME CheckerInv, BindingInv, AnalyzerTurn PROVE BindingInv'
<1>1. /\ AnalyzerStep /\ phase # "idle" /\ cfg' = cfg
      /\ UNCHANGED <<berrs, mode, cs, rb, rk, rvars>>
  BY DEF AnalyzerTurn, AnalyzerStep, Seed, Pop, Raise, SilentStep, Transfer, Store,
     Requeue, Converged, ReportBlock, JudgeStep, JudgedBlock, StartLeaks, LeakCheck,
     Finished, bvars, rvars
<1>2. TypeInv /\ FixInv /\ IndInv /\ SoundGraph(cfg, reach) /\ InOrder
  BY <1>1 DEF CheckerInv, IndInv, BindingInv
<1>3. PICK A : CallNoted(A)
  BY <1>1 DEF BindingInv
<1>4. StatesFit(A)' /\ phase' # "raised"
  BY <1>1, <1>2, <1>3, AnalyzerFits DEF CallNoted, InText
<1>5. CallNoted(A)' /\ BoundBeforeUse'
  BY <1>1, <1>3, <1>4 DEF CallNoted, AllBound, RunFits, StoreFits, BoundBeforeUse, BindingInv
<1>6. InOrder' /\ phase' # "idle"
  <2>1. InOrder'
    BY <1>1, <1>2, OrderStep
  <2>2. phase' # "idle"
    BY <1>1 DEF AnalyzerStep, Seed, Pop, Raise, SilentStep, Transfer, Store,
       Requeue, Converged, ReportBlock, JudgeStep, JudgedBlock, StartLeaks, LeakCheck,
       Finished
  <2> QED BY <2>1, <2>2
<1>7. StackStaysHome'
  BY <1>1, <1>2, StackStep DEF BindingInv, AnyNext
<1> QED BY <1>4, <1>5, <1>6, <1>7 DEF BindingInv, NeverRaises

LEMMA RunnerBinds ==
  ASSUME CheckerInv, BindingInv, RunnerStep, UNCHANGED bvars PROVE BindingInv'
<1>1. phase # "idle" /\ UNCHANGED avars /\ UNCHANGED <<phase, berrs, cfg>>
  BY DEF RunnerStep, StartRun, Execute, AtInstr, GetStuck, Jump, Leave, avars, bvars,
     CheckerInv, IndInv, TypeInv, Shape
<1>2. TypeInv /\ IndInv
  BY DEF CheckerInv, IndInv
<1>3. PICK A : CallNoted(A)
  BY <1>1 DEF BindingInv
<1>4. CallNoted(A)'
  <2>1. RunFits(A)'
    BY <1>2, <1>3, RunFitsStep DEF CallNoted, InText
  <2> QED BY <1>1, <1>3, <2>1, NotesUnchanged DEF CallNoted
<1>5. BoundBeforeUse'
  <2>1. CASE GetStuck
    BY <1>1, <1>2, <1>3, <2>1, NeverStuck DEF GetStuck, BoundBeforeUse
  <2>2. CASE StartRun \/ Execute \/ Jump \/ Leave
    BY <1>1, <2>2 DEF StartRun, Execute, Jump, Leave, BoundBeforeUse, BindingInv
  <2> QED BY <2>1, <2>2 DEF RunnerStep
<1>6. StackStaysHome'
  BY <1>2, StackStep DEF BindingInv, AnyNext
<1>7. InOrder' /\ NeverRaises'
  BY <1>1, OrderUnchanged DEF BindingInv
<1> QED BY <1>1, <1>4, <1>5, <1>6, <1>7 DEF BindingInv

LEMMA BindingStep ==
  ASSUME CheckerInv, BindingInv, [CheckerNext]_allvars PROVE BindingInv'
<1>1. CASE UNCHANGED allvars
  <2>1. UNCHANGED <<bvars, avars, rvars>> /\ UNCHANGED <<phase, berrs, mode, cs, rb, rk,
                     faults, diags, cfg>>
    BY <1>1 DEF allvars, vars, avars, rvars, bvars
  <2>2. ASSUME NEW A, CallNoted(A) PROVE CallNoted(A)'
    BY <2>1, <2>2, NotesUnchanged DEF CallNoted, RunFits, StoreFits
  <2>3. phase' = "idle" => \E A : BuilderNoted(A)'
    BY <2>1, NotesUnchanged DEF BindingInv
  <2>4. phase' # "idle" => \E A : CallNoted(A)'
    BY <2>1, <2>2 DEF BindingInv
  <2>5. InOrder' /\ NeverRaises' /\ BoundBeforeUse' /\ StackStaysHome'
    BY <2>1, OrderUnchanged DEF BindingInv, BoundBeforeUse, StackStaysHome
  <2> QED BY <2>3, <2>4, <2>5 DEF BindingInv
<1> QED BY <1>1, BuilderBinds, AnalyzeBinds, AnalyzerBinds, RunnerBinds DEF CheckerNext

LEMMA InitBinding == CheckerInit => BindingInv
<1> SUFFICES ASSUME CheckerInit PROVE BindingInv
  OBVIOUS
<1>1. \E A : BuilderNoted(A)
  BY InitNoted DEF CheckerInit
<1> QED BY <1>1 DEF CheckerInit, AnalysisInit, RunInit, BindingInv, InOrder, InFlight,
   NeverRaises, BoundBeforeUse, StackStaysHome

(* What is known of the handles of a function from its text is true of     *)
(* every state of the analyzer and of the run (`_join_handle_rid`,         *)
(* `join`, `Scope`).                                                       *)
THEOREM BindingInvariant == CheckerSpec => []BindingInv
<1>1. CheckerInit => BindingInv
  BY InitBinding
<1>2. CheckerInv /\ BindingInv /\ [CheckerNext]_allvars => BindingInv'
  BY BindingStep
<1> QED BY <1>1, <1>2, CheckerInvariant, PTL DEF CheckerSpec

(* The assertions of `join` and `_join_handle_rid` are never raised: the   *)
(* paths that meet know a handle under one obligation and have the same    *)
(* loans open.                                                             *)
THEOREM MergesAgree == CheckerSpec => []NeverRaises
<1>1. BindingInv => NeverRaises
  BY DEF BindingInv
<1> QED BY <1>1, BindingInvariant, PTL

(* In a function the resolver has no errors for, a path has bound each     *)
(* handle by the time it uses it (`var.get(rid, {OWNED})`).                *)
THEOREM HandlesAreBound == CheckerSpec => []BoundBeforeUse
<1>1. BindingInv => BoundBeforeUse
  BY DEF BindingInv
<1> QED BY <1>1, BindingInvariant, PTL

(* A stack buffer that would leave its function is refused, under whatever *)
(* name it has by then (OWN007, OWN015, OWN016).                           *)
THEOREM StackBuffersStay == CheckerSpec => []StackStaysHome
<1>1. BindingInv => StackStaysHome
  BY DEF BindingInv
<1> QED BY <1>1, BindingInvariant, PTL
=============================================================================
