------------------------ MODULE OwnBuilderInvariants ------------------------
(***************************************************************************)
(* The inductive invariant of the CFG builder, as conjunctions of named    *)
(* parts: what is true of the scopes, of the open statements and of the    *)
(* blocks between two statements of any function.  It is what makes the    *)
(* graph that build() returns one the analyzer can work on.                *)
(***************************************************************************)
EXTENDS OwnChecker, OwnInvariants

Scope == UNION {[D -> Sym] : D \in SUBSET Mentionable}

BlockType == [instrs : Seq(Instr), succ : Seq(Nat)]

Frame == [kind : {"borrow"}, end : Instr]
         \cup [kind : {"then"}, els : Nat]
         \cup [kind : {"else"}, then : Nat]
         \cup [kind : {"while"}, header : Nat, after : Nat]

(* Names resolve to symbols that exist.                                    *)
SymbolsOk ==
  /\ header \in Headers
  /\ stmts \in Nat
  /\ syms \in Seq(SymInfo)
  /\ DOMAIN syms \subseteq Sym
  /\ DOMAIN header.params \subseteq DOMAIN syms
  /\ scopes \in Seq(Scope)
  /\ Len(scopes) = Len(frames) + 1
  /\ \A j \in DOMAIN scopes : \A n \in DOMAIN scopes[j] :
        scopes[j][n] \in DOMAIN syms

(* The block that the rest of an open statement will go on from.           *)
OpenBlock(f) ==
  CASE f.kind = "then"  -> f.els
    [] f.kind = "else"  -> f.then
    [] f.kind = "while" -> f.after
    [] OTHER            -> NoBlock

FrameBlocks(fs) == {OpenBlock(fs[j]) : j \in DOMAIN fs} \ {NoBlock}

Open == ({cur} \ {NoBlock}) \cup FrameBlocks(frames)

FrameOk(f) ==
  /\ f.kind = "borrow" => InstrOk([syms |-> syms], f.end)
  /\ f.kind = "then" => f.els # NoBlock
  /\ f.kind = "while" => /\ f.header \in DOMAIN blocks \ {Entry}
                         /\ f.after # NoBlock

(* Each open statement has a block of its own to go on from.               *)
Apart(fs, c) ==
  /\ c \notin FrameBlocks(fs)
  /\ \A j, l \in DOMAIN fs :
        (OpenBlock(fs[j]) # NoBlock /\ OpenBlock(fs[l]) = OpenBlock(fs[j])) => l = j

FramesOk ==
  /\ frames \in Seq(Frame)
  /\ \A j \in DOMAIN frames : FrameOk(frames[j])
  /\ Apart(frames, cur)

Targets(bs, b) == {bs[b].succ[j] : j \in DOMAIN bs[b].succ}

Returns(block) ==
  LET n == Len(block.instrs) IN n > 0 /\ block.instrs[n].op = "return"

(* Every jump is to a block that exists and not to the entry block; every  *)
(* other block is jumped to from one with a smaller number; a block goes   *)
(* nowhere only if it is open or ends with a return.                       *)
GraphOk(bs, c, open) ==
  /\ bs \in Seq(BlockType) /\ bs # <<>>
  /\ \A b \in DOMAIN bs : \A j \in DOMAIN bs[b].instrs :
        InstrOk(c, bs[b].instrs[j])
  /\ \A b \in DOMAIN bs : Targets(bs, b) \subseteq DOMAIN bs \ {Entry}
  /\ \A b \in DOMAIN bs \ {Entry} :
        \E p \in DOMAIN bs : p < b /\ b \in Targets(bs, p)
  /\ open \subseteq DOMAIN bs
  /\ \A b \in open : bs[b].succ = <<>>
  /\ \A b \in DOMAIN bs \ open : bs[b].succ = <<>> => Returns(bs[b])

Built == SymbolsOk /\ FramesOk /\ GraphOk(blocks, [syms |-> syms], Open)

BuilderInv == phase = "idle" => Built

(* The graph the analyzer works on, while it does.                         *)
SoundGraph(c, R) ==
  /\ WellFormed(c)
  /\ R = Blocks(c)
  /\ \A b \in Blocks(c) \ {Entry} : \E p \in Preds(c, b) : p < b
  /\ Cardinality({b \in Blocks(c) : FallsOffEnd(c, b)}) <= 1

CheckerInv ==
  /\ BuilderInv
  /\ IndInv
  /\ phase # "idle" => SoundGraph(cfg, reach)
=============================================================================
