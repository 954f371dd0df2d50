--------------------------- MODULE ReferenceLanes ---------------------------
(***************************************************************************)
(* The reference side of the lane programs (legacy_cxdec.rs): the          *)
(* generator with the dispatch of the first CxDec modules built in, the    *)
(* 32-bit code a game's own builder emits, the parser that turns such code *)
(* back into micro operations, their interpreter, and the recovery of the  *)
(* dispatch orders from captured code.  An instruction is [i, k]: what it  *)
(* does and its operand.                                                   *)
(***************************************************************************)
EXTENDS ContentProgram

CONSTANTS TableAt  \* address of the control table in the emitted code

(* The dispatch of the historical builder, as Generator has it.            *)
Fixed0 == <<"dec", "inc", "interlace", "table", "not", "neg", "xor", "signed">>
Fixed0Bytes == <<1, 1, 21, 13, 2, 2, 0, 0>>
Fixed1 == <<"add", "mul", "shl", "shr", "sub", "rsub">>
Fixed1Bytes == <<2, 3, 9, 9, 2, 4>>
FixedOrder == <<2, 1, 0>> \o <<1, 3, 5, 4, 0, 2, 6, 7>> \o <<2, 4, 1, 0, 5, 3>>

FirstAs(d) ==
  CASE V(d) % 3 = 1 -> Give(ReserveBytes(d, 2), Leaf("seed", 0))
    [] V(d) % 3 = 2 -> Imm(WithOperand(d))
    [] OTHER -> CellLeaf(Draw(ReserveBytes(d, 7)))
FirstStage(g) == FirstAs(Draw(g))

Fixed0As(d, sign, i) ==
  CASE Fixed0[i] = "xor" -> XorNode(WithOperand(d), d.tree)
    [] Fixed0[i] = "signed" -> SignedNode(WithOperand(sign), Odd(sign), d.tree)
    [] OTHER -> Give(ReserveBytes(d, Fixed0Bytes[i]), Node(Fixed0[i], 0, <<d.tree>>))
Fixed0By(d) == IF d.ok THEN Fixed0As(d, Draw(d), (V(d) % 8) + 1) ELSE d

Fixed1As(d, i, first) ==
  Give(ReserveBytes(ReserveBytes(d, Fixed1Bytes[i]), 1), Node(Fixed1[i], 0, <<first, d.tree>>))
Fixed1By(d, first) == IF d.ok THEN Fixed1As(d, (V(d) % 6) + 1, first) ELSE d

RECURSIVE FixedStage(_, _, _)
FixedChild(g, n) == IF g.ok THEN FixedStage(Draw(g), n, Odd(Draw(g))) ELSE g
FixedSecond(g, n) == Fixed1By(Draw(FixedChild(ReserveBytes(g, 2), n)), g.tree)
FixedStage(g, n, binary) ==
  CASE n = 1 -> FirstStage(g)
    [] n > 1 /\ ~binary -> Fixed0By(Draw(FixedChild(g, n - 1)))
    [] n > 1 /\ binary -> FixedSecond(FixedChild(ReserveBytes(g, 1), n - 1), n - 1)

FixedLane(lane) ==
  LET try(g, n) == IF g.ok THEN g ELSE ReserveBytes(FixedStage(Attempt(g.rng), n, TRUE), Epilogue)
  IN FoldLeft(try, Unbuilt(Rng(lane, <<"classic">>)), Attempts)

----------------------------------------------------------------------------
(* Emitted code *)

I(i, k) == [i |-> i, k |-> k]
Plain(names) == [n \in DOMAIN names |-> I(names[n], 0)]

Shift(name) == <<I("push ecx", 0), I("mov ecx,ebx", 0), I("and ecx", 15), I(name, 0), I("pop ecx", 0)>>
BinaryCode(op) ==
  CASE op = "shr" -> Shift("shr eax,cl")
    [] op = "shl" -> Shift("shl eax,cl")
    [] op = "add" -> Plain(<<"add eax,ebx">>)
    [] op = "rsub" -> Plain(<<"sub ebx,eax", "mov eax,ebx">>)
    [] op = "mul" -> Plain(<<"imul eax,ebx">>)
    [] op = "sub" -> Plain(<<"sub eax,ebx">>)

SwapBits ==
  Plain(<<"push ebx", "mov ebx,eax">>) \o <<I("and ebx", OddBits), I("and eax", EvenBits)>>
    \o Plain(<<"shr ebx,1", "shl eax,1", "or eax,ebx", "pop ebx">>)
UnaryCode(op, k) ==
  CASE op = "not" -> Plain(<<"not eax">>)
    [] op = "dec" -> Plain(<<"dec eax">>)
    [] op = "neg" -> Plain(<<"neg eax">>)
    [] op = "inc" -> Plain(<<"inc eax">>)
    [] op = "table" -> <<I("mov esi", TableAt), I("and eax", TableSize - 1), I("mov eax,[esi+eax*4]", 0)>>
    [] op = "interlace" -> SwapBits
    [] op = "xor" -> <<I("xor eax", k)>>
    [] op = "plus" -> <<I("add eax,imm", k)>>
    [] op = "minus" -> <<I("sub eax,imm", k)>>

LeafCode(t) ==
  CASE t.op = "imm" -> <<I("mov eax,imm", t.k)>>
    [] t.op = "seed" -> Plain(<<"mov eax,edi">>)
    [] t.op = "cell" -> <<I("mov esi", TableAt), I("mov eax,[esi+d]", 4 * t.k)>>

RECURSIVE Emit(_)
Emit(t) ==
  CASE t.kids = <<>> -> LeafCode(t)
    [] Len(t.kids) = 1 -> Emit(t.kids[1]) \o UnaryCode(t.op, t.k)
    [] Len(t.kids) = 2 -> Plain(<<"push ebx">>) \o Emit(t.kids[1]) \o Plain(<<"mov ebx,eax">>)
                            \o Emit(t.kids[2]) \o BinaryCode(t.op) \o Plain(<<"pop ebx">>)

Bytes(x) ==
  CASE x.i \in {"push ebx", "pop ebx", "push ecx", "pop ecx", "inc eax", "dec eax"} -> 1
    [] x.i \in {"imul eax,ebx", "and ecx", "mov eax,[esi+eax*4]"} -> 3
    [] x.i \in {"mov eax,imm", "mov esi", "and eax", "xor eax", "add eax,imm", "sub eax,imm"} -> 5
    [] x.i \in {"mov eax,[esi+d]", "and ebx"} -> 6
    [] OTHER -> 2
Size(code) == FoldLeft(LAMBDA n, x : n + Bytes(x), 0, code)

----------------------------------------------------------------------------
(* parse_generated_lane and eval_generated *)

(* The parser knows every instruction but the two of the reversed          *)
(* subtraction.                                                            *)
Foreign == {"sub ebx,eax", "mov eax,ebx"}
Is(code, names) == SelectSeq(code, LAMBDA x : x.i \in names)
Depths(code) ==
  LET step(d, x) == Append(d, Last(d) + (CASE x.i \in {"push ebx", "push ecx"} -> 1
                                           [] x.i \in {"pop ebx", "pop ecx"} -> -1
                                           [] OTHER -> 0))
  IN FoldLeft(step, <<0>>, code)
Parses(code, table) ==
  /\ code # <<>> /\ Is(code, Foreign) = <<>>
  /\ \A x \in ToSet(Is(code, {"mov esi"})) : x.k = table
  /\ \A x \in ToSet(Is(code, {"mov eax,[esi+d]"})) : x.k % 4 = 0 /\ x.k \div 4 < TableSize
  /\ Last(Depths(code)) = 0 /\ \A d \in ToSet(Depths(code)) : d >= 0

Pop(s) == IF s = <<>> THEN <<>> ELSE Front(s)
Top(s) == IF s = <<>> THEN 0 ELSE Last(s)

Micro(m, x) ==
  CASE x.i = "mov eax,edi" -> [m EXCEPT !.eax = m.edi]
    [] x.i = "mov eax,imm" -> [m EXCEPT !.eax = x.k]
    [] x.i = "mov esi" -> m
    [] x.i = "mov eax,[esi+d]" -> [m EXCEPT !.eax = Control(x.k \div 4)]
    [] x.i = "mov eax,[esi+eax*4]" -> [m EXCEPT !.eax = TableWord(@)]
    [] x.i = "not eax" -> [m EXCEPT !.eax = Inverted(@)]
    [] x.i = "neg eax" -> [m EXCEPT !.eax = Wrap(-@)]
    [] x.i = "inc eax" -> [m EXCEPT !.eax = Wrap(@ + 1)]
    [] x.i = "dec eax" -> [m EXCEPT !.eax = Wrap(@ - 1)]
    [] x.i = "push ebx" -> [m EXCEPT !.stack = Append(@, m.ebx)]
    [] x.i = "push ecx" -> [m EXCEPT !.stack = Append(@, m.ecx)]
    [] x.i = "pop ebx" -> [m EXCEPT !.ebx = Top(m.stack), !.stack = Pop(@)]
    [] x.i = "pop ecx" -> [m EXCEPT !.ecx = Top(m.stack), !.stack = Pop(@)]
    [] x.i = "mov ebx,eax" -> [m EXCEPT !.ebx = m.eax]
    [] x.i = "mov ecx,ebx" -> [m EXCEPT !.ecx = m.ebx]
    [] x.i = "and ebx" -> [m EXCEPT !.ebx = @ & x.k]
    [] x.i = "and eax" -> [m EXCEPT !.eax = @ & x.k]
    [] x.i = "and ecx" -> [m EXCEPT !.ecx = @ & x.k]
    [] x.i = "shr ebx,1" -> [m EXCEPT !.ebx = Right(@, 1)]
    [] x.i = "shl eax,1" -> [m EXCEPT !.eax = Left(@, 1)]
    [] x.i = "or eax,ebx" -> [m EXCEPT !.eax = @ | m.ebx]
    [] x.i = "xor eax" -> [m EXCEPT !.eax = @ ^^ x.k]
    [] x.i = "add eax,imm" -> [m EXCEPT !.eax = Wrap(@ + x.k)]
    [] x.i = "sub eax,imm" -> [m EXCEPT !.eax = Wrap(@ - x.k)]
    [] x.i = "add eax,ebx" -> [m EXCEPT !.eax = Wrap(@ + m.ebx)]
    [] x.i = "sub eax,ebx" -> [m EXCEPT !.eax = Wrap(@ - m.ebx)]
    [] x.i = "imul eax,ebx" -> [m EXCEPT !.eax = Times(@, m.ebx)]
    [] x.i = "shl eax,cl" -> [m EXCEPT !.eax = Left(@, m.ecx % 32)]
    [] x.i = "shr eax,cl" -> [m EXCEPT !.eax = Right(@, m.ecx % 32)]

EvalGenerated(code, seed) ==
  FoldLeft(Micro, [eax |-> 0, ebx |-> 0, ecx |-> 0, edi |-> seed, stack |-> <<>>], code).eax

----------------------------------------------------------------------------
(* Recovery of the dispatch orders: recover_classic_dispatch_orders *)

NoProlog == [sem |-> 99, len |-> 0]
InstrAt(code, n) == IF n \in DOMAIN code THEN code[n].i ELSE ""

(* What the code from n on loads first, and in how many instructions.      *)
ParsePrologAt(code, n) ==
  CASE InstrAt(code, n) = "mov eax,imm" -> [sem |-> 0, len |-> 1]
    [] InstrAt(code, n) = "mov eax,edi" -> [sem |-> 1, len |-> 1]
    [] InstrAt(code, n) = "mov esi" /\ InstrAt(code, n + 1) = "mov eax,[esi+d]" -> [sem |-> 2, len |-> 2]
    [] OTHER -> NoProlog

Names(code) == [n \in DOMAIN code |-> code[n].i]
NoSemantic == 99
BinarySemantic(code) ==
  LET hits == {s \in 0..5 : code = BinaryCode(BinaryOps[s + 1]) \o Plain(<<"pop ebx">>)}
  IN IF hits = {} THEN NoSemantic ELSE CHOOSE s \in hits : TRUE
UnarySemantic(code) ==
  CASE \E s \in {0, 1, 2, 3, 5} : code = UnaryCode(UnaryOps[s + 1], 0) ->
         CHOOSE s \in {0, 1, 2, 3, 5} : code = UnaryCode(UnaryOps[s + 1], 0)
    [] Names(code) = Names(UnaryCode("table", 0)) /\ code[2].k = TableSize - 1 -> 4
    [] Names(code) = <<"xor eax">> -> 6
    [] Names(code) \in {<<"add eax,imm">>, <<"sub eax,imm">>} -> 7
    [] OTHER -> NoSemantic

(* The stream a sample was built from is replayed; an operand takes a      *)
(* number of it.                                                           *)
Stream(seed) == Rng(seed, <<"classic">>)

(* Bug: the operand of a prolog is not taken from the stream.              *)
SkipOperandNot(rng, sem) == rng

SkipOperand(rng, sem) == IF sem \in {0, 2} THEN NextClassic(rng) ELSE rng

(* A sample says which slot of a table holds which operation; a code that  *)
(* is not of the grammar makes it useless.                                 *)
OddSample(s) ==
  LET first == ParsePrologAt(s.code, 2)
      at == 2 + first.len
      second == ParsePrologAt(s.code, at + 1)
      op == BinarySemantic(SubSeq(s.code, at + 1 + second.len, Len(s.code)))
      a == NextClassic(NextClassic(Stream(s.seed)))
      b == NextClassic(NextClassic(SkipOperand(a, first.sem)))
      c == NextClassic(SkipOperand(b, second.sem))
  IN [ok |-> first # NoProlog /\ InstrAt(s.code, at) = "mov ebx,eax" /\ second # NoProlog /\ op # NoSemantic,
      prolog |-> {<<a.value % 3, first.sem>>, <<b.value % 3, second.sem>>}, branch |-> {<<c.value % 6, op>>}]

EvenSample(s) ==
  LET first == ParsePrologAt(s.code, 1)
      op == UnarySemantic(SubSeq(s.code, first.len + 1, Len(s.code)))
      a == NextClassic(NextClassic(Stream(s.seed)))
      c == NextClassic(SkipOperand(a, first.sem))
  IN [ok |-> first # NoProlog /\ op # NoSemantic, prolog |-> {<<a.value % 3, first.sem>>}, branch |-> {<<c.value % 8, op>>}]

(* record_dispatch, complete_dispatch: a table is known when every slot    *)
(* has been seen with one operation, each with its own.                    *)
Complete(pairs, n) ==
  \A i \in 0..n - 1 : Cardinality({w \in pairs : w[1] = i}) = 1 /\ Cardinality({w \in pairs : w[2] = i}) = 1
OrderOf(pairs, n) == [i \in 1..n |-> (CHOOSE w \in pairs : w[1] = i - 1)[2]]

Useful(read) == \A r \in read : r.ok
PrologsOf(read) == UNION {r.prolog : r \in read}
BranchesOf(read) == UNION {r.branch : r \in read}

(* The orders of all call targets whose samples fit the grammar and the    *)
(* prologs; two different results are as good as none.  o and every e are  *)
(* what the samples of the builder and of one target say.                  *)
Recovered(o, targets) ==
  LET prologs == PrologsOf(o)
      fits(e) == Useful(e) /\ Complete(prologs \cup PrologsOf(e), 3) /\ Complete(BranchesOf(e), 8)
  IN IF ~Useful(o) \/ ~Complete(prologs, 3) \/ ~Complete(BranchesOf(o), 6) THEN {}
     ELSE {OrderOf(prologs, 3) \o OrderOf(BranchesOf(e), 8) \o OrderOf(BranchesOf(o), 6) : e \in {x \in targets : fits(x)}}

Answer(o, targets) ==
  LET r == Recovered(o, targets) IN IF Cardinality(r) = 1 THEN CHOOSE x \in r : TRUE ELSE <<>>
=============================================================================
