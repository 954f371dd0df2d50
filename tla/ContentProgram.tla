--------------------------- MODULE ContentProgram ---------------------------
(***************************************************************************)
(* The lane programs of the CxDec family: 128 small expressions over the   *)
(* seed and a control table, drawn from a pseudo-random stream, that give  *)
(* the key bytes of a hash.  The program has them three times: as the      *)
(* expression trees of CxdecEngine (cxdec_classic.rs), as the flat code of *)
(* Hxv4NativeFilterManager (hxv4_native.rs), and as the trees and micro    *)
(* operations of LegacyCxdecFilter (legacy_cxdec.rs), kept as a reference. *)
(* A fourth form is the code that a game's own builder emits, from which   *)
(* the orders of its dispatch tables can be recovered.                     *)
(*                                                                         *)
(* A word has Width bits; the code has 32.  HXV4 draws its numbers from a  *)
(* 64-bit generator (xoroshiro128) and not from one of the two here: what  *)
(* counts is that a lane takes the same numbers of any stream in the same  *)
(* places, so here all forms take one stream.  Parameters p are            *)
(* [mo, ord, ctl, gen, wrap], as CxdecParams has them: ord is the prolog,  *)
(* the even and the odd order in a row.                                    *)
(***************************************************************************)
EXTENDS Integers, FiniteSets, Sequences, SequencesExt, Bitwise

CONSTANTS
  Width,       \* bits of a word: 32
  Budget,      \* bytes of one generated function: 128
  TopStage,    \* depth of the first attempt: 5
  Control(_)   \* the words of the control table

TableSize == 1024
Prologue == 9   \* bytes before and
Epilogue == 6   \* behind what the builder emits

----------------------------------------------------------------------------
(* Words *)

Modulus == 2^Width
Half == Width \div 2
Low(x) == x % 2^Half
Wrap(x) == x % Modulus
Inverted(x) == Modulus - 1 - x
Times(x, y) ==
  (Low(x) * Low(y) + Low((x \div 2^Half) * Low(y) + Low(x) * (y \div 2^Half)) * 2^Half) % Modulus
Left(x, n) == IF n >= Width THEN 0 ELSE (x % 2^(Width - n)) * 2^n
Right(x, n) == IF n >= Width THEN 0 ELSE x \div 2^n

OddBits == FoldLeft(LAMBDA s, i : s + 2^(2 * i - 1), 0, [i \in 1..Half |-> i])   \* 0xaaaaaaaa
EvenBits == OddBits \div 2                                                       \* 0x55555555

(* wrapping_mul(0x41c64e6d) and the rest of the two generators.            *)
NextClassic(r) ==
  LET new == (Times(1103515245 % Modulus, r.seed) + 12345) % Modulus
  IN [r EXCEPT !.seed = new, !.value = (new ^^ Left(r.seed, 16)) ^^ Right(r.seed, 16)]

NextCabbage(r) ==
  LET s == r.seed ^^ Left(r.seed, 17)
      t == s ^^ (Left(s, 18) | Right(s, 15))
      x == r.random ^^ Left(r.random, 13)
      y == x ^^ Right(x, 17)
      z == y ^^ Left(y, 5)
  IN [r EXCEPT !.seed = Inverted(t), !.random = z, !.value = Inverted(t) ^^ z]

Rng(lane, gen) ==
  [seed |-> lane, cabbage |-> gen[1] = "cabbage", value |-> 0, random |-> IF gen[1] = "cabbage" THEN gen[2] ELSE 0]

----------------------------------------------------------------------------
(* Building: g is [ok, len, rng, tree, code].  An attempt stops where the  *)
(* budget is exceeded, and so does its use of the stream.                  *)

Draw(g) ==
  IF ~g.ok THEN g ELSE [g EXCEPT !.rng = IF @.cabbage THEN NextCabbage(@) ELSE NextClassic(@)]
ReserveBytes(g, n) ==
  IF g.ok /\ g.len + n <= Budget THEN [g EXCEPT !.len = @ + n] ELSE [g EXCEPT !.ok = FALSE]
V(g) == g.rng.value
Odd(g) == V(g) % 2 = 1

Leaf(op, k) == [op |-> op, k |-> k, kids |-> <<>>]
Node(op, k, kids) == [op |-> op, k |-> k, kids |-> kids]
Give(g, t) == [g EXCEPT !.tree = t]

PrologOrder(p) == SubSeq(p.ord, 1, 3)
EvenOrder(p) == SubSeq(p.ord, 4, 11)
OddOrder(p) == SubSeq(p.ord, 12, 17)

UnaryOps == <<"not", "dec", "neg", "inc", "table", "interlace">>
UnaryBytes == <<2, 1, 2, 1, 13, 21>>
BinaryOps == <<"shr", "shl", "add", "rsub", "mul", "sub">>
BinaryBytes == <<9, 9, 2, 4, 3, 2>>

(* An operand is drawn between the byte of the opcode and its own bytes.   *)
WithOperand(g) == ReserveBytes(Draw(ReserveBytes(g, 1)), 4)

Imm(r) == Give(r, Leaf("imm", V(r)))
CellLeaf(r) == Give(ReserveBytes(r, 4), Leaf("cell", V(r) % TableSize))
XorNode(r, t) == Give(r, Node("xor", V(r), <<t>>))
SignedNode(r, plus, t) == Give(r, Node(IF plus THEN "plus" ELSE "minus", V(r), <<t>>))

(* Bug: the index of a cell is drawn before the opcode is known to fit.    *)
PrologAsEager(d, s) ==
  CASE s = 0 -> Imm(WithOperand(d))
    [] s = 1 -> Give(ReserveBytes(d, 2), Leaf("seed", 0))
    [] OTHER -> CellLeaf(ReserveBytes(Draw(d), 7))

PrologAs(d, s) ==
  CASE s = 0 -> Imm(WithOperand(d))
    [] s = 1 -> Give(ReserveBytes(d, 2), Leaf("seed", 0))
    [] OTHER -> CellLeaf(Draw(ReserveBytes(d, 7)))

PrologBy(d, p) == PrologAs(d, PrologOrder(p)[(V(d) % 3) + 1])
Prolog(g, p) == PrologBy(Draw(g), p)

UnaryAs(d, sign, s) ==
  CASE s < 6 -> Give(ReserveBytes(d, UnaryBytes[s + 1]), Node(UnaryOps[s + 1], 0, <<d.tree>>))
    [] s = 6 -> XorNode(WithOperand(d), d.tree)
    [] OTHER -> SignedNode(WithOperand(sign), Odd(sign), d.tree)
UnaryBy(d, p) == IF d.ok THEN UnaryAs(d, Draw(d), EvenOrder(p)[(V(d) % 8) + 1]) ELSE d

BinaryAs(d, s, first) ==
  Give(ReserveBytes(ReserveBytes(d, BinaryBytes[s + 1]), 1), Node(BinaryOps[s + 1], 0, <<first, d.tree>>))
BinaryBy(d, p, first) == IF d.ok THEN BinaryAs(d, OddOrder(p)[(V(d) % 6) + 1], first) ELSE d

(* stage0 ends in a unary operation, stage1 in a binary one; a draw tells  *)
(* which of them a child is.                                               *)
RECURSIVE Stage(_, _, _, _)
Child(g, n, p) == IF g.ok THEN Stage(Draw(g), n, p, Odd(Draw(g))) ELSE g
Second(g, n, p) == BinaryBy(Draw(Child(ReserveBytes(g, 2), n, p)), p, g.tree)
Stage(g, n, p, binary) ==
  CASE n = 1 -> Prolog(g, p)
    [] n > 1 /\ ~binary -> UnaryBy(Draw(Child(g, n - 1, p)), p)
    [] n > 1 /\ binary -> Second(Child(ReserveBytes(g, 1), n - 1, p), n - 1, p)

(* build_lane: the next attempt is one stage lower and goes on in the      *)
(* stream where the last one failed.                                       *)
Attempt(rng) == [ok |-> TRUE, len |-> Prologue, rng |-> rng, tree |-> Leaf("none", 0), code |-> <<>>]
Attempts == [i \in 1..TopStage |-> TopStage + 1 - i]
Unbuilt(rng) == [Attempt(rng) EXCEPT !.ok = FALSE]

ClassicLane(lane, p) ==
  LET try(g, n) == IF g.ok THEN g ELSE ReserveBytes(Stage(Attempt(g.rng), n, p, TRUE), Epilogue)
  IN FoldLeft(try, Unbuilt(Rng(lane, p.gen)), Attempts)

----------------------------------------------------------------------------
(* The same for HXV4: flat code, and orders given the other way round, as  *)
(* the draw that selects each operation.                                   *)

Emitted(g, op, k) == IF g.ok THEN [g EXCEPT !.code = Append(@, [op |-> op, k |-> k])] ELSE g
Chosen(orders, v) == CHOOSE i \in DOMAIN orders : orders[i] = v

HxUnary == <<"not", "neg", "inc", "dec", "shuffle", "xor", "signed", "table">>
HxUnaryBytes == <<2, 2, 1, 1, 21, 0, 0, 13>>
HxBinary == <<"add", "sub", "rsub", "mul", "shl", "shr">>
HxBinaryBytes == <<2, 2, 4, 3, 9, 9>>

HxCell(r) == Emitted(ReserveBytes(r, 4), "cell", V(r) % TableSize)
HxImm(r, op) == Emitted(r, op, V(r))
HxLeafAs(d, i) ==
  CASE i = 1 -> HxImm(WithOperand(d), "imm")
    [] i = 2 -> Emitted(ReserveBytes(d, 2), "seed", 0)
    [] OTHER -> HxCell(Draw(ReserveBytes(d, 7)))
HxLeafBy(d, q) == HxLeafAs(d, Chosen(q.leaf, V(d) % 3))
GenLeaf(g, q) == HxLeafBy(Draw(g), q)

HxUnaryAs(d, sign, i) ==
  CASE HxUnary[i] = "xor" -> HxImm(WithOperand(d), "xor")
    [] HxUnary[i] = "signed" -> HxImm(WithOperand(sign), IF Odd(sign) THEN "plus" ELSE "minus")
    [] OTHER -> Emitted(ReserveBytes(d, HxUnaryBytes[i]), HxUnary[i], 0)
HxUnaryBy(d, q) == IF d.ok THEN HxUnaryAs(d, Draw(d), Chosen(q.unary, V(d) % 8)) ELSE d

HxBinaryAs(d, i) == Emitted(Emitted(ReserveBytes(ReserveBytes(d, HxBinaryBytes[i]), 1), HxBinary[i], 0), "stop", 0)
HxBinaryBy(d, q) == IF d.ok THEN HxBinaryAs(d, Chosen(q.binary, V(d) % 6)) ELSE d

RECURSIVE Gen(_, _, _, _)
GenChild(g, n, q) == IF g.ok THEN Gen(Draw(g), n, q, Odd(Draw(g))) ELSE g
GenSecond(g, n, q) == HxBinaryBy(Draw(GenChild(Emitted(ReserveBytes(g, 2), "store", 0), n, q)), q)
Gen(g, n, q, binary) ==
  CASE n <= 1 -> GenLeaf(g, q)
    [] n > 1 /\ ~binary -> HxUnaryBy(Draw(GenChild(g, n - 1, q)), q)
    [] n > 1 /\ binary -> GenSecond(GenChild(Emitted(ReserveBytes(g, 1), "enter", 0), n - 1, q), n - 1, q)

HxLane(lane, gen, q) ==
  LET try(g, n) == IF g.ok THEN g ELSE Emitted(ReserveBytes(Gen(Attempt(g.rng), n, q, TRUE), Epilogue), "stop", 0)
  IN FoldLeft(try, Unbuilt(Rng(lane, gen)), Attempts)

(* The parameters of HXV4 that mean the same orders.                       *)
Position(order, s) == (CHOOSE i \in DOMAIN order : order[i] = s) - 1
HxParams(p) ==
  [leaf |-> [i \in 1..3 |-> Position(PrologOrder(p), i - 1)],
   unary |-> [i \in 1..8 |-> Position(EvenOrder(p), <<0, 2, 3, 1, 5, 6, 7, 4>>[i])],
   binary |-> [i \in 1..6 |-> Position(OddOrder(p), <<2, 5, 3, 4, 1, 0>>[i])]]

----------------------------------------------------------------------------
(* Evaluation *)

TableWord(i) == Control(i % TableSize)

(* One operation on the running value x.                                   *)
Alu(op, k, x) ==
  CASE op = "not" -> Inverted(x)
    [] op = "neg" -> Wrap(-x)
    [] op = "inc" -> Wrap(x + 1)
    [] op = "dec" -> Wrap(x - 1)
    [] op = "table" -> TableWord(x)
    [] op = "interlace" -> Right(x & OddBits, 1) | Left(x & EvenBits, 1)
    [] op = "xor" -> x ^^ k
    [] op = "plus" -> Wrap(x + k)
    [] op = "minus" -> Wrap(x - k)

(* The first operand is in ebx, the second in eax.                         *)
CombineOp(op, ebx, eax) ==
  CASE op = "shr" -> Right(eax, ebx % 16)
    [] op = "shl" -> Left(eax, ebx % 16)
    [] op = "add" -> Wrap(eax + ebx)
    [] op = "rsub" -> Wrap(ebx - eax)
    [] op = "mul" -> Times(eax, ebx)
    [] op = "sub" -> Wrap(eax - ebx)

RECURSIVE Eval(_, _)
Eval(t, seed) ==
  CASE t.op = "seed" -> seed
    [] t.op = "imm" -> t.k
    [] t.op = "cell" -> TableWord(t.k)
    [] Len(t.kids) = 1 -> Alu(t.op, t.k, Eval(t.kids[1], seed))
    [] Len(t.kids) = 2 -> CombineOp(t.op, Eval(t.kids[1], seed), Eval(t.kids[2], seed))

(* Bug: a nested block leaves its own scratch word behind.                 *)
VmStepNoRestore(m, x, seed) ==
  CASE m.done -> m
    [] x.op = "enter" -> [m EXCEPT !.saved = Append(@, m.scratch)]
    [] x.op = "stop" -> IF m.saved = <<>> THEN [m EXCEPT !.done = TRUE] ELSE [m EXCEPT !.saved = Front(@)]
    [] x.op = "store" -> [m EXCEPT !.scratch = m.result]
    [] x.op = "seed" -> [m EXCEPT !.result = seed]
    [] x.op = "imm" -> [m EXCEPT !.result = x.k]
    [] x.op = "cell" -> [m EXCEPT !.result = Control(x.k)]
    [] x.op \in ToSet(BinaryOps) -> [m EXCEPT !.result = CombineOp(x.op, m.scratch, @)]
    [] x.op = "shuffle" -> [m EXCEPT !.result = Wrap(2 * (@ & Inverted(OddBits))) | (Right(OddBits, 1) & Right(@, 1))]
    [] OTHER -> [m EXCEPT !.result = Alu(x.op, x.k, @)]

(* One instruction of the flat code.  A block starts from the value there  *)
(* is and gives back the scratch word it found.                            *)
VmStep(m, x, seed) ==
  CASE m.done -> m
    [] x.op = "enter" -> [m EXCEPT !.saved = Append(@, m.scratch)]
    [] x.op = "stop" /\ m.saved = <<>> -> [m EXCEPT !.done = TRUE]
    [] x.op = "stop" -> [m EXCEPT !.saved = Front(@), !.scratch = Last(m.saved)]
    [] x.op = "store" -> [m EXCEPT !.scratch = m.result]
    [] x.op = "seed" -> [m EXCEPT !.result = seed]
    [] x.op = "imm" -> [m EXCEPT !.result = x.k]
    [] x.op = "cell" -> [m EXCEPT !.result = Control(x.k)]
    [] x.op \in ToSet(BinaryOps) -> [m EXCEPT !.result = CombineOp(x.op, m.scratch, @)]
    [] x.op = "shuffle" -> [m EXCEPT !.result = Wrap(2 * (@ & Inverted(OddBits))) | (Right(OddBits, 1) & Right(@, 1))]
    [] OTHER -> [m EXCEPT !.result = Alu(x.op, x.k, @)]

Execute(code, seed) ==
  FoldLeft(LAMBDA m, x : VmStep(m, x, seed), [result |-> 0, scratch |-> 0, saved |-> <<>>, done |-> FALSE], code).result
=============================================================================
