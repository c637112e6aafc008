---------------------------- MODULE IntegerValues ----------------------------
(***************************************************************************)
(* The integers of constant expressions (const/eval.c): one operation      *)
(* after the other on the value so far, kept in words, next to the integer *)
(* it is meant to be.  A value of a type without a size, and of the size   *)
(* of a pointer, is a BigInt, any other a FixedInt with or without sign.   *)
(***************************************************************************)
EXTENDS FixedInt

CONSTANTS
  Literals,   \* the literals evaluation starts from: a prefix and digits
  Reals,      \* the real numbers, in halves, that are converted to integers
  RealWords,  \* the words that are 0 when one becomes a BigInt
  Types,      \* the integer types
  Operands,   \* the magnitudes of right operands
  Shifts,     \* the amounts of shifts
  MaxWords,   \* values of more words are not computed with, unless literals
  Pointer     \* the size of isize and usize, in bits

ASSUME ValuesAssumption ==
  Types \subseteq [kind : {"big", "int", "uint"}, size : Nat] /\ MaxWords \in Nat /\ Pointer \in Nat

VARIABLES
  val,      \* the value: a type, and a BigInt or FixedInt
  want,     \* history: the integer that value is meant to be
  answer    \* what the value was asked last, and the answer that was due

vars == <<val, want, answer>>

Nothing == <<0, 0>>

\* From digits to a value, parseIntLiteral and the case of AST_INT.
BaseOf(prefix) == [none |-> 10, b |-> 2, o |-> 8, d |-> 10, h |-> 16, x |-> 16][prefix]
parseIntLiteral(lit) == createBigIntFromString(lit.digits, BaseOf(lit.prefix))
OfType(type, bi) ==
  [type |-> type, int |-> IF type.kind = "big" THEN bi ELSE createFixedIntFromBigInt(type.size, bi)]

\* The integer of a type that n wraps around to.
Wrap(type, n) ==
  LET low == n % 2^type.size
  IN CASE type.kind = "big" -> n
       [] type.kind = "int" /\ low >= 2^(type.size - 1) -> low - 2^type.size
       [] OTHER -> low
Meaning(v) ==
  IF v.type.kind = "big" THEN Value(v.int) ELSE Wrap(v.type, Value(Big(FALSE, v.int.words)))

Truncated(x, y) == (IF x < 0 THEN -1 ELSE 1) * (IF y < 0 THEN -1 ELSE 1)
                   * ((IF x < 0 THEN -x ELSE x) \div (IF y < 0 THEN -y ELSE y))
\* The bits of integers in two's complement, of more bits than any value has.
Wide == 2^20
BitsOf(op, x, y) == LET r == BitOf(op, x % Wide, y % Wide) IN IF r < Wide \div 2 THEN r ELSE r - Wide

IsBig == val.type.kind = "big"
Settled(v) == v.type.kind # "big" \/ Canonical(v.int)

LiteralValues == {OfType(t, parseIntLiteral(lit)) : t \in Types, lit \in Literals}

\* AST_AS from a real number.
OfReal(type, r) ==
  [type |-> type,
   int |-> IF type.kind = "big" THEN createBigIntFromDouble(r, RealWords) ELSE createFixedIntFromDouble(type.size, r)]

Init ==
  \E t \in Types :
    \/ \E r \in Reals : val = OfReal(t, r) /\ want = Wrap(t, Whole(r)) /\ answer = Nothing
    \/ \E lit \in Literals :
         /\ val = OfType(t, parseIntLiteral(lit))
         /\ want = Wrap(t, LET n[i \in 0 .. Len(lit.digits)] ==
                                 IF i = 0 THEN 0
                                 ELSE IF lit.digits[i] < 0 THEN n[i - 1]
                                 ELSE n[i - 1] * BaseOf(lit.prefix) + lit.digits[i]
                           IN n[Len(lit.digits)])
         /\ answer = Nothing

Continues == Len(val.int.words) <= MaxWords \/ val \in LiteralValues

\* A right operand: a literal of the type, or one with a minus in front of it.
Signs == IF val.type.kind = "uint" THEN {FALSE} ELSE BOOLEAN
Negated(v) == [v EXCEPT !.int = IF v.type.kind = "big" THEN negBigInt(@) ELSE negFixedInt(@)]
Right == {IF negative THEN Negated(OfType(val.type, createBigIntFrom(n))) ELSE OfType(val.type, createBigIntFrom(n)) :
            n \in Operands, negative \in Signs}

\* Where the code is known to give another integer, the history follows it.
Becomes(int, due, known) ==
  /\ val' = [val EXCEPT !.int = int]
  /\ want' = IF known \/ ~Settled(val) THEN Meaning(val') ELSE Wrap(val.type, due)
  /\ answer' = Nothing

OnKind(big, signed, unsigned) ==
  CASE val.type.kind = "big" -> big [] val.type.kind = "int" -> signed [] val.type.kind = "uint" -> unsigned

-----------------------------------------------------------------------------
Add == \E b \in Right :
  LET fixed == addFixedInt(val.int, b.int)
  IN Becomes(OnKind(addBigInt(val.int, b.int), fixed, fixed), want + Meaning(b), FALSE)
Sub == \E b \in Right :
  LET fixed == subFixedInt(val.int, b.int)
  IN Becomes(OnKind(subBigInt(val.int, b.int), fixed, fixed), want - Meaning(b), FALSE)
Mul == \E b \in Right :
  LET fixed == mulFixedInt(val.int, b.int)
  IN Becomes(OnKind(mulBigInt(val.int, b.int), fixed, fixed), want * Meaning(b), FALSE)

\* Known: after a remainder of 0, words that are 0 count as words of the
\* remainder, and the divisor is taken off a smaller one.
RemainderOutgrows(a, b) == Len(b.words) >= 2 /\ Len(a.words) > 2 * Len(b.words)

\* Known: with the lowest word 0, the carry of the sign extension is lost; a
\* word of ones only by its sign extension stays in front.
SignIsLost(fi) ==
  LET ext == SignExtended(fi, WORDS(fi.size))
  IN signBitOfFixedInt(fi) = 1 /\ \/ ext[1] = 0
                                  \/ fi.words # ext /\ ext[Len(ext)] = Ones

DivisionIsOff(b) ==
  OnKind(RemainderOutgrows(val.int, b.int), SignIsLost(val.int) \/ SignIsLost(b.int), FALSE)

\* Division by zero stops a debug build; any other stops or does not end, also
\* where the divisor becomes zero as its carry is lost.
Divisors == {b \in Right : Value(OnKind(b.int, createBigIntFromFixedIntSignExtend(b.int),
                                        createBigIntFromFixedIntZeroExtend(b.int))) # 0}
Div == \E b \in Divisors :
  Becomes(OnKind(divBigInt(val.int, b.int), sdivFixedInt(val.int, b.int), udivFixedInt(val.int, b.int)),
          Truncated(want, Meaning(b)), DivisionIsOff(b))
Mod == \E b \in Divisors :
  Becomes(OnKind(remBigInt(val.int, b.int), sremFixedInt(val.int, b.int), uremFixedInt(val.int, b.int)),
          want - Meaning(b) * Truncated(want, Meaning(b)), DivisionIsOff(b))

\* Known: with an operand 0 the result is 0, and a word that comes out 0 in
\* the complement of an operand carries even if nothing was carried into it.
BitsAreOff(op, a, b) ==
  \/ op # "and" /\ (a.words = <<>>) # (b.words = <<>>)
  \/ \E v \in {a, b} : v.negative /\ \E i \in 2 .. Len(v.words) : v.words[i] = Ones
Bits(op) == \E b \in Right :
  LET fixed == bitFixedInt(op, val.int, b.int)
  IN Becomes(OnKind(binaryOpBigInt(op, val.int, b.int), fixed, fixed), BitsOf(op, want, Meaning(b)),
             IsBig /\ BitsAreOff(op, val.int, b.int))
BitAnd == Bits("and")
BitOr == Bits("or")
BitXor == Bits("xor")

Shl == \E r \in Shifts :
  LET fixed == shiftLeftFixedInt(val.int, r)
  IN Becomes(OnKind(shiftLeftBigInt(val.int, r), fixed, fixed), want * 2^r, FALSE)

\* Known: the bits above the size come in, and negative integers of any length
\* are shifted towards zero, -0 to -1.
Shr == \E r \in Shifts :
  /\ ~(IsBig /\ ReadsOutside(val.int, r))
  /\ Becomes(OnKind(shiftRightBigInt(val.int, r), shiftRightArithmeticFixedInt(val.int, r),
                    shiftRightLogicalFixedInt(val.int, r)),
             want \div 2^r,
             OnKind(val.int.negative, val.int.words # SignExtended(val.int, Len(val.int.words)),
                    val.int.words # ZeroExtended(val.int, Len(val.int.words))))

\* No case for an integer without sign: there is no value.
Neg == /\ val.type.kind # "uint"
       /\ Becomes(Negated(val).int, -want, FALSE)
\* Known: 1 cannot be taken off -0.
BitNot == LET fixed == notFixedInt(val.int)
       IN Becomes(OnKind(notBigInt(val.int), fixed, fixed), -want - 1, IsBig /\ val.int = Big(TRUE, <<>>))

\* AST_AS between integer types.
CastTo(type, int, known) ==
  /\ val' = [type |-> type, int |-> int]
  /\ want' = IF known \/ ~Settled(val) THEN Meaning(val') ELSE Wrap(type, want)
  /\ answer' = Nothing
Cast == \E type \in Types \ {val.type} :
  IF type.kind = "big"
  THEN CastTo(type, OnKind(val.int, createBigIntFromFixedIntSignExtend(val.int),
                           createBigIntFromFixedIntZeroExtend(val.int)),
              val.type.kind = "int" /\ SignIsLost(val.int))
  ELSE CastTo(type, OnKind(createFixedIntFromBigInt(type.size, val.int),
                           resizeFixedIntSignExtend(val.int, type.size),
                           resizeFixedIntZeroExtend(val.int, type.size)), FALSE)

-----------------------------------------------------------------------------
(***************************************************************************)
(* Questions about the value.                                              *)
(***************************************************************************)
Answer(got, due) == answer' = <<got, due>> /\ UNCHANGED <<val, want>>

Sign(n) == IF n = 0 THEN 0 ELSE IF n > 0 THEN 1 ELSE -1
Compare == \E b \in Right :
  Answer(OnKind(compareBigInt(val.int, b.int), compareFixedIntSigned(val.int, b.int),
                compareFixedIntUnsigned(val.int, b.int)), Sign(want - Meaning(b)))

\* Array lengths and indices: the sign, and the low 64 bits.
AskSign == Answer(OnKind(signOfBigInt(val.int), signOfFixedInt(val.int), Sign(want)), Sign(want))
AskLength == Answer(OnKind(uintMaxForBigInt(val.int), intMaxForFixedInt(val.int) % Base^2, uintMaxForFixedInt(val.int)),
                    want % Base^2)

\* The digits of a message; the sign in front of them is signOf's.
Digits10(ds) == LET n[i \in 0 .. Len(ds)] == IF i = 0 THEN 0 ELSE n[i - 1] * 10 + ds[i] IN n[Len(ds)]
ShowDigits == Answer(Digits10(OnKind(stringForBigInt(val.int, 10), stringForFixedInt(val.int, 10, TRUE),
                                stringForFixedInt(val.int, 10, FALSE))), Sign(want) * want)

\* The words LLVM gets, for an integer of the size of a pointer if need be.
Emit ==
  LET big == createFixedIntFromBigInt(Pointer, val.int)
      words == OnKind(convertTo64BitWordsZeroExtend(big), convertTo64BitWordsSignExtend(val.int),
                      convertTo64BitWordsZeroExtend(val.int))
  IN Answer(Value(Big(FALSE, words)), want % (IF IsBig THEN 2^Pointer ELSE Base^Len(words)))

\* AST_AS to a real type.  A BigInt is read there as if it were a FixedInt.
AsReal == /\ ~IsBig
          /\ Answer(OnKind(want, doubleForFixedIntSigned(val.int), doubleForFixedIntUnsigned(val.int)), want)

Ask == Compare \/ AskSign \/ AskLength \/ ShowDigits \/ AsReal \/ Emit
Compute == Add \/ Sub \/ Mul \/ Div \/ Mod \/ BitAnd \/ BitOr \/ BitXor \/ Shl \/ Shr \/ Neg \/ BitNot \/ Cast
Next == Continues /\ (Compute \/ Ask)

Spec == Init /\ [][Next]_vars

-----------------------------------------------------------------------------
\* No operation leaves a number in a word that the word does not hold, and an
\* integer of a fixed size has as many words as its size takes.
WordsFit ==
  /\ val.type \in Types /\ want \in Int
  /\ \A i \in DOMAIN val.int.words : val.int.words[i] \in Words
  /\ ~IsBig => Len(val.int.words) = WORDS(val.type.size)

\* Whatever was computed before, the words stand for the integer that
\* arithmetic gives: carries and borrows reach every word, signs and lengths
\* fit, and integers of a fixed size wrap around.
ValuesAreRight == Meaning(val) = want

\* Comparisons, signs, array lengths, printed digits and the words of the back
\* end tell that integer too, of values without a zero in front.
AnswersAreRight == Settled(val) => answer[1] = answer[2]
=============================================================================
