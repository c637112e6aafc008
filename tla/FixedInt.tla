------------------------------- MODULE FixedInt ------------------------------
(***************************************************************************)
(* Integers of a fixed number of bits (const/fixedint.c): as many words as *)
(* hold them.  The bits of the last word above the size hold anything, and *)
(* the operations must not let them show.  Whether an integer has a sign   *)
(* is up to the operation.                                                 *)
(***************************************************************************)
EXTENDS BigInt

WORDS(size) == (size + WordSize - 1) \div WordSize
Ones == Base - 1

createFixedInt(size) == [size |-> size, words |-> Row(WORDS(size), LAMBDA i : 0)]

\* Sums, products with a word and complements are right modulo the words.
Low(size, n, Step(_, _), carry) == [size |-> size, words |-> Ripple(n, Step, carry).words]
inlineMulWordFixedInt(fi, word) == Low(fi.size, Len(fi.words), LAMBDA i, carry : fi.words[i] * word + carry, 0)
inlineAddWordFixedInt(fi, word) == Low(fi.size, Len(fi.words), LAMBDA i, carry : fi.words[i] + carry, word)
inlineNotFixedInt(fi) == [fi EXCEPT !.words = [i \in DOMAIN @ |-> Ones - @[i]]]
Negate(fi) == inlineAddWordFixedInt(inlineNotFixedInt(fi), 1)

\* A mutant: all words of the literal are taken.
TakesAllWords(size, bi) ==
  LET all == [size |-> size, words |-> Row(Max({WORDS(size), Len(bi.words)}), LAMBDA i : Word(bi.words, i))]
  IN IF bi.negative THEN Negate(all) ELSE all

createFixedIntFromBigInt(size, bi) ==
  LET low == [size |-> size, words |-> Row(WORDS(size), LAMBDA i : Word(bi.words, i))]
  IN IF bi.negative THEN Negate(low) ELSE low

createFixedIntFromDouble(size, halves) ==
  createFixedIntFromBigInt(size, createBigIntFrom(Whole(halves)))

-----------------------------------------------------------------------------
(***************************************************************************)
(* Reading the words without the bits above the size.                      *)
(***************************************************************************)
signBitOfFixedInt(fi) == (fi.words[WORDS(fi.size)] \div 2^((fi.size - 1) % WordSize)) % 2

Split(fi, i) == i * WordSize > fi.size
Used(fi) == 2^(fi.size % WordSize)

\* A mutant: what the last word holds above the size is not cleared.
ZeroExtendsWholeWords(fi, i) == IF i > WORDS(fi.size) THEN 0 ELSE fi.words[i]

getWordZeroExtend(fi, i) ==
  CASE i > WORDS(fi.size) -> 0
    [] Split(fi, i) -> fi.words[i] % Used(fi)
    [] OTHER -> fi.words[i]

getWordSignExtend(fi, i) ==
  CASE signBitOfFixedInt(fi) = 0 -> getWordZeroExtend(fi, i)
    [] i > WORDS(fi.size) -> Ones
    [] Split(fi, i) -> Base - Used(fi) + (fi.words[i] % Used(fi))
    [] OTHER -> fi.words[i]

ZeroExtended(fi, n) == Row(n, LAMBDA i : getWordZeroExtend(fi, i))
SignExtended(fi, n) == Row(n, LAMBDA i : getWordSignExtend(fi, i))

createBigIntFromFixedIntZeroExtend(fi) == Big(FALSE, Trim(ZeroExtended(fi, WORDS(fi.size))))

\* The carry is computed in 32 bits and lost: it reaches the first word only.
createBigIntFromFixedIntSignExtend(fi) ==
  LET ext == SignExtended(fi, WORDS(fi.size))
      length == Max({0} \cup {i \in DOMAIN ext : fi.words[i] # Ones})
      tmp(i) == (Ones - ext[i] + (IF i = 1 THEN 1 ELSE 0)) % Base
  IN IF signBitOfFixedInt(fi) = 0 THEN createBigIntFromFixedIntZeroExtend(fi)
     ELSE Big(TRUE, IF length = 0 THEN <<1>> ELSE Row(length, tmp))

resizeFixedIntZeroExtend(fi, size) == [size |-> size, words |-> ZeroExtended(fi, WORDS(size))]
resizeFixedIntSignExtend(fi, size) == [size |-> size, words |-> SignExtended(fi, WORDS(size))]

isFixedIntZero(fi) == \A i \in DOMAIN fi.words : getWordZeroExtend(fi, i) = 0
signOfFixedInt(fi) == IF isFixedIntZero(fi) THEN 0 ELSE IF signBitOfFixedInt(fi) = 1 THEN -1 ELSE 1

compareFixedIntUnsigned(a, b) ==
  absCompareBigInt(ZeroExtended(a, Len(a.words)), ZeroExtended(b, Len(b.words)))
compareFixedIntSigned(a, b) ==
  IF signBitOfFixedInt(a) # signBitOfFixedInt(b) THEN IF signBitOfFixedInt(a) = 0 THEN 1 ELSE -1
  ELSE compareFixedIntUnsigned(a, b)

\* Both fill 64 bits: two words.
uintMaxForFixedInt(fi) == Value(Big(FALSE, ZeroExtended(fi, 2)))
intMaxForFixedInt(fi) ==
  LET u == Value(Big(FALSE, SignExtended(fi, 2))) IN IF u < Base^2 \div 2 THEN u ELSE u - Base^2

\* The words LLVM gets, two of the program's in each: as many as there are,
\* and one more for an odd number of them.
Doubled(fi) == 2 * ((Len(fi.words) + 1) \div 2)
convertTo64BitWordsZeroExtend(fi) == ZeroExtended(fi, Doubled(fi))
convertTo64BitWordsSignExtend(fi) == SignExtended(fi, Doubled(fi))

-----------------------------------------------------------------------------
(***************************************************************************)
(* Arithmetic, of operands of one size.                                    *)
(***************************************************************************)
negFixedInt(fi) == Negate(fi)
absFixedInt(fi) == IF signBitOfFixedInt(fi) = 1 THEN Negate(fi) ELSE fi
addFixedInt(a, b) == Low(a.size, Len(a.words), LAMBDA i, carry : a.words[i] + b.words[i] + carry, 0)
subFixedInt(a, b) ==
  Low(a.size, Len(a.words), LAMBDA i, carry : a.words[i] + Ones - b.words[i] + carry, 1)

inlineShiftLeftByWords(fi, shift) ==
  [fi EXCEPT !.words = Row(Len(@), LAMBDA i : Word(@, i - shift))]

mulFixedInt(a, b) ==
  LET Times(i) == inlineShiftLeftByWords(inlineMulWordFixedInt(a, b.words[i]), i - 1)
  IN FoldLeft(LAMBDA res, i : addFixedInt(res, Times(i)),
              createFixedInt(a.size), Row(Len(b.words), LAMBDA i : i))

\* Quotients and remainders are those of integers of any length.
BigIntDelegated(a, result) == createFixedIntFromBigInt(a.size, result)
Unsigned(fi) == createBigIntFromFixedIntZeroExtend(fi)
Signed(fi) == createBigIntFromFixedIntSignExtend(fi)
udivFixedInt(a, b) == BigIntDelegated(a, divBigInt(Unsigned(a), Unsigned(b)))
sdivFixedInt(a, b) == BigIntDelegated(a, divBigInt(Signed(a), Signed(b)))
uremFixedInt(a, b) == BigIntDelegated(a, remBigInt(Unsigned(a), Unsigned(b)))
sremFixedInt(a, b) == BigIntDelegated(a, remBigInt(Signed(a), Signed(b)))

bitFixedInt(op, a, b) == [a EXCEPT !.words = [i \in DOMAIN @ |-> BitOf(op, @[i], b.words[i])]]
notFixedInt(a) == inlineNotFixedInt(a)

shiftLeftFixedInt(a, r) ==
  LET moved == inlineShiftLeftByWords(a, r \div WordSize)
      bits == r % WordSize
  IN [moved EXCEPT !.words = Row(Len(@), LAMBDA i :
        ((@[i] * 2^bits) % Base) + (Word(@, i - 1) \div 2^(WordSize - bits)))]

\* Whatever the last word holds above the size is shifted in.
inlineShiftRight(a, r, extend) ==
  LET WordOr(ws, i) == IF i \in DOMAIN ws THEN ws[i] ELSE extend
      moved == Row(Len(a.words), LAMBDA i : WordOr(a.words, i + (r \div WordSize)))
      bits == r % WordSize
  IN [a EXCEPT !.words = Row(Len(@), LAMBDA i :
        (moved[i] \div 2^bits) + ((WordOr(moved, i + 1) * 2^(WordSize - bits)) % Base))]

shiftRightLogicalFixedInt(a, r) == inlineShiftRight(a, r, 0)
shiftRightArithmeticFixedInt(a, r) == inlineShiftRight(a, r, IF signBitOfFixedInt(a) = 0 THEN 0 ELSE Ones)

\* Doubles of the sizes at hand are exact.
doubleForFixedIntUnsigned(fi) == Value(Big(FALSE, ZeroExtended(fi, Len(fi.words))))
doubleForFixedIntSigned(fi) ==
  IF signBitOfFixedInt(fi) = 0 THEN doubleForFixedIntUnsigned(fi)
  ELSE -doubleForFixedIntUnsigned(absFixedInt(fi))

stringForFixedInt(fi, base, sign) ==
  LET RECURSIVE Digits(_)
      Digits(f) == IF isFixedIntZero(f) THEN <<>>
                   ELSE LET q == LongDivision(ZeroExtended(f, Len(f.words)), base)
                        IN Append(Digits([f EXCEPT !.words = q.words]), q.carry)
  IN IF isFixedIntZero(fi) THEN <<0>>
     ELSE Digits(IF sign THEN absFixedInt(fi) ELSE fi)
=============================================================================
