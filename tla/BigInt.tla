-------------------------------- MODULE BigInt -------------------------------
(***************************************************************************)
(* Integers of any length (const/bigint.c): a sign and a row of words,     *)
(* lowest first.  WordSize is 32 in the program, and Karatsuba's method    *)
(* takes over from SplitAt = 32 words on.                                  *)
(***************************************************************************)
EXTENDS Integers, SequencesExt, Bitwise

CONSTANTS
  WordSize,   \* bits in a word
  SplitAt     \* words from which on products are split

ASSUME WordsAssumption == WordSize \in Nat \ {0} /\ SplitAt \in Nat \ {0, 1}

Base == 2^WordSize
Words == 0 .. Base - 1

Word(ws, i) == IF i \in DOMAIN ws THEN ws[i] ELSE 0
Trim(ws) == SubSeq(ws, 1, Max({0} \cup {i \in DOMAIN ws : ws[i] # 0}))
Row(n, Each(_)) == [i \in 1 .. n |-> Each(i)]

\* The loops from the low to the high word: Step is what a word is made of,
\* and what exceeds it is carried (a borrow is a negative carry).
Ripple(n, Step(_, _), carry) ==
  LET r[i \in 0 .. n] ==
        IF i = 0 THEN [words |-> <<>>, carry |-> carry]
        ELSE LET p == r[i - 1]
                 t == Step(i, p.carry)
             IN [words |-> Append(p.words, t % Base), carry |-> t \div Base]
  IN r[n]

WithCarry(r) == IF r.carry = 0 THEN r.words ELSE Append(r.words, r.carry)

\* The loops of short division, from the high to the low word.
LongDivision(ws, b) ==
  LET r[i \in 1 .. Len(ws) + 1] ==
        IF i = Len(ws) + 1 THEN [words |-> <<>>, carry |-> 0]
        ELSE LET p == r[i + 1]
                 t == ws[i] + p.carry * Base
             IN [words |-> <<t \div b>> \o p.words, carry |-> t % b]
  IN r[1]

Big(negative, ws) == [negative |-> negative, words |-> ws]
createBigInt == Big(FALSE, <<>>)

\* What the integer stands for.
Value(a) ==
  LET v[i \in 0 .. Len(a.words)] == IF i = 0 THEN 0 ELSE v[i - 1] + a.words[i] * Base^(i - 1)
  IN IF a.negative THEN - v[Len(a.words)] ELSE v[Len(a.words)]
Canonical(a) == Word(a.words, Len(a.words)) # 0 \/ a.words = <<>>

-----------------------------------------------------------------------------
(***************************************************************************)
(* Magnitudes.                                                             *)
(***************************************************************************)
absWordMulBigInt(ws, b) ==
  IF b = 0 THEN <<>>
  ELSE LET Step(i, carry) == b * ws[i] + carry
       IN WithCarry(Ripple(Len(ws), Step, 0))

\* A mutant: the carry goes no further than the shorter number.
AddsWithinTheShorter(ws, b, shift) ==
  LET Step(i, carry) == Word(ws, i) + Word(b, i - shift) + (IF i - shift > Len(b) THEN 0 ELSE carry)
  IN IF b = <<>> THEN ws
     ELSE Trim(WithCarry(Ripple(Max({Len(ws), Len(b) + shift}), Step, 0)))

absAddBigInt(ws, b, shift) ==
  LET Step(i, carry) == Word(ws, i) + Word(b, i - shift) + carry
  IN IF b = <<>> THEN ws
     ELSE Trim(WithCarry(Ripple(Max({Len(ws), Len(b) + shift}), Step, 0)))

absSubBigInt(ws, b) ==
  LET Step(i, carry) == ws[i] - Word(b, i) + carry
  IN Trim(Ripple(Len(ws), Step, 0).words)

absCompareBigInt(ws, b) ==
  LET differ == {i \in DOMAIN ws : ws[i] # Word(b, i)}
  IN IF Len(ws) # Len(b) THEN IF Len(ws) > Len(b) THEN 1 ELSE -1
     ELSE IF differ = {} THEN 0
     ELSE IF ws[Max(differ)] > b[Max(differ)] THEN 1 ELSE -1

createBigIntFromUnsigned(n) ==
  LET w[v \in Nat] == IF v = 0 THEN <<>> ELSE <<v % Base>> \o w[v \div Base] IN Big(FALSE, w[n])
createBigIntFrom(n) ==
  [createBigIntFromUnsigned(IF n < 0 THEN -n ELSE n) EXCEPT !.negative = n < 0]

\* A double, in halves, without its fraction.
Whole(halves) == IF halves < 0 THEN -((-halves) \div 2) ELSE halves \div 2

\* The words of a double that is not 0 are taken until it underflows to 0: extra
\* of them come out 0.  The sign is the one it has with its fraction.
createBigIntFromDouble(halves, extra) ==
  Big(halves < 0, IF halves = 0 THEN <<>>
                  ELSE createBigIntFrom(Whole(halves)).words \o Row(extra, LAMBDA i : 0))

\* From the digits of a literal, and back: the highest digit
\* first.  What is no digit, an underscore, is passed over.
createBigIntFromString(digits, base) ==
  LET Push(ws, d) == IF d \in 0 .. base - 1 THEN absAddBigInt(absWordMulBigInt(ws, base), <<d>>, 0) ELSE ws
  IN Big(FALSE, FoldLeft(Push, <<>>, digits))
stringForBigInt(a, base) ==
  LET RECURSIVE Digits(_)
      Digits(ws) == IF ws = <<>> THEN <<>>
                    ELSE LET q == LongDivision(ws, base)
                         IN Append(Digits(Trim(q.words)), q.carry)
  IN IF a.words = <<>> THEN <<0>> ELSE Digits(a.words)

\* Both read 64 bits: two words.
uintMaxForBigInt(a) ==
  LET low == Value(Big(FALSE, Row(2, LAMBDA i : Word(a.words, i))))
  IN IF a.negative THEN (-low) % Base^2 ELSE low

-----------------------------------------------------------------------------
(***************************************************************************)
(* Comparison, sums and differences.                                       *)
(***************************************************************************)
signOfBigInt(a) == IF a.words = <<>> THEN 0 ELSE IF a.negative THEN -1 ELSE 1

compareBigInt(a, b) ==
  IF signOfBigInt(a) # signOfBigInt(b) THEN IF signOfBigInt(a) > signOfBigInt(b) THEN 1 ELSE -1
  ELSE (IF a.negative THEN -1 ELSE 1) * absCompareBigInt(a.words, b.words)

negBigInt(a) == [a EXCEPT !.negative = ~@]

absDifference(a, b) ==
  CASE absCompareBigInt(a.words, b.words) < 0 -> Big(b.negative, absSubBigInt(b.words, a.words))
    [] absCompareBigInt(a.words, b.words) > 0 -> Big(a.negative, absSubBigInt(a.words, b.words))
    [] OTHER -> createBigInt

addBigInt(a, b) ==
  IF a.negative = b.negative THEN [a EXCEPT !.words = absAddBigInt(@, b.words, 0)]
  ELSE absDifference(a, b)

subBigInt(a, b) ==
  IF a.negative # b.negative THEN [a EXCEPT !.words = absAddBigInt(@, b.words, 0)]
  ELSE IF absCompareBigInt(a.words, b.words) < 0 THEN negBigInt(absDifference(a, b))
  ELSE absDifference(a, b)

notBigInt(a) ==
  LET n == negBigInt(a)
  IN [n EXCEPT !.words = IF n.negative THEN absAddBigInt(@, <<1>>, 0) ELSE absSubBigInt(@, <<1>>)]

-----------------------------------------------------------------------------
(***************************************************************************)
(* Products: word by word while the shorter factor is short, else in       *)
(* segments of a much longer one, else by Karatsuba's method.              *)
(***************************************************************************)
copyBigIntSubrange(ws, offset, length) == Trim(SubSeq(ws, offset + 1, offset + length))

RECURSIVE absMulBigInt(_, _)
absMulBigIntBigSmall(a, b) ==
  LET n == Len(a)
      Schoolbook == FoldLeft(LAMBDA ws, i : absAddBigInt(ws, absWordMulBigInt(a, b[i + 1]), i),
                             absWordMulBigInt(a, b[1]), Row(Len(b) - 1, LAMBDA i : i))
      \* The last segment takes what is left.
      count == n \div Len(b)
      Segment(i) == LET offset == (i - 1) * (n \div count)
                    IN copyBigIntSubrange(a, offset, IF i = count THEN n - offset ELSE n \div count)
      Segments == FoldLeft(LAMBDA ws, i : absAddBigInt(ws, absMulBigInt(Segment(i), b), (i - 1) * (n \div count)),
                           <<>>, Row(count, LAMBDA i : i))
      split == n \div 2
      a0 == copyBigIntSubrange(a, 0, split)
      a1 == copyBigIntSubrange(a, split, n - split)
      b0 == copyBigIntSubrange(b, 0, split)
      b1 == copyBigIntSubrange(b, split, Len(b) - split)
      ac == absMulBigInt(a1, b1)
      bd == absMulBigInt(a0, b0)
      abcd == absMulBigInt(absAddBigInt(a1, a0, 0), absAddBigInt(b1, b0, 0))
      middle == absSubBigInt(abcd, absAddBigInt(ac, bd, 0))
  IN IF Len(b) < SplitAt THEN Schoolbook
     ELSE IF n \div 2 > Len(b) THEN Segments
     ELSE absAddBigInt(absAddBigInt(bd, middle, split), ac, 2 * split)

absMulBigInt(a, b) ==
  IF a = <<>> \/ b = <<>> THEN <<>>
  ELSE IF Len(a) = 1 /\ Len(b) = 1 
    THEN WithCarry([words |-> <<(a[1] * b[1]) % Base>>, carry |-> (a[1] * b[1]) \div Base])
  ELSE IF Len(a) < Len(b) THEN absMulBigIntBigSmall(b, a) ELSE absMulBigIntBigSmall(a, b)

mulBigInt(a, b) ==
  IF b.words = <<>> THEN createBigInt
  ELSE Big(a.negative # b.negative, absMulBigInt(a.words, b.words))

-----------------------------------------------------------------------------
(***************************************************************************)
(* Quotients and remainders.  The remainder takes in the dividend word by  *)
(* word; a guess from the two highest words says how often the divisor is  *)
(* taken off it.                                                           *)
(***************************************************************************)
guessMultiple(rem, b) ==
  LET high(ws) == Word(ws, Len(rem) - 1) + Word(ws, Len(rem)) * Base
  IN CASE absCompareBigInt(rem, b) < 0 -> 0
       [] absCompareBigInt(rem, b) = 0 -> 1
       [] OTHER -> IF high(rem) <= high(b) THEN 1 ELSE (high(rem) \div (high(b) + 1)) % Base

RECURSIVE Reduce(_, _)
Reduce(r, b) ==
  LET guess == guessMultiple(r.rem, b)
  IN IF guess = 0 THEN r
     ELSE Reduce([rem |-> absSubBigInt(r.rem, absWordMulBigInt(b, guess)),
                  word |-> (r.word + guess) % Base], b)

absDivRemBigInt(a, b) ==
  LET Take(w, r) == LET next == Reduce([rem |-> <<w>> \o r.rem, word |-> 0], b)
                    IN [rem |-> next.rem, div |-> <<next.word>> \o r.div]
      end == FoldRight(Take, a, [rem |-> <<>>, div |-> <<>>])
  IN [end EXCEPT !.div = Trim(@)]

divBigInt(a, b) ==
  CASE Len(a.words) < Len(b.words) \/ a.words = <<>> -> createBigInt
    [] Len(b.words) = 1 -> Big(a.negative # b.negative, Trim(LongDivision(a.words, b.words[1]).words))
    [] OTHER -> Big(a.negative # b.negative, absDivRemBigInt(a.words, b.words).div)

remBigInt(a, b) ==
  CASE a.words = <<>> -> createBigInt
    [] Len(a.words) < Len(b.words) -> a
    [] Len(b.words) = 1 ->
         [createBigIntFromUnsigned(LongDivision(a.words, b.words[1]).carry) EXCEPT !.negative = a.negative]
    [] OTHER -> Big(a.negative, absDivRemBigInt(a.words, b.words).rem)

-----------------------------------------------------------------------------
(***************************************************************************)
(* Bits.  A negative operand goes through its two's complement.            *)
(***************************************************************************)
BitOf(op, x, y) == CASE op = "and" -> x & y [] op = "or" -> x | y [] op = "xor" -> x ^^ y
SignOf(op, x, y) == CASE op = "and" -> x /\ y [] op = "or" -> x \/ y [] op = "xor" -> x # y

\* The two's complement, where a carry into a word is any word that came out 0.
Complement(n, ws) ==
  LET c[i \in 0 .. n] ==
        IF i = 0 THEN <<>>
        ELSE Append(c[i - 1], (Base - 1 - Word(ws, i) + (IF i = 1 \/ c[i - 1][i - 1] = 0 THEN 1 ELSE 0)) % Base)
  IN c[n]

\* That of the result carries on only while it carried before.
ComplementOfResult(n, ws) ==
  LET Step(i, carry) == Base - 1 - Word(ws, i) + carry IN Ripple(n, Step, 1).words

binaryOpBigInt(op, a, b) ==
  LET size == Max({Len(a.words), Len(b.words)}) + 1
      Bits(v) == IF v.negative THEN Complement(size, v.words) ELSE Row(size, LAMBDA i : Word(v.words, i))
      aw == Bits(a)
      bw == Bits(b)
      rw == Row(size, LAMBDA i : BitOf(op, aw[i], bw[i]))
      negative == SignOf(op, a.negative, b.negative)
  IN IF a.words = <<>> \/ b.words = <<>> THEN createBigInt
     ELSE Big(negative, Trim(IF negative THEN ComplementOfResult(size, rw) ELSE rw))

DropZero(ws) == IF Last(ws) = 0 THEN Front(ws) ELSE ws

shiftLeftBigInt(a, r) ==
  LET words == r \div WordSize
      bits == r % WordSize
      Each(j) == ((Word(a.words, j - words) * 2^bits) % Base)
                 + (Word(a.words, j - words - 1) \div 2^(WordSize - bits))
  IN CASE a.words = <<>> -> createBigInt
       [] r = 0 -> a
       [] OTHER -> Big(a.negative, DropZero(Row(Len(a.words) + words + 1, Each)))

\* Where all words go and none is left, the test of the highest word reads
\* far outside the integer.
ReadsOutside(a, r) == Len(a.words) = r \div WordSize /\ r # 0

shiftRightBigInt(a, r) ==
  LET words == r \div WordSize
      bits == r % WordSize
      Each(j) == (Word(a.words, j + words) \div 2^bits)
                 + ((Word(a.words, j + words + 1) * 2^(WordSize - bits)) % Base)
  IN CASE Len(a.words) < words -> IF a.negative THEN createBigIntFrom(-1) ELSE createBigInt
       [] r = 0 -> a
       [] OTHER -> Big(a.negative, DropZero(Row(Len(a.words) - words, Each)))
=============================================================================
