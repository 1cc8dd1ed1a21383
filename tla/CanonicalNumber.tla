--------------------------- MODULE CanonicalNumber ---------------------------
(***************************************************************************)
(* Numbers in normal form (sidememory/number.rs): a sign, a coefficient    *)
(* without zeros at either end and a decimal exponent, so that two texts   *)
(* of one value are one record.  The exponent is as long as the text makes *)
(* it, hence arithmetic on decimal digits and not on machine integers.     *)
(*                                                                         *)
(* A text is a sequence of bytes; coefficient and exponent are sequences   *)
(* of the values of their digits, most significant first.                  *)
(***************************************************************************)
EXTENDS Integers, SequencesExt

DigitBytes == <<"0", "1", "2", "3", "4", "5", "6", "7", "8", "9">>
DigitValue == [d \in ToSet(DigitBytes) |-> CHOOSE v \in 0..9 : DigitBytes[v + 1] = d]
Digits == DOMAIN DigitValue

Values(text) == [i \in DOMAIN text |-> DigitValue[text[i]]]

ByteAt(text, i) == IF i \in DOMAIN text THEN text[i] ELSE "end"

(* The place after the digits that begin at i.                              *)
DigitsEnd(text, i) == Min({ j \in i..Len(text) + 1 : ByteAt(text, j) \notin Digits })

(* The text cut into sign, integer, fraction and exponent, from left to      *)
(* right; valid says that nothing was missing or left over.                 *)
NumberParts(text) ==
    LET negative == ByteAt(text, 1) = "-"
        first == IF negative THEN 2 ELSE 1
        point == IF ByteAt(text, first) = "0" THEN first + 1 ELSE DigitsEnd(text, first)
        pointed == ByteAt(text, point) = "."
        mark == IF pointed THEN DigitsEnd(text, point + 1) ELSE point
        marked == ByteAt(text, mark) = "e"
        power == mark + (IF ByteAt(text, mark + 1) \in {"+", "-"} THEN 2 ELSE 1)
        end == IF marked THEN DigitsEnd(text, power) ELSE mark
    IN  [negative |-> negative,
         integer |-> SubSeq(text, first, point - 1),
         fraction |-> SubSeq(text, point + 1, mark - 1),
         exponent_negative |-> marked /\ ByteAt(text, mark + 1) = "-",
         exponent_digits |-> SubSeq(text, power, end - 1),
         valid |-> /\ point > first
                   /\ pointed => mark > point + 1
                   /\ marked => end > power
                   /\ end = Len(text) + 1]

WithinDigitLimits(parts, limits) ==
    /\ Len(parts.integer) + Len(parts.fraction) <= limits.numberDigits
    /\ Len(parts.exponent_digits) <= limits.exponentDigits

-------------------------------------------------------------------------------
(* SignedDecimal.                                                          *)

SignedDecimal(negative, digits) == [negative |-> negative, digits |-> digits]
Zero == SignedDecimal(FALSE, <<0>>)

NonZero(digits) == { i \in DOMAIN digits : digits[i] # 0 }

(* Without leading zeros; zero itself keeps one digit, and no sign.          *)
Stripped(digits) ==
    IF NonZero(digits) = {} THEN <<0>> ELSE SubSeq(digits, Min(NonZero(digits)), Len(digits))

ParsedExponent(negative, digits) ==
    IF NonZero(digits) = {} THEN Zero ELSE SignedDecimal(negative, Stripped(digits))

(* compare_magnitude, of numbers without leading zeros.                     *)
LessMagnitude(left, right) ==
    \/ Len(left) < Len(right)
    \/ /\ Len(left) = Len(right)
       /\ \E i \in DOMAIN left :
             left[i] < right[i] /\ \A j \in 1..i - 1 : left[j] = right[j]

FromRight(digits, offset) == IF offset < Len(digits) THEN digits[Len(digits) - offset] ELSE 0

\* Mutant: what is carried out of the last column is lost.
add_magnitude_no_carry(left, right) ==
    LET width == Max({Len(left), Len(right)})
        carry[n \in 0..width] ==
            IF n = 0 THEN 0
            ELSE (FromRight(left, n - 1) + FromRight(right, n - 1) + carry[n - 1]) \div 10
    IN  [i \in 1..width |->
            (FromRight(left, width - i) + FromRight(right, width - i) + carry[width - i]) % 10]

add_magnitude(left, right) ==
    LET width == Max({Len(left), Len(right)})
        Sum(n, carried) == FromRight(left, n) + FromRight(right, n) + carried
        carry[n \in 0..width] == IF n = 0 THEN 0 ELSE Sum(n - 1, carry[n - 1]) \div 10
        columns == [i \in 1..width |-> Sum(width - i, carry[width - i]) % 10]
    IN  IF carry[width] = 0 THEN columns ELSE <<carry[width]>> \o columns

(* left is the greater.                                                    *)
subtract_magnitude(left, right) ==
    LET width == Len(left)
        Difference(n, borrowed) == FromRight(left, n) - FromRight(right, n) - borrowed
        borrow[n \in 0..width] ==
            IF n > 0 /\ Difference(n - 1, borrow[n - 1]) < 0 THEN 1 ELSE 0
    IN  Stripped([i \in 1..width |-> Difference(width - i, borrow[width - i]) % 10])

Decimal[n \in Nat] == IF n < 10 THEN <<n>> ELSE Append(Decimal[n \div 10], n % 10)

add_small_signed(number, value) ==
    LET negative == value < 0
        other == Decimal[IF negative THEN -value ELSE value]
    IN  CASE value = 0 -> number
          [] number.negative = negative ->
                [number EXCEPT !.digits = add_magnitude(@, other)]
          [] number.digits = other -> Zero
          [] LessMagnitude(number.digits, other) ->
                SignedDecimal(negative, subtract_magnitude(other, number.digits))
          [] OTHER -> [number EXCEPT !.digits = subtract_magnitude(@, other)]

-------------------------------------------------------------------------------
(* CanonicalNumber.                                                        *)

\* Mutant: zero keeps its sign.
ZeroSigned(parts) == [negative |-> parts.negative, coefficient |-> <<0>>, exponent |-> Zero]

ZeroNumber(parts) == [negative |-> FALSE, coefficient |-> <<0>>, exponent |-> Zero]

NormalForm(parts) ==
    LET digits == Values(parts.integer \o parts.fraction)
        used == NonZero(digits)
        trailing == Len(digits) - Max(used)
        written == ParsedExponent(parts.exponent_negative, Values(parts.exponent_digits))
    IN  IF used = {} THEN ZeroNumber(parts)
        ELSE [negative |-> parts.negative,
              coefficient |-> SubSeq(digits, Min(used), Max(used)),
              exponent |-> add_small_signed(add_small_signed(written, -Len(parts.fraction)),
                                            trailing)]

is_integer(number) == ~number.exponent.negative

===============================================================================
