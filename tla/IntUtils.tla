------------------------------ MODULE IntUtils ------------------------------
(***************************************************************************)
(* Numbers in configuration files: str_to_integral for unsigned types.  A  *)
(* text is the sequence of its characters.  A function that may throw      *)
(* returns <<v>> for the value v and Threw for an exception.               *)
(***************************************************************************)
EXTENDS Integers, Sequences, SequencesExt

CONSTANTS
    ULLONG_MAX,   \* the largest value of strtoull
    NoDigits      \* what the C library makes of a text without digits: <<0>>, or
                  \* Threw where strtoull sets EINVAL

Threw == <<>>

ASSUME NumbersAssumption ==
    ULLONG_MAX \in Nat /\ ULLONG_MAX >= 255 /\ NoDigits \in {<<0>>, Threw}

digits == <<"0", "1", "2", "3", "4", "5", "6", "7", "8", "9">>

numbers == Range(digits) \cup {"-", "a", "b", "c", "d", "e", "f", "A", "B", "C", "D", "E", "F"}

contains_only_valid_characters(input, valid_chars) == Range(input) \subseteq valid_chars

DigitValue(c) == (CHOOSE k \in DOMAIN digits : digits[k] = c) - 1

\* The value after each digit, from the left.
Accumulate(s) ==
    LET acc[k \in 0 .. Len(s)] == IF k = 0 THEN 0 ELSE 10 * acc[k - 1] + DigitValue(s[k]) IN acc

\* How many characters stand before the first that is no digit.
DigitsOf(s) ==
    CHOOSE k \in 0 .. Len(s) :
        /\ \A i \in 1 .. k : s[i] \in Range(digits)
        /\ k < Len(s) => s[k + 1] \notin Range(digits)

\* In base 10 it reads the digits up to the first other character.
strtoull(s) ==
    LET n == DigitsOf(s)
        v == Accumulate(SubSeq(s, 1, n))[n]
    IN  IF n = 0 THEN NoDigits ELSE IF v > ULLONG_MAX THEN Threw ELSE <<v>>

stoull_with_checks(s) ==
    IF s = <<>> \/ ~contains_only_valid_characters(s, numbers) \/ s[1] = "-"
    THEN Threw ELSE strtoull(s)

within_bounds(max, val) == val <= max

\* Mutant: static_cast without the test of within_bounds.
str_to_integral_wraps(max, string) ==
    LET value == stoull_with_checks(string)
    IN  IF value = Threw THEN Threw ELSE <<value[1] % (max + 1)>>

\* max is the largest value of the type.
str_to_integral(max, string) ==
    LET value == stoull_with_checks(string)
    IN  IF value # Threw /\ within_bounds(max, value[1]) THEN value ELSE Threw

----------------------------------------------------------------------------
\* The number a text of digits denotes: the sum of its digits, each times the
\* power of ten of its place.
Powers(n) == LET power[k \in 0 .. n] == IF k = 0 THEN 1 ELSE 10 * power[k - 1] IN power

Sums(s) ==
    LET sum[k \in 0 .. Len(s)] ==
            IF k = 0 THEN 0 ELSE sum[k - 1] + DigitValue(s[k]) * Powers(Len(s))[Len(s) - k]
    IN  sum

Denotes(s) == Sums(s)[Len(s)]

\* A decimal number is accepted exactly if the type can hold it, with its
\* value; nothing negative or empty is accepted, and nothing accepted exceeds
\* the type.
NumberExact(max, s) ==
    LET r == str_to_integral(max, s)
    IN  /\ s = <<>> \/ s[1] = "-" => r = Threw
        /\ s # <<>> /\ Range(s) \subseteq Range(digits) =>
               r = IF Denotes(s) <= max THEN <<Denotes(s)>> ELSE Threw
        /\ r # Threw => r[1] \in 0 .. max
=============================================================================
