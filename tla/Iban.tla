-------------------------------- MODULE Iban --------------------------------
(***************************************************************************)
(* pkg/iban: Irish IBANs with ISO 7064 mod-97-10 check digits.             *)
(*                                                                         *)
(* A character is a number: 0..9 the digits, 10..35 the letters A..Z (the  *)
(* value the standard gives them), 36..61 the letters a..z, 62 a space; a  *)
(* string is a sequence of characters.                                     *)
(***************************************************************************)
EXTENDS Integers, Sequences

Digits == 0 .. 9
Letters == 10 .. 35
Space == 62

CountryIE == <<18, 14>>
IELength == 22

isAllLetters(s) == s # <<>> /\ \A i \in DOMAIN s : s[i] \in Letters

isAllDigits(s) == s # <<>> /\ \A i \in DOMAIN s : s[i] \in Digits

isAllLettersOrDigits(s) == \A i \in DOMAIN s : s[i] \in Digits \cup Letters

\* A letter stands for its two decimal digits, so it shifts by 100.
lettersToDigits(c) == IF c \in Letters THEN 100 ELSE 10

\* The number the characters spell, modulo 97, digit by digit.
mod97Remainder(s) ==
    LET r[i \in 0 .. Len(s)] ==
          IF i = 0 THEN 0 ELSE (r[i - 1] * lettersToDigits(s[i]) + s[i]) % 97
    IN r[Len(s)]

Upper(c) == IF c \in 36 .. 61 THEN c - 26 ELSE c

\* No spaces, upper case.
Normalize(s) ==
    LET kept[i \in 0 .. Len(s)] ==
          IF i = 0 THEN <<>>
          ELSE IF s[i] = Space THEN kept[i - 1] ELSE Append(kept[i - 1], Upper(s[i]))
    IN kept[Len(s)]

\* Blocks of four.
Format(s) ==
    LET n == Normalize(s)
    IN [i \in 1 .. Len(n) + (Len(n) - 1) \div 4 |->
          IF i % 5 = 0 THEN Space ELSE n[i - i \div 5]]

\* Faulty: the check digits complement to 97.
GenerateOffByOne(bankCode, sortCode, accountNumber) ==
    LET bban == bankCode \o sortCode \o accountNumber
        check == 97 - mod97Remainder(bban \o CountryIE \o <<0, 0>>)
    IN CountryIE \o <<check \div 10, check % 10>> \o bban

\* The check digits are computed with 00 in their place; %02d pads them.
Generate(bankCode, sortCode, accountNumber) ==
    LET bban == bankCode \o sortCode \o accountNumber
        check == 98 - mod97Remainder(bban \o CountryIE \o <<0, 0>>)
    IN CountryIE \o <<check \div 10, check % 10>> \o bban

\* Any country's checksum; the field layout only for IE.
Validate(s) ==
    LET n == Normalize(s)
        country == SubSeq(n, 1, 2)
        check == SubSeq(n, 3, 4)
        bban == SubSeq(n, 5, Len(n))
    IN /\ Len(n) >= 4
       /\ isAllLetters(country) /\ isAllDigits(check) /\ isAllLettersOrDigits(bban)
       /\ country = CountryIE =>
            /\ Len(n) = IELength
            /\ isAllLetters(SubSeq(bban, 1, 4))
            /\ isAllDigits(SubSeq(bban, 5, 10))
            /\ isAllDigits(SubSeq(bban, 11, 18))
       /\ mod97Remainder(bban \o country \o check) = 1

\* What a typist gets wrong: one character, or two neighbours swapped.
OneSlip(s, t) ==
    /\ Len(s) = Len(t)
    /\ LET wrong == {i \in DOMAIN s : s[i] # t[i]} IN
       \/ \E i \in DOMAIN s : wrong = {i}
       \/ \E i \in 1 .. Len(s) - 1 :
            /\ wrong = {i, i + 1}
            /\ s[i] = t[i + 1] /\ s[i + 1] = t[i]
=============================================================================
