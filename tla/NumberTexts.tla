---------------------------- MODULE NumberTexts -----------------------------
(***************************************************************************)
(* The grammar of TOML's numbers, as a reference for parse_value of        *)
(* toml.hpp: which texts are integers and floating-point numbers, and      *)
(* which number an integer is.                                             *)
(***************************************************************************)
EXTENDS TomlValues

\* Digits with single underscores between them.
Grouped(t, base) ==
    /\ t # <<>> /\ is_digit(base, t[1]) /\ is_digit(base, t[Len(t)])
    /\ \A i \in 1..Len(t) : is_digit(base, t[i]) \/ (t[i] = Underscore /\ t[i + 1] # Underscore)

Plain(t) == SelectSeq(t, LAMBDA c : c # Underscore)
Unsigned(t) == IF t # <<>> /\ t[1] \in {Plus, Minus} THEN Tail(t) ELSE t
From(t, i) == SubSeq(t, i, Len(t))

\* A decimal number without leading zeroes.
Whole(t) == Grouped(t, 10) /\ (Len(t) > 1 => t[1] # Zero)

IsDecimal(t) == Whole(Unsigned(t))

\* 0x1F, 0o17, 0b11.
HasPrefix(t, base, letter) ==
    Len(t) >= 3 /\ t[1] = Zero /\ t[2] = letter /\ Grouped(From(t, 3), base)

BaseOf(t) ==
    CASE HasPrefix(t, 16, chr.x) -> 16
      [] HasPrefix(t, 8, chr.o) -> 8
      [] HasPrefix(t, 2, chr.b) -> 2
      [] IsDecimal(t) -> 10
      [] OTHER -> 0

DigitsOf(t) == Plain(IF BaseOf(t) = 10 THEN Unsigned(t) ELSE From(t, 3))
Magnitude(t) == NumberOf(BaseOf(t), DigitsOf(t))

IsExponent(t) ==
    t # <<>> /\ t[1] \in {chr.e, chr.E} /\ Grouped(Unsigned(Tail(t)), 10)

\* A whole number with a fraction, an exponent or both.
IsFloat(t) ==
    LET u == Unsigned(t)
    IN  \E i \in 1..(Len(u) - 1) : \E j \in i..Len(u) :
            /\ Whole(SubSeq(u, 1, i))
            /\ i = j \/ (u[i + 1] = Dot /\ Grouped(SubSeq(u, i + 2, j), 10))
            /\ j = Len(u) \/ IsExponent(From(u, j + 1))
            /\ i # Len(u)

\* The text is an integer, in the range of int64_t.
Fits(t) ==
    /\ BaseOf(t) # 0
    /\ IF t[1] = Minus THEN Magnitude(t) <= 2^(Width[BaseOf(t)] - 1)
       ELSE Magnitude(t) < 2^(Width[BaseOf(t)] - 1)
=============================================================================
