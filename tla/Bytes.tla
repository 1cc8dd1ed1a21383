-------------------------------- MODULE Bytes --------------------------------
(***************************************************************************)
(* Bytes, one per class the code tells apart.  A byte goes by its glyph,   *)
(* or, when it has none, by its two hexadecimal digits ("0A" is a newline, *)
(* "C2" the first byte of a character of two).  The two that have to be    *)
(* escaped are named in full.                                              *)
(***************************************************************************)
EXTENDS Integers, Sequences, TLC

Quote == "quote"
Backslash == "backslash"

HexDigits == <<"0", "1", "2", "3", "4", "5", "6", "7", "8", "9", "A", "B", "C", "D", "E", "F">>
ByteName(n) == HexDigits[(n \div 16) + 1] \o HexDigits[(n % 16) + 1]

Octets(codes) ==
    [name \in { ByteName(n) : n \in codes } |-> CHOOSE n \in codes : ByteName(n) = name]

(* Of a byte without a glyph, by name; the ones past 7F.                     *)
Octet == Octets(128..255)

(* Of any byte.                                                            *)
ByteCode ==
    (" " :> 32) @@ (Quote :> 34) @@ ("+" :> 43) @@ ("," :> 44) @@ ("-" :> 45) @@ ("." :> 46)
    @@ ("0" :> 48) @@ ("1" :> 49) @@ ("8" :> 56) @@ (":" :> 58) @@ ("[" :> 91)
    @@ (Backslash :> 92) @@ ("]" :> 93) @@ ("d" :> 100) @@ ("e" :> 101) @@ ("n" :> 110)
    @@ ("r" :> 114) @@ ("t" :> 116) @@ ("u" :> 117) @@ ("{" :> 123) @@ ("}" :> 125)
    @@ Octets(0..31) @@ Octet

===============================================================================
