------------------------------ MODULE UrlEncoded ------------------------------
(***************************************************************************)
(* core/xwwwFormUrlEncoded.cpp: percent-encoding and its inverse, and the  *)
(* splitting of query strings, form bodies and cookie headers into         *)
(* variables.  A text is a sequence of bytes.  The code's tables have 255  *)
(* entries, so a byte 255 is outside them and outside this model.          *)
(***************************************************************************)
EXTENDS Integers, Sequences

Byte == 0..254

Space == 32
Percent == 37
Ampersand == 38
Plus == 43
Slash == 47
Semicolon == 59
Equals == 61

Digits == 48..57
Upper == 65..90
Lower == 97..122

(* In place of a text: Http400BadRequest, and a decoder past the text's end. *)
Bad == <<-1>>
Overrun == <<-2>>

-----------------------------------------------------------------------------
(* Encoding.                                                               *)

hexchar(d) == IF d < 10 THEN 48 + d ELSE 87 + d

(* Mutated form: '+' is left as it is. *)
HexOutPlain(b) ==
  IF b = Space THEN <<Plus>>
  ELSE IF b \in Digits \cup Upper \cup Lower \cup {45, 46, 95, 126, Plus} THEN <<b>>
  ELSE <<Percent, hexchar(b \div 16), hexchar(b % 16)>>

HexOut(b) ==
  IF b = Space THEN <<Plus>>
  ELSE IF b \in Digits \cup Upper \cup Lower \cup {45, 46, 95, 126} THEN <<b>>
  ELSE <<Percent, hexchar(b \div 16), hexchar(b % 16)>>

urlencode(text) ==
  LET encoded[j \in 0..Len(text)] == IF j = 0 THEN <<>> ELSE encoded[j - 1] \o HexOut(text[j])
  IN encoded[Len(text)]

-----------------------------------------------------------------------------
(* Decoding.                                                               *)

Hex == Digits \cup 65..70 \cup 97..102

HexTable(c) == IF c \in Digits THEN c - 48 ELSE IF c < 97 THEN c - 55 ELSE c - 87

(* 0 is "no such escape", and so is the escape of the byte 0. *)
HexIn(a, b) ==
  IF a \in Hex /\ b \in Hex THEN 16 * HexTable(a) + HexTable(b) ELSE IF a = Plus /\ b = 0 THEN Space ELSE 0

(* The decoder does not look for the text's end inside an escape.  Behind    *)
(* the text there is a separator, which is no hex digit, or if it is the     *)
(* last a NUL: with "%+" there the table has a character, and the decoder    *)
(* goes on behind the NUL.                                                   *)
urlDecode(text, last) ==
  LET n == Len(text)
      char(j) == IF j + 2 <= n THEN HexIn(text[j + 1], text[j + 2])
                 ELSE IF j + 1 = n /\ last THEN HexIn(text[j + 1], 0) ELSE 0
      decoded[j \in 1..(n + 1)] ==
        LET then(c, k) == IF decoded[k] \in {Bad, Overrun} THEN decoded[k] ELSE <<c>> \o decoded[k] IN
        IF j = n + 1 THEN <<>>
        ELSE IF text[j] = Plus THEN then(Space, j + 1)
        ELSE IF text[j] # Percent THEN then(text[j], j + 1)
        ELSE IF char(j) = 0 THEN Bad
        ELSE IF j + 2 > n THEN Overrun
        ELSE then(char(j), j + 3)
  IN decoded[1]

-----------------------------------------------------------------------------
(* Variables.                                                              *)

(* The pieces of a text between the occurrences of sep. *)
Split(text, sep) ==
  LET n == Len(text)
      pieces[j \in 1..(n + 1)] ==
        IF j = n + 1 THEN << <<>> >>
        ELSE IF j + Len(sep) <= n + 1 /\ SubSeq(text, j, j + Len(sep) - 1) = sep
        THEN << <<>> >> \o pieces[j + Len(sep)]
        ELSE << <<text[j]>> \o Head(pieces[j + 1]) >> \o Tail(pieces[j + 1])
  IN pieces[1]

(* A piece up to its first '=', and from there on; without one, no value. *)
Variable(piece, last) ==
  LET marks == {j \in DOMAIN piece : piece[j] = Equals}
      eq    == CHOOSE j \in marks : \A h \in marks : j <= h
  IN IF marks = {} THEN [key |-> urlDecode(piece, last), value |-> <<>>]
     ELSE [key   |-> urlDecode(SubSeq(piece, 1, eq - 1), FALSE),
           value |-> urlDecode(SubSeq(piece, eq + 1, Len(piece)), last)]

(* What iterateVars hands on, one by one; it throws at the first Bad one. *)
iterateVars(text, split) ==
  IF text = <<>> THEN <<>>
  ELSE LET pieces == Split(text, split) IN [j \in DOMAIN pieces |-> Variable(pieces[j], j = Len(pieces))]

Has(variables, mark) == \E j \in DOMAIN variables : mark \in {variables[j].key, variables[j].value}

=============================================================================
