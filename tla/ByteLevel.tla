----------------------------- MODULE ByteLevel ------------------------------
(***************************************************************************)
(* Characters as code points, their UTF-8 bytes, and the table that gives  *)
(* every byte a printable character: bytes_to_unicode and its inverse.     *)
(***************************************************************************)
EXTENDS Naturals, Sequences, FiniteSets

Space == 32
Underline == 9601  \* U+2581, which stands for a space in SentencePiece

Byte == 0 .. 255
MaxChar == 1114111  \* U+10FFFF
Char == 0 .. MaxChar

\* The bytes of a character.
Utf8(c) ==
  LET tail(d) == 128 + ((c \div d) % 64)
  IN  IF c < 128 THEN <<c>>
      ELSE IF c < 2048 THEN <<192 + (c \div 64), tail(1)>>
      ELSE IF c < 65536 THEN <<224 + (c \div 4096), tail(64), tail(1)>>
      ELSE <<240 + (c \div 262144), tail(4096), tail(64), tail(1)>>

\* Bytes that stand for themselves.
Printable == 33 .. 126 \cup 161 .. 172 \cup 174 .. 255

\* The others get the characters from 256 on, in their order.
BytesToUnicode ==
  [b \in Byte |-> IF b \in Printable THEN b
                  ELSE 256 + Cardinality({a \in Byte \ Printable : a < b})]

UnicodeToBytes ==
  [c \in {BytesToUnicode[b] : b \in Byte} |->
     CHOOSE b \in Byte : BytesToUnicode[b] = c]

\* The token <0xXX> of a byte.
HexDigit(d) == IF d < 10 THEN 48 + d ELSE 55 + d
ByteToken(b) == <<60, 48, 120, HexDigit(b \div 16), HexDigit(b % 16), 62>>
=============================================================================
