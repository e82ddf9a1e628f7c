-------------------------------- MODULE FormText ------------------------------
(***************************************************************************)
(* The texts of the settings pages' forms: how a page writes addresses and *)
(* how the handlers of protocol.c read what comes back.  A text is a       *)
(* sequence of characters, a form a sequence of fields.                    *)
(***************************************************************************)
EXTENDS Integers, SequencesExt

Decimal == <<"0", "1", "2", "3", "4", "5", "6", "7", "8", "9">>
Hex     == <<"0", "1", "2", "3", "4", "5", "6", "7", "8", "9", "a", "b", "c", "d", "e", "f">>
Capital == <<"0", "1", "2", "3", "4", "5", "6", "7", "8", "9", "A", "B", "C", "D", "E", "F">>

\* The value of a digit; upper and lower case alike.
C2D == [c \in ToSet(Hex) \cup ToSet(Capital) |-> CHOOSE n \in 0..15 : c \in {Hex[n + 1], Capital[n + 1]}]
h2int(c) == IF c \in DOMAIN C2D THEN C2D[c] ELSE 0

\* An unsigned int has 16 bits.
UnsignedInts == 65536
Number(str, base) ==
  LET num[n \in 0..Len(str)] == IF n = 0 THEN 0 ELSE num[n - 1] * base + C2D[str[n]]
  IN  num[Len(str)]
ATOI(str, base) == Number(str, base) % UnsignedInts

\* The numbers between the delimiters, as bytes.
Bytes == 0..255
Pieces(x, delimiter) ==
  LET parts[n \in 0..Len(x)] ==
        IF n = 0 THEN << <<>> >>
        ELSE IF x[n] = delimiter THEN Append(parts[n - 1], <<>>)
        ELSE Append(Front(parts[n - 1]), Append(Last(parts[n - 1]), x[n]))
  IN  parts[Len(x)]
data_get(x, delimiter, base) ==
  LET parts == Pieces(x, delimiter)
  IN  [n \in DOMAIN parts |-> ATOI(parts[n], base) % 256]

\* %u and %02x, and the texts of an address and of a MAC.
Tens == <<10000, 1000, 100, 10, 1>>
Digits(n) == [k \in 1..5 |-> (n \div Tens[k]) % 10]
Zeros(n) == CHOOSE z \in 0..4 : \A k \in 1..4 : n < Tens[k] <=> k <= z
DecimalText(n) == SubSeq([k \in 1..5 |-> Decimal[Digits(n)[k] + 1]], Zeros(n) + 1, 5)
HexText(n) == <<Hex[(n \div 16) + 1], Hex[(n % 16) + 1]>>
Joined(texts, delimiter) ==
  LET joined[n \in 0..Len(texts)] ==
        IF n = 0 THEN <<>>
        ELSE joined[n - 1] \o (IF n = 1 THEN <<>> ELSE <<delimiter>>) \o texts[n]
  IN  joined[Len(texts)]
IpText(ip) == Joined([n \in DOMAIN ip |-> DecimalText(ip[n])], ".")
MacText(mac) == Joined([n \in DOMAIN mac |-> HexText(mac[n])], ":")

\* What a browser makes of a text when it sends a form.  Here it leaves "+" and "%" as they
\* are; a plain text has neither.
IsPlain(text) == ToSet(text) \cap {"+", "%"} = {}
CharText(c) == CASE c = ":" -> <<"%", "3", "A">>
                 [] c = "/" -> <<"%", "2", "F">>
                 [] c = " " -> <<"+">>
                 [] OTHER   -> <<c>>
UrlEncoded(text) ==
  LET encoded[n \in 0..Len(text)] == IF n = 0 THEN <<>> ELSE encoded[n - 1] \o CharText(text[n])
  IN  encoded[Len(text)]

\* ... and what the box makes of it: the text so far, and of a code its characters so far.
\* The characters that a browser here leaves as they are have no codes: one stands for all.
CharOfCode == [code \in 0..255 |->
                 IF code = 58 THEN ":" ELSE IF code = 47 THEN "/" ELSE "other"]
ReadChar(r, c) ==
  CASE r.code = <<>> /\ c = "%" -> [text |-> r.text, code |-> <<c>>]
    [] r.code = <<>> /\ c = "+" -> [text |-> Append(r.text, " "), code |-> <<>>]
    [] r.code = <<>> /\ c \notin {"%", "+"} -> [text |-> Append(r.text, c), code |-> <<>>]
    [] Len(r.code) = 1 -> [text |-> r.text, code |-> Append(r.code, c)]
    [] Len(r.code) = 2 ->
         [text |-> Append(r.text, CharOfCode[h2int(r.code[2]) * 16 + h2int(c)]), code |-> <<>>]
Decoded(urlbuf) ==
  LET read[n \in 0..Len(urlbuf)] ==
        IF n = 0 THEN [text |-> <<>>, code |-> <<>>] ELSE ReadChar(read[n - 1], urlbuf[n])
  IN  read[Len(urlbuf)]
urldecode(urlbuf) == Decoded(urlbuf).text

\* A form's fields; that of a box which is not ticked is not sent.
Field(name, value) == [name |-> name, value |-> value]
On == <<"o", "n">>
CheckBox(name, on) == IF on THEN <<Field(name, On)>> ELSE <<>>
IsOn(value) == IsPrefix(On, value)

\* The text behind the first "find" of the request, up to the next field, or
\* nothing.  A form's field is found by any end of its name: "d=" is also in "sid=".
findstr(form, find) ==
  LET field == SelectInSeq(form, LAMBDA f : IsSuffix(find, f.name))
  IN  IF field = 0 THEN <<>> ELSE form[field].value
===============================================================================
