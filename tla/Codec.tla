-------------------------------- MODULE Codec --------------------------------
(***************************************************************************)
(* The text functions the messages between processes are made and taken    *)
(* apart with: split and trim (Converter, CmdTarget), the escapes of the   *)
(* sockets and of ControlObject, and the UTF-8 functions of Converter.     *)
(*                                                                         *)
(* A text is a sequence of characters, one of UTF-8 a sequence of bytes.   *)
(* A value, or two code points, are chosen; the properties compare what    *)
(* arrives with what was chosen.                                           *)
(***************************************************************************)
EXTENDS Integers, Sequences, FiniteSets, FiniteSetsExt, SequencesExt

CONSTANTS
  Alphabet,    \* the characters of the values considered,
  MaxText,     \* bound: and their length
  CodePoints   \* the characters of the UTF-8 texts, two in each

ASSUME CodecAssumption == MaxText \in Nat /\ CodePoints \subseteq 1 .. 1114111

VARIABLES value, points

codecVars == <<value, points>>

-----------------------------------------------------------------------------
(* split.                                                                  *)

\* trim; a text of spaces only makes it read before the text.
Trim(s) ==
  LET kept == {i \in DOMAIN s : s[i] # " "} IN
  IF kept = {} THEN <<>> ELSE SubSeq(s, Min(kept), Max(kept))

Find(s, c) == Min({i \in DOMAIN s : s[i] = c})

\* The loop of Converter::split.  An empty last field is dropped; of two the
\* second comes out as the separator itself.
RECURSIVE SplitRest(_, _)
SplitRest(s, c) ==
  IF ~Contains(s, c) THEN (IF s = <<>> THEN <<>> ELSE <<s>>)
  ELSE LET pos == Find(s, c)
           rest == Trim(SubSeq(s, pos + 1, Len(s)))
       IN <<SubSeq(s, 1, pos - 1)>> \o
            (IF rest = <<c>> THEN << <<>>, <<c>> >> ELSE SplitRest(rest, c))

Split(s, c) == SplitRest(Trim(s), c)

\* Converter::split with a vector, which also counts the fields.
RECURSIVE SplitCounting(_, _, _, _)
SplitCounting(s, c, vec, count) ==
  IF ~Contains(s, c)
  THEN IF s = <<>> THEN <<vec, count>> ELSE <<Append(vec, s), count + 1>>
  ELSE LET pos == Find(s, c)
           rest == Trim(SubSeq(s, pos + 1, Len(s)))
           field == SubSeq(s, 1, pos - 1)
       IN IF rest = <<c>>
          THEN <<vec \o <<field, <<>>, rest>>, count + 3>>
          ELSE SplitCounting(rest, c, Append(vec, field), count + 1)

\* The loop of CmdTarget::split: an empty last field is kept.
RECURSIVE SplitAllRest(_, _)
SplitAllRest(s, c) ==
  IF ~Contains(s, c) THEN <<s>>
  ELSE LET pos == Find(s, c) IN
       <<SubSeq(s, 1, pos - 1)>>
         \o SplitAllRest(Trim(SubSeq(s, pos + 1, Len(s))), c)

SplitAll(s, c) == IF s = <<>> THEN <<>> ELSE SplitAllRest(Trim(s), c)

\* The loop of Converter::replace: what was put in is not searched again.
RECURSIVE ReplaceFrom(_, _, _, _)
ReplaceFrom(s, src, dst, i) ==
  IF i > Len(s) - Len(src) + 1 THEN s
  ELSE IF SubSeq(s, i, i + Len(src) - 1) = src
  THEN ReplaceFrom(SubSeq(s, 1, i - 1) \o dst \o SubSeq(s, i + Len(src), Len(s)),
                   src, dst, i + Len(dst))
  ELSE ReplaceFrom(s, src, dst, i + 1)

-----------------------------------------------------------------------------
(* The escapes.                                                            *)

Escapes == [c \in {":", ","} |-> IF c = ":" THEN <<"%", "3", "A">>
                                 ELSE <<"%", "2", "C">>]

\* encodeData; escaped is {":"} in the subscriber socket, and {":", ","} in
\* the service socket.
EncodeData(s, escaped) ==
  FlattenSeq([i \in DOMAIN s |-> IF s[i] \in escaped THEN Escapes[s[i]]
                                 ELSE <<s[i]>>])

\* Mutant: the last three characters are not looked at.
EscapedAtMutant(s, i, c) == i < Len(s) - 2 /\ SubSeq(s, i, i + 2) = Escapes[c]

\* Position i is that of an escaped c.
EscapedAt(s, i, c) == i <= Len(s) - 2 /\ SubSeq(s, i, i + 2) = Escapes[c]

RECURSIVE DecodeFrom(_, _, _)
DecodeFrom(s, escaped, i) ==
  IF i > Len(s) THEN <<>>
  ELSE IF \E c \in escaped : EscapedAt(s, i, c)
  THEN <<CHOOSE c \in escaped : EscapedAt(s, i, c)>>
         \o DecodeFrom(s, escaped, i + 3)
  ELSE <<s[i]>> \o DecodeFrom(s, escaped, i + 1)

\* decodeData, decodeParam.  length() - 2 is unsigned: in a text "%" the
\* character behind the last one is asked for, and at throws.
Thrown == <<"thrown">>
DecodeData(s, escaped) ==
  IF s = <<"%">> THEN Thrown ELSE DecodeFrom(s, escaped, 1)

\* publish, and socketConnectHandler of the client: the value of a string
\* channel goes as a field of an "Update".  "n" stands for the fields before
\* it and "t" for the time behind it.
Published(v) == <<"n", ":">> \o EncodeData(v, {":"}) \o <<":", "t", ";">>
Received(text) ==
  LET fields == Split(Split(text, ";")[1], ":") IN
  IF Len(fields) = 3 THEN DecodeData(fields[2], {":"}) ELSE Thrown

\* A "RunService" of two parameters: its text as it is escaped for it, and
\* what call sets.
Requested(v) == <<"n", ":">> \o EncodeData(v, {":", ","}) \o <<",">>
                  \o EncodeData(v, {":", ","}) \o <<";">>
Set(text) ==
  LET params == SplitAll(Split(Split(text, ";")[1], ":")[2], ",") IN
  [i \in DOMAIN params |-> DecodeData(params[i], {":", ","})]

-----------------------------------------------------------------------------
(* UTF-8.                                                                  *)

Bits(n, low, width) == (n \div 2 ^ low) % 2 ^ width

\* The bytes of code point d: convertUtf16ToUtf8 has the first three cases.
Utf8(d) ==
  IF d <= 127 THEN <<d>>
  ELSE IF d <= 2047 THEN <<192 + Bits(d, 6, 5), 128 + Bits(d, 0, 6)>>
  ELSE IF d <= 65535
  THEN <<224 + Bits(d, 12, 4), 128 + Bits(d, 6, 6), 128 + Bits(d, 0, 6)>>
  ELSE <<240 + Bits(d, 18, 3), 128 + Bits(d, 12, 6), 128 + Bits(d, 6, 6),
         128 + Bits(d, 0, 6)>>

\* convertUtf16ToUtf8 takes 16 bits, and ends a text at 0.
ConvertUtf16ToUtf8(d) == IF d = 0 THEN <<>> ELSE Utf8(d)

Continues(s, i, n) ==
  i + n <= Len(s) /\ \A k \in 1 .. n : Bits(s[i + k], 6, 2) = 2

\* A character of three bytes.
Long(s, i) ==
  Bits(s[i], 0, 4) * 4096 + Bits(s[i + 1], 0, 6) * 64 + Bits(s[i + 2], 0, 6)

\* The last 16 bits of a character that ends with the bytes k - 2 .. k.
Low(s, k) ==
  (Bits(s[k - 2], 0, 6) * 4096 + Bits(s[k - 1], 0, 6) * 64 + Bits(s[k], 0, 6))
    % 2 ^ 16

\* convertUtf8ToUtf16 from position i on: the code points, cut to 16 bits.  The
\* sixth form is tested for by ch0 >> 2 == 0x7E, which no byte fulfils.
RECURSIVE Utf16From(_, _)
Utf16From(s, i) ==
  IF i > Len(s) THEN <<>>
  ELSE IF Bits(s[i], 7, 1) = 0 THEN <<Bits(s[i], 0, 7)>> \o Utf16From(s, i + 1)
  ELSE IF Bits(s[i], 5, 3) = 6 /\ Continues(s, i, 1)
  THEN <<Bits(s[i], 0, 5) * 64 + Bits(s[i + 1], 0, 6)>> \o Utf16From(s, i + 2)
  ELSE IF Bits(s[i], 4, 4) = 14 /\ Continues(s, i, 2)
  THEN <<Long(s, i) % 2 ^ 16>> \o Utf16From(s, i + 3)
  ELSE IF Bits(s[i], 3, 5) = 30 /\ Continues(s, i, 3)
  THEN <<Low(s, i + 3)>> \o Utf16From(s, i + 4)
  ELSE IF Bits(s[i], 2, 6) = 62 /\ Continues(s, i, 4)
  THEN <<Low(s, i + 4)>> \o Utf16From(s, i + 5)
  ELSE <<>>

\* SplitUtf8: the characters of a text, each as UTF-8.
SplitUtf8(s) ==
  LET units == Utf16From(s, 1) IN
  [i \in DOMAIN units |-> ConvertUtf16ToUtf8(units[i])]

-----------------------------------------------------------------------------
(* Bytes as text.                                                          *)

HexDigit(n) == IF n < 10 THEN 48 + n ELSE 55 + n   \* '0' is 48, 'A' is 65
Hex(b) == <<HexDigit(b \div 16), HexDigit(b % 16)>>

\* convertToString of bytes: spaces (32) between them.
ConvertToString(s) ==
  FlattenSeq([i \in DOMAIN s |-> Hex(s[i]) \o IF i < Len(s) THEN <<32>>
                                              ELSE <<>>])

\* encodeUrl: '+' (43) for a space, '%' (37) and two digits for a byte that
\* is negative as a char.
EncodeUrl(s) ==
  FlattenSeq([i \in DOMAIN s |-> IF s[i] = 32 THEN <<43>>
                                 ELSE IF s[i] < 128 THEN <<s[i]>>
                                 ELSE <<37>> \o Hex(s[i])])

\* Its reader, by the rules for forms.
Nibble(d) == IF d < 65 THEN d - 48 ELSE d - 55
RECURSIVE FormText(_)
FormText(s) ==
  IF s = <<>> THEN <<>>
  ELSE IF s[1] = 37 /\ Len(s) > 2
  THEN <<16 * Nibble(s[2]) + Nibble(s[3])>> \o FormText(SubSeq(s, 4, Len(s)))
  ELSE <<IF s[1] = 43 THEN 32 ELSE s[1]>> \o FormText(Tail(s))

-----------------------------------------------------------------------------
Values == UNION {[1 .. n -> Alphabet] : n \in 0 .. MaxText}

CodecInit == value = <<>> /\ points = <<>>

\* A value and a text are chosen.
Choose ==
  /\ codecVars = << <<>>, <<>> >>
  /\ \/ value' \in Values /\ UNCHANGED points
     \/ points' \in [1 .. 2 -> CodePoints] /\ UNCHANGED value

-----------------------------------------------------------------------------
\* The values that need no more care than the escapes give: without ";" and
\* without an escape sequence of their own, not "%" alone, no spaces outside.
Plain(v) ==
  /\ ~Contains(v, ";") /\ v # <<"%">> /\ Trim(v) = v
  /\ \A i \in DOMAIN v : \A c \in {":", ","} : ~EscapedAt(v, i, c)

\* encodeData, split, decodeData: a plain value of a string channel is at the
\* client what it was at the server, and the parameters of a service at the
\* server what they were at the client; the two forms of split agree, and
\* replace does what an escape does.  convertUtf8ToUtf16, convertUtf16ToUtf8:
\* SplitUtf8 takes a text apart into its characters, as long as they have 16
\* bits; of a longer one it keeps the lower 16, and goes on behind it.
\* encodeUrl, convertToString: the bytes can be read back, unless the text has
\* a '%' or '+' of its own.
TextExact ==
  /\ Plain(value) =>
       /\ Received(Published(value)) = value
       /\ Set(Requested(value)) = <<value, value>>
  /\ LET fields == Split(value, ":") IN
     SplitCounting(Trim(value), ":", <<>>, 0) = <<fields, Len(fields)>>
  /\ ReplaceFrom(value, <<":">>, Escapes[":"], 1) = EncodeData(value, {":"})
  /\ points # <<>> =>
       LET text == Utf8(points[1]) \o Utf8(points[2]) IN
       /\ SplitUtf8(text) =
            [i \in 1 .. 2 |-> ConvertUtf16ToUtf8(points[i] % 65536)]
       /\ ~Contains(text, 37) /\ ~Contains(text, 43)
            => FormText(EncodeUrl(text)) = text
       /\ [i \in DOMAIN text |-> 16 * Nibble(ConvertToString(text)[3 * i - 2])
                                   + Nibble(ConvertToString(text)[3 * i - 1])]
            = text
=============================================================================
