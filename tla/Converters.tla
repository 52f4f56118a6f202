----------------------------- MODULE Converters -----------------------------
(***************************************************************************)
(* Values of fields in network byte order and their texts                  *)
(* (include/libfds/converters.h, src/converters/converters.c).             *)
(*                                                                         *)
(* A field is a sequence of bytes.  A setter returns [rc, field], a getter *)
(* [rc, value], a conversion to text [rc, text], where a text is a         *)
(* sequence of pieces <<kind, value, number of characters>>.  Numbers are  *)
(* words of 64 bits, a time is [sec, nsec] of two words.  Floating point   *)
(* is left out.                                                            *)
(***************************************************************************)
EXTENDS Integers, Sequences

-----------------------------------------------------------------------------
(* Numbers of 64 bits as C computes with them: sequences of eight bytes, the *)
(* highest first; results are taken modulo 2^64.  TLC's own numbers have 32  *)
(* bits.                                                                     *)

WordLen == 8
Repeat(byte, n) == <<>> \o [i \in 1..n |-> byte]
ZeroWord == Repeat(0, WordLen)

\* A word of the last bytes, the others being equal to one byte.
Widened(bytes, byte) == Repeat(byte, WordLen - Len(bytes)) \o bytes
LowBytes(w, n) == SubSeq(w, WordLen - n + 1, WordLen)
Negative(w) == w[1] >= 128

\* A word of a number of 31 bits, and the number of a word that has no more.
WordOf(n) == Widened(<<n \div 16777216, (n \div 65536) % 256, (n \div 256) % 256, n % 256>>, 0)
NumberOf(w) == 16777216 * w[5] + 65536 * w[6] + 256 * w[7] + w[8]

\* A word of the lowest bytes of eight sums.  (As a tuple TLC computes it at
\* once; of a function it would compute each byte anew whenever it is used.)
Bytes(s) ==
  <<s[1] % 256, s[2] % 256, s[3] % 256, s[4] % 256, s[5] % 256, s[6] % 256, s[7] % 256, s[8] % 256>>

\* The sum of two words and a carry.
AddWith(v, w, carry) ==
  LET sum[i \in 1..(WordLen + 1)] ==
        IF i > WordLen THEN 256 * carry ELSE v[i] + w[i] + sum[i + 1] \div 256
  IN  Bytes(sum)
AddW(v, w) == AddWith(v, w, 0)
\* Two's complement.
SubW(v, w) == AddWith(v, Bytes([i \in 1..WordLen |-> 255 - w[i]]), 1)
NegateW(w) == SubW(ZeroWord, w)

\* Product with, and quotient and remainder by, a number up to 10^4.
MulW(w, k) ==
  LET sum[i \in 1..(WordLen + 1)] == IF i > WordLen THEN 0 ELSE w[i] * k + sum[i + 1] \div 256
  IN  Bytes(sum)
DivW(w, k) ==
  LET rest[i \in 0..WordLen] == IF i = 0 THEN 0 ELSE (rest[i - 1] * 256 + w[i]) % k
  IN  [q |-> Bytes([i \in 1..WordLen |-> (rest[i - 1] * 256 + w[i]) \div k]), r |-> rest[WordLen]]

\* Shifts by 32 bits.
Left32(w) == LowBytes(w, 4) \o Repeat(0, 4)
Right32(w) == Repeat(0, 4) \o SubSeq(w, 1, 4)

\* v < w, of numbers without a sign.
LessW(v, w) ==
  \E i \in 1..WordLen : v[i] < w[i] /\ \A j \in 1..(i - 1) : v[j] = w[j]

-----------------------------------------------------------------------------
(* Results of a call. *)

Fault(rc) == [rc |-> rc]
Is(value) == [rc |-> "OK", value |-> value]
Written(rc, field) == [rc |-> rc, field |-> field]

-----------------------------------------------------------------------------
(* Integers *)

IntSizes == 1..WordLen

\* fds_set_uint_be(): what does not fit is replaced by the greatest number.
SetUint(size, value) ==
  IF size \notin IntSizes THEN Fault("ARG")
  ELSE IF Widened(LowBytes(value, size), 0) = value THEN Written("OK", LowBytes(value, size))
  ELSE Written("TRUNC", Repeat(255, size))

\* Mutant: the highest bit of the field is taken for one of the number's.
FitsIntUnsigned(size, value) ==
  \E byte \in {0, 255} : Widened(LowBytes(value, size), byte) = value
\* A word keeps its value in fewer bytes when the rest repeats its sign.
SignByte(bytes) == IF bytes[1] >= 128 THEN 255 ELSE 0
FitsInt(size, value) ==
  Widened(LowBytes(value, size), SignByte(LowBytes(value, size))) = value

\* fds_set_int_be(): the nearest number that fits.
SetInt(size, value) ==
  IF size \notin IntSizes THEN Fault("ARG")
  ELSE IF FitsInt(size, value) THEN Written("OK", LowBytes(value, size))
  ELSE Written("TRUNC", IF Negative(value) THEN <<128>> \o Repeat(0, size - 1)
                        ELSE <<127>> \o Repeat(255, size - 1))

\* fds_get_uint_be(), fds_get_int_be()
GetUint(field) == IF Len(field) \notin IntSizes THEN Fault("ARG") ELSE Is(Widened(field, 0))
GetInt(field) == IF Len(field) \notin IntSizes THEN Fault("ARG") ELSE Is(Widened(field, SignByte(field)))

-----------------------------------------------------------------------------
(* Times *)

TimeTypes == {"seconds", "milliseconds", "microseconds", "nanoseconds"}
\* Seconds from 1900, where time stamps of NTP start, to 1970.
EpochsDiff == <<0, 0, 0, 0, 131, 170, 126, 128>>

TimeSize(size, type) == size = (IF type = "seconds" THEN 4 ELSE 8)

\* The last 11 bits of a fraction of a second have no meaning in microseconds.
Fraction(type, bytes) ==
  IF type = "microseconds" THEN <<bytes[1], bytes[2], bytes[3] - (bytes[3] % 8), 0>> ELSE bytes
NtpField(type, seconds, fraction) ==
  LowBytes(AddW(seconds, EpochsDiff), 4) \o Fraction(type, LowBytes(fraction, 4))
NtpSeconds(field) == SubW(Widened(SubSeq(field, 1, 4), 0), EpochsDiff)
NtpFraction(type, field) == Widened(Fraction(type, SubSeq(field, 5, 8)), 0)

\* fds_set_datetime_lp_be(): a number of milliseconds
SetTimeLp(size, type, value) ==
  LET second == DivW(value, 1000)
  IN  IF type \notin TimeTypes \/ ~TimeSize(size, type) THEN Fault("ARG")
      ELSE Written("OK",
             CASE type = "seconds" -> LowBytes(second.q, 4)
               [] type = "milliseconds" -> value
               [] OTHER -> NtpField(type, second.q, DivW(Left32(WordOf(second.r)), 1000).q))

Milli(w) == DivW(w, 1000).q
Kilo(w) == MulW(w, 1000)

\* fds_set_datetime_hp_be(): seconds and nanoseconds
SetTimeHp(size, type, ts) ==
  IF type \notin TimeTypes \/ ~TimeSize(size, type) THEN Fault("ARG")
  ELSE Written("OK",
         CASE type = "seconds" -> LowBytes(ts.sec, 4)
           [] type = "milliseconds" -> AddW(Kilo(ts.sec), Milli(Milli(ts.nsec)))
           [] OTHER -> NtpField(type, ts.sec, Milli(Milli(Milli(Left32(ts.nsec))))))

\* fds_get_datetime_lp_be()
GetTimeLp(type, field) ==
  IF type \notin TimeTypes \/ ~TimeSize(Len(field), type) THEN Fault("ARG")
  ELSE Is(CASE type = "seconds" -> Kilo(Widened(field, 0))
            [] type = "milliseconds" -> field
            [] OTHER -> AddW(Kilo(NtpSeconds(field)), Right32(Kilo(NtpFraction(type, field)))))

\* Mutant: nanoseconds are cut off, not rounded.
CutHalf(w) == DivW(w, 2).q
\* A number of halves, rounded up.
RoundHalf(w) == DivW(AddW(w, WordOf(w[WordLen] % 2)), 2).q

\* fds_get_datetime_hp_be()
GetTimeHp(type, field) ==
  IF type \notin TimeTypes \/ ~TimeSize(Len(field), type) THEN Fault("ARG")
  ELSE Is(CASE type = "seconds" -> [sec |-> Widened(field, 0), nsec |-> ZeroWord]
            [] type = "milliseconds" ->
                 [sec |-> Milli(field), nsec |-> Kilo(Kilo(WordOf(DivW(field, 1000).r)))]
            [] OTHER ->
                 [sec |-> NtpSeconds(field),
                  nsec |-> RoundHalf(Right32(MulW(Kilo(Kilo(Kilo(NtpFraction(type, field)))), 2)))])

-----------------------------------------------------------------------------
(* Truth values, addresses, bytes and strings *)

\* fds_set_bool(), fds_get_bool()
SetBool(size, value) == IF size # 1 THEN Fault("ARG") ELSE Written("OK", <<IF value THEN 1 ELSE 2>>)
GetBool(field) == IF field \notin {<<1>>, <<2>>} THEN Fault("ARG") ELSE Is(field = <<1>>)

\* The others copy the bytes of a value, given the sizes they take:
\* fds_set_ip(), fds_set_mac(), fds_set_octet_array(), fds_set_string() and
\* the getters of the same names, which do take no bytes and any string.
SetBytes(sizes, value) == IF Len(value) \notin sizes THEN Fault("ARG") ELSE Written("OK", value)
GetBytes(sizes, field) == IF Len(field) \notin sizes THEN Fault("ARG") ELSE Is(field)
IpSizes == {4, 16}
MacSizes == {6}
ArraySizes == 1..65535

-----------------------------------------------------------------------------
(* Texts *)

Piece(kind, value, chars) == <<kind, value, chars>>
Chars(text) ==
  LET sum[i \in 0..Len(text)] == IF i = 0 THEN 0 ELSE sum[i - 1] + text[i][3]
  IN  sum[Len(text)]
Text(text) == [rc |-> "OK", text |-> text]
\* A text and the null byte behind it fit the room.
InRoom(text, room) == IF Chars(text) + 1 > room THEN Fault("BUFFER") ELSE Text(text)

RoomInt == 21
RoomMac == 18
RoomIp4 == 16
RoomIp6 == 46

(* Digits, src/converters/branchlut2.h: by two and two, with no zeros before *)
(* the first                                                                 *)
Middle2(n) == <<n \div 10, n % 10>>
Begin2(n) == IF n < 10 THEN <<n>> ELSE Middle2(n)
Middle4(n) == Middle2(n \div 100) \o Middle2(n % 100)
Begin4(n) == IF n < 100 THEN Begin2(n) ELSE Begin2(n \div 100) \o Middle2(n % 100)
Begin8(hi, lo) == IF hi = 0 THEN Begin4(lo) ELSE Begin4(hi) \o Middle4(lo)
Middle8(hi, lo) == Middle4(hi) \o Middle4(lo)
\* A number of five digits to the base of 10^4.
Digits(e, d, c, b, a) ==
  IF e = 0 /\ d = 0 /\ c = 0 THEN Begin8(b, a)
  ELSE IF e = 0 THEN Begin8(d, c) \o Middle8(b, a)
  ELSE Begin4(e) \o Middle8(d, c) \o Middle8(b, a)
\* u64toa_branchlut2()
Utoa(w) ==
  LET a == DivW(w, 10000)
      b == DivW(a.q, 10000)
      c == DivW(b.q, 10000)
      d == DivW(c.q, 10000)
      e == DivW(d.q, 10000)
  IN  Digits(e.r, d.r, c.r, b.r, a.r)

Number(sign, digits) == Piece("number", <<sign, digits>>, Len(sign) + Len(digits))
Unsigned(w) == Number("", Utoa(w))
\* i64toa_branchlut2(): the absolute value, the least number included.
Signed(w) == IF Negative(w) THEN Number("-", Utoa(NegateW(w))) ELSE Unsigned(w)

\* fds_uint2str_be(), fds_int2str_be(): room for any number is asked for.
Uint2Str(field, room) ==
  IF GetUint(field).rc # "OK" THEN Fault("ARG")
  ELSE IF room < RoomInt THEN Fault("BUFFER") ELSE Text(<<Unsigned(GetUint(field).value)>>)
Int2Str(field, room) ==
  IF GetInt(field).rc # "OK" THEN Fault("ARG")
  ELSE IF room < RoomInt THEN Fault("BUFFER") ELSE Text(<<Signed(GetInt(field).value)>>)

\* Mutant: the null byte is forgotten.
BoolInRoomExactly(text, room) == IF Chars(text) > room THEN Fault("BUFFER") ELSE Text(text)
BoolInRoom(text, room) == InRoom(text, room)
\* fds_bool2str()
Bool2Str(field, room) ==
  LET value == GetBool(SubSeq(field, 1, 1))
  IN  IF value.rc # "OK" THEN Fault("ARG")
      ELSE BoolInRoom(<<Piece("bool", value.value, IF value.value THEN 4 ELSE 5)>>, room)

\* Number of digits below a second that a format shows, by its name.
FractionWidth == [sec |-> 0, msec |-> 3, usec |-> 6, nsec |-> 9]
\* Length of what strftime() writes for date and time, for years of 4 digits.
DateLen == 19
ZoneLen(zone) == IF zone = "utc" THEN 1 ELSE 5

\* A part of a second in so many digits.  printf() pads it with zeros, it does
\* not cut it.
Padded(width, digits) == Repeat(0, width - Len(digits)) \o digits
FractionText(width, digits) ==
  IF width = 0 THEN <<>> ELSE <<Piece("fraction", digits, 1 + Len(digits))>>

\* fds_datetime2str_be(): date and time, the fraction, the zone
Datetime2Str(field, type, fmt, zone, room) ==
  LET ts == GetTimeHp(type, field)
      cut == CASE fmt = "nsec" -> ts.value.nsec
               [] fmt = "usec" -> Milli(ts.value.nsec)
               [] OTHER -> Milli(Milli(ts.value.nsec))
      width == FractionWidth[fmt]
  IN  IF ts.rc # "OK" THEN Fault("ARG")
      ELSE InRoom(<<Piece("date", ts.value.sec, DateLen)>> \o FractionText(width, Padded(width, Utoa(cut)))
                    \o <<Piece("zone", zone, ZoneLen(zone))>>, room)

\* fds_mac2str()
Mac2Str(field, room) ==
  IF GetBytes(MacSizes, field).rc # "OK" THEN Fault("ARG")
  ELSE IF room < RoomMac THEN Fault("BUFFER")
  ELSE Text(<<Piece("mac", field, 17)>>)

\* What inet_ntop() writes for an address that has no two zero groups in a row.
HexDigits(n) == IF n < 16 THEN 1 ELSE IF n < 256 THEN 2 ELSE IF n < 4096 THEN 3 ELSE 4
Ip6Len(field) ==
  LET sum[i \in 0..8] ==
        IF i = 0 THEN 7 ELSE sum[i - 1] + HexDigits(256 * field[2 * i - 1] + field[2 * i])
  IN  sum[8]

\* fds_ip2str()
Ip2Str(field, room) ==
  LET octet(i) == Begin4(field[i])
      len == 3 + Len(octet(1)) + Len(octet(2)) + Len(octet(3)) + Len(octet(4))
  IN  CASE Len(field) = 4 ->
             IF room < RoomIp4 THEN Fault("BUFFER")
             ELSE Text(<<Piece("ip4", [i \in 1..4 |-> octet(i)], len)>>)
        [] Len(field) = 16 -> InRoom(<<Piece("ip6", field, Ip6Len(field))>>, room)
        [] OTHER -> Fault("ARG")

\* fds_octet_array2str(): two digits a byte
OctetArray2Str(field, room) == InRoom(<<Piece("hex", field, 2 * Len(field))>>, room)

-----------------------------------------------------------------------------
(* Strings *)

Continues(bytes, p) == p <= Len(bytes) /\ bytes[p] \div 64 = 2
\* utf8char_is_valid(): bytes of the character that starts at p, 0 if it is none.
Utf8Len(bytes, p) ==
  LET first == bytes[p]
      len == CASE first < 128 -> 1
               [] first \div 32 = 6 -> 2
               [] first \div 16 = 14 -> 3
               [] first \div 8 = 30 -> 4
               [] OTHER -> 0
  IN  IF \A i \in 1..(len - 1) : Continues(bytes, p + i) THEN len ELSE 0
\* utf8char_is_control(), of a character's first byte
IsControl(byte) == byte <= 31 \/ byte = 127 \/ byte \in 128..159
\* utf8char_is_escapable(): \a \b \t \n \v \f \r
Escapable == 7..13

Replacement == Piece("replaced", <<>>, 3)
\* How fds_string2str() writes the character at p.
Str2StrPiece(bytes, p) ==
  LET byte == bytes[p]
      len == Utf8Len(bytes, p)
  IN  CASE byte \in Escapable -> Piece("escaped", byte, 2)
        [] byte \notin Escapable /\ IsControl(byte) -> Piece("hexescaped", byte, 4)
        [] ~IsControl(byte) /\ len = 0 -> Replacement
        [] OTHER -> Piece("char", SubSeq(bytes, p, p + len - 1), len)

\* The pieces of a string, character after character; a byte of no valid
\* character is one of its own.
Pieces(bytes, PieceAt(_, _)) ==
  LET from[p \in 1..(Len(bytes) + 4)] ==
        IF p > Len(bytes) THEN <<>>
        ELSE <<PieceAt(bytes, p)>> \o from[p + (IF Utf8Len(bytes, p) = 0 THEN 1 ELSE Utf8Len(bytes, p))]
  IN  from[1]

\* fds_string2str()
String2Str(field, room) ==
  IF Len(field) + 1 > room THEN Fault("BUFFER") ELSE InRoom(Pieces(field, Str2StrPiece), room)

\* fds_string_utf8check()
Utf8Check(field) ==
  LET good(bytes, p) == Utf8Len(bytes, p) > 0
      checks == Pieces(field, good)
  IN  IF \A i \in DOMAIN checks : checks[i] THEN "OK" ELSE "ARG"

-----------------------------------------------------------------------------
(* Any type *)

UintTypes == {"unsigned8", "unsigned16", "unsigned32", "unsigned64"}
IntTypes == {"signed8", "signed16", "signed32", "signed64"}
TimeFormat == [seconds |-> "sec", milliseconds |-> "msec", microseconds |-> "usec", nanoseconds |-> "nsec"]

\* fds_field2str_be()
Field2Str(field, type, room) ==
  CASE type = "octetArray" -> OctetArray2Str(field, room)
    [] type \in UintTypes -> Uint2Str(field, room)
    [] type \in IntTypes -> Int2Str(field, room)
    [] type = "boolean" -> IF Len(field) # 1 THEN Fault("ARG") ELSE Bool2Str(field, room)
    [] type = "macAddress" -> Mac2Str(field, room)
    [] type = "string" -> String2Str(field, room)
    [] type \in TimeTypes -> Datetime2Str(field, type, TimeFormat[type], "utc", room)
    [] type = "ipv4Address" -> IF Len(field) # 4 THEN Fault("ARG") ELSE Ip2Str(field, room)
    [] type = "ipv6Address" -> IF Len(field) # 16 THEN Fault("ARG") ELSE Ip2Str(field, room)
    [] OTHER -> Fault("FORMAT")
=============================================================================
