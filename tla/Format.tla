-------------------------------- MODULE Format --------------------------------
(***************************************************************************)
(* lib/str.c: number conversion, vsnprintf and the binary dumps.  A char   *)
(* is a string of length one, a text a sequence of them, and a buffer a    *)
(* function from offsets; memory behind the caller's array is part of it,  *)
(* so that writes past the array show.                                     *)
(***************************************************************************)
EXTENDS Integers, Sequences, SequencesExt

CONSTANTS
    HexDigits,          \* the width of %x: 16 in the code
    StrlenLimit         \* 65535 in the code

NUL == "NUL"
Lower == <<"0", "1", "2", "3", "4", "5", "6", "7", "8", "9", "a", "b", "c", "d", "e", "f">>
Upper == <<"0", "1", "2", "3", "4", "5", "6", "7", "8", "9", "A", "B", "C", "D", "E", "F">>

(* Mutant of reverse: one swap too few. *)
ReverseShort(str) ==
    FoldLeft(LAMBDA s, i : [s EXCEPT ![i] = s[Len(s) + 1 - i], ![Len(s) + 1 - i] = s[i]],
             str, [i \in 1 .. (Len(str) - 1) \div 2 |-> i])

(* Swaps from both ends while start < end.                                 *)
reverse(str) ==
    FoldLeft(LAMBDA s, i : [s EXCEPT ![i] = s[Len(s) + 1 - i], ![Len(s) + 1 - i] = s[i]],
             str, [i \in 1 .. Len(str) \div 2 |-> i])

(* The loop over the digits, least significant first; none for 0.          *)
Digits(num, base, chars) ==
    LET digits[n \in Nat] ==
            IF n = 0 THEN << >> ELSE <<chars[(n % base) + 1]>> \o digits[n \div base]
    IN  digits[num]

(* itoa and ltoa, which differ in their argument's width only.  Negating   *)
(* the least number is undefined, and is left out of their domain.         *)
SignedText(num, base) ==
    LET size   == IF num < 0 THEN -num ELSE num
        zero   == IF size = 0 THEN <<"0">> ELSE << >>
        sign   == IF num < 0 THEN <<"-">> ELSE << >>
    IN  reverse(zero \o Digits(size, base, Lower) \o sign)
itoa(num, base) == SignedText(num, base)
ltoa(num, base) == SignedText(num, base)

(* __ultoa and __ultoua: at least one digit, and in hexadecimal all.       *)
UnsignedText(num, base, chars) ==
    LET digits == <<chars[(num % base) + 1]>> \o Digits(num \div base, base, chars)
        pad    == IF base = 16 THEN [i \in 1 .. HexDigits - Len(digits) |-> "0"] ELSE << >>
    IN  reverse(digits \o pad)
__ultoa(num, base) == UnsignedText(num, base, Lower)
__ultoua(num, base) == UnsignedText(num, base, Upper)

-----------------------------------------------------------------------------
(* vsnprintf.  `st` is the loop's state: the buffer, bufferIndex, the      *)
(* arguments left, how many characters of the format are still to be      *)
(* skipped, and whether the loop was left.                                 *)

Put(buffer, at, str) ==
    [k \in DOMAIN buffer |-> IF k - at \in 0 .. Len(str) - 1 THEN str[k - at + 1] ELSE buffer[k]]

(* A conversion writes its text, a number's also a terminator, without any *)
(* regard to the buffer's size.                                            *)
Convert(st, str, skip) ==
    [st EXCEPT !.buffer = Put(@, st.bufferIndex, str),
               !.bufferIndex = @ + Len(SelectSeq(str, LAMBDA ch : ch # NUL)),
               !.args = Tail(@), !.skip = skip]

(* Mutant of Number: the terminator is written one byte too far. *)
NumberFar(st, str, skip) ==
    LET end == st.bufferIndex + Len(str) + 1
    IN  Convert([st EXCEPT !.buffer = Put(@, end, <<NUL>>)], str, skip)

Number(st, str, skip) == Convert(st, Append(str, NUL), skip)

(* The specifier at format[i]; `next` is format[i + 1].                    *)
Specifier(st, ch, next) ==
    LET arg == Head(st.args)
    IN  CASE ch = "d" -> Number(st, itoa(arg, 10), 1)
          [] ch = "x" -> Number(st, __ultoa(arg, 16), 1)
          [] ch = "X" -> Number(st, __ultoua(arg, 16), 1)
          [] ch = "s" -> Convert(st, arg, 1)
          [] ch = "c" -> Convert(st, <<arg>>, 1)
          [] ch = "l" /\ next = "u" -> Number(st, __ultoa(arg, 10), 2)
          [] ch = "l" /\ next = "d" -> Number(st, ltoa(arg, 10), 2)
          [] OTHER -> [st EXCEPT !.skip = 1]

Literal(st, size, ch) ==
    IF st.bufferIndex < size - 1
      THEN [st EXCEPT !.buffer = Put(@, st.bufferIndex, <<ch>>), !.bufferIndex = @ + 1]
      ELSE [st EXCEPT !.left = TRUE]

Terminate(buffer, size, index) ==
    IF index < size THEN [buffer EXCEPT ![index] = NUL] ELSE [buffer EXCEPT ![size - 1] = NUL]

vsnprintf(buffer, size, format, args) ==
    LET At(i) == IF i <= Len(format) THEN format[i] ELSE NUL
        Step(st, i) ==
            IF st.left THEN st
            ELSE IF st.skip > 0 THEN [st EXCEPT !.skip = @ - 1]
            ELSE IF format[i] = "%" THEN Specifier(st, At(i + 1), At(i + 2))
            ELSE Literal(st, size, format[i])
        end == FoldLeftDomain(Step, [buffer |-> buffer, bufferIndex |-> 0, args |-> args,
                                     skip |-> 0, left |-> FALSE], format)
    IN  [buffer |-> Terminate(end.buffer, size, end.bufferIndex), ret |-> end.bufferIndex]

snprintf(buffer, size, format, args) == vsnprintf(buffer, size, format, args)

(* strlen; -1 if there is no terminator within the limit.                  *)
strlen(buffer) ==
    LET ends == {k \in DOMAIN buffer : k < StrlenLimit /\ buffer[k] = NUL}
    IN  IF ends = {} THEN -1 ELSE CHOOSE k \in ends : \A j \in ends : k <= j

CString(buffer) == [k \in 1 .. strlen(buffer) |-> buffer[k - 1]]

(* kprintf formats into its own array, and hands the text to tprintf,      *)
(* where it is a format again, without arguments.                          *)
kprintf(buffer, size, format, args) ==
    CString(vsnprintf(buffer, size,
                      CString(vsnprintf(buffer, size, format, args).buffer), << >>).buffer)

-----------------------------------------------------------------------------
(* The binary dumps.  A word is the set of its 1 bits.                     *)

BitChar(ch, bit) == IF bit \in ch THEN "1" ELSE "0"

sprint_binary8(ch) == [k \in 1 .. 8 |-> BitChar(ch, 8 - k)] \o <<NUL>>

Grouped(ch, width) ==
    FoldLeft(LAMBDA str, bitIndex :
                 LET bit == <<BitChar(ch, width - 1 - bitIndex)>>
                 IN  IF (bitIndex + 1) % 8 = 0 /\ bitIndex # width - 1
                       THEN str \o bit \o <<" ">> ELSE str \o bit,
             << >>, [k \in 1 .. width |-> k - 1])

(* The terminator is written first, at a fixed offset.                     *)
DumpInto(str, end) == [k \in 1 .. end + 1 |-> IF k = end + 1 THEN NUL
                                              ELSE IF k <= Len(str) THEN str[k] ELSE "?"]
sprint_binary16(ch) == DumpInto(Grouped(ch, 16), 17)
sprint_binary32(ch) == DumpInto(Grouped(ch, 32), 35)
sprint_binary64(ch) == DumpInto(Grouped(ch, 64), 71)
=============================================================================
