------------------------------ MODULE Snprintf ------------------------------
(* vsnprintf of lib/libc/snprintf.c, the formatter behind kprintf and panic. *)
(* One action handles one case of the switch; set_ch, which may end the call *)
(* at any character, is folded over the text that the case produces.         *)
EXTENDS Integers, Sequences, SequencesExt

CONSTANTS
  Formats,  \* formats: sequences of one-character strings, each directive whole
  Sizes,    \* values of size, at least 1
  Ints,     \* arguments for %d
  Nats,     \* arguments for %o, %x, %p and %u
  Texts,    \* arguments for %s, as sequences of characters
  PWidth    \* the width of %p: 8, or 16 on a 64-bit machine

VARIABLES
  fmt, size,     \* the arguments; fmt is what is left of the format
  mode,          \* "text", "fmt_loop" after a '%', "done", "said" by panic
  flag, width,   \* flag is a set
  str, ret,      \* the bytes written so far (pos is its length) and the result
  last,          \* the argument converted last, and its text
  want,          \* all the text that the format stands for
  said           \* what panic sent to the console
snvars == <<fmt, size, mode, flag, width, str, ret, last, want, said>>

NUL == "NUL"
None == [conv |-> "none"]

Digits == <<"0", "1", "2", "3", "4", "5", "6", "7", "8", "9", "a", "b", "c", "d", "e", "f">>
Decimal == [i \in 1 .. 10 |-> Digits[i]]
DigitValue(ch) == CHOOSE i \in 0 .. 15 : Digits[i + 1] = ch

SnInit == /\ fmt \in Formats /\ size \in Sizes
          /\ mode = "text" /\ flag = {} /\ width = 0
          /\ str = <<>> /\ ret = -1 /\ last = None /\ want = <<>> /\ said = <<>>

-----------------------------------------------------------------------------
\* Mutant: the test for a full buffer one character late.
set_chLate(text) ==
  IF Len(str \o text) <= size THEN [str |-> str \o text, ret |-> -1]
  ELSE [str |-> Append(SubSeq(str \o text, 1, size), NUL), ret |-> size]

\* The macro, for each character of a text: store, and if the buffer is full
\* terminate it and return size.
set_ch(text) ==
  IF Len(str \o text) < size THEN [str |-> str \o text, ret |-> -1]
  ELSE [str |-> Append(SubSeq(str \o text, 1, size - 1), NUL), ret |-> size]

Emit(text, rest, next) ==
  LET b == set_ch(text)
  IN  /\ str' = b.str /\ ret' = b.ret
      /\ mode' = IF b.ret # -1 THEN "done" ELSE next
      /\ fmt' = rest /\ want' = want \o text

\* buf: the digits of the number, least significant first.
RECURSIVE buf(_, _)
buf(uval, base) ==
  IF uval < base THEN <<Digits[uval + 1]>>
  ELSE <<Digits[(uval % base) + 1]>> \o buf(uval \div base, base)

\* print_uint.  "flag | FLAG_ZEROPAD" is always true, so a width always means
\* zeros; digits beyond the width are dropped, the high ones first.
Number(uval, base, neg, w) ==
  LET b == buf(uval, base)
  IN  (IF neg THEN <<"-">> ELSE <<>>) \o
      IF w = 0 THEN Reverse(b)
      ELSE [i \in 1 .. w |-> IF w - i >= Len(b) THEN "0" ELSE b[w - i + 1]]

Base(conv) == CASE conv \in {"d", "u"} -> 10 [] conv = "o" -> 8 [] OTHER -> 16

\* After a conversion flag and width are reset.
Converted(conv, val, w, text) ==
  /\ Emit(text, Tail(fmt), "text")
  /\ flag' = {} /\ width' = 0
  /\ last' = [conv |-> conv, val |-> val, width |-> w, text |-> text]
  /\ UNCHANGED <<size, said>>

PrintInt ==
  /\ mode = "fmt_loop" /\ Head(fmt) = "d"
  /\ \E v \in Ints :
       Converted("d", v, width, Number(IF v < 0 THEN -v ELSE v, 10, v < 0, width))

PrintUint ==
  /\ mode = "fmt_loop" /\ Head(fmt) \in {"o", "x", "u", "p"}
  /\ LET w == IF Head(fmt) = "p" THEN PWidth ELSE width
     IN  \E v \in Nats :
           Converted(Head(fmt), v, w, Number(v, Base(Head(fmt)), FALSE, w))

PrintChar ==
  /\ mode = "fmt_loop" /\ Head(fmt) \in {"c", "%"}
  /\ \E ch \in IF Head(fmt) = "c" THEN {"a"} ELSE {"%"} :
       Converted(Head(fmt), ch, width, <<ch>>)

PrintString ==
  /\ mode = "fmt_loop" /\ Head(fmt) = "s"
  /\ \E t \in Texts :
       Converted("s", t, width,
                 t \o [i \in 1 .. (IF width > Len(t) THEN width - Len(t) ELSE 0) |-> " "])

ZeroFlag ==
  /\ mode = "fmt_loop" /\ Head(fmt) = "0"
  /\ flag' = flag \cup {"ZEROPAD"} /\ fmt' = Tail(fmt)
  /\ UNCHANGED <<size, mode, width, str, ret, last, want, said>>

\* The loop over all the digits that follow.
Width ==
  /\ mode = "fmt_loop" /\ Head(fmt) \in Range(Decimal) \ {"0"}
  /\ LET n == CHOOSE k \in 1 .. Len(fmt) :
                /\ \A i \in 1 .. k : fmt[i] \in Range(Decimal)
                /\ k = Len(fmt) \/ fmt[k + 1] \notin Range(Decimal)
     IN  /\ width' = FoldLeft(LAMBDA w, ch : 10 * w + DigitValue(ch), width,
                              SubSeq(fmt, 1, n))
         /\ fmt' = SubSeq(fmt, n + 1, Len(fmt))
  /\ UNCHANGED <<size, mode, flag, str, ret, last, want, said>>

\* The default case prints '%' and the character, and keeps flag and width.
Unknown ==
  /\ mode = "fmt_loop"
  /\ Head(fmt) \notin {"d", "o", "x", "u", "p", "c", "s", "%"} \cup Range(Decimal)
  /\ Emit(<<"%", Head(fmt)>>, Tail(fmt), "text")
  /\ UNCHANGED <<size, flag, width, last, said>>

Plain ==
  /\ mode = "text" /\ fmt # <<>>
  /\ IF Head(fmt) = "%"
     THEN /\ mode' = "fmt_loop" /\ fmt' = Tail(fmt)
          /\ UNCHANGED <<str, ret, want>>
     ELSE Emit(<<Head(fmt)>>, Tail(fmt), "text")
  /\ UNCHANGED <<size, flag, width, last, said>>

\* set_ch('\0'), which returns size when the text just fits, and "--pos".
Finish ==
  /\ mode = "text" /\ fmt = <<>>
  /\ LET b == set_ch(<<NUL>>)
     IN  /\ str' = b.str
         /\ ret' = IF b.ret # -1 THEN b.ret ELSE Len(b.str) - 1
  /\ mode' = "done"
  /\ UNCHANGED <<fmt, size, flag, width, last, want, said>>

\* panic: its buffer of size bytes is printed up to the terminator, after a
\* warning when the result says that it was too small; then __panic loops.
panic ==
  /\ mode = "done"
  /\ said' = <<"KERNEL PANIC">> \o (IF ret >= size THEN <<"truncated">> ELSE <<>>)
             \o SubSeq(str, 1, (CHOOSE i \in 1 .. Len(str) :
                                  str[i] = NUL /\ NUL \notin {str[j] : j \in 1 .. i - 1}) - 1)
  /\ mode' = "said"
  /\ UNCHANGED <<fmt, size, flag, width, str, ret, last, want>>

SnNext == \/ panic \/ PrintInt \/ PrintUint \/ PrintChar \/ PrintString \/ ZeroFlag
          \/ Width \/ Unknown \/ Plain \/ Finish

Spec == SnInit /\ [][SnNext]_snvars

-----------------------------------------------------------------------------
\* vsnprintf never writes past size bytes, and when it returns the buffer holds
\* the text that fits, terminated; the result is the length of the text, or
\* size when the text with its terminator fills the buffer or is cut.  So panic
\* prints the message, and never cuts it without saying so.
BufferKept ==
  /\ Len(str) <= size
  /\ mode \in {"done", "said"} =>
       LET n == IF Len(want) < size THEN Len(want) ELSE size - 1
       IN  /\ str = Append(SubSeq(want, 1, n), NUL)
           /\ ret = IF Len(want) < size - 1 THEN Len(want) ELSE size
           /\ mode = "said" => /\ IsSuffix(SubSeq(want, 1, n), said)
                               /\ n < Len(want) => said[2] = "truncated"

MaxDigits == 6  \* arguments are below 8^MaxDigits

\* The text of a number is its digits in the base of the conversion, without
\* leading zeros if there is no width, else as many of the low ones as the width
\* says, besides the sign.
NumbersReadBack ==
  last.conv \in {"d", "o", "x", "u", "p"} =>
    LET neg    == last.val < 0
        mag    == IF neg THEN -last.val ELSE last.val
        digits == IF neg THEN Tail(last.text) ELSE last.text
        n      == Len(digits)
        base   == Base(last.conv)
    IN  /\ neg => last.text[1] = "-"
        /\ last.width > 0 => n = last.width
        /\ last.width = 0 => mag < base ^ n /\ (digits[1] # "0" \/ mag = 0)
        /\ \A i \in 1 .. n :
             DigitValue(digits[i]) = IF n - i > MaxDigits THEN 0 ELSE (mag \div base ^ (n - i)) % base
=============================================================================
