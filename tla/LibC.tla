-------------------------------- MODULE LibC --------------------------------
(* lib/libc: memcpy, memset (generic and i386) and strcmp, one call at a     *)
(* time.  A step of memcpy is one round of one of its loops.                 *)
EXTENDS Integers, Sequences, FiniteSets

CONSTANTS
  wsize,     \* sizeof(word)
  Top,       \* memory is the bytes 0 .. Top - 1
  Chars,     \* values of the characters of strings, as unsigned bytes
  MaxString  \* longest string, without the terminating 0

VARIABLES ram, old, call
libcvars == <<ram, old, call>>

Addresses == 0 .. Top - 1
Idle == [pc |-> "idle"]

\* A string in memory: its characters, then 0.
Strings == {Append(s, 0) : s \in UNION {[1 .. n -> Chars] : n \in 0 .. MaxString}}

LibcInit == /\ ram = [a \in Addresses |-> a + 1000]
            /\ old = ram
            /\ call = Idle

-----------------------------------------------------------------------------
\* memcpy is called with two areas that do not overlap, or with the same one.
CallMemcpy ==
  /\ call.pc = "idle"
  /\ \E d, s \in Addresses, n \in 0 .. Top :
       /\ d + n <= Top /\ s + n <= Top
       /\ d = s \/ d + n <= s \/ s + n <= d
       /\ call' = [pc |-> IF n = 0 \/ d = s THEN "done" ELSE "align", fn |-> "memcpy",
                   dst0 |-> d, src0 |-> s, n |-> n,
                   dst |-> d, src |-> s, length |-> n, t |-> 0, c |-> 0]
  /\ UNCHANGED <<ram, old>>

Aligned(a) == a % wsize = 0

\* Mutant: the bytes up to the alignment are counted one too few.
LeadShort(c) ==
  IF c.dst % wsize # c.src % wsize \/ c.length < wsize
  THEN c.length ELSE wsize - (c.src % wsize) - 1

\* How many bytes to copy before both addresses are aligned; all of them when
\* they never are.
Lead(c) ==
  IF c.dst % wsize # c.src % wsize \/ c.length < wsize
  THEN c.length ELSE wsize - (c.src % wsize)

\* "if ((t | (long)dst) & wmask)": the head, which is never empty here.
MemcpyAlign ==
  /\ call.pc = "align"
  /\ call' = IF Aligned(call.src) /\ Aligned(call.dst)
             THEN [call EXCEPT !.pc = "words", !.t = call.length \div wsize]
             ELSE [call EXCEPT !.pc = "head", !.t = Lead(call),
                               !.length = call.length - Lead(call)]
  /\ UNCHANGED <<ram, old>>

\* TLOOP1(*dst++ = *src++) for the head, which tests after the round.
CopyHead ==
  /\ call.pc = "head"
  /\ ram' = [ram EXCEPT ![call.dst] = ram[call.src]]
  /\ call' = [call EXCEPT !.dst = @ + 1, !.src = @ + 1,
                          !.pc = IF call.t = 1 THEN "words" ELSE @,
                          !.t = IF call.t = 1 THEN call.length \div wsize ELSE @ - 1]
  /\ UNCHANGED old

CopyWord ==
  /\ call.pc = "words" /\ call.t > 0
  /\ ram' = [a \in Addresses |-> IF a - call.dst \in 0 .. wsize - 1
                                 THEN ram[call.src + a - call.dst] ELSE ram[a]]
  /\ call' = [call EXCEPT !.dst = @ + wsize, !.src = @ + wsize, !.t = @ - 1]
  /\ UNCHANGED old

MemcpyWordsOver ==
  /\ call.pc = "words" /\ call.t = 0
  /\ call' = [call EXCEPT !.pc = "tail", !.t = call.length % wsize]
  /\ UNCHANGED <<ram, old>>

CopyTail ==
  /\ call.pc = "tail" /\ call.t > 0
  /\ ram' = [ram EXCEPT ![call.dst] = ram[call.src]]
  /\ call' = [call EXCEPT !.dst = @ + 1, !.src = @ + 1, !.t = @ - 1]
  /\ UNCHANGED old

MemcpyOver ==
  /\ call.pc = "tail" /\ call.t = 0
  /\ call' = [call EXCEPT !.pc = "done"]
  /\ UNCHANGED <<ram, old>>

-----------------------------------------------------------------------------
\* memset: n times "*d++ = (unsigned char)c", or REP STOSB on i386.
CallMemset ==
  /\ call.pc = "idle"
  /\ \E d \in Addresses, n \in 0 .. Top, c \in {0, 1, 255, 256, 258} :
       /\ d + n <= Top
       /\ ram' = [a \in Addresses |-> IF a - d \in 0 .. n - 1 THEN c % 256 ELSE ram[a]]
       /\ call' = [pc |-> "done", fn |-> "memset", dst0 |-> d, n |-> n, c |-> c]
  /\ UNCHANGED old

\* Mutant: a comparison that stops at the end of the first string only.
strcmpPrefix(s1, s2) ==
  LET Go[i \in 1 .. MaxString + 1] ==
        IF s1[i] = 0 THEN 0 ELSE IF s1[i] = s2[i] THEN Go[i + 1] ELSE s1[i] - s2[i]
  IN  Go[1]

strcmp(s1, s2) ==
  LET Go[i \in 1 .. MaxString + 1] ==
        IF s1[i] # s2[i] THEN s1[i] - s2[i] ELSE IF s1[i] = 0 THEN 0 ELSE Go[i + 1]
  IN  Go[1]

CallStrcmp ==
  /\ call.pc = "idle"
  /\ \E s1, s2 \in Strings :
       call' = [pc |-> "done", fn |-> "strcmp", s1 |-> s1, s2 |-> s2, ret |-> strcmp(s1, s2)]
  /\ UNCHANGED <<ram, old>>

LibcNext ==
  \/ CallMemcpy \/ MemcpyAlign \/ CopyHead \/ CopyWord \/ MemcpyWordsOver
  \/ CopyTail \/ MemcpyOver \/ CallMemset \/ CallStrcmp

Spec == LibcInit /\ [][LibcNext]_libcvars

-----------------------------------------------------------------------------
\* After memcpy the destination holds the old source and nothing else changed;
\* after memset it holds the byte n times and nothing else changed.
AreasWritten ==
  call.pc = "done" /\ call.fn \in {"memcpy", "memset"} =>
    \A a \in Addresses :
      ram[a] = IF a - call.dst0 \notin 0 .. call.n - 1 THEN old[a]
               ELSE IF call.fn = "memset" THEN call.c % 256
               ELSE old[call.src0 + a - call.dst0]

\* Every word that memcpy reads or writes is aligned, which ARM and MIPS
\* demand, and the rounds of a loop never go past the area.
WordsAligned ==
  call.pc \in {"words", "tail"} /\ call.t > 0 =>
    /\ call.pc = "words" => Aligned(call.dst) /\ Aligned(call.src)
    /\ call.dst + call.t * (IF call.pc = "words" THEN wsize ELSE 1)
         <= call.dst0 + call.n

\* strcmp answers 0 for equal strings only, and otherwise the sign of their
\* order as sequences of unsigned bytes; the device index sorts out names by it.
StringsOrdered ==
  call.pc = "done" /\ call.fn = "strcmp" =>
    LET Less(s, t) == \E i \in DOMAIN s \cap DOMAIN t :
                        /\ \A j \in 1 .. i - 1 : s[j] = t[j]
                        /\ s[i] < t[i]
    IN  /\ call.ret < 0 <=> Less(call.s1, call.s2)
        /\ call.ret > 0 <=> Less(call.s2, call.s1)
=============================================================================
