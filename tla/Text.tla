-------------------------------- MODULE Text --------------------------------
(***************************************************************************)
(* Numbers to text and back (staros-libc fmt.rs, string.rs, scan.rs): the  *)
(* printf engine, strtol and strtoul, and the sscanf engine that reads     *)
(* what printf wrote.  A character is a string of one; a format is the     *)
(* sequence of directives its parsing yields; a machine word is Long       *)
(* values wide and a shorter integer type Short.  Floating point           *)
(* conversions are not modelled.                                           *)
(***************************************************************************)
EXTENDS Integers, SequencesExt, TLC

CONSTANTS
    Long, Short,        \* how many values a 64-bit and a narrower integer have
    Flags,              \* sets of printf flags a program writes
    Widths, Precisions, \* -1: no precision given
    Values              \* arguments, before the length modifier narrows them

VARIABLES
    call,   \* what the program printed with: [conv, spec, value]
    text,   \* what printf wrote
    back    \* what reading it gave: [by, ret, got]

textVars == <<call, text, back>>

Blank == " "
DIGITS == <<"0", "1", "2", "3", "4", "5", "6", "7", "8", "9", "a", "b", "c", "d", "e", "f">>
Size(len) == IF len = "short" THEN Short ELSE Long
Times(c, n) == [i \in 1..(IF n > 0 THEN n ELSE 0) |-> c]
-----------------------------------------------------------------------------
\* printf.

\* An argument is cut to the type its length modifier names.
narrow_unsigned(v, len) == v % Size(len)
narrow_signed(v, len) ==
    LET u == v % Size(len) IN IF 2 * u < Size(len) THEN u ELSE u - Size(len)

digits(v, base) ==
    LET d[n \in 0..v] ==
            IF n < base THEN <<DIGITS[n + 1]>> ELSE Append(d[n \div base], DIGITS[(n % base) + 1])
    IN d[v]

\* The parts of a printed integer, and the padding its width still asks for.
Body(spec, value, base, prefix) ==
    LET n == IF spec.precision = 0 /\ value = 0 THEN <<>> ELSE digits(value, base)
        p == IF ~prefix \/ value = 0 THEN <<>>
             ELSE CASE base = 16 -> <<"0", "x">> [] base = 8 -> <<"0">> [] OTHER -> <<>>
    IN [prefix |-> p, digits |-> Times("0", spec.precision - Len(n)) \o n]
Fill(spec, sign, b) == spec.width - Len(sign \o b.prefix \o b.digits)

\* Mutant: the zeros go in front of the finished number.
integer_padded(spec, value, base, sign, prefix) ==
    LET b == Body(spec, value, base, prefix)
        zeros == "zero" \in spec.flags /\ spec.precision = -1
    IN Times(IF zeros THEN "0" ELSE Blank, Fill(spec, sign, b)) \o sign \o b.prefix \o b.digits
\* Zero padding goes after the sign and the prefix, and gives way to a precision.
integer(spec, value, base, sign, prefix) ==
    LET b == Body(spec, value, base, prefix)
        fill == Fill(spec, sign, b)
        left == "left" \in spec.flags
        zero == "zero" \in spec.flags
    IN  Times(Blank, IF ~left /\ ~zero THEN fill ELSE 0) \o sign \o b.prefix
        \o Times("0", IF ~left /\ zero /\ spec.precision = -1 THEN fill ELSE 0)
        \o b.digits \o Times(Blank, IF left THEN fill ELSE 0)

pad(spec, s) ==
    IF "left" \in spec.flags THEN s \o Times(Blank, spec.width - Len(s))
    ELSE Times(Blank, spec.width - Len(s)) \o s

Sign(spec, v) ==
    CASE v < 0 -> <<"-">>
      [] "plus" \in spec.flags -> <<"+">>
      [] "space" \in spec.flags -> <<Blank>>
      [] OTHER -> <<>>
Base(conv) == CASE conv \in {"x", "p"} -> 16 [] conv = "o" -> 8 [] conv = "i" -> 0 [] OTHER -> 10

\* One directive of a format: a literal, a string cut to its precision, or an integer.
Length(d) == IF d.conv = "p" THEN "long" ELSE d.spec.length
Emit(d) ==
    CASE d.conv = "lit" -> <<d.c>>
      [] d.conv = "s" ->
            pad(d.spec, IF d.spec.precision = -1 THEN d.value
                        ELSE SubSeq(d.value, 1, IF d.spec.precision < Len(d.value)
                                                THEN d.spec.precision ELSE Len(d.value)))
      [] d.conv = "d" ->
            LET v == narrow_signed(d.value, d.spec.length)
            IN integer(d.spec, IF v < 0 THEN -v ELSE v, 10, Sign(d.spec, v), FALSE)
      [] OTHER ->
            integer(d.spec, narrow_unsigned(d.value, Length(d)), Base(d.conv), <<>>,
                    d.conv = "p" \/ (d.conv # "u" /\ "alt" \in d.spec.flags))
format(ds) == FlattenSeq([i \in DOMAIN ds |-> Emit(ds[i])])
-----------------------------------------------------------------------------
\* strtol and strtoul: the value and how many characters it took, 0 for no number.
is_space(c) == c = Blank
At(s, i) == IF i \in DOMAIN s THEN s[i] ELSE "end"
digit(c, base) == \E k \in 1..base : DIGITS[k] = c
Digit(c) == (CHOOSE k \in DOMAIN DIGITS : DIGITS[k] = c) - 1
\* The first position from i on that Test no longer holds of.
Past(s, i, Test(_)) ==
    CHOOSE j \in i..(Len(s) + 1) :
        /\ \A k \in i..(j - 1) : Test(s[k])
        /\ j = Len(s) + 1 \/ (j <= Len(s) /\ ~Test(s[j]))

\* Blanks, a sign, and 0x when the base allows it and a digit follows.
Prefix(s, i, base) ==
    LET j == IF At(s, i) \in {"-", "+"} THEN i + 1 ELSE i
        hex == /\ base \in {0, 16}
               /\ At(s, j) = "0" /\ At(s, j + 1) = "x" /\ digit(At(s, j + 2), 16)
    IN [negative |-> At(s, i) = "-",
        from |-> IF hex THEN j + 2 ELSE j,
        base |-> CASE hex -> 16 [] base # 0 -> base [] At(s, j) = "0" -> 8 [] OTHER -> 10]
Lead(s, base) == Prefix(s, Past(s, 1, is_space), base)

\* Accumulate the digits up to `end`; past the limit the value sticks to it.
Accumulate(s, lead, end, limit) ==
    LET step(a, c) == IF a.over \/ a.value * lead.base + Digit(c) > limit
                      THEN [value |-> limit, over |-> TRUE]
                      ELSE [value |-> a.value * lead.base + Digit(c), over |-> FALSE]
    IN FoldLeft(step, [value |-> 0, over |-> FALSE], SubSeq(s, lead.from, end - 1))
       @@ [negative |-> lead.negative, used |-> IF end = lead.from THEN 0 ELSE end - 1]
Number(s, lead, limit) ==
    Accumulate(s, lead, Past(s, lead.from, LAMBDA c : digit(c, lead.base)), limit)

Signed(a) ==
    [used |-> a.used,
     value |-> CASE a.over /\ a.negative -> -(Long \div 2)
                 [] a.negative /\ ~a.over -> -a.value
                 [] OTHER -> a.value]
strtol(s, base) == Signed(Number(s, Lead(s, base), Long \div 2 - 1))
\* A minus sign negates modulo the word, as C asks.
Unsigned(a) ==
    [used |-> a.used, value |-> IF a.negative /\ ~a.over THEN (-a.value) % Long ELSE a.value]
strtoul(s, base) == Unsigned(Number(s, Lead(s, base), Long - 1))
-----------------------------------------------------------------------------
\* sscanf: one fold over the directives, which stops where one fails to match.
EOF == -1
Running == -2

\* Nothing assigned is EOF only when there was no input left to look at.
stop(m, s) ==
    [m EXCEPT !.ret = CASE m.assigned > 0 -> m.assigned [] m.pos > Len(s) -> EOF [] OTHER -> 0]
store_int(v, len) == narrow_signed(v, len)
\* A conversion that matched up to position `to`.
Matched(m, to, d, n, s) ==
    [m EXCEPT !.pos = to, !.seen = TRUE,
              !.assigned = IF d.suppress THEN @ ELSE @ + 1,
              !.got = IF d.suppress THEN @ ELSE Append(@, [n |-> n, s |-> s])]

\* Where the field ends at the latest: its maximum width, or the input.
Limit(m, s, d) == IF d.max = -1 \/ m.pos + d.max > Len(s) + 1 THEN Len(s) ELSE m.pos + d.max - 1
TakeWord(m, s, d, end) ==
    IF end = m.pos THEN stop(m, s) ELSE Matched(m, end, d, 0, SubSeq(s, m.pos, end - 1))
ScanWord(m, s, d, Test(_)) ==
    TakeWord(m, s, d, Past(SubSeq(s, 1, Limit(m, s, d)), m.pos, Test))
TakeInt(m, s, d, r) ==
    IF r.used = 0 THEN stop(m, s)
    ELSE Matched(m, m.pos + r.used, d, store_int(r.value, IF d.conv = "p" THEN "long" ELSE d.length), <<>>)
ScanInt(m, s, d) == TakeInt(m, s, d, strtol(SubSeq(s, m.pos, Limit(m, s, d)), Base(d.conv)))
ScanChars(m, s, d) ==
    LET n == IF d.max = -1 THEN 1 ELSE d.max
    IN IF m.pos + n > Len(s) + 1 THEN stop(m, s)
       ELSE Matched(m, m.pos + n, d, 0, SubSeq(s, m.pos, m.pos + n - 1))
Literal(m, s, c) ==
    CASE m.pos > Len(s) -> stop(m, s)
      [] s[m.pos] # c -> [m EXCEPT !.ret = m.assigned]
      [] OTHER -> [m EXCEPT !.pos = @ + 1, !.seen = TRUE]

\* %c, %[ and %n take the input as it comes; every other conversion skips blanks.
Skipped(m, s) == [m EXCEPT !.pos = Past(s, m.pos, is_space)]
Directive(m, s, d) ==
    CASE m.ret # Running -> m
      [] d.conv = "blank" -> Skipped(m, s)
      [] d.conv = "lit" -> Literal(m, s, d.c)
      [] d.conv = "%" -> IF At(s, m.pos) # "%" THEN stop(m, s) ELSE [m EXCEPT !.pos = @ + 1]
      [] d.conv = "n" -> IF d.suppress THEN m
                         ELSE [m EXCEPT !.got = Append(@, [n |-> m.pos - 1, s |-> <<>>])]
      [] d.conv = "c" -> ScanChars(m, s, d)
      [] d.conv = "[" -> ScanWord(m, s, d, LAMBDA c : (c \in d.set) # d.negated)
      [] d.conv = "s" -> ScanWord(Skipped(m, s), s, d, LAMBDA c : ~is_space(c))
      [] OTHER -> ScanInt(Skipped(m, s), s, d)
Started == [pos |-> 1, assigned |-> 0, seen |-> FALSE, got |-> <<>>, ret |-> Running]
Finished(m, s) ==
    [got |-> m.got,
     ret |-> CASE m.ret # Running -> m.ret
               [] m.assigned = 0 /\ ~m.seen /\ m.pos > Len(s) -> EOF
               [] OTHER -> m.assigned]
scan(s, ds) == Finished(FoldLeft(LAMBDA m, d : Directive(m, s, d), Started, ds), s)
-----------------------------------------------------------------------------
\* A program prints a number, a percent sign, a word and a semicolon, and reads them back.
Word == <<"a", "b">>
Specs == [flags : Flags, width : Widths, precision : Precisions, length : {"short", "long"}]
Plain == [flags |-> {}, width |-> 0, precision |-> -1, length |-> "long"]
Unread == [by |-> "none", ret |-> 0, got |-> <<>>]

TextInit ==
    /\ call \in [conv : {"d", "u", "x", "o", "p"}, spec : Specs, value : Values]
    /\ text = <<>> /\ back = Unread

sprintf ==
    /\ text = <<>>
    /\ text' = format(<<call, [conv |-> "lit", c |-> "%"],
                        [conv |-> "s", spec |-> [Plain EXCEPT !.precision = 2], value |-> Word],
                        [conv |-> "lit", c |-> ";"]>>)
    /\ UNCHANGED <<call, back>>

Field(conv) == [conv |-> conv, suppress |-> FALSE, max |-> -1, length |-> Length(call)]
Word_as == {[Field("s") EXCEPT !.max = 2],
            [conv |-> "[", suppress |-> FALSE, max |-> -1, set |-> {Blank, ";"}, negated |-> TRUE],
            [Field("c") EXCEPT !.max = 2]}
\* The number's own conversion, or %i where the prefix says the base.
Prefixed == call.conv = "p" \/ (call.conv \in {"x", "o"} /\ "alt" \in call.spec.flags)
Reads_as == {call.conv} \cup {c \in {"i"} : Prefixed}
sscanf ==
    /\ text # <<>> /\ back = Unread
    /\ \E conv \in Reads_as, w \in Word_as, star \in BOOLEAN :
          back' = [by |-> IF star THEN "skip" ELSE "scan"] @@
                  scan(text, <<[Field(conv) EXCEPT !.suppress = star], [conv |-> "blank"],
                               [conv |-> "%"], w, [conv |-> "lit", c |-> ";"], Field("n")>>)
    /\ UNCHANGED <<call, text>>
strtoul_read ==
    /\ text # <<>> /\ back = Unread /\ call.conv # "d"
    /\ \E r \in {strtoul(text, Base(call.conv))} :
          back' = [by |-> "strtoul", ret |-> r.used, got |-> <<[n |-> r.value, s |-> <<>>]>>]
    /\ UNCHANGED <<call, text>>

TextNext == sprintf \/ sscanf \/ strtoul_read
TextSpec == TextInit /\ [][TextNext]_textVars
-----------------------------------------------------------------------------
Printed ==
    IF call.conv = "d" THEN narrow_signed(call.value, call.spec.length)
    ELSE narrow_unsigned(call.value, Length(call))
\* What sscanf's strtol can hold; a larger unsigned number is strtoul's to read.
InReach == Printed < Long \div 2
NoDigits == call.spec.precision = 0 /\ Printed = 0

\* What printf writes reads back: for every flag, width and precision, sscanf
\* assigns the number and the word that were printed and stops at the end of the
\* text, strtoul reads every unsigned number, and a number printed with no digits
\* at all is a failed match and not the end of the input.  The number fills its
\* width, unless it has a 0 flag beside a precision: then integer pads with
\* neither zeros nor blanks (fmt.rs:311, 327), where C asks for blanks.
Unpadded == "zero" \in call.spec.flags /\ "left" \notin call.spec.flags /\ call.spec.precision # -1
ReadsBack ==
    /\ text # <<>> /\ ~Unpadded => Len(text) - Len(Word) - 2 >= call.spec.width
    /\ back.by \in {"scan", "skip"} /\ NoDigits => back = [back EXCEPT !.ret = 0, !.got = <<>>]
    /\ back.by = "scan" /\ ~NoDigits /\ InReach =>
          /\ back.ret = 2 /\ Len(back.got) = 3
          /\ back.got[1].n = narrow_signed(Printed, Length(call))
          /\ back.got[2].s = Word /\ back.got[3].n = Len(text)
    /\ back.by = "skip" /\ ~NoDigits => /\ back.ret = 1 /\ back.got[1].s = Word
    /\ back.by = "strtoul" /\ ~NoDigits => /\ back.got[1].n = Printed /\ back.ret # 0
=============================================================================
