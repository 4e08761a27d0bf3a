------------------------------- MODULE Format -------------------------------
(***************************************************************************)
(* Formatted output: vsprintf of klib/src/stdio.c.                         *)
(*                                                                         *)
(* The text to print is given as items, plain characters and directives    *)
(* with their arguments; Fmt writes them down as a format string, and a    *)
(* step of the machine is one turn of vsprintf's loop or of its inner one  *)
(* (restart).  The end of the format, its NUL, is at Len(fmt) + 1.         *)
(***************************************************************************)
EXTENDS Conversions

CONSTANTS
  Nums,     \* numbers printed
  Widths,   \* widths written in front of a letter, 0 for none; one digit at most
  MaxItems  \* BOUND: items of a format

FormatParameters ==
  /\ Parameters
  /\ Nums \subseteq Int_ /\ Widths \subseteq 0..9 /\ MaxItems \in Nat

Kinds == {"d", "u", "x", "p", "c", "s"}

\* "plain" prints txt; "percent" is %%, of which the code prints nothing; "open" is a
\* directive that the format's end cuts off.
Item(k, z, w, n, t) == [kind |-> k, zero |-> z, width |-> w, num |-> n, txt |-> t]

Numbers == {Item(k, z, w, n, <<>>) :
              k \in {"d", "u", "x"}, z \in BOOLEAN, w \in Widths, n \in Nums}
Others  == {Item("p", FALSE, 0, n, <<>>) : n \in Nums}
           \cup {Item("s", FALSE, 0, 0, t) : t \in {<<>>, <<"m">>, <<"%", "d">>}}
           \cup {Item("c", FALSE, 0, 0, <<"m">>), Item("percent", FALSE, 0, 0, <<>>),
                 Item("plain", FALSE, 0, 0, <<"d">>)}
Open    == {Item("open", z, w, 0, <<>>) : z \in BOOLEAN, w \in Widths}

Formats == {f \in UNION {[1..k -> Numbers \cup Others \cup Open] : k \in 0..MaxItems} :
              \A i \in DOMAIN f : f[i] \in Open => i = Len(f)}

Written(it) ==
  CASE it.kind = "plain"   -> it.txt
    [] it.kind = "percent" -> <<"%", "%">>
    [] OTHER -> <<"%">> \o (IF it.zero THEN <<"0">> ELSE <<>>)
                \o (IF it.width > 0 THEN <<Digit(it.width)>> ELSE <<>>)
                \o (IF it.kind = "open" THEN <<>> ELSE <<it.kind>>)

\* What Op makes of the first items, one after the other.
Concat(Op(_), s) == LET f[k \in 0..Len(s)] == IF k = 0 THEN <<>> ELSE f[k - 1] \o Op(s[k])
                    IN f[Len(s)]

VARIABLES
  items,          \* what is to be printed
  pos,            \* where fmt points
  out,
  used,           \* arguments taken with va_arg
  occupy, limit,
  pc

vars == <<items, pos, out, used, occupy, limit, pc>>

\* The item whose argument a directive takes, if it takes one.
Taken(it) == IF it.kind \in Kinds THEN <<it>> ELSE <<>>

fmt  == Concat(Written, items)
args == Concat(Taken, items)

Init ==
  /\ items \in Formats
  /\ pos = 1 /\ out = <<>> /\ used = 0
  /\ occupy = " " /\ limit = 0
  /\ pc = "scan"

\* *fmt is the NUL.
AtEnd == pos > Len(fmt)

\* The outer loop.
Copy ==
  /\ pc = "scan" /\ ~AtEnd /\ fmt[pos] # "%"
  /\ out' = Append(out, fmt[pos]) /\ pos' = pos + 1
  /\ UNCHANGED <<items, used, occupy, limit, pc>>

Percent ==
  /\ pc = "scan" /\ ~AtEnd /\ fmt[pos] = "%"
  /\ pos' = pos + 1 /\ occupy' = " " /\ limit' = 0
  /\ pc' = "directive"
  /\ UNCHANGED <<items, out, used>>

Return ==
  /\ pc = "scan" /\ AtEnd
  /\ pc' = "done"
  /\ UNCHANGED <<items, pos, out, used, occupy, limit>>

\* The inner loop.  Mutant: '0' is taken for a width.
ZeroAsWidth(c) == isdigit(c) /\ limit' = DigitValue(c) /\ UNCHANGED occupy
Flag(c) ==
  \/ c = "0" /\ occupy' = "0" /\ UNCHANGED limit
  \/ c # "0" /\ isdigit(c) /\ limit' = DigitValue(c) /\ UNCHANGED occupy

Flags ==
  /\ pc = "directive" /\ ~AtEnd
  /\ Flag(fmt[pos])
  /\ pos' = pos + 1
  /\ UNCHANGED <<items, out, used, pc>>

Value ==
  /\ pc = "directive" /\ ~AtEnd /\ fmt[pos] \in Kinds
  /\ used' = used + 1
  /\ out' = out \o IF fmt[pos] \in {"c", "s"} THEN args[used + 1].txt
                   ELSE itos(args[used + 1].num, fmt[pos], limit, occupy)
  /\ pos' = pos + 1 /\ pc' = "scan"
  /\ UNCHANGED <<items, occupy, limit>>

\* Any other letter prints nothing.
Unknown ==
  /\ pc = "directive" /\ ~AtEnd /\ fmt[pos] \notin Kinds /\ ~isdigit(fmt[pos])
  /\ pos' = pos + 1 /\ pc' = "scan"
  /\ UNCHANGED <<items, out, used, occupy, limit>>

\* Nor does the NUL, and the outer loop steps over it: what follows is not known.
PastEnd ==
  /\ pc = "directive" /\ AtEnd
  /\ pc' = "beyond"
  /\ UNCHANGED <<items, pos, out, used, occupy, limit>>

Next == Copy \/ Percent \/ Return \/ Flags \/ Value \/ Unknown \/ PastEnd

Spec == Init /\ [][Next]_vars

-----------------------------------------------------------------------------
(* Properties.                                                               *)

\* The numeral of n without leading zeros, digit by digit from the left.
Numeral(n, base) ==
  LET len == CHOOSE k \in 1..Bits : n < base^k /\ (k > 1 => base^(k - 1) <= n)
  IN [i \in 1..len |-> Digit((n \div base^(len - i)) % base)]

Padded(s, width, c) == [i \in 1..(width - Len(s)) |-> c] \o s

Expected(it) ==
  LET numeral == Numeral(IF it.kind = "d" /\ it.num < 0 THEN -it.num ELSE Uint(it.num),
                         IF it.kind \in {"x", "p"} THEN 16 ELSE 10)
      padded  == Padded(numeral, it.width, IF it.zero THEN "0" ELSE " ")
  IN CASE it.kind \in {"plain", "c", "s"} -> it.txt
       [] it.kind \in {"percent", "open"} -> <<>>
       [] it.kind = "p" -> <<"0", "x">> \o Padded(numeral, 8, "0")
       [] it.kind = "d" /\ it.num < 0 -> <<"-">> \o padded
       [] OTHER -> padded

\* vsprintf prints each item as its directive asks, whatever comes before it, the most
\* negative number included, and takes one argument for each directive that prints one
\* (stdio.c:78-123): no flag, width or argument slips over to the next directive.
PrintsRight ==
  pc \in {"done", "beyond"} => out = Concat(Expected, items) /\ used = Len(args)

\* The format is read beyond its NUL only if the NUL cuts a directive off
\* (stdio.c:82-116).
ReadsInside == pc = "beyond" => items # <<>> /\ items[Len(items)] \in Open

\* What %u or %d made of a number that is not negative, padded or not, atoi reads back
\* (stdlib.c:22-30, stdio.c:26-50).
ReadBack ==
  (pc = "done" /\ Len(items) = 1) =>
    \A it \in {items[1]} : it.kind \in {"d", "u"} /\ it.num >= 0 => Atoi(out) = it.num
=============================================================================
