----------------------------- MODULE SalaryText ------------------------------
(***************************************************************************)
(* Salaries as portals write them, and the numbers that are read out of    *)
(* such a text: by the strategies whose portal has no more than a text,    *)
(* and by the API where a strategy left an end of the range open.  An      *)
(* amount is a head, a tail and the way in which they are written; 13      *)
(* followed by 5 may be any of                                             *)
(*     plain   13        spaced  13 005    dotted  13.005                  *)
(*                       comma   13,05     point   13.05                   *)
(*     k       13k       kcomma  13,5k     kpoint  13.5k   (or "tys.")     *)
(* A text shows one amount or the two ends of a range, each in its way.    *)
(***************************************************************************)
EXTENDS Integers, Sequences

CONSTANTS
  Amount,  \* the heads of the amounts that portals state
  Rest,    \* their tails, besides 0
  None     \* null, undefined

ASSUME SalaryAssumption ==
  Amount \subseteq Nat \ {0} /\ Rest \subseteq Nat /\ None \notin Nat

Way == {"plain", "spaced", "dotted", "comma", "point", "k", "kcomma", "kpoint"}

\* The tails that fit: three, two or one digit, or none.
Places(way) ==
  CASE way \in {"spaced", "dotted"} -> 1000
    [] way \in {"comma", "point"} -> 100
    [] way \in {"kcomma", "kpoint"} -> 10
    [] way \in {"plain", "k"} -> 1

AmountsIn(ways) ==
  {a \in [head : Amount, tail : Rest \cup {0}, way : ways] : a.tail < Places(a.way)}

\* The digits as one number.
Together(a) == Places(a.way) * a.head + a.tail

\* What an amount means, in hundredths.
Hundredths(a) ==
  LET unit == CASE a.way \in {"plain", "spaced", "dotted"} -> 100
                [] a.way \in {"comma", "point"} -> 1
                [] a.way \in {"kcomma", "kpoint"} -> 10000
                [] a.way = "k" -> 100000
  IN  unit * Together(a)

AnAmount == [head : Nat, tail : Nat, way : Way]
ASSUME NoAmountAssumption == None \notin AnAmount

Text == [from : AnAmount \cup {None}, to : AnAmount \cup {None}]
NoText == [from |-> None, to |-> None]
Plain(n) == [head |-> n, tail |-> 0, way |-> "plain"]

-----------------------------------------------------------------------------
(* The numbers read out of one amount, out of none if there is none. *)

\* Math.round(a / n)
Rounded(a, n) == (2 * a + n) \div (2 * n)

\* Numbers that are not positive are left out.
HeadAndTail(a) == IF a.tail = 0 THEN <<a.head>> ELSE <<a.head, a.tail>>

PracujPlNumbers_SpaceSplits(a) ==
  CASE a = None -> <<>>
    [] a # None /\ a.way \in {"plain", "k"} -> <<Together(a)>>
    [] a # None /\ a.way \notin {"plain", "k"} -> HeadAndTail(a)

\* Digits with spaces between them are one number, whatever else is between
\* digits splits them, and what follows is not looked at.
PracujPlNumbers(a) ==
  CASE a = None -> <<>>
    [] a # None /\ a.way \in {"plain", "spaced", "k"} -> <<Together(a)>>
    [] a # None /\ a.way \notin {"plain", "spaced", "k"} -> HeadAndTail(a)

\* Whatever is not a digit is dropped.
BulldogNumbers(a) == IF a = None THEN <<>> ELSE <<Together(a)>>

\* A dot or a comma is that of a fraction, which is rounded; k and tys. stand
\* for thousands.  The text was cut at its first comma.
TheProtocolNumbers(a) ==
  CASE a = None -> <<>>
    [] a # None /\ a.way \in {"plain", "dotted", "point"} ->
         <<Rounded(Together(a), Places(a.way))>>
    [] a # None /\ a.way = "spaced" -> HeadAndTail(a)
    [] a # None /\ a.way = "k" -> <<1000 * Together(a)>>
    [] a # None /\ a.way = "kpoint" -> <<100 * Together(a)>>
    [] a # None /\ a.way \in {"comma", "kcomma"} -> <<a.head>>

\* Spaces and dots between digits are dropped, commas split.
ApiNumbers(a) ==
  CASE a = None -> <<>>
    [] a # None /\ a.way \notin {"comma", "kcomma"} -> <<Together(a)>>
    [] a # None /\ a.way \in {"comma", "kcomma"} -> <<a.head, a.tail>>

-----------------------------------------------------------------------------
Either(first, otherwise) == IF first # None THEN first ELSE otherwise
At(s, i) == IF i <= Len(s) THEN s[i] ELSE None

\* The first two numbers of a text are the ends; a single one is both.
Ends(from, to) ==
  LET s == from \o to
  IN  [min |-> At(s, 1), max |-> Either(At(s, 2), At(s, 1))]

PracujPlEnds(t) == Ends(PracujPlNumbers(t.from), PracujPlNumbers(t.to))

BulldogEnds(t) == Ends(BulldogNumbers(t.from), BulldogNumbers(t.to))

\* split(',')[0]: of what follows the first comma nothing is read.
TheProtocolEnds(t) ==
  LET cut == t.from # None /\ t.from.way \in {"comma", "kcomma"}
  IN  Ends(TheProtocolNumbers(t.from), IF cut THEN <<>> ELSE TheProtocolNumbers(t.to))

ParseSalary(t) == Ends(ApiNumbers(t.from), ApiNumbers(t.to))
=============================================================================
