----------------------------- MODULE MCLibrary -----------------------------
(***************************************************************************)
(* Lists, timers, strings, numbers and dates for TLC.  The parts share no  *)
(* state, so a behaviour is one of one part, and the variables of the      *)
(* others keep their first values.                                         *)
(*                                                                         *)
(* Two list heads and three entries.  Two timers on a wheel of two         *)
(* lists; the periods are zero or go around the wheel less than once,      *)
(* exactly once and more than once.  Strings of up to four characters, two *)
(* of them the same letter.  Divisions of eight bits by four and by eight. *)
(* The clock runs through eleven years, three of them leap years.          *)
(***************************************************************************)
EXTENDS ListPtr, Timer, TLC
CONSTANTS h1, h2, e1, e2, e3

MCHeads == {h1, h2}
MCEntry == {e1, e2, e3}
MCSymmetry == Permutations(MCHeads) \cup Permutations(MCEntry)
MCHandler == {"h1", "h2"}
MCExpires == {0, 1, 2, 3}
MCTimes == {1, 2, TIMER_INFINITE}
-----------------------------------------------------------------------------
VARIABLES part,
          bytes, first, a, b, fn, next, tokens,
          chip, hours, startup_time, booted, ticks,
          numbers
svars == <<bytes, first, a, b, fn, next, tokens>>
cvars == <<chip, hours, startup_time, booted, ticks>>

S == INSTANCE Strings WITH
  Size <- 5, Chars <- {1, 2, 3}, tolower <- [c \in 0..3 |-> IF c = 3 THEN 2 ELSE c],
  mem <- bytes

C == INSTANCE Calendar WITH LastYear <- 10, MaxTicks <- 13, Words <- {0, 7}

V == INSTANCE Vsprintf WITH Bits <- [h |-> 4, int |-> 6, l |-> 6, L |-> 8]
D == INSTANCE Div64 WITH W <- 4

\* Conversions of numbers, and divisions.
MCFlags == SUBSET {"ZEROPAD", "PLUS", "SPACE", "LEFT", "SPECIAL"}
MCParts == [conv : {"d", "u", "o", "x"}, flags : MCFlags, width : {-1, 5}, star : {FALSE},
            precision : {-1, 0, 3}, qualifier : {"h", "int", "L"}, arg : {0, 7, 31, 255}]
           \cup [conv : {"d", "x", "p"}, flags : MCFlags, width : {-4, -1, 1}, star : {TRUE},
                 precision : {-1}, qualifier : {"l"}, arg : {0, 33}]
MCFormat(d) == <<[d EXCEPT !.conv = "text", !.arg = <<"=">>], d,
                 [d EXCEPT !.conv = "s", !.arg = <<"a", "b">>],
                 [d EXCEPT !.conv = "c", !.arg = "z"], [d EXCEPT !.conv = "p"]>>
MCDivisions == [n : 0..255, divisor : 1..15 \cup {16, 17, 31, 100, 255}]
-----------------------------------------------------------------------------
NoString == /\ bytes = NULL /\ first = NULL /\ a = 0 /\ b = 0 /\ fn = NULL /\ next = 0
            /\ tokens = <<>>
NoClock == chip = NULL /\ hours = 0 /\ startup_time = 0 /\ booted = 0 /\ ticks = 0
MCInit ==
  /\ part \in {"lists", "timers", "strings", "clock", "print", "divide"}
  /\ Init /\ TimerInit
  /\ IF part = "strings" THEN S!Init ELSE NoString
  /\ IF part = "clock" THEN C!Init ELSE NoClock
  /\ numbers \in IF part = "print" THEN MCParts ELSE IF part = "divide" THEN MCDivisions
                 ELSE {NULL}
MCNext ==
  /\ UNCHANGED <<part, numbers>>
  /\ \/ part = "lists" /\ Next /\ UNCHANGED <<timer_vars, svars, cvars>>
     \/ part = "timers" /\ TimerNext /\ UNCHANGED <<vars, svars, cvars>>
     \/ part = "strings" /\ S!Next /\ UNCHANGED <<vars, timer_vars, cvars>>
     \/ part = "clock" /\ C!Next /\ UNCHANGED <<vars, timer_vars, svars>>
MCSpec == MCInit /\ [][MCNext]_<<part, numbers, vars, timer_vars, svars, cvars>>

\* string.c, vsprintf.c, div64.c and time.c compute what the reference
\* definitions say.
LibraryExact ==
  /\ part = "strings" => S!StringsExact
  /\ part = "print" => V!NumberReads(numbers)
                       /\ V!Truncates(V!Times("?", 12), MCFormat(numbers))
  /\ part = "divide" => D!DivisionExact(numbers.n, numbers.divisor)
  /\ part = "clock" => C!ClockRightOutsideOctober
=============================================================================
