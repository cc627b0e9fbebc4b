------------------------------ MODULE LogFormat ------------------------------
(***************************************************************************)
(* The formatting done by Logger::log() (include/logger.hpp): which        *)
(* elements a call pushes, in order, in the Release build, whose           *)
(* assertions do nothing.  There is one step per turn of its loop; the     *)
(* call it makes of itself after a placeholder goes on with the same loop  *)
(* and one argument less.  A string argument is pushed as its characters   *)
(* up to the first NUL, a number as one element.                           *)
(*                                                                         *)
(* log() is compared with a definition that does not scan: it groups the   *)
(* message into runs of percent signs and decides for each character by    *)
(* its position in its run.                                                *)
(***************************************************************************)
EXTENDS Integers, Sequences, FiniteSets, Functions

CONSTANTS Chars,       \* the characters of messages, other than percent signs
          Elements,    \* what can be pushed: characters and numbers
          Arguments,   \* the arguments: a number or the characters of a string
          MaxLen,      \* bound on the length of a message
          MaxArgs      \* bound on the number of arguments

Percent == "%"

NUL == "NUL"

ASSUME FormatAssumption ==
  /\ Chars \cup {Percent} \subseteq Elements /\ NUL \notin Chars
  /\ Arguments \subseteq Seq(Elements)
  /\ MaxLen \in Nat /\ MaxArgs \in Nat

VARIABLES message,     \* the format string
          args,        \* the arguments after it
          s,           \* the position in the message
          used,        \* how many arguments have been used
          pushed       \* the elements pushed

formatVars == <<message, args, s, used, pushed>>

FormatInit ==
  /\ message \in UNION {[1 .. n -> Chars \cup {Percent}] : n \in 0 .. MaxLen}
  /\ args \in UNION {[1 .. n -> Arguments] : n \in 0 .. MaxArgs}
  /\ s = 1 /\ used = 0 /\ pushed = <<>>
-----------------------------------------------------------------------------
(* pushValue() of an argument: a string stops at its first NUL. *)
pushArgument(value) ==
  IF NUL \in Range(value)
  THEN SubSeq(value, 1, (CHOOSE n \in DOMAIN value :
                           value[n] = NUL /\ \A m \in 1 .. n - 1 : value[m] # NUL) - 1)
  ELSE value

BugIsPair(m, n) == m[n] = Percent /\ n > 1 /\ m[n - 1] = Percent

(* The character at n is a percent sign and so is the one after it. *)
IsPair(m, n) == m[n] = Percent /\ n < Len(m) /\ m[n + 1] = Percent

(* Two percent signs give one. *)
log_Pair ==
  /\ s <= Len(message) /\ IsPair(message, s)
  /\ pushed' = pushed \o <<Percent>>
  /\ s' = s + 2
  /\ UNCHANGED <<message, args, used>>

(* A single one uses the next argument. *)
log_Value ==
  /\ s <= Len(message) /\ message[s] = Percent /\ ~IsPair(message, s)
  /\ used < Len(args)
  /\ pushed' = pushed \o pushArgument(args[used + 1])
  /\ s' = s + 1 /\ used' = used + 1
  /\ UNCHANGED <<message, args>>

(* Any other character stands for itself, and so does a single percent     *)
(* sign when no argument is left.                                          *)
log_Char ==
  /\ s <= Len(message) /\ ~IsPair(message, s)
  /\ message[s] = Percent => used = Len(args)
  /\ pushed' = pushed \o <<message[s]>>
  /\ s' = s + 1
  /\ UNCHANGED <<message, args, used>>

log == log_Pair \/ log_Value \/ log_Char

FormatSpec == FormatInit /\ [][log]_formatVars
-----------------------------------------------------------------------------
(* How many percent signs end at position n without a gap. *)
RunEndingAt(m, n) ==
  Cardinality({j \in 1 .. n : \A k \in j .. n : m[k] = Percent})

(* A percent sign with an odd number of them up to it, and none after it,  *)
(* is a placeholder; one with an even number up to it is the second of a   *)
(* pair.                                                                   *)
Placeholder(m, n) ==
  /\ RunEndingAt(m, n) % 2 = 1
  /\ n = Len(m) \/ m[n + 1] # Percent

PairEnd(m, n) == m[n] = Percent /\ RunEndingAt(m, n) % 2 = 0

(* How many placeholders there are up to position n. *)
Placeholders(m, n) == Cardinality({j \in 1 .. n : Placeholder(m, j)})

(* What the character at position n contributes. *)
Contribution(m, n, values) ==
  IF Placeholder(m, n)
  THEN IF Placeholders(m, n) <= Len(values)
       THEN pushArgument(values[Placeholders(m, n)])
       ELSE <<Percent>>
  ELSE IF PairEnd(m, n) THEN <<Percent>>
  ELSE IF m[n] = Percent THEN <<>>
  ELSE <<m[n]>>

(* The contributions of all characters, one after the other. *)
Formatted(m, values) ==
  LET upTo[n \in 0 .. Len(m)] ==
        IF n = 0 THEN <<>> ELSE upTo[n - 1] \o Contribution(m, n, values)
  IN  upTo[Len(m)]

(* "Replace each single % with the next supplied value.  Use %% when a     *)
(* real percent character is needed": when log() returns, the n-th         *)
(* placeholder has been replaced by the n-th argument, everything else is  *)
(* copied, pairs count from the left of each run of percent signs, and no  *)
(* percent sign inside an argument is ever taken for one of the message.   *)
LogFormatsMessage ==
  s > Len(message) => pushed = Formatted(message, args)
=============================================================================
