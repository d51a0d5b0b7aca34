---------------------------- MODULE ParseCommand ----------------------------
(***************************************************************************)
(* The shell of lab1 (lab1/v1/simsh1.c) and its parser, a table of         *)
(* transitions (lab1/lib/parse_command.c).  A line is a sequence of        *)
(* characters, of which the parser tells apart blanks, the quote, the      *)
(* escape character and the rest.                                          *)
(***************************************************************************)
EXTENDS Naturals, FiniteSets, Sequences, SequencesExt

CONSTANTS
  Letters,   \* characters of no special meaning
  MaxLen     \* longest line

ASSUME LettersAssumption == Letters \cap {"blank", "newline", "quote", "escape"} = {}
ASSUME MaxLenAssumption  == MaxLen \in Nat

VARIABLES
  shell,     \* "prompt", "parse", "child": waiting for the command
  line,      \* buf
  pos,       \* characters parsed
  state, action,
  argument,  \* the last argument created
  args       \* arguments

parserVars == <<shell, line, pos, state, action, argument, args>>

Blanks == {"blank", "newline"}
Chars  == Letters \cup {"blank", "quote", "escape"}

(* What fgets returns: a newline ends a line, and only the last lacks one. *)
Lines ==
  (UNION {[1..n -> Chars] : n \in 2..MaxLen})
    \cup {Append(l, "newline") : l \in UNION {[1..n -> Chars] : n \in 1..MaxLen-1}}

States     == {"look", "in_arg", "in_quote", "esc_arg", "esc_quote"}
Categories == {"whitespace", "quote", "escape", "others"}
Actions    == {"create", "create_add", "add", "close", "ignore"}

ParserTypeOK ==
  /\ shell \in {"prompt", "parse", "child"}
  /\ line = <<>> \/ line \in Lines
  /\ pos \in 0..Len(line)
  /\ state \in States /\ action \in Actions
  /\ argument \in Seq(Chars \cup Blanks) /\ Len(argument) <= MaxLen
  /\ args \in Seq(Seq(Chars \cup Blanks)) /\ Len(args) <= MaxLen

Start ==
  /\ pos' = 0 /\ state' = "look" /\ action' = "ignore"
  /\ argument' = <<>> /\ args' = <<>>

ParserInit ==
  /\ shell = "prompt" /\ line = <<>>
  /\ pos = 0 /\ state = "look" /\ action = "ignore"
  /\ argument = <<>> /\ args = <<>>

-----------------------------------------------------------------------------
Category(c) ==
  IF c \in Blanks THEN "whitespace"
  ELSE IF c \in {"quote", "escape"} THEN c
  ELSE "others"

To(s, a) == [next |-> s, action |-> a]

All(e) == [k \in Categories |-> e]

Table(afterEscape) ==
  [look      |-> [whitespace |-> To("look", "ignore"),      quote  |-> To("in_quote", "create"),
                  escape     |-> To("esc_arg", "create"),   others |-> To("in_arg", "create_add")],
   in_arg    |-> [whitespace |-> To("look", "close"),       quote  |-> To("in_quote", "ignore"),
                  escape     |-> To("esc_arg", "ignore"),   others |-> To("in_arg", "add")],
   in_quote  |-> [whitespace |-> To("in_quote", "add"),     quote  |-> To("in_arg", "ignore"),
                  escape     |-> To("esc_quote", "ignore"), others |-> To("in_quote", "add")],
   esc_arg   |-> All(To("in_arg", "add")),
   esc_quote |-> All(To(afterEscape, "add"))]

(* Variant for mutation: an escaped character ends the quoted part. *)
TRANSITIONSUnquoting == Table("in_arg")

TRANSITIONS == Table("in_quote")

(* A line with the return key alone is skipped. *)
ReadLine ==
  /\ shell = "prompt"
  /\ line' \in Lines
  /\ shell' = "parse"
  /\ Start

(* The loop over the characters. *)
ParseChar ==
  /\ shell = "parse" /\ pos < Len(line)
  /\ LET c == line[pos + 1]
         e == TRANSITIONS[state][Category(c)]
     IN
     /\ state' = e.next /\ action' = e.action
     /\ argument' = CASE e.action = "create"     -> <<>>
                      [] e.action = "create_add" -> <<c>>
                      [] e.action = "add"        -> Append(argument, c)
                      [] OTHER                   -> argument
     /\ args' = IF e.action = "close" THEN Append(args, argument) ELSE args
  /\ pos' = pos + 1
  /\ UNCHANGED <<shell, line>>

(* The end of the string, and fork. *)
ParseEnd ==
  /\ shell = "parse" /\ pos = Len(line)
  /\ args' = IF action # "close" /\ argument # <<>> THEN Append(args, argument) ELSE args
  /\ shell' = "child"
  /\ UNCHANGED <<line, pos, state, action, argument>>

(* execvp runs the command or fails: the child ends, and waitpid returns. *)
ChildEnds ==
  /\ shell = "child"
  /\ shell' = "prompt" /\ line' = <<>>
  /\ Start

ParserNext == ReadLine \/ ParseChar \/ ParseEnd \/ ChildEnds

ParserSpec == ParserInit /\ [][ParserNext]_parserVars

-----------------------------------------------------------------------------
(* What the parser computes, said of the line as a whole. *)

(* The positions an escape character makes literal. *)
Literal(l) ==
  LET esc[i \in 1..Len(l)] == i > 1 /\ l[i - 1] = "escape" /\ ~esc[i - 1]
  IN  {i \in 1..Len(l) : esc[i]}

Marks(l, c) == {i \in 1..Len(l) : l[i] = c} \ Literal(l)

Quoted(l, i) == Cardinality({d \in Marks(l, "quote") : d < i}) % 2 = 1

Separators(l) == {i \in 1..Len(l) \ Literal(l) : l[i] \in Blanks /\ ~Quoted(l, i)}

(* The numbers of a finite set in order. *)
InOrder(S) ==
  CHOOSE s \in [1..Cardinality(S) -> S] : \A i, j \in DOMAIN s : i < j => s[i] < s[j]

(* Words are separated by blanks neither quoted nor escaped; the quotes and *)
(* the escape characters that are not literal are no part of them.          *)
Words(l) ==
  LET sep    == Separators(l)
      marks  == Marks(l, "quote") \cup Marks(l, "escape")
      starts == {i \in 1..Len(l) \ sep : i = 1 \/ i - 1 \in sep}
      Word(i) == {j \in i..Len(l) : i..j \cap sep = {}}
      Text(i) == LET at == InOrder(Word(i) \ marks)
                 IN  [k \in 1..Len(at) |-> l[at[k]]]
      order  == InOrder(starts)
  IN  [n \in 1..Len(order) |-> Text(order[n])]

(* Two things happen only at the end of a line: a word that a single blank  *)
(* does not end the line with counts twice, and an empty one that no blank   *)
(* follows does not count.                                                  *)
Trailing(l) == Len(l) > 1 /\ {Len(l) - 1, Len(l)} \subseteq Separators(l)

Arguments(l) ==
  LET w == Words(l) IN
  IF w = <<>> THEN w
  ELSE IF Trailing(l) /\ Last(w) # <<>> THEN Append(w, Last(w))
  ELSE IF Len(l) \notin Separators(l) /\ Last(w) = <<>> THEN Front(w)
  ELSE w

(* The command run is the words of the line, wherever quotes and escape     *)
(* characters stand in it, except for the last word as said above.         *)
ArgumentsExact == shell = "child" => args = Arguments(line)
=============================================================================
