---------------------------- MODULE CommandLine ----------------------------
(***************************************************************************)
(* The text of a zpool or zfs command, as pkg/zcmd puts it together and as *)
(* the shell and the command's option parser take it apart.  A text is a   *)
(* sequence of atoms: a flag, a name, a separator, or SP, the space.  Two  *)
(* atoms with no space between them are one word, which is how a missing   *)
(* space in a format string shows.                                         *)
(***************************************************************************)
EXTENDS Naturals, Sequences, FiniteSets, SequencesExt, TLC

SP == " "

\* The flags that stand alone, and those that take the next word.
Bare == {"-f", "-a", "-n", "-R", "-r", "-H", "-p", "-s", "-D", "-t", "-e"}
Taking == {"-o", "-O", "-d", "-c", "-V", "-b", "-i"}

-----------------------------------------------------------------------------
(* What the Build methods append.                                          *)

\* bin.ZPOOL or bin.ZFS, then " %s " of the operation
Start(program, operation) == <<program, SP, operation, SP>>

\* " %s "
Spaced(text) == <<SP>> \o text \o <<SP>>

\* if IsXSet()(p) { appendCommand(" -x ") }
Flag(set, flag) == IF set THEN Spaced(<<flag>>) ELSE <<>>

\* " -o %s", with no space after it
Option(flag, text) == <<SP, flag, SP>> \o text

\* for _, v := range list { appendCommand(" %s ") }
EachSpaced(list) == FlattenSeq([i \in DOMAIN list |-> Spaced(list[i])])

\* for _, v := range list { appendCommand(" -o %s") }
EachOption(flag, list) == FlattenSeq([i \in DOMAIN list |-> Option(flag, list[i])])

\* for _, v := range list { appendCommand(" -o %s ") }
EachOptionSpaced(flag, list) ==
  FlattenSeq([i \in DOMAIN list |-> Option(flag, list[i]) \o <<SP>>])

\* for _, f := range list { appendCommand("%s,") }
Commas(list) == FlattenSeq([i \in DOMAIN list |-> Append(list[i], ",")])

\* An object of a builder: its switches, its names, its lists, all unset.
Blank(switches, names, lists) ==
  [on |-> [f \in switches |-> FALSE],
   name |-> [f \in names |-> <<>>],
   list |-> [f \in lists |-> <<>>]]

-----------------------------------------------------------------------------
(* What the shell and the command make of a text.                          *)

\* The shell splits at spaces, of which there may be several in a row.
Words(text) ==
  LET space(i) == i \in {0, Len(text) + 1} \/ text[i] = SP
      first == {i \in DOMAIN text : ~ space(i) /\ space(i - 1)}
      last == {i \in DOMAIN text : ~ space(i) /\ space(i + 1)}
      nth(ends, n) == CHOOSE i \in ends : Cardinality({j \in ends : j <= i}) = n
  IN [n \in 1 .. Cardinality(first) |-> SubSeq(text, nth(first, n), nth(last, n))]

NoOptions == [f \in Taking |-> <<>>]

\* What a command is told: its flags, the values of its options, its operands,
\* and the command its output is piped to.
Told(program, operation, flags, options, operands) ==
  [program |-> program, operation |-> operation, flags |-> flags,
   options |-> options @@ NoOptions, operands |-> operands, pipe |-> <<>>]

When(set, flag) == IF set THEN {flag} ELSE {}

\* Options end at the first word that is not one.  A flag with more text glued to
\* it is read letter by letter, as flags nobody asked for.
Read(text) ==
  LET words == Words(text)
      step(acc, w) ==
        CASE acc.piped -> [acc EXCEPT !.told.pipe = Append(@, w)]
          [] w = <<"|">> -> [acc EXCEPT !.piped = TRUE]
          [] ~ acc.piped /\ acc.wants # "" ->
               [acc EXCEPT !.told.options[acc.wants] = Append(@, w), !.wants = ""]
          [] acc.wants = "" /\ ~ acc.ended /\ w[1] \in Taking /\ Len(w) = 1 ->
               [acc EXCEPT !.wants = w[1]]
          [] acc.wants = "" /\ ~ acc.ended /\ w[1] \in Taking /\ Len(w) > 1 ->
               [acc EXCEPT !.told.options[w[1]] = Append(@, Tail(w))]
          [] acc.wants = "" /\ ~ acc.ended /\ w[1] \in Bare ->
               [acc EXCEPT !.told.flags = @ \cup {w[i] : i \in DOMAIN w}]
          [] OTHER ->
               [acc EXCEPT !.told.operands = Append(@, w), !.ended = TRUE]
      start == [told |-> Told(words[1][1], words[2][1], {}, NoOptions, <<>>),
                wants |-> "", ended |-> FALSE, piped |-> FALSE]
  IN FoldLeft(step, start, SubSeq(words, 3, Len(words))).told

=============================================================================
