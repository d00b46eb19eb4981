---------------------------- MODULE JoinMessages ----------------------------
(***************************************************************************)
(* joinMessages of the blocker-slack reporter: the lines of a team's       *)
(* report become messages short enough for Slack.  The module is pure.  A  *)
(* line is its length, a message the sequence of the lines it joins.       *)
(***************************************************************************)
EXTENDS Naturals, Sequences

CONSTANTS
    HeaderLength,  \* the length of the first line, which names the team
    LineLengths,   \* lengths of the other lines
    LineCount      \* how many lines follow the first

Limit == 4000

ASSUME HeaderAssumption == HeaderLength \in 1..(Limit - 1)
ASSUME LengthAssumption == LineLengths \subseteq Nat \ {0}
ASSUME CountAssumption == LineCount \in Nat

\* The lines that getTeamMessages joins.
Reports == { <<HeaderLength>> \o lines : lines \in [1..LineCount -> LineLengths] }

\* What the loop starts with: no messages, and the one at hand has no lines.
NoMessages == [out |-> <<>>, cur |-> <<>>, curLen |-> 0]

\* The line fits.
AddLine(s, line) ==
    [out |-> s.out, cur |-> Append(s.cur, line), curLen |-> s.curLen + line]

\* It does not: it starts the next message.
NextMessage(s, line) ==
    [out |-> Append(s.out, s.cur), cur |-> <<line>>, curLen |-> line]

VisitLine(s, line) ==
    IF s.curLen + line < Limit THEN AddLine(s, line) ELSE NextMessage(s, line)

\* What the loop has made of the first n lines, for each n.
Loop(in) ==
    LET s[n \in 0..Len(in)] == IF n = 0 THEN NoMessages ELSE VisitLine(s[n - 1], in[n])
    IN  s

joinMessages(in) ==
    LET s == Loop(in)[Len(in)]
    IN  Append(s.out, s.cur)
=============================================================================
