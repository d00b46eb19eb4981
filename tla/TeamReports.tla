---------------------------- MODULE TeamReports ----------------------------
(***************************************************************************)
(* The texts of the reports to the teams: SlackReport with what            *)
(* joinMessages makes of their lines.  A message is the sequence of the    *)
(* lengths of its lines.                                                   *)
(***************************************************************************)
EXTENDS SlackReport, JoinMessages

\* The reports to a team.
JoinedReports == { joinMessages(in) : in \in Reports }

JoinedMessage == Seq(LineLengths \cup {HeaderLength})

ASSUME JoinedAssumption == Texts \subseteq JoinedReports

\* The messages to the team at hand, tried and untried.
ReportAtHand == said \o unsent

-----------------------------------------------------------------------------
\* The length of the first n lines, without the newlines that strings.Join
\* puts between, and of all of them.
Lengths(lines) ==
    LET sum[n \in 0..Len(lines)] == IF n = 0 THEN 0 ELSE sum[n - 1] + lines[n]
    IN  sum
Total(lines) == Lengths(lines)[Len(lines)]

\* The lines of the first n messages, and of all of them.
Beginnings(messages) ==
    LET lines[n \in 0..Len(messages)] ==
            IF n = 0 THEN <<>> ELSE lines[n - 1] \o messages[n]
    IN  lines
Lines(messages) == Beginnings(messages)[Len(messages)]

\* Slack refuses a message without text; a line is not cut up.
Sendable(m) == m # <<>> /\ (Total(m) >= Limit => Len(m) = 1)

(***************************************************************************)
(* The loop tries to send every line of a report once and in order, though *)
(* a message may fail or have to wait.  No message is empty: Slack refuses *)
(* one without text.  Only a message of one line can have lines of 4000    *)
(* characters or more, and no two neighbours would have fitted into one.   *)
(***************************************************************************)
LosesNothing ==
    at # None =>
        /\ Lines(ReportAtHand) \in Reports
        /\ \A n \in 1..Len(ReportAtHand) : Sendable(ReportAtHand[n])
        /\ \A n \in 2..Len(ReportAtHand) :
               Total(ReportAtHand[n - 1]) + Total(ReportAtHand[n]) >= Limit
=============================================================================
