------------------------------ MODULE BugGauge ------------------------------
(***************************************************************************)
(* pkg/metrics: the goroutine that turns each team map into the series of  *)
(* the Prometheus gauge "bugs", one operation of the gauge vector at a     *)
(* time, as a scrape can fall between any two of them.                     *)
(*                                                                         *)
(* lastGauges and nextGauges are Go maps from a bug id to its labels; as   *)
(* the labels hold the id, a set of labels with one element per id stands  *)
(* for such a map.  The status, severity, keywords and target release of a *)
(* bug are one opaque value, its detail.                                   *)
(***************************************************************************)
CONSTANTS
    ID,      \* bug ids
    Names,   \* the values of the label "team"
    Detail,  \* the values of the other labels
    NoLabels \* the value of "cur" when no bug is being published

Labels == [id : ID, team : Names, detail : Detail]

ASSUME NoLabelsAssumption == NoLabels \notin Labels

VARIABLES
    series,     \* the series of the gauge vector
    lit,        \* the series among them whose value is 1
    lastGauges, \* what the previous pass published and this one has not met
    nextGauges, \* what this pass has published
    cur,        \* the labels of the bug at hand
    todo,       \* the labels the loop at hand has not visited
    pass,       \* "idle", "bug", "with", "set" or "expire"
    target,     \* history: the labels of the team map of this pass, or of the last one
    published   \* history: the labels of the last completed pass

gaugeVars ==
    <<series, lit, lastGauges, nextGauges, cur, todo, pass, target, published>>

\* The sets of labels that a map from ids to labels can hold.
OnePerBug(L) == \A l, m \in L : l.id = m.id => l = m

IdsOf(L) == { l.id : l \in L }

TypeOK ==
    /\ series \subseteq Labels
    /\ lit \subseteq Labels
    /\ lastGauges \subseteq Labels
    /\ nextGauges \subseteq Labels
    /\ cur \in Labels \cup {NoLabels}
    /\ pass \in {"with", "set"} => cur \in Labels
    /\ todo \subseteq Labels
    /\ pass \in {"idle", "bug", "with", "set", "expire"}
    /\ target \subseteq Labels
    /\ published \subseteq Labels

Init ==
    /\ series = {}
    /\ lit = {}
    /\ lastGauges = {}
    /\ nextGauges = {}
    /\ cur = NoLabels
    /\ todo = {}
    /\ pass = "idle"
    /\ target = {}
    /\ published = {}

\* Mutant of StartPass: the gauge vector is reset before it is filled again.
StartPassResetting(L) ==
    /\ pass = "idle"
    /\ pass' = "bug"
    /\ todo' = L
    /\ target' = L
    /\ nextGauges' = {}
    /\ series' = {}
    /\ lit' = {}
    /\ UNCHANGED <<lastGauges, cur, published>>

\* updateGauge(bugs) is entered with the labels L of a team map.
StartPass(L) ==
    /\ pass = "idle"
    /\ pass' = "bug"
    /\ todo' = L
    /\ target' = L
    /\ nextGauges' = {}
    /\ UNCHANGED <<series, lit, lastGauges, cur, published>>

\* Mutant of BeginBug: the series with the old labels is not deleted.
BeginBugKeepingSeries(l) ==
    /\ pass = "bug"
    /\ l \in todo
    /\ pass' = "with"
    /\ cur' = l
    /\ todo' = todo \ {l}
    /\ nextGauges' = { m \in nextGauges : m.id # l.id } \cup {l}
    /\ lastGauges' = { m \in lastGauges : m.id # l.id }
    /\ UNCHANGED <<series, lit, target, published>>

\* The next bug: note its labels, and forget the series of the last pass.
BeginBug(l) ==
    LET old == { m \in lastGauges : m.id = l.id }
    IN  /\ pass = "bug"
        /\ l \in todo
        /\ pass' = "with"
        /\ cur' = l
        /\ todo' = todo \ {l}
        /\ nextGauges' = { m \in nextGauges : m.id # l.id } \cup {l}
        /\ lastGauges' = lastGauges \ old
        /\ series' = series \ old
        /\ lit' = lit \ old
        /\ UNCHANGED <<target, published>>

\* bugGauge.With(labels) creates the series, with the value 0.
With ==
    /\ pass = "with"
    /\ pass' = "set"
    /\ series' = series \cup {cur}
    /\ UNCHANGED <<lit, lastGauges, nextGauges, cur, todo, target, published>>

\* .Set(1)
SetOne ==
    /\ pass = "set"
    /\ pass' = "bug"
    /\ lit' = lit \cup {cur}
    /\ cur' = NoLabels
    /\ UNCHANGED <<series, lastGauges, nextGauges, todo, target, published>>

\* Mutant of StartExpire: the loop over lastGauges is missing.
StartExpireOfNothing ==
    /\ pass = "bug"
    /\ todo = {}
    /\ pass' = "expire"
    /\ UNCHANGED <<series, lit, lastGauges, nextGauges, cur, todo, target, published>>

\* Every bug is published: on to what is left of the last pass.
StartExpire ==
    /\ pass = "bug"
    /\ todo = {}
    /\ pass' = "expire"
    /\ todo' = lastGauges
    /\ UNCHANGED <<series, lit, lastGauges, nextGauges, cur, target, published>>

Expire(l) ==
    /\ pass = "expire"
    /\ l \in todo
    /\ todo' = todo \ {l}
    /\ series' = series \ {l}
    /\ lit' = lit \ {l}
    /\ UNCHANGED <<lastGauges, nextGauges, cur, pass, target, published>>

\* lastGauges = nextGauges; the goroutine sleeps for a minute.
EndPass ==
    /\ pass = "expire"
    /\ todo = {}
    /\ pass' = "idle"
    /\ lastGauges' = nextGauges
    /\ nextGauges' = {}
    /\ published' = target
    /\ UNCHANGED <<series, lit, cur, todo, target>>

\* The process ends: the gauge and the package's variables are gone.
Reset ==
    /\ series' = {}
    /\ lit' = {}
    /\ lastGauges' = {}
    /\ nextGauges' = {}
    /\ cur' = NoLabels
    /\ todo' = {}
    /\ pass' = "idle"
    /\ target' = {}
    /\ published' = {}

\* A step of the loops of updateGauge.
Update ==
    \/ \E l \in todo : BeginBug(l) \/ Expire(l)
    \/ With
    \/ SetOne
    \/ StartExpire
    \/ EndPass

\* Any team map that has every bug once may come next.
Next ==
    \/ \E L \in SUBSET Labels : StartPass(L) /\ OnePerBug(L)
    \/ Update
    \/ Reset

Spec == Init /\ [][Next]_gaugeVars

-----------------------------------------------------------------------------
(***************************************************************************)
(* No bug is ever counted twice: at any instant of any pass a scrape sees  *)
(* at most one series of a bug, although the bug moves between teams and   *)
(* changes its labels from pass to pass.                                   *)
(***************************************************************************)
OneSeriesPerBug == OnePerBug(series)

(***************************************************************************)
(* Between two passes the gauge shows exactly the team map of the last     *)
(* pass: every bug with the value 1, and no series that leaked.            *)
(***************************************************************************)
GaugeIsExact ==
    pass = "idle" => series = target /\ lit = target

\* The bugs of both the last pass and this one that a scrape would not count.
Hidden == (IdsOf(published) \cap IdsOf(target)) \ IdsOf(lit)

(***************************************************************************)
(* A scrape misses at most the bug that is being published: of the bugs    *)
(* that are open before and after, all others have a series of value 1.    *)
(***************************************************************************)
ScrapeMissesAtMostOne == \A i, j \in Hidden : i = j

\* What this pass has taken from its team map, and what it has not replaced.
Taken == target \ todo
Left == { m \in published : m.id \notin IdsOf(Taken) }

(***************************************************************************)
(* The gauge, phase by phase: the new labels of the bugs taken and the old *)
(* labels of the others.                                                   *)
(***************************************************************************)
PassInv ==
    /\ OnePerBug(target) /\ OnePerBug(published)
    /\ pass = "idle" =>
         /\ published = target /\ lastGauges = target /\ nextGauges = {}
         /\ series = target /\ lit = target /\ todo = {}
    /\ pass \in {"bug", "with", "set"} =>
         /\ todo \subseteq target
         /\ nextGauges = Taken /\ lastGauges = Left
         /\ lit = series \ {cur}
    /\ pass \in {"idle", "bug", "expire"} => cur = NoLabels
    /\ pass = "bug" => series = Left \cup Taken
    /\ pass \in {"with", "set"} => cur \in Taken
    /\ pass = "with" => series = Left \cup (Taken \ {cur})
    /\ pass = "set" => series = Left \cup Taken
    /\ pass = "expire" =>
         /\ nextGauges = target
         /\ todo \subseteq { m \in published : m.id \notin IdsOf(target) }
         /\ series = target \cup todo /\ lit = series

\* The inductive invariant the proofs of StandaloneProofs use.
IInv == TypeOK /\ PassInv
=============================================================================
