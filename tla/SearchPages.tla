---------------------------- MODULE SearchPages -----------------------------
(***************************************************************************)
(* A search whose answer comes in pages, as Jira (pkg/jira) and GitHub     *)
(* (cmd/feature-slo-automation) give them: each page is cut out of the     *)
(* list of matches of the moment, which changes between the requests.      *)
(***************************************************************************)
EXTENDS Naturals, SequencesExt

CONSTANT PageSize   \* MaxResults, PerPage: 100 in the code

ASSUME PageAssumption == PageSize \in Nat \ {0}

\* The page that starts behind the first "start" matches.
Page(matches, start) ==
    SubSeq(matches, start + 1, Min({start + PageSize, Len(matches)}))

\* The lists a match can join or leave to.
Joined(matches, m) == { InsertAt(matches, i, m) : i \in 1..(Len(matches) + 1) }
Left(matches, m) == RemoveAt(matches, CHOOSE i \in DOMAIN matches : matches[i] = m)

\* The matches at the first "start" positions, and the others.
Behind(matches, start) == { matches[i] : i \in { k \in DOMAIN matches : k <= start } }
Ahead(matches, start) == { matches[i] : i \in { k \in DOMAIN matches : k > start } }
=============================================================================
