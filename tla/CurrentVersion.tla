--------------------------- MODULE CurrentVersion ---------------------------
(***************************************************************************)
(* OrgData.CurrentVersion of pkg/teams: the releases with a target other   *)
(* than x.y.z are listed in the order of Go's map iteration and the list   *)
(* is sorted by the sort keys in "order".  sort.Slice swaps the elements   *)
(* of the list it is given, "active"; it knows nothing of "order", whose   *)
(* elements stay where they are.                                           *)
(*                                                                         *)
(* The key "407" of version "4.7" is the number 407.  For up to six        *)
(* elements sort.Slice of Go 1.15 is an insertion sort.                    *)
(***************************************************************************)
EXTENDS Naturals, Sequences

CONSTANTS
    Releases   \* the releases that OrgData.Releases can hold: a record has the
               \* number of the version, if the name has a minor part, and targets

\* The release is listed: a target has no suffix ".z", and the name a minor part.
Listed(r) == r.targets \ {"x.y.z"} # {} /\ r.version \in Nat

VARIABLES
    unvisited, \* the releases the loop has not visited
    active,    \* the versions listed, being sorted
    order,     \* their keys
    i, j,      \* the indices of the insertion sort
    pc         \* "list", "sort", "done" or "error"

vars == <<unvisited, active, order, i, j, pc>>

Init ==
    /\ unvisited \in SUBSET Releases
    /\ active = <<>> /\ order = <<>>
    /\ i = 2 /\ j = 2
    /\ pc = "list"

Visit(r) ==
    /\ pc = "list"
    /\ r \in unvisited
    /\ unvisited' = unvisited \ {r}
    /\ IF Listed(r)
       THEN /\ active' = Append(active, r.version)
            /\ order' = Append(order, r.version)
       ELSE UNCHANGED <<active, order>>
    /\ UNCHANGED <<i, j, pc>>

NoRelease ==
    /\ pc = "list"
    /\ unvisited = {} /\ active = <<>>
    /\ pc' = "error"
    /\ UNCHANGED <<unvisited, active, order, i, j>>

StartSort ==
    /\ pc = "list"
    /\ unvisited = {} /\ active # <<>>
    /\ pc' = "sort"
    /\ UNCHANGED <<unvisited, active, order, i, j>>

\* The less function, called with indices of active that it looks up in order.
Less(m, n) == order[m] < order[n]

Sinks == j > 1 /\ Less(j, j - 1)

Sink ==
    /\ pc = "sort"
    /\ i <= Len(active)
    /\ Sinks
    /\ active' = [active EXCEPT ![j] = active[j - 1], ![j - 1] = active[j]]
    /\ j' = j - 1
    /\ UNCHANGED <<unvisited, order, i, pc>>

NextElement ==
    /\ pc = "sort"
    /\ i <= Len(active)
    /\ ~Sinks
    /\ i' = i + 1
    /\ j' = i + 1
    /\ UNCHANGED <<unvisited, active, order, pc>>

\* return active[0], nil
Return ==
    /\ pc = "sort"
    /\ i > Len(active)
    /\ pc' = "done"
    /\ UNCHANGED <<unvisited, active, order, i, j>>

Next ==
    \/ \E r \in Releases : Visit(r)
    \/ NoRelease \/ StartSort \/ Sink \/ NextElement \/ Return

Spec == Init /\ [][Next]_vars

-----------------------------------------------------------------------------
\* The first n keys are in strictly descending order.
Descends(n) == \A k \in 2..n : order[k] < order[k - 1]

\* n is where the first strictly descending run of keys ends.
EndsDescent(n) == Descends(n) /\ (n < Len(order) => order[n + 1] >= order[n])

(***************************************************************************)
(* What the function does return, whatever the iteration order: the last   *)
(* version of the strictly descending run the list starts with.  It is the *)
(* lowest version only if the lowest one happens to be listed there, as it *)
(* always is among at most two.                                            *)
(***************************************************************************)
ReturnsEndOfDescent ==
    pc = "done" => \E n \in 1..Len(order) : EndsDescent(n) /\ active[1] = order[n]

(***************************************************************************)
(* The comment on the function: it "returns the lowest x.y version that    *)
(* has a x.y.0 target".                                                    *)
(***************************************************************************)
ReturnsLowest ==
    pc = "done" => \A n \in 1..Len(order) : active[1] <= order[n]

-----------------------------------------------------------------------------
TypeOK ==
    /\ unvisited \subseteq Releases
    /\ active \in Seq(Nat) /\ order \in Seq(Nat) /\ Len(active) = Len(order)
    /\ pc \in {"list", "sort", "done", "error"}
    /\ i \in Nat /\ j \in Nat
    /\ pc = "list" => active = order /\ i = 2 /\ j = 2
    /\ pc \in {"sort", "done"} => 1 <= Len(order) /\ 2 <= i /\ 1 <= j /\ j <= i
    /\ pc = "done" => i > Len(order)

\* active[1] is the end of the descent of the first n keys.
Leads(n) ==
    \E e \in 1..n : /\ Descends(e)
                    /\ e < n => order[e + 1] >= order[e]
                    /\ active[1] = order[e]

(***************************************************************************)
(* The loop invariant: the i-th version is at j and has passed only larger *)
(* keys; the versions behind it have not moved.                            *)
(***************************************************************************)
SortInv ==
    pc \in {"sort", "done"} =>
        /\ \A k \in (i + 1)..Len(order) : active[k] = order[k]
        /\ i <= Len(order) => active[j] = order[i]
        /\ \A k \in (j + 1)..i : k <= Len(order) => order[k] < order[k - 1]
        /\ i > Len(order) => j = i
        /\ i > Len(order) => i = Len(order) + 1
        /\ j > 1 => Leads(i - 1)

IInv == TypeOK /\ SortInv
=============================================================================
