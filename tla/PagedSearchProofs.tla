------------------------- MODULE PagedSearchProofs -------------------------
(***************************************************************************)
(* Proofs about the two searches over pages that move: that of             *)
(* feature-slo-automation by page number, and that of jira-daily-diff by   *)
(* offset, for any matches, pages of any size, changes and failures.       *)
(***************************************************************************)
EXTENDS FeatureSLO, JiraSnapshots, FiniteSetTheorems, TLAPS

-----------------------------------------------------------------------------
(* Lists that move. *)

(***************************************************************************)
(* The elements of two lists put together.                                 *)
(***************************************************************************)
LEMMA ConcatList ==
  ASSUME NEW S, NEW s \in Seq(S), NEW t \in Seq(S)
  PROVE  /\ s \o t \in Seq(S) /\ Len(s \o t) = Len(s) + Len(t)
         /\ \A k \in 1..(Len(s) + Len(t)) :
              (s \o t)[k] = IF k <= Len(s) THEN s[k] ELSE t[k - Len(s)]
  OBVIOUS

(***************************************************************************)
(* A match that joins moves those behind its place on by one.              *)
(***************************************************************************)
LEMMA JoinedList ==
  ASSUME NEW S, NEW list \in Seq(S), NEW m \in S, NEW i \in 1..(Len(list) + 1)
  PROVE  /\ InsertAt(list, i, m) \in Seq(S)
         /\ Len(InsertAt(list, i, m)) = Len(list) + 1
         /\ \A k \in 1..(Len(list) + 1) :
              InsertAt(list, i, m)[k] = IF k < i THEN list[k]
                                        ELSE IF k = i THEN m ELSE list[k - 1]
  <1> DEFINE front == SubSeq(list, 1, i - 1)
             back == SubSeq(list, i, Len(list))
  <1>1. Len(list) \in Nat /\ i \in Nat /\ DOMAIN list = 1..Len(list)
    OBVIOUS
  <1>2. /\ front \in Seq(S) /\ Len(front) = i - 1
        /\ \A k \in 1..(i - 1) : front[k] = list[k]
    BY <1>1
  <1>3. /\ back \in Seq(S) /\ Len(back) = Len(list) - i + 1
        /\ \A k \in 1..(Len(list) - i + 1) : back[k] = list[i + k - 1]
    BY <1>1
  <1> HIDE DEF front, back
  <1> DEFINE most == front \o <<m>>
  <1>4. /\ most \in Seq(S) /\ Len(most) = i
        /\ \A k \in 1..i : most[k] = IF k < i THEN list[k] ELSE m
    BY <1>1, <1>2
  <1> HIDE DEF most
  <1>5. /\ most \o back \in Seq(S) /\ Len(most \o back) = Len(list) + 1
        /\ \A k \in 1..(Len(list) + 1) :
             (most \o back)[k] = IF k <= i THEN most[k] ELSE back[k - i]
    <2>1. Len(most) + Len(back) = Len(list) + 1
      BY <1>1, <1>3, <1>4
    <2>2. /\ most \o back \in Seq(S) /\ Len(most \o back) = Len(most) + Len(back)
          /\ \A k \in 1..(Len(most) + Len(back)) :
               (most \o back)[k] = IF k <= Len(most) THEN most[k] ELSE back[k - Len(most)]
      BY <1>3, <1>4, ConcatList
    <2> QED BY <2>1, <2>2, <1>4
  <1>6. InsertAt(list, i, m) = most \o back
    BY DEF InsertAt, most, front, back
  <1>7. ASSUME NEW k \in 1..(Len(list) + 1), k > i
        PROVE  back[k - i] = list[k - 1]
    <2>1. k - i \in 1..(Len(list) - i + 1) /\ i + (k - i) - 1 = k - 1
      BY <1>1, <1>7
    <2> QED BY <2>1, <1>3
  <1> QED BY <1>1, <1>4, <1>5, <1>6, <1>7

(***************************************************************************)
(* A match that leaves moves those behind its place back by one.           *)
(***************************************************************************)
LEMMA LeftList ==
  ASSUME NEW S, NEW list \in Seq(S), NEW i \in DOMAIN list
  PROVE  /\ RemoveAt(list, i) \in Seq(S)
         /\ Len(RemoveAt(list, i)) = Len(list) - 1
         /\ \A k \in 1..(Len(list) - 1) :
              RemoveAt(list, i)[k] = IF k < i THEN list[k] ELSE list[k + 1]
  <1> DEFINE front == SubSeq(list, 1, i - 1)
             back == SubSeq(list, i + 1, Len(list))
  <1>1. Len(list) \in Nat /\ i \in 1..Len(list) /\ DOMAIN list = 1..Len(list)
    OBVIOUS
  <1>2. /\ front \in Seq(S) /\ Len(front) = i - 1
        /\ \A k \in 1..(i - 1) : front[k] = list[k]
    BY <1>1
  <1>3. /\ back \in Seq(S) /\ Len(back) = Len(list) - i
        /\ \A k \in 1..(Len(list) - i) : back[k] = list[i + k]
    BY <1>1
  <1> HIDE DEF front, back
  <1>4. /\ front \o back \in Seq(S) /\ Len(front \o back) = Len(list) - 1
        /\ \A k \in 1..(Len(list) - 1) :
             (front \o back)[k] = IF k <= i - 1 THEN front[k] ELSE back[k - (i - 1)]
    <2>1. Len(front) + Len(back) = Len(list) - 1
      BY <1>1, <1>2, <1>3
    <2>2. /\ front \o back \in Seq(S) /\ Len(front \o back) = Len(front) + Len(back)
          /\ \A k \in 1..(Len(front) + Len(back)) :
               (front \o back)[k]
                 = IF k <= Len(front) THEN front[k] ELSE back[k - Len(front)]
      BY <1>2, <1>3, ConcatList
    <2> QED BY <2>1, <2>2, <1>2
  <1>5. RemoveAt(list, i) = front \o back
    BY DEF RemoveAt, front, back
  <1>6. ASSUME NEW k \in 1..(Len(list) - 1), k >= i
        PROVE  back[k - (i - 1)] = list[k + 1]
    <2>1. k - (i - 1) \in 1..(Len(list) - i) /\ i + (k - (i - 1)) = k + 1
      BY <1>1, <1>6
    <2> QED BY <2>1, <1>3
  <1>7. ASSUME NEW k \in 1..(Len(list) - 1)
        PROVE  (front \o back)[k] = IF k < i THEN list[k] ELSE list[k + 1]
    <2>1. CASE k <= i - 1
      <3>1. (front \o back)[k] = front[k] /\ k \in 1..(i - 1) /\ k < i
        BY <1>1, <1>4, <2>1
      <3> QED BY <1>2, <3>1
    <2>2. CASE ~(k <= i - 1)
      <3>1. (front \o back)[k] = back[k - (i - 1)] /\ k >= i /\ ~(k < i)
        BY <1>1, <1>4, <2>2
      <3> QED BY <1>6, <3>1
    <2> QED BY <2>1, <2>2
  <1> QED BY <1>4, <1>5, <1>7

(***************************************************************************)
(* A page holds the matches behind its start, as many as there are.        *)
(***************************************************************************)
LEMMA PageOf ==
  ASSUME NEW S, NEW list \in Seq(S), NEW start \in Nat
  PROVE  LET chunk == Page(list, start)
         IN  /\ chunk \in Seq(S)
             /\ start >= Len(list) => Len(chunk) = 0
             /\ start < Len(list) /\ start + PageSize > Len(list) =>
                  Len(chunk) = Len(list) - start
             /\ start + PageSize <= Len(list) => Len(chunk) = PageSize
             /\ \A k \in 1..Len(chunk) : chunk[k] = list[start + k]
  <1> DEFINE end == Min({start + PageSize, Len(list)})
  <1>1. PageSize \in Nat /\ PageSize > 0 /\ Len(list) \in Nat /\ start \in Nat
    BY PageAssumption
  <1>2. /\ end \in Nat
        /\ start + PageSize <= Len(list) => end = start + PageSize
        /\ start + PageSize > Len(list) => end = Len(list)
    <2>1. ASSUME NEW a \in Nat, NEW b \in Nat, a <= b PROVE Min({a, b}) = a
      BY <2>1 DEF Min
    <2>2. ASSUME NEW a \in Nat, NEW b \in Nat, a > b PROVE Min({a, b}) = b
      BY <2>2 DEF Min
    <2>3. start + PageSize \in Nat
      BY <1>1
    <2>4. start + PageSize <= Len(list) \/ start + PageSize > Len(list)
      BY <1>1, <2>3
    <2> QED BY <1>1, <2>1, <2>2, <2>3, <2>4
  <1> HIDE DEF end
  <1>3. Page(list, start) = SubSeq(list, start + 1, end)
    BY DEF Page, end
  <1>4. CASE start < Len(list)
    <2>1. start + 1 <= end /\ end <= Len(list)
      BY <1>1, <1>2, <1>4
    <2>2. /\ SubSeq(list, start + 1, end) \in Seq(S)
          /\ Len(SubSeq(list, start + 1, end)) = end - start
          /\ \A k \in 1..(end - start) :
               SubSeq(list, start + 1, end)[k] = list[start + k]
      BY <1>1, <1>2, <2>1
    <2>3. /\ start + PageSize <= Len(list) => end - start = PageSize
          /\ start + PageSize > Len(list) => end - start = Len(list) - start
      BY <1>1, <1>2
    <2> QED BY <1>3, <1>4, <2>2, <2>3
  <1>5. CASE start >= Len(list)
    <2>1. end < start + 1 /\ start + PageSize > Len(list)
      BY <1>1, <1>2, <1>5
    <2>2. SubSeq(list, start + 1, end) = <<>>
      BY <1>1, <1>2, <2>1
    <2>3. Len(<<>>) = 0 /\ <<>> \in Seq(S) /\ 1..0 = {}
      OBVIOUS
    <2>4. ~(start < Len(list)) /\ ~(start + PageSize <= Len(list))
      BY <1>1, <1>5, <2>1
    <2> QED BY <1>3, <2>2, <2>3, <2>4
  <1>6. start < Len(list) \/ start >= Len(list)
    BY <1>1
  <1> QED BY <1>4, <1>5, <1>6

(***************************************************************************)
(* A match that joins pushes at most one match on from the first "start".  *)
(***************************************************************************)
LEMMA MatchJoins ==
  ASSUME NEW S, NEW list \in Seq(S), IsInjective(list), NEW m \in S, m \notin Range(list),
         NEW start \in Nat, NEW more \in Joined(list, m)
  PROVE  /\ more \in Seq(S) /\ IsInjective(more) /\ Range(more) = Range(list) \cup {m}
         /\ Behind(more, start) \subseteq Behind(list, start) \cup {m}
         /\ \E x : Ahead(more, start) \subseteq Ahead(list, start) \cup {x}
  <1>1. PICK i \in 1..(Len(list) + 1) : more = InsertAt(list, i, m)
    BY DEF Joined
  <1>2. /\ more \in Seq(S) /\ Len(more) = Len(list) + 1
        /\ \A k \in 1..(Len(list) + 1) :
             more[k] = IF k < i THEN list[k] ELSE IF k = i THEN m ELSE list[k - 1]
    <2>1. /\ InsertAt(list, i, m) \in Seq(S)
          /\ Len(InsertAt(list, i, m)) = Len(list) + 1
          /\ \A k \in 1..(Len(list) + 1) :
               InsertAt(list, i, m)[k] = IF k < i THEN list[k]
                                         ELSE IF k = i THEN m ELSE list[k - 1]
      BY JoinedList
    <2> QED BY <1>1, <2>1
  <1>3. /\ Len(list) \in Nat /\ i \in Nat /\ 1 <= i /\ i <= Len(list) + 1
        /\ DOMAIN list = 1..Len(list) /\ DOMAIN more = 1..(Len(list) + 1)
    BY <1>2
  <1> DEFINE Was(k) == IF k < i THEN k ELSE k - 1
  <1>4. ASSUME NEW k \in DOMAIN more, k # i
        PROVE  Was(k) \in DOMAIN list /\ more[k] = list[Was(k)]
    BY <1>2, <1>3, <1>4
  <1>5. more[i] = m
    BY <1>2, <1>3
  <1>6. \A k \in DOMAIN list : \E l \in DOMAIN more : more[l] = list[k]
    <2> TAKE k \in DOMAIN list
    <2>1. CASE k < i
      BY <1>2, <1>3, <2>1
    <2>2. CASE k >= i
      <3>1. k + 1 \in DOMAIN more /\ ~(k + 1 < i) /\ k + 1 # i /\ k + 1 - 1 = k
        BY <1>3, <2>2
      <3> QED BY <1>2, <1>3, <3>1
    <2> QED BY <1>3, <2>1, <2>2
  <1>7. Range(more) = Range(list) \cup {m}
    <2>1. i \in DOMAIN more
      BY <1>3
    <2> HIDE DEF Was
    <2> QED BY <1>4, <1>5, <1>6, <2>1 DEF Range
  <1>8. IsInjective(more)
    <2> SUFFICES ASSUME NEW k \in DOMAIN more, NEW l \in DOMAIN more, more[k] = more[l]
                 PROVE  k = l
      BY DEF IsInjective
    <2>1. \A j \in DOMAIN more : j # i => more[j] # m
      <3> HIDE DEF Was
      <3> QED BY <1>4 DEF Range
    <2>2. CASE k = i \/ l = i
      BY <1>5, <2>1, <2>2
    <2>3. CASE k # i /\ l # i
      <3>1. Was(k) = Was(l)
        <4> HIDE DEF Was
        <4> QED BY <1>4, <2>3 DEF IsInjective
      <3> QED BY <1>3, <2>3, <3>1
    <2> QED BY <2>2, <2>3
  <1>9. Behind(more, start) \subseteq Behind(list, start) \cup {m}
    <2> SUFFICES ASSUME NEW k \in DOMAIN more, k <= start, k # i
                 PROVE  more[k] \in Behind(list, start)
      BY <1>5 DEF Behind
    <2>1. Was(k) <= start
      BY <1>3
    <2> HIDE DEF Was
    <2> QED BY <1>4, <2>1 DEF Behind
  <1>10. Ahead(more, start) \subseteq Ahead(list, start) \cup {IF i > start THEN m ELSE list[start]}
    <2> SUFFICES ASSUME NEW k \in DOMAIN more, k > start
                 PROVE  \/ more[k] \in Ahead(list, start)
                        \/ more[k] = IF i > start THEN m ELSE list[start]
      BY DEF Ahead
    <2>1. CASE i > start
      <3>1. k # i => Was(k) > start
        BY <1>3, <2>1
      <3> HIDE DEF Was
      <3> QED BY <1>4, <1>5, <2>1, <3>1 DEF Ahead
    <2>2. CASE ~(i > start)
      <3>1. k # i /\ (Was(k) = start \/ Was(k) > start)
        BY <1>3, <2>2
      <3> HIDE DEF Was
      <3> QED BY <1>4, <2>2, <3>1 DEF Ahead
    <2> QED BY <2>1, <2>2
  <1> QED BY <1>2, <1>7, <1>8, <1>9, <1>10

(***************************************************************************)
(* A match that leaves pulls at most one match in among the first "start". *)
(***************************************************************************)
LEMMA MatchLeaves ==
  ASSUME NEW S, NEW list \in Seq(S), IsInjective(list), NEW m \in Range(list),
         NEW start \in Nat
  PROVE  LET less == Left(list, m)
         IN  /\ less \in Seq(S) /\ IsInjective(less) /\ Range(less) = Range(list) \ {m}
             /\ \E x : Behind(less, start) \subseteq Behind(list, start) \cup {x}
             /\ Ahead(less, start) \subseteq Ahead(list, start)
  <1> DEFINE less == Left(list, m)
             i == CHOOSE j \in DOMAIN list : list[j] = m
  <1>1. i \in DOMAIN list /\ list[i] = m
    BY DEF Range
  <1>2. less = RemoveAt(list, i)
    BY DEF Left
  <1> HIDE DEF less, i
  <1>3. /\ less \in Seq(S) /\ Len(less) = Len(list) - 1
        /\ \A k \in 1..(Len(list) - 1) :
             less[k] = IF k < i THEN list[k] ELSE list[k + 1]
    BY <1>1, <1>2, LeftList
  <1>4. /\ Len(list) \in Nat /\ i \in Nat /\ 1 <= i /\ i <= Len(list)
        /\ DOMAIN list = 1..Len(list) /\ DOMAIN less = 1..(Len(list) - 1)
    BY <1>1, <1>3
  <1> DEFINE Was(k) == IF k < i THEN k ELSE k + 1
  <1>5. ASSUME NEW k \in DOMAIN less
        PROVE  Was(k) \in DOMAIN list /\ Was(k) # i /\ less[k] = list[Was(k)]
    BY <1>3, <1>4
  <1>6. \A k \in DOMAIN list : k # i => \E l \in DOMAIN less : less[l] = list[k]
    <2> SUFFICES ASSUME NEW k \in DOMAIN list, k # i
                 PROVE  \E l \in DOMAIN less : less[l] = list[k]
      OBVIOUS
    <2>1. CASE k < i
      BY <1>3, <1>4, <2>1
    <2>2. CASE k > i
      <3>1. k - 1 \in DOMAIN less /\ ~(k - 1 < i) /\ k - 1 + 1 = k
        BY <1>4, <2>2
      <3> QED BY <1>3, <1>4, <3>1
    <2> QED BY <1>4, <2>1, <2>2
  <1>7. Range(less) = Range(list) \ {m}
    <2> HIDE DEF Was
    <2>1. \A k \in DOMAIN list : list[k] = m <=> k = i
      BY <1>1 DEF IsInjective
    <2> QED BY <1>5, <1>6, <2>1 DEF Range
  <1>8. IsInjective(less)
    <2> SUFFICES ASSUME NEW k \in DOMAIN less, NEW l \in DOMAIN less, less[k] = less[l]
                 PROVE  k = l
      BY DEF IsInjective
    <2>1. Was(k) = Was(l)
      <3> HIDE DEF Was
      <3> QED BY <1>5 DEF IsInjective
    <2> QED BY <1>4, <2>1
  <1>9. Behind(less, start) \subseteq Behind(list, start) \cup {list[start + 1]}
    <2> SUFFICES ASSUME NEW k \in DOMAIN less, k <= start
                 PROVE  less[k] \in Behind(list, start) \cup {list[start + 1]}
      BY DEF Behind
    <2>1. Was(k) <= start \/ Was(k) = start + 1
      BY <1>4
    <2> HIDE DEF Was
    <2> QED BY <1>5, <2>1 DEF Behind
  <1>10. Ahead(less, start) \subseteq Ahead(list, start)
    <2> SUFFICES ASSUME NEW k \in DOMAIN less, k > start
                 PROVE  less[k] \in Ahead(list, start)
      BY DEF Ahead
    <2>1. Was(k) > start
      BY <1>4
    <2> HIDE DEF Was
    <2> QED BY <1>5, <2>1 DEF Ahead
  <1>11. less = Left(list, m)
    BY DEF less
  <1> QED BY <1>3, <1>7, <1>8, <1>9, <1>10, <1>11
(***************************************************************************)
(* A page moves its matches, each once, from ahead of the search to behind *)
(* it, whether the next one starts behind what came or a page further on.  *)
(***************************************************************************)
LEMMA PageMoves ==
  ASSUME NEW S, NEW list \in Seq(S), IsInjective(list), NEW start \in Nat,
         NEW next \in {start + PageSize, start + Len(Page(list, start))}
  PROVE  LET chunk == Page(list, start)
         IN  /\ chunk \in Seq(S) /\ IsInjective(chunk)
             /\ Range(chunk) \subseteq Ahead(list, start)
             /\ Behind(list, next) = Behind(list, start) \cup Range(chunk)
             /\ Ahead(list, next) = Ahead(list, start) \ Range(chunk)
  <1> DEFINE chunk == Page(list, start)
             size == Len(chunk)
  <1>1. PageSize \in Nat /\ PageSize > 0 /\ Len(list) \in Nat /\ DOMAIN list = 1..Len(list)
    BY PageAssumption
  <1>2. /\ chunk \in Seq(S)
        /\ start >= Len(list) => size = 0
        /\ start < Len(list) /\ start + PageSize > Len(list) => size = Len(list) - start
        /\ start + PageSize <= Len(list) => size = PageSize
        /\ \A k \in 1..size : chunk[k] = list[start + k]
    BY PageOf
  <1>3. next = start + PageSize \/ next = start + size
    OBVIOUS
  <1> HIDE DEF chunk
  <1>4. size \in Nat /\ DOMAIN chunk = 1..size
    BY <1>2
  <1> HIDE DEF size
  <1> DEFINE total == Len(list)
  <1>5. total \in Nat /\ DOMAIN list = 1..total
    BY <1>1
  <1>6. /\ next \in Nat /\ start <= next /\ start + size <= next
        /\ size = 0 \/ start + size <= total
        /\ next = start + size \/ (next >= total /\ start + size >= total)
    <2>1. /\ PageSize \in Nat /\ PageSize > 0 /\ total \in Nat /\ size \in Nat
          /\ start \in Nat
      BY <1>1, <1>4
    <2>2. /\ start >= total => size = 0
          /\ start < total /\ start + PageSize > total => size = total - start
          /\ start + PageSize <= total => size = PageSize
      BY <1>2
    <2> HIDE DEF total
    <2>3. CASE start >= total
      BY <1>3, <2>1, <2>2, <2>3
    <2>4. CASE start < total /\ start + PageSize > total
      BY <1>3, <2>1, <2>2, <2>4
    <2>5. CASE start + PageSize <= total
      BY <1>3, <2>1, <2>2, <2>5
    <2> QED BY <2>1, <2>3, <2>4, <2>5
  <1> HIDE DEF total
  <1>7. ASSUME NEW k \in 1..total
        PROVE  k > start /\ k <= next <=> k - start \in 1..size
    BY <1>5, <1>4, <1>6
  <1>8. ASSUME NEW k \in 1..size
        PROVE  start + k \in 1..total /\ start + k > start /\ start + k <= next
    BY <1>5, <1>4, <1>6
  <1>9. Range(chunk) = { list[k] : k \in { j \in DOMAIN list : j > start /\ j <= next } }
    <2>1. \A k \in DOMAIN list : k > start /\ k <= next =>
            k - start \in DOMAIN chunk /\ chunk[k - start] = list[k]
      <3> SUFFICES ASSUME NEW k \in DOMAIN list, k > start, k <= next
                   PROVE  k - start \in DOMAIN chunk /\ chunk[k - start] = list[k]
        OBVIOUS
      <3>1. k - start \in 1..size /\ start + (k - start) = k
        BY <1>5, <1>7
      <3> QED BY <1>2, <1>4, <3>1
    <2>2. \A k \in DOMAIN chunk : /\ start + k \in DOMAIN list /\ start + k > start
                                  /\ start + k <= next /\ chunk[k] = list[start + k]
      BY <1>5, <1>2, <1>4, <1>8
    <2> QED BY <2>1, <2>2 DEF Range
  <1>10. IsInjective(chunk)
    <2> SUFFICES ASSUME NEW k \in 1..size, NEW l \in 1..size, chunk[k] = chunk[l]
                 PROVE  k = l
      BY <1>4 DEF IsInjective
    <2>1. start + k = start + l
      BY <1>5, <1>2, <1>8 DEF IsInjective
    <2> QED BY <2>1, <1>4
  <1>11. Range(chunk) \subseteq Ahead(list, start)
    BY <1>9 DEF Ahead
  <1>12. Behind(list, next) = Behind(list, start) \cup Range(chunk)
    <2>1. { k \in DOMAIN list : k <= next }
            = { k \in DOMAIN list : k <= start }
              \cup { k \in DOMAIN list : k > start /\ k <= next }
      BY <1>5, <1>6
    <2> QED BY <1>9, <2>1 DEF Behind
  <1>13. Ahead(list, next) = Ahead(list, start) \ Range(chunk)
    <2>1. { k \in DOMAIN list : k > next }
            = { k \in DOMAIN list : k > start }
              \ { k \in DOMAIN list : k > start /\ k <= next }
      BY <1>5, <1>6
    <2>2. \A k, l \in DOMAIN list : list[k] = list[l] => k = l
      BY DEF IsInjective
    <2> QED BY <1>9, <2>1, <2>2 DEF Ahead
  <1> QED BY <1>2, <1>10, <1>11, <1>12, <1>13 DEF chunk

(***************************************************************************)
(* At the start all matches are ahead, and past the last one none is.      *)
(***************************************************************************)
LEMMA Ends ==
  ASSUME NEW S, NEW list \in Seq(S)
  PROVE  /\ Behind(list, 0) = {}
         /\ \A next \in Nat : next >= Len(list) =>
              Behind(list, next) = Range(list) /\ Ahead(list, next) = {}
         /\ \A start \in Nat : Behind(list, start) \subseteq Range(list)
                               /\ Ahead(list, start) \subseteq Range(list)
  <1>1. Len(list) \in Nat /\ DOMAIN list = 1..Len(list)
    OBVIOUS
  <1>2. Behind(list, 0) = {}
    BY <1>1 DEF Behind
  <1>3. ASSUME NEW next \in Nat, next >= Len(list)
        PROVE  Behind(list, next) = Range(list) /\ Ahead(list, next) = {}
    <2>1. \A k \in DOMAIN list : k <= next /\ ~(k > next)
      BY <1>1, <1>3
    <2> QED BY <2>1 DEF Behind, Ahead, Range
  <1> QED BY <1>2, <1>3 DEF Behind, Ahead, Range

(***************************************************************************)
(* A list has finitely many elements, one for each place if it repeats     *)
(* none.                                                                   *)
(***************************************************************************)
LEMMA RangeFinite ==
  ASSUME NEW S, NEW list \in Seq(S)
  PROVE  /\ IsFiniteSet(Range(list)) /\ Cardinality(Range(list)) \in Nat
         /\ Cardinality(Range(list)) <= Len(list)
         /\ IsInjective(list) => Cardinality(Range(list)) = Len(list)
  <1>1. Len(list) \in Nat /\ DOMAIN list = 1..Len(list)
    OBVIOUS
  <1>2. IsFiniteSet(1..Len(list)) /\ Cardinality(1..Len(list)) = Len(list)
    <2>1. Len(list) \in Int /\ 1 \in Int
      BY <1>1
    <2>2. Cardinality(1..Len(list)) = IF 1 > Len(list) THEN 0 ELSE Len(list) - 1 + 1
      BY <2>1, FS_Interval
    <2> QED BY <1>1, <2>1, <2>2, FS_Interval
  <1>3. list \in Surjection(1..Len(list), Range(list))
    <2>1. list \in [1..Len(list) -> Range(list)]
      BY <1>1 DEF Range
    <2> QED BY <2>1, <1>1 DEF Surjection, Range
  <1>4. /\ IsFiniteSet(Range(list))
        /\ Cardinality(Range(list)) <= Cardinality(1..Len(list))
        /\ Cardinality(Range(list)) = Cardinality(1..Len(list))
             <=> list \in Injection(1..Len(list), Range(list))
    BY <1>2, <1>3, FS_Surjection
  <1>5. IsInjective(list) => list \in Injection(1..Len(list), Range(list))
    BY <1>3 DEF Surjection, Injection
  <1> QED BY <1>2, <1>4, <1>5, FS_CardinalityType

(***************************************************************************)
(* The list of the elements of a finite set.                               *)
(***************************************************************************)
LEMMA ListOf ==
  ASSUME NEW S, NEW T \in SUBSET S, IsFiniteSet(T)
  PROVE  /\ SetToSeq(T) \in Seq(S) /\ IsInjective(SetToSeq(T))
         /\ Range(SetToSeq(T)) = T
  <1> DEFINE n == Cardinality(T)
             list == SetToSeq(T)
  <1>1. n \in Nat /\ ExistsBijection(1..n, T)
    BY FS_CardinalityType
  <1>2. list \in [1..n -> T] /\ IsInjective(list)
    <2>1. \E f \in [1..n -> T] : IsInjective(f)
      BY <1>1 DEF ExistsBijection, Bijection, Injection
    <2> QED BY <2>1 DEF SetToSeq
  <1>3. list \in Injection(1..n, T) /\ IsFiniteSet(1..n) /\ Cardinality(1..n) = n
    <2>1. IsFiniteSet(1..n) /\ Cardinality(1..n) = IF 1 > n THEN 0 ELSE n - 1 + 1
      BY <1>1, FS_Interval
    <2> QED BY <1>1, <1>2, <2>1 DEF Injection
  <1>4. list \in Surjection(1..n, T)
    BY <1>1, <1>3, FS_Injection
  <1> HIDE DEF n
  <1>5. list \in Seq(T) /\ DOMAIN list = 1..n
    BY <1>1, <1>2
  <1>6. Range(list) = T
    BY <1>2, <1>4, <1>5 DEF Surjection, Range
  <1>7. list \in Seq(S)
    BY <1>5, <1>1, <1>2
  <1> QED BY <1>2, <1>6, <1>7
-----------------------------------------------------------------------------
(* The verdicts of feature-slo-automation. *)

(***************************************************************************)
(* One place more is one more of a kind or none.                           *)
(***************************************************************************)
LEMMA CountMore ==
  ASSUME NEW N, NEW n \in Nat
  PROVE  /\ Cardinality({ k \in 1..n : k \in N }) \in Nat
         /\ n + 1 \in N => Cardinality({ k \in 1..(n + 1) : k \in N })
                             = Cardinality({ k \in 1..n : k \in N }) + 1
         /\ n + 1 \notin N => Cardinality({ k \in 1..(n + 1) : k \in N })
                                = Cardinality({ k \in 1..n : k \in N })
  <1> DEFINE A == { k \in 1..n : k \in N }
             B == { k \in 1..(n + 1) : k \in N }
  <1>1. IsFiniteSet(A) /\ Cardinality(A) \in Nat
    <2>1. IsFiniteSet(1..n) /\ A \in SUBSET (1..n)
      BY FS_Interval
    <2> QED BY <2>1, FS_Subset, FS_CardinalityType
  <1>2. n + 1 \notin A
    OBVIOUS
  <1>3. n + 1 \in N => B = A \cup {n + 1}
    OBVIOUS
  <1>4. n + 1 \notin N => B = A
    OBVIOUS
  <1> HIDE DEF A, B
  <1>5. Cardinality(A \cup {n + 1}) = Cardinality(A) + 1
    BY <1>1, <1>2, FS_AddElement
  <1>6. /\ Cardinality(A) \in Nat
        /\ n + 1 \in N => Cardinality(B) = Cardinality(A) + 1
        /\ n + 1 \notin N => Cardinality(B) = Cardinality(A)
    BY <1>1, <1>3, <1>4, <1>5
  <1> QED BY <1>6 DEF A, B

\* The places of the pull requests of a repository, of those that must be
\* denied, of those that may be, and of those with a valid bug.
PlacesOf(r) == { n \in Nat : listed[n].repo = r }
MustDeny(r) == { n \in Nat : listed[n].repo = r /\ ~Unjudged(listed[n])
                   /\ Answers(org, listed[n].component, listed[n].subcomponent)
                        \subseteq Blamed(listed[n]) }
MayDeny(r) == { n \in Nat : listed[n].repo = r /\ ~Unjudged(listed[n])
                              /\ Blamed(listed[n]) # {} }
ValidBugs(r) == { n \in Nat : listed[n].repo = r /\ listed[n].validBug }

First(n, N) == Cardinality({ k \in 1..n : k \in N })

(***************************************************************************)
(* The property in terms of these places.                                  *)
(***************************************************************************)
Verdicts(r) ==
  /\ allowed[r] + denied[r] + unknown[r] = First(taken, PlacesOf(r))
  /\ denied[r] >= First(taken, MustDeny(r))
  /\ denied[r] <= First(taken, MayDeny(r))
  /\ Nil \in {org, results} => allowed[r] = First(taken, ValidBugs(r))

LEMMA VerdictsOfPlaces ==
  ASSUME taken \in Nat
  PROVE  VerdictsJustified <=> \A r \in Repo : Verdicts(r)
  <1> SUFFICES ASSUME NEW r
               PROVE  /\ Decisions(r, LAMBDA p : TRUE) = First(taken, PlacesOf(r))
                      /\ Decisions(r, LAMBDA p : ~Unjudged(p)
                           /\ Answers(org, p.component, p.subcomponent) \subseteq Blamed(p))
                           = First(taken, MustDeny(r))
                      /\ Decisions(r, LAMBDA p : ~Unjudged(p) /\ Blamed(p) # {})
                           = First(taken, MayDeny(r))
                      /\ Decisions(r, LAMBDA p : p.validBug) = First(taken, ValidBugs(r))
    BY DEF VerdictsJustified, Verdicts
  <1>1. \A k \in 1..taken : k \in Nat
    OBVIOUS
  <1>2. { k \in 1..taken : listed[k].repo = r /\ TRUE } = { k \in 1..taken : k \in PlacesOf(r) }
    BY <1>1 DEF PlacesOf
  <1>3. { k \in 1..taken : listed[k].repo = r /\ (~Unjudged(listed[k])
            /\ Answers(org, listed[k].component, listed[k].subcomponent)
                 \subseteq Blamed(listed[k])) }
          = { k \in 1..taken : k \in MustDeny(r) }
    BY <1>1 DEF MustDeny
  <1>4. { k \in 1..taken : listed[k].repo = r /\ (~Unjudged(listed[k])
                                                /\ Blamed(listed[k]) # {}) }
          = { k \in 1..taken : k \in MayDeny(r) }
    BY <1>1 DEF MayDeny
  <1>5. { k \in 1..taken : listed[k].repo = r /\ listed[k].validBug }
          = { k \in 1..taken : k \in ValidBugs(r) }
    BY <1>1 DEF ValidBugs
  <1> QED BY <1>2, <1>3, <1>4, <1>5 DEF Decisions, First
LEMMA VerdictsNext ==
  (taken \in Nat => (VerdictsJustified <=> \A r \in Repo : Verdicts(r)))'
  <1>1. taken \in Nat => (VerdictsJustified <=> \A r \in Repo : Verdicts(r))
    BY VerdictsOfPlaces
  <1> QED BY <1>1, PTL
(***************************************************************************)
(* At the start all lists are empty but that of GitHub.                    *)
(***************************************************************************)
LEMMA InitIInv == Init => IInv
  <1> SUFFICES ASSUME Init PROVE IInv
    OBVIOUS
  <1>1. PICK members \in SUBSET Pulls : open = SetToSeq(members)
    BY DEF Init
  <1>2. IsFiniteSet(members)
    BY ServicesAssumption, FS_Subset
  <1>3. open \in Seq(Pulls) /\ IsInjective(open)
    BY <1>1, <1>2, ListOf
  <1>4. TypeOK
    BY <1>3 DEF TypeOK, Init
  <1>5. Range(listed) = {}
    BY DEF Init, Range
  <1>6. SearchInv
    <2>1. (page - 1) * PageSize = 0
      BY PageAssumption DEF Init
    <2>2. (steady \cap Behind(open, 0)) \ Range(listed) = {} /\ Range(listed) \cap Ahead(open, 0) = {}
      BY <1>3, <1>5, Ends
    <2>3. /\ Cardinality({}) = 0 /\ Len(listed) = 0
          /\ taken = 0 /\ closed = 0 /\ opened = 0
      BY FS_EmptySet DEF Init
    <2>4. /\ Cardinality((steady \cap Behind(open, 0)) \ Range(listed)) <= closed
          /\ Len(listed) + Cardinality(Range(listed) \cap Ahead(open, 0))
               <= opened + Cardinality(Range(listed))
      <3>1. /\ Cardinality((steady \cap Behind(open, 0)) \ Range(listed)) = 0
            /\ Cardinality(Range(listed) \cap Ahead(open, 0)) = 0
            /\ Cardinality(Range(listed)) = 0
        BY <1>5, <2>2, <2>3, Zenon
      <3> QED BY <2>3, <3>1
    <2> QED BY <2>1, <2>3, <2>4 DEF SearchInv
  <1>7. VerdictsJustified
    <2>1. \A N : First(0, N) = 0
      BY FS_EmptySet DEF First
    <2>2. \A r \in Repo : Verdicts(r)
      BY <2>1 DEF Init, Verdicts
    <2> QED BY <2>2, VerdictsOfPlaces DEF Init
  <1>8. SearchNearlyComplete
    BY DEF Init, SearchNearlyComplete
  <1> QED BY <1>3, <1>4, <1>6, <1>7, <1>8 DEF IInv

(***************************************************************************)
(* The pages stay lists of pull requests, none of them open twice.         *)
(***************************************************************************)
LEMMA TypeNext ==
  ASSUME TypeOK, IsInjective(open), [Next]_vars
  PROVE  TypeOK' /\ IsInjective(open')
  <1>1. /\ open \in Seq(Pulls) /\ listed \in Seq(Pulls) /\ page \in Nat \ {0} /\ taken \in Nat
        /\ PageSize \in Nat \ {0}
    BY PageAssumption DEF TypeOK
  <1>2. (page - 1) * PageSize \in Nat
    <2>1. page - 1 \in Nat
      BY <1>1
    <2> QED BY <1>1, <2>1
  <1>3. ASSUME NEW p \in Pulls, Open(p)
        PROVE  TypeOK' /\ IsInjective(open')
    <2>1. open' \in Seq(Pulls) /\ IsInjective(open') /\ Range(open') = Range(open) \cup {p}
      <3>1. open' \in Joined(open, p) /\ p \notin Range(open) /\ 0 \in Nat
        BY <1>3 DEF Open
      <3> QED BY <1>1, <3>1, MatchJoins
    <2> QED BY <1>3, <2>1 DEF TypeOK, Open, counts
  <1>4. ASSUME NEW p \in Pulls, Close(p)
        PROVE  TypeOK' /\ IsInjective(open')
    <2>1. open' \in Seq(Pulls) /\ IsInjective(open') /\ Range(open') = Range(open) \ {p}
      <3>1. open' = Left(open, p) /\ p \in Range(open) /\ 0 \in Nat
        BY <1>4 DEF Close
      <3> QED BY <1>1, <3>1, MatchLeaves
    <2> QED BY <1>4, <2>1 DEF TypeOK, Close, counts
  <1>5. CASE GetOrgData
    BY <1>5 DEF TypeOK, GetOrgData, counts, worldVars
  <1>6. CASE GetTeamsResults
    BY <1>6 DEF TypeOK, GetTeamsResults, counts, worldVars
  <1>7. CASE GetPage
    <2>1. listed' \in Seq(Pulls)
      <3>1. Page(open, (page - 1) * PageSize) \in Seq(Pulls)
        BY <1>1, <1>2, PageOf
      <3> QED BY <1>1, <1>7, <3>1, ConcatList DEF GetPage
    <2>2. page' \in Nat \ {0} /\ pc' \in {"search", "decide"}
      BY <1>1, <1>7 DEF GetPage
    <2> QED BY <1>7, <2>1, <2>2 DEF TypeOK, GetPage, counts, worldVars
  <1>8. ASSUME Deciding
        PROVE  Pull.repo \in Repo
    <2>1. taken + 1 \in 1..Len(listed)
      BY <1>1, <1>8 DEF Deciding
    <2> QED BY <1>1, <2>1 DEF Pull, Repo
  <1>9. CASE AllowValidBug
    BY <1>8, <1>9 DEF TypeOK, AllowValidBug, Count, Decided, worldVars
  <1>10. CASE ComponentUnknown
    BY <1>8, <1>10 DEF TypeOK, ComponentUnknown, Count, Decided, worldVars
  <1>11. ASSUME NEW team \in Team, Judge(team)
         PROVE  TypeOK' /\ IsInjective(open')
    <2>1. Pull.repo \in Repo
      BY <1>8, <1>11 DEF Judge
    <2>2. /\ allowed' \in [Repo -> Nat] /\ denied' \in [Repo -> Nat] /\ unknown' = unknown
      <3>1. CASE Failing(team)
        BY <1>11, <2>1, <3>1 DEF TypeOK, Judge, Count
      <3>2. CASE ~Failing(team)
        BY <1>11, <2>1, <3>2 DEF TypeOK, Judge, Count
      <3> QED BY <3>1, <3>2
    <2>3. /\ UNCHANGED <<worldVars, pc, org, results, page, listed>> /\ taken' = taken + 1
      BY <1>11 DEF Judge, Decided
    <2> QED BY <2>2, <2>3 DEF TypeOK, worldVars
  <1>12. CASE Panic \/ PrintCounts \/ CallFails
    <2>1. /\ UNCHANGED <<worldVars, org, results, page, listed, taken, counts>>
          /\ pc' \in {"printed", "failed", "panicked"}
      BY <1>12 DEF Panic, PrintCounts, CallFails
    <2> QED BY <2>1 DEF TypeOK, counts, worldVars
  <1>13. CASE UNCHANGED vars
    <2>1. UNCHANGED <<open, steady, opened, closed, pc, org, results, page, listed, taken,
                      allowed, denied, unknown>>
      BY <1>13 DEF vars, counts, worldVars
    <2> QED BY <2>1 DEF TypeOK
  <1> QED BY <1>3, <1>4, <1>5, <1>6, <1>7, <1>9, <1>10, <1>11, <1>12, <1>13 DEF Next

(***************************************************************************)
(* A pull request decided raises one count of its repository, and the      *)
(* places it is one of.                                                    *)
(***************************************************************************)
LEMMA VerdictStep ==
  ASSUME TypeOK, Deciding, Decided, NEW r \in Repo, Verdicts(r),
         \/ AllowValidBug \/ ComponentUnknown \/ \E team \in Team : Judge(team)
  PROVE  Verdicts(r)'
  <1> DEFINE n == taken + 1
  <1>1. /\ taken \in Nat /\ allowed[r] \in Nat /\ denied[r] \in Nat /\ unknown[r] \in Nat
        /\ Pull \in Pulls
    <2>1. taken + 1 \in 1..Len(listed)
      BY DEF Deciding, TypeOK
    <2> QED BY <2>1 DEF TypeOK, Pull
  <1>2. /\ taken' = n /\ listed' = listed /\ org' = org /\ results' = results
    BY DEF Decided
  <1>3. /\ PlacesOf(r)' = PlacesOf(r) /\ MustDeny(r)' = MustDeny(r)
        /\ MayDeny(r)' = MayDeny(r) /\ ValidBugs(r)' = ValidBugs(r)
    BY <1>2 DEF PlacesOf, MustDeny, MayDeny, ValidBugs, Unjudged, Blamed
  <1>4. \A N : /\ First(taken, N) \in Nat
               /\ n \in N => First(n, N) = First(taken, N) + 1
               /\ n \notin N => First(n, N) = First(taken, N)
    BY <1>1, CountMore DEF First
  <1>5. /\ n \in Nat /\ listed[n] = Pull
        /\ n \in PlacesOf(r) <=> Pull.repo = r
        /\ n \in MustDeny(r) => Pull.repo = r /\ ~Unjudged(Pull) /\ Teams \subseteq Blamed(Pull)
        /\ n \in MayDeny(r) <=> Pull.repo = r /\ ~Unjudged(Pull) /\ Blamed(Pull) # {}
        /\ n \in ValidBugs(r) <=> Pull.repo = r /\ Pull.validBug
    BY <1>1 DEF PlacesOf, MustDeny, MayDeny, ValidBugs, Pull, Teams
  <1> DEFINE Goal ==
        /\ allowed'[r] + denied'[r] + unknown'[r] = First(n, PlacesOf(r))
        /\ denied'[r] >= First(n, MustDeny(r))
        /\ denied'[r] <= First(n, MayDeny(r))
        /\ Nil \in {org, results} => allowed'[r] = First(n, ValidBugs(r))
  <1>6. SUFFICES Goal
    BY <1>2, <1>3 DEF Verdicts, First
  <1>7. /\ allowed \in [Repo -> Nat] /\ denied \in [Repo -> Nat] /\ unknown \in [Repo -> Nat]
    BY DEF TypeOK
  <1>8. CASE AllowValidBug
    <2>1. /\ allowed' = [allowed EXCEPT ![Pull.repo] = @ + 1]
          /\ denied' = denied /\ unknown' = unknown /\ Pull.validBug
      BY <1>8 DEF AllowValidBug, Count
    <2>2. n \notin MustDeny(r) /\ n \notin MayDeny(r)
      BY <1>5, <2>1 DEF Unjudged
    <2>3. n \in PlacesOf(r) <=> n \in ValidBugs(r)
      BY <1>5, <2>1
    <2>4. allowed'[r] = IF n \in PlacesOf(r) THEN allowed[r] + 1 ELSE allowed[r]
      BY <1>5, <1>7, <2>1
    <2> HIDE DEF n
    <2> QED BY <1>1, <1>4, <2>1, <2>2, <2>3, <2>4 DEF Verdicts
  <1>9. CASE ComponentUnknown
    <2>1. /\ unknown' = [unknown EXCEPT ![Pull.repo] = @ + 1]
          /\ denied' = denied /\ allowed' = allowed /\ ~Pull.validBug /\ Unknown \in Teams
      BY <1>9 DEF ComponentUnknown, Count
    <2>2. n \notin MustDeny(r) /\ n \notin ValidBugs(r)
      BY <1>5, <2>1 DEF Blamed
    <2>3. unknown'[r] = IF n \in PlacesOf(r) THEN unknown[r] + 1 ELSE unknown[r]
      BY <1>5, <1>7, <2>1
    <2> HIDE DEF n
    <2> QED BY <1>1, <1>4, <2>1, <2>2, <2>3 DEF Verdicts
  <1>10. ASSUME NEW team \in Team, Judge(team)
         PROVE  Goal
    <2>1. /\ unknown' = unknown /\ ~Pull.validBug /\ org # Nil /\ results # Nil
          /\ team \in Teams /\ team # Unknown
      BY <1>10, NameAssumption DEF Judge
    <2>2. n \notin ValidBugs(r) /\ ~(Nil \in {org, results})
      BY <1>5, <2>1
    <2>3. CASE Failing(team)
      <3>1. /\ denied' = [denied EXCEPT ![Pull.repo] = @ + 1] /\ allowed' = allowed
        BY <1>10, <2>3 DEF Judge, Count
      <3>2. team \in Blamed(Pull)
        BY <2>1, <2>3 DEF Failing, Blamed, Teams
      <3>3. /\ n \in PlacesOf(r) <=> n \in MayDeny(r)
            /\ n \in MustDeny(r) => n \in PlacesOf(r)
        BY <1>5, <2>1, <3>2 DEF Unjudged
      <3>4. denied'[r] = IF n \in PlacesOf(r) THEN denied[r] + 1 ELSE denied[r]
        BY <1>5, <1>7, <3>1
      <3> HIDE DEF n
      <3> QED BY <1>1, <1>4, <2>1, <2>2, <3>1, <3>3, <3>4 DEF Verdicts
    <2>4. CASE ~Failing(team)
      <3>1. /\ allowed' = [allowed EXCEPT ![Pull.repo] = @ + 1] /\ denied' = denied
        BY <1>10, <2>4 DEF Judge, Count
      <3>2. team \notin Blamed(Pull)
        BY <2>1, <2>4 DEF Failing, Blamed
      <3>3. n \notin MustDeny(r)
        BY <1>5, <2>1, <3>2
      <3>4. allowed'[r] = IF n \in PlacesOf(r) THEN allowed[r] + 1 ELSE allowed[r]
        BY <1>5, <1>7, <3>1
      <3> HIDE DEF n
      <3> QED BY <1>1, <1>4, <2>1, <2>2, <3>1, <3>3, <3>4 DEF Verdicts
    <2> QED BY <2>3, <2>4
  <1> QED BY <1>8, <1>9, <1>10
(***************************************************************************)
(* Every step keeps the verdicts: before the decisions there are none.     *)
(***************************************************************************)
LEMMA VerdictsPreserved ==
  ASSUME TypeOK, TypeOK', SearchInv, VerdictsJustified, [Next]_vars
  PROVE  VerdictsJustified'
  <1>1. taken \in Nat /\ taken' \in Nat
    BY DEF TypeOK
  <1>2. \A r \in Repo : Verdicts(r)
    BY <1>1, VerdictsOfPlaces
  <1>3. SUFFICES ASSUME NEW r \in Repo PROVE Verdicts(r)'
    BY <1>1, VerdictsNext
  <1>4. Verdicts(r)
    BY <1>2
  <1>5. ASSUME UNCHANGED <<org, results, listed, taken, allowed, denied, unknown>>
        PROVE  Verdicts(r)'
    BY <1>4, <1>5 DEF Verdicts, First, PlacesOf, MustDeny, MayDeny, ValidBugs, Unjudged, Blamed
  <1>6. ASSUME pc \in {"org", "results", "search"}, taken' = taken,
               UNCHANGED <<allowed, denied, unknown>>
        PROVE  Verdicts(r)'
    <2>1. \A N : First(0, N) = 0
      BY FS_EmptySet DEF First
    <2>2. taken = 0 /\ taken' = 0
      BY <1>6 DEF SearchInv
    <2>3. allowed[r] \in Nat /\ denied[r] \in Nat /\ unknown[r] \in Nat
      BY DEF TypeOK
    <2>4. allowed[r] = 0 /\ denied[r] = 0 /\ unknown[r] = 0
      BY <1>4, <2>1, <2>2, <2>3 DEF Verdicts
    <2>5. /\ First(taken', PlacesOf(r)') = 0 /\ First(taken', MustDeny(r)') = 0
          /\ First(taken', MayDeny(r)') = 0 /\ First(taken', ValidBugs(r)') = 0
      BY <2>1, <2>2
    <2> QED BY <1>6, <2>4, <2>5 DEF Verdicts, First
  <1>7. CASE AllowValidBug \/ ComponentUnknown \/ \E team \in Team : Judge(team)
    BY <1>4, <1>7, VerdictStep DEF AllowValidBug, ComponentUnknown, Judge
  <1>8. CASE \/ \E p \in Pulls : Open(p) \/ Close(p)
             \/ Panic \/ PrintCounts \/ CallFails \/ UNCHANGED vars
    BY <1>5, <1>8 DEF Open, Close, Panic, PrintCounts, CallFails, vars, counts
  <1>9. CASE GetOrgData \/ GetTeamsResults \/ GetPage
    BY <1>6, <1>9 DEF GetOrgData, GetTeamsResults, GetPage, counts
  <1> QED BY <1>7, <1>8, <1>9 DEF Next

-----------------------------------------------------------------------------
(* The search of feature-slo-automation. *)

(***************************************************************************)
(* One element more makes a set larger by at most one.                     *)
(***************************************************************************)
LEMMA OneMore ==
  ASSUME NEW S, IsFiniteSet(S), NEW x, NEW T \in SUBSET (S \cup {x})
  PROVE  /\ Cardinality(S) \in Nat /\ Cardinality(T) \in Nat
         /\ Cardinality(T) <= Cardinality(S) + 1
  <1>1. /\ IsFiniteSet(S \cup {x}) /\ Cardinality(S) \in Nat
        /\ Cardinality(S \cup {x}) = Cardinality(S)
             \/ Cardinality(S \cup {x}) = Cardinality(S) + 1
    BY FS_AddElement, FS_CardinalityType
  <1>2. /\ IsFiniteSet(T) /\ Cardinality(T) <= Cardinality(S \cup {x})
        /\ Cardinality(T) \in Nat
    BY <1>1, FS_Subset, FS_CardinalityType
  <1> QED BY <1>1, <1>2

(***************************************************************************)
(* A subset is no larger.                                                  *)
(***************************************************************************)
LEMMA NoMore ==
  ASSUME NEW S, IsFiniteSet(S), NEW T \in SUBSET S
  PROVE  /\ Cardinality(S) \in Nat /\ Cardinality(T) \in Nat
         /\ Cardinality(T) <= Cardinality(S)
  BY FS_Subset, FS_CardinalityType

(***************************************************************************)
(* Listing a page pays for its repetitions with those that were ahead.     *)
(***************************************************************************)
LEMMA PageListed ==
  ASSUME NEW S, NEW list \in Seq(S), NEW chunk \in Seq(S), IsInjective(chunk),
         NEW A \in SUBSET S, Range(chunk) \subseteq A, NEW n \in Nat,
         Len(list) + Cardinality(Range(list) \cap A) <= n + Cardinality(Range(list))
  PROVE  /\ Range(list \o chunk) = Range(list) \cup Range(chunk)
         /\ Len(list \o chunk) + Cardinality(Range(list \o chunk) \cap (A \ Range(chunk)))
              <= n + Cardinality(Range(list \o chunk))
  <1> DEFINE R == Range(list)
             C == Range(chunk)
             more == list \o chunk
  <1>1. more \in Seq(S) /\ Len(more) = Len(list) + Len(chunk)
        /\ \A k \in 1..(Len(list) + Len(chunk)) :
             more[k] = IF k <= Len(list) THEN list[k] ELSE chunk[k - Len(list)]
    BY ConcatList
  <1> HIDE DEF more
  <1>2. /\ Len(list) \in Nat /\ Len(chunk) \in Nat /\ DOMAIN list = 1..Len(list)
        /\ DOMAIN chunk = 1..Len(chunk) /\ DOMAIN more = 1..(Len(list) + Len(chunk))
    BY <1>1
  <1>3. Range(more) = R \cup C
    <2>1. \A k \in DOMAIN more : \/ k \in DOMAIN list /\ more[k] = list[k]
                                 \/ /\ k - Len(list) \in DOMAIN chunk
                                    /\ more[k] = chunk[k - Len(list)]
      BY <1>1, <1>2
    <2>2. \A k \in DOMAIN list : k \in DOMAIN more /\ more[k] = list[k]
      BY <1>1, <1>2
    <2>3. ASSUME NEW k \in DOMAIN chunk
          PROVE  Len(list) + k \in DOMAIN more /\ more[Len(list) + k] = chunk[k]
      <3>1. /\ Len(list) + k \in 1..(Len(list) + Len(chunk)) /\ ~(Len(list) + k <= Len(list))
            /\ Len(list) + k - Len(list) = k
        BY <1>2
      <3> QED BY <1>1, <1>2, <3>1
    <2> QED BY <2>1, <2>2, <2>3 DEF Range
  <1>4. IsFiniteSet(R) /\ IsFiniteSet(C) /\ Cardinality(C) = Len(chunk)
    BY RangeFinite
  <1> HIDE DEF R, C
  <1>5. /\ IsFiniteSet(R \cap C) /\ IsFiniteSet(R \cap A) /\ IsFiniteSet((R \cap A) \ C)
        /\ Cardinality(R) \in Nat /\ Cardinality(R \cap C) \in Nat /\ Cardinality(R \cap A) \in Nat
    BY <1>4, FS_Intersection, FS_Difference, FS_CardinalityType
  <1>6. Cardinality(R \cup C) = Cardinality(R) + Cardinality(C) - Cardinality(R \cap C)
    BY <1>4, FS_Union
  <1>7. Cardinality((R \cap A) \ C) = Cardinality(R \cap A) - Cardinality(R \cap C)
    <2>1. (R \cap A) \cap C = R \cap C
      BY DEF C
    <2>2. Cardinality((R \cap A) \ C) = Cardinality(R \cap A) - Cardinality((R \cap A) \cap C)
      BY <1>5, FS_Difference
    <2> QED BY <2>1, <2>2
  <1>8. (R \cup C) \cap (A \ C) = (R \cap A) \ C
    OBVIOUS
  <1>9. Len(list) + Cardinality(R \cap A) <= n + Cardinality(R)
    BY DEF R
  <1>10. Len(more) + Cardinality((R \cup C) \cap (A \ C)) <= n + Cardinality(R \cup C)
    <2>1. Cardinality((R \cup C) \cap (A \ C)) = Cardinality(R \cap A) - Cardinality(R \cap C)
      BY <1>7, <1>8
    <2>2. Cardinality(R \cup C) = Cardinality(R) + Len(chunk) - Cardinality(R \cap C)
      BY <1>4, <1>6
    <2>3. Len(more) = Len(list) + Len(chunk)
      BY <1>1
    <2> DEFINE both == Cardinality(R \cap C)
               some == Cardinality(R \cap A)
    <2> HIDE DEF both, some
    <2>4. both \in Nat /\ some \in Nat /\ Cardinality(R) \in Nat
      BY <1>5 DEF both, some
    <2>5. (Len(list) + Len(chunk)) + (some - both) <= n + (Cardinality(R) + Len(chunk) - both)
      BY <1>2, <1>9, <2>4 DEF some
    <2> QED BY <2>1, <2>2, <2>3, <2>5 DEF both, some
  <1> QED BY <1>3, <1>10 DEF R, C, more
(***************************************************************************)
(* A page that is listed keeps the account, whether the search goes on     *)
(* behind it or ends.                                                      *)
(***************************************************************************)
LEMMA SearchPage ==
  ASSUME TypeOK, IsInjective(open), SearchInv, GetPage
  PROVE  SearchInv' /\ SearchNearlyComplete'
  <1> DEFINE start == (page - 1) * PageSize
             next  == start + PageSize
             chunk == Page(open, start)
             C     == Range(chunk)
             R     == Range(listed)
  <1>1. /\ start \in Nat /\ next \in Nat /\ page * PageSize = next
        /\ (page + 1 - 1) * PageSize = next
    <2>1. page \in Nat \ {0} /\ PageSize \in Nat /\ page - 1 \in Nat
      BY PageAssumption DEF TypeOK
    <2> QED BY <2>1
  <1>2. /\ open \in Seq(Pulls) /\ listed \in Seq(Pulls) /\ steady \subseteq Range(open)
        /\ opened \in Nat /\ closed \in Nat /\ Len(open) \in Nat
    BY DEF TypeOK
  <1>3. /\ taken = 0
        /\ Cardinality((steady \cap Behind(open, start)) \ R) <= closed
        /\ Len(listed) + Cardinality(R \cap Ahead(open, start)) <= opened + Cardinality(R)
    BY DEF SearchInv, GetPage
  <1>4. /\ listed' = listed \o chunk /\ taken' = 0
        /\ UNCHANGED <<open, steady, opened, closed>>
        /\ \/ next >= Len(open) /\ pc' = "decide"
           \/ pc' = "search" /\ page' = page + 1
    BY <1>1, <1>3 DEF GetPage, worldVars
  <1> HIDE DEF start
  <1>5. /\ chunk \in Seq(Pulls) /\ IsInjective(chunk)
        /\ C \subseteq Ahead(open, start)
        /\ Behind(open, next) = Behind(open, start) \cup C
        /\ Ahead(open, next) = Ahead(open, start) \ C
    BY <1>1, <1>2, PageMoves
  <1>6. Ahead(open, start) \subseteq Pulls
    BY <1>2 DEF Ahead
  <1> HIDE DEF next, chunk
  <1>7. /\ Range(listed') = R \cup C
        /\ Len(listed') + Cardinality(Range(listed') \cap (Ahead(open, start) \ C))
             <= opened + Cardinality(Range(listed'))
    <2>1. Ahead(open, start) \in SUBSET Pulls
      BY <1>6
    <2>2. /\ Range(listed \o chunk) = Range(listed) \cup Range(chunk)
          /\ Len(listed \o chunk)
               + Cardinality(Range(listed \o chunk) \cap (Ahead(open, start) \ Range(chunk)))
               <= opened + Cardinality(Range(listed \o chunk))
      BY <1>2, <1>3, <1>5, <2>1, PageListed
    <2> QED BY <1>4, <2>2
  <1>8. Cardinality((steady \cap Behind(open, next)) \ Range(listed')) <= closed
    <2>1. (steady \cap Behind(open, next)) \ Range(listed')
            \subseteq (steady \cap Behind(open, start)) \ R
      BY <1>5, <1>7
    <2>2. IsFiniteSet((steady \cap Behind(open, start)) \ R)
      <3>1. (steady \cap Behind(open, start)) \ R \subseteq Range(open)
        BY <1>2
      <3> QED BY <1>2, <3>1, RangeFinite, FS_Subset
    <2> QED BY <1>2, <1>3, <2>1, <2>2, NoMore
  <1>9. /\ Len(listed') + Cardinality(Range(listed') \cap Ahead(open, next))
             <= opened + Cardinality(Range(listed'))
    BY <1>5, <1>7
  <1>10. CASE next >= Len(open) /\ pc' = "decide"
    <2>1. Behind(open, next) = Range(open) /\ Ahead(open, next) = {}
      BY <1>1, <1>2, <1>10, Ends
    <2>2. steady \cap Behind(open, next) = steady /\ Range(listed') \cap Ahead(open, next) = {}
      BY <1>2, <2>1
    <2>3. Cardinality(steady \ Range(listed')) <= closed
      BY <1>8, <2>2
    <2>4. Len(listed') - Cardinality(Range(listed')) <= opened
      <3>1. Cardinality(Range(listed') \cap Ahead(open, next)) = 0
        BY <2>2, FS_EmptySet
      <3>2. listed' \in Seq(Pulls)
        BY <1>2, <1>4, <1>5, ConcatList
      <3>3. Len(listed') \in Nat /\ Cardinality(Range(listed')) \in Nat
        BY <3>2, RangeFinite
      <3> QED BY <1>2, <1>9, <3>1, <3>3
    <2> QED BY <1>4, <1>10, <2>3, <2>4 DEF SearchInv, SearchNearlyComplete
  <1>11. CASE pc' = "search" /\ page' = page + 1
    <2>1. (page' - 1) * PageSize = next
      <3>1. page' - 1 = page
        BY <1>11 DEF TypeOK
      <3> QED BY <1>1, <3>1
    <2>2. /\ Cardinality((steady' \cap Behind(open', next)) \ Range(listed')) <= closed'
          /\ Len(listed') + Cardinality(Range(listed') \cap Ahead(open', next))
               <= opened' + Cardinality(Range(listed'))
      BY <1>4, <1>8, <1>9
    <2> QED BY <1>4, <1>11, <2>1, <2>2 DEF SearchInv, SearchNearlyComplete
  <1> QED BY <1>4, <1>10, <1>11

(***************************************************************************)
(* A pull request opened pushes at most one that is listed ahead, one      *)
(* closed pulls at most one behind that is not.                            *)
(***************************************************************************)
LEMMA SearchChanges ==
  ASSUME TypeOK, IsInjective(open), SearchInv, NEW p \in Pulls, Open(p) \/ Close(p)
  PROVE  SearchInv'
  <1> DEFINE start == (page - 1) * PageSize
             miss  == (steady \cap Behind(open, start)) \ Range(listed)
             again == Range(listed) \cap Ahead(open, start)
  <1>1. start \in Nat
    <2>1. page - 1 \in Nat /\ PageSize \in Nat
      BY PageAssumption DEF TypeOK
    <2> QED BY <2>1
  <1>2. /\ open \in Seq(Pulls) /\ listed \in Seq(Pulls) /\ steady \subseteq Range(open)
        /\ opened \in Nat /\ closed \in Nat /\ Len(listed) \in Nat
        /\ Cardinality(Range(listed)) \in Nat
    BY RangeFinite DEF TypeOK
  <1>3. pc = "search" /\ pc' = pc /\ page' = page /\ listed' = listed /\ taken' = taken
    BY DEF Open, Close
  <1>4. /\ taken = 0 /\ Cardinality(miss) <= closed
        /\ Len(listed) + Cardinality(again) <= opened + Cardinality(Range(listed))
    BY <1>3 DEF SearchInv
  <1>5. IsFiniteSet(miss) /\ IsFiniteSet(again)
    <2>1. miss \subseteq Range(open) /\ again \subseteq Range(listed)
      BY <1>2
    <2> QED BY <1>2, <2>1, RangeFinite, FS_Subset
  <1> DEFINE miss2  == (steady' \cap Behind(open', start)) \ Range(listed)
             again2 == Range(listed) \cap Ahead(open', start)
  <1>6. SUFFICES /\ Cardinality(miss2) <= closed'
                 /\ Len(listed) + Cardinality(again2) <= opened' + Cardinality(Range(listed))
    BY <1>3, <1>4 DEF SearchInv
  <1> HIDE DEF start
  <1>7. CASE Open(p)
    <2>1. /\ open' \in Joined(open, p) /\ p \notin Range(open) /\ steady' = steady
          /\ opened' = opened + 1 /\ closed' = closed
      BY <1>7 DEF Open
    <2>2. /\ Behind(open', start) \subseteq Behind(open, start) \cup {p}
          /\ \E x : Ahead(open', start) \subseteq Ahead(open, start) \cup {x}
      <3> HIDE DEF miss, again, miss2, again2
      <3>1. open \in Seq(Pulls) /\ open' \in Joined(open, p) /\ p \notin Range(open)
        BY <1>2, <2>1
      <3>2. Behind(open', start) \subseteq Behind(open, start) \cup {p}
        BY <1>1, <3>1, MatchJoins
      <3>3. \E x : Ahead(open', start) \subseteq Ahead(open, start) \cup {x}
        BY <1>1, <3>1, MatchJoins
      <3> QED BY <3>2, <3>3
    <2>3. miss2 \subseteq miss
      BY <1>2, <2>1, <2>2
    <2>4. PICK x : again2 \subseteq again \cup {x}
      BY <2>2
    <2> HIDE DEF miss, again, miss2, again2
    <2>5. /\ Cardinality(miss) \in Nat /\ Cardinality(miss2) \in Nat
          /\ Cardinality(miss2) <= Cardinality(miss)
      BY <1>5, <2>3, NoMore
    <2>6. /\ Cardinality(again) \in Nat /\ Cardinality(again2) \in Nat
          /\ Cardinality(again2) <= Cardinality(again) + 1
      BY <1>5, <2>4, OneMore
    <2> QED BY <1>2, <1>4, <2>1, <2>5, <2>6
  <1>8. CASE Close(p)
    <2>1. /\ open' = Left(open, p) /\ p \in Range(open) /\ steady' = steady \ {p}
          /\ opened' = opened /\ closed' = closed + 1
      BY <1>8 DEF Close
    <2>2. /\ \E x : Behind(open', start) \subseteq Behind(open, start) \cup {x}
          /\ Ahead(open', start) \subseteq Ahead(open, start)
      BY <1>1, <1>2, <2>1, MatchLeaves
    <2>3. PICK x : miss2 \subseteq miss \cup {x}
      BY <2>1, <2>2
    <2>4. again2 \subseteq again
      BY <2>2
    <2> HIDE DEF miss, again, miss2, again2
    <2>5. /\ Cardinality(miss) \in Nat /\ Cardinality(miss2) \in Nat
          /\ Cardinality(miss2) <= Cardinality(miss) + 1
      BY <1>5, <2>3, OneMore
    <2>6. /\ Cardinality(again) \in Nat /\ Cardinality(again2) \in Nat
          /\ Cardinality(again2) <= Cardinality(again)
      BY <1>5, <2>4, NoMore
    <2> QED BY <1>2, <1>4, <2>1, <2>5, <2>6
  <1> QED BY <1>7, <1>8

(***************************************************************************)
(* Every step keeps the inductive invariant.                               *)
(***************************************************************************)
LEMMA NextIInv == IInv /\ [Next]_vars => IInv'
  <1> SUFFICES ASSUME IInv, [Next]_vars PROVE IInv'
    OBVIOUS
  <1>1. TypeOK /\ IsInjective(open) /\ SearchInv /\ VerdictsJustified /\ SearchNearlyComplete
    BY DEF IInv
  <1>2. TypeOK' /\ IsInjective(open')
    BY <1>1, TypeNext
  <1>3. VerdictsJustified'
    BY <1>1, <1>2, VerdictsPreserved
  <1>4. SearchInv' /\ SearchNearlyComplete'
    <2>1. CASE GetPage
      BY <1>1, <2>1, SearchPage
    <2>2. ASSUME NEW p \in Pulls, Open(p) \/ Close(p)
          PROVE  SearchInv' /\ SearchNearlyComplete'
      <3>1. SearchInv'
        BY <1>1, <2>2, SearchChanges
      <3> QED BY <2>2, <3>1 DEF Open, Close, SearchNearlyComplete
    <2>3. CASE GetOrgData \/ GetTeamsResults
      BY <1>1, <2>3 DEF GetOrgData, GetTeamsResults, worldVars, SearchInv, SearchNearlyComplete
    <2>4. CASE AllowValidBug \/ ComponentUnknown \/ \E team \in Team : Judge(team)
      BY <1>1, <2>4 DEF AllowValidBug, ComponentUnknown, Judge, Deciding, Decided, worldVars,
                        SearchInv, SearchNearlyComplete
    <2>5. CASE Panic \/ PrintCounts \/ CallFails
      BY <2>5 DEF Panic, PrintCounts, CallFails, SearchInv, SearchNearlyComplete
    <2>6. CASE UNCHANGED vars
      BY <1>1, <2>6 DEF vars, worldVars, SearchInv, SearchNearlyComplete
    <2> QED BY <2>1, <2>2, <2>3, <2>4, <2>5, <2>6 DEF Next
  <1> QED BY <1>2, <1>3, <1>4 DEF IInv

(***************************************************************************)
(* In every run of feature-slo-automation the inductive invariant holds.   *)
(***************************************************************************)
THEOREM Invariance == Spec => []IInv
  BY InitIInv, NextIInv, PTL DEF Spec

(***************************************************************************)
(* The counts that feature-slo-automation prints are a verdict on each     *)
(* pull request listed, whatever the services answered.                    *)
(***************************************************************************)
THEOREM CountsAreVerdicts == Spec => []VerdictsJustified
  <1>1. IInv => VerdictsJustified
    BY DEF IInv
  <1> QED BY <1>1, Invariance, PTL

(***************************************************************************)
(* Its search passes over no more open pull requests than were closed      *)
(* meanwhile, and lists no more twice than were opened.                    *)
(***************************************************************************)
THEOREM PullsAreListed == Spec => []SearchNearlyComplete
  <1>1. IInv => SearchNearlyComplete
    BY DEF IInv
  <1> QED BY <1>1, Invariance, PTL
-----------------------------------------------------------------------------
(* The snapshots of jira-daily-diff. *)

(***************************************************************************)
(* At the start nothing is damaged and nothing overlooked.                 *)
(***************************************************************************)
LEMMA SnapshotsInit ==
  ASSUME JiraInit
  PROVE  JiraInv
  <1>1. /\ Issues \subseteq Nat /\ IsFiniteSet(Issues) /\ 1 \in 1..MaxDays
        /\ MaxDays \in Nat /\ MaxMoves \in Nat /\ MaxFailures \in Nat
    BY BoundAssumption
  <1>2. matches \in Seq(Issues) /\ IsInjective(matches)
    <2>1. PICK k \in Issues : matches \in {SetToSeq(Issues), SetToSeq(Issues \ {k})}
      BY DEF JiraInit
    <2>2. IsFiniteSet(Issues \ {k}) /\ Issues \ {k} \in SUBSET Issues
      BY <1>1, FS_RemoveElement
    <2> QED BY <1>1, <2>1, <2>2, ListOf
  <1>3. JiraTypeOK
    <2>1. /\ day \in Day /\ dates \in Day \X Day /\ target = 0
          /\ last \in Nat /\ left = 0 /\ moves = 0 /\ failures = 0
      BY <1>1 DEF JiraInit, Day
    <2>2. file \in [Day -> Snapshot]
      BY DEF JiraInit, Absent, Snapshot
    <2>3. /\ up = FALSE /\ sync = "idle" /\ found = {} /\ diff = "none"
          /\ old = {} /\ new = {} /\ exact = TRUE /\ stable = Range(matches)
      BY DEF JiraInit
    <2>4. left \in 0..moves /\ moves \in 0..MaxMoves /\ failures \in 0..MaxFailures
      BY <1>1, <2>1
    <2>5. /\ up \in BOOLEAN /\ exact \in BOOLEAN /\ sync \in {"idle", "search", "write"}
          /\ diff \in {"none", "old", "new", "infos"} /\ found \subseteq Issues
          /\ old \subseteq Issues /\ new \subseteq Issues
      BY <2>3
    <2> QED BY <1>2, <2>1, <2>2, <2>3, <2>4, <2>5 DEF JiraTypeOK
  <1>4. Overlooked = {}
    BY <1>2, Ends DEF JiraInit, Overlooked
  <1>5. Cardinality({}) = 0
    BY FS_EmptySet
  <1>6. \A d \in Day : ~Whole(file[d]) /\ file[d].whole
    BY DEF JiraInit, Whole, Absent
  <1>7. MissedInv
    BY <1>2, <1>4, <1>5, <1>6 DEF JiraInit, MissedInv
  <1>8. DiffInv
    BY DEF JiraInit, DiffInv
  <1>9. Damaged = {}
    BY <1>6 DEF Damaged
  <1> QED BY <1>3, <1>5, <1>7, <1>8, <1>9 DEF JiraInv, JiraInit

(***************************************************************************)
(* What a search gathers and a file holds are issues.                      *)
(***************************************************************************)
LEMMA SnapshotsType ==
  ASSUME JiraTypeOK, IsInjective(matches), [JiraNext]_jiraVars
  PROVE  JiraTypeOK' /\ IsInjective(matches')
  <1>1. /\ matches \in Seq(Issues) /\ stable \subseteq Range(matches)
        /\ stable \subseteq Range(matches)
        /\ left \in 0..moves /\ moves \in 0..MaxMoves /\ failures \in 0..MaxFailures
        /\ MaxDays \in Nat /\ MaxMoves \in Nat /\ MaxFailures \in Nat
    BY BoundAssumption DEF JiraTypeOK
  <1>2. ASSUME NEW k \in Issues, Join(k)
        PROVE  JiraTypeOK' /\ IsInjective(matches')
    <2>1. /\ matches' \in Seq(Issues) /\ IsInjective(matches')
          /\ Range(matches') = Range(matches) \cup {k}
      <3>1. matches' \in Joined(matches, k) /\ k \notin Range(matches) /\ 0 \in Nat
        BY <1>2 DEF Join
      <3> QED BY <1>1, <3>1, MatchJoins
    <2>2. /\ moves' \in 0..MaxMoves /\ left' \in 0..moves' /\ stable' \subseteq Range(matches')
      BY <1>1, <1>2, <2>1 DEF Join, Changed
    <2> QED BY <1>2, <2>1, <2>2 DEF JiraTypeOK, Join, syncVars, diffVars
  <1>3. ASSUME NEW k \in Issues, Leave(k)
        PROVE  JiraTypeOK' /\ IsInjective(matches')
    <2>1. /\ matches' \in Seq(Issues) /\ IsInjective(matches')
          /\ Range(matches') = Range(matches) \ {k}
      <3>1. matches' = Left(matches, k) /\ k \in Range(matches) /\ 0 \in Nat
        BY <1>3 DEF Leave
      <3> QED BY <1>1, <3>1, MatchLeaves
    <2>2. /\ moves' \in 0..MaxMoves /\ left' \in 0..moves' /\ stable' \subseteq Range(matches')
      BY <1>1, <1>3, <2>1 DEF Leave, Changed
    <2> QED BY <1>3, <2>1, <2>2 DEF JiraTypeOK, Leave, syncVars, diffVars
  <1>4. CASE Midnight
    <2>1. day' \in Day
      BY <1>1, <1>4 DEF Midnight, JiraTypeOK, Day
    <2> QED BY <1>4, <2>1 DEF JiraTypeOK, Midnight, syncVars, diffVars, issueVars
  <1>5. CASE Start
    BY <1>5 DEF JiraTypeOK, Start, syncVars, diffVars, issueVars
  <1>6. CASE Crash
    <2>1. failures' \in 0..MaxFailures /\ <<1, 1>> \in Day \X Day
      BY <1>1, <1>6, BoundAssumption DEF Crash, Fault, Day
    <2> QED BY <1>6, <2>1 DEF JiraTypeOK, Crash, issueVars
  <1>7. CASE StartSync
    BY <1>7 DEF JiraTypeOK, StartSync, diffVars, issueVars
  <1>8. CASE FetchPage
    <2> DEFINE chunk == Page(matches, last)
    <2>1. chunk \in Seq(Issues) /\ Len(chunk) \in Nat /\ Range(chunk) \subseteq Issues
      <3>1. chunk \in Seq(Issues)
        BY <1>1, PageOf DEF JiraTypeOK
      <3> QED BY <3>1 DEF Range
    <2>2. found' = found \cup Range(chunk) /\ sync = "search"
          /\ \/ sync' = "write" /\ last' = 0
             \/ sync' = sync /\ last' = last + Len(chunk)
      BY <1>8 DEF FetchPage
    <2> HIDE DEF chunk
    <2>3. found' \subseteq Issues /\ last' \in Nat /\ sync' \in {"search", "write"} /\ target = 0
      <3>1. found' \subseteq Issues
        BY <2>1, <2>2 DEF JiraTypeOK
      <3>2. last' \in Nat
        BY <2>1, <2>2 DEF JiraTypeOK
      <3>3. sync' \in {"search", "write"}
        BY <2>2
      <3>4. target = 0
        BY <2>2 DEF JiraTypeOK
      <3> QED BY <3>1, <3>2, <3>3, <3>4
    <2> QED BY <1>8, <2>3 DEF JiraTypeOK, FetchPage, diffVars, issueVars
  <1>9. CASE SearchFails \/ WriteFails
    <2>1. failures' \in 0..MaxFailures
      BY <1>1, <1>9 DEF SearchFails, WriteFails, Fault
    <2>2. /\ sync' = "idle" /\ last' = 0 /\ found' = {} /\ target' = 0
          /\ UNCHANGED <<matches, left, stable, moves, day, file, up, diff, dates, old, new, exact>>
      BY <1>9 DEF SearchFails, WriteFails, SyncFails, diffVars, issueVars
    <2> QED BY <2>1, <2>2 DEF JiraTypeOK
  <1>10. CASE OpenFile
    <2>1. /\ Truncated \in Snapshot /\ Truncated # Absent /\ ~Truncated.whole
      BY DEF Truncated, Absent, Snapshot
    <2>2. /\ target' = day /\ file' = [file EXCEPT ![day] = Truncated] /\ sync' = "write"
      BY <1>10 DEF OpenFile
    <2>3. /\ file' \in [Day -> Snapshot] /\ file'[target'] = Truncated
          /\ target' \in Day
      BY <2>1, <2>2 DEF JiraTypeOK
    <2> HIDE DEF Truncated
    <2> QED BY <1>10, <2>1, <2>2, <2>3 DEF JiraTypeOK, OpenFile, diffVars, issueVars
  <1>11. CASE WriteSome
    <2>1. PICK part \in { [issues |-> b, parses |-> TRUE, whole |-> FALSE] :
                            b \in Beginnings(found) } \cup {Unreadable} :
            file' = [file EXCEPT ![target] = part]
      BY <1>11 DEF WriteSome
    <2>2. part \in Snapshot /\ ~part.whole
      <3>1. \A b \in Beginnings(found) : b \subseteq Issues
        BY DEF Beginnings, JiraTypeOK
      <3>2. CASE part = Unreadable
        BY <3>2 DEF Snapshot, Unreadable
      <3>3. ASSUME NEW b \in Beginnings(found),
                   part = [issues |-> b, parses |-> TRUE, whole |-> FALSE]
            PROVE  part \in Snapshot /\ ~part.whole
        BY <3>1, <3>3 DEF Snapshot
      <3> QED BY <2>1, <3>2, <3>3
    <2>3. part # Absent
      BY <2>2 DEF Absent
    <2>4. /\ target \in Day /\ file' \in [Day -> Snapshot] /\ file'[target] = part
      BY <1>11, <2>1, <2>2 DEF JiraTypeOK, WriteSome
    <2> QED BY <1>11, <2>2, <2>3, <2>4 DEF JiraTypeOK, WriteSome, syncVars, diffVars,
               issueVars
  <1>12. CASE WriteRest
    <2>1. /\ target \in Day
          /\ file' = [file EXCEPT ![target] = [issues |-> found, parses |-> TRUE, whole |-> TRUE]]
          /\ [issues |-> found, parses |-> TRUE, whole |-> TRUE] \in Snapshot
      BY <1>12 DEF JiraTypeOK, WriteRest, Snapshot
    <2>2. file' \in [Day -> Snapshot]
      BY <2>1 DEF JiraTypeOK
    <2> QED BY <1>12, <2>2 DEF JiraTypeOK, WriteRest, diffVars, issueVars
  <1>13. ASSUME NEW d \in Day, NEW e \in Day, Request(d, e)
         PROVE  JiraTypeOK' /\ IsInjective(matches')
    BY <1>13 DEF JiraTypeOK, Request, syncVars, issueVars
  <1>14. <<1, 1>> \in Day \X Day
    BY BoundAssumption DEF Day
  <1>15. \A d \in {1, 2} : /\ file[dates[d]].issues \subseteq Issues
                           /\ file[dates[d]].whole \in BOOLEAN
    BY DEF JiraTypeOK, Snapshot
  <1>16. CASE ReadOld \/ ReadNew \/ GetInfos
    <2>1. /\ old' \subseteq Issues /\ new' \subseteq Issues /\ exact' \in BOOLEAN
          /\ dates' \in Day \X Day /\ diff' \in {"none", "old", "new", "infos"}
      BY <1>14, <1>15, <1>16 DEF JiraTypeOK, ReadOld, ReadNew, GetInfos, Answer
    <2>2. UNCHANGED <<matches, left, stable, moves, day, file, up, sync, last, found, target,
                      failures>>
      BY <1>16 DEF ReadOld, ReadNew, GetInfos, syncVars, issueVars
    <2> QED BY <2>1, <2>2 DEF JiraTypeOK
  <1>17. CASE UNCHANGED jiraVars
    <2>1. UNCHANGED <<matches, left, stable, moves, day, file, up, sync, last, found, target,
                      diff, dates, old, new, exact, failures>>
      BY <1>17 DEF jiraVars, syncVars, diffVars, issueVars
    <2> QED BY <2>1 DEF JiraTypeOK
  <1> QED BY <1>2, <1>3, <1>4, <1>5, <1>6, <1>7, <1>8, <1>9, <1>10, <1>11, <1>12,
             <1>13, <1>16, <1>17 DEF JiraNext, Sync
(***************************************************************************)
(* Only a fault leaves a file damaged, and one fault one file.             *)
(***************************************************************************)
LEMMA DamagePaid ==
  ASSUME JiraTypeOK, Cardinality(Damaged) <= failures, [JiraNext]_jiraVars
  PROVE  Cardinality(Damaged') <= failures'
  <1>1. IsFiniteSet(Damaged) /\ failures \in Nat
    <2>1. IsFiniteSet(Day) /\ Damaged \subseteq Day
      BY FS_Interval, BoundAssumption DEF Day, Damaged
    <2> QED BY <2>1, FS_Subset, BoundAssumption DEF JiraTypeOK
  <1>2. ASSUME Damaged' \subseteq Damaged, failures' = failures
        PROVE  Cardinality(Damaged') <= failures'
    BY <1>1, <1>2, NoMore
  <1>3. ASSUME Damaged' \subseteq Damaged \cup {target}, failures' = failures + 1
        PROVE  Cardinality(Damaged') <= failures'
    <2>1. Damaged' \in SUBSET (Damaged \cup {target})
      BY <1>3
    <2> HIDE DEF Damaged
    <2>2. /\ Cardinality(Damaged) \in Nat /\ Cardinality(Damaged') \in Nat
          /\ Cardinality(Damaged') <= Cardinality(Damaged) + 1
      BY <1>1, <2>1, OneMore
    <2> QED BY <1>1, <1>3, <2>2
  <1>4. file \in [Day -> Snapshot]
    BY DEF JiraTypeOK
  <1>5. ASSUME UNCHANGED <<file, target, failures>>
        PROVE  Cardinality(Damaged') <= failures'
    BY <1>2, <1>5 DEF Damaged
  <1>6. ASSUME file' = file, target' = 0, Fault
        PROVE  Cardinality(Damaged') <= failures'
    BY <1>3, <1>6 DEF Damaged, Fault
  <1>7. CASE OpenFile
    <2>1. /\ target = 0 /\ target' = day /\ Day' = Day
          /\ \A d \in Day : d # 0 /\ (d # day => file'[d] = file[d])
      BY <1>4, <1>7, BoundAssumption DEF OpenFile, JiraTypeOK, Day
    <2>2. Damaged' \subseteq Damaged
      BY <2>1 DEF Damaged
    <2> QED BY <1>2, <1>7, <2>2 DEF OpenFile
  <1>8. CASE WriteSome
    <2>1. PICK part : file' = [file EXCEPT ![target] = part]
      BY <1>8 DEF WriteSome
    <2>2. Damaged' \subseteq Damaged
      BY <1>4, <1>8, <2>1 DEF Damaged, WriteSome, syncVars
    <2> QED BY <1>2, <1>8, <2>2 DEF WriteSome
  <1>9. CASE WriteRest
    <2>1. Damaged' \subseteq Damaged
      BY <1>4, <1>9 DEF Damaged, WriteRest
    <2> QED BY <1>2, <1>9, <2>1 DEF WriteRest
  <1>10. CASE Crash \/ SearchFails \/ WriteFails
    BY <1>6, <1>10 DEF Crash, SearchFails, WriteFails, SyncFails
  <1>11. CASE \/ \E k \in Issues : Join(k) \/ Leave(k)
              \/ Midnight \/ Start \/ StartSync \/ FetchPage
              \/ \E d, e \in Day : d < e /\ Request(d, e)
              \/ ReadOld \/ ReadNew \/ GetInfos \/ UNCHANGED jiraVars
    <2>1. UNCHANGED <<file, target, failures>>
      BY <1>11 DEF Join, Leave, Midnight, Start, StartSync, FetchPage, Request,
         ReadOld, ReadNew, GetInfos, jiraVars, syncVars
    <2> QED BY <1>5, <2>1
  <1> QED BY <1>7, <1>8, <1>9, <1>10, <1>11 DEF JiraNext, Sync

(***************************************************************************)
(* What is missed is a number, and grows no larger as issues leave.        *)
(***************************************************************************)
LEMMA MissedCounts ==
  ASSUME JiraTypeOK
  PROVE  /\ IsFiniteSet(stable) /\ IsFiniteSet(Overlooked)
         /\ Cardinality(Overlooked) \in Nat /\ left \in Nat
         /\ \A a : Missed(a) = Cardinality(stable \ a) /\ Missed(a) \in Nat
  <1>1. IsFiniteSet(stable) /\ left \in Nat
    <2>1. matches \in Seq(Issues) /\ stable \subseteq Range(matches)
      BY DEF JiraTypeOK
    <2> QED BY <2>1, RangeFinite, FS_Subset, BoundAssumption DEF JiraTypeOK
  <1>2. Overlooked \subseteq stable
    BY DEF Overlooked
  <1>3. ASSUME NEW a
        PROVE  Missed(a) = Cardinality(stable \ a) /\ Missed(a) \in Nat
    BY <1>1, FS_Difference, FS_CardinalityType DEF Missed
  <1> QED BY <1>1, <1>2, <1>3, FS_Subset, FS_CardinalityType

(***************************************************************************)
(* The account of the searches in plain terms.                             *)
(***************************************************************************)
LEMMA SearchAccount ==
  ASSUME MissedInv
  PROVE  /\ IsInjective(matches) /\ Cardinality(Overlooked) <= left
         /\ sync # "search" => last = 0
         /\ sync = "idle" => found = {}
         /\ \A d \in Day : Whole(file[d]) =>
              /\ Missed(file[d].issues) + Cardinality(Overlooked) <= left
              /\ \A e \in Day : d < e /\ Whole(file[e]) =>
                   Missed(file[d].issues) + Missed(file[e].issues) <= left
  BY DEF MissedInv
(***************************************************************************)
(* A step that makes no file whole and reads none keeps the accounts, if   *)
(* it overlooks an issue more only as one leaves.                          *)
(***************************************************************************)
LEMMA StillPaid ==
  ASSUME JiraTypeOK, MissedInv, DiffInv,
         stable' \subseteq stable, NEW more \in Nat, left' = left + more,
         Cardinality(Overlooked') <= Cardinality(Overlooked) + more,
         IsInjective(matches'), sync' # "search" => last' = 0, sync' = "idle" => found' = {},
         \A d \in Day : Whole(file'[d]) => Whole(file[d]) /\ file'[d] = file[d],
         UNCHANGED diffVars \/ diff' = "none"
  PROVE  MissedInv' /\ DiffInv'
  <1> DEFINE O  == Cardinality(Overlooked)
             O2 == Cardinality(Overlooked')
             M(a)  == Cardinality(stable \ a)
             M2(a) == Cardinality(stable' \ a)
  <1>1. O \in Nat /\ O2 \in Nat /\ left \in Nat
    <2>1. Overlooked' \subseteq stable'
      BY DEF Overlooked
    <2>2. IsFiniteSet(Overlooked')
      BY <2>1, MissedCounts, FS_Subset
    <2> QED BY <2>2, MissedCounts, FS_CardinalityType
  <1>2. ASSUME NEW a
        PROVE  M(a) \in Nat /\ M2(a) \in Nat /\ M2(a) <= M(a) /\ Missed(a) = M(a)
    <2>1. IsFiniteSet(stable \ a) /\ stable' \ a \in SUBSET (stable \ a)
      BY MissedCounts, FS_Difference
    <2> QED BY <2>1, NoMore, MissedCounts
  <1>3. /\ O <= left
        /\ \A d \in Day : Whole(file[d]) =>
             /\ M(file[d].issues) + O <= left
             /\ \A e \in Day : d < e /\ Whole(file[e]) =>
                  M(file[d].issues) + M(file[e].issues) <= left
    BY <1>2, SearchAccount
  <1>4. /\ diff \in {"old", "new"} => dates[1] < dates[2]
        /\ diff = "new" /\ exact =>
             /\ M(old) + O <= left
             /\ \A e \in Day : dates[1] < e /\ Whole(file[e]) =>
                  M(old) + M(file[e].issues) <= left
        /\ diff = "infos" /\ exact => M(old) + M(new) <= left
    BY <1>2 DEF DiffInv
  <1>5. O2 <= O + more /\ left' = left + more
    OBVIOUS
  <1>6. \A a : Missed(a)' = M2(a)
    BY DEF Missed
  <1> HIDE DEF O, O2, M, M2
  <1>7. ASSUME NEW d \in Day, Whole(file'[d])
        PROVE  /\ M2(file'[d].issues) + O2 <= left'
               /\ \A e \in Day : d < e /\ Whole(file'[e]) =>
                    M2(file'[d].issues) + M2(file'[e].issues) <= left'
    <2>1. Whole(file[d]) /\ file'[d] = file[d]
      BY <1>7
    <2>2. M2(file'[d].issues) + O2 <= left'
      BY <1>1, <1>2, <1>3, <1>5, <2>1
    <2>3. ASSUME NEW e \in Day, d < e, Whole(file'[e])
          PROVE  M2(file'[d].issues) + M2(file'[e].issues) <= left'
      <3>1. Whole(file[e]) /\ file'[e] = file[e]
        BY <2>3
      <3>2. M(file[d].issues) + M(file[e].issues) <= left
        BY <1>3, <2>1, <2>3, <3>1
      <3> QED BY <1>1, <1>2, <1>5, <2>1, <3>1, <3>2
    <2> QED BY <2>2, <2>3
  <1>8. O2 <= left'
    BY <1>1, <1>3, <1>5
  <1>9. MissedInv'
    BY <1>6, <1>7, <1>8 DEF MissedInv, Missed, M2, O2, Day
  <1>10. DiffInv'
    <2>1. CASE diff' = "none"
      BY <2>1 DEF DiffInv
    <2>2. CASE UNCHANGED diffVars
      <3>1. diff' = diff /\ dates' = dates /\ old' = old /\ new' = new /\ exact' = exact
        BY <2>2 DEF diffVars
      <3>2. ASSUME diff = "new", exact
            PROVE  /\ M2(old) + O2 <= left'
                   /\ \A e \in Day : dates[1] < e /\ Whole(file'[e]) =>
                        M2(old) + M2(file'[e].issues) <= left'
        <4>1. M2(old) + O2 <= left'
          BY <1>1, <1>2, <1>4, <1>5, <3>2
        <4>2. ASSUME NEW e \in Day, dates[1] < e, Whole(file'[e])
              PROVE  M2(old) + M2(file'[e].issues) <= left'
          <5>1. Whole(file[e]) /\ file'[e] = file[e]
            BY <4>2
          <5>2. M(old) + M(file[e].issues) <= left
            BY <1>4, <3>2, <4>2, <5>1
          <5> QED BY <1>1, <1>2, <1>5, <5>1, <5>2
        <4> QED BY <4>1, <4>2
      <3>3. ASSUME diff = "infos", exact
            PROVE  M2(old) + M2(new) <= left'
        BY <1>1, <1>2, <1>4, <1>5, <3>3
      <3> QED BY <1>4, <1>6, <3>1, <3>2, <3>3 DEF DiffInv, Missed, M2, O2, Day
    <2> QED BY <2>1, <2>2
  <1> QED BY <1>9, <1>10
(***************************************************************************)
(* An issue that joins is overlooked by no search, one that leaves lets a  *)
(* search overlook one.                                                    *)
(***************************************************************************)
LEMMA ChangesPaid ==
  ASSUME JiraTypeOK, MissedInv, DiffInv,
         NEW k \in Issues, Join(k) \/ Leave(k)
  PROVE  MissedInv' /\ DiffInv'
  <1>1. /\ matches \in Seq(Issues) /\ IsInjective(matches) /\ stable \subseteq Range(matches)
        /\ last \in Nat
    BY SearchAccount DEF JiraTypeOK
  <1>2. /\ UNCHANGED <<file, sync, last, found>> /\ UNCHANGED diffVars
    BY DEF Join, Leave, syncVars
  <1>3. /\ sync' # "search" => last' = 0
        /\ sync' = "idle" => found' = {}
        /\ \A d \in Day : Whole(file'[d]) => Whole(file[d]) /\ file'[d] = file[d]
    BY <1>2, SearchAccount
  <1>4. /\ Overlooked = IF sync = "write" THEN stable \ found
                          ELSE (stable \cap Behind(matches, last)) \ found
        /\ Overlooked' = IF sync = "write" THEN stable' \ found
                           ELSE (stable' \cap Behind(matches', last)) \ found
    BY <1>2 DEF Overlooked
  <1>5. IsFiniteSet(Overlooked)
    BY MissedCounts
  <1>6. CASE Join(k)
    <2>1. matches' \in Joined(matches, k) /\ k \notin Range(matches) /\ left' = left + 0
          /\ stable' = stable
      BY <1>6, MissedCounts DEF Join
    <2>2. IsInjective(matches')
      BY <1>1, <2>1, MatchJoins
    <2>3. Behind(matches', last) \subseteq Behind(matches, last) \cup {k}
      BY <1>1, <2>1, MatchJoins
    <2>4. Overlooked' \in SUBSET Overlooked
      BY <1>1, <1>4, <2>1, <2>3
    <2> HIDE DEF Overlooked
    <2>5. Cardinality(Overlooked') <= Cardinality(Overlooked) + 0
      BY <1>5, <2>4, NoMore
    <2> QED BY <1>2, <1>3, <2>1, <2>2, <2>5, StillPaid
  <1>7. CASE Leave(k)
    <2>1. matches' = Left(matches, k) /\ k \in Range(matches) /\ left' = left + 1
          /\ stable' = stable \ {k}
      BY <1>7 DEF Leave
    <2>2. /\ IsInjective(matches')
          /\ \E x : Behind(matches', last) \subseteq Behind(matches, last) \cup {x}
      <3>1. IsInjective(Left(matches, k))
        BY <1>1, <2>1, MatchLeaves
      <3>2. \E x : Behind(Left(matches, k), last) \subseteq Behind(matches, last) \cup {x}
        BY <1>1, <2>1, MatchLeaves, Zenon
      <3> QED BY <2>1, <3>1, <3>2
    <2>3. PICK x : Behind(matches', last) \subseteq Behind(matches, last) \cup {x}
      BY <2>2
    <2>4. Overlooked' \in SUBSET (Overlooked \cup {x})
      BY <1>4, <2>1, <2>3
    <2> HIDE DEF Overlooked
    <2>5. Cardinality(Overlooked') <= Cardinality(Overlooked) + 1
      BY <1>5, <2>4, OneMore
    <2>6. stable' \subseteq stable
      BY <2>1
    <2> QED BY <1>2, <1>3, <2>1, <2>2, <2>5, <2>6, StillPaid
  <1> QED BY <1>6, <1>7

(***************************************************************************)
(* A page overlooks no issue that has not been overlooked, also when it is *)
(* the last one.                                                           *)
(***************************************************************************)
LEMMA PagePaid ==
  ASSUME JiraTypeOK, MissedInv, DiffInv, FetchPage
  PROVE  MissedInv' /\ DiffInv'
  <1> DEFINE chunk == Page(matches, last)
             next  == last + Len(chunk)
             C     == Range(chunk)
  <1>1. /\ matches \in Seq(Issues) /\ IsInjective(matches) /\ stable \subseteq Range(matches)
        /\ last \in Nat
    BY SearchAccount DEF JiraTypeOK
  <1>2. /\ C \subseteq Ahead(matches, last)
        /\ Behind(matches, next) = Behind(matches, last) \cup C
    BY <1>1, PageMoves
  <1>3. next \in Nat
    <2>1. chunk \in Seq(Issues)
      BY <1>1, PageOf
    <2> QED BY <1>1, <2>1
  <1>4. /\ sync = "search" /\ found' = found \cup C
        /\ \/ next >= Len(matches) /\ sync' = "write" /\ last' = 0
           \/ sync' = "search" /\ last' = next
        /\ UNCHANGED <<matches, left, stable, file>> /\ UNCHANGED diffVars
    BY DEF FetchPage, issueVars
  <1> HIDE DEF next, C, chunk
  <1>5. Overlooked = (stable \cap Behind(matches, last)) \ found
    BY <1>4 DEF Overlooked
  <1>6. Overlooked' = (stable \cap Behind(matches, next)) \ found'
    <2>1. CASE next >= Len(matches) /\ sync' = "write"
      <3>1. Behind(matches, next) = Range(matches)
        BY <1>1, <1>3, <2>1, Ends
      <3>2. Overlooked' = stable \ found'
        BY <1>4, <2>1 DEF Overlooked
      <3> QED BY <1>1, <3>1, <3>2
    <2>2. CASE sync' = "search" /\ last' = next
      BY <1>4, <2>2 DEF Overlooked
    <2> QED BY <1>4, <2>1, <2>2
  <1>7. Overlooked' \in SUBSET Overlooked
    BY <1>2, <1>4, <1>5, <1>6
  <1>8. Cardinality(Overlooked') <= Cardinality(Overlooked) + 0
    <2>1. IsFiniteSet(Overlooked)
      BY MissedCounts
    <2> HIDE DEF Overlooked
    <2> QED BY <2>1, <1>7, NoMore
  <1>9. left' = left + 0
    BY <1>4, MissedCounts
  <1>10. /\ IsInjective(matches') /\ stable' \subseteq stable
         /\ sync' # "search" => last' = 0
         /\ sync' = "idle" => found' = {}
         /\ \A d \in Day : Whole(file'[d]) => Whole(file[d]) /\ file'[d] = file[d]
    BY <1>1, <1>4
  <1> QED BY <1>4, <1>8, <1>9, <1>10, StillPaid

(***************************************************************************)
(* A file that is written takes over the account of its search.            *)
(***************************************************************************)
LEMMA WritePaid ==
  ASSUME JiraTypeOK, MissedInv, DiffInv, WriteRest
  PROVE  MissedInv' /\ DiffInv'
  <1> DEFINE O == Cardinality(Overlooked)
  <1>1. /\ target \in Day /\ sync = "write" /\ last = 0
        /\ file \in [Day -> Snapshot]
    BY SearchAccount DEF JiraTypeOK, WriteRest
  <1>2. /\ file' = [file EXCEPT ![target] = [issues |-> found, parses |-> TRUE, whole |-> TRUE]]
        /\ sync' = "idle" /\ found' = {} /\ last' = 0
        /\ UNCHANGED <<matches, left, stable, diff, dates, old, new, exact>>
    BY <1>1 DEF WriteRest, issueVars, diffVars
  <1>3. Missed(found) = O /\ O \in Nat /\ left \in Nat /\ \A a : Missed(a) \in Nat
    BY <1>1, MissedCounts DEF Overlooked
  <1>4. Overlooked' = {} /\ Cardinality({}) = 0
    <2>1. matches \in Seq(Issues)
      BY DEF JiraTypeOK
    <2>2. Overlooked' = (stable \cap Behind(matches, 0)) \ {}
      BY <1>2 DEF Overlooked
    <2> QED BY <2>1, <2>2, Ends, FS_EmptySet
  <1>5. \A a : Missed(a)' = Missed(a)
    BY <1>2 DEF Missed
  <1>6. /\ O <= left
        /\ \A d \in Day : Whole(file[d]) =>
             /\ Missed(file[d].issues) + O <= left
             /\ \A e \in Day : d < e /\ Whole(file[e]) =>
                  Missed(file[d].issues) + Missed(file[e].issues) <= left
    BY SearchAccount
  <1>7. \A d \in Day : \/ d # target /\ file'[d] = file[d]
                       \/ d = target /\ file'[d].issues = found
    BY <1>1, <1>2
  <1> HIDE DEF O
  <1>8. ASSUME NEW d \in Day, Whole(file'[d])
        PROVE  /\ Missed(file'[d].issues) <= left
               /\ \A e \in Day : d < e /\ Whole(file'[e]) =>
                    Missed(file'[d].issues) + Missed(file'[e].issues) <= left
    <2>1. ASSUME NEW e \in Day, d < e, Whole(file'[e])
          PROVE  Missed(file'[d].issues) + Missed(file'[e].issues) <= left
      <3>1. CASE d = target /\ e # target
        <4>1. Missed(file'[d].issues) = O /\ file'[e] = file[e]
          BY <1>3, <1>7, <3>1
        <4>2. Missed(file[e].issues) + O <= left /\ Missed(file[e].issues) \in Nat
          BY <1>3, <1>6, <2>1, <4>1
        <4> QED BY <1>3, <4>1, <4>2
      <3>2. CASE d # target /\ e = target
        <4>1. Missed(file'[e].issues) = O /\ file'[d] = file[d]
          BY <1>3, <1>7, <3>2
        <4>2. Missed(file[d].issues) + O <= left /\ Missed(file[d].issues) \in Nat
          BY <1>3, <1>6, <1>8, <4>1
        <4> QED BY <1>3, <4>1, <4>2
      <3>3. CASE d # target /\ e # target
        BY <1>6, <1>7, <1>8, <2>1, <3>3
      <3>4. d # e
        BY <2>1 DEF Day
      <3> QED BY <3>1, <3>2, <3>3, <3>4
    <2>2. Missed(file'[d].issues) <= left
      <3>1. CASE d = target
        BY <1>3, <1>6, <1>7, <3>1
      <3>2. CASE d # target
        <4>1. Missed(file[d].issues) + O <= left /\ Missed(file[d].issues) \in Nat
          BY <1>3, <1>6, <1>7, <1>8, <3>2
        <4> QED BY <1>3, <1>7, <3>2, <4>1
      <3> QED BY <3>1, <3>2
    <2> QED BY <2>1, <2>2
  <1>9. \A n \in Nat : n + 0 = n
    OBVIOUS
  <1>10. MissedInv'
    <2>1. IsInjective(matches') /\ Cardinality(Overlooked') = 0
      BY <1>2, <1>4, SearchAccount
    <2>2. \A d \in Day : Whole(file'[d]) =>
            /\ Missed(file'[d].issues) + Cardinality(Overlooked') <= left
            /\ \A e \in Day : d < e /\ Whole(file'[e]) =>
                 Missed(file'[d].issues) + Missed(file'[e].issues) <= left
      BY <1>3, <1>8, <1>9, <2>1
    <2>3. Cardinality(Overlooked') <= left' /\ left' = left
      BY <1>2, <1>3, <2>1
    <2>4. sync' = "idle" /\ last' = 0 /\ found' = {} /\ IsInjective(matches')
      BY <1>2, <2>1
    <2> HIDE DEF Overlooked
    <2> QED BY <1>5, <2>2, <2>3, <2>4 DEF MissedInv, Day
  <1>11. DiffInv'
    <2>1. /\ diff \in {"old", "new"} => dates[1] < dates[2]
          /\ diff = "new" /\ exact =>
               /\ Missed(old) + O <= left
               /\ \A e \in Day : dates[1] < e /\ Whole(file[e]) =>
                    Missed(old) + Missed(file[e].issues) <= left
          /\ diff = "infos" /\ exact => Missed(old) + Missed(new) <= left
      BY DEF DiffInv, O
    <2>2. ASSUME diff = "new", exact
          PROVE  /\ Missed(old) + Cardinality(Overlooked') <= left
                 /\ \A e \in Day : dates[1] < e /\ Whole(file'[e]) =>
                      Missed(old) + Missed(file'[e].issues) <= left
      <3>1. Missed(old) \in Nat /\ Missed(old) + O <= left
        BY <1>3, <2>1, <2>2
      <3>2. Missed(old) + Cardinality(Overlooked') <= left
        BY <1>3, <1>4, <3>1
      <3>3. ASSUME NEW e \in Day, dates[1] < e, Whole(file'[e])
            PROVE  Missed(old) + Missed(file'[e].issues) <= left
        <4>1. CASE e = target
          BY <1>3, <1>7, <3>1, <4>1
        <4>2. CASE e # target
          BY <1>7, <2>1, <2>2, <3>3, <4>2
        <4> QED BY <4>1, <4>2
      <3> QED BY <3>2, <3>3
    <2> QED BY <1>2, <1>5, <2>1, <2>2 DEF DiffInv, Day
  <1> QED BY <1>10, <1>11
(***************************************************************************)
(* What the handler reads takes over the account of the file.              *)
(***************************************************************************)
LEMMA ReadPaid ==
  ASSUME JiraTypeOK, MissedInv, DiffInv,
         \/ \E d, e \in Day : d < e /\ Request(d, e)
         \/ ReadOld \/ ReadNew \/ GetInfos
  PROVE  MissedInv' /\ DiffInv'
  <1>1. UNCHANGED <<matches, left, stable, file, sync, last, found>>
    BY DEF Request, ReadOld, ReadNew, GetInfos, syncVars, issueVars
  <1>2. MissedInv'
    BY <1>1 DEF MissedInv, Overlooked, Missed, Day
  <1> SUFFICES DiffInv'
    BY <1>2
  <1>3. Overlooked' = Overlooked /\ \A a : Missed(a)' = Missed(a)
    BY <1>1 DEF Overlooked, Missed
  <1>4. dates[1] \in Day /\ dates[2] \in Day
    BY DEF JiraTypeOK
  <1>5. ASSUME NEW d \in Day, NEW e \in Day, d < e, Request(d, e)
        PROVE  DiffInv'
    <2>1. diff' = "old" /\ dates' = <<d, e>> /\ dates'[1] < dates'[2]
      BY <1>5 DEF Request
    <2> QED BY <2>1 DEF DiffInv
  <1>6. CASE ReadOld
    <2>1. CASE file[dates[1]].parses
      <3>1. /\ diff = "old" /\ diff' = "new" /\ old' = file[dates[1]].issues
            /\ exact' = file[dates[1]].whole /\ dates' = dates /\ dates[1] < dates[2]
        BY <1>6, <2>1 DEF ReadOld, DiffInv
      <3>2. ASSUME exact'
            PROVE  /\ Missed(old') + Cardinality(Overlooked) <= left
                   /\ \A e \in Day : dates[1] < e /\ Whole(file[e]) =>
                        Missed(old') + Missed(file[e].issues) <= left
        <4>1. Whole(file[dates[1]])
          BY <2>1, <3>1, <3>2 DEF Whole
        <4> QED BY <1>4, <3>1, <4>1, SearchAccount
      <3> QED BY <1>1, <1>3, <3>1, <3>2 DEF DiffInv, Day
    <2>2. CASE ~file[dates[1]].parses
      <3>1. diff' = "none"
        BY <1>6, <2>2 DEF ReadOld, Answer
      <3> QED BY <3>1 DEF DiffInv
    <2> QED BY <2>1, <2>2
  <1>7. CASE ReadNew
    <2>1. CASE file[dates[2]].parses
      <3>1. /\ diff = "new" /\ diff' = "infos" /\ new' = file[dates[2]].issues
            /\ exact' = (exact /\ file[dates[2]].whole) /\ dates' = dates /\ old' = old
        BY <1>7, <2>1 DEF ReadNew
      <3>2. ASSUME exact'
            PROVE  Missed(old) + Missed(new') <= left
        <4>1. exact /\ Whole(file[dates[2]])
          BY <2>1, <3>1, <3>2 DEF Whole
        <4>2. dates[1] < dates[2]
          BY <1>7, <3>1 DEF DiffInv, ReadNew
        <4> QED BY <1>4, <3>1, <4>1, <4>2 DEF DiffInv
      <3> QED BY <1>1, <1>3, <3>1, <3>2 DEF DiffInv
    <2>2. CASE ~file[dates[2]].parses
      <3>1. diff' = "none"
        BY <1>7, <2>2 DEF ReadNew, Answer
      <3> QED BY <3>1 DEF DiffInv
    <2> QED BY <2>1, <2>2
  <1>8. CASE GetInfos
    <2>1. diff' = "none"
      BY <1>8 DEF GetInfos, Answer
    <2> QED BY <2>1 DEF DiffInv
  <1> QED BY <1>5, <1>6, <1>7, <1>8

(***************************************************************************)
(* Every step keeps the accounts.                                          *)
(***************************************************************************)
LEMMA SearchesPaid ==
  ASSUME JiraTypeOK, MissedInv, DiffInv, [JiraNext]_jiraVars
  PROVE  MissedInv' /\ DiffInv'
  <1>1. /\ matches \in Seq(Issues) /\ IsInjective(matches) /\ left = left + 0
        /\ sync # "search" => last = 0
        /\ sync = "idle" => found = {}
        /\ Cardinality({}) = 0 /\ Cardinality(Overlooked) \in Nat
        /\ Cardinality(Overlooked) = Cardinality(Overlooked) + 0
    BY SearchAccount, MissedCounts, FS_EmptySet DEF JiraTypeOK
  <1>2. ASSUME UNCHANGED <<matches, left, stable, sync, last, found>>,
               UNCHANGED diffVars,
               \A d \in Day : Whole(file'[d]) => Whole(file[d]) /\ file'[d] = file[d]
        PROVE  MissedInv' /\ DiffInv'
    <2>1. Overlooked' = Overlooked
      BY <1>2 DEF Overlooked
    <2>2. Cardinality(Overlooked') <= Cardinality(Overlooked) + 0
      BY <1>1, <2>1
    <2>3. /\ left' = left + 0 /\ stable' \subseteq stable /\ IsInjective(matches')
          /\ sync' # "search" => last' = 0
          /\ sync' = "idle" => found' = {}
      BY <1>1, <1>2
    <2> QED BY <1>2, <2>2, <2>3, StillPaid
  <1>3. ASSUME UNCHANGED <<matches, left, stable, file>>,
               sync' \in {"idle", "search"}, last' = 0, found' = {},
               UNCHANGED diffVars \/ diff' = "none"
        PROVE  MissedInv' /\ DiffInv'
    <2>1. Overlooked' = {}
      <3>1. Overlooked' = (stable \cap Behind(matches, 0)) \ {}
        BY <1>3 DEF Overlooked
      <3> QED BY <1>1, <3>1, Ends
    <2>2. Cardinality(Overlooked') <= Cardinality(Overlooked) + 0
      BY <1>1, <2>1
    <2>3. /\ left' = left + 0 /\ stable' \subseteq stable /\ IsInjective(matches')
          /\ \A d \in Day : Whole(file'[d]) => Whole(file[d]) /\ file'[d] = file[d]
      BY <1>1, <1>3
    <2> QED BY <1>3, <2>2, <2>3, StillPaid
  <1>4. CASE \E k \in Issues : Join(k) \/ Leave(k)
    BY <1>4, ChangesPaid
  <1>5. CASE FetchPage
    BY <1>5, PagePaid
  <1>6. CASE WriteRest
    BY <1>6, WritePaid
  <1>7. CASE \/ \E d, e \in Day : d < e /\ Request(d, e)
             \/ ReadOld \/ ReadNew \/ GetInfos
    BY <1>7, ReadPaid
  <1>8. CASE Midnight \/ Start \/ UNCHANGED jiraVars
    <2>1. UNCHANGED <<matches, left, stable, sync, last, found, file>> /\ UNCHANGED diffVars
      BY <1>8 DEF Midnight, Start, jiraVars, syncVars, issueVars
    <2> QED BY <1>2, <2>1
  <1>9. CASE StartSync \/ SearchFails \/ WriteFails \/ Crash
    <2>1. /\ UNCHANGED <<matches, left, stable, file>>
          /\ sync' \in {"idle", "search"} /\ last' = 0 /\ found' = {}
          /\ UNCHANGED diffVars \/ diff' = "none"
      BY <1>9 DEF StartSync, SearchFails, WriteFails, Crash, SyncFails, issueVars
    <2> QED BY <1>3, <2>1
  <1>10. CASE OpenFile \/ WriteSome
    <2>1. PICK d, part : d \in Day /\ file' = [file EXCEPT ![d] = part] /\ ~part.whole
      <3>1. CASE OpenFile
        <4>1. day \in Day /\ file' = [file EXCEPT ![day] = Truncated]
          BY <3>1 DEF OpenFile, JiraTypeOK
        <4>2. ~Truncated.whole
          BY DEF Truncated
        <4> QED BY <4>1, <4>2
      <3>2. CASE WriteSome
        <4>1. PICK part \in { [issues |-> b, parses |-> TRUE, whole |-> FALSE] :
                                b \in Beginnings(found) } \cup {Unreadable} :
                file' = [file EXCEPT ![target] = part]
          BY <3>2 DEF WriteSome
        <4>2. ~part.whole
          BY DEF Unreadable
        <4>3. target \in Day
          BY <3>2 DEF WriteSome, JiraTypeOK
        <4> QED BY <4>1, <4>2, <4>3
      <3> QED BY <1>10, <3>1, <3>2
    <2>2. \A e \in Day : Whole(file'[e]) => Whole(file[e]) /\ file'[e] = file[e]
      BY <2>1 DEF Whole, JiraTypeOK
    <2>3. UNCHANGED <<matches, left, stable, sync, last, found>> /\ UNCHANGED diffVars
      BY <1>10 DEF OpenFile, WriteSome, syncVars, issueVars
    <2> QED BY <1>2, <2>2, <2>3
  <1> QED BY <1>4, <1>5, <1>6, <1>7, <1>8, <1>9, <1>10 DEF JiraNext, Sync

(***************************************************************************)
(* In every run of jira-daily-diff its inductive invariant holds.          *)
(***************************************************************************)
THEOREM SnapshotsInvariance ==
  JiraSpec => []JiraInv
  <1>1. JiraInit => JiraInv
    BY SnapshotsInit
  <1>2. JiraInv /\ [JiraNext]_jiraVars => JiraInv'
    <2> SUFFICES ASSUME JiraInv, [JiraNext]_jiraVars PROVE JiraInv'
      OBVIOUS
    <2>1. /\ JiraTypeOK /\ MissedInv /\ DiffInv /\ Cardinality(Damaged) <= failures
      BY DEF JiraInv
    <2>2. JiraTypeOK'
      BY <2>1, SearchAccount, SnapshotsType
    <2>3. MissedInv' /\ DiffInv'
      BY <2>1, SearchesPaid
    <2>4. Cardinality(Damaged') <= failures'
      BY <2>1, DamagePaid
    <2> HIDE DEF Damaged
    <2> QED BY <2>2, <2>3, <2>4 DEF JiraInv
  <1> QED BY <1>1, <1>2, PTL DEF JiraSpec

(***************************************************************************)
(* A file that is being written is one that was opened and is not whole,   *)
(* and what files and handler hold are issues.                             *)
(***************************************************************************)
THEOREM SnapshotsTyped ==
  JiraSpec => []JiraTypeOK
  <1>1. JiraInv => JiraTypeOK
    BY DEF JiraInv
  <1> QED BY <1>1, SnapshotsInvariance, PTL

(***************************************************************************)
(* A snapshot of a past day is damaged only by a fault, and each fault     *)
(* damages one: WriteIssues truncates the file it writes.                  *)
(***************************************************************************)
THEOREM FaultsDamage ==
  JiraSpec => []DamageNeedsFault
  <1>1. JiraInv => DamageNeedsFault
    <2> SUFFICES ASSUME JiraInv PROVE DamageNeedsFault
      OBVIOUS
    <2> DEFINE past == { d \in 1..(day - 1) : ~file[d].whole /\ d # target }
    <2>1. past \in SUBSET Damaged
      BY BoundAssumption DEF JiraInv, JiraTypeOK, Damaged, Day
    <2>2. IsFiniteSet(Damaged) /\ Cardinality(Damaged) <= failures /\ failures \in Nat
      <3>1. IsFiniteSet(Day) /\ Damaged \subseteq Day
        BY FS_Interval, BoundAssumption DEF Day, Damaged
      <3> QED BY <3>1, FS_Subset, BoundAssumption DEF JiraInv, JiraTypeOK
    <2> HIDE DEF past, Damaged
    <2>3. Cardinality(past) <= failures
      BY <2>1, <2>2, NoMore
    <2> QED BY <2>3 DEF DamageNeedsFault, past
  <1> QED BY <1>1, SnapshotsInvariance, PTL

(***************************************************************************)
(* A difference of two whole files names no more issues wrongly than left  *)
(* the result of the query.                                                *)
(***************************************************************************)
THEOREM DifferencesAreHonest ==
  JiraSpec => []DiffHonest
  <1>1. JiraInv => DiffHonest
    <2> SUFFICES ASSUME JiraInv, diff = "infos", exact
                 PROVE  Cardinality(stable \cap (Added \cup Removed)) <= left
      BY DEF DiffHonest
    <2> DEFINE A == stable \ old
               B == stable \ new
    <2>1. /\ IsFiniteSet(A) /\ IsFiniteSet(B) /\ left \in Nat
          /\ Cardinality(A) \in Nat /\ Cardinality(B) \in Nat
          /\ Cardinality(A) + Cardinality(B) <= left
      BY MissedCounts, FS_Difference, FS_CardinalityType DEF JiraInv, DiffInv
    <2>2. stable \cap (Added \cup Removed) \in SUBSET (A \cup B)
      BY DEF Added, Removed
    <2> HIDE DEF A, B
    <2>3. /\ IsFiniteSet(A \cup B) /\ Cardinality(A \cap B) \in Nat
          /\ Cardinality(A \cup B) = Cardinality(A) + Cardinality(B) - Cardinality(A \cap B)
      BY <2>1, FS_Union, FS_Intersection, FS_CardinalityType
    <2>4. /\ Cardinality(A \cup B) \in Nat
          /\ Cardinality(stable \cap (Added \cup Removed)) \in Nat
          /\ Cardinality(stable \cap (Added \cup Removed)) <= Cardinality(A \cup B)
      BY <2>2, <2>3, NoMore
    <2> QED BY <2>1, <2>3, <2>4
  <1> QED BY <1>1, SnapshotsInvariance, PTL
=============================================================================
