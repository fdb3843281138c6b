------------------------------ MODULE WeakPoints -----------------------------
(***************************************************************************)
(* What the learning plugins read off the mistake book: the gaps of the    *)
(* last days (practice/gaps.rs), the weekly report's weakest points        *)
(* (report/mod.rs) and the paper that is made of them (exam/mod.rs).  Each *)
(* reads the book afresh, tallies it in a hash map and sorts the points;   *)
(* those its order leaves equal come in any.  So each answers with one of  *)
(* a set of lists.                                                         *)
(***************************************************************************)
EXTENDS Naturals, Sequences, FiniteSets

CONSTANTS
    KnowledgePoints,
    Templated,        \* those an exercise can be made for
    Alphabetic,       \* each point's place among the names
    GapDays, WeekDays,\* how far the two look back when not told
    MaxShown,         \* the most points gaps shows
    MaxMistakes, LastDay

ASSUME PointsAssumption ==
    /\ IsFiniteSet(KnowledgePoints) /\ Templated \subseteq KnowledgePoints
    /\ Alphabetic \in [KnowledgePoints -> Nat]
    /\ \A p, q \in KnowledgePoints : Alphabetic[p] = Alphabetic[q] => p = q
    /\ GapDays \in 1..LastDay /\ WeekDays \in 1..LastDay /\ LastDay \in Nat
    /\ MaxShown \in Nat \ {0} /\ MaxMistakes \in Nat

VARIABLES
    mistakes,         \* the book, oldest first
    today

pointVars == <<mistakes, today>>

------------------------------------------------------------------------------
(* The book changes *)

Archived(p, right) ==
    /\ Len(mistakes) < MaxMistakes
    /\ mistakes' = Append(mistakes, [point |-> p, right |-> right, day |-> today])
    /\ UNCHANGED today
Corrected(k, right) ==
    /\ mistakes[k].right # right
    /\ mistakes' = [mistakes EXCEPT ![k].right = right]
    /\ UNCHANGED today
Removed(k) ==
    /\ mistakes' = [n \in 1..(Len(mistakes) - 1) |-> mistakes[IF n < k THEN n ELSE n + 1]]
    /\ UNCHANGED today
Passes == today < LastDay /\ today' = today + 1 /\ UNCHANGED mistakes

PointInit == mistakes = <<>> /\ today = 1
PointNext ==
    \/ \E p \in KnowledgePoints, right \in BOOLEAN : Archived(p, right)
    \/ \E k \in DOMAIN mistakes : Removed(k) \/ \E right \in BOOLEAN : Corrected(k, right)
    \/ Passes
PointSpec == PointInit /\ [][PointNext]_pointVars

------------------------------------------------------------------------------
(* What is read *)

Clamped(n, low, high) == IF n < low THEN low ELSE IF n > high THEN high ELSE n
Recent(m, days) == m.day + days >= today
First(s, n) == SubSeq(s, 1, IF Len(s) < n THEN Len(s) ELSE n)

\* All that was archived, the solved ones too.
CountedAll(m, days) == Recent(m, days)
Counted(m, days) == ~m.right /\ Recent(m, days)

\* For each point the number of its mistakes that count, and the day of the
\* latest.
NoneYet == [p \in KnowledgePoints |-> [wrong |-> 0, latest |-> 0]]
Tallied(tally, m, days) ==
    LET was == tally[m.point] IN
    IF Counted(m, days)
    THEN [tally EXCEPT ![m.point] = [wrong |-> was.wrong + 1, latest |-> IF m.day > was.latest THEN m.day ELSE was.latest]]
    ELSE tally
Tally(days) ==
    LET after[n \in 0..Len(mistakes)] == IF n = 0 THEN NoneYet ELSE Tallied(after[n - 1], mistakes[n], days)
    IN  after[Len(mistakes)]

\* The most mistakes first; among equals the latest first, the name, or as it
\* comes.
Before(tally, then, p, q) ==
    \/ tally[p].wrong > tally[q].wrong
    \/ /\ tally[p].wrong = tally[q].wrong
       /\ \/ then = "day" /\ tally[p].latest > tally[q].latest
          \/ then = "name" /\ Alphabetic[p] < Alphabetic[q]
Rankings(tally, then) ==
    LET weak == {p \in KnowledgePoints : tally[p].wrong > 0} IN
    {list \in [1..Cardinality(weak) -> weak] :
        \A i, j \in DOMAIN list : i < j => list[i] # list[j] /\ ~Before(tally, then, list[j], list[i])}

Gaps(days, limit) ==
    {First(list, Clamped(limit, 1, MaxShown)) : list \in Rankings(Tally(Clamped(days, 1, LastDay)), "day")}
Weekly(days) == {First(list, 3) : list \in Rankings(Tally(Clamped(days, 1, LastDay)), "any")}
\* The points of the paper: of the weakest of all time, in this order, the ones
\* with a template.
Compose(count) ==
    {{list[n] : n \in {n \in DOMAIN list : n <= Clamped(count, 1, MaxShown) /\ list[n] \in Templated}} :
        list \in Rankings(Tally(today), "name")}

------------------------------------------------------------------------------
(* Properties *)

\* The open mistakes of a point, the oldest some days back.
OpenOf(p, days) ==
    Cardinality({k \in DOMAIN mistakes :
        mistakes[k].point = p /\ ~mistakes[k].right /\ today - mistakes[k].day <= days})
AtLeast(p, days) == {q \in KnowledgePoints : OpenOf(q, days) >= OpenOf(p, days)}
Weaker(p, days) == {q \in KnowledgePoints : OpenOf(q, days) > OpenOf(p, days)}
\* The points of a list are the weakest of those days, in their order.
Leads(list, limit, days) ==
    /\ \A n \in DOMAIN list : OpenOf(list[n], days) > 0
    /\ \A n, m \in DOMAIN list : n < m => list[n] # list[m] /\ OpenOf(list[n], days) >= OpenOf(list[m], days)
    /\ \A p \in KnowledgePoints \ {list[n] : n \in DOMAIN list} :
          OpenOf(p, days) = 0 \/ (Len(list) = limit /\ OpenOf(p, days) <= OpenOf(list[limit], days))
\* A paper is made of the weakest that have a template.
Examines(paper, limit) ==
    /\ \A p \in paper : Cardinality(Weaker(p, LastDay)) < limit /\ OpenOf(p, LastDay) > 0 /\ p \in Templated
    /\ \A p \in Templated \ paper : OpenOf(p, LastDay) > 0 => Cardinality(AtLeast(p, LastDay)) > limit

\* No list of weak points leaves out a point with more open mistakes in its
\* time than one it names, or names one that has none; one that is not full
\* leaves out none; and a book has one paper (gaps_handler, weekly_handler,
\* compose_handler).
WeakestFirst ==
    /\ \A list \in Gaps(GapDays, MaxShown) : Leads(list, MaxShown, GapDays)
    /\ \A list \in Weekly(WeekDays) : Leads(list, 3, WeekDays)
    /\ \A paper \in Compose(MaxShown) : Examines(paper, MaxShown)
    /\ Cardinality(Compose(MaxShown)) = 1
==============================================================================
