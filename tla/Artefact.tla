------------------------------ MODULE Artefact ------------------------------
(***************************************************************************)
(* internal/harness/ablation, artefacts: what one run of one configuration *)
(* measured, and the table that artefacts are folded into.  The broker     *)
(* version is its prefix and its tag, and the fixed parameters other than  *)
(* the sweep are one value.                                                *)
(***************************************************************************)
EXTENDS Integers, FiniteSets, SequencesExt

CONSTANT MinRuns      \* runs of each configuration that a table needs

ASSUME MinRunsAssumption == MinRuns \in Nat \ {0}

-----------------------------------------------------------------------------
\* What measure makes of the counts of inbox rows and of postings.

MaxOf(a, b) == IF a > b THEN a ELSE b
MinOf(a, b) == IF a < b THEN a ELSE b

HasInbox(config) == config \in {"C", "D"}

\* More distinct movements than were sent is refused.
Contaminated(inbox, sent) == inbox > sent /\ sent > 0

\* Mutant of Measured: the counts without an inbox are differences.
MeasuredMutant(art, inbox, postings) ==
    [art EXCEPT !.exact = HasInbox(art.config), !.effects = postings,
                !.applied = IF HasInbox(art.config) THEN inbox ELSE postings,
                !.dup  = postings - (IF HasInbox(art.config) THEN inbox ELSE art.sent),
                !.lost = art.sent - (IF HasInbox(art.config) THEN inbox ELSE postings)]

\* Exact with an inbox; net without, where no posting is tied to a movement.
Measured(art, inbox, postings) ==
    IF HasInbox(art.config)
    THEN [art EXCEPT !.exact = TRUE, !.effects = postings, !.applied = inbox,
                     !.dup = MaxOf(0, postings - inbox), !.lost = MaxOf(0, art.sent - inbox)]
    ELSE [art EXCEPT !.exact = FALSE, !.effects = postings, !.applied = MinOf(postings, art.sent),
                     !.dup = MaxOf(0, postings - art.sent), !.lost = MaxOf(0, art.sent - postings)]

-----------------------------------------------------------------------------
\* Tables.

\* Mutant of fixedKey: two sweeps with the same parameters agree.
fixedKeyMutant(a) == <<a.params, a.version>>

fixedKey(a) == <<a.params, a.version, a.sweep>>

IsMeasurement(a) == a.version[1] # "fake:"

Kind(a) == CASE a.version[1] = "fake:" -> "plumbing"
             [] a.version[1] = "sim:"  -> "simulated"
             [] OTHER                  -> "real"

SameKind(arts) == \A a, b \in arts : Kind(a) = Kind(b)

\* The k-th of the values in their order: fewer than k are below it.
Nth(values, k) ==
    CHOOSE v \in {values[i] : i \in DOMAIN values} :
        /\ Cardinality({i \in DOMAIN values : values[i] < v}) < k
        /\ Cardinality({i \in DOMAIN values : values[i] <= v}) >= k

\* The middle of the sorted values, the upper of two, and their range.
medianMinMax(values) ==
    [med |-> Nth(values, Len(values) \div 2 + 1), lo |-> Nth(values, 1), hi |-> Nth(values, Len(values))]

Column(runs, get(_)) ==
    LET order == SetToSeq(runs) IN medianMinMax([i \in DOMAIN order |-> get(order[i])])

Runs(arts, config) == {a \in arts : a.config = config}

Row(arts, config) ==
    [config |-> config, runs |-> Cardinality(Runs(arts, config)),
     lost |-> Column(Runs(arts, config), LAMBDA a : a.lost),
     dup  |-> Column(Runs(arts, config), LAMBDA a : a.dup)]

\* One row for each configuration, from artefacts that may share a table.
TableIsAllowed(arts) ==
    /\ arts # {}
    /\ \A a \in arts : IsMeasurement(a) /\ a.drained
    /\ SameKind(arts)
    /\ \A a, b \in arts : fixedKey(a) = fixedKey(b)
    /\ \A a \in arts : Cardinality(Runs(arts, a.config)) >= MinRuns

Table(arts) == IF TableIsAllowed(arts) THEN {Row(arts, a.config) : a \in arts} ELSE {}

allExact(arts) == \A a \in arts : a.exact
=============================================================================
