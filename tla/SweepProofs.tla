---------------------------- MODULE SweepProofs ----------------------------
(***************************************************************************)
(* The ablation, for any schedules, configurations, loads and faults and   *)
(* any number of sweeps.                                                   *)
(***************************************************************************)
EXTENDS Sweep, SumProofs, SequenceTheorems

-----------------------------------------------------------------------------
\* Part 1.  Schedules.

Events == [at : Nat, action : STRING, broker : Nat]

InTime(schedule) == \A i, j \in DOMAIN schedule : i <= j => schedule[i].at <= schedule[j].at

LEMMA FirstNumbers == \A n \in Nat : IsFiniteSet(1 .. n) /\ Cardinality(1 .. n) = n
<1> SUFFICES ASSUME NEW n \in Nat
             PROVE  IsFiniteSet(1 .. n) /\ Cardinality(1 .. n) = n
  OBVIOUS
<1>1. IsFiniteSet(1 .. n) /\ Cardinality(1 .. n) = IF 1 > n THEN 0 ELSE n - 1 + 1
  BY FS_Interval
<1> QED
  BY <1>1

LEMMA ScheduleFacts ==
    ASSUME NEW schedule \in Seq(Events)
    PROVE  /\ Len(schedule) \in Nat /\ DOMAIN schedule = 1 .. Len(schedule)
           /\ \A i \in DOMAIN schedule : schedule[i] \in Events /\ schedule[i].at \in Nat
                                         /\ schedule[i].broker \in Nat
<1>1. /\ Len(schedule) \in Nat /\ DOMAIN schedule = 1 .. Len(schedule)
      /\ \A i \in DOMAIN schedule : schedule[i] \in Events
  OBVIOUS
<1>2. \A e \in Events : e.at \in Nat /\ e.broker \in Nat
  BY DEF Events
<1> QED
  BY <1>1, <1>2

\* An event's place is one of the places, and tells it apart.
LEMMA PlaceFacts ==
    ASSUME NEW schedule \in Seq(Events), NEW i \in DOMAIN schedule, NEW j \in DOMAIN schedule
    PROVE  /\ Place(schedule, i) \in 1 .. Len(schedule)
           /\ NotAfter(schedule, i, j) \/ NotAfter(schedule, j, i)
           /\ ~NotAfter(schedule, j, i) => Place(schedule, i) < Place(schedule, j)
           /\ Place(schedule, i) = Place(schedule, j) => i = j
<1> DEFINE UpTo(k) == {l \in DOMAIN schedule : NotAfter(schedule, l, k)}
<1>1. /\ Len(schedule) \in Nat /\ DOMAIN schedule = 1 .. Len(schedule)
      /\ \A k \in DOMAIN schedule : schedule[k].at \in Nat /\ k \in Nat
  <2>1. /\ Len(schedule) \in Nat /\ DOMAIN schedule = 1 .. Len(schedule)
        /\ \A k \in DOMAIN schedule : schedule[k].at \in Nat
    BY ScheduleFacts
  <2> QED
    BY <2>1
<1>2. /\ IsFiniteSet(1 .. Len(schedule)) /\ Cardinality(1 .. Len(schedule)) = Len(schedule)
  BY <1>1, FirstNumbers
<1>3. \A k \in DOMAIN schedule : /\ IsFiniteSet(UpTo(k)) /\ Cardinality(UpTo(k)) \in Nat
                                 /\ Cardinality(UpTo(k)) <= Len(schedule)
  <2>1. \A k \in DOMAIN schedule : UpTo(k) \subseteq 1 .. Len(schedule)
    BY <1>1
  <2> QED
    BY <1>2, <2>1, FS_Subset, FS_CardinalityType
<1>4. \A k \in DOMAIN schedule : k \in UpTo(k)
  BY <1>1 DEF NotAfter
<1>5. \A k, l \in DOMAIN schedule : NotAfter(schedule, k, l) \/ NotAfter(schedule, l, k)
  BY <1>1 DEF NotAfter
<1>6. ASSUME NEW k \in DOMAIN schedule, NEW l \in DOMAIN schedule, ~NotAfter(schedule, l, k)
      PROVE  Cardinality(UpTo(k)) < Cardinality(UpTo(l))
  <2>1. UpTo(k) \subseteq UpTo(l) /\ l \notin UpTo(k)
    BY <1>1, <1>6 DEF NotAfter
  <2>2. UpTo(k) # UpTo(l)
    BY <1>4, <2>1
  <2> HIDE DEF UpTo
  <2>3. /\ Cardinality(UpTo(k)) <= Cardinality(UpTo(l))
        /\ Cardinality(UpTo(k)) = Cardinality(UpTo(l)) => UpTo(k) = UpTo(l)
    BY <1>3, <2>1, FS_Subset
  <2> QED
    BY <1>3, <2>2, <2>3
<1>7. NotAfter(schedule, i, j) /\ NotAfter(schedule, j, i) => i = j
  BY <1>1 DEF NotAfter
<1>8. Cardinality(UpTo(i)) # 0
  BY <1>3, <1>4, FS_EmptySet
<1>9. Place(schedule, i) = Cardinality(UpTo(i)) /\ Place(schedule, j) = Cardinality(UpTo(j))
  BY DEF Place
<1> HIDE DEF UpTo
<1>10. Place(schedule, i) = Place(schedule, j) => i = j
  <2>1. ~NotAfter(schedule, j, i) => Place(schedule, i) < Place(schedule, j)
    BY <1>6, <1>9
  <2>2. ~NotAfter(schedule, i, j) => Place(schedule, j) < Place(schedule, i)
    BY <1>6, <1>9
  <2>3. Place(schedule, i) \in Nat /\ Place(schedule, j) \in Nat
    BY <1>3, <1>9
  <2> QED
    BY <1>7, <2>1, <2>2, <2>3
<1> QED
  BY <1>1, <1>3, <1>5, <1>6, <1>8, <1>9, <1>10

\* Every place is somebody's.
LEMMA PlacesAreTaken ==
    ASSUME NEW schedule \in Seq(Events), NEW k \in DOMAIN schedule
    PROVE  \E i \in DOMAIN schedule : Place(schedule, i) = k
<1> DEFINE n == Len(schedule)
           f == [i \in 1 .. n |-> Place(schedule, i)]
<1>1. n \in Nat /\ DOMAIN schedule = 1 .. n
  BY ScheduleFacts
<1>2. IsFiniteSet(1 .. n) /\ Cardinality(1 .. n) = n
  BY <1>1, FirstNumbers
<1>3. \A i, j \in 1 .. n : Place(schedule, i) \in 1 .. n /\ (Place(schedule, i) = Place(schedule, j) => i = j)
  BY <1>1, PlaceFacts
<1>4. f \in Injection(1 .. n, 1 .. n)
  BY <1>3 DEF Injection, IsInjective
<1>5. f \in Surjection(1 .. n, 1 .. n)
  BY <1>2, <1>4, FS_Injection
<1> QED
  BY <1>1, <1>5 DEF Surjection

\* What Run executes are the events of the schedule.
LEMMA OrderedType ==
    ASSUME NEW schedule \in Seq(Events)
    PROVE  Ordered(schedule) \in Seq(Events) /\ Len(Ordered(schedule)) = Len(schedule)
<1> DEFINE n == Len(schedule)
<1>1. n \in Nat /\ DOMAIN schedule = 1 .. n /\ \A i \in 1 .. n : schedule[i] \in Events
  BY ScheduleFacts
<1>2. \A k \in 1 .. n : (CHOOSE i \in DOMAIN schedule : Place(schedule, i) = k) \in 1 .. n
  BY <1>1, PlacesAreTaken
<1>3. Ordered(schedule) \in [1 .. n -> Events]
  BY <1>1, <1>2 DEF Ordered
<1> QED
  BY <1>1, <1>3

\* A schedule that is executed as it is listed has its events in time, and the
\* other way round.
LEMMA OrderedIsInTime ==
    ASSUME NEW schedule \in Seq(Events)
    PROVE  Ordered(schedule) = schedule <=> InTime(schedule)
<1> DEFINE n == Len(schedule)
           who(k) == CHOOSE i \in DOMAIN schedule : Place(schedule, i) = k
<1>1. n \in Nat /\ DOMAIN schedule = 1 .. n /\ \A i \in 1 .. n : schedule[i].at \in Nat
  BY ScheduleFacts
<1>2. \A k \in DOMAIN schedule : who(k) \in DOMAIN schedule /\ Place(schedule, who(k)) = k
  BY PlacesAreTaken
<1>3. Ordered(schedule) = [k \in DOMAIN schedule |-> schedule[who(k)]]
  BY DEF Ordered
<1> HIDE DEF who
<1>4. ASSUME Ordered(schedule) = schedule, NEW i \in DOMAIN schedule, NEW j \in DOMAIN schedule, i <= j
      PROVE  schedule[i].at <= schedule[j].at
  <2>1. schedule[i] = schedule[who(i)] /\ schedule[j] = schedule[who(j)]
    BY <1>3, <1>4
  <2>2. who(i) \in DOMAIN schedule /\ who(j) \in DOMAIN schedule
    BY <1>2
  <2>3. ~(Place(schedule, who(j)) < Place(schedule, who(i)))
    BY <1>1, <1>2, <1>4
  <2>4. NotAfter(schedule, who(i), who(j))
    BY <2>2, <2>3, PlaceFacts
  <2>5. schedule[who(i)].at <= schedule[who(j)].at
    BY <1>1, <2>2, <2>4 DEF NotAfter
  <2> QED
    BY <2>1, <2>5
<1>5. ASSUME InTime(schedule)
      PROVE  Ordered(schedule) = schedule
  <2>1. ASSUME NEW i \in DOMAIN schedule
        PROVE  Place(schedule, i) = i
    <3>1. {j \in DOMAIN schedule : NotAfter(schedule, j, i)} = 1 .. i
      BY <1>1, <1>5 DEF InTime, NotAfter
    <3>2. Cardinality(1 .. i) = i
      BY <1>1, FirstNumbers
    <3> QED
      BY <3>1, <3>2 DEF Place
  <2>2. \A k \in DOMAIN schedule : who(k) = k
    BY <1>2, <2>1
  <2>3. Ordered(schedule) = [k \in DOMAIN schedule |-> schedule[k]]
    BY <1>3, <2>2
  <2> QED
    BY <1>1, <2>3
<1> QED
  BY <1>4, <1>5 DEF InTime

\* Scaling keeps the events, and their order in time.
LEMMA ScaleFacts ==
    ASSUME NEW schedule \in Seq(Events), NEW d \in Nat
    PROVE  /\ Scale(schedule, d) \in Seq(Events)
           /\ InTime(schedule) => InTime(Scale(schedule, d))
<1> DEFINE n == Len(schedule)
           scaled == [k \in DOMAIN schedule |->
                         [schedule[k] EXCEPT !.at = (schedule[k].at * d) \div DefaultSpan]]
<1>1. n \in Nat /\ DOMAIN schedule = 1 .. n
      /\ \A i \in 1 .. n : schedule[i] \in Events /\ schedule[i].at \in Nat
  BY ScheduleFacts
<1>2. CASE d = 0
  BY <1>2 DEF Scale
<1>3. CASE d # 0
  <2>1. Scale(schedule, d) = scaled
    BY <1>3 DEF Scale
  <2>2. \A x \in Nat : x * d \in Nat
    OBVIOUS
  <2>3. \A x \in Nat : x \div DefaultSpan \in Nat
    BY DEF DefaultSpan
  <2>4. \A x, y \in Nat : x <= y => x \div DefaultSpan <= y \div DefaultSpan
    BY DEF DefaultSpan
  <2>5. \A x, y \in Nat : x <= y => x * d <= y * d
    OBVIOUS
  <2> DEFINE s(x) == (x * d) \div DefaultSpan
  <2>6. \A x \in Nat : s(x) \in Nat
    BY <2>2, <2>3
  <2>7. \A x, y \in Nat : x <= y => s(x) <= s(y)
    BY <2>2, <2>4, <2>5
  <2>8. scaled = [k \in 1 .. n |-> [schedule[k] EXCEPT !.at = s(schedule[k].at)]]
    BY <1>1
  <2> HIDE DEF s
  <2>9. \A k \in 1 .. n : scaled[k] \in Events /\ scaled[k].at = s(schedule[k].at)
    <3> SUFFICES ASSUME NEW k \in 1 .. n
                 PROVE  scaled[k] \in Events /\ scaled[k].at = s(schedule[k].at)
      OBVIOUS
    <3> DEFINE e == schedule[k]
               x == s(schedule[k].at)
    <3>1. e \in Events /\ x \in Nat
      BY <1>1, <2>6
    <3>2. scaled[k] = [e EXCEPT !.at = x]
      BY <2>8
    <3> HIDE DEF e, x, scaled
    <3>3. scaled[k] \in Events /\ scaled[k].at = x
      BY <3>1, <3>2 DEF Events
    <3> QED
      BY <3>3 DEF x
  <2>10. scaled \in Seq(Events) /\ DOMAIN scaled = 1 .. n
    <3>1. scaled \in [1 .. n -> Events]
      BY <1>1, <2>9
    <3> QED
      BY <1>1, <3>1
  <2> HIDE DEF scaled
  <2>11. InTime(schedule) => InTime(scaled)
    BY <1>1, <2>7, <2>9, <2>10 DEF InTime
  <2> QED
    BY <2>1, <2>10, <2>11
<1> QED
  BY <1>2, <1>3

\* One event further.
LEMMA DownAfterStep ==
    ASSUME NEW schedule \in Seq(Events), NEW k \in Nat, k < Len(schedule)
    PROVE  LET e == schedule[k + 1]
           IN  DownAfter(schedule, k + 1) = IF e.action = "kill"
                                            THEN DownAfter(schedule, k) \cup {e.broker}
                                            ELSE DownAfter(schedule, k) \ {e.broker}
<1> DEFINE e == schedule[k + 1]
           last(m) == {j \in 1 .. m : /\ schedule[j].action = "kill"
                                      /\ \A l \in j + 1 .. m : schedule[l].broker # schedule[j].broker}
<1>1. \A m \in Nat : DownAfter(schedule, m) = {schedule[i].broker : i \in last(m)}
  BY DEF DownAfter
<1>2. \A j \in 1 .. k : j \in last(k + 1) <=> j \in last(k) /\ schedule[j].broker # e.broker
  OBVIOUS
<1>3. k + 1 \in last(k + 1) <=> e.action = "kill"
  OBVIOUS
<1>4. \A m \in Nat : last(m) \subseteq 1 .. m
  OBVIOUS
<1>5. 1 .. k + 1 = (1 .. k) \cup {k + 1} /\ k + 1 \notin 1 .. k /\ k + 1 \in Nat
  OBVIOUS
<1> HIDE DEF last
<1>6. last(k) \subseteq 1 .. k /\ last(k + 1) \subseteq 1 .. k + 1
  BY <1>4, <1>5
<1>7. CASE e.action = "kill"
  <2>1. \A b : b \in DownAfter(schedule, k + 1) <=> b \in DownAfter(schedule, k) \cup {e.broker}
    BY <1>1, <1>2, <1>3, <1>5, <1>6, <1>7
  <2> QED
    BY <1>7, <2>1
<1>8. CASE e.action # "kill"
  <2>1. \A b : b \in DownAfter(schedule, k + 1) <=> b \in DownAfter(schedule, k) \ {e.broker}
    BY <1>1, <1>2, <1>3, <1>5, <1>6, <1>8
  <2> QED
    BY <1>8, <2>1
<1> QED
  BY <1>7, <1>8


\* What Validate has found.
LEMMA ValidFacts ==
    ASSUME NEW schedule \in Seq(Events), Validate(schedule)
    PROVE  /\ DownAfter(schedule, 0) = {} /\ DownAfter(schedule, Len(schedule)) = {}
           /\ \A k \in 0 .. Len(schedule) : Cardinality(DownAfter(schedule, k)) <= 1
<1>1. DownAfter(schedule, 0) = {}
  BY DEF DownAfter
<1>2. Cardinality(DownAfter(schedule, 0)) = 0
  BY <1>1, FS_EmptySet
<1>3. \A k \in 1 .. Len(schedule) : Cardinality(DownAfter(schedule, k)) <= 1
  BY ScheduleFacts DEF Validate
<1>4. \A k \in 0 .. Len(schedule) : k = 0 \/ k \in 1 .. Len(schedule)
  BY ScheduleFacts
<1>5. DownAfter(schedule, Len(schedule)) = {}
  BY DEF Validate
<1> QED
  BY <1>1, <1>2, <1>3, <1>4, <1>5

-----------------------------------------------------------------------------
\* Part 2.  The command and the chaos goroutine.

Labels == {"idle", "setup", "drive", "chaos", "count", "lag", "inbox", "postings"}
Results == {"none", "table", "failed", "refused"}
Flag == BOOLEAN
Commands == [pc : Labels, spec : Specs, sweep : Nat, config : Nat, i : Nat, result : Results]
Schedules == [events : Seq(Events), next : Nat, live : Flag]

Running == cmd.pc \notin {"idle", "setup"}
Plan == Scale(cmd.spec.schedule, cmd.spec.duration)

\* A run follows the plan that was validated, as far as the chaos goroutine has
\* come; and all brokers are up again when it ends.
Scheduled ==
    /\ cmd \in Commands /\ chaos \in Schedules
    /\ cmd.pc # "idle" => Validate(Plan)
    /\ ~Running => chaos = NoChaos
    /\ Running => chaos.events = Ordered(Plan) /\ chaos.next \in 1 .. Len(chaos.events) + 1
    /\ orderly /\ ~Running => down = {}
    /\ orderly /\ Running => /\ chaos.live /\ chaos.events = Plan
                             /\ down = DownAfter(Plan, chaos.next - 1)
                             /\ cmd.pc \notin {"drive", "chaos"} => chaos.next = Len(Plan) + 1

LEMMA SpecFacts ==
    ASSUME NEW s \in Specs
    PROVE  /\ s.schedule \in Seq(Events) /\ s.duration \in Nat
           /\ Scale(s.schedule, s.duration) \in Seq(Events)
           /\ Ordered(Scale(s.schedule, s.duration)) \in Seq(Events)
           /\ Ordered(s.schedule) = s.schedule =>
                  Ordered(Scale(s.schedule, s.duration)) = Scale(s.schedule, s.duration)
<1>1. s.schedule \in Seq(Events) /\ s.duration \in Nat
  BY SweepAssumption DEF Events
<1>2. Scale(s.schedule, s.duration) \in Seq(Events)
  BY <1>1, ScaleFacts
<1>3. Ordered(Scale(s.schedule, s.duration)) \in Seq(Events)
  BY <1>2, OrderedType
<1>4. ASSUME Ordered(s.schedule) = s.schedule
      PROVE  Ordered(Scale(s.schedule, s.duration)) = Scale(s.schedule, s.duration)
  <2>1. InTime(s.schedule)
    BY <1>1, <1>4, OrderedIsInTime
  <2>2. InTime(Scale(s.schedule, s.duration))
    BY <1>1, <2>1, ScaleFacts
  <2> QED
    BY <1>2, <2>2, OrderedIsInTime
<1> QED
  BY <1>1, <1>2, <1>3, <1>4

\* The command before and after a sweep.
LEMMA NoCmdFacts ==
    /\ NoCmd \in Commands /\ NoCmd.pc = "idle" /\ NoCmd.sweep = 0 /\ NoCmd.result = "none"
    /\ NoCmd.config = 1 /\ NoCmd.i = 1
<1> DEFINE any == CHOOSE s \in Specs : TRUE
<1>1. any \in Specs
  BY SweepAssumption
<1> HIDE DEF any
<1>2. NoCmd = [pc |-> "idle", spec |-> any, sweep |-> 0, config |-> 1, i |-> 1, result |-> "none"]
  BY DEF NoCmd, any
<1>3. "idle" \in Labels
  BY DEF Labels
<1>4. ASSUME NEW x \in Labels, NEW s \in Specs, NEW k \in Nat, NEW m \in Nat, NEW n \in Nat, NEW r \in Results
      PROVE  [pc |-> x, spec |-> s, sweep |-> k, config |-> m, i |-> n, result |-> r] \in Commands
  BY DEF Commands
<1>6. 0 \in Nat /\ 1 \in Nat
  OBVIOUS
<1>7. "none" \in Results
  BY DEF Results
<1>5. /\ NoCmd.pc = "idle" /\ NoCmd.sweep = 0 /\ NoCmd.result = "none"
      /\ NoCmd.config = 1 /\ NoCmd.i = 1
  BY <1>2
<1> QED
  BY <1>1, <1>2, <1>3, <1>4, <1>5, <1>6, <1>7

LEMMA LeaveFacts ==
    ASSUME NEW r \in Results, NEW c, c = [NoCmd EXCEPT !.result = r]
    PROVE  c \in Commands /\ c.pc = "idle" /\ c.sweep = 0 /\ c.result = r
BY NoCmdFacts DEF Commands

Given(s, k) == [NoCmd EXCEPT !.pc = "setup", !.spec = s, !.sweep = k]

LEMMA AblateFacts ==
    ASSUME NEW s \in Specs, NEW k \in Nat
    PROVE  /\ Given(s, k) \in Commands /\ Given(s, k).pc = "setup" /\ Given(s, k).spec = s
           /\ Given(s, k).sweep = k /\ Given(s, k).config = 1 /\ Given(s, k).i = 1
           /\ Given(s, k).result = "none"
<1>1. "setup" \in Labels
  BY DEF Labels
<1> DEFINE c == Given(s, k)
           d == [NoCmd EXCEPT !.pc = "setup", !.spec = s]
<1>2. d \in Commands /\ d.pc = "setup" /\ d.spec = s /\ d.config = 1 /\ d.i = 1 /\ d.result = "none"
  BY <1>1, NoCmdFacts DEF Commands
<1>3. c = [d EXCEPT !.sweep = k]
  BY DEF Given
<1> HIDE DEF c, d
<1> QED
  <2>1. /\ c \in Commands /\ c.pc = "setup" /\ c.spec = s /\ c.sweep = k
        /\ c.config = 1 /\ c.i = 1 /\ c.result = "none"
    BY <1>2, <1>3 DEF Commands
  <2> QED
    BY <2>1 DEF c

\* A step to another label.
LEMMA Moves ==
    ASSUME cmd \in Commands, NEW x \in Labels, cmd' = [cmd EXCEPT !.pc = x]
    PROVE  /\ cmd' \in Commands /\ cmd'.pc = x
           /\ cmd'.spec = cmd.spec /\ cmd'.sweep = cmd.sweep /\ cmd'.config = cmd.config
           /\ cmd'.i = cmd.i /\ cmd'.result = cmd.result
BY DEF Commands

\* Nothing but the label moves, within a run.
LEMMA StaysInRun ==
    ASSUME Scheduled, Running, cmd' \in Commands, cmd'.spec = cmd.spec,
           cmd'.pc \notin {"idle", "setup"}, UNCHANGED <<chaos, down>>, orderly' => orderly,
           orderly' /\ cmd'.pc \notin {"drive", "chaos"} =>
               cmd.pc \notin {"drive", "chaos"} \/ chaos.next > Len(chaos.events)
    PROVE  Scheduled'
<1>1. Plan' = Plan
  BY DEF Plan
<1>2. Running' /\ cmd.pc # "idle"
  BY DEF Running
<1>3. chaos.events = Ordered(Plan) /\ chaos.next \in 1 .. Len(chaos.events) + 1
  BY DEF Scheduled
<1>4. Validate(Plan')
  BY <1>1, <1>2 DEF Scheduled
<1>5. /\ chaos' \in Schedules
      /\ chaos'.events = Ordered(Plan') /\ chaos'.next \in 1 .. Len(chaos'.events) + 1
  BY <1>1, <1>3 DEF Scheduled
<1>6. ASSUME orderly'
      PROVE  /\ chaos'.live /\ chaos'.events = Plan'
             /\ down' = DownAfter(Plan', chaos'.next - 1)
             /\ cmd'.pc \notin {"drive", "chaos"} => chaos'.next = Len(Plan') + 1
  <2>1. /\ chaos.live /\ chaos.events = Plan /\ down = DownAfter(Plan, chaos.next - 1)
        /\ cmd.pc \notin {"drive", "chaos"} => chaos.next = Len(Plan) + 1
    BY <1>6 DEF Scheduled
  <2>2. chaos.next > Len(chaos.events) => chaos.next = Len(Plan) + 1
    <3>1. Len(chaos.events) \in Nat
      BY ScheduleFacts DEF Scheduled, Schedules
    <3> QED
      BY <1>3, <2>1, <3>1
  <2> QED
    BY <1>1, <1>6, <2>1, <2>2
<1> QED
  BY <1>2, <1>4, <1>5, <1>6 DEF Scheduled

\* A run ends, and the brokers are up if its schedule came to its end.
LEMMA LeavesRun ==
    ASSUME Scheduled, NEW r \in Results, Leave(r)
    PROVE  Scheduled'
<1>1. cmd' \in Commands /\ cmd'.pc = "idle"
  BY LeaveFacts DEF Leave
<1>2. chaos' = NoChaos /\ ~Running'
  BY <1>1 DEF Leave, Running
<1>3. NoChaos \in Schedules
  BY DEF NoChaos, Schedules, Flag
<1>4. ASSUME orderly'
      PROVE  down' = {}
  <2>1. orderly /\ (chaos.live => chaos.next > Len(chaos.events)) /\ (down' = {} \/ down' = down)
    BY <1>4 DEF Leave
  <2>2. CASE ~Running
    BY <2>1, <2>2 DEF Scheduled
  <2>3. CASE Running
    <3>1. /\ chaos.live /\ chaos.events = Plan /\ down = DownAfter(Plan, chaos.next - 1)
          /\ chaos.next \in 1 .. Len(chaos.events) + 1
      BY <2>1, <2>3 DEF Scheduled
    <3>2. Validate(Plan) /\ Plan \in Seq(Events)
      BY <2>3, <3>1 DEF Scheduled, Running, Schedules
    <3>3. Len(Plan) \in Nat
      BY <3>2, ScheduleFacts
    <3>4. chaos.next - 1 = Len(Plan)
      BY <2>1, <3>1, <3>3
    <3> QED
      BY <2>1, <3>1, <3>2, <3>4, ValidFacts
  <2> QED
    BY <2>2, <2>3
<1> QED
  BY <1>1, <1>2, <1>3, <1>4 DEF Scheduled

\* Steps between two runs: the command and the label move, the brokers do not.
LEMMA StaysBetweenRuns ==
    ASSUME Scheduled, cmd' \in Commands, cmd'.pc = "setup", chaos' = NoChaos,
           Validate(Plan'), orderly' => down' = {}
    PROVE  Scheduled'
<1>1. ~Running' /\ NoChaos \in Schedules
  BY DEF Running, NoChaos, Schedules, Flag
<1> QED
  BY <1>1 DEF Scheduled

\* The chaos goroutine takes an event.
LEMMA ActStep ==
    ASSUME Scheduled, NEW failed \in BOOLEAN, Act(failed)
    PROVE  Scheduled'
<1> DEFINE e == chaos.events[chaos.next]
<1>1. /\ chaos.live /\ chaos.next <= Len(chaos.events)
      /\ chaos' = [chaos EXCEPT !.next = chaos.next + 1]
      /\ IF failed THEN down' = down
         ELSE IF e.action = "kill" THEN down' = down \cup {e.broker} ELSE down' = down \ {e.broker}
      /\ orderly' = (orderly /\ ~failed)
      /\ cmd' = cmd
  BY DEF Act, Kill, Restart
<1>2. Running
  <2>1. NoChaos.next = 1 /\ NoChaos.events = <<>> /\ Len(<<>>) = 0
    BY DEF NoChaos
  <2> QED
    BY <1>1, <2>1 DEF Scheduled
<1>3. /\ cmd' \in Commands /\ Running' /\ Plan' = Plan /\ Validate(Plan')
      /\ cmd.pc \notin {"drive", "chaos"} => cmd'.pc \notin {"drive", "chaos"}
  BY <1>1, <1>2 DEF Scheduled, Running, Plan
<1>4. chaos \in Schedules /\ chaos.events = Ordered(Plan) /\ chaos.next \in 1 .. Len(chaos.events) + 1
  BY <1>2 DEF Scheduled
<1>5. chaos.events \in Seq(Events) /\ chaos.next \in Nat /\ Len(chaos.events) \in Nat
  BY <1>4, ScheduleFacts DEF Schedules
<1>6. /\ chaos' \in Schedules /\ chaos'.events = chaos.events /\ chaos'.next = chaos.next + 1
      /\ chaos'.live = chaos.live
  <2>1. chaos' = [chaos EXCEPT !.next = chaos.next + 1] /\ chaos.next + 1 \in Nat
    BY <1>1, <1>5
  <2> QED
    BY <1>4, <2>1 DEF Schedules
<1>7. chaos'.events = Ordered(Plan') /\ chaos'.next \in 1 .. Len(chaos'.events) + 1
  BY <1>1, <1>3, <1>4, <1>5, <1>6
<1>8. ASSUME orderly'
      PROVE  /\ chaos'.live /\ chaos'.events = Plan'
             /\ down' = DownAfter(Plan', chaos'.next - 1)
             /\ cmd'.pc \notin {"drive", "chaos"} => chaos'.next = Len(Plan') + 1
  <2>1. orderly /\ ~failed
    BY <1>1, <1>8
  <2>2. /\ chaos.live /\ chaos.events = Plan /\ down = DownAfter(Plan, chaos.next - 1)
        /\ cmd.pc \notin {"drive", "chaos"} => chaos.next = Len(Plan) + 1
    BY <1>2, <2>1 DEF Scheduled
  <2>3. cmd.pc \in {"drive", "chaos"}
    BY <1>1, <1>5, <2>2
  <2>4. Plan \in Seq(Events) /\ chaos.next - 1 \in 0 .. Len(Plan) - 1 /\ (chaos.next - 1) + 1 = chaos.next
        /\ chaos'.next - 1 = chaos.next
    BY <1>1, <1>4, <1>5, <1>6, <2>2
  <2>5. DownAfter(Plan, chaos.next) = IF Plan[chaos.next].action = "kill"
                                      THEN DownAfter(Plan, chaos.next - 1) \cup {Plan[chaos.next].broker}
                                      ELSE DownAfter(Plan, chaos.next - 1) \ {Plan[chaos.next].broker}
    <3> DEFINE k == chaos.next - 1
    <3>1. k \in Nat /\ k < Len(Plan) /\ k + 1 = chaos.next /\ Plan \in Seq(Events)
      BY <1>5, <2>2, <2>4
    <3> HIDE DEF k
    <3>2. DownAfter(Plan, k + 1) = IF Plan[k + 1].action = "kill"
                                   THEN DownAfter(Plan, k) \cup {Plan[k + 1].broker}
                                   ELSE DownAfter(Plan, k) \ {Plan[k + 1].broker}
      BY <3>1, DownAfterStep
    <3> QED
      BY <3>1, <3>2 DEF k
  <2>6. down' = DownAfter(Plan, chaos.next)
    BY <1>1, <2>1, <2>2, <2>5
  <2> QED
    BY <1>1, <1>3, <1>6, <2>2, <2>3, <2>4, <2>6
<1> QED
  BY <1>3, <1>6, <1>7, <1>8 DEF Scheduled

\* A run starts.
LEMMA SetupStep ==
    ASSUME Scheduled, Setup
    PROVE  Scheduled'
<1>1. /\ cmd.pc = "setup" /\ cmd' = [cmd EXCEPT !.pc = "drive"] /\ down' = down
      /\ chaos' = [events |-> Ordered(Plan), next |-> 1, live |-> TRUE]
      /\ orderly' = ((orderly \/ down = {}) /\ Ordered(cmd.spec.schedule) = cmd.spec.schedule)
  BY DEF Setup, Plan
<1>2. "drive" \in Labels
  BY DEF Labels
<1>3. cmd' \in Commands /\ cmd'.pc = "drive" /\ cmd'.spec = cmd.spec
  BY <1>1, <1>2, Moves DEF Scheduled
<1>4. ~Running /\ Running' /\ Plan' = Plan /\ Validate(Plan) /\ cmd.spec \in Specs
  BY <1>1, <1>3 DEF Scheduled, Running, Plan, Commands
<1>5. /\ Plan \in Seq(Events) /\ Ordered(Plan) \in Seq(Events)
      /\ Ordered(cmd.spec.schedule) = cmd.spec.schedule => Ordered(Plan) = Plan
  BY <1>4, SpecFacts DEF Plan
<1>6. Len(Ordered(Plan)) \in Nat
  BY <1>5, ScheduleFacts
<1>7. /\ chaos' \in Schedules /\ chaos'.events = Ordered(Plan') /\ chaos'.live
      /\ chaos'.next = 1 /\ chaos'.next \in 1 .. Len(chaos'.events) + 1
  BY <1>1, <1>4, <1>5, <1>6 DEF Schedules, Flag
<1>8. ASSUME orderly'
      PROVE  chaos'.events = Plan' /\ down' = DownAfter(Plan', chaos'.next - 1)
  <2>1. down = {}
    BY <1>1, <1>4, <1>8 DEF Scheduled
  <2>2. DownAfter(Plan, 0) = {}
    BY <1>4, <1>5, ValidFacts
  <2>3. Ordered(cmd.spec.schedule) = cmd.spec.schedule
    BY <1>1, <1>8
  <2>4. chaos'.events = Plan' /\ chaos'.next - 1 = 0
    BY <1>4, <1>5, <1>7, <2>3
  <2> QED
    BY <1>1, <1>4, <2>1, <2>2, <2>4
<1> QED
  BY <1>3, <1>4, <1>7, <1>8 DEF Scheduled

\* The command after a run that was not the last of its sweep.
LEMMA NextRunFacts ==
    ASSUME cmd \in Commands, NEW c,
           c = IF cmd.i < cmd.spec.runs
               THEN [cmd EXCEPT !.pc = "setup", !.i = cmd.i + 1]
               ELSE [cmd EXCEPT !.pc = "setup", !.i = 1, !.config = cmd.config + 1]
    PROVE  /\ c \in Commands /\ c.pc = "setup" /\ c.spec = cmd.spec /\ c.sweep = cmd.sweep
           /\ c.result = cmd.result
           /\ IF cmd.i < cmd.spec.runs THEN c.i = cmd.i + 1 /\ c.config = cmd.config
                                       ELSE c.i = 1 /\ c.config = cmd.config + 1
<1>1. "setup" \in Labels /\ cmd.i + 1 \in Nat /\ cmd.config + 1 \in Nat
  BY DEF Labels, Commands
<1>2. CASE cmd.i < cmd.spec.runs
  <2>1. c = [cmd EXCEPT !.pc = "setup", !.i = cmd.i + 1]
    BY <1>2
  <2> QED
    BY <1>1, <1>2, <2>1 DEF Commands
<1>3. CASE ~(cmd.i < cmd.spec.runs)
  <2> DEFINE d == [cmd EXCEPT !.pc = "setup", !.i = 1]
  <2>1. /\ d \in Commands /\ d.pc = "setup" /\ d.spec = cmd.spec /\ d.sweep = cmd.sweep
        /\ d.result = cmd.result /\ d.i = 1 /\ d.config = cmd.config
    BY <1>1 DEF Commands
  <2>2. c = [d EXCEPT !.config = cmd.config + 1]
    BY <1>3
  <2> HIDE DEF d
  <2> QED
    BY <1>1, <1>3, <2>1, <2>2 DEF Commands
<1> QED
  BY <1>2, <1>3

LEMMA FinishStep ==
    ASSUME Scheduled, FinishRun
    PROVE  Scheduled'
<1> DEFINE isLast == cmd.config = Len(cmd.spec.configs) /\ cmd.i = cmd.spec.runs
           r == IF TableIsAllowed(arts') THEN "table" ELSE "failed"
<1>1. r \in Results
  BY DEF Results
<1>2. /\ cmd.pc = "postings"
      /\ IF isLast
         THEN Leave(r)
         ELSE /\ cmd' = IF cmd.i < cmd.spec.runs
                        THEN [cmd EXCEPT !.pc = "setup", !.i = cmd.i + 1]
                        ELSE [cmd EXCEPT !.pc = "setup", !.i = 1, !.config = cmd.config + 1]
              /\ chaos' = NoChaos
              /\ UNCHANGED <<down, orderly>>
  BY DEF FinishRun
<1> HIDE DEF isLast, r
<1>3. CASE isLast
  BY <1>1, <1>2, <1>3, LeavesRun
<1>4. CASE ~isLast
  <2>1. cmd' \in Commands /\ cmd'.pc = "setup" /\ cmd'.spec = cmd.spec
    BY <1>2, <1>4, NextRunFacts DEF Scheduled
  <2>2. Running /\ Validate(Plan) /\ Plan' = Plan
    BY <1>2, <2>1 DEF Scheduled, Running, Plan
  <2>3. ASSUME orderly
        PROVE  down = {}
    <3>1. /\ chaos \in Schedules /\ chaos.events = Plan /\ down = DownAfter(Plan, chaos.next - 1)
          /\ chaos.next = Len(Plan) + 1
      BY <1>2, <2>2, <2>3 DEF Scheduled
    <3>2. Plan \in Seq(Events)
      BY <3>1 DEF Schedules
    <3>3. Len(Plan) \in Nat
      BY <3>2, ScheduleFacts
    <3>4. chaos.next - 1 = Len(Plan)
      BY <3>1, <3>3
    <3> QED
      BY <2>2, <3>1, <3>2, <3>4, ValidFacts
  <2> QED
    BY <1>2, <1>4, <2>1, <2>2, <2>3, StaysBetweenRuns
<1> QED
  BY <1>3, <1>4

\* The command is given.
LEMMA AblateStep ==
    ASSUME Scheduled, planned \in Nat, NEW s \in Specs, Ablate(s)
    PROVE  Scheduled'
<1>1. /\ cmd.pc = "idle" /\ Validate(Scale(s.schedule, s.duration))
      /\ cmd' = [NoCmd EXCEPT !.pc = "setup", !.spec = s, !.sweep = sweepID]
      /\ UNCHANGED <<chaos, down, orderly>>
  BY DEF Ablate, Accepts
<1>2. PICK k \in Nat : k = sweepID
  BY DEF sweepID
<1>3. cmd' \in Commands /\ cmd'.pc = "setup" /\ cmd'.spec = s
  <2>1. cmd' = Given(s, k)
    BY <1>1, <1>2 DEF Given
  <2> QED
    BY <2>1, AblateFacts
<1>4. ~Running /\ Plan' = Scale(s.schedule, s.duration)
  BY <1>1, <1>3 DEF Running, Plan
<1>5. chaos = NoChaos /\ (orderly => down = {})
  BY <1>4 DEF Scheduled
<1> QED
  BY <1>1, <1>3, <1>4, <1>5, StaysBetweenRuns

\* No step of a sweep takes the brokers away from the plan.
LEMMA ScheduledStep ==
    ASSUME Scheduled, planned \in Nat, [Next]_vars
    PROVE  Scheduled'
<1> USE DEF Labels
<1>1. ASSUME NEW x \in Labels \ {"idle", "setup"}, cmd' = [cmd EXCEPT !.pc = x] \/ cmd' = cmd, Running,
             UNCHANGED <<chaos, down, orderly>>,
             \/ cmd.pc \notin {"drive", "chaos"} \/ cmd'.pc \in {"drive", "chaos"}
             \/ chaos.next > Len(chaos.events)
      PROVE  Scheduled'
  <2>1. cmd' \in Commands /\ cmd'.spec = cmd.spec /\ cmd'.pc \notin {"idle", "setup"}
    BY <1>1, Moves DEF Scheduled, Running
  <2> QED
    BY <1>1, <2>1, StaysInRun
<1>2. ASSUME UNCHANGED <<cmd, chaos, down, orderly>>
      PROVE  Scheduled'
  BY <1>2 DEF Scheduled, Running, Plan
<1>3. CASE UNCHANGED vars
  BY <1>2, <1>3 DEF vars
<1>4. CASE \E s \in Specs : Ablate(s)
  BY <1>4, AblateStep
<1>5. CASE Setup
  BY <1>5, SetupStep
<1>6. CASE Abort
  <2>1. "failed" \in Results
    BY DEF Results
  <2> QED
    BY <1>6, <2>1, LeavesRun DEF Abort
<1>7. CASE ChaosAct \/ ChaosActFails
  BY <1>7, ActStep DEF ChaosAct, ChaosActFails
<1>8. CASE Produce \/ ProduceFails
  <2>1. /\ cmd.pc = "drive" /\ (cmd' = [cmd EXCEPT !.pc = "chaos"] \/ cmd' = cmd)
        /\ UNCHANGED <<chaos, down, orderly>>
    BY <1>8 DEF Produce, ProduceFails, DriveEnds
  <2>2. Running /\ cmd'.pc \in {"drive", "chaos"}
    BY <2>1, Moves DEF Running, Scheduled
  <2> QED
    BY <1>1, <2>1, <2>2
<1>9. CASE ChaosDone
  <2>1. /\ cmd.pc = "chaos" /\ cmd' = [cmd EXCEPT !.pc = "count"]
        /\ chaos.next > Len(chaos.events) /\ UNCHANGED <<chaos, down, orderly>>
    BY <1>9 DEF ChaosDone
  <2>2. Running
    BY <2>1 DEF Running
  <2> QED
    BY <1>1, <2>1, <2>2
<1>10. CASE ChaosTimesOut
  <2>1. /\ cmd.pc = "chaos" /\ cmd' = [cmd EXCEPT !.pc = "count"] /\ ~orderly'
        /\ chaos' = [chaos EXCEPT !.live = FALSE] /\ UNCHANGED down
    BY <1>10, Zenon DEF ChaosTimesOut
  <2>2. Running
    BY <2>1 DEF Running
  <2>3. cmd' \in Commands /\ cmd'.spec = cmd.spec /\ cmd'.pc = "count" /\ Running' /\ Plan' = Plan
    BY <2>1, Moves DEF Scheduled, Running, Plan
  <2>4. chaos \in Schedules /\ chaos.events = Ordered(Plan) /\ chaos.next \in 1 .. Len(chaos.events) + 1
    BY <2>2 DEF Scheduled
  <2>5. FALSE \in Flag
    BY DEF Flag
  <2>6. chaos' \in Schedules /\ chaos'.events = chaos.events /\ chaos'.next = chaos.next
    BY <2>1, <2>4, <2>5 DEF Schedules
  <2>7. Validate(Plan')
    BY <2>2, <2>3 DEF Scheduled, Running
  <2> QED
    BY <2>1, <2>3, <2>4, <2>6, <2>7 DEF Scheduled
<1>11. CASE Poll \/ Apply \/ CommitOffset \/ CommitFails \/ Rebalance \/ LedgerEnds
  <2>1. UNCHANGED <<cmd, chaos, down, orderly>>
    BY <1>11 DEF Poll, Apply, CommitOffset, CommitFails, Rebalance, LedgerEnds, Consuming
  <2> QED
    BY <1>2, <2>1
<1>12. CASE AppliedCount \/ GroupLag \/ GroupLagSkipped \/ Stall \/ Ceiling \/ CountInbox
  <2>1. /\ cmd.pc \in {"count", "lag", "inbox"} /\ UNCHANGED <<chaos, down, orderly>>
        /\ \E x \in {"count", "lag", "inbox", "postings"} : cmd' = [cmd EXCEPT !.pc = x]
    BY <1>12 DEF AppliedCount, GroupLag, GroupLagSkipped, Stall, Ceiling, CountInbox, Measuring, Verdict
  <2>2. Running /\ cmd.pc \notin {"drive", "chaos"}
    BY <2>1 DEF Running
  <2> QED
    BY <1>1, <2>1, <2>2
<1>13. CASE FinishRun
  BY <1>13, FinishStep
<1>14. CASE RefuseRun
  <2>1. "refused" \in Results
    BY DEF Results
  <2> QED
    BY <1>14, <2>1, LeavesRun DEF RefuseRun
<1> QED
  BY <1>3, <1>4, <1>5, <1>6, <1>7, <1>8, <1>9, <1>10, <1>11, <1>12, <1>13, <1>14 DEF Next

LEMMA ScheduledInit == Init => Scheduled /\ planned \in Nat
<1>1. NoChaos \in Schedules
  BY DEF NoChaos, Schedules, Flag
<1> QED
  BY <1>1, NoCmdFacts DEF Init, Scheduled, Running

LEMMA PlannedStep ==
    ASSUME planned \in Nat, [Next]_vars
    PROVE  planned' \in Nat
<1>1. ASSUME NEW s \in Specs, Ablate(s)
      PROVE  planned' \in Nat
  <2>1. s.runs \in Nat /\ Len(s.configs) \in Nat
    BY SweepAssumption
  <2>2. planned' = planned + Len(s.configs) * s.runs
    BY <1>1 DEF Ablate
  <2>3. \A a, b \in Nat : a * b \in Nat
    OBVIOUS
  <2> QED
    BY <2>1, <2>2, <2>3
<1>2. (~ \E s \in Specs : Ablate(s)) => planned' = planned
  BY DEF Next, vars, Setup, Abort, ChaosAct, ChaosActFails, Act, Produce, ProduceFails, ChaosDone,
         ChaosTimesOut, Poll, Apply, CommitOffset, CommitFails, Rebalance, LedgerEnds, Consuming,
         AppliedCount, GroupLag, GroupLagSkipped, Stall, Ceiling, CountInbox, Measuring,
         FinishRun, RefuseRun
<1> QED
  BY <1>1, <1>2

\* What the schedule says of the brokers.
LEMMA ScheduledMeans == Scheduled => QuorumKept
<1> SUFFICES ASSUME Scheduled, orderly
             PROVE  Cardinality(down) <= 1 /\ (cmd.pc \in {"idle", "setup"} => down = {})
  BY DEF QuorumKept
<1>1. CASE ~Running
  <2>1. down = {}
    BY <1>1 DEF Scheduled
  <2> QED
    BY <2>1, FS_EmptySet
<1>2. CASE Running
  <2>1. /\ chaos \in Schedules /\ chaos.events = Plan /\ down = DownAfter(Plan, chaos.next - 1)
        /\ chaos.next \in 1 .. Len(chaos.events) + 1 /\ cmd.pc # "idle" /\ Validate(Plan)
    BY <1>2 DEF Scheduled, Running
  <2>2. Plan \in Seq(Events)
    BY <2>1 DEF Schedules
  <2>3. Len(Plan) \in Nat
    BY <2>2, ScheduleFacts
  <2>4. chaos.next - 1 \in 0 .. Len(Plan)
    BY <2>1, <2>3
  <2>5. Cardinality(down) <= 1
    BY <2>1, <2>2, <2>4, ValidFacts
  <2> QED
    BY <1>2, <2>5 DEF Running
<1> QED
  BY <1>1, <1>2

\* A sweep whose schedules are listed in the order of their times, whose docker
\* commands succeed and that is not interrupted never takes two brokers down at
\* once and starts every run with all of them, whatever the schedules that
\* Validate accepts, the durations they are scaled to and the load are.
THEOREM QuorumIsKept == Spec => []QuorumKept
<1> DEFINE Inv == Scheduled /\ planned \in Nat
<1>1. Init => Inv
  BY ScheduledInit
<1>2. Inv /\ [Next]_vars => Inv'
  BY ScheduledStep, PlannedStep
<1>3. Inv => QuorumKept
  BY ScheduledMeans
<1> HIDE DEF Inv
<1> QED
  BY <1>1, <1>2, <1>3, PTL DEF Spec

-----------------------------------------------------------------------------
\* Part 3.  The movements of a run.

Records == [sweep : Nat, seq : Nat]
Partition == [log : Seq(Records), committed : Nat]
Consumers == [pc : {"off", "poll", "apply", "commit"}, pos : Nat, moved : Flag]
Readings == [n : Nat, last : Nat, inbox : Nat]

\* How often each movement was applied.
Tally(f) == /\ f \in [DOMAIN f -> Nat \ {0}]
            /\ IsFiniteSet(DOMAIN f)

PostingsOf(f) == SumOfAmounts({[of |-> m, amount |-> f[m]] : m \in DOMAIN f})

\* A partition and its consumer, which began at the offset that was committed when
\* the log had its first base records.  Unless it commits first, what it has
\* committed or passed is applied, except for what was there before.
Delivery(mode, base, log, committed, c, f) ==
    /\ log \in Seq(Records) /\ committed \in 0 .. Len(log) /\ base \in 0 .. Len(log)
    /\ c \in Consumers /\ Tally(f)
    /\ HasInbox(mode) => \A m \in DOMAIN f : f[m] = 1
    /\ \A m \in DOMAIN f : \E i \in 1 .. Len(log) : m = log[i]
    /\ c.pc # "off" => c.pos <= Len(log)
    /\ c.pc \in {"apply", "commit"} => c.pos < Len(log)
    /\ mode # "A" =>
           /\ c.pc # "off" => committed <= c.pos
           /\ \A i \in base + 1 .. Len(log) :
                  \/ i <= committed
                  \/ c.pc # "off" /\ i <= c.pos
                  \/ c.pc = "commit" /\ i = c.pos + 1
                  => log[i] \in DOMAIN f

\* The partitions hold what their own sweeps wrote.
Written ==
    /\ topics \in [DOMAIN topics -> Partition]
    /\ \A t \in DOMAIN topics : /\ topics[t].committed <= Len(topics[t].log)
                                /\ \A i \in 1 .. Len(topics[t].log) : topics[t].log[i].sweep = t[1]

\* An artefact, whatever its labels are.
IsArt(a) == a \in [run : {a.run}, config : {a.config}, params : {a.params}, version : {a.version},
                   sweep : {a.sweep}, sent : Nat, applied : Nat, lost : Nat, dup : Nat,
                   effects : Nat, drained : Flag, exact : Flag, executed : Nat, why : {a.why}]

\* The verdict and the counts that were taken are still true.
Assessed(label, mode, a, d, committed, length, f) ==
    /\ IsArt(a) /\ a.config = mode
    /\ d \in Readings /\ d.n <= PostingsOf(f)
    /\ label # "drive" => a.sent > 0
    /\ label \notin {"inbox", "postings"} => a.why = "none"
    /\ a.why = "lag" /\ mode # "A" => committed = length
    /\ a.why = "count" => d.n >= a.sent
    /\ label = "postings" /\ HasInbox(mode) =>
           /\ a.why \in {"lag", "count"} => d.inbox >= a.sent
           /\ a.why = "lag" => d.inbox = Cardinality(DOMAIN f)

\* A run in progress: what it sent is at the end of its topic.
InProgress(base) ==
    /\ topic \in DOMAIN topics
    /\ Delivery(Mode, base, Movements, Committed, cons, effects)
    /\ \A i \in base + 1 .. Len(Movements) : Movements[i] = Record(i - base)
    /\ base + art.sent <= Len(Movements)
    /\ cmd.pc = "drive" => base + art.sent = Len(Movements)
    /\ Assessed(cmd.pc, Mode, art, drain, Committed, Len(Movements), effects)

\* What the properties say of an artefact.
Good(a) ==
    /\ a.applied \in 0 .. a.sent /\ a.lost \in Nat /\ a.dup \in Nat
    /\ a.why = "lag" /\ a.config # "A" => a.lost = 0
    /\ a.why = "lag" /\ a.config = "C" => a.applied = a.sent /\ a.dup = 0
    /\ a.why = "count" => a.lost = 0
    /\ a.exact => a.applied + a.lost = a.sent

Drained ==
    /\ Written /\ down \subseteq Nat
    /\ ~Running => cons = NoCons /\ effects = <<>>
    /\ Running => \E base \in 0 .. Len(Movements) : InProgress(base)
    /\ \A a \in arts \cup Stored : Good(a)

-----------------------------------------------------------------------------
\* Part 4.  Counting what was applied.

Line(f, m) == [of |-> m, amount |-> f[m]]
Lines(f, T) == {Line(f, m) : m \in T}

LEMMA LinesFacts ==
    ASSUME NEW f, Tally(f), NEW T \in SUBSET DOMAIN f
    PROVE  /\ Credits(Lines(f, T)) /\ Summable(Lines(f, T)) /\ SumOfAmounts(Lines(f, T)) \in Nat
           /\ IsFiniteSet(T) /\ Cardinality(T) \in Nat
<1>1. IsFiniteSet(T) /\ Cardinality(T) \in Nat
  BY FS_Subset, FS_CardinalityType DEF Tally
<1>2. IsFiniteSet(Lines(f, T))
  <2> DEFINE h == [m \in T |-> Line(f, m)]
  <2>1. h \in Surjection(T, Lines(f, T))
    BY DEF Surjection, Lines
  <2> HIDE DEF h
  <2> QED
    BY <1>1, <2>1, FS_Surjection
<1>3. \A r \in Lines(f, T) : r.amount \in Nat
  BY DEF Lines, Line, Tally
<1>4. Credits(Lines(f, T))
  BY <1>2, <1>3 DEF Credits
<1> QED
  BY <1>1, <1>4, CreditsType

\* The lines of a set and one more.
LEMMA LinesAdd ==
    ASSUME NEW f, Tally(f), NEW T \in SUBSET DOMAIN f, NEW m \in DOMAIN f, m \notin T
    PROVE  SumOfAmounts(Lines(f, T \cup {m})) = SumOfAmounts(Lines(f, T)) + f[m]
<1>1. Lines(f, T \cup {m}) = Lines(f, T) \cup {Line(f, m)}
  BY DEF Lines
<1>2. Line(f, m) \notin Lines(f, T) /\ Line(f, m).amount = f[m] /\ f[m] \in Int
  <2>1. \A x : Line(f, x).of = x /\ Line(f, x).amount = f[x]
    BY DEF Line
  <2>2. f[m] \in Int
    BY DEF Tally
  <2> QED
    BY <2>1, <2>2 DEF Lines
<1>3. Summable(Lines(f, T))
  BY LinesFacts
<1>4. SumOfAmounts(Lines(f, T) \cup {Line(f, m)}) = SumOfAmounts(Lines(f, T)) + Line(f, m).amount
  BY <1>2, <1>3, SumAdd
<1> QED
  BY <1>1, <1>2, <1>4

LEMMA PostingsAreLines ==
    ASSUME NEW f
    PROVE  PostingsOf(f) = SumOfAmounts(Lines(f, DOMAIN f))
<1>1. {[of |-> m, amount |-> f[m]] : m \in DOMAIN f} = Lines(f, DOMAIN f)
  BY DEF Lines, Line
<1> QED
  BY <1>1 DEF PostingsOf

\* There are as many postings as movements that were applied, or more.
LEMMA PostingsCover ==
    ASSUME NEW f, Tally(f)
    PROVE  /\ PostingsOf(f) \in Nat /\ Cardinality(DOMAIN f) \in Nat
           /\ Cardinality(DOMAIN f) <= PostingsOf(f)
           /\ (\A m \in DOMAIN f : f[m] = 1) => PostingsOf(f) = Cardinality(DOMAIN f)
<1> DEFINE Sum(T) == SumOfAmounts(Lines(f, T))
           Once == \A m \in DOMAIN f : f[m] = 1
           Fine(T) == Cardinality(T) <= Sum(T) /\ (Once => Sum(T) = Cardinality(T))
           Bad == {k \in Nat : \E T \in SUBSET DOMAIN f : Cardinality(T) = k /\ ~Fine(T)}
<1>1. \A T \in SUBSET DOMAIN f : Sum(T) \in Nat /\ IsFiniteSet(T) /\ Cardinality(T) \in Nat
  BY LinesFacts
<1>2. Sum({}) = 0 /\ Cardinality({}) = 0
  <2>1. Lines(f, {}) = {}
    BY DEF Lines
  <2>2. SumOfAmounts({}) = 0
    BY FS_EmptySet, SumUnfolds
  <2> QED
    BY <2>1, <2>2, FS_EmptySet
<1>3. \A m \in DOMAIN f : f[m] \in Nat /\ f[m] >= 1
  BY DEF Tally
<1>4. \A T \in SUBSET DOMAIN f : \A m \in DOMAIN f : m \notin T => Sum(T \cup {m}) = Sum(T) + f[m]
  BY LinesAdd
<1> HIDE DEF Sum
<1>5. ASSUME NEW k \in Bad, \A j \in Bad : k <= j
      PROVE  FALSE
  <2>1. PICK T \in SUBSET DOMAIN f : Cardinality(T) = k /\ ~Fine(T)
    OBVIOUS
  <2>2. T # {}
    BY <1>2, <2>1
  <2>3. PICK m \in T : TRUE
    BY <2>2
  <2> DEFINE U == T \ {m}
  <2>4. /\ U \in SUBSET DOMAIN f /\ m \in DOMAIN f /\ m \notin U /\ T = U \cup {m}
        /\ Cardinality(U) = k - 1 /\ k - 1 \in Nat
    BY <1>1, <2>1, <2>3, FS_RemoveElement
  <2> HIDE DEF U
  <2>5. k \in Nat /\ k - 1 \notin Bad
    <3>1. k \in Nat
      OBVIOUS
    <3> HIDE DEF Bad
    <3> QED
      BY <1>5, <2>4, <3>1
  <2>6. Fine(U)
    <3> HIDE DEF Fine
    <3> QED
      BY <2>4, <2>5
  <2>7. Sum(T) = Sum(U) + f[m]
    BY <1>4, <2>4
  <2>8. Fine(T)
    BY <1>1, <1>3, <2>1, <2>4, <2>5, <2>6, <2>7
  <2> QED
    BY <2>1, <2>8
<1>6. Bad = {}
  <2> HIDE DEF Fine
  <2>1. Bad \subseteq Nat
    OBVIOUS
  <2> HIDE DEF Bad
  <2> QED
    BY <1>5, <2>1, LeastNatural
<1>7. Fine(DOMAIN f)
  <2> HIDE DEF Fine
  <2> QED
    BY <1>1, <1>6
<1>8. Sum(DOMAIN f) = PostingsOf(f)
  BY PostingsAreLines DEF Sum
<1> QED
  BY <1>1, <1>7, <1>8

\* One more application of a movement.
Times(f, m) == IF m \in DOMAIN f THEN f[m] ELSE 0
Again(f, m) == Put(f, m, Times(f, m) + 1)

LEMMA PostingsGrow ==
    ASSUME NEW f, Tally(f), NEW m
    PROVE  /\ Times(f, m) \in Nat /\ Tally(Again(f, m)) /\ DOMAIN Again(f, m) = DOMAIN f \cup {m}
           /\ Again(f, m)[m] = Times(f, m) + 1
           /\ \A x \in DOMAIN f : x # m => Again(f, m)[x] = f[x]
           /\ PostingsOf(f) <= PostingsOf(Again(f, m))
<1> DEFINE n == Times(f, m)
           g == Again(f, m)
           D == DOMAIN f \ {m}
<1>1. n \in Nat /\ (m \in DOMAIN f => n = f[m]) /\ (m \notin DOMAIN f => n = 0)
  BY DEF Tally, Times
<1> HIDE DEF n
<1>2. /\ DOMAIN g = DOMAIN f \cup {m} /\ g[m] = n + 1 /\ \A x \in DOMAIN f : x # m => g[x] = f[x]
      /\ g = [x \in DOMAIN g |-> g[x]]
  BY DEF Put, Again, n
<1> HIDE DEF g
<1>3. Tally(g)
  <2>1. IsFiniteSet(DOMAIN g)
    BY <1>2, FS_AddElement DEF Tally
  <2>2. \A x \in DOMAIN g : g[x] \in Nat \ {0}
    BY <1>1, <1>2 DEF Tally
  <2> QED
    BY <1>2, <2>1, <2>2 DEF Tally
<1>4. Lines(f, D) = Lines(g, D)
  BY <1>2 DEF Lines, Line
<1>5. D \in SUBSET DOMAIN f /\ D \in SUBSET DOMAIN g /\ m \notin D /\ m \in DOMAIN g /\ DOMAIN g = D \cup {m}
  BY <1>2
<1> HIDE DEF D
<1>6. SumOfAmounts(Lines(f, D)) \in Nat
  BY <1>5, LinesFacts
<1>7. PostingsOf(g) = SumOfAmounts(Lines(f, D)) + (n + 1)
  <2>1. SumOfAmounts(Lines(g, D \cup {m})) = SumOfAmounts(Lines(g, D)) + g[m]
    BY <1>3, <1>5, LinesAdd
  <2> QED
    BY <1>2, <1>4, <1>5, <2>1, PostingsAreLines
<1>8. PostingsOf(f) = SumOfAmounts(Lines(f, D)) + n
  <2>1. CASE m \in DOMAIN f
    <3>1. DOMAIN f = D \cup {m} /\ n = f[m]
      BY <1>1, <2>1 DEF D
    <3>2. SumOfAmounts(Lines(f, D \cup {m})) = SumOfAmounts(Lines(f, D)) + f[m]
      BY <1>5, <2>1, LinesAdd
    <3> QED
      BY <3>1, <3>2, PostingsAreLines
  <2>2. CASE m \notin DOMAIN f
    <3>1. DOMAIN f = D /\ n = 0
      BY <1>1, <2>2 DEF D
    <3> QED
      BY <1>6, <3>1, PostingsAreLines
  <2> QED
    BY <2>1, <2>2
<1> QED
  BY <1>1, <1>2, <1>3, <1>6, <1>7, <1>8 DEF g, n

-----------------------------------------------------------------------------
\* Part 5.  The steps of the consumer.

\* Records that are appended leave the ones before as they are.
LEMMA DeliveryWritten ==
    ASSUME NEW mode, NEW base, NEW log, NEW committed, NEW c, NEW f,
           Delivery(mode, base, log, committed, c, f),
           NEW longer \in Seq(Records), Len(log) <= Len(longer),
           \A i \in 1 .. Len(log) : longer[i] = log[i]
    PROVE  Delivery(mode, base, longer, committed, c, f)
<1>1. /\ Len(log) \in Nat /\ Len(longer) \in Nat /\ c.pos \in Nat /\ committed \in Nat /\ base \in Nat
      /\ committed <= Len(log) /\ base <= Len(log)
  BY DEF Delivery, Consumers
<1>2. \A m \in DOMAIN f : \E i \in 1 .. Len(longer) : m = longer[i]
  BY <1>1 DEF Delivery
<1>3. ASSUME mode # "A", NEW i \in base + 1 .. Len(longer),
             \/ i <= committed
             \/ c.pc # "off" /\ i <= c.pos
             \/ c.pc = "commit" /\ i = c.pos + 1
      PROVE  longer[i] \in DOMAIN f
  <2>1. i <= Len(log)
    BY <1>1, <1>3 DEF Delivery
  <2>2. i \in base + 1 .. Len(log) /\ i \in 1 .. Len(log)
    BY <1>1, <2>1
  <2>3. log[i] \in DOMAIN f
    BY <1>3, <2>2 DEF Delivery
  <2> QED
    BY <2>2, <2>3
<1>4. /\ c.pc # "off" => c.pos <= Len(longer)
      /\ c.pc \in {"apply", "commit"} => c.pos < Len(longer)
      /\ committed \in 0 .. Len(longer) /\ base \in 0 .. Len(longer)
  BY <1>1 DEF Delivery
<1> QED
  BY <1>2, <1>3, <1>4 DEF Delivery

\* The consumer goes on with what is in hand, or back to its offset, or ends.
LEMMA DeliveryMoves ==
    ASSUME NEW mode, NEW base, NEW log, NEW committed, NEW c, NEW f,
           Delivery(mode, base, log, committed, c, f), NEW d \in Consumers,
           \/ d.pc = "off"
           \/ d.pc = c.pc /\ d.pos = c.pos
           \/ /\ c.pc = "poll" /\ c.pos < Len(log) /\ d.pos = c.pos
              /\ d.pc = IF mode = "A" THEN "commit" ELSE "apply"
           \/ c.pc = "poll" /\ d.pc = "poll" /\ d.pos = committed
           \/ c.pc = "commit" /\ d.pc = "poll" /\ d.pos = c.pos + 1
    PROVE  Delivery(mode, base, log, committed, d, f)
<1>1. /\ Len(log) \in Nat /\ c.pos \in Nat /\ committed \in Nat /\ base \in Nat
      /\ committed <= Len(log) /\ base <= Len(log)
  BY DEF Delivery, Consumers
<1>2. /\ d.pc # "off" => d.pos <= Len(log)
      /\ d.pc \in {"apply", "commit"} => d.pos < Len(log)
      /\ mode # "A" /\ d.pc # "off" => committed <= d.pos
  BY <1>1 DEF Delivery
<1>3. ASSUME mode # "A", NEW i \in base + 1 .. Len(log),
             \/ i <= committed
             \/ d.pc # "off" /\ i <= d.pos
             \/ d.pc = "commit" /\ i = d.pos + 1
      PROVE  log[i] \in DOMAIN f
  <2>1. \/ i <= committed
        \/ c.pc # "off" /\ i <= c.pos
        \/ c.pc = "commit" /\ i = c.pos + 1
    BY <1>1, <1>3
  <2> QED
    BY <1>3, <2>1 DEF Delivery
<1> QED
  BY <1>2, <1>3 DEF Delivery

\* A commit that succeeded.
LEMMA DeliveryCommits ==
    ASSUME NEW mode, NEW base, NEW log, NEW committed, NEW c, NEW f,
           Delivery(mode, base, log, committed, c, f), NEW d \in Consumers, c.pc = "commit",
           IF mode = "A" THEN d.pc = "apply" /\ d.pos = c.pos ELSE d.pc = "poll" /\ d.pos = c.pos + 1
    PROVE  Delivery(mode, base, log, c.pos + 1, d, f)
<1>1. /\ Len(log) \in Nat /\ c.pos \in Nat /\ committed \in Nat /\ base \in Nat
      /\ base <= Len(log) /\ c.pos < Len(log)
  BY DEF Delivery, Consumers
<1>2. ASSUME mode # "A", NEW i \in base + 1 .. Len(log), i <= c.pos + 1
      PROVE  log[i] \in DOMAIN f
  <2>1. i \in Int /\ (i <= c.pos \/ i = c.pos + 1)
    BY <1>1, <1>2
  <2>2. \A k \in base + 1 .. Len(log) : k <= c.pos \/ k = c.pos + 1 => log[k] \in DOMAIN f
    BY <1>2 DEF Delivery
  <2> QED
    BY <1>2, <2>1, <2>2
<1>3. /\ d.pc # "off" => d.pos <= Len(log)
      /\ d.pc \in {"apply", "commit"} => d.pos < Len(log)
      /\ mode # "A" => c.pos + 1 <= d.pos
      /\ c.pos + 1 \in 0 .. Len(log)
  BY <1>1
<1>4. ASSUME mode # "A", NEW i \in base + 1 .. Len(log),
             \/ i <= c.pos + 1
             \/ d.pc # "off" /\ i <= d.pos
             \/ d.pc = "commit" /\ i = d.pos + 1
      PROVE  log[i] \in DOMAIN f
  BY <1>1, <1>2, <1>4
<1> QED
  BY <1>3, <1>4 DEF Delivery

\* A record is applied, unless the inbox has it.
Booking(mode, f, m) == IF HasInbox(mode) /\ Times(f, m) > 0 THEN f ELSE Again(f, m)

LEMMA DeliveryApplies ==
    ASSUME NEW mode, NEW base, NEW log, NEW committed, NEW c, NEW f,
           Delivery(mode, base, log, committed, c, f), NEW d \in Consumers, c.pc = "apply",
           IF mode = "A" THEN d.pc = "poll" /\ d.pos = c.pos + 1 ELSE d.pc = "commit" /\ d.pos = c.pos,
           NEW m, m = log[c.pos + 1]
    PROVE  /\ Delivery(mode, base, log, committed, d, Booking(mode, f, m))
           /\ PostingsOf(f) <= PostingsOf(Booking(mode, f, m))
<1> DEFINE n == Times(f, m)
           g == Booking(mode, f, m)
<1>0. g = (IF HasInbox(mode) /\ n > 0 THEN f ELSE Again(f, m))
  BY DEF Booking
<1> HIDE DEF g
<1>1. /\ Len(log) \in Nat /\ c.pos \in Nat /\ committed \in Nat /\ base \in Nat
      /\ base <= Len(log) /\ c.pos < Len(log) /\ Tally(f) /\ c.pos + 1 \in 1 .. Len(log)
  BY DEF Delivery, Consumers
<1>2. /\ n \in Nat /\ Tally(Again(f, m)) /\ DOMAIN Again(f, m) = DOMAIN f \cup {m}
      /\ Again(f, m)[m] = n + 1
      /\ \A x \in DOMAIN f : x # m => Again(f, m)[x] = f[x]
      /\ PostingsOf(f) <= PostingsOf(Again(f, m))
  BY <1>1, PostingsGrow
<1>3. n > 0 => m \in DOMAIN f
  BY DEF Times
<1> HIDE DEF n
<1>4. Tally(g) /\ DOMAIN g = DOMAIN f \cup {m}
  BY <1>0, <1>1, <1>2, <1>3
<1>5. PostingsOf(f) \in Nat
  BY <1>1, PostingsCover
<1>6. PostingsOf(f) <= PostingsOf(g)
  <2>1. g = f \/ g = Again(f, m)
    BY <1>0
  <2> QED
    BY <1>2, <1>5, <2>1
<1>7. ASSUME HasInbox(mode), NEW x \in DOMAIN g
      PROVE  g[x] = 1
  <2>1. \A y \in DOMAIN f : f[y] = 1
    BY <1>7 DEF Delivery
  <2>2. CASE n > 0
    BY <1>0, <1>3, <1>4, <1>7, <2>1, <2>2
  <2>3. CASE ~(n > 0)
    <3>1. n = 0 /\ g = Again(f, m)
      BY <1>0, <1>2, <2>3
    <3> QED
      BY <1>2, <1>4, <1>7, <2>1, <3>1
  <2> QED
    BY <2>2, <2>3
<1>8. \A x \in DOMAIN g : \E i \in 1 .. Len(log) : x = log[i]
  BY <1>1, <1>4 DEF Delivery
<1>9. /\ d.pc # "off" => d.pos <= Len(log)
      /\ d.pc \in {"apply", "commit"} => d.pos < Len(log)
      /\ mode # "A" => committed <= d.pos
  BY <1>1 DEF Delivery
<1>10. ASSUME mode # "A", NEW i \in base + 1 .. Len(log),
              \/ i <= committed
              \/ d.pc # "off" /\ i <= d.pos
              \/ d.pc = "commit" /\ i = d.pos + 1
       PROVE  log[i] \in DOMAIN g
  <2>1. i <= committed \/ (c.pc # "off" /\ i <= c.pos) \/ i = c.pos + 1
    BY <1>1, <1>10
  <2>2. log[i] \in DOMAIN f \/ log[i] = m
    BY <1>10, <2>1 DEF Delivery
  <2> QED
    BY <1>4, <2>2
<1>11. log \in Seq(Records) /\ committed \in 0 .. Len(log) /\ base \in 0 .. Len(log)
  BY DEF Delivery
<1>12. Delivery(mode, base, log, committed, d, g)
  BY <1>4, <1>7, <1>8, <1>9, <1>10, <1>11 DEF Delivery
<1> QED
  BY <1>6, <1>12 DEF g

\* A consumer that has committed everything has nothing in hand, and has applied
\* all that was written since it began.
LEMMA DeliveryDone ==
    ASSUME NEW mode, mode # "A", NEW base, NEW log, NEW committed, NEW c, NEW f,
           Delivery(mode, base, log, committed, c, f), committed = Len(log)
    PROVE  /\ c.pc \in {"off", "poll"} /\ (c.pc = "poll" => c.pos = Len(log))
           /\ \A i \in base + 1 .. Len(log) : log[i] \in DOMAIN f
<1>1. Len(log) \in Nat /\ c.pos \in Nat /\ c.pc \in {"off", "poll", "apply", "commit"}
  BY DEF Delivery, Consumers
<1>2. c.pc # "off" => c.pos = Len(log)
  BY <1>1 DEF Delivery
<1>3. c.pc \notin {"apply", "commit"}
  BY <1>1, <1>2 DEF Delivery
<1>4. \A i \in base + 1 .. Len(log) : log[i] \in DOMAIN f
  BY <1>1 DEF Delivery
<1> QED
  BY <1>1, <1>2, <1>3, <1>4

-----------------------------------------------------------------------------
\* Part 6.  The steps of a run.

LEMMA PostingsAreTallied == Postings = PostingsOf(effects) /\ Postings' = PostingsOf(effects')
<1>1. \A f : Count(f) = PostingsOf(f)
  BY DEF Count, PostingsOf, SumOfAmounts
<1>2. Postings = Count(effects) /\ Postings' = Count(effects')
  BY DEF Postings
<1> QED
  BY <1>1, <1>2

\* A partition is replaced by one that is as sound.
LEMMA PartitionStep ==
    ASSUME Written, topic \in DOMAIN topics, topic' = topic, topic[1] = cmd.sweep,
           NEW p \in Partition, topics' = [topics EXCEPT ![topic] = p],
           p.committed <= Len(p.log), \A i \in 1 .. Len(p.log) : p.log[i].sweep = cmd.sweep
    PROVE  /\ Written' /\ topic' \in DOMAIN topics' /\ Movements' = p.log /\ Committed' = p.committed
<1> DEFINE t == topic
<1>1. t \in DOMAIN topics /\ topics' = [topics EXCEPT ![t] = p] /\ topics \in [DOMAIN topics -> Partition]
  BY DEF Written
<1> HIDE DEF t
<1>2. /\ DOMAIN topics' = DOMAIN topics /\ topics'[t] = p
      /\ \A u \in DOMAIN topics : u # t => topics'[u] = topics[u]
      /\ topics' \in [DOMAIN topics' -> Partition]
  BY <1>1
<1>3. ASSUME NEW u \in DOMAIN topics'
      PROVE  /\ topics'[u].committed <= Len(topics'[u].log)
             /\ \A i \in 1 .. Len(topics'[u].log) : topics'[u].log[i].sweep = u[1]
  <2>1. CASE u = t
    BY <1>2, <2>1 DEF t
  <2>2. CASE u # t
    BY <1>2, <2>2 DEF Written
  <2> QED
    BY <2>1, <2>2
<1>4. Movements' = topics'[t].log /\ Committed' = topics'[t].committed
  BY DEF Movements, Committed, t
<1> QED
  BY <1>1, <1>2, <1>3, <1>4 DEF Written, t

\* The partition of the run.
LEMMA OwnPartition ==
    ASSUME Written, topic \in DOMAIN topics
    PROVE  /\ topics[topic] \in Partition /\ Movements = topics[topic].log
           /\ Committed = topics[topic].committed /\ topic[1] = cmd.sweep
           /\ Movements \in Seq(Records) /\ Committed \in Nat /\ Len(Movements) \in Nat
           /\ Committed <= Len(Movements)
           /\ \A i \in 1 .. Len(Movements) : Movements[i].sweep = cmd.sweep
<1>1. topics[topic] \in Partition /\ Movements = topics[topic].log /\ Committed = topics[topic].committed
  BY DEF Written, Movements, Committed
<1>2. topic[1] = cmd.sweep
  BY DEF topic
<1>3. Movements \in Seq(Records) /\ Committed \in Nat
  BY <1>1 DEF Partition
<1> QED
  BY <1>1, <1>2, <1>3 DEF Written

Committing(k) == [topics EXCEPT ![topic].committed = k]

\* The run's own part of the state moves: its consumer, its tally, its offset.
LEMMA ConsumerKeeps ==
    ASSUME Drained, Running, cmd \in Commands, UNCHANGED <<cmd, art, drain, arts, dir>>, down' \subseteq Nat,
           NEW base \in 0 .. Len(Movements), InProgress(base),
           NEW k \in Nat, (topics' = topics /\ k = Committed) \/ topics' = Committing(k),
           Delivery(Mode, base, Movements, k, cons', effects'),
           PostingsOf(effects) <= PostingsOf(effects'),
           art.why = "lag" /\ Mode # "A" => k = Len(Movements) /\ effects' = effects
    PROVE  Drained'
<1>1. topic' = topic /\ Mode' = Mode /\ Running' /\ Stored' = Stored
  BY DEF topic, runID, Mode, Running, Stored
<1>2. Written /\ topic \in DOMAIN topics
  BY DEF Drained, InProgress
<1>3. k <= Len(Movements)
  BY DEF Delivery
<1>4. Written' /\ topic' \in DOMAIN topics' /\ Movements' = Movements /\ Committed' = k
  <2>1. CASE topics' = topics /\ k = Committed
    BY <1>1, <1>2, <2>1 DEF Written, Movements, Committed
  <2>2. CASE topics' = Committing(k)
    <3> DEFINE p == [topics[topic] EXCEPT !.committed = k]
    <3>1. /\ topics[topic] \in Partition /\ Movements = topics[topic].log /\ topic[1] = cmd.sweep
          /\ \A i \in 1 .. Len(Movements) : Movements[i].sweep = cmd.sweep
      BY <1>2, OwnPartition
    <3>2. p \in Partition /\ p.log = Movements /\ p.committed = k
      BY <3>1 DEF Partition
    <3>3. topics' = [topics EXCEPT ![topic] = p]
      BY <2>2 DEF Committing
    <3> HIDE DEF p
    <3> QED
      BY <1>1, <1>2, <1>3, <3>1, <3>2, <3>3, PartitionStep
  <2> QED
    BY <2>1, <2>2
<1>5. Postings \in Nat /\ Postings' \in Nat /\ Postings <= Postings'
  <2>1. Tally(effects) /\ Tally(effects')
    BY DEF InProgress, Delivery
  <2> QED
    BY <2>1, PostingsCover, PostingsAreTallied
<1>6. drain.n \in Nat /\ drain.n <= Postings
  BY PostingsAreTallied DEF InProgress, Assessed, Readings
<1>7. InProgress(base)'
  <2>1. Delivery(Mode, base, Movements, Committed, cons, effects)'
    BY <1>1, <1>4
  <2>3. (\A i \in base + 1 .. Len(Movements) : Movements[i] = Record(i - base))'
    BY <1>4 DEF InProgress, Record
  <2>4. Assessed(cmd.pc, Mode, art, drain, k, Len(Movements), effects')
    <3>1. Assessed(cmd.pc, Mode, art, drain, Committed, Len(Movements), effects)
      BY DEF InProgress
    <3>2. drain.n <= PostingsOf(effects')
      BY <1>5, <1>6, PostingsAreTallied
    <3>3. HasInbox(Mode) => Mode # "A"
      BY DEF HasInbox
    <3> QED
      BY <3>1, <3>2, <3>3 DEF Assessed
  <2>5. base + art.sent <= Len(Movements) /\ (cmd.pc = "drive" => base + art.sent = Len(Movements))
    BY DEF InProgress
  <2> QED
    BY <1>1, <1>4, <2>1, <2>3, <2>4, <2>5 DEF InProgress
<1>8. base \in 0 .. Len(Movements')
  BY <1>4
<1> QED
  BY <1>1, <1>4, <1>7, <1>8 DEF Drained

\* The consumer's own steps, and a kill that takes its coordinator away.
LEMMA ConsumerSteps ==
    ASSUME Drained, Running, cmd \in Commands,
           Poll \/ Apply \/ CommitOffset \/ CommitFails \/ Rebalance \/ LedgerEnds
    PROVE  Drained'
<1>1. PICK base \in 0 .. Len(Movements) : InProgress(base)
  BY DEF Drained
<1>2. /\ Delivery(Mode, base, Movements, Committed, cons, effects)
      /\ art.why = "lag" /\ Mode # "A" => Committed = Len(Movements)
  BY <1>1 DEF InProgress, Assessed
<1>3. /\ cons \in Consumers /\ cons.pos \in Nat /\ Committed \in Nat /\ Tally(effects)
      /\ cons.pos + 1 \in Nat /\ Len(Movements) \in Nat
  BY <1>2 DEF Delivery, Consumers
<1>4. PostingsOf(effects) \in Nat
  BY <1>3, PostingsCover
<1>5. UNCHANGED <<cmd, art, drain, arts, dir>> /\ down' \subseteq Nat
  BY DEF Poll, Apply, CommitOffset, CommitFails, Rebalance, LedgerEnds, Consuming, Drained
<1>6. art.why = "lag" /\ Mode # "A" => cons.pc \in {"off", "poll"} /\ (cons.pc = "poll" => cons.pos = Len(Movements))
  BY <1>2, DeliveryDone
<1>7. ASSUME NEW d \in Consumers, cons' = d, UNCHANGED <<topics, effects>>,
             Delivery(Mode, base, Movements, Committed, d, effects)
      PROVE  Drained'
  BY <1>1, <1>2, <1>3, <1>4, <1>5, <1>7, ConsumerKeeps
<1>8. CASE Poll
  <2>1. /\ cons.pc = "poll" /\ cons.pos < Len(Movements) /\ UNCHANGED <<topics, effects>>
        /\ cons' = [cons EXCEPT !.pc = IF Mode = "A" THEN "commit" ELSE "apply"]
    BY <1>8 DEF Poll
  <2>2. cons' \in Consumers /\ cons'.pos = cons.pos /\ cons'.pc = IF Mode = "A" THEN "commit" ELSE "apply"
    BY <1>3, <2>1 DEF Consumers
  <2>3. Delivery(Mode, base, Movements, Committed, cons', effects)
    BY <1>2, <2>1, <2>2, DeliveryMoves
  <2> QED
    BY <1>7, <2>1, <2>2, <2>3
<1>9. CASE CommitFails
  <2>1. /\ cons.pc = "commit" /\ UNCHANGED <<topics, effects>>
        /\ cons' = [cons EXCEPT !.pc = "poll", !.pos = cons.pos + 1]
    BY <1>9 DEF CommitFails, Advance
  <2>2. cons' \in Consumers /\ cons'.pos = cons.pos + 1 /\ cons'.pc = "poll"
    BY <1>3, <2>1 DEF Consumers
  <2>3. Delivery(Mode, base, Movements, Committed, cons', effects)
    BY <1>2, <2>1, <2>2, DeliveryMoves
  <2> QED
    BY <1>7, <2>1, <2>2, <2>3
<1>10. CASE Rebalance
  <2>1. /\ cons.pc = "poll" /\ UNCHANGED <<topics, effects>>
        /\ cons' = [cons EXCEPT !.pos = Committed, !.moved = FALSE]
    BY <1>10 DEF Rebalance
  <2>2. cons' \in Consumers /\ cons'.pos = Committed /\ cons'.pc = "poll"
    <3>1. FALSE \in Flag
      BY DEF Flag
    <3> QED
      BY <1>3, <2>1, <3>1 DEF Consumers
  <2>3. Delivery(Mode, base, Movements, Committed, cons', effects)
    BY <1>2, <2>1, <2>2, DeliveryMoves
  <2> QED
    BY <1>7, <2>1, <2>2, <2>3
<1>11. CASE LedgerEnds
  <2>1. cons' = NoCons /\ UNCHANGED <<topics, effects>>
    BY <1>11 DEF LedgerEnds
  <2>2. cons' \in Consumers /\ cons'.pc = "off"
    BY <2>1 DEF Consumers, NoCons, Flag
  <2>3. Delivery(Mode, base, Movements, Committed, cons', effects)
    BY <1>2, <2>2, DeliveryMoves
  <2> QED
    BY <1>7, <2>1, <2>2, <2>3
<1>12. CASE CommitOffset
  <2>1. /\ cons.pc = "commit" /\ effects' = effects
        /\ topics' = Committing(cons.pos + 1)
        /\ cons' = IF Mode = "A" THEN [cons EXCEPT !.pc = "apply"]
                   ELSE [cons EXCEPT !.pc = "poll", !.pos = cons.pos + 1]
    BY <1>12 DEF CommitOffset, Commit, Advance, Committing
  <2>2. /\ cons' \in Consumers
        /\ IF Mode = "A" THEN cons'.pc = "apply" /\ cons'.pos = cons.pos
                         ELSE cons'.pc = "poll" /\ cons'.pos = cons.pos + 1
    <3>1. CASE Mode = "A"
      BY <1>3, <2>1, <3>1 DEF Consumers
    <3>2. CASE Mode # "A"
      BY <1>3, <2>1, <3>2 DEF Consumers
    <3> QED
      BY <3>1, <3>2
  <2>3. Delivery(Mode, base, Movements, cons.pos + 1, cons', effects')
    BY <1>2, <2>1, <2>2, DeliveryCommits
  <2>4. art.why = "lag" /\ Mode # "A" => FALSE
    BY <1>6, <2>1
  <2> QED
    BY <1>1, <1>3, <1>4, <1>5, <2>1, <2>3, <2>4, ConsumerKeeps
<1>13. CASE Apply
  <2> DEFINE m == Movements[cons.pos + 1]
  <2>1. /\ cons.pc = "apply" /\ topics' = topics
        /\ effects' = Booking(Mode, effects, m)
        /\ cons' = IF Mode = "A" THEN [cons EXCEPT !.pc = "poll", !.pos = cons.pos + 1]
                   ELSE [cons EXCEPT !.pc = "commit"]
    BY <1>13 DEF Apply, Advance, Booking, Again, Times
  <2>2. /\ cons' \in Consumers
        /\ IF Mode = "A" THEN cons'.pc = "poll" /\ cons'.pos = cons.pos + 1
                         ELSE cons'.pc = "commit" /\ cons'.pos = cons.pos
    <3>1. CASE Mode = "A"
      BY <1>3, <2>1, <3>1 DEF Consumers
    <3>2. CASE Mode # "A"
      BY <1>3, <2>1, <3>2 DEF Consumers
    <3> QED
      BY <3>1, <3>2
  <2>3. /\ Delivery(Mode, base, Movements, Committed, cons', effects')
        /\ PostingsOf(effects) <= PostingsOf(effects')
    <3>1. m = Movements[cons.pos + 1]
      OBVIOUS
    <3> HIDE DEF m
    <3> QED
      BY <1>2, <2>1, <2>2, <3>1, DeliveryApplies
  <2>4. art.why = "lag" /\ Mode # "A" => FALSE
    BY <1>6, <2>1
  <2> QED
    BY <1>1, <1>3, <1>5, <2>1, <2>3, <2>4, ConsumerKeeps
<1> QED
  BY <1>8, <1>9, <1>10, <1>11, <1>12, <1>13

\* The chaos goroutine acts.
LEMMA ActKeeps ==
    ASSUME Drained, Scheduled, NEW failed \in BOOLEAN, Act(failed)
    PROVE  Drained'
<1> DEFINE e == chaos.events[chaos.next]
<1>1. /\ chaos.next <= Len(chaos.events) /\ UNCHANGED <<cmd, art, arts, dir, topics, effects, drain>>
      /\ down' = down \/ down' = down \cup {e.broker} \/ down' = down \ {e.broker}
      /\ cons' = cons \/ cons' = [cons EXCEPT !.moved = TRUE]
  BY DEF Act, Kill, Restart
<1>2. Running
  <2>1. NoChaos.next = 1 /\ NoChaos.events = <<>> /\ Len(<<>>) = 0
    BY DEF NoChaos
  <2> QED
    BY <1>1, <2>1 DEF Scheduled
<1>3. down' \subseteq Nat
  <2>1. chaos.events \in Seq(Events) /\ chaos.next \in 1 .. Len(chaos.events) + 1
    BY <1>2 DEF Scheduled, Schedules
  <2>2. Len(chaos.events) \in Nat /\ DOMAIN chaos.events = 1 .. Len(chaos.events)
    BY <2>1, ScheduleFacts
  <2>3. chaos.next \in DOMAIN chaos.events
    BY <1>1, <2>1, <2>2
  <2>4. e.broker \in Nat
    BY <2>1, <2>3, ScheduleFacts
  <2> QED
    BY <1>1, <2>4 DEF Drained
<1>4. PICK base \in 0 .. Len(Movements) : InProgress(base)
  BY <1>2 DEF Drained
<1>5. Delivery(Mode, base, Movements, Committed, cons, effects)
  BY <1>4 DEF InProgress
<1>6. cons \in Consumers /\ Committed \in Nat /\ Tally(effects)
  BY <1>5 DEF Delivery
<1>7. cons' \in Consumers /\ cons'.pc = cons.pc /\ cons'.pos = cons.pos
  <2>1. TRUE \in Flag
    BY DEF Flag
  <2>2. CASE cons' = cons
    BY <1>6, <2>2
  <2>3. CASE cons' = [cons EXCEPT !.moved = TRUE]
    BY <1>6, <2>1, <2>3 DEF Consumers
  <2> QED
    BY <1>1, <2>2, <2>3
<1>8. Delivery(Mode, base, Movements, Committed, cons', effects')
  BY <1>1, <1>5, <1>7, DeliveryMoves
<1>9. /\ PostingsOf(effects) <= PostingsOf(effects')
      /\ art.why = "lag" /\ Mode # "A" => Committed = Len(Movements) /\ effects' = effects
  <2>1. PostingsOf(effects) \in Nat
    BY <1>6, PostingsCover
  <2> QED
    BY <1>1, <1>4, <2>1 DEF InProgress, Assessed
<1>10. cmd \in Commands /\ UNCHANGED <<cmd, art, drain, arts, dir>>
  BY <1>1 DEF Scheduled
<1> QED
  BY <1>1, <1>2, <1>3, <1>4, <1>6, <1>8, <1>9, <1>10, ConsumerKeeps

\* The command moves on, and may judge.
LEMMA LabelKeeps ==
    ASSUME Drained, cmd \in Commands, NEW x \in Labels \ {"idle", "setup", "drive"},
           cmd' = [cmd EXCEPT !.pc = x], UNCHANGED <<topics, cons, effects, arts, dir, down>>,
           NEW base \in 0 .. Len(Movements), InProgress(base), art'.sent = art.sent,
           Assessed(x, Mode, art', drain', Committed, Len(Movements), effects)
    PROVE  Drained'
<1>1. /\ cmd'.pc = x /\ cmd'.spec = cmd.spec /\ cmd'.sweep = cmd.sweep /\ cmd'.config = cmd.config
      /\ cmd'.i = cmd.i
  BY Moves
<1>2. topic' = topic /\ Mode' = Mode /\ Running' /\ Stored' = Stored
  BY <1>1 DEF topic, runID, Mode, Running, Stored
<1>3. Movements' = Movements /\ Committed' = Committed /\ Written'
  BY <1>2 DEF Movements, Committed, Written, Drained
<1>4. (\A i \in base + 1 .. Len(Movements) : Movements[i] = Record(i - base))'
  BY <1>1, <1>3 DEF InProgress, Record
<1>5. InProgress(base)'
  BY <1>1, <1>2, <1>3, <1>4 DEF InProgress
<1> QED
  BY <1>2, <1>3, <1>5 DEF Drained

\* The wait for the chaos goroutine ends.
LEMMA ChaosEnds ==
    ASSUME Drained, Scheduled, ChaosDone \/ ChaosTimesOut
    PROVE  Drained'
<1>1. /\ cmd.pc = "chaos" /\ cmd' = [cmd EXCEPT !.pc = "count"]
      /\ UNCHANGED <<topics, cons, effects, arts, dir, down, drain>>
      /\ art' = art \/ art' = [art EXCEPT !.executed = Len(chaos.events)]
  BY DEF ChaosDone, ChaosTimesOut
<1>2. Running /\ "count" \in Labels \ {"idle", "setup", "drive"} /\ cmd \in Commands
  BY <1>1 DEF Running, Labels, Scheduled
<1>3. PICK base \in 0 .. Len(Movements) : InProgress(base)
  BY <1>2 DEF Drained
<1>4. Assessed(cmd.pc, Mode, art, drain, Committed, Len(Movements), effects)
  BY <1>3 DEF InProgress
<1>5. IsArt(art') /\ art'.config = art.config /\ art'.sent = art.sent /\ art'.why = art.why
  <2>1. IsArt(art)
    BY <1>4 DEF Assessed
  <2>2. CASE art' = art
    BY <2>1, <2>2 DEF IsArt
  <2>3. CASE art' = [art EXCEPT !.executed = Len(chaos.events)]
    <3>1. Len(chaos.events) \in Nat
      BY ScheduleFacts DEF Scheduled, Schedules
    <3> QED
      BY <2>1, <2>3, <3>1 DEF IsArt
  <2> QED
    BY <1>1, <2>2, <2>3
<1>6. Assessed("count", Mode, art', drain', Committed, Len(Movements), effects)
  BY <1>1, <1>4, <1>5 DEF Assessed
<1> QED
  BY <1>1, <1>2, <1>3, <1>5, <1>6, LabelKeeps

Judged(b, w) == [art EXCEPT !.drained = b, !.why = w]

LEMMA JudgedFacts ==
    ASSUME IsArt(art), NEW b \in Flag, NEW w
    PROVE  /\ IsArt(Judged(b, w)) /\ Judged(b, w).config = art.config
           /\ Judged(b, w).sent = art.sent /\ Judged(b, w).why = w /\ Judged(b, w).drained = b
           /\ Judged(b, w).run = art.run /\ Judged(b, w).sweep = art.sweep
BY DEF IsArt, Judged

\* A consumer that has nothing left has applied what the run sent.
LEMMA SentIsApplied ==
    ASSUME NEW base \in Nat, InProgress(base), Mode # "A", Committed = Len(Movements)
    PROVE  art.sent <= Cardinality(DOMAIN effects)
<1>1. /\ Delivery(Mode, base, Movements, Committed, cons, effects) /\ Tally(effects)
      /\ art.sent \in Nat /\ base + art.sent <= Len(Movements) /\ Len(Movements) \in Nat
      /\ \A i \in base + 1 .. Len(Movements) : Movements[i] = Record(i - base)
  BY DEF InProgress, Delivery, Assessed, IsArt
<1>2. \A i \in base + 1 .. Len(Movements) : Movements[i] \in DOMAIN effects
  BY <1>1, DeliveryDone
<1> DEFINE h == [k \in 1 .. art.sent |-> Record(k)]
<1>3. ASSUME NEW k \in 1 .. art.sent
      PROVE  Record(k) \in DOMAIN effects
  <2>1. base + k \in base + 1 .. Len(Movements) /\ (base + k) - base = k
    BY <1>1
  <2>2. Movements[base + k] = Record((base + k) - base) /\ Movements[base + k] \in DOMAIN effects
    BY <1>1, <1>2, <2>1
  <2> QED
    BY <2>1, <2>2
<1>4. \A k \in 1 .. art.sent : Record(k).seq = k
  BY DEF Record
<1>5. h \in Injection(1 .. art.sent, DOMAIN effects)
  <2>1. h \in [1 .. art.sent -> DOMAIN effects]
    BY <1>3
  <2>2. \A k, l \in 1 .. art.sent : h[k] = h[l] => k = l
    BY <1>4
  <2> HIDE DEF h
  <2> QED
    BY <2>1, <2>2 DEF Injection, IsInjective
<1>6. IsFiniteSet(DOMAIN effects)
  BY <1>1 DEF Tally
<1> HIDE DEF h
<1>7. Cardinality(1 .. art.sent) <= Cardinality(DOMAIN effects)
  BY <1>5, <1>6, FS_Injection
<1> QED
  BY <1>1, <1>7, FirstNumbers

\* The loop of waitForDrain, and the count of the inbox.
LEMMA MeasureSteps ==
    ASSUME Drained, cmd \in Commands,
           AppliedCount \/ GroupLag \/ GroupLagSkipped \/ Stall \/ Ceiling \/ CountInbox
    PROVE  Drained'
<1>1. cmd.pc \in {"count", "lag", "inbox"} /\ UNCHANGED <<topics, cons, effects, arts, dir, down>>
  BY DEF AppliedCount, GroupLag, GroupLagSkipped, Stall, Ceiling, CountInbox, Measuring
<1>2. Running
  BY <1>1 DEF Running
<1>3. PICK base \in 0 .. Len(Movements) : InProgress(base)
  BY <1>2 DEF Drained
<1>4. /\ Assessed(cmd.pc, Mode, art, drain, Committed, Len(Movements), effects)
      /\ Tally(effects) /\ IsArt(art) /\ art.sent \in Nat /\ art.sent > 0 /\ drain \in Readings
      /\ drain.n \in Nat /\ drain.n <= PostingsOf(effects) /\ art.config = Mode
      /\ Len(Movements) \in Nat /\ Committed \in Nat
  BY <1>1, <1>3 DEF InProgress, Delivery, Assessed, IsArt, Readings
<1>5. PostingsOf(effects) \in Nat /\ Postings = PostingsOf(effects)
  BY <1>4, PostingsCover, PostingsAreTallied
<1>6. ASSUME NEW b \in Flag, NEW w \in {"lag", "count", "skipped", "stall", "ceiling"}, art' = Judged(b, w),
             cmd' = [cmd EXCEPT !.pc = "inbox"], drain' = drain,
             w = "lag" => Committed = Len(Movements), w = "count" => drain.n >= art.sent
      PROVE  Drained'
  <2>1. IsArt(art') /\ art'.config = Mode /\ art'.sent = art.sent /\ art'.why = w
    BY <1>4, <1>6, JudgedFacts
  <2>2. "inbox" \in Labels \ {"idle", "setup", "drive"}
    BY DEF Labels
  <2>3. Assessed("inbox", Mode, art', drain', Committed, Len(Movements), effects)
    BY <1>4, <1>6, <2>1 DEF Assessed
  <2> QED
    BY <1>1, <1>3, <1>6, <2>1, <2>2, <2>3, LabelKeeps
<1>7. TRUE \in Flag /\ FALSE \in Flag
  BY DEF Flag
<1>8. CASE AppliedCount
  <2>1. /\ cmd.pc = "count" /\ drain' = [drain EXCEPT !.n = Postings, !.last = drain.n]
        /\ cmd' = [cmd EXCEPT !.pc = "lag"] /\ art' = art
    BY <1>8 DEF AppliedCount
  <2>2. drain' \in Readings /\ drain'.n = PostingsOf(effects)
    BY <1>4, <1>5, <2>1 DEF Readings
  <2>3. "lag" \in Labels \ {"idle", "setup", "drive"} /\ art.why = "none"
    BY <1>4, <2>1 DEF Labels, Assessed
  <2>4. Assessed("lag", Mode, art', drain', Committed, Len(Movements), effects)
    BY <1>4, <1>5, <2>1, <2>2, <2>3 DEF Assessed
  <2> QED
    BY <1>1, <1>3, <2>1, <2>3, <2>4, LabelKeeps
<1>9. CASE GroupLag
  <2>1. CASE LagIsZero(Lag) /\ Verdict(TRUE, "lag")
    <3>1. art' = Judged(TRUE, "lag") /\ cmd' = [cmd EXCEPT !.pc = "inbox"] /\ drain' = drain
      BY <1>9, <2>1 DEF GroupLag, Verdict, Judged
    <3>2. Committed = Len(Movements)
      BY <1>4, <2>1 DEF LagIsZero, Lag
    <3> QED
      BY <1>6, <1>7, <3>1, <3>2
  <2>2. CASE drain.n >= art.sent /\ Verdict(TRUE, "count")
    <3>1. art' = Judged(TRUE, "count") /\ cmd' = [cmd EXCEPT !.pc = "inbox"] /\ drain' = drain
      BY <1>9, <2>2 DEF GroupLag, Verdict, Judged
    <3> QED
      BY <1>6, <1>7, <2>2, <3>1
  <2>3. CASE cmd' = [cmd EXCEPT !.pc = "count"] /\ UNCHANGED art
    <3>1. cmd.pc = "lag" /\ drain' = drain
      BY <1>9 DEF GroupLag
    <3>2. "count" \in Labels \ {"idle", "setup", "drive"}
      BY DEF Labels
    <3>3. Assessed("count", Mode, art', drain', Committed, Len(Movements), effects)
      BY <1>4, <2>3, <3>1 DEF Assessed
    <3> QED
      BY <1>1, <1>3, <2>3, <3>2, <3>3, LabelKeeps
  <2> QED
    BY <1>9, <2>1, <2>2, <2>3 DEF GroupLag
<1>10. CASE GroupLagSkipped
  <2>1. art' = Judged(TRUE, "skipped") /\ cmd' = [cmd EXCEPT !.pc = "inbox"] /\ drain' = drain
    BY <1>10 DEF GroupLagSkipped, Verdict, Judged
  <2> QED
    BY <1>6, <1>7, <2>1
<1>11. CASE Stall
  <2>1. art' = Judged(TRUE, "stall") /\ cmd' = [cmd EXCEPT !.pc = "inbox"] /\ drain' = drain
    BY <1>11 DEF Stall, Verdict, Judged
  <2> QED
    BY <1>6, <1>7, <2>1
<1>12. CASE Ceiling
  <2>1. art' = Judged(FALSE, "ceiling") /\ cmd' = [cmd EXCEPT !.pc = "inbox"] /\ drain' = drain
    BY <1>12 DEF Ceiling, Verdict, Judged
  <2> QED
    BY <1>6, <1>7, <2>1
<1>13. CASE CountInbox
  <2>1. /\ drain' = [drain EXCEPT !.inbox = Inbox] /\ cmd' = [cmd EXCEPT !.pc = "postings"]
        /\ art' = art
    BY <1>13 DEF CountInbox
  <2>2. /\ Cardinality(DOMAIN effects) \in Nat /\ Inbox \in Nat
        /\ HasInbox(Mode) => Inbox = Cardinality(DOMAIN effects)
    BY <1>4, PostingsCover DEF Inbox
  <2>3. drain' \in Readings /\ drain'.n = drain.n /\ drain'.inbox = Inbox
    BY <1>4, <2>1, <2>2 DEF Readings
  <2>4. ASSUME HasInbox(Mode), art.why \in {"lag", "count"}
        PROVE  Inbox >= art.sent
    <3>1. CASE art.why = "lag"
      <4>1. Mode # "A" /\ Committed = Len(Movements)
        BY <1>4, <2>4, <3>1 DEF Assessed, HasInbox
      <4>2. art.sent <= Cardinality(DOMAIN effects)
        <5>1. base \in Nat
          BY <1>4
        <5> QED
          BY <1>3, <4>1, <5>1, SentIsApplied
      <4> QED
        BY <1>4, <2>2, <2>4, <4>2
    <3>2. CASE art.why = "count"
      <4>1. \A m \in DOMAIN effects : effects[m] = 1
        BY <1>3, <2>4 DEF InProgress, Delivery
      <4>2. PostingsOf(effects) = Cardinality(DOMAIN effects)
        BY <1>4, <4>1, PostingsCover
      <4>3. drain.n >= art.sent
        BY <1>4, <3>2 DEF Assessed
      <4> QED
        BY <1>4, <1>5, <2>2, <2>4, <4>2, <4>3
    <3> QED
      BY <2>4, <3>1, <3>2
  <2>5. "postings" \in Labels \ {"idle", "setup", "drive"}
    BY DEF Labels
  <2>6. Assessed("postings", Mode, art', drain', Committed, Len(Movements), effects)
    BY <1>4, <2>1, <2>2, <2>3, <2>4 DEF Assessed
  <2> QED
    BY <1>1, <1>3, <2>1, <2>5, <2>6, LabelKeeps
<1> QED
  BY <1>8, <1>9, <1>10, <1>11, <1>12, <1>13

\* The counts of an artefact, filled in.
Filled(a, x, p, n, d, l) ==
    [a EXCEPT !.exact = x, !.effects = p, !.applied = n, !.dup = d, !.lost = l]
IsFilled(b, a, x, n, d, l) ==
    /\ b.exact = x /\ b.applied = n /\ b.dup = d /\ b.lost = l
    /\ b.sent = a.sent /\ b.why = a.why /\ b.config = a.config
    /\ b.run = a.run /\ b.sweep = a.sweep /\ b.drained = a.drained

LEMMA FilledFacts ==
    ASSUME NEW a, IsArt(a), NEW x \in Flag, NEW p \in Nat, NEW n \in Nat, NEW d \in Nat, NEW l \in Nat
    PROVE  IsFilled(Filled(a, x, p, n, d, l), a, x, n, d, l)
<1> DEFINE b == Filled(a, x, p, n, d, l)
           e == [a EXCEPT !.exact = x, !.effects = p]
           f == [e EXCEPT !.applied = n, !.dup = d]
<1>1. /\ IsArt(e) /\ e.exact = x /\ e.sent = a.sent /\ e.why = a.why /\ e.config = a.config
      /\ e.run = a.run /\ e.sweep = a.sweep /\ e.drained = a.drained
  BY DEF IsArt
<1>2. b = [f EXCEPT !.lost = l]
  BY DEF Filled
<1> HIDE DEF e, b
<1>3. /\ IsArt(f) /\ f.exact = x /\ f.sent = a.sent /\ f.why = a.why /\ f.config = a.config
      /\ f.applied = n /\ f.dup = d
      /\ f.run = a.run /\ f.sweep = a.sweep /\ f.drained = a.drained
  BY <1>1 DEF IsArt
<1> HIDE DEF f
<1>4. /\ b.exact = x /\ b.applied = n /\ b.dup = d /\ b.lost = l
      /\ b.sent = a.sent /\ b.why = a.why /\ b.config = a.config
      /\ b.run = a.run /\ b.sweep = a.sweep /\ b.drained = a.drained
  BY <1>2, <1>3 DEF IsArt
<1> QED
  BY <1>4 DEF b, IsFilled

SameRun(b, a) == /\ b.config = a.config /\ b.run = a.run /\ b.sweep = a.sweep /\ b.why = a.why
                 /\ b.drained = a.drained

\* What is measured of a run that was judged is what the properties say.
LEMMA MeasuredIsGood ==
    ASSUME NEW a, IsArt(a), NEW i \in Nat, NEW p \in Nat, a.sent > 0, ~Contaminated(i, a.sent),
           a.why = "count" => p >= a.sent,
           a.why = "lag" /\ a.config # "A" => p >= a.sent,
           HasInbox(a.config) /\ a.why \in {"lag", "count"} => i >= a.sent,
           HasInbox(a.config) /\ a.why = "lag" => p = i
    PROVE  Good(Measured(a, i, p)) /\ SameRun(Measured(a, i, p), a)
<1>1. a.sent \in Nat /\ i <= a.sent /\ TRUE \in Flag /\ FALSE \in Flag
  BY DEF IsArt, Contaminated, Flag
<1>2. CASE HasInbox(a.config)
  <2>1. PICK d \in Nat : d = MaxOf(0, p - i) /\ (p = i => d = 0)
    BY DEF MaxOf
  <2>2. PICK l \in Nat : l = MaxOf(0, a.sent - i) /\ i + l = a.sent
    BY <1>1 DEF MaxOf
  <2> DEFINE b == Filled(a, TRUE, p, i, d, l)
  <2>3. Measured(a, i, p) = b
    BY <1>2, <2>1, <2>2 DEF Measured, Filled
  <2>4. /\ b.exact = TRUE /\ b.applied = i /\ b.dup = d /\ b.lost = l
        /\ b.sent = a.sent /\ b.why = a.why /\ b.config = a.config /\ SameRun(b, a)
    <3>1. PICK x \in Flag : x = TRUE
      BY <1>1
    <3>2. IsFilled(Filled(a, x, p, i, d, l), a, x, i, d, l)
      BY FilledFacts
    <3>3. IsFilled(b, a, x, i, d, l)
      BY <3>1, <3>2
    <3> HIDE DEF b
    <3> QED
      BY <3>1, <3>3 DEF IsFilled, SameRun
  <2> HIDE DEF b
  <2>5. a.why \in {"lag", "count"} => i = a.sent /\ l = 0
    BY <1>1, <1>2, <2>2
  <2>6. Good(b)
    BY <1>1, <1>2, <2>1, <2>2, <2>4, <2>5 DEF Good
  <2> QED
    BY <2>3, <2>4, <2>6
<1>3. CASE ~HasInbox(a.config)
  <2>1. PICK d \in Nat : d = MaxOf(0, p - a.sent)
    BY <1>1 DEF MaxOf
  <2>2. PICK l \in Nat : l = MaxOf(0, a.sent - p) /\ (p >= a.sent => l = 0)
    BY <1>1 DEF MaxOf
  <2>3. PICK n \in Nat : n = MinOf(p, a.sent) /\ n <= a.sent
    BY <1>1 DEF MinOf
  <2> DEFINE b == Filled(a, FALSE, p, n, d, l)
  <2>4. Measured(a, i, p) = b
    BY <1>3, <2>1, <2>2, <2>3 DEF Measured, Filled
  <2>5. /\ b.exact = FALSE /\ b.applied = n /\ b.dup = d /\ b.lost = l
        /\ b.sent = a.sent /\ b.why = a.why /\ b.config = a.config /\ SameRun(b, a)
    <3>1. PICK x \in Flag : x = FALSE
      BY <1>1
    <3>2. IsFilled(Filled(a, x, p, n, d, l), a, x, n, d, l)
      BY FilledFacts
    <3>3. IsFilled(b, a, x, n, d, l)
      BY <3>1, <3>2
    <3> HIDE DEF b
    <3> QED
      BY <3>1, <3>3 DEF IsFilled, SameRun
  <2> HIDE DEF b
  <2>6. a.config # "C"
    BY <1>3 DEF HasInbox
  <2>7. Good(b)
    BY <1>1, <2>2, <2>3, <2>5, <2>6 DEF Good
  <2> QED
    BY <2>4, <2>5, <2>7
<1> QED
  BY <1>2, <1>3

\* The run that ends is measured well.
LEMMA RunIsGood ==
    ASSUME Drained, cmd.pc = "postings", ~Contaminated(drain.inbox, art.sent)
    PROVE  /\ Good(Measured(art, drain.inbox, Postings))
           /\ SameRun(Measured(art, drain.inbox, Postings), art)
<1>1. Running
  BY DEF Running
<1>2. PICK base \in 0 .. Len(Movements) : InProgress(base)
  BY <1>1 DEF Drained
<1>3. /\ Assessed(cmd.pc, Mode, art, drain, Committed, Len(Movements), effects)
      /\ Tally(effects) /\ IsArt(art) /\ art.sent \in Nat /\ art.sent > 0 /\ drain \in Readings
      /\ drain.n \in Nat /\ drain.inbox \in Nat /\ drain.n <= PostingsOf(effects)
      /\ art.config = Mode /\ Len(Movements) \in Nat
  BY <1>2 DEF InProgress, Delivery, Assessed, IsArt, Readings
<1>4. /\ PostingsOf(effects) \in Nat /\ Postings = PostingsOf(effects)
      /\ Cardinality(DOMAIN effects) \in Nat /\ Cardinality(DOMAIN effects) <= PostingsOf(effects)
  BY <1>3, PostingsCover, PostingsAreTallied
<1>5. art.why = "count" => Postings >= art.sent
  <2>1. art.why = "count" => drain.n >= art.sent
    BY <1>3 DEF Assessed
  <2> QED
    BY <1>3, <1>4, <2>1
<1>6. ASSUME art.why = "lag", art.config # "A"
      PROVE  Postings >= art.sent
  <2>1. Mode # "A" /\ Committed = Len(Movements) /\ base \in Nat
    BY <1>3, <1>6 DEF Assessed
  <2>2. art.sent <= Cardinality(DOMAIN effects)
    BY <1>2, <2>1, SentIsApplied
  <2> QED
    BY <1>3, <1>4, <2>2
<1>7. ASSUME HasInbox(art.config)
      PROVE  /\ art.why \in {"lag", "count"} => drain.inbox >= art.sent
             /\ art.why = "lag" => Postings = drain.inbox
  <2>1. /\ art.why \in {"lag", "count"} => drain.inbox >= art.sent
        /\ art.why = "lag" => drain.inbox = Cardinality(DOMAIN effects)
    BY <1>3, <1>7 DEF Assessed
  <2>2. \A m \in DOMAIN effects : effects[m] = 1
    BY <1>2, <1>3, <1>7 DEF InProgress, Delivery
  <2>3. PostingsOf(effects) = Cardinality(DOMAIN effects)
    BY <1>3, <2>2, PostingsCover
  <2> QED
    BY <1>4, <2>1, <2>3
<1> QED
  BY <1>3, <1>4, <1>5, <1>6, <1>7, MeasuredIsGood

\* Between two runs: nothing is consumed, and the artefacts are good.
LEMMA RestKeeps ==
    ASSUME Drained, ~Running', cons' = NoCons, effects' = <<>>, topics' \in {topics, <<>>},
           down' \in {down, {}}, \A a \in arts' \cup Stored' : Good(a)
    PROVE  Drained'
<1>1. Written'
  <2>1. CASE topics' = topics
    BY <2>1 DEF Drained, Written
  <2>2. CASE topics' = <<>>
    BY <2>2 DEF Written
  <2> QED
    BY <2>1, <2>2
<1>2. down' \subseteq Nat
  BY DEF Drained
<1> QED
  BY <1>1, <1>2 DEF Drained

LEMMA LeaveKeeps ==
    ASSUME Drained, NEW r \in Results, Leave(r), \A a \in arts' \cup Stored' : Good(a)
    PROVE  Drained'
<1>1. cmd'.pc = "idle"
  BY LeaveFacts DEF Leave
<1>2. ~Running'
  BY <1>1 DEF Running
<1>3. cons' = NoCons /\ effects' = <<>> /\ topics' \in {topics, <<>>} /\ down' \in {down, {}}
  BY DEF Leave
<1> QED
  BY <1>2, <1>3, RestKeeps

LEMMA FinishKeeps ==
    ASSUME Drained, Scheduled, FinishRun
    PROVE  Drained'
<1> DEFINE isLast == cmd.config = Len(cmd.spec.configs) /\ cmd.i = cmd.spec.runs
           r == IF TableIsAllowed(arts') THEN "table" ELSE "failed"
           done == Measured(art, drain.inbox, Postings)
<1>1. r \in Results
  BY DEF Results
<1>2. /\ cmd.pc = "postings" /\ ~Contaminated(drain.inbox, art.sent)
      /\ arts' = arts \cup {done} /\ dir' = Put(dir, runID, done)
      /\ IF isLast
         THEN Leave(r)
         ELSE /\ cmd' = IF cmd.i < cmd.spec.runs
                        THEN [cmd EXCEPT !.pc = "setup", !.i = cmd.i + 1]
                        ELSE [cmd EXCEPT !.pc = "setup", !.i = 1, !.config = cmd.config + 1]
              /\ cons' = NoCons /\ effects' = <<>>
              /\ UNCHANGED <<topics, down>>
  BY DEF FinishRun
<1>3. Good(done)
  BY <1>2, RunIsGood
<1> HIDE DEF isLast, r, done
<1>4. \A a \in arts' \cup Stored' : Good(a)
  <2>1. Stored' \subseteq Stored \cup {done}
    BY <1>2 DEF Stored, Put
  <2>2. \A a \in arts \cup Stored : Good(a)
    BY DEF Drained
  <2> QED
    BY <1>2, <1>3, <2>1, <2>2
<1>5. CASE isLast
  BY <1>1, <1>2, <1>4, <1>5, LeaveKeeps
<1>6. CASE ~isLast
  <2>1. cmd'.pc = "setup"
    BY <1>2, <1>6, NextRunFacts DEF Scheduled
  <2>2. ~Running'
    BY <2>1 DEF Running
  <2> QED
    BY <1>2, <1>4, <1>6, <2>2, RestKeeps
<1> QED
  BY <1>5, <1>6

\* The broker keeps the first k movements of a produce.
Fresh(k) == [i \in 1 .. k |-> Record(art.sent + i)]
Writing(k) == [topics EXCEPT ![topic].log = @ \o Fresh(k)]

LEMMA WriteFacts ==
    ASSUME Written, cmd \in Commands, topic \in DOMAIN topics, topic' = topic, art.sent \in Nat,
           NEW k \in Nat, topics' = Writing(k)
    PROVE  /\ Written' /\ topic' \in DOMAIN topics' /\ Committed' = Committed
           /\ Movements \in Seq(Records) /\ Movements' \in Seq(Records)
           /\ Len(Movements') = Len(Movements) + k
           /\ \A i \in 1 .. Len(Movements) : Movements'[i] = Movements[i]
           /\ \A i \in 1 .. k : Movements'[Len(Movements) + i] = Record(art.sent + i)
<1> DEFINE log == Movements \o Fresh(k)
           p == [topics[topic] EXCEPT !.log = log]
<1>1. /\ topics[topic] \in Partition /\ Movements = topics[topic].log
      /\ Committed = topics[topic].committed /\ topic[1] = cmd.sweep
      /\ Movements \in Seq(Records) /\ Committed \in Nat /\ Len(Movements) \in Nat
      /\ Committed <= Len(Movements)
      /\ \A i \in 1 .. Len(Movements) : Movements[i].sweep = cmd.sweep
  BY OwnPartition
<1>2. \A i \in Nat : Record(i) \in Records /\ Record(i).sweep = cmd.sweep
  BY DEF Record, Records, Commands
<1>3. Fresh(k) \in Seq(Records) /\ Len(Fresh(k)) = k /\ \A i \in 1 .. k : Fresh(k)[i] = Record(art.sent + i)
  <2>1. \A i \in 1 .. k : art.sent + i \in Nat
    OBVIOUS
  <2>2. Fresh(k) \in [1 .. k -> Records]
    BY <1>2, <2>1 DEF Fresh
  <2>3. \A i \in 1 .. k : Fresh(k)[i] = Record(art.sent + i)
    BY DEF Fresh
  <2> QED
    BY <2>2, <2>3
<1>4. /\ log \in Seq(Records) /\ Len(log) = Len(Movements) + k
      /\ \A i \in 1 .. Len(Movements) + k :
             log[i] = IF i <= Len(Movements) THEN Movements[i] ELSE Fresh(k)[i - Len(Movements)]
  <2>1. PICK s \in Seq(Records) : s = Movements
    BY <1>1
  <2>2. PICK u \in Seq(Records) : u = Fresh(k) /\ Len(u) = k
    BY <1>3
  <2>3. /\ s \o u \in Seq(Records) /\ Len(s \o u) = Len(s) + k
        /\ \A i \in 1 .. Len(s) + k : (s \o u)[i] = IF i <= Len(s) THEN s[i] ELSE u[i - Len(s)]
    BY <2>2, ConcatProperties
  <2>4. log = s \o u
    BY <2>1, <2>2
  <2> HIDE DEF log
  <2>5. log \in Seq(Records) /\ Len(log) = Len(Movements) + k
    BY <2>1, <2>3, <2>4
  <2> QED
    BY <2>1, <2>2, <2>3, <2>4, <2>5
<1>5. topics' = [topics EXCEPT ![topic] = p]
  BY <1>1 DEF Writing
<1> HIDE DEF log
<1>6. p \in Partition /\ p.log = log /\ p.committed = Committed
  BY <1>1, <1>4 DEF Partition
<1> HIDE DEF p
<1>7. \A i \in 1 .. Len(Movements) : log[i] = Movements[i]
  BY <1>1, <1>4
<1>8. \A i \in 1 .. k : log[Len(Movements) + i] = Record(art.sent + i)
  <2> SUFFICES ASSUME NEW i \in 1 .. k
               PROVE  log[Len(Movements) + i] = Record(art.sent + i)
    OBVIOUS
  <2>1. /\ Len(Movements) + i \in 1 .. Len(Movements) + k /\ ~(Len(Movements) + i <= Len(Movements))
        /\ (Len(Movements) + i) - Len(Movements) = i
    BY <1>1
  <2> QED
    BY <1>3, <1>4, <2>1
<1>9. \A i \in 1 .. Len(log) : log[i].sweep = cmd.sweep
  <2> SUFFICES ASSUME NEW i \in 1 .. Len(Movements) + k
               PROVE  log[i].sweep = cmd.sweep
    BY <1>4
  <2>1. CASE i <= Len(Movements)
    BY <1>1, <1>7, <2>1
  <2>2. CASE ~(i <= Len(Movements))
    <3>1. PICK j \in 1 .. k : i = Len(Movements) + j
      <4>1. i - Len(Movements) \in 1 .. k /\ i = Len(Movements) + (i - Len(Movements))
        BY <1>1, <2>2
      <4> QED
        BY <4>1
    <3>2. log[i] = Record(art.sent + j) /\ art.sent + j \in Nat
      BY <1>8, <3>1
    <3> QED
      BY <1>2, <3>2
  <2> QED
    BY <2>1, <2>2
<1>10. p.committed <= Len(p.log)
  BY <1>1, <1>4, <1>6
<1>11. Written' /\ topic' \in DOMAIN topics' /\ Movements' = p.log /\ Committed' = p.committed
  BY <1>1, <1>5, <1>6, <1>9, <1>10, PartitionStep
<1> QED
  BY <1>1, <1>4, <1>6, <1>7, <1>8, <1>11

\* A produce: all of it counts as sent, or none of it.
LEMMA WriteKeeps ==
    ASSUME Drained, cmd \in Commands, cmd.pc = "drive", NEW k \in Nat, topics' = Writing(k),
           UNCHANGED <<cons, effects, arts, dir, drain, down>>,
           IsArt(art'), art'.config = art.config, art'.why = art.why,
           \/ cmd' = cmd /\ art'.sent = art.sent + k
           \/ cmd' = [cmd EXCEPT !.pc = "chaos"] /\ art'.sent > 0 /\ art'.sent <= art.sent + k
    PROVE  Drained'
<1>1. Running /\ "chaos" \in Labels
  BY DEF Running, Labels
<1>2. PICK base \in 0 .. Len(Movements) : InProgress(base)
  BY <1>1 DEF Drained
<1>3. /\ topic \in DOMAIN topics /\ Delivery(Mode, base, Movements, Committed, cons, effects)
      /\ base + art.sent = Len(Movements) /\ art.sent \in Nat /\ art.config = Mode /\ art.why = "none"
      /\ \A i \in base + 1 .. Len(Movements) : Movements[i] = Record(i - base)
      /\ drain \in Readings /\ drain.n <= PostingsOf(effects)
  BY <1>2 DEF InProgress, Assessed, IsArt
<1>4. /\ cmd'.spec = cmd.spec /\ cmd'.sweep = cmd.sweep /\ cmd'.config = cmd.config /\ cmd'.i = cmd.i
      /\ cmd'.pc \in {"drive", "chaos"} /\ (cmd'.pc = "drive" <=> cmd' = cmd)
  BY <1>1, Moves
<1>5. topic' = topic /\ Mode' = Mode /\ Running' /\ Stored' = Stored /\ \A j : Record(j)' = Record(j)
  BY <1>4 DEF topic, runID, Mode, Running, Stored, Record
<1>6. Written
  BY DEF Drained
<1>7. /\ Written' /\ topic' \in DOMAIN topics' /\ Committed' = Committed
      /\ Movements \in Seq(Records) /\ Movements' \in Seq(Records)
      /\ Len(Movements') = Len(Movements) + k
      /\ \A i \in 1 .. Len(Movements) : Movements'[i] = Movements[i]
      /\ \A i \in 1 .. k : Movements'[Len(Movements) + i] = Record(art.sent + i)
  BY <1>3, <1>5, <1>6, WriteFacts
<1>8. Len(Movements) \in Nat /\ base \in Nat
  BY <1>7
<1>9. Delivery(Mode, base, Movements', Committed, cons, effects)
  BY <1>3, <1>7, <1>8, DeliveryWritten
<1>10. ASSUME NEW i \in base + 1 .. Len(Movements')
       PROVE  Movements'[i] = Record(i - base)
  <2>1. CASE i <= Len(Movements)
    <3>1. i \in base + 1 .. Len(Movements) /\ i \in 1 .. Len(Movements)
      BY <1>8, <2>1
    <3> QED
      BY <1>3, <1>7, <3>1
  <2>2. CASE ~(i <= Len(Movements))
    <3>1. PICK j \in 1 .. k : i = Len(Movements) + j
      <4>1. i - Len(Movements) \in 1 .. k /\ i = Len(Movements) + (i - Len(Movements))
        BY <1>7, <1>8, <2>2
      <4> QED
        BY <4>1
    <3>2. art.sent + j = i - base
      BY <1>3, <1>8, <3>1, SMTT(30)
    <3> QED
      BY <1>7, <3>1, <3>2
  <2> QED
    BY <2>1, <2>2
<1>11. Assessed(cmd'.pc, Mode, art', drain, Committed, Len(Movements'), effects)
  BY <1>3, <1>4 DEF Assessed
<1>12. /\ base + art'.sent <= Len(Movements')
       /\ cmd'.pc = "drive" => base + art'.sent = Len(Movements')
  <2>1. art'.sent \in Nat
    BY DEF IsArt
  <2>2. art'.sent <= art.sent + k /\ (cmd' = cmd => art'.sent = art.sent + k)
    <3>1. cmd' = [cmd EXCEPT !.pc = "chaos"] => cmd' # cmd
      BY <1>1, Moves
    <3> QED
      BY <1>3, <2>1, <3>1
  <2> QED
    BY <1>3, <1>4, <1>7, <1>8, <2>1, <2>2
<1>13. InProgress(base)'
  BY <1>5, <1>7, <1>9, <1>10, <1>11, <1>12 DEF InProgress
<1>14. base \in 0 .. Len(Movements')
  BY <1>7, <1>8
<1> QED
  BY <1>5, <1>7, <1>13, <1>14 DEF Drained

\* drive's steps.
LEMMA DriveSteps ==
    ASSUME Drained, cmd \in Commands, Produce \/ ProduceFails
    PROVE  Drained'
<1> DEFINE n == MinOf(Batch, Total - art.sent)
<1>1. Running
  BY DEF Running, Produce, ProduceFails
<1>2. PICK base \in 0 .. Len(Movements) : InProgress(base)
  BY <1>1 DEF Drained
<1>3. IsArt(art) /\ art.sent \in Nat
  BY <1>2 DEF InProgress, Assessed, IsArt
<1>4. Batch \in Nat /\ Batch > 0 /\ Total \in Nat
  BY SweepAssumption
<1>5. CASE Produce
  <2>1. /\ cmd.pc = "drive" /\ art.sent < Total /\ topics' = Writing(n)
        /\ art' = [art EXCEPT !.sent = art.sent + n]
        /\ IF art'.sent = Total THEN cmd' = [cmd EXCEPT !.pc = "chaos"] ELSE cmd' = cmd
        /\ UNCHANGED <<cons, effects, arts, dir, drain, down>>
    BY <1>5 DEF Produce, Write, Writing, Fresh, DriveEnds
  <2>2. PICK k \in Nat : k = n /\ k > 0
    BY <1>3, <1>4, <2>1 DEF MinOf
  <2>3. art.sent + k \in Nat
    BY <1>3
  <2>4. /\ IsArt(art') /\ art'.config = art.config /\ art'.why = art.why /\ art'.sent = art.sent + k
    <3>1. PICK s \in Nat : s = art.sent + k
      BY <2>3
    <3>2. art' = [art EXCEPT !.sent = s]
      BY <2>1, <2>2, <3>1
    <3> QED
      BY <1>3, <3>1, <3>2 DEF IsArt
  <2>5. art'.sent > 0 /\ art'.sent <= art.sent + k
    BY <1>3, <2>2, <2>4
  <2>6. topics' = Writing(k)
    BY <2>1, <2>2
  <2> HIDE DEF n
  <2> QED
    BY <2>1, <2>4, <2>5, <2>6, WriteKeeps
<1>6. CASE ProduceFails
  <2>1. /\ cmd.pc = "drive" /\ art.sent > 0 /\ \E k \in 0 .. n : topics' = Writing(k)
        /\ cmd' = [cmd EXCEPT !.pc = "chaos"]
        /\ UNCHANGED <<art, cons, effects, arts, dir, drain, down>>
    BY <1>6 DEF ProduceFails, Write, Writing, Fresh, DriveEnds
  <2>2. PICK k \in 0 .. n : topics' = Writing(k)
    BY <2>1
  <2>3. k \in Nat
    OBVIOUS
  <2>4. IsArt(art') /\ art'.sent > 0 /\ art'.sent <= art.sent + k
    BY <1>3, <2>1, <2>3
  <2> HIDE DEF n
  <2> QED
    BY <2>1, <2>2, <2>3, <2>4, WriteKeeps
<1> QED
  BY <1>5, <1>6

\* The artefact of a run that starts.
Started(run, config, params, version, sweep) ==
    [NoArt EXCEPT !.run = run, !.config = config, !.params = params, !.version = version,
                  !.sweep = sweep]
IsStarted(a, run, config, sweep) ==
    /\ IsArt(a) /\ a.run = run /\ a.config = config /\ a.sweep = sweep
    /\ a.sent = 0 /\ a.why = "none"

LEMMA StartedFacts ==
    ASSUME NEW run, NEW config, NEW params, NEW version, NEW sweep
    PROVE  IsStarted(Started(run, config, params, version, sweep), run, config, sweep)
<1> DEFINE a == Started(run, config, params, version, sweep)
           b == [NoArt EXCEPT !.run = run, !.config = config]
           c == [b EXCEPT !.params = params, !.version = version]
<1>1. IsArt(NoArt) /\ NoArt.sent = 0 /\ NoArt.why = "none"
  <2>1. FALSE \in Flag
    BY DEF Flag
  <2> QED
    BY <2>1 DEF NoArt, IsArt
<1>2. IsArt(b) /\ b.run = run /\ b.config = config /\ b.sent = 0 /\ b.why = "none"
  BY <1>1 DEF IsArt
<1>3. a = [c EXCEPT !.sweep = sweep]
  BY DEF Started
<1> HIDE DEF a, b
<1>4. IsArt(c) /\ c.run = run /\ c.config = config /\ c.sent = 0 /\ c.why = "none"
  BY <1>2 DEF IsArt
<1> HIDE DEF c
<1>5. /\ IsArt(a) /\ a.run = run /\ a.config = config /\ a.sweep = sweep
      /\ a.sent = 0 /\ a.why = "none"
  BY <1>3, <1>4 DEF IsArt
<1> QED
  BY <1>5 DEF a, IsStarted

\* The topic of the run exists once it is ensured, and the others stay.
LEMMA EnsureFacts ==
    ASSUME Written, topic' = topic, EnsureTopic
    PROVE  /\ Written' /\ topic' \in DOMAIN topics'
           /\ topics'[topic'] \in Partition
           /\ topics'[topic'].committed <= Len(topics'[topic'].log)
<1> DEFINE t == topic
           p == [log |-> <<>>, committed |-> 0]
<1>1. p \in Partition /\ p.log = <<>> /\ p.committed = 0 /\ Len(<<>>) = 0 /\ 1 .. 0 = {}
  BY DEF Partition
<1>2. topics' = IF t \in DOMAIN topics THEN topics ELSE Put(topics, t, p)
  BY DEF EnsureTopic
<1>3. topics \in [DOMAIN topics -> Partition]
  BY DEF Written
<1>4. \A u \in DOMAIN topics : /\ topics[u].committed <= Len(topics[u].log)
                               /\ \A i \in 1 .. Len(topics[u].log) : topics[u].log[i].sweep = u[1]
  BY DEF Written
<1> HIDE DEF t, p
<1>5. CASE t \in DOMAIN topics
  <2>1. topics' = topics
    BY <1>2, <1>5
  <2>2. Written' /\ t \in DOMAIN topics' /\ topics'[t] \in Partition
        /\ topics'[t].committed <= Len(topics'[t].log)
    BY <1>3, <1>4, <1>5, <2>1 DEF Written
  <2> QED
    BY <2>2 DEF t
<1>6. CASE t \notin DOMAIN topics
  <2>1. /\ DOMAIN topics' = DOMAIN topics \cup {t} /\ topics'[t] = p
        /\ \A u \in DOMAIN topics : topics'[u] = topics[u]
        /\ topics' = [u \in DOMAIN topics' |-> topics'[u]]
    BY <1>2, <1>6 DEF Put
  <2>2. \A u \in DOMAIN topics' : topics'[u] \in Partition
    BY <1>1, <1>3, <2>1
  <2>3. topics' \in [DOMAIN topics' -> Partition]
    BY <2>1, <2>2
  <2>4. ASSUME NEW u \in DOMAIN topics'
        PROVE  /\ topics'[u].committed <= Len(topics'[u].log)
               /\ \A i \in 1 .. Len(topics'[u].log) : topics'[u].log[i].sweep = u[1]
    <3>1. CASE u = t
      <4>1. Len(p.log) = 0 /\ 1 .. Len(p.log) = {}
        BY <1>1
      <4> QED
        BY <1>1, <2>1, <3>1, <4>1
    <3>2. CASE u # t
      <4>1. u \in DOMAIN topics /\ topics'[u] = topics[u]
        BY <2>1, <3>2
      <4> QED
        BY <1>4, <4>1
    <3> QED
      BY <3>1, <3>2
  <2>5. Written'
    BY <2>3, <2>4 DEF Written
  <2>6. t \in DOMAIN topics' /\ topics'[t] \in Partition /\ topics'[t].committed <= Len(topics'[t].log)
    BY <2>1, <2>2, <2>4
  <2> QED
    BY <2>5, <2>6 DEF t
<1> QED
  BY <1>5, <1>6

\* A consumer that starts has applied nothing.
LEMMA DeliveryStarts ==
    ASSUME NEW mode, NEW p \in Partition, p.committed <= Len(p.log), NEW c \in Consumers,
           c.pc = "poll", c.pos = p.committed
    PROVE  Delivery(mode, Len(p.log), p.log, p.committed, c, <<>>)
<1>1. p.log \in Seq(Records) /\ Len(p.log) \in Nat /\ p.committed \in Nat
  BY DEF Partition
<1>2. DOMAIN <<>> = {} /\ Tally(<<>>)
  <2>1. DOMAIN <<>> = {}
    OBVIOUS
  <2>2. IsFiniteSet({})
    BY FS_EmptySet
  <2>3. <<>> \in [{} -> Nat \ {0}]
    OBVIOUS
  <2> QED
    BY <2>1, <2>2, <2>3 DEF Tally
<1>3. ASSUME mode # "A", NEW i \in Len(p.log) + 1 .. Len(p.log)
      PROVE  FALSE
  BY <1>1
<1> QED
  BY <1>1, <1>2, <1>3 DEF Delivery

LEMMA SetupKeeps ==
    ASSUME Drained, Scheduled, Setup
    PROVE  Drained'
<1>1. /\ cmd.pc = "setup" /\ cmd' = [cmd EXCEPT !.pc = "drive"]
      /\ art' = Started(runID, Mode, cmd.spec.schedule, cmd.spec.version, cmd.sweep)
      /\ effects' = <<>> /\ EnsureTopic /\ drain' = NoDrain
      /\ cons' = [NoCons EXCEPT !.pc = "poll", !.pos = topics'[topic].committed]
      /\ UNCHANGED <<arts, dir, down>>
  BY DEF Setup, Started, provision, startLedger
<1>2. "drive" \in Labels /\ cmd \in Commands
  BY DEF Labels, Scheduled
<1>3. /\ cmd'.pc = "drive" /\ cmd'.spec = cmd.spec /\ cmd'.sweep = cmd.sweep
      /\ cmd'.config = cmd.config /\ cmd'.i = cmd.i
  BY <1>1, <1>2, Moves
<1>4. topic' = topic /\ Mode' = Mode /\ Running' /\ Stored' = Stored
  BY <1>1, <1>3 DEF topic, runID, Mode, Running, Stored
<1>5. Written
  BY DEF Drained
<1>6. /\ Written' /\ topic' \in DOMAIN topics' /\ topics'[topic'] \in Partition
      /\ topics'[topic'].committed <= Len(topics'[topic'].log)
  BY <1>1, <1>4, <1>5, EnsureFacts
<1>7. PICK p \in Partition : p = topics'[topic'] /\ p.committed <= Len(p.log)
  BY <1>6
<1>8. Movements' = p.log /\ Committed' = p.committed
  BY <1>7 DEF Movements, Committed
<1>9. p.committed \in Nat /\ Len(p.log) \in Nat
  BY DEF Partition
<1>10. cons' \in Consumers /\ cons'.pc = "poll" /\ cons'.pos = p.committed
  <2>1. NoCons \in Consumers
    BY DEF NoCons, Consumers, Flag
  <2>2. cons' = [NoCons EXCEPT !.pc = "poll", !.pos = p.committed]
    BY <1>1, <1>4, <1>7
  <2> QED
    BY <1>9, <2>1, <2>2 DEF Consumers
<1>11. Delivery(Mode, Len(p.log), p.log, p.committed, cons', <<>>)
  BY <1>7, <1>10, DeliveryStarts
<1>12. IsArt(art') /\ art'.config = Mode /\ art'.sent = 0 /\ art'.why = "none"
  <2>1. IsStarted(art', runID, Mode, cmd.sweep)
    BY <1>1, StartedFacts
  <2> QED
    BY <2>1 DEF IsStarted
<1>13. Assessed("drive", Mode, art', drain', p.committed, Len(p.log), <<>>)
  <2>1. drain' \in Readings /\ drain'.n = 0
    BY <1>1 DEF NoDrain, Readings
  <2>2. Tally(<<>>)
    BY <1>11 DEF Delivery
  <2>3. PostingsOf(<<>>) \in Nat
    BY <2>2, PostingsCover
  <2> QED
    BY <1>12, <2>1, <2>3 DEF Assessed
<1>14. \A i \in Len(p.log) + 1 .. Len(p.log) : FALSE
  BY <1>9
<1>15. Len(p.log) + art'.sent = Len(p.log)
  BY <1>9, <1>12
<1>16. ASSUME NEW base, base = Len(p.log)
       PROVE  InProgress(base)'
  <2>1. (\A i \in base + 1 .. Len(Movements) : Movements[i] = Record(i - base))'
    BY <1>8, <1>14, <1>16
  <2> QED
    BY <1>1, <1>3, <1>4, <1>6, <1>8, <1>9, <1>11, <1>13, <1>15, <1>16, <2>1 DEF InProgress
<1>17. \E base \in 0 .. Len(Movements') : InProgress(base)'
  <2>1. PICK base \in 0 .. Len(Movements') : base = Len(p.log)
    BY <1>8, <1>9
  <2> QED
    BY <1>16, <2>1
<1> QED
  BY <1>1, <1>4, <1>6, <1>17 DEF Drained

\* The command is given: the artefacts of the sweep before are forgotten.
LEMMA AblateKeeps ==
    ASSUME Drained, planned \in Nat, NEW s \in Specs, Ablate(s)
    PROVE  Drained'
<1>1. /\ cmd.pc = "idle" /\ cmd' = [NoCmd EXCEPT !.pc = "setup", !.spec = s, !.sweep = sweepID]
      /\ arts' = {} /\ UNCHANGED <<dir, topics, cons, effects, down>>
  BY DEF Ablate
<1>2. PICK k \in Nat : k = sweepID
  BY DEF sweepID
<1>3. cmd'.pc = "setup"
  <2>1. cmd' = Given(s, k)
    BY <1>1, <1>2 DEF Given
  <2> QED
    BY <2>1, AblateFacts
<1>4. ~Running /\ ~Running' /\ Stored' = Stored
  BY <1>1, <1>3 DEF Running, Stored
<1>5. cons' = NoCons /\ effects' = <<>> /\ \A a \in arts' \cup Stored' : Good(a)
  BY <1>1, <1>4 DEF Drained
<1> QED
  BY <1>1, <1>4, <1>5, RestKeeps

LEMMA DrainedStep ==
    ASSUME Drained, Scheduled, planned \in Nat, [Next]_vars
    PROVE  Drained'
<1> USE DEF Results
<1>1. cmd \in Commands
  BY DEF Scheduled
<1>2. CASE UNCHANGED vars
  <2>1. UNCHANGED <<cmd, art, arts, dir, topics, cons, effects, down, drain>>
    BY <1>2 DEF vars
  <2>2. UNCHANGED <<Running, Written, Stored, Movements>>
    BY <2>1 DEF Running, Written, Stored, Movements, topic, runID, Mode
  <2>3. \A base : InProgress(base) => InProgress(base)'
    <3>1. UNCHANGED <<topic, Mode, Committed, cmd.sweep>>
      BY <2>1 DEF Committed, topic, runID, Mode
    <3> QED
      BY <2>1, <2>2, <3>1, Zenon DEF InProgress, Record
  <2> QED
    BY <2>1, <2>2, <2>3 DEF Drained
<1>3. ASSUME UNCHANGED <<arts, dir>>, NEW r \in Results, Leave(r)
      PROVE  Drained'
  <2>1. \A a \in arts' \cup Stored' : Good(a)
    BY <1>3 DEF Drained, Stored
  <2> QED
    BY <1>3, <2>1, LeaveKeeps
<1>4. CASE Abort \/ RefuseRun
  BY <1>3, <1>4 DEF Abort, RefuseRun
<1>5. CASE \E s \in Specs : Ablate(s)
  BY <1>5, AblateKeeps
<1>6. CASE Setup
  BY <1>6, SetupKeeps
<1>7. CASE ChaosAct \/ ChaosActFails
  BY <1>7, ActKeeps DEF ChaosAct, ChaosActFails
<1>8. CASE Produce \/ ProduceFails
  BY <1>1, <1>8, DriveSteps
<1>9. CASE ChaosDone \/ ChaosTimesOut
  BY <1>9, ChaosEnds
<1>10. CASE Poll \/ Apply \/ CommitOffset \/ CommitFails \/ Rebalance \/ LedgerEnds
  <2>1. cons.pc # "off" /\ NoCons.pc = "off"
    BY <1>10 DEF Poll, Apply, CommitOffset, CommitFails, Rebalance, LedgerEnds, NoCons
  <2>2. Running
    BY <2>1 DEF Drained
  <2> QED
    BY <1>1, <1>10, <2>2, ConsumerSteps
<1>11. CASE AppliedCount \/ GroupLag \/ GroupLagSkipped \/ Stall \/ Ceiling \/ CountInbox
  BY <1>1, <1>11, MeasureSteps
<1>12. CASE FinishRun
  BY <1>12, FinishKeeps
<1> QED
  BY <1>2, <1>4, <1>5, <1>6, <1>7, <1>8, <1>9, <1>10, <1>11, <1>12 DEF Next

LEMMA DrainedInit == Init => Drained
<1> SUFFICES ASSUME Init
             PROVE  Drained
  OBVIOUS
<1>1. cmd.pc = "idle"
  BY NoCmdFacts DEF Init
<1>2. ~Running
  BY <1>1 DEF Running
<1>3. Written
  BY DEF Init, Written
<1>4. arts \cup Stored = {}
  BY DEF Init, Stored
<1>5. cons = NoCons /\ effects = <<>> /\ down = {}
  BY DEF Init
<1> QED
  BY <1>2, <1>3, <1>4, <1>5 DEF Drained

\* What the invariant says.
LEMMA DrainedMeans == Drained /\ Scheduled => TypeOK /\ DrainedMeansDone
<1> SUFFICES ASSUME Drained, Scheduled
             PROVE  TypeOK /\ DrainedMeansDone
  OBVIOUS
<1>1. cmd.pc \in Labels
  BY DEF Scheduled, Commands
<1>2. \A a \in arts \cup Stored : Good(a)
  BY DEF Drained
<1>3. /\ cons.pc \in {"off", "poll", "apply", "commit"}
      /\ cons.pc # "off" => cons.pos \in 0 .. Len(Movements)
      /\ \A m \in DOMAIN effects : m.sweep = cmd.sweep
  <2>1. CASE ~Running
    <3>1. cons = NoCons /\ effects = <<>> /\ NoCons.pc = "off"
      BY <2>1 DEF Drained, NoCons
    <3> QED
      BY <3>1
  <2>2. CASE Running
    <3>1. PICK base \in 0 .. Len(Movements) : InProgress(base)
      BY <2>2 DEF Drained
    <3>2. topic \in DOMAIN topics /\ Delivery(Mode, base, Movements, Committed, cons, effects) /\ Written
      BY <3>1 DEF InProgress, Drained
    <3>3. \A i \in 1 .. Len(Movements) : Movements[i].sweep = cmd.sweep
      BY <3>2, OwnPartition
    <3>4. \A m \in DOMAIN effects : \E i \in 1 .. Len(Movements) : m = Movements[i]
      BY <3>2 DEF Delivery
    <3>5. cons \in Consumers /\ (cons.pc # "off" => cons.pos <= Len(Movements)) /\ Len(Movements) \in Nat
      BY <3>2 DEF Delivery
    <3>6. cons.pc \in {"off", "poll", "apply", "commit"} /\ cons.pos \in Nat
      BY <3>5 DEF Consumers
    <3> QED
      BY <3>3, <3>4, <3>5, <3>6
  <2> QED
    BY <2>1, <2>2
<1>4. TypeOK
  <2>1. \A a \in arts \cup Stored : a.applied \in 0 .. a.sent /\ {a.lost, a.dup} \subseteq Nat
    BY <1>2 DEF Good
  <2> QED
    BY <1>1, <1>3, <2>1 DEF TypeOK, Labels, Drained
<1>5. DrainedMeansDone
  BY <1>2, <1>3 DEF DrainedMeansDone, Good
<1> QED
  BY <1>4, <1>5

-----------------------------------------------------------------------------
\* Part 7.  The artefacts of a sweep.

\* An artefact of this run id and sweep; one that was cut off says so.
Tagged(a, id, sweep) == /\ a.run = id /\ a.sweep = sweep
                        /\ a.why = "ceiling" => ~a.drained

\* The artefacts so far are those of sweep k, and the directory has no others of it.
OfSweep(k) == /\ \A a \in arts : a.sweep = k
              /\ \A a \in Stored : a.sweep = k => a \in arts

\* The runs of this configuration are all there.
Complete(config, runs) == \A n \in 1 .. runs : <<config, n>> \in DOMAIN dir

\* The position in the sweep: the configurations before it are complete, this one
\* up to the run before, and the artefacts are of these configurations.
Position ==
    LET s == cmd.spec
    IN  /\ cmd.config \in 1 .. Len(s.configs) /\ cmd.i \in 1 .. s.runs /\ s.runs >= MinRuns
        /\ \A j \in 1 .. cmd.config - 1 : Complete(s.configs[j], s.runs)
        /\ Complete(Mode, cmd.i - 1)
        /\ \A a \in arts : \E j \in 1 .. cmd.config : a.config = s.configs[j]

\* A sweep whose artefacts formed a table has left enough of them.
Tabled(k) == /\ OfSweep(k) /\ TableIsAllowed(arts)
             /\ \E a \in arts : a \in Stored
             /\ \A a \in arts : Complete(a.config, MinRuns)

Filed ==
    /\ IsFiniteSet(DOMAIN dir)
    /\ \A id \in DOMAIN dir : /\ Tagged(dir[id], id, dir[id].sweep) /\ dir[id].config = id[1]
                              /\ dir[id].sweep \in 1 .. planned
    /\ Running => Tagged(art, runID, cmd.sweep)
    /\ cmd.pc # "idle" => /\ cmd.result = "none" /\ cmd.sweep \in 1 .. planned
                          /\ OfSweep(cmd.sweep) /\ Position
    /\ cmd.result = "table" => \E k \in 1 .. planned : Tabled(k)

\* The directory is as it was.
LEMMA DirectoryKept ==
    ASSUME Filed, dir' = dir, planned \in Nat, planned' \in Nat, planned <= planned'
    PROVE  /\ IsFiniteSet(DOMAIN dir')
           /\ \A id \in DOMAIN dir' : /\ Tagged(dir'[id], id, dir'[id].sweep) /\ dir'[id].config = id[1]
                                      /\ dir'[id].sweep \in 1 .. planned'
<1>1. \A k \in 1 .. planned : k \in 1 .. planned'
  OBVIOUS
<1> QED
  BY <1>1 DEF Filed

\* A step within a run.
LEMMA RunStaysFiled ==
    ASSUME Filed, cmd \in Commands, planned \in Nat, NEW x \in Labels \ {"idle", "setup"},
           (Running /\ cmd' = cmd) \/ (cmd.pc # "idle" /\ cmd' = [cmd EXCEPT !.pc = x]),
           UNCHANGED <<arts, dir, planned>>, Tagged(art', runID, cmd.sweep)
    PROVE  Filed'
<1>1. /\ cmd'.spec = cmd.spec /\ cmd'.sweep = cmd.sweep /\ cmd'.config = cmd.config /\ cmd'.i = cmd.i
      /\ cmd'.result = cmd.result /\ cmd'.pc \notin {"idle", "setup"}
  BY Moves DEF Running
<1>2. /\ runID' = runID /\ Mode' = Mode /\ Stored' = Stored /\ Running' /\ cmd.pc # "idle"
  BY <1>1 DEF runID, Mode, Stored, Running
<1>3. cmd.result = "none" /\ cmd.sweep \in 1 .. planned /\ OfSweep(cmd.sweep) /\ Position
  BY <1>2 DEF Filed
<1>4. OfSweep(cmd.sweep)'
  BY <1>1, <1>2, <1>3 DEF OfSweep
<1>5. \A c, n : Complete(c, n) => Complete(c, n)'
  BY DEF Complete
<1>6. Position'
  BY <1>1, <1>2, <1>3, <1>5 DEF Position
<1>7. planned' = planned /\ planned <= planned'
  OBVIOUS
<1>8. cmd'.result = "none" /\ cmd'.sweep \in 1 .. planned'
  BY <1>1, <1>3
<1>9. Tagged(art', runID', cmd'.sweep)
  BY <1>1, <1>2
<1> QED
  BY <1>4, <1>6, <1>7, <1>8, <1>9, DirectoryKept DEF Filed

\* The run's artefact keeps its tags while it is filled in.
LEMMA TagsKept ==
    ASSUME IsArt(art), NEW id, NEW k, Tagged(art, id, k),
           \/ art' = art
           \/ \E n \in Nat : art' = [art EXCEPT !.sent = n] \/ art' = [art EXCEPT !.executed = n]
           \/ \E w \in {"lag", "count", "skipped", "stall"} : art' = Judged(TRUE, w)
           \/ art' = Judged(FALSE, "ceiling")
    PROVE  Tagged(art', id, k)
<1>1. CASE art' = art
  BY <1>1 DEF Tagged
<1>2. ASSUME NEW n \in Nat, art' = [art EXCEPT !.sent = n] \/ art' = [art EXCEPT !.executed = n]
      PROVE  Tagged(art', id, k)
  <2>1. art'.run = art.run /\ art'.sweep = art.sweep /\ art'.why = art.why /\ art'.drained = art.drained
    BY <1>2 DEF IsArt
  <2> QED
    BY <2>1 DEF Tagged
<1>3. TRUE \in Flag /\ FALSE \in Flag
  BY DEF Flag
<1>4. ASSUME NEW b \in Flag, NEW w, art' = Judged(b, w), w = "ceiling" => ~b
      PROVE  Tagged(art', id, k)
  <2>1. art'.run = art.run /\ art'.sweep = art.sweep /\ art'.why = w /\ art'.drained = b
    BY <1>4, JudgedFacts
  <2> QED
    BY <1>4, <2>1 DEF Tagged
<1>5. ASSUME NEW w \in {"lag", "count", "skipped", "stall"}, art' = Judged(TRUE, w)
      PROVE  Tagged(art', id, k)
  <2>1. w # "ceiling"
    OBVIOUS
  <2>2. PICK b \in Flag : b = TRUE
    BY <1>3
  <2> QED
    BY <1>4, <1>5, <2>1, <2>2
<1>6. CASE art' = Judged(FALSE, "ceiling")
  <2>1. PICK b \in Flag : b = FALSE
    BY <1>3
  <2> QED
    BY <1>4, <1>6, <2>1
<1> QED
  BY <1>1, <1>2, <1>5, <1>6

\* The steps of a run, up to its end.
LEMMA RunStepsFiled ==
    ASSUME Filed, Drained, Scheduled, planned \in Nat,
           \/ ChaosAct \/ ChaosActFails \/ Produce \/ ProduceFails \/ ChaosDone \/ ChaosTimesOut
           \/ Poll \/ Apply \/ CommitOffset \/ CommitFails \/ Rebalance \/ LedgerEnds
           \/ AppliedCount \/ GroupLag \/ GroupLagSkipped \/ Stall \/ Ceiling \/ CountInbox
    PROVE  Filed'
<1>1. cmd \in Commands
  BY DEF Scheduled
<1>2. ASSUME Running
      PROVE  IsArt(art) /\ Tagged(art, runID, cmd.sweep) /\ art.sent \in Nat
  <2>1. PICK base \in 0 .. Len(Movements) : InProgress(base)
    BY <1>2 DEF Drained
  <2>2. IsArt(art)
    BY <2>1 DEF InProgress, Assessed
  <2> QED
    BY <1>2, <2>2 DEF Filed, IsArt
<1>3. ASSUME UNCHANGED <<cmd, art, arts, dir, planned>>, Running
      PROVE  Filed'
  <2>1. Tagged(art', runID, cmd.sweep) /\ "drive" \in Labels \ {"idle", "setup"}
    BY <1>2, <1>3 DEF Labels
  <2> QED
    BY <1>1, <1>3, <2>1, RunStaysFiled
<1>4. CASE ChaosAct \/ ChaosActFails
  <2>1. UNCHANGED <<cmd, art, arts, dir, planned>> /\ chaos.next <= Len(chaos.events)
    BY <1>4 DEF ChaosAct, ChaosActFails, Act
  <2>2. Running
    <3>1. NoChaos.next = 1 /\ NoChaos.events = <<>> /\ Len(<<>>) = 0
      BY DEF NoChaos
    <3> QED
      BY <2>1, <3>1 DEF Scheduled
  <2> QED
    BY <1>3, <2>1, <2>2
<1>5. CASE Poll \/ Apply \/ CommitOffset \/ CommitFails \/ Rebalance \/ LedgerEnds
  <2>1. UNCHANGED <<cmd, art, arts, dir, planned>> /\ cons.pc # "off" /\ NoCons.pc = "off"
    BY <1>5 DEF Poll, Apply, CommitOffset, CommitFails, Rebalance, LedgerEnds, NoCons, Consuming
  <2>2. Running
    BY <2>1 DEF Drained
  <2> QED
    BY <1>3, <2>1, <2>2
<1>6. ASSUME NEW x \in {"drive", "chaos", "count", "lag", "inbox", "postings"},
             cmd.pc \notin {"idle", "setup"}, cmd' = cmd \/ cmd' = [cmd EXCEPT !.pc = x],
             UNCHANGED <<arts, dir, planned>>,
             \/ art' = art
             \/ \E n \in Nat : art' = [art EXCEPT !.sent = n] \/ art' = [art EXCEPT !.executed = n]
             \/ \E w \in {"lag", "count", "skipped", "stall"} : art' = Judged(TRUE, w)
             \/ art' = Judged(FALSE, "ceiling")
      PROVE  Filed'
  <2>1. Running /\ x \in Labels \ {"idle", "setup"}
    BY <1>6 DEF Running, Labels
  <2>2. IsArt(art) /\ Tagged(art, runID, cmd.sweep)
    BY <1>2, <2>1
  <2>3. Tagged(art', runID, cmd.sweep)
    BY <1>6, <2>2, TagsKept
  <2> QED
    BY <1>1, <1>6, <2>1, <2>3, RunStaysFiled DEF Running
<1>7. CASE Produce
  <2>1. /\ cmd.pc = "drive" /\ (cmd' = cmd \/ cmd' = [cmd EXCEPT !.pc = "chaos"])
        /\ art.sent < Total /\ art' = [art EXCEPT !.sent = art.sent + MinOf(Batch, Total - art.sent)]
        /\ UNCHANGED <<arts, dir, planned>>
    BY <1>7 DEF Produce, DriveEnds
  <2>2. PICK n \in Nat : n = art.sent + MinOf(Batch, Total - art.sent)
    <3>1. art.sent \in Nat
      BY <1>2, <2>1 DEF Running
    <3>2. Batch \in Nat /\ Total \in Nat
      BY SweepAssumption
    <3> QED
      BY <2>1, <3>1, <3>2 DEF MinOf
  <2>3. art' = [art EXCEPT !.sent = n]
    BY <2>1, <2>2
  <2> QED
    BY <1>6, <2>1, <2>3
<1>8. CASE ProduceFails \/ ChaosTimesOut
  <2>1. /\ cmd.pc \in {"drive", "chaos"} /\ art' = art /\ UNCHANGED <<arts, dir, planned>>
        /\ cmd' = [cmd EXCEPT !.pc = "chaos"] \/ cmd' = [cmd EXCEPT !.pc = "count"]
    BY <1>8 DEF ProduceFails, ChaosTimesOut, DriveEnds
  <2> QED
    BY <1>6, <2>1
<1>9. CASE ChaosDone
  <2>1. /\ cmd.pc = "chaos" /\ cmd' = [cmd EXCEPT !.pc = "count"] /\ UNCHANGED <<arts, dir, planned>>
        /\ art' = [art EXCEPT !.executed = Len(chaos.events)]
    BY <1>9 DEF ChaosDone
  <2>2. Len(chaos.events) \in Nat
    BY ScheduleFacts DEF Scheduled, Schedules
  <2> QED
    BY <1>6, <2>1, <2>2
<1>10. CASE AppliedCount \/ GroupLag \/ GroupLagSkipped \/ Stall \/ Ceiling \/ CountInbox
  <2>1. /\ cmd.pc \in {"count", "lag", "inbox"} /\ UNCHANGED <<arts, dir, planned>>
        /\ \E x \in {"count", "lag", "inbox", "postings"} : cmd' = [cmd EXCEPT !.pc = x]
    BY <1>10 DEF AppliedCount, GroupLag, GroupLagSkipped, Stall, Ceiling, CountInbox, Measuring, Verdict
  <2>2. \/ art' = art
        \/ \E w \in {"lag", "count", "skipped", "stall"} : art' = Judged(TRUE, w)
        \/ art' = Judged(FALSE, "ceiling")
    BY <1>10 DEF AppliedCount, GroupLag, GroupLagSkipped, Stall, Ceiling, CountInbox, Verdict, Judged
  <2> QED
    BY <1>6, <2>1, <2>2
<1> QED
  BY <1>4, <1>5, <1>7, <1>8, <1>9, <1>10

LEMMA SetupFiled ==
    ASSUME Filed, Scheduled, planned \in Nat, Setup
    PROVE  Filed'
<1>1. /\ cmd.pc = "setup" /\ cmd' = [cmd EXCEPT !.pc = "drive"]
      /\ art' = Started(runID, Mode, cmd.spec.schedule, cmd.spec.version, cmd.sweep)
      /\ UNCHANGED <<arts, dir, planned>>
  BY DEF Setup, Started
<1>2. cmd \in Commands /\ "drive" \in Labels \ {"idle", "setup"}
  BY DEF Scheduled, Labels
<1>3. Tagged(art', runID, cmd.sweep)
  <2>1. IsStarted(art', runID, Mode, cmd.sweep)
    BY <1>1, StartedFacts
  <2> QED
    BY <2>1 DEF IsStarted, Tagged
<1>4. cmd.pc # "idle"
  BY <1>1
<1> QED
  BY <1>1, <1>2, <1>3, <1>4, RunStaysFiled

\* A new sweep has a number of its own.
LEMMA AblateFiled ==
    ASSUME Filed, planned \in Nat, NEW s \in Specs, Ablate(s)
    PROVE  Filed'
<1>1. /\ s.runs >= MinRuns /\ cmd' = [NoCmd EXCEPT !.pc = "setup", !.spec = s, !.sweep = sweepID]
      /\ arts' = {} /\ dir' = dir /\ planned' = planned + Len(s.configs) * s.runs
  BY DEF Ablate, Accepts
<1>2. PICK k \in Nat : k = sweepID /\ k = planned + 1
  BY DEF sweepID
<1>3. /\ cmd'.pc = "setup" /\ cmd'.spec = s /\ cmd'.sweep = k /\ cmd'.config = 1 /\ cmd'.i = 1
      /\ cmd'.result = "none"
  <2>1. cmd' = Given(s, k)
    BY <1>1, <1>2 DEF Given
  <2> QED
    BY <2>1, AblateFacts
<1>4. s.runs \in Nat /\ s.runs >= 1 /\ Len(s.configs) \in Nat /\ Len(s.configs) >= 1
  <2>1. s.runs \in Nat /\ s.configs \in Seq(STRING) /\ s.configs # <<>>
    BY SweepAssumption
  <2>2. MinRuns \in Nat /\ MinRuns >= 1
    BY MinRunsAssumption
  <2>3. Len(s.configs) \in Nat /\ Len(s.configs) # 0
    BY <2>1
  <2> QED
    BY <1>1, <2>1, <2>2, <2>3
<1>5. planned' \in Nat /\ planned + 1 <= planned'
  <2>1. \A a, b \in Nat : a >= 1 /\ b >= 1 => a * b \in Nat /\ a * b >= 1
    OBVIOUS
  <2>2. PICK n \in Nat : n = Len(s.configs) * s.runs /\ n >= 1
    BY <1>4, <2>1
  <2> QED
    BY <1>1, <2>2
<1>6. Stored' = Stored /\ \A a \in Stored : a.sweep \in 1 .. planned
  BY <1>1 DEF Stored, Filed
<1>7. OfSweep(cmd.sweep)'
  BY <1>1, <1>2, <1>3, <1>6 DEF OfSweep
<1>8. Position'
  <2>1. \A n \in 1 .. 0 : FALSE
    OBVIOUS
  <2>2. 1 - 1 = 0 /\ 1 \in 1 .. Len(s.configs) /\ 1 \in 1 .. s.runs
    BY <1>4
  <2> QED
    BY <1>1, <1>3, <2>1, <2>2 DEF Position, Complete
<1>9. cmd'.sweep \in 1 .. planned' /\ ~Running' /\ planned <= planned'
  BY <1>2, <1>3, <1>5 DEF Running
<1> QED
  BY <1>1, <1>3, <1>5, <1>7, <1>8, <1>9, DirectoryKept DEF Filed

\* A run that ends without an artefact.
LEMMA LeaveFiled ==
    ASSUME Filed, planned \in Nat, NEW r \in Results, r # "table", Leave(r), UNCHANGED <<arts, dir, planned>>
    PROVE  Filed'
<1>1. cmd'.pc = "idle" /\ cmd'.result = r
  BY LeaveFacts DEF Leave
<1>2. ~Running' /\ planned <= planned' /\ planned' \in Nat
  BY <1>1 DEF Running
<1> QED
  BY <1>1, <1>2, DirectoryKept DEF Filed

\* An artefact is put into the directory.
LEMMA PutFacts ==
    ASSUME Filed, planned' = planned, NEW done, Tagged(done, runID, cmd.sweep), done.config = Mode,
           cmd.sweep \in 1 .. planned, arts' = arts \cup {done}, dir' = Put(dir, runID, done),
           NEW k, k = cmd.sweep, OfSweep(k)
    PROVE  /\ IsFiniteSet(DOMAIN dir')
           /\ \A id \in DOMAIN dir' : /\ Tagged(dir'[id], id, dir'[id].sweep) /\ dir'[id].config = id[1]
                                      /\ dir'[id].sweep \in 1 .. planned'
           /\ DOMAIN dir' = DOMAIN dir \cup {<<Mode, cmd.i>>}
           /\ OfSweep(k)' /\ done \in arts' /\ done \in Stored'
<1> DEFINE t == runID
<1>1. t = <<Mode, cmd.i>> /\ t[1] = Mode
  BY DEF runID
<1>2. dir' = Put(dir, t, done) /\ Tagged(done, t, cmd.sweep)
  OBVIOUS
<1> HIDE DEF t
<1>3. /\ DOMAIN dir' = DOMAIN dir \cup {t} /\ dir'[t] = done
      /\ \A id \in DOMAIN dir : id # t => dir'[id] = dir[id]
  BY <1>2 DEF Put
<1>4. IsFiniteSet(DOMAIN dir')
  BY <1>3, FS_AddElement DEF Filed
<1>5. ASSUME NEW id \in DOMAIN dir'
      PROVE  /\ Tagged(dir'[id], id, dir'[id].sweep) /\ dir'[id].config = id[1]
             /\ dir'[id].sweep \in 1 .. planned'
  <2>1. CASE id = t
    BY <1>1, <1>2, <1>3, <2>1 DEF Tagged
  <2>2. CASE id # t
    BY <1>3, <2>2 DEF Filed
  <2> QED
    BY <2>1, <2>2
<1>6. Stored' \subseteq Stored \cup {done} /\ done \in Stored'
  BY <1>3 DEF Stored
<1>7. done.sweep = k
  BY DEF Tagged
<1>8. OfSweep(k)'
  BY <1>6, <1>7 DEF OfSweep
<1> QED
  BY <1>1, <1>3, <1>4, <1>5, <1>6, <1>8

LEMMA FinishFiled ==
    ASSUME Filed, Drained, Scheduled, planned \in Nat, FinishRun
    PROVE  Filed'
<1> DEFINE isLast == cmd.config = Len(cmd.spec.configs) /\ cmd.i = cmd.spec.runs
           r == IF TableIsAllowed(arts') THEN "table" ELSE "failed"
           done == Measured(art, drain.inbox, Postings)
           s == cmd.spec
<1>1. r \in Results /\ (r = "table" => TableIsAllowed(arts'))
  BY DEF Results
<1>2. /\ cmd.pc = "postings" /\ ~Contaminated(drain.inbox, art.sent)
      /\ arts' = arts \cup {done} /\ dir' = Put(dir, runID, done) /\ planned' = planned
      /\ IF isLast
         THEN Leave(r)
         ELSE cmd' = IF cmd.i < cmd.spec.runs
                     THEN [cmd EXCEPT !.pc = "setup", !.i = cmd.i + 1]
                     ELSE [cmd EXCEPT !.pc = "setup", !.i = 1, !.config = cmd.config + 1]
  BY DEF FinishRun
<1>3. SameRun(done, art)
  BY <1>2, RunIsGood
<1>4. Running /\ cmd.pc # "idle" /\ cmd \in Commands
  BY <1>2 DEF Running, Scheduled
<1>5. /\ Tagged(art, runID, cmd.sweep) /\ cmd.result = "none" /\ cmd.sweep \in 1 .. planned
      /\ OfSweep(cmd.sweep) /\ Position
  BY <1>4 DEF Filed
<1>6. art.config = Mode
  <2>1. PICK base \in 0 .. Len(Movements) : InProgress(base)
    BY <1>4 DEF Drained
  <2> QED
    BY <2>1 DEF InProgress, Assessed
<1> HIDE DEF isLast, r, done
<1>7. Tagged(done, runID, cmd.sweep) /\ done.config = Mode
  BY <1>3, <1>5, <1>6 DEF Tagged, SameRun
<1>8. PICK k \in 1 .. planned : k = cmd.sweep
  BY <1>5
<1>9. /\ IsFiniteSet(DOMAIN dir')
      /\ \A id \in DOMAIN dir' : /\ Tagged(dir'[id], id, dir'[id].sweep) /\ dir'[id].config = id[1]
                                 /\ dir'[id].sweep \in 1 .. planned'
      /\ DOMAIN dir' = DOMAIN dir \cup {<<Mode, cmd.i>>}
      /\ OfSweep(k)' /\ done \in arts' /\ done \in Stored'
  BY <1>2, <1>5, <1>7, <1>8, PutFacts
<1>10. /\ s.runs \in Nat /\ Len(s.configs) \in Nat /\ cmd.i \in Nat /\ cmd.config \in Nat
       /\ MinRuns \in Nat
  <2>1. s \in Specs /\ cmd.i \in Nat /\ cmd.config \in Nat
    BY <1>4 DEF Commands
  <2> QED
    BY <2>1, SweepAssumption, MinRunsAssumption
<1>11. /\ cmd.config \in 1 .. Len(s.configs) /\ cmd.i \in 1 .. s.runs /\ s.runs >= MinRuns
       /\ \A j \in 1 .. cmd.config - 1 : Complete(s.configs[j], s.runs)
       /\ Complete(Mode, cmd.i - 1)
       /\ \A a \in arts : \E j \in 1 .. cmd.config : a.config = s.configs[j]
  BY <1>5 DEF Position
<1>12. /\ \A j \in 1 .. cmd.config - 1 : \A n \in 1 .. s.runs : <<s.configs[j], n>> \in DOMAIN dir'
       /\ \A n \in 1 .. cmd.i : <<Mode, n>> \in DOMAIN dir'
  <2>1. \A n \in 1 .. cmd.i : n = cmd.i \/ n \in 1 .. cmd.i - 1
    BY <1>10
  <2> QED
    BY <1>9, <1>11, <2>1 DEF Complete
<1>13. \A a \in arts' : \E j \in 1 .. cmd.config : a.config = s.configs[j]
  <2>1. cmd.config \in 1 .. cmd.config /\ done.config = s.configs[cmd.config]
    BY <1>7, <1>10, <1>11 DEF Mode
  <2> QED
    BY <1>2, <1>11, <2>1
<1>14. CASE isLast
  <2>1. cmd'.pc = "idle" /\ cmd'.result = r
    BY <1>1, <1>2, <1>14, LeaveFacts DEF Leave
  <2>2. ~Running'
    BY <2>1 DEF Running
  <2>3. ASSUME r = "table"
        PROVE  Tabled(k)'
    <3>1. ASSUME NEW a \in arts', NEW n \in 1 .. MinRuns
          PROVE  <<a.config, n>> \in DOMAIN dir'
      <4>1. n \in 1 .. s.runs
        BY <1>10, <1>11
      <4>2. PICK j \in 1 .. cmd.config : a.config = s.configs[j]
        BY <1>13
      <4>3. CASE j = cmd.config
        <5>1. cmd.i = s.runs /\ a.config = Mode
          BY <1>14, <4>2, <4>3 DEF isLast, Mode
        <5> QED
          BY <1>12, <4>1, <5>1
      <4>4. CASE j # cmd.config
        <5>1. j \in 1 .. cmd.config - 1
          BY <1>10, <4>4
        <5> QED
          BY <1>12, <4>1, <4>2, <5>1
      <4> QED
        BY <4>3, <4>4
    <3> QED
      BY <1>1, <1>9, <2>3, <3>1 DEF Tabled, Complete
  <2> QED
    BY <1>2, <1>8, <1>9, <2>1, <2>2, <2>3 DEF Filed
<1>15. CASE ~isLast
  <2>1. /\ cmd'.pc = "setup" /\ cmd'.spec = s /\ cmd'.sweep = cmd.sweep /\ cmd'.result = cmd.result
        /\ IF cmd.i < cmd.spec.runs THEN cmd'.i = cmd.i + 1 /\ cmd'.config = cmd.config
                                    ELSE cmd'.i = 1 /\ cmd'.config = cmd.config + 1
    BY <1>2, <1>4, <1>15, NextRunFacts
  <2>2. OfSweep(cmd.sweep)' /\ cmd'.result = "none" /\ cmd'.sweep \in 1 .. planned' /\ ~Running'
    BY <1>2, <1>5, <1>8, <1>9, <2>1 DEF Running, OfSweep
  <2>3. Position'
    <3>1. CASE cmd.i < s.runs
      <4>1. cmd'.i = cmd.i + 1 /\ cmd'.config = cmd.config /\ Mode' = Mode /\ cmd'.i - 1 = cmd.i
        BY <1>10, <2>1, <3>1 DEF Mode
      <4>2. cmd'.i \in 1 .. s.runs
        BY <1>10, <3>1, <4>1
      <4> QED
        BY <1>11, <1>12, <1>13, <2>1, <4>1, <4>2 DEF Position, Complete
    <3>2. CASE ~(cmd.i < s.runs)
      <4>1. cmd.i = s.runs
        BY <1>10, <1>11, <3>2
      <4>2. cmd.config # Len(s.configs)
        BY <1>15, <4>1 DEF isLast
      <4>3. cmd'.i = 1 /\ cmd'.config = cmd.config + 1
        BY <2>1, <3>2
      <4>4. /\ cmd'.config \in 1 .. Len(s.configs) /\ cmd'.i \in 1 .. s.runs
            /\ cmd'.config - 1 = cmd.config /\ cmd'.i - 1 = 0
        BY <1>10, <1>11, <4>1, <4>2, <4>3
      <4>5. ASSUME NEW j \in 1 .. cmd'.config - 1, NEW n \in 1 .. s.runs
            PROVE  <<s.configs[j], n>> \in DOMAIN dir'
        <5>1. j = cmd.config \/ j \in 1 .. cmd.config - 1
          BY <1>10, <4>4
        <5> QED
          BY <1>12, <4>1, <5>1 DEF Mode
      <4>6. \A n \in 1 .. 0 : FALSE
        OBVIOUS
      <4>7. \A a \in arts' : \E j \in 1 .. cmd'.config : a.config = s.configs[j]
        BY <1>10, <1>13, <4>3
      <4> QED
        BY <1>11, <2>1, <4>4, <4>5, <4>6, <4>7 DEF Position, Complete
    <3> QED
      BY <3>1, <3>2
  <2> QED
    BY <1>9, <2>1, <2>2, <2>3 DEF Filed
<1> QED
  BY <1>14, <1>15

LEMMA FiledStep ==
    ASSUME Filed, Drained, Scheduled, planned \in Nat, [Next]_vars
    PROVE  Filed'
<1>1. CASE UNCHANGED vars
  <2>1. UNCHANGED <<cmd, art, arts, dir, planned>>
    BY <1>1 DEF vars
  <2>2. UNCHANGED <<Running, runID, Mode, Stored>>
    BY <2>1 DEF Running, runID, Mode, Stored
  <2>3. /\ \A k : OfSweep(k) => OfSweep(k)'
        /\ \A c, n : Complete(c, n) => Complete(c, n)'
    BY <2>1, <2>2 DEF OfSweep, Complete
  <2>4. Position => Position'
    BY <2>1, <2>2, <2>3 DEF Position
  <2>5. \A k : Tabled(k) => Tabled(k)'
    BY <2>1, <2>2, <2>3 DEF Tabled
  <2>6. OfSweep(cmd.sweep) => OfSweep(cmd.sweep)'
    BY <2>1, <2>2 DEF OfSweep
  <2> QED
    BY <2>1, <2>2, <2>4, <2>5, <2>6 DEF Filed
<1>2. CASE \E s \in Specs : Ablate(s)
  BY <1>2, AblateFiled
<1>3. CASE Setup
  BY <1>3, SetupFiled
<1>4. CASE Abort \/ RefuseRun
  <2>1. \E r \in {"failed", "refused"} : Leave(r)
    BY <1>4 DEF Abort, RefuseRun
  <2>2. PICK r \in {"failed", "refused"} : Leave(r)
    BY <2>1
  <2>3. r \in Results /\ r # "table" /\ UNCHANGED <<arts, dir, planned>>
    BY <1>4 DEF Results, Abort, RefuseRun
  <2> QED
    BY <2>2, <2>3, LeaveFiled
<1>5. CASE FinishRun
  BY <1>5, FinishFiled
<1>6. CASE \/ ChaosAct \/ ChaosActFails \/ Produce \/ ProduceFails \/ ChaosDone \/ ChaosTimesOut
           \/ Poll \/ Apply \/ CommitOffset \/ CommitFails \/ Rebalance \/ LedgerEnds
           \/ AppliedCount \/ GroupLag \/ GroupLagSkipped \/ Stall \/ Ceiling \/ CountInbox
  BY <1>6, RunStepsFiled
<1> QED
  BY <1>1, <1>2, <1>3, <1>4, <1>5, <1>6 DEF Next

LEMMA FiledInit == Init => Filed
<1> SUFFICES ASSUME Init
             PROVE  Filed
  OBVIOUS
<1>1. cmd.pc = "idle" /\ cmd.result = "none"
  BY NoCmdFacts DEF Init
<1>2. ~Running
  BY <1>1 DEF Running
<1>3. DOMAIN dir = {} /\ IsFiniteSet({})
  BY FS_EmptySet DEF Init
<1> QED
  BY <1>1, <1>2, <1>3 DEF Filed

\* The columns of a table.

LEMMA OrderOfRuns ==
    ASSUME NEW S, IsFiniteSet(S)
    PROVE  Cardinality(S) \in Nat /\ SetToSeq(S) \in [1 .. Cardinality(S) -> S]
<1>1. Cardinality(S) \in Nat
  BY FS_CardinalityType
<1>2. ExistsBijection(1 .. Cardinality(S), S)
  BY FS_CardinalityType
<1>3. PICK f : f \in Bijection(1 .. Cardinality(S), S)
  BY <1>2 DEF ExistsBijection
<1>4. f \in [1 .. Cardinality(S) -> S] /\ IsInjective(f)
  BY <1>3 DEF Bijection, Injection
<1>5. \E g \in [1 .. Cardinality(S) -> S] : IsInjective(g)
  BY <1>4
<1> QED
  BY <1>1, <1>5 DEF SetToSeq

\* If nothing was counted in any run, the range of the column is nothing.
LEMMA NothingCounted ==
    ASSUME NEW n \in Nat, n > 0, NEW values \in [1 .. n -> {0}]
    PROVE  medianMinMax(values).hi = 0
<1>1. DOMAIN values = 1 .. n /\ Len(values) = n /\ \A i \in 1 .. n : values[i] = 0
  <2>1. values \in Seq({0})
    OBVIOUS
  <2> QED
    BY <2>1
<1>2. {values[i] : i \in DOMAIN values} = {0}
  <2>1. 1 \in 1 .. n
    OBVIOUS
  <2> QED
    BY <1>1, <2>1
<1>3. /\ {i \in DOMAIN values : values[i] < 0} = {}
      /\ {i \in DOMAIN values : values[i] <= 0} = 1 .. n
  BY <1>1
<1>4. Cardinality({}) = 0 /\ Cardinality(1 .. n) = n
  BY FS_EmptySet, FirstNumbers
<1>5. Nth(values, n) = 0
  BY <1>2, <1>3, <1>4 DEF Nth
<1> QED
  BY <1>1, <1>5 DEF medianMinMax

\* The rows of runs that lost nothing and repeated nothing.
LEMMA RowsOfNothing ==
    ASSUME NEW S, IsFiniteSet(S), NEW c, Runs(S, c) # {},
           \A a \in Runs(S, c) : a.lost = 0 /\ a.dup = 0
    PROVE  Row(S, c).lost.hi = 0 /\ Row(S, c).dup.hi = 0
<1> DEFINE R == Runs(S, c)
           n == Cardinality(R)
           order == SetToSeq(R)
           lost == [i \in DOMAIN order |-> order[i].lost]
           dup == [i \in DOMAIN order |-> order[i].dup]
<1>1. IsFiniteSet(R)
  BY FS_Subset DEF Runs
<1>2. n \in Nat /\ n # 0
  BY <1>1, FS_CardinalityType, FS_EmptySet
<1>3. order \in [1 .. n -> R]
  BY <1>1, OrderOfRuns
<1>4. Row(S, c).lost = medianMinMax(lost) /\ Row(S, c).dup = medianMinMax(dup)
  BY DEF Row, Column
<1> HIDE DEF R, n, order
<1>5. lost \in [1 .. n -> {0}] /\ dup \in [1 .. n -> {0}]
  BY <1>3 DEF R
<1> HIDE DEF lost, dup
<1>6. medianMinMax(lost).hi = 0 /\ medianMinMax(dup).hi = 0
  BY <1>2, <1>5, NothingCounted
<1> QED
  BY <1>4, <1>6

LEMMA StoredIsFinite == Filed => IsFiniteSet(Stored)
<1> SUFFICES ASSUME Filed
             PROVE  IsFiniteSet(Stored)
  OBVIOUS
<1> DEFINE g == [id \in DOMAIN dir |-> dir[id]]
<1>1. g \in Surjection(DOMAIN dir, Stored)
  BY DEF Surjection, Stored
<1>2. IsFiniteSet(DOMAIN dir)
  BY DEF Filed
<1> HIDE DEF g
<1> QED
  BY <1>1, <1>2, FS_Surjection

\* Artefacts that share a table are of one sweep, and were not cut off.
LEMMA TableIsOneSweep ==
    ASSUME Filed, TableIsAllowed(Stored)
    PROVE  \E k \in 1 .. planned : \A a \in Stored : a.sweep = k /\ a.why # "ceiling"
<1>1. /\ Stored # {} /\ \A a \in Stored : a.drained
      /\ \A a, b \in Stored : fixedKey(a) = fixedKey(b)
  BY DEF TableIsAllowed
<1>2. \A a, b \in Stored : a.sweep = b.sweep
  <2>1. \A a, b : fixedKey(a) = fixedKey(b) => a.sweep = b.sweep
    BY DEF fixedKey
  <2> QED
    BY <1>1, <2>1
<1>3. \A a \in Stored : a.sweep \in 1 .. planned /\ (a.why = "ceiling" => ~a.drained)
  BY DEF Filed, Stored, Tagged
<1>4. PICK b \in Stored : TRUE
  BY <1>1
<1> QED
  BY <1>1, <1>2, <1>3, <1>4

\* After a sweep that formed a table.
LEMMA TabledFolds ==
    ASSUME Filed, NEW k, Tabled(k)
    PROVE  TableIsAllowed(Stored) <=> Stored \subseteq arts
<1>1. PICK b \in arts : b \in Stored /\ b.sweep = k
  BY DEF Tabled, OfSweep
<1>2. ASSUME TableIsAllowed(Stored)
      PROVE  Stored \subseteq arts
  <2>1. \A a \in Stored : a.sweep = b.sweep
    BY <1>1, <1>2, TableIsOneSweep
  <2> QED
    BY <1>1, <2>1 DEF Tabled, OfSweep
<1>3. ASSUME Stored \subseteq arts
      PROVE  TableIsAllowed(Stored)
  <2>1. TableIsAllowed(arts) /\ \A a \in arts : Complete(a.config, MinRuns)
    BY DEF Tabled
  <2>2. /\ \A a \in Stored : IsMeasurement(a) /\ a.drained
        /\ SameKind(Stored) /\ \A a, c \in Stored : fixedKey(a) = fixedKey(c)
    BY <1>3, <2>1 DEF TableIsAllowed, SameKind
  <2>3. ASSUME NEW a \in Stored
        PROVE  Cardinality(Runs(Stored, a.config)) >= MinRuns
    <3> DEFINE c == a.config
               h == [n \in 1 .. MinRuns |-> dir[<<c, n>>]]
               R == Runs(Stored, c)
    <3>1. \A n \in 1 .. MinRuns : <<c, n>> \in DOMAIN dir
      BY <1>3, <2>1 DEF Complete
    <3>2. \A n \in 1 .. MinRuns : dir[<<c, n>>].run = <<c, n>> /\ dir[<<c, n>>].config = c
      <4>1. \A n : <<c, n>>[1] = c
        OBVIOUS
      <4> QED
        BY <3>1, <4>1 DEF Filed, Tagged
    <3>3. \A n \in 1 .. MinRuns : dir[<<c, n>>] \in R
      BY <3>1, <3>2 DEF Runs, Stored
    <3>5. IsFiniteSet(R) /\ Cardinality(R) \in Nat
      BY StoredIsFinite, FS_Subset, FS_CardinalityType DEF Runs
    <3>6. h \in Injection(1 .. MinRuns, R)
      <4>1. h \in [1 .. MinRuns -> R]
        BY <3>3
      <4>2. \A n, m \in 1 .. MinRuns : h[n] = h[m] => n = m
        <5>1. \A n \in 1 .. MinRuns : h[n].run = <<c, n>>
          BY <3>2
        <5>2. \A n, m : <<c, n>> = <<c, m>> => n = m
          OBVIOUS
        <5> HIDE DEF h, c
        <5> QED
          BY <5>1, <5>2
      <4> HIDE DEF h
      <4> QED
        BY <4>1, <4>2 DEF Injection, IsInjective
    <3> HIDE DEF h, R
    <3>7. Cardinality(1 .. MinRuns) <= Cardinality(R)
      BY <3>5, <3>6, FS_Injection
    <3>8. Cardinality(1 .. MinRuns) = MinRuns /\ MinRuns \in Nat
      BY FirstNumbers, MinRunsAssumption
    <3> QED
      BY <3>5, <3>7, <3>8 DEF R
  <2>4. Stored # {}
    BY <1>1
  <2> QED
    BY <2>2, <2>3, <2>4 DEF TableIsAllowed
<1> QED
  BY <1>2, <1>3

\* What the invariants say of a fold.
LEMMA FiledMeans == Filed /\ Drained => FindingIsOneSweep
<1> SUFFICES ASSUME Filed, Drained
             PROVE  FindingIsOneSweep
  OBVIOUS
<1>1. TableIsAllowed(Stored) => /\ \E k \in 1 .. planned : \A a \in Stored : a.sweep = k
                                /\ \A a \in Stored : a.why # "ceiling"
  BY TableIsOneSweep
<1>2. fold.rows = Table(Stored)
  BY DEF fold
<1>3. fold.rows # {} <=> TableIsAllowed(Stored)
  <2>1. TableIsAllowed(Stored) => Stored # {}
    BY DEF TableIsAllowed
  <2> QED
    BY <1>2, <2>1 DEF Table
<1>4. cmd.result = "table" => (fold.rows # {} <=> Stored \subseteq arts)
  <2>1. cmd.result = "table" => \E k : Tabled(k)
    BY DEF Filed
  <2> QED
    BY <1>3, <2>1, TabledFolds
<1>5. ASSUME \A a \in Stored : a.why = "lag", NEW r \in fold.rows, r.config = "C"
      PROVE  r.lost.hi = 0 /\ r.dup.hi = 0
  <2>1. PICK b \in Stored : r = Row(Stored, b.config)
    BY <1>2 DEF Table
  <2>2. Row(Stored, b.config).config = b.config
    BY DEF Row
  <2>3. b.config = "C"
    BY <1>5, <2>1, <2>2
  <2>4. b \in Runs(Stored, "C")
    BY <2>3 DEF Runs
  <2>5. ASSUME NEW a \in Runs(Stored, "C")
        PROVE  a.lost = 0 /\ a.dup = 0
    <3>1. a \in Stored /\ a.config = "C"
      BY DEF Runs
    <3>2. Good(a) /\ a.why = "lag"
      BY <1>5, <3>1 DEF Drained
    <3> QED
      BY <3>1, <3>2 DEF Good
  <2>6. IsFiniteSet(Stored)
    BY StoredIsFinite
  <2>7. Row(Stored, "C").lost.hi = 0 /\ Row(Stored, "C").dup.hi = 0
    BY <2>4, <2>5, <2>6, RowsOfNothing
  <2> QED
    BY <2>1, <2>3, <2>7
<1> QED
  BY <1>1, <1>4, <1>5 DEF FindingIsOneSweep

-----------------------------------------------------------------------------
\* Part 8.  The theorems.

\* The invariant of a sweep.
LEMMA SweepInvariant == Spec => [](Scheduled /\ planned \in Nat /\ Drained /\ Filed)
<1> DEFINE Inv == Scheduled /\ planned \in Nat /\ Drained /\ Filed
<1>1. Init => Inv
  BY ScheduledInit, DrainedInit, FiledInit
<1>2. Inv /\ [Next]_vars => Inv'
  BY ScheduledStep, PlannedStep, DrainedStep, FiledStep
<1> QED
  BY <1>1, <1>2, PTL DEF Spec

\* The command, the consumer and what is measured have their types throughout: a
\* run never counts more movements as applied than it sent, and no count of lost
\* or duplicate ones is negative, whatever postings and inbox rows it finds.
THEOREM SweepTypeCorrect == Spec => []TypeOK
<1>1. Scheduled /\ planned \in Nat /\ Drained /\ Filed => TypeOK
  BY DrainedMeans
<1> QED
  BY <1>1, SweepInvariant, PTL

\* A run that waitForDrain ended because the group had no lag lost nothing in B, and
\* in C applied what it sent once; one that it ended because the postings had reached
\* what was sent reports no loss; and no run applies another sweep's movements.  For
\* any load, batches, schedules and failures, any sweeps before over the same broker
\* and directory, and any interleaving of consumer, chaos goroutine and readings.
THEOREM DrainedRunsAreDone == Spec => []DrainedMeansDone
<1>1. Scheduled /\ planned \in Nat /\ Drained /\ Filed => DrainedMeansDone
  BY DrainedMeans
<1> QED
  BY <1>1, SweepInvariant, PTL

\* A finding is made of one sweep without a run that was cut off, and a sweep that
\* formed a table folds into one exactly if it replaced every artefact that was in
\* the directory, for any sweeps that came before, complete, aborted or refused, any
\* configurations, one given twice too, and any number of runs.
THEOREM FindingsAreOneSweep == Spec => []FindingIsOneSweep
<1>1. Scheduled /\ planned \in Nat /\ Drained /\ Filed => FindingIsOneSweep
  BY FiledMeans
<1> QED
  BY <1>1, SweepInvariant, PTL
=============================================================================
