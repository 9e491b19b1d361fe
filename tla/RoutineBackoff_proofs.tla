------------------------- MODULE RoutineBackoff_proofs -------------------------
(***************************************************************************)
(* Proofs about RoutineBackoff for every policy, every set of windows and  *)
(* any lateness of the visits: type correctness, and that the scheduled    *)
(* check lies in the active window, neither before the interval is over    *)
(* nor later than one closed period after it.                              *)
(***************************************************************************)
EXTENDS RoutineBackoff, TLAPS

LEMMA PolicyType == Initial \in Nat \ {0} /\ MaxMinutes \in Nat \ {0} /\ Num \in Nat /\ Num >= Den
BY RawAssumption DEF Initial, MaxMinutes, Num, Den, AtLeastOne

LEMMA WindowBounds ==
  ASSUME NEW w \in Windows
  PROVE  w[1] \in 0..1439 /\ w[2] \in 0..1440 /\ w[1] # w[2]
BY WindowsAssumption DEF MinutesPerDay

LEMMA MinuteType ==
  ASSUME NEW t \in Int
  PROVE  /\ MinuteOfDay(t) \in 0..MinutesPerDay - 1
         /\ \E q \in Int : t = q * MinutesPerDay + MinuteOfDay(t)
BY DEF MinuteOfDay, MinutesPerDay

\* An instant given by its day and its minute.
LEMMA MinuteOf ==
  ASSUME NEW q \in Int, NEW m \in 0..MinutesPerDay - 1
  PROVE  MinuteOfDay(q * MinutesPerDay + m) = m
BY DEF MinuteOfDay, MinutesPerDay

\* The opening of a window on the day of t.
LEMMA Opening ==
  ASSUME NEW w \in Windows, NEW t \in Int
  PROVE  /\ OpeningOn(w, t) \in Int
         /\ MinuteOfDay(OpeningOn(w, t)) = w[1]
         /\ MinuteOfDay(OpeningOn(w, t) + MinutesPerDay) = w[1]
<1>1. PICK q \in Int : t = q * MinutesPerDay + MinuteOfDay(t)
  BY MinuteType
<1>2. w[1] \in 0..MinutesPerDay - 1 /\ MinuteOfDay(t) \in Int
  BY WindowsAssumption, MinuteType
<1>3. OpeningOn(w, t) = q * MinutesPerDay + w[1]
  BY <1>1, <1>2 DEF OpeningOn, MinutesPerDay
<1>4. OpeningOn(w, t) + MinutesPerDay = (q + 1) * MinutesPerDay + w[1]
  BY <1>2, <1>3 DEF MinutesPerDay
<1>5. MinuteOfDay(OpeningOn(w, t)) = w[1]
  BY <1>2, <1>3, MinuteOf
<1>6. MinuteOfDay(OpeningOn(w, t) + MinutesPerDay) = w[1]
  <2>1. q + 1 \in Int
    OBVIOUS
  <2>2. QED
    BY <1>2, <1>4, <2>1, MinuteOf
<1>7. OpeningOn(w, t) \in Int
  BY <1>2 DEF OpeningOn
<1>8. QED
  BY <1>5, <1>6, <1>7

ClosedOf(w) == IF w[1] < w[2] THEN MinutesPerDay - (w[2] - w[1]) ELSE w[1] - w[2]

LEMMA ClosedType ==
  ASSUME NEW w \in Windows PROVE ClosedOf(w) \in Int
<1>1. w[1] \in Int
  BY WindowBounds
<1>2. w[2] \in Int
  BY WindowBounds
<1>3. QED
  BY <1>1, <1>2 DEF ClosedOf, MinutesPerDay

\* reschedule_to_window lands in the window and puts off by at most a closed period.
LEMMA RescheduleLands ==
  ASSUME NEW w \in Windows, NEW t \in Int
  PROVE  /\ InActiveWindow(w, Reschedule(w, t))
         /\ Reschedule(w, t) \in t..t + ClosedOf(w)
<1>1. PICK a \in Int, b \in Int, m \in Int :
        /\ a = w[1] /\ b = w[2] /\ m = MinuteOfDay(t)
        /\ 0 <= a /\ a < 1440 /\ 0 <= b /\ b <= 1440 /\ a # b
        /\ 0 <= m /\ m < 1440
  <2>1. w[1] \in Int /\ 0 <= w[1] /\ w[1] < 1440
    <3>1. w[1] \in 0..1439
      BY WindowBounds
    <3>2. QED
      BY <3>1
  <2>2. w[2] \in Int /\ 0 <= w[2] /\ w[2] <= 1440
    <3>1. w[2] \in 0..1440
      BY WindowBounds
    <3>2. QED
      BY <3>1
  <2>3. MinuteOfDay(t) \in Int /\ 0 <= MinuteOfDay(t) /\ MinuteOfDay(t) < 1440
    <3>1. MinuteOfDay(t) \in 0..1439
      BY DEF MinuteOfDay, MinutesPerDay
    <3>2. QED
      BY <3>1
  <2>4. w[1] # w[2]
    BY WindowBounds
  <2>5. QED
    BY <2>1, <2>2, <2>3, <2>4
<1>2. /\ InActiveWindow(w, t) <=> IF a < b THEN a <= m /\ m < b ELSE m >= a \/ m < b
      /\ ClosedOf(w) = IF a < b THEN 1440 - (b - a) ELSE a - b
  BY <1>1 DEF InActiveWindow, ClosedOf, MinutesPerDay
<1>3. OpeningOn(w, t) = t - m + a
  BY <1>1 DEF OpeningOn
<1>4. Reschedule(w, t) =
        IF a < b
        THEN IF a <= m /\ m < b THEN t
             ELSE IF m < a THEN OpeningOn(w, t) ELSE OpeningOn(w, t) + MinutesPerDay
        ELSE IF m >= a \/ m < b THEN t ELSE OpeningOn(w, t)
  BY <1>1 DEF Reschedule
<1>5. CASE InActiveWindow(w, t)
  <2>1. Reschedule(w, t) = t
    BY <1>2, <1>4, <1>5
  <2>2. ClosedOf(w) \in Nat
    BY <1>1, <1>2
  <2>3. QED
    BY <1>5, <2>1, <2>2
<1>6. CASE ~InActiveWindow(w, t)
  <2>1. Reschedule(w, t) \in {OpeningOn(w, t), OpeningOn(w, t) + MinutesPerDay}
    BY <1>2, <1>4, <1>6
  <2>2. MinuteOfDay(Reschedule(w, t)) = w[1]
    BY <2>1, Opening
  <2>3. InActiveWindow(w, Reschedule(w, t))
    BY <1>1, <2>2 DEF InActiveWindow
  <2>4. MinutesPerDay = 1440
    BY DEF MinutesPerDay
  <2>5. Reschedule(w, t) \in t..t + ClosedOf(w)
    BY <1>1, <1>2, <1>3, <1>4, <1>6, <2>4
  <2>6. QED
    BY <2>3, <2>5
<1>7. QED
  BY <1>5, <1>6

\* Rounding a quotient gives a natural number, at least the exact one's floor.
LEMMA RoundType ==
  ASSUME NEW n \in Nat, NEW d \in Nat \ {0}
  PROVE  Round(n, d) \in Nat /\ Round(n, d) >= n \div d
<1>1. n \div d \in Nat
  OBVIOUS
<1>2. QED
  BY <1>1 DEF Round

LEMMA NextIntervalType ==
  ASSUME NEW prev \in Nat \ {0}, NEW percent \in 80..120
  PROVE  NextInterval(prev, percent) \in 1..MaxMinutes
<1>1. prev * Num \in Nat /\ Den \in Nat \ {0}
  BY PolicyType, RawAssumption DEF Den
<1>2. AtLeastOne(Round(prev * Num, Den)) \in Nat
  BY <1>1, RoundType DEF AtLeastOne
<1>3. AtLeastOne(Round(prev * Num, Den)) * percent \in Nat
  BY <1>2
<1>4. Round(AtLeastOne(Round(prev * Num, Den)) * percent, 100) \in Nat
  BY <1>3, RoundType
<1>5. QED
  BY <1>4, PolicyType DEF NextInterval, AtLeastOne, Smaller

\* A multiplier of at least one never rounds an interval below itself.
LEMMA RoundGrows ==
  ASSUME NEW p \in Nat, NEW n \in Nat, NEW d \in Nat \ {0}, n >= d
  PROVE  Round(p * n, d) >= p
<1> DEFINE q == (p * n) \div d
<1>1. p * n \in Nat /\ p * d \in Nat /\ p * n >= p * d
  OBVIOUS
<1>2. q >= p
  <2>1. q \in Nat /\ p * n < d * (q + 1)
    BY <1>1
  <2> HIDE DEF q
  <2>2. p * d < d * (q + 1)
    BY <1>1, <2>1
  <2>3. ASSUME q < p PROVE FALSE
    <3>1. q + 1 <= p
      BY <2>1, <2>3
    <3>2. d * (q + 1) <= d * p
      BY <2>1, <3>1
    <3>3. QED
      BY <2>1, <2>2, <3>2
  <2>4. QED
    BY <2>1, <2>3
<1>3. Round(p * n, d) >= q
  BY <1>1, RoundType
<1>4. Round(p * n, d) \in Nat
  BY <1>1, RoundType
<1>5. q \in Nat
  BY <1>1
<1> HIDE DEF q
<1>6. QED
  BY <1>2, <1>3, <1>4, <1>5

LEMMA NextIntervalGrows ==
  ASSUME NEW prev \in 1..MaxMinutes
  PROVE  NextInterval(prev, 100) >= prev
<1> DEFINE base == AtLeastOne(Round(prev * Num, Den))
<1>1. prev \in Nat \ {0} /\ prev <= MaxMinutes /\ Num \in Nat /\ Den \in Nat \ {0} /\ Num >= Den
      /\ MaxMinutes \in Nat
  BY PolicyType, RawAssumption DEF Den
<1>2. Round(prev * Num, Den) >= prev /\ Round(prev * Num, Den) \in Nat
  <2>1. prev * Num \in Nat
    BY <1>1
  <2>2. Round(prev * Num, Den) \in Nat
    BY <1>1, <2>1, RoundType
  <2>3. Round(prev * Num, Den) >= prev
    BY <1>1, RoundGrows
  <2>4. QED
    BY <2>2, <2>3
<1>3. base \in Nat /\ base >= prev
  <2>1. prev \in Nat
    BY <1>1
  <2>2. Round(prev * Num, Den) \in Nat /\ Round(prev * Num, Den) >= prev
    BY <1>2
  <2>3. QED
    BY <2>1, <2>2 DEF AtLeastOne
<1> HIDE DEF base
<1>4. Round(base * 100, 100) >= base /\ Round(base * 100, 100) \in Nat
  BY <1>3, RoundGrows, RoundType
<1>5. NextInterval(prev, 100) = AtLeastOne(Smaller(Round(base * 100, 100), MaxMinutes))
  BY DEF NextInterval, base
<1>6. QED
  BY <1>1, <1>3, <1>4, <1>5 DEF AtLeastOne, Smaller

-----------------------------------------------------------------------------
(* The life of a record. *)

IInv == TypeOK /\ NextInWindow /\ WaitBounded

LEMMA WindowType == TypeOK => Closed = ClosedOf(window)
BY DEF Closed, ClosedOf

\* InActiveWindow looks at the minute of the day only.
LEMMA SameMinute ==
  ASSUME NEW t \in Int, NEW d \in Int
  PROVE  MinuteOfDay(MinuteOfDay(t) + d) = MinuteOfDay(t + d)
<1>1. PICK q \in Int : t = q * MinutesPerDay + MinuteOfDay(t)
  BY MinuteType
<1>2. MinuteOfDay(t) \in Int
  BY MinuteType
<1>3. PICK r \in Int : MinuteOfDay(t) + d = r * MinutesPerDay + MinuteOfDay(MinuteOfDay(t) + d)
  BY <1>2, MinuteType
<1>4. MinuteOfDay(MinuteOfDay(t) + d) \in 0..MinutesPerDay - 1
  BY <1>2, MinuteType
<1>5. t + d = (q + r) * MinutesPerDay + MinuteOfDay(MinuteOfDay(t) + d)
  BY <1>1, <1>2, <1>3, <1>4 DEF MinutesPerDay
<1>6. QED
  BY <1>4, <1>5, MinuteOf

LEMMA InitRecord == Init => IInv
BY VisitsAssumption, PolicyType DEF Init, IInv, TypeOK, NextInWindow, WaitBounded, MinutesPerDay

LEMMA VisitType ==
  ASSUME TypeOK, NEW delay \in Delays, Visit(delay)
  PROVE  /\ window' = window /\ window \in Windows
         /\ clock' \in 0..MinutesPerDay - 1
<1>1. clock + wait + delay \in Int
  BY VisitsAssumption DEF TypeOK
<1>2. clock' \in 0..MinutesPerDay - 1
  BY <1>1, MinuteType DEF Visit
<1>3. QED
  BY <1>2 DEF Visit, TypeOK

\* What both kinds of unsuccessful visit leave.
LEMMA ScheduleRecord ==
  ASSUME TypeOK, window' = window, clock' \in 0..MinutesPerDay - 1,
         NEW percent \in 80..120, Schedule(clock', percent)
  PROVE  /\ interval' \in 1..MaxMinutes
         /\ wait' \in Nat
         /\ NextInWindow' /\ WaitBounded'
<1> DEFINE next == NextInterval(Previous, percent)
<1>1. Previous \in Nat \ {0}
  BY PolicyType DEF TypeOK, Previous
<1>2. next \in 1..MaxMinutes
  BY <1>1, NextIntervalType
<1>3. interval' = next /\ wait' = Reschedule(window, clock' + next) - clock'
  BY DEF Schedule
<1> HIDE DEF next
<1>4. clock' \in Int /\ next \in Nat \ {0} /\ clock' + next \in Int
  BY <1>2, PolicyType DEF MinutesPerDay
<1>5. /\ InActiveWindow(window, Reschedule(window, clock' + next))
      /\ Reschedule(window, clock' + next) \in clock' + next..clock' + next + ClosedOf(window)
  BY <1>4, RescheduleLands DEF TypeOK
<1>6. ClosedOf(window) \in Int
  BY ClosedType DEF TypeOK
<1>7. wait' \in next..next + ClosedOf(window)
  BY <1>3, <1>4, <1>5, <1>6
<1>8. clock' + wait' = Reschedule(window, clock' + next)
  BY <1>3, <1>4, <1>5, <1>6
<1>9. NextInWindow'
  BY <1>5, <1>8 DEF NextInWindow, InActiveWindow, MinuteOfDay
<1>10. WaitBounded'
  BY <1>3, <1>7 DEF WaitBounded, Closed, ClosedOf
<1>11. wait' \in Nat
  BY <1>4, <1>6, <1>7
<1>12. QED
  BY <1>2, <1>3, <1>9, <1>10, <1>11

LEMMA StepRecord == IInv /\ [Next]_vars => IInv'
<1> SUFFICES ASSUME IInv, [Next]_vars PROVE IInv'
  OBVIOUS
<1>1. TypeOK
  BY DEF IInv
<1>2. ASSUME NEW delay \in Delays, VisitSuccess(delay) PROVE IInv'
  <2>1. Visit(delay) /\ interval' = 0 /\ wait' = 0 /\ result' = "success"
    BY <1>2 DEF VisitSuccess
  <2>2. QED
    BY <1>1, <2>1, VisitType, PolicyType DEF IInv, TypeOK, NextInWindow, WaitBounded
<1>3. ASSUME NEW delay \in Delays, VisitNoChange(delay) PROVE IInv'
  <2>1. Visit(delay) /\ Schedule(clock', 100) /\ result' = "no_change"
    BY <1>3 DEF VisitNoChange
  <2>2. /\ interval' \in 1..MaxMinutes /\ wait' \in Nat
        /\ NextInWindow' /\ WaitBounded'
    BY <1>1, <2>1, VisitType, ScheduleRecord
  <2>3. QED
    BY <1>1, <2>1, <2>2, VisitType, PolicyType DEF IInv, TypeOK
<1>4. ASSUME NEW delay \in Delays, NEW percent \in Jitters, VisitToolError(delay, percent)
      PROVE  IInv'
  <2>1. PICK q \in 80..120 : Schedule(clock', q)
    BY <1>4, VisitsAssumption DEF VisitToolError
  <2>2. Visit(delay) /\ result' = "tool_error"
    BY <1>4 DEF VisitToolError
  <2>3. /\ interval' \in 1..MaxMinutes /\ wait' \in Nat
        /\ NextInWindow' /\ WaitBounded'
    BY <1>1, <2>1, <2>2, VisitType, ScheduleRecord
  <2>4. QED
    BY <1>1, <2>2, <2>3, VisitType, PolicyType DEF IInv, TypeOK
<1>5. CASE UNCHANGED vars
  BY <1>5 DEF vars, IInv, TypeOK, NextInWindow, WaitBounded, Closed, InActiveWindow, MinuteOfDay
<1>6. QED
  BY <1>2, <1>3, <1>4, <1>5 DEF Next

\* A record keeps its shape, and a row without one is due, for every policy.
THEOREM RecordTypeCorrect == Spec => []TypeOK
<1>1. IInv => TypeOK
  BY DEF IInv
<1>2. QED
  BY <1>1, InitRecord, StepRecord, PTL DEF Spec

\* The next check is always an instant at which the scheduler runs the sweep.
THEOREM ScheduledInWindow == Spec => []NextInWindow
<1>1. IInv => NextInWindow
  BY DEF IInv
<1>2. QED
  BY <1>1, InitRecord, StepRecord, PTL DEF Spec

\* A row waits at least its interval and at most one closed period longer.
THEOREM WaitIsBounded == Spec => []WaitBounded
<1>1. IInv => WaitBounded
  BY DEF IInv
<1>2. QED
  BY <1>1, InitRecord, StepRecord, PTL DEF Spec

\* A visit that finds nothing new never shortens the interval, for any multiplier.
THEOREM BackoffNeverShortens == Spec => NeverShortens
<1>1. IInv => [\A delay \in Delays : VisitNoChange(delay) => interval' >= interval]_vars
  <2> SUFFICES ASSUME TypeOK, NEW delay \in Delays, VisitNoChange(delay)
               PROVE  interval' >= interval
    BY DEF IInv
  <2>1. interval' = NextInterval(Previous, 100)
    BY DEF VisitNoChange, Schedule
  <2>2. CASE interval = 0
    <3>1. Previous \in Nat \ {0}
      BY PolicyType DEF TypeOK, Previous
    <3>2. NextInterval(Previous, 100) \in 1..MaxMinutes
      BY <3>1, NextIntervalType
    <3>3. QED
      BY <2>1, <2>2, <3>2, PolicyType
  <2>3. CASE interval # 0
    <3>1. Previous = interval /\ interval \in 1..MaxMinutes
      BY <2>3, PolicyType DEF TypeOK, Previous
    <3>2. QED
      BY <2>1, <3>1, NextIntervalGrows
  <2>4. QED
    BY <2>2, <2>3
<1>2. QED
  BY <1>1, InitRecord, StepRecord, PTL DEF Spec, NeverShortens

=============================================================================
