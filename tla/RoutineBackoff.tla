---------------------------- MODULE RoutineBackoff ----------------------------
(***************************************************************************)
(* cron/routine_backoff.py: the backoff record of one connections.json row *)
(* under one policy, over the visits of a sweep.  A visit happens once the *)
(* row is due and the routine is in its active window; it deletes the      *)
(* record (success) or writes the next interval and the instant of the     *)
(* next check, pushed forward into the window when it fell outside.        *)
(*                                                                         *)
(* Time is in minutes.  Only the minute of the day of the latest visit is  *)
(* kept (clock), and the next check as the minutes from there to it        *)
(* (wait), so that the states of one day stand for those of all.  Days     *)
(* have 24 hours: changes to and from summer time are left out.            *)
(***************************************************************************)
EXTENDS Integers

CONSTANTS Raw,      \* the routine's backoff block, before from_config clamps it:
                    \*   [initial, num, den, max, jitter], multiplier num/den
          Windows,  \* active windows <<start, end>> in minutes of the day;
                    \*   <<0, 1440>> stands for an unset one ("always on")
          Results,  \* the answers a visit may get
          Delays,   \* how late a visit may come after next_check_at
          Jitters   \* jitter factors in percent, random.uniform(0.8, 1.2)

MinutesPerDay == 1440

ASSUME RawAssumption ==
  /\ {Raw.initial, Raw.num, Raw.max} \subseteq Int
  /\ Raw.den \in Nat \ {0}
  /\ Raw.jitter \in BOOLEAN
ASSUME WindowsAssumption ==
  \A w \in Windows : /\ w[1] \in 0..MinutesPerDay - 1
                     /\ w[2] \in 0..MinutesPerDay
                     /\ w[1] # w[2]
                     /\ w[2] = MinutesPerDay => w[1] = 0
ASSUME VisitsAssumption ==
  /\ Results \subseteq {"success", "no_change", "tool_error"}
  /\ Delays \subseteq Nat
  /\ Jitters \subseteq 80..120

VARIABLES
  window,    \* the routine's active window
  clock,     \* minute of the day of the latest visit
  interval,  \* current_interval_minutes (0: no record)
  wait,      \* minutes from the latest visit to next_check_at (0: due now)
  result     \* last_result

vars == <<window, clock, interval, wait, result>>

-----------------------------------------------------------------------------
(* The policy and the interval arithmetic. *)

AtLeastOne(n) == IF n > 1 THEN n ELSE 1

Smaller(m, n) == IF m < n THEN m ELSE n

\* BackoffPolicy.from_config: at least one minute, at least a factor of one.
Initial    == AtLeastOne(Raw.initial)
MaxMinutes == AtLeastOne(Raw.max)
Num        == IF Raw.num > Raw.den THEN Raw.num ELSE Raw.den
Den        == Raw.den

\* Variant: int() instead of round(), as the design document sketches it.
Truncated(n, d) == n \div d

\* Python's round of n / d, n and d positive: halves go to the even neighbour.
Round(n, d) ==
  LET q == n \div d
      r == n % d
  IN  IF 2 * r > d \/ (2 * r = d /\ q % 2 = 1) THEN q + 1 ELSE q

\* Variant: the cap forgotten.
NextIntervalUncapped(prev, percent) ==
  AtLeastOne(Round(AtLeastOne(Round(prev * Num, Den)) * percent, 100))

\* percent = 100: no jitter (rounding an integer again changes nothing).
NextInterval(prev, percent) ==
  AtLeastOne(Smaller(Round(AtLeastOne(Round(prev * Num, Den)) * percent, 100), MaxMinutes))

-----------------------------------------------------------------------------
(* The active window. *)

MinuteOfDay(t) == t % MinutesPerDay

InActiveWindow(w, t) ==
  LET m == MinuteOfDay(t) IN
  IF w[1] < w[2] THEN w[1] <= m /\ m < w[2] ELSE m >= w[1] \/ m < w[2]

\* Opening of the window on the day of t.
OpeningOn(w, t) == t - MinuteOfDay(t) + w[1]

\* Variants: the closing minute taken for a part of the window; the opening that
\* already passed today.
RescheduleClosingIncluded(w, t) ==
  LET m == MinuteOfDay(t) IN
  IF w[1] < w[2]
  THEN IF w[1] <= m /\ m <= w[2] THEN t
       ELSE IF m < w[1] THEN OpeningOn(w, t) ELSE OpeningOn(w, t) + MinutesPerDay
  ELSE IF m >= w[1] \/ m < w[2] THEN t ELSE OpeningOn(w, t)

RescheduleSameDay(w, t) == IF InActiveWindow(w, t) THEN t ELSE OpeningOn(w, t)

\* reschedule_to_window: the first opening after an instant that fell outside.
Reschedule(w, t) ==
  LET m == MinuteOfDay(t) IN
  IF w[1] < w[2]
  THEN IF w[1] <= m /\ m < w[2] THEN t
       ELSE IF m < w[1] THEN OpeningOn(w, t) ELSE OpeningOn(w, t) + MinutesPerDay
  ELSE IF m >= w[1] \/ m < w[2] THEN t ELSE OpeningOn(w, t)

-----------------------------------------------------------------------------
(* The life of a record. *)

TypeOK ==
  /\ window \in Windows
  /\ clock \in 0..MinutesPerDay - 1
  /\ interval \in 0..MaxMinutes
  /\ wait \in Nat
  /\ interval = 0 => wait = 0
  /\ result \in {"success", "no_change", "tool_error"}

\* A row without a record, at the first sweep that sees it.
Init ==
  /\ window \in Windows
  /\ clock \in 0..MinutesPerDay - 1
  /\ InActiveWindow(window, clock)
  /\ clock % 240 = 0
  /\ interval = 0
  /\ wait = 0
  /\ result = "success"

\* Variant: every visit starts over from the configured initial interval.
PreviousForgotten == Initial

Previous == IF interval = 0 THEN Initial ELSE interval

\* The next record after a visit at minute t of the day, and its schedule.
Schedule(t, percent) ==
  LET next == NextInterval(Previous, percent) IN
  /\ interval' = next
  /\ wait' = Reschedule(window, t + next) - t

\* A visit, delay minutes after the row came due.
Visit(delay) ==
  LET at == clock + wait + delay IN
  /\ InActiveWindow(window, at)
  /\ clock' = MinuteOfDay(at)
  /\ UNCHANGED window

VisitSuccess(delay) ==
  /\ "success" \in Results
  /\ Visit(delay)
  /\ interval' = 0
  /\ wait' = 0
  /\ result' = "success"

VisitNoChange(delay) ==
  /\ "no_change" \in Results
  /\ Visit(delay)
  /\ Schedule(clock', 100)
  /\ result' = "no_change"

VisitToolError(delay, percent) ==
  /\ "tool_error" \in Results
  /\ Visit(delay)
  /\ Schedule(clock', IF Raw.jitter THEN percent ELSE 100)
  /\ result' = "tool_error"

Next ==
  \E delay \in Delays :
    \/ VisitSuccess(delay)
    \/ VisitNoChange(delay)
    \/ \E percent \in Jitters : VisitToolError(delay, percent)

Spec == Init /\ [][Next]_vars

\* A routine that is active keeps visiting the row when it comes due.
FairSpec == Spec /\ WF_vars(Next)

-----------------------------------------------------------------------------
(* Properties. *)

\* The next check is an instant at which the scheduler will run the sweep: what
\* reschedule_to_window computes is what in_active_window accepts.
NextInWindow == interval > 0 => InActiveWindow(window, clock + wait)

Closed == IF window[1] < window[2]
          THEN MinutesPerDay - (window[2] - window[1])
          ELSE window[1] - window[2]

\* The window only ever puts a check off, by at most the time it is closed: a row
\* is never visited before its interval is over, and never left longer than the
\* largest interval and one closed period.
WaitBounded == interval > 0 => wait \in interval..interval + Closed

\* A visit that finds nothing new never shortens the interval, whatever rounding,
\* jitter and the cap did before.
NeverShortens ==
  [][\A delay \in Delays : VisitNoChange(delay) => interval' >= interval]_vars

\* Backing off goes on: if from some moment on every visit finds nothing new, the
\* interval reaches its maximum and stays there.  (It needs a growth that
\* rounding cannot swallow: from one minute a multiplier of 1.3 gets nowhere, from
\* two it does.)
BacksOffToMax ==
  <>[][\E delay \in Delays : VisitNoChange(delay)]_vars => <>[](interval = MaxMinutes)
=============================================================================
