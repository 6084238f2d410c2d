------------------------- MODULE CompositionProofs --------------------------
(***************************************************************************)
(* Proofs about the next run of a schedule (NextRun), for every time zone, *)
(* instant and schedule; about the reports, for every record and request;  *)
(* and about a workspace as a whole (Workspace): the steps of its          *)
(* components are steps of each of them, so that what each of them         *)
(* promises alone holds in the workspace.                                  *)
(***************************************************************************)
EXTENDS Workspace, AccountProofs, WorkspaceProofs

-----------------------------------------------------------------------------
(* Time zones and days                                                     *)

\* A zone is ahead of UTC by its offset or by one hour more.
LEMMA OffsetType ==
    ASSUME NEW zone \in Zone, NEW t \in Int
    PROVE  Offset(zone, t) \in {zone.offset, zone.offset + 1}
BY DEF Offset, Zone

\* The candidate of a day lies where the clock of one of the two offsets shows the hour.
LEMMA CandidateRange ==
    ASSUME NEW zone \in Zone, NEW day \in Int, NEW hour \in 0 .. Hours - 1
    PROVE  /\ ZonedToUtc(zone, day, hour) \in Int
           /\ ZonedToUtc(zone, day, hour) >= 24 * day + hour - zone.offset - 1
           /\ ZonedToUtc(zone, day, hour) <= 24 * day + hour - zone.offset
<1> DEFINE guess == day * Hours + hour
           first == guess - Offset(zone, guess)
<1>1. guess \in Int /\ guess = 24 * day + hour /\ zone.offset \in Int
  BY DEF Hours, Zone
<1>2. Offset(zone, guess) \in {zone.offset, zone.offset + 1}
  BY <1>1, OffsetType
<1>3. first \in Int
  BY <1>1, <1>2
<1>4. Offset(zone, first) \in {zone.offset, zone.offset + 1}
  BY <1>3, OffsetType
<1>5. ZonedToUtc(zone, day, hour) = guess - Offset(zone, first)
  BY DEF ZonedToUtc
<1> HIDE DEF guess, first
<1> QED BY <1>1, <1>4, <1>5

\* A later day has no earlier candidate: clocks are changed by less than a day.
LEMMA LaterDay ==
    ASSUME NEW zone \in Zone, NEW hour \in 0 .. Hours - 1, NEW d \in Int, NEW e \in Int, d <= e
    PROVE  ZonedToUtc(zone, d, hour) <= ZonedToUtc(zone, e, hour)
<1>1. CASE d = e
  <2>1. ZonedToUtc(zone, d, hour) \in Int
    BY CandidateRange
  <2> QED BY <1>1, <2>1
<1>2. CASE d # e
  <2>1. 24 * d + hour - zone.offset <= 24 * e + hour - zone.offset - 1
    BY <1>2 DEF Hours, Zone
  <2>2. zone.offset \in Int /\ hour \in Int
    BY DEF Zone, Hours
  <2>3. ZonedToUtc(zone, d, hour) \in Int /\ ZonedToUtc(zone, e, hour) \in Int
    BY CandidateRange
  <2>4. ZonedToUtc(zone, d, hour) <= 24 * d + hour - zone.offset
    BY CandidateRange
  <2>5. ZonedToUtc(zone, e, hour) >= 24 * e + hour - zone.offset - 1
    BY CandidateRange
  <2> QED BY <2>1, <2>2, <2>3, <2>4, <2>5
<1> QED BY <1>1, <1>2

\* Where an instant lies in the local day that it belongs to.
LEMMA TodayRange ==
    ASSUME NEW zone \in Zone, NEW t \in Int
    PROVE  /\ LocalDay(zone, t) \in Int
           /\ 24 * LocalDay(zone, t) - zone.offset - 1 <= t
           /\ t <= 24 * LocalDay(zone, t) + 23 - zone.offset
<1>1. LocalHour(zone, t) \in Int /\ LocalHour(zone, t) \in {t + zone.offset, t + zone.offset + 1}
  BY OffsetType DEF LocalHour, Zone
<1>2. \A h \in Int : h \div 24 \in Int /\ 24 * (h \div 24) <= h /\ h <= 24 * (h \div 24) + 23
  OBVIOUS
<1> QED BY <1>1, <1>2 DEF LocalDay, Hours, Zone

\* A number is a multiple of n and a remainder in one way.
LEMMA DivisionIsUnique ==
    ASSUME NEW n \in Nat \ {0}, NEW k \in Int, NEW r \in 0 .. n - 1
    PROVE  (n * k + r) % n = r
<1> DEFINE a == n * k + r
           j == a \div n
           s == a % n
<1>1. a \in Int
  OBVIOUS
<1>2. j \in Int /\ s \in 0 .. n - 1 /\ a = n * j + s
  BY <1>1
<1>3. \A d \in Nat \ {0} : n * d >= n
  OBVIOUS
<1>4. n * (k - j) = s - r
  BY <1>2
<1>5. ~(k > j)
  <2> SUFFICES ASSUME k > j PROVE FALSE
    OBVIOUS
  <2>1. n * (k - j) >= n
    BY <1>2, <1>3
  <2> HIDE DEF j, s
  <2> QED BY <1>2, <1>4, <2>1
<1>6. ~(j > k)
  <2> SUFFICES ASSUME j > k PROVE FALSE
    OBVIOUS
  <2>1. n * (j - k) >= n
    BY <1>2, <1>3
  <2>2. n * (j - k) = r - s
    BY <1>2
  <2> HIDE DEF j, s
  <2> QED BY <1>2, <2>1, <2>2
<1>7. j = k
  BY <1>2, <1>5, <1>6
<1>8. n * j = n * k
  BY <1>7
<1> HIDE DEF j
<1> QED BY <1>2, <1>8

\* Among n days that follow each other one has a given remainder.
LEMMA ModPeriod ==
    ASSUME NEW t \in Int, NEW n \in Nat \ {0}, NEW q \in 0 .. n - 1
    PROVE  \E i \in 0 .. n - 1 : (t + i) % n = q
<1>1. PICK k \in Int, r \in 0 .. n - 1 : t = n * k + r
  <2> DEFINE j == t \div n
             s == t % n
  <2>1. j \in Int
    OBVIOUS
  <2>2. s \in 0 .. n - 1 /\ t = n * j + s
    OBVIOUS
  <2> QED BY <2>1, <2>2
<1>2. CASE r <= q
  <2>1. q - r \in 0 .. n - 1 /\ t + (q - r) = n * k + q
    BY <1>1, <1>2
  <2> QED BY <2>1, DivisionIsUnique
<1>3. CASE r > q
  <2>1. q - r + n \in 0 .. n - 1 /\ t + (q - r + n) = n * (k + 1) + q
    BY <1>1, <1>3
  <2>2. (n * (k + 1) + q) % n = q
    BY DivisionIsUnique
  <2> QED BY <2>1, <2>2
<1> QED BY <1>1, <1>2, <1>3
\* The days that are tried, from the day after tomorrow on, contain one that the
\* frequency allows.
LEMMA ADayMatches ==
    ASSUME NEW q \in Query, NEW today \in Int
    PROVE  \E i \in 2 .. Horizon : Matches(q, today + i)
<1>1. MonthLength \in Nat \ {0} /\ Horizon \in Nat /\ Horizon > 7 /\ Horizon > MonthLength
  BY NextRunAssumption
<1>2. /\ q.frequency \in {"daily", "weekly", "monthly"} /\ q.day \in Nat
      /\ q.day < Period(q.frequency)
  BY DEF Query
<1>3. CASE q.frequency = "daily"
  BY <1>1, <1>3 DEF Matches
<1>4. ASSUME NEW n \in Nat \ {0}, q.day \in 0 .. n - 1, Horizon > n
      PROVE  \E i \in 2 .. Horizon : (today + i) % n = q.day
  <2>0. today + 2 \in Int
    OBVIOUS
  <2> DEFINE t == today + 2
             named == q.day
  <2>1. \E i \in 0 .. n - 1 : (t + i) % n = named
    <3> HIDE DEF t, named
    <3>1. t \in Int /\ named \in 0 .. n - 1
      BY <1>4, <2>0 DEF t, named
    <3> QED BY <3>1, ModPeriod
  <2>2. PICK i \in 0 .. n - 1 : (today + 2 + i) % n = q.day
    BY <2>1
  <2>3. i + 2 \in 2 .. Horizon /\ today + 2 + i = today + (i + 2)
    BY <1>1, <1>4
  <2> QED BY <2>2, <2>3
<1>5. CASE q.frequency = "weekly"
  <2>1. q.day \in 0 .. 7 - 1
    BY <1>2, <1>5 DEF Period
  <2>2. 7 \in Nat \ {0} /\ Horizon > 7
    BY <1>1
  <2>3. \A n \in {7} : \E i \in 2 .. Horizon : (today + i) % n = q.day
    BY <1>4, <2>1, <2>2
  <2>4. \E i \in 2 .. Horizon : (today + i) % 7 = q.day
    BY <2>3
  <2> QED BY <1>5, <2>4 DEF Matches
<1>6. CASE q.frequency = "monthly"
  <2>1. q.day \in 0 .. MonthLength - 1
    BY <1>1, <1>2, <1>6 DEF Period
  <2>2. \E i \in 2 .. Horizon : (today + i) % MonthLength = q.day
    BY <1>1, <1>4, <2>1
  <2> QED BY <1>6, <2>2 DEF Matches
<1> QED BY <1>2, <1>3, <1>5, <1>6

\* Fits(i) of ComputeNextRun.
FitsAt(q, i) ==
    LET today == LocalDay(q.zone, q.from)
    IN  /\ Matches(q, today + i)
        /\ ZonedToUtc(q.zone, today + i, q.hour) > q.from

\* The loop of computeNextRun ends with the first day whose candidate is later.
LEMMA RunIsFirst ==
    ASSUME NEW q \in Query,
           NEW today, today = LocalDay(q.zone, q.from)
    PROVE  \E i \in 0 .. Horizon :
              /\ FitsAt(q, i)
              /\ \A j \in 0 .. Horizon : FitsAt(q, j) => i <= j
              /\ ComputeNextRun(q) = ZonedToUtc(q.zone, today + i, q.hour)
<1>1. Horizon \in Nat
  BY NextRunAssumption
<1>2. q.zone \in Zone /\ q.from \in Int /\ q.hour \in 0 .. Hours - 1
  BY DEF Query
<1>3. today \in Int /\ q.from <= 24 * today + 23 - q.zone.offset
  BY <1>2, TodayRange
<1> DEFINE T == {i \in 0 .. Horizon : FitsAt(q, i)}
<1>4. T # {}
  <2>1. PICK i \in 2 .. Horizon : Matches(q, today + i)
    BY <1>3, ADayMatches
  <2>2. q.zone.offset \in Int
    BY <1>2 DEF Zone
  <2>3. today + i \in Int /\ 24 * (today + i) >= 24 * today + 48
    BY <1>3, <2>1
  <2>4. ZonedToUtc(q.zone, today + i, q.hour) \in Int
    BY <1>2, <2>3, CandidateRange
  <2>5. ZonedToUtc(q.zone, today + i, q.hour) >= 24 * (today + i) + q.hour - q.zone.offset - 1
    BY <1>2, <2>3, CandidateRange
  <2>6. ZonedToUtc(q.zone, today + i, q.hour) > q.from
    BY <1>2, <1>3, <2>2, <2>3, <2>4, <2>5 DEF Hours
  <2>7. FitsAt(q, i)
    BY <2>1, <2>6 DEF FitsAt
  <2> QED BY <1>1, <2>1, <2>7
<1>5. PICK m \in T : \A j \in T : m <= j
  <2>1. T \in SUBSET Nat
    BY <1>1
  <2> HIDE DEF T
  <2> QED BY <1>4, <2>1, LeastNumber
<1>6. \A i \in 0 .. Horizon : FitsAt(q, i) /\ (\A j \in 0 .. Horizon : FitsAt(q, j) => i <= j) => i = m
  BY <1>5
<1> DEFINE first == CHOOSE i \in 0 .. Horizon :
                      FitsAt(q, i) /\ \A j \in 0 .. Horizon : FitsAt(q, j) => i <= j
<1>7. first = m
  BY <1>5, <1>6
<1>8. ComputeNextRun(q) = ZonedToUtc(q.zone, today + first, q.hour)
  BY DEF ComputeNextRun, FitsAt
<1> QED BY <1>5, <1>7, <1>8

\* The next run is later than the instant it is computed from, and no candidate lies
\* between the two.
LEMMA NothingIsBetween ==
    ASSUME NEW q \in Query
    PROVE  /\ q.from < ComputeNextRun(q)
           /\ NothingBetween(q, ComputeNextRun(q))
<1> DEFINE today == LocalDay(q.zone, q.from)
           run == ComputeNextRun(q)
<1>1. q.zone \in Zone /\ q.from \in Int /\ q.hour \in 0 .. Hours - 1 /\ q.zone.offset \in Int
  BY DEF Query, Zone
<1>2. today \in Int /\ 24 * today - q.zone.offset - 1 <= q.from
  BY <1>1, TodayRange
<1>3. PICK i \in 0 .. Horizon :
              /\ FitsAt(q, i)
              /\ \A j \in 0 .. Horizon : FitsAt(q, j) => i <= j
              /\ run = ZonedToUtc(q.zone, today + i, q.hour)
  BY RunIsFirst
<1>4. q.from < run
  BY <1>1, <1>2, <1>3, CandidateRange DEF FitsAt
<1>5. Horizon \in Nat
  BY NextRunAssumption
<1>6. ASSUME NEW day \in today - 2 .. today + Horizon, Matches(q, day)
      PROVE  \/ ZonedToUtc(q.zone, day, q.hour) <= q.from
             \/ run <= ZonedToUtc(q.zone, day, q.hour)
  <2> HIDE DEF today, run
  <2>0. day \in Int /\ ZonedToUtc(q.zone, day, q.hour) \in Int
    BY <1>1, <1>2, <1>5, CandidateRange
  <2>1. CASE day < today
    <3>1. ZonedToUtc(q.zone, day, q.hour) <= 24 * day + q.hour - q.zone.offset
      BY <1>1, <2>0, CandidateRange
    <3>2. 24 * day <= 24 * today - 24
      BY <1>2, <2>0, <2>1
    <3> QED BY <1>1, <1>2, <2>0, <3>1, <3>2 DEF Hours
  <2>2. CASE day >= today /\ ZonedToUtc(q.zone, day, q.hour) > q.from
    <3> DEFINE j == day - today
    <3>1. j \in 0 .. Horizon /\ day = today + j
      BY <1>2, <1>5, <1>6, <2>0, <2>2
    <3>2. FitsAt(q, j)
      BY <1>6, <2>2, <3>1 DEF FitsAt, today
    <3>3. today + i \in Int /\ today + i <= day
      BY <1>2, <1>3, <2>0, <3>1, <3>2
    <3> QED BY <1>1, <1>3, <2>0, <3>3, LaterDay
  <2> QED BY <1>1, <1>2, <2>0, <2>1, <2>2
<1> QED BY <1>4, <1>6 DEF NothingBetween

\* Less than five hours before or after an hour, the clock does not show it.
LEMMA NearbyHour ==
    ASSUME NEW day \in Int, NEW hour \in 0 .. 23, NEW e \in -4 .. 4, e # 0
    PROVE  (24 * day + hour + e) % 24 # hour
<1>1. \A n \in Nat \ {0}, k \in Int : \A r \in 0 .. n - 1 : (n * k + r) % n = r
  BY DivisionIsUnique
<1>2. 24 \in Nat \ {0} /\ 24 - 1 = 23
  OBVIOUS
<1>3. \A k \in Int, r \in 0 .. 23 : (24 * k + r) % 24 = r
  BY <1>1, <1>2
<1>4. PICK k \in Int, r \in 0 .. 23 : 24 * day + hour + e = 24 * k + r /\ r # hour
  <2>1. CASE hour + e < 0
    <3>1. 24 * day + hour + e = 24 * (day - 1) + (hour + e + 24)
      OBVIOUS
    <3>2. day - 1 \in Int /\ hour + e + 24 \in 0 .. 23 /\ hour + e + 24 # hour
      BY <2>1
    <3> QED BY <3>1, <3>2
  <2>2. CASE hour + e \in 0 .. 23
    <3>1. 24 * day + hour + e = 24 * day + (hour + e)
      OBVIOUS
    <3> QED BY <2>2, <3>1
  <2>3. CASE hour + e > 23
    <3>1. 24 * day + hour + e = 24 * (day + 1) + (hour + e - 24)
      OBVIOUS
    <3>2. day + 1 \in Int /\ hour + e - 24 \in 0 .. 23 /\ hour + e - 24 # hour
      BY <2>3
    <3> QED BY <3>1, <3>2
  <2> QED BY <2>1, <2>2, <2>3
<1> QED BY <1>3, <1>4

\* zonedDateToUtc finds the hour that the schedule names.  Its second look at the offset
\* differs from the offset of what it returns only where that hour is skipped.
LEMMA TheHourIsShown ==
    ASSUME NEW q \in Query, NEW day \in Int
    PROVE  ShowsHour(q, ZonedToUtc(q.zone, day, q.hour))
<1> DEFINE zone == q.zone
           hour == q.hour
           S == zone.summer
           W == zone.winter
           o == zone.offset
           O(t) == Offset(zone, t)
           g == 24 * day + hour
           f == g - O(g)
           c == g - O(f)
<1>1. zone \in Zone /\ hour \in 0 .. 23 /\ S \in Int /\ W \in Int /\ o \in Int
  BY DEF Query, Zone, Hours
<1>2. \A t \in Int : O(t) = IF S <= t /\ t < W THEN o + 1 ELSE o
  BY DEF Offset
<1>3. ZonedToUtc(zone, day, hour) = c
  BY <1>1 DEF ZonedToUtc, Hours
<1> HIDE DEF zone, hour, S, W, o, O
<1>4. g \in Int /\ f \in Int /\ c \in Int
  BY <1>1, <1>2
<1>5. \A t \in Int : LocalHour(zone, t) = t + O(t)
  BY DEF LocalHour, O
<1>6. CASE O(c) = O(f)
  <2>1. O(f) \in Int
    BY <1>1, <1>2, <1>4
  <2>2. LocalHour(zone, c) = g
    BY <1>4, <1>5, <1>6, <2>1
  <2>3. 24 \in Nat \ {0} /\ hour \in 0 .. 24 - 1
    BY <1>1
  <2>4. \A n \in Nat \ {0} : \A h \in 0 .. n - 1 : (n * day + h) % n = h
    BY DivisionIsUnique
  <2>5. (24 * day + hour) % 24 = hour
    BY <2>3, <2>4
  <2> QED BY <1>3, <2>2, <2>5 DEF ShowsHour, Hours, zone, hour
<1>7. CASE O(c) # O(f)
  <2>1. /\ O(g) = IF S <= g /\ g < W THEN o + 1 ELSE o
        /\ O(f) = IF S <= f /\ f < W THEN o + 1 ELSE o
        /\ O(c) = IF S <= c /\ c < W THEN o + 1 ELSE o
    BY <1>2, <1>4
  <2>2. O(g) # O(f)
    BY <1>7
  <2>3. S < W /\ g = S + o /\ c \in {S - 1, S}
    <3>1. O(g) \in Int /\ O(f) \in Int /\ f = g - O(g) /\ c = g - O(f)
      BY <1>1, <2>1
    <3> HIDE DEF f, c, g
    <3>2. CASE O(g) = o /\ O(f) = o + 1
      BY <1>1, <1>4, <1>7, <2>1, <3>1, <3>2
    <3>3. CASE O(g) = o + 1 /\ O(f) = o
      BY <1>1, <1>4, <1>7, <2>1, <3>1, <3>3
    <3> QED BY <2>1, <2>2, <3>2, <3>3
  <2>4. ASSUME NEW u \in c - 2 .. c + 2
        PROVE  LocalHour(zone, u) % 24 # hour
    <3>1. u \in Int /\ u - S \in -3 .. 2
      BY <1>1, <2>3
    <3>2. O(u) \in {o, o + 1} /\ (u < S => O(u) = o) /\ (u = S => O(u) = o + 1)
      BY <1>1, <1>2, <2>3, <3>1
    <3> DEFINE e == u + O(u) - g
    <3>3. e \in -4 .. 4 /\ e # 0
      BY <1>1, <1>4, <2>3, <3>1, <3>2
    <3>4. LocalHour(zone, u) = 24 * day + hour + e
      BY <1>1, <1>5, <3>1, <3>2
    <3> HIDE DEF e
    <3> QED BY <1>1, <3>3, <3>4, NearbyHour
  <2> QED BY <1>3, <2>4 DEF ShowsHour, Hours, zone, hour
<1> QED BY <1>6, <1>7

\* computeNextRun gives, for every zone with one summer time, every instant and every
\* schedule, a later time at the hour that is asked for, and leaves no run out.
THEOREM NextRunCorrect ==
    \A q \in Query : NextRunIsRight(q)
<1> SUFFICES ASSUME NEW q \in Query
             PROVE  NextRunIsRight(q)
  OBVIOUS
<1> DEFINE today == LocalDay(q.zone, q.from)
<1>1. PICK i \in 0 .. Horizon : ComputeNextRun(q) = ZonedToUtc(q.zone, today + i, q.hour)
  BY RunIsFirst
<1>2. q.zone \in Zone /\ q.from \in Int
  BY DEF Query
<1>3. today + i \in Int
  BY <1>2, TodayRange, NextRunAssumption
<1>4. ShowsHour(q, ComputeNextRun(q))
  BY <1>1, <1>3, TheHourIsShown
<1> QED BY <1>4, NothingIsBetween DEF NextRunIsRight

-----------------------------------------------------------------------------
(* The revenue pack and its drilldowns                                     *)

\* COALESCE of two values.
LEMMA CoalesceTwo ==
    ASSUME NEW a, NEW b
    PROVE  Coalesce(<<a, b>>) = IF a # None THEN a ELSE b
<1> DEFINE v == <<a, b>>
           present == {i \in DOMAIN v : v[i] # None}
           first == CHOOSE i \in present : \A j \in present : i <= j
<1>1. DOMAIN v = 1 .. 2 /\ v[1] = a /\ v[2] = b
  OBVIOUS
<1>2. Coalesce(v) = IF present = {} THEN None ELSE v[first]
  BY DEF Coalesce
<1>3. CASE a # None
  <2>1. 1 \in present /\ \A j \in present : 1 <= j
    BY <1>1, <1>3
  <2>2. \A i \in present : (\A j \in present : i <= j) => i = 1
    BY <1>1, <2>1
  <2>3. first = 1
    BY <2>1, <2>2
  <2> QED BY <1>1, <1>2, <1>3, <2>1, <2>3
<1>4. CASE a = None /\ b # None
  <2>1. present = {2}
    BY <1>1, <1>4
  <2>2. first = 2
    BY <2>1
  <2> QED BY <1>1, <1>2, <1>4, <2>1, <2>2
<1>5. CASE a = None /\ b = None
  <2>1. present = {}
    BY <1>1, <1>5
  <2> QED BY <1>2, <1>5, <2>1
<1> QED BY <1>3, <1>4, <1>5

\* COALESCE of values of which the last is not missing is one that is not missing.
LEMMA CoalesceValue ==
    ASSUME NEW S, NEW n \in Nat \ {0}, NEW v \in [1 .. n -> S \cup {None}], v[n] # None
    PROVE  Coalesce(v) \in S /\ Coalesce(v) # None
<1> DEFINE present == {i \in DOMAIN v : v[i] # None}
           first == CHOOSE i \in present : \A j \in present : i <= j
<1>1. n \in present /\ present \in SUBSET Nat /\ DOMAIN v = 1 .. n
  OBVIOUS
<1>2. PICK m \in present : \A j \in present : m <= j
  BY <1>1, LeastNumber
<1>3. first \in present
  BY <1>2
<1>4. Coalesce(v) = v[first]
  BY <1>1 DEF Coalesce
<1> HIDE DEF first
<1> QED BY <1>1, <1>3, <1>4

\* The days that the reports read of a record are never missing.
LEMMA DaysOfRecord ==
    ASSUME NEW r \in Record
    PROVE  /\ ActivityAt(r) \in Int /\ CreatedAt(r) \in Int /\ WonAt(r) \in Int /\ RecordAt(r) \in Int
           /\ None \notin Int
<1>0. None \notin Int
  BY CrmRecordsAssumption
<1>1. r.synced \in Int /\ {r.created, r.updated, r.stamp, r.start, r.close} \subseteq Int \cup {None}
  BY DEF Record, Day
<1>2. ActivityAt(r) \in Int
  <2> DEFINE v == <<r.stamp, r.start, r.created, r.updated, r.synced>>
  <2>1. v \in [1 .. 5 -> Int \cup {None}] /\ v[5] # None /\ 5 \in Nat \ {0}
    BY <1>0, <1>1
  <2>2. Coalesce(v) \in Int
    <3> HIDE DEF v
    <3> QED BY <2>1, CoalesceValue
  <2> QED BY <2>2 DEF ActivityAt
<1>3. CreatedAt(r) \in Int
  BY <1>0, <1>1, CoalesceTwo DEF CreatedAt
<1>4. WonAt(r) \in Int
  <2> DEFINE v == <<r.close, r.updated, r.synced>>
  <2>1. v \in [1 .. 3 -> Int \cup {None}] /\ v[3] # None /\ 3 \in Nat \ {0}
    BY <1>0, <1>1
  <2>2. Coalesce(v) \in Int
    <3> HIDE DEF v
    <3> QED BY <2>1, CoalesceValue
  <2> QED BY <2>2 DEF WonAt
<1> QED BY <1>0, <1>2, <1>3, <1>4 DEF RecordAt

\* Every number of the revenue pack counts the records that its drilldown lists.
LEMMA RevenueNumbersListed ==
    ASSUME NEW r \in Record, NEW wanted
    PROVE  NumbersAreListed(r, wanted)
<1> DEFINE N == OverviewMetrics(r, wanted) \cup AttentionSnapshot(r, wanted)
           D(key) == Drilldown(key, r, wanted, None)
<1>1. r.type = "contacts" => ("untouched" \in N <=> D("untouched-contacts"))
  BY DEF OverviewMetrics, AttentionSnapshot, Drilldown, DrilldownCondition, PeriodDrilldowns, Activities
<1>2. r.type = "contacts" => ("stale" \in N <=> D("stale-contacts"))
  BY DEF OverviewMetrics, AttentionSnapshot, Drilldown, DrilldownCondition, PeriodDrilldowns, Activities
<1>3. r.type = "contacts" => ("missing_owner" \in N <=> D("missing-owner-contacts"))
  BY DEF OverviewMetrics, AttentionSnapshot, Drilldown, DrilldownCondition, PeriodDrilldowns, Activities
<1>4. r.type = "tasks" => ("overdue_tasks" \in N <=> D("overdue-tasks"))
  BY DEF OverviewMetrics, AttentionSnapshot, Drilldown, DrilldownCondition, PeriodDrilldowns,
         Activities, OpenTask
<1>5. r.type = "deals" => ("no_next_activity" \in N <=> D("no-next-activity-deals"))
  BY DEF OverviewMetrics, AttentionSnapshot, Drilldown, DrilldownCondition, PeriodDrilldowns,
         Activities, OpenDeal
<1>6. r.type = "deals" => ("overdue_close" \in N <=> D("overdue-close-deals"))
  BY DEF OverviewMetrics, AttentionSnapshot, Drilldown, DrilldownCondition, PeriodDrilldowns,
         Activities, OpenDeal
<1>7. r.type = "deals" => ("openDeals" \in N <=> D("open-deals"))
  BY DEF OverviewMetrics, AttentionSnapshot, Drilldown, DrilldownCondition, PeriodDrilldowns,
         Activities, OpenDeal
<1>8. r.type = "deals" => ("wonDeals" \in N <=> D("won-deals"))
  BY DEF OverviewMetrics, AttentionSnapshot, Drilldown, DrilldownCondition, PeriodDrilldowns, Activities
<1>9. r.type = "calls" => ("calls" \in N <=> D("calls"))
  BY DEF OverviewMetrics, AttentionSnapshot, Drilldown, DrilldownCondition, PeriodDrilldowns, Activities,
         ActivityPredicate, InScope, ObjectPredicate, OwnerOf, RecordAt
<1>10. r.type = "meetings" => ("meetings" \in N <=> D("meetings"))
  BY DEF OverviewMetrics, AttentionSnapshot, Drilldown, DrilldownCondition, PeriodDrilldowns, Activities,
         ActivityPredicate, InScope, ObjectPredicate, OwnerOf, RecordAt
<1>11. r.type = "tasks" => ("overdueTasks" \in N <=> D("overdue-tasks"))
  BY DEF OverviewMetrics, AttentionSnapshot, Drilldown, DrilldownCondition, PeriodDrilldowns,
         Activities, OpenTask
<1> HIDE DEF N, D
<1>12. \A number \in DOMAIN RevenueDrilldownOf :
        DrilldownType[RevenueDrilldownOf[number]] = r.type =>
            (number \in N <=> D(RevenueDrilldownOf[number]))
  <2>1. DOMAIN RevenueDrilldownOf = {"untouched", "stale", "missing_owner", "overdue_tasks",
           "no_next_activity", "overdue_close", "openDeals", "wonDeals", "calls", "meetings", "overdueTasks"}
    BY DEF RevenueDrilldownOf
  <2> QED BY <1>1, <1>2, <1>3, <1>4, <1>5, <1>6, <1>7, <1>8, <1>9, <1>10, <1>11, <2>1
       DEF RevenueDrilldownOf, DrilldownType
<1> QED BY <1>12 DEF NumbersAreListed, N, D

\* Every segment of a breakdown counts the records that its drilldown lists.
LEMMA RevenueSegmentsListed ==
    ASSUME NEW r \in Record, NEW wanted
    PROVE  SegmentsAreListed(r, wanted)
<1> SUFFICES ASSUME r.type \in {"contacts", "companies"}
             PROVE  \A key \in DimensionDrilldowns :
                      LET dimension == CASE key = "by-segment" -> "segment"
                                         [] key = "by-country" -> "country"
                                         [] key = "created-month" -> "createdMonthly"
                          value == CASE key = "by-segment" -> SegmentOf(r)
                                     [] key = "by-country" -> CountryOf(r)
                                     [] key = "created-month" -> MonthOf(CreatedAt(r))
                      IN  Clean(value) = value =>
                              (<<dimension, value>> \in CrmBreakdown(r, wanted)
                                  <=> Drilldown(key, r, wanted, value))
  BY DEF SegmentsAreListed
<1> DEFINE B == CrmBreakdown(r, wanted)
           scope == InScope(r, wanted)
           during == During(wanted, RecordAt(r))
<1>1. B = IF scope THEN {<<"segment", SegmentOf(r)>>, <<"country", CountryOf(r)>>}
                         \cup IF during THEN {<<"createdMonthly", MonthOf(CreatedAt(r))>>} ELSE {}
                   ELSE {}
  BY DEF CrmBreakdown
<1>2. <<"segment", SegmentOf(r)>> \in B <=> scope
  <2> HIDE DEF scope, during
  <2> QED BY <1>1
<1>3. <<"country", CountryOf(r)>> \in B <=> scope
  <2> HIDE DEF scope, during
  <2> QED BY <1>1
<1>4. <<"createdMonthly", MonthOf(CreatedAt(r))>> \in B <=> scope /\ during
  <2> HIDE DEF scope, during
  <2> QED BY <1>1
<1> HIDE DEF B
<1>5. \A v : Drilldown("by-segment", r, wanted, v) <=> scope /\ SegmentOf(r) = Clean(v)
  BY DEF Drilldown, DrilldownCondition, PeriodDrilldowns
<1>6. \A v : Drilldown("by-country", r, wanted, v) <=> scope /\ CountryOf(r) = Clean(v)
  BY DEF Drilldown, DrilldownCondition, PeriodDrilldowns
<1>7. \A v : Drilldown("created-month", r, wanted, v)
                <=> scope /\ during /\ MonthOf(CreatedAt(r)) = Clean(v)
  BY DEF Drilldown, DrilldownCondition, PeriodDrilldowns
<1> HIDE DEF scope, during
<1>8. TAKE key \in DimensionDrilldowns
<1>9. CASE key = "by-segment"
  BY <1>2, <1>5, <1>9 DEF B
<1>10. CASE key = "by-country"
  BY <1>3, <1>6, <1>10 DEF B
<1>11. CASE key = "created-month"
  BY <1>4, <1>7, <1>11 DEF B
<1> QED BY <1>8, <1>9, <1>10, <1>11 DEF DimensionDrilldowns

\* How many members a set has that holds one value or none.
LEMMA OneOrNone ==
    ASSUME NEW P \in BOOLEAN, NEW x, NEW S, S = IF P THEN {x} ELSE {}
    PROVE  IsFiniteSet(S) /\ Cardinality(S) = IF P THEN 1 ELSE 0
<1>1. IsFiniteSet({}) /\ Cardinality({}) = 0
  BY FS_EmptySet
<1>2. IsFiniteSet({x}) /\ Cardinality({x}) = 1
  BY FS_Singleton
<1> QED BY <1>1, <1>2

\* When a record is counted in the numbers of the pack that tables break down.
LEMMA OverviewMembers ==
    ASSUME NEW r, NEW wanted
    PROVE  LET numbers == OverviewMetrics(r, wanted)
               scope == InScope(r, wanted)
           IN  /\ numbers \cap Activities
                     = IF ActivityPredicate(r, wanted) THEN {r.type} ELSE {}
               /\ "completedTasks" \in numbers
                     <=> ActivityPredicate(r, wanted) /\ r.type = "tasks" /\ r.done
               /\ "portfolioContacts" \in numbers <=> r.type = "contacts" /\ scope
               /\ "missingOwner" \in numbers <=> r.type = "contacts" /\ scope /\ r.owner = None
               /\ "newContacts" \in numbers
                     <=> r.type = "contacts" /\ scope /\ During(wanted, CreatedAt(r))
               /\ "newCompanies" \in numbers
                     <=> r.type = "companies" /\ scope /\ During(wanted, CreatedAt(r))
               /\ "openDeals" \in numbers <=> OpenDeal(r) /\ scope
               /\ "wonDeals" \in numbers <=> r.type = "deals" /\ scope /\ WonDuring(r, wanted)
<1> DEFINE N == OverviewMetrics(r, wanted)
<1>1. /\ "portfolioContacts" \in N <=> r.type = "contacts" /\ InScope(r, wanted)
      /\ "missingOwner" \in N <=> r.type = "contacts" /\ InScope(r, wanted) /\ r.owner = None
      /\ "newContacts" \in N
            <=> r.type = "contacts" /\ InScope(r, wanted) /\ During(wanted, CreatedAt(r))
  BY DEF OverviewMetrics, Activities
<1>2. "newCompanies" \in N
            <=> r.type = "companies" /\ InScope(r, wanted) /\ During(wanted, CreatedAt(r))
  BY DEF OverviewMetrics, Activities
<1>3. /\ "openDeals" \in N <=> OpenDeal(r) /\ InScope(r, wanted)
      /\ "wonDeals" \in N <=> r.type = "deals" /\ InScope(r, wanted) /\ WonDuring(r, wanted)
  BY DEF OverviewMetrics, Activities, OpenDeal
<1>4. /\ \A x \in Activities : x \in N <=> ActivityPredicate(r, wanted) /\ r.type = x
      /\ "completedTasks" \in N <=> ActivityPredicate(r, wanted) /\ r.type = "tasks" /\ r.done
  BY DEF OverviewMetrics, Activities
<1>5. ActivityPredicate(r, wanted) => r.type \in Activities
  BY DEF ActivityPredicate
<1> HIDE DEF N
<1>6. N \cap Activities = IF ActivityPredicate(r, wanted) THEN {r.type} ELSE {}
  BY <1>4, <1>5
<1> QED BY <1>1, <1>2, <1>3, <1>4, <1>6 DEF N

\* The tables of the pack add up to its numbers.
LEMMA RevenueRowsAddUp ==
    ASSUME NEW r \in Record, NEW wanted \in Filters
    PROVE  RowsAddUp(r, wanted)
<1> DEFINE N == OverviewMetrics(r, wanted)
           P == OverviewMetrics(r, PreviousFilters(wanted))
           scope == InScope(r, wanted)
           active == ActivityPredicate(r, wanted)
<1>1. /\ N \cap Activities = IF active THEN {r.type} ELSE {}
      /\ "completedTasks" \in N <=> active /\ r.type = "tasks" /\ r.done
      /\ "portfolioContacts" \in N <=> r.type = "contacts" /\ scope
      /\ "missingOwner" \in N <=> r.type = "contacts" /\ scope /\ r.owner = None
      /\ "openDeals" \in N <=> OpenDeal(r) /\ scope
  BY OverviewMembers
<1>2. active \in BOOLEAN /\ scope \in BOOLEAN /\ OpenDeal(r) \in BOOLEAN
  BY DEF ActivityPredicate, InScope, CompanyPredicate, ObjectPredicate, OpenDeal, Record
<1>3. Cardinality(N \cap Activities) = IF active THEN 1 ELSE 0
  <2> HIDE DEF N, active
  <2> QED BY <1>1, <1>2, OneOrNone
<1>4. Cardinality(ActivityTrend(r, wanted)) = Cardinality(N \cap Activities)
  <2>1. ActivityAt(r) \in Int /\ wanted.from \in Int /\ wanted.to \in Int
    BY DaysOfRecord DEF Filters
  <2>2. active => During(wanted, ActivityAt(r))
    BY DEF ActivityPredicate
  <2>3. ActivityTrend(r, wanted) = IF active THEN {ActivityAt(r)} ELSE {}
    BY <2>1, <2>2 DEF ActivityTrend, During
  <2>4. Cardinality(ActivityTrend(r, wanted)) = IF active THEN 1 ELSE 0
    <3> HIDE DEF active
    <3> QED BY <2>3, <1>2, OneOrNone
  <2> QED BY <1>3, <2>4
<1>5. Cardinality(PipelineByStage(r, wanted)) = Cardinality(N \cap {"openDeals"})
  <2> DEFINE counted == OpenDeal(r) /\ scope
  <2>1. Cardinality(PipelineByStage(r, wanted)) = IF counted THEN 1 ELSE 0
    <3>1. PipelineByStage(r, wanted) =
            IF counted THEN {<<Coalesce(<<r.pipeline, "unknown">>), Coalesce(<<r.stage, "unknown">>)>>}
            ELSE {}
      BY DEF PipelineByStage
    <3>2. counted \in BOOLEAN
      BY <1>2
    <3> HIDE DEF counted
    <3> QED BY <3>1, <3>2, OneOrNone
  <2>2. Cardinality(N \cap {"openDeals"}) = IF counted THEN 1 ELSE 0
    <3>1. N \cap {"openDeals"} = IF counted THEN {"openDeals"} ELSE {}
      <4> HIDE DEF N, scope
      <4> QED BY <1>1
    <3>2. counted \in BOOLEAN
      BY <1>2
    <3> HIDE DEF counted, N
    <3> QED BY <3>1, <3>2, OneOrNone
  <2> QED BY <2>1, <2>2
<1>6. Cardinality(OutcomeDistributions(r, wanted)) = Cardinality(N \cap Activities)
  <2>1. active <=> r.type \in Activities /\ scope /\ During(wanted, RecordAt(r))
    BY DEF ActivityPredicate, InScope, ObjectPredicate, OwnerOf, RecordAt, Activities
  <2> DEFINE outcome == Coalesce(<<r.outcome, IF r.type = "calls" THEN r.callStatus ELSE None, "Unknown">>)
  <2>2. OutcomeDistributions(r, wanted) = IF active THEN {outcome} ELSE {}
    BY <2>1 DEF OutcomeDistributions
  <2>3. Cardinality(OutcomeDistributions(r, wanted)) = IF active THEN 1 ELSE 0
    <3> HIDE DEF active, outcome
    <3> QED BY <2>2, <1>2, OneOrNone
  <2> QED BY <1>3, <2>3
<1>7. Cardinality(OwnerPerformance(r, wanted)) =
           IF N \cap Activities # {} \/ (r.type = "deals" /\ scope) THEN 1 ELSE 0
  <2> DEFINE counted == active \/ (r.type = "deals" /\ scope)
             who == IF r.type = "deals" THEN OwnerOf(r) ELSE ActivityOwner(r)
  <2>1. active => r.type # "deals"
    BY DEF ActivityPredicate, Activities
  <2>2. OwnerPerformance(r, wanted) = IF counted THEN {who} ELSE {}
    <3> HIDE DEF active, scope
    <3> QED BY <2>1 DEF OwnerPerformance, active, scope
  <2>3. counted \in BOOLEAN
    BY <1>2
  <2>4. Cardinality(OwnerPerformance(r, wanted)) = IF counted THEN 1 ELSE 0
    <3> HIDE DEF counted, who
    <3> QED BY <2>2, <2>3, OneOrNone
  <2>5. N \cap Activities # {} <=> active
    <3> HIDE DEF N, active
    <3> QED BY <1>1
  <2> QED BY <2>4, <2>5
<1>8. Cardinality(LeadSourcePerformance(r, wanted)) = Cardinality(N \cap {"portfolioContacts"})
  <2> DEFINE counted == r.type = "contacts" /\ scope
             deals == {deal \in r.dealsIn : ~deal.archived /\ DealMatches(deal, wanted)}
             row == [source |-> SourceOf(r),
                     contacted |-> r.contacted # None,
                     opportunity |-> \E deal \in deals : ~deal.closed,
                     won |-> \E deal \in deals : deal.won]
  <2>1. counted \in BOOLEAN
    BY <1>2
  <2>2. LeadSourcePerformance(r, wanted) = IF counted THEN {row} ELSE {}
    BY DEF LeadSourcePerformance
  <2>3. N \cap {"portfolioContacts"} = IF counted THEN {"portfolioContacts"} ELSE {}
    <3> HIDE DEF N, scope
    <3> QED BY <1>1
  <2> HIDE DEF counted, row, N
  <2>4. Cardinality(LeadSourcePerformance(r, wanted)) = IF counted THEN 1 ELSE 0
    BY <2>1, <2>2, OneOrNone
  <2>5. Cardinality(N \cap {"portfolioContacts"}) = IF counted THEN 1 ELSE 0
    BY <2>1, <2>3, OneOrNone
  <2> QED BY <2>4, <2>5
<1>9. /\ DataQuality(r, wanted) # {} => "portfolioContacts" \in N
      /\ ("owner" \in DataQuality(r, wanted) \/ "missingOwner" \in N) <=> "portfolioContacts" \in N
  <2> HIDE DEF N
  <2> QED BY <1>1 DEF DataQuality
<1>10. N \cap P \cap ({"newContacts", "newCompanies", "wonDeals", "completedTasks"} \cup Activities) = {}
  <2> DEFINE before == PreviousFilters(wanted)
  <2>1. before.from \in Int /\ before.to = wanted.from - 1 /\ wanted.from \in Int
    BY DEF PreviousFilters, Filters
  <2>2. \A day : ~(During(wanted, day) /\ During(before, day))
             \/ day \notin Int
    BY <2>1 DEF During
  <2>3. ActivityAt(r) \in Int /\ CreatedAt(r) \in Int /\ WonAt(r) \in Int
    BY DaysOfRecord
  <2>4. /\ ~(During(wanted, ActivityAt(r)) /\ During(before, ActivityAt(r)))
        /\ ~(During(wanted, CreatedAt(r)) /\ During(before, CreatedAt(r)))
        /\ ~(During(wanted, WonAt(r)) /\ During(before, WonAt(r)))
    BY <2>2, <2>3
  <2>5. ~(active /\ ActivityPredicate(r, before))
    BY <2>4 DEF ActivityPredicate
  <2>6. ~(WonDuring(r, wanted) /\ WonDuring(r, before))
    BY <2>4 DEF WonDuring
  <2>7. /\ P \cap Activities = IF ActivityPredicate(r, before) THEN {r.type} ELSE {}
        /\ "completedTasks" \in P <=> ActivityPredicate(r, before) /\ r.type = "tasks" /\ r.done
        /\ "newContacts" \in P
              <=> r.type = "contacts" /\ InScope(r, before) /\ During(before, CreatedAt(r))
        /\ "newCompanies" \in P
              <=> r.type = "companies" /\ InScope(r, before) /\ During(before, CreatedAt(r))
        /\ "wonDeals" \in P <=> r.type = "deals" /\ InScope(r, before) /\ WonDuring(r, before)
    BY OverviewMembers
  <2>8. /\ "newContacts" \in N
              <=> r.type = "contacts" /\ scope /\ During(wanted, CreatedAt(r))
        /\ "newCompanies" \in N
              <=> r.type = "companies" /\ scope /\ During(wanted, CreatedAt(r))
        /\ "wonDeals" \in N <=> r.type = "deals" /\ scope /\ WonDuring(r, wanted)
    BY OverviewMembers
  <2> HIDE DEF N, P, active, scope, before
  <2>9. /\ ~({"newContacts"} \subseteq N \cap P) /\ ~({"newCompanies"} \subseteq N \cap P)
        /\ ~({"wonDeals"} \subseteq N \cap P) /\ ~({"completedTasks"} \subseteq N \cap P)
    BY <1>1, <2>4, <2>5, <2>6, <2>7, <2>8
  <2>10. N \cap P \cap Activities = {}
    <3>1. (N \cap Activities) = {} \/ (P \cap Activities) = {}
      BY <1>1, <2>5, <2>7
    <3> QED BY <3>1
  <2> QED BY <2>9, <2>10
<1> QED
  <2> HIDE DEF N, P, scope
  <2> QED BY <1>4, <1>5, <1>6, <1>7, <1>8, <1>9, <1>10 DEF RowsAddUp, N, P, scope

\* Taken together.
LEMMA RevenueReportsAgreeOnRecord ==
    ASSUME NEW r \in Record, NEW wanted \in Filters
    PROVE  RevenueReportsAgree(r, wanted)
BY RevenueNumbersListed, RevenueSegmentsListed, RevenueRowsAddUp DEF RevenueReportsAgree

-----------------------------------------------------------------------------
(* The operating reports                                                   *)

\* When a record is counted in the numbers of the operating reports.
LEMMA OperatingMembers ==
    ASSUME NEW r, NEW wanted, NEW picked
    PROVE  LET N == OperatingNumbers(r, wanted, picked)
               core == CorePredicate(r, wanted)
               during == During(wanted, ActivityAt(r))
               outcome == OutcomeOf(r, picked)
           IN  /\ "portfolioContacts" \in N <=> r.type = "contacts" /\ core
               /\ "newContacts" \in N <=> r.type = "contacts" /\ core /\ During(wanted, CreatedAt(r))
               /\ "contactedContacts" \in N <=> r.type = "contacts" /\ core /\ LastContact(r) # None
               /\ "untouchedContacts" \in N
                     <=> r.type = "contacts" /\ core /\ LastContact(r) = None /\ CreatedAt(r) < Today - 2
               /\ "coldContacts" \in N
                     <=> r.type = "contacts" /\ core /\ Earlier(LastContact(r), Today - 21)
               /\ "connectedCalls" \in N
                     <=> /\ r.type = "calls" /\ core /\ during
                         /\ r.outcome = ConnectedId \/ outcome = "connected"
               /\ "meetingsCompleted" \in N
                     <=> r.type = "meetings" /\ core /\ during /\ outcome = "completed"
               /\ "noShowMeetings" \in N
                     <=> r.type = "meetings" /\ core /\ during /\ outcome = "no-show"
               /\ "completedTasks" \in N <=> r.type = "tasks" /\ core /\ during /\ r.done
               /\ "openTasks" \in N <=> OpenTask(r) /\ core
               /\ "tasksDueToday" \in N <=> OpenTask(r) /\ core /\ DueAt(r) = Today
               /\ "openDeals" \in N <=> OpenDeal(r) /\ core
               /\ "dealsAtRisk" \in N <=> core /\ AtRisk(r)
               /\ "overdueCloseDeals" \in N <=> core /\ OpenDeal(r) /\ Earlier(r.close, Today)
               /\ "closingSoonDeals" \in N <=> core /\ ClosingSoon(r)
               /\ \A label \in {"signed", "booked", "cashing"} :
                     label \in N <=> r.type = "deals" /\ core /\ r.label = label
<1> DEFINE N == OperatingNumbers(r, wanted, picked)
           A == ExecuteActivityReport(r, wanted, picked)
           T == CurrentTaskState(r, wanted)
           C == ContactCoverage(r, wanted)
           H == RevenueHealth(r, wanted)
<1>1. N = A \cup T \cup C \cup H
  BY DEF OperatingNumbers
<1>2. A \subseteq {"calls", "connectedCalls", "meetings", "meetingsCompleted", "noShowMeetings",
                   "tasks", "completedTasks"}
  BY DEF ExecuteActivityReport
<1>3. T \subseteq {"openTasks", "tasksDueToday", "overdueTasks"}
  BY DEF CurrentTaskState
<1>4. C \subseteq {"portfolioContacts", "newContacts", "contactedContacts", "untouchedContacts",
                   "coldContacts", "missingOwnerContacts"}
  BY DEF ContactCoverage
<1>5. H \subseteq {"openDeals", "dealsAtRisk", "overdueCloseDeals", "closingSoonDeals",
                   "wonDeals", "signed", "booked", "cashing"}
  BY DEF RevenueHealth
<1>7. /\ "connectedCalls" \in A <=> /\ r.type = "calls" /\ CorePredicate(r, wanted)
                                    /\ During(wanted, ActivityAt(r))
                                    /\ \/ r.outcome = ConnectedId
                                       \/ OutcomeOf(r, picked) = "connected"
      /\ "meetingsCompleted" \in A <=> /\ r.type = "meetings" /\ CorePredicate(r, wanted)
                                       /\ During(wanted, ActivityAt(r)) /\ OutcomeOf(r, picked) = "completed"
      /\ "noShowMeetings" \in A <=> /\ r.type = "meetings" /\ CorePredicate(r, wanted)
                                    /\ During(wanted, ActivityAt(r)) /\ OutcomeOf(r, picked) = "no-show"
      /\ "completedTasks" \in A <=> /\ r.type = "tasks" /\ CorePredicate(r, wanted)
                                    /\ During(wanted, ActivityAt(r)) /\ r.done
  BY DEF ExecuteActivityReport, Activities
<1>8. /\ "openTasks" \in T <=> OpenTask(r) /\ CorePredicate(r, wanted)
      /\ "tasksDueToday" \in T <=> OpenTask(r) /\ CorePredicate(r, wanted) /\ DueAt(r) = Today
  BY DEF CurrentTaskState
<1>9. /\ "portfolioContacts" \in C <=> r.type = "contacts" /\ CorePredicate(r, wanted)
      /\ "newContacts" \in C
            <=> r.type = "contacts" /\ CorePredicate(r, wanted) /\ During(wanted, CreatedAt(r))
      /\ "contactedContacts" \in C
            <=> r.type = "contacts" /\ CorePredicate(r, wanted) /\ LastContact(r) # None
      /\ "untouchedContacts" \in C
            <=> /\ r.type = "contacts" /\ CorePredicate(r, wanted)
                /\ LastContact(r) = None /\ CreatedAt(r) < Today - 2
      /\ "coldContacts" \in C
            <=> r.type = "contacts" /\ CorePredicate(r, wanted) /\ Earlier(LastContact(r), Today - 21)
  BY DEF ContactCoverage
<1>10. /\ "openDeals" \in H <=> OpenDeal(r) /\ CorePredicate(r, wanted)
       /\ "dealsAtRisk" \in H <=> CorePredicate(r, wanted) /\ AtRisk(r)
       /\ "overdueCloseDeals" \in H
             <=> CorePredicate(r, wanted) /\ OpenDeal(r) /\ Earlier(r.close, Today)
       /\ "closingSoonDeals" \in H <=> CorePredicate(r, wanted) /\ ClosingSoon(r)
       /\ \A label \in {"signed", "booked", "cashing"} :
             label \in H <=> r.type = "deals" /\ CorePredicate(r, wanted) /\ r.label = label
  BY DEF RevenueHealth, AtRisk, ClosingSoon, OpenDeal
<1> HIDE DEF N, A, T, C, H
<1>11. /\ \A x \in {"connectedCalls", "meetingsCompleted", "noShowMeetings", "completedTasks"} :
             x \in N <=> x \in A
       /\ \A x \in {"openTasks", "tasksDueToday"} : x \in N <=> x \in T
       /\ \A x \in {"portfolioContacts", "newContacts", "contactedContacts", "untouchedContacts",
                    "coldContacts"} : x \in N <=> x \in C
       /\ \A x \in {"openDeals", "dealsAtRisk", "overdueCloseDeals", "closingSoonDeals", "signed",
                    "booked", "cashing"} : x \in N <=> x \in H
  <2>1. \A x \in {"connectedCalls", "meetingsCompleted", "noShowMeetings", "completedTasks"} :
             x \in N <=> x \in A
    BY <1>1, <1>3, <1>4, <1>5
  <2>2. \A x \in {"openTasks", "tasksDueToday"} : x \in N <=> x \in T
    BY <1>1, <1>2, <1>4, <1>5
  <2>3. \A x \in {"portfolioContacts", "newContacts", "contactedContacts", "untouchedContacts",
                  "coldContacts"} : x \in N <=> x \in C
    BY <1>1, <1>2, <1>3, <1>5
  <2>4. \A x \in {"openDeals", "dealsAtRisk", "overdueCloseDeals", "closingSoonDeals", "signed",
                  "booked", "cashing"} : x \in N <=> x \in H
    BY <1>1, <1>2, <1>3, <1>4
  <2> QED BY <2>1, <2>2, <2>3, <2>4
<1> QED BY <1>7, <1>8, <1>9, <1>10, <1>11 DEF N

\* Without an approved mapping an outcome is the one that the drilldowns read.
LEMMA DefaultOutcome ==
    ASSUME NEW r \in Record, NEW picked, picked.property = "default", DOMAIN picked.values = {},
           NEW outcome \in Outcomes
    PROVE  OutcomeOf(r, picked) = outcome <=> r.outcome = outcome
<1>1. OutcomeOf(r, picked) = Coalesce(<<r.outcome, "unknown">>)
  BY DEF OutcomeOf
<1>2. Coalesce(<<r.outcome, "unknown">>) = IF r.outcome # None THEN r.outcome ELSE "unknown"
  BY CoalesceTwo
<1>3. outcome # None /\ outcome # "unknown"
  BY CrmRecordsAssumption DEF Outcomes, ConnectedId
<1> QED BY <1>1, <1>2, <1>3

\* An answer is one of its numbers unless it is none.
LEMMA AnsweredIsResult ==
    ASSUME NEW queries, NEW S, Answered(queries, S) # NoAnswer
    PROVE  Answered(queries, S) = S
BY DEF Answered

\* A drilldown that needs no mapping is answered: it lists the records of its type
\* that satisfy its condition.
LEMMA StaticDrilldownLists ==
    ASSUME NEW r, NEW wanted, NEW picked, NEW key,
           key \notin RetentionLists, key # "priority-needs-contact"
    PROVE  key \in OperatingDrilldown(key, r, wanted, picked)
              <=> /\ r.type = OperatingType[key] /\ CorePredicate(r, wanted)
                  /\ StaticCondition(key, r, wanted)
<1>1. Required(key) = {}
  BY DEF Required
<1>2. OperatingQuery(key) = [supplied |-> 10, uses |-> 1 .. 10]
  BY DEF OperatingQuery, RetentionLists
<1>3. Accepted(OperatingQuery(key))
  BY <1>2 DEF Accepted
<1>4. OperatingCondition(key, r, wanted) <=> StaticCondition(key, r, wanted)
  BY DEF OperatingCondition
<1> QED BY <1>1, <1>3, <1>4 DEF OperatingDrilldown, Answered

\* Every operating number counts the records that its drilldown lists, except for
\* the calls that are listed by their status.
LEMMA OperatingNumbersListed ==
    ASSUME NEW r \in Record, NEW wanted, NEW picked,
           picked.property = "default", DOMAIN picked.values = {}
    PROVE  \A number \in DOMAIN OperatingDrilldownOf :
              LET key == OperatingDrilldownOf[number] IN
              number \in OperatingNumbers(r, wanted, picked)
                  <=> /\ key \in OperatingDrilldown(key, r, wanted, picked)
                      /\ ~ListedByStatus(number, r)
<1> DEFINE N == OperatingNumbers(r, wanted, picked)
           D(key) == key \in OperatingDrilldown(key, r, wanted, picked)
           core == CorePredicate(r, wanted)
           during == During(wanted, ActivityAt(r))
<1>0. \A outcome \in Outcomes : OutcomeOf(r, picked) = outcome <=> r.outcome = outcome
  BY DefaultOutcome
<1>1. /\ \A key \in {"portfolio-contacts", "new-contacts", "cold-contacts"} : OperatingType[key] = "contacts"
      /\ OperatingType["connected-calls"] = "calls"
      /\ \A key \in {"completed-meetings", "no-show-meetings"} : OperatingType[key] = "meetings"
      /\ \A key \in {"completed-tasks", "open-tasks", "tasks-due-today"} : OperatingType[key] = "tasks"
      /\ \A key \in {"deals-at-risk", "closing-soon-deals", "signed-contract-deals", "booked-deals",
                     "cashing-deals"} : OperatingType[key] = "deals"
  BY DEF OperatingType
<1>2. \A key \in {"portfolio-contacts", "new-contacts", "cold-contacts", "connected-calls",
                  "completed-meetings", "no-show-meetings", "completed-tasks", "open-tasks",
                  "tasks-due-today", "deals-at-risk", "closing-soon-deals", "signed-contract-deals",
                  "booked-deals", "cashing-deals"} :
         D(key) <=> r.type = OperatingType[key] /\ core /\ StaticCondition(key, r, wanted)
  <2> SUFFICES ASSUME NEW key \in {"portfolio-contacts", "new-contacts", "cold-contacts", "connected-calls",
                                   "completed-meetings", "no-show-meetings", "completed-tasks", "open-tasks",
                                   "tasks-due-today", "deals-at-risk", "closing-soon-deals",
                                   "signed-contract-deals", "booked-deals", "cashing-deals"}
               PROVE  D(key) <=> r.type = OperatingType[key] /\ core /\ StaticCondition(key, r, wanted)
    OBVIOUS
  <2>1. key \notin RetentionLists /\ key # "priority-needs-contact"
    BY DEF RetentionLists
  <2> QED BY <2>1, StaticDrilldownLists
<1> HIDE DEF D, core, during
<1>3. /\ D("portfolio-contacts") <=> r.type = "contacts" /\ core
      /\ D("new-contacts") <=> r.type = "contacts" /\ core /\ During(wanted, CreatedAt(r))
      /\ D("cold-contacts") <=> r.type = "contacts" /\ core /\ Earlier(LastContact(r), Today - 21)
  <2>1. StaticCondition("portfolio-contacts", r, wanted) <=> TRUE
    BY DEF StaticCondition
  <2>2. StaticCondition("new-contacts", r, wanted) <=> During(wanted, CreatedAt(r))
    BY DEF StaticCondition
  <2>3. StaticCondition("cold-contacts", r, wanted) <=> Earlier(LastContact(r), Today - 21)
    BY DEF StaticCondition
  <2> QED BY <1>1, <1>2, <2>1, <2>2, <2>3
<1>4. D("connected-calls")
         <=> /\ r.type = "calls" /\ core /\ during
             /\ r.outcome = ConnectedId \/ Coalesce(<<r.outcome, r.callStatus>>) = "connected"
  <2>1. StaticCondition("connected-calls", r, wanted)
           <=> /\ r.outcome = ConnectedId \/ Coalesce(<<r.outcome, r.callStatus>>) = "connected"
               /\ during
    BY DEF StaticCondition, during
  <2> QED BY <1>1, <1>2, <2>1
<1>5. /\ D("completed-meetings") <=> r.type = "meetings" /\ core /\ r.outcome = "completed" /\ during
      /\ D("no-show-meetings") <=> r.type = "meetings" /\ core /\ r.outcome = "no-show" /\ during
  <2>1. StaticCondition("completed-meetings", r, wanted) <=> r.outcome = "completed" /\ during
    BY DEF StaticCondition, during
  <2>2. StaticCondition("no-show-meetings", r, wanted) <=> r.outcome = "no-show" /\ during
    BY DEF StaticCondition, during
  <2> QED BY <1>1, <1>2, <2>1, <2>2
<1>6. /\ D("completed-tasks") <=> r.type = "tasks" /\ core /\ r.done /\ during
      /\ D("open-tasks") <=> r.type = "tasks" /\ core /\ ~r.done
      /\ D("tasks-due-today") <=> r.type = "tasks" /\ core /\ ~r.done /\ DueAt(r) = Today
  <2>1. StaticCondition("completed-tasks", r, wanted) <=> r.done /\ during
    BY DEF StaticCondition, during
  <2>2. StaticCondition("open-tasks", r, wanted) <=> ~r.done
    BY DEF StaticCondition
  <2>3. StaticCondition("tasks-due-today", r, wanted) <=> ~r.done /\ DueAt(r) = Today
    BY DEF StaticCondition
  <2> QED BY <1>1, <1>2, <2>1, <2>2, <2>3
<1>7. /\ D("deals-at-risk") <=> r.type = "deals" /\ core /\ AtRisk(r)
      /\ D("closing-soon-deals") <=> r.type = "deals" /\ core /\ ClosingSoon(r)
      /\ D("signed-contract-deals") <=> r.type = "deals" /\ core /\ r.label = "signed"
      /\ D("booked-deals") <=> r.type = "deals" /\ core /\ r.label = "booked"
      /\ D("cashing-deals") <=> r.type = "deals" /\ core /\ r.label = "cashing"
  <2>1. StaticCondition("deals-at-risk", r, wanted) <=> AtRisk(r)
    BY DEF StaticCondition
  <2>2. StaticCondition("closing-soon-deals", r, wanted) <=> ClosingSoon(r)
    BY DEF StaticCondition
  <2>3. StaticCondition("signed-contract-deals", r, wanted) <=> r.label = "signed"
    BY DEF StaticCondition
  <2>4. StaticCondition("booked-deals", r, wanted) <=> r.label = "booked"
    BY DEF StaticCondition
  <2>5. StaticCondition("cashing-deals", r, wanted) <=> r.label = "cashing"
    BY DEF StaticCondition
  <2> QED BY <1>1, <1>2, <2>1, <2>2, <2>3, <2>4, <2>5
<1>8. "connectedCalls" \in N
         <=> D("connected-calls") /\ ~(r.outcome = None /\ r.callStatus = "connected")
  <2>1. "connectedCalls" \in N
           <=> /\ r.type = "calls" /\ core /\ during
               /\ r.outcome = ConnectedId \/ r.outcome = "connected"
    BY <1>0, OperatingMembers DEF N, Outcomes, core, during
  <2>2. Coalesce(<<r.outcome, r.callStatus>>) = IF r.outcome # None THEN r.outcome ELSE r.callStatus
    BY CoalesceTwo
  <2>3. None # "connected" /\ None # ConnectedId
    BY CrmRecordsAssumption DEF Outcomes, ConnectedId
  <2> QED BY <1>4, <2>1, <2>2, <2>3
<1>9. /\ "portfolioContacts" \in N <=> D("portfolio-contacts")
      /\ "newContacts" \in N <=> D("new-contacts")
      /\ "coldContacts" \in N <=> D("cold-contacts")
  BY <1>3, OperatingMembers DEF N, core
<1>10. /\ "meetingsCompleted" \in N <=> D("completed-meetings")
       /\ "noShowMeetings" \in N <=> D("no-show-meetings")
  BY <1>0, <1>5, OperatingMembers DEF N, Outcomes, core, during
<1>11. /\ "completedTasks" \in N <=> D("completed-tasks")
       /\ "openTasks" \in N <=> D("open-tasks")
       /\ "tasksDueToday" \in N <=> D("tasks-due-today")
  BY <1>6, OperatingMembers DEF N, core, during, OpenTask
<1>12. /\ "dealsAtRisk" \in N <=> D("deals-at-risk")
       /\ "closingSoonDeals" \in N <=> D("closing-soon-deals")
       /\ "signed" \in N <=> D("signed-contract-deals")
       /\ "booked" \in N <=> D("booked-deals")
       /\ "cashing" \in N <=> D("cashing-deals")
  BY <1>7, OperatingMembers DEF N, core, AtRisk, ClosingSoon, OpenDeal
<1>13. \A number \in DOMAIN OperatingDrilldownOf :
          number \in N <=> D(OperatingDrilldownOf[number]) /\ ~ListedByStatus(number, r)
  <2>1. DOMAIN OperatingDrilldownOf =
           {"portfolioContacts", "newContacts", "coldContacts", "connectedCalls", "meetingsCompleted",
            "noShowMeetings", "completedTasks", "openTasks", "tasksDueToday", "dealsAtRisk",
            "closingSoonDeals", "signed", "booked", "cashing"}
    BY DEF OperatingDrilldownOf
  <2> QED BY <1>8, <1>9, <1>10, <1>11, <1>12, <2>1 DEF OperatingDrilldownOf, ListedByStatus
<1> QED BY <1>13 DEF N, D

\* The activities of the day before the last are activities of a longer period.
LEMMA PreviousDayIncluded ==
    ASSUME NEW r \in Record, NEW wanted \in Filters, NEW picked, wanted.from < wanted.to
    PROVE  ExecuteActivityReport(r, PreviousDay(wanted), picked)
              \subseteq ExecuteActivityReport(r, wanted, picked)
<1> DEFINE day == PreviousDay(wanted)
<1>1. /\ day.from = wanted.to - 1 /\ day.to = wanted.to - 1
      /\ day.owner = wanted.owner /\ day.country = wanted.country /\ day.source = wanted.source
      /\ day.pipeline = wanted.pipeline /\ day.stage = wanted.stage
      /\ wanted.from \in Int /\ wanted.to \in Int
  BY DEF PreviousDay, Filters
<1> HIDE DEF day
<1>2. /\ \A contact : ContactMatches(contact, day) <=> ContactMatches(contact, wanted)
      /\ \A deal : DealMatches(deal, day) <=> DealMatches(deal, wanted)
  BY <1>1 DEF ContactMatches, DealMatches
<1>3. /\ \A links : ByContact(links, day) <=> ByContact(links, wanted)
      /\ \A links : ByDeal(links, day) <=> ByDeal(links, wanted)
  BY <1>1, <1>2 DEF ByContact, ByDeal
<1>4. CorePredicate(r, day) <=> CorePredicate(r, wanted)
  BY <1>1, <1>2, <1>3 DEF CorePredicate
<1>5. During(day, ActivityAt(r)) => During(wanted, ActivityAt(r))
  BY <1>1, DaysOfRecord DEF During
<1> QED BY <1>4, <1>5 DEF ExecuteActivityReport, day

\* The listed that need a mapping.
LEMMA MappedListsAgreeOnRecord ==
    ASSUME NEW r \in Record, NEW wanted, NEW picked
    PROVE  MappedListsAgree(r, wanted, picked)
<1> DEFINE keys == {"priority-needs-contact", "retention-upcoming", "retention-delayed", "retention-lost"}
           listing(key) == OperatingDrilldown(key, r, wanted, picked)
           listed == UNION {listing(key) : key \in keys}
           meets(key) == /\ r.type = OperatingType[key] /\ CorePredicate(r, wanted)
                         /\ OperatingCondition(key, r, wanted)
<1>1. \A key \in keys : listing(key) = NoAnswer \/ listing(key) = {k \in {key} : meets(k)}
  BY DEF OperatingDrilldown, Answered
<1>2. \A key \in keys : "no answer" # key
  OBVIOUS
<1>3. \A key \in keys : key \in listed => meets(key)
  <2> HIDE DEF meets, listing
  <2> SUFFICES ASSUME NEW key \in keys, NEW other \in keys, key \in listing(other) PROVE meets(key)
    OBVIOUS
  <2>1. listing(other) = {"no answer"} \/ listing(other) = {k \in {other} : meets(k)}
    BY <1>1 DEF NoAnswer
  <2> QED BY <1>2, <2>1
<1>4. \A key \in keys : key \in RetentionLists /\ "renewal_date" \in picked.approved /\ meets(key)
                           => key \in listed
  <2> SUFFICES ASSUME NEW key \in keys, key \in RetentionLists,
                      "renewal_date" \in picked.approved, meets(key)
               PROVE  key \in listing(key)
    <3> HIDE DEF listing, meets
    <3> QED OBVIOUS
  <2>1. Required(key) \subseteq picked.approved
    BY DEF Required, RetentionLists
  <2>2. key # "retention-renewed-late" /\ key # "priority-needs-contact"
    BY DEF RetentionLists
  <2>3. OperatingQuery(key) = [supplied |-> 13, uses |-> 1 .. 13]
    BY <2>2 DEF OperatingQuery, RetentionLists
  <2>4. Accepted(OperatingQuery(key))
    BY <2>3 DEF Accepted
  <2> QED BY <2>1, <2>4 DEF OperatingDrilldown, Answered
<1>5. /\ meets("priority-needs-contact")
            <=> r.type = "contacts" /\ CorePredicate(r, wanted) /\ PriorityCondition(r)
      /\ meets("retention-upcoming")
            <=> /\ r.type = "deals" /\ CorePredicate(r, wanted)
                /\ r.renewal # None /\ MonthStart <= r.renewal /\ ~r.won /\ ~r.inactive
      /\ meets("retention-delayed")
            <=> /\ r.type = "deals" /\ CorePredicate(r, wanted)
                /\ Earlier(r.renewal, MonthStart) /\ ~r.won /\ ~r.inactive
      /\ meets("retention-lost")
            <=> /\ r.type = "deals" /\ CorePredicate(r, wanted)
                /\ r.inactive \/ (r.closed /\ ~r.won)
  BY DEF OperatingType, OperatingCondition, RetentionLists, RetentionCondition
<1> HIDE DEF listing, listed, meets
<1>6. "priority-needs-contact" \in listed /\ wanted.pipeline = None /\ wanted.stage = None
         => Drilldown("untouched-contacts", r, wanted, None)
  <2> SUFFICES ASSUME r.type = "contacts", CorePredicate(r, wanted), PriorityCondition(r),
                      wanted.pipeline = None, wanted.stage = None
               PROVE  Drilldown("untouched-contacts", r, wanted, None)
    BY <1>3, <1>5
  <2>1. ObjectPredicate(r, wanted)
    BY DEF CorePredicate, ObjectPredicate, ByDeal
  <2>2. LastContact(r) = IF r.contacted # None THEN r.contacted ELSE r.sales
    BY CoalesceTwo DEF LastContact
  <2>3. r.contacted = None /\ CreatedAt(r) < Today - 2
    BY <2>2 DEF PriorityCondition
  <2> QED BY <2>1, <2>3 DEF Drilldown, InScope, PeriodDrilldowns, DrilldownCondition
<1>7. r.renewal \in Int \cup {None} /\ MonthStart \in Int /\ None \notin Int
  BY CrmRecordsAssumption DEF Record, Day
<1>8. ~({"retention-upcoming", "retention-delayed"} \subseteq listed)
  BY <1>3, <1>5, <1>7 DEF Earlier
<1>9. ("renewal_date" \in picked.approved /\ r.type = "deals" /\ CorePredicate(r, wanted)
          /\ r.renewal # None /\ ~r.won) => listed \cap RetentionLists # {}
  <2> SUFFICES ASSUME "renewal_date" \in picked.approved, r.type = "deals", CorePredicate(r, wanted),
                      r.renewal # None, ~r.won
               PROVE  \E key \in RetentionLists : key \in listed
    OBVIOUS
  <2>1. meets("retention-lost") \/ meets("retention-upcoming") \/ meets("retention-delayed")
    BY <1>5, <1>7 DEF Earlier
  <2>2. {"retention-upcoming", "retention-delayed", "retention-lost"} \subseteq RetentionLists \cap keys
    BY DEF RetentionLists
  <2> QED BY <1>4, <2>1, <2>2
<1> QED BY <1>6, <1>8, <1>9 DEF MappedListsAgree, listed, listing

\* The operating reports agree.
LEMMA OperatingReportsAgreeOnRecord ==
    ASSUME NEW r \in Record, NEW wanted \in Filters, NEW picked
    PROVE  OperatingReportsAgree(r, wanted, picked)
<1> DEFINE N == OperatingNumbers(r, wanted, picked)
           P == OperatingPack(r, wanted, picked)
<1>1. P = N \/ P = NoAnswer
  BY DEF OperatingPack, Answered
<1>2. CardsAreListed(r, wanted, picked)
  <2> HIDE DEF P
  <2> QED BY <1>1, OperatingNumbersListed DEF CardsAreListed, P
<1>3. /\ ~({"untouchedContacts", "contactedContacts"} \subseteq N)
      /\ "coldContacts" \in N => "contactedContacts" \in N
  <2> HIDE DEF N
  <2> QED BY OperatingMembers DEF N, Earlier
<1>4. /\ {"dealsAtRisk", "overdueCloseDeals", "closingSoonDeals"} \cap N # {} => "openDeals" \in N
      /\ "overdueCloseDeals" \in N => "dealsAtRisk" \in N
  <2> HIDE DEF N
  <2> QED BY OperatingMembers DEF N, AtRisk, ClosingSoon
<1> HIDE DEF N, P
<1>5. /\ ~({"untouchedContacts", "contactedContacts"} \subseteq P)
      /\ {"dealsAtRisk", "overdueCloseDeals", "closingSoonDeals"} \cap P # {} => "openDeals" \in P
      /\ "overdueCloseDeals" \in P => "dealsAtRisk" \in P
      /\ "coldContacts" \in P => "contactedContacts" \in P
  <2>1. CASE P = N
    BY <1>3, <1>4, <2>1
  <2>2. CASE P = NoAnswer
    BY <2>2 DEF NoAnswer
  <2> QED BY <1>1, <2>1, <2>2
<1> QED BY <1>2, <1>5, MappedListsAgreeOnRecord, PreviousDayIncluded DEF OperatingReportsAgree, P

-----------------------------------------------------------------------------
(* The reports by object type                                              *)

\* Every record has a day on which it happened.
LEMMA ObjectDays ==
    ASSUME NEW r \in Record
    PROVE  ObjectAt(r) \in Int
<1> DEFINE v == <<r.stamp, r.start, r.completed, r.created, r.updated, r.synced>>
<1>1. /\ r.synced \in Int /\ None \notin Int
      /\ {r.created, r.updated, r.stamp, r.start, r.completed} \subseteq Int \cup {None}
  BY CrmRecordsAssumption DEF Record, Day
<1>2. v \in [1 .. 6 -> Int \cup {None}] /\ v[6] # None /\ 6 \in Nat \ {0}
  BY <1>1
<1>3. Coalesce(v) \in Int
  <2> HIDE DEF v
  <2> QED BY <1>2, CoalesceValue
<1> QED BY <1>3, DaysOfRecord DEF ObjectAt, ObjectActivityAt

\* The queries of the overview and of the page of any type use every value they
\* are given, and are answered.
LEMMA OverviewAnswered ==
    ASSUME NEW r, NEW wanted
    PROVE  /\ ObjectOverview(r, wanted) =
                 {key \in CommonKeys : ObjectScope(r, wanted) /\ CommonNumber(key, r, wanted)}
           /\ ExtendedDetail(r, wanted) =
                 {key \in ExtendedKeys : ObjectScope(r, wanted) /\ ExtendedCondition(key, r, wanted)}
BY DEF ObjectOverview, ExtendedDetail, Answered, Accepted, ObjectScope

\* No metric of a type has the key of a common number.
LEMMA MetricsAreNotCommon ==
    ASSUME NEW r \in Record
    PROVE  MetricsOf[r.type] \cap CommonKeys = {}
BY DEF MetricsOf, CommonKeys, Record, Activities

\* A drilldown of a type lists what the overview and the page count.
LEMMA ObjectDrilldownsAgree ==
    ASSUME NEW r \in Record, NEW wanted, NEW key \in CommonKeys \cup MetricsOf[r.type],
           ObjectDrilldown(key, r, wanted) # NoAnswer
    PROVE  /\ key \in CommonKeys =>
                 (key \in ObjectOverview(r, wanted) <=> key \in ObjectDrilldown(key, r, wanted))
           /\ key \in DetailSummary(r, wanted) <=> key \in ObjectDrilldown(key, r, wanted)
<1> DEFINE holds == IF key \in CommonKeys THEN CommonNumber(key, r, wanted)
                                          ELSE MetricCondition(key, r, wanted)
           S == {k \in {key} : /\ ObjectScope(r, wanted)
                               /\ IF k \in CommonKeys THEN CommonNumber(k, r, wanted)
                                                      ELSE MetricCondition(k, r, wanted)}
<1>1. ObjectDrilldown(key, r, wanted) = S
  <2>1. ObjectDrilldown(key, r, wanted) = Answered({DrilldownQuery(key)}, S)
    BY DEF ObjectDrilldown
  <2> HIDE DEF S
  <2> QED BY <2>1, AnsweredIsResult
<1>2. key \in S <=> ObjectScope(r, wanted) /\ holds
  OBVIOUS
<1>3. key \in DetailSummary(r, wanted) <=> ObjectScope(r, wanted) /\ holds
  BY MetricsAreNotCommon DEF DetailSummary
<1>4. key \in CommonKeys => (key \in ObjectOverview(r, wanted) <=> ObjectScope(r, wanted) /\ holds)
  BY OverviewAnswered
<1> HIDE DEF S, holds
<1> QED BY <1>1, <1>2, <1>3, <1>4

\* A search or an export without a text lists what the page of any type counts.
LEMMA ExtendedListsAgree ==
    ASSUME NEW r, NEW wanted, NEW key \in ExtendedKeys, NEW listing,
           listing \in {ExtendedSearch(key, r, wanted, None), ExtendedExport(key, r, wanted, None)},
           listing # NoAnswer
    PROVE  key \in ExtendedDetail(r, wanted) <=> key \in listing
<1> DEFINE S == {k \in {key} : /\ ObjectScope(r, wanted) /\ ExtendedCondition(k, r, wanted)
                               /\ None = None \/ None = r.text}
<1>1. listing = S
  <2>1. /\ ExtendedSearch(key, r, wanted, None) = Answered({SearchQuery(key, None, 7)}, S)
        /\ ExtendedExport(key, r, wanted, None) = Answered({SearchQuery(key, None, 6)}, S)
    BY DEF ExtendedSearch, ExtendedExport
  <2> HIDE DEF S
  <2> QED BY <2>1, AnsweredIsResult
<1>2. key \in S <=> ObjectScope(r, wanted) /\ ExtendedCondition(key, r, wanted)
  OBVIOUS
<1> HIDE DEF S
<1> QED BY <1>1, <1>2, OverviewAnswered

\* A trend has the record in one of its days exactly if the number counts it.
LEMMA TrendAddsUp ==
    ASSUME NEW wanted \in Filters, NEW day \in Int, NEW scope \in BOOLEAN
    PROVE  Cardinality({d \in wanted.from .. wanted.to : scope /\ day = d})
              = IF scope /\ During(wanted, day) THEN 1 ELSE 0
<1> DEFINE S == {d \in wanted.from .. wanted.to : scope /\ day = d}
           counted == scope /\ During(wanted, day)
<1>1. S = IF counted THEN {day} ELSE {}
  BY CrmRecordsAssumption DEF During, Filters
<1>2. counted \in BOOLEAN
  BY DEF During
<1> HIDE DEF S, counted
<1>3. Cardinality(S) = IF counted THEN 1 ELSE 0
  BY <1>1, <1>2, OneOrNone
<1> QED BY <1>3 DEF S, counted

\* A set of which at most one member is among two numbers.
LEMMA PairCounted ==
    ASSUME NEW S, NEW x, NEW y, NEW P \in BOOLEAN, P <=> (x \in S \/ y \in S),
           x # y => ~(x \in S /\ y \in S)
    PROVE  Cardinality(S \cap {x, y}) = IF P THEN 1 ELSE 0
<1>1. S \cap {x, y} = IF P THEN {IF x \in S THEN x ELSE y} ELSE {}
  OBVIOUS
<1> QED BY <1>1, OneOrNone

\* How many of one number a set has.
LEMMA SingleCounted ==
    ASSUME NEW S, NEW x, NEW P \in BOOLEAN, P <=> x \in S
    PROVE  Cardinality(S \cap {x}) = IF P THEN 1 ELSE 0
<1>1. S \cap {x} = IF P THEN {x} ELSE {}
  OBVIOUS
<1> QED BY <1>1, OneOrNone

\* The reports by object type agree.
LEMMA ObjectReportsAgreeOnRecord ==
    ASSUME NEW r \in Record, NEW wanted \in Filters
    PROVE  ObjectReportsAgree(r, wanted)
<1> DEFINE overview == ObjectOverview(r, wanted)
           summary == DetailSummary(r, wanted)
           extended == ExtendedDetail(r, wanted)
           scope == ObjectScope(r, wanted)
           at == During(wanted, ObjectAt(r))
           created == During(wanted, CreatedAt(r))
<1>1. scope \in BOOLEAN /\ at \in BOOLEAN /\ created \in BOOLEAN
  BY DEF ObjectScope, During, Record
<1>2. /\ "created-in-period" \in overview <=> scope /\ at
      /\ "created-in-period" \in summary <=> scope /\ at
  <2>1. "created-in-period" \in CommonKeys /\ "created-in-period" \notin MetricsOf[r.type]
    BY MetricsAreNotCommon DEF CommonKeys
  <2>2. CommonNumber("created-in-period", r, wanted) <=> at
    BY DEF CommonNumber
  <2> HIDE DEF at, scope
  <2> QED BY <2>1, <2>2, OverviewAnswered DEF DetailSummary, scope
<1>3. /\ "created-in-period" \in extended <=> scope /\ created
      /\ "total" \in extended <=> scope
      /\ "with-associations" \in extended <=> scope /\ AnyAssociation(r)
      /\ "without-associations" \in extended <=> scope /\ ~AnyAssociation(r)
  <2>1. {"created-in-period", "total", "with-associations", "without-associations"} \subseteq ExtendedKeys
    BY DEF CommonKeys, ExtendedKeys
  <2>2. /\ ExtendedCondition("created-in-period", r, wanted) <=> created
        /\ ExtendedCondition("total", r, wanted)
        /\ ExtendedCondition("with-associations", r, wanted) <=> AnyAssociation(r)
        /\ ExtendedCondition("without-associations", r, wanted) <=> ~AnyAssociation(r)
    BY DEF ExtendedCondition, CommonNumber
  <2> HIDE DEF created, scope
  <2> QED BY <2>1, <2>2, OverviewAnswered DEF scope
<1>4. Cardinality(DetailTrend(r, wanted)) = Cardinality(overview \cap {"created-in-period"})
  <2>1. Cardinality(DetailTrend(r, wanted)) = IF scope /\ at THEN 1 ELSE 0
    BY <1>1, TrendAddsUp, ObjectDays DEF DetailTrend
  <2> HIDE DEF overview, scope, at
  <2>2. Cardinality(overview \cap {"created-in-period"}) = IF scope /\ at THEN 1 ELSE 0
    BY <1>1, <1>2, SingleCounted
  <2> QED BY <2>1, <2>2
<1>5. Cardinality(ExtendedTrend(r, wanted)) = Cardinality(extended \cap {"created-in-period"})
  <2>1. Cardinality(ExtendedTrend(r, wanted)) = IF scope /\ created THEN 1 ELSE 0
    BY <1>1, TrendAddsUp, DaysOfRecord DEF ExtendedTrend
  <2> HIDE DEF extended, scope, created
  <2>2. Cardinality(extended \cap {"created-in-period"}) = IF scope /\ created THEN 1 ELSE 0
    BY <1>1, <1>3, SingleCounted
  <2> QED BY <2>1, <2>2
<1>6. Cardinality(extended \cap {"with-associations", "without-associations"})
         = Cardinality(extended \cap {"total"})
  <2> HIDE DEF extended, scope
  <2>1. Cardinality(extended \cap {"with-associations", "without-associations"}) = IF scope THEN 1 ELSE 0
    BY <1>1, <1>3, PairCounted
  <2>2. Cardinality(extended \cap {"total"}) = IF scope THEN 1 ELSE 0
    BY <1>1, <1>3, SingleCounted
  <2> QED BY <2>1, <2>2
<1>7. ASSUME r.type = "calls"
      PROVE  Cardinality(summary \cap {"with-disposition", "missing-disposition"})
                = Cardinality(summary \cap {"created-in-period"})
  <2>1. /\ "with-disposition" \in summary <=> scope /\ at /\ r.outcome # None
        /\ "missing-disposition" \in summary <=> scope /\ at /\ r.outcome = None
    BY <1>7 DEF DetailSummary, MetricsOf, CommonKeys, MetricCondition
  <2> HIDE DEF summary, scope, at
  <2>2. Cardinality(summary \cap {"with-disposition", "missing-disposition"})
           = IF scope /\ at THEN 1 ELSE 0
    BY <1>1, <2>1, PairCounted
  <2>3. Cardinality(summary \cap {"created-in-period"}) = IF scope /\ at THEN 1 ELSE 0
    BY <1>1, <1>2, SingleCounted
  <2> QED BY <2>2, <2>3
<1>8. r.type = "deals" => ~({"won-deals", "lost-deals"} \subseteq summary)
  <2>1. r.type = "deals" => /\ "won-deals" \in summary => r.won
                            /\ "lost-deals" \in summary => ~r.won
    BY DEF DetailSummary, MetricsOf, CommonKeys, MetricCondition
  <2> HIDE DEF summary
  <2> QED BY <2>1
<1>9. \A key \in CommonKeys \cup MetricsOf[r.type] :
         ObjectDrilldown(key, r, wanted) # NoAnswer =>
            /\ key \in CommonKeys =>
                  (key \in overview <=> key \in ObjectDrilldown(key, r, wanted))
            /\ key \in summary <=> key \in ObjectDrilldown(key, r, wanted)
  BY ObjectDrilldownsAgree
<1>10. \A key \in ExtendedKeys :
          \A listing \in {ExtendedSearch(key, r, wanted, None), ExtendedExport(key, r, wanted, None)} :
             listing # NoAnswer => (key \in extended <=> key \in listing)
  BY ExtendedListsAgree
<1> HIDE DEF overview, summary, extended
<1> QED BY <1>4, <1>5, <1>6, <1>7, <1>8, <1>9, <1>10 DEF ObjectReportsAgree, overview, summary, extended

-----------------------------------------------------------------------------
(* The SDR dashboard                                                       *)

\* What a compiled rule says of a record, and of one that does not compile.
Verdicts == {"true", "false", "null"}
AnyVerdict == Verdicts \cup {"error"}

\* When a group of two conditions compiles, and when it is true.
LEMMA GroupOfTwo ==
    ASSUME NEW a \in AnyVerdict, NEW b \in AnyVerdict
    PROVE  /\ Group("AND", {a, b}) \in AnyVerdict /\ Group("OR", {a, b}) \in AnyVerdict
           /\ Group("AND", {a, b}) = "error" <=> a = "error" \/ b = "error"
           /\ Group("OR", {a, b}) = "error" <=> a = "error" \/ b = "error"
           /\ Group("AND", {a, b}) = "true" <=> a = "true" /\ b = "true"
           /\ a # "error" /\ b # "error" => (Group("OR", {a, b}) = "true" <=> a = "true" \/ b = "true")
<1>1. {a, b} # {}
  OBVIOUS
<1> DEFINE S == {a, b}
<1>2. S # {} /\ (\A v \in S : v = a \/ v = b) /\ a \in S /\ b \in S
  OBVIOUS
<1> HIDE DEF S
<1>3. Group("AND", S) = IF "error" \in S THEN "error" ELSE SqlAnd(S)
  BY <1>2 DEF Group
<1>4. Group("OR", S) = IF "error" \in S THEN "error" ELSE SqlOr(S)
  BY <1>2 DEF Group
<1> QED BY <1>2, <1>3, <1>4 DEF SqlAnd, SqlOr, AnyVerdict, Verdicts, S

\* A group of one condition is that condition.
LEMMA GroupOfOne ==
    ASSUME NEW a \in AnyVerdict
    PROVE  Group("AND", {a}) = a
<1> DEFINE S == {a}
<1>1. S # {} /\ (\A v \in S : v = a) /\ a \in S
  OBVIOUS
<1> HIDE DEF S
<1>2. Group("AND", S) = IF "error" \in S THEN "error" ELSE SqlAnd(S)
  BY <1>1 DEF Group
<1> QED BY <1>1, <1>2 DEF SqlAnd, AnyVerdict, Verdicts, S

\* The conditions of the template, with the null of a missing value.
LEMMA ScalarVerdicts ==
    ASSUME NEW value, NEW days
    PROVE  /\ CompileScalar(value, "missing", None) = Sql(value = None)
           /\ CompileScalar(value, "exists", None) = Sql(value # None)
           /\ CompileScalar(value, "before_days", days)
                 = IF value = None THEN "null" ELSE Sql(value < Today - days)
           /\ CompileScalar(value, "not_in", {"true"})
                 = IF value = None THEN "null" ELSE Sql(value # "true")
<1>1. {"true"} # {}
  OBVIOUS
<1> QED BY <1>1 DEF CompileScalar

\* The virtual properties compile, and when they are true.
LEMMA VirtualVerdicts ==
    ASSUME NEW r
    PROVE  /\ VirtualRule("untouched_contact", r) \in Verdicts
           /\ VirtualRule("stale_contact", r) \in Verdicts
           /\ VirtualRule("deal_at_risk", r) \in Verdicts
           /\ VirtualRule("untouched_contact", r) = "true"
                 <=> r.contacted = None /\ r.createdate # None /\ r.createdate < Today - 2
           /\ VirtualRule("stale_contact", r) = "true" <=> Earlier(r.contacted, Today - 21)
           /\ VirtualRule("deal_at_risk", r) = "true"
                 <=> /\ r.closedText # None /\ r.closedText # "true"
                     /\ r.next = None \/ Earlier(r.close, Today - 0)
<1> DEFINE missing(v) == CompileScalar(v, "missing", None)
           exists(v) == CompileScalar(v, "exists", None)
           before(v, days) == CompileScalar(v, "before_days", days)
           open(v) == CompileScalar(v, "not_in", {"true"})
<1>1. \A v, days : /\ {missing(v), exists(v), before(v, days), open(v)} \subseteq Verdicts
                   /\ missing(v) = "true" <=> v = None
                   /\ exists(v) = "true" <=> v # None
                   /\ before(v, days) = "true" <=> Earlier(v, Today - days)
                   /\ open(v) = "true" <=> v # None /\ v # "true"
  <2> TAKE v, days
  <2>1. /\ missing(v) = Sql(v = None) /\ exists(v) = Sql(v # None)
        /\ before(v, days) = IF v = None THEN "null" ELSE Sql(v < Today - days)
        /\ open(v) = IF v = None THEN "null" ELSE Sql(v # "true")
    BY ScalarVerdicts
  <2> HIDE DEF missing, exists, before, open
  <2> QED BY <2>1 DEF Sql, Verdicts, Earlier
<1>2. /\ VirtualRule("untouched_contact", r)
            = Group("AND", {missing(r.contacted), before(r.createdate, 2)})
      /\ VirtualRule("stale_contact", r)
            = Group("AND", {exists(r.contacted), before(r.contacted, 21)})
      /\ VirtualRule("deal_at_risk", r)
            = Group("AND", {open(r.closedText), Group("OR", {before(r.close, 0), missing(r.next)})})
  BY DEF VirtualRule
<1> HIDE DEF missing, exists, before, open
<1>3. \A a, b \in Verdicts : /\ Group("AND", {a, b}) \in Verdicts
                             /\ Group("OR", {a, b}) \in Verdicts
                             /\ Group("AND", {a, b}) = "true" <=> a = "true" /\ b = "true"
                             /\ Group("OR", {a, b}) = "true" <=> a = "true" \/ b = "true"
  <2> TAKE a, b \in Verdicts
  <2>1. a \in AnyVerdict /\ b \in AnyVerdict /\ a # "error" /\ b # "error"
    BY DEF AnyVerdict, Verdicts
  <2>2. \A v \in AnyVerdict : v # "error" => v \in Verdicts
    BY DEF AnyVerdict
  <2> QED BY <2>1, <2>2, GroupOfTwo
<1>4. /\ VirtualRule("untouched_contact", r) \in Verdicts
      /\ VirtualRule("untouched_contact", r) = "true"
            <=> r.contacted = None /\ Earlier(r.createdate, Today - 2)
  <2> DEFINE a == missing(r.contacted)
             b == before(r.createdate, 2)
  <2>1. a \in Verdicts /\ b \in Verdicts /\ VirtualRule("untouched_contact", r) = Group("AND", {a, b})
    BY <1>1, <1>2
  <2>2. a = "true" /\ b = "true" <=> r.contacted = None /\ Earlier(r.createdate, Today - 2)
    BY <1>1
  <2> HIDE DEF a, b
  <2> QED BY <1>3, <2>1, <2>2
<1>5. /\ VirtualRule("stale_contact", r) \in Verdicts
      /\ VirtualRule("stale_contact", r) = "true" <=> r.contacted # None /\ Earlier(r.contacted, Today - 21)
  <2> DEFINE a == exists(r.contacted)
             b == before(r.contacted, 21)
  <2>1. a \in Verdicts /\ b \in Verdicts /\ VirtualRule("stale_contact", r) = Group("AND", {a, b})
    BY <1>1, <1>2
  <2>2. /\ a = "true" <=> r.contacted # None
        /\ b = "true" <=> Earlier(r.contacted, Today - 21)
    BY <1>1
  <2> HIDE DEF a, b
  <2> QED BY <1>3, <2>1, <2>2
<1>6. /\ VirtualRule("deal_at_risk", r) \in Verdicts
      /\ VirtualRule("deal_at_risk", r) = "true"
            <=> /\ r.closedText # None /\ r.closedText # "true"
                /\ r.next = None \/ Earlier(r.close, Today - 0)
  <2> DEFINE a == open(r.closedText)
             b == before(r.close, 0)
             c == missing(r.next)
             d == Group("OR", {b, c})
  <2>1. /\ a \in Verdicts /\ b \in Verdicts /\ c \in Verdicts
        /\ VirtualRule("deal_at_risk", r) = Group("AND", {a, d})
    BY <1>1, <1>2
  <2>2. /\ a = "true" <=> r.closedText # None /\ r.closedText # "true"
        /\ b = "true" <=> Earlier(r.close, Today - 0)
        /\ c = "true" <=> r.next = None
    BY <1>1
  <2> HIDE DEF a, b, c
  <2>3. d \in Verdicts /\ (d = "true" <=> b = "true" \/ c = "true")
    BY <1>3, <2>1
  <2> HIDE DEF d
  <2> QED BY <1>3, <2>1, <2>2, <2>3
<1> QED BY <1>4, <1>5, <1>6 DEF Earlier

\* When a record is counted in the metrics of the dashboard.
LEMMA MetricsCounted ==
    ASSUME NEW r \in Record, NEW mapped \in BOOLEAN
    PROVE  LET metrics == SdrMetrics(r, mapped)
               contact == r.type = "contacts" /\ ~r.archived
               deal == r.type = "deals" /\ ~r.archived
           IN  /\ "high_priority_contacts" \in metrics
                     <=> contact /\ mapped /\ r.quality = "highest" /\ r.quality # None
               /\ "untouched_contacts" \in metrics
                     <=> contact /\ VirtualRule("untouched_contact", r) = "true"
               /\ "stale_contacts" \in metrics <=> contact /\ VirtualRule("stale_contact", r) = "true"
               /\ "contacts_needing_action" \in metrics <=> contact /\ NeedsAction(r) = "true"
               /\ "open_pipeline" \in metrics <=> deal /\ r.closedText # None /\ r.closedText # "true"
               /\ "deals_at_risk" \in metrics <=> deal /\ VirtualRule("deal_at_risk", r) = "true"
<1> DEFINE metrics == SdrMetrics(r, mapped)
           contact == r.type = "contacts" /\ ~r.archived
           deal == r.type = "deals" /\ ~r.archived
<1>1. DOMAIN MetricType = {"total_contacts", "high_priority_contacts", "untouched_contacts",
          "stale_contacts", "contacts_needing_action", "open_pipeline", "deals_at_risk"}
  BY DEF MetricType
<1>2. /\ MetricType["high_priority_contacts"] = "contacts"
      /\ MetricType["untouched_contacts"] = "contacts"
      /\ MetricType["stale_contacts"] = "contacts"
      /\ MetricType["contacts_needing_action"] = "contacts"
      /\ MetricType["open_pipeline"] = "deals"
      /\ MetricType["deals_at_risk"] = "deals"
  BY DEF MetricType
<1>3. \A key \in DOMAIN MetricType :
         key \in metrics <=> /\ r.type = MetricType[key] /\ ~r.archived
                             /\ MetricRule(key, r, mapped) = "true"
  BY DEF SdrMetrics
<1>4. MetricRule("high_priority_contacts", r, mapped) = "true"
          <=> mapped /\ r.quality = "highest" /\ r.quality # None
  <2>1. Semantic(r, "highest", mapped) \in AnyVerdict
    BY DEF Semantic, AnyVerdict, Verdicts, Sql
  <2>2. MetricRule("high_priority_contacts", r, mapped) = Group("AND", {Semantic(r, "highest", mapped)})
    BY DEF MetricRule
  <2>3. MetricRule("high_priority_contacts", r, mapped) = Semantic(r, "highest", mapped)
    BY <2>1, <2>2, GroupOfOne
  <2> QED BY <2>3 DEF Semantic, Sql
<1>5. MetricRule("open_pipeline", r, mapped) = "true" <=> r.closedText # None /\ r.closedText # "true"
  <2> DEFINE open == CompileScalar(r.closedText, "not_in", {"true"})
  <2>1. open = IF r.closedText = None THEN "null" ELSE Sql(r.closedText # "true")
    BY ScalarVerdicts
  <2>2. MetricRule("open_pipeline", r, mapped) = Group("AND", {open})
    BY DEF MetricRule
  <2> HIDE DEF open
  <2>3. open \in AnyVerdict
    BY <2>1 DEF AnyVerdict, Verdicts, Sql
  <2>4. MetricRule("open_pipeline", r, mapped) = open
    BY <2>2, <2>3, GroupOfOne
  <2> QED BY <2>1, <2>4 DEF Sql
<1>6. /\ MetricRule("untouched_contacts", r, mapped) = VirtualRule("untouched_contact", r)
      /\ MetricRule("stale_contacts", r, mapped) = VirtualRule("stale_contact", r)
      /\ MetricRule("contacts_needing_action", r, mapped) = NeedsAction(r)
      /\ MetricRule("deals_at_risk", r, mapped) = VirtualRule("deal_at_risk", r)
  BY DEF MetricRule
<1> HIDE DEF metrics
<1> QED BY <1>1, <1>2, <1>3, <1>4, <1>5, <1>6 DEF metrics

\* The rule of a lead that needs action compiles, and when it is true.
LEMMA ActionVerdict ==
    ASSUME NEW r
    PROVE  /\ NeedsAction(r) \in Verdicts
           /\ NeedsAction(r) = "true" <=> \/ VirtualRule("untouched_contact", r) = "true"
                                          \/ VirtualRule("stale_contact", r) = "true"
<1> DEFINE u == VirtualRule("untouched_contact", r)
           s == VirtualRule("stale_contact", r)
<1>1. u \in AnyVerdict /\ s \in AnyVerdict /\ u # "error" /\ s # "error"
  BY VirtualVerdicts DEF AnyVerdict, Verdicts
<1>2. NeedsAction(r) = Group("OR", {u, s})
  BY DEF NeedsAction, Virtual
<1> HIDE DEF u, s
<1>3. /\ Group("OR", {u, s}) \in AnyVerdict /\ Group("OR", {u, s}) # "error"
      /\ Group("OR", {u, s}) = "true" <=> u = "true" \/ s = "true"
  BY <1>1, GroupOfTwo
<1> QED BY <1>2, <1>3 DEF AnyVerdict, u, s

\* The SDR dashboard agrees.
LEMMA SdrDashboardAgreesOnRecord ==
    ASSUME NEW r \in Record, NEW mapped \in BOOLEAN
    PROVE  SdrDashboardAgrees(r, mapped)
<1> DEFINE metrics == SdrMetrics(r, mapped)
           snapshot == OperationalSnapshot(r)
           funnel == ConversionFunnel(r)
           contact == r.type = "contacts" /\ ~r.archived
           u == VirtualRule("untouched_contact", r)
           s == VirtualRule("stale_contact", r)
<1>1. /\ "untouched_contacts" \in metrics <=> contact /\ u = "true"
      /\ "stale_contacts" \in metrics <=> contact /\ s = "true"
      /\ "contacts_needing_action" \in metrics <=> contact /\ (u = "true" \/ s = "true")
  BY MetricsCounted, ActionVerdict
<1>2. ~(u = "true" /\ s = "true")
  BY VirtualVerdicts DEF Earlier
<1>3. mapped => (PriorityLeads(r, mapped)
                   <=> {"high_priority_contacts", "contacts_needing_action"} \subseteq metrics)
  <2> DEFINE q == Semantic(r, "highest", mapped)
  <2> SUFFICES ASSUME mapped
               PROVE  PriorityLeads(r, mapped)
                        <=> {"high_priority_contacts", "contacts_needing_action"} \subseteq metrics
    OBVIOUS
  <2>1. q \in Verdicts /\ (q = "true" <=> r.quality = "highest" /\ r.quality # None)
    BY DEF Semantic, Sql, Verdicts
  <2>2. PriorityRule(r, mapped) = Group("AND", {q, NeedsAction(r)})
    BY DEF PriorityRule
  <2>3. NeedsAction(r) \in Verdicts
    BY ActionVerdict
  <2> HIDE DEF q
  <2>4. q \in AnyVerdict /\ NeedsAction(r) \in AnyVerdict /\ q # "error" /\ NeedsAction(r) # "error"
    BY <2>1, <2>3 DEF AnyVerdict, Verdicts
  <2>5. /\ PriorityRule(r, mapped) # "error"
        /\ PriorityRule(r, mapped) = "true" <=> q = "true" /\ NeedsAction(r) = "true"
    <3> DEFINE n == NeedsAction(r)
    <3> HIDE DEF n
    <3>1. n \in AnyVerdict /\ n # "error" /\ PriorityRule(r, mapped) = Group("AND", {q, n})
      BY <2>2, <2>4 DEF n
    <3>2. /\ Group("AND", {q, n}) # "error"
          /\ Group("AND", {q, n}) = "true" <=> q = "true" /\ n = "true"
      BY <2>4, <3>1, GroupOfTwo
    <3> QED BY <3>1, <3>2 DEF n
  <2>6. PriorityLeads(r, mapped) <=> contact /\ q = "true" /\ NeedsAction(r) = "true"
    BY <2>5 DEF PriorityLeads
  <2>7. /\ "high_priority_contacts" \in metrics <=> contact /\ q = "true"
        /\ "contacts_needing_action" \in metrics <=> contact /\ NeedsAction(r) = "true"
    BY <2>1, MetricsCounted
  <2> HIDE DEF metrics, contact
  <2> QED BY <2>6, <2>7
<1>4. ~mapped /\ r.createdate = CreatedAt(r) =>
         (PriorityLeads(r, mapped) <=> "contacts_needing_action" \in metrics)
  <2> SUFFICES ASSUME ~mapped, r.createdate = CreatedAt(r)
               PROVE  PriorityLeads(r, mapped) <=> "contacts_needing_action" \in metrics
    OBVIOUS
  <2>1. Semantic(r, "highest", mapped) = "error"
    BY DEF Semantic
  <2>2. PriorityRule(r, mapped) = "error"
    BY <2>1 DEF PriorityRule, Group
  <2>3. PriorityLeads(r, mapped) <=> FallbackAttention(r)
    BY <2>2 DEF PriorityLeads
  <2>4. r.createdate # None
    BY DaysOfRecord
  <2>5. /\ u = "true" <=> r.contacted = None /\ r.createdate # None /\ r.createdate < Today - 2
        /\ s = "true" <=> Earlier(r.contacted, Today - 21)
    BY VirtualVerdicts
  <2> HIDE DEF metrics, u, s
  <2> QED BY <1>1, <2>3, <2>4, <2>5 DEF FallbackAttention
<1>5. Cardinality(metrics \cap {"untouched_contacts", "stale_contacts"})
         = Cardinality(metrics \cap {"contacts_needing_action"})
  <2> DEFINE counted == contact /\ (u = "true" \/ s = "true")
  <2>1. counted \in BOOLEAN
    OBVIOUS
  <2> HIDE DEF metrics, contact, u, s
  <2>2. /\ counted <=> "untouched_contacts" \in metrics \/ "stale_contacts" \in metrics
        /\ counted <=> "contacts_needing_action" \in metrics
        /\ ~("untouched_contacts" \in metrics /\ "stale_contacts" \in metrics)
    BY <1>1, <1>2
  <2> HIDE DEF counted
  <2>3. Cardinality(metrics \cap {"untouched_contacts", "stale_contacts"}) = IF counted THEN 1 ELSE 0
    BY <2>1, <2>2, PairCounted
  <2>4. Cardinality(metrics \cap {"contacts_needing_action"}) = IF counted THEN 1 ELSE 0
    BY <2>1, <2>2, SingleCounted
  <2> QED BY <2>3, <2>4
<1>6. /\ "open_pipeline" \in metrics
            <=> r.type = "deals" /\ ~r.archived /\ r.closedText # None /\ r.closedText # "true"
      /\ "deals_at_risk" \in metrics
            <=> /\ r.type = "deals" /\ ~r.archived /\ r.closedText # None /\ r.closedText # "true"
                /\ r.next = None \/ Earlier(r.close, Today - 0)
  BY MetricsCounted, VirtualVerdicts
<1>7. /\ "openDeals" \in snapshot <=> ~r.archived /\ r.type = "deals" /\ r.closedText # "true"
      /\ "noNextActivity" \in snapshot
            <=> ~r.archived /\ r.type = "deals" /\ r.closedText # "true" /\ r.next = None
      /\ "open_pipeline" \notin snapshot
  BY DEF OperationalSnapshot
<1>8. "noNextActivity" \notin metrics
  BY DEF SdrMetrics, MetricType
<1>9. /\ "deals_at_risk" \in metrics => "open_pipeline" \in metrics
      /\ "open_pipeline" \in metrics => "openDeals" \in snapshot
      /\ {"open_pipeline", "noNextActivity"} \subseteq metrics \cup snapshot
            => "deals_at_risk" \in metrics
  <2> HIDE DEF metrics, snapshot
  <2> QED BY <1>6, <1>7, <1>8
<1>10. Cardinality(ActivityByOwner(r)) = IF InActivityWindow(r) /\ r.type = "calls" THEN 1 ELSE 0
  <2> DEFINE counted == InActivityWindow(r) /\ r.type = "calls"
  <2>1. ActivityByOwner(r) = IF counted THEN {ActivityOwner(r)} ELSE {}
    BY DEF ActivityByOwner
  <2>2. counted \in BOOLEAN
    BY DEF InActivityWindow
  <2> HIDE DEF counted
  <2>3. Cardinality(ActivityByOwner(r)) = IF counted THEN 1 ELSE 0
    BY <2>1, <2>2, OneOrNone
  <2> QED BY <2>3 DEF counted
<1>11. ~r.archived =>
          /\ "won" \in funnel => "opportunities" \in funnel
          /\ funnel \cap {"meetings", "opportunities"} # {} => "contacted" \in funnel
  <2>1. /\ "won" \in funnel => r.type = "contacts" /\ \E d \in r.dealsIn : ~d.archived
        /\ "opportunities" \in funnel <=> r.type = "contacts" /\ \E d \in r.dealsIn : ~d.archived
        /\ "meetings" \in funnel => r.type = "contacts" /\ r.meetingsIn # {}
        /\ "contacted" \in funnel
              <=> /\ r.type = "contacts" /\ ~r.archived
                  /\ r.contacted # None \/ r.callsIn \/ r.meetingsIn # {} \/ r.dealsIn # {}
    BY DEF ConversionFunnel
  <2> HIDE DEF funnel
  <2> QED BY <2>1
<1> HIDE DEF metrics, snapshot, funnel
<1> QED BY <1>3, <1>4, <1>5, <1>9, <1>10, <1>11 DEF SdrDashboardAgrees, metrics, snapshot, funnel

\* Whatever a record looks like and whatever is asked for, every number, table and
\* list of the reports counts the record or none of them does.
THEOREM ReportsAgreeOnRecord ==
    \A r \in Record, wanted \in Filters, mapped \in BOOLEAN :
        /\ RevenueReportsAgree(r, wanted)
        /\ \A picked : OperatingReportsAgree(r, wanted, picked)
        /\ ObjectReportsAgree(r, wanted)
        /\ SdrDashboardAgrees(r, mapped)
BY RevenueReportsAgreeOnRecord, OperatingReportsAgreeOnRecord, ObjectReportsAgreeOnRecord,
   SdrDashboardAgreesOnRecord

-----------------------------------------------------------------------------
(* The components of a workspace together                                  *)

\* The initial states of a workspace are those of its components.
LEMMA WorkspaceInitially ==
    ASSUME WorkspaceInit
    PROVE  /\ BillingInit /\ AlertInit /\ SessionsInit /\ MembersInit /\ NoticesInit /\ SlaInit
           /\ PortalInit /\ BudgetInit /\ SavedViewsInit /\ CommandCenterInit
           /\ query \in Queries /\ sample \in Samples
<1>1. query \in Queries /\ sample \in Samples
  BY WorkspaceAssumption DEF WorkspaceInit, NoQuery, NoSample
<1> QED BY <1>1 DEF WorkspaceInit

\* A step of a workspace is a step of one component and leaves the others as they are.
LEMMA WorkspaceSteps ==
    ASSUME [WorkspaceNext]_workspaceVars
    PROVE  /\ [BillingNext]_billingVars /\ [AlertNext]_alertVars /\ [SessionsNext]_sessionVars
           /\ [MembersNext]_memberVars /\ [NoticesNext]_noticeVars /\ [SlaNext]_slaVars
           /\ [PortalNext]_portalVars /\ [BudgetNext]_budgetVars /\ [ViewsNext]_viewVars
           /\ [CommandCenterNext]_pageVars
           /\ UNCHANGED <<query, sample>>
<1>1. CASE UNCHANGED workspaceVars
  BY <1>1 DEF workspaceVars
<1>2. CASE WorkspaceNext
  <2>1. UNCHANGED <<query, sample>>
    BY <1>2 DEF WorkspaceNext
  <2>2. [BillingNext]_billingVars
    BY <1>2 DEF WorkspaceNext
  <2>3. [AlertNext]_alertVars
    BY <1>2 DEF WorkspaceNext
  <2>4. [SessionsNext]_sessionVars
    BY <1>2 DEF WorkspaceNext
  <2>5. [MembersNext]_memberVars
    BY <1>2 DEF WorkspaceNext
  <2>6. [NoticesNext]_noticeVars
    BY <1>2 DEF WorkspaceNext
  <2>7. [SlaNext]_slaVars
    BY <1>2 DEF WorkspaceNext
  <2>8. [PortalNext]_portalVars
    BY <1>2 DEF WorkspaceNext
  <2>9. [BudgetNext]_budgetVars
    BY <1>2 DEF WorkspaceNext
  <2>10. [ViewsNext]_viewVars
    BY <1>2 DEF WorkspaceNext
  <2>11. [CommandCenterNext]_pageVars
    BY <1>2 DEF WorkspaceNext
  <2> QED BY <2>1, <2>2, <2>3, <2>4, <2>5, <2>6, <2>7, <2>8, <2>9, <2>10, <2>11
<1> QED BY <1>1, <1>2

\* The composition takes no step that one of its components could not take alone.
LEMMA WorkspaceComposes ==
    WorkspaceSpec =>
        /\ BillingSpec /\ AlertSpec /\ SessionsSpec /\ MembersSpec /\ NoticesSpec /\ SlaSpec
        /\ PortalSpec /\ BudgetSpec /\ ViewsSpec /\ CommandCenterSpec
        /\ [](query \in Queries /\ sample \in Samples)
<1>1. query \in Queries /\ sample \in Samples /\ UNCHANGED <<query, sample>>
         => (query \in Queries /\ sample \in Samples)'
  OBVIOUS
<1> QED BY <1>1, WorkspaceInitially, WorkspaceSteps, PTL DEF WorkspaceSpec, BillingSpec, AlertSpec,
        SessionsSpec, MembersSpec, NoticesSpec, SlaSpec, PortalSpec, BudgetSpec, ViewsSpec,
        CommandCenterSpec

\* The tables and requests of all components keep their types in the workspace that
\* TLC explores.
THEOREM WorkspaceTypeCorrect == WorkspaceSpec => []WorkspaceTypeOK
<1>1. /\ BillingTypeOK /\ AlertTypeOK /\ SessionsTypeOK /\ MembersTypeOK /\ NoticesTypeOK /\ SlaTypeOK
      /\ PortalTypeOK /\ BudgetTypeOK /\ SavedViewsTypeOK /\ CommandCenterTypeOK
      => WorkspaceTypeOK
  BY DEF WorkspaceTypeOK
<1> QED BY <1>1, WorkspaceComposes, BillingTypeCorrect, AlertTypeCorrect, SessionsTypeCorrect,
        MembersTypeCorrect, NoticesTypeCorrect, SlaTypeCorrect, PortalTypeCorrect, BudgetTypeCorrect,
        ViewsTypeCorrect, PageTypeCorrect, PTL

\* The next run of every schedule of the workspace is right.
THEOREM NextRunsCorrect == WorkspaceSpec => []NextRunsAreRight
<1>1. query \in Queries => NextRunsAreRight
  BY WorkspaceAssumption, NextRunCorrect DEF NextRunsAreRight
<1> QED BY <1>1, WorkspaceComposes, PTL

\* The reports agree on every record that the workspace may hold, whatever is asked for.
THEOREM ReportsAgreeCorrect == WorkspaceSpec => []ReportsAgree
<1>1. ASSUME sample \in Samples PROVE ReportsAgree
  <2>1. sample.record \in Record /\ sample.filters \in Filters /\ sample.mapped \in BOOLEAN
    BY <1>1, WorkspaceAssumption
  <2>2. /\ RevenueReportsAgree(sample.record, sample.filters)
        /\ OperatingReportsAgree(sample.record, sample.filters, sample.mapping)
        /\ ObjectReportsAgree(sample.record, sample.filters)
        /\ SdrDashboardAgrees(sample.record, sample.mapped)
    BY <2>1, ReportsAgreeOnRecord
  <2> QED BY <2>2 DEF ReportsAgree
<1> QED BY <1>1, WorkspaceComposes, PTL

\* What the components promise one by one they promise in the workspace that TLC
\* explores.
THEOREM WorkspaceCorrect ==
    WorkspaceSpec => []( /\ OvershootIsBounded /\ BreachIsReported /\ SessionsFollowPassword
                         /\ OwnerlessOnlyByRace /\ NoticesAreBounded /\ LastVerdictStands
                         /\ ApprovedIsMapped /\ BudgetStands /\ DefaultStands
                         /\ PageIsOfSelection )
BY WorkspaceComposes, OvershootCorrect, BreachCorrect, PasswordCorrect, OwnerlessCorrect,
   NoticesBoundedCorrect, LastVerdictCorrect, ApprovedCorrect, BudgetCorrect, DefaultCorrect,
   PageCorrect, PTL
=============================================================================
