--------------------------- MODULE JobTimesProofs ---------------------------
(* Proofs about JobTimes, for weeks, days, hours and minutes of any length,  *)
(* any settings of jobs, and any number of rounds from four on.              *)
EXTENDS JobTimes, WellFoundedInduction, TLAPS

-----------------------------------------------------------------------------
(* Arithmetic.                                                               *)

\* A set of naturals has a least element.
LEMMA LeastNatural ==
    ASSUME NEW S \in SUBSET Nat, S # {}
    PROVE  \E n \in S : \A m \in S : n =< m
<1> DEFINE R == {ss \in Nat \X Nat : ss[1] < ss[2]}
<1>1. IsWellFoundedOn(R, Nat)
  BY NatLessThanWellFounded DEF OpToRel
<1>2. PICK n \in S : \A m \in S : ~(<<m, n>> \in R)
  <2> HIDE DEF R
  <2> QED
    BY <1>1, WFMin
<1>3. ASSUME NEW m \in S PROVE n =< m
  <2>1. m \in Nat /\ n \in Nat /\ <<m, n>> \notin R
    BY <1>2
  <2>2. <<m, n>> \in Nat \X Nat /\ <<m, n>>[1] = m /\ <<m, n>>[2] = n
    BY <2>1
  <2>3. ~(m < n)
    BY <2>1, <2>2
  <2> QED
    BY <2>1, <2>3
<1> QED
  BY <1>3

LEMMA DivMod ==
    ASSUME NEW n \in Nat, NEW d \in Nat \ {0}
    PROVE  /\ n \div d \in Nat
           /\ n % d \in 0 .. d - 1
           /\ n = (n \div d) * d + (n % d)
<1>1. n \div d \in Nat /\ n % d \in 0 .. d - 1
  OBVIOUS
<1>2. n % d = n - d * (n \div d)
  OBVIOUS
<1>3. PICK q \in Nat, r \in Nat : q = n \div d /\ r = n % d
  BY <1>1
<1>4. n = q * d + r
  BY <1>2, <1>3
<1> QED
  BY <1>1, <1>3, <1>4

LEMMA MulOrder ==
    ASSUME NEW a \in Nat, NEW b \in Nat, NEW d \in Nat, a < b
    PROVE  a * d + d =< b * d
<1>1. PICK k \in Nat : b = a + 1 + k
  <2>1. b - a - 1 \in Nat /\ b = a + 1 + (b - a - 1)
    OBVIOUS
  <2> QED
    BY <2>1
<1>2. b * d = a * d + d + k * d
  BY <1>1
<1>3. k * d \in Nat /\ a * d \in Nat
  OBVIOUS
<1> QED
  BY <1>2, <1>3

LEMMA DivModUnique ==
    ASSUME NEW d \in Nat \ {0}, NEW q \in Nat, NEW r \in 0 .. d - 1
    PROVE  (q * d + r) \div d = q /\ (q * d + r) % d = r
<1> DEFINE n == q * d + r
           p == n \div d
           s == n % d
<1>1. n \in Nat /\ q * d \in Nat
  OBVIOUS
<1>2. p \in Nat /\ s \in 0 .. d - 1 /\ q * d + r = p * d + s
  <2> HIDE DEF n
  <2>1. p \in Nat /\ s \in 0 .. d - 1 /\ n = p * d + s
    BY <1>1, DivMod
  <2> QED
    BY <2>1 DEF n
<1> HIDE DEF n, p, s
<1>3. p * d \in Nat /\ q * d \in Nat
  BY <1>2
<1>4. ~(p < q)
  <2> SUFFICES ASSUME p < q PROVE FALSE
    OBVIOUS
  <2>1. p * d + d =< q * d
    BY <1>2, MulOrder
  <2> QED
    BY <1>2, <1>3, <2>1
<1>5. ~(q < p)
  <2> SUFFICES ASSUME q < p PROVE FALSE
    OBVIOUS
  <2>1. q * d + d =< p * d
    BY <1>2, MulOrder
  <2> QED
    BY <1>2, <1>3, <2>1
<1>6. p = q
  BY <1>2, <1>4, <1>5
<1>7. s = r
  BY <1>1, <1>2, <1>6
<1> QED
  BY <1>6, <1>7 DEF p, s, n

-----------------------------------------------------------------------------
(* The clock.                                                                *)

\* Second s of minute m of hour h of day w, counted from the start of a week.
At(w, h, m, s) == w * Day + h * Hour + m * Secs + s

LEMMA Units ==
    /\ Days \in Nat \ {0} /\ Hours \in Nat \ {0} /\ Mins \in Nat \ {0}
    /\ Secs \in Nat \ {0} /\ Hour \in Nat \ {0} /\ Day \in Nat \ {0}
    /\ Week \in Nat \ {0}
<1>1. /\ Days \in Nat \ {0} /\ Hours \in Nat \ {0} /\ Mins \in Nat \ {0}
      /\ Secs \in Nat \ {0}
  BY JobTimesAssumption DEF JobTimesAssumption
<1>2. ASSUME NEW a \in Nat \ {0}, NEW b \in Nat \ {0} PROVE a * b \in Nat \ {0}
  OBVIOUS
<1>3. Hour \in Nat \ {0}
  BY <1>1, <1>2 DEF Hour
<1>4. Day \in Nat \ {0}
  BY <1>1, <1>2, <1>3 DEF Day
<1>5. Week \in Nat \ {0}
  BY <1>1, <1>2, <1>4 DEF Week
<1> QED
  BY <1>1, <1>3, <1>4, <1>5

\* The seconds of a minute, an hour and a day do not fill the next one.
LEMMA Within ==
    ASSUME NEW h \in 0 .. Hours - 1, NEW m \in 0 .. Mins - 1, NEW s \in 0 .. Secs - 1
    PROVE  /\ m * Secs + s \in 0 .. Hour - 1
           /\ h * Hour + m * Secs + s \in 0 .. Day - 1
<1>1. m * Secs + Secs =< Mins * Secs
  BY Units, MulOrder
<1>2. m * Secs \in Nat
  BY Units
<1>3. m * Secs + s \in 0 .. Hour - 1
  BY <1>1, <1>2, Units DEF Hour
<1>4. h * Hour + Hour =< Hours * Hour
  BY Units, MulOrder
<1>5. h * Hour \in Nat
  BY Units
<1>6. h * Hour + m * Secs + s \in 0 .. Day - 1
  BY <1>2, <1>3, <1>4, <1>5, Units DEF Day
<1> QED
  BY <1>3, <1>6

\* What localtime makes of a moment.
LEMMA FieldsOfAt ==
    ASSUME NEW w \in Nat, NEW h \in 0 .. Hours - 1, NEW m \in 0 .. Mins - 1,
           NEW s \in 0 .. Secs - 1
    PROVE  /\ At(w, h, m, s) \in Nat
           /\ At(w, h, m, s) \div Day = w
           /\ HourOf(At(w, h, m, s)) = h
           /\ MinOf(At(w, h, m, s)) = m
           /\ SecOf(At(w, h, m, s)) = s
<1> DEFINE t == At(w, h, m, s)
<1>1. w * Day \in Nat /\ h * Hour \in Nat /\ m * Secs \in Nat /\ w * Hours \in Nat
  BY Units
<1>2. t \in Nat
  BY <1>1, Units DEF At
<1>3. PICK b \in Nat, e \in 0 .. Hour - 1, f \in 0 .. Day - 1 :
         /\ b = w * Hours + h
         /\ e = m * Secs + s
         /\ f = h * Hour + m * Secs + s
  BY <1>1, Within
<1>4. t = w * Day + f
  BY <1>1, <1>3 DEF At
<1>5. t = b * Hour + e
  <2>1. w * (Hours * Hour) = (w * Hours) * Hour
    BY Units
  <2>2. (w * Hours + h) * Hour = (w * Hours) * Hour + h * Hour
    BY <1>1, Units
  <2> QED
    BY <1>1, <1>3, <2>1, <2>2, Units DEF At, Day
<1>6. PICK a \in Nat : a = b * Mins + m
  BY Units
<1>7. t = a * Secs + s
  <2>1. b * (Mins * Secs) = (b * Mins) * Secs
    BY Units
  <2>2. (b * Mins + m) * Secs = (b * Mins) * Secs + m * Secs
    BY Units
  <2> QED
    BY <1>1, <1>3, <1>5, <1>6, <2>1, <2>2, Units DEF Hour
<1> HIDE DEF t
<1>8. t \div Day = w
  BY <1>4, Units, DivModUnique
<1>9. t \div Hour = b /\ b % Hours = h
  BY <1>3, <1>5, Units, DivModUnique
<1>10. t \div Secs = a /\ t % Secs = s /\ a % Mins = m
  BY <1>6, <1>7, Units, DivModUnique
<1> QED
  BY <1>2, <1>8, <1>9, <1>10 DEF t, HourOf, MinOf, SecOf

\* Every moment is made of such fields.
LEMMA Fields ==
    ASSUME NEW t \in Nat
    PROVE  /\ t \div Day \in Nat
           /\ HourOf(t) \in 0 .. Hours - 1
           /\ MinOf(t) \in 0 .. Mins - 1
           /\ SecOf(t) \in 0 .. Secs - 1
           /\ t = At(t \div Day, HourOf(t), MinOf(t), SecOf(t))
<1>0. ASSUME NEW n \in Nat, NEW d \in Nat \ {0}
      PROVE  \E q \in Nat, r \in 0 .. d - 1 : n = q * d + r
  <2>1. /\ n \div d \in Nat /\ n % d \in 0 .. d - 1
        /\ n = (n \div d) * d + (n % d)
    BY DivMod
  <2> QED
    BY <2>1
<1>1. PICK a \in Nat, s \in 0 .. Secs - 1 : t = a * Secs + s
  BY <1>0, Units
<1>2. PICK b \in Nat, m \in 0 .. Mins - 1 : a = b * Mins + m
  BY <1>0, Units
<1>3. PICK w \in Nat, h \in 0 .. Hours - 1 : b = w * Hours + h
  BY <1>0, Units
<1>4. t = At(w, h, m, s)
  <2>1. b * (Mins * Secs) = (b * Mins) * Secs
    BY Units
  <2>2. (b * Mins + m) * Secs = (b * Mins) * Secs + m * Secs
    BY Units
  <2>3. w * (Hours * Hour) = (w * Hours) * Hour
    BY Units
  <2>4. (w * Hours + h) * Hour = (w * Hours) * Hour + h * Hour
    BY Units
  <2>5. t = b * Hour + m * Secs + s
    BY <1>1, <1>2, <2>1, <2>2, Units DEF Hour
  <2> QED
    BY <1>3, <2>3, <2>4, <2>5, Units DEF At, Day
<1> QED
  BY <1>4, FieldsOfAt

\* A day, hour and minute that is not before another one.
AtLeast(w2, h2, m2, w, h, m) ==
    \/ w2 > w
    \/ w2 = w /\ h2 > h
    \/ w2 = w /\ h2 = h /\ m2 >= m

\* Moments are ordered as their days, hours and minutes are; the minute of the
\* earlier one may be the one after the last of its hour.
LEMMA AtOrder ==
    ASSUME NEW w \in Nat, NEW h \in 0 .. Hours - 1, NEW m \in 0 .. Mins,
           NEW w2 \in Nat, NEW h2 \in Nat, NEW m2 \in Nat,
           AtLeast(w2, h2, m2, w, h, m)
    PROVE  At(w, h, m, 0) =< At(w2, h2, m2, 0)
<1>1. /\ w * Day \in Nat /\ h * Hour \in Nat /\ m * Secs \in Nat
      /\ w2 * Day \in Nat /\ h2 * Hour \in Nat /\ m2 * Secs \in Nat
  BY Units
<1>2. m * Secs =< Hour
  <2>1. m < Mins => m * Secs + Secs =< Mins * Secs
    BY Units, MulOrder
  <2> QED
    BY <1>1, <2>1, Units DEF Hour
<1>3. h * Hour + m * Secs =< Day
  <2>1. h * Hour + Hour =< Hours * Hour
    BY Units, MulOrder
  <2> QED
    BY <1>1, <1>2, <2>1, Units DEF Day
<1>4. CASE w2 > w
  <2>1. w * Day + Day =< w2 * Day
    BY <1>4, Units, MulOrder
  <2> QED
    BY <1>1, <1>3, <2>1, Units DEF At
<1>5. CASE w2 = w /\ h2 > h
  <2>1. h * Hour + Hour =< h2 * Hour
    BY <1>5, Units, MulOrder
  <2> QED
    BY <1>1, <1>2, <1>5, <2>1, Units DEF At
<1>6. CASE w2 = w /\ h2 = h /\ m2 >= m
  <2>1. m2 > m => m * Secs + Secs =< m2 * Secs
    BY Units, MulOrder
  <2>2. m * Secs =< m2 * Secs
    BY <1>1, <1>6, <2>1, Units
  <2> QED
    BY <1>1, <1>6, <2>2 DEF At
<1> QED
  BY <1>4, <1>5, <1>6 DEF AtLeast

\* Hour Hours of a day is hour 0 of the next.
LEMMA AtNextDay ==
    ASSUME NEW w \in Nat, NEW m \in Nat
    PROVE  At(w, Hours, m, 0) = At(w + 1, 0, m, 0)
<1>1. (w + 1) * Day = w * Day + Day /\ w * Day \in Nat
  BY Units
<1> QED
  BY <1>1, Units DEF At, Day

-----------------------------------------------------------------------------
(* Values of a list.                                                         *)

\* The first value of a list.
Least(list) == CHOOSE n \in list : \A m \in list : n =< m

LEMMA LeastIs ==
    ASSUME NEW list \in SUBSET Nat, list # {}
    PROVE  Least(list) \in list /\ \A m \in list : Least(list) =< m
  BY LeastNatural DEF Least

\* _next_list_value.
LEMMA NextValueIs ==
    ASSUME NEW list \in SUBSET Nat, list # {}, NEW v \in Nat
    PROVE  /\ Wraps(v, list) => NextValue(v, list) = Least(list)
           /\ ~Wraps(v, list) => /\ NextValue(v, list) \in list
                                 /\ NextValue(v, list) > v
                                 /\ \A n \in list : n > v => NextValue(v, list) =< n
<1> DEFINE later == {n \in list : n > v}
<1>0. \A n \in list : n \in Nat
  OBVIOUS
<1>1. Wraps(v, list) <=> later = {}
  <2>1. \A n \in list : n > v <=> ~(n =< v)
    BY <1>0
  <2> QED
    BY <2>1 DEF Wraps
<1>2. CASE Wraps(v, list)
  BY <1>1, <1>2 DEF NextValue, Least
<1>3. CASE ~Wraps(v, list)
  <2>1. NextValue(v, list) = Least(later)
    BY <1>1, <1>3 DEF NextValue, Least
  <2>2. Least(later) \in later /\ \A m \in later : Least(later) =< m
    <3>1. later \in SUBSET Nat /\ later # {}
      BY <1>1, <1>3
    <3> HIDE DEF later
    <3> QED
      BY <3>1, LeastIs
  <2> QED
    BY <1>3, <2>1, <2>2
<1> QED
  BY <1>2, <1>3

\* From 0 on the first value is found, and there is no wrap.
LEMMA FromZero ==
    ASSUME NEW list \in SUBSET Nat, list # {}
    PROVE  /\ 0 \in list => Least(list) = 0
           /\ 0 \notin list => ~Wraps(0, list) /\ NextValue(0, list) = Least(list)
<1>0. \A n \in list : n \in Nat
  OBVIOUS
<1>1. Least(list) \in list /\ \A m \in list : Least(list) =< m
  BY LeastIs
<1>2. CASE 0 \in list
  <2>1. Least(list) \in Nat /\ Least(list) =< 0
    BY <1>0, <1>1, <1>2
  <2> QED
    BY <1>2, <2>1
<1>3. CASE 0 \notin list
  <2>1. \A n \in list : n > 0 /\ ~(n =< 0)
    BY <1>0, <1>3
  <2>2. ~Wraps(0, list)
    BY <2>1 DEF Wraps
  <2>3. /\ NextValue(0, list) \in list
        /\ \A n \in list : n > 0 => NextValue(0, list) =< n
    BY <2>2, NextValueIs
  <2>4. NextValue(0, list) =< Least(list) /\ Least(list) =< NextValue(0, list)
    BY <1>1, <2>1, <2>3
  <2>5. NextValue(0, list) \in Nat /\ Least(list) \in Nat
    BY <1>1, <2>3
  <2> QED
    BY <1>3, <2>2, <2>4, <2>5
<1> QED
  BY <1>2, <1>3

-----------------------------------------------------------------------------
(* How far a search has come.                                                *)

\* No moment after prev at which T fires is before minute m of hour h of day w.
Reached(T, prev, w, h, m) ==
    \A x \in Nat : x > prev /\ Fires(T, x)
                      => AtLeast(x \div Day, HourOf(x), MinOf(x), w, h, m)

FirstFiring(T, prev, t) == t > prev /\ {x \in prev + 1 .. t : Fires(T, x)} = {t}

LEMMA FiresAt ==
    ASSUME NEW T, NEW x \in Nat, Fires(T, x)
    PROVE  /\ x = At(x \div Day, HourOf(x), MinOf(x), 0)
           /\ Fits(MinOf(x), T.min)
           /\ Fits(HourOf(x), T.hour)
           /\ Fits((x \div Day) % Days, T.wday)
           /\ x \div Day \in Nat
           /\ HourOf(x) \in 0 .. Hours - 1
           /\ MinOf(x) \in 0 .. Mins - 1
  BY Fields DEF Fires, Weekday

\* The weekday of a day of this week or the next.
LEMMA DayOfWeek ==
    ASSUME NEW w \in Nat
    PROVE  /\ w < Days => w % Days = w
           /\ Days =< w /\ w < 2 * Days => w % Days = w - Days
<1>1. CASE w < Days
  <2>1. w = 0 * Days + w /\ w \in 0 .. Days - 1 /\ 0 \in Nat
    BY <1>1, Units
  <2>2. (0 * Days + w) % Days = w
    BY <2>1, Units, DivModUnique
  <2> QED
    BY <1>1, <2>1, <2>2, Units
<1>2. CASE Days =< w /\ w < 2 * Days
  <2>1. PICK r \in 0 .. Days - 1 : r = w - Days
    BY <1>2, Units
  <2>2. (1 * Days + r) % Days = r
    BY Units, DivModUnique
  <2>3. 1 * Days + r = w
    BY <2>1, Units
  <2> QED
    BY <1>2, <2>1, <2>2, <2>3, Units
<1>3. CASE w >= 2 * Days
  BY <1>3, Units
<1> QED
  BY <1>1, <1>2, <1>3, Units

LEMMA PrevDay ==
    ASSUME NEW prev \in 0 .. Week - 1
    PROVE  /\ prev \in Nat /\ prev % Week = prev
           /\ prev \div Day \in 0 .. Days - 1
           /\ Weekday(prev) = prev \div Day
<1>1. prev \in Nat
  BY Units
<1>2. prev % Week = prev
  <2>1. prev = 0 * Week + prev
    BY <1>1, Units
  <2>2. (0 * Week + prev) % Week = prev
    BY Units, DivModUnique
  <2> QED
    BY <2>1, <2>2
<1>3. PICK q \in Nat, r \in 0 .. Day - 1 : q = prev \div Day /\ prev = q * Day + r
  <2>1. /\ prev \div Day \in Nat /\ prev % Day \in 0 .. Day - 1
        /\ prev = (prev \div Day) * Day + (prev % Day)
    BY <1>1, Units, DivMod
  <2> QED
    BY <2>1
<1>4. q < Days
  <2> SUFFICES ASSUME Days =< q PROVE FALSE
    BY Units
  <2>1. Days < q => Days * Day + Day =< q * Day
    BY Units, MulOrder
  <2>2. q * Day \in Nat /\ Days * Day \in Nat
    BY Units
  <2>3. Days * Day =< q * Day
    BY <2>1, <2>2, Units
  <2> QED
    BY <1>3, <2>2, <2>3, Units DEF Week
<1> QED
  BY <1>1, <1>2, <1>3, <1>4, DayOfWeek, Units DEF Weekday

\* A minute that is after that of prev is after prev.
LEMMA AfterPrev ==
    ASSUME NEW prev \in Nat, NEW w \in Nat, NEW h \in Nat, NEW m \in Nat,
           AtLeast(w, h, m, prev \div Day, HourOf(prev), MinOf(prev) + 1)
    PROVE  prev < At(w, h, m, 0)
<1>1. PICK pw \in Nat, ph \in 0 .. Hours - 1, pm \in 0 .. Mins - 1, ps \in 0 .. Secs - 1 :
         /\ pw = prev \div Day /\ ph = HourOf(prev) /\ pm = MinOf(prev)
         /\ prev = At(pw, ph, pm, ps)
  <2>1. /\ prev \div Day \in Nat /\ HourOf(prev) \in 0 .. Hours - 1
        /\ MinOf(prev) \in 0 .. Mins - 1 /\ SecOf(prev) \in 0 .. Secs - 1
        /\ prev = At(prev \div Day, HourOf(prev), MinOf(prev), SecOf(prev))
    BY Fields
  <2> QED
    BY <2>1
<1>2. pm + 1 \in 0 .. Mins
  BY Units
<1>3. At(pw, ph, pm + 1, 0) =< At(w, h, m, 0)
  BY <1>1, <1>2, AtOrder
<1>4. (pm + 1) * Secs = pm * Secs + Secs /\ pm * Secs \in Nat
  BY Units
<1>5. /\ pw * Day \in Nat /\ ph * Hour \in Nat
      /\ w * Day \in Nat /\ h * Hour \in Nat /\ m * Secs \in Nat
  BY Units
<1> QED
  BY <1>1, <1>3, <1>4, <1>5, Units DEF At

\* The next firing is not in the minute of prev.
LEMMA StartReached ==
    ASSUME NEW T, NEW prev \in Nat
    PROVE  Reached(T, prev, prev \div Day, HourOf(prev), MinOf(prev) + 1)
<1> SUFFICES ASSUME NEW x \in Nat, x > prev, Fires(T, x),
                    ~AtLeast(x \div Day, HourOf(x), MinOf(x),
                             prev \div Day, HourOf(prev), MinOf(prev) + 1)
             PROVE  FALSE
  BY DEF Reached
<1>1. PICK pw \in Nat, ph \in 0 .. Hours - 1, pm \in 0 .. Mins - 1, ps \in 0 .. Secs - 1 :
         /\ pw = prev \div Day /\ ph = HourOf(prev) /\ pm = MinOf(prev)
         /\ prev = At(pw, ph, pm, ps)
  <2>1. /\ prev \div Day \in Nat /\ HourOf(prev) \in 0 .. Hours - 1
        /\ MinOf(prev) \in 0 .. Mins - 1 /\ SecOf(prev) \in 0 .. Secs - 1
        /\ prev = At(prev \div Day, HourOf(prev), MinOf(prev), SecOf(prev))
    BY Fields
  <2> QED
    BY <2>1
<1>2. PICK xw \in Nat, xh \in 0 .. Hours - 1, xm \in 0 .. Mins - 1 :
         /\ xw = x \div Day /\ xh = HourOf(x) /\ xm = MinOf(x)
         /\ x = At(xw, xh, xm, 0)
  BY FiresAt
<1>3. AtLeast(pw, ph, pm, xw, xh, xm)
  BY <1>1, <1>2, Units DEF AtLeast
<1>4. xm \in 0 .. Mins /\ ph \in Nat /\ pm \in Nat
  BY Units
<1>5. At(xw, xh, xm, 0) =< At(pw, ph, pm, 0)
  BY <1>3, <1>4, AtOrder
<1>6. /\ pw * Day \in Nat /\ ph * Hour \in Nat /\ pm * Secs \in Nat
      /\ xw * Day \in Nat /\ xh * Hour \in Nat /\ xm * Secs \in Nat
  BY Units
<1> QED
  BY <1>1, <1>2, <1>5, <1>6, Units DEF At

\* The search is over at a minute that fits.
LEMMA Over ==
    ASSUME NEW T, NEW prev \in Nat, NEW w \in Nat, NEW h \in 0 .. Hours - 1,
           NEW m \in 0 .. Mins - 1, Reached(T, prev, w, h, m), prev < At(w, h, m, 0),
           Fits(w % Days, T.wday), Fits(h, T.hour), Fits(m, T.min)
    PROVE  FirstFiring(T, prev, At(w, h, m, 0))
<1>1. PICK t \in Nat : t = At(w, h, m, 0)
  BY Units, FieldsOfAt
<1>2. Fires(T, t)
  <2>1. 0 \in 0 .. Secs - 1
    BY Units
  <2> QED
    BY <1>1, <2>1, FieldsOfAt DEF Fires, Weekday
<1>3. ASSUME NEW x \in prev + 1 .. t, Fires(T, x) PROVE x = t
  <2>1. x \in Nat /\ x > prev
    OBVIOUS
  <2>2. AtLeast(x \div Day, HourOf(x), MinOf(x), w, h, m)
    BY <1>3, <2>1 DEF Reached
  <2>3. /\ x = At(x \div Day, HourOf(x), MinOf(x), 0)
        /\ x \div Day \in Nat /\ HourOf(x) \in Nat /\ MinOf(x) \in Nat
    BY <1>3, <2>1, FiresAt, Units
  <2>4. m \in 0 .. Mins
    BY Units
  <2>5. t =< x
    BY <1>1, <2>2, <2>3, <2>4, AtOrder
  <2> QED
    BY <2>1, <2>5
<1>4. t \in prev + 1 .. t
  BY <1>1
<1> QED
  BY <1>1, <1>2, <1>3, <1>4 DEF FirstFiring

-----------------------------------------------------------------------------
(* The moves of a search.                                                    *)

LEMMA TimeLists ==
    ASSUME NEW T \in TimeType
    PROVE  /\ T.min \in SUBSET (0 .. Mins - 1) /\ T.min \in SUBSET Nat
           /\ T.hour \in SUBSET (0 .. Hours - 1) /\ T.hour \in SUBSET Nat
           /\ T.wday \in SUBSET (0 .. Days - 1) /\ T.wday \in SUBSET Nat
<1>1. /\ T.min \in SUBSET (0 .. Mins - 1)
      /\ T.hour \in SUBSET (0 .. Hours - 1)
      /\ T.wday \in SUBSET (0 .. Days - 1)
  BY DEF TimeType
<1>2. 0 .. Mins - 1 \subseteq Nat /\ 0 .. Hours - 1 \subseteq Nat /\ 0 .. Days - 1 \subseteq Nat
  BY Units
<1> QED
  BY <1>1, <1>2

\* On to the next weekday that fits, in this week or the next one.
LEMMA DayMove ==
    ASSUME NEW T \in TimeType, NEW prev \in Nat, NEW w \in 0 .. Days, NEW h \in Nat,
           NEW m \in Nat, Reached(T, prev, w, h, m), T.wday # {}, w \notin T.wday,
           NEW n, n = NextValue(w, T.wday),
           NEW W, W = IF Wraps(w, T.wday) THEN Days + n ELSE n
    PROVE  /\ n \in T.wday /\ n \in 0 .. Days - 1
           /\ W \in Nat /\ W % Days = n
           /\ W > w \/ W >= Days
           /\ Reached(T, prev, W, 0, 0)
<1>0. T.wday \in SUBSET Nat /\ T.wday \in SUBSET (0 .. Days - 1) /\ w \in Nat
  BY TimeLists, Units
<1>1. /\ n \in T.wday
      /\ Wraps(w, T.wday) => \A k \in T.wday : n =< k
      /\ ~Wraps(w, T.wday) => n > w /\ \A k \in T.wday : k > w => n =< k
  BY <1>0, NextValueIs, LeastIs
<1>2. n \in 0 .. Days - 1 /\ n \in Nat
  BY <1>0, <1>1
<1>3. W \in Nat /\ (W > w \/ W >= Days)
  BY <1>0, <1>1, <1>2, Units
<1>4. W % Days = n
  BY <1>2, <1>3, DayOfWeek, Units
<1>5. Reached(T, prev, W, 0, 0)
  <2> SUFFICES ASSUME NEW x \in Nat, x > prev, Fires(T, x)
               PROVE  AtLeast(x \div Day, HourOf(x), MinOf(x), W, 0, 0)
    BY DEF Reached
  <2>1. PICK xw \in Nat, xh \in Nat, xm \in Nat :
           /\ xw = x \div Day /\ xh = HourOf(x) /\ xm = MinOf(x)
           /\ xw % Days \in T.wday
    BY FiresAt, Units DEF Fits
  <2>2. xw >= w
    BY <2>1 DEF Reached, AtLeast
  <2>3. xw >= W
    <3> SUFFICES ASSUME xw < W PROVE FALSE
      BY <1>3
    <3>1. CASE ~Wraps(w, T.wday)
      <4>1. xw < Days /\ xw \in T.wday /\ xw # w
        BY <1>2, <2>1, <3>1, DayOfWeek, Units
      <4> QED
        BY <1>0, <1>1, <1>2, <2>2, <3>1, <4>1
    <3>2. CASE Wraps(w, T.wday)
      <4>1. CASE xw < Days
        <5>1. xw \in T.wday /\ xw # w
          BY <2>1, <4>1, DayOfWeek
        <5>2. xw =< w
          BY <3>2, <5>1 DEF Wraps
        <5> QED
          BY <1>0, <2>2, <5>1, <5>2
      <4>2. CASE xw >= Days
        <5>1. xw < 2 * Days /\ xw - Days < n
          BY <1>2, <3>2, Units
        <5>2. xw - Days \in T.wday
          BY <2>1, <4>2, <5>1, DayOfWeek, Units
        <5> QED
          BY <1>1, <1>2, <3>2, <5>1, <5>2, Units
      <4> QED
        BY <4>1, <4>2, Units
    <3> QED
      BY <3>1, <3>2
  <2> QED
    BY <1>3, <2>1, <2>3 DEF AtLeast
<1> QED
  BY <1>1, <1>2, <1>3, <1>4, <1>5

\* From the start of a day to its first hour that fits.
LEMMA FirstHour ==
    ASSUME NEW T \in TimeType, NEW prev \in Nat, NEW w \in Nat,
           Reached(T, prev, w, 0, 0), T.hour # {}
    PROVE  Reached(T, prev, w, Least(T.hour), 0)
<1> SUFFICES ASSUME NEW x \in Nat, x > prev, Fires(T, x)
             PROVE  AtLeast(x \div Day, HourOf(x), MinOf(x), w, Least(T.hour), 0)
  BY DEF Reached
<1>1. PICK xw \in Nat, xh \in Nat, xm \in Nat :
         /\ xw = x \div Day /\ xh = HourOf(x) /\ xm = MinOf(x)
         /\ xh \in T.hour
  BY FiresAt, Units DEF Fits
<1>2. Least(T.hour) \in Nat /\ Least(T.hour) =< xh
  BY <1>1, TimeLists, LeastIs
<1>3. xw >= w
  BY <1>1 DEF Reached, AtLeast
<1> QED
  BY <1>1, <1>2, <1>3 DEF AtLeast

\* From the start of an hour to its first minute that fits.
LEMMA FirstMin ==
    ASSUME NEW T \in TimeType, NEW prev \in Nat, NEW w \in Nat, NEW h \in Nat,
           Reached(T, prev, w, h, 0), T.min # {}
    PROVE  Reached(T, prev, w, h, Least(T.min))
<1> SUFFICES ASSUME NEW x \in Nat, x > prev, Fires(T, x)
             PROVE  AtLeast(x \div Day, HourOf(x), MinOf(x), w, h, Least(T.min))
  BY DEF Reached
<1>1. PICK xw \in Nat, xh \in Nat, xm \in Nat :
         /\ xw = x \div Day /\ xh = HourOf(x) /\ xm = MinOf(x)
         /\ xm \in T.min
  BY FiresAt, Units DEF Fits
<1>2. Least(T.min) \in Nat /\ Least(T.min) =< xm
  BY <1>1, TimeLists, LeastIs
<1>3. AtLeast(xw, xh, xm, w, h, 0)
  BY <1>1 DEF Reached
<1> QED
  BY <1>1, <1>2, <1>3 DEF AtLeast

\* On to the next hour that fits, of this day or of the next one.
LEMMA HourMove ==
    ASSUME NEW T \in TimeType, NEW prev \in Nat, NEW w \in Nat, NEW h \in Nat,
           NEW m \in Nat, Reached(T, prev, w, h, m), T.hour # {}, h \notin T.hour
    PROVE  /\ Wraps(h, T.hour) => Reached(T, prev, w + 1, 0, 0)
           /\ ~Wraps(h, T.hour) => Reached(T, prev, w, NextValue(h, T.hour), 0)
<1>0. T.hour \in SUBSET Nat
  BY TimeLists
<1>1. ASSUME NEW x \in Nat, x > prev, Fires(T, x)
      PROVE  \E xw, xh, xm \in Nat :
                /\ xw = x \div Day /\ xh = HourOf(x) /\ xm = MinOf(x)
                /\ xh \in T.hour
                /\ xw > w \/ (xw = w /\ xh > h)
  <2>1. PICK xw \in Nat, xh \in Nat, xm \in Nat :
           /\ xw = x \div Day /\ xh = HourOf(x) /\ xm = MinOf(x)
           /\ xh \in T.hour
    BY <1>1, FiresAt, Units DEF Fits
  <2>2. AtLeast(xw, xh, xm, w, h, m)
    BY <1>1, <2>1 DEF Reached
  <2>3. xh # h
    BY <2>1
  <2> QED
    BY <2>1, <2>2, <2>3 DEF AtLeast
<1>2. CASE Wraps(h, T.hour)
  <2>1. ASSUME NEW x \in Nat, x > prev, Fires(T, x)
        PROVE  AtLeast(x \div Day, HourOf(x), MinOf(x), w + 1, 0, 0)
    <3>1. PICK xw, xh, xm \in Nat :
             /\ xw = x \div Day /\ xh = HourOf(x) /\ xm = MinOf(x)
             /\ xh \in T.hour
             /\ xw > w \/ (xw = w /\ xh > h)
      BY <1>1, <2>1
    <3>2. xh =< h
      BY <1>2, <3>1 DEF Wraps
    <3> QED
      BY <3>1, <3>2 DEF AtLeast
  <2> QED
    BY <1>2, <2>1 DEF Reached
<1>3. CASE ~Wraps(h, T.hour)
  <2>1. /\ NextValue(h, T.hour) \in Nat
        /\ \A n \in T.hour : n > h => NextValue(h, T.hour) =< n
    BY <1>0, <1>3, NextValueIs
  <2>2. ASSUME NEW x \in Nat, x > prev, Fires(T, x)
        PROVE  AtLeast(x \div Day, HourOf(x), MinOf(x), w, NextValue(h, T.hour), 0)
    <3>1. PICK xw, xh, xm \in Nat :
             /\ xw = x \div Day /\ xh = HourOf(x) /\ xm = MinOf(x)
             /\ xh \in T.hour
             /\ xw > w \/ (xw = w /\ xh > h)
      BY <1>1, <2>2
    <3> QED
      BY <2>1, <3>1 DEF AtLeast
  <2> QED
    BY <1>3, <2>2 DEF Reached
<1> QED
  BY <1>2, <1>3

\* On to the next minute that fits, of this hour or of the next one.
LEMMA MinMove ==
    ASSUME NEW T \in TimeType, NEW prev \in Nat, NEW w \in Nat, NEW h \in Nat,
           NEW m \in Nat, Reached(T, prev, w, h, m), T.min # {}, m \notin T.min
    PROVE  /\ Wraps(m, T.min) => Reached(T, prev, w, h + 1, 0)
           /\ ~Wraps(m, T.min) => Reached(T, prev, w, h, NextValue(m, T.min))
<1>0. T.min \in SUBSET Nat
  BY TimeLists
<1>1. ASSUME NEW x \in Nat, x > prev, Fires(T, x)
      PROVE  \E xw, xh, xm \in Nat :
                /\ xw = x \div Day /\ xh = HourOf(x) /\ xm = MinOf(x)
                /\ xm \in T.min
                /\ xw > w \/ (xw = w /\ (xh > h \/ (xh = h /\ xm > m)))
  <2>1. PICK xw \in Nat, xh \in Nat, xm \in Nat :
           /\ xw = x \div Day /\ xh = HourOf(x) /\ xm = MinOf(x)
           /\ xm \in T.min
    BY <1>1, FiresAt, Units DEF Fits
  <2>2. AtLeast(xw, xh, xm, w, h, m)
    BY <1>1, <2>1 DEF Reached
  <2>3. xm # m
    BY <2>1
  <2> QED
    BY <2>1, <2>2, <2>3 DEF AtLeast
<1>2. CASE Wraps(m, T.min)
  <2>1. ASSUME NEW x \in Nat, x > prev, Fires(T, x)
        PROVE  AtLeast(x \div Day, HourOf(x), MinOf(x), w, h + 1, 0)
    <3>1. PICK xw, xh, xm \in Nat :
             /\ xw = x \div Day /\ xh = HourOf(x) /\ xm = MinOf(x)
             /\ xm \in T.min
             /\ xw > w \/ (xw = w /\ (xh > h \/ (xh = h /\ xm > m)))
      BY <1>1, <2>1
    <3>2. xm =< m
      BY <1>2, <3>1 DEF Wraps
    <3> QED
      BY <3>1, <3>2 DEF AtLeast
  <2> QED
    BY <1>2, <2>1 DEF Reached
<1>3. CASE ~Wraps(m, T.min)
  <2>1. /\ NextValue(m, T.min) \in Nat
        /\ \A n \in T.min : n > m => NextValue(m, T.min) =< n
    BY <1>0, <1>3, NextValueIs
  <2>2. ASSUME NEW x \in Nat, x > prev, Fires(T, x)
        PROVE  AtLeast(x \div Day, HourOf(x), MinOf(x), w, h, NextValue(m, T.min))
    <3>1. PICK xw, xh, xm \in Nat :
             /\ xw = x \div Day /\ xh = HourOf(x) /\ xm = MinOf(x)
             /\ xm \in T.min
             /\ xw > w \/ (xw = w /\ (xh > h \/ (xh = h /\ xm > m)))
      BY <1>1, <2>2
    <3> QED
      BY <2>1, <3>1 DEF AtLeast
  <2> QED
    BY <1>3, <2>2 DEF Reached
<1> QED
  BY <1>2, <1>3

-----------------------------------------------------------------------------
(* One round of a search.                                                    *)

\* A clock of a search that has not found anything yet.
Clock(w, h, m, k) == [wday |-> w, hour |-> h, min |-> m, week |-> k, found |-> 0]

\* The search has found the first firing.
Found(T, prev, r) ==
    r.found \in Nat /\ r.found > 0 /\ FirstFiring(T, prev, prev + r.found)

\* A round finds the moment of its clock when that is the first firing.
LEMMA RoundFinds ==
    ASSUME NEW T, NEW prev \in 0 .. Week - 1, NEW c,
           NEW w \in Nat, NEW h \in Nat, NEW m \in Nat, NEW k \in Nat,
           SetHour(T, SetDay(T, c)).wday = SetDay(T, c).wday,
           SetMin(T, SetHour(T, SetDay(T, c))) = Clock(w, h, m, k),
           SetHour(T, SetDay(T, c)).hour = h,
           FirstFiring(T, prev, At(k * Days + w, h, m, 0))
    PROVE  Found(T, prev, Round(T, prev, c))
<1> DEFINE W == k * Days + w
           diff == k * Week + w * Day + h * Hour + m * Secs - (prev % Week)
<1>1. W \in Nat /\ k * Days \in Nat
  BY Units
<1>2. prev % Week = prev /\ prev \in Nat
  BY PrevDay
<1>3. diff = At(W, h, m, 0) - prev
  <2>1. (k * Days + w) * Day = (k * Days) * Day + w * Day
    BY <1>1, Units
  <2>2. (k * Days) * Day = k * (Days * Day)
    BY Units
  <2>3. /\ k * Week \in Nat /\ w * Day \in Nat /\ h * Hour \in Nat /\ m * Secs \in Nat
        /\ W * Day \in Nat
    BY <1>1, Units
  <2> QED
    BY <1>2, <2>1, <2>2, <2>3, Units DEF At, Week
<1>4. W * Day \in Nat /\ h * Hour \in Nat /\ m * Secs \in Nat
  BY <1>1, Units
<1>5. At(W, h, m, 0) \in Nat
  BY <1>4 DEF At
<1>6. At(W, h, m, 0) > prev
  BY DEF FirstFiring
<1>7. PICK t \in Nat : t = At(W, h, m, 0)
  BY <1>5
<1>8. diff = t - prev /\ t > prev
  BY <1>3, <1>6, <1>7
<1>9. Round(T, prev, c) = IF diff > 0 THEN [Clock(w, h, m, k) EXCEPT !.found = diff]
                          ELSE Advance(T, Clock(w, h, m, k))
  BY DEF Round, Clock
<1> HIDE DEF diff, W
<1>10. diff > 0 /\ diff \in Nat /\ prev + diff = t
  BY <1>2, <1>8
<1>11. Round(T, prev, c) = [Clock(w, h, m, k) EXCEPT !.found = diff]
  BY <1>9, <1>10
<1>12. Round(T, prev, c).found = diff
  BY <1>11 DEF Clock
<1> QED
  BY <1>7, <1>10, <1>12 DEF Found, W

\* From midnight the first hour and the first minute that fit are found.
LEMMA FromMidnight ==
    ASSUME NEW T \in TimeType, NEW w, NEW k, T.hour # {}
    PROVE  SetHour(T, Clock(w, 0, 0, k)) = Clock(w, Least(T.hour), 0, k)
<1>1. T.hour \in SUBSET Nat
  BY TimeLists
<1>2. CASE 0 \in T.hour
  <2>1. Least(T.hour) = 0
    BY <1>1, <1>2, FromZero
  <2> QED
    BY <1>2, <2>1 DEF SetHour, Fits, Clock
<1>3. CASE 0 \notin T.hour
  <2>1. ~Wraps(0, T.hour) /\ NextValue(0, T.hour) = Least(T.hour)
    BY <1>1, <1>3, FromZero
  <2> QED
    BY <1>3, <2>1 DEF SetHour, Fits, Clock
<1> QED
  BY <1>2, <1>3

\* From the start of an hour the first minute that fits is found.
LEMMA FromHour ==
    ASSUME NEW T \in TimeType, NEW w, NEW h, NEW k, T.min # {}
    PROVE  SetMin(T, Clock(w, h, 0, k)) = Clock(w, h, Least(T.min), k)
<1>1. T.min \in SUBSET Nat
  BY TimeLists
<1>2. CASE 0 \in T.min
  <2>1. Least(T.min) = 0
    BY <1>1, <1>2, FromZero
  <2> QED
    BY <1>2, <2>1 DEF SetMin, Fits, Clock
<1>3. CASE 0 \notin T.min
  <2>1. ~Wraps(0, T.min) /\ NextValue(0, T.min) = Least(T.min)
    BY <1>1, <1>3, FromZero
  <2> QED
    BY <1>3, <2>1 DEF SetMin, Fits, Clock
<1> QED
  BY <1>2, <1>3

\* What a round starts from: the clock is not before prev, and no firing after prev
\* is before the clock.
Searching(T, prev, w, h, m) ==
    /\ w \in 0 .. Days /\ h \in 0 .. Hours /\ m \in 0 .. Mins
    /\ h < Hours \/ m = Least(T.min)
    /\ AtLeast(w, h, m, prev \div Day, HourOf(prev), MinOf(prev))
    /\ Reached(T, prev, w, h, m)

LEMMA SearchTypes ==
    ASSUME NEW T \in TimeType, Exact(T), NEW prev \in 0 .. Week - 1, NEW w, NEW h, NEW m,
           Searching(T, prev, w, h, m)
    PROVE  /\ w \in Nat /\ h \in Nat /\ m \in Nat /\ prev \in Nat
           /\ prev \div Day \in 0 .. Days - 1 /\ prev \div Day \in Nat
           /\ HourOf(prev) \in 0 .. Hours - 1 /\ HourOf(prev) \in Nat
           /\ MinOf(prev) \in 0 .. Mins - 1 /\ MinOf(prev) \in Nat
           /\ Least(T.min) \in T.min /\ Least(T.min) \in 0 .. Mins - 1
           /\ \A n \in T.min : Least(T.min) =< n
           /\ T.hour # {} => /\ Least(T.hour) \in T.hour
                             /\ Least(T.hour) \in 0 .. Hours - 1
<1>1. w \in Nat /\ h \in Nat /\ m \in Nat
  BY Units DEF Searching
<1>2. prev \in Nat /\ prev \div Day \in 0 .. Days - 1 /\ prev \div Day \in Nat
  BY PrevDay, Units
<1>3. HourOf(prev) \in 0 .. Hours - 1 /\ MinOf(prev) \in 0 .. Mins - 1
  BY <1>2, Fields
<1>4. /\ Least(T.min) \in T.min /\ Least(T.min) \in 0 .. Mins - 1
      /\ \A n \in T.min : Least(T.min) =< n
  BY TimeLists, LeastIs DEF Exact
<1>5. T.hour # {} => Least(T.hour) \in T.hour /\ Least(T.hour) \in 0 .. Hours - 1
  BY TimeLists, LeastIs
<1> QED
  BY <1>1, <1>2, <1>3, <1>4, <1>5, Units

\* The weekday does not fit: the first moment of the next one that does is found.
LEMMA RoundDay ==
    ASSUME NEW T \in TimeType, Exact(T), NEW prev \in 0 .. Week - 1, NEW w, NEW h, NEW m,
           Searching(T, prev, w, h, m), ~Fits(w, T.wday)
    PROVE  Found(T, prev, Round(T, prev, Clock(w, h, m, 0)))
<1> DEFINE n == NextValue(w, T.wday)
           k == IF Wraps(w, T.wday) THEN 1 ELSE 0
           W == IF Wraps(w, T.wday) THEN Days + n ELSE n
           lh == Least(T.hour)
           lm == Least(T.min)
<1>1. T.wday # {} /\ w \notin T.wday /\ T.hour # {} /\ T.min # {}
  BY DEF Fits, Exact
<1>2. /\ n \in T.wday /\ n \in 0 .. Days - 1
      /\ W \in Nat /\ W % Days = n
      /\ W > w \/ W >= Days
      /\ Reached(T, prev, W, 0, 0)
  BY <1>1, SearchTypes, DayMove DEF Searching
<1>3. lh \in T.hour /\ lh \in 0 .. Hours - 1 /\ lm \in T.min /\ lm \in 0 .. Mins - 1
  BY <1>1, SearchTypes
<1>4. lh \in Nat /\ lm \in Nat /\ n \in Nat /\ k \in Nat /\ k * Days + n = W
  BY <1>2, <1>3, Units
<1>5. SetDay(T, Clock(w, h, m, 0)) = Clock(n, 0, 0, k)
  BY DEF SetDay, Clock
<1>6. SetHour(T, Clock(n, 0, 0, k)) = Clock(n, lh, 0, k)
  BY <1>1, FromMidnight
<1>7. SetMin(T, Clock(n, lh, 0, k)) = Clock(n, lh, lm, k)
  BY <1>1, FromHour
<1>8. Reached(T, prev, W, lh, lm)
  <2>1. prev \in Nat
    BY SearchTypes
  <2>2. Reached(T, prev, W, lh, 0)
    BY <1>1, <1>2, <2>1, FirstHour
  <2> QED
    BY <1>1, <1>2, <1>4, <2>1, <2>2, FirstMin
<1>9. prev < At(W, lh, lm, 0)
  <2>1. W > prev \div Day
    <3>1. w >= prev \div Day
      BY SearchTypes DEF Searching, AtLeast
    <3> HIDE DEF W
    <3> QED
      BY <1>2, <3>1, SearchTypes, Units
  <2>2. AtLeast(W, lh, lm, prev \div Day, HourOf(prev), MinOf(prev) + 1)
    BY <2>1 DEF AtLeast
  <2>3. prev \in Nat
    BY SearchTypes
  <2> QED
    BY <1>2, <1>4, <2>2, <2>3, AfterPrev
<1>10. FirstFiring(T, prev, At(W, lh, lm, 0))
  <2>1. Fits(W % Days, T.wday) /\ Fits(lh, T.hour) /\ Fits(lm, T.min)
    BY <1>2, <1>3 DEF Fits
  <2>2. prev \in Nat
    BY SearchTypes
  <2> QED
    BY <1>2, <1>3, <1>8, <1>9, <2>1, <2>2, Over
<1> HIDE DEF n, k, W, lh, lm
<1>11. /\ SetHour(T, SetDay(T, Clock(w, h, m, 0))) = Clock(n, lh, 0, k)
       /\ SetMin(T, SetHour(T, SetDay(T, Clock(w, h, m, 0)))) = Clock(n, lh, lm, k)
  BY <1>5, <1>6, <1>7
<1>12. /\ SetHour(T, SetDay(T, Clock(w, h, m, 0))).wday = SetDay(T, Clock(w, h, m, 0)).wday
       /\ SetHour(T, SetDay(T, Clock(w, h, m, 0))).hour = lh
  BY <1>5, <1>11 DEF Clock
<1> QED
  BY <1>4, <1>10, <1>11, <1>12, RoundFinds

\* The hour does not fit: the first moment of the next one of the day that does is
\* found, or the clock is set to the first one of the next day.
LEMMA RoundHour ==
    ASSUME NEW T \in TimeType, Exact(T), NEW prev \in 0 .. Week - 1, NEW w, NEW h, NEW m,
           Searching(T, prev, w, h, m), Fits(w, T.wday), ~Fits(h, T.hour)
    PROVE  \/ Found(T, prev, Round(T, prev, Clock(w, h, m, 0)))
           \/ /\ Round(T, prev, Clock(w, h, m, 0)) = Clock(w + 1, Least(T.hour), 0, 0)
              /\ Reached(T, prev, w + 1, Least(T.hour), 0)
<1> DEFINE n == NextValue(h, T.hour)
           lm == Least(T.min)
<1>1. T.hour # {} /\ h \notin T.hour /\ T.min # {}
  BY DEF Fits, Exact
<1>2. SetDay(T, Clock(w, h, m, 0)) = Clock(w, h, m, 0)
  BY DEF SetDay, Clock
<1>3. w \in Nat /\ h \in Nat /\ m \in Nat /\ prev \in Nat
  BY SearchTypes
<1>4. T.hour \in SUBSET Nat /\ T.hour \in SUBSET (0 .. Hours - 1)
  BY TimeLists
<1>5. CASE Wraps(h, T.hour)
  <2>1. n = Least(T.hour)
    BY <1>1, <1>3, <1>4, <1>5, NextValueIs
  <2>2. SetHour(T, Clock(w, h, m, 0)) = Clock(w + 1, Least(T.hour), 0, 0)
    BY <1>1, <1>5, <2>1 DEF SetHour, Clock
  <2>3. w + 1 # w
    BY <1>3
  <2>4. Round(T, prev, Clock(w, h, m, 0)) = Clock(w + 1, Least(T.hour), 0, 0)
    BY <1>2, <2>2, <2>3 DEF Round, Clock
  <2>5. Reached(T, prev, w + 1, 0, 0)
    BY <1>1, <1>3, <1>5, HourMove DEF Searching
  <2>6. Reached(T, prev, w + 1, Least(T.hour), 0)
    BY <1>1, <1>3, <2>5, FirstHour
  <2> QED
    BY <2>4, <2>6
<1>6. CASE ~Wraps(h, T.hour)
  <2>1. n \in T.hour /\ n > h
    BY <1>1, <1>3, <1>4, <1>6, NextValueIs
  <2>2. n \in 0 .. Hours - 1 /\ n \in Nat
    BY <1>4, <2>1
  <2>3. SetHour(T, Clock(w, h, m, 0)) = Clock(w, n, 0, 0)
    BY <1>1, <1>6 DEF SetHour, Clock
  <2>4. SetMin(T, Clock(w, n, 0, 0)) = Clock(w, n, lm, 0)
    BY <1>1, FromHour
  <2>5. lm \in T.min /\ lm \in 0 .. Mins - 1 /\ lm \in Nat
    BY SearchTypes
  <2>6. Reached(T, prev, w, n, lm)
    <3>1. Reached(T, prev, w, n, 0)
      BY <1>1, <1>3, <1>6, HourMove DEF Searching
    <3> QED
      BY <1>1, <1>3, <2>2, <3>1, FirstMin
  <2> HIDE DEF n, lm
  <2>7. prev < At(w, n, lm, 0)
    <3>1. AtLeast(w, n, lm, prev \div Day, HourOf(prev), MinOf(prev) + 1)
      BY <1>3, <2>1, <2>2, SearchTypes DEF Searching, AtLeast
    <3> QED
      BY <1>3, <2>2, <2>5, <3>1, AfterPrev
  <2>8. FirstFiring(T, prev, At(w, n, lm, 0))
    <3>1. Fits(n, T.hour) /\ Fits(lm, T.min)
      BY <2>1, <2>5 DEF Fits
    <3>2. Fits(w % Days, T.wday)
      BY <1>3, TimeLists, DayOfWeek, Units DEF Fits
    <3> QED
      BY <1>3, <2>2, <2>5, <2>6, <2>7, <3>1, <3>2, Over
  <2>9. 0 * Days + w = w /\ 0 \in Nat
    BY <1>3, Units
  <2>10. /\ SetHour(T, SetDay(T, Clock(w, h, m, 0))) = Clock(w, n, 0, 0)
         /\ SetMin(T, SetHour(T, SetDay(T, Clock(w, h, m, 0)))) = Clock(w, n, lm, 0)
    BY <1>2, <2>3, <2>4
  <2>11. /\ SetHour(T, SetDay(T, Clock(w, h, m, 0))).wday = SetDay(T, Clock(w, h, m, 0)).wday
         /\ SetHour(T, SetDay(T, Clock(w, h, m, 0))).hour = n
    BY <1>2, <2>10 DEF Clock
  <2> QED
    BY <1>3, <2>2, <2>5, <2>8, <2>9, <2>10, <2>11, RoundFinds
<1> QED
  BY <1>5, <1>6

\* The minute does not fit: the next one of the hour that does is found, or the clock
\* is set to the first one of the next hour.
LEMMA RoundMin ==
    ASSUME NEW T \in TimeType, Exact(T), NEW prev \in 0 .. Week - 1, NEW w, NEW h, NEW m,
           Searching(T, prev, w, h, m), Fits(w, T.wday), Fits(h, T.hour), ~Fits(m, T.min)
    PROVE  \/ Found(T, prev, Round(T, prev, Clock(w, h, m, 0)))
           \/ /\ Wraps(m, T.min) /\ m \notin T.min /\ h < Hours
              /\ Round(T, prev, Clock(w, h, m, 0)) = Clock(w, h + 1, Least(T.min), 0)
              /\ Reached(T, prev, w, h + 1, Least(T.min))
<1> DEFINE n == NextValue(m, T.min)
<1>1. T.min # {} /\ m \notin T.min
  BY DEF Fits
<1>2. /\ SetDay(T, Clock(w, h, m, 0)) = Clock(w, h, m, 0)
      /\ SetHour(T, Clock(w, h, m, 0)) = Clock(w, h, m, 0)
  BY DEF SetDay, SetHour, Clock
<1>3. w \in Nat /\ h \in Nat /\ m \in Nat /\ prev \in Nat
  BY SearchTypes
<1>4. T.min \in SUBSET Nat /\ T.min \in SUBSET (0 .. Mins - 1)
  BY TimeLists
<1>5. h < Hours /\ h \in 0 .. Hours - 1
  <2>1. h < Hours
    BY <1>1, SearchTypes DEF Searching
  <2> QED
    BY <1>3, <2>1, Units
<1>6. CASE Wraps(m, T.min)
  <2>1. n = Least(T.min)
    BY <1>1, <1>3, <1>4, <1>6, NextValueIs
  <2>2. SetMin(T, Clock(w, h, m, 0)) = Clock(w, h + 1, Least(T.min), 0)
    BY <1>1, <1>6, <2>1 DEF SetMin, Clock
  <2>3. h + 1 # h
    BY <1>3
  <2>4. Round(T, prev, Clock(w, h, m, 0)) = Clock(w, h + 1, Least(T.min), 0)
    BY <1>2, <2>2, <2>3 DEF Round, Clock
  <2>5. Reached(T, prev, w, h + 1, 0)
    BY <1>1, <1>3, <1>6, MinMove DEF Searching
  <2>6. Reached(T, prev, w, h + 1, Least(T.min))
    BY <1>1, <1>3, <2>5, FirstMin
  <2> QED
    BY <1>1, <1>5, <1>6, <2>4, <2>6
<1>7. CASE ~Wraps(m, T.min)
  <2>1. n \in T.min /\ n > m
    BY <1>1, <1>3, <1>4, <1>7, NextValueIs
  <2>2. n \in 0 .. Mins - 1 /\ n \in Nat
    BY <1>4, <2>1
  <2>3. SetMin(T, Clock(w, h, m, 0)) = Clock(w, h, n, 0)
    BY <1>1, <1>7 DEF SetMin, Clock
  <2>4. Reached(T, prev, w, h, n)
    BY <1>1, <1>3, <1>7, MinMove DEF Searching
  <2> HIDE DEF n
  <2>5. prev < At(w, h, n, 0)
    <3>1. AtLeast(w, h, n, prev \div Day, HourOf(prev), MinOf(prev) + 1)
      BY <1>3, <2>1, <2>2, SearchTypes DEF Searching, AtLeast
    <3> QED
      BY <1>3, <2>2, <3>1, AfterPrev
  <2>6. FirstFiring(T, prev, At(w, h, n, 0))
    <3>1. Fits(n, T.min)
      BY <2>1 DEF Fits
    <3>2. Fits(w % Days, T.wday)
      BY <1>3, TimeLists, DayOfWeek, Units DEF Fits
    <3> QED
      BY <1>3, <1>5, <2>2, <2>4, <2>5, <3>1, <3>2, Over
  <2>7. 0 * Days + w = w /\ 0 \in Nat
    BY <1>3, Units
  <2>8. /\ SetMin(T, SetHour(T, SetDay(T, Clock(w, h, m, 0)))) = Clock(w, h, n, 0)
        /\ SetHour(T, SetDay(T, Clock(w, h, m, 0))) = SetDay(T, Clock(w, h, m, 0))
        /\ SetHour(T, SetDay(T, Clock(w, h, m, 0))).hour = h
    BY <1>2, <2>3 DEF Clock
  <2> QED
    BY <1>3, <2>2, <2>6, <2>7, <2>8, RoundFinds
<1> QED
  BY <1>6, <1>7

\* Everything fits: the moment of the clock is found, or the clock is still not after
\* prev and goes on by a minute.
LEMMA RoundFits ==
    ASSUME NEW T \in TimeType, Exact(T), NEW prev \in 0 .. Week - 1, NEW w, NEW h, NEW m,
           Searching(T, prev, w, h, m), Fits(w, T.wday), Fits(h, T.hour), Fits(m, T.min)
    PROVE  \/ Found(T, prev, Round(T, prev, Clock(w, h, m, 0)))
           \/ /\ ~(prev < At(w, h, m, 0)) /\ m \in T.min
              /\ Round(T, prev, Clock(w, h, m, 0)) = Clock(w, h, m + 1, 0)
<1> DEFINE c == Clock(w, h, m, 0)
<1>1. T.min # {} /\ m \in T.min /\ m \in 0 .. Mins - 1
  BY TimeLists DEF Fits, Exact
<1>2. SetDay(T, c) = c /\ SetHour(T, c) = c /\ SetMin(T, c) = c
  BY DEF SetDay, SetHour, SetMin, Clock
<1>3. w \in Nat /\ h \in Nat /\ m \in Nat /\ prev \in Nat /\ prev % Week = prev
  BY SearchTypes, PrevDay
<1>4. CASE prev < At(w, h, m, 0)
  <2>1. FirstFiring(T, prev, At(w, h, m, 0))
    <3>1. CASE h < Hours
      <4>1. h \in 0 .. Hours - 1
        BY <1>3, <3>1, Units
      <4>2. Fits(w % Days, T.wday)
        BY <1>3, TimeLists, DayOfWeek, Units DEF Fits
      <4> QED
        BY <1>1, <1>3, <1>4, <4>1, <4>2, Over DEF Searching
    <3>2. CASE h = Hours
      <4>1. T.hour = {} /\ T.wday = {}
        BY <1>3, <3>2, TimeLists, Units DEF Fits, Exact
      <4>2. Reached(T, prev, w + 1, 0, m)
        <5> SUFFICES ASSUME NEW x \in Nat, x > prev, Fires(T, x)
                     PROVE  AtLeast(x \div Day, HourOf(x), MinOf(x), w + 1, 0, m)
          BY DEF Reached
        <5>1. PICK xw \in Nat, xh \in 0 .. Hours - 1, xm \in Nat :
                 /\ xw = x \div Day /\ xh = HourOf(x) /\ xm = MinOf(x)
                 /\ xm \in T.min
          BY <1>1, FiresAt, Units DEF Fits
        <5>2. AtLeast(xw, xh, xm, w, h, m)
          BY <5>1 DEF Searching, Reached
        <5>3. xm >= m
          BY <1>3, <3>2, <5>1, SearchTypes, Units DEF Searching
        <5> QED
          BY <1>3, <3>2, <5>1, <5>2, <5>3, Units DEF AtLeast
      <4>3. At(w, h, m, 0) = At(w + 1, 0, m, 0)
        BY <1>3, <3>2, AtNextDay
      <4>4. Fits((w + 1) % Days, T.wday) /\ Fits(0, T.hour)
        BY <4>1 DEF Fits
      <4>5. w + 1 \in Nat /\ 0 \in 0 .. Hours - 1
        BY <1>3, Units
      <4> QED
        BY <1>1, <1>3, <1>4, <4>2, <4>3, <4>4, <4>5, Over
    <3> QED
      BY <1>3, <3>1, <3>2, Units DEF Searching
  <2>2. 0 * Days + w = w /\ 0 \in Nat
    BY <1>3, Units
  <2>3. /\ SetMin(T, SetHour(T, SetDay(T, c))) = Clock(w, h, m, 0)
        /\ SetHour(T, SetDay(T, c)) = SetDay(T, c)
        /\ SetHour(T, SetDay(T, c)).hour = h
    BY <1>2 DEF Clock
  <2> HIDE DEF c
  <2>4. Found(T, prev, Round(T, prev, c))
    BY <1>3, <2>1, <2>2, <2>3, RoundFinds
  <2> QED
    BY <2>4 DEF c
<1>5. CASE ~(prev < At(w, h, m, 0))
  <2> DEFINE diff == 0 * Week + w * Day + h * Hour + m * Secs - (prev % Week)
  <2>1. 0 * Week = 0 /\ w * Day \in Nat /\ h * Hour \in Nat /\ m * Secs \in Nat
    BY <1>3, Units
  <2>2. ~(diff > 0)
    BY <1>3, <1>5, <2>1 DEF At
  <2>3. Round(T, prev, c) = IF diff > 0 THEN [c EXCEPT !.found = diff] ELSE Advance(T, c)
    BY <1>2 DEF Round, Clock
  <2> HIDE DEF diff
  <2>4. Round(T, prev, c) = Advance(T, c)
    BY <2>2, <2>3
  <2>5. Advance(T, c) = Clock(w, h, m + 1, 0)
    <3>1. Advance(T, c) = [c EXCEPT !.min = c.min + 1, !.hour = c.hour, !.wday = c.wday]
      BY <1>1 DEF Advance
    <3> QED
      BY <3>1 DEF Clock
  <2> QED
    BY <1>1, <1>5, <2>4, <2>5
<1> QED
  BY <1>4, <1>5

-----------------------------------------------------------------------------
(* A search.  The clock moves on by a minute, then by an hour, then by a day, *)
(* each at most once, before a round finds the first firing.                  *)

AfterMinute(T, prev, c) ==
    /\ c = Clock(prev \div Day, HourOf(prev), MinOf(prev) + 1, 0)
    /\ Searching(T, prev, prev \div Day, HourOf(prev), MinOf(prev) + 1)

AfterHour(T, prev, c) ==
    /\ c = Clock(prev \div Day, HourOf(prev) + 1, Least(T.min), 0)
    /\ Searching(T, prev, prev \div Day, HourOf(prev) + 1, Least(T.min))

AfterDay(T, prev, c) ==
    /\ T.hour # {}
    /\ c = Clock(prev \div Day + 1, Least(T.hour), 0, 0)
    /\ Searching(T, prev, prev \div Day + 1, Least(T.hour), 0)

\* What a round does from a clock of the day of prev.
LEMMA RoundOutcome ==
    ASSUME NEW T \in TimeType, Exact(T), NEW prev \in 0 .. Week - 1, NEW h, NEW m,
           Searching(T, prev, prev \div Day, h, m),
           NEW r, r = Round(T, prev, Clock(prev \div Day, h, m, 0))
    PROVE  \/ Found(T, prev, r)
           \/ AfterDay(T, prev, r)
           \/ /\ Wraps(m, T.min) /\ m \notin T.min /\ h < Hours
              /\ r = Clock(prev \div Day, h + 1, Least(T.min), 0)
              /\ Searching(T, prev, prev \div Day, h + 1, Least(T.min))
           \/ /\ ~(prev < At(prev \div Day, h, m, 0)) /\ m \in T.min
              /\ r = Clock(prev \div Day, h, m + 1, 0)
<1> DEFINE w == prev \div Day
<1>1. /\ w \in 0 .. Days - 1 /\ h \in Nat /\ m \in Nat
      /\ HourOf(prev) \in Nat /\ MinOf(prev) \in Nat
      /\ Least(T.min) \in 0 .. Mins - 1
      /\ T.hour # {} => Least(T.hour) \in 0 .. Hours - 1
  BY SearchTypes
<1>2. CASE ~Fits(w, T.wday)
  BY <1>2, RoundDay
<1>3. CASE Fits(w, T.wday) /\ ~Fits(h, T.hour)
  <2>1. \/ Found(T, prev, r)
        \/ r = Clock(w + 1, Least(T.hour), 0, 0) /\ Reached(T, prev, w + 1, Least(T.hour), 0)
    BY <1>3, RoundHour
  <2>2. T.hour # {}
    BY <1>3 DEF Fits
  <2>3. w + 1 \in 0 .. Days /\ Least(T.hour) \in 0 .. Hours /\ Least(T.hour) < Hours /\ 0 \in 0 .. Mins
    BY <1>1, <2>2, Units
  <2>4. AtLeast(w + 1, Least(T.hour), 0, w, HourOf(prev), MinOf(prev))
    BY <1>1, Units DEF AtLeast
  <2> QED
    BY <2>1, <2>2, <2>3, <2>4 DEF AfterDay, Searching
<1>4. CASE Fits(w, T.wday) /\ Fits(h, T.hour) /\ ~Fits(m, T.min)
  <2>1. \/ Found(T, prev, r)
        \/ /\ Wraps(m, T.min) /\ m \notin T.min /\ h < Hours
           /\ r = Clock(w, h + 1, Least(T.min), 0)
           /\ Reached(T, prev, w, h + 1, Least(T.min))
    BY <1>4, RoundMin
  <2>2. h < Hours => h + 1 \in 0 .. Hours
    BY <1>1, Units
  <2>3. Least(T.min) \in 0 .. Mins /\ w \in 0 .. Days
    BY <1>1, Units
  <2>4. AtLeast(w, h + 1, Least(T.min), w, HourOf(prev), MinOf(prev))
    BY <1>1, Units DEF AtLeast, Searching
  <2> QED
    BY <2>1, <2>2, <2>3, <2>4 DEF Searching
<1>5. CASE Fits(w, T.wday) /\ Fits(h, T.hour) /\ Fits(m, T.min)
  BY <1>5, RoundFits
<1> QED
  BY <1>2, <1>3, <1>4, <1>5

LEMMA FirstRound ==
    ASSUME NEW T \in TimeType, Exact(T), NEW prev \in 0 .. Week - 1,
           NEW r, r = Round(T, prev, Start(prev))
    PROVE  \/ Found(T, prev, r) \/ AfterMinute(T, prev, r)
           \/ AfterHour(T, prev, r) \/ AfterDay(T, prev, r)
<1> DEFINE w == prev \div Day
           h == HourOf(prev)
           m == MinOf(prev)
<1>1. prev \in Nat /\ w \in 0 .. Days - 1 /\ Weekday(prev) = w
  BY PrevDay
<1>2. h \in 0 .. Hours - 1 /\ m \in 0 .. Mins - 1
  BY <1>1, Fields
<1>3. /\ w \in 0 .. Days /\ h \in 0 .. Hours /\ m \in 0 .. Mins
      /\ m + 1 \in 0 .. Mins /\ h < Hours
  BY <1>1, <1>2, Units
<1>4. Reached(T, prev, w, h, m + 1)
  BY <1>1, StartReached
<1>5. Reached(T, prev, w, h, m)
  <2> SUFFICES ASSUME NEW x \in Nat, x > prev, Fires(T, x)
               PROVE  AtLeast(x \div Day, HourOf(x), MinOf(x), w, h, m)
    BY DEF Reached
  <2>1. PICK xw \in Nat, xh \in Nat, xm \in Nat :
           xw = x \div Day /\ xh = HourOf(x) /\ xm = MinOf(x)
    BY FiresAt, Units
  <2>2. AtLeast(xw, xh, xm, w, h, m + 1)
    BY <1>4, <2>1 DEF Reached
  <2> QED
    BY <1>2, <2>1, <2>2 DEF AtLeast
<1>6. AtLeast(w, h, m, w, h, m) /\ AtLeast(w, h, m + 1, w, h, m)
  BY <1>2 DEF AtLeast
<1>7. Searching(T, prev, w, h, m) /\ Searching(T, prev, w, h, m + 1)
  BY <1>3, <1>4, <1>5, <1>6 DEF Searching
<1>8. Start(prev) = Clock(w, h, m, 0)
  BY <1>1 DEF Start, Clock
<1>9. \/ Found(T, prev, r)
      \/ AfterDay(T, prev, r)
      \/ /\ r = Clock(w, h + 1, Least(T.min), 0)
         /\ Searching(T, prev, w, h + 1, Least(T.min))
      \/ r = Clock(w, h, m + 1, 0)
  BY <1>7, <1>8, RoundOutcome
<1> QED
  BY <1>7, <1>9 DEF AfterMinute, AfterHour

LEMMA RoundAfterMinute ==
    ASSUME NEW T \in TimeType, Exact(T), NEW prev \in 0 .. Week - 1,
           NEW c, AfterMinute(T, prev, c), NEW r, r = Round(T, prev, c)
    PROVE  Found(T, prev, r) \/ AfterHour(T, prev, r) \/ AfterDay(T, prev, r)
<1> DEFINE w == prev \div Day
           h == HourOf(prev)
           m == MinOf(prev) + 1
<1>1. c = Clock(w, h, m, 0) /\ Searching(T, prev, w, h, m)
  BY DEF AfterMinute
<1>2. w \in Nat /\ h \in Nat /\ m \in Nat /\ prev \in Nat
  BY <1>1, SearchTypes
<1>3. prev < At(w, h, m, 0)
  <2>1. AtLeast(w, h, m, w, h, m)
    BY <1>2 DEF AtLeast
  <2> QED
    BY <1>2, <2>1, AfterPrev
<1>4. \/ Found(T, prev, r)
      \/ AfterDay(T, prev, r)
      \/ /\ r = Clock(w, h + 1, Least(T.min), 0)
         /\ Searching(T, prev, w, h + 1, Least(T.min))
  BY <1>1, <1>3, RoundOutcome
<1> QED
  BY <1>4 DEF AfterHour

LEMMA RoundAfterHour ==
    ASSUME NEW T \in TimeType, Exact(T), NEW prev \in 0 .. Week - 1,
           NEW c, AfterHour(T, prev, c), NEW r, r = Round(T, prev, c)
    PROVE  Found(T, prev, r) \/ AfterDay(T, prev, r)
<1> DEFINE w == prev \div Day
           h == HourOf(prev) + 1
           m == Least(T.min)
<1>1. c = Clock(w, h, m, 0) /\ Searching(T, prev, w, h, m)
  BY DEF AfterHour
<1>2. /\ w \in Nat /\ h \in Nat /\ m \in Nat /\ prev \in Nat /\ m \in T.min
      /\ HourOf(prev) \in Nat
  BY <1>1, SearchTypes
<1>3. prev < At(w, h, m, 0)
  <2>1. AtLeast(w, h, m, w, HourOf(prev), MinOf(prev) + 1)
    BY <1>2 DEF AtLeast
  <2> QED
    BY <1>2, <2>1, AfterPrev
<1> QED
  BY <1>1, <1>2, <1>3, RoundOutcome

LEMMA RoundAfterDay ==
    ASSUME NEW T \in TimeType, Exact(T), NEW prev \in 0 .. Week - 1,
           NEW c, AfterDay(T, prev, c), NEW r, r = Round(T, prev, c)
    PROVE  Found(T, prev, r)
<1> DEFINE w == prev \div Day + 1
           h == Least(T.hour)
<1>1. c = Clock(w, h, 0, 0) /\ Searching(T, prev, w, h, 0) /\ T.hour # {}
  BY DEF AfterDay
<1>2. /\ w \in Nat /\ h \in Nat /\ prev \in Nat /\ h \in T.hour
      /\ prev \div Day \in Nat
  BY <1>1, SearchTypes
<1>3. prev < At(w, h, 0, 0)
  <2>1. AtLeast(w, h, 0, prev \div Day, HourOf(prev), MinOf(prev) + 1)
    BY <1>2 DEF AtLeast
  <2> QED
    BY <1>2, <2>1, AfterPrev
<1>4. Fits(h, T.hour)
  BY <1>2 DEF Fits
<1>5. CASE ~Fits(w, T.wday)
  BY <1>1, <1>5, RoundDay
<1>6. CASE Fits(w, T.wday) /\ ~Fits(0, T.min)
  <2>1. ~Wraps(0, T.min)
    BY <1>6, TimeLists, FromZero DEF Fits
  <2> QED
    BY <1>1, <1>4, <1>6, <2>1, RoundMin
<1>7. CASE Fits(w, T.wday) /\ Fits(0, T.min)
  BY <1>1, <1>3, <1>4, <1>7, RoundFits
<1> QED
  BY <1>5, <1>6, <1>7

\* One turn of the loop.
Turn(T, prev, c) == IF c.found > 0 THEN c ELSE Round(T, prev, c)

\* After four turns, whatever they do, the first firing is found.
LEMMA FourTurns ==
    ASSUME NEW T \in TimeType, Exact(T), NEW prev \in 0 .. Week - 1,
           NEW c0, c0 = Start(prev),
           NEW c1, c1 = Turn(T, prev, c0), NEW c2, c2 = Turn(T, prev, c1),
           NEW c3, c3 = Turn(T, prev, c2), NEW c4, c4 = Turn(T, prev, c3)
    PROVE  Found(T, prev, c4)
<1>1. ASSUME NEW c, Found(T, prev, c) PROVE Turn(T, prev, c) = c
  BY <1>1 DEF Found, Turn
<1>2. ASSUME NEW c, \/ AfterMinute(T, prev, c) \/ AfterHour(T, prev, c)
                    \/ AfterDay(T, prev, c)
      PROVE  Turn(T, prev, c) = Round(T, prev, c)
  <2>1. c.found = 0
    BY <1>2 DEF AfterMinute, AfterHour, AfterDay, Clock
  <2> QED
    BY <2>1 DEF Turn
<1>3. c1 = Round(T, prev, c0)
  BY DEF Turn, Start
<1>4. \/ Found(T, prev, c1) \/ AfterMinute(T, prev, c1)
      \/ AfterHour(T, prev, c1) \/ AfterDay(T, prev, c1)
  BY <1>3, FirstRound
<1>5. Found(T, prev, c2) \/ AfterHour(T, prev, c2) \/ AfterDay(T, prev, c2)
  BY <1>1, <1>2, <1>4, RoundAfterMinute, RoundAfterHour, RoundAfterDay
<1>6. Found(T, prev, c3) \/ AfterDay(T, prev, c3)
  BY <1>1, <1>2, <1>5, RoundAfterHour, RoundAfterDay
<1> QED
  BY <1>1, <1>2, <1>6, RoundAfterDay

-----------------------------------------------------------------------------
(* next_time.                                                                *)

\* The clocks of a loop.
IsLoop(T, prev, f) ==
    f = [i \in 0 .. Tries |->
           IF i = 0 THEN Start(prev)
           ELSE IF f[i - 1].found > 0 THEN f[i - 1] ELSE Round(T, prev, f[i - 1])]

\* The loop, turn by turn.
LEMMA LoopIs ==
    ASSUME NEW T, NEW prev, NEW g, IsLoop(T, prev, g)
    PROVE  \E f : /\ f[0] = Start(prev)
                  /\ \A i \in 1 .. Tries : f[i] = Turn(T, prev, f[i - 1])
                  /\ NextTime(T, prev) = f[Tries].found
<1> DEFINE L == CHOOSE f : f = [i \in 0 .. Tries |->
                                  IF i = 0 THEN Start(prev)
                                  ELSE IF f[i - 1].found > 0 THEN f[i - 1]
                                       ELSE Round(T, prev, f[i - 1])]
<1>1. L = [i \in 0 .. Tries |->
             IF i = 0 THEN Start(prev)
             ELSE IF L[i - 1].found > 0 THEN L[i - 1] ELSE Round(T, prev, L[i - 1])]
  BY DEF IsLoop
<1>2. NextTime(T, prev) = L[Tries].found
  BY DEF NextTime
<1> HIDE DEF L
<1>3. Tries \in Nat
  BY JobTimesAssumption DEF JobTimesAssumption
<1>4. L[0] = Start(prev)
  BY <1>1, <1>3
<1>5. ASSUME NEW i \in 1 .. Tries PROVE L[i] = Turn(T, prev, L[i - 1])
  <2>1. i \in 0 .. Tries /\ i # 0
    BY <1>3
  <2>2. L[i] = IF i = 0 THEN Start(prev)
               ELSE IF L[i - 1].found > 0 THEN L[i - 1] ELSE Round(T, prev, L[i - 1])
    BY <1>1, <2>1
  <2> QED
    BY <2>1, <2>2 DEF Turn
<1> QED
  BY <1>2, <1>4, <1>5

\* next_time finds the first firing after prev.
LEMMA NextTimeFinds ==
    ASSUME NEW T \in TimeType, Exact(T), NEW prev \in 0 .. Week - 1
    PROVE  /\ NextTime(T, prev) \in Nat /\ NextTime(T, prev) > 0
           /\ FirstFiring(T, prev, prev + NextTime(T, prev))
<1> DEFINE c0 == Start(prev)
           c1 == Turn(T, prev, c0)
           c2 == Turn(T, prev, c1)
           c3 == Turn(T, prev, c2)
           c4 == Turn(T, prev, c3)
<1> HIDE DEF c0, c1, c2, c3, c4
<1>1. Found(T, prev, c4)
  BY FourTurns DEF c0, c1, c2, c3, c4
<1>2. Turn(T, prev, c4) = c4
  BY <1>1 DEF Turn, Found
<1>3. Tries \in Nat /\ Tries >= 4
  BY JobTimesAssumption DEF JobTimesAssumption
<1> DEFINE G(i) == IF i = 0 THEN c0 ELSE IF i = 1 THEN c1 ELSE IF i = 2 THEN c2
                   ELSE IF i = 3 THEN c3 ELSE c4
           g == [i \in 0 .. Tries |-> G(i)]
<1>4. \A i \in 1 .. Tries : g[i] = Turn(T, prev, g[i - 1])
  <2> SUFFICES ASSUME NEW i \in 1 .. Tries PROVE g[i] = Turn(T, prev, g[i - 1])
    OBVIOUS
  <2>1. i \in Nat /\ i \in 0 .. Tries /\ i - 1 \in 0 .. Tries /\ i # 0
    BY <1>3
  <2>2. g[i] = G(i) /\ g[i - 1] = G(i - 1)
    BY <2>1
  <2>3. CASE i = 1
    BY <2>2, <2>3 DEF c1
  <2>4. CASE i = 2
    BY <2>2, <2>4 DEF c2
  <2>5. CASE i = 3
    BY <2>2, <2>5 DEF c3
  <2>6. CASE i = 4
    BY <2>2, <2>6 DEF c4
  <2>7. CASE i > 4
    <3>1. i # 1 /\ i # 2 /\ i # 3 /\ i - 1 # 0 /\ i - 1 # 1 /\ i - 1 # 2 /\ i - 1 # 3
      BY <2>1, <2>7
    <3> QED
      BY <1>2, <2>1, <2>2, <3>1
  <2> QED
    BY <2>1, <2>3, <2>4, <2>5, <2>6, <2>7
<1>5. g[0] = Start(prev)
  BY <1>3 DEF c0
<1>6. IsLoop(T, prev, g)
  <2>1. ASSUME NEW i \in 0 .. Tries
        PROVE  g[i] = IF i = 0 THEN Start(prev)
                      ELSE IF g[i - 1].found > 0 THEN g[i - 1] ELSE Round(T, prev, g[i - 1])
    <3> HIDE DEF g
    <3>1. CASE i = 0
      BY <1>5, <3>1
    <3>2. CASE i # 0
      <4>1. i \in 1 .. Tries
        BY <1>3, <3>2
      <4> QED
        BY <1>4, <3>2, <4>1 DEF Turn
    <3> QED
      BY <3>1, <3>2
  <2>2. g = [i \in 0 .. Tries |-> g[i]]
    OBVIOUS
  <2> HIDE DEF g
  <2> QED
    BY <2>1, <2>2 DEF IsLoop
<1> HIDE DEF g
<1>7. PICK f : /\ f[0] = Start(prev)
               /\ \A i \in 1 .. Tries : f[i] = Turn(T, prev, f[i - 1])
               /\ NextTime(T, prev) = f[Tries].found
  BY <1>6, LoopIs
<1>8. f[4] = c4
  <2>1. /\ 1 \in 1 .. Tries /\ 2 \in 1 .. Tries /\ 3 \in 1 .. Tries /\ 4 \in 1 .. Tries
        /\ 1 - 1 = 0 /\ 2 - 1 = 1 /\ 3 - 1 = 2 /\ 4 - 1 = 3
    BY <1>3
  <2>2. f[1] = c1
    BY <1>7, <2>1 DEF c0, c1
  <2>3. f[2] = c2
    BY <1>7, <2>1, <2>2 DEF c2
  <2>4. f[3] = c3
    BY <1>7, <2>1, <2>3 DEF c3
  <2> QED
    BY <1>7, <2>1, <2>4 DEF c4
<1>9. f[Tries] = c4
  <2> DEFINE S == {i \in 4 .. Tries : f[i] # c4}
  <2>1. S \in SUBSET Nat
    BY <1>3
  <2>2. S = {}
    <3> SUFFICES ASSUME S # {} PROVE FALSE
      OBVIOUS
    <3>1. PICK n \in S : \A k \in S : n =< k
      <4> HIDE DEF S
      <4> QED
        BY <2>1, LeastNatural
    <3>2. n \in 5 .. Tries /\ f[n] # c4
      <4>1. n \in 4 .. Tries /\ f[n] # c4
        BY <3>1
      <4>2. n # 4
        BY <1>8, <4>1
      <4> QED
        BY <1>3, <4>1, <4>2
    <3>3. n - 1 \in 4 .. Tries /\ n \in 1 .. Tries /\ ~(n =< n - 1)
      BY <1>3, <3>2
    <3>4. f[n - 1] = c4
      BY <3>1, <3>3
    <3> QED
      BY <1>2, <1>7, <3>2, <3>3, <3>4
  <2>3. Tries \in 4 .. Tries
    BY <1>3
  <2> QED
    BY <2>2, <2>3
<1> QED
  BY <1>1, <1>7, <1>9 DEF Found

-----------------------------------------------------------------------------
(* The specification.                                                        *)

LEMMA TypeStep ==
    ASSUME TypeOK, [Next]_vars
    PROVE  TypeOK'
<1>1. MaxWait \in Nat
  BY JobTimesAssumption DEF JobTimesAssumption
<1>2. CASE Tick
  BY <1>1, <1>2 DEF TypeOK, Tick
<1>3. CASE Run
  <2>1. PICK t \in Nat : t = now
    BY <1>1, Units DEF TypeOK, now
  <2>2. t % Week \in 0 .. Week - 1
    BY <2>1, Units, DivMod
  <2> QED
    BY <1>1, <1>3, <2>1, <2>2 DEF TypeOK, Run
<1>4. CASE UNCHANGED vars
  BY <1>4 DEF TypeOK, vars
<1> QED
  BY <1>2, <1>3, <1>4 DEF Next

\* Every variable keeps its type: the time of the last run stays within the week,
\* whatever time passes before a job is run.
THEOREM TypeCorrect == Spec => []TypeOK
<1>1. Init => TypeOK
  <2>1. MaxWait \in Nat
    BY JobTimesAssumption DEF JobTimesAssumption
  <2> QED
    BY <2>1 DEF Init, TypeOK
<1>2. TypeOK /\ [Next]_vars => TypeOK'
  BY TypeStep
<1> QED
  BY <1>1, <1>2, PTL DEF Spec

LEMMA WhenTimes ==
    ASSUME TypeOK
    PROVE  /\ when # {} /\ \A T \in when : T \in TimeType
           /\ last \in 0 .. Week - 1 /\ last \in Nat /\ waited \in Nat /\ now \in Nat
<1>1. MaxWait \in Nat /\ Times \subseteq (SUBSET TimeType) \ {{}}
  BY JobTimesAssumption DEF JobTimesAssumption
<1>2. when # {} /\ \A T \in when : T \in TimeType
  BY <1>1 DEF TypeOK
<1>3. last \in 0 .. Week - 1 /\ last \in Nat /\ waited \in Nat /\ now \in Nat
  BY <1>1, Units DEF TypeOK, now
<1> QED
  BY <1>2, <1>3

LEMMA FirstFiringStep ==
    ASSUME TypeOK
    PROVE  FindsFirstFiring
<1> SUFFICES ASSUME NEW T \in when, Exact(T)
             PROVE  /\ last + NextTime(T, last) > last
                    /\ FiringsBy(T, last + NextTime(T, last)) = {last + NextTime(T, last)}
  BY DEF FindsFirstFiring
<1>1. FirstFiring(T, last, last + NextTime(T, last))
  BY WhenTimes, NextTimeFinds
<1> QED
  BY <1>1 DEF FirstFiring, FiringsBy

\* Whatever the lengths of the week, the day and the hour, and whatever the lists of
\* a Time, next_time finds the first firing after the last run; four of its ten rounds
\* are enough, so that it never gives up.
THEOREM FirstFiringFound == Spec => []FindsFirstFiring
  BY TypeCorrect, FirstFiringStep, PTL

\* A moment of a Time of notwhen is left later; any other one is not waited for.
LEMMA LeaveIs ==
    ASSUME NEW T, NEW t \in Nat
    PROVE  /\ DeltaToLeave(T, t) > 0 <=> \/ Weekday(t) \in T.wday
                                         \/ HourOf(t) \in T.hour
                                         \/ MinOf(t) \in T.min
           /\ DeltaToLeave(T, t) \in Nat
<1>1. Day - (t % Day) \in Nat /\ Day - (t % Day) > 0
  <2>1. t % Day \in 0 .. Day - 1
    BY Units, DivMod
  <2> QED
    BY <2>1, Units
<1>2. (Mins - MinOf(t)) * Secs \in Nat /\ (Mins - MinOf(t)) * Secs > 0
  <2>1. PICK n \in Nat \ {0} : n = Mins - MinOf(t)
    BY Fields, Units
  <2>2. n * Secs \in Nat /\ n * Secs > 0
    BY Units
  <2> QED
    BY <2>1, <2>2
<1>3. Secs - SecOf(t) \in Nat /\ Secs - SecOf(t) > 0
  BY Fields, Units
<1> QED
  BY <1>1, <1>2, <1>3 DEF DeltaToLeave

\* The first firing is past exactly when there is one that is.
LEMMA FiredBy ==
    ASSUME TypeOK, NEW T \in when, Exact(T)
    PROVE  NextTime(T, last) =< waited <=> FiringsBy(T, now) # {}
<1>1. PICK n \in Nat : n = NextTime(T, last) /\ n > 0 /\ FirstFiring(T, last, last + n)
  BY WhenTimes, NextTimeFinds
<1>2. last \in Nat /\ waited \in Nat /\ now = last + waited
  BY WhenTimes DEF now
<1>3. /\ Fires(T, last + n)
      /\ \A x \in last + 1 .. last + n : Fires(T, x) => x = last + n
  BY <1>1 DEF FirstFiring
<1>4. ASSUME n =< waited PROVE FiringsBy(T, now) # {}
  <2>1. last + n \in last + 1 .. now
    BY <1>1, <1>2, <1>4
  <2> QED
    BY <1>3, <2>1 DEF FiringsBy
<1>5. ASSUME FiringsBy(T, now) # {} PROVE n =< waited
  <2>1. PICK x \in last + 1 .. now : Fires(T, x)
    BY <1>5 DEF FiringsBy
  <2>2. CASE x =< last + n
    <3>1. x \in last + 1 .. last + n
      BY <1>1, <1>2, <2>1, <2>2
    <3>2. x = last + n
      BY <1>3, <2>1, <3>1
    <3> QED
      BY <1>1, <1>2, <2>1, <3>2
  <2>3. CASE ~(x =< last + n)
    BY <1>1, <1>2, <2>1, <2>3
  <2> QED
    BY <2>2, <2>3
<1> QED
  BY <1>1, <1>4, <1>5

LEMMA WhenDeltaIs ==
    ASSUME TypeOK, \A T \in when : Exact(T)
    PROVE  WhenDelta =< 0 <=> \E T \in when : FiringsBy(T, now) # {}
<1> DEFINE nexts == {NextTime(T, last) : T \in when}
<1>1. \A T \in when : NextTime(T, last) \in Nat
  BY WhenTimes, NextTimeFinds
<1>2. nexts \in SUBSET Nat /\ nexts # {}
  BY <1>1, WhenTimes
<1>3. WhenDelta = Least(nexts) - waited
  BY DEF WhenDelta, Least
<1>4. Least(nexts) \in nexts /\ \A x \in nexts : Least(nexts) =< x
  <2> HIDE DEF nexts
  <2> QED
    BY <1>2, LeastIs
<1>5. PICK n \in Nat : n = Least(nexts)
  BY <1>2, <1>4
<1>6. WhenDelta =< 0 <=> n =< waited
  BY <1>3, <1>5, WhenTimes
<1>7. n =< waited <=> \E T \in when : NextTime(T, last) =< waited
  <2>1. PICK T \in when : n = NextTime(T, last)
    BY <1>4, <1>5
  <2>2. ASSUME NEW U \in when, NextTime(U, last) =< waited PROVE n =< waited
    <3>1. n =< NextTime(U, last)
      BY <1>4, <1>5
    <3> QED
      BY <1>1, <2>2, <3>1, WhenTimes
  <2> QED
    BY <2>1, <2>2
<1> QED
  BY <1>6, <1>7, FiredBy

LEMMA DueStep ==
    ASSUME TypeOK
    PROVE  DueFromFiringOn
<1> SUFFICES ASSUME \A T \in when : Exact(T)
             PROVE  NextDelta =< 0 <=>
                      /\ \E T \in when : FiringsBy(T, now) # {}
                      /\ Weekday(now) \notin notwhen.wday
                      /\ HourOf(now) \notin notwhen.hour
                      /\ MinOf(now) \notin notwhen.min
  BY DEF DueFromFiringOn
<1>1. /\ DeltaToLeave(notwhen, now) > 0 <=> \/ Weekday(now) \in notwhen.wday
                                            \/ HourOf(now) \in notwhen.hour
                                            \/ MinOf(now) \in notwhen.min
      /\ DeltaToLeave(notwhen, now) \in Nat
  BY WhenTimes, LeaveIs
<1>2. WhenDelta =< 0 <=> \E T \in when : FiringsBy(T, now) # {}
  BY WhenDeltaIs
<1>3. NextDelta = IF DeltaToLeave(notwhen, now) > 0 THEN DeltaToLeave(notwhen, now)
                  ELSE WhenDelta
  BY DEF NextDelta
<1>4. CASE DeltaToLeave(notwhen, now) > 0
  <2>1. ~(NextDelta =< 0)
    BY <1>1, <1>3, <1>4
  <2> QED
    BY <1>1, <1>4, <2>1
<1>5. CASE ~(DeltaToLeave(notwhen, now) > 0)
  BY <1>1, <1>2, <1>3, <1>5
<1> QED
  BY <1>4, <1>5

\* However late the job runner looks, and whatever the job's lists of times, a job is
\* due exactly when one of them has fired since the last run and notwhen does not apply.
THEOREM DueAfterFiring == Spec => []DueFromFiringOn
  BY TypeCorrect, DueStep, PTL
=============================================================================
