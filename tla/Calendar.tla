------------------------------ MODULE Calendar ------------------------------
(***************************************************************************)
(* src/src/time and src/src/ext/time64: seconds since 1970 to broken-down  *)
(* times and back, in 32 bits (gmtime, mktime, timegm) and in 64 bits, with *)
(* the time zone of the task, and strftime.                                *)
(*                                                                         *)
(* The lengths of a minute, an hour and a day and the range of a 32-bit    *)
(* time are parameters (60, 60, 24 and 2^32 in the code), so that times up *)
(* to the year 9999 stay within TLC's integers; the calendar itself is the *)
(* real one.  A struct tm is a record without tm_isdst.  The 64-bit        *)
(* arithmetic that time64 calls is what module Int64 shows it to be.       *)
(***************************************************************************)
EXTENDS Library
LOCAL INSTANCE FiniteSets
LOCAL INSTANCE FiniteSetsExt

CONSTANTS
    SecsPerMin, MinsPerHour, HoursPerDay,   \* 60, 60, 24
    TimeRange,      \* 2^32: a time_t is in 0 .. TimeRange - 1
    Dates,          \* <<year, month 1..12, day>>: the days the run tries
    Offsets,        \* what __tzget() returns
    FormatYears,    \* the years of the dates given to strftime
    Formats,        \* conversion characters given to strftime
    Rooms,          \* buffer sizes given to strftime
    WordBits,       \* 32: the TOD clock is two words
    TodShift,       \* 12: its bits below a microsecond
    TodEven, TodOdd,    \* a second is 2^6 * 15625 microseconds
    TodMilli,       \* 1000: the milliseconds of a second
    TodEpoch,       \* the TOD clock of 1970-01-01
    Clocks          \* the TOD clocks the run tries

SecsPerDay == SecsPerMin * MinsPerHour * HoursPerDay
Failed == -1        \* (time_t)-1
NoTm == [year |-> Failed]

----------------------------------------------------------------------------
(* The scalar date routines of src/src/time.                               *)

__isleap(yr) == yr % 400 = 0 \/ (yr % 4 = 0 /\ yr % 100 # 0)

__mtd(month) == (month * 3057 - 3007) \div 100

__ytd(yr) == yr * 365 + yr \div 4 - yr \div 100 + yr \div 400

\* Mutant: February is always short.
__ymdts_NoLeap(yr, mo, day) ==
    day + __mtd(mo) - (IF mo > 2 THEN 2 ELSE 0) + __ytd(yr - 1)

__ymdts(yr, mo, day) ==
    day + __mtd(mo) - (IF mo > 2 THEN IF __isleap(yr) THEN 1 ELSE 2 ELSE 0)
        + __ytd(yr - 1)

\* scalar * 400 / 146097, without the product.
YearGuess(scalar) == (scalar \div 146097) * 400 + ((scalar % 146097) * 400) \div 146097

YearOf(scalar) ==
    LET after[n \in Nat] == IF __ytd(n) < scalar THEN after[n + 1] ELSE n
    IN  after[YearGuess(scalar)]

\* Day n of the year, as if February had 30 days.
EvenDay(yr, n) == IF n =< 59 THEN n ELSE IF ~__isleap(yr) THEN n + 2
                  ELSE IF n + 2 > 62 THEN n + 1 ELSE n

Monthly(yr, mo, n) == <<yr, mo, n - __mtd(mo)>>
InYear(yr, n) == Monthly(yr, (n * 100 + 3007) \div 3057, n)
Dated(yr, scalar) == InYear(yr, EvenDay(yr, scalar - __ytd(yr - 1)))
__stymd(scalar) == Dated(YearOf(scalar), scalar)

dow(y, m, d) ==
    LET c == (y % 400) + 400
        k == (((((m + 9) % 12) + 1) * 16) % 27)
    IN  (k + d + 1 + c + c \div 4 - c \div 100
         + (IF m =< 2 THEN IF __isleap(y) THEN 5 ELSE 6 ELSE 0)) % 7

Epoch == 719163     \* ymd_scalar_1970_1_1

Broken(ymd, secs) ==
    [year |-> ymd[1] - 1900, mon |-> ymd[2] - 1, mday |-> ymd[3],
     yday |-> __ymdts(ymd[1], ymd[2], ymd[3]) - __ymdts(ymd[1], 1, 1),
     wday |-> dow(ymd[1], ymd[2], ymd[3]),
     sec |-> secs % SecsPerMin,
     min |-> (secs \div SecsPerMin) % MinsPerHour,
     hour |-> secs \div (SecsPerMin * MinsPerHour)]

gmtime_r(t) == Broken(__stymd(t \div SecsPerDay + Epoch), t % SecsPerDay)

\* The sum wraps as an unsigned time_t.
localtime_r(t, tz) == gmtime_r((t + tz) % TimeRange)

timegm(tm) ==
    IF tm.year < 70 \/ tm.year > 205 THEN Failed
    ELSE ((((__ymdts(tm.year + 1900, tm.mon + 1, tm.mday) - Epoch) * HoursPerDay
            + tm.hour) * MinsPerHour + tm.min) * SecsPerMin + tm.sec) % TimeRange

\* Returns the time and the caller's struct tm, normalised or untouched.
Made(t, tm, tz) ==
    IF \/ t = Failed \/ t = TimeRange - 1
       \/ tz >= 0 /\ t < tz
       \/ tz < 0 /\ -tz > TimeRange - 2 - t
    THEN <<Failed, tm>> ELSE <<t - tz, localtime_r(t - tz, tz)>>

mktime(tm, tz) == Made(timegm(tm), tm, tz)

\* As doubles, so that a negative difference does not wrap.
difftime(time1, time0) == time1 - time0

----------------------------------------------------------------------------
(* src/src/ext/time64.                                                     *)

IS_LEAP(n) == __isleap(n + 1900)
CHEAT_DAYS == 13879
CHEAT_YEARS == 108
DaysInCycle == 365 * 400 + 100 - 4 + 1
MIN_SAFE_YEAR == 1970
MAX_SAFE_YEAR == 2037
SolarCycle == 28
is_exception_century(year) == year % 100 = 0 /\ year % 400 # 0

days_in_month(isleap, month) ==
    IF month = 1 THEN IF isleap THEN 29 ELSE 28
    ELSE IF month \in {3, 5, 8, 10} THEN 30 ELSE 31

julian_days_by_month(isleap, month) ==
    <<0, 31, 59, 90, 120, 151, 181, 212, 243, 273, 304, 334>>[month + 1]
    + (IF isleap /\ month > 1 THEN 1 ELSE 0)

\* The loops of time64 that add LENGTH_OF_YEAR() of one year after the other.
LengthOfYears(from, to) ==
    365 * (to - from) + Cardinality({y \in from .. to - 1 : IS_LEAP(y)})

Year64(first, rest) ==
    CHOOSE y \in first + (rest \div 366) .. first + (rest \div 365) :
        LengthOfYears(first, y) =< rest /\ rest < LengthOfYears(first, y + 1)

\* <<month, day of it>> of a day of the year.
Month64(leap, day) ==
    LET months[s \in Nat \X Nat] ==
            IF s[2] >= days_in_month(leap, s[1])
            THEN months[<<s[1] + 1, s[2] - days_in_month(leap, s[1])>>] ELSE s
    IN  months[<<0, day>>]

Broken64(year, md, tday, secs) ==
    [year |-> year, mon |-> md[1], mday |-> md[2] + 1,
     yday |-> julian_days_by_month(IS_LEAP(year), md[1]) + md[2],
     wday |-> (tday + 4) % 7,
     sec |-> secs % SecsPerMin,
     min |-> (secs \div SecsPerMin) % MinsPerHour,
     hour |-> secs \div (SecsPerMin * MinsPerHour)]
OfYear64(year, first, rest, tday, secs) ==
    Broken64(year, Month64(IS_LEAP(year), rest - LengthOfYears(first, year)), tday, secs)
InCycle64(first, rest, tday, secs) ==
    OfYear64(Year64(first, rest), first, rest, tday, secs)
Cycles64(from, m, tday, secs) ==
    InCycle64(from + (m \div DaysInCycle) * 400, m % DaysInCycle, tday, secs)
FromDay64(tday, secs) ==
    IF tday >= CHEAT_DAYS THEN Cycles64(CHEAT_YEARS, tday - CHEAT_DAYS, tday, secs)
    ELSE Cycles64(70, tday, tday, secs)
gmtime64_r(time) == FromDay64(time \div SecsPerDay, time % SecsPerDay)

Reduced(year) == LET less[y \in Int] == IF y > 470 THEN less[y - 400] ELSE y IN less[year]
Seconds64(year, date) ==
    IF year < 70 THEN Failed
    ELSE (((date.year - year) \div 400) * DaysInCycle + LengthOfYears(70, year)
          + julian_days_by_month(IS_LEAP(year), date.mon) + date.mday - 1) * SecsPerDay
         + date.hour * MinsPerHour * SecsPerMin + date.min * SecsPerMin + date.sec
timegm64(date) == Seconds64(Reduced(date.year), date)

cycle_offset(year) ==
    LET diff == year - 2000 - (IF year > 2000 THEN 1 ELSE 0)
    IN  (Quot(diff, 100) - Quot(diff, 400)) * 16

safe_years_high(i) == IF i < 22 THEN 2016 + i ELSE 1988 + i
safe_years_low(i) == IF i < 3 THEN 1996 + i ELSE 1968 + i

OfCycle(year, cycle) ==
    IF year < MIN_SAFE_YEAR THEN safe_years_low(cycle) ELSE safe_years_high(cycle)
safe_year(year) ==
    IF year \in MIN_SAFE_YEAR .. MAX_SAFE_YEAR THEN year
    ELSE OfCycle(year, Rem(year + cycle_offset(year)
                           - (IF year < MIN_SAFE_YEAR THEN 8 ELSE 0)
                           + (IF is_exception_century(year) THEN 11 ELSE 0)
                           + (IF is_exception_century(year - 1) THEN 17 ELSE 0),
                           SolarCycle) % SolarCycle)   \* a negative one is counted back

\* 400-year cycles first, then a year at a time from the right to the left.
Between(cycles, target, left, right) ==
    (cycles * DaysInCycle + (IF left > right THEN LengthOfYears(right - 1900, target - 1900)
                             ELSE LengthOfYears(target - 1899, right - 1899))) * SecsPerDay
seconds_between_years(left, right) ==
    IF left > 2400 THEN Between((left - 2400) \div 400, left - ((left - 2400) \div 400) * 400,
                                left, right)
    ELSE IF left < 1600 THEN Between(Quot(left - 1600, 400),
                                     left + Quot(left - 1600, 400) * 400, left, right)
    ELSE Between(0, left, left, right)

WithYear(local, year) ==
    [local EXCEPT !.year = year,
                  !.yday = IF ~IS_LEAP(year) /\ @ = 365 THEN @ - 1 ELSE @]
Corrected(gm, local) ==
    WithYear(local, gm.year - (IF local.mon - gm.mon = 11 THEN 1 ELSE 0)
                            + (IF local.mon - gm.mon = -11 THEN 1 ELSE 0))
SafeTm(gm) == [gm EXCEPT !.year = IF @ > 137 \/ @ < 70 THEN safe_year(@ + 1900) - 1900 ELSE @]
Local64(gm, tz) == Corrected(gm, localtime_r(timegm64(SafeTm(gm)) % TimeRange, tz))
localtime64_r(time, tz) == Local64(gmtime64_r(time), tz)

Made64(time, tm, tz) ==
    IF tz > 0 /\ time < tz THEN <<Failed, tm>>
    ELSE <<time - tz, localtime64_r(time - tz, tz)>>
FarTime(tm, safe) ==
    timegm([tm EXCEPT !.year = safe - 1900]) + seconds_between_years(tm.year + 1900, safe)
mktime64(tm, tz) ==
    IF tm.year + 1900 < 1970 \/ tm.year + 1900 > 9999 THEN <<Failed, tm>>
    ELSE Made64(IF tm.year + 1900 \in MIN_SAFE_YEAR .. MAX_SAFE_YEAR THEN timegm(tm)
                ELSE FarTime(tm, safe_year(tm.year + 1900)), tm, tz)

difftime64(time1, time0) ==
    IF time1 < time0 THEN -((time0 - time1) % TimeRange)
    ELSE (time1 - time0) % TimeRange

\* Milliseconds and microseconds since 1970.
mgmtime64(mtime) == gmtime64_r(mtime \div TodMilli)
mlocaltime64(mtime, tz) == localtime64_r(mtime \div TodMilli, tz)
ugmtime64(utime) == gmtime64_r(utime \div (2 ^ TodEven * TodOdd))
ulocaltime64(utime, tz) == localtime64_r(utime \div (2 ^ TodEven * TodOdd), tz)

\* The length of "Www Mmm dd hh:mm:ss yyyy\n" and its NUL, at most 26.  A
\* weekday or month that has no name, and a year past 9999, give NULL.
valid_tm_wday(date) == date.wday \in 0 .. 6
valid_tm_mon(date) == date.mon \in 0 .. 11
YearDigits(year) == IF year < 1000 THEN 3 ELSE IF year < 10000 THEN 4 ELSE 5
asctime(date) == 22 + YearDigits(1900 + date.year)
asctime64_r(date) ==
    IF ~valid_tm_wday(date) \/ ~valid_tm_mon(date) \/ 1900 + date.year > 9999 THEN Failed
    ELSE IF asctime(date) > 26 THEN 26 ELSE asctime(date)
ctime64_r(time, tz) == asctime64_r(localtime64_r(time, tz))

----------------------------------------------------------------------------
(* The clock and the time zone.  A TOD clock is a number below             *)
(* 2^(2 * WordBits); __todsec works on its two words.                      *)

W == 2 ^ WordBits
Half == 2 ^ (WordBits \div 2)

\* 32-bit words only: the epoch is taken away with a borrow, the rest is
\* divided by 2^6 and then by 15625 in two steps, half a word at a time.
__todsec(tod) ==
    LET micros == tod \div (2 ^ TodShift)
        epoch == TodEpoch \div (2 ^ TodShift)
        low == micros % W
        uh == (micros \div W - (IF low < (epoch % W) THEN 1 ELSE 0) - epoch \div W) % W
        ul == (low - (epoch % W)) % W
        ul6 == ((uh * 2 ^ (WordBits - TodEven)) % W) + ul \div (2 ^ TodEven)
        uh6 == uh \div (2 ^ TodEven)
        n == ((uh6 * Half) % W) + ul6 \div Half
        r == (((n % TodOdd) * Half) % W) + (ul6 % Half)
    IN  (((n \div TodOdd) * Half) % W) + r \div TodOdd

uclock64(tod) == ((tod - TodEpoch) % (W * W)) \div (2 ^ TodShift)
mclock64(tod) == uclock64(tod) \div ((2 ^ TodEven * TodOdd) \div TodMilli)
clock64(tod) == uclock64(tod) \div (2 ^ TodEven * TodOdd)

\* TZ=[-]HH[:MM][:SS], as the sign and the numbers of the text; no number
\* is a text that does not begin with a digit, or no variable at all.  Then
\* CVTTZ counts units of 1.048576 seconds: times 1.0485765, truncated, and
\* away from zero to a multiple of ten.
tzset(neg, numbers, cvttz) ==
    LET weights == <<3600, 60, 1>>
        sum == MapThenSumSet(LAMBDA i : numbers[i] * weights[i], DOMAIN numbers)
        Seconds(c) == c + (c * 4857 + (c * 65) \div 100) \div 100000
        Tens(n) == n + ((10 - (n % 10)) % 10)
        away == IF cvttz < 0 THEN -Tens(Seconds(-cvttz)) ELSE Tens(Seconds(cvttz))
    IN  IF numbers = <<>> THEN away ELSE IF neg THEN -sum ELSE sum

----------------------------------------------------------------------------
(* strftime.  A character of a name is the name and its place in it; a     *)
(* character of a number is its digit.                                     *)

Letters(name, n) == [i \in 1 .. n |-> <<name, i>>]
Literal(c) == <<<<c, 1>>>>
aday(wday) == Letters(<<"aday", wday>>, 3)
day(wday) == Letters(<<"day", wday>>, <<6, 6, 7, 9, 8, 6, 8>>[wday + 1])
amonth(mon) == Letters(<<"amonth", mon>>, 3)
month(mon) == Letters(<<"month", mon>>, <<7, 8, 5, 5, 3, 4, 4, 6, 9, 7, 8, 8>>[mon + 1])

\* strfmt's %1 .. %4: the last ilen digits of a number, leading zeros kept.
\* C's remainder of a negative number has no digits here: none is given.
strfmt(ival, ilen) == [i \in 1 .. ilen |-> <<"digit", (ival \div (10 ^ (ilen - i))) % 10>>]

week(t, first) == (t.yday + 7 - ((t.wday + 7 - first) % 7)) \div 7

clockText(t) == strfmt(t.hour, 2) \o Literal(":") \o strfmt(t.min, 2)
                \o Literal(":") \o strfmt(t.sec, 2)

conversion(f, t) ==
    CASE f = "%" -> Literal("%")
      [] f = "a" -> aday(t.wday)
      [] f = "A" -> day(t.wday)
      [] f = "b" -> amonth(t.mon)
      [] f = "B" -> month(t.mon)
      [] f = "c" -> aday(t.wday) \o Literal(" ") \o amonth(t.mon) \o Literal(" ")
                    \o strfmt(t.mday, 2) \o Literal(" ") \o clockText(t)
                    \o Literal(" ") \o strfmt(t.year + 1900, 4)
      [] f = "d" -> strfmt(t.mday, 2)
      [] f = "H" -> strfmt(t.hour, 2)
      [] f = "I" -> strfmt(IF t.hour % 12 # 0 THEN t.hour % 12 ELSE 12, 2)
      [] f = "j" -> strfmt(t.yday + 1, 3)
      [] f = "m" -> strfmt(t.mon + 1, 2)
      [] f = "M" -> strfmt(t.min, 2)
      [] f = "p" -> Letters(IF t.hour > 11 THEN "PM" ELSE "AM", 2)
      [] f = "S" -> strfmt(t.sec, 2)
      [] f = "U" -> strfmt(week(t, 0), 2)
      [] f = "W" -> strfmt(week(t, 1), 2)
      [] f = "w" -> strfmt(t.wday, 1)
      [] f = "x" -> strfmt(t.mon + 1, 2) \o Literal("/") \o strfmt(t.mday, 2)
                    \o Literal("/") \o strfmt(t.year % 100, 2)
      [] f = "X" -> clockText(t)
      [] f = "y" -> strfmt(t.year % 100, 2)
      [] f = "Y" -> strfmt(t.year + 1900, 4)
      [] f = "Z" -> <<>>
      [] OTHER -> Literal("%") \o Literal(f)

\* The format is one conversion between two ordinary characters.  Returns
\* the value and the bytes stored, the NUL included.
strftime(maxs, f, t) ==
    LET all == Literal("-") \o conversion(f, t) \o Literal("-")
        NUL == Literal("NUL")
    IN  IF maxs = 0 THEN <<0, <<>>>>
        ELSE IF Len(all) > maxs - 1 THEN <<0, SubSeq(all, 1, maxs - 1) \o NUL>>
        ELSE <<Len(all), all \o NUL>>

----------------------------------------------------------------------------
(* The reference: the Gregorian calendar, counted from Thursday 1970-01-01. *)

Leap(y) == (y % 4 = 0 /\ y % 100 # 0) \/ y % 400 = 0
LeapsBefore(y) == Cardinality({z \in 1970 .. y - 1 : Leap(z)})
MonthLength(y, m) == IF m = 2 THEN IF Leap(y) THEN 29 ELSE 28
                     ELSE IF m \in {4, 6, 9, 11} THEN 30 ELSE 31
DayOfYear(y, m, d) == d - 1 + MapThenSumSet(LAMBDA k : MonthLength(y, k), 1 .. m - 1)
DayNumber(y, m, d) == 365 * (y - 1970) + LeapsBefore(y) + DayOfYear(y, m, d)
Instant(date, s) == DayNumber(date[1], date[2], date[3]) * SecsPerDay + s

\* The broken-down time of second s of the day whose number is n.
IsBrokenDown(tm, t) ==
    LET n == DayNumber(tm.year + 1900, tm.mon + 1, tm.mday)
    IN  /\ tm.mon \in 0 .. 11
        /\ tm.mday \in 1 .. MonthLength(tm.year + 1900, tm.mon + 1)
        /\ tm.hour \in 0 .. HoursPerDay - 1
        /\ tm.min \in 0 .. MinsPerHour - 1
        /\ tm.sec \in 0 .. SecsPerMin - 1
        /\ tm.yday = DayOfYear(tm.year + 1900, tm.mon + 1, tm.mday)
        /\ tm.wday = (n + 4) % 7
        /\ t = ((n * HoursPerDay + tm.hour) * MinsPerHour + tm.min) * SecsPerMin + tm.sec

----------------------------------------------------------------------------
Instants == {Instant(d, s) : d \in Dates, s \in {0, SecsPerDay - 1}}
Shorts == {t \in Instants : t < TimeRange}

\* mktime takes years up to 2105, mktime64 up to 9999, and says -1 after.
Until(last, t, tm) == IF tm.year > last THEN Failed ELSE t

MakeBack(last, t, tm, Make(_)) ==
    Finished("calendar", "make", <<Until(last, t, tm), tm>>, Make(tm))

Calls32 ==
    \E t \in Shorts, tz \in Offsets :
        /\ t + tz \in 0 .. TimeRange - 1
        /\ \/ Finished("calendar", "split", t + tz, localtime_r(t, tz))
           \/ MakeBack(205, t, localtime_r(t, tz), LAMBDA tm : mktime(tm, tz))

Calls64 ==
    \E t \in Instants, tz \in Offsets :
        /\ t + tz >= 0
        /\ \/ Finished("calendar", "split", t + tz, localtime64_r(t, tz))
           \/ MakeBack(8099, t, localtime64_r(t, tz), LAMBDA tm : mktime64(tm, tz))
           \/ Finished("calendar", "same", t, timegm64(gmtime64_r(t)))

\* A day of the month past its end, which mktime has to normalise.
Overflowed ==
    \E d \in Dates, tz \in Offsets, more \in {1, 31} :
        LET tm == [year |-> d[1] - 1900, mon |-> d[2] - 1, mday |-> d[3] + more,
                   yday |-> 0, wday |-> 0, hour |-> 0, min |-> 0, sec |-> 0]
            t == Instant(d, 0) + more * SecsPerDay - tz
        IN  /\ d[1] < 2105 /\ t >= 0
            /\ Finished("calendar", "make", <<t, localtime_r(t, tz)>>, mktime(tm, tz))

Differences ==
    \E t \in Shorts, u \in {0, TimeRange - 1} :
        Finished("calendar", "diff", <<difftime(t, u), difftime(u, t)>>,
                 <<difftime64(t, u), difftime64(u, t)>>)

Formatted ==
    \E d \in Dates, f \in Formats, room \in Rooms :
        LET t == gmtime64_r(Instant(d, SecsPerDay - 1))
        IN  /\ d[1] \in FormatYears
            /\ Finished("calendar", "format", <<room, f, t>>, strftime(room, f, t))

\* The microsecond and millisecond forms of the same time; a time64_t that
\* no struct tm names.
Scaled ==
    \E d \in Dates, tz \in Offsets :
        LET second == 2 ^ TodEven * TodOdd
            t == Instant(d, 0)
        IN  /\ t + tz >= 0 /\ t < 5000
            /\ \/ Finished("calendar", "split", t + tz,
                           mlocaltime64(t * TodMilli + TodMilli - 1, tz))
               \/ Finished("calendar", "split", t + tz,
                           ulocaltime64(t * second + second - 1, tz))
               \/ Finished("calendar", "same", mgmtime64(t * TodMilli), ugmtime64(t * second))

AsText ==
    \E d \in Dates, tz \in Offsets :
        LET t == Instant(d, 0)
        IN  /\ t + tz >= 0
            /\ Finished("calendar", "text", localtime64_r(t, tz),
                        <<asctime(gmtime64_r(t + tz)), ctime64_r(t, tz)>>)

ReadClock ==
    \E tod \in Clocks :
        Finished("calendar", "clock", tod,
                 <<__todsec(tod), clock64(tod), mclock64(tod), uclock64(tod)>>)

\* Every zone of the world, and what IPL truncates it to.
Zone ==
    \E quarters \in 0 .. 56, west \in BOOLEAN :
        LET z == quarters * 900
            offset == IF west THEN -z ELSE z
            cvttz == (z * 15625) \div 16384
        IN  \/ Finished("calendar", "same", offset,
                        tzset(west, <<z \div 3600, (z % 3600) \div 60, z % 60>>, 0))
            \/ Finished("calendar", "same", offset,
                        tzset(FALSE, <<>>, IF west THEN -cvttz ELSE cvttz))

CalendarNext ==
    \/ Calls32 \/ Calls64 \/ Overflowed \/ Differences \/ Formatted
    \/ Scaled \/ AsText \/ ReadClock \/ Zone

\* The week of the year, by the first of its days: week 1 begins with the
\* first such day of the year.
WeekOfYear(t, first) ==
    Cardinality({d \in 0 .. t.yday : (t.wday - (t.yday - d)) % 7 = first})
Number(s) == MapThenSumSet(LAMBDA i : s[i][2] * (10 ^ (Len(s) - i)), DOMAIN s)

\* Every time splits into the date, weekday and day of the year that the
\* Gregorian calendar gives it, in 32 and in 64 bits and in every time zone
\* (localtime64_r borrows the calendar of another year and corrects it), and
\* mktime and mktime64 return the time that localtime came from, a day past
\* the end of its month included; strftime stays within its buffer, says 0
\* exactly when the text does not fit, and counts weeks as C99 does.  The
\* two-step division of __todsec is the division of the whole clock, the
\* three clocks agree, and CVTTZ, truncated as it is, gives the zone back.
CalendarExact ==
    call.of = "calendar" =>
        CASE call.op = "split" -> IsBrokenDown(call.out, call.in)
          [] call.op = "same" -> call.out = call.in
          [] call.op = "make" -> call.out = call.in
          [] call.op = "diff" -> call.out = call.in /\ call.out[1] = -call.out[2]
          [] call.op = "text" ->
                 LET fits == call.in.year + 1900 =< 9999
                 IN  /\ call.out[2] = IF fits THEN call.out[1] ELSE Failed
                     /\ fits => call.out[1] =< 26
          [] call.op = "clock" ->
                 LET second == 2 ^ TodEven * TodOdd
                     micros == (call.in - TodEpoch) \div (2 ^ TodShift)
                 IN  call.in >= TodEpoch =>
                         call.out = <<micros \div second, micros \div second,
                                      (micros * TodMilli) \div second, micros>>
          [] call.op = "format" ->
                 LET room == call.in[1] f == call.in[2] t == call.in[3]
                     n == call.out[1] text == call.out[2]
                 IN  /\ Len(text) =< room
                     /\ room > 0 => text[Len(text)] = Literal("NUL")[1]
                     /\ n > 0 => Len(text) = n + 1
                     /\ (n = 0) = (room < Len(conversion(f, t)) + 3)
                     /\ n > 0 /\ f = "U" => Number(SubSeq(text, 2, 3)) = WeekOfYear(t, 0)
                     /\ n > 0 /\ f = "W" => Number(SubSeq(text, 2, 3)) = WeekOfYear(t, 1)
============================================================================
