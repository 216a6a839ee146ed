----------------------------- MODULE RtcCalendar -----------------------------
(***************************************************************************)
(* The calendar arithmetic of the RTC: the generic helpers of rtc/rtc.c   *)
(* and the conversions of stm32_rtc.c between struct optee_rtc_time and    *)
(* the BCD registers RTC_TR, RTC_DR and RTC_ALRMAR, with the alarm range   *)
(* check stm32_rtc_valid_alarm_time.  Pure operators, checked against a    *)
(* reference calendar over bounded inputs.                                 *)
(*                                                                         *)
(* A time is a record of the uint32_t fields of struct optee_rtc_time:     *)
(* year in full, mon from 0 to 11, wday 0 for Sunday.  A register is a     *)
(* record of its BCD fields; "(v << SHIFT) & MASK" keeps v modulo 2^width  *)
(* of the field, which is what Fld(v, w) does.                             *)
(***************************************************************************)
EXTENDS Integers

CONSTANTS
    CalYears,       \* years of the current calendar date
    TodHms          \* times of day, <<hour, min, sec>>, of the calendar and
                    \* of the requests

Fld(v, w) == v % 2^w

\* rtc_is_a_leap_year
IsLeapYear(y) == y % 4 = 0 /\ (y % 100 # 0 \/ y % 400 = 0)

\* rtc_months_days[] and rtc_get_month_days(): month from 0 to 11
RtcMonthsDays == <<31, 28, 31, 30, 31, 30, 31, 31, 30, 31, 30, 31>>
GetMonthDays(month, year) ==
    IF IsLeapYear(year) /\ month = 1 THEN RtcMonthsDays[month + 1] + 1
                                     ELSE RtcMonthsDays[month + 1]

\* rtc_timecmp packs the fields in a uint32_t: year << 26 keeps the year
\* modulo 64, and the other fields of a valid time fit below the next one,
\* so the packed words compare as these tuples do
TimeKey(t) == <<t.year % 64, t.mon, t.mday, t.hour, t.min, t.sec>>
KeyLess(a, b) ==
    \E i \in 1 .. 6 : a[i] < b[i] /\ \A j \in 1 .. i - 1 : a[j] = b[j]
TimeCmp(a, b) ==
    IF KeyLess(TimeKey(a), TimeKey(b)) THEN -1
    ELSE IF TimeKey(a) = TimeKey(b) THEN 0 ELSE 1

-----------------------------------------------------------------------------
(* RTC_TR and RTC_DR                                                       *)

\* stm32_rtc_set_time: the register words it writes for tm, after the
\* year (range_min is 2000), month and weekday adjustments; the uint32_t
\* subtractions here and in the month adjustments below do not wrap for
\* the dates of the RTC range
SetTimeRegs(tm) ==
    LET y == tm.year - 2000
        mon == tm.mon + 1
        wday == IF tm.wday = 0 THEN 7 ELSE tm.wday
    IN [tr |-> [su |-> Fld(tm.sec % 10, 4), st |-> Fld(tm.sec \div 10, 3),
                mnu |-> Fld(tm.min % 10, 4), mnt |-> Fld(tm.min \div 10, 3),
                hu |-> Fld(tm.hour % 10, 4), ht |-> Fld(tm.hour \div 10, 2),
                pm |-> 0],
        dr |-> [du |-> Fld(tm.mday % 10, 4), dt |-> Fld(tm.mday \div 10, 2),
                mu |-> Fld(mon % 10, 4), mt |-> Fld(mon \div 10, 1),
                wdu |-> Fld(wday, 3),
                yu |-> Fld(y % 10, 4), yt |-> Fld(y \div 10, 4)]]

\* stm32_rtc_fill_time and stm32_rtc_fill_date: month from 1 to 12
FillTime(tr) ==
    [hour |-> tr.ht * 10 + tr.hu + (IF tr.pm = 1 THEN 12 ELSE 0),
     min |-> tr.mnt * 10 + tr.mnu, sec |-> tr.st * 10 + tr.su]
FillDate(dr) ==
    [wday |-> dr.wdu, mday |-> dr.dt * 10 + dr.du,
     mon |-> dr.mt * 10 + dr.mu, year |-> dr.yt * 10 + dr.yu + 2000]
FillCal(cal) ==
    LET t == FillTime(cal.tr)
        d == FillDate(cal.dr)
    IN [year |-> d.year, mon |-> d.mon, mday |-> d.mday, hour |-> t.hour,
        min |-> t.min, sec |-> t.sec, wday |-> d.wday]

\* GetTime without the weekday folded back to 0 .. 6
GetTimeWdayUnfolded(cal) ==
    LET t == FillCal(cal)
    IN [t EXCEPT !.mon = @ - 1]

\* stm32_rtc_get_time on the registers read by stm32_rtc_get_calendar
GetTime(cal) ==
    LET t == FillCal(cal)
    IN [t EXCEPT !.mon = @ - 1, !.wday = @ % 7]

-----------------------------------------------------------------------------
(* RTC_ALRMAR and the alarm range                                          *)

\* stm32_rtc_set_alarm: ALRMAR for the alarm time, every MSK bit clear,
\* 24-hour format; tm_year and tm_mon are dropped
AlrmarOf(tm) ==
    [du |-> Fld(tm.mday % 10, 4), dt |-> Fld(tm.mday \div 10, 2),
     hu |-> Fld(tm.hour % 10, 4), ht |-> Fld(tm.hour \div 10, 2),
     mnu |-> Fld(tm.min % 10, 4), mnt |-> Fld(tm.min \div 10, 3),
     su |-> Fld(tm.sec % 10, 4), st |-> Fld(tm.sec \div 10, 3)]

\* ValidAlarmTime without the upper bound of the range
ValidAlarmTimeNoUpperBound(cal, tm) ==
    LET max == [FillCal(cal) EXCEPT !.mon = @ - 1]
    IN ~(TimeCmp(max, tm) > 0)

\* stm32_rtc_valid_alarm_time with the calendar registers cal:
\* TRUE for TEE_SUCCESS, FALSE for TEE_ERROR_BAD_PARAMETERS
ValidAlarmTime(cal, tm) ==
    LET cur == FillCal(cal)
        max == [cur EXCEPT !.mon = @ - 1]
        nextMonth == IF max.mon + 1 = 12 THEN 0 ELSE max.mon + 1
        nextYear == IF max.mon + 1 = 12 THEN max.year + 1 ELSE max.year
    IN /\ ~(TimeCmp(max, tm) > 0)
       /\ max.mday < tm.mday => tm.mday <= GetMonthDays(nextMonth, nextYear)
       /\ ~(TimeCmp([max EXCEPT !.year = nextYear, !.mon = nextMonth], tm) < 0)

-----------------------------------------------------------------------------
(* Reference calendar                                                      *)

GregorianLeap(y) == (y % 4 = 0 /\ y % 100 # 0) \/ y % 400 = 0
DaysIn(mon, y) ==
    IF mon = 1 THEN IF GregorianLeap(y) THEN 29 ELSE 28
    ELSE IF mon \in {3, 5, 8, 10} THEN 30 ELSE 31

\* instants ordered as the calendar is: by day, then by second of the day
DayNo(t) == (t.year * 12 + t.mon) * 32 + t.mday
SecNo(t) == (t.hour * 60 + t.min) * 60 + t.sec
Before(a, b) ==
    DayNo(a) < DayNo(b) \/ (DayNo(a) = DayNo(b) /\ SecNo(a) < SecNo(b))

TimesOn(dates) ==
    {[year |-> d.year, mon |-> d.mon, mday |-> d.mday, hour |-> h[1],
      min |-> h[2], sec |-> h[3], wday |-> 0] : d \in dates, h \in TodHms}
DatesOf(ym, days) ==
    {r \in {[year |-> x.year, mon |-> x.mon, mday |-> d] : x \in ym, d \in days} :
        r.mday <= DaysIn(r.mon, r.year)}
MonthAhead(t, k) == [year |-> t.year + (t.mon + k) \div 12,
                     mon |-> (t.mon + k) % 12]

\* the date and time the hardware alarm compares (every MSK bit clear)
AlarmFields(a) == [mday |-> a.dt * 10 + a.du, hour |-> a.ht * 10 + a.hu,
                   min |-> a.mnt * 10 + a.mnu, sec |-> a.st * 10 + a.su]

\* the instants after now at which the calendar enters a second equal to
\* the alarm fields, over the next three months (with MASKSS = 0 the flag
\* rises when the seconds unit is incremented)
AlarmMatches(now, a) ==
    {c \in {[year |-> MonthAhead(now, k).year, mon |-> MonthAhead(now, k).mon,
             mday |-> a.mday, hour |-> a.hour, min |-> a.min, sec |-> a.sec,
             wday |-> 0] : k \in 0 .. 2} :
        c.mday <= DaysIn(c.mon, c.year) /\ Before(now, c)}

\* calendar dates and alarm requests the properties range over
CalNows ==
    TimesOn(DatesOf({[year |-> y, mon |-> m] : y \in CalYears, m \in 0 .. 11},
                  {1, 15, 28, 29, 30, 31}))
AlarmRequests(now) ==
    TimesOn(DatesOf({MonthAhead(now, k) : k \in 0 .. 1}, 1 .. 31))
RoundTripTimes ==
    {[t EXCEPT !.wday = w] :
        t \in TimesOn(DatesOf({[year |-> y, mon |-> m] :
                                y \in CalYears \cup {2000, 2099}, m \in 0 .. 11},
                            {1, 9, 10, 19, 20, 29, 30, 31})),
        w \in 0 .. 6}

-----------------------------------------------------------------------------
(* What the conversions must do, as constant formulas                     *)

(* Time set is time read: for every date and time of the RTC range,       *)
(* stm32_rtc_get_time on the TR/DR words stm32_rtc_set_time writes gives  *)
(* back the time that was set, weekday included.                          *)
TimeSetIsTimeRead ==
    \A tm \in RoundTripTimes : GetTime(SetTimeRegs(tm)) = tm

(* An accepted alarm rings when it was asked to: with the calendar at any  *)
(* date set by stm32_rtc_set_time, an alarm later than the calendar that   *)
(* stm32_rtc_valid_alarm_time accepts is written to ALRMAR by              *)
(* stm32_rtc_set_alarm without month and year, and the first time the      *)
(* calendar then matches ALRMAR is the requested date and time.            *)
AlarmRingsAsRequested ==
    \A now \in CalNows : \A tm \in AlarmRequests(now) :
        (ValidAlarmTime(SetTimeRegs(now), tm) /\ Before(now, tm)) =>
            LET m == AlarmMatches(now, AlarmFields(AlrmarOf(tm)))
            IN \E c \in m : c = tm /\ \A d \in m : ~Before(d, c)

=============================================================================
