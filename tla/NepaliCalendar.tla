--------------------------- MODULE NepaliCalendar ---------------------------
(***************************************************************************)
(* The dates a turn's tools tell: the Bikram Sambat calendar, whose months *)
(* follow no rule but a table, beside the Gregorian one, Nepal's fiscal    *)
(* year, today in Nepal, and calendar arithmetic (app/nepali_date.py,      *)
(* app/localtime.py, app/tools/local/nepali_date.py, date_math.py).        *)
(*                                                                         *)
(* A calendar is a table: for each year the lengths of its months.  A date *)
(* is a record, an instant a number of ticks.                              *)
(***************************************************************************)
EXTENDS Integers, FiniteSetsExt, SequencesExt

CONSTANTS
  Bs,                \* MONTH_LENGTHS: the Bikram Sambat years that are supported
  Ad,                \* the Gregorian years of the instance (the datetime library)
  AnchorAd,          \* ANCHOR_AD: the first day of the first year of Bs
  FiscalStartMonth,  \* FISCAL_START_MONTH
  TicksPerDay,
  Offset,            \* localtime.NPT: ticks ahead of UTC
  Clocks,            \* the instants at which a conversation takes place, in UTC
  Durations,         \* what is added: [years, months, ticks], timed or not
  Labels             \* fiscal years as the model may write them

VARIABLES
  clock,   \* now, in ticks since AnchorAd
  said     \* the calls of the conversation, with their answers

vars == <<clock, said>>

Init == clock = Min(Clocks) /\ said = <<>>

-----------------------------------------------------------------------------
(* Counting days *)

Sum(lengths) == FoldLeft(+, 0, lengths)
Total(table, years) == MapThenSumSet(LAMBDA y : Sum(table[y]), years)

\* days_in_month, and the checks of _days_since_anchor.
IsReal(table, d) ==
  d.year \in DOMAIN table /\ d.month \in DOMAIN table[d.year] /\ d.day \in 1 .. table[d.year][d.month]

\* Years before, months before, days before.
DaysSinceAnchor(table, d) ==
  Total(table, {y \in DOMAIN table : y < d.year}) + Sum(SubSeq(table[d.year], 1, d.month - 1)) + d.day - 1

\* The year, then the month, in which the days that are left run out.
FromDays(table, days) ==
  LET before(y) == Total(table, {x \in DOMAIN table : x < y})
      year == Max({y \in DOMAIN table : before(y) <= days})
      spent(m) == before(year) + Sum(SubSeq(table[year], 1, m - 1))
      month == Max({m \in DOMAIN table[year] : spent(m) <= days})
  IN  [year |-> year, month |-> month, day |-> days - spent(month) + 1]

Anchor == DaysSinceAnchor(Ad, AnchorAd)

ToAd(bs) == FromDays(Ad, Anchor + DaysSinceAnchor(Bs, bs))
Supported(ad) == DaysSinceAnchor(Ad, ad) - Anchor \in 0 .. Total(Bs, DOMAIN Bs) - 1
FromAd(ad) == FromDays(Bs, DaysSinceAnchor(Ad, ad) - Anchor)

\* The date in Nepal.
Today == FromAd(FromDays(Ad, Anchor + (clock + Offset) \div TicksPerDay))

-----------------------------------------------------------------------------
(* The fiscal year: its first year, and the second one in two digits or four *)

\* "2099/00", which reads as 2000
FiscalYearInTwoDigits(bs) ==
  LET start == IF bs.month >= FiscalStartMonth THEN bs.year ELSE bs.year - 1
  IN  [start |-> start, digits |-> 2, tail |-> (start + 1) % 100]

FiscalYear(bs) ==
  LET start == IF bs.month >= FiscalStartMonth THEN bs.year ELSE bs.year - 1
      two == (start + 1) % 100
  IN  IF two # 0 THEN [start |-> start, digits |-> 2, tail |-> two]
      ELSE [start |-> start, digits |-> 4, tail |-> start + 1]

EndYear(label) == IF label.digits = 4 THEN label.tail ELSE (label.start \div 100) * 100 + label.tail

\* Not two consecutive years, or an end outside the table.
IsSpan(label) == EndYear(label) = label.start + 1 /\ EndYear(label) \in DOMAIN Bs

FirstDay(label) == [year |-> label.start, month |-> FiscalStartMonth, day |-> 1]
LastDay(label) ==
  LET month == FiscalStartMonth - 1
  IN  [year |-> EndYear(label), month |-> month, day |-> Bs[EndYear(label)][month]]

-----------------------------------------------------------------------------
(* nepali_date *)

Error == [kind |-> "error"]

Describe(bs, ad) == [kind |-> "dates", bs |-> bs, ad |-> ad, fiscal |-> FiscalYear(bs)]

LastAdYear == ToAd([year |-> Max(DOMAIN Bs), month |-> 1, day |-> 1]).year

TellSpan(label) ==
  IF ~IsSpan(label) \/ ~IsReal(Bs, FirstDay(label)) THEN Error
  ELSE [kind |-> "span", label |-> FiscalYear(FirstDay(label)),
        first |-> FirstDay(label), last |-> LastDay(label),
        firstAd |-> ToAd(FirstDay(label)), lastAd |-> ToAd(LastDay(label))]

TellBs(ad) ==
  IF ~IsReal(Ad, ad) \/ ad.year > LastAdYear \/ ~Supported(ad) THEN Error ELSE Describe(FromAd(ad), ad)

TellAd(bs) == IF ~IsReal(Bs, bs) THEN Error ELSE Describe(bs, ToAd(bs))

TellToday == Describe(Today, ToAd(Today))

-----------------------------------------------------------------------------
(* date_math.  A value is a Gregorian date and the ticks of its day.        *)

MonthsInYear == Len(Ad[Min(DOMAIN Ad)])

AddCalendar(date, months) ==
  LET total == date.year * MonthsInYear + date.month - 1 + months
      year == total \div MonthsInYear
      month == (total % MonthsInYear) + 1
  IN  [year |-> year, month |-> month, day |-> Min({date.day, Ad[year][month]})]

\* A date takes the whole days of what is added, a time all of it.
Add(date, duration, sign) ==
  LET months == sign * (duration.years * MonthsInYear + duration.months)
      year == (date.year * MonthsInYear + date.month - 1 + months) \div MonthsInYear
      ticks == sign * duration.ticks
      days == DaysSinceAnchor(Ad, AddCalendar(date, months)) + ticks \div TicksPerDay
  IN  IF year \notin DOMAIN Ad THEN Error
      ELSE IF days \notin 0 .. Total(Ad, DOMAIN Ad) - 1 THEN Error
      ELSE [kind |-> "added", date |-> FromDays(Ad, days),
            time |-> IF duration.timed THEN ticks % TicksPerDay ELSE 0]

\* The gap, whichever comes first.
Diff(from, to) ==
  LET ticks(v) == DaysSinceAnchor(Ad, v.date) * TicksPerDay + v.time
      gap == ticks(to) - ticks(from)
  IN  [kind |-> "gap", ticks |-> IF gap < 0 THEN 0 - gap ELSE gap]

Midnight(date) == [date |-> date, time |-> 0]

-----------------------------------------------------------------------------
Dates(table) ==
  UNION {UNION {{[year |-> y, month |-> m, day |-> d] : d \in 1 .. table[y][m]} :
                  m \in DOMAIN table[y]} : y \in DOMAIN table}

\* Dates that do not exist, or are of years the tables do not reach.
Strange(table) ==
  LET y == Max(DOMAIN table) IN
  {[year |-> y + 1, month |-> 1, day |-> 1], [year |-> Min(DOMAIN table) - 1, month |-> 1, day |-> 1],
   [year |-> y, month |-> 1, day |-> table[y][1] + 1],
   [year |-> y, month |-> Len(table[y]) + 1, day |-> 1]}

Tell(call) ==
  CASE call.tool = "fiscal_year" -> TellSpan(call.label)
    [] call.tool = "to bs" -> TellBs(call.date)
    [] call.tool = "to ad" -> TellAd(call.date)
    [] call.tool = "today" -> TellToday
    [] call.tool = "add" -> Add(call.date, call.duration, 1)
    [] call.tool = "subtract" -> Add(call.date, call.duration, -1)
    [] call.tool = "diff" -> Diff(call.from, call.to)

Say(call) == said' = Append(said, [call |-> call, answer |-> Tell(call)])

First ==
  {[tool |-> "fiscal_year", label |-> l] : l \in Labels}
  \cup {[tool |-> "to bs", date |-> d] : d \in Dates(Ad) \cup Strange(Ad)}
  \cup {[tool |-> "to ad", date |-> d] : d \in Dates(Bs) \cup Strange(Bs)}
  \cup {[tool |-> "today"]}
  \cup {[tool |-> t, date |-> d, duration |-> x] : t \in {"add", "subtract"}, d \in Dates(Ad), x \in Durations}

\* The model asks about what it was told: the other way round.
Back(turn) ==
  LET a == turn.answer IN
  CASE a.kind = "dates" -> {[tool |-> "to ad", date |-> a.bs], [tool |-> "to bs", date |-> a.ad],
                            [tool |-> "fiscal_year", label |-> a.fiscal]}
    [] a.kind = "span" -> {[tool |-> "to bs", date |-> a.firstAd], [tool |-> "to bs", date |-> a.lastAd]}
    [] a.kind = "added" -> {[tool |-> "diff", from |-> Midnight(turn.call.date), to |-> [date |-> a.date, time |-> a.time]]}
    [] OTHER -> {}

Ask == said = <<>> /\ (\E call \in First : Say(call)) /\ UNCHANGED clock
AskBack == Len(said) = 1 /\ (\E call \in Back(said[1]) : Say(call)) /\ UNCHANGED clock
Tick == said = <<>> /\ clock + 1 \in Clocks /\ clock' = clock + 1 /\ UNCHANGED said

Next == Ask \/ AskBack \/ Tick

Spec == Init /\ [][Next]_vars

-----------------------------------------------------------------------------
(* Properties *)

Precedes(d, e) ==
  \/ d.year < e.year
  \/ d.year = e.year /\ d.month < e.month
  \/ d.year = e.year /\ d.month = e.month /\ d.day < e.day
Rank(table, d) == Cardinality({e \in Dates(table) : Precedes(e, d)})

\* A date and its counterpart are as many dates after the anchor, the fiscal year
\* that is told with it begins no later than it and ends no earlier, and no date
\* that both calendars have is refused.
ConversionIsRight(turn) ==
  LET a == turn.answer
      convertible == Rank(Ad, AnchorAd) .. Rank(Ad, AnchorAd) + Cardinality(Dates(Bs)) - 1
  IN
  /\ a.kind = "dates" => Rank(Ad, a.ad) = Rank(Ad, AnchorAd) + Rank(Bs, a.bs)
  /\ a.kind = "dates" /\ IsSpan(a.fiscal) =>
       ~Precedes(a.bs, FirstDay(a.fiscal)) /\ ~Precedes(LastDay(a.fiscal), a.bs)
  /\ a.kind = "error" /\ turn.call.tool = "to ad" => turn.call.date \notin Dates(Bs)
  /\ a.kind = "error" /\ turn.call.tool = "to bs" =>
       turn.call.date \notin Dates(Ad) \/ Rank(Ad, turn.call.date) \notin convertible

\* What is added keeps its distance; a month more is in the next month, on the same
\* day or on the last.
ArithmeticIsRight(turn) ==
  LET a == turn.answer
      c == turn.call
      month(d) == d.year * MonthsInYear + d.month
      sign == IF c.tool = "add" THEN 1 ELSE -1
  IN
  a.kind = "added" =>
    /\ c.duration.ticks = 0 =>
         /\ month(a.date) = month(c.date) + sign * (c.duration.years * MonthsInYear + c.duration.months)
         /\ a.date.day < c.date.day => a.date.day = Ad[a.date.year][a.date.month]
         /\ a.date.day <= c.date.day
    /\ c.duration.years = 0 /\ c.duration.months = 0 /\ c.duration.timed =>
         (Rank(Ad, a.date) - Rank(Ad, c.date)) * TicksPerDay + a.time = sign * c.duration.ticks

\* What the tools say of dates agrees with itself, whichever is asked first: each
\* answer is right, a date converted and converted back is the same, the label told
\* with a date is read back as the year it is in, and that year's ends are in it
\* (app/nepali_date.py, "a plausible wrong date is worse than a stated gap").
DatesAgree ==
  /\ \A i \in DOMAIN said : ConversionIsRight(said[i]) /\ ArithmeticIsRight(said[i])
  /\ Len(said) = 2 =>
       LET a == said[1].answer
           b == said[2].answer
       IN
       /\ a.kind = "dates" /\ b.kind = "dates" => a = b
       /\ a.kind = "dates" /\ b.kind = "span" =>
            /\ ~Precedes(a.bs, b.first) /\ ~Precedes(b.last, a.bs)
            /\ ~Precedes(a.ad, b.firstAd) /\ ~Precedes(b.lastAd, a.ad)
       /\ a.kind = "dates" /\ b.kind = "error" => ~({a.fiscal.start, a.fiscal.start + 1} \subseteq DOMAIN Bs)
       /\ a.kind = "span" => b.fiscal = a.label
       /\ b.kind = "gap" /\ said[1].call.duration.timed
            /\ said[1].call.duration.months = 0 /\ said[1].call.duration.years = 0 =>
            b.ticks = said[1].call.duration.ticks
=============================================================================
