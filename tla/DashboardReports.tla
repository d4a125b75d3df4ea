--------------------------- MODULE DashboardReports ---------------------------
(***************************************************************************)
(* The parts of a dashboard report, the older reports, and what a reader   *)
(* of the page takes for granted: that its figures fit together.           *)
(***************************************************************************)
EXTENDS Dashboard

-----------------------------------------------------------------------------
(* Calendar series, _build_series *)

\* The periods a range meets: the loops of _build_series and _period_count
PeriodsOf(granularity, range) ==
  LET first == Bounds(granularity, range.from).start
      periods[start \in first..Bounds(granularity, range.to).end + 1] ==
        IF start > range.to THEN << >>
        ELSE <<Bounds(granularity, start)>> \o periods[Bounds(granularity, start).end + 1]
  IN periods[first]

Point(granularity, period, range, rows) ==
  LET first == Max({period.start, range.from})
      last == Min({period.end, range.to})
  IN [period |-> period,
      partial |-> first # period.start \/ last # period.end,
      days |-> last - first + 1,
      totals |-> Totals({t \in rows :
                   Bounds(granularity, transactions[t].date).start = period.start})]

Series(granularity, range, rows) ==
  LET periods == PeriodsOf(granularity, range)
  IN [i \in DOMAIN periods |-> Point(granularity, periods[i], range, rows)]

\* _build_summary: the totals of a range, with the mean of its months
Summary(range, rows) ==
  [totals |-> Totals(rows),
   monthlySpending |-> RoundDivide(Totals(rows).spending, Len(PeriodsOf("month", range)))]

\* _build_rolling_mean: for each day, the monthly mean of the window it ends
RollingMean(months, range, rows) ==
  [day \in range.from..range.to |->
     Mean(Totals({t \in rows : Within(t, WindowStart(day, months), day)}), months)]

\* _build_cumulative
Cumulative(range, rows) ==
  LET run[day \in (range.from - 1)..range.to] ==
        IF day < range.from THEN 0
        ELSE run[day - 1] + Totals({t \in rows : transactions[t].date = day}).net
  IN run

\* fault: the months of a year end with November
MonthsToNovember == 1..11
MonthsOfYear == 1..12

MonthTotals(year, month, rows) ==
  Totals({t \in rows : /\ YearOf[transactions[t].date] = year
                       /\ MonthOf[transactions[t].date] = month})

\* _build_annual
Annual(range, rows) ==
  [year \in YearOf[range.from]..YearOf[range.to] |->
     LET month == [m \in MonthsOfYear |-> MonthTotals(year, m, rows)]
     IN [income |-> SumFunction([m \in MonthsOfYear |-> month[m].income]),
         spending |-> SumFunction([m \in MonthsOfYear |-> month[m].spending]),
         net |-> SumFunction([m \in MonthsOfYear |-> month[m].net]),
         partial |-> range.from > Date(year, 1, 1) \/ range.to < Date(year, 12, 31)]]

\* _boundary_partials
BoundaryPartials(granularity, range) ==
  [first |-> range.from # Bounds(granularity, range.from).start,
   last |-> range.to # Bounds(granularity, range.to).end]

-----------------------------------------------------------------------------
(* Composition by category and by subcategory, _build_composition_breakdown *)

Measure == {"income", "spending"}

\* The rows a measure takes in; an amount is never zero
Measured(measure, rows) ==
  {t \in rows : IF measure = "income" THEN transactions[t].amount > 0
                ELSE transactions[t].amount < 0}

CategoryIdentity(t) ==
  IF transactions[t].tag.category = None THEN <<"uncategorized">>
  ELSE <<"category", transactions[t].tag.category>>

SubcategoryIdentity(t) ==
  LET tag == transactions[t].tag
  IN IF tag.category = None THEN <<"uncategorized">>
     ELSE IF tag.subcategory = None THEN <<"category-only", tag.category>>
     ELSE <<"subcategory", tag.subcategory>>

\* The labels an identity of the subcategory composition stands for
Labelled(identity) ==
  [category |-> CASE identity[1] = "category-only" -> identity[2]
                  [] identity[1] = "subcategory" -> ParentOf[identity[2]]
                  [] OTHER -> None,
   subcategory |-> IF identity[1] = "subcategory" THEN identity[2] ELSE None]

\* An entry per key, as _add_composition collects them
Collected(measure, rows, key(_)) ==
  LET taken == Measured(measure, rows)
  IN [k \in {key(t) : t \in taken} |->
        LET mine == {t \in taken : key(t) = k}
        IN [amount |-> Totals(mine)[measure], count |-> Cardinality(mine)]]

Month(t) == MonthBounds(transactions[t].date)

CategoryRanked(measure, rows) == Collected(measure, rows, CategoryIdentity)
SubcategoryRanked(measure, rows) == Collected(measure, rows, SubcategoryIdentity)
CategoryMonthly(measure, rows) ==
  Collected(measure, rows, LAMBDA t : <<Month(t), CategoryIdentity(t)>>)
SubcategoryMonthly(measure, rows) ==
  Collected(measure, rows, LAMBDA t : <<Month(t), SubcategoryIdentity(t)>>)

\* _month_is_partial
MonthIsPartial(month, range) == range.from > month.start \/ range.to < month.end

Quality(rows) ==
  [transactions |-> Cardinality(rows),
   uncategorized |-> Cardinality({t \in rows : transactions[t].tag.category = None}),
   categoryOnly |-> Cardinality({t \in rows : /\ transactions[t].tag.category # None
                                              /\ transactions[t].tag.subcategory = None})]

-----------------------------------------------------------------------------
(* The reports of api/reporting.py, for one currency and range *)

\* _conditions
Conditions(t, currency, range) ==
  /\ Booked(t)
  /\ transactions[t].currency = currency
  /\ transactions[t].standing = "included"
  /\ Within(t, range.from, range.to)

ReportRows(currency, range) == {t \in Id : Conditions(t, currency, range)}

\* report_summary
ReportSummary(currency, range) == Totals(ReportRows(currency, range))

\* report_categories: the join leaves out what has no category
ReportCategories(currency, range) ==
  LET spent == {t \in ReportRows(currency, range) :
                  transactions[t].amount < 0 /\ transactions[t].tag.category # None}
  IN [c \in {transactions[t].tag.category : t \in spent} |->
        Totals({t \in spent : transactions[t].tag.category = c}).spending]

\* report_trend
ReportTrend(currency, range) ==
  LET rows == ReportRows(currency, range)
  IN [month \in {Month(t) : t \in rows} |-> Totals({t \in rows : Month(t) = month}).net]

\* The total of list_transactions
ListedTotal(currency, range) ==
  Cardinality({t \in Id : /\ Booked(t)
                          /\ transactions[t].standing = "included"
                          /\ transactions[t].currency = currency
                          /\ Within(t, range.from, range.to)})

-----------------------------------------------------------------------------
(* Properties *)

\* The periods of each series cover the range and share out its days and rows.
SeriesAddUp(range, rows) ==
  \A granularity \in {"week", "month", "quarter"} :
    \A points \in {Series(granularity, range, rows)} :
      /\ \A field \in {"income", "spending", "net"} :
           SumFunction([i \in DOMAIN points |-> points[i].totals[field]]) = Totals(rows)[field]
      /\ SumFunction([i \in DOMAIN points |-> points[i].days]) = range.to - range.from + 1
      /\ points[1].partial \/ points[Len(points)].partial <=>
           BoundaryPartials(granularity, range).first \/ BoundaryPartials(granularity, range).last

\* So do the years, and the running sum ends with the net total.
YearsAndDaysAddUp(range, rows) ==
  /\ \A annual \in {Annual(range, rows)} : \A field \in {"income", "spending", "net"} :
       SumFunction([year \in DOMAIN annual |-> annual[year][field]]) = Totals(rows)[field]
  /\ Cumulative(range, rows)[range.to] = Totals(rows).net

\* So do categories and subcategories, of the range and of its months, and what
\* has none is counted as such.
CompositionAddsUp(rows) ==
  /\ \A measure \in Measure :
       LET amounts(part) == SumFunction([k \in DOMAIN part |-> part[k].amount])
           total == Totals(rows)[measure]
       IN /\ amounts(CategoryRanked(measure, rows)) = total
          /\ amounts(SubcategoryRanked(measure, rows)) = total
          /\ amounts(CategoryMonthly(measure, rows)) = total
          /\ amounts(SubcategoryMonthly(measure, rows)) = total
  /\ LET count(ranked, identities) ==
           SumFunction([k \in {k \in DOMAIN ranked : k[1] \in identities} |-> ranked[k].count])
         counted(identities) ==
           count(SubcategoryRanked("income", rows), identities)
             + count(SubcategoryRanked("spending", rows), identities)
     IN /\ counted({"uncategorized"}) = Quality(rows).uncategorized
        /\ counted({"category-only"}) = Quality(rows).categoryOnly
        /\ counted({"uncategorized", "category-only", "subcategory"}) = Quality(rows).transactions

\* The parts of one report are computed apart, by week, month, quarter and
\* year, day by day, by category and by subcategory: each adds up to the totals
\* of the summary, no day of the range is left out or counted twice, and the
\* rows without a category or subcategory are those the quality figures count.
FiguresAddUp ==
  \A range \in DateRange : \A rows \in {CurrentRows(range, Everything)} :
    /\ SeriesAddUp(range, rows)
    /\ YearsAndDaysAddUp(range, rows)
    /\ CompositionAddsUp(rows)

\* One query serves the range, the range before it and every rolling window:
\* each window of each day has all its transactions, however far back it
\* reaches, as if it were asked for alone.
RollingWindowsAreComplete ==
  \A range \in DateRange : \A months \in {1, 3, 12} :
    RollingMean(months, range, Loaded(range, Everything))
      = RollingMean(months, range, Reported(Everything))

\* A figure does not depend on the report it is read in: the comparison with
\* the prior range is the report of that range, the composition of all shows
\* for each category and subcategory what the report filtered by it shows, the months of a range
\* are partial in every chart or in none, and the older reports and the list of
\* transactions agree with the dashboard.
ReportsAgree ==
  \A range \in DateRange :
    LET rows == CurrentRows(range, Everything)
        months == Series("month", range, rows)
        trend == ReportTrend(Euro, range)
    IN /\ Totals(PriorRows(range, Everything))
            = Totals(CurrentRows(Prior(range), Everything))
       /\ \A measure \in Measure :
            LET ranked == SubcategoryRanked(measure, rows)
            IN \A filter \in Selection :
                 Totals(CurrentRows(range, filter))[measure]
                   = SumFunction([k \in {k \in DOMAIN ranked : Selected(Labelled(k), filter)} |->
                                    ranked[k].amount])
       /\ \A i \in DOMAIN months :
            /\ months[i].partial = MonthIsPartial(months[i].period, range)
            /\ months[i].totals.net =
                 IF months[i].period \in DOMAIN trend THEN trend[months[i].period] ELSE 0
       /\ ReportSummary(Euro, range) = Summary(range, rows).totals
       /\ \A c \in DOMAIN ReportCategories(Euro, range) :
            ReportCategories(Euro, range)[c]
              = CategoryRanked("spending", rows)[<<"category", c>>].amount
       /\ ListedTotal(Euro, range) = Quality(rows).transactions

=============================================================================
