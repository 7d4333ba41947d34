----------------------------- MODULE CronExpression -----------------------------
(***************************************************************************)
(* dcm_cronparse: a pattern is parsed to a set of values for each field,   *)
(* and dcmCronParseGetNext moves a broken-down time forward field by field *)
(* until every field matches: a step per field, and a call stack, since    *)
(* do_next calls itself when a field has changed. Each write to a field    *)
(* goes through timegm, which carries what a month or a day does not have  *)
(* over to the next one.                                                   *)
(*                                                                         *)
(* The units of the day are scaled by constants, the calendar is the real  *)
(* one; an instant counts seconds since the beginning of the year 1. The   *)
(* letters of a name, which may be of either case, are one token.          *)
(***************************************************************************)
EXTENDS Integers, FiniteSetsExt, SequencesExt

CONSTANTS MaxSeconds, MaxMinutes, MaxHours, \* 60, 60 and 24 in the code
          MaxCalls,   \* bound: calls of dcmCronParseGetNext
          CronPatterns, \* the patterns: for each field its text, and what that means to
                      \* the reader: which months 1 to 12, which weekdays 0 to 6
          Starts      \* the instants to start from

ASSUME CronAssumption ==
  {MaxSeconds, MaxMinutes, MaxHours, MaxCalls} \subseteq Nat \ {0} /\ Starts \subseteq Nat

VARIABLES
  pattern, \* what is parsed
  expr,    \* dcmCronExpr, or Rejected
  from,    \* the instant that it was last asked about
  next,    \* and its last answer, or Invalid
  calls,   \* history: how often it was asked
  cal,     \* the broken-down time that the search moves
  dot,     \* the year in which the search has begun
  again,   \* it is the second search for this answer
  at,      \* the field the innermost do_next is at, Done, or Idle if there is no search
  resets,  \* and the fields it is to reset when it changes one
  callers  \* at and resets of the do_next that wait for it, the innermost last

question == <<pattern, expr, from, next, calls>>
cronVars == <<pattern, expr, from, next, calls, cal, dot, again, at, resets, callers>>

-----------------------------------------------------------------------------
(* The calendar: timegm and gmtime_r.                                      *)

IsLeap(y) == y % 4 = 0 /\ (y % 100 # 0 \/ y % 400 = 0)
DaysBefore(y, m) ==
  365 * (y - 1) + (y - 1) \div 4 - (y - 1) \div 100 + (y - 1) \div 400
    + <<0, 31, 59, 90, 120, 151, 181, 212, 243, 273, 304, 334, 365>>[m + 1]
    + IF m > 1 /\ IsLeap(y) THEN 1 ELSE 0

DaySeconds == MaxHours * MaxMinutes * MaxSeconds

DayNumber(c) == DaysBefore(c.year + c.mon \div 12, c.mon % 12) + c.mday - 1
Instant(c) == ((DayNumber(c) * MaxHours + c.hour) * MaxMinutes + c.min) * MaxSeconds + c.sec

MinuteOf(t) == t \div MaxSeconds
HourOf(t) == MinuteOf(t) \div MaxMinutes
DayOf(t) == HourOf(t) \div MaxHours

\* 400 years have 146097 days, and a month at most 31.
YearOf(day) ==
  LET years == (400 * day) \div 146097
  IN CHOOSE y \in years .. years + 2 : DaysBefore(y, 0) <= day /\ day < DaysBefore(y, 12)

MonthOf(day, y) ==
  LET months == (day - DaysBefore(y, 0)) \div 31
  IN CHOOSE m \in months .. months + 1 : DaysBefore(y, m) <= day /\ day < DaysBefore(y, m + 1)

BrokenIn(t, y, m) ==
  [year |-> y, mon |-> m, mday |-> DayOf(t) - DaysBefore(y, m) + 1,
   hour |-> HourOf(t) % MaxHours, min |-> MinuteOf(t) % MaxMinutes, sec |-> t % MaxSeconds]
BrokenInYear(t, y) == BrokenIn(t, y, MonthOf(DayOf(t), y))
Broken(t) == BrokenInYear(t, YearOf(DayOf(t)))

\* 1 January of the year 1 was a Monday.
Weekday(t) == (DayOf(t) + 1) % 7

-----------------------------------------------------------------------------
(* dcmCronParseExp.                                                        *)

Bounds == [sec |-> <<0, MaxSeconds>>, min |-> <<0, MaxMinutes>>, hour |-> <<0, MaxHours>>,
           mday |-> <<1, 32>>, mon |-> <<1, 13>>, wday |-> <<0, 8>>]
Fields == DOMAIN Bounds
Rejected == [f \in Fields |-> {}]

\* The text of a field is a sequence of tokens. A numeral below 100 stands for itself,
\* and so may no two of them, or names, be adjacent.
Star == -1
Dash == -2
Slash == -3
Comma == -4
Question == -5
DAYS_ARR == [name \in 100 .. 106 |-> name - 100]
MONTHS_ARR == [name \in 200 .. 212 |-> name - 200]  \* 200 is FOO, for want of a month 0

\* Variant: the first of the names is number 1.
ReplaceFromOne(text, arr) ==
  [i \in DOMAIN text |-> IF text[i] \in DOMAIN arr THEN arr[text[i]] + 1 ELSE text[i]]

ReplaceOrdinals(text, arr) ==
  [i \in DOMAIN text |-> IF text[i] \in DOMAIN arr THEN arr[text[i]] ELSE text[i]]

\* What is between the delimiters, except nothing.
StrSplit(text, del) ==
  LET Extend(parts, token) == [parts EXCEPT ![Len(parts)] = Append(@, token)]
      parts == FoldLeft(LAMBDA done, token : IF token = del THEN Append(done, <<>>)
                                             ELSE Extend(done, token), <<(<<>>)>>, text)
  IN SelectSeq(parts, LAMBDA part : part # <<>>)

\* A malformed number is out of all bounds.
Malformed == -1
ParseUint(text) == IF Len(text) = 1 /\ text[1] \in 0 .. 99 THEN text[1] ELSE Malformed

GetRange(text, bounds) ==
  LET ends == StrSplit(text, Dash)
  IN IF text = <<Star>> THEN <<bounds[1], bounds[2] - 1>>
     ELSE IF ~Contains(text, Dash) THEN <<ParseUint(text), ParseUint(text)>>
     ELSE IF Len(ends) = 2 THEN <<ParseUint(ends[1]), ParseUint(ends[2])>>
     ELSE <<Malformed, Malformed>>

\* An item is a range with a step or without; a step makes what is no range, like a
\* number, the start of one.
Item(text, bounds) ==
  LET split == StrSplit(text, Slash)
      range == GetRange(IF split = <<>> THEN <<>> ELSE split[1], bounds)
  IN IF ~Contains(text, Slash) THEN [range |-> range, last |-> range[2], delta |-> 1]
     ELSE [range |-> range,
           last |-> IF Contains(split[1], Dash) THEN range[2] ELSE bounds[2] - 1,
           delta |-> IF Len(split) = 2 THEN ParseUint(split[2]) ELSE Malformed]

InBounds(item, bounds) ==
  /\ bounds[1] <= item.range[1] /\ item.range[1] <= item.range[2] /\ item.range[2] < bounds[2]
  /\ item.delta > 0

Hits(item) == {v \in item.range[1] .. item.last : (v - item.range[1]) % item.delta = 0}

\* No value, if one item is malformed or there is none.
SetNumberHits(text, bounds) ==
  LET items == {Item(part, bounds) : part \in ToSet(StrSplit(text, Comma))}
  IN IF \A i \in items : InBounds(i, bounds) THEN UNION {Hits(i) : i \in items} ELSE {}

\* A question mark is a star for days; names are numbers.
Replaced(f, text) ==
  CASE f \in {"mday", "wday"} /\ text = <<Question>> -> <<Star>>
    [] f = "wday" -> ReplaceOrdinals(text, DAYS_ARR)
    [] f = "mon" -> ReplaceOrdinals(text, MONTHS_ARR)
    [] OTHER -> text

\* Variant: months count from 1.
Unrotated(f, values) == IF f = "wday" THEN {v % 7 : v \in values} ELSE values

\* Months count from 0, and the Sunday 7 is the Sunday 0.
Rotated(f, values) ==
  CASE f = "mon" -> {v - 1 : v \in values}
    [] f = "wday" -> {v % 7 : v \in values}
    [] OTHER -> values

\* A pattern of five fields, written here with an empty one for the seconds, means
\* second 0.
Parse(p) ==
  LET parsed == [f \in Fields |-> IF f = "sec" /\ p.sec = <<>> THEN {0}
                                  ELSE SetNumberHits(Replaced(f, p[f]), Bounds[f])]
  IN IF \E f \in Fields : parsed[f] = {} THEN Rejected
     ELSE [f \in Fields |-> Rotated(f, parsed[f])]

-----------------------------------------------------------------------------
(* dcmCronParseGetNext.                                                    *)

Invalid == -1
Lowest(f) == IF f = "mday" THEN 1 ELSE 0

SetField(c, f, v) == Broken(Instant([c EXCEPT ![f] = v]))
AddToField(c, f) == SetField(c, f, c[f] + 1)
ResetAllMin(c, fields) ==
  Broken(Instant([f \in DOMAIN c |-> IF f \in fields THEN Lowest(f) ELSE c[f]]))

NextField == [sec |-> "min", min |-> "hour", hour |-> "mday", mon |-> "year"]

NotFound == -1
NextSetBit(bits, from_index) ==
  LET later == {v \in bits : v >= from_index} IN IF later = {} THEN NotFound ELSE Min(later)

\* Variant: the higher field is not increased.
RolledInPlace(f, c) == ResetAllMin(c, {f})

Rolled(f, c) == ResetAllMin(AddToField(c, NextField[f]), {f})

\* Variant: the lower fields are kept.
FindNextKeepingLower(e, f, c, lower) ==
  LET later == NextSetBit(e[f], c[f])
      value == IF later = NotFound THEN NextSetBit(e[f], 0) ELSE later
      rolled == IF later = NotFound THEN Rolled(f, c) ELSE c
  IN [value |-> value, cal |-> IF value = c[f] THEN c ELSE SetField(rolled, f, value)]

\* The next value of f that the pattern has; it rolls over to the next higher field,
\* and resets the lower ones if f is to change. What f is set to need not last.
FindNext(e, f, c, lower) ==
  LET later == NextSetBit(e[f], c[f])
      value == IF later = NotFound THEN NextSetBit(e[f], 0) ELSE later
      rolled == IF later = NotFound THEN Rolled(f, c) ELSE c
  IN [value |-> value,
      cal |-> IF value = c[f] THEN c ELSE ResetAllMin(SetField(rolled, f, value), lower)]

DayMatches(e, t) == Broken(t).mday \in e.mday /\ Weekday(t) \in e.wday

\* How many days it is to the next one that matches both the day of the month and that
\* of the week; or 366, if it is more.
DaysToGo(e, t) ==
  LET Fits(k) == k = 366 \/ DayMatches(e, t + k * DaySeconds)
  IN CHOOSE k \in 0 .. 366 : Fits(k) /\ \A j \in 0 .. k - 1 : ~Fits(j)

DaysLater(c, days, lower) ==
  IF days = 0 THEN c ELSE ResetAllMin(Broken(Instant(c) + days * DaySeconds), lower)

DayFound(c) == [value |-> c.mday, cal |-> c]
FindNextDay(e, c, lower) == DayFound(DaysLater(c, DaysToGo(e, Instant(c)), lower))

Find(e, f, c, lower) ==
  IF f = "mday" THEN FindNextDay(e, c, lower) ELSE FindNext(e, f, c, lower)

\* The order of the fields in do_next, and what follows the last one.
Idle == 0
Order == <<"sec", "min", "hour", "mday", "mon">>
Done == 6

AtField(f) == at \in 1 .. 5 /\ Order[at] = f

Enter == at' = 1 /\ resets' = {}
DoNext(c) == cal' = c /\ dot' = c.year /\ Enter /\ UNCHANGED callers

CronInit ==
  /\ pattern \in CronPatterns /\ expr = Parse([f \in Fields |-> pattern[f].text])
  /\ from \in Starts /\ next = from /\ calls = 0
  /\ cal = Broken(from) /\ dot = cal.year /\ again = FALSE
  /\ at = Idle /\ resets = {} /\ callers = <<>>

\* A pattern that was accepted is asked about the last answer again and again.
ParseGetNext ==
  /\ at = Idle /\ expr # Rejected /\ next # Invalid
  /\ calls < MaxCalls /\ calls' = calls + 1
  /\ from' = next /\ again' = FALSE /\ DoNext(Broken(next))
  /\ UNCHANGED <<pattern, expr, next>>

\* A field that has not changed is among those to be reset when a higher one does.
FieldStays ==
  \E f \in {Order[i] : i \in 1 .. 5} :
    LET found == Find(expr, f, cal, resets)
    IN /\ AtField(f) /\ found.value = cal[f]
       /\ cal' = found.cal /\ at' = at + 1 /\ resets' = resets \cup {f}
       /\ UNCHANGED <<question, dot, again, callers>>

\* A second that changes is one that matches.
SecondChanges ==
  LET found == Find(expr, "sec", cal, resets)
  IN /\ AtField("sec") /\ found.value # cal.sec
     /\ cal' = found.cal /\ at' = at + 1
     /\ UNCHANGED <<question, dot, again, resets, callers>>

TooFar(f, c) == f = "mon" /\ c.year - dot > 4

\* Variant: the fields that have been looked at are not looked at again.
FieldChangesOnly ==
  \E f \in {Order[i] : i \in 2 .. 5} :
    LET found == Find(expr, f, cal, resets)
    IN /\ AtField(f) /\ found.value # cal[f] /\ ~TooFar(f, found.cal)
       /\ cal' = found.cal /\ at' = at + 1
       /\ UNCHANGED <<question, dot, again, resets, callers>>

\* When another field changes the search begins anew, in a call of its own.
FieldChanges ==
  \E f \in {Order[i] : i \in 2 .. 5} :
    LET found == Find(expr, f, cal, resets)
    IN /\ AtField(f) /\ found.value # cal[f] /\ ~TooFar(f, found.cal)
       /\ cal' = found.cal /\ callers' = Append(callers, [at |-> at + 1, resets |-> resets])
       /\ Enter
       /\ UNCHANGED <<question, dot, again>>

\* All calls give up if the month has come to the fifth year after.
GiveUp ==
  LET found == Find(expr, "mon", cal, resets)
  IN /\ AtField("mon") /\ found.value # cal.mon /\ TooFar("mon", found.cal)
     /\ cal' = found.cal /\ next' = Invalid /\ at' = Idle /\ callers' = <<>>
     /\ UNCHANGED <<pattern, expr, from, calls, dot, again, resets>>

Return ==
  /\ at = Done /\ callers # <<>>
  /\ at' = Last(callers).at /\ resets' = Last(callers).resets /\ callers' = Front(callers)
  /\ UNCHANGED <<question, cal, dot, again>>

\* Variant: from the same second, as often as it takes.
SearchFromSame ==
  /\ at = Done /\ callers = <<>> /\ Instant(cal) = from
  /\ DoNext(cal) /\ UNCHANGED <<question, again>>

\* The answer is later than the instant itself.
SearchAgain ==
  /\ at = Done /\ callers = <<>> /\ Instant(cal) = from /\ ~again
  /\ again' = TRUE /\ DoNext(AddToField(cal, "sec"))
  /\ UNCHANGED question

Answer ==
  /\ at = Done /\ callers = <<>> /\ (Instant(cal) # from \/ again)
  /\ next' = Instant(cal) /\ at' = Idle
  /\ UNCHANGED <<pattern, expr, from, calls, cal, dot, again, resets, callers>>

Search == FieldStays \/ SecondChanges \/ FieldChanges \/ GiveUp \/ Return \/ SearchAgain \/ Answer
CronNext == ParseGetNext \/ Search

\* A search that is under way goes on. As Search is enabled then, and only then, this is
\* its weak fairness.
CronFairness == []<>(at = Idle) \/ []<><<Search>>_cronVars

CronSpec == CronInit /\ [][CronNext]_cronVars /\ CronFairness

-----------------------------------------------------------------------------
(* Properties.                                                             *)

InCalendar(e) ==
  /\ \A f \in Fields : e[f] # {}
  /\ e.sec \subseteq 0 .. MaxSeconds - 1 /\ e.min \subseteq 0 .. MaxMinutes - 1
  /\ e.hour \subseteq 0 .. MaxHours - 1 /\ e.mday \subseteq 1 .. 31
  /\ e.mon \subseteq 0 .. 11 /\ e.wday \subseteq 0 .. 6

\* A pattern that is not rejected has values for every field, and no others than the
\* calendar has, for which the bits of a dcmCronExpr have room.
AcceptedInCalendar == expr = Rejected \/ InCalendar(expr)

Call == [at : 2 .. Done, resets : SUBSET Fields]

\* The type invariant: the time is always one that the calendar has, in the year of
\* the search or later.
CronTypeOK ==
  /\ pattern \in CronPatterns /\ calls \in 0 .. MaxCalls
  /\ from \in Nat /\ next \in Nat \cup {Invalid}
  /\ Instant(cal) \in Nat /\ cal = Broken(Instant(cal)) /\ dot \in 1 .. cal.year
  /\ again \in BOOLEAN /\ at \in Idle .. Done /\ resets \subseteq Fields /\ callers \in Seq(Call)
  /\ AcceptedInCalendar

\* A pattern is accepted if and only if each of its fields means something to a reader,
\* and then it is that, but for the months, which the reader counts from 1.
ParsedAsMeant ==
  LET Means(f) == pattern[f].means
  IN expr = IF \E f \in Fields : Means(f) = {} THEN Rejected
            ELSE [f \in Fields |-> IF f = "mon" THEN {m - 1 : m \in Means(f)} ELSE Means(f)]

Matches(t) ==
  LET c == Broken(t)
  IN Weekday(t) \in expr.wday /\ \A f \in {"sec", "min", "hour", "mday", "mon"} : c[f] \in expr[f]

EveryDate == expr.mday = 1 .. 31
EveryWeekday == expr.wday = 0 .. 6
Answered == calls > 0 /\ at = Idle

\* What dcmCronParseGetNext answers is later and matches the pattern, across the ends
\* of months and years, unless the pattern restricts the days in two ways: then it
\* gives up after 366 days and can take the day it has got to for a match.
AnswersMatch ==
  (Answered /\ next # Invalid) => next > from /\ (EveryDate \/ EveryWeekday => Matches(next))

\* No instant that matches is left out before the answer, and there is none for four
\* years if there is no answer; provided that the pattern names one second, as those of
\* five fields do, and allows every month, or only dates that all months have and these
\* on every weekday. Setting the month of the 31st to November gives December; and a
\* second that changes is kept when the minute changes too.
NothingIsSkipped ==
  LET horizon == IF next = Invalid THEN from + 4 * 365 * DaySeconds ELSE next - 1
  IN (/\ Answered /\ \E s \in expr.sec : expr.sec = {s}
      /\ expr.mon = 0 .. 11 \/ (EveryWeekday /\ expr.mday \subseteq 1 .. 28)) =>
       \A t \in from + 1 .. horizon : ~Matches(t)

\* A search never goes back in time, whatever it resets and carries over; so it cannot
\* come to the same place twice.
SearchMovesOn == [][(at # Idle /\ cal' # cal) => Instant(cal') > Instant(cal)]_cronVars

\* A search comes to its end: even for a day that no month has, do_next calls itself
\* only until the year is too far.
SearchEnds == at # Idle ~> at = Idle
================================================================================
