--------------------------- MODULE MCCronExpression ----------------------------
(* Patterns, their meanings, and instants around the ends of months for    *)
(* CronExpression.                                                         *)
EXTENDS CronExpression

Text(text, means) == [text |-> text, means |-> means]
Nothing(text) == Text(text, {})
Five == Text(<<>>, {0})
All(lo, hi) == Text(<<Star>>, lo .. hi)
One(n) == Text(<<n>>, {n})
Mon == 101
Fri == 105
Sat == 106
Nov == 211
Dec == 212

MCCronPatterns ==
  [sec : {Five, All(0, MaxSeconds - 1)}, min : {All(0, MaxMinutes - 1), One(1)},
   hour : {All(0, MaxHours - 1), One(1)},
   mday : {Text(<<Question>>, 1 .. 31), One(1), One(31), Text(<<3, Dash, 28>>, 3 .. 28), Text(<<29, Dash, 31>>, 29 .. 31)},
   mon : {All(1, 12), One(2), Text(<<1, Slash, 6>>, {1, 7}), Text(<<Nov, Dash, Dec>>, {11, 12})},
   wday : {All(0, 6), Text(<<Comma, 7>>, {0}), Text(<<Mon, Dash, Fri, Slash, 4>>, {1, 5})}]
  \cup
  [sec : {Five}, min : {Nothing(<<0, Slash, 0>>), Nothing(<<1, Dash, 0>>), All(0, MaxMinutes - 1)},
   hour : {Nothing(<<MaxHours>>), Text(<<1, Slash, 1>>, 1 .. MaxHours - 1)},
   mday : {Nothing(<<0, Comma, 5>>), One(3), Nothing(<<Comma>>), Text(<<5, Dash, Dash, 6>>, {5, 6})},
   mon : {Nothing(<<13>>), Text(<<5, Dash, 6, Slash, 1>>, {5, 6}), Nothing(<<Question>>), Nothing(<<200>>)},
   wday : {Nothing(<<6, Dash, 8>>), Text(<<Sat, Comma, 1>>, {1, 6}), Nothing(<<2, Dash>>), Nothing(<<Slash, 2>>)}]

At(y, m, d) == (DaysBefore(y, m - 1) + d - 1) * DaySeconds
MCStarts == {At(2023, 1, 28) + DaySeconds - 1, At(2023, 1, 31), At(2024, 2, 29) + 1, At(2023, 8, 28),
             At(2023, 12, 31) + DaySeconds - 1}
================================================================================
