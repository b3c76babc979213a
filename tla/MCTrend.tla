------------------------------ MODULE MCTrend -------------------------------
\* Half days; one preset per bucket, shorter than the code's.  The first tick
\* ends a day, a week and a month; the range begins inside a bucket of each
\* kind; the early date is its first moment, and no longer in it after the
\* tick.
EXTENDS Trend

MCMonthStarts == {0, 5, 14}
MCPresets == [b \in Buckets |-> {8}]
MCEarlyDates == {11}
=============================================================================
