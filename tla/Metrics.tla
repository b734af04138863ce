------------------------------- MODULE Metrics -------------------------------
(***************************************************************************)
(* metrics/performance.py and its plain copy in __pure_python__. A series  *)
(* is a function on 1 .. n of integers (the floats of the code are taken   *)
(* as exact); a ratio is a pair <<numerator, denominator>>. A Sharpe ratio *)
(* is the pair <<sum, spread>> that stands for sum / sqrt(spread) times    *)
(* the root of the periods of a year, with <<0, 1>> for 0.                 *)
(***************************************************************************)
EXTENDS Integers, Sums

None == <<0, 1>>

Infinite == <<1, 0>>

\* The highest value seen so far.
Peaks(s, n) ==
  LET peak[i \in 1 .. n] == IF i = 1 THEN s[1] ELSE Higher(peak[i - 1], s[i])
  IN  peak

\* calculate_max_drawdown, the first result: a loop that keeps the largest drop.
MaxDrawdown(s, n) ==
  LET drop[i \in 1 .. n] ==
        IF i = 1 THEN 0 ELSE Higher(drop[i - 1], Peaks(s, n)[i] - s[i])
  IN  IF n <= 0 THEN 0 ELSE drop[n]

Larger(a, b) == IF b[1] * a[2] > a[1] * b[2] THEN b ELSE a

\* The second result: the largest drop as a part of its peak, where that is positive.
MaxDrawdownPct(s, n) ==
  LET peak == Peaks(s, n)
      part[i \in 1 .. n] ==
        IF i = 1 THEN None
        ELSE IF peak[i] > 0 THEN Larger(part[i - 1], <<peak[i] - s[i], peak[i]>>)
        ELSE part[i - 1]
  IN  IF n <= 0 THEN None ELSE part[n]

\* calculate_max_drawdown_vectorized: the peaks first, then the largest of all
\* drops; a peak that is not positive is made infinite, and its part 0.
MaxDrawdownVectorized(s, n) ==
  LET peak == Peaks(s, n)
      parts == {IF peak[i] > 0 THEN <<peak[i] - s[i], peak[i]>> ELSE None : i \in 1 .. n}
  IN  IF n = 0 THEN [drop |-> 0, part |-> None]
      ELSE [drop |-> Greatest({peak[i] - s[i] : i \in 1 .. n}),
            part |-> CHOOSE a \in parts : \A b \in parts : Larger(a, b) = a]

Sharpe(sum, squares, n) ==
  LET spread == n * squares - sum * sum
  IN  IF n < 2 \/ spread <= 0 THEN None ELSE <<sum, spread>>

\* calculate_sharpe_ratio.
SharpeRatio(r, n) ==
  Sharpe(Total(r, n), Total([i \in 1 .. n |-> r[i] * r[i]], n), n)

Gains(r, n) == Total([i \in 1 .. n |-> Higher(0, r[i])], n)

Losses(r, n) == Total([i \in 1 .. n |-> Higher(0, -r[i])], n)

Factor(profit, loss) ==
  IF loss # 0 THEN <<profit, loss>> ELSE IF profit > 0 THEN Infinite ELSE None

\* calculate_profit_factor.
ProfitFactor(r, n) == Factor(Gains(r, n), Losses(r, n))

\* Wrong variant, never used: a losing series falls from 0.
StartAtZero(v) ==
  [peak |-> 0, drop |-> 0, part |-> None, sum |-> 0, squares |-> 0,
   profit |-> 0, loss |-> 0, count |-> 0, prev |-> v]

\* What calculate_all_metrics keeps of a cumulative series: first of one value,
Start(v) ==
  [peak |-> v, drop |-> 0, part |-> None, sum |-> 0, squares |-> 0,
   profit |-> 0, loss |-> 0, count |-> 0, prev |-> v]

\* then of each further value, whose return is its difference from the last.
Accumulate(a, v) ==
  LET peak == Higher(a.peak, v)
      ret  == v - a.prev
  IN  [peak |-> peak, drop |-> Higher(a.drop, peak - v),
       part |-> IF peak > 0 THEN Larger(a.part, <<peak - v, peak>>) ELSE a.part,
       sum |-> a.sum + ret, squares |-> a.squares + ret * ret,
       profit |-> a.profit + Higher(0, ret), loss |-> a.loss + Higher(0, -ret),
       count |-> a.count + 1, prev |-> v]

AllMetrics(s, n) ==
  LET seen[i \in 1 .. n] == IF i = 1 THEN Start(s[1]) ELSE Accumulate(seen[i - 1], s[i])
      all == seen[n]
  IN  IF n <= 0 THEN [drop |-> 0, part |-> None, sharpe |-> None, factor |-> None]
      ELSE [drop |-> all.drop, part |-> all.part,
            sharpe |-> Sharpe(all.sum, all.squares, all.count),
            factor |-> Factor(all.profit, all.loss)]

-----------------------------------------------------------------------------
(* Properties *)

\* The largest fall from a value to one that is not earlier.
WorstFall(s, n) ==
  Greatest({s[p[1]] - s[p[2]] : p \in {q \in (1 .. n) \X (1 .. n) : q[1] <= q[2]}})

SameRatio(a, b) == a[1] * b[2] = b[1] * a[2]

\* On every series the one-pass metrics are those of the single functions, for
\* the differences of neighbours as returns; the drawdown is the worst fall
\* there is, and the Sharpe ratio is 0 or <<sum, spread>> with a spread that
\* vanishes only when all returns are equal (performance.py:46-56, :203-241).
MetricsAgree(series, n) ==
  \A s \in series :
    LET all    == AllMetrics(s, n)
        vector == MaxDrawdownVectorized(s, n)
        r      == [i \in 1 .. n - 1 |-> s[i + 1] - s[i]]
    IN  /\ all.drop = WorstFall(s, n)
        /\ all.drop = MaxDrawdown(s, n) /\ all.drop = vector.drop
        /\ SameRatio(all.part, MaxDrawdownPct(s, n)) /\ SameRatio(all.part, vector.part)
        /\ all.sharpe = SharpeRatio(r, n - 1)
        /\ all.factor = ProfitFactor(r, n - 1)
        /\ (all.sharpe[2] = 1 /\ all.sharpe[1] = 0) \/ \E i, j \in 1 .. n - 1 : r[i] # r[j]
=============================================================================
