--------------------------- MODULE Microstructure ---------------------------
(* The loops of features/microstructure over the buffer that the filter lets the  *)
(* pipeline have: the buckets of vpin.py, whose floats may round either way, and  *)
(* the run of trade_signs.py, each against a definition that says what it         *)
(* computes without a loop.                                                       *)
EXTENDS TickFilter

CONSTANT BucketCount        \* bucket_count

ASSUME MicrostructureAssumption == BucketCount \in Nat \ {0}

-----------------------------------------------------------------------------
(* VPIN. Volumes are multiplied by BucketCount, so that bucket_size is the      *)
(* traded volume, an integer; what is bought minus what is sold is a fraction.  *)
(* bucket_size and current_vol are floats: where the volume at hand is exactly   *)
(* one bucket, rounding decides whether it reaches it, and short names the       *)
(* buckets that then fall short. Elsewhere the two are at least a bucket_count-th *)
(* of a share apart.                                                             *)

\* The rows after the first, with the differences that diff leaves.
Trades(rows) ==
    [i \in 1..Len(rows) - 1 |->
        [price |-> rows[i + 1].price,
         volume |-> Max({rows[i + 1].volume - rows[i].volume, 0})]]

Traded(trades) ==
    LET upTo[i \in 0..Len(trades)] == IF i = 0 THEN 0 ELSE upTo[i - 1] + trades[i].volume
    IN  upTo[Len(trades)]

\* The first of the trades counts as sold whatever the row before it was.
Bought(trades, i) == i > 1 /\ trades[i].price > trades[i - 1].price

Reduced(n, d) ==
    LET a == IF n < 0 THEN -n ELSE n
        g == Max({c \in 1..d : d % c = 0 /\ a % c = 0})
    IN  [num |-> n \div g, den |-> d \div g]

\* The volume at hand, its imbalance and the buckets so far.
EmptyTally == [volume |-> 0, imbalance |-> [num |-> 0, den |-> 1], buckets |-> <<>>]

\* current_vol >= bucket_size, as it is rounded.
Reaches(tally, size, short) ==
    \/ tally.volume > size
    \/ tally.volume = size /\ Len(tally.buckets) + 1 \notin short

\* One turn of the while loop: a bucket takes its share of the imbalance.
FillBucket(tally, size, short) ==
    LET ratio == Reduced(tally.imbalance.num, tally.imbalance.den * tally.volume)
        rest == tally.volume - size
    IN  IF ~Reaches(tally, size, short) THEN tally
        ELSE [volume |-> rest, imbalance |-> Reduced(ratio.num * rest, ratio.den),
              buckets |-> Append(tally.buckets, ratio)]

\* Slip: one bucket at most for a trade.
FillBucketsOnce(tally, size, short) == FillBucket(tally, size, short)

\* The while loop; it has no more turns than there is volume.
FillBuckets(tally, size, short) ==
    LET turn[k \in 0..tally.volume] ==
          IF k = 0 THEN tally ELSE FillBucket(turn[k - 1], size, short)
    IN  turn[tally.volume]

\* One trade of the for loop.
TallyTrade(trades, tally, i, short) ==
    LET v == trades[i].volume * BucketCount
        signed == IF Bought(trades, i) THEN v ELSE -v
        imb == tally.imbalance
    IN  IF v = 0 THEN tally
        ELSE FillBuckets([volume |-> tally.volume + v, buckets |-> tally.buckets,
                          imbalance |-> Reduced(imb.num + signed * imb.den, imb.den)],
                         Traded(trades), short)

Tally(trades, short) ==
    LET after[i \in 0..Len(trades)] ==
          IF i = 0 THEN EmptyTally ELSE TallyTrade(trades, after[i - 1], i, short)
    IN  after[Len(trades)]

\* However the floats are rounded, bucket_count buckets take the traded volume, so that
\* the last bucket_count of them are all; but for the last one, which is missing when
\* it falls short itself, whatever the others did. No bucket is out of balance by more
\* than it holds.
BucketsTakeAll(rows) ==
    LET trades == Trades(rows)
        InBalance(tally) == \A i \in DOMAIN tally.buckets :
            LET r == tally.buckets[i] IN -r.den <= r.num /\ r.num <= r.den
    IN  rows # <<>> /\ Traded(trades) > 0 =>
          \A short \in SUBSET (1..BucketCount) :
            LET tally == Tally(trades, short)
            IN  /\ InBalance(tally)
                /\ \/ Len(tally.buckets) = BucketCount /\ tally.volume = 0
                   \/ /\ Len(tally.buckets) + 1 = BucketCount /\ tally.volume = Traded(trades)
                      /\ BucketCount \in short

-----------------------------------------------------------------------------
(* Trade signs.                                                                 *)
SignOf(n) == IF n > 0 THEN 1 ELSE IF n < 0 THEN -1 ELSE 0

\* Against the mid price: the quote rule.
QuoteSign(row) == SignOf(2 * row.price - row.bid - row.ask)

\* The loop: the quote rule, then the tick rule, then the sign of the row before.
Signs(rows) ==
    LET sign[i \in 1..Len(rows)] ==
          IF QuoteSign(rows[i]) # 0 THEN QuoteSign(rows[i])
          ELSE IF i = 1 THEN 0
          ELSE IF rows[i].price # rows[i - 1].price
          THEN SignOf(rows[i].price - rows[i - 1].price)
          ELSE sign[i - 1]
    IN  sign

\* Slip: the run begins before the last row.
SignRunFromBefore(rows) ==
    LET sign == Signs(rows)
        n == Len(rows)
        run[k \in 0..n] == IF k < n - 1 /\ sign[n - 1 - k] = sign[n] /\ sign[n] # 0
                           THEN 1 + run[k + 1] ELSE 0
    IN  run[0]

SignRun(rows) ==
    LET sign == Signs(rows)
        n == Len(rows)
        run[k \in 0..n] == IF k < n /\ sign[n - k] = sign[n] /\ sign[n] # 0
                           THEN 1 + run[k + 1] ELSE 0
    IN  run[0]

\* The sign of a row is told by the last row up to it that is off its mid price or
\* differs from the row before, and the run is the longest end of the rows that
\* have the sign of the last.
Telling(rows, i) ==
    \/ QuoteSign(rows[i]) # 0
    \/ i > 1 /\ rows[i].price # rows[i - 1].price

ToldSign(rows, i) ==
    LET told == {j \in 1..i : Telling(rows, j)}
        j == Max(told)
    IN  IF told = {} THEN 0
        ELSE IF QuoteSign(rows[j]) # 0 THEN QuoteSign(rows[j])
        ELSE SignOf(rows[j].price - rows[j - 1].price)

RunIsLongest(rows) ==
    LET n == Len(rows)
        same == {k \in 1..n : \A i \in n - k + 1..n :
                                ToldSign(rows, i) = ToldSign(rows, n) /\ ToldSign(rows, n) # 0}
    IN  n >= 2 => SignRun(rows) = Max(same \cup {0})

-----------------------------------------------------------------------------
\* On every buffer that the filter and the bus let the pipeline have, the buckets of
\* vpin.py are bucket_count and take all the volume that was traded, but for a last
\* one that rounding leaves unfilled.
BucketsAgree == BucketsTakeAll(ticks)

\* On every such buffer, the run of trade_signs.py is the longest end of the rows
\* whose sign is that of the last.
RunAgrees == RunIsLongest(ticks)
=============================================================================
