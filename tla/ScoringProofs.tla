----------------------------- MODULE ScoringProofs -----------------------------
(***************************************************************************)
(* What the scores of an answer and of a report guarantee.  The mean over  *)
(* the answers of a report enters as a sum S of n marks between lo and hi, *)
(* so n * lo <= S <= n * hi: that a fold computes such a sum is not proved *)
(* here, what the code makes of it is.                                     *)
(***************************************************************************)
EXTENDS Scoring, TLAPS

\* The quotient of Euclidean division by a positive number.
LEMMA Quotient ==
    ASSUME NEW a \in Int, NEW b \in Int, b > 0
    PROVE  /\ a \div b \in Int
           /\ b * (a \div b) <= a
           /\ a < b * (a \div b) + b
BY SMT

\* HalfUp(a, b) is the integer q with q - 1/2 <= a/b < q + 1/2.
LEMMA HalfUpIsNearest ==
    ASSUME NEW a \in Int, NEW b \in Int, b > 0
    PROVE  /\ HalfUp(a, b) \in Int
           /\ 2 * (b * HalfUp(a, b)) <= 2 * a + b
           /\ 2 * a + b < 2 * (b * HalfUp(a, b)) + 2 * b
<1> DEFINE q == (2 * a + b) \div (2 * b)
<1>1. /\ q \in Int
      /\ (2 * b) * q <= 2 * a + b
      /\ 2 * a + b < (2 * b) * q + 2 * b
  BY Quotient
<1>2. (2 * b) * q = 2 * (b * q)
  BY <1>1
<1> QED
  BY <1>1, <1>2 DEF HalfUp

LEMMA ProductMonotone ==
    ASSUME NEW a \in Int, NEW b \in Int, NEW n \in Nat, a <= b
    PROVE  n * a <= n * b
BY SMT

\* More marks for the same number of answers never round to less.
LEMMA HalfUpMonotone ==
    ASSUME NEW a \in Int, NEW b \in Int, NEW n \in Nat \ {0}, a <= b
    PROVE  HalfUp(a, n) <= HalfUp(b, n)
<1> DEFINE p == HalfUp(a, n)
           q == HalfUp(b, n)
<1>1. p \in Int /\ q \in Int
  BY HalfUpIsNearest
<1>2. SUFFICES ASSUME q + 1 <= p PROVE FALSE
  BY <1>1
<1>3. n * (q + 1) <= n * p
  BY <1>1, <1>2, ProductMonotone
<1>4. n * (q + 1) = n * q + n /\ n * p \in Int /\ n * q \in Int
  BY <1>1
<1>5. 2 * (n * p) <= 2 * a + n /\ 2 * b + n < 2 * (n * q) + 2 * n
  BY HalfUpIsNearest
<1> HIDE DEF p, q
<1> QED
  BY <1>3, <1>4, <1>5

\* A mean of marks between lo and hi stays between lo and hi when rounded.
LEMMA HalfUpBetween ==
    ASSUME NEW lo \in Int, NEW hi \in Int, NEW n \in Nat \ {0},
           NEW a \in Int, n * lo <= a, a <= n * hi
    PROVE  HalfUp(a, n) \in lo .. hi
<1>1. ASSUME NEW k \in Int PROVE HalfUp(n * k, n) = k
  <2> DEFINE q == HalfUp(n * k, n)
  <2>1. n * k \in Int
    OBVIOUS
  <2>2. q \in Int /\ 2 * (n * q) <= 2 * (n * k) + n /\ 2 * (n * k) + n < 2 * (n * q) + 2 * n
    BY <2>1, HalfUpIsNearest
  <2> HIDE DEF q
  <2>3. CASE q + 1 <= k
    <3>1. n * (q + 1) <= n * k
      BY <2>2, <2>3, ProductMonotone
    <3>2. n * (q + 1) = n * q + n /\ n * q \in Int
      BY <2>2
    <3> QED
      BY <2>1, <2>2, <3>1, <3>2
  <2>4. CASE k + 1 <= q
    <3>1. n * (k + 1) <= n * q
      BY <2>2, <2>4, ProductMonotone
    <3>2. n * (k + 1) = n * k + n /\ n * q \in Int
      BY <2>2
    <3> QED
      BY <2>1, <2>2, <3>1, <3>2
  <2> QED
    BY <2>2, <2>3, <2>4 DEF q
<1>2. n * lo \in Int /\ n * hi \in Int
  OBVIOUS
<1>3. HalfUp(n * lo, n) <= HalfUp(a, n) /\ HalfUp(a, n) <= HalfUp(n * hi, n)
  BY <1>2, HalfUpMonotone
<1>4. HalfUp(n * lo, n) = lo /\ HalfUp(n * hi, n) = hi
  BY <1>1
<1>5. HalfUp(a, n) \in Int
  BY HalfUpIsNearest
<1> QED
  BY <1>3, <1>4, <1>5

-------------------------------------------------------------------------------
\* An evaluation the schema accepted (dimensions 0..10) is never refused by the
\* CHECK constraints of answer_evaluations on the two overall marks, and weighs
\* 0..100 in a report.
THEOREM MarksInRange ==
    ASSUME NEW e \in Evaluations
    PROVE  /\ TechnicalOverall(e) \in Dimensions
           /\ CommunicationOverall(e) \in Dimensions
           /\ To100(TechnicalOverall(e)) \in 0..100
           /\ To100(CommunicationOverall(e)) \in 0..100
<1>1. TechnicalSum(e) \in 0..40 /\ CommunicationSum(e) \in 0..30
  BY DEF Evaluations, Dimensions, TechnicalSum, CommunicationSum
<1>2. TechnicalOverall(e) \in Dimensions
  <2>1. 4 * 0 <= TechnicalSum(e) /\ TechnicalSum(e) <= 4 * 10 /\ TechnicalSum(e) \in Int
    BY <1>1
  <2>2. 0 \in Int /\ 10 \in Int /\ 4 \in Nat \ {0}
    OBVIOUS
  <2>3. HalfUp(TechnicalSum(e), 4) \in 0..10
    BY <2>1, <2>2, HalfUpBetween, Zenon
  <2> QED
    BY <2>3 DEF TechnicalOverall, Dimensions
<1>3. CommunicationOverall(e) \in Dimensions
  <2>1. 3 * 0 <= CommunicationSum(e) /\ CommunicationSum(e) <= 3 * 10 /\ CommunicationSum(e) \in Int
    BY <1>1
  <2>2. 0 \in Int /\ 10 \in Int /\ 3 \in Nat \ {0}
    OBVIOUS
  <2>3. HalfUp(CommunicationSum(e), 3) \in 0..10
    BY <2>1, <2>2, HalfUpBetween, Zenon
  <2> QED
    BY <2>3 DEF CommunicationOverall, Dimensions
<1> QED
  BY <1>2, <1>3 DEF To100, Dimensions

\* An answer at least as good in every dimension never gets a lower mark.
THEOREM BetterAnswersScoreNoLess ==
    ASSUME NEW e \in Evaluations, NEW f \in Evaluations,
           \A d \in DOMAIN e : e[d] <= f[d]
    PROVE  /\ TechnicalOverall(e) <= TechnicalOverall(f)
           /\ CommunicationOverall(e) <= CommunicationOverall(f)
<1>1. /\ TechnicalSum(e) \in Int /\ TechnicalSum(f) \in Int
      /\ CommunicationSum(e) \in Int /\ CommunicationSum(f) \in Int
  BY DEF Evaluations, Dimensions, TechnicalSum, CommunicationSum
<1>2. DOMAIN e = {"correctness", "relevance", "completeness", "technical_depth",
                  "clarity", "structure", "conciseness"}
  BY DEF Evaluations
<1>3. /\ e.correctness <= f.correctness /\ e.relevance <= f.relevance
      /\ e.completeness <= f.completeness /\ e.technical_depth <= f.technical_depth
      /\ e.clarity <= f.clarity /\ e.structure <= f.structure
      /\ e.conciseness <= f.conciseness
  BY <1>2
<1>4. \A d \in DOMAIN e : e[d] \in Int /\ f[d] \in Int
  BY <1>2 DEF Evaluations, Dimensions
<1>5. TechnicalSum(e) <= TechnicalSum(f) /\ CommunicationSum(e) <= CommunicationSum(f)
  BY <1>2, <1>3, <1>4 DEF TechnicalSum, CommunicationSum
<1> QED
  BY <1>1, <1>5, HalfUpMonotone DEF TechnicalOverall, CommunicationOverall

\* A report over n answers passes the CHECK constraints of performance_reports:
\* all scores are in 0..100.  Each axis lies between its lowest and its highest
\* answer, and the overall score between the two axes.
THEOREM ReportBetweenItsAnswers ==
    ASSUME NEW n \in Nat \ {0},
           NEW lo \in 0..100, NEW hi \in 0..100,
           NEW t \in (n * lo)..(n * hi), NEW c \in (n * lo)..(n * hi)
    PROVE  /\ Scores(t, c, n).technical \in lo..hi
           /\ Scores(t, c, n).communication \in lo..hi
           /\ Scores(t, c, n).overall \in lo..hi
<1> DEFINE tech == HalfUp(t, n)
           comm == HalfUp(c, n)
<1>1. n * lo \in Int /\ n * hi \in Int
  OBVIOUS
<1>2. /\ lo \in Int /\ hi \in Int /\ 2 \in Nat \ {0}
      /\ t \in Int /\ n * lo <= t /\ t <= n * hi
      /\ c \in Int /\ n * lo <= c /\ c <= n * hi
  BY <1>1
<1>3. tech \in lo..hi /\ comm \in lo..hi
  BY <1>2, HalfUpBetween, Zenon
<1> HIDE DEF tech, comm
<1>4. 2 * lo <= tech + comm /\ tech + comm <= 2 * hi /\ tech + comm \in Int
  BY <1>3
<1>5. HalfUp(tech + comm, 2) \in lo..hi
  BY <1>2, <1>4, HalfUpBetween, Zenon
<1>6. Overall(tech, comm) \in lo..hi
  BY <1>5 DEF Overall
<1> QED
  BY <1>3, <1>6 DEF Scores, tech, comm

\* The scoring document takes the mean of the dimensions times ten and rounds;
\* the code rounds the mean and then multiplies.  An answer's score is therefore
\* off by at most 5 (technical, downwards 3) or 3 (communication) points out of 100.
THEOREM RoundedBeforeScaling ==
    ASSUME NEW e \in Evaluations
    PROVE  /\ To100(TechnicalOverall(e)) - HalfUp(10 * TechnicalSum(e), 4) \in -3..5
           /\ To100(CommunicationOverall(e)) - HalfUp(10 * CommunicationSum(e), 3) \in -3..3
<1>1. TechnicalSum(e) \in 0..40 /\ CommunicationSum(e) \in 0..30
  BY DEF Evaluations, Dimensions, TechnicalSum, CommunicationSum
<1>2. ASSUME NEW s \in 0..40, HalfUp(s, 4) \in Dimensions
      PROVE  To100(HalfUp(s, 4)) - HalfUp(10 * s, 4) \in -3..5
  BY <1>2 DEF HalfUp, To100, Dimensions
<1>3. ASSUME NEW s \in 0..30, HalfUp(s, 3) \in Dimensions
      PROVE  To100(HalfUp(s, 3)) - HalfUp(10 * s, 3) \in -3..3
  BY <1>3 DEF HalfUp, To100, Dimensions
<1> QED
  BY <1>1, <1>2, <1>3, MarksInRange DEF TechnicalOverall, CommunicationOverall
===============================================================================
