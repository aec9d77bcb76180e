-------------------------------- MODULE Cvss ---------------------------------
(***************************************************************************)
(* The score command (src/findings/cvss.c): a vector is read token by      *)
(* token into eight metrics, whose base score is computed in floating      *)
(* point and rounded up to a tenth.                                        *)
(*                                                                         *)
(* The arithmetic is in integers: weights in 1/100, everything else in     *)
(* 10^-8, with an error below 10^-6.  No score of the program lies so      *)
(* close to a tenth that this could change it.                             *)
(***************************************************************************)
EXTENDS Integers, FiniteSetsExt

VARIABLES
  metrics,    \* the metrics read so far
  cvssPhase,  \* "parsing" or "scored"
  score       \* the score, in tenths; 0 before

cvssVars == <<metrics, cvssPhase, score>>

\* The letters of each metric that the parser knows, the one that scores
\* highest by the standard first; it is the default.
Letters ==
  [av |-> <<"N", "A", "L", "P">>, ac |-> <<"L", "H">>,
   pr |-> <<"N", "L", "H">>, ui |-> <<"N", "R">>, s |-> <<"U", "C">>,
   c |-> <<"H", "L", "N">>, i |-> <<"H", "L", "N">>, a |-> <<"H", "L", "N">>]

Known(m) == {Letters[m][n] : n \in DOMAIN Letters[m]}
AllLetters == UNION {Known(m) : m \in DOMAIN Letters}

CvssInit ==
  /\ metrics = [m \in DOMAIN Letters |-> Letters[m][1]]
  /\ cvssPhase = "parsing" /\ score = 0

-----------------------------------------------------------------------------
(* The score                                                               *)

One == 100000000

\* The product of two numbers in 10^-8, in two halves of four digits each.
Times(x, y) ==
  LET half == 10000
      x1 == x \div half  x0 == x % half
      y1 == y \div half  y0 == y % half
  IN x1 * y1 + (x1 * y0 + x0 * y1) \div half + (x0 * y0) \div One

Power15(x) ==
  LET x2 == Times(x, x)
      x4 == Times(x2, x2)
      x8 == Times(x4, x4)
  IN Times(Times(x8, x4), Times(x2, x))

\* What an impact metric leaves of one: 1 - n * 0.56, where n numbers the
\* letters N, L, H from zero.
Remains == [N |-> 100, L |-> 44, H |-> -12]

\* The impact subscore, in 10^-6.
Iss(m, remains) == 1000000 - remains[m.c] * remains[m.i] * remains[m.a]

\* powf is taken of a negative number only when there is no impact at all;
\* its fifteenth power is then zero in eight digits.
Impact(m, remains) ==
  LET iss == Iss(m, remains)
      power == IF iss < 20000 THEN 0 ELSE Power15((iss - 20000) * 100)
  IN IF m.s = "U" THEN 642 * iss
     ELSE 752 * (iss - 29000)
            - 3250 * (power \div 1000) - (325 * (power % 1000)) \div 100

\* Variant of VectorWeight: adjacent and local are mixed up.
VectorWeightMixed == [N |-> 85, A |-> 55, L |-> 62, P |-> 20]
VectorWeight == [N |-> 85, A |-> 62, L |-> 55, P |-> 20]

Exploitability(m) ==
  LET av == VectorWeight[m.av]
      ac == [L |-> 77, H |-> 44][m.ac]
      pr == IF m.s = "U" THEN [N |-> 85, L |-> 62, H |-> 27][m.pr]
                         ELSE [N |-> 85, L |-> 68, H |-> 50][m.pr]
      ui == [N |-> 85, R |-> 62][m.ui]
  IN ((av * ac * pr * ui) \div 100) * 822

Zeroed(impact) == impact <= 0

Capped(x) == Min({x, 10 * One})

\* ks_cvss_calculate, in tenths.
BaseScore(m, remains) ==
  LET sum == Impact(m, remains) + Exploitability(m)
      scaled == IF m.s = "U" THEN sum ELSE sum + (sum \div 100) * 8
      tenth == One \div 10
  IN IF Zeroed(Impact(m, remains)) THEN 0
     ELSE (Capped(scaled) + tenth - 1) \div tenth

-----------------------------------------------------------------------------

\* One token of the vector: a letter that the metric has takes effect, any
\* other token is passed over.
ReadToken(m, letter) ==
  /\ cvssPhase = "parsing"
  /\ metrics' = IF letter \in Known(m) THEN [metrics EXCEPT ![m] = letter]
                ELSE metrics
  /\ UNCHANGED <<cvssPhase, score>>

\* The vector has been read.
Calculate ==
  /\ cvssPhase = "parsing"
  /\ score' = BaseScore(metrics, Remains)
  /\ cvssPhase' = "scored"
  /\ UNCHANGED metrics

CvssNext ==
  \/ \E m \in DOMAIN Letters, letter \in AllLetters : ReadToken(m, letter)
  \/ Calculate

CvssSpec == CvssInit /\ [][CvssNext]_cvssVars

-----------------------------------------------------------------------------
(* Properties                                                              *)

\* Every metric has one of its letters, the score is one (cvss.c:210-215).
CvssTypeOK ==
  /\ \A m \in DOMAIN Letters : metrics[m] \in Known(m)
  /\ score \in 0..100

\* Of two vectors that differ in one metric of exploitability, the one that
\* asks more of the attacker never scores higher, clamping and rounding
\* included (cvss.c:65-120).
HarderIsNoWorse ==
  cvssPhase = "scored" =>
    \A m \in {"av", "ac", "pr", "ui"} : \A x, y \in DOMAIN Letters[m] :
      (x < y /\ metrics[m] = Letters[m][x]) =>
        BaseScore([metrics EXCEPT ![m] = Letters[m][y]], Remains) <= score

\* The score is the CVSS v3.1 base score (cvss.c:53), in which N, L and H
\* weigh 0, 0.22 and 0.56.
IsStandardScore ==
  cvssPhase = "scored" =>
    score = BaseScore(metrics, [N |-> 100, L |-> 78, H |-> 44])
=============================================================================
