------------------------------- MODULE Curves -------------------------------
(***************************************************************************)
(* Fan curves: CurveCfg::calculate_speed, at whole degrees.                *)
(*                                                                         *)
(* The code computes in f32 and truncates to u8.  The result here is the   *)
(* set of speeds it may return, and the empty set stands for an error: a   *)
(* product that is exactly a whole number may come out a hair below it,    *)
(* and be cut to the number before.                                        *)
(***************************************************************************)
EXTENDS Integers, Sequences, FiniteSets

Constant(s) == [kind |-> "constant", speed |-> s]
Step(tmps, spds) == [kind |-> "step", tmps |-> tmps, spds |-> spds]
Bezier(points) == [kind |-> "bezier", points |-> points]  \* [x, y] each

Least(S) == CHOOSE x \in S : \A y \in S : x <= y
Greatest(S) == CHOOSE x \in S : \A y \in S : y <= x
Clamped(y) == IF y < 0 THEN 0 ELSE IF y > 100 THEN 100 ELSE y

\* Mutant: the division is forgotten.
TruncatedNot(num, den, exact) == {num}

\* What truncation may make of num / den, den > 0.
Truncated(num, den, exact) ==
    LET q == num \div den
    IN {q} \union IF ~exact /\ num % den = 0 /\ q > 0 THEN {q - 1} ELSE {}

Segments(tmps, T) ==
    {i \in 1 .. Len(tmps) - 1 : tmps[i] <= T /\ T < tmps[i + 1]}

\* Mutant: the two ends of the line are swapped.
InterpolatedSwapped(tmps, spds, i, T) ==
    Truncated(spds[i + 1] * (tmps[i + 1] - T) + spds[i] * (T - tmps[i]),
              tmps[i + 1] - tmps[i], T = tmps[i])

\* The line through points i and i + 1; exact at point i, where t is 0.
Interpolated(tmps, spds, i, T) ==
    Truncated(spds[i] * (tmps[i + 1] - T) + spds[i + 1] * (T - tmps[i]),
              tmps[i + 1] - tmps[i], T = tmps[i])

StepSpeeds(tmps, spds, T) ==
    IF Len(tmps) # Len(spds) \/ tmps = <<>> THEN {}
    ELSE IF Segments(tmps, T) # {}
         THEN Interpolated(tmps, spds, Least(Segments(tmps, T)), T)
         ELSE {IF T < tmps[1] THEN spds[1] ELSE spds[Len(spds)]}

\* Between the outer points the bisection may stop anywhere on the curve,
\* which lies within the span of its control points.
BezierSpeeds(points, T) ==
    LET xs == {points[i].x : i \in DOMAIN points}
        ys == {points[i].y : i \in DOMAIN points}
        AtEdge(x, which(_)) ==
            {Clamped(points[which({i \in DOMAIN points : points[i].x = x})].y)}
    IN IF Len(points) # 4 THEN {}
       ELSE IF T <= Least(xs) THEN AtEdge(Least(xs), Least)
       ELSE IF T >= Greatest(xs) THEN AtEdge(Greatest(xs), Greatest)
       ELSE Clamped(Least(ys) - 1) .. Clamped(Greatest(ys))

Speeds(curve, T) ==
    CASE curve.kind = "constant" -> {curve.speed}
      [] curve.kind = "step"     -> StepSpeeds(curve.tmps, curve.spds, T)
      [] curve.kind = "bezier"   -> BezierSpeeds(curve.points, T)

\* A well-formed step curve whose speeds rise with its temperatures.
Rising(curve) ==
    /\ curve.kind = "step" /\ Len(curve.tmps) = Len(curve.spds)
    /\ \A i, j \in DOMAIN curve.tmps :
          i < j => curve.tmps[i] < curve.tmps[j] /\ curve.spds[i] <= curve.spds[j]
=============================================================================
