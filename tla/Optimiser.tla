----------------------------- MODULE Optimiser -----------------------------
(***************************************************************************)
(* simplex::optimise (simplex.h), the downhill simplex method, as          *)
(* tdoa::process uses it for the axes of the error ellipse: one object,    *)
(* three searches, each for the distance at which the error has grown to   *)
(* _rmsError, in a direction of its own.                                   *)
(*                                                                         *)
(* A distance is an integer, and half of one is rounded down.  The error   *)
(* grows evenly with the distance, at a rate that depends on the direction.*)
(***************************************************************************)
EXTENDS Integers, FiniteSets, Sequences, SequencesExt

CONSTANTS Slopes,        \* rates at which the error may grow
          RmsError,      \* tdoa::_rmsError
          Start,         \* first estimate of a distance: 1000
          Spread,        \* of the major axis: 100
          MinorSpread,   \* of the minor axis: 10
          Threshold,     \* difference of values that ends a search: 1
          MaxIterations  \* 1000

ASSUME OptimiserAssumption ==
  /\ Slopes \subseteq Nat \ {0} /\ RmsError \in Nat
  /\ Spread \in Nat /\ MinorSpread \in Nat /\ Start \in Nat /\ Start >= Spread
  /\ Threshold \in Nat \ {0} /\ MaxIterations \in Nat \ {0}

VARIABLES step,        \* "idle", "search" or "returned"
          call,        \* which search of the object: 0 before the first
          slope,       \* of the error in the direction _bearing
          simplex,     \* _simplex, the vertices with the value each has
          iterations,  \* i of optimise
          shift,       \* the local of process, where to start, then the result
          value,       \* what optimise returned
          axes         \* the two offsets and the minor axis

optVars == <<step, call, slope, simplex, iterations, shift, value, axes>>

Magnified(x) == IF x < 0 THEN -x ELSE x
Half(x) == x \div 2

Unbounded == 1000000   \* numeric_limits<double>::max()

-----------------------------------------------------------------------------
(* tdoa::excessError: a distance is not negative *)
ExcessError(s, x) == IF x < 0 THEN Unbounded ELSE Magnified(RmsError - s * x)

(* A vertex that has just been evaluated *)
Vertex(s, x) == [x |-> x, y |-> ExcessError(s, x)]

(* std::sort *)
Sorted(vertices) == SortSeq(vertices, LAMBDA a, b : a.y < b.y)

(* All but the worst *)
Centroid(vertices) ==
  FoldLeft(LAMBDA total, v : total + v.x, 0, Front(vertices)) \div (Len(vertices) - 1)

WithWorst(vertices, v) == Append(Front(vertices), v)

(* Mutant of Shrunk: what has moved is not evaluated. *)
ShrunkStale(s, vertices) ==
  [i \in DOMAIN vertices |->
     [vertices[i] EXCEPT !.x = vertices[1].x + Half(@ - vertices[1].x)]]

(* Every vertex moves half of the way to the best; all are evaluated. *)
Shrunk(s, vertices) ==
  [i \in DOMAIN vertices |-> Vertex(s, vertices[1].x + Half(vertices[i].x - vertices[1].x))]

(* Mutant of Moved: an expansion is taken whether or not it is better. *)
MovedTooFar(s, vertices) ==
  LET worst == Last(vertices)
      c == Centroid(vertices)
      reflected == Vertex(s, 2 * c - worst.x)
      expanded == Vertex(s, 2 * reflected.x - c)
  IN  IF reflected.y < vertices[1].y
        THEN <<expanded>> \o Tail(WithWorst(vertices, expanded)) ELSE Shrunk(s, vertices)

(* One turn of the loop, on sorted vertices *)
Moved(s, vertices) ==
  LET best == vertices[1]
      lousy == vertices[Len(vertices) - 1]
      worst == Last(vertices)
      c == Centroid(vertices)
      reflected == Vertex(s, 2 * c - worst.x)
      expanded == Vertex(s, 2 * reflected.x - c)
      inside == Vertex(s, c - Half(c - worst.x))
      outside == Vertex(s, c + Half(c - worst.x))
  IN  CASE reflected.y < best.y ->
             WithWorst(vertices, IF expanded.y < best.y THEN expanded ELSE reflected)
        [] reflected.y >= best.y /\ reflected.y <= lousy.y -> WithWorst(vertices, reflected)
        [] reflected.y > lousy.y /\ reflected.y > worst.y ->
             IF inside.y < worst.y THEN WithWorst(vertices, inside) ELSE Shrunk(s, vertices)
        [] OTHER ->
             IF outside.y < reflected.y THEN WithWorst(vertices, outside) ELSE Shrunk(s, vertices)

Converged(vertices) == Last(vertices).y - vertices[1].y < Threshold

-----------------------------------------------------------------------------
OptInit ==
  /\ step = "idle" /\ call = 0 /\ slope = 1 /\ simplex = <<>> /\ iterations = 0
  /\ shift = Start /\ value = 0 /\ axes = <<>>

(* optimise adds a simplex of its own to the vertices the object has. *)
Fresh(vertices, new) == vertices \o new

(* excessError in another direction, two vertices at random, and the search *)
Optimise(s, around, spread) ==
  /\ \E a, b \in around - spread..around + spread :
       simplex' = Fresh(simplex, <<Vertex(s, a), Vertex(s, b)>>)
  /\ slope' = s /\ call' = call + 1 /\ iterations' = 0
  /\ shift' = around /\ step' = "search"

(* The half major axis, that in the opposite direction, and the minor axis *)
FindMajor ==
  /\ step = "idle"
  /\ \E s \in Slopes : Optimise(s, Start, Spread)
  /\ UNCHANGED <<value, axes>>

FindOpposite ==
  /\ step = "returned" /\ call = 1
  /\ axes' = <<shift>>
  /\ \E s \in Slopes : Optimise(s, shift, Spread)
  /\ UNCHANGED value

FindMinor ==
  /\ step = "returned" /\ call = 2
  /\ axes' = Append(axes, shift)
  /\ \E s \in Slopes : Optimise(s, shift \div 4, MinorSpread)
  /\ UNCHANGED value

(* The ellipse is complete, the object goes out of scope. *)
Complete ==
  /\ step = "returned" /\ call = 3
  /\ step' = "idle" /\ call' = 0 /\ slope' = 1 /\ simplex' = <<>> /\ iterations' = 0
  /\ shift' = Start /\ value' = 0 /\ axes' = <<>>

(* A turn of the loop.  After the last one the vertices are not sorted again. *)
Iterate ==
  /\ step = "search"
  /\ LET sorted == Sorted(simplex)
         ends == Converged(sorted) \/ iterations + 1 = MaxIterations
     IN  /\ simplex' = IF Converged(sorted) THEN sorted ELSE Moved(slope, sorted)
         /\ step' = IF ends THEN "returned" ELSE "search"
         /\ shift' = IF ends THEN simplex'[1].x ELSE shift
         /\ value' = IF ends THEN simplex'[1].y ELSE value
         /\ iterations' = IF ends THEN iterations ELSE iterations + 1
  /\ UNCHANGED <<call, slope, axes>>

OptNext == FindMajor \/ FindOpposite \/ FindMinor \/ Iterate \/ Complete

-----------------------------------------------------------------------------
(* Types.  The object keeps two vertices of each search; a distance stays      *)
(* within what reflections can reach.                                          *)
OptTypeOK ==
  /\ step \in {"idle", "search", "returned"} /\ call \in 0..3
  /\ slope \in Slopes \cup {1} /\ iterations \in 0..MaxIterations - 1
  /\ Len(simplex) = 2 * call /\ \A i \in DOMAIN simplex : simplex[i].y \in 0..Unbounded
  /\ shift \in Int /\ value \in 0..Unbounded /\ Len(axes) <= 2

(* The first search compares values of its own function, which a shrink has to *)
(* compute anew.                                                               *)
FirstSearchIsCurrent ==
  call = 1 => \A i \in DOMAIN simplex : simplex[i] = Vertex(slope, simplex[i].x)

(* In the first search the best value never gets worse, turn by turn, to the   *)
(* one that is returned; in the second a shrink may replace a best value that  *)
(* was found in another direction.                                             *)
Best(vertices) == CHOOSE v \in ToSet(vertices) : \A w \in ToSet(vertices) : v.y <= w.y
BestNeverRises ==
  [][call = 1 /\ step = "search" => /\ Best(simplex').y <= Best(simplex).y
                                    /\ step' = "returned" => value' <= Best(simplex).y]_optVars

(* No axis is negative, though the second and the third search may begin with  *)
(* nothing but negative distances, which all have the same value and end the   *)
(* search at once: the vertices of the first search are there to win.          *)
AxesNotNegative ==
  /\ step = "returned" => shift >= 0
  /\ \A i \in DOMAIN axes : axes[i] >= 0
=============================================================================
