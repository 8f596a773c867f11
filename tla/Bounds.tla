------------------------------- MODULE Bounds -------------------------------
(* The smaller and the larger of two numbers: Ord::min and Ord::max.       *)
EXTENDS Naturals

Least(a, b) == IF a <= b THEN a ELSE b
Most(a, b)  == IF a >= b THEN a ELSE b
=============================================================================
