----------------------------- MODULE MCSampler -----------------------------
(* Instances of Sampler for TLC. *)
EXTENDS Sampler, TLC

CONSTANTS p1, p2, p3

TwoProcs == {p1, p2}
ThreeProcs == {p1, p2, p3}
Symmetry == Permutations({p1, p2, p3})
=============================================================================
