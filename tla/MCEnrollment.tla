---------------------------- MODULE MCEnrollment ----------------------------
(* Enrollment for TLC.  The six digits of the two credentials collide, and *)
(* so do those of two neighbouring steps; what is typed covers both codes  *)
(* in clean and in sloppy spelling.                                        *)
EXTENDS Enrollment, TLC

CONSTANTS u1, u2, e1, e2, c1, c2, c3, i1, d1

MCHotp == (c1 :> (0 :> 7 @@ 1 :> 8 @@ 2 :> 8)) @@ (c2 :> (0 :> 8 @@ 1 :> 7 @@ 2 :> 9))
          @@ (c3 :> (0 :> 9 @@ 1 :> 9 @@ 2 :> 9))
MCCodes == {<<"0", "A">>, <<"1", "A">>, <<"A", "0">>}
MCTyped == {<<"0", "A">>, <<"o", "-", "a">>}
MCEmailOf == i1 :> e2
MCSymmetry == Permutations({u1, u2})
=============================================================================
