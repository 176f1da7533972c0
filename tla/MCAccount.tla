----------------------------- MODULE MCAccount -----------------------------
(* Small instances of Account. *)
EXTENDS Account, TLC

CONSTANTS e1, e2, p1, p2, s1, s2, s3, t1, t2, u1, u2

MCSymmetry == Permutations(Slots) \cup Permutations(UserIds)
                \cup Permutations(Passwords) \cup Permutations(Tokens)
                \cup Permutations(Emails)
=============================================================================
