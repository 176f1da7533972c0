--------------------------- MODULE MCResourceSync ---------------------------
(* Small instances of ResourceSync. *)
EXTENDS ResourceSync

CONSTANTS o1, o2, c1, k1, k2, t1, w1, w2

MCTypeOf == [k \in Keys |-> t1]
MCUserOf == [c \in Clients |-> o1]

(* A declaration with the type, and one that drops it. *)
MCDeclarations == {{t1}, {}}
MCDeclared == {{t1}}
=============================================================================
