---------------------------- MODULE MCAuditChain ----------------------------
(* Small instances of AuditChain: r1 and r2 contend for one business row.  *)
EXTENDS AuditChain

CONSTANTS r1, r2, r3, b1, b2

MCTarget == [r \in Req |-> IF r = r3 THEN b2 ELSE b1]

(* One reading on a microsecond boundary, one beyond it. *)
MCNanos == {0, 3}
=============================================================================
