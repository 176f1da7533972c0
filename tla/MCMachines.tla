----------------------------- MODULE MCMachines -----------------------------
(* Machines for TLC: a batch whose second seq outgrows the column.         *)
EXTENDS Machines, TLC

CONSTANTS a1, a2, m1, m2

OneBatch == << <<1, 2>> >>
=============================================================================
