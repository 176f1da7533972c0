------------------------------ MODULE Handlers ------------------------------
(***************************************************************************)
(* The handlers a server runs at a time: tasks of the async runtime, each  *)
(* serving one call and losing its turn at every await, that is, between   *)
(* any two statements it sends to Postgres.  The modules that EXTEND this  *)
(* one say what a handler is made of and what its statements do.           *)
(***************************************************************************)
EXTENDS Integers

CONSTANTS SlotCount,    \* handlers that run at a time
          MaxCalls,     \* bound: calls made
          None          \* NULL, and the absence of a row or a handler

ASSUME HandlersAssumption ==
    SlotCount \in Nat \ {0} /\ MaxCalls \in Nat /\ None \notin Nat \cup BOOLEAN

VARIABLES call,    \* call[s]: the handler in slot s, a record with its place in "pc"
          calls    \* calls made

handlers == <<call, calls>>

Slots == 1..SlotCount
Busy == {s \in Slots : call[s] # None}
At(s, pc) == s \in Busy /\ call[s].pc = pc

InitHandlers == call = [s \in Slots |-> None] /\ calls = 0

(* A call arrives.  Slots are interchangeable: the first idle one takes it. *)
Arrive(s, handler) ==
    /\ calls < MaxCalls
    /\ s \notin Busy /\ \A t \in 1..(s - 1) : t \in Busy
    /\ call' = [call EXCEPT ![s] = handler]
    /\ calls' = calls + 1

Step(s, handler) == call' = [call EXCEPT ![s] = handler] /\ calls' = calls
Finish(s) == Step(s, None)

(* The last call has been made and answered. *)
Exhausted == calls = MaxCalls /\ Busy = {}
=============================================================================
