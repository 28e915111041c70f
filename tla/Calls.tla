------------------------------- MODULE Calls -------------------------------
(***************************************************************************)
(* The calls the server is running.  A worker is one call; call says at    *)
(* which await it stands, and what it holds from before: what it has read  *)
(* stays as it was while other calls write.                                *)
(***************************************************************************)
EXTENDS Integers, FiniteSets

CONSTANTS
    Worker, Nil,
    MaxFaults       \* bounds the calls that are cut off

ASSUME WorkerAssumption == IsFiniteSet(Worker) /\ MaxFaults \in Nat

VARIABLES call, faults

callVars == <<call, faults>>

-----------------------------------------------------------------------------
Idle == [at |-> "idle"]
NobodyCalls == \A w \in Worker : call[w] = Idle

CallsInit ==
    /\ call = [w \in Worker |-> Idle]
    /\ faults = 0

At(w, label) == call[w].at = label
Become(w, c) == call' = [call EXCEPT ![w] = c]
Begin(w, c) == At(w, "idle") /\ Become(w, c)
Goto(w, label) == Become(w, [call[w] EXCEPT !.at = label])
Return(w) == Become(w, Idle)

\* A crash or a database error ends a call at any await.
CutOff(w) ==
    /\ ~At(w, "idle")
    /\ faults < MaxFaults
    /\ faults' = faults + 1
    /\ Return(w)
=============================================================================
