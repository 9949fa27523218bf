------------------------------- MODULE Server -------------------------------
(***************************************************************************)
(* The API server between its clients and PostgreSQL: requests in flight,  *)
(* each at a step of its handler.  A handler is cut where it awaits and    *)
(* another request can come between: a query outside a transaction is a    *)
(* step, and a transaction is a step per query whose answer it uses, the   *)
(* last of which also commits its writes.                                  *)
(*                                                                         *)
(* A call is a record whose `op` names the handler, whose `step` names the *)
(* step that comes next, and whose other fields hold what the handler      *)
(* keeps in local variables.                                               *)
(***************************************************************************)
EXTENDS Integers, FiniteSets

CONSTANTS
    Requests,   \* requests that may be in flight at once
    Scenes      \* what the clients of a behaviour do: the handlers they call, and at most how often

ASSUME ServerAssumption == \A s \in Scenes : s.calls \in Nat

VARIABLES
    req,     \* per request, its call
    scene,   \* the handlers the clients of this behaviour call, the number of their calls
    calls    \* calls made so far

serverVars == <<req, scene, calls>>

Idle == [op |-> "none", step |-> "none"]

ServerInit == req = [r \in Requests |-> Idle] /\ scene \in Scenes /\ calls = 0

At(r, op, step) == req[r].op = op /\ req[r].step = step

\* A client calls op: the handler runs up to the step of `call`.
Begin(r, op, call) ==
    /\ req[r] = Idle
    /\ op \in scene.ops /\ calls < scene.calls
    /\ req' = [req EXCEPT ![r] = call]
    /\ calls' = calls + 1
    /\ UNCHANGED scene

\* A handler that is a single step.
Serve(op) ==
    /\ op \in scene.ops /\ calls < scene.calls
    /\ calls' = calls + 1
    /\ UNCHANGED <<req, scene>>

Proceed(r, call) == req' = [req EXCEPT ![r] = call] /\ UNCHANGED <<scene, calls>>
Reply(r) == Proceed(r, Idle)

\* The process or its database connection dies, or the database ends the transaction.
Abort(r) == req[r] # Idle /\ Reply(r)
=============================================================================
