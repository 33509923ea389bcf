--------------------------- MODULE OperationCycle ---------------------------
(***************************************************************************)
(* What the Raspberry Pi promises its operator about one spoken command,   *)
(* without threads, locks or queues: a cycle opens only when the device is *)
(* idle, offers at most one operation, and that operation leaves the slot  *)
(* for exactly one of two reasons -- its inventory effect was applied      *)
(* once, or it was cancelled and never applied.                            *)
(***************************************************************************)
EXTENDS Naturals

CONSTANT Operations    \* identifiers an operation can be given

VARIABLES
  phase,      \* OperationPhase shown to the operator
  pending,    \* the only operation waiting for a decision, or NoOperation
  effects,    \* how often the effect of each operation was applied
  cancelled   \* operations the operator withdrew

cycleVars == <<phase, pending, effects, cancelled>>

NoOperation == 0

Phases == {"IDLE", "RECORDING", "PROCESSING", "WAIT_CONFIRMATION"}

CycleTypeOK ==
  /\ phase \in Phases
  /\ pending \in Operations \union {NoOperation}
  /\ effects \in [Operations -> Nat]
  /\ cancelled \in SUBSET Operations

CycleInit ==
  /\ phase = "IDLE"
  /\ pending = NoOperation
  /\ effects = [op \in Operations |-> 0]
  /\ cancelled = {}

Open ==
  /\ phase = "IDLE"
  /\ phase' = "RECORDING"
  /\ UNCHANGED <<pending, effects, cancelled>>

Accept ==
  /\ phase = "RECORDING"
  /\ phase' = "PROCESSING"
  /\ UNCHANGED <<pending, effects, cancelled>>

\* A capture, transport, service or contract failure ends the cycle.
GiveUp ==
  /\ phase \in {"RECORDING", "PROCESSING"}
  /\ phase' = "IDLE"
  /\ UNCHANGED <<pending, effects, cancelled>>

\* Only an operation that was never settled before can be offered.
Offer ==
  /\ phase = "PROCESSING"
  /\ \E op \in Operations :
        /\ effects[op] = 0
        /\ op \notin cancelled
        /\ pending' = op
  /\ phase' = "WAIT_CONFIRMATION"
  /\ UNCHANGED <<effects, cancelled>>

Apply ==
  /\ phase = "WAIT_CONFIRMATION"
  /\ effects[pending] = 0
  /\ effects' = [effects EXCEPT ![pending] = 1]
  /\ UNCHANGED <<phase, pending, cancelled>>

Settle ==
  /\ phase = "WAIT_CONFIRMATION"
  /\ effects[pending] = 1
  /\ phase' = "IDLE"
  /\ pending' = NoOperation
  /\ UNCHANGED <<effects, cancelled>>

Withdraw ==
  /\ phase = "WAIT_CONFIRMATION"
  /\ effects[pending] = 0
  /\ cancelled' = cancelled \union {pending}
  /\ phase' = "IDLE"
  /\ pending' = NoOperation
  /\ UNCHANGED effects

CycleNext ==
  Open \/ Accept \/ GiveUp \/ Offer \/ Apply \/ Settle \/ Withdraw

CycleSpec == CycleInit /\ [][CycleNext]_cycleVars

-----------------------------------------------------------------------------
\* A decision concerns an operation that is neither settled nor unknown.
DecisionIsOpen ==
  phase = "WAIT_CONFIRMATION" => pending \in Operations /\ pending \notin cancelled

\* An operation is applied at most once and never both applied and cancelled.
AppliedOrCancelled ==
  \A op \in Operations :
    /\ effects[op] <= 1
    /\ op \in cancelled => effects[op] = 0

CycleInv == CycleTypeOK /\ DecisionIsOpen /\ AppliedOrCancelled

=============================================================================
