---------------------------- MODULE PDASQuadratic ----------------------------
(***************************************************************************)
(* The active-set loop of module PDAS on strictly convex box-constrained   *)
(* quadratic programs in two coefficients, with exact KKT solves: the      *)
(* reduced form of the products ActiveSetKKTSubproblemT builds, where the  *)
(* fixed coefficients shift the right-hand side of the free ones.          *)
(*                                                                         *)
(* The objective is 1/2 u'Hu - f'u with H = [Diagonal, h; h, Diagonal].    *)
(* The coupling h and the load f are chosen in the initial state, so one   *)
(* run covers a family of programs.  Data are multiples of a unit that     *)
(* keeps every exact solution an integer.                                  *)
(***************************************************************************)
EXTENDS PDAS

CONSTANTS Diagonal, Couplings, Loads

VARIABLES coupling, load

ASSUME QuadraticAssumption ==
  /\ Controls = {1, 2}
  /\ \A h \in Couplings : AbsInt(h) < Diagonal

qvars == <<vars, coupling, load>>

Other(i) == 3 - i

Gradient(u) ==
  [i \in Controls |-> Diagonal * u[i] + coupling * u[Other(i)] - load[i]]

\* The right-hand side of a free coefficient, shifted by the fixed one.
ShiftedLoad(sel, i) ==
  load[i] - coupling * Prolong(sel, [j \in Free(sel) |-> 0])[Other(i)]

\* Faulty variant: the fixed coefficient is deleted from the system, its value
\* does not reach the right-hand side.
ExactWithoutShift(sel) ==
  LET det == Diagonal * Diagonal - coupling * coupling
      f   == [i \in Free(sel) |->
                IF Free(sel) = Controls
                THEN (Diagonal * load[i] - coupling * load[Other(i)]) \div det
                ELSE load[i] \div Diagonal]
      u   == Prolong(sel, f)
  IN [control |-> u, stationarity |-> Gradient(u),
      other |-> 0, equality |-> 0, converged |-> TRUE]

\* The solution of make_active_product for one active set.
Exact(sel) ==
  LET det == Diagonal * Diagonal - coupling * coupling
      f   == [i \in Free(sel) |->
                IF Free(sel) = Controls
                THEN (Diagonal * load[i] - coupling * load[Other(i)]) \div det
                ELSE ShiftedLoad(sel, i) \div Diagonal]
      u   == Prolong(sel, f)
  IN [control |-> u, stationarity |-> Gradient(u),
      other |-> 0, equality |-> 0, converged |-> TRUE]

QInit == Init /\ coupling \in Couplings /\ load \in [Controls -> Loads]

QBegin == Begin /\ UNCHANGED <<coupling, load>>

QIterate ==
  /\ status = "iterating"
  /\ Restrictable(selection)
  /\ kkt' = Exact(selection)
  /\ Step(kkt')
  /\ UNCHANGED <<coupling, load>>

QDone == Done /\ UNCHANGED <<coupling, load>>

QNext == QBegin \/ QIterate \/ QDone

QSpec == QInit /\ [][QNext]_qvars /\ WF_qvars(QBegin \/ QIterate)

-----------------------------------------------------------------------------

\* Twice the objective.
Cost(u) ==
  Diagonal * (u[1] * u[1] + u[2] * u[2]) + 2 * coupling * u[1] * u[2]
  - 2 * (load[1] * u[1] + load[2] * u[2])

Minimal(u) ==
  \A a \in Lower[1] .. Upper[1], b \in Lower[2] .. Upper[2] :
    Cost(u) <= Cost(<<a, b>>)

Answered ==
  \/ status = "converged" /\ Minimal(control)
  \/ status = "contract_error" /\ ~IsFeasible(control)

\* With exact solves and a classification parameter of at least half the scaled
\* curvature, the loop ends converged from every feasible control and every
\* multiplier, and what it returns is the minimiser over the whole box.
FindsMinimiser == <>Answered
=============================================================================
