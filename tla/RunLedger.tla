------------------------------ MODULE RunLedger ------------------------------
(***************************************************************************)
(* What a run set promises about its inventory: it is fixed when the run   *)
(* opens, every entry is decided at most once, a run that is sealed has    *)
(* decided every entry and is complete exactly when all of them are ok,    *)
(* and every run is sealed or abandoned.  Files, solvers and references    *)
(* are not visible here.                                                   *)
(***************************************************************************)
CONSTANTS Runs, Artifacts

VARIABLES
  stage,        \* of each run: "unopened", "open", "complete", "failed", "abandoned"
  ledger        \* of each run: artifact -> "pending", "ok" or "error"

Init ==
  /\ stage = [r \in Runs |-> "unopened"]
  /\ ledger = [r \in Runs |-> [a \in Artifacts |-> "pending"]]

Open(r) ==
  /\ stage[r] = "unopened"
  /\ stage' = [stage EXCEPT ![r] = "open"]
  /\ UNCHANGED ledger

Decide(r, a) ==
  /\ stage[r] = "open" /\ ledger[r][a] = "pending"
  /\ \E verdict \in {"ok", "error"} : ledger' = [ledger EXCEPT ![r][a] = verdict]
  /\ stage' \in {stage, [stage EXCEPT ![r] = "abandoned"]}

Seal(r) ==
  /\ stage[r] = "open"
  /\ \A a \in Artifacts : ledger[r][a] # "pending"
  /\ stage' = [stage EXCEPT ![r] =
       IF \A a \in Artifacts : ledger[r][a] = "ok" THEN "complete" ELSE "failed"]
  /\ UNCHANGED ledger

Abandon(r) ==
  /\ stage[r] \in {"unopened", "open"}
  /\ stage' = [stage EXCEPT ![r] = "abandoned"]
  /\ UNCHANGED ledger

Next == \E r \in Runs : Open(r) \/ Seal(r) \/ Abandon(r) \/ \E a \in Artifacts : Decide(r, a)

Ended == \A r \in Runs : stage[r] \in {"complete", "failed", "abandoned"}

Spec == Init /\ [][Next]_<<stage, ledger>> /\ <>Ended
=============================================================================
