----------------------------- MODULE CellLifecycle -----------------------------
(***************************************************************************)
(* What Cellar promises of a cell, whatever store keeps it and however     *)
(* many workers execute it (cellar/docs/adr/0002-cell-lifecycle.md and     *)
(* 0016-sequence.md):                                                      *)
(*                                                                         *)
(*        READY --> CLAIMED --> DELETED        CLAIMED --> READY           *)
(*                                                                         *)
(* A cell is a cursor over a non-empty sequence of steps.  Only a claimed  *)
(* cell moves its cursor, one step forward or back to the first step, and  *)
(* the child cells of a result appear together with the parent's move.     *)
(* Nothing here knows of schedulers, workers, time or crashes: Cellar.tla  *)
(* implements this specification.                                          *)
(***************************************************************************)
EXTENDS Naturals

CONSTANTS
  CellID,     \* identifiers a cell may have
  LenOf       \* LenOf[c]: number of steps of cell c

VARIABLES
  state,      \* state[c]: "ABSENT" (never added, or deleted), "READY" or "CLAIMED"
  step        \* step[c]: the durable cursor, counted from 0; 0 while absent

lifecycleVars == <<state, step>>

Absent == {c \in CellID : state[c] = "ABSENT"}

LifecycleInit ==
  /\ state = [c \in CellID |-> "ABSENT"]
  /\ step  = [c \in CellID |-> 0]

(* The cells of kids come into being; c, when it is one of CellID, goes to *)
(* state st and cursor at.                                                 *)
Move(c, st, at, kids) ==
  /\ kids \subseteq Absent
  /\ state' = [d \in CellID |-> IF d \in kids THEN "READY"
                                ELSE IF d = c THEN st ELSE state[d]]
  /\ step'  = [d \in CellID |-> IF d \in kids THEN 0
                                ELSE IF d = c THEN at ELSE step[d]]

AddCells(kids) ==
  /\ kids \subseteq Absent
  /\ state' = [d \in CellID |-> IF d \in kids THEN "READY" ELSE state[d]]
  /\ UNCHANGED step

Claim(c) ==
  /\ state[c] = "READY"
  /\ state' = [state EXCEPT ![c] = "CLAIMED"]
  /\ UNCHANGED step

Advance(c, kids) ==
  /\ state[c] = "CLAIMED"
  /\ step[c] + 1 < LenOf[c]
  /\ Move(c, "READY", step[c] + 1, kids)

RetryStep(c, kids) ==
  /\ state[c] = "CLAIMED"
  /\ Move(c, "READY", step[c], kids)

RetryFromStart(c, kids) ==
  /\ state[c] = "CLAIMED"
  /\ Move(c, "READY", 0, kids)

Delete(c, kids) ==
  /\ state[c] = "CLAIMED"
  /\ Move(c, "ABSENT", 0, kids)

RecoverAll ==
  /\ state' = [c \in CellID |-> IF state[c] = "CLAIMED" THEN "READY" ELSE state[c]]
  /\ UNCHANGED step

LifecycleNext ==
  \/ \E kids \in SUBSET CellID : AddCells(kids)
  \/ \E c \in CellID : Claim(c)
  \/ \E c \in CellID, kids \in SUBSET CellID :
        \/ Advance(c, kids)
        \/ RetryStep(c, kids)
        \/ RetryFromStart(c, kids)
        \/ Delete(c, kids)
  \/ RecoverAll

LifecycleSpec == LifecycleInit /\ [][LifecycleNext]_lifecycleVars
================================================================================
