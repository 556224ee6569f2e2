----------------------------- MODULE ModuleStore -----------------------------
(***************************************************************************)
(* What create-module.py promises, without directories or files: a run     *)
(* adds the modules it was asked for one at a time, in order, each of them *)
(* whole; it says that all were created only if all are there; it never    *)
(* takes a module away. It may give up after any of them.                  *)
(***************************************************************************)
EXTENDS Integers, Sequences, Functions

VARIABLES
  wanted, \* the modules each run was asked for, in order
  made,   \* the modules that are there
  answer  \* what each run has said: "none", "yes" or "no"

vars == <<wanted, made, answer>>

Init == answer = [p \in DOMAIN wanted |-> "none"]

Create(p) ==
  /\ answer[p] = "none"
  /\ UNCHANGED <<wanted, answer>>
  /\ \E n \in DOMAIN wanted[p] :
       /\ made' \ made = {wanted[p][n]} /\ made \subseteq made'
       /\ \A k \in 1 .. n - 1 : wanted[p][k] \in made

Answer(p) ==
  /\ answer[p] = "none"
  /\ \/ answer' = [answer EXCEPT ![p] = "no"]
     \/ answer' = [answer EXCEPT ![p] = "yes"] /\ Range(wanted[p]) \subseteq made
  /\ UNCHANGED <<wanted, made>>

Next == \E p \in DOMAIN wanted : Create(p) \/ Answer(p)

Spec == Init /\ [][Next]_vars
=============================================================================
