---------------------------- MODULE ScatterGather ----------------------------
(***************************************************************************)
(* What one request of the index gate promises, whatever the goroutines    *)
(* and channels behind it do: every backend of the connection table        *)
(* contributes exactly one answer, the reply is given after the last of    *)
(* them and never before, and it is a success as soon as one backend       *)
(* succeeded ("No backend replied" is the only error of the gate).         *)
(*                                                                         *)
(* It is the contract of the Put, Delete, Get and List handlers of         *)
(* internal/cmd-index-gate/service.go; GateFanout implements it and        *)
(* IndexGate builds on it.                                                 *)
(***************************************************************************)
EXTENDS FiniteSets

CONSTANT Targets          \* the backends the request is sent to

VARIABLES answers,        \* the answers gathered so far
          reply           \* "pending", then "ok" or "error"

Answer == [addr : Targets, ok : BOOLEAN]

Answered(as) == {a.addr : a \in as}

Verdict(as) == IF \E a \in as : a.ok THEN "ok" ELSE "error"

Init == answers = {} /\ reply = "pending"

Collect(a) ==
    /\ reply = "pending"
    /\ a.addr \notin Answered(answers)
    /\ answers' = answers \cup {a}
    /\ UNCHANGED reply

Reply ==
    /\ reply = "pending"
    /\ Answered(answers) = Targets
    /\ reply' = Verdict(answers)
    /\ UNCHANGED answers

Next == Reply \/ \E a \in Answer : Collect(a)

vars == <<answers, reply>>

SafeSpec == Init /\ [][Next]_vars

(* Backends answer in the end: the calls are not held for ever.            *)
Spec == SafeSpec /\ WF_vars(Next)
=============================================================================
