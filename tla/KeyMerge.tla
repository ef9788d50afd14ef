------------------------------- MODULE KeyMerge -------------------------------
(***************************************************************************)
(* The merge of the listings of the stores by the index gate: the function *)
(* keepSingleDedup of internal/cmd-index-gate/service.go, iteration by     *)
(* iteration.  Keys are naturals, in the order of their encoding; the      *)
(* empty key, 0, is also what the code means by "no key".                  *)
(***************************************************************************)
EXTENDS Naturals, Sequences, FiniteSets

NoKey == 0

(* The elements of a set of keys, in order                                 *)
InOrder(S) ==
    [i \in 1 .. Cardinality(S) |->
        CHOOSE k \in S : Cardinality({j \in S : j < k}) = i - 1]

(* A bug to tell apart: the keys of the tables are not compared.           *)
SmallerFirst(tabs, at) ==
    LET left == {i \in DOMAIN tabs : at[i] <= Len(tabs[i])}
    IN  IF left = {} THEN [key |-> NoKey, tab |-> 1]
        ELSE LET i == CHOOSE i \in left : \A j \in left : i <= j
             IN  [key |-> tabs[i][at[i]], tab |-> i]

(* min(): the smallest of the next keys of the tables, and its table       *)
Smaller(tabs, at) ==
    LET best[i \in 0 .. Len(tabs)] ==
            IF i = 0 THEN [key |-> NoKey, tab |-> 1]
            ELSE LET b == best[i - 1]
                 IN  IF at[i] <= Len(tabs[i]) /\ (b.key = NoKey \/ tabs[i][at[i]] < b.key)
                     THEN [key |-> tabs[i][at[i]], tab |-> i]
                     ELSE b
    IN  best[Len(tabs)]

Total(tabs) ==
    LET n[i \in 0 .. Len(tabs)] == IF i = 0 THEN 0 ELSE n[i - 1] + Len(tabs[i])
    IN  n[Len(tabs)]

(* A bug to tell apart: the key that was sent last is not remembered.      *)
PollAny(tabs, s, max) ==
    LET m == Smaller(tabs, s.at)
    IN  IF s.end \/ m.key = NoKey \/ Len(s.out) >= max THEN [s EXCEPT !.end = TRUE]
        ELSE [s EXCEPT !.at[m.tab] = @ + 1, !.out = Append(@, m.key)]

(* One iteration of poll() and of the loop that sends: the key is skipped  *)
(* when it is the last one again, sent when there is room for it           *)
Poll(tabs, s, max) ==
    LET m == Smaller(tabs, s.at)
    IN  IF s.end \/ m.key = NoKey THEN [s EXCEPT !.end = TRUE]
        ELSE IF m.key = s.last THEN [s EXCEPT !.at[m.tab] = @ + 1]
        ELSE IF Len(s.out) >= max THEN [s EXCEPT !.end = TRUE]
        ELSE [s EXCEPT !.at[m.tab] = @ + 1, !.last = m.key, !.out = Append(@, m.key)]

(* Every iteration moves one table: there are no more than the keys        *)
KeepSingleDedup(tabs, max) ==
    LET start == [at |-> [i \in DOMAIN tabs |-> 1], last |-> NoKey,
                  out |-> <<>>, end |-> FALSE]
        state[n \in 0 .. Total(tabs)] ==
            IF n = 0 THEN start ELSE Poll(tabs, state[n - 1], max)
    IN  state[Total(tabs)].out
=============================================================================
