------------------------------ MODULE MCDataGate ------------------------------
(* Instances of DataGate for TLC.                                          *)
EXTENDS DataGate, TLC

Word == <<98>>

Glued == <<98, Comma, 98>>

(* Contents that a URL does not carry unchanged: "%62" is read as "b", the *)
(* rest of "0?b", and of what follows it, is not read, and "%" is no URL.  *)
Escaped == <<Percent, 54, 50>>

Cut == <<Small, Question, 98>>

Lone == <<Percent>>

Short == Word \o <<Comma, Small>>

By(origin, tokens) == [by |-> origin, tokens |-> tokens]

Part  == By("gate", <<Word, Word, Word>>)
Other == By("http", <<<<Small>>>>)

(* Three PUTs, whoever is the first: two parts and another client, or what *)
(* the gate and the command refuse, or misread, with a bystander.          *)
Triples ==
    {<<Part, Part, Other>>,
     <<Part, By("stdin", <<Short>>), Other>>,
     <<Part, By("file", <<Short>>), Other>>,
     <<Other, Other, Other>>,
     <<By("gate", <<Word, Glued, Word>>), By("stdin", <<Word>>), Other>>,
     <<By("gate", <<Word, Word>>), By("http", <<Word>>), Part>>,
     <<By("gate", <<Word, Escaped, Word>>), By("gate", <<Word, Cut, Word>>),
       By("gate", <<Word, Lone, Word>>)>>}

MCRequests ==
    {[p \in Puts |-> t[f[p]]] : t \in Triples,
        f \in {g \in [Puts -> 1 .. 3] : \A i \in 1 .. 3 : \E p \in Puts : g[p] = i}}

(* The PUTs are interchangeable.  The identifiers are not: Init picks one. *)
Symmetry == Permutations(Puts)
=============================================================================
