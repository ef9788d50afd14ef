---------------------------- MODULE MCIndexReplicas ----------------------------
(* Instances of IndexReplicas for TLC.                                     *)
EXTENDS IndexReplicas, TLC

(* The base "a" with the keys "k", "kk" and "b,k"; "b"; and "a,b", whose   *)
(* key "k" is written as the key "b,k" of "a".                             *)
a == 97
b == 98
k == 107

AK  == BK(<<a>>, <<k>>)
AKK == BK(<<a>>, <<k, k>>)
ABK == BK(<<a>>, <<b, Comma, k>>)
BBK == BK(<<b>>, <<k>>)
CK  == BK(<<a, Comma, b>>, <<k>>)

Run(cmd, lines) == [cmd |-> cmd, lines |-> lines]

(* Two commands at the same time, or one after the other: the same key,    *)
(* keys next to each other, and keys that are written the same; then a     *)
(* store that is given three keys of a base, or two next to another base,  *)
(* and a command without a line.                                           *)
Pairs ==
    {<<Run("put", <<AK>>),              Run("del", <<AK>>)>>,
     <<Run("put", <<CK>>),              Run("put", <<AK>>)>>,
     <<Run("put", <<CK>>),              Run("get", <<AK, ABK>>)>>,
     <<Run("del", <<AK>>),              Run("get", <<AK>>)>>,
     <<Run("stdin", <<AKK, AK>>),       Run("get", <<AK>>)>>,
     <<Run("stdin", <<AKK, ABK, AK>>),  Run("stdin", <<>>)>>,
     <<Run("stdin", <<AKK, BBK, AK>>),  Run("stdin", <<>>)>>}

(* A key that is put, removed and read, in any order                       *)
Removal == {<<Run("put", <<AK>>), Run("del", <<AK>>), Run("get", <<AK>>)>>}

(* The stores are interchangeable; the commands are told apart by Plans.   *)
Symmetry == Permutations(Stores)
=============================================================================
