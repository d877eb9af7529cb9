------------------------------- MODULE MC_Tables -------------------------------
(***************************************************************************)
(* Tables for TLC: the two have nothing in common, so one of them moves    *)
(* and the other stays as it began.                                        *)
(*                                                                         *)
(* Of the registry, 0 and 1 are digits, 2 and 3 letters; a node of "s" can *)
(* be written as one of "s1" is, and one of "s1" is out of range.          *)
(***************************************************************************)
EXTENDS Tables, TLC

CONSTANTS s, s1  \* of App

MCSpelled == s :> <<2>> @@ s1 :> <<2, 1>>
MCNode == {<<1>>, <<1, 1>>, <<1, 0>>}

\* With the letter in front and this little Word no number overflows: two are
\* the same only where the name and node are written the same way.
ASSUME NumbersAreSpelled ==
  \A a, b \in App, m, n \in Node :
    NumberOf(a, m) = NumberOf(b, n) /\ NumberOf(a, m) < Word \div 2
      => Spelled[a] \o m = Spelled[b] \o n

VARIABLE part  \* the one that moves

Symmetry == Permutations(HostReq) \cup Permutations(Domain)

allVars == <<part, vars, hostVars>>

MCInit == part \in {"registry", "hosts"} /\ Init /\ Host!Init

MCNext ==
  \/ part = "registry" /\ Next /\ UNCHANGED <<part, hostVars>>
  \/ part = "hosts" /\ Host!Next /\ UNCHANGED <<part, vars>>

MCSpec == MCInit /\ [][MCNext]_allVars
==============================================================================
