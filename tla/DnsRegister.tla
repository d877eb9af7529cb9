------------------------------ MODULE DnsRegister ------------------------------
(***************************************************************************)
(* What DnsUpsertRecord promises its callers of a record that is unique at *)
(* its supplier: a register.  A call that succeeds has set it, or has      *)
(* found it set, at one moment between its start and its end; a call that  *)
(* fails may have set it.                                                  *)
(***************************************************************************)
CONSTANTS Call, Value, None

VARIABLES
  reg,    \* what the record says, None when there is no record
  want,   \* what each call under way is to set it to, None when idle
  answer  \* what each call returned last: "none" yet, "ok" or "error"

vars == <<reg, want, answer>>

Init == /\ reg \in Value \cup {None}
        /\ want = [c \in Call |-> None]
        /\ answer = [c \in Call |-> "none"]

Begin(c, v) == /\ want[c] = None
               /\ want' = [want EXCEPT ![c] = v]
               /\ UNCHANGED <<reg, answer>>

End(c, a) == /\ want[c] # None
             /\ want' = [want EXCEPT ![c] = None]
             /\ answer' = [answer EXCEPT ![c] = a]

Found(c) == End(c, "ok") /\ reg = want[c] /\ UNCHANGED reg
Set(c) == (End(c, "ok") \/ End(c, "error")) /\ reg' = want[c]
Fail(c) == End(c, "error") /\ UNCHANGED reg

\* The owner of the zone may remove the record at the supplier's console.
Console == reg' = None /\ UNCHANGED <<want, answer>>

Next == \/ \E c \in Call : \/ \E v \in Value : Begin(c, v)
                           \/ Found(c) \/ Set(c) \/ Fail(c)
        \/ Console

Spec == Init /\ [][Next]_vars
==============================================================================
