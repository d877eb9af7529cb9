--------------------------- MODULE NodeHealthProofs ---------------------------
(***************************************************************************)
(* Theorems about the failure counters for any set of endpoints, any table *)
(* of rows, any number of overlapping YCIpBC calls and any threshold.      *)
(***************************************************************************)
EXTENDS NodeHealth, TLAPS

\* Counting keeps the order of two counters and stays within the cap.
LEMMA BumpMonotone ==
  ASSUME NEW m \in Count0, NEW n \in Count0, m <= n
  PROVE  Bump(m) \in Count0 /\ Bump(n) \in Count0 /\ Bump(m) <= Bump(n)
  BY HealthAssumption DEF Bump, Count0

LEMMA BumpType == ASSUME NEW n \in Count0 PROVE Bump(n) \in Count0
  BY HealthAssumption DEF Bump, Count0

LEMMA NoCountsType == NoCounts \in [Key -> Count0]
  BY HealthAssumption DEF NoCounts, Count0

LEMMA RowType == /\ Len(RowKey) \in Nat
                 /\ \A r \in Row : RowKey[r] \in Key
  BY HealthAssumption DEF Row

LEMMA InitInv == Init => IInv
<1> SUFFICES ASSUME Init PROVE IInv
  OBVIOUS
<1> USE NoCountsType, RowType DEF Init
<1>1. TypeOK
  BY DEF TypeOK
<1>2. FreshAfterRecovery
  BY DEF FreshAfterRecovery, NoCounts
<1>3. CopiesFresh
  BY DEF CopiesFresh, NoCounts
<1>4. CopiesOwned
  BY DEF CopiesOwned, NoCounts
<1> QED
  BY <1>1, <1>2, <1>3, <1>4 DEF IInv

\* Steps that leave the counters and the calls alone.
LEMMA QuietInv ==
  ASSUME IInv, TypeOK', UNCHANGED <<errIpMap, callVars, history>>
  PROVE  IInv'
  BY DEF IInv, FreshAfterRecovery, CopiesFresh, CopiesOwned, callVars, history

LEMMA TickQuietInv ==
  IInv /\ (TickProbe \/ FoldFailed \/ FoldAbsent) => IInv'
<1> SUFFICES ASSUME IInv, TickProbe \/ FoldFailed \/ FoldAbsent PROVE IInv'
  OBVIOUS
<1>1. TypeOK'
  BY RowType DEF IInv, TypeOK, TickProbe, FoldFailed, FoldAbsent, FoldTurn,
                 callVars, history, Row
<1>2. UNCHANGED <<errIpMap, callVars, history>>
  BY DEF TickProbe, FoldFailed, FoldAbsent, FoldTurn
<1> QED
  BY <1>1, <1>2, QuietInv

\* A recovery: either some call still holds the key and the recovery is
\* marked as overrun, or no copy of the old count is left anywhere.
LEMMA FoldUpInv == IInv /\ FoldUp => IInv'
<1> SUFFICES ASSUME IInv, FoldUp PROVE IInv'
  OBVIOUS
<1> USE DEF IInv
<1> DEFINE k == RowKey[row]
<1>1. k \in Key
  BY RowType DEF FoldUp, FoldTurn
<1>2. /\ errIpMap' = [errIpMap EXCEPT ![k] = 0]
      /\ since' = [since EXCEPT ![k] = 0]
      /\ overrun' = [overrun EXCEPT ![k] = \E c \in Call : Holds(c, k)]
      /\ UNCHANGED callVars
  BY DEF FoldUp, FoldTurn
<1> HIDE DEF k
<1>3. TypeOK'
  <2>1. 0 \in Count0
    BY HealthAssumption DEF Count0
  <2>2. errIpMap' \in [Key -> Count0] /\ since' \in [Key -> Count0]
    BY <1>2, <2>1 DEF TypeOK
  <2>3. overrun' \in [Key -> BOOLEAN]
    BY <1>2 DEF TypeOK
  <2>4. row' \in 1 .. Len(RowKey) + 1 /\ UNCHANGED <<tick, errIpArr>>
    BY RowType DEF FoldUp, FoldTurn, Row, TypeOK
  <2> QED
    BY <1>2, <2>2, <2>3, <2>4 DEF TypeOK, callVars
<1>4. FreshAfterRecovery'
  BY <1>1, <1>2 DEF FreshAfterRecovery, TypeOK, Count0
<1>5. CopiesFresh'
  <2> SUFFICES ASSUME NEW c \in Call, NEW j \in Key, ~overrun'[j]
               PROVE  temp'[c][j] <= since'[j]
    BY DEF CopiesFresh
  <2>1. CASE j # k
    BY <1>2, <2>1 DEF CopiesFresh, TypeOK, callVars
  <2>2. CASE j = k
    <3>1. ~Holds(c, k)
      BY <1>1, <1>2, <2>2 DEF TypeOK
    <3>2. k \notin batch[c]
      BY <3>1 DEF Holds, CopiesOwned
    <3>3. temp[c][k] \in Nat /\ ~(temp[c][k] > 0)
      BY <1>1, <3>2, HealthAssumption DEF CopiesOwned, TypeOK, Count0
    <3> QED
      BY <1>1, <1>2, <2>2, <3>3 DEF TypeOK, callVars
  <2> QED
    BY <2>1, <2>2
<1>6. CopiesOwned'
  BY <1>2 DEF CopiesOwned, callVars
<1> QED
  BY <1>3, <1>4, <1>5, <1>6

\* A call begins with an empty copy.
LEMMA StartInv ==
  ASSUME IInv, NEW c \in Call, NEW keys \in SUBSET Key, NEW send \in BOOLEAN,
         StartCall(c, keys, send), UNCHANGED <<errIpMap, history>>,
         UNCHANGED tickVars \/ (tick' = "idle" /\ row' = 1 /\ errIpArr' = {})
  PROVE  IInv'
<1> USE DEF IInv, StartCall
<1>1. TypeOK'
  BY RowType DEF TypeOK, tickVars, history
<1>2. FreshAfterRecovery'
  BY DEF FreshAfterRecovery, history
<1>3. CopiesFresh'
  BY DEF CopiesFresh, history
<1>4. CopiesOwned'
  <2>1. batch[c] = {}
    BY DEF CopiesOwned
  <2> QED
    BY <2>1 DEF CopiesOwned, TypeOK, Count0
<1> QED
  BY <1>1, <1>2, <1>3, <1>4

LEMMA TickEndInv == IInv /\ TickEnd => IInv'
<1> SUFFICES ASSUME IInv, TickEnd PROVE IInv'
  OBVIOUS
<1>1. CASE \E c \in Call : StartCall(c, errIpArr, TRUE)
  BY <1>1, StartInv DEF TickEnd, IInv, TypeOK
<1>2. CASE UNCHANGED callVars
  <2>1. TypeOK'
    BY <1>2, RowType DEF TickEnd, IInv, TypeOK, callVars, history
  <2> QED
    BY <1>2, <2>1, QuietInv DEF TickEnd
<1> QED
  BY <1>1, <1>2 DEF TickEnd

LEMMA AskInv == ASSUME IInv, NEW c \in Call, NEW k \in Asked, Ask(c, k)
                PROVE  IInv'
  BY StartInv, HealthAssumption DEF Ask

LEMMA RelayInv == ASSUME IInv, NEW c \in Call, RelayProbe(c) PROVE IInv'
<1> USE DEF IInv
<1>1. PICK failed \in SUBSET batch[c] : todo' = [todo EXCEPT ![c] = failed]
  BY DEF RelayProbe
<1>2. TypeOK'
  BY <1>1 DEF RelayProbe, TypeOK, tickVars, history
<1>3. FreshAfterRecovery' /\ CopiesFresh'
  BY DEF RelayProbe, FreshAfterRecovery, CopiesFresh, history
<1>4. CopiesOwned'
  BY <1>1 DEF RelayProbe, CopiesOwned, TypeOK
<1> QED
  BY <1>2, <1>3, <1>4

\* Counting k raises the shared counter, the copy and the history together.
LEMMA CountInv ==
  ASSUME IInv, NEW c \in Call, NEW k \in Key, Count(c, k)
  PROVE  IInv'
<1> USE DEF IInv
<1>1. /\ errIpMap' = [errIpMap EXCEPT ![k] = Bump(errIpMap[k])]
      /\ since' = [since EXCEPT ![k] = Bump(since[k])]
      /\ temp' = [temp EXCEPT ![c] = [temp[c] EXCEPT ![k] = errIpMap'[k]]]
      /\ todo' = [todo EXCEPT ![c] = todo[c] \ {k}]
      /\ UNCHANGED <<callPc, batch, isSend, overrun, tickVars>>
      /\ k \in todo[c]
  BY DEF Count, TypeOK
<1>2. Bump(errIpMap[k]) \in Count0 /\ Bump(since[k]) \in Count0
  BY BumpType DEF TypeOK
<1>3. errIpMap'[k] = Bump(errIpMap[k]) /\ since'[k] = Bump(since[k])
  BY <1>1 DEF TypeOK
<1>4. TypeOK'
  <2>1. errIpMap' \in [Key -> Count0] /\ since' \in [Key -> Count0]
    BY <1>1, <1>2 DEF TypeOK
  <2>2. temp' \in [Call -> [Key -> Count0]]
    BY <1>1, <1>2, <1>3 DEF TypeOK
  <2>3. msg' \in [Call -> SUBSET Key]
    BY DEF Count, TypeOK
  <2> QED
    BY <1>1, <2>1, <2>2, <2>3 DEF TypeOK, tickVars
<1>5. FreshAfterRecovery'
  <2> SUFFICES ASSUME NEW j \in Key, ~overrun'[j]
               PROVE  errIpMap'[j] <= since'[j]
    BY DEF FreshAfterRecovery
  <2>1. errIpMap[j] <= since[j]
    BY <1>1 DEF FreshAfterRecovery
  <2>2. CASE j = k
    BY <1>3, <2>1, <2>2, BumpMonotone DEF TypeOK
  <2>3. CASE j # k
    BY <1>1, <2>1, <2>3 DEF TypeOK
  <2> QED
    BY <2>2, <2>3
<1>6. CopiesFresh'
  <2> SUFFICES ASSUME NEW d \in Call, NEW j \in Key, ~overrun'[j]
               PROVE  temp'[d][j] <= since'[j]
    BY DEF CopiesFresh
  <2>1. CASE d = c /\ j = k
    <3>1. temp'[d][j] = errIpMap'[j]
      BY <1>1, <2>1 DEF TypeOK
    <3> QED
      BY <1>5, <3>1 DEF FreshAfterRecovery
  <2>2. CASE ~(d = c /\ j = k)
    <3>1. temp'[d][j] = temp[d][j] /\ temp[d][j] <= since[j]
      BY <1>1, <2>2 DEF CopiesFresh, TypeOK
    <3>2. since[j] <= since'[j]
      BY <1>1, HealthAssumption DEF TypeOK, Bump, Count0
    <3>3. temp[d][j] \in Count0 /\ since[j] \in Count0 /\ since'[j] \in Count0
      BY <1>4 DEF TypeOK
    <3> QED
      BY <3>1, <3>2, <3>3 DEF Count0
  <2> QED
    BY <2>1, <2>2
<1>7. CopiesOwned'
  BY <1>1 DEF CopiesOwned, TypeOK
<1> QED
  BY <1>4, <1>5, <1>6, <1>7

\* A call ends with an empty copy; what it swapped in was a copy of its own.
LEMMA ForgetInv ==
  ASSUME IInv, NEW c \in Call, Forget(c), todo[c] = {},
         UNCHANGED <<tickVars, history>>,
         errIpMap' = errIpMap \/ errIpMap' = temp[c]
  PROVE  IInv'
<1> USE DEF IInv, Forget
<1>1. TypeOK'
  BY NoCountsType DEF TypeOK, tickVars, history
<1>2. FreshAfterRecovery'
  BY DEF FreshAfterRecovery, CopiesFresh, history
<1>3. CopiesFresh'
  <2>1. \A k \in Key : 0 <= since[k]
    BY HealthAssumption DEF TypeOK, Count0
  <2> QED
    BY <2>1 DEF CopiesFresh, NoCounts, TypeOK, history
<1>4. CopiesOwned'
  BY DEF CopiesOwned, NoCounts, TypeOK
<1> QED
  BY <1>1, <1>2, <1>3, <1>4

LEMMA SwapInv == ASSUME IInv, NEW c \in Call, Swap(c) PROVE IInv'
  BY ForgetInv DEF Swap

LEMMA FinishInv == ASSUME IInv, NEW c \in Call, Finish(c) PROVE IInv'
  BY ForgetInv DEF Finish

LEMMA StutterInv == IInv /\ UNCHANGED vars => IInv'
<1> SUFFICES ASSUME IInv, UNCHANGED vars PROVE IInv'
  OBVIOUS
<1>1. TypeOK'
  BY DEF IInv, TypeOK, vars, tickVars, callVars, history
<1> QED
  BY <1>1, QuietInv DEF vars

LEMMA NextInv == IInv /\ [Next]_vars => IInv'
<1> SUFFICES ASSUME IInv, [Next]_vars PROVE IInv'
  OBVIOUS
<1>1. CASE TickStep
  BY <1>1, TickQuietInv, FoldUpInv, TickEndInv DEF TickStep
<1>2. CASE \E c \in Call, k \in Asked : Ask(c, k)
  BY <1>2, AskInv
<1>3. CASE \E c \in Call : CallStep(c)
  BY <1>3, RelayInv, CountInv, SwapInv, FinishInv DEF CallStep
<1>4. CASE UNCHANGED vars
  BY <1>4, StutterInv
<1> QED
  BY <1>1, <1>2, <1>3, <1>4 DEF Next

\* No swap brings back the count of a node that was seen up (YCIpBC), for any
\* keys, rows and calls: IInv is an invariant.
THEOREM SpecInv == Spec => []IInv
  BY InitInv, NextInv, PTL DEF Spec

\* The counters, the tick and the calls keep their types.
THEOREM TypeCorrect == Spec => []TypeOK
<1>1. IInv => TypeOK
  BY DEF IInv
<1> QED
  BY <1>1, SpecInv, PTL

\* After a clean recovery a counter never overstates the failures since.
THEOREM RecoveryIsFresh == Spec => []FreshAfterRecovery
<1>1. IInv => FreshAfterRecovery
  BY DEF IInv
<1> QED
  BY <1>1, SpecInv, PTL

\* Only Count writes into a message, and only into that of its own call.
LEMMA MsgGrowsByCount ==
  ASSUME TypeOK, [Next]_vars, NEW c \in Call, NEW k \in msg'[c] \ msg[c]
  PROVE  k \in Key /\ Count(c, k)
<1>2. CASE TickStep \/ (\E d \in Call, j \in Asked : Ask(d, j)) \/ UNCHANGED vars
  <2>1. msg' = msg
    BY <1>2 DEF TickStep, TickProbe, FoldUp, FoldFailed, FoldAbsent, FoldTurn,
                TickEnd, Ask, StartCall, callVars, vars
  <2> QED
    BY <2>1
<1>3. ASSUME NEW d \in Call, RelayProbe(d) \/ Swap(d) \/ Finish(d)
      PROVE  FALSE
  BY <1>3 DEF RelayProbe, Swap, Finish, Forget, TypeOK
<1>4. ASSUME NEW d \in Call, NEW j \in Key, Count(d, j)
      PROVE  d = c /\ j = k
  BY <1>4 DEF Count, TypeOK
<1> QED
  BY <1>2, <1>3, <1>4 DEF Next, CallStep

\* No alert of the cron job rests on fewer confirmed failures than the
\* threshold asks for.
THEOREM NoEarlyAlert == Spec => AlertsAreEarned
<1> DEFINE Earned == \A c \in Call : \A k \in msg'[c] \ msg[c] :
                       isSend[c] /\ ~overrun[k] => since'[k] > AlertAfter
<1>1. ASSUME IInv, [Next]_vars PROVE Earned
  <2> SUFFICES ASSUME NEW c \in Call, NEW k \in msg'[c] \ msg[c],
                      isSend[c], ~overrun[k]
               PROVE  since'[k] > AlertAfter
    OBVIOUS
  <2>1. k \in Key /\ Count(c, k)
    BY <1>1, MsgGrowsByCount DEF IInv
  <2>2. errIpMap'[k] > AlertAfter /\ overrun' = overrun
    BY <2>1, <1>1 DEF Count, IInv, TypeOK
  <2>3. IInv'
    BY <1>1, NextInv
  <2>4. errIpMap'[k] <= since'[k]
    BY <2>1, <2>2, <2>3 DEF IInv, FreshAfterRecovery
  <2>5. errIpMap'[k] \in Nat /\ since'[k] \in Nat
    BY <2>1, <2>3 DEF IInv, TypeOK, Count0
  <2> QED
    BY <2>2, <2>4, <2>5, HealthAssumption
<1>2. IInv /\ [Next]_vars => [Earned]_vars
  BY <1>1
<1> QED
  BY <1>2, SpecInv, PTL DEF Spec, AlertsAreEarned
==============================================================================
