------------------------------ MODULE NodeHealth ------------------------------
(***************************************************************************)
(* The failure counters of the monitored nodes: errIpMap of                *)
(* services/service.go, the five-minute check NodeNelNet, the goroutines   *)
(* of YCIpBC it leaves behind, and the checks an operator asks for through *)
(* SelNodeNelNet.  One action is one section under errIpMu, or one batch   *)
(* of probes (module ProbeBatch says what a batch returns).                *)
(***************************************************************************)
EXTENDS Integers, Sequences, FiniteSets

CONSTANTS
  Key,         \* the "host:port" strings the counters are kept under
  RowKey,      \* RowKey[r]: the key of row r of GetServers; rows may share one
  Down,        \* environment: keys that neither the host nor a relay reaches
  Asked,       \* keys SelNodeNelNet may be asked about
  Call,        \* bound: invocations of YCIpBC in flight at a time
  AlertAfter,  \* 3 in the code: alert when the counter is greater
  CountCap,    \* bound: counters are told apart up to here
  RelaysSet    \* config.AppConfig is loaded and lists a Node.URL

ASSUME HealthAssumption ==
  /\ RowKey \in Seq(Key)
  /\ Down \subseteq Key
  /\ Asked \subseteq Key
  /\ AlertAfter \in Nat
  /\ CountCap \in Nat /\ CountCap > AlertAfter
  /\ RelaysSet \in BOOLEAN

VARIABLES
  errIpMap,   \* the shared counters, 0 for a key the map does not hold
  tick,       \* "idle", or "fold": NodeNelNet going through its results
  row,        \* the next result NodeNelNet looks at
  errIpArr,   \* the failed keys NodeNelNet has gathered
  callPc,     \* callPc[c]: "idle", "probe" or "count": where YCIpBC stands
  isSend,     \* its second argument: TRUE for the cron job
  batch,      \* its first argument
  todo,       \* failed keys it has still to count
  temp,       \* its tempErrIpMap
  msg         \* keys written into its message

healthVars == <<errIpMap>>
tickVars == <<tick, row, errIpArr>>
callVars == <<callPc, isSend, batch, todo, temp, msg>>

VARIABLES
  since,      \* history: confirmed failures counted since the last recovery
  overrun     \* history: that recovery happened while a YCIpBC held the key

history == <<since, overrun>>
vars == <<errIpMap, tickVars, callVars, history>>

Row == 1 .. Len(RowKey)
NoCounts == [k \in Key |-> 0]
Bump(n) == IF n < CountCap THEN n + 1 ELSE n
Holds(c, k) == callPc[c] # "idle" /\ k \in batch[c]

Init ==
  /\ errIpMap = NoCounts
  /\ tick = "idle"
  /\ row = 1
  /\ errIpArr = {}
  /\ callPc = [c \in Call |-> "idle"]
  /\ isSend = [c \in Call |-> FALSE]
  /\ batch = [c \in Call |-> {}]
  /\ todo = [c \in Call |-> {}]
  /\ temp = [c \in Call |-> NoCounts]
  /\ msg = [c \in Call |-> {}]
  /\ since = NoCounts
  /\ overrun = [k \in Key |-> FALSE]
------------------------------------------------------------------------------
(***************************************************************************)
(* NodeNelNet.  SkipIfStillRunning: a tick starts only when none is        *)
(* running, but the YCIpBC goroutine of an earlier tick may still be.      *)
(***************************************************************************)

\* GetServers and the direct probes.  They touch nothing shared, so what came
\* of a row is chosen where the loop below reads it.
TickProbe ==
  /\ tick = "idle"
  /\ tick' = "fold"
  /\ row' = 1
  /\ errIpArr' = {}
  /\ UNCHANGED <<errIpMap, callVars, history>>

\* One turn of the loop over the results, under errIpMu.
FoldTurn ==
  /\ tick = "fold" /\ row \in Row
  /\ row' = row + 1
  /\ UNCHANGED <<tick, callVars>>

\* The row answered: its counter is deleted.
FoldUpKeepingCount ==
  /\ FoldTurn
  /\ LET k == RowKey[row] IN
     /\ k \notin Down
     /\ since' = [since EXCEPT ![k] = 0]
     /\ overrun' = [overrun EXCEPT ![k] = \E c \in Call : Holds(c, k)]
  /\ UNCHANGED <<errIpMap, errIpArr>>

FoldUp ==
  /\ FoldTurn
  /\ LET k == RowKey[row] IN
     /\ k \notin Down
     /\ errIpMap' = [errIpMap EXCEPT ![k] = 0]
     /\ since' = [since EXCEPT ![k] = 0]
     /\ overrun' = [overrun EXCEPT ![k] = \E c \in Call : Holds(c, k)]
  /\ UNCHANGED errIpArr

\* The row failed: it is gathered once, whichever of its rows come first.
FoldFailed ==
  /\ FoldTurn
  /\ errIpArr' = errIpArr \cup {RowKey[row]}
  /\ UNCHANGED <<errIpMap, history>>

\* The row was not in the table at this tick.
FoldAbsent ==
  /\ FoldTurn
  /\ RowKey[row] \notin Down
  /\ UNCHANGED <<errIpMap, errIpArr, history>>

\* YCIpBC(keys, send) begins; with no relay configured it returns at once.
StartCall(c, keys, send) ==
  /\ callPc[c] = "idle"
  /\ callPc' = [callPc EXCEPT ![c] = "probe"]
  /\ isSend' = [isSend EXCEPT ![c] = send]
  /\ batch' = [batch EXCEPT ![c] = keys]
  /\ UNCHANGED <<todo, temp, msg>>

\* The tick ends; "go YCIpBC(errIpArr, true)" outlives it.
TickEnd ==
  /\ tick = "fold" /\ row \notin Row
  /\ IF errIpArr # {} /\ RelaysSet
     THEN \E c \in Call : StartCall(c, errIpArr, TRUE)
     ELSE UNCHANGED callVars
  /\ tick' = "idle"
  /\ row' = 1
  /\ errIpArr' = {}
  /\ UNCHANGED <<errIpMap, history>>

\* SelNodeNelNet: the direct probe of k failed.
Ask(c, k) ==
  /\ RelaysSet
  /\ StartCall(c, {k}, FALSE)
  /\ UNCHANGED <<errIpMap, tickVars, history>>
------------------------------------------------------------------------------
(***************************************************************************)
(* YCIpBC, once for each invocation c.                                     *)
(***************************************************************************)

\* The relays are tried for every key of the batch.
RelayProbe(c) ==
  /\ callPc[c] = "probe"
  /\ \E failed \in SUBSET batch[c] :
       /\ batch[c] \cap Down \subseteq failed
       /\ todo' = [todo EXCEPT ![c] = failed]
  /\ callPc' = [callPc EXCEPT ![c] = "count"]
  /\ UNCHANGED <<errIpMap, tickVars, isSend, batch, temp, msg, history>>

\* One failed key, in the order the range over the map yields them.
CountOnlyAlerting(c, k) ==
  /\ callPc[c] = "count" /\ k \in todo[c]
  /\ errIpMap' = [errIpMap EXCEPT ![k] = Bump(errIpMap[k])]
  /\ IF ~isSend[c] \/ errIpMap'[k] > AlertAfter
     THEN /\ msg' = [msg EXCEPT ![c] = @ \cup {k}]
          /\ temp' = [temp EXCEPT ![c][k] = errIpMap'[k]]
     ELSE UNCHANGED <<msg, temp>>
  /\ todo' = [todo EXCEPT ![c] = @ \ {k}]
  /\ since' = [since EXCEPT ![k] = Bump(since[k])]
  /\ UNCHANGED <<tickVars, callPc, isSend, batch, overrun>>

CountAlertingEarly(c, k) ==
  /\ callPc[c] = "count" /\ k \in todo[c]
  /\ errIpMap' = [errIpMap EXCEPT ![k] = Bump(errIpMap[k])]
  /\ temp' = [temp EXCEPT ![c][k] = errIpMap'[k]]
  /\ msg' = [msg EXCEPT ![c] =
               IF ~isSend[c] \/ errIpMap'[k] >= AlertAfter
               THEN @ \cup {k} ELSE @]
  /\ todo' = [todo EXCEPT ![c] = @ \ {k}]
  /\ since' = [since EXCEPT ![k] = Bump(since[k])]
  /\ UNCHANGED <<tickVars, callPc, isSend, batch, overrun>>

Count(c, k) ==
  /\ callPc[c] = "count" /\ k \in todo[c]
  /\ errIpMap' = [errIpMap EXCEPT ![k] = Bump(errIpMap[k])]
  /\ temp' = [temp EXCEPT ![c][k] = errIpMap'[k]]
  /\ msg' = [msg EXCEPT ![c] =
               IF ~isSend[c] \/ errIpMap'[k] > AlertAfter
               THEN @ \cup {k} ELSE @]
  /\ todo' = [todo EXCEPT ![c] = @ \ {k}]
  /\ since' = [since EXCEPT ![k] = Bump(since[k])]
  /\ UNCHANGED <<tickVars, callPc, isSend, batch, overrun>>

\* The invocation is over; its locals are gone.
Forget(c) ==
  /\ callPc' = [callPc EXCEPT ![c] = "idle"]
  /\ isSend' = [isSend EXCEPT ![c] = FALSE]
  /\ batch' = [batch EXCEPT ![c] = {}]
  /\ temp' = [temp EXCEPT ![c] = NoCounts]
  /\ msg' = [msg EXCEPT ![c] = {}]
  /\ UNCHANGED todo

\* There is something to report: errIpMap = tempErrIpMap, then, for the cron
\* job, the Telegram message, which touches nothing shared.
Swap(c) ==
  /\ callPc[c] = "count" /\ todo[c] = {} /\ msg[c] # {}
  /\ errIpMap' = temp[c]
  /\ Forget(c)
  /\ UNCHANGED <<tickVars, history>>

\* There is nothing to report: YCIpBC returns true.
Finish(c) ==
  /\ callPc[c] = "count" /\ todo[c] = {} /\ msg[c] = {}
  /\ Forget(c)
  /\ UNCHANGED <<errIpMap, tickVars, history>>

TickStep == TickProbe \/ FoldUp \/ FoldFailed \/ FoldAbsent \/ TickEnd

CallStep(c) ==
  \/ RelayProbe(c)
  \/ \E k \in Key : Count(c, k)
  \/ Swap(c)
  \/ Finish(c)

Next ==
  \/ TickStep
  \/ \E c \in Call, k \in Asked : Ask(c, k)
  \/ \E c \in Call : CallStep(c)

Spec == Init /\ [][Next]_vars

\* Cron keeps ticking and every goroutine is scheduled (probes time out).
\* Operators ask whenever they like.
FairSpec ==
  /\ Spec
  /\ WF_vars(TickStep)
  /\ \A c \in Call : WF_vars(CallStep(c))
------------------------------------------------------------------------------
(***************************************************************************)
(* Properties.                                                             *)
(***************************************************************************)
Count0 == 0 .. CountCap

\* The types of the counters, of the tick and of the calls; a call that is
\* not running holds nothing, and what it has yet to count is in its batch.
TypeOK ==
  /\ errIpMap \in [Key -> Count0]
  /\ tick \in {"idle", "fold"}
  /\ row \in 1 .. Len(RowKey) + 1
  /\ errIpArr \subseteq Key
  /\ callPc \in [Call -> {"idle", "probe", "count"}]
  /\ isSend \in [Call -> BOOLEAN]
  /\ batch \in [Call -> SUBSET Key]
  /\ todo \in [Call -> SUBSET Key]
  /\ temp \in [Call -> [Key -> Count0]]
  /\ msg \in [Call -> SUBSET Key]
  /\ since \in [Key -> Count0]
  /\ overrun \in [Key -> BOOLEAN]

\* A node that recovered while nobody was still counting it starts afresh: its
\* counter never stands above the failures confirmed since that recovery,
\* whatever other calls swap in (other_service.go:461-486 against
\* server_stat_service.go:234-241).  A recovery that overran a YCIpBC of the
\* same node is excepted: the code lets that call bring the old count back.
FreshAfterRecovery == \A k \in Key : ~overrun[k] => errIpMap[k] <= since[k]

\* The cron job writes a node into an alert only when more than AlertAfter
\* confirmed failures were counted since its last clean recovery.
AlertsAreEarned ==
  [][\A c \in Call : \A k \in msg'[c] \ msg[c] :
       isSend[c] /\ ~overrun[k] => since'[k] > AlertAfter]_vars

Alerting(c, k) == Swap(c) /\ isSend[c] /\ k \in msg[c]

\* A node that stays down is reported again and again: neither the swaps of
\* other calls nor calls that outlive their tick make its alerts cease.
DownIsReported ==
  \A k \in Down : []<><<\E c \in Call : Alerting(c, k)>>_vars

\* The inductive strengthening of FreshAfterRecovery: the copies that calls in
\* flight may still swap in obey the same bound.
CopiesFresh ==
  \A c \in Call, k \in Key : ~overrun[k] => temp[c][k] <= since[k]

\* A call has counted only keys of its own batch, and an idle one has none.
CopiesOwned ==
  \A c \in Call :
    /\ callPc[c] = "idle" => batch[c] = {}
    /\ todo[c] \subseteq batch[c]
    /\ \A k \in Key : temp[c][k] > 0 => k \in batch[c]

\* No count from before a clean recovery is in errIpMap or comes back to it
\* (FreshAfterRecovery); inductive.
IInv == TypeOK /\ FreshAfterRecovery /\ CopiesFresh /\ CopiesOwned
==============================================================================
