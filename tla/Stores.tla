--------------------------------- MODULE Stores ---------------------------------
(***************************************************************************)
(* What the process keeps outside of the database: its log files on disk   *)
(* (LogArchive) and its statistics in memory (StatCache).  They share no   *)
(* state.                                                                  *)
(***************************************************************************)
EXTENDS LogArchive

CONSTANTS Reader, Prov, MaxPeriod  \* StatCache
VARIABLES cached, period, reader, task, prov, fatal

Stat == INSTANCE StatCache WITH Req <- Reader

ASSUME StoresAssumption == Stat!CacheAssumption

statVars == <<cached, period, reader, task, prov, fatal>>

\* An entry is gone by the next clearing after its period, and the maps are
\* guarded from all but PostServerDomain.
StatInv == Stat!Inv
==============================================================================
