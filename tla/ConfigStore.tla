----------------------------- MODULE ConfigStore -----------------------------
(***************************************************************************)
(* What config.h promises of the settings: get_conf() and set_conf() act   *)
(* at one instant on one table of keys and values, whatever other threads  *)
(* do meanwhile.                                                           *)
(***************************************************************************)
EXTENDS Naturals

CONSTANTS Threads, Keys, Values, NoValue, ReadOnly

VARIABLES
  store,    \* the value of every key, or NoValue
  result,   \* what each thread's get_conf() found
  restarts  \* how often the settings were read again after a power loss

Init ==
  /\ store \in [Keys -> Values \cup {NoValue}]
  /\ result = [t \in Threads |-> NoValue]
  /\ restarts = 0

Get(t, k) ==
  /\ result' = [result EXCEPT ![t] = IF store[k] # NoValue THEN store[k] ELSE ReadOnly[k]]
  /\ UNCHANGED <<store, restarts>>

\* A new call.
Call(t) ==
  /\ result' = [result EXCEPT ![t] = NoValue]
  /\ UNCHANGED <<store, restarts>>

\* A store without any setting takes none.
Set(k, v) ==
  /\ \E u \in Keys : store[u] # NoValue
  /\ store' = [store EXCEPT ![k] = v]
  /\ UNCHANGED <<result, restarts>>

\* No promise about which settings a power loss costs.
Restart ==
  /\ restarts' = restarts + 1
  /\ store' \in [Keys -> Values \cup {NoValue}]
  /\ result' = [t \in Threads |-> NoValue]

Next ==
  \/ \E t \in Threads : Call(t)
  \/ \E k \in Keys : \/ \E t \in Threads : Get(t, k)
                     \/ \E v \in Values \cup {NoValue} : Set(k, v)
  \/ Restart

Spec == Init /\ [][Next]_<<store, result, restarts>>
=============================================================================
