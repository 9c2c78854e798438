------------------------------ MODULE DoipConfig ------------------------------
(***************************************************************************)
(* The entity's configuration: the values doip_entity_task                 *)
(* (src/src/doip/doip_task_example.c) puts into doip_entity_config_t and   *)
(* the constants of doip_config.h and doip_interface.h.                    *)
(***************************************************************************)
EXTENDS Integers

CONSTANTS
  MaxConn,         \* DOIP_MAX_CONNECTIONS
  Addr,            \* 16-bit logical addresses that occur in messages
  LogicalAddress,  \* config.logical_address
  TesterMin,       \* DOIP_TESTER_ADDRESS_MIN
  TesterMax,       \* DOIP_TESTER_ADDRESS_MAX
  CycleMs,         \* DOIP_ENTITY_CYCLE_TIME_MS, elapsed_ms of a timer update
  InitialMs,       \* config.initial_inactivity_time
  GeneralMs,       \* config.general_inactivity_time
  AnnounceMs,      \* 500U, the interval between announcements
  AnnounceCount    \* 3U, the number of announcements

ASSUME ConfigAssumption ==
  /\ MaxConn \in Nat \ {0}
  /\ Addr \subseteq Nat
  /\ LogicalAddress \in Addr
  /\ TesterMin \in Nat \ {0} /\ TesterMax \in Nat
  /\ CycleMs \in Nat \ {0}
  /\ InitialMs \in Nat \ {0} /\ GeneralMs \in Nat \ {0}
  /\ AnnounceMs \in Nat \ {0} /\ AnnounceCount \in Nat

Slot == 0..(MaxConn - 1)

\* 0 is what a context without an activated tester holds.
NoAddr == 0
TesterAddress == {a \in Addr : TesterMin <= a /\ a <= TesterMax}

\* A millisecond counter one timer update later, as the code counts down: it
\* stays put when it expires.
CountDown(t) == IF t > CycleMs THEN t - CycleMs ELSE t
==============================================================================
