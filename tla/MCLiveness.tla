----------------------------- MODULE MCLiveness -----------------------------
(***************************************************************************)
(* Two kinds of histories of TerraformSetup in one run, each chosen at the *)
(* start and each with the users it needs: a config is deleted and created *)
(* again, or a resource moves between two configs.                         *)
(***************************************************************************)
EXTENDS MCTerraformSetup

CONSTANTS
    Second,       \* the config that only a move involves
    MaxMoves      \* bound: what users do in a history with moves

ASSUME SecondAssumption == Second \in Configs
ASSUME MaxMovesAssumption == MaxMoves \in Nat

VARIABLE history  \* "recreates" or "moves"

Empty == INSTANCE TerraformSetup WITH Installed <- {}

\* No earlier run has left a config that will be created and deleted; the Secret may be
\* missing there, so that setups fail after tracking.
LiveInit ==
    \/ history = "recreates" /\ Empty!Init
    \/ history = "moves" /\ Init /\ \A k \in Keys : data[k] \in FullData

\* What is left out of a history: the second config, or restarts and resyncs.  In moves
\* the configs are alike, so a resource may as well start with the first.
Within ==
    \/ /\ history = "recreates"
       /\ ~config'[Second].exists
       /\ \A r \in Resources : managed'[r].ref # Second
    \/ /\ history = "moves"
       /\ edits' <= MaxMoves
       /\ crashes' = 0 /\ resyncs' = 0
       /\ \A r \in Resources : managed'[r].ref = Second => managed[r].ref # NoConfig

LiveNext == Next /\ Within /\ UNCHANGED history

\* Within constrains users, restarts and resyncs alone, none of which is fair.
LiveSpec == LiveInit /\ [][LiveNext]_<<vars, history>> /\ Fairness
=============================================================================
