---------------------------- MODULE checkpoints ----------------------------
(***************************************************************************)
(* The checkpoint table of currency_core/checkpoints.cpp: a map from       *)
(* heights to block ids that is filled at start-up and only read later.    *)
(***************************************************************************)
EXTENDS Naturals

CONSTANT m_points   \* the table: a function from heights to block ids

ASSUME CheckpointsAssumption == DOMAIN m_points \subseteq Nat

\* Not above the last checkpoint: some checkpoint is at or above height.
is_in_checkpoint_zone(height) ==
  \E c \in DOMAIN m_points : height <= c

\* lower_bound(height) is the least checkpoint at or above height; it is at or
\* below the top of the chain iff some checkpoint lies between the two.
is_height_passed_zone(height, blockchain_last_block_height) ==
  /\ height <= blockchain_last_block_height
  /\ \E c \in DOMAIN m_points :
        height <= c /\ c <= blockchain_last_block_height

check_block(height, h) ==
  height \in DOMAIN m_points => m_points[height] = h

=============================================================================
