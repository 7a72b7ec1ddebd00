--------------------------- MODULE NeighborFrames ---------------------------
(***************************************************************************)
(* What the codecs of the protocols other than LLDP have in common.        *)
(***************************************************************************)
EXTENDS Integers, SequencesExt

CONSTANTS
  Null,          \* a pointer that is not set
  OwnTtl         \* the receiver's own tx_interval * tx_hold

=============================================================================
