--------------------------- MODULE MCChannelClient ---------------------------
(* Two interchangeable calls for TLC.                                      *)
EXTENDS ChannelClient, TLC

Symmetry == Permutations(Call)
=============================================================================
