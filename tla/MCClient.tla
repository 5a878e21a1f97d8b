------------------------------ MODULE MCClient -------------------------------
(***************************************************************************)
(* The two channels of the program.                                        *)
(***************************************************************************)
EXTENDS Client

CONSTANTS public_channel, private_channel

BothChannels == <<public_channel, private_channel>>
==============================================================================
