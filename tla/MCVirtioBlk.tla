---------------------------- MODULE MCVirtioBlk ----------------------------
(* Two sectors; of the contents, v0 is a boot sector of ours, v1 is one of *)
(* another volume, and v2 is no boot sector.                               *)
EXTENDS VirtioBlk

CONSTANTS s0, s1, v0, v1, v2

MCSectors == {s0, s1}
MCValues == {v0, v1, v2}
MCVolumes == {v0, v1}
MCOurVolumes == {v0}
MCData == {v0, v1}
=============================================================================
