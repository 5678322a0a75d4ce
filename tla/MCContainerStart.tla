-------------------------- MODULE MCContainerStart --------------------------
(***************************************************************************)
(* Small instances of ContainerStart for TLC.                              *)
(***************************************************************************)
EXTENDS ContainerStart

(* Stages that are absent, present with no hook, or with two, of which    *)
(* either may fail.                                                        *)
AnyCounts == {Absent, 0, 2}

OneOrNone == {Absent, 1}

MCExitCodes == {0, 1, 3}
=============================================================================
