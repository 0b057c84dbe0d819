---------------------------- MODULE MCSafetyNet ----------------------------
(* Instances of DeadMansSwitch, and with it of ProtectiveExits and of      *)
(* PaperBroker, for TLC.                                                   *)
EXTENDS DeadMansSwitch, TLC

\* Loops differ in nothing but their name.
LoopSymmetry == Permutations(Loops)
=============================================================================
