----------------------------- MODULE MCUserInput -----------------------------
(* Keys of a German keyboard, by their places on an American one: the Y key *)
(* types a z and the Z key a y. The right GUI key is just past the table;   *)
(* the refresh key's code is that of the Z in its lower eight bits.         *)
EXTENDS UserInput, FiniteSets

GermanScancode == [y |-> 28, z |-> 29, leftCtrl |-> 224, rightGui |-> 231, refresh |-> 285]
German == [y |-> 26, z |-> 25, leftCtrl |-> 0, rightGui |-> 0, refresh |-> 0]
GermanKeys == DOMAIN German

\* The bound: what follows once three keys are held at a time is not looked at.
ShortChords == Cardinality(pressed) < 3
=============================================================================
