--------------------------- MODULE MCAssetIntake ---------------------------
(* Model-checking instances of AssetIntake: the handlers of clicks are     *)
(* interchangeable.                                                        *)
EXTENDS AssetIntake, TLC

Symmetric == Permutations(Clicks)
=============================================================================
