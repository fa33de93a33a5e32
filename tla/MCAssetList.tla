----------------------------- MODULE MCAssetList -----------------------------
(* Symmetry for the model-checking instance of AssetList.                  *)
EXTENDS AssetList, TLC

Symmetric == Permutations(Readers)
=============================================================================
