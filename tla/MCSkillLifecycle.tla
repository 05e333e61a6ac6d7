--------------------------- MODULE MCSkillLifecycle ---------------------------
EXTENDS SkillLifecycle, TLC

LifecycleSymmetry == Permutations(Consoles) \cup Permutations(Skills)
=============================================================================
