--------------------------------- MODULE Absent ---------------------------------
\* What stands for null, undefined or None wherever the code has no value.
EXTENDS Integers

CONSTANT None

ASSUME NoneAssumption == None \notin Int /\ None \notin STRING
===============================================================================
