-------------------------- MODULE MCInspectionManager --------------------------
(* InspectionManager on small instances.                                        *)
EXTENDS InspectionManager

CONSTANTS c1, c2, g1, g2
===============================================================================
