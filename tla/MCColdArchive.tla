--------------------------- MODULE MCColdArchive ---------------------------
(* Two observations of different lines.                                    *)
EXTENDS ColdArchive
MCObs == 1..2
MCLineOf(o) == IF o = 2 THEN 2 ELSE 1
=============================================================================
