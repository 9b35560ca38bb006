----------------------------- MODULE MCAppStats -----------------------------
(* Values for the constants of AppStats.                                    *)
EXTENDS AppStats

CONSTANTS items, stats

PathsOf == [r \in Requests |-> IF r \in Readers THEN stats ELSE items]
=============================================================================
