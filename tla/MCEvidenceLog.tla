---------------------------- MODULE MCEvidenceLog ----------------------------
(* A short record, one that no window holds, a short one that does not parse,  *)
(* and a longer one: the browser has no room for two of it.                    *)
EXTENDS EvidenceLog

Lengths == <<2, 5, 2, 3>>
===============================================================================
