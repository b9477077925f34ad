--------------------------- MODULE MCAuditExport ---------------------------
(* Instances of AuditExport for TLC: two replicas export what two writers *)
(* append, one of them anything, while two clients use one name for two   *)
(* contents, that of the export of one event at the start of the log.     *)
EXTENDS AuditExport

CONSTANTS w1, w2, r1, r2, c1, c2, x, y

MCAppends == [w \in Writer |-> IF w = w1 THEN {"evidence"} ELSE {"evidence", "large", "malformed"}]
MCName == <<0, 0, {[seq |-> 0, kind |-> "evidence"]}>>
MCRequest == [c \in Client |-> [id |-> MCName, body |-> IF c = c1 THEN x ELSE y]]
=============================================================================
