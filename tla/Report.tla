------------------------------- MODULE Report -------------------------------
(***************************************************************************)
(* What is read from a result: reports/builder.py and the views of         *)
(* routers/scans.py, and what the stages promise each other.               *)
(***************************************************************************)
EXTENDS Analysis

CONSTANT
    PageCap             \* the most items of one answer, 200 or 500

ASSUME PageCapAssumption == PageCap \in Nat \ {0}

(* _grouped_findings and _compliance_table: by severity, by rule.          *)
GroupedFindings ==
    [sev \in {SeverityOf(f.rule) : f \in AllFindings} |-> {f \in AllFindings : SeverityOf(f.rule) = sev}]
ComplianceTable ==
    [rid \in {f.rule : f \in AllFindings} |-> Cardinality({f \in AllFindings : f.rule = rid})]

(* _summary_text: the adjustment is shown unless, to a tenth, it is none.  *)
Summary ==
    [rule_score |-> result.rule_score, fused |-> result.ml_adjustment > Point \div 20,
     immediate |-> \E f \in AllFindings : SeverityOf(f.rule) = "critical"]

(* The title on the cover of the PDF. *)
VerdictTitle(score) ==
    IF score >= 85 THEN "STRONG POSTURE"
    ELSE IF score >= 70 THEN "MODERATE RISK"
    ELSE IF score >= 50 THEN "ELEVATED RISK"
    ELSE "CRITICAL RISK"

-----------------------------------------------------------------------------
(* items[from:to]: a negative place counts from the end. *)
PySlice(items, from, to) ==
    LET at(n) == IF n < 0 THEN Larger(0, Len(items) + n) ELSE Smaller(n, Len(items))
    IN  SubSeq(items, at(from) + 1, at(to))

(* Mutant: offset counts pages. *)
PageNumbered(items, limit, offset) ==
    PySlice(items, offset * limit, offset * limit + Smaller(limit, PageCap))

Page(items, limit, offset) == PySlice(items, offset, offset + Smaller(limit, PageCap))

(* list_sessions, with the filter on transport. *)
ListSessions(transports, limit, offset) ==
    LET items == Ascending({i \in DOMAIN sessions : sessions[i].transport \in transports})
    IN  [items |-> Page(items, limit, offset), total |-> Len(items), limit |-> limit, offset |-> offset]

(* get_session *)
GetSession(i) ==
    [findings |-> {f \in AllFindings : f.session = i},
     advisories |-> {a \in AllAdvisories : a.session = i}]
=============================================================================
