---------------------------- MODULE RepairRules ----------------------------
(***************************************************************************)
(* The repair rules of one manufacturer, as administrators edit them       *)
(* (manufacturer-repair-rules.service.ts), and the decision they give on   *)
(* each line of a vehicle check (repair-decision.service.ts).              *)
(*                                                                         *)
(* A rule is for one repair type, on one part or on any part.  A create or *)
(* an update looks for another rule of the same key, then writes: requests *)
(* interleave in between.  The unique index of the table covers the rules  *)
(* of a part only, NULL being distinct from NULL in PostgreSQL.  Amounts   *)
(* are counted in units of saving; comments, percentages, the missing and  *)
(* the recommended repairs are left out.                                   *)
(***************************************************************************)
EXTENDS Integers, FiniteSets

CONSTANTS
    Editors,      \* requests on the rules that may be in progress at one time
    RuleIds,
    Types, Parts,
    AnyPart,      \* vehiclePartId null
    NoRule,
    Bodies,       \* the request bodies considered
    Seeds,        \* the tables prisma/seed.ts may leave: general rules, one per type
    MaxEdits      \* bound on the edits

Statuses == {"ALLOWED", "FORBIDDEN", "MANDATORY", "CONDITIONAL", "TO_CHECK"}

Rule == [type : Types, part : Parts \cup {AnyPart}, status : Statuses,
         allowed : BOOLEAN, mandatory : BOOLEAN, floor : Nat]

\* A field of a body is a set: empty when absent, {AnyPart} for an explicit null.
Body == [type : Types, part : SUBSET (Parts \cup {AnyPart}), status : SUBSET Statuses,
         allowed : SUBSET BOOLEAN, mandatory : SUBSET BOOLEAN, floor : SUBSET Nat]

ASSUME RulesAssumption ==
    /\ AnyPart \notin Parts /\ NoRule \notin Rule
    /\ Bodies \subseteq Body /\ Seeds \subseteq [RuleIds -> Rule \cup {NoRule}]
    /\ MaxEdits \in Nat

VARIABLES
    rules,    \* table ManufacturerRepairRule
    editor,   \* what each request on the rules has still to do
    edits     \* edits so far

rulesVars == <<rules, editor, edits>>

Table == [RuleIds -> Rule \cup {NoRule}]
Editor ==
    [step : {"idle"}] \cup [step : {"create"}, rule : Rule]
    \cup [step : {"update"}, id : RuleIds, body : Bodies]

RulesTypeOK == rules \in Table /\ editor \in [Editors -> Editor] /\ edits \in 0..MaxEdits

-----------------------------------------------------------------------------
(* Editing the rules *)

Present(table) == {r \in RuleIds : table[r] # NoRule}

Given(field, default) == IF field = {} THEN default ELSE CHOOSE x \in field : TRUE

\* Another rule than r with this repair type and part.
Other(r, type, part) ==
    \E q \in Present(rules) \ {r} : rules[q].type = type /\ rules[q].part = part

\* The unique index refuses the write.
Refused(r, type, part) == part \in Parts /\ Other(r, type, part)

\* The part of a rule that is not there yet or gets none.
FromBody(body) ==
    LET status == Given(body.status, "ALLOWED") IN
    [type |-> body.type, part |-> Given(body.part, AnyPart), status |-> status,
     allowed |-> Given(body.allowed, status # "FORBIDDEN"),
     mandatory |-> Given(body.mandatory, status = "MANDATORY"),
     floor |-> Given(body.floor, 0)]

\* Absent fields are left as they are; a new status gives allowed and mandatory.
Changed(rule, body) ==
    LET status == Given(body.status, rule.status)
        same == body.status = {}
    IN [type |-> rule.type, part |-> Given(body.part, rule.part), status |-> status,
        allowed |-> Given(body.allowed, IF same THEN rule.allowed ELSE status # "FORBIDDEN"),
        mandatory |-> Given(body.mandatory, IF same THEN rule.mandatory ELSE status = "MANDATORY"),
        floor |-> Given(body.floor, rule.floor)]

RulesInit ==
    /\ rules \in Seeds
    /\ editor = [e \in Editors |-> [step |-> "idle"]]
    /\ edits = 0

Edit(e, next) ==
    /\ editor[e].step = "idle" /\ edits < MaxEdits
    /\ edits' = edits + 1
    /\ editor' = [editor EXCEPT ![e] = next]

Finish(e) == editor' = [editor EXCEPT ![e] = [step |-> "idle"]]

CreateRule(e) ==
    \E body \in Bodies :
        LET rule == FromBody(body) IN
        /\ body.status # {}
        /\ \A r \in Present(rules) : rules[r].type # rule.type \/ rules[r].part # rule.part
        /\ Edit(e, [step |-> "create", rule |-> rule])
        /\ UNCHANGED rules

\* The insertion, or the conflict of its key.
InsertRule(e) ==
    LET rule == editor[e].rule IN
    /\ editor[e].step = "create"
    /\ \E r \in RuleIds \ Present(rules) :
          rules' = IF Refused(r, rule.type, rule.part) THEN rules ELSE [rules EXCEPT ![r] = rule]
    /\ Finish(e)
    /\ UNCHANGED edits

\* The key that is looked for is the one of the part the body gives, if it gives one:
\* for an explicit null, the part the rule has.
UpdateRule(e) ==
    \E r \in Present(rules), body \in Bodies :
        LET part == Given(body.part \ {AnyPart}, rules[r].part) IN
        /\ body.type = rules[r].type
        /\ ~Other(r, rules[r].type, part)
        /\ Edit(e, [step |-> "update", id |-> r, body |-> body])
        /\ UNCHANGED rules

\* The update; it fails if the rule is gone or its key is taken.
WriteRule(e) ==
    LET r == editor[e].id IN
    /\ editor[e].step = "update"
    /\ \/ /\ r \in Present(rules)
          /\ ~Refused(r, rules[r].type, Changed(rules[r], editor[e].body).part)
          /\ rules' = [rules EXCEPT ![r] = Changed(rules[r], editor[e].body)]
       \/ /\ r \in Present(rules) => Refused(r, rules[r].type, Changed(rules[r], editor[e].body).part)
          /\ UNCHANGED rules
    /\ Finish(e)
    /\ UNCHANGED edits

RemoveRule(e) ==
    \E r \in Present(rules) :
        /\ Edit(e, [step |-> "idle"])
        /\ rules' = [rules EXCEPT ![r] = NoRule]

RulesNext ==
    \E e \in Editors :
        CreateRule(e) \/ InsertRule(e) \/ UpdateRule(e) \/ WriteRule(e) \/ RemoveRule(e)

-----------------------------------------------------------------------------
(* The decision on a line *)

Keys(table) == {<<table[r].type, table[r].part>> : r \in Present(table)}

\* The rule that preview keeps for each key: the last one of the query, which has no order.
Books(table) ==
    {book \in [Keys(table) -> Present(table)] :
        \A k \in Keys(table) : k = <<table[book[k]].type, table[book[k]].part>>}

\* resolveLineDecision for a line with a rule.
Verdict(rule, saving) ==
    IF rule.status = "FORBIDDEN" \/ ~rule.allowed THEN "FORBIDDEN"
    ELSE IF rule.status = "MANDATORY" \/ rule.mandatory THEN "MANDATORY"
    ELSE IF saving < rule.floor \/ rule.status = "TO_CHECK" THEN "TO_CHECK"
    ELSE IF rule.status = "CONDITIONAL" THEN "WARNING"
    ELSE "ACCEPTED"

=============================================================================
