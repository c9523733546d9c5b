------------------------ MODULE CheckCreationProofs ------------------------
(***************************************************************************)
(* Creations are refused only when others overtook them, dossiers are      *)
(* numbered after those that were there, and their lines follow the rules  *)
(* of one moment, for any number of overlapping creations, edits and       *)
(* removals.                                                               *)
(***************************************************************************)
EXTENDS CheckCreation, WellFoundedInduction, TLAPS

\* The numbers have a highest one.
Bounded == \E b \in Nat : \A n \in Numbers : n <= b

\* A number that is taken now was not when it was drawn: someone came in between.
Raced(c) ==
    /\ Failures(c) <= since[c].rivals
    /\ Does(c, "insert") /\ client[c].number \in Numbers => client[c].try <= since[c].rivals

\* The number drawn is above those of the dossiers that have been there all along.
Above(c) ==
    /\ ~Does(c, "idle") => since[c].there \subseteq Numbers
    /\ Does(c, "insert") => \A n \in since[c].there : n < client[c].number

\* The lines are decided by a table the creation has met.
FollowsRules(lines, items, tables) ==
    /\ DOMAIN lines = DOMAIN items
    /\ \E table \in tables : \A k \in DOMAIN lines : Says(table, k, lines[k], items)

Decided(c) ==
    /\ Does(c, "preview") => rules \in since[c].tables
    /\ client[c].step \in {"number", "insert"} =>
          FollowsRules(client[c].lines, client[c].items, since[c].tables)

Inv ==
    /\ TypeOK /\ Bounded
    /\ \A c \in Clients : Raced(c) /\ Above(c) /\ Decided(c)

-----------------------------------------------------------------------------
(* The types *)

LEMMA GivenIn ==
    ASSUME NEW S, NEW field \in SUBSET S, NEW default \in S
    PROVE  Given(field, default) \in S
  BY DEF Given

LEMMA FromBodyIsRule == \A body \in Bodies : FromBody(body) \in Rule
  <1> SUFFICES ASSUME NEW body \in Bodies PROVE FromBody(body) \in Rule
    OBVIOUS
  <1>1. body \in Body
    BY RulesAssumption
  <1>2. /\ body.type \in Types /\ body.part \in SUBSET (Parts \cup {AnyPart})
        /\ body.status \in SUBSET Statuses /\ body.allowed \in SUBSET BOOLEAN
        /\ body.mandatory \in SUBSET BOOLEAN /\ body.floor \in SUBSET Nat
    BY <1>1 DEF Body
  <1>3. Given(body.part, AnyPart) \in Parts \cup {AnyPart}
    BY <1>2, GivenIn
  <1>4. Given(body.status, "ALLOWED") \in Statuses
    BY <1>2, GivenIn DEF Statuses
  <1>5. Given(body.floor, 0) \in Nat
    BY <1>2, GivenIn
  <1>6. \A x \in BOOLEAN : Given(body.allowed, x) \in BOOLEAN /\ Given(body.mandatory, x) \in BOOLEAN
    BY <1>2, GivenIn, Zenon
  <1>7. Given(body.allowed, Given(body.status, "ALLOWED") # "FORBIDDEN") \in BOOLEAN
    BY <1>6
  <1>8. Given(body.mandatory, Given(body.status, "ALLOWED") = "MANDATORY") \in BOOLEAN
    BY <1>6
  <1> QED
    BY <1>2, <1>3, <1>4, <1>5, <1>7, <1>8 DEF FromBody, Rule

LEMMA ChangedIsRule == \A rule \in Rule, body \in Bodies : Changed(rule, body) \in Rule
  <1> SUFFICES ASSUME NEW rule \in Rule, NEW body \in Bodies PROVE Changed(rule, body) \in Rule
    OBVIOUS
  <1>1. body \in Body
    BY RulesAssumption
  <1>2. /\ body.part \in SUBSET (Parts \cup {AnyPart})
        /\ body.status \in SUBSET Statuses /\ body.allowed \in SUBSET BOOLEAN
        /\ body.mandatory \in SUBSET BOOLEAN /\ body.floor \in SUBSET Nat
    BY <1>1 DEF Body
  <1>0. /\ rule.type \in Types /\ rule.part \in Parts \cup {AnyPart} /\ rule.status \in Statuses
        /\ rule.allowed \in BOOLEAN /\ rule.mandatory \in BOOLEAN /\ rule.floor \in Nat
    BY DEF Rule
  <1>3. Given(body.part, rule.part) \in Parts \cup {AnyPart}
    BY <1>0, <1>2, GivenIn
  <1>4. Given(body.status, rule.status) \in Statuses
    BY <1>0, <1>2, GivenIn
  <1>5. Given(body.floor, rule.floor) \in Nat
    BY <1>0, <1>2, GivenIn
  <1>6. \A x \in BOOLEAN : Given(body.allowed, x) \in BOOLEAN /\ Given(body.mandatory, x) \in BOOLEAN
    BY <1>2, GivenIn, Zenon
  <1> DEFINE a == IF body.status = {} THEN rule.allowed
                  ELSE Given(body.status, rule.status) # "FORBIDDEN"
             m == IF body.status = {} THEN rule.mandatory
                  ELSE Given(body.status, rule.status) = "MANDATORY"
  <1>7. a \in BOOLEAN /\ m \in BOOLEAN
    BY <1>0
  <1>8. Given(body.allowed, a) \in BOOLEAN /\ Given(body.mandatory, m) \in BOOLEAN
    BY <1>6, <1>7, Zenon
  <1> QED
    BY <1>0, <1>3, <1>4, <1>5, <1>8 DEF Changed, Rule

\* An edit keeps the types of the rules.
LEMMA RulesTyped == RulesTypeOK /\ RulesNext => RulesTypeOK'
  <1> SUFFICES ASSUME RulesTypeOK, NEW e \in Editors,
                      CreateRule(e) \/ InsertRule(e) \/ UpdateRule(e) \/ WriteRule(e) \/ RemoveRule(e)
               PROVE  RulesTypeOK'
    BY DEF RulesNext
  <1> USE RulesAssumption
  <1>0. rules \in Table /\ editor \in [Editors -> Editor] /\ edits \in 0..MaxEdits
    BY DEF RulesTypeOK
  <1>n. edits < MaxEdits => edits + 1 \in 0..MaxEdits
    BY <1>0
  <1>1. ASSUME CreateRule(e) PROVE RulesTypeOK'
    <2> PICK body \in Bodies : /\ Edit(e, [step |-> "create", rule |-> FromBody(body)])
                               /\ UNCHANGED rules
      BY <1>1 DEF CreateRule
    <2>1. [step |-> "create", rule |-> FromBody(body)] \in Editor
      BY FromBodyIsRule DEF Editor
    <2> QED
      BY <1>0, <1>n, <2>1 DEF RulesTypeOK, Edit
  <1>2. ASSUME InsertRule(e) PROVE RulesTypeOK'
    <2>1. editor[e].rule \in Rule
      BY <1>0, <1>2 DEF InsertRule, Editor
    <2>2. rules' \in Table
      BY <1>0, <1>2, <2>1 DEF InsertRule, Table
    <2>3. editor' \in [Editors -> Editor]
      BY <1>0, <1>2 DEF InsertRule, Finish, Editor
    <2> QED
      BY <1>0, <1>2, <2>2, <2>3 DEF RulesTypeOK, InsertRule
  <1>3. ASSUME UpdateRule(e) PROVE RulesTypeOK'
    <2> PICK r \in Present(rules), body \in Bodies :
                 Edit(e, [step |-> "update", id |-> r, body |-> body]) /\ UNCHANGED rules
      BY <1>3 DEF UpdateRule
    <2>1. [step |-> "update", id |-> r, body |-> body] \in Editor
      BY DEF Editor, Present
    <2> QED
      BY <1>0, <1>n, <2>1 DEF RulesTypeOK, Edit
  <1>4. ASSUME WriteRule(e) PROVE RulesTypeOK'
    <2>1. editor[e].id \in RuleIds /\ editor[e].body \in Bodies
      BY <1>0, <1>4 DEF WriteRule, Editor
    <2>2. editor[e].id \in Present(rules) => Changed(rules[editor[e].id], editor[e].body) \in Rule
      BY <1>0, <2>1, ChangedIsRule DEF Present, Table
    <2>3. rules' \in Table
      BY <1>0, <1>4, <2>1, <2>2 DEF WriteRule, Table
    <2>4. editor' \in [Editors -> Editor]
      BY <1>0, <1>4 DEF WriteRule, Finish, Editor
    <2> QED
      BY <1>0, <1>4, <2>3, <2>4 DEF RulesTypeOK, WriteRule
  <1>5. ASSUME RemoveRule(e) PROVE RulesTypeOK'
    <2> PICK r \in Present(rules) : /\ Edit(e, [step |-> "idle"])
                                    /\ rules' = [rules EXCEPT ![r] = NoRule]
      BY <1>5 DEF RemoveRule
    <2>1. rules' \in Table /\ [step |-> "idle"] \in Editor
      BY <1>0 DEF Table, Editor
    <2> QED
      BY <1>0, <1>n, <2>1 DEF RulesTypeOK, Edit
  <1> QED
    BY <1>1, <1>2, <1>3, <1>4, <1>5

\* A creation's step tells its fields.
LEMMA ClientFields ==
    ASSUME NEW r \in Client
    PROVE  /\ r.step \in {"idle", "preview", "number", "insert", "refused"}
           /\ r.step = "idle" => r = Idle
           /\ r.step \in {"preview", "number", "insert"} => r.plate \in Plates /\ r.items \in ItemLists
           /\ r.step \in {"number", "insert"} => r.lines \in Lines /\ r.try \in Attempt
           /\ r.step = "insert" => r.number \in Nat \ {0}
  BY DEF Client, Idle

-----------------------------------------------------------------------------
(* What the next number and the decisions are *)

\* A set of numbers that has a bound has a highest one.
LEMMA HighestExists ==
    ASSUME NEW S \in SUBSET Nat, S # {}, NEW b \in Nat, \A n \in S : n <= b
    PROVE  \E x \in S : \A y \in S : x >= y
  <1> DEFINE B == {n \in Nat : \A y \in S : y <= n}
  <1>1. B \subseteq Nat /\ B # {}
    OBVIOUS
  <1>2. PICK x \in B : \A y \in B : ~(<<y, x>> \in OpToRel(<, Nat))
    <2> HIDE DEF B
    <2> QED BY <1>1, NatLessThanWellFounded, WFMin
  <1>3. \A y \in B : ~(y < x)
    BY <1>2 DEF OpToRel
  <1>4. x \in S
    <2> SUFFICES ASSUME x \notin S PROVE FALSE
      OBVIOUS
    <2>1. \A y \in S : y < x
      OBVIOUS
    <2>2. x # 0
      <3> PICK y \in S : TRUE
        OBVIOUS
      <3>1. y < x /\ y \in Nat
        BY <2>1
      <3> QED
        BY <3>1
    <2>3. x - 1 \in B
      BY <2>1, <2>2
    <2> QED
      BY <1>3, <2>3
  <1> QED
    BY <1>4

LEMMA NextNumberAbove ==
    ASSUME TypeOK, Bounded
    PROVE  NextNumber \in Nat \ {0} /\ \A n \in Numbers : n < NextNumber
  <1> DEFINE S == Numbers \cup {0}
  <1>1. S \in SUBSET Nat /\ S # {}
    BY DEF TypeOK, Numbers, Dossier
  <1>2. PICK b \in Nat : \A n \in Numbers : n <= b
    BY DEF Bounded
  <1>3. \A n \in S : n <= b
    BY <1>2
  <1>4. \E x \in S : \A y \in S : x >= y
    <2> HIDE DEF S
    <2> QED BY <1>1, <1>3, HighestExists
  <1>5. Max(S) \in S /\ \A y \in S : Max(S) >= y
    <2> HIDE DEF S
    <2> QED BY <1>4 DEF Max
  <1>6. Max(S) \in Nat
    BY <1>1, <1>5
  <1>7. \A n \in Numbers : n \in Nat /\ n <= Max(S)
    BY <1>1, <1>5
  <1>8. NextNumber = Max(S) + 1
    BY DEF NextNumber
  <1> HIDE DEF S
  <1> QED
    BY <1>6, <1>7, <1>8

LEMMA ItemsTyped ==
    ASSUME NEW items \in ItemLists, NEW k \in DOMAIN items
    PROVE  k \in Types \X Parts /\ items[k] \in Nat
  BY CreationAssumption

LEMMA VerdictIn == \A rule, saving : Verdict(rule, saving) \in Decisions
  BY DEF Verdict, Decisions

\* A line's decision is what the rules say, whichever rules the preview kept.
LEMMA DecideSays ==
    ASSUME NEW table \in Table, NEW book \in Books(table), NEW items \in ItemLists,
           NEW k \in DOMAIN items
    PROVE  LET decision == Decide(k, items[k], book, table) IN
           decision \in Decisions /\ Says(table, k, decision, items)
  <1> DEFINE decision == Decide(k, items[k], book, table)
             specific == {r \in Present(table) : table[r].type = k[1] /\ table[r].part = k[2]}
             generic  == {r \in Present(table) : table[r].type = k[1] /\ table[r].part = AnyPart}
  <1>1. k \in Types \X Parts
    BY ItemsTyped
  <1>2. k = <<k[1], k[2]>>
    BY <1>1
  <1>3. /\ DOMAIN book = Keys(table)
        /\ \A j \in Keys(table) : book[j] \in Present(table)
        /\ \A j \in Keys(table) : j = <<table[book[j]].type, table[book[j]].part>>
    BY DEF Books
  <1>4. decision \in Decisions
    BY VerdictIn DEF Decide, Decisions
  <1>5. CASE k \in Keys(table)
    <2>1. book[k] \in specific
      BY <1>2, <1>3, <1>5
    <2>2. decision = Verdict(table[book[k]], items[k])
      BY <1>3, <1>5 DEF Decide
    <2>3. Says(table, k, decision, items)
      BY <2>1, <2>2 DEF Says
    <2> QED
      BY <1>4, <2>3
  <1>6. CASE k \notin Keys(table) /\ <<k[1], AnyPart>> \in Keys(table)
    <2>1. specific = {}
      BY <1>2, <1>6 DEF Keys
    <2>2. book[<<k[1], AnyPart>>] \in generic
      BY <1>3, <1>6
    <2>3. decision = Verdict(table[book[<<k[1], AnyPart>>]], items[k])
      BY <1>3, <1>6 DEF Decide
    <2>4. Says(table, k, decision, items)
      BY <2>1, <2>2, <2>3 DEF Says
    <2> QED
      BY <1>4, <2>4
  <1>7. CASE k \notin Keys(table) /\ <<k[1], AnyPart>> \notin Keys(table)
    <2>1. specific = {} /\ generic = {}
      BY <1>2, <1>7 DEF Keys
    <2>2. decision = "ACCEPTED"
      BY <1>3, <1>7 DEF Decide
    <2>3. Says(table, k, decision, items)
      BY <2>1, <2>2 DEF Says
    <2> QED
      BY <1>4, <2>3
  <1> QED
    BY <1>5, <1>6, <1>7

-----------------------------------------------------------------------------
(* The invariant *)

LEMMA InitInv == Init => Inv
  <1> SUFFICES ASSUME Init PROVE Inv
    OBVIOUS
  <1> USE RulesAssumption, CreationAssumption DEF Init
  <1>1. RulesTypeOK
    BY DEF RulesInit, RulesTypeOK, Table, Editor
  <1>2. Idle \in Client /\ Nothing \in Since
    BY DEF Client, Since, Nothing
  <1>3. TypeOK
    BY <1>1, <1>2 DEF TypeOK
  <1>4. Bounded
    BY DEF Bounded, Numbers
  <1>5. ASSUME NEW c \in Clients PROVE Raced(c) /\ Above(c) /\ Decided(c)
    BY DEF Raced, Above, Decided, Failures, Does, Idle, Nothing
  <1> QED
    BY <1>3, <1>4, <1>5 DEF Inv

LEMMA StartInv == ASSUME Inv, NEW c \in Clients, Start(c) PROVE Inv'
  <1> USE CreationAssumption DEF Inv
  <1> PICK plate \in Plates, items \in ItemLists :
           Then(c, [step |-> "preview", plate |-> plate, items |-> items])
    BY DEF Start
  <1> DEFINE s == [there |-> Numbers, tables |-> {rules}, rivals |-> 0]
  <1>0. /\ since' = [since EXCEPT ![c] = s] /\ creations' = creations + 1 /\ creations < MaxCreations
        /\ UNCHANGED <<rulesVars, dossiers>>
    BY DEF Start
  <1>1. TypeOK'
    <2>1. [step |-> "preview", plate |-> plate, items |-> items] \in Client
      BY DEF Client
    <2>2. s \in Since
      BY DEF Since, TypeOK, RulesTypeOK, Numbers, Dossier
    <2>3. client' \in [Clients -> Client] /\ since' \in [Clients -> Since]
      BY <1>0, <2>1, <2>2 DEF TypeOK, Then
    <2>4. creations' \in 0..MaxCreations
      BY <1>0 DEF TypeOK
    <2>5. RulesTypeOK'
      BY <1>0 DEF TypeOK, RulesTypeOK, rulesVars
    <2> QED
      BY <1>0, <2>3, <2>4, <2>5 DEF TypeOK
  <1>2. Bounded' /\ Numbers' = Numbers
    BY <1>0 DEF Bounded, Numbers
  <1>3. ASSUME NEW d \in Clients PROVE Raced(d)' /\ Above(d)' /\ Decided(d)'
    <2>1. CASE d = c
      <3>1. client'[d] = [step |-> "preview", plate |-> plate, items |-> items] /\ since'[d] = s
        BY <1>0, <2>1 DEF Then, TypeOK
      <3> QED
        BY <1>0, <1>2, <3>1 DEF Raced, Above, Decided, Failures, Does, rulesVars
    <2>2. CASE d # c
      <3>1. client'[d] = client[d] /\ since'[d] = since[d] /\ rules' = rules
        BY <1>0, <2>2 DEF Then, TypeOK, rulesVars
      <3>2. Raced(d) /\ Above(d) /\ Decided(d)
        OBVIOUS
      <3> QED
        BY <1>2, <3>1, <3>2 DEF Raced, Above, Decided, Failures, Does
    <2> QED
      BY <2>1, <2>2
  <1> QED
    BY <1>1, <1>2, <1>3

\* A step of one creation that changes no table: only its own part has to be shown.
LEMMA OwnStep ==
    ASSUME Inv, NEW c \in Clients, NEW next \in Client, NEW s \in Since, Then(c, next),
           since' = [since EXCEPT ![c] = s], UNCHANGED <<rulesVars, dossiers, creations>>,
           Raced(c)' /\ Above(c)' /\ Decided(c)'
    PROVE  Inv'
  <1> USE DEF Inv
  <1>1. TypeOK'
    BY DEF TypeOK, RulesTypeOK, rulesVars, Then
  <1>2. Bounded' /\ Numbers' = Numbers
    BY DEF Bounded, Numbers
  <1>3. ASSUME NEW d \in Clients, d # c PROVE Raced(d)' /\ Above(d)' /\ Decided(d)'
    <2>1. client'[d] = client[d] /\ since'[d] = since[d] /\ rules' = rules
      BY <1>3 DEF Then, TypeOK, rulesVars
    <2>2. Raced(d) /\ Above(d) /\ Decided(d)
      OBVIOUS
    <2> QED
      BY <1>2, <2>1, <2>2 DEF Raced, Above, Decided, Failures, Does
  <1> QED
    BY <1>1, <1>2, <1>3

LEMMA PreviewInv == ASSUME Inv, NEW c \in Clients, Preview(c) PROVE Inv'
  <1> DEFINE r == client[c]
  <1> PICK book \in Books(rules) :
        Then(c, [step |-> "number", plate |-> r.plate, items |-> r.items, try |-> 1,
                 lines |-> [k \in DOMAIN r.items |-> Decide(k, r.items[k], book, rules)]])
    BY DEF Preview
  <1> DEFINE lines == [k \in DOMAIN r.items |-> Decide(k, r.items[k], book, rules)]
             next == [step |-> "number", plate |-> r.plate, items |-> r.items, try |-> 1,
                      lines |-> lines]
  <1>1. /\ r \in Client /\ r.step = "preview" /\ rules \in Table
        /\ since \in [Clients -> Since] /\ client \in [Clients -> Client]
    BY DEF Preview, Does, Inv, TypeOK, RulesTypeOK
  <1>2. r.items \in ItemLists /\ r.plate \in Plates
    BY <1>1, ClientFields
  <1>3. \A k \in DOMAIN r.items :
           /\ Decide(k, r.items[k], book, rules) \in Decisions
           /\ Says(rules, k, Decide(k, r.items[k], book, rules), r.items)
    BY <1>1, <1>2, DecideSays
  <1>4. lines \in [DOMAIN r.items -> Decisions]
    BY <1>3
  <1>5. lines \in Lines
    BY <1>2, <1>4, Zenon DEF Lines
  <1>6. next \in Client
    BY <1>2, <1>5, CreationAssumption DEF Client, Attempt
  <1>7. /\ client'[c] = next
        /\ since' = since /\ since' = [since EXCEPT ![c] = since[c]] /\ since[c] \in Since
        /\ rules \in since[c].tables
        /\ UNCHANGED <<rulesVars, dossiers, creations>>
    BY <1>1 DEF Preview, Then, Inv, Decided, Does
  <1>8. FollowsRules(lines, r.items, since[c].tables)
    <2>1. DOMAIN lines = DOMAIN r.items
      OBVIOUS
    <2>2. \A k \in DOMAIN lines : Says(rules, k, lines[k], r.items)
      BY <1>3
    <2> QED
      BY <1>7, <2>1, <2>2, Zenon DEF FollowsRules
  <1>9. Decided(c)'
    BY <1>7, <1>8 DEF Decided, Does
  <1>10. Raced(c)' /\ Above(c)'
    <2>1. since[c].rivals \in Nat /\ since[c].there \subseteq Numbers /\ Numbers' = Numbers
      BY <1>1, <1>7 DEF Inv, Above, Does, Since, Numbers
    <2> QED
      BY <1>7, <2>1 DEF Raced, Above, Failures, Does
  <1> HIDE DEF next
  <1> QED
    BY <1>6, <1>7, <1>9, <1>10, OwnStep DEF next

LEMMA TakeNumberInv == ASSUME Inv, NEW c \in Clients, TakeNumber(c) PROVE Inv'
  <1> DEFINE r == client[c]
             next == [step |-> "insert", plate |-> r.plate, items |-> r.items, lines |-> r.lines,
                      try |-> r.try, number |-> NextNumber]
  <1>1. /\ r \in Client /\ r.step = "number" /\ since \in [Clients -> Since]
        /\ client \in [Clients -> Client] /\ TypeOK /\ Bounded
    BY DEF TakeNumber, Does, Inv, TypeOK
  <1>2. r.items \in ItemLists /\ r.plate \in Plates /\ r.lines \in Lines /\ r.try \in Attempt
    BY <1>1, ClientFields
  <1>3. NextNumber \in Nat \ {0} /\ \A n \in Numbers : n < NextNumber
    BY <1>1, NextNumberAbove
  <1>4. next \in Client
    BY <1>2, <1>3 DEF Client
  <1>5. /\ client'[c] = next /\ Then(c, next)
        /\ since' = since /\ since' = [since EXCEPT ![c] = since[c]] /\ since[c] \in Since
        /\ Numbers' = Numbers /\ UNCHANGED <<rulesVars, dossiers, creations>>
    BY <1>1 DEF TakeNumber, Then, Numbers
  <1>6. Raced(c) /\ Above(c) /\ Decided(c)
    BY DEF Inv
  <1>7. Decided(c)'
    BY <1>1, <1>5, <1>6 DEF Decided, Does
  <1>8. Above(c)'
    BY <1>1, <1>3, <1>5, <1>6 DEF Above, Does
  <1>9. Raced(c)'
    <2>1. NextNumber \notin Numbers
      BY <1>1, <1>3 DEF TypeOK, Numbers, Dossier
    <2> QED
      BY <1>1, <1>5, <1>6, <2>1 DEF Raced, Does, Failures
  <1> HIDE DEF next
  <1> QED
    BY <1>4, <1>5, <1>7, <1>8, <1>9, OwnStep

LEMMA RetryInv == ASSUME Inv, NEW c \in Clients, Retry(c) PROVE Inv'
  <1> DEFINE r == client[c]
             next == IF r.try < CHECK_NUMBER_CREATE_ATTEMPTS
                     THEN [step |-> "number", plate |-> r.plate, items |-> r.items,
                           lines |-> r.lines, try |-> r.try + 1]
                     ELSE [step |-> "refused"]
  <1>1. /\ r \in Client /\ r.step = "insert" /\ r.number \in Numbers
        /\ since \in [Clients -> Since] /\ client \in [Clients -> Client]
    BY DEF Retry, Does, Inv, TypeOK
  <1>2. r.items \in ItemLists /\ r.plate \in Plates /\ r.lines \in Lines /\ r.try \in Attempt
    BY <1>1, ClientFields
  <1>3. CHECK_NUMBER_CREATE_ATTEMPTS \in Nat \ {0} /\ r.try \in Nat \ {0}
        /\ r.try <= CHECK_NUMBER_CREATE_ATTEMPTS
    BY <1>2, CreationAssumption DEF Attempt
  <1>4. next \in Client
    BY <1>2, <1>3 DEF Client, Attempt
  <1>5. /\ client'[c] = next /\ Then(c, next)
        /\ since' = since /\ since' = [since EXCEPT ![c] = since[c]] /\ since[c] \in Since
        /\ Numbers' = Numbers /\ UNCHANGED <<rulesVars, dossiers, creations>>
    BY <1>1 DEF Retry, Then, Numbers
  <1>6. Raced(c) /\ Above(c) /\ Decided(c)
    BY DEF Inv
  <1>7. Decided(c)'
    BY <1>1, <1>5, <1>6 DEF Decided, Does
  <1>8. Above(c)'
    BY <1>1, <1>5, <1>6 DEF Above, Does
  <1>9. Raced(c)'
    <2>1. since[c].rivals \in Nat /\ r.try <= since[c].rivals
      BY <1>1, <1>5, <1>6 DEF Raced, Does, Since
    <2>2. Failures(c)' <= since[c].rivals
      BY <1>3, <1>5, <2>1 DEF Failures, Does
    <2> QED
      BY <1>5, <2>2 DEF Raced, Does
  <1> HIDE DEF next
  <1> QED
    BY <1>4, <1>5, <1>7, <1>8, <1>9, OwnStep

LEMMA EndInv == ASSUME Inv, NEW c \in Clients, Duplicate(c) \/ Refuse(c) PROVE Inv'
  <1>1. /\ client \in [Clients -> Client] /\ since \in [Clients -> Since]
        /\ Then(c, Idle) /\ since' = [since EXCEPT ![c] = Nothing]
        /\ UNCHANGED <<rulesVars, dossiers, creations>>
    BY DEF Duplicate, Refuse, Inv, TypeOK
  <1>2. Idle \in Client /\ Nothing \in Since
    BY DEF Client, Since, Nothing
  <1>3. client'[c] = Idle /\ since'[c] = Nothing
    BY <1>1 DEF Then
  <1>4. Raced(c)' /\ Above(c)' /\ Decided(c)'
    BY <1>3 DEF Raced, Above, Decided, Failures, Does, Idle, Nothing
  <1> QED
    BY <1>1, <1>2, <1>4, OwnStep

LEMMA InsertInv == ASSUME Inv, NEW c \in Clients, Insert(c) PROVE Inv'
  <1> DEFINE r == client[c]
             new == [number |-> r.number, plate |-> r.plate, lines |-> r.lines]
  <1>1. /\ r \in Client /\ r.step = "insert" /\ TypeOK
        /\ since \in [Clients -> Since] /\ client \in [Clients -> Client]
        /\ dossiers' = dossiers \cup {new} /\ since' = Overtaken(c) /\ Then(c, Idle)
        /\ UNCHANGED <<rulesVars, creations>>
    BY DEF Insert, Does, Inv, TypeOK
  <1>2. r.plate \in Plates /\ r.lines \in Lines /\ r.number \in Nat \ {0}
    BY <1>1, ClientFields
  <1>3. Numbers' = Numbers \cup {r.number}
    <2>1. new.number = r.number /\ new \in dossiers'
      BY <1>1
    <2>2. \A n : n \in Numbers' <=> \E d \in dossiers \cup {new} : n = d.number
      BY <1>1 DEF Numbers
    <2>3. \A n : n \in Numbers <=> \E d \in dossiers : n = d.number
      BY DEF Numbers
    <2> HIDE DEF new, r
    <2> QED
      BY <2>1, <2>2, <2>3
  <1>4. \A d \in Clients : since[d].rivals \in Nat /\ since[d] \in Since
    BY <1>1 DEF Since
  <1>5. /\ since'[c] = Nothing
        /\ \A d \in Clients \ {c} : /\ since'[d].there = since[d].there
                                    /\ since'[d].tables = since[d].tables
                                    /\ since'[d].rivals = since[d].rivals + 1
                                    /\ since'[d] \in Since
    BY <1>1, <1>4 DEF Overtaken, Since
  <1>6. TypeOK'
    <2>1. new \in Dossier
      BY <1>2 DEF Dossier
    <2>2. Nothing \in Since /\ Idle \in Client
      BY DEF Nothing, Since, Client
    <2>3. since' \in [Clients -> Since]
      BY <1>1, <1>5, <2>2 DEF Overtaken
    <2>4. client' \in [Clients -> Client]
      BY <1>1, <2>2 DEF Then
    <2>5. RulesTypeOK' /\ creations' \in 0..MaxCreations
      BY <1>1 DEF TypeOK, RulesTypeOK, rulesVars
    <2>6. dossiers' \subseteq Dossier
      BY <1>1, <2>1 DEF TypeOK
    <2> QED
      BY <2>3, <2>4, <2>5, <2>6 DEF TypeOK
  <1>7. Bounded'
    <2>1. PICK b \in Nat : \A n \in Numbers : n <= b
      BY DEF Inv, Bounded
    <2>2. Numbers \subseteq Nat
      BY <1>1 DEF TypeOK, Numbers, Dossier
    <2>3. \A n \in Numbers' : n <= b + r.number
      BY <1>2, <1>3, <2>1, <2>2
    <2>4. b + r.number \in Nat
      BY <1>2
    <2> QED
      BY <2>3, <2>4 DEF Bounded
  <1>8. Raced(c)' /\ Above(c)' /\ Decided(c)'
    <2>1. client'[c] = Idle
      BY <1>1 DEF Then
    <2> QED
      BY <1>5, <2>1 DEF Raced, Above, Decided, Failures, Does, Idle, Nothing
  <1>9. ASSUME NEW d \in Clients, d # c PROVE Raced(d)' /\ Above(d)' /\ Decided(d)'
    <2>1. client'[d] = client[d] /\ client[d] \in Client /\ rules' = rules
      BY <1>1, <1>9 DEF Then, rulesVars
    <2>2. Raced(d) /\ Above(d) /\ Decided(d)
      BY DEF Inv
    <2>3. since'[d].rivals = since[d].rivals + 1 /\ since[d].rivals \in Nat
      BY <1>4, <1>5, <1>9
    <2>4. Failures(d)' = Failures(d) /\ Failures(d) \in Nat
      <3>1. Failures(d)' = Failures(d)
        BY <2>1 DEF Failures, Does
      <3>2. client[d].step \in {"number", "insert"} => client[d].try - 1 \in Nat
        BY <2>1, ClientFields, CreationAssumption DEF Attempt
      <3> QED
        BY <3>1, <3>2, CreationAssumption DEF Failures, Does
    <2>5. Does(d, "insert") => Failures(d) = client[d].try - 1 /\ client[d].try \in Nat
      BY <2>1, ClientFields, CreationAssumption DEF Failures, Does, Attempt
    <2>6. Raced(d)'
      <3>1. Failures(d)' <= since'[d].rivals
        BY <2>2, <2>3, <2>4 DEF Raced
      <3>2. Does(d, "insert")' => client'[d].try <= since'[d].rivals
        BY <2>1, <2>2, <2>3, <2>4, <2>5 DEF Raced, Does
      <3> QED
        BY <3>1, <3>2 DEF Raced
    <2>7. Above(d)'
      BY <1>3, <1>5, <1>9, <2>1, <2>2 DEF Above, Does
    <2>8. Decided(d)'
      BY <1>5, <1>9, <2>1, <2>2 DEF Decided, Does
    <2> QED
      BY <2>6, <2>7, <2>8
  <1> QED
    BY <1>6, <1>7, <1>8, <1>9 DEF Inv

LEMMA RemoveInv == ASSUME Inv, RemoveDossier PROVE Inv'
  <1> PICK e \in dossiers :
         /\ dossiers' = dossiers \ {e}
         /\ since' = [c \in Clients |-> [since[c] EXCEPT !.there = @ \ {e.number}]]
    BY DEF RemoveDossier
  <1>0. UNCHANGED <<rulesVars, client, creations>> /\ rules' = rules
    BY DEF RemoveDossier, rulesVars
  <1>1. TypeOK /\ since \in [Clients -> Since]
    BY DEF Inv, TypeOK
  <1>2. /\ \A n \in Numbers \ {e.number} : n \in Numbers'
        /\ Numbers' \subseteq Numbers
    BY DEF Numbers
  <1>3. \A d \in Clients : /\ since'[d].there = since[d].there \ {e.number}
                           /\ since'[d].tables = since[d].tables
                           /\ since'[d].rivals = since[d].rivals
                           /\ since'[d] \in Since
    BY <1>1 DEF Since
  <1>4. TypeOK'
    <2>1. since' \in [Clients -> Since]
      BY <1>3
    <2>2. RulesTypeOK' /\ client' \in [Clients -> Client] /\ creations' \in 0..MaxCreations
      BY <1>0, <1>1 DEF TypeOK, RulesTypeOK, rulesVars
    <2>3. dossiers' \subseteq Dossier
      BY <1>1 DEF TypeOK
    <2> QED
      BY <2>1, <2>2, <2>3 DEF TypeOK
  <1>5. Bounded'
    BY <1>2 DEF Inv, Bounded
  <1>6. ASSUME NEW d \in Clients PROVE Raced(d)' /\ Above(d)' /\ Decided(d)'
    <2>1. client'[d] = client[d] /\ Raced(d) /\ Above(d) /\ Decided(d)
      BY <1>0 DEF Inv
    <2> QED
      BY <1>0, <1>2, <1>3, <2>1 DEF Raced, Above, Decided, Failures, Does
  <1> QED
    BY <1>4, <1>5, <1>6 DEF Inv

LEMMA EditInv == ASSUME Inv, EditRules PROVE Inv'
  <1>0. /\ RulesNext /\ UNCHANGED <<dossiers, client, creations>> /\ Numbers' = Numbers
        /\ TypeOK /\ since \in [Clients -> Since]
    BY DEF EditRules, Inv, TypeOK, Numbers
  <1>1. RulesTypeOK' /\ rules' \in Table
    BY <1>0, RulesTyped DEF TypeOK, RulesTypeOK
  <1>2. \A d \in Clients :
           /\ since'[d].there = since[d].there /\ since'[d].rivals = since[d].rivals
           /\ since'[d] \in Since
           /\ IF Does(d, "preview") THEN rules' \in since'[d].tables
              ELSE since'[d].tables = since[d].tables
    BY <1>0, <1>1 DEF EditRules, Since
  <1>3. since' \in [Clients -> Since]
    BY <1>2 DEF EditRules
  <1>4. TypeOK'
    BY <1>0, <1>1, <1>3 DEF TypeOK
  <1>5. Bounded'
    BY <1>0 DEF Inv, Bounded
  <1>6. ASSUME NEW d \in Clients PROVE Raced(d)' /\ Above(d)' /\ Decided(d)'
    <2>1. client'[d] = client[d] /\ Raced(d) /\ Above(d) /\ Decided(d)
      BY <1>0 DEF Inv
    <2> QED
      BY <1>0, <1>2, <2>1 DEF Raced, Above, Decided, Failures, Does
  <1> QED
    BY <1>4, <1>5, <1>6 DEF Inv

LEMMA StutterInv == ASSUME Inv, UNCHANGED vars PROVE Inv'
  BY DEF Inv, TypeOK, RulesTypeOK, Bounded, Numbers, Raced, Above, Decided, Failures, Does,
         vars, rulesVars

LEMMA StepInv == ASSUME Inv, [Next]_vars PROVE Inv'
  BY StartInv, PreviewInv, TakeNumberInv, InsertInv, RetryInv, EndInv, RemoveInv, EditInv,
     StutterInv DEF Next

\* The strengthened invariant of CheckCreation.
THEOREM InvHolds == Spec => []Inv
  BY InitInv, StepInv, PTL DEF Spec

\* Every variable keeps its type.
THEOREM TypeCorrect == Spec => []TypeOK
  <1>1. Inv => TypeOK
    BY DEF Inv
  <1> QED
    BY <1>1, InvHolds, PTL

\* A creation is refused only when it was overtaken at each of its attempts.
THEOREM RefusedOnlyByRivals == Spec => []OvertakenWhenRefused
  <1>1. Inv => OvertakenWhenRefused
    BY DEF Inv, Raced, OvertakenWhenRefused
  <1> QED
    BY <1>1, InvHolds, PTL

-----------------------------------------------------------------------------
(* The new dossiers *)

\* Only the insertion of a creation adds a dossier.
LEMMA NewDossier ==
    ASSUME Inv, [Next]_vars, NEW d \in dossiers' \ dossiers
    PROVE  \E c \in Clients :
              /\ Insert(c) /\ d.number = client[c].number /\ d.lines = client[c].lines
  <1>1. ASSUME UNCHANGED dossiers PROVE FALSE
    BY <1>1
  <1>2. ASSUME NEW c \in Clients, Insert(c)
        PROVE  d.number = client[c].number /\ d.lines = client[c].lines
    BY <1>2 DEF Insert
  <1>3. ~RemoveDossier
    BY DEF RemoveDossier
  <1> QED
    BY <1>1, <1>2, <1>3 DEF Next, vars, Start, Preview, TakeNumber, Retry, Duplicate, Refuse, EditRules

\* A new dossier is numbered after those that were there all along.
THEOREM NumbersIncrease == Spec => NumberedAfter
  <1>1. ASSUME Inv, [Next]_vars
        PROVE  \A d \in dossiers' \ dossiers : \E c \in Clients :
                  /\ client[c] # Idle /\ client'[c] = Idle
                  /\ \A e \in dossiers : e.number \in since[c].there => e.number < d.number
    <2> SUFFICES ASSUME NEW d \in dossiers' \ dossiers
                 PROVE  \E c \in Clients :
                           /\ client[c] # Idle /\ client'[c] = Idle
                           /\ \A e \in dossiers : e.number \in since[c].there => e.number < d.number
      OBVIOUS
    <2> PICK c \in Clients : Insert(c) /\ d.number = client[c].number
      BY <1>1, NewDossier
    <2>1. client[c] # Idle /\ client'[c] = Idle
      BY <1>1 DEF Insert, Does, Then, Idle, Inv, TypeOK
    <2>2. \A n \in since[c].there : n < d.number
      BY <1>1 DEF Inv, Above, Insert, Does
    <2> QED
      BY <2>1, <2>2
  <1> QED
    BY <1>1, InvHolds, PTL DEF Spec, NumberedAfter

\* The lines of a new dossier are decided by the rules of one moment.
THEOREM LinesDecided == Spec => LinesFollowRules
  <1>1. ASSUME Inv, [Next]_vars
        PROVE  \A d \in dossiers' \ dossiers : \E c \in Clients :
                  /\ Does(c, "insert") /\ client'[c] = Idle
                  /\ DOMAIN d.lines = DOMAIN client[c].items
                  /\ \E table \in since[c].tables : \A k \in DOMAIN d.lines :
                        Says(table, k, d.lines[k], client[c].items)
    <2> SUFFICES ASSUME NEW d \in dossiers' \ dossiers
                 PROVE  \E c \in Clients :
                  /\ Does(c, "insert") /\ client'[c] = Idle
                  /\ DOMAIN d.lines = DOMAIN client[c].items
                  /\ \E table \in since[c].tables : \A k \in DOMAIN d.lines :
                        Says(table, k, d.lines[k], client[c].items)
      OBVIOUS
    <2> PICK c \in Clients : Insert(c) /\ d.lines = client[c].lines
      BY <1>1, NewDossier
    <2>1. Does(c, "insert") /\ client'[c] = Idle
      BY <1>1 DEF Insert, Does, Then, Inv, TypeOK
    <2>2. FollowsRules(d.lines, client[c].items, since[c].tables)
      BY <1>1, <2>1 DEF Inv, Decided, Does
    <2> QED
      BY <2>1, <2>2 DEF FollowsRules
  <1> QED
    BY <1>1, InvHolds, PTL DEF Spec, LinesFollowRules

=============================================================================
