------------------------ MODULE VariableImportProofs ------------------------
(***************************************************************************)
(* Proofs about VariableImport, for any importers, target, variables,      *)
(* values, lists, page size and number of retries.                         *)
(***************************************************************************)
EXTENDS VariableImport, SequenceTheorems, TLAPS

\* What the proofs need of the types.
Types ==
    /\ vars \in [Keys -> Values \cup {None}]
    /\ pc \in [Importers -> PCs]
    /\ flags \in [Importers -> [overwrite : BOOLEAN, dryRun : BOOLEAN]]
    /\ list \in [Importers -> Seq([key : Keys, value : Values])]
    /\ next \in [Importers -> Nat \ {0}]
    /\ existing \in [Importers -> SUBSET Keys]
    /\ result \in [Importers -> Results]
    /\ done \in [Importers -> SUBSET Nat]
    /\ made \in [Importers -> BOOLEAN]

\* An import that may not overwrite has passed the check for duplicates when
\* it comes to the loop.
Checked(p) ==
    pc[p] = "write" /\ ~flags[p].overwrite =>
        \A i \in DOMAIN list[p] : list[p][i].key \notin existing[p]

\* Before the loop nothing has been written, and in the loop everything up to
\* the index it has come to, if this is no dry run.
Written(p) ==
    /\ pc[p] \in {"resolve", "create target", "list"} => done[p] = {} /\ next[p] = 1
    /\ pc[p] = "write" =>
        /\ next[p] <= Len(list[p]) + 1
        /\ done[p] \subseteq 1..Len(list[p])
        /\ ~flags[p].dryRun => 1..(next[p] - 1) \subseteq done[p]
    /\ result[p] = "imported"   => done[p] = 1..Len(list[p])
    /\ result[p] = "duplicates" => done[p] = {}
    /\ pc[p] # "idle" => result[p] = "none"

\* A dry run never comes to create the variable set, nor to write.
Dry(p) ==
    flags[p].dryRun => pc[p] # "create target" /\ done[p] = {} /\ ~made[p]

Inv == Types /\ \A p \in Importers : Checked(p) /\ Written(p) /\ Dry(p)

-----------------------------------------------------------------------------
LEMMA InitInv == Init => Inv
<1> SUFFICES ASSUME Init PROVE Inv
  OBVIOUS
<1>1. Types
  <2>1. list \in [Importers -> Seq([key : Keys, value : Values])]
    <3>1. <<>> \in Seq([key : Keys, value : Values])
      OBVIOUS
    <3> QED
      BY <3>1 DEF Init
  <2>2. vars \in [Keys -> Values \cup {None}]
    BY DEF Init
  <2>4. next \in [Importers -> Nat \ {0}]
    <3>1. 1 \in Nat \ {0}
      OBVIOUS
    <3> QED
      BY <3>1 DEF Init
  <2>3. /\ pc \in [Importers -> PCs] /\ result \in [Importers -> Results]
        /\ flags \in [Importers -> [overwrite : BOOLEAN, dryRun : BOOLEAN]]
        /\ existing \in [Importers -> SUBSET Keys]
        /\ done \in [Importers -> SUBSET Nat] /\ made \in [Importers -> BOOLEAN]
    BY DEF Init, PCs, Results
  <2> QED
    BY <2>1, <2>2, <2>3, <2>4 DEF Types
<1>2. ASSUME NEW p \in Importers PROVE Checked(p) /\ Written(p) /\ Dry(p)
  BY DEF Init, Checked, Written, Dry
<1> QED
  BY <1>1, <1>2 DEF Inv

LEMMA GotoTypes ==
    ASSUME Types, NEW p \in Importers, NEW to \in PCs, Goto(p, to)
    PROVE  /\ pc' \in [Importers -> PCs] /\ result' \in [Importers -> Results]
           /\ pc'[p] = to /\ result'[p] = result[p]
  BY DEF Types, Goto

LEMMA EndTypes ==
    ASSUME Types, NEW p \in Importers, NEW r \in Results, End(p, r)
    PROVE  /\ pc' \in [Importers -> PCs] /\ result' \in [Importers -> Results]
           /\ pc'[p] = "idle" /\ result'[p] = r
  BY DEF Types, End, PCs

LEMMA AgainTypes ==
    ASSUME Types, NEW p \in Importers, Again(p)
    PROVE  /\ pc' \in [Importers -> PCs] /\ result' \in [Importers -> Results]
           /\ \/ pc'[p] = pc[p] /\ result'[p] = result[p]
              \/ pc'[p] = "idle" /\ result'[p] = "failed"
<1>1. CASE attempt[p] < MaxRetries
  BY <1>1 DEF Types, Again
<1>2. CASE ~(attempt[p] < MaxRetries)
  BY <1>2, EndTypes DEF Again, Results
<1> QED
  BY <1>1, <1>2

LEMMA AdvanceTypes ==
    ASSUME Types, NEW p \in Importers, Advance(p)
    PROVE  /\ pc' \in [Importers -> PCs] /\ result' \in [Importers -> Results]
           /\ next' \in [Importers -> Nat \ {0}]
           /\ pc'[p] = "write" /\ result'[p] = result[p] /\ next'[p] = next[p] + 1
<1>1. "write" \in PCs /\ Goto(p, "write") /\ next' = [next EXCEPT ![p] = next[p] + 1]
  BY DEF Advance, Here, PCs
<1>2. next[p] \in Nat \ {0} /\ next[p] + 1 \in Nat \ {0}
  BY DEF Types
<1>3. next' \in [Importers -> Nat \ {0}] /\ next'[p] = next[p] + 1
  BY <1>1, <1>2 DEF Types
<1> QED
  BY <1>1, <1>3, GotoTypes

LEMMA ItemTypes ==
    ASSUME Types, NEW p \in Importers, AtWrite(p)
    PROVE  /\ next[p] \in 1..Len(list[p]) /\ Len(list[p]) \in Nat
           /\ DOMAIN list[p] = 1..Len(list[p])
           /\ Item(p) \in [key : Keys, value : Values]
<1>1. list[p] \in Seq([key : Keys, value : Values]) /\ next[p] \in Nat \ {0}
  BY DEF Types
<1>2. next[p] \in 1..Len(list[p])
  BY <1>1 DEF AtWrite
<1>3. list[p][next[p]] \in [key : Keys, value : Values]
  BY <1>1, <1>2, ElementOfSeq
<1> QED
  BY <1>1, <1>2, <1>3 DEF Item

LEMMA StoreTypes ==
    ASSUME Types, NEW p \in Importers, AtWrite(p), NEW trouble, Store(p, trouble)
    PROVE  /\ vars' \in [Keys -> Values \cup {None}]
           /\ done' \in [Importers -> SUBSET Nat]
           /\ done'[p] = done[p] \cup {next[p]}
<1>1. Item(p) \in [key : Keys, value : Values]
  BY ItemTypes
<1> QED
  BY <1>1 DEF Types, Store, Here

\* A step of one import leaves the others where they are.
LEMMA StepElsewhere ==
    ASSUME Types, NEW p \in Importers, NEW q \in Importers \ {p}, Step(p)
    PROVE  /\ pc'[q] = pc[q] /\ flags'[q] = flags[q] /\ list'[q] = list[q]
           /\ next'[q] = next[q] /\ existing'[q] = existing[q]
           /\ result'[q] = result[q] /\ done'[q] = done[q] /\ made'[q] = made[q]
<1> USE DEF Types, Here, Goto, End, Again, Same, Store, Advance, server, history
<1>1. CASE Start(p)
  BY <1>1 DEF Start
<1>2. CASE Resolve(p)
  BY <1>2 DEF Resolve
<1>3. CASE ResolveFails(p)
  BY <1>3 DEF ResolveFails
<1>4. CASE CreateTarget(p)
  BY <1>4 DEF CreateTarget
<1>5. CASE TargetLost(p)
  BY <1>5 DEF TargetLost
<1>6. CASE List(p)
  BY <1>6 DEF List
<1>7. CASE Report(p)
  BY <1>7 DEF Report
<1>8. CASE Update(p)
  BY <1>8 DEF Update
<1>9. CASE Create(p)
  BY <1>9 DEF Create
<1>10. CASE CreateLost(p)
  BY <1>10 DEF CreateLost
<1>11. CASE Fail(p)
  BY <1>11 DEF Fail
<1>12. CASE Finish(p)
  BY <1>12 DEF Finish
<1> QED
  BY <1>1, <1>2, <1>3, <1>4, <1>5, <1>6, <1>7, <1>8, <1>9, <1>10, <1>11, <1>12 DEF Step

LEMMA StepTypes ==
    ASSUME Types, NEW p \in Importers, Step(p)
    PROVE  Types'
<1>0. 1 \in Nat \ {0}
  OBVIOUS
<1> USE ConstantsAssumption, GotoTypes, EndTypes, AgainTypes, AdvanceTypes, StoreTypes
    DEF Types, PCs, Results, Here, Same, server, history
<1>1. CASE Start(p)
  <2>1. PICK l \in Lists : list' = [list EXCEPT ![p] = l]
    BY <1>1 DEF Start, Here
  <2>2. l \in Seq([key : Keys, value : Values])
    BY ConstantsAssumption
  <2>3. list' \in [Importers -> Seq([key : Keys, value : Values])]
    BY <2>1, <2>2 DEF Types
  <2>4. PICK o \in BOOLEAN, d \in BOOLEAN :
            flags' = [flags EXCEPT ![p] = [overwrite |-> o, dryRun |-> d]]
    BY <1>1 DEF Start, Here
  <2>5. flags' \in [Importers -> [overwrite : BOOLEAN, dryRun : BOOLEAN]]
    BY <2>4 DEF Types
  <2>6. /\ vars' = vars /\ pc' = [pc EXCEPT ![p] = "resolve"]
        /\ result' = [result EXCEPT ![p] = "none"] /\ next' = [next EXCEPT ![p] = 1]
        /\ existing' = [existing EXCEPT ![p] = {}] /\ done' = [done EXCEPT ![p] = {}]
        /\ made' = [made EXCEPT ![p] = FALSE]
    BY <1>1 DEF Start, Here, server
  <2>7. /\ vars' \in [Keys -> Values \cup {None}]
        /\ existing' \in [Importers -> SUBSET Keys] /\ done' \in [Importers -> SUBSET Nat]
        /\ made' \in [Importers -> BOOLEAN]
    BY <2>6 DEF Types
  <2>8. next' \in [Importers -> Nat \ {0}]
    BY <1>0, <2>6 DEF Types
  <2>9. pc' \in [Importers -> PCs] /\ result' \in [Importers -> Results]
    <3>1. "resolve" \in PCs /\ "none" \in Results
      BY DEF PCs, Results
    <3> QED
      BY <2>6, <3>1 DEF Types
  <2> QED
    BY <2>3, <2>5, <2>7, <2>8, <2>9 DEF Types
<1>2. CASE Resolve(p)
  BY <1>2 DEF Resolve
<1>3. CASE ResolveFails(p)
  BY <1>3 DEF ResolveFails
<1>4. CASE CreateTarget(p)
  BY <1>4 DEF CreateTarget
<1>5. CASE TargetLost(p)
  BY <1>5 DEF TargetLost
<1>6. CASE List(p)
  <2>1. PICK page \in SUBSET Keys : existing' = [existing EXCEPT ![p] = page]
    BY <1>6 DEF List, Here, Present
  <2>2. existing' \in [Importers -> SUBSET Keys]
    BY <2>1 DEF Types
  <2>3. UNCHANGED <<vars, flags, list, next, done, made>> /\ (Goto(p, "write") \/ End(p, "duplicates"))
    BY <1>6 DEF List, server, history
  <2> QED
    BY <2>2, <2>3 DEF Types, PCs, Results
<1>7. CASE Report(p)
  BY <1>7 DEF Report
<1>8. CASE Update(p)
  BY <1>8 DEF Update
<1>9. CASE Create(p)
  BY <1>9 DEF Create
<1>10. CASE CreateLost(p)
  BY <1>10 DEF CreateLost
<1>11. CASE Fail(p)
  BY <1>11 DEF Fail
<1>12. CASE Finish(p)
  BY <1>12 DEF Finish
<1> QED
  BY <1>1, <1>2, <1>3, <1>4, <1>5, <1>6, <1>7, <1>8, <1>9, <1>10, <1>11, <1>12 DEF Step

LEMMA StepOwn ==
    ASSUME Inv, NEW p \in Importers, Step(p)
    PROVE  Checked(p)' /\ Written(p)'
<1>0. Types /\ Checked(p) /\ Written(p)
  BY DEF Inv
\* A process that does not enter the loop has nothing to show for it.
<1>a. ASSUME NEW to \in PCs \ {"write", "idle"}, Goto(p, to), pc[p] \in PCs \ {"write", "idle"},
             UNCHANGED <<done, next>>
      PROVE  Checked(p)' /\ Written(p)'
  BY <1>0, <1>a, GotoTypes DEF Checked, Written, PCs
\* Nor has one whose import fails.
<1>b. ASSUME NEW r \in Results \ {"imported", "duplicates"}, End(p, r)
      PROVE  Checked(p)' /\ Written(p)'
  BY <1>0, <1>b, EndTypes DEF Checked, Written
\* One that has dealt with an item goes on to the next.
<1>c. ASSUME AtWrite(p), Advance(p), UNCHANGED <<flags, list, existing>>,
             \/ done'[p] = done[p] \cup {next[p]}
             \/ flags[p].dryRun /\ done'[p] = done[p]
      PROVE  Checked(p)' /\ Written(p)'
  <2>1. /\ next[p] \in 1..Len(list[p]) /\ Len(list[p]) \in Nat
        /\ pc[p] = "write" /\ pc'[p] = "write" /\ next'[p] = next[p] + 1
        /\ result'[p] = result[p] /\ result[p] = "none"
    <3>1. pc[p] = "write" /\ result[p] = "none"
      BY <1>0, <1>c DEF AtWrite, Written
    <3> QED
      BY <1>0, <1>c, <3>1, ItemTypes, AdvanceTypes
  <2>2. Checked(p)'
    BY <1>0, <1>c, <2>1 DEF Checked
  <2>3. next'[p] <= Len(list'[p]) + 1 /\ done'[p] \subseteq 1..Len(list'[p])
    BY <1>0, <1>c, <2>1 DEF Written
  <2>4. ASSUME ~flags'[p].dryRun PROVE 1..(next'[p] - 1) \subseteq done'[p]
    <3>1. done'[p] = done[p] \cup {next[p]} /\ 1..(next[p] - 1) \subseteq done[p]
      BY <1>0, <1>c, <2>1, <2>4 DEF Written
    <3>2. 1..(next'[p] - 1) = 1..(next[p] - 1) \cup {next[p]}
      BY <2>1
    <3> QED
      BY <3>1, <3>2
  <2> QED
    BY <2>1, <2>2, <2>3, <2>4 DEF Written
<1>1. CASE Start(p)
  <2>1. pc'[p] = "resolve" /\ done'[p] = {} /\ next'[p] = 1 /\ result'[p] = "none"
    BY <1>0, <1>1 DEF Start, Here, Types
  <2> QED
    BY <2>1 DEF Checked, Written
<1>2. CASE Resolve(p)
  BY <1>2, <1>a, <1>b DEF Resolve, Same, history, PCs, Results
<1>3. CASE ResolveFails(p)
  BY <1>3, <1>b DEF ResolveFails, Results
<1>4. CASE CreateTarget(p)
  BY <1>4, <1>a, <1>b DEF CreateTarget, PCs, Results
<1>5. CASE TargetLost(p)
  <2>1. UNCHANGED <<done, next>> /\ pc[p] = "create target" /\ Again(p)
    BY <1>5 DEF TargetLost
  <2> QED
    BY <1>0, <2>1, AgainTypes DEF Checked, Written
<1>6. CASE List(p)
  <2>1. UNCHANGED <<flags, list, next, done>> /\ pc[p] = "list"
    BY <1>6 DEF List, history
  <2>2. done[p] = {} /\ next[p] = 1 /\ result[p] = "none"
    BY <1>0, <2>1 DEF Written
  <2>3. CASE End(p, "duplicates")
    BY <2>1, <2>2, <2>3, <1>0, EndTypes DEF Checked, Written, Results
  <2>4. CASE /\ Goto(p, "write")
             /\ ~flags[p].overwrite =>
                    \A i \in DOMAIN list[p] : list[p][i].key \notin existing'[p]
    <3>1. pc'[p] = "write" /\ result'[p] = "none" /\ next'[p] = 1 /\ done'[p] = {}
      BY <1>0, <2>1, <2>2, <2>4, GotoTypes DEF PCs
    <3>2. Checked(p)'
      BY <2>1, <2>4 DEF Checked
    <3>3. Len(list'[p]) \in Nat
      BY <1>0, <2>1 DEF Types
    <3> QED
      BY <3>1, <3>2, <3>3 DEF Written
  <2> QED
    BY <1>6, <2>3, <2>4 DEF List
<1>7. CASE Report(p)
  BY <1>7, <1>c DEF Report, Same, history
<1>8. CASE Update(p)
  BY <1>0, <1>8, <1>b, <1>c, StoreTypes DEF Update, Same, Results
<1>9. CASE Create(p)
  BY <1>0, <1>9, <1>b, <1>c, StoreTypes DEF Create, Same, Results
<1>10. CASE CreateLost(p)
  <2>1. /\ AtWrite(p) /\ Store(p, {"lost"}) /\ Again(p) /\ UNCHANGED <<flags, list, existing, next>>
    BY <1>10 DEF CreateLost, Same
  <2>2. /\ next[p] \in 1..Len(list[p]) /\ pc[p] = "write"
        /\ done'[p] = done[p] \cup {next[p]} /\ result[p] = "none"
    BY <1>0, <2>1, ItemTypes, StoreTypes DEF AtWrite, Written
  <2> QED
    BY <1>0, <2>1, <2>2, AgainTypes DEF Checked, Written
<1>11. CASE Fail(p)
  BY <1>11, <1>b DEF Fail, Results
<1>12. CASE Finish(p)
  <2>1. /\ pc[p] = "write" /\ next[p] > Len(list[p]) /\ UNCHANGED <<flags, list, next, done>>
        /\ End(p, IF flags[p].dryRun THEN "would import" ELSE "imported")
    BY <1>12 DEF Finish, Same, history
  <2>2. CASE flags[p].dryRun
    BY <1>b, <2>1, <2>2 DEF Results
  <2>3. CASE ~flags[p].dryRun
    <3>1. pc'[p] = "idle" /\ result'[p] = "imported"
      BY <1>0, <2>1, <2>3, EndTypes DEF Results
    <3>2. next[p] - 1 = Len(list[p])
      <4>1. list[p] \in Seq([key : Keys, value : Values]) /\ next[p] \in Nat \ {0}
        BY <1>0 DEF Types
      <4>2. Len(list[p]) \in Nat /\ next[p] \in Nat
        BY <4>1
      <4>3. next[p] <= Len(list[p]) + 1
        BY <1>0, <2>1 DEF Written
      <4>4. next[p] > Len(list[p])
        BY <2>1
      <4>5. \A m, n \in Nat : n > m /\ n <= m + 1 => n - 1 = m
        OBVIOUS
      <4> QED
        BY <4>2, <4>3, <4>4, <4>5
    <3>3. done[p] = 1..Len(list[p])
      BY <1>0, <2>1, <2>3, <3>2 DEF Written
    <3> QED
      BY <2>1, <3>1, <3>3 DEF Checked, Written
  <2> QED
    BY <2>2, <2>3
<1> QED
  BY <1>1, <1>2, <1>3, <1>4, <1>5, <1>6, <1>7, <1>8, <1>9, <1>10, <1>11, <1>12 DEF Step

\* The only steps that create or write are no dry run's.
LEMMA StepDry ==
    ASSUME Inv, NEW p \in Importers, Step(p)
    PROVE  Dry(p)'
<1>0. Types /\ Dry(p)
  BY DEF Inv
<1> USE DEF Types, Dry, Here, Goto, End, Again, Same, Store, Advance, AtWrite, history
<1>1. CASE Start(p)
  BY <1>0, <1>1 DEF Start
<1>2. CASE Resolve(p) \/ ResolveFails(p)
  BY <1>0, <1>2 DEF Resolve, ResolveFails
<1>3. CASE CreateTarget(p) \/ TargetLost(p)
  BY <1>0, <1>3 DEF CreateTarget, TargetLost
<1>4. CASE List(p)
  BY <1>0, <1>4 DEF List
<1>5. CASE Report(p) \/ Fail(p) \/ Finish(p)
  BY <1>0, <1>5 DEF Report, Fail, Finish
<1>6. CASE Update(p) \/ Create(p) \/ CreateLost(p)
  <2>1. ~flags[p].dryRun /\ flags' = flags
    BY <1>6 DEF Update, Create, CreateLost
  <2> QED
    BY <2>1
<1> QED
  BY <1>1, <1>2, <1>3, <1>4, <1>5, <1>6 DEF Step

LEMMA NextInv == Inv /\ [Next]_allVars => Inv'
<1> SUFFICES ASSUME Inv, [Next]_allVars PROVE Inv'
  OBVIOUS
<1>1. ASSUME NEW p \in Importers, Step(p) PROVE Inv'
  <2>1. Types /\ Types'
    BY <1>1, StepTypes DEF Inv
  <2>2. ASSUME NEW q \in Importers PROVE Checked(q)' /\ Written(q)' /\ Dry(q)'
    <3>1. CASE q = p
      BY <1>1, <3>1, StepOwn, StepDry
    <3>2. CASE q # p
      <4>1. /\ pc'[q] = pc[q] /\ flags'[q] = flags[q] /\ list'[q] = list[q]
            /\ next'[q] = next[q] /\ existing'[q] = existing[q]
            /\ result'[q] = result[q] /\ done'[q] = done[q] /\ made'[q] = made[q]
        BY <1>1, <2>1, <3>2, StepElsewhere
      <4>2. Checked(q) /\ Written(q) /\ Dry(q)
        BY DEF Inv
      <4> QED
        BY <4>1, <4>2 DEF Checked, Written, Dry
    <3> QED
      BY <3>1, <3>2
  <2> QED
    BY <2>1, <2>2 DEF Inv
<1>2. ASSUME NEW k \in Keys, Delete(k) PROVE Inv'
  BY <1>2 DEF Delete, Here, locals, history, Inv, Types, Checked, Written, Dry
<1>3. CASE UNCHANGED allVars
  BY <1>3 DEF allVars, server, locals, history, Inv, Types, Checked, Written, Dry
<1> QED
  BY <1>1, <1>2, <1>3 DEF Next

THEOREM Invariance == Spec => []Inv
  BY InitInv, NextInv, PTL DEF Spec

\* An import that reports success has written all it was given, one that
\* refuses duplicates nothing, and a dry run nothing either, whatever others do
\* to the target meanwhile.
THEOREM ResultsAreTrue == Spec => []ResultsHold
<1>1. Inv => ResultsHold
  <2> SUFFICES ASSUME Inv, NEW p \in Importers
               PROVE  /\ result[p] = "imported"   => done[p] = DOMAIN list[p]
                      /\ result[p] = "duplicates" => done[p] = {}
                      /\ flags[p].dryRun => done[p] = {} /\ ~made[p]
    BY DEF ResultsHold
  <2>1. DOMAIN list[p] = 1..Len(list[p])
    BY DEF Inv, Types
  <2> QED
    BY <2>1 DEF Inv, Written, Dry
<1> QED
  BY <1>1, Invariance, PTL

\* Nothing is overwritten unless it was asked for, for any number of imports
\* and however little of the target each of them has been shown.
THEOREM OverwriteIsAsked == Spec => OverwriteNeedsFlag
<1> DEFINE Asked == \A k \in Keys :
                      vars[k] # None /\ vars'[k] \notin {vars[k], None} =>
                        \E p \in Importers : /\ pc[p] = "write" /\ next'[p] = next[p] + 1
                                             /\ flags[p].overwrite /\ ~flags[p].dryRun
<1>1. ASSUME Inv, [Next]_allVars PROVE [Asked]_allVars
  <2> SUFFICES ASSUME NEW k \in Keys, vars[k] # None, vars'[k] \notin {vars[k], None}
               PROVE  \E p \in Importers : /\ pc[p] = "write" /\ next'[p] = next[p] + 1
                                           /\ flags[p].overwrite /\ ~flags[p].dryRun
    OBVIOUS
  <2>0. Types
    BY <1>1 DEF Inv
  <2>1. ASSUME NEW j \in Keys, Delete(j) PROVE FALSE
    BY <2>0, <2>1 DEF Delete, Here, Types
  <2>2. PICK p \in Importers : Step(p)
    BY <1>1, <2>1 DEF Next, allVars, server
  <2>3. CASE Update(p) \/ Create(p) \/ CreateLost(p)
    <3>1. AtWrite(p) /\ ~flags[p].dryRun /\ pc[p] = "write"
      BY <2>3 DEF Update, Create, CreateLost, AtWrite
    <3>2. next[p] \in DOMAIN list[p]
      BY <2>0, <3>1, ItemTypes
    <3>3. \E trouble : Store(p, trouble)
      BY <2>3 DEF Update, Create, CreateLost
    <3>4. k = Item(p).key
      BY <2>0, <3>3 DEF Store, Here, Types
    <3>5. k \in Present
      BY DEF Present
    <3>6. Update(p) /\ Known(p)
      BY <2>3, <3>4, <3>5, <3>3, <2>0 DEF Create, CreateLost, Update
    <3>7. flags[p].overwrite
      BY <1>1, <3>1, <3>2, <3>6 DEF Inv, Checked, Known, Item
    <3>8. next'[p] = next[p] + 1
      BY <2>0, <3>4, <3>5, <3>6, AdvanceTypes DEF Update
    <3> QED
      BY <3>1, <3>7, <3>8
  <2>4. CASE ~(Update(p) \/ Create(p) \/ CreateLost(p))
    BY <2>2, <2>4 DEF Step, Start, Resolve, ResolveFails, CreateTarget, TargetLost, List, Report,
       Fail, Finish, server
  <2> QED
    BY <2>3, <2>4
<1> QED
  BY <1>1, Invariance, PTL DEF Spec, OverwriteNeedsFlag
-----------------------------------------------------------------------------
(* What a refusal rests on.                                                 *)

Upset == upset \in [Importers -> SUBSET {"lost", "rival", "hidden"}]

\* An import that nothing has upset comes to create the target only while there is
\* none, and meets in the loop only what it was told of and what it has written.
Cause(p) ==
    /\ pc[p] = "create target" /\ target => upset[p] # {}
    /\ pc[p] = "write" /\ upset[p] = {} =>
          \A k \in Present \ existing[p] :
             \E i \in 1..(next[p] - 1) : list[p][i].key = k
    /\ result[p] = "taken" => Repeats(list[p]) \/ upset[p] # {}

CauseInv == Inv /\ Upset /\ \A p \in Importers : Cause(p)

LEMMA UpsetsOthers ==
    ASSUME Types, Upset, NEW p \in Importers, NEW trouble \in SUBSET {"lost"}, Upsets(p, trouble)
    PROVE  /\ Upset' /\ upset'[p] = upset[p] \cup trouble
           /\ \A q \in Importers \ {p} :
                 upset[q] \subseteq upset'[q] /\ (pc[q] # "idle" => upset'[q] # {})
BY DEF Upset, Upsets

\* A step tells the others that are at work if it changes what they rely on.
LEMMA StepUpsets ==
    ASSUME Types, Upset, NEW p \in Importers, Step(p)
    PROVE  /\ Upset'
           /\ \A q \in Importers \ {p} :
                 /\ upset[q] \subseteq upset'[q]
                 /\ pc[q] # "idle" => upset'[q] # {} \/ UNCHANGED <<target, vars>>
<1>1. CASE Start(p)
  BY <1>1 DEF Start, Here, Upset, server
<1>2. CASE ResolveFails(p) \/ Report(p) \/ Fail(p) \/ Finish(p)
  BY <1>2 DEF ResolveFails, Report, Fail, Finish, server, history, Upset
<1>8. CASE Resolve(p)
  <2>1. PICK u \in SUBSET {"lost", "rival", "hidden"} : upset' = [upset EXCEPT ![p] = u]
    BY <1>8 DEF Resolve, Here, Upset
  <2> QED
    BY <1>8, <2>1 DEF Resolve, Upset, server
<1>3. CASE CreateTarget(p)
  BY <1>3, UpsetsOthers DEF CreateTarget, Upset
<1>4. CASE TargetLost(p)
  BY <1>4, UpsetsOthers DEF TargetLost
<1>5. CASE List(p)
  <2>1. PICK u \in SUBSET {"lost", "rival", "hidden"} : upset' = [upset EXCEPT ![p] = u]
    BY <1>5 DEF List, Here, Upset
  <2> QED
    BY <1>5, <2>1 DEF List, Upset, server
<1>6. CASE Update(p) \/ Create(p)
  <2>1. Upsets(p, {}) \/ UNCHANGED <<vars, upset>>
    BY <1>6 DEF Update, Create, Store
  <2> QED
    BY <1>6, <2>1, UpsetsOthers DEF Update, Create, Upset
<1>7. CASE CreateLost(p)
  BY <1>7, UpsetsOthers DEF CreateLost, Store
<1> QED
  BY <1>1, <1>2, <1>3, <1>4, <1>5, <1>6, <1>7, <1>8 DEF Step

LEMMA CauseOwn ==
    ASSUME CauseInv, NEW p \in Importers, Step(p)
    PROVE  Cause(p)'
<1>0. Types /\ Upset /\ Cause(p) /\ Written(p)
  BY DEF CauseInv, Inv
\* An import that ends in another way than refused, or has not come to the loop.
<1>a. ASSUME NEW r \in Results \ {"taken"}, End(p, r) PROVE Cause(p)'
  BY <1>0, <1>a, EndTypes DEF Cause
\* One that has dealt with an item.
<1>b. ASSUME AtWrite(p), Advance(p), UNCHANGED <<list, existing>>, upset'[p] = upset[p],
             UNCHANGED vars \/ vars' = [vars EXCEPT ![Item(p).key] = Item(p).value]
      PROVE  Cause(p)'
  <2>1. /\ pc[p] = "write" /\ pc'[p] = "write" /\ result'[p] = "none" /\ next'[p] = next[p] + 1
        /\ next[p] \in 1..Len(list[p]) /\ Len(list[p]) \in Nat
    BY <1>0, <1>b, AdvanceTypes, ItemTypes DEF AtWrite, Written
  <2>2. \A k \in Present' : k \in Present \/ k = list[p][next[p]].key
    BY <1>0, <1>b DEF Present, Types, Item
  <2>3. ASSUME upset'[p] = {}, NEW k \in Present' \ existing'[p]
        PROVE  \E i \in 1..(next'[p] - 1) : list'[p][i].key = k
    <3>1. CASE k = list[p][next[p]].key
      <4>1. next[p] \in 1..(next'[p] - 1)
        BY <2>1
      <4> QED
        BY <1>b, <3>1, <4>1
    <3>2. CASE k \in Present
      <4>1. PICK i \in 1..(next[p] - 1) : list[p][i].key = k
        BY <1>0, <1>b, <2>1, <2>3, <3>2 DEF Cause
      <4>2. i \in 1..(next'[p] - 1)
        BY <2>1
      <4> QED
        BY <1>b, <4>1, <4>2
    <3> QED
      BY <2>2, <3>1, <3>2
  <2> QED
    BY <2>1, <2>3 DEF Cause
<1>c. ASSUME AtWrite(p), Store(p, {}), Advance(p), Same PROVE Cause(p)'
  <2>1. vars' = [vars EXCEPT ![Item(p).key] = Item(p).value]
    BY <1>c DEF Store, Here
  <2>2. upset'[p] = upset[p]
    <3>1. Upsets(p, {})
      BY <1>c DEF Store
    <3>2. upset'[p] = upset[p] \cup {}
      BY <1>0, <3>1, UpsetsOthers
    <3> QED
      BY <3>2
  <2> QED
    BY <1>b, <1>c, <2>1, <2>2 DEF Same
<1>1. CASE Start(p)
  <2>1. pc'[p] = "resolve" /\ result'[p] = "none"
    BY <1>0, <1>1 DEF Start, Here, Types
  <2> QED
    BY <2>1 DEF Cause
<1>2. CASE Resolve(p)
  <2>1. CASE End(p, "would create")
    BY <1>a, <2>1 DEF Results
  <2>2. CASE Goto(p, "list")
    BY <1>0, <1>2, <2>2, GotoTypes DEF Resolve, Written, Cause, PCs
  <2>3. CASE Goto(p, "create target") /\ (target => upset'[p] # {})
    <3>1. result[p] = "none" /\ target' = target
      BY <1>0, <1>2 DEF Resolve, Written, server
    <3> QED
      BY <1>0, <2>3, <3>1, GotoTypes DEF Cause, PCs
  <2>4. PICK found \in {target, FALSE} :
          /\ IF found THEN Goto(p, "list")
             ELSE IF flags[p].dryRun THEN End(p, "would create")
             ELSE Goto(p, "create target")
          /\ upset' = [upset EXCEPT ![p] = upset[p] \cup (IF found = target THEN {} ELSE {"hidden"})]
    BY <1>2 DEF Resolve, Here
  <2>5. ~found => (target => upset'[p] # {})
    BY <1>0, <2>4 DEF Upset
  <2> QED
    BY <2>1, <2>2, <2>3, <2>4, <2>5
<1>3. CASE ResolveFails(p)
  BY <1>3, <1>a DEF ResolveFails, Results
<1>4. CASE CreateTarget(p)
  <2>0. pc[p] = "create target" /\ result[p] = "none"
    BY <1>0, <1>4 DEF CreateTarget, Written
  <2>1. CASE target
    <3>1. End(p, "taken") /\ upset' = upset /\ upset[p] # {}
      BY <1>0, <1>4, <2>0, <2>1 DEF CreateTarget, Cause
    <3> QED
      BY <1>0, <3>1, EndTypes DEF Cause, Results
  <2>2. CASE ~target
    BY <1>0, <1>4, <2>0, <2>2, GotoTypes DEF CreateTarget, Cause, PCs
  <2> QED
    BY <2>1, <2>2
<1>5. CASE TargetLost(p)
  <2>1. upset'[p] # {} /\ pc[p] = "create target" /\ result[p] = "none" /\ Again(p)
    BY <1>0, <1>5, UpsetsOthers DEF TargetLost, Written
  <2> QED
    BY <1>0, <2>1, AgainTypes DEF Cause
<1>6. CASE List(p)
  <2>1. result[p] = "none"
    BY <1>0, <1>6 DEF List, Written
  <2>2. PICK page \in SUBSET Present :
           /\ existing' = [existing EXCEPT ![p] = page]
           /\ upset' = [upset EXCEPT ![p] =
                           upset[p] \cup (IF page = Present THEN {} ELSE {"hidden"})]
    BY <1>6 DEF List, Here
  <2>3. existing'[p] = page /\ (page # Present => upset'[p] # {}) /\ Present' = Present
    BY <1>0, <1>6, <2>2 DEF Types, Upset, List, server, Present
  <2>4. CASE End(p, "duplicates")
    BY <1>a, <2>4 DEF Results
  <2>5. CASE Goto(p, "write")
    BY <1>0, <2>1, <2>3, <2>5, GotoTypes DEF Cause, PCs
  <2> QED
    BY <1>6, <2>4, <2>5 DEF List
<1>7. CASE Report(p)
  BY <1>7, <1>b DEF Report, Same, server, history
<1>8. CASE Update(p)
  <2>1. CASE Item(p).key \in Present
    BY <1>8, <1>c, <2>1 DEF Update
  <2>2. CASE Item(p).key \notin Present
    BY <1>8, <1>a, <2>2 DEF Update, Results
  <2> QED
    BY <2>1, <2>2
<1>9. CASE Create(p)
  <2>1. CASE Item(p).key \in Present
    <3>1. /\ End(p, "taken") /\ UNCHANGED <<upset, list>> /\ AtWrite(p) /\ pc[p] = "write"
          /\ Item(p).key \in Present \ existing[p]
      BY <1>9, <2>1 DEF Create, Same, Known, AtWrite
    <3>2. ASSUME upset[p] = {} PROVE Repeats(list[p])
      <4>1. PICK i \in 1..(next[p] - 1) : list[p][i].key = Item(p).key
        BY <1>0, <3>1, <3>2 DEF Cause
      <4>2. /\ next[p] \in 1..Len(list[p]) /\ Len(list[p]) \in Nat
            /\ DOMAIN list[p] = 1..Len(list[p])
        BY <1>0, <3>1, ItemTypes
      <4>3. i \in DOMAIN list[p] /\ next[p] \in DOMAIN list[p] /\ i # next[p]
        BY <4>2
      <4> QED
        BY <4>1, <4>3 DEF Repeats, Item
    <3> QED
      BY <1>0, <3>1, <3>2, EndTypes DEF Cause, Results
  <2>2. CASE Item(p).key \notin Present
    BY <1>9, <1>c, <2>2 DEF Create
  <2> QED
    BY <2>1, <2>2
<1>10. CASE CreateLost(p)
  <2>1. upset'[p] # {} /\ pc[p] = "write" /\ result[p] = "none" /\ Again(p)
    BY <1>0, <1>10, UpsetsOthers DEF CreateLost, Store, AtWrite, Written
  <2> QED
    BY <1>0, <2>1, AgainTypes DEF Cause
<1>11. CASE Fail(p)
  BY <1>11, <1>a DEF Fail, Results
<1>12. CASE Finish(p)
  BY <1>12, <1>a DEF Finish, Results
<1> QED
  BY <1>1, <1>2, <1>3, <1>4, <1>5, <1>6, <1>7, <1>8, <1>9, <1>10, <1>11, <1>12 DEF Step

LEMMA CauseStep == CauseInv /\ [Next]_allVars => CauseInv'
<1> SUFFICES ASSUME CauseInv, [Next]_allVars PROVE CauseInv'
  OBVIOUS
<1>0. Inv /\ Inv' /\ Types /\ Upset
  BY NextInv DEF CauseInv, Inv
<1>1. ASSUME NEW p \in Importers, Step(p) PROVE CauseInv'
  <2>1. Upset'
    BY <1>0, <1>1, StepUpsets
  <2>2. ASSUME NEW q \in Importers PROVE Cause(q)'
    <3>1. CASE q = p
      BY <1>1, <3>1, CauseOwn
    <3>2. CASE q # p
      <4>1. /\ pc'[q] = pc[q] /\ list'[q] = list[q] /\ next'[q] = next[q]
            /\ existing'[q] = existing[q] /\ result'[q] = result[q]
        BY <1>0, <1>1, <3>2, StepElsewhere
      <4>2. /\ upset[q] \subseteq upset'[q]
            /\ pc[q] # "idle" => upset'[q] # {} \/ UNCHANGED <<target, vars>>
        BY <1>0, <1>1, <3>2, StepUpsets
      <4>3. Cause(q)
        BY DEF CauseInv
      <4>4. result'[q] = "taken" => Repeats(list'[q]) \/ upset'[q] # {}
        BY <4>1, <4>2, <4>3 DEF Cause
      <4>5. CASE pc[q] = "idle" \/ upset'[q] # {}
        BY <4>1, <4>4, <4>5 DEF Cause
      <4>6. CASE upset'[q] = {} /\ UNCHANGED <<target, vars>>
        <5>1. upset[q] = {} /\ Present' = Present
          BY <4>2, <4>6 DEF Present
        <5> QED
          BY <4>1, <4>3, <4>4, <4>6, <5>1 DEF Cause
      <4> QED
        BY <4>2, <4>5, <4>6
    <3> QED
      BY <3>1, <3>2
  <2> QED
    BY <1>0, <2>1, <2>2 DEF CauseInv
<1>2. ASSUME NEW k \in Keys, Delete(k) PROVE CauseInv'
  <2>1. Present' \subseteq Present
    BY <1>0, <1>2 DEF Delete, Here, Present, Types
  <2> QED
    BY <1>0, <1>2, <2>1 DEF Delete, locals, history, CauseInv, Cause, Upset
<1>3. CASE UNCHANGED allVars
  BY <1>0, <1>3 DEF allVars, server, locals, history, CauseInv, Cause, Upset, Present
<1> QED
  BY <1>1, <1>2, <1>3 DEF Next

\* With --overwrite the server refuses a variable or the set only if the variable is
\* given twice, or if something has upset the import: an answer lost, a faster import,
\* or a page that left out a variable or the set.  This holds whatever the
\* interleaving and the length of a page.
THEOREM RefusalsHaveCause == Spec => []RefusedForCause
<1>1. Init => CauseInv
  BY InitInv DEF Init, CauseInv, Cause, Upset
<1>2. CauseInv => RefusedForCause
  BY DEF CauseInv, Cause, RefusedForCause
<1> QED
  BY <1>1, <1>2, CauseStep, PTL DEF Spec
=============================================================================
