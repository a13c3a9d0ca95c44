----------------------- MODULE AcceptanceLifecycleProofs -----------------------
(***************************************************************************)
(* Theorems about AcceptanceLifecycle, for every set of paths, documents   *)
(* and advisories, every calendar and every behaviour of the tools.        *)
(***************************************************************************)
EXTENDS AcceptanceLifecycle, TLAPS

--------------------------------------------------------------------------------
(* Typing.                                                                 *)

(* What the generator makes of a well-typed ledger is well-typed.          *)
LEMMA FreshTreeType ==
  ASSUME NEW ledger \in Ledger
  PROVE  freshTree(ledger) \in Tree
<1>1. suppressingRecords(ledger) \subseteq Paths
  BY DEF Ledger, suppressingRecords
<1>2. ASSUME NEW p \in DOMAIN ledger PROVE rowsOf(ledger[p]) \subseteq Row
  <2>1. ledger[p] \in Document
    BY LifecycleAssumption DEF LifecycleAssumption, Ledger
  <2>2. ledger[p].revisit.due \in Nat
    BY <2>1 DEF Document, Revisit
  <2> QED BY <2>1, <2>2 DEF rowsOf, Row
<1>3. ignoredVulns(ledger) \subseteq Row
  BY <1>2 DEF ignoredVulns, suppressingRecords
<1> QED BY <1>1, <1>3 DEF freshTree, Tree

(* A ledger is a function to documents on some of the paths.               *)
LEMMA LedgerElements ==
  ASSUME NEW ledger \in Ledger
  PROVE  /\ DOMAIN ledger \subseteq Paths
         /\ \A p \in DOMAIN ledger : ledger[p] \in Docs
BY DEF Ledger

(* A ledger stays one under an added, replaced or deleted record.          *)
LEMMA WrittenLedgerType ==
  ASSUME NEW ledger \in Ledger, NEW path \in Paths, NEW doc \in Docs
  PROVE  [p \in DOMAIN ledger \cup {path} |->
            IF p = path THEN doc ELSE ledger[p]] \in Ledger
<1> DEFINE P == DOMAIN ledger \cup {path}
           written == [p \in P |-> IF p = path THEN doc ELSE ledger[p]]
<1>1. P \in SUBSET Paths BY LedgerElements
<1>2. written \in [P -> Docs] BY LedgerElements
<1> HIDE DEF P, written
<1>3. written \in Ledger BY <1>1, <1>2 DEF Ledger
<1> QED BY <1>3 DEF written, P

LEMMA DeletedLedgerType ==
  ASSUME NEW ledger \in Ledger, NEW path
  PROVE  [p \in DOMAIN ledger \ {path} |-> ledger[p]] \in Ledger
<1> DEFINE P == DOMAIN ledger \ {path}
           rest == [p \in P |-> ledger[p]]
<1>1. P \in SUBSET Paths BY LedgerElements
<1>2. rest \in [P -> Docs] BY LedgerElements
<1> HIDE DEF P, rest
<1>3. rest \in Ledger BY <1>1, <1>2 DEF Ledger
<1> QED BY <1>3 DEF rest, P

(* A commit of a well-typed tree keeps the state well-typed.               *)
LEMMA CommitType ==
  ASSUME TypeOK, NEW tree \in Tree, Commit(tree)
  PROVE  TypeOK'
BY DEF TypeOK, Commit

(* The state of the lifecycle is always well-typed.                        *)
THEOREM TypeCorrect == Spec => []TypeOK
<1>1. Init => TypeOK
  <2> SUFFICES ASSUME Init PROVE TypeOK OBVIOUS
  <2>1. main \in Tree /\ branch \in Tree
    BY FreshTreeType, LifecycleAssumption DEF Init, LifecycleAssumption
  <2> QED BY <2>1, LifecycleAssumption DEF Init, TypeOK, LifecycleAssumption
<1>2. TypeOK /\ [Next]_vars => TypeOK'
  <2> SUFFICES ASSUME TypeOK, [Next]_vars PROVE TypeOK' OBVIOUS
  <2>0. branch.ledger \in Ledger /\ branch \in Tree /\ main \in Tree
    BY DEF TypeOK, Tree
  <2>1. ASSUME NEW path \in Paths, NEW doc \in Docs, WriteRecord(path, doc)
        PROVE  TypeOK'
    <3> DEFINE written == [p \in DOMAIN branch.ledger \cup {path} |->
                             IF p = path THEN doc ELSE branch.ledger[p]]
    <3>1. written \in Ledger BY <2>0, WrittenLedgerType
    <3>2. [branch EXCEPT !.ledger = written] \in Tree
      BY <2>0, <3>1 DEF Tree
    <3> QED BY <2>1, <3>2, CommitType DEF WriteRecord
  <2>2. ASSUME NEW path \in Paths, DeleteRecord(path) PROVE TypeOK'
    <3> DEFINE rest == [p \in DOMAIN branch.ledger \ {path} |-> branch.ledger[p]]
    <3>1. rest \in Ledger BY <2>0, DeletedLedgerType
    <3>2. [branch EXCEPT !.ledger = rest] \in Tree
      BY <2>0, <3>1 DEF Tree
    <3> QED BY <2>2, <3>2, CommitType DEF DeleteRecord
  <2>3. CASE WriteDialects
    BY <2>0, <2>3, FreshTreeType, CommitType DEF WriteDialects
  <2>4. CASE WriteDialectsInterrupted
    <3>1. [branch EXCEPT !.trivy = suppressingRecords(branch.ledger)] \in Tree
      BY <2>0, FreshTreeType DEF Tree, freshTree
    <3> QED BY <2>4, <3>1, CommitType DEF WriteDialectsInterrupted
  <2>5. ASSUME NEW rows \in HandRows, HandEditOsv(rows) PROVE TypeOK'
    <3>1. [branch EXCEPT !.osv = rows] \in Tree
      BY <2>0, LifecycleAssumption DEF Tree, LifecycleAssumption
    <3> QED BY <2>5, <3>1, CommitType DEF HandEditOsv
  <2>6. CASE Abandon
    BY <2>0, <2>6, CommitType DEF Abandon
  <2>7. ASSUME NEW check \in RequiredChecks, NEW report \in Reports,
               RunCheck(check, report)
        PROVE  TypeOK'
    BY <2>7, LifecycleAssumption DEF RunCheck, TypeOK, LifecycleAssumption
  <2>8. CASE Merge
    BY <2>8 DEF Merge, TypeOK
  <2>9. ASSUME NEW report \in Reports, RunMain(report) PROVE TypeOK'
    BY <2>9 DEF RunMain, TypeOK
  <2>10. CASE Tick
    BY <2>10, LifecycleAssumption DEF Tick, TypeOK, LifecycleAssumption
  <2>11. CASE Publish
    BY <2>11 DEF Publish, Republish, TypeOK
  <2>12. CASE Withdraw
    BY <2>12 DEF Withdraw, Republish, TypeOK
  <2>13. CASE UNCHANGED vars
    BY <2>13 DEF vars, TypeOK
  <2> QED
    BY <2>1, <2>2, <2>3, <2>4, <2>5, <2>6, <2>7, <2>8, <2>9, <2>10, <2>11,
       <2>12, <2>13 DEF Next
<1> QED BY <1>1, <1>2, PTL DEF Spec

--------------------------------------------------------------------------------
(* What the two static gates keep out of main.                             *)

StaticGates == {"drift", "revisit"} \subseteq RequiredChecks

(* The inductive invariant: main passes both gates, and a green mark on    *)
(* the branch is the gate's verdict on the branch as it now is.  Main      *)
(* alone is not inductive: Merge brings in whatever the branch holds.      *)
StaticInv ==
  /\ dialectCheck(main)
  /\ revisitGate(main.ledger)
  /\ "drift" \in green => dialectCheck(branch)
  /\ "revisit" \in green => revisitGate(branch.ledger)

(* A ledger that passes the revisit_by gate loads, so what is generated    *)
(* from it passes the drift check.                                         *)
LEMMA FreshTreePasses ==
  ASSUME NEW ledger, revisitGate(ledger)
  PROVE  dialectCheck(freshTree(ledger)) /\ revisitGate(freshTree(ledger).ledger)
<1>1. freshTree(ledger).ledger = ledger
  BY DEF freshTree
<1>2. loads(ledger)
  BY DEF loads, revisitGate, recordViolation
<1> QED BY <1>1, <1>2 DEF freshTree, dialectCheck

LEMMA CommitStatic ==
  ASSUME StaticInv, NEW tree, Commit(tree)
  PROVE  StaticInv'
BY DEF StaticInv, Commit

(* Under required drift and revisit_by checks the invariant is inductive.  *)
LEMMA StaticInvariant ==
  ASSUME StaticGates
  PROVE  Spec => []StaticInv
<1>1. Init => StaticInv
  BY FreshTreePasses, LifecycleAssumption DEF Init, StaticInv, LifecycleAssumption
<1>2. StaticInv /\ [Next]_vars => StaticInv'
  <2> SUFFICES ASSUME StaticInv, [Next]_vars PROVE StaticInv' OBVIOUS
  <2>1. ASSUME NEW path \in Paths, NEW doc \in Docs, WriteRecord(path, doc)
        PROVE  StaticInv'
    BY <2>1, CommitStatic DEF WriteRecord
  <2>2. ASSUME NEW path \in Paths, DeleteRecord(path) PROVE StaticInv'
    BY <2>2, CommitStatic DEF DeleteRecord
  <2>3. CASE WriteDialects
    BY <2>3, CommitStatic DEF WriteDialects
  <2>4. CASE WriteDialectsInterrupted
    BY <2>4, CommitStatic DEF WriteDialectsInterrupted
  <2>5. ASSUME NEW rows \in HandRows, HandEditOsv(rows) PROVE StaticInv'
    BY <2>5, CommitStatic DEF HandEditOsv
  <2>6. CASE Abandon
    BY <2>6, CommitStatic DEF Abandon
  <2>7. ASSUME NEW check \in RequiredChecks, NEW report \in Reports,
               RunCheck(check, report)
        PROVE  StaticInv'
    <3>1. check = "drift" =>
            (Outcome(check, branch, today, live, report) <=> dialectCheck(branch))
      BY DEF Outcome, Verdict, ScanChecks
    <3>2. check = "revisit" =>
            (Outcome(check, branch, today, live, report)
               <=> revisitGate(branch.ledger))
      BY DEF Outcome, Verdict, ScanChecks
    <3> QED BY <2>7, <3>1, <3>2 DEF RunCheck, StaticInv
  <2>8. CASE Merge
    BY <2>8 DEF Merge, StaticInv, StaticGates
  <2>9. ASSUME NEW report \in Reports, RunMain(report) PROVE StaticInv'
    BY <2>9 DEF RunMain, StaticInv
  <2>10. CASE Tick
    BY <2>10 DEF Tick, StaticInv
  <2>11. CASE Publish
    BY <2>11 DEF Publish, Republish, StaticInv
  <2>12. CASE Withdraw
    BY <2>12 DEF Withdraw, Republish, StaticInv
  <2>13. CASE UNCHANGED vars
    BY <2>13 DEF vars, StaticInv
  <2> QED
    BY <2>1, <2>2, <2>3, <2>4, <2>5, <2>6, <2>7, <2>8, <2>9, <2>10, <2>11,
       <2>12, <2>13 DEF Next
<1> QED BY <1>1, <1>2, PTL DEF Spec

(* With the drift check waited for, main's generated dialects are those of *)
(* main's ledger at all times.                                             *)
THEOREM DialectsStayFresh ==
  ASSUME StaticGates
  PROVE  Spec => []MainDialectsFresh
<1>1. StaticInv => MainDialectsFresh
  BY DEF StaticInv, dialectCheck, MainDialectsFresh
<1> QED BY <1>1, StaticInvariant, PTL

(* With the revisit_by gate waited for, every acceptance on main names how *)
(* it ends, at all times.                                                  *)
THEOREM LedgerStaysReviewed ==
  ASSUME StaticGates
  PROVE  Spec => []MainLedgerReviewed
<1>1. StaticInv /\ TypeOK => MainLedgerReviewed
  <2> SUFFICES ASSUME StaticInv, TypeOK PROVE MainLedgerReviewed OBVIOUS
  <2>1. DOMAIN main.ledger # {}
    BY DEF StaticInv, revisitGate
  <2>2. ASSUME NEW p \in DOMAIN main.ledger
        PROVE  /\ main.ledger[p].parses
               /\ \A st \in main.ledger[p].statements :
                    LET revisit == effectiveRevisitBy(main.ledger[p], st)
                    IN  /\ revisit.form \in SanctionedForms
                        /\ revisit.form = "standing" =>
                             effectiveEvidence(main.ledger[p], st) = "complete"
    <3> DEFINE doc == main.ledger[p]
    <3>1. ~recordViolation(doc)
      BY DEF StaticInv, revisitGate
    <3>2. doc \in Document
      BY LifecycleAssumption, LedgerElements
         DEF TypeOK, Tree, LifecycleAssumption
    <3>3. ASSUME NEW st \in doc.statements
          PROVE  LET revisit == effectiveRevisitBy(doc, st)
                 IN  /\ revisit.form \in SanctionedForms
                     /\ revisit.form = "standing" =>
                          effectiveEvidence(doc, st) = "complete"
      <4>1. effectiveRevisitBy(doc, st).form \in SanctionedForms \cup {"none"}
        BY <3>2, <3>3 DEF Document, Statement, Revisit, effectiveRevisitBy
      <4>2. [value |-> effectiveRevisitBy(doc, st),
             evidence |-> effectiveEvidence(doc, st)] \in inForcePairs(doc)
        BY <3>3 DEF inForcePairs
      <4>3. /\ effectiveRevisitBy(doc, st).form # "none"
            /\ effectiveRevisitBy(doc, st).form = "standing" =>
                 effectiveEvidence(doc, st) = "complete"
        BY <3>1, <4>2 DEF recordViolation
      <4> QED BY <4>1, <4>3
    <3>4. doc.parses
      BY <3>1 DEF recordViolation
    <3> QED BY <3>3, <3>4
  <2> QED BY <2>1, <2>2 DEF MainLedgerReviewed
<1> QED BY <1>1, StaticInvariant, TypeCorrect, PTL

(* What OSV is silent about on main is backed by a committed, unexpired,   *)
(* suppressing statement about repository packages.                        *)
THEOREM OsvSilenceIsBacked ==
  ASSUME StaticGates
  PROVE  Spec => []OsvIgnoreIsBacked
<1>1. MainDialectsFresh /\ TypeOK => OsvIgnoreIsBacked
  <2> SUFFICES ASSUME MainDialectsFresh, TypeOK,
                      NEW row \in main.osv, rowInForce(row, today)
               PROVE  \E p \in DOMAIN main.ledger :
                        /\ ~isRevisitOverdue(main.ledger[p].revisit, today)
                        /\ \E st \in main.ledger[p].statements :
                             /\ st.name = row.id
                             /\ st.status \in SuppressingStatuses
                             /\ \A purl \in st.purls :
                                  purl.type \notin {"deb", "generic"}
    BY DEF OsvIgnoreIsBacked
  <2>1. PICK p \in suppressingRecords(main.ledger) : row \in rowsOf(main.ledger[p])
    BY DEF MainDialectsFresh, ignoredVulns
  <2>2. PICK st \in main.ledger[p].statements :
          /\ st.status \in SuppressingStatuses
          /\ osvEmittable(st)
          /\ row = [id |-> st.name, until |-> main.ledger[p].revisit.due,
                    status |-> st.status]
    BY <2>1 DEF rowsOf
  <2>3. p \in DOMAIN main.ledger
    BY <2>1 DEF suppressingRecords
  <2>4. ~isRevisitOverdue(main.ledger[p].revisit, today)
    <3>1. main.ledger[p] \in Document
      BY <2>3, LifecycleAssumption, LedgerElements
         DEF TypeOK, Tree, LifecycleAssumption
    <3>2. main.ledger[p].revisit.due \in Nat
      BY <3>1 DEF Document, Revisit
    <3>3. today \in Nat
      BY DEF TypeOK
    <3> QED BY <2>2, <3>2, <3>3 DEF rowInForce, isRevisitOverdue
  <2>5. \A purl \in st.purls : purl.type \notin {"deb", "generic"}
    BY <2>2 DEF osvEmittable, OSV_SCANNED_PURL_TYPES
  <2> QED BY <2>2, <2>3, <2>4, <2>5
<1> QED BY <1>1, DialectsStayFresh, TypeCorrect, PTL

--------------------------------------------------------------------------------
(* What time and news can do to a verdict on main.                         *)

(* What is accepted on a later day was accepted on an earlier one.         *)
LEMMA ActiveIdsShrink ==
  ASSUME NEW ledger \in Ledger, NEW day \in Nat, NEW later \in Nat, day <= later
  PROVE  activeRecordIds(ledger, later) \subseteq activeRecordIds(ledger, day)
<1>1. ASSUME NEW d \in documents(ledger), ~isRevisitOverdue(d.revisit, later)
      PROVE  ~isRevisitOverdue(d.revisit, day)
  <2>1. d \in Document
    BY LifecycleAssumption, LedgerElements DEF documents, LifecycleAssumption
  <2>2. d.revisit.due \in Nat
    BY <2>1 DEF Document, Revisit
  <2> QED BY <1>1, <2>2 DEF isRevisitOverdue
<1> QED BY <1>1 DEF activeRecordIds

(* A later day never turns a verdict green on an unchanged tree.           *)
LEMMA VerdictsOnlyWorsen ==
  ASSUME NEW tree \in Tree, NEW db, NEW check \in Checks,
         NEW day \in Nat, NEW later \in Nat, day <= later,
         Verdict(check, tree, later, db)
  PROVE  Verdict(check, tree, day, db)
<1>1. CASE check = "npm"
  <2>1. activeRecordIds(tree.ledger, later) \subseteq activeRecordIds(tree.ledger, day)
    BY ActiveIdsShrink DEF Tree
  <2>2. npmGate(tree.ledger, later, db)
    BY <1>1 DEF Verdict
  <2>3. npmGate(tree.ledger, day, db)
    BY <2>1, <2>2 DEF npmGate, uncoveredAdvisories
  <2> QED BY <1>1, <2>3 DEF Verdict
<1>2. CASE check = "osv"
  <2>1. \A row \in tree.osv : rowInForce(row, later) => rowInForce(row, day)
    BY DEF Tree, Row, rowInForce
  <2>2. osvScan(tree.osv, later, db)
    BY <1>2 DEF Verdict
  <2>3. osvScan(tree.osv, day, db)
    BY <2>1, <2>2 DEF osvScan, osvIgnored
  <2> QED BY <1>2, <2>3 DEF Verdict
<1>3. CASE check = "grype"
  BY <1>3 DEF Verdict
<1>4. CASE check = "drift"
  BY <1>4 DEF Verdict
<1>5. CASE check = "revisit"
  BY <1>5 DEF Verdict
<1> QED BY <1>1, <1>2, <1>3, <1>4, <1>5 DEF Checks

(* The calendar never runs backwards.                                      *)
LEMMA DaysPass ==
  ASSUME TypeOK, [Next]_vars
  PROVE  today \in Nat /\ today' \in Nat /\ today <= today'
<1>1. today \in Nat BY DEF TypeOK
<1>2. CASE Tick BY <1>1, <1>2 DEF Tick
<1>3. CASE ~Tick
  <2>1. today' = today
    BY <1>3 DEF Next, vars, WriteRecord, DeleteRecord, WriteDialects,
       WriteDialectsInterrupted, HandEditOsv, Abandon, Commit, RunCheck, Merge,
       RunMain, Publish, Withdraw, Republish
  <2> QED BY <1>1, <2>1
<1> QED BY <1>2, <1>3

(* Time alone never clears a finding, on any gate.                         *)
THEOREM TimeOnlyReds == Spec => TimeNeverGreens
<1>1. TypeOK /\ [Next]_vars =>
        [ today' # today /\ main' = main /\ live' = live =>
            \A c \in Checks : Verdict(c, main, today', live) =>
                                Verdict(c, main, today, live) ]_vars
  <2> SUFFICES ASSUME TypeOK, [Next]_vars, NEW c \in Checks,
                      Verdict(c, main, today', live)
               PROVE  Verdict(c, main, today, live)
    OBVIOUS
  <2>1. main \in Tree BY DEF TypeOK
  <2> QED BY <2>1, DaysPass, VerdictsOnlyWorsen
<1> QED BY <1>1, TypeCorrect, PTL DEF Spec, TimeNeverGreens

(* Every gate asks something of each advisory, so more of them ask more.   *)
LEMMA MoreAdvisoriesAskMore ==
  ASSUME NEW tree, NEW day, NEW before, NEW after, before \subseteq after,
         NEW check \in Checks,
         check = "npm" => \A pkg \in DOMAIN npmAudit(before) :
                            npmAudit(after)[pkg] = npmAudit(before)[pkg],
         Verdict(check, tree, day, after)
  PROVE  Verdict(check, tree, day, before)
<1>1. CASE check = "npm"
  <2>1. DOMAIN npmAudit(before) \subseteq DOMAIN npmAudit(after)
    BY DEF npmAudit
  <2>2. npmGate(tree.ledger, day, after) BY <1>1 DEF Verdict
  <2>3. npmGate(tree.ledger, day, before)
    BY <1>1, <2>1, <2>2 DEF npmGate, uncoveredAdvisories
  <2> QED BY <1>1, <2>3 DEF Verdict
<1>2. CASE check = "osv"
  <2>1. osvScan(tree.osv, day, after) BY <1>2 DEF Verdict
  <2>2. osvScan(tree.osv, day, before) BY <2>1 DEF osvScan
  <2> QED BY <1>2, <2>2 DEF Verdict
<1>3. CASE check = "grype"
  <2>1. grypeFsGate(tree.ledger, after) BY <1>3 DEF Verdict
  <2>2. grypeFsGate(tree.ledger, before)
    BY <2>1 DEF grypeFsGate, uncoveredVulns
  <2> QED BY <1>3, <2>2 DEF Verdict
<1>4. CASE check \in {"drift", "revisit"} BY <1>4 DEF Verdict
<1> QED BY <1>1, <1>2, <1>3, <1>4 DEF Checks

(* News never clear a finding, but for a package that the npm gate already *)
(* reports.                                                                *)
THEOREM NewsOnlyReds == Spec => NewsNeverGreens
<1>1. TypeOK /\ [Next]_vars =>
        [ live' # live /\ main' = main /\ live \subseteq live' =>
            \A c \in Checks :
              /\ c = "npm" => \A pkg \in DOMAIN npmAudit(live) :
                                npmAudit(live')[pkg] = npmAudit(live)[pkg]
              /\ Verdict(c, main, today', live')
              => Verdict(c, main, today, live) ]_vars
  <2> SUFFICES ASSUME TypeOK, [Next]_vars, live \subseteq live',
                      NEW c \in Checks,
                      c = "npm" => \A pkg \in DOMAIN npmAudit(live) :
                                     npmAudit(live')[pkg] = npmAudit(live)[pkg],
                      Verdict(c, main, today', live')
               PROVE  Verdict(c, main, today, live)
    OBVIOUS
  <2>1. main \in Tree BY DEF TypeOK
  <2>2. Verdict(c, main, today', live) BY MoreAdvisoriesAskMore
  <2> QED BY <2>1, <2>2, DaysPass, VerdictsOnlyWorsen
<1> QED BY <1>1, TypeCorrect, PTL DEF Spec, NewsNeverGreens

--------------------------------------------------------------------------------
(* The time-boxed acceptance: what DatedReReds rests on besides fairness.  *)

accepting(pkg) == naming(npmAudit(live)[pkg])

(* Every document that accepts a package npm reports is overdue.           *)
Lapsed(pkg) ==
  /\ pkg \in DOMAIN npmAudit(live)
  /\ \A d \in accepting(pkg) : isRevisitOverdue(d.revisit, today)

(* A package whose acceptances are all overdue is not covered.             *)
LEMMA LapsedIsUncovered ==
  ASSUME NEW pkg, Lapsed(pkg)
  PROVE  ~npmGate(main.ledger, today, live)
<1> DEFINE audit == npmAudit(live)
<1>1. pkg \in DOMAIN audit BY DEF Lapsed
<1>2. ASSUME NEW id \in audit[pkg], id \in activeRecordIds(main.ledger, today)
      PROVE  FALSE
  <2>1. PICK d \in documents(main.ledger) :
          /\ ~isRevisitOverdue(d.revisit, today)
          /\ \E st \in d.statements : id \in statementIds(st)
    BY <1>2 DEF activeRecordIds
  <2>2. d \in accepting(pkg) BY <1>2, <2>1 DEF accepting, naming
  <2> QED BY <2>1, <2>2 DEF Lapsed
<1>3. pkg \in uncoveredAdvisories(audit, activeRecordIds(main.ledger, today))
  BY <1>1, <1>2 DEF uncoveredAdvisories
<1> QED BY <1>3 DEF npmGate

(* Once the last date has come, an acceptance by dated documents alone has *)
(* lapsed.                                                                 *)
LEMMA DatedLapses ==
  ASSUME NEW pkg \in DOMAIN npmAudit(live), OnlyDated(pkg),
         \A d \in accepting(pkg) : d.revisit.due <= today
  PROVE  Lapsed(pkg)
BY DEF OnlyDated, Lapsed, accepting, naming, isRevisitOverdue

(* A finding on main whose acceptances have all run out stays so for as    *)
(* long as main and the advisories stay as they are, and every run of main *)
(* whose tools report turns the npm job red.                               *)
THEOREM LapsedReReds ==
  Spec => [][ \A pkg \in DOMAIN npmAudit(live) :
                Lapsed(pkg) =>
                  /\ RunMain("complete") => "npm" \in mainRed'
                  /\ main' = main /\ live' = live => Lapsed(pkg)' ]_vars
<1>1. TypeOK /\ [Next]_vars =>
        \A pkg \in DOMAIN npmAudit(live) :
          Lapsed(pkg) =>
            /\ RunMain("complete") => "npm" \in mainRed'
            /\ main' = main /\ live' = live => Lapsed(pkg)'
  <2> SUFFICES ASSUME TypeOK, [Next]_vars,
                      NEW pkg \in DOMAIN npmAudit(live), Lapsed(pkg)
               PROVE  /\ RunMain("complete") => "npm" \in mainRed'
                      /\ main' = main /\ live' = live => Lapsed(pkg)'
    OBVIOUS
  <2>1. ASSUME RunMain("complete") PROVE "npm" \in mainRed'
    <3>1. ~Outcome("npm", main, today, live, "complete")
      BY LapsedIsUncovered DEF Outcome, Verdict, ScanChecks
    <3> QED BY <2>1, <3>1 DEF RunMain, Checks
  <2>2. ASSUME main' = main, live' = live PROVE Lapsed(pkg)'
    <3>1. ASSUME NEW d \in accepting(pkg) PROVE isRevisitOverdue(d.revisit, today')
      <4>1. d \in Document
        BY LifecycleAssumption, LedgerElements
        DEF accepting, naming, documents, TypeOK, Tree, LifecycleAssumption
      <4>2. d.revisit.due \in Nat BY <4>1 DEF Document, Revisit
      <4>3. isRevisitOverdue(d.revisit, today) BY DEF Lapsed
      <4> QED BY <4>2, <4>3, DaysPass DEF isRevisitOverdue
    <3>2. accepting(pkg)' = accepting(pkg) BY <2>2 DEF accepting, naming, documents
    <3> QED BY <2>2, <3>1, <3>2 DEF Lapsed
  <2> QED BY <2>1, <2>2
<1> QED BY <1>1, TypeCorrect, PTL DEF Spec

================================================================================
