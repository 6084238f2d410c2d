--------------------------- MODULE RetentionBudget ---------------------------
(***************************************************************************)
(* The retention budget of a workspace: a manager uploads a CSV file, the   *)
(* API validates and merges its lines, stores them as an import, matches    *)
(* them with the mirrored companies and deals and, unless told not to,      *)
(* makes the import the active one                                          *)
(* (src/apps/api/src/retention-budget.js).                                  *)
(*                                                                          *)
(* An upload is six steps that commit one by one: the transaction that      *)
(* inserts the import and its rows, the four statements of matchImport, and *)
(* the transaction that activates the import.  Another manager may act, a   *)
(* report may be read, and the upload may break off, between any two of     *)
(* them.                                                                    *)
(***************************************************************************)
EXTENDS Integers, Sequences, FiniteSets

CONSTANTS
  Imports,     \* identifiers an upload may get
  Uploaders,   \* managers acting at the same time
  Files,       \* CSV files: sequences of lines
  BudgetKeys,  \* company, product and month: what two lines are merged by
  NoKey,       \* the key of a line that cannot be parsed
  MaxMatches   \* bound: how often the mirrored CRM changes under the budget

\* A line names the key of a row and a value that is not negative.
Line == [key: BudgetKeys \cup {NoKey}, value: Nat]

ASSUME BudgetAssumption ==
  /\ IsFiniteSet(BudgetKeys) /\ NoKey \notin BudgetKeys
  /\ Files \subseteq Seq(Line)
  /\ MaxMatches \in Nat

VARIABLES
  imports,     \* Imports -> a row of retention_budget_imports with its rows
  found,       \* BudgetKeys -> the records the mirror holds for the key now
  uploader,    \* Uploaders -> where the manager's request is
  activated,   \* TRUE once some activation has committed
  orphaned,    \* TRUE once an upload activated an import that was gone
  moves        \* changes of the mirror so far

budgetVars == <<imports, found, uploader, activated, orphaned, moves>>

BadLine == [key |-> NoKey, value |-> 0]
MatchStates == {"unmatched", "company_matched", "deal_matched"}

\* The records of a key: its company, and a deal of that company with its product.
MirrorRecords == {"company", "deal"}

\* validateRetentionRows, before the first line.
NoLines == [rows |-> [k \in {} |-> 0], duplicates |-> 0, rejected |-> 0]

\* One line more: it is rejected, or added to the row of its key, or begins that row.
WithLine(merge, line) ==
  LET k == line.key
      known == k \in DOMAIN merge.rows
      row == IF known
               THEN [merge.rows[k] EXCEPT !.value = @ + line.value, !.count = @ + 1]
               ELSE [value |-> line.value, count |-> 1, match |-> "unmatched", seen |-> {}]
  IN IF k = NoKey THEN [merge EXCEPT !.rejected = @ + 1]
     ELSE [merge EXCEPT
             !.rows = [j \in DOMAIN @ \cup {k} |-> IF j = k THEN row ELSE @[j]],
             !.duplicates = @ + IF known THEN 1 ELSE 0]

\* The lines of a file are merged in their order.
Merged(file) ==
  LET merge[n \in 0 .. Len(file)] ==
        IF n = 0 THEN NoLines ELSE WithLine(merge[n - 1], file[n])
  IN merge[Len(file)]

\* The row of an import.  Two facts no column holds are kept beside it: counted,
\* its counter has been written; early, a manager activated it before that.
NewImport(status, file) ==
  [status |-> status, file |-> file, rows |-> Merged(file).rows, matched |-> 0,
   duplicates |-> Merged(file).duplicates, rejected |-> Merged(file).rejected,
   counted |-> FALSE, early |-> FALSE]
NoImport == NewImport("none", <<>>)
Present(i) == imports[i].status \notin {"none", "deleted"}
BudgetActive == {i \in Imports : imports[i].status = "active"}
IdleUpload == [at |-> "idle"]

BudgetInit ==
  /\ imports = [i \in Imports |-> NoImport]
  /\ found = [k \in BudgetKeys |-> {}]
  /\ uploader = [u \in Uploaders |-> IdleUpload]
  /\ activated = FALSE
  /\ orphaned = FALSE
  /\ moves = 0

\* Synchronization finds or archives the company or deal behind a key.
MirrorMoves(k, m) ==
  /\ moves < MaxMatches
  /\ found[k] # m
  /\ found' = [found EXCEPT ![k] = m]
  /\ moves' = moves + 1
  /\ UNCHANGED <<imports, uploader, activated, orphaned>>

\* POST imports: the transaction that stores the import and its rows.  A file
\* without one valid row is refused before it.
ImportRows(u, i, file, activate) ==
  /\ uploader[u] = IdleUpload
  /\ imports[i].status = "none"
  /\ DOMAIN Merged(file).rows # {}
  /\ imports' = [imports EXCEPT ![i] = NewImport("imported", file)]
  /\ uploader' = [uploader EXCEPT ![u] =
       [at |-> "stored", import |-> i, activate |-> activate]]
  /\ UNCHANGED <<found, activated, orphaned, moves>>

\* What the statements of matchImport make of the rows.  The companies are looked
\* up first; a deal only for a row that has its company; the status follows from
\* both, whatever the mirror holds by then.
CompaniesSeen(rows) ==
  [k \in DOMAIN rows |-> [rows[k] EXCEPT !.seen = found[k] \cap {"company"}]]
DealsSeen(rows) ==
  [k \in DOMAIN rows |-> [rows[k] EXCEPT !.seen =
     IF "company" \in @ THEN @ \cup (found[k] \cap {"deal"}) ELSE @]]
MatchOf(seen) == IF "deal" \in seen THEN "deal_matched"
                 ELSE IF "company" \in seen THEN "company_matched"
                 ELSE "unmatched"
WithStatus(rows) ==
  [k \in DOMAIN rows |-> [rows[k] EXCEPT !.match = MatchOf(rows[k].seen)]]
MatchedRows(rows) == {k \in DOMAIN rows : rows[k].match # "unmatched"}

\* The first two statements.  An import that was deleted meanwhile has no rows:
\* the statements touch nothing.
MatchCompanies(u) ==
  /\ uploader[u].at = "stored"
  /\ imports' = [imports EXCEPT ![uploader[u].import].rows = CompaniesSeen(@)]
  /\ uploader' = [uploader EXCEPT ![u].at = "companies"]
  /\ UNCHANGED <<found, activated, orphaned, moves>>

MatchDeals(u) ==
  /\ uploader[u].at = "companies"
  /\ imports' = [imports EXCEPT ![uploader[u].import].rows = DealsSeen(@)]
  /\ uploader' = [uploader EXCEPT ![u].at = "deals"]
  /\ UNCHANGED <<found, activated, orphaned, moves>>

\* The third statement returns the rows it has written; the matched ones are counted.
SetMatchStatus(u) ==
  /\ uploader[u].at = "deals"
  /\ LET i == uploader[u].import
         rows == WithStatus(imports[i].rows)
     IN /\ imports' = [imports EXCEPT ![i].rows = rows]
        /\ uploader' = [uploader EXCEPT ![u] =
             [at |-> "statused", import |-> i, activate |-> @.activate,
              matched |-> Cardinality(MatchedRows(rows))]]
  /\ UNCHANGED <<found, activated, orphaned, moves>>

\* The last statement writes the counter.
CountMatches(u) ==
  /\ uploader[u].at = "statused"
  /\ LET i == uploader[u].import IN
       /\ imports' = IF Present(i)
                       THEN [imports EXCEPT ![i].matched = uploader[u].matched,
                                            ![i].counted = TRUE]
                       ELSE imports
       /\ uploader' = [uploader EXCEPT ![u] =
            IF @.activate THEN [at |-> "matched", import |-> i] ELSE IdleUpload]
  /\ UNCHANGED <<found, activated, orphaned, moves>>

\* The two UPDATEs of an activation: every import of the workspace is made
\* inactive, then the chosen one active, when it is still there.
Activated(i) ==
  [j \in Imports |->
     IF j = i /\ Present(i) THEN [imports[j] EXCEPT !.status = "active"]
     ELSE IF imports[j].status = "active" THEN [imports[j] EXCEPT !.status = "archived"]
     ELSE imports[j]]

\* POST imports: the activation at the end of an upload.
ActivateUploaded(u) ==
  /\ uploader[u].at = "matched"
  /\ LET i == uploader[u].import IN
       /\ imports' = Activated(i)
       /\ orphaned' = (orphaned \/ ~Present(i))
       /\ activated' = (activated \/ Present(i))
  /\ uploader' = [uploader EXCEPT ![u] = IdleUpload]
  /\ UNCHANGED <<found, moves>>

\* The process dies or a statement fails, after any of the steps that have
\* committed; or the activation is rolled back: two activations lock
\* the imports in different orders, or one meets the unique index of the
\* active import.
UploadFails(u) ==
  /\ uploader[u] # IdleUpload
  /\ uploader' = [uploader EXCEPT ![u] = IdleUpload]
  /\ UNCHANGED <<imports, found, activated, orphaned, moves>>

\* POST imports/:importId/activate: the row is locked and known to exist, nothing
\* else is asked of it.
ActivateImport(u, i) ==
  /\ uploader[u] = IdleUpload
  /\ Present(i)
  /\ imports' = [Activated(i) EXCEPT ![i].early = @ \/ ~imports[i].counted]
  /\ activated' = TRUE
  /\ UNCHANGED <<found, uploader, orphaned, moves>>

\* Faulty variant of Deletable: a DELETE without AND active=FALSE.
DeletableAlways(i) == Present(i)

\* DELETE imports/:importId: only an import that is not the active one.
Deletable(i) == Present(i) /\ imports[i].status # "active"

DeleteImport(u, i) ==
  /\ uploader[u] = IdleUpload
  /\ Deletable(i)
  /\ imports' = [imports EXCEPT ![i] = NewImport("deleted", <<>>)]
  /\ UNCHANGED <<found, uploader, activated, orphaned, moves>>

\* buildRetentionBudgetReport: the active import is read first, with its counter,
\* its rows with queries of their own afterwards; without an active import the
\* report says that no budget is configured.
ReadActiveImport(u) ==
  /\ uploader[u] = IdleUpload
  /\ \E i \in BudgetActive :
       uploader' = [uploader EXCEPT ![u] =
         [at |-> "reading", import |-> i, matched |-> imports[i].matched]]
  /\ UNCHANGED <<imports, found, activated, orphaned, moves>>

ReadBudgetRows(u) ==
  /\ uploader[u].at = "reading"
  /\ LET rows == imports[uploader[u].import].rows IN
       uploader' = [uploader EXCEPT ![u] =
         [at |-> "answered", import |-> @.import, matched |-> @.matched,
          accounts |-> Cardinality(DOMAIN rows),
          unmatched |-> Cardinality(DOMAIN rows \ MatchedRows(rows))]]
  /\ UNCHANGED <<imports, found, activated, orphaned, moves>>

ReportIsRead(u) ==
  /\ uploader[u].at = "answered"
  /\ uploader' = [uploader EXCEPT ![u] = IdleUpload]
  /\ UNCHANGED <<imports, found, activated, orphaned, moves>>

BudgetNext ==
  \/ \E k \in BudgetKeys, m \in SUBSET MirrorRecords : MirrorMoves(k, m)
  \/ \E u \in Uploaders :
       \/ \E i \in Imports, f \in Files, a \in BOOLEAN : ImportRows(u, i, f, a)
       \/ MatchCompanies(u) \/ MatchDeals(u) \/ SetMatchStatus(u) \/ CountMatches(u)
       \/ ActivateUploaded(u)
       \/ UploadFails(u)
       \/ ReadActiveImport(u) \/ ReadBudgetRows(u) \/ ReportIsRead(u)
       \/ \E i \in Imports : ActivateImport(u, i) \/ DeleteImport(u, i)

BudgetSpec == BudgetInit /\ [][BudgetNext]_budgetVars

-----------------------------------------------------------------------------
\* Type correctness of the tables and of the managers' requests.
BudgetTypeOK ==
  /\ \A i \in Imports :
       /\ imports[i].status \in {"none", "imported", "active", "archived", "deleted"}
       /\ \A k \in DOMAIN imports[i].rows : /\ imports[i].rows[k].match \in MatchStates
                                             /\ imports[i].rows[k].seen \subseteq MirrorRecords
       /\ imports[i].matched \in 0..Cardinality(BudgetKeys)
  /\ found \in [BudgetKeys -> SUBSET MirrorRecords]
  /\ \A u \in Uploaders : uploader[u].at \in
       {"idle", "stored", "companies", "deals", "statused", "matched", "reading", "answered"}
  /\ activated \in BOOLEAN /\ orphaned \in BOOLEAN
  /\ moves \in 0..MaxMatches

\* One import at most is active; once one was activated there is always one,
\* except after an upload whose import another manager deleted between its
\* insertion and its activation (the code then retires the old budget and
\* activates nothing).
BudgetIsInForce ==
  /\ Cardinality(BudgetActive) <= 1
  /\ activated /\ ~orphaned => BudgetActive # {}

\* The lines of a key and the sum of their values.
LinesOf(file, k) == {n \in 1 .. Len(file) : file[n].key = k}
ValueOf(file, k) ==
  LET sum[n \in 0 .. Len(file)] ==
        IF n = 0 THEN 0 ELSE sum[n - 1] + IF file[n].key = k THEN file[n].value ELSE 0
  IN sum[Len(file)]

\* Every key has a row with the number and the sum of its lines, and every line
\* is the first of its row, a duplicate, or rejected.
IsExact(import) ==
  LET file == import.file IN
  /\ DOMAIN import.rows = {k \in BudgetKeys : LinesOf(file, k) # {}}
  /\ \A k \in DOMAIN import.rows : /\ import.rows[k].count = Cardinality(LinesOf(file, k))
                                   /\ import.rows[k].value = ValueOf(file, k)
  /\ Len(file) = Cardinality(DOMAIN import.rows) + import.duplicates + import.rejected

\* No line of a file that was accepted is lost or counted twice by the merge.
MergeIsExact == \A i \in Imports : Present(i) => IsExact(imports[i])

\* A report of an import that is still there counts all of its rows, and the
\* matched accounts of the import with the unmatched ones of the rows make them
\* up, although they are read apart and were written apart; except when a manager
\* had activated the import before its upload wrote the counter (which the code
\* does not refuse, and which lasts when that upload broke off).
ReportCountsRows ==
  \A u \in Uploaders : uploader[u].at = "answered" =>
    LET i == uploader[u].import IN
      Present(i) =>
        /\ uploader[u].accounts = Cardinality(DOMAIN imports[i].rows)
        /\ ~imports[i].early =>
              uploader[u].unmatched + uploader[u].matched = uploader[u].accounts

\* What a workspace may rely on.
BudgetStands == BudgetIsInForce /\ MergeIsExact /\ ReportCountsRows
=============================================================================
