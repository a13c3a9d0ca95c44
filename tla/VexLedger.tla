------------------------------- MODULE VexLedger -------------------------------
(***************************************************************************)
(* The `.vex/` ledger and the questions every consumer asks of it:         *)
(* .github/scripts/vex-ledger.ts, with the vocabulary of vex-revisit-gate. *)
(*                                                                         *)
(* A ledger is a partial function from record paths to documents.  Text is *)
(* abstracted to what the readers extract from it:                         *)
(*   - an identifier is already normalised (normId) and NoId stands for a  *)
(*     missing or unusable one;                                            *)
(*   - a revisit_by value keeps the shape of the JSON value, the form the  *)
(*     vocabulary parser assigns to its first two tokens, and the first    *)
(*     ISO date found ANYWHERE in it (0: none) -- three things the source  *)
(*     reads independently of each other;                                  *)
(*   - a purl's name includes its namespace, version "" is the wildcard.   *)
(* Statements of a document form a set: no consumer modelled here depends  *)
(* on their order.                                                         *)
(***************************************************************************)
EXTENDS Naturals

CONSTANTS
  Ids,      \* vulnerability identifiers, normalised
  CveIds,   \* those of the CVE namespace
  GhsaIds,  \* those of the GHSA namespace
  NoId,     \* an absent or unusable identifier
  Purls     \* package URLs that parse

Statuses == {"affected", "fixed", "not_affected", "under_investigation"}

SanctionedForms ==
  {"date", "image-rebuild", "upstream-issue", "advisory", "standing"}

(* A revisit_by value.  A dated form carries its date first, so the date   *)
(* found in it is the sanctioned one; any other text may still mention one.*)
Revisit ==
  { v \in [shape : {"absent", "null", "non-string", "text"},
           form  : SanctionedForms \cup {"none"},
           due   : Nat] :
      /\ v.shape # "text" => v.form = "none" /\ v.due = 0
      /\ v.form = "date" => v.due # 0 }

Evidence == {"absent", "defective", "complete"}

Statement ==
  [shape    : {"object", "string"},     \* the two shapes of `vulnerability`
   name     : Ids \cup {NoId},
   aliases  : SUBSET Ids,
   status   : Statuses,
   purls    : SUBSET Purls,
   revisit  : Revisit,
   evidence : Evidence]

Document ==
  [parses     : BOOLEAN,                \* FALSE: the file is not JSON
   statements : SUBSET Statement,
   revisit    : Revisit,
   evidence   : Evidence]

VexAssumption ==
  /\ CveIds \subseteq Ids
  /\ GhsaIds \subseteq Ids
  /\ NoId \notin Ids

--------------------------------------------------------------------------------
(* Reading a ledger.                                                       *)

(* The documents a tolerant consumer sees: readJson maps an unparsable     *)
(* file to undefined, and every ledger helper skips it.                    *)
documents(ledger) ==
  { ledger[p] : p \in { q \in DOMAIN ledger : ledger[q].parses } }

(* The ids a statement MATCHES: its name and aliases, object shape only.   *)
statementIds(st) ==
  IF st.shape = "object" THEN ({st.name} \ {NoId}) \cup st.aliases ELSE {}

(* The ONE id a statement is displayed under, in either shape.             *)
statementName(st) == st.name

(* Overdue on the day itself only.                                         *)
MutIsRevisitOverdue(revisit, now) == revisit.due # 0 /\ revisit.due = now

isRevisitOverdue(revisit, now) == revisit.due # 0 /\ revisit.due <= now

(* The matching ids of every document, overdue or not.                     *)
MutActiveRecordIds(ledger, now) ==
  UNION { statementIds(st) :
            st \in UNION { d.statements : d \in documents(ledger) } }

(* The matching ids of every document not overdue at DOCUMENT level.       *)
activeRecordIds(ledger, now) ==
  UNION { statementIds(st) :
            st \in UNION { d.statements :
              d \in { x \in documents(ledger) :
                        ~isRevisitOverdue(x.revisit, now) } } }

(* Surface-scoped acceptances, whatever their status and their date.       *)
recordAcceptances(ledger) ==
  { [ids |-> statementIds(st), purls |-> st.purls] :
      st \in { s \in UNION { d.statements : d \in documents(ledger) } :
                 statementIds(s) # {} /\ s.purls # {} } }

purlMatches(pattern, component) ==
  /\ pattern.type = component.type
  /\ pattern.name = component.name
  /\ pattern.version \in {"", component.version}
  /\ pattern.quals \subseteq component.quals

(* Id AND product on the same acceptance; a finding whose purl does not    *)
(* parse (the empty set) is never covered.                                 *)
isCovered(acceptances, ids, purls) ==
  \E a \in acceptances :
    /\ a.ids \cap ids # {}
    /\ \E pattern \in a.purls, component \in purls :
         purlMatches(pattern, component)

================================================================================
