--------------------------- MODULE DebianTrackerProofs ---------------------------
(***************************************************************************)
(* Theorems about DebianTracker, for any versions, payloads and ledgers.   *)
(***************************************************************************)
EXTENDS DebianTracker, FiniteSetTheorems, TLAPS

--------------------------------------------------------------------------------
(* The join key.                                                           *)

LEMMA ParsedVersion ==
  ASSUME NEW v
  PROVE  /\ parseDebianVersion(v).epoch \in Epochs \cup {""}
         /\ "" \notin Epochs /\ ZeroEpoch \in Epochs
BY TrackerAssumption DEF parseDebianVersion, TrackerAssumption

LEMMA SharedVersion ==
  ASSUME NEW v, NEW w
  PROVE  SourceVersions(v) \cap SourceVersions(w) # {} <=>
           /\ parseDebianVersion(v).base = parseDebianVersion(w).base
           /\ \E e \in Epochs : /\ parseDebianVersion(v).epoch \in {"", e}
                                /\ parseDebianVersion(w).epoch \in {"", e}
<1> DEFINE a == parseDebianVersion(v)
           b == parseDebianVersion(w)
           sv == { [epoch |-> e, base |-> a.base] : e \in { x \in Epochs : a.epoch \in {"", x} } }
           sw == { [epoch |-> e, base |-> b.base] : e \in { x \in Epochs : b.epoch \in {"", x} } }
<1>1. SourceVersions(v) = sv /\ SourceVersions(w) = sw
  BY DEF SourceVersions
<1> HIDE DEF a, b
<1>2. ASSUME sv \cap sw # {}
      PROVE  a.base = b.base /\ \E e \in Epochs : a.epoch \in {"", e} /\ b.epoch \in {"", e}
  <2>1. PICK s \in sv : s \in sw
    BY <1>2
  <2>2. PICK e \in Epochs : a.epoch \in {"", e} /\ s = [epoch |-> e, base |-> a.base]
    BY <2>1
  <2>3. PICK f \in Epochs : b.epoch \in {"", f} /\ s = [epoch |-> f, base |-> b.base]
    BY <2>1
  <2> HIDE DEF sv, sw
  <2>4. s.epoch = e /\ s.base = a.base
    BY <2>2
  <2>5. s.epoch = f /\ s.base = b.base
    BY <2>3
  <2>6. QED
    BY <2>2, <2>3, <2>4, <2>5
<1>3. ASSUME a.base = b.base, NEW e \in Epochs, a.epoch \in {"", e}, b.epoch \in {"", e}
      PROVE  sv \cap sw # {}
  <2>1. [epoch |-> e, base |-> a.base] \in sv /\ [epoch |-> e, base |-> a.base] \in sw
    BY <1>3
  <2>2. QED
    BY <2>1
<1>4. sv \cap sw # {} <=>
        a.base = b.base /\ \E e \in Epochs : a.epoch \in {"", e} /\ b.epoch \in {"", e}
  <2> HIDE DEF sv, sw
  <2>1. QED
    BY <1>2, <1>3
<1>5. QED
  BY <1>1, <1>4 DEF a, b

(* matchDebianVersion joins two texts exactly when they may name the same  *)
(* source version: neither is blank, a rebuild does not count, and an      *)
(* epoch one side lost is relaxed, two that differ are not.                *)
THEOREM MatchIsSameSource ==
  \A v, w : matchDebianVersion(v, w) <=> SameSource(v, w)
<1> SUFFICES ASSUME NEW v, NEW w PROVE matchDebianVersion(v, w) <=> SameSource(v, w)
  OBVIOUS
<1> DEFINE a == parseDebianVersion(v)
           b == parseDebianVersion(w)
<1>1. a.epoch \in Epochs \cup {""} /\ b.epoch \in Epochs \cup {""} /\ "" \notin Epochs
      /\ ZeroEpoch \in Epochs
  BY ParsedVersion
<1>2. SameSource(v, w) <=>
        /\ v # Blank /\ w # Blank /\ a.base = b.base
        /\ \E e \in Epochs : a.epoch \in {"", e} /\ b.epoch \in {"", e}
  BY SharedVersion DEF SameSource
<1>3. matchDebianVersion(v, w) <=>
        /\ v # Blank /\ w # Blank /\ a.base = b.base
        /\ epochsEqual(a, b) \/ a.epoch = "" \/ b.epoch = ""
  BY DEF matchDebianVersion
<1> HIDE DEF a, b
<1>4. (epochsEqual(a, b) \/ a.epoch = "" \/ b.epoch = "") <=>
        \E e \in Epochs : a.epoch \in {"", e} /\ b.epoch \in {"", e}
  BY <1>1 DEF epochsEqual
<1>5. QED
  BY <1>2, <1>3, <1>4

--------------------------------------------------------------------------------
(* One report.                                                             *)

LEMMA VerdictOfEntry ==
  ASSUME NEW e \in TrackerEntry
  PROVE  /\ entryVerdict(e) \in EntryBuckets
         /\ entryVerdict(e) = "FIXED-UPSTREAM" <=> HasFix(e)
         /\ entryVerdict(e) = "UNIMPORTANT-NO-FIX" <=> e.unimportant /\ ~HasFix(e)
         /\ entryVerdict(e) = "NO-DSA" <=> e.nodsa /\ ~e.unimportant /\ ~HasFix(e)
         /\ entryVerdict(e) = "OPEN-NO-FIX" <=> ~e.nodsa /\ ~e.unimportant /\ ~HasFix(e)
<1>1. /\ e.fixedVersion \in BOOLEAN /\ e.resolved \in BOOLEAN
      /\ e.unimportant \in BOOLEAN /\ e.nodsa \in BOOLEAN
  BY DEF TrackerEntry
<1>2. CASE HasFix(e)
  BY <1>1, <1>2 DEF entryVerdict, HasFix, EntryBuckets
<1>3. CASE ~HasFix(e) /\ e.unimportant
  BY <1>1, <1>3 DEF entryVerdict, HasFix, EntryBuckets
<1>4. CASE ~HasFix(e) /\ ~e.unimportant /\ e.nodsa
  BY <1>1, <1>4 DEF entryVerdict, HasFix, EntryBuckets
<1>5. CASE ~HasFix(e) /\ ~e.unimportant /\ ~e.nodsa
  BY <1>1, <1>5 DEF entryVerdict, HasFix, EntryBuckets
<1>6. QED
  BY <1>1, <1>2, <1>3, <1>4, <1>5

(* The candidates and the joined entries of a triple.                      *)
candidatesOf(payload, t) == indexTracker(payload, t.cve)
joinedOf(payload, t) ==
  { e \in candidatesOf(payload, t) : matchDebianVersion(t.purl.version, e.suiteVersion) }

LEMMA RowOfTriple ==
  ASSUME NEW payload, NEW t
  PROVE  LET row == classifyTriple(payload, t)
         IN  /\ row.triple = t
             /\ row.candidates = Cardinality(candidatesOf(payload, t))
             /\ row.bucket = bucketFor(candidatesOf(payload, t), joinedOf(payload, t))
             /\ \A e : (\E j \in row.joined : j.entry = e) <=> e \in joinedOf(payload, t)
             /\ \A j \in row.joined :
                  /\ j.entry \in joinedOf(payload, t)
                  /\ j = [entry |-> j.entry,
                          relaxation |-> relaxation(t.purl.version, j.entry.suiteVersion)]
<1> DEFINE joins == joinedOf(payload, t)
           with(e) == [entry |-> e, relaxation |-> relaxation(t.purl.version, e.suiteVersion)]
           row == [triple |-> t, candidates |-> Cardinality(candidatesOf(payload, t)),
                   joined |-> { with(e) : e \in joins },
                   bucket |-> bucketFor(candidatesOf(payload, t), joins)]
<1>1. classifyTriple(payload, t) = row
  BY DEF classifyTriple, candidatesOf, joinedOf
<1>2. \A e : with(e).entry = e
  OBVIOUS
<1> HIDE DEF joins, with
<1>3. /\ row.triple = t /\ row.candidates = Cardinality(candidatesOf(payload, t))
      /\ row.bucket = bucketFor(candidatesOf(payload, t), joins)
      /\ row.joined = { with(e) : e \in joins }
  OBVIOUS
<1> HIDE DEF row
<1>4. \A e : (\E j \in row.joined : j.entry = e) <=> e \in joins
  BY <1>2, <1>3
<1>5. \A j \in row.joined : j.entry \in joins /\ j = with(j.entry)
  BY <1>2, <1>3
<1>6. QED
  BY <1>1, <1>3, <1>4, <1>5 DEF joins, with

LEMMA Bucket ==
  ASSUME NEW candidates, candidates \subseteq TrackerEntry,
         NEW joined, joined \subseteq candidates
  PROVE  LET bucket == bucketFor(candidates, joined)
         IN  /\ bucket \in BUCKETS
             /\ bucket = "NO-CVE-IN-TRACKER" <=> candidates = {}
             /\ bucket = "NO-VERSION-MATCH" <=> candidates # {} /\ joined = {}
             /\ bucket \in EntryBuckets =>
                  joined # {} /\ \A e \in joined : entryVerdict(e) = bucket
<1> DEFINE bucket == bucketFor(candidates, joined)
<1>1. CASE joined = {}
  BY <1>1 DEF bucketFor, BUCKETS, EntryBuckets
<1>2. CASE \E d, e \in joined : entryVerdict(d) # entryVerdict(e)
  <2>1. bucket = "AMBIGUOUS" /\ candidates # {} /\ joined # {}
    BY <1>2 DEF bucketFor
  <2>2. QED
    BY <2>1 DEF BUCKETS, EntryBuckets
<1>3. CASE joined # {} /\ \A d, e \in joined : entryVerdict(d) = entryVerdict(e)
  <2> DEFINE first == CHOOSE e \in joined : TRUE
  <2>1. first \in joined /\ first \in TrackerEntry /\ candidates # {}
    BY <1>3
  <2>2. bucket = entryVerdict(first)
    BY <1>3, <2>1 DEF bucketFor
  <2> HIDE DEF first, bucket
  <2>3. bucket \in EntryBuckets /\ \A e \in joined : entryVerdict(e) = bucket
    BY <1>3, <2>1, <2>2, VerdictOfEntry
  <2>4. bucket \in BUCKETS /\ bucket # "NO-CVE-IN-TRACKER" /\ bucket # "NO-VERSION-MATCH"
    BY <2>3 DEF BUCKETS, EntryBuckets
  <2>5. QED
    BY <1>3, <2>1, <2>3, <2>4 DEF bucket
<1>4. QED
  BY <1>1, <1>2, <1>3

LEMMA TripleOfLedger ==
  ASSUME NEW l \in Ledgers, NEW t \in debTriples(l)
  PROVE  /\ t \in Triple /\ t.path \in DOMAIN l
         /\ \E st \in l[t.path].statements :
              st.cve = t.cve /\ \E p \in st.purls : p.debian /\ p.version = t.purl.version
<1>1. PICK path \in DOMAIN l : \E st \in l[path].statements : \E p \in st.purls :
        p.debian /\ t = [path |-> path, cve |-> st.cve, purl |-> [p EXCEPT !.spelling = "plain"]]
  BY DEF debTriples
<1>2. PICK st \in l[path].statements : \E p \in st.purls :
        p.debian /\ t = [path |-> path, cve |-> st.cve, purl |-> [p EXCEPT !.spelling = "plain"]]
  BY <1>1
<1>3. PICK p \in st.purls :
        p.debian /\ t = [path |-> path, cve |-> st.cve, purl |-> [p EXCEPT !.spelling = "plain"]]
  BY <1>2
<1>4. path \in Paths /\ l[path] \in Record
  BY TrackerAssumption DEF TrackerAssumption
<1>5. st \in [cve : Cves, purls : SUBSET Purl]
  BY <1>4 DEF Record
<1>6. st.cve \in Cves /\ p \in Purl
  BY <1>5
<1>7. /\ [p EXCEPT !.spelling = "plain"] \in Purl
      /\ [p EXCEPT !.spelling = "plain"].version = p.version
  BY <1>6 DEF Purl
<1>8. /\ t.path = path /\ t.cve = st.cve /\ t.purl = [p EXCEPT !.spelling = "plain"]
      /\ t \in Triple
  BY <1>3, <1>4, <1>6, <1>7 DEF Triple
<1>9. QED
  BY <1>3, <1>7, <1>8

LEMMA Candidates ==
  ASSUME NEW payload \in Payloads, NEW t
  PROVE  /\ candidatesOf(payload, t) \subseteq TrackerEntry
         /\ candidatesOf(payload, t) \subseteq payload
         /\ joinedOf(payload, t) \subseteq candidatesOf(payload, t)
         /\ Cardinality(candidatesOf(payload, t)) \in Nat
<1>1. payload \subseteq TrackerEntry /\ IsFiniteSet(payload)
  BY TrackerAssumption DEF TrackerAssumption
<1>2. candidatesOf(payload, t) \subseteq payload
  BY DEF candidatesOf, indexTracker
<1>3. Cardinality(candidatesOf(payload, t)) \in Nat
  BY <1>1, <1>2, FS_Subset, FS_CardinalityType
<1>4. QED
  BY <1>1, <1>2, <1>3 DEF joinedOf

LEMMA RowType ==
  ASSUME NEW payload \in Payloads, NEW t \in Triple
  PROVE  classifyTriple(payload, t) \in Row
<1> DEFINE row == classifyTriple(payload, t)
<1>1. /\ row.triple = t /\ row.candidates \in Nat
      /\ row.bucket = bucketFor(candidatesOf(payload, t), joinedOf(payload, t))
      /\ \A j \in row.joined :
           /\ j.entry \in TrackerEntry
           /\ j = [entry |-> j.entry,
                   relaxation |-> relaxation(t.purl.version, j.entry.suiteVersion)]
  BY RowOfTriple, Candidates
<1>2. row.bucket \in BUCKETS
  BY <1>1, Bucket, Candidates
<1>3. \A j \in row.joined : j \in [entry : TrackerEntry, relaxation : VersionRelaxation]
  <2>1. \A v, w : relaxation(v, w) \in VersionRelaxation
    BY DEF relaxation, VersionRelaxation
  <2>2. QED
    BY <1>1, <2>1
<1>4. row = [triple |-> row.triple, candidates |-> row.candidates, joined |-> row.joined,
             bucket |-> row.bucket]
  BY DEF classifyTriple
<1> HIDE DEF row
<1>5. row \in Row
  BY <1>1, <1>2, <1>3, <1>4 DEF Row
<1>6. QED
  BY <1>5 DEF row

LEMMA RowSpeaks ==
  ASSUME NEW payload \in Payloads, NEW t
  PROVE  LET row == classifyTriple(payload, t)
             known == { e \in payload : e.suite = DEBIAN_SUITE /\ e.cve = row.triple.cve }
             apt == { e \in known : SameSource(row.triple.purl.version, e.suiteVersion) }
         IN  /\ row.bucket = "NO-CVE-IN-TRACKER" <=> known = {}
             /\ row.bucket = "NO-VERSION-MATCH" <=> known # {} /\ apt = {}
             /\ row.bucket = "FIXED-UPSTREAM" => \A e \in apt : HasFix(e)
             /\ row.bucket = "UNIMPORTANT-NO-FIX" => \A e \in apt : e.unimportant /\ ~HasFix(e)
             /\ row.bucket = "NO-DSA" => \A e \in apt : e.nodsa /\ ~e.unimportant /\ ~HasFix(e)
             /\ row.bucket = "OPEN-NO-FIX" =>
                  \A e \in apt : ~e.nodsa /\ ~e.unimportant /\ ~HasFix(e)
<1> DEFINE row == classifyTriple(payload, t)
           known == candidatesOf(payload, t)
           apt == joinedOf(payload, t)
<1>1. row.triple = t /\ row.bucket = bucketFor(known, apt)
  BY RowOfTriple
<1>2. known = { e \in payload : e.suite = DEBIAN_SUITE /\ e.cve = row.triple.cve }
  BY <1>1 DEF candidatesOf, indexTracker
<1>3. apt = { e \in known : SameSource(row.triple.purl.version, e.suiteVersion) }
  BY <1>1, MatchIsSameSource DEF joinedOf
<1>4. apt \subseteq known /\ known \subseteq TrackerEntry
  BY Candidates
<1> HIDE DEF known, apt, row
<1>5. /\ row.bucket = "NO-CVE-IN-TRACKER" <=> known = {}
      /\ row.bucket = "NO-VERSION-MATCH" <=> known # {} /\ apt = {}
      /\ row.bucket \in EntryBuckets => \A e \in apt : entryVerdict(e) = row.bucket
  BY <1>1, <1>4, Bucket
<1>6. /\ row.bucket = "FIXED-UPSTREAM" => \A e \in apt : HasFix(e)
      /\ row.bucket = "UNIMPORTANT-NO-FIX" => \A e \in apt : e.unimportant /\ ~HasFix(e)
      /\ row.bucket = "NO-DSA" => \A e \in apt : e.nodsa /\ ~e.unimportant /\ ~HasFix(e)
      /\ row.bucket = "OPEN-NO-FIX" => \A e \in apt : ~e.nodsa /\ ~e.unimportant /\ ~HasFix(e)
  BY <1>4, <1>5, VerdictOfEntry DEF EntryBuckets
<1>7. QED
  BY <1>2, <1>3, <1>5, <1>6 DEF row

LEMMA PremiseHolds ==
  ASSUME NEW payload \in Payloads, NEW l \in Ledgers, NEW path \in DOMAIN l,
         premiseFor(l[path].evidence,
                    { row \in classifyTriples(payload, l) : row.triple.path = path }) = "holds"
  PROVE  \E e \in payload, st \in l[path].statements :
            /\ e.sourcePackage = l[path].evidence.source_package
            /\ e.suite = l[path].evidence.suite
            /\ e.unimportant /\ ~HasFix(e)
            /\ e.cve = st.cve
            /\ \E p \in st.purls : p.debian /\ SameSource(p.version, e.suiteVersion)
<1> DEFINE rows == { row \in classifyTriples(payload, l) : row.triple.path = path }
<1>1. /\ \A row \in rows : row.bucket = "UNIMPORTANT-NO-FIX"
      /\ l[path].evidence.suite = DEBIAN_SUITE
      /\ \E row \in rows : \E j \in row.joined :
           j.entry.sourcePackage = l[path].evidence.source_package
  BY DEF premiseFor
<1>2. PICK row \in rows :
        /\ row.bucket = "UNIMPORTANT-NO-FIX"
        /\ \E j \in row.joined : j.entry.sourcePackage = l[path].evidence.source_package
  BY <1>1
<1>3. PICK t \in debTriples(l) : row = classifyTriple(payload, t)
  BY <1>2 DEF classifyTriples
<1>4. row.triple = t /\ t.path = path
  BY <1>2, <1>3, RowOfTriple
<1>5. PICK e \in joinedOf(payload, t) : e.sourcePackage = l[path].evidence.source_package
  BY <1>2, <1>3, RowOfTriple
<1>6. /\ e \in payload /\ e \in TrackerEntry /\ e.suite = DEBIAN_SUITE /\ e.cve = t.cve
      /\ SameSource(t.purl.version, e.suiteVersion)
  BY <1>5, Candidates, MatchIsSameSource DEF joinedOf, candidatesOf, indexTracker
<1>7. e.unimportant /\ ~HasFix(e)
  BY <1>2, <1>3, <1>4, <1>6, RowSpeaks
<1>8. PICK st \in l[path].statements :
        st.cve = t.cve /\ \E p \in st.purls : p.debian /\ p.version = t.purl.version
  BY <1>4, TripleOfLedger
<1>9. QED
  BY <1>1, <1>5, <1>6, <1>7, <1>8

LEMMA FixStateIsInformed ==
  ASSUME NEW bucket, NEW claims
  PROVE  LET saysNone == \E c \in claims : c.state \in NO_FIX_STATES
             saysFixed == \E c \in claims : c.state = "fixed"
         IN  /\ corroborate(bucket, claims) \in {"agree", "conflict", "no-scanner-data"}
             /\ corroborate(bucket, claims) = "agree" =>
                  IF bucket = "FIXED-UPSTREAM" THEN saysFixed /\ ~saysNone
                  ELSE saysNone /\ ~saysFixed
             /\ corroborate(bucket, claims) = "conflict" =>
                  IF bucket = "FIXED-UPSTREAM" THEN saysNone ELSE saysFixed
<1>1. "fixed" \notin NO_FIX_STATES
  BY DEF NO_FIX_STATES
<1>2. QED
  BY <1>1 DEF corroborate

--------------------------------------------------------------------------------
(* The rows of a record and its acceptances, counted.                      *)

LEMMA FiniteRange ==
  ASSUME NEW S, IsFiniteSet(S), NEW f
  PROVE  IsFiniteSet({ f[x] : x \in S })
<1> DEFINE T == { f[x] : x \in S }
           g == [x \in S |-> f[x]]
<1>1. g \in Surjection(S, T)
  BY DEF Surjection
<1> HIDE DEF g, T
<1>2. IsFiniteSet(T)
  BY <1>1, FS_Surjection
<1>3. QED
  BY <1>2 DEF T

debianOf(st) == { q \in st.purls : q.debian }
acceptedBy(st) == { <<st.cve, p.name, p.version>> : p \in debianOf(st) }
acceptancesOf(rec) == UNION { acceptedBy(st) : st \in rec.statements }
tripleOf(path, a) ==
  [path |-> path, cve |-> a[1],
   purl |-> [debian |-> TRUE, name |-> a[2], version |-> a[3], spelling |-> "plain"]]

LEMMA AcceptancesAreFinite ==
  ASSUME NEW l \in Ledgers, NEW path \in DOMAIN l
  PROVE  IsFiniteSet(acceptancesOf(l[path]))
<1> DEFINE stmts == l[path].statements
<1>1. IsFiniteSet(stmts) /\ \A st \in stmts : IsFiniteSet(st.purls)
  BY TrackerAssumption DEF TrackerAssumption
<1>2. \A st \in stmts : IsFiniteSet(acceptedBy(st))
  <2> SUFFICES ASSUME NEW st \in stmts PROVE IsFiniteSet(acceptedBy(st))
    OBVIOUS
  <2> DEFINE named == [p \in debianOf(st) |-> <<st.cve, p.name, p.version>>]
  <2>1. IsFiniteSet(debianOf(st))
    BY <1>1, FS_Subset DEF debianOf
  <2>2. IsFiniteSet({ named[p] : p \in debianOf(st) })
    <3> HIDE DEF named
    <3>1. QED
      BY <2>1, FiniteRange
  <2>3. acceptedBy(st) = { named[p] : p \in debianOf(st) }
    BY DEF acceptedBy
  <2>4. QED
    BY <2>2, <2>3
<1> DEFINE accepted == [st \in stmts |-> acceptedBy(st)]
<1>3. IsFiniteSet({ accepted[st] : st \in stmts })
  <2> HIDE DEF accepted
  <2>1. QED
    BY <1>1, FiniteRange
<1>4. acceptancesOf(l[path]) = UNION { accepted[st] : st \in stmts }
  BY DEF acceptancesOf
<1>5. \A T \in { accepted[st] : st \in stmts } : IsFiniteSet(T)
  BY <1>2
<1> HIDE DEF accepted
<1>6. QED
  BY <1>3, <1>4, <1>5, FS_UNION

LEMMA PlainSpelling ==
  ASSUME NEW D,
         NEW p \in [debian : D, name : Names, version : VersionText,
                    spelling : {"plain", "encoded", "qualified"}]
  PROVE  [p EXCEPT !.spelling = "plain"] =
           [debian |-> p.debian, name |-> p.name, version |-> p.version, spelling |-> "plain"]
OBVIOUS

(* Spelling is all a purl loses on its way into a triple.                  *)
LEMMA TriplesOfRecord ==
  ASSUME NEW l \in Ledgers, NEW path \in DOMAIN l
  PROVE  { t \in debTriples(l) : t.path = path } =
           { tripleOf(path, a) : a \in acceptancesOf(l[path]) }
<1> DEFINE spelled(where, st, p) ==
             [path |-> where, cve |-> st.cve, purl |-> [p EXCEPT !.spelling = "plain"]]
<1>1. ASSUME NEW where \in DOMAIN l, NEW st \in l[where].statements, NEW p \in debianOf(st)
      PROVE  /\ spelled(where, st, p) = tripleOf(where, <<st.cve, p.name, p.version>>)
             /\ spelled(where, st, p).path = where
  <2>1. st \in [cve : Cves, purls : SUBSET Purl]
    BY TrackerAssumption DEF TrackerAssumption, Record
  <2>2. p \in Purl /\ p.debian
    BY <2>1 DEF debianOf
  <2>3. [p EXCEPT !.spelling = "plain"] =
          [debian |-> TRUE, name |-> p.name, version |-> p.version, spelling |-> "plain"]
    <3>1. p.debian = TRUE
      BY <2>2, Zenon DEF Purl
    <3>2. [p EXCEPT !.spelling = "plain"] =
            [debian |-> p.debian, name |-> p.name, version |-> p.version, spelling |-> "plain"]
      BY <2>2, PlainSpelling, Zenon DEF Purl
    <3>3. QED
      BY <3>1, <3>2
  <2>4. QED
    BY <2>3 DEF tripleOf
<1>2. \A t : t \in debTriples(l) <=>
        \E where \in DOMAIN l : \E st \in l[where].statements : \E p \in debianOf(st) :
          t = spelled(where, st, p)
  BY DEF debTriples, debianOf
<1>3. \A a : a \in acceptancesOf(l[path]) <=>
        \E st \in l[path].statements : \E p \in debianOf(st) : a = <<st.cve, p.name, p.version>>
  BY DEF acceptancesOf, acceptedBy
<1> HIDE DEF spelled
<1>4. ASSUME NEW t \in debTriples(l), t.path = path
      PROVE  \E a \in acceptancesOf(l[path]) : t = tripleOf(path, a)
  <2>1. PICK where \in DOMAIN l : \E st \in l[where].statements : \E p \in debianOf(st) :
          t = spelled(where, st, p)
    BY <1>2, <1>4
  <2>2. PICK st \in l[where].statements : \E p \in debianOf(st) : t = spelled(where, st, p)
    BY <2>1
  <2>3. PICK p \in debianOf(st) : t = spelled(where, st, p)
    BY <2>2
  <2>4. where = path /\ t = tripleOf(path, <<st.cve, p.name, p.version>>)
    BY <1>1, <1>4, <2>3
  <2>5. <<st.cve, p.name, p.version>> \in acceptancesOf(l[path])
    BY <1>3, <2>4
  <2>6. QED
    BY <2>4, <2>5
<1>5. ASSUME NEW a \in acceptancesOf(l[path])
      PROVE  tripleOf(path, a) \in debTriples(l) /\ tripleOf(path, a).path = path
  BY <1>1, <1>2, <1>3
<1>6. QED
  BY <1>4, <1>5

LEMMA RowsOfRecord ==
  ASSUME NEW payload \in Payloads, NEW l \in Ledgers, NEW path \in DOMAIN l
  PROVE  Cardinality({ row \in classifyTriples(payload, l) : row.triple.path = path }) =
           Cardinality(acceptancesOf(l[path]))
<1> DEFINE acc == acceptancesOf(l[path])
           rows == { row \in classifyTriples(payload, l) : row.triple.path = path }
           f == [a \in acc |-> classifyTriple(payload, tripleOf(path, a))]
<1>1. \A row : row \in rows <=>
        \E t \in debTriples(l) : t.path = path /\ row = classifyTriple(payload, t)
  BY RowOfTriple DEF classifyTriples
<1>2. \A row : row \in rows <=> \E a \in acc : row = f[a]
  BY <1>1, TriplesOfRecord
<1>3. \A a \in acc : f[a].triple = tripleOf(path, a)
  BY RowOfTriple
<1>4. \A a \in acc : a = <<a[1], a[2], a[3]>>
  BY DEF acceptancesOf, acceptedBy
<1>5. \A a, b \in acc : f[a] = f[b] => a = b
  <2> SUFFICES ASSUME NEW a \in acc, NEW b \in acc, f[a] = f[b] PROVE a = b
    OBVIOUS
  <2>1. tripleOf(path, a) = tripleOf(path, b)
    BY <1>3
  <2>2. /\ tripleOf(path, a).cve = tripleOf(path, b).cve
        /\ tripleOf(path, a).purl.name = tripleOf(path, b).purl.name
        /\ tripleOf(path, a).purl.version = tripleOf(path, b).purl.version
    BY <2>1
  <2>3. a[1] = b[1] /\ a[2] = b[2] /\ a[3] = b[3]
    BY <2>2 DEF tripleOf
  <2>4. QED
    BY <1>4, <2>3
<1>6. DOMAIN f = acc /\ f = [a \in acc |-> f[a]]
  OBVIOUS
<1> HIDE DEF f, rows, acc
<1>7. f \in [acc -> rows]
  BY <1>2, <1>6
<1>8. f \in Bijection(acc, rows)
  BY <1>2, <1>5, <1>7 DEF Bijection, Injection, Surjection, IsInjective
<1>9. IsFiniteSet(acc)
  BY AcceptancesAreFinite DEF acc
<1>10. Cardinality(rows) = Cardinality(acc)
  BY <1>8, <1>9, FS_Bijection DEF ExistsBijection
<1>11. QED
  BY <1>10 DEF rows, acc

--------------------------------------------------------------------------------
(* The job: a report is the join of a payload that was published with a    *)
(* ledger that was main's, after a green run that run's own.               *)

JobOK(j) ==
  /\ j = [phase |-> j.phase, ledger |-> j.ledger, payload |-> j.payload]
  /\ j.phase \in {"none", "checked out", "fetched", "red", "green"}
  /\ j.phase # "none" => j.ledger \in Ledgers
  /\ j.phase \in {"fetched", "green"} => j.payload \in Payloads

ReportOK(r) ==
  /\ r.rows \subseteq Row
  /\ r.fixState \in [r.rows -> {"agree", "conflict", "no-scanner-data"}]
  /\ r.claims \subseteq FixStateClaim
  /\ DOMAIN r.counts = BUCKETS
  /\ r.premises \in Premises

Informed(r) ==
  \A row \in r.rows :
    LET about == { c \in r.claims : c.id = row.triple.cve }
        saysNone == \E c \in about : c.state \in NO_FIX_STATES
        saysFixed == \E c \in about : c.state = "fixed"
    IN  /\ r.fixState[row] = "agree" =>
             IF row.bucket = "FIXED-UPSTREAM" THEN saysFixed /\ ~saysNone ELSE saysNone /\ ~saysFixed
        /\ r.fixState[row] = "conflict" =>
             IF row.bucket = "FIXED-UPSTREAM" THEN saysNone ELSE saysFixed

TrackerInv ==
  /\ tracker \in Payloads /\ ledger \in Ledgers /\ changes \in 0..Changes
  /\ JobOK(job) /\ ReportOK(report) /\ Informed(report)
  /\ job.phase = "green" =>
       \E claims \in Scans : report = Report(job.payload, job.ledger, claims)

LEMMA ReportIsTyped ==
  ASSUME NEW payload \in Payloads, NEW l \in Ledgers, NEW claims \in Scans
  PROVE  ReportOK(Report(payload, l, claims)) /\ Informed(Report(payload, l, claims))
<1> DEFINE r == Report(payload, l, claims)
           rows == classifyTriples(payload, l)
           state(row) == corroborate(row.bucket, { c \in claims : c.id = row.triple.cve })
<1>1. /\ r.rows = rows
      /\ r.fixState = [row \in rows |-> state(row)]
      /\ r.claims = claims
      /\ r.counts = bucketCounts(rows)
      /\ r.premises = standingPremises(l, rows)
  BY DEF Report
<1>2. rows \subseteq Row
  BY TripleOfLedger, RowType DEF classifyTriples
<1> HIDE DEF rows, r
<1>3. r.fixState \in [rows -> {"agree", "conflict", "no-scanner-data"}]
  <2>1. \A row : state(row) \in {"agree", "conflict", "no-scanner-data"}
    BY FixStateIsInformed
  <2> HIDE DEF state
  <2>2. QED
    BY <1>1, <2>1
<1>4. claims \subseteq FixStateClaim
  BY TrackerAssumption DEF TrackerAssumption
<1>5. DOMAIN r.counts = BUCKETS
  BY <1>1 DEF bucketCounts
<1>6. r.premises \in Premises
  <2> DEFINE ps == { p \in DOMAIN l : l[p].standing }
  <2>1. ps \in SUBSET Paths
    BY TrackerAssumption DEF TrackerAssumption
  <2>2. \A e, rs : premiseFor(e, rs) \in {"holds", "stale", "unverifiable"}
    BY DEF premiseFor
  <2>3. standingPremises(l, rows) \in [ps -> {"holds", "stale", "unverifiable"}]
    BY <2>2 DEF standingPremises
  <2> HIDE DEF ps
  <2>4. QED
    BY <1>1, <2>1, <2>3 DEF Premises
<1>7. Informed(r)
  <2> SUFFICES ASSUME NEW row \in rows
      PROVE  LET about == { c \in claims : c.id = row.triple.cve }
                 saysNone == \E c \in about : c.state \in NO_FIX_STATES
                 saysFixed == \E c \in about : c.state = "fixed"
             IN  /\ state(row) = "agree" =>
                      IF row.bucket = "FIXED-UPSTREAM" THEN saysFixed /\ ~saysNone
                      ELSE saysNone /\ ~saysFixed
                 /\ state(row) = "conflict" =>
                      IF row.bucket = "FIXED-UPSTREAM" THEN saysNone ELSE saysFixed
    <3> HIDE DEF state
    <3>1. QED
      BY <1>1 DEF Informed
  <2>1. QED
    BY FixStateIsInformed
<1>8. ReportOK(r)
  BY <1>1, <1>2, <1>3, <1>4, <1>5, <1>6 DEF ReportOK
<1>9. QED
  BY <1>7, <1>8 DEF r

LEMMA NoReportIsTyped == ReportOK(NoReport) /\ Informed(NoReport)
<1>1. /\ NoReport.rows = {} /\ NoReport.fixState = [r \in {} |-> 0] /\ NoReport.claims = {}
      /\ NoReport.counts = [b \in BUCKETS |-> 0] /\ NoReport.premises = [p \in {} |-> 0]
  BY DEF NoReport
<1>2. [p \in {} |-> 0] \in Premises
  <2>1. [p \in {} |-> 0] \in [{} -> {"holds", "stale", "unverifiable"}]
    OBVIOUS
  <2>2. QED
    BY <2>1 DEF Premises
<1>3. ReportOK(NoReport)
  BY <1>1, <1>2 DEF ReportOK
<1>4. Informed(NoReport)
  BY <1>1 DEF Informed
<1>5. QED
  BY <1>3, <1>4

LEMMA ChangesIsABound == Changes \in Nat
BY TrackerAssumption, Zenon DEF TrackerAssumption

LEMMA TrackerInit == Init => TrackerInv
<1> SUFFICES ASSUME Init PROVE TrackerInv
  OBVIOUS
<1>1. JobOK(job) /\ job.phase = "none"
  BY DEF Init, NoRun, JobOK
<1>2. ReportOK(report) /\ Informed(report)
  BY NoReportIsTyped DEF Init
<1>3. tracker \in Payloads /\ ledger \in Ledgers /\ changes \in 0..Changes
  BY ChangesIsABound DEF Init
<1>4. QED
  BY <1>1, <1>2, <1>3 DEF TrackerInv

LEMMA TrackerStep == TrackerInv /\ [Next]_vars => TrackerInv'
<1> SUFFICES ASSUME TrackerInv, [Next]_vars PROVE TrackerInv'
  OBVIOUS
<1> USE DEF TrackerInv
<1>1. ASSUME NEW p \in Payloads, Publish(p) PROVE TrackerInv'
  BY <1>1, ChangesIsABound DEF Publish
<1>2. ASSUME NEW l \in Ledgers, Push(l) PROVE TrackerInv'
  <2>1. job' = job \/ (JobOK(job') /\ job'.phase = "none")
    BY <1>2 DEF Push, NoRun, JobOK
  <2>2. tracker' \in Payloads /\ ledger' \in Ledgers /\ changes' \in 0..Changes
    <3>1. changes < Changes /\ changes' = changes + 1 /\ ledger' = l /\ tracker' = tracker
      BY <1>2, Zenon DEF Push
    <3>2. QED
      BY <3>1, ChangesIsABound
  <2>3. JobOK(job') /\ (job'.phase = "green" => job' = job)
    BY <2>1
  <2>4. report' = report
    BY <1>2 DEF Push
  <2>5. QED
    BY <2>2, <2>3, <2>4
<1>3. CASE Checkout
  <2>1. JobOK(job') /\ job'.phase = "checked out"
    BY <1>3 DEF Checkout, JobOK
  <2>2. QED
    BY <1>3, <2>1 DEF Checkout
<1>4. CASE Fetch
  <2>1. JobOK(job') /\ job'.phase = "fetched"
    BY <1>4 DEF Fetch, JobOK
  <2>2. QED
    BY <1>4, <2>1 DEF Fetch
<1>5. CASE FetchFails
  <2>1. JobOK(job') /\ job'.phase = "red"
    BY <1>5 DEF FetchFails, JobOK
  <2>2. QED
    BY <1>5, <2>1 DEF FetchFails
<1>6. CASE Write
  <2>1. PICK claims \in Scans : report' = Report(job.payload, job.ledger, claims)
    BY <1>6 DEF Write
  <2>2. /\ JobOK(job') /\ job'.phase = "green"
        /\ job'.ledger = job.ledger /\ job'.payload = job.payload
    BY <1>6 DEF Write, JobOK
  <2>3. job.payload \in Payloads /\ job.ledger \in Ledgers
    BY <1>6 DEF Write, JobOK
  <2>4. ReportOK(report') /\ Informed(report')
    BY <2>1, <2>3, ReportIsTyped
  <2>5. QED
    BY <1>6, <2>1, <2>2, <2>4 DEF Write
<1>7. CASE UNCHANGED vars
  BY <1>7 DEF vars
<1>8. QED
  BY <1>1, <1>2, <1>3, <1>4, <1>5, <1>6, <1>7 DEF Next

LEMMA TrackerAlways == Spec => []TrackerInv
BY TrackerInit, TrackerStep, PTL DEF Spec

(* The variables keep their types: a finished run joined a payload that    *)
(* was published, and every bucket is counted.                             *)
THEOREM TrackerTypeCorrect == Spec => []TypeOK
<1>1. TrackerInv => TypeOK
  BY DEF TrackerInv, JobOK, ReportOK, TypeOK
<1>2. QED
  BY <1>1, TrackerAlways, PTL

(* A row's verdict is Debian's, of every source package its version may    *)
(* name.                                                                   *)
THEOREM VerdictsAreDebians == Spec => []RowsSpeakForDebian
<1>1. ASSUME TrackerInv PROVE RowsSpeakForDebian
  <2> SUFFICES ASSUME job.phase = "green" PROVE RowsSpeakForDebian
    BY DEF RowsSpeakForDebian
  <2>1. PICK claims \in Scans : report = Report(job.payload, job.ledger, claims)
    BY <1>1 DEF TrackerInv
  <2>2. job.payload \in Payloads /\ report.rows = classifyTriples(job.payload, job.ledger)
    BY <1>1, <2>1 DEF TrackerInv, JobOK, Report
  <2>3. \A row \in report.rows : \E t : row = classifyTriple(job.payload, t)
    BY <2>2 DEF classifyTriples
  <2>4. QED
    BY <2>2, <2>3, RowSpeaks DEF RowsSpeakForDebian
<1>2. QED
  BY <1>1, TrackerAlways, PTL

(* A premise that is said to hold is the verdict cited.                    *)
THEOREM HeldPremisesAreCited == Spec => []HoldsIsCited
<1>1. ASSUME TrackerInv PROVE HoldsIsCited
  <2> SUFFICES ASSUME job.phase = "green",
                      NEW path \in DOMAIN report.premises, report.premises[path] = "holds"
      PROVE  \E e \in job.payload, st \in job.ledger[path].statements :
               /\ e.sourcePackage = job.ledger[path].evidence.source_package
               /\ e.suite = job.ledger[path].evidence.suite
               /\ e.unimportant /\ ~HasFix(e)
               /\ e.cve = st.cve
               /\ \E p \in st.purls : p.debian /\ SameSource(p.version, e.suiteVersion)
    BY DEF HoldsIsCited
  <2>1. PICK claims \in Scans : report = Report(job.payload, job.ledger, claims)
    BY <1>1 DEF TrackerInv
  <2>2. /\ job.payload \in Payloads /\ job.ledger \in Ledgers
        /\ report.premises = standingPremises(job.ledger, classifyTriples(job.payload, job.ledger))
    BY <1>1, <2>1 DEF TrackerInv, JobOK, Report
  <2>3. /\ path \in DOMAIN job.ledger
        /\ premiseFor(job.ledger[path].evidence,
                      { row \in classifyTriples(job.payload, job.ledger) :
                          row.triple.path = path }) = "holds"
    BY <2>2 DEF standingPremises
  <2>4. QED
    BY <2>2, <2>3, PremiseHolds
<1>2. QED
  BY <1>1, TrackerAlways, PTL

(* Every Debian acceptance of every record has one row and no more.        *)
THEOREM OneRowPerAcceptance == Spec => []AcceptancesAreCountedOnce
<1>1. ASSUME TrackerInv PROVE AcceptancesAreCountedOnce
  <2> SUFFICES ASSUME job.phase = "green", NEW path \in DOMAIN job.ledger
      PROVE  Cardinality({ row \in report.rows : row.triple.path = path }) =
               Cardinality(acceptancesOf(job.ledger[path]))
    BY DEF AcceptancesAreCountedOnce, acceptancesOf, acceptedBy, debianOf
  <2>1. PICK claims \in Scans : report = Report(job.payload, job.ledger, claims)
    BY <1>1 DEF TrackerInv
  <2>2. /\ job.payload \in Payloads /\ job.ledger \in Ledgers
        /\ report.rows = classifyTriples(job.payload, job.ledger)
    BY <1>1, <2>1 DEF TrackerInv, JobOK, Report
  <2>3. QED
    BY <2>2, RowsOfRecord
<1>2. QED
  BY <1>1, TrackerAlways, PTL

(* What DriftIsReported rests on besides fairness: a run that finished on  *)
(* what Debian publishes and main holds now leaves no withdrawn verdict    *)
(* unsaid.                                                                 *)
UpToDateRunTells ==
  job.phase = "green" /\ job.payload = tracker /\ job.ledger = ledger =>
    \A path \in Paths :
      Drifted(path) => path \in DOMAIN report.premises /\ report.premises[path] # "holds"

(* A scheduled run that nothing overtook reports every standing acceptance *)
(* whose cited verdict is gone, for any tracker and any ledger.            *)
THEOREM DriftIsSaid == Spec => []UpToDateRunTells
<1>1. ASSUME TrackerInv PROVE UpToDateRunTells
  <2> SUFFICES ASSUME job.phase = "green", job.payload = tracker, job.ledger = ledger,
                      NEW path \in Paths, Drifted(path)
      PROVE  path \in DOMAIN report.premises /\ report.premises[path] # "holds"
    BY DEF UpToDateRunTells
  <2>1. PICK claims \in Scans : report = Report(tracker, ledger, claims)
    BY <1>1 DEF TrackerInv
  <2>2. tracker \in Payloads /\ ledger \in Ledgers /\ path \in DOMAIN ledger
    BY <1>1 DEF TrackerInv, Drifted
  <2>3. /\ path \in DOMAIN report.premises
        /\ report.premises[path] =
             premiseFor(ledger[path].evidence,
                        { row \in classifyTriples(tracker, ledger) : row.triple.path = path })
    BY <2>1 DEF Report, standingPremises, Drifted
  <2>4. ASSUME report.premises[path] = "holds" PROVE FALSE
    <3>1. premiseFor(ledger[path].evidence,
                     { row \in classifyTriples(tracker, ledger) : row.triple.path = path })
            = "holds"
      BY <2>3, <2>4
    <3>2. PICK e \in tracker, st \in ledger[path].statements :
            /\ e.sourcePackage = ledger[path].evidence.source_package
            /\ e.suite = ledger[path].evidence.suite
            /\ e.unimportant /\ ~HasFix(e)
            /\ e.cve = st.cve
            /\ \E p \in st.purls : p.debian /\ SameSource(p.version, e.suiteVersion)
      BY <2>2, <3>1, PremiseHolds
    <3>3. QED
      BY <3>2 DEF Drifted
  <2>5. QED
    BY <2>3, <2>4
<1>2. QED
  BY <1>1, TrackerAlways, PTL

(* Corroboration rests on what a scanner says of the CVE.                  *)
THEOREM CorroborationIsSaid == Spec => []CorroborationIsInformed
<1>1. TrackerInv => CorroborationIsInformed
  BY DEF TrackerInv, Informed, CorroborationIsInformed
<1>2. QED
  BY <1>1, TrackerAlways, PTL

================================================================================
