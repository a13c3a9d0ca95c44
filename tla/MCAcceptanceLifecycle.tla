------------------------- MODULE MCAcceptanceLifecycle -------------------------
(* Small instances of AcceptanceLifecycle for TLC.                         *)
EXTENDS AcceptanceLifecycle

MCIds == {"CVE-1", "CVE-2", "GHSA-1", "GHSA-2"}
MCCveIds == {"CVE-1", "CVE-2"}
MCGhsaIds == {"GHSA-1", "GHSA-2"}

purl(type, name, version) ==
  [type |-> type, name |-> name, version |-> version, quals |-> {}]

undici == purl("npm", "undici", "")
undici6 == purl("npm", "undici", "6.1.0")
pytest == purl("pypi", "pytest", "8.2.0")
nodejs == purl("deb", "debian/nodejs", "")

MCPurls == {undici, undici6, pytest, nodejs}

(* One advisory per scanned ecosystem, and a second one of the npm package *)
(* which no document names.                                                *)
npmAdvisory ==
  [eco |-> "npm", pkg |-> "undici", purls |-> {undici6},
   ids |-> {"CVE-1", "GHSA-1"}, rated |-> TRUE]
npmSecond ==
  [eco |-> "npm", pkg |-> "undici", purls |-> {undici6},
   ids |-> {"GHSA-2"}, rated |-> TRUE]
pypiAdvisory ==
  [eco |-> "pypi", pkg |-> "pytest", purls |-> {pytest},
   ids |-> {"CVE-2"}, rated |-> TRUE]

absent == [shape |-> "absent", form |-> "none", due |-> 0]
dated(day) == [shape |-> "text", form |-> "date", due |-> day]
token(form) == [shape |-> "text", form |-> form, due |-> 0]
unsanctioned == [shape |-> "text", form |-> "none", due |-> 0]

statement(name, aliases, status, purls) ==
  [shape |-> "object", name |-> name, aliases |-> aliases, status |-> status,
   purls |-> purls, revisit |-> absent, evidence |-> "absent"]

document(st, revisit, evidence) ==
  [parses |-> TRUE, statements |-> {st}, revisit |-> revisit,
   evidence |-> evidence]

npmSt == statement("CVE-1", {"GHSA-1"}, "not_affected", {undici})
debSt == statement("CVE-1", {"GHSA-1"}, "not_affected", {nodejs})
pypiSt == statement("CVE-2", {}, "affected", {pytest})

npmDated == document(npmSt, dated(2), "absent")
debStanding == document(debSt, token("standing"), "complete")
debUncited == document(debSt, token("standing"), "absent")
pypiWaiting == document(pypiSt, token("upstream-issue"), "absent")
draft == document(npmSt, unsanctioned, "absent")
broken == [parses |-> FALSE, statements |-> {}, revisit |-> absent,
           evidence |-> "absent"]

MCInitLedger == [p \in {"p1"} |-> pypiWaiting]
MCHandRows == { {}, {[id |-> "CVE-1", until |-> 0, status |-> "not_affected"]} }

MCDocsMain == {npmDated, debStanding, debUncited, pypiWaiting, draft, broken}
MCDocsScans == {npmDated, debStanding, pypiWaiting}
MCAdvisories == {npmAdvisory, npmSecond, pypiAdvisory}

================================================================================
