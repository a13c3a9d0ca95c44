-------------------------- MODULE MCTwoLedgerReport --------------------------
(* Small instances of TwoLedgerReport for TLC.                             *)
EXTENDS TwoLedgerReport

finding(id, scanner, badge, gate) ==
  [id |-> id, scanner |-> scanner, badge |-> badge, gate |-> gate]

(* One CVE both image scanners report, one of them below the floor by its  *)
(* badge; and one that only Trivy knows.                                   *)
grypeSees == finding("CVE-1", "grype-ministack-image", 5, 4)
trivySees == finding("CVE-1", "trivy-image", 3, 4)
trivyOnly == finding("CVE-2", "trivy-image", 4, 4)

MCFindings == {grypeSees, trivySees}
MCFindingsTrivy == {trivyOnly}
MCCveIds == {"CVE-1", "CVE-2"}

(* The package of the CVE before and after a bump of the image, and the    *)
(* copy of it that the repository locks.                                   *)
MCPurls == {"pkg@1", "pkg@2", "npm@1"}

imageRecord(id, status) ==
  [id |-> id, status |-> status, products |-> {"pkg@1"}, prefix |-> "CVE",
   order |-> 1, overdue |-> FALSE]

(* A record for the locked copy, under another file name and read last.    *)
npmRecord(id, status) ==
  [imageRecord(id, status) EXCEPT !.products = {"npm@1"}, !.prefix = "other", !.order = 2]

scanned(findings, purl) == [f \in findings |-> purl]

(* The image as pinned; its CVE accepted, in the image and in what the     *)
(* repository locks; a bump that left the record on the version before;    *)
(* and the CVE fixed as far as Grype can tell.                             *)
bare == [content |-> scanned(MCFindings, "pkg@1"), records |-> {}]
accepted ==
  [bare EXCEPT !.records = {imageRecord("CVE-1", "fixed"), npmRecord("CVE-1", "not_affected")}]
outdated ==
  [content |-> scanned(MCFindings, "pkg@2"), records |-> {imageRecord("CVE-1", "not_affected")}]
cleared == [content |-> scanned({trivySees}, "pkg@2"), records |-> {}]
MCTrees == {bare, accepted, outdated, cleared}

(* A record for one that only Trivy knows.                                 *)
MCTreesTrivy ==
  { [content |-> scanned({trivyOnly}, "pkg@1"), records |-> {imageRecord("CVE-2", "not_affected")}] }

================================================================================
