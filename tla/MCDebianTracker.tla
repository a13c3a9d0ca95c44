---------------------------- MODULE MCDebianTracker ----------------------------
(* A small instance of DebianTracker for TLC.                              *)
EXTENDS DebianTracker, TLC

version(prefix, body, suffix) == [prefix |-> prefix, body |-> body, suffix |-> suffix]
stripped == version("", "2.3", "")
epoch1 == version("1:", "2.3", "")
epoch2 == version("2:", "2.3", "")
rebuilt == version("", "2.3", "+b1")
dfsg == version("", "2.3", "+dfsg")

(* Debian on CVE-1, as filed under a source package.                       *)
ruling(pkg, v, resolved, fix, unimportant, nodsa) ==
  [sourcePackage |-> pkg, cve |-> "CVE-1", suite |-> "trixie", suiteVersion |-> v,
   resolved |-> resolved, fixedVersion |-> fix, unimportant |-> unimportant, nodsa |-> nodsa]
unimportant(pkg, v) == ruling(pkg, v, FALSE, FALSE, TRUE, TRUE)
resolved(pkg, v) == ruling(pkg, v, TRUE, FALSE, TRUE, FALSE)
deferred(pkg, v) == ruling(pkg, v, FALSE, FALSE, FALSE, TRUE)
open(pkg, v) == ruling(pkg, v, FALSE, FALSE, FALSE, FALSE)
elsewhere == [unimportant("glibc", stripped) EXCEPT !.suite = "bookworm"]

MCPayloads ==
  { g \cup a :
      g \in { {elsewhere}, {unimportant("glibc", epoch1)}, {resolved("glibc", epoch1)},
              {deferred("glibc", rebuilt)}, {unimportant("glibc", dfsg)},
              {open("glibc", Blank)}, {unimportant("glibc", stripped)} },
      a \in { {}, {unimportant("acl", epoch2)}, {resolved("acl", stripped)} } }

purl(name, v, spelling) ==
  [debian |-> TRUE, name |-> name, version |-> v, spelling |-> spelling]
accepts(purls) == { [cve |-> "CVE-1", purls |-> purls] }
cites(pkg, suite) == [suite |-> suite, source_package |-> pkg]
record(purls, standing, cited) ==
  [statements |-> accepts(purls), standing |-> standing, evidence |-> cited]

libc6 == { purl("libc6", epoch1, "encoded"), purl("libc6", epoch1, "plain") }
nothing == [purl("libc6", Blank, "plain") EXCEPT !.debian = FALSE]
MCLedgers ==
  { "r1" :> rec :
      rec \in { record(libc6, TRUE, cites("glibc", "trixie")),
                record(libc6 \cup {purl("libc6", stripped, "qualified")}, TRUE,
                       cites("glibc", "trixie")),
                record({purl("libacl1", rebuilt, "plain")}, TRUE, cites("acl", "bookworm")),
                record({purl("libacl1", stripped, "plain")}, TRUE, cites("acl", "trixie")),
                record({purl("libc6", Blank, "plain")}, FALSE, cites("glibc", "trixie")),
                record({nothing}, TRUE, cites("glibc", "trixie")) } }

claim(scanner, state) == [id |-> "CVE-1", scanner |-> scanner, state |-> state]
MCScans ==
  { {}, {claim("grype", "unknown")}, {claim("grype", "fixed")},
    {claim("grype", "fixed"), claim("trivy", "will_not_fix")} }

================================================================================
