SPECIFICATION FairSpec

CONSTANTS
  Paths = {"r1"}
  Names = {"libc6", "libacl1"}
  SourcePackages = {"glibc", "acl"}
  Cves = {"CVE-1"}
  Suites = {"trixie", "bookworm"}
  DEBIAN_SUITE = "trixie"
  Prefixes = {"", "0:", "1:", "2:", "x:"}
  Epochs = {"0:", "1:", "2:"}
  ZeroEpoch = "0:"
  Bodies = {"", "2.3"}
  Suffixes = {"", "+b1", "+dfsg"}
  BinNmus = {"+b1"}
  Payloads <- MCPayloads
  Ledgers <- MCLedgers
  Scans <- MCScans
  Changes = 1

INVARIANTS
  TypeOK
  RowsSpeakForDebian
  HoldsIsCited
  AcceptancesAreCountedOnce
  CorroborationIsInformed

PROPERTY DriftIsReported
