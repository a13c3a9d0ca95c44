---------------------------- MODULE MCLicenseReview ----------------------------
(* Small instances of LicenseReview for TLC.                               *)
EXTENDS LicenseReview
================================================================================
