------------------------------ MODULE MCResume ------------------------------
(* Model values for Resume.                                                  *)
EXTENDS Resume
=============================================================================
