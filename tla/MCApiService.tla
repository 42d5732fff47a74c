---------------------------- MODULE MCApiService -----------------------------
(* Small instances of ApiService.                                           *)
EXTENDS ApiService

CONSTANTS q1, q2, e1, e2

TwoQueries == {q1, q2}
TwoSubmissions == {e1, e2}
=============================================================================
