---------------------------- MODULE MCTaskWorker ----------------------------
(* The instances of TaskWorker that TLC checks: two scans of one project and a *)
(* scan of another, or a single scan.                                          *)
EXTENDS TaskWorker, TLC

CONSTANTS p1, p2, s1, s2, s3   \* model values

TwoProjects == (s1 :> p1) @@ (s2 :> p1) @@ (s3 :> p2)
OneProject == s1 :> p1

=============================================================================
