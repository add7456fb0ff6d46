---------------------------- MODULE MCSubmission ----------------------------
(* Two requests, of one account or two, that may carry one key; the second
   repository publishes only the asynchronous service. *)
EXTENDS Submission, TLC

CONSTANTS q1, q2, k1, a1, a2, r1, r2

TwoRequests == {q1, q2}
OneKey == {k1}
TwoAccounts == {a1, a2}
TwoRepos == {r1, r2}
OneRepo == {r1}
AllServices == r1 :> {"job_submitter", "data_streaming", "data_upload"}
                  @@ r2 :> {"job_submitter"}
=============================================================================
