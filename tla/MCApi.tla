------------------------------- MODULE MCApi -------------------------------
(* An instance of Api for TLC. *)
EXTENDS Api, TLC

CONSTANTS r1, r2, r3, acme, globex, NoKey, tAcme, tGlobex, a1

\* Two keys of two tenants; a request without a key is denied.
MCKeyTenant == acme :> tAcme @@ globex :> tGlobex

\* One alert, of acme's tenant.
MCAlertTenant == [a \in Alerts |-> tAcme]

Ingest(key) == [kind |-> "ingest", key |-> key, alert |-> a1]
Feedback(key) == [kind |-> "feedback", key |-> key, alert |-> a1]

\* Three requests at a time: of one key, of two, and with a denied one.
MCSent ==
  {r1 :> mix[1] @@ r2 :> mix[2] @@ r3 :> mix[3] : mix \in
     {<<Ingest(acme), Ingest(acme), Ingest(NoKey)>>,
      <<Ingest(acme), Ingest(acme), Feedback(acme)>>,
      <<Ingest(acme), Ingest(globex), Feedback(acme)>>,
      <<Feedback(acme), Feedback(acme), Ingest(acme)>>,
      <<Feedback(acme), Feedback(acme), Feedback(acme)>>,
      <<Feedback(acme), Feedback(acme), Feedback(globex)>>}}
=============================================================================
