----------------------------- MODULE AlertGate -----------------------------
(***************************************************************************)
(* What deduplication promises, with no sweeps, workers or Redis in sight: *)
(* a gate with one cooldown window per fingerprint.  A raised alert spends *)
(* a ticket; a ticket is issued only when the fingerprint's window is      *)
(* closed, and issuing it opens the window for Cooldown.  A ticket may be  *)
(* lost, and then the alert of that window is lost with it: the gate       *)
(* promises "at most once per window", not "exactly once".                 *)
(***************************************************************************)
EXTENDS Anomalies

VARIABLES
  now,      \* time
  window,   \* window[f]: when the window of fingerprint f closes
  tickets,  \* issued and not yet spent
  raised    \* tickets spent on an alert

gateVars == <<now, window, tickets, raised>>

\* A ticket: the anomaly it was issued for and when.
Claim == [an : Anomaly, at : Nat]

GateTypeOK ==
  /\ now \in Nat
  /\ window \in [Fingerprints -> Nat]
  /\ tickets \subseteq Claim
  /\ raised \subseteq Claim

GateInit ==
  /\ now = 0
  /\ window = [f \in Fingerprints |-> 0]
  /\ tickets = {}
  /\ raised = {}

Issue(a) ==
  /\ window[Fingerprint(a)] <= now
  /\ window' = [window EXCEPT ![Fingerprint(a)] = now + Cooldown]
  /\ tickets' = tickets \union {[an |-> a, at |-> now]}
  /\ UNCHANGED <<now, raised>>

\* A window is opened and its ticket never reaches anyone.
IssueLost(a) ==
  /\ window[Fingerprint(a)] <= now
  /\ window' = [window EXCEPT ![Fingerprint(a)] = now + Cooldown]
  /\ UNCHANGED <<now, tickets, raised>>

Raise(c) ==
  /\ c \in tickets \ raised
  /\ tickets' = tickets \ {c}
  /\ raised' = raised \union {c}
  /\ UNCHANGED <<now, window>>

Lose(S) ==
  /\ S \subseteq tickets
  /\ tickets' = tickets \ S
  /\ UNCHANGED <<now, window, raised>>

Pass ==
  /\ now' \in Nat /\ now' > now
  /\ UNCHANGED <<window, tickets, raised>>

GateNext ==
  \/ \E a \in Anomaly : Issue(a) \/ IssueLost(a)
  \/ \E c \in tickets : Raise(c)
  \/ \E S \in SUBSET tickets : Lose(S)
  \/ Pass

GateSpec == GateInit /\ [][GateNext]_gateVars

(***************************************************************************)
(* Two alerts of one fingerprint were claimed at least Cooldown apart, and *)
(* no claim is spent twice: AlertDeduplicator's promise that no two        *)
(* workers alert on one spike within the cooldown window.                  *)
(***************************************************************************)
Spaced(c, d) ==
  Fingerprint(c.an) = Fingerprint(d.an) /\ c # d =>
    c.at + Cooldown <= d.at \/ d.at + Cooldown <= c.at

AlertsSpaced == \A c, d \in raised : Spaced(c, d)
=============================================================================
