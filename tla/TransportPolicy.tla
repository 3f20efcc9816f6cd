---------------------------- MODULE TransportPolicy ----------------------------
(***************************************************************************)
(* The transport decisions of gateway/transport_policy.c: what the monitor *)
(* does with a threat verdict and the health of the paths, and what it     *)
(* does with the forecast of the network-condition classifier.  Pure       *)
(* operators: a reply label of a classifier is a string, and NoReply is    *)
(* the empty response that ai_bridge.c leaves after any failure.           *)
(***************************************************************************)

NoReply == ""

\* The labels of the two classifiers (ml-b threat, ml-a network condition).
ThreatLabels  == {"LOW", "MEDIUM", "HIGH"}
NetworkLabels == {"STABLE", "CONGESTED", "DEGRADED", "UNSTABLE", "POSSIBLE_PATH_FAILURE"}

\* What the kernel reports of one path, as multihoming.c classifies it.
PathStates == {"ACTIVE", "INACTIVE", "UNCONFIRMED", "UNKNOWN"}

\* TransportAction; the monitor has a case for "ALERT", which decide_transport never
\* returns.
TransportActions == {"NORMAL", "RATE_LIMIT", "FAILOVER", "RESTORE_PRIMARY", "ALERT"}

NetPolicies ==
    {"NORMAL", "CONGESTION_RESPONSE", "FAILOVER_READY", "PREFER_BACKUP", "FAILOVER"}

(***************************************************************************)
(* path_monitor.c: a path counts as down when it is reported inactive, or  *)
(* in a state the gateway has no name for (a cut link that is still        *)
(* retransmitting); a path that was never confirmed is not a failure.      *)
(***************************************************************************)
primary_down(state) == state \in {"INACTIVE", "UNKNOWN"}

\* Mutated forms: a flood moves the association, as an earlier design did; the
\* threat is looked at before the outage.
FloodFailsOver(verdict, primaryState, secondaryAvailable, currentlySecondary) ==
    CASE ~currentlySecondary /\ secondaryAvailable
              /\ (primary_down(primaryState) \/ verdict = "HIGH") -> "FAILOVER"
      [] currentlySecondary /\ verdict = "LOW" /\ primaryState = "ACTIVE"
              -> "RESTORE_PRIMARY"
      [] OTHER -> "NORMAL"

ThreatFirst(verdict, primaryState, secondaryAvailable, currentlySecondary) ==
    CASE ~currentlySecondary /\ verdict = "HIGH" -> "RATE_LIMIT"
      [] ~currentlySecondary /\ verdict # "HIGH" /\ secondaryAvailable
              /\ primary_down(primaryState) -> "FAILOVER"
      [] currentlySecondary /\ verdict = "LOW" /\ primaryState = "ACTIVE"
              -> "RESTORE_PRIMARY"
      [] OTHER -> "NORMAL"

(***************************************************************************)
(* decide_transport.  On the primary, availability comes before the        *)
(* threat; on the secondary, only a LOW verdict together with a healthy    *)
(* primary brings the association back, and an outage or a flood changes   *)
(* nothing.                                                                *)
(***************************************************************************)
decide_transport(verdict, primaryState, secondaryAvailable, currentlySecondary) ==
    IF ~currentlySecondary
    THEN CASE secondaryAvailable /\ primary_down(primaryState) -> "FAILOVER"
           [] ~(secondaryAvailable /\ primary_down(primaryState)) /\ verdict = "HIGH"
                  -> "RATE_LIMIT"
           [] OTHER -> "NORMAL"
    ELSE IF verdict = "LOW" /\ primaryState = "ACTIVE" THEN "RESTORE_PRIMARY" ELSE "NORMAL"

(***************************************************************************)
(* netstate_to_policy, with the caller's rule that no reply means STABLE.  *)
(***************************************************************************)
netstate_to_policy(label) ==
    CASE label = "POSSIBLE_PATH_FAILURE" -> "FAILOVER"
      [] label = "UNSTABLE"              -> "PREFER_BACKUP"
      [] label = "DEGRADED"              -> "FAILOVER_READY"
      [] label = "CONGESTED"             -> "CONGESTION_RESPONSE"
      [] OTHER                           -> "NORMAL"

\* The two recommendations that move the association when they are enforced.
MovesToBackup(policy) == policy \in {"FAILOVER", "PREFER_BACKUP"}

================================================================================
