--------------------------- MODULE RetentionIndex ---------------------------
(***************************************************************************)
(* The retained-run index as a pure algorithm: what                        *)
(* _build_retained_index_records of dev/runs_archive.py writes for a group *)
(* and what load_and_validate_index of dev/runs_retention.py accepts.      *)
(* Times are days.  Digests are the digested content itself.               *)
(***************************************************************************)
EXTENDS Integers, FiniteSets

CONSTANT Group  \* artifact groups of the inventory

None == "none"
NoTime == -1

-----------------------------------------------------------------------------
(* The approved schedule of _validate_approved_retention_schedule.         *)

PermanentClass == {"contract_golden", "unique_research_evidence", "unclassified_hold"}
ExpiringClass == {"provider_raw", "debug", "failed", "superseded", "duplicate"}
PurposeClass == PermanentClass \cup ExpiringClass
MinimumRetentionDays ==
  [provider_raw |-> 365, debug |-> 90, failed |-> 90, superseded |-> 0, duplicate |-> 0]
QuarantineDays == 30
DeletionEligible(class) == class \in ExpiringClass

-----------------------------------------------------------------------------
(* What the archive writes.                                                *)

_retention_window(class, starts_at, now) ==
  LET w == [starts_at |-> starts_at, expires_at |-> NoTime, quarantine_until |-> NoTime]
  IN CASE class \in PermanentClass ->
            [window |-> w, disposition |-> IF class = "unclassified_hold"
                                           THEN "manual_review_hold" ELSE "retain_active"]
       [] class = "provider_raw" ->
            [window |-> [w EXCEPT !.expires_at = starts_at + 365],
             disposition |-> IF now >= starts_at + 365 THEN "manual_review_hold"
                                                       ELSE "retain_local"]
       [] class \in {"debug", "failed"} ->
            [window |-> [w EXCEPT !.expires_at = starts_at + 90,
                                  !.quarantine_until = starts_at + 120],
             disposition |-> IF now >= starts_at + 90 THEN "quarantine" ELSE "retain_local"]
       [] OTHER ->
            [window |-> [w EXCEPT !.expires_at = starts_at, !.quarantine_until = now + 30],
             disposition |-> "quarantine"]

(* One entry of _build_retained_index_records.  A group with a secret      *)
(* carries the risk label that triggers a credential review.               *)
build_entry(class, starts_at, now, secret, source, archive) ==
  LET r == _retention_window(class, starts_at, now)
  IN [purpose_class |-> class, risky |-> secret, retention |-> r.window,
      disposition |-> r.disposition, source |-> source, archive |-> archive,
      scrub |-> IF secret THEN "verified" ELSE "not_required",
      restore |-> "verified",
      credential_review |-> IF secret THEN "complete" ELSE "not_required",
      authorization |-> None]

-----------------------------------------------------------------------------
(* What the validator accepts.                                             *)

_validate_index_entry(e) ==
  /\ e.purpose_class \in PurposeClass
  /\ IF e.purpose_class \in PermanentClass
     THEN /\ e.retention.expires_at = NoTime /\ e.retention.quarantine_until = NoTime
          /\ e.disposition \notin {"quarantine", "delete_authorized"}
     ELSE e.retention.expires_at # NoTime
  /\ e.risky => e.credential_review # "not_required"
  /\ ~e.risky => e.credential_review # "pending"
  /\ (e.disposition = "delete_authorized") <=> (e.authorization # None)

_validate_deletion_authorization(auth, header) ==
  auth.fingerprint = header /\ auth.targets # {}

(* Mutant: the end of the quarantine is not compared.                      *)
Mut_deletion_allowed(e, auth) ==
  /\ DeletionEligible(e.purpose_class)
  /\ e.source # {} /\ e.archive # {}
  /\ e.restore = "verified"
  /\ e.scrub \in {"verified", "not_required"}
  /\ e.risky => e.credential_review = "complete"
  /\ e.retention.expires_at # NoTime
  /\ e.retention.expires_at <= auth.authorized_at

deletion_allowed(e, auth) ==
  /\ DeletionEligible(e.purpose_class)
  /\ e.source # {} /\ e.archive # {}
  /\ e.restore = "verified"
  /\ e.scrub \in {"verified", "not_required"}
  /\ e.risky => e.credential_review = "complete"
  /\ e.retention.expires_at # NoTime /\ e.retention.quarantine_until # NoTime
  /\ e.retention.expires_at <= auth.authorized_at
  /\ e.retention.quarantine_until <= auth.authorized_at

Marked(index) == {g \in Group : index.entries[g].disposition = "delete_authorized"}

(* Every authorized entry names an authorization that allows it, and every *)
(* authorization names exactly the entries that refer to it.               *)
_validate_authorized_entries(index) ==
  /\ \A g \in Marked(index) :
       \E a \in index.auths : /\ a.id = index.entries[g].authorization
                              /\ deletion_allowed(index.entries[g], a)
  /\ \A a \in index.auths :
       a.targets = {g \in Marked(index) : index.entries[g].authorization = a.id}

load_and_validate_index(index) ==
  /\ \A g \in Group : _validate_index_entry(index.entries[g])
  /\ \A a \in index.auths : _validate_deletion_authorization(a, index.fingerprint)
  /\ \A a, b \in index.auths : a.id = b.id => a = b
  /\ _validate_authorized_entries(index)
=============================================================================
