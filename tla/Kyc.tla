-------------------------------- MODULE Kyc --------------------------------
(***************************************************************************)
(* Identity verification (kyc/services.py): one row per user, whose status *)
(* is decided by Dojah's match score or by an admin.  submit_verification  *)
(* is one transaction, the call to Dojah included, and holds the row; an   *)
(* admin's decision is checked on an unlocked copy and saved as it is.     *)
(***************************************************************************)
EXTENDS Accounts

CONSTANTS
    NoKyc,              \* no KycVerification row
    NoScore,            \* Dojah answered without a confidence value
    Scores,             \* confidence values Dojah answers with
    APPROVE_THRESHOLD,
    REVIEW_THRESHOLD

ASSUME KycAssumption ==
    /\ Scores \subseteq Int
    /\ NoScore \notin Scores
    /\ APPROVE_THRESHOLD \in Int /\ REVIEW_THRESHOLD \in Int
    /\ REVIEW_THRESHOLD < APPROVE_THRESHOLD

VARIABLE kyc  \* the KycVerification row of the user

KycStatuses == {"PENDING", "APPROVED", "REJECTED", "REVIEW"}

(* submission is the request whose data the row holds.  History: decider   *)
(* is the admin's request that wrote the status, Unset while the score's   *)
(* does; during, the admin requests that were running at the commit of the *)
(* submission.                                                             *)
KycRows == [pk : Nat, submission : Requests \cup {Before}, address : BOOLEAN,
            score : Scores \cup {NoScore}, status : KycStatuses,
            decider : Requests \cup {Unset}, during : SUBSET Requests]

ASSUME NoKycAssumption == NoKyc \notin KycRows

(* A missing score is left to an admin. *)
_status_from_score(score) ==
    IF score = NoScore THEN "REVIEW"
    ELSE IF score >= APPROVE_THRESHOLD THEN "APPROVED"
    ELSE IF score >= REVIEW_THRESHOLD THEN "REVIEW"
    ELSE "REJECTED"

Deciders == {r \in Requests : job[r].op \in {"approve", "reject"} /\ InFlight(r)}

(* The row, or its unique key, is held from update_or_create to the commit. *)
Held == \E r \in Requests : IsAt(r, "submit", "dojah")

submit_verification(r) ==
    /\ Authenticated
    /\ ~Held
    /\ SetJob(r, Job("submit", "dojah", user))
    /\ UNCHANGED <<user, pks, codes, tokens, crashes, kyc>>

(* Dojah answers with a score, or without one: new data and a new status,  *)
(* committed together.                                                     *)
DojahVerifies(r, score) ==
    /\ IsAt(r, "submit", "dojah")
    /\ \E address \in BOOLEAN :
         kyc' = [pk |-> job[r].saw.pk, submission |-> r, address |-> address, score |-> score,
                 status |-> _status_from_score(score), decider |-> Unset, during |-> Deciders]
    /\ Ends(r)
    /\ UNCHANGED <<user, pks, codes, tokens, crashes>>

(* A failed submission whose PENDING row was committed before the call.    *)
MutDojahFails(r) ==
    /\ IsAt(r, "submit", "dojah")
    /\ kyc' = IF kyc = NoKyc THEN kyc
              ELSE [kyc EXCEPT !.submission = r, !.status = "PENDING", !.decider = Unset]
    /\ Ends(r)
    /\ UNCHANGED <<user, pks, codes, tokens, crashes>>

(* A DojahError: everything is rolled back, the PENDING row and its log.   *)
DojahFails(r) ==
    /\ IsAt(r, "submit", "dojah")
    /\ Ends(r)
    /\ UNCHANGED <<user, pks, codes, tokens, crashes, kyc>>

(* The address is saved on its own, with a copy read before; PATCH.        *)
update_address(r) ==
    /\ Authenticated
    /\ kyc # NoKyc
    /\ SetJob(r, Job("address", "save", kyc))
    /\ UNCHANGED <<user, pks, codes, tokens, crashes, kyc>>

SaveAddress(r) ==
    /\ IsAt(r, "address", "save") /\ ~Held
    /\ kyc' = IF kyc # NoKyc /\ kyc.pk = job[r].saw.pk THEN [kyc EXCEPT !.address = TRUE] ELSE kyc
    /\ Ends(r)
    /\ UNCHANGED <<user, pks, codes, tokens, crashes>>

-----------------------------------------------------------------------------
(* An admin's request: the row is read, its status checked on the copy.    *)
Decidable(op) ==
    IF op = "approve" THEN {"REVIEW", "PENDING", "REJECTED"} ELSE {"REVIEW", "PENDING", "APPROVED"}

AskToDecide(r, op) ==
    /\ op \in {"approve", "reject"}
    /\ kyc # NoKyc /\ kyc.status \in Decidable(op)
    /\ SetJob(r, Job(op, "save", kyc))
    /\ UNCHANGED <<user, pks, codes, tokens, crashes, kyc>>

(* admin_approve and admin_reject save the status, and wait for a          *)
(* submission that holds the row.                                          *)
Decide(r, status) ==
    /\ job[r].at = "save" /\ ~Held
    /\ kyc' = IF kyc # NoKyc /\ kyc.pk = job[r].saw.pk
              THEN [kyc EXCEPT !.status = status, !.decider = r] ELSE kyc
    /\ Ends(r)
    /\ UNCHANGED <<user, pks, codes, tokens, crashes>>

admin_approve(r) == job[r].op = "approve" /\ Decide(r, "APPROVED")
admin_reject(r) == job[r].op = "reject" /\ Decide(r, "REJECTED")

-----------------------------------------------------------------------------
KycRequest(r) ==
    /\ job[r] = Waiting
    /\ \/ submit_verification(r) \/ update_address(r)
       \/ AskToDecide(r, "approve") \/ AskToDecide(r, "reject")

KycStep(r) ==
    \/ \E score \in Scores \cup {NoScore} : DojahVerifies(r, score)
    \/ DojahFails(r) \/ SaveAddress(r)
    \/ admin_approve(r) \/ admin_reject(r)

KycInit ==
    \/ kyc = NoKyc
    \/ /\ CanLogin(user)
       /\ \E score \in Scores :
            kyc = [pk |-> 1, submission |-> Before, address |-> FALSE, score |-> score,
                   status |-> _status_from_score(score), decider |-> Unset, during |-> {}]
=============================================================================
