---------------------------- MODULE VirtualCards ----------------------------
(***************************************************************************)
(* The virtual card of a user (cards/services.py) and the cards Bitnob     *)
(* keeps.  Bitnob is asked first, the row is saved when it has answered;   *)
(* nothing but the status view asks Bitnob again, and only while the row   *)
(* is PENDING or its creation processing.                                  *)
(***************************************************************************)
EXTENDS Kyc

CONSTANT NoCard  \* no VirtualCard row

VARIABLES
    card,      \* the VirtualCard row of the user
    bitnob,    \* status of each card Bitnob made for the user, in their order
    unheard,   \* history: how many of them belong to requests that got no answer to keep
    forgotten, \* history: how many rows that named one were deleted with the user
    clean      \* history: so far the card's requests ran one by one and were answered

cardVars == <<card, bitnob, unheard, forgotten, clean>>

CardStatuses == {"PENDING", "ACTIVE", "FROZEN", "TERMINATED"}

(* pk is the user's key, id the row's own, which is also its card's number *)
(* at Bitnob; named: bitnob_card_id is not empty; processing:              *)
(* created_status says so.                                                 *)
CardRow(pk, id, status, named, processing) ==
    [pk |-> pk, id |-> id, status |-> status, named |-> named, processing |-> processing]

CardRows ==
    [pk : Nat, id : Nat \ {0}, status : CardStatuses, named : BOOLEAN, processing : BOOLEAN]

ASSUME NoCardAssumption == NoCard \notin CardRows

CardOps == {"freeze", "unfreeze", "terminate", "sync"}

(* Requests that are on the card; a second one makes them not one by one.  *)
OnCard == {r \in Requests : job[r].op \in CardOps /\ InFlight(r)}

(* Cards of Bitnob's that the row names. *)
Known == IF card # NoCard /\ card.named THEN 1 ELSE 0

-----------------------------------------------------------------------------
(* request_card: a PIN on the copy, no card, KYC approved when it was      *)
(* looked up; then the row, whose unique user another request waits for.   *)
request_card(r) ==
    /\ Authenticated /\ user.pin # Unset
    /\ card = NoCard
    /\ kyc # NoKyc /\ kyc.status = "APPROVED"
    /\ \A q \in Requests : ~IsAt(q, "request", "issue")
    /\ SetJob(r, Job("request", "issue", user))
    /\ UNCHANGED <<user, pks, codes, tokens, crashes, kyc, cardVars>>

(* Bitnob makes the card, ready or still pending, and says so; its answer  *)
(* may lack the card.                                                      *)
CardIssued(r) ==
    /\ IsAt(r, "request", "issue")
    /\ \E status \in {"PENDING", "ACTIVE"}, named, processing \in BOOLEAN :
         /\ bitnob' = Append(bitnob, status)
         /\ card' = IF named THEN CardRow(job[r].saw.pk, Len(bitnob'), status, TRUE, processing)
                    ELSE CardRow(job[r].saw.pk, Len(bitnob'), "PENDING", FALSE, FALSE)
         /\ unheard' = IF named THEN unheard ELSE unheard + 1
    /\ clean' = (OnCard = {})
    /\ Ends(r)
    /\ UNCHANGED <<user, pks, codes, tokens, crashes, kyc, forgotten>>

(* A BitnobError: the row is rolled back, whatever Bitnob made of it.      *)
CardNotIssued(r) ==
    /\ IsAt(r, "request", "issue")
    /\ \/ UNCHANGED <<bitnob, unheard>>
       \/ /\ \E status \in {"PENDING", "ACTIVE"} : bitnob' = Append(bitnob, status)
          /\ unheard' = unheard + 1
    /\ Ends(r)
    /\ UNCHANGED <<user, pks, codes, tokens, crashes, kyc, card, forgotten, clean>>

-----------------------------------------------------------------------------
(* A signed-in user's request about the row it has read. *)
OnOwnCard(r, op) ==
    /\ Authenticated
    /\ card # NoCard
    /\ op = "terminate" => user.pin # Unset
    /\ op = "sync" => (card.status = "PENDING" \/ card.processing) /\ card.named
    /\ SetJob(r, Job(op, "ask", card))
    /\ clean' = (clean /\ OnCard = {})
    /\ UNCHANGED <<user, pks, codes, tokens, crashes, kyc, card, bitnob, unheard, forgotten>>

Asked(op) ==
    CASE op = "freeze" -> "FROZEN" [] op = "unfreeze" -> "ACTIVE" [] op = "terminate" -> "TERMINATED"

(* freeze_card, unfreeze_card and terminate_card ask Bitnob, whatever the  *)
(* row says; Bitnob changes a live card.                                   *)
BitnobAgrees(r) ==
    /\ job[r].op \in CardOps \ {"sync"} /\ job[r].at = "ask"
    /\ job[r].saw.named
    /\ bitnob[job[r].saw.id] \in {"ACTIVE", "FROZEN"}
    /\ bitnob' = [bitnob EXCEPT ![job[r].saw.id] = Asked(job[r].op)]
    /\ Goes(r, "answered")
    /\ UNCHANGED <<user, pks, codes, tokens, crashes, kyc, card, unheard, forgotten, clean>>

(* An error answer that is saved like an answer. *)
MutBitnobRefuses(r) ==
    /\ job[r].op \in CardOps /\ job[r].at = "ask"
    /\ Goes(r, IF job[r].op = "freeze" THEN "answered" ELSE "over")
    /\ UNCHANGED <<user, pks, codes, tokens, crashes, kyc, cardVars>>

(* A card younger than a day, a dead card or an empty id: an error.        *)
BitnobRefuses(r) ==
    /\ job[r].op \in CardOps /\ job[r].at = "ask"
    /\ Ends(r)
    /\ UNCHANGED <<user, pks, codes, tokens, crashes, kyc, cardVars>>

(* The answer is lost after Bitnob changed the card: an error as well.     *)
BitnobUnheard(r) ==
    /\ job[r].op \in CardOps /\ job[r].at = "answered"
    /\ clean' = (clean /\ job[r].op = "sync")
    /\ Ends(r)
    /\ UNCHANGED <<user, pks, codes, tokens, crashes, kyc, card, bitnob, unheard, forgotten>>

(* save(update_fields): an error if the row is gone.                       *)
SaveCardStatus(r) ==
    /\ job[r].op \in CardOps \ {"sync"} /\ job[r].at = "answered"
    /\ card' = IF card # NoCard /\ card.id = job[r].saw.id
               THEN [card EXCEPT !.status = Asked(job[r].op)] ELSE card
    /\ Ends(r)
    /\ UNCHANGED <<user, pks, codes, tokens, crashes, kyc, bitnob, unheard, forgotten, clean>>

(* sync_card_status: what Bitnob says is kept in the copy.                 *)
BitnobTells(r) ==
    /\ IsAt(r, "sync", "ask")
    /\ \E processing \in BOOLEAN :
         LET row == [job[r].saw EXCEPT !.status = bitnob[job[r].saw.id],
                                       !.processing = processing]
         IN  SetJob(r, Job("sync", "answered", row))
    /\ UNCHANGED <<user, pks, codes, tokens, crashes, kyc, cardVars>>

(* The copy is saved whole; a row that is gone is inserted again for a     *)
(* user that is there and has no other, which waits for a card request     *)
(* that has made the user's row and may roll it back.                      *)
sync_card_status(r) ==
    LET row == job[r].saw IN
    /\ IsAt(r, "sync", "answered")
    /\ card = NoCard => \A q \in Requests : ~IsAt(q, "request", "issue")
    /\ card' = IF card = NoCard
               THEN IF user # NoUser /\ user.pk = row.pk THEN row ELSE NoCard
               ELSE IF card.id = row.id THEN row ELSE card
    /\ Ends(r)
    /\ UNCHANGED <<user, pks, codes, tokens, crashes, kyc, bitnob, unheard, forgotten, clean>>

(* Bitnob finishes a pending card by itself. *)
BitnobProvisions ==
    /\ \E c \in DOMAIN bitnob :
         /\ bitnob[c] = "PENDING"
         /\ bitnob' = [bitnob EXCEPT ![c] = "ACTIVE"]
    /\ UNCHANGED <<user, pks, codes, tokens, job, crashes, kyc, card, unheard, forgotten, clean>>

-----------------------------------------------------------------------------
CardRequest(r) ==
    /\ job[r] = Waiting
    /\ request_card(r) \/ \E op \in CardOps : OnOwnCard(r, op)

CardStep(r) ==
    \/ CardIssued(r) \/ CardNotIssued(r)
    \/ BitnobAgrees(r) \/ BitnobRefuses(r) \/ BitnobUnheard(r) \/ SaveCardStatus(r)
    \/ BitnobTells(r) \/ sync_card_status(r)

CardInit ==
    /\ \/ card = NoCard /\ bitnob = <<>>
       \/ /\ kyc # NoKyc /\ kyc.status = "APPROVED" /\ user.pin # Unset
          /\ \E status \in {"PENDING", "ACTIVE"}, processing \in BOOLEAN :
               card = CardRow(1, 1, status, TRUE, processing) /\ bitnob = <<status>>
    /\ unheard = 0 /\ forgotten = 0
    /\ clean = TRUE
=============================================================================
