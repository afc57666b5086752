------------------------------ MODULE Identity ------------------------------
(***************************************************************************)
(* One person: the account, its verification and its virtual card, under   *)
(* requests that run side by side.  Deleting the account cascades to the   *)
(* rows of the other two and tells Bitnob nothing.                         *)
(***************************************************************************)
EXTENDS VirtualCards

vars == <<accountVars, kyc, cardVars>>

Init == AccountInit /\ KycInit /\ CardInit

(* The deletion waits for a submission and a card request, whose new rows  *)
(* hold the user's key.  (A user with crypto deposits is not deleted at    *)
(* all: see CryptoDeposits.)                                               *)
Cascade(r) ==
    /\ delete_user(r)
    /\ ~Held
    /\ \A q \in Requests : ~IsAt(q, "request", "issue")
    /\ IF user' = NoUser
       THEN /\ kyc' = NoKyc
            /\ card' = NoCard
            /\ forgotten' = forgotten + Known
            /\ UNCHANGED <<bitnob, unheard, clean>>
       ELSE UNCHANGED <<kyc, cardVars>>

(* A kill during a call to Bitnob leaves what a lost answer leaves.        *)
Killed(r) ==
    /\ Crash(r)
    /\ clean' = (clean /\ (r \notin OnCard \/ job[r].op = "sync"))
    /\ UNCHANGED <<kyc, card, bitnob, unheard, forgotten>>

Next ==
    \/ \E r \in Requests :
         \/ AccountRequest(r) /\ UNCHANGED <<kyc, cardVars>>
         \/ AccountStep(r) /\ UNCHANGED <<kyc, cardVars>>
         \/ KycRequest(r) /\ UNCHANGED cardVars
         \/ KycStep(r) /\ UNCHANGED cardVars
         \/ CardRequest(r)
         \/ CardStep(r)
         \/ Cascade(r)
         \/ Killed(r)
    \/ \E c \in DOMAIN codes : CodeAges(c) /\ UNCHANGED <<kyc, cardVars>>
    \/ BitnobProvisions

Spec == Init /\ [][Next]_vars

-----------------------------------------------------------------------------
(* Every variable keeps its type. *)
TypeOK ==
    /\ user \in Rows \cup {NoUser}
    /\ pks \in Nat
    /\ tokens \subseteq Nat
    /\ kyc \in KycRows \cup {NoKyc}
    /\ card \in CardRows \cup {NoCard}
    /\ bitnob \in Seq(CardStatuses)
    /\ unheard \in Nat /\ forgotten \in Nat /\ clean \in BOOLEAN
    /\ crashes \in 0..MaxCrashes

(* A complete account is verified and has a usable password, whatever row  *)
(* was saved over whatever row (User.can_login).                           *)
Ready(u) == u.complete => CanLogin(u)

LoginReady == user # NoUser => Ready(user)

(* A code is compared with at most OTP_MAX_ATTEMPTS wrong guesses, unless  *)
(* two requests held it at a time, a request that compared it was killed,  *)
(* or reset_password rolled its own count back.                            *)
MissesAreBounded ==
    \A c \in DOMAIN codes : codes[c].counted => codes[c].misses <= OTP_MAX_ATTEMPTS

(* A request changes the fields it is for; another field, or an account    *)
(* deleted meanwhile, only falls back to what the row was when a request   *)
(* that saves whole rows read it; and a complete account is only started   *)
(* over by a registration that found it incomplete.                        *)
MovedBy(r) == job'[r] # job[r]

Changes(r) ==
    \/ user = NoUser /\ job[r].op \in WholeRow
    \/ user' = NoUser /\ IsAt(r, "delete", "delete")
    \/ /\ user # NoUser /\ user' # NoUser
       /\ \A f \in UserFields :
            \/ user'[f] = user[f]
            \/ f \in Purpose(job[r].op)
            \/ job[r].op \in WholeRow /\ user'[f] = job[r].saw[f]
       /\ user.complete /\ ~user'.complete => ~job[r].saw.complete

ChangesStay ==
    [][ UNCHANGED user \/ \E r \in Requests : MovedBy(r) /\ Changes(r) ]_vars

(* The status is what the score of the submission in the row says, or an   *)
(* admin's decision on that submission; on another one only when it was    *)
(* replaced while the admin's request ran.                                 *)
DecidedOnItsData ==
    kyc # NoKyc =>
        \/ kyc.decider = Unset /\ kyc.status = _status_from_score(kyc.score)
        \/ /\ kyc.decider # Unset
           /\ kyc.status = IF job[kyc.decider].op = "approve" THEN "APPROVED" ELSE "REJECTED"
           /\ \/ job[kyc.decider].saw.submission = kyc.submission
              \/ kyc.decider \in kyc.during

(* What a request in hand has read is a row of the kind it is about; a     *)
(* registration that restarts one read an incomplete account.              *)
Shape(j) ==
    j = [op |-> j.op, at |-> j.at, saw |-> j.saw, code |-> j.code, tries |-> j.tries]

UserOps ==
    {"resend", "forgot", "verify", "check", "reset", "complete", "login", "delete",
     "submit", "request"} \cup SettingsOps

DecideOps == {"approve", "reject"}

JobOK(r) ==
    LET op == job[r].op
        saw == job[r].saw
    IN
    /\ Shape(job[r])
    /\ op \in {"", "register", "address"} \cup UserOps \cup DecideOps \cup CardOps
    /\ op = "register" => saw = NoUser \/ (saw \in Rows /\ ~saw.complete)
    /\ op \in UserOps => saw \in Rows /\ Ready(saw)
    /\ op = "complete" => saw.verified
    /\ op \in DecideOps \cup {"address"} => saw \in KycRows
    /\ op \in CardOps => saw \in CardRows
    /\ op \in DecideOps => job[r].at \in {"save", "over"}

(* A decision, made or on its way, is on the data the admin read, unless   *)
(* that was replaced while the decision was on its way.                    *)
OnItsData(r) == job[r].saw.submission = kyc.submission \/ r \in kyc.during

DecisionsOK ==
    kyc # NoKyc =>
        /\ \A r \in Requests : job[r].op \in DecideOps /\ job[r].at = "save" => OnItsData(r)
        /\ kyc.decider # Unset =>
             job[kyc.decider].op \in DecideOps /\ job[kyc.decider].at = "over"
        /\ DecidedOnItsData

(* Rows of cards, kept or read, are of cards that Bitnob made.             *)
CardsNumbered ==
    /\ card # NoCard => card.id <= Len(bitnob)
    /\ \A r \in Requests : job[r].op \in CardOps => job[r].saw.id <= Len(bitnob)

IInv ==
    /\ TypeOK
    /\ job = [r \in Requests |-> job[r]]
    /\ LoginReady
    /\ \A r \in Requests : JobOK(r)
    /\ DecisionsOK
    /\ CardsNumbered

(* What the app was told of a card still holds, but for a pending card     *)
(* that Bitnob finished since.                                             *)
Agrees(status, told) == status = told \/ (status = "PENDING" /\ told = "ACTIVE")

(* With no request on it, a card whose requests ran one by one and were    *)
(* answered is to the app what it is to Bitnob.                            *)
StatusAgrees ==
    card # NoCard /\ card.named /\ clean /\ OnCard = {} =>
        Agrees(card.status, bitnob[card.id])

(* Of all the cards Bitnob made the app knows one: each other one came of  *)
(* a request that got no answer, or went with a deleted account.           *)
OneKnownCard == Len(bitnob) <= unheard + forgotten + Known

(* The app's card is Bitnob's, and Bitnob has no other it told the app of. *)
CardAgrees == StatusAgrees /\ OneKnownCard
=============================================================================
