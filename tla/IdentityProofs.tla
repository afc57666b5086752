--------------------------- MODULE IdentityProofs ---------------------------
(***************************************************************************)
(* Accounts, verification and cards under any number of requests.  A step  *)
(* moves one request, which goes on about the row it has read; the lemma   *)
(* of each step says that it moves the request rightly (Moved) and keeps   *)
(* the types, and what it does to the verification.                        *)
(***************************************************************************)
EXTENDS Identity, Sums, TLAPS

USE DEF accountVars, cardVars

AccountTypes ==
    user \in Rows \cup {NoUser} /\ pks \in Nat /\ tokens \subseteq Nat /\ crashes \in 0..MaxCrashes

CardTypes ==
    /\ card \in CardRows \cup {NoCard}
    /\ bitnob \in Seq(CardStatuses)
    /\ unheard \in Nat /\ forgotten \in Nat /\ clean \in BOOLEAN

(* After a step the cards are of their types, and Bitnob made the app's.   *)
CardsGo ==
    /\ CardTypes'
    /\ Len(bitnob) <= Len(bitnob')
    /\ card' # NoCard => card'.id <= Len(bitnob')

(* The types of the account, the verification and the card together.       *)
LEMMA TypeParts == TypeOK <=> AccountTypes /\ kyc \in KycRows \cup {NoKyc} /\ CardTypes
BY DEF TypeOK, AccountTypes, CardTypes

Jobs == job = [r \in Requests |-> job[r]] /\ \A r \in Requests : JobOK(r)

(* Request r moves, and no other: it begins, or goes on about the same     *)
(* row; a decision only ends.                                              *)
Moved(r) ==
    /\ job' = [q \in Requests |-> job'[q]]
    /\ \A q \in Requests \ {r} : job'[q] = job[q]
    /\ JobOK(r)'
    /\ \/ /\ job[r].op = ""
          /\ job'[r].op \in DecideOps => job'[r].saw = kyc
          /\ job'[r].op \in CardOps => card # NoCard /\ job'[r].saw = card
       \/ /\ job'[r].op = job[r].op
          /\ job[r].op \in DecideOps => job'[r].saw = job[r].saw /\ job'[r].at = "over"
          /\ job[r].op \in CardOps => job'[r].saw.id = job[r].saw.id

Unmoved == job' = job

-----------------------------------------------------------------------------
(* How requests move *)

(* A new job and its fields.                                               *)
LEMMA JobFacts ==
    ASSUME NEW o, NEW a, NEW s
    PROVE  /\ Shape(Job(o, a, s))
           /\ Job(o, a, s).op = o /\ Job(o, a, s).at = a /\ Job(o, a, s).saw = s
BY DEF Job, Shape

(* A request that has not begun is about nothing.                          *)
LEMMA WaitingFacts == Waiting.op = "" /\ Waiting.saw = NoUser /\ Shape(Waiting)
<1>1. Waiting.op = ""
    BY DEF Job, Waiting
<1>2. Waiting.saw = NoUser
    BY DEF Job, Waiting
<1>3. Shape(Waiting)
    BY DEF Job, Waiting, Shape
<1>4. QED
    BY <1>1, <1>2, <1>3

(* A waiting request begins. *)
LEMMA Begins ==
    ASSUME Jobs, NEW r \in Requests, job[r] = Waiting, NEW j, SetJob(r, j), Shape(j),
           j.op \in {"", "register", "address"} \cup UserOps \cup DecideOps \cup CardOps,
           j.op = "register" => j.saw = NoUser \/ (j.saw \in Rows /\ ~j.saw.complete),
           j.op \in UserOps => j.saw \in Rows /\ Ready(j.saw),
           j.op = "complete" => j.saw.verified,
           j.op \in DecideOps \cup {"address"} => j.saw \in KycRows,
           j.op \in CardOps => j.saw \in CardRows /\ card # NoCard /\ j.saw = card,
           j.op \in DecideOps => j.at = "save" /\ j.saw = kyc
    PROVE  Moved(r)
<1>1. job' = [job EXCEPT ![r] = j]
    BY DEF SetJob
<1>2. /\ job' = [q \in Requests |-> job'[q]] /\ job'[r] = j
      /\ \A q \in Requests \ {r} : job'[q] = job[q]
    BY <1>1 DEF Jobs
<1>3. job[r].op = ""
    BY WaitingFacts
<1>4. JobOK(r)'
    BY <1>2 DEF JobOK, Shape
<1>5. QED
    BY <1>2, <1>3, <1>4 DEF Moved

(* One that begins about the user's row. *)
LEMMA UserBegins ==
    ASSUME Jobs, NEW r \in Requests, job[r] = Waiting, NEW j, SetJob(r, j), Shape(j),
           j.op \in UserOps, user \in Rows, Ready(user), j.saw = user,
           j.op = "complete" => user.verified
    PROVE  Moved(r)
<1>1. j.op \notin {"register", "address"} \cup DecideOps \cup CardOps
    BY DEF UserOps, SettingsOps, DecideOps, CardOps
<1>2. QED
    BY <1>1, Begins

(* A request goes on. *)
LEMMA GoesOn ==
    ASSUME Jobs, NEW r \in Requests, NEW at, Goes(r, at), job[r].op \in DecideOps => at = "over"
    PROVE  Moved(r)
<1> DEFINE j == [job[r] EXCEPT !.at = at]
<1>1. job' = [job EXCEPT ![r] = j]
    BY DEF Goes
<1>2. JobOK(r) /\ Shape(job[r])
    BY DEF Jobs, JobOK
<1>3. Shape(j) /\ j.op = job[r].op /\ j.saw = job[r].saw /\ j.at = at
    BY <1>2 DEF Shape
<1>4. /\ job' = [q \in Requests |-> job'[q]] /\ job'[r] = j
      /\ \A q \in Requests \ {r} : job'[q] = job[q]
    BY <1>1 DEF Jobs
<1> HIDE DEF j
<1>5. JobOK(r)'
    BY <1>2, <1>3, <1>4 DEF JobOK, Shape
<1>6. QED
    BY <1>3, <1>4, <1>5 DEF Moved

(* A request that ends, and no more, moves rightly.                        *)
LEMMA Over ==
    ASSUME Jobs, NEW r \in Requests, Ends(r)
    PROVE  Moved(r)
BY GoesOn DEF Ends

(* After any move all requests are as they should be. *)
LEMMA JobsKept ==
    ASSUME Jobs, NEW r \in Requests, Moved(r)
    PROVE  Jobs'
BY DEF Jobs, Moved, JobOK, Shape

(* Decisions, while the verification keeps its submission and its status,  *)
(* or goes.                                                                *)
SameDecision ==
    kyc' # NoKyc =>
        /\ kyc # NoKyc
        /\ kyc'.submission = kyc.submission /\ kyc'.score = kyc.score /\ kyc'.status = kyc.status
        /\ kyc'.decider = kyc.decider /\ kyc'.during = kyc.during

(* Rows of cards stay rows of cards that Bitnob made.                      *)
LEMMA NumbersKept ==
    ASSUME IInv, NEW r \in Requests, Moved(r), CardsGo
    PROVE  CardsNumbered'
<1>1. CardTypes /\ CardTypes' /\ CardsNumbered
    BY DEF IInv, TypeOK, CardTypes, CardsGo
<1>2. Len(bitnob) \in Nat /\ Len(bitnob') \in Nat /\ Len(bitnob) <= Len(bitnob')
    BY <1>1 DEF CardTypes, CardsGo
<1>3. \A q \in Requests :
        /\ job[q].op \in CardOps => job[q].saw \in CardRows
        /\ job'[q].op \in CardOps /\ q = r => job'[q].saw \in CardRows
    BY DEF IInv, JobOK, Moved
<1>4. \A c \in CardRows : c.id \in Nat
    BY DEF CardRows
<1>5. ASSUME NEW q \in Requests, job'[q].op \in CardOps
      PROVE  job'[q].saw.id <= Len(bitnob')
    <2>1. CASE q # r
        <3>1. job'[q] = job[q]
            BY <2>1 DEF Moved
        <3>2. job[q].saw.id <= Len(bitnob) /\ job[q].saw.id \in Nat
            BY <1>1, <1>3, <1>4, <1>5, <3>1 DEF CardsNumbered
        <3>3. QED
            BY <1>2, <3>1, <3>2
    <2>2. CASE q = r
        <3>1. job'[r].saw.id \in Nat
            BY <1>3, <1>4, <1>5, <2>2
        <3>2. job'[r].saw.id <= Len(bitnob)
            BY <1>1, <1>5, <2>2 DEF Moved, CardsNumbered
        <3>3. QED
            BY <1>2, <2>2, <3>1, <3>2
    <2>3. QED
        BY <2>1, <2>2
<1>6. QED
    BY <1>5 DEF CardsNumbered, CardsGo

(* A step that decides nothing keeps the decisions on their data.          *)
LEMMA DecisionsKept ==
    ASSUME IInv, NEW r \in Requests, Moved(r), SameDecision
    PROVE  DecisionsOK'
<1> SUFFICES ASSUME kyc' # NoKyc PROVE DecisionsOK'
    BY DEF DecisionsOK
<1>1. /\ kyc \in KycRows /\ kyc # NoKyc /\ DecisionsOK
      /\ kyc'.submission = kyc.submission /\ kyc'.score = kyc.score /\ kyc'.status = kyc.status
      /\ kyc'.decider = kyc.decider /\ kyc'.during = kyc.during
    BY DEF IInv, TypeOK, SameDecision
<1>2. ASSUME NEW q \in Requests, job'[q].op \in DecideOps, job'[q].at = "save"
      PROVE  OnItsData(q)'
    <2>1. CASE q # r
        BY <1>1, <1>2, <2>1 DEF Moved, DecisionsOK, OnItsData
    <2>2. CASE q = r
        BY <1>1, <1>2, <2>2 DEF Moved, OnItsData
    <2>3. QED
        BY <2>1, <2>2
<1>3. CASE kyc.decider = Unset
    BY <1>1, <1>2, <1>3 DEF DecisionsOK, DecidedOnItsData
<1>4. CASE kyc.decider # Unset
    <2>1. kyc.decider \in Requests /\ job[kyc.decider].op \in DecideOps
          /\ job[kyc.decider].at = "over"
        BY <1>1, <1>4 DEF DecisionsOK, KycRows
    <2>2. /\ job'[kyc.decider].op = job[kyc.decider].op
          /\ job'[kyc.decider].saw = job[kyc.decider].saw
          /\ job'[kyc.decider].at = "over"
        BY <2>1 DEF Moved, DecideOps
    <2>3. QED
        BY <1>1, <1>2, <1>4, <2>1, <2>2 DEF DecisionsOK, DecidedOnItsData
<1>5. QED
    BY <1>3, <1>4

(* A step that moves a request and is right about the three rows. *)
LEMMA StepKeeps ==
    ASSUME IInv, NEW r \in Requests, Moved(r), kyc' \in KycRows \cup {NoKyc}, DecisionsOK',
           AccountTypes', LoginReady', CardsGo
    PROVE  IInv'
<1>1. Jobs
    BY DEF IInv, Jobs
<1>2. Jobs'
    BY <1>1, JobsKept
<1>3. TypeOK'
    BY DEF AccountTypes, CardTypes, CardsGo, TypeOK
<1>4. CardsNumbered'
    BY NumbersKept
<1>5. QED
    BY <1>2, <1>3, <1>4 DEF IInv, Jobs

-----------------------------------------------------------------------------
(* The account *)

(* What a step about the account keeps, and what it may do to the row. *)
AccountGood(r) ==
    /\ Moved(r) /\ AccountTypes' /\ LoginReady'
    /\ user' = user \/ (MovedBy(r) /\ Changes(r))

(* A step that leaves the account alone is good for it.                    *)
LEMMA UserStays ==
    ASSUME IInv, NEW r \in Requests, Moved(r), user' = user, pks' = pks, crashes' = crashes,
           tokens' \subseteq Nat
    PROVE  AccountGood(r)
BY DEF IInv, TypeOK, AccountTypes, AccountGood, LoginReady, Ready, CanLogin

(* Some fields of one row saved over another make a row.                   *)
LEMMA RowFields ==
    ASSUME NEW u \in Rows, NEW row \in Rows, NEW F \in SUBSET UserFields
    PROVE  [f \in DOMAIN u |-> IF f \in F THEN row[f] ELSE u[f]] \in Rows
<1> DEFINE v == [f \in DOMAIN u |-> IF f \in F THEN row[f] ELSE u[f]]
<1>1. DOMAIN u = {"pk", "verified", "complete", "password", "pin"}
    BY DEF Rows
<1>2. /\ v.pk \in Nat /\ v.verified \in BOOLEAN /\ v.complete \in BOOLEAN
      /\ v.password \in Secrets /\ v.pin \in Secrets
    BY <1>1 DEF Rows, UserFields
<1>3. v = [pk |-> v.pk, verified |-> v.verified, complete |-> v.complete,
           password |-> v.password, pin |-> v.pin]
    BY <1>1
<1>4. QED
    BY <1>2, <1>3 DEF Rows

(* What saving a row, or some fields of it, does. *)
LEMMA SaveFacts ==
    ASSUME IInv, NEW row \in Rows, NEW F \in SUBSET UserFields, save(row, F),
           F = UserFields => Ready(row),
           F # UserFields => /\ "complete" \notin F
                             /\ "verified" \in F => row.verified
                             /\ "password" \in F => row.password # Unset
    PROVE  /\ user' \in Rows \cup {NoUser} /\ LoginReady'
           /\ user = NoUser => user' = NoUser \/ F = UserFields
           /\ user # NoUser =>
                /\ user' # NoUser
                /\ user' = user \/ \A f \in UserFields : user'[f] = IF f \in F THEN row[f] ELSE user[f]
<1>1. user \in Rows \cup {NoUser} /\ LoginReady
    BY DEF IInv, TypeOK
<1>2. CASE user = NoUser
    BY <1>1, <1>2 DEF save, LoginReady
<1>3. CASE user # NoUser /\ user' = user
    BY <1>1, <1>3 DEF LoginReady, Ready, CanLogin
<1>4. CASE user # NoUser /\ user' # user
    <2>1. user \in Rows /\ user' = [f \in DOMAIN user |-> IF f \in F THEN row[f] ELSE user[f]]
        BY <1>1, <1>4 DEF save
    <2>2. user' \in Rows /\ user' # NoUser
        BY <2>1, RowFields, NoUserAssumption
    <2>3. \A f \in UserFields : user'[f] = IF f \in F THEN row[f] ELSE user[f]
        BY <2>1 DEF Rows, UserFields
    <2>4. Ready(user')
        <3>1. CASE F = UserFields
            BY <2>2, <2>3, <3>1 DEF Ready, CanLogin, UserFields, Rows
        <3>2. CASE F # UserFields
            BY <1>1, <1>4, <2>2, <2>3, <3>2 DEF LoginReady, Ready, CanLogin, UserFields, Rows
        <3>3. QED
            BY <3>1, <3>2
    <2>5. QED
        BY <1>4, <2>2, <2>3, <2>4 DEF LoginReady
<1>5. QED
    BY <1>2, <1>3, <1>4

(* The parts of the invariant that the steps of the account need.          *)
LEMMA Hypotheses == IInv => Jobs /\ AccountTypes /\ CardTypes /\ LoginReady
BY TypeParts DEF IInv, Jobs

(* A request of a person begins about the row as it is. *)
LEMMA AccountBegins ==
    ASSUME IInv, NEW r \in Requests, AccountRequest(r)
    PROVE  AccountGood(r)
<1>1. Jobs /\ AccountTypes /\ job[r] = Waiting
    BY Hypotheses DEF AccountRequest
<1>2. user # NoUser => user \in Rows /\ Ready(user)
    BY DEF IInv, TypeOK, LoginReady
<1>3. ASSUME user' = user, pks' = pks, crashes' = crashes, tokens' \subseteq Nat,
             user # NoUser, NEW o \in UserOps, NEW a, SetJob(r, Job(o, a, user)),
             o = "complete" => user.verified
      PROVE  AccountGood(r)
    <2> DEFINE j == Job(o, a, user)
    <2>1. Shape(j) /\ j.op = o /\ j.saw = user
        BY JobFacts
    <2> HIDE DEF j
    <2>2. Moved(r)
        BY <1>1, <1>2, <1>3, <2>1, UserBegins DEF j
    <2>3. QED
        BY <1>3, <2>2, UserStays
<1>4. ASSUME user # NoUser, NEW o \in {"verify", "check", "reset"}, NEW c, NEW a,
             Guesses(r, o, c, a)
      PROVE  AccountGood(r)
    <2> DEFINE at == IF o = "reset" /\ a # "hit" THEN "over" ELSE a
               j == [op |-> o, at |-> at, saw |-> user, code |-> c, tries |-> codes[c].tries]
    <2>1. Shape(j) /\ j.op = o /\ j.saw = user
        BY DEF Shape
    <2>2. SetJob(r, j) /\ user' = user /\ pks' = pks /\ crashes' = crashes /\ tokens' = tokens
        BY <1>4 DEF Guesses
    <2>3. o \in UserOps /\ o # "complete"
        BY DEF UserOps
    <2> HIDE DEF j
    <2>4. Moved(r)
        BY <1>1, <1>2, <1>4, <2>1, <2>2, <2>3, UserBegins
    <2>5. QED
        BY <1>1, <2>2, <2>4, UserStays DEF AccountTypes
<1>5. CASE register_user(r)
    <2> DEFINE j == Job("register", "save", user)
    <2>1. Shape(j) /\ j.op = "register" /\ j.saw = user
        BY JobFacts
    <2>2. SetJob(r, j) /\ user' = user /\ pks' = pks /\ crashes' = crashes /\ tokens' = tokens
        BY <1>5 DEF register_user
    <2>3. user = NoUser \/ (user \in Rows /\ ~user.complete)
        BY <1>2, <1>5 DEF register_user
    <2>4. "register" \notin {"address"} \cup UserOps \cup DecideOps \cup CardOps
        BY DEF UserOps, SettingsOps, DecideOps, CardOps
    <2> HIDE DEF j
    <2>5. Moved(r)
        BY <1>1, <2>1, <2>2, <2>3, <2>4, Begins
    <2>6. QED
        BY <1>1, <2>2, <2>5, UserStays DEF AccountTypes
<1>6. CASE verify_registration_otp(r)
    BY <1>4, <1>6 DEF verify_registration_otp
<1>7. CASE verify_reset_otp(r, "check") \/ verify_reset_otp(r, "reset")
    BY <1>4, <1>7 DEF verify_reset_otp
<1>8. CASE resend_registration_otp(r)
    BY <1>1, <1>3, <1>8 DEF resend_registration_otp, LookForCooldown, UserOps, AccountTypes
<1>9. CASE request_password_reset(r)
    BY <1>1, <1>3, <1>9 DEF request_password_reset, LookForCooldown, UserOps, AccountTypes
<1>10. CASE complete_profile(r)
    BY <1>1, <1>3, <1>10 DEF complete_profile, UserOps, AccountTypes
<1>11. CASE login_user(r)
    <2>1. user # NoUser /\ user.pk \in Nat
        BY <1>2, <1>11 DEF login_user, CanLogin, Rows
    <2>2. tokens' \subseteq Nat /\ user' = user /\ pks' = pks /\ crashes' = crashes
          /\ SetJob(r, Job("login", "over", user))
        BY <1>1, <1>11, <2>1 DEF login_user, AccountTypes
    <2>3. "login" \in UserOps
        BY DEF UserOps
    <2>4. QED
        BY <1>3, <2>1, <2>2, <2>3
<1>12. CASE AskToDelete(r)
    BY <1>1, <1>3, <1>12 DEF AskToDelete, UserOps, AccountTypes
<1>13. ASSUME NEW o \in SettingsOps, Authenticate(r, o)
       PROVE  AccountGood(r)
    BY <1>1, <1>3, <1>13 DEF Authenticate, Authenticated, UserOps, SettingsOps, AccountTypes
<1>14. QED
    BY <1>5, <1>6, <1>7, <1>8, <1>9, <1>10, <1>11, <1>12, <1>13 DEF AccountRequest

(* A request that saves its copy, or some fields of it. *)
LEMMA Saves ==
    ASSUME IInv, NEW r \in Requests, Moved(r), MovedBy(r),
           NEW row \in Rows, NEW F \in SUBSET UserFields, save(row, F),
           F = UserFields <=> job[r].op \in WholeRow,
           F = UserFields =>
               /\ Ready(row)
               /\ ~row.complete => ~job[r].saw.complete
               /\ \A f \in UserFields : f \in Purpose(job[r].op) \/ row[f] = job[r].saw[f],
           F # UserFields =>
               /\ "complete" \notin F /\ F \subseteq Purpose(job[r].op)
               /\ "verified" \in F => row.verified
               /\ "password" \in F => row.password # Unset,
           pks' = pks, crashes' = crashes, tokens' \subseteq Nat
    PROVE  AccountGood(r)
<1>1. /\ user' \in Rows \cup {NoUser} /\ LoginReady'
      /\ user = NoUser => user' = NoUser \/ F = UserFields
      /\ user # NoUser =>
           /\ user' # NoUser
           /\ user' = user \/ \A f \in UserFields : user'[f] = IF f \in F THEN row[f] ELSE user[f]
    <2>1. F = UserFields => Ready(row)
        OBVIOUS
    <2>2. F # UserFields => /\ "complete" \notin F
                            /\ "verified" \in F => row.verified
                            /\ "password" \in F => row.password # Unset
        OBVIOUS
    <2>3. QED
        BY <2>1, <2>2, SaveFacts
<1>2. AccountTypes'
    BY <1>1, Hypotheses DEF AccountTypes
<1>3. ASSUME user' # user PROVE Changes(r)
    <2>1. CASE user = NoUser
        BY <1>1, <1>3, <2>1 DEF Changes
    <2>2. CASE user # NoUser
        <3>1. user' # NoUser
              /\ \A f \in UserFields : user'[f] = IF f \in F THEN row[f] ELSE user[f]
            BY <1>1, <1>3, <2>2
        <3>2. ASSUME NEW f \in UserFields
              PROVE  \/ user'[f] = user[f]
                     \/ f \in Purpose(job[r].op)
                     \/ job[r].op \in WholeRow /\ user'[f] = job[r].saw[f]
            BY <3>1
        <3>3. user.complete /\ ~user'.complete => ~job[r].saw.complete
            <4>1. "complete" \in UserFields
                BY DEF UserFields
            <4>2. CASE F = UserFields
                <5>1. user'["complete"] = row["complete"]
                    BY <3>1, <4>1, <4>2
                <5>2. QED
                    BY <4>2, <5>1
            <4>3. CASE F # UserFields
                BY <3>1, <4>1, <4>3
            <4>4. QED
                BY <4>2, <4>3
        <3>4. QED
            BY <2>2, <3>1, <3>2, <3>3 DEF Changes
    <2>3. QED
        BY <2>1, <2>2
<1>4. QED
    BY <1>1, <1>2, <1>3 DEF AccountGood

(* A row stays one with what the requests change in it.                    *)
LEMMA RowOf ==
    ASSUME NEW u \in Rows, NEW s \in Secrets
    PROVE  /\ [u EXCEPT !.verified = TRUE] \in Rows
           /\ [u EXCEPT !.password = s] \in Rows
           /\ [u EXCEPT !.complete = TRUE, !.password = s] \in Rows
<1>1. [u EXCEPT !.verified = TRUE] \in Rows
    BY DEF Rows
<1>2. [u EXCEPT !.password = s] \in Rows
    BY DEF Rows
<1>3. [[u EXCEPT !.complete = TRUE] EXCEPT !.password = s] \in Rows
    <2>1. [u EXCEPT !.complete = TRUE] \in Rows
        BY DEF Rows
    <2>2. QED
        BY <2>1 DEF Rows
<1>4. [u EXCEPT !.complete = TRUE, !.password = s] = [[u EXCEPT !.complete = TRUE] EXCEPT !.password = s]
    OBVIOUS
<1>5. QED
    BY <1>1, <1>2, <1>3, <1>4

(* A request that goes to another place has moved.                         *)
LEMMA Finishes ==
    ASSUME IInv, NEW r \in Requests, NEW a, Goes(r, a), job[r].at # a
    PROVE  MovedBy(r)
<1>1. job[r] = [op |-> job[r].op, at |-> job[r].at, saw |-> job[r].saw, code |-> job[r].code,
                tries |-> job[r].tries]
    BY DEF IInv, JobOK, Shape
<1>2. job'[r].at = a
    BY <1>1 DEF Goes, IInv
<1>3. QED
    BY <1>2 DEF MovedBy

(* What a request at work about the account has read. *)
LEMMA Read ==
    ASSUME IInv, NEW r \in Requests
    PROVE  /\ job[r].op \in UserOps => job[r].saw \in Rows /\ Ready(job[r].saw)
           /\ job[r].op = "complete" => job[r].saw.verified
           /\ job[r].op = "register" => job[r].saw = NoUser \/ (job[r].saw \in Rows /\ ~job[r].saw.complete)
           /\ job[r].op \in DecideOps => job[r].at \in {"save", "over"}
BY DEF IInv, JobOK

(* Each step of a request about the account is good for it.                *)
LEMMA AccountGoesOn ==
    ASSUME IInv, NEW r \in Requests, AccountStep(r)
    PROVE  AccountGood(r)
<1> USE DEF DecideOps
<1>1. Jobs /\ AccountTypes
    BY Hypotheses
<1>2. ASSUME NEW a, Goes(r, a), job[r].at # "save", job[r].at # "over", user' = user, pks' = pks,
             crashes' = crashes, tokens' = tokens
      PROVE  AccountGood(r)
    BY <1>1, <1>2, Read, GoesOn, UserStays DEF AccountTypes
<1>3. CASE InvalidateCodes(r)
    BY <1>2, <1>3 DEF InvalidateCodes
<1>4. CASE CreateCode(r)
    BY <1>2, <1>4 DEF CreateCode, Ends
<1>5. CASE LockCode(r)
    BY <1>2, <1>5 DEF LockCode, Ends
<1>6. CASE CountMiss(r)
    BY <1>2, <1>6 DEF CountMiss, Ends
<1>7. CASE UseCode(r)
    BY <1>2, <1>7 DEF UseCode, IsAt
<1>8. ASSUME NEW a, IsAt(r, "register", "save") \/ IsAt(r, "complete", "save") \/ job[r].at = a,
             a \in {"save", "verified", "hit"}, Ends(r)
      PROVE  Moved(r) /\ MovedBy(r)
    BY <1>1, <1>8, Over, Finishes DEF IsAt, Ends
<1>9. CASE RegisterCommit(r)
    <2> DEFINE fresh == Row(IF job[r].saw = NoUser THEN pks + 1 ELSE job[r].saw.pk, FALSE, FALSE, Unset, Unset)
    <2>1. job[r].op = "register" /\ Moved(r) /\ MovedBy(r) /\ tokens' = tokens /\ crashes' = crashes
        BY <1>8, <1>9 DEF RegisterCommit, IsAt
    <2>2. CASE UNCHANGED <<user, pks, codes>>
        BY <1>1, <2>1, <2>2, UserStays DEF AccountTypes
    <2>3. CASE /\ job[r].saw = NoUser => user = NoUser
               /\ user' = fresh
               /\ pks' = IF job[r].saw = NoUser THEN pks + 1 ELSE pks
        <3>1. fresh \in Rows
            BY <1>1, <2>1, Read DEF Row, Rows, Secrets, AccountTypes
        <3>2. ~fresh.complete
            BY DEF Row
        <3> HIDE DEF fresh
        <3>3. AccountTypes' /\ LoginReady'
            <4>1. AccountTypes'
                BY <1>1, <2>1, <2>3, <3>1 DEF AccountTypes
            <4>2. ~user'.complete
                BY <2>3, <3>2
            <4>3. QED
                BY <4>1, <4>2 DEF LoginReady, Ready
        <3>4. Changes(r)
            <4>1. CASE user = NoUser
                BY <2>1, <4>1 DEF Changes, WholeRow
            <4>2. CASE user # NoUser
                BY <2>1, <2>3, <3>1, <4>2, Read, NoUserAssumption DEF Changes, Purpose
            <4>3. QED
                BY <4>1, <4>2
        <3>5. QED
            BY <2>1, <3>3, <3>4 DEF AccountGood
    <2>4. QED
        BY <1>9, <2>2, <2>3 DEF RegisterCommit
<1>10. CASE CompleteCommit(r)
    <2> DEFINE row == [job[r].saw EXCEPT !.complete = TRUE, !.password = r]
    <2>1. /\ job[r].op = "complete" /\ Moved(r) /\ MovedBy(r) /\ pks' = pks /\ crashes' = crashes
          /\ save(row, UserFields)
        BY <1>8, <1>10 DEF CompleteCommit, IsAt
    <2>2. job[r].saw \in Rows /\ job[r].saw.verified
        BY <2>1, Read DEF UserOps
    <2>3. row \in Rows
        BY <2>2, RowOf DEF Secrets
    <2>4. row.verified /\ row.complete /\ row.password = r /\ row.pin = job[r].saw.pin
          /\ row.verified = job[r].saw.verified
        BY <2>2 DEF Rows
    <2>5. Ready(row)
        BY <2>3, <2>4, NoUserAssumption, AccountsAssumption DEF Ready, CanLogin
    <2>6. \A f \in UserFields : f \in Purpose("complete") \/ row[f] = job[r].saw[f]
        BY <2>4 DEF UserFields, Purpose
    <2>7. tokens' \subseteq Nat
        <3>1. user' \in Rows \cup {NoUser}
            BY <2>1, <2>3, <2>5, SaveFacts
        <3>2. QED
            BY <1>1, <1>10, <3>1 DEF CompleteCommit, AccountTypes, Rows
    <2> HIDE DEF row
    <2>8. QED
        BY <2>1, <2>3, <2>4, <2>5, <2>6, <2>7, Saves DEF WholeRow
<1>11. CASE SaveVerified(r)
    <2> DEFINE row == [job[r].saw EXCEPT !.verified = TRUE]
    <2>1. /\ job[r].op = "verify" /\ Moved(r) /\ MovedBy(r) /\ pks' = pks /\ crashes' = crashes
          /\ tokens' = tokens /\ save(row, {"verified"})
        BY <1>8, <1>11 DEF SaveVerified, IsAt
    <2>2. job[r].saw \in Rows
        BY <2>1, Read DEF UserOps
    <2>3. row \in Rows /\ row.verified
        BY <2>2, RowOf, AccountsAssumption DEF Rows, Secrets
    <2>4. {"verified"} \in SUBSET UserFields /\ {"verified"} # UserFields
          /\ {"verified"} \subseteq Purpose("verify") /\ "verify" \notin WholeRow
        BY DEF UserFields, Purpose, WholeRow
    <2> HIDE DEF row
    <2>5. QED
        BY <1>1, <2>1, <2>3, <2>4, Saves DEF AccountTypes
<1>12. CASE reset_password(r)
    <2> DEFINE row == [job[r].saw EXCEPT !.password = r]
    <2>1. /\ job[r].op = "reset" /\ Moved(r) /\ MovedBy(r) /\ pks' = pks /\ crashes' = crashes
          /\ tokens' = tokens /\ save(row, {"password"})
        BY <1>8, <1>12 DEF reset_password, IsAt
    <2>2. job[r].saw \in Rows
        BY <2>1, Read DEF UserOps
    <2>3. row \in Rows /\ row.password # Unset
        BY <2>2, RowOf, AccountsAssumption DEF Rows, Secrets
    <2>4. {"password"} \in SUBSET UserFields /\ {"password"} # UserFields
          /\ {"password"} \subseteq Purpose("reset") /\ "reset" \notin WholeRow
        BY DEF UserFields, Purpose, WholeRow, SettingsOps
    <2> HIDE DEF row
    <2>5. QED
        BY <1>1, <2>1, <2>3, <2>4, Saves DEF AccountTypes
<1>13. CASE SaveSettings(r)
    <2> DEFINE o == job[r].op
               F == UpdateFields(o)
               row == [f \in DOMAIN job[r].saw |-> IF f \in Purpose(o) THEN r ELSE job[r].saw[f]]
    <2>1. /\ o \in SettingsOps /\ Moved(r) /\ MovedBy(r) /\ pks' = pks /\ crashes' = crashes
          /\ tokens' = tokens /\ save(row, F)
        BY <1>8, <1>13 DEF SaveSettings
    <2>2. job[r].saw \in Rows /\ Ready(job[r].saw)
        BY <2>1, Read DEF UserOps
    <2>3. CASE o = "profile"
        <3>1. Purpose(o) = {} /\ F = UserFields /\ o \in WholeRow
            BY <2>3 DEF Purpose, UpdateFields, WholeRow, SettingsOps
        <3>2. row = job[r].saw
            BY <2>2, <3>1 DEF Rows
        <3> HIDE DEF row, F
        <3>3. QED
            BY <1>1, <2>1, <2>2, <3>1, <3>2, Saves DEF AccountTypes
    <2>4. CASE o # "profile"
        <3>1. Purpose(o) \in {{"pin"}, {"password"}} /\ F = Purpose(o) /\ o \notin WholeRow
            BY <2>1, <2>4 DEF Purpose, UpdateFields, WholeRow, SettingsOps
        <3>2. r \in Secrets /\ r # Unset
            BY AccountsAssumption DEF Secrets
        <3>3. row \in Rows /\ ("password" \in F => row.password # Unset)
            <4>1. DOMAIN job[r].saw = {"pk", "verified", "complete", "password", "pin"}
                BY <2>2 DEF Rows
            <4>2. /\ row.pk \in Nat /\ row.verified \in BOOLEAN /\ row.complete \in BOOLEAN
                  /\ row.password \in Secrets /\ row.pin \in Secrets
                BY <2>2, <3>1, <3>2, <4>1 DEF Rows
            <4>3. row = [pk |-> row.pk, verified |-> row.verified, complete |-> row.complete,
                         password |-> row.password, pin |-> row.pin]
                BY <4>1
            <4>4. row \in Rows
                BY <4>2, <4>3 DEF Rows
            <4>5. "password" \in F => row.password # Unset
                BY <3>1, <3>2, <4>1
            <4>6. QED
                BY <4>4, <4>5
        <3>4. F \in SUBSET UserFields /\ F # UserFields /\ "complete" \notin F /\ "verified" \notin F
            BY <3>1 DEF UserFields
        <3> HIDE DEF row, F
        <3>5. QED
            BY <1>1, <2>1, <3>1, <3>3, <3>4, Saves DEF AccountTypes
    <2>5. QED
        BY <2>3, <2>4
<1>14. QED
    BY <1>3, <1>4, <1>5, <1>6, <1>7, <1>9, <1>10, <1>11, <1>12, <1>13 DEF AccountStep

-----------------------------------------------------------------------------
(* The verification *)

(* What a step about the verification or the card leaves of the account.   *)
AccountStays == UNCHANGED <<user, pks, tokens, crashes>>

(* What stays of the account keeps its types and its readiness.            *)
LEMMA AccountKept ==
    ASSUME IInv, AccountStays
    PROVE  AccountTypes' /\ LoginReady'
BY Hypotheses DEF AccountStays, AccountTypes, LoginReady, Ready, CanLogin

(* A step about no card keeps the numbers of the cards.                    *)
LEMMA CardKept ==
    ASSUME IInv, UNCHANGED cardVars
    PROVE  CardsGo
<1>1. CardTypes /\ (card # NoCard => card.id <= Len(bitnob))
    BY Hypotheses DEF IInv, CardsNumbered
<1>2. Len(bitnob) \in Nat
    BY <1>1 DEF CardTypes
<1>3. QED
    BY <1>1, <1>2 DEF CardTypes, CardsGo

(* A step about no verification keeps the decisions.                       *)
LEMMA KycKept ==
    ASSUME IInv, NEW r \in Requests, Moved(r), kyc' = kyc
    PROVE  kyc' \in KycRows \cup {NoKyc} /\ DecisionsOK'
<1>1. SameDecision
    BY DEF SameDecision
<1>2. QED
    BY <1>1, DecisionsKept DEF IInv, TypeOK

(* A request about the verification begins, and changes no row.            *)
LEMMA KycBegins ==
    ASSUME IInv, NEW r \in Requests, KycRequest(r)
    PROVE  Moved(r) /\ AccountStays /\ kyc' = kyc
<1>1. Jobs /\ job[r] = Waiting
    BY Hypotheses DEF KycRequest
<1>2. CASE submit_verification(r)
    <2> DEFINE j == Job("submit", "dojah", user)
    <2>1. Shape(j) /\ j.op = "submit" /\ j.saw = user
        BY JobFacts
    <2>2. user \in Rows /\ Ready(user) /\ SetJob(r, j)
        BY <1>2 DEF submit_verification, Authenticated, IInv, TypeOK, LoginReady
    <2>3. "submit" \in UserOps /\ "submit" # "complete"
        BY DEF UserOps
    <2> HIDE DEF j
    <2>4. Moved(r)
        BY <1>1, <2>1, <2>2, <2>3, UserBegins
    <2>5. QED
        BY <1>2, <2>4 DEF submit_verification, AccountStays
<1>3. ASSUME NEW o \in {"address", "approve", "reject"}, NEW a, SetJob(r, Job(o, a, kyc)),
             kyc # NoKyc, o # "address" => a = "save", AccountStays, kyc' = kyc
      PROVE  Moved(r) /\ AccountStays /\ kyc' = kyc
    <2> DEFINE j == Job(o, a, kyc)
    <2>1. Shape(j) /\ j.op = o /\ j.at = a /\ j.saw = kyc
        BY JobFacts
    <2>2. kyc \in KycRows
        BY <1>3 DEF IInv, TypeOK
    <2>3. o \notin UserOps /\ o \notin CardOps /\ o # "register" /\ o # "complete"
        BY DEF UserOps, SettingsOps, CardOps
    <2>4. o \in {"", "register", "address"} \cup UserOps \cup DecideOps \cup CardOps
          /\ (o \in DecideOps => a = "save")
        BY <1>3 DEF DecideOps
    <2> HIDE DEF j
    <2>5. SetJob(r, j)
        BY <1>3 DEF j
    <2>6. Moved(r)
        BY <1>1, <2>1, <2>2, <2>3, <2>4, <2>5, Begins
    <2>7. QED
        BY <1>3, <2>6
<1>4. CASE update_address(r)
    BY <1>3, <1>4 DEF update_address, AccountStays
<1>5. ASSUME NEW o \in {"approve", "reject"}, AskToDecide(r, o)
      PROVE  Moved(r) /\ AccountStays /\ kyc' = kyc
    BY <1>3, <1>5 DEF AskToDecide, AccountStays
<1>6. QED
    BY <1>2, <1>4, <1>5 DEF KycRequest

(* Once decided or resubmitted, every decision is on its data. *)
LEMMA KycGoesOn ==
    ASSUME IInv, NEW r \in Requests, KycStep(r)
    PROVE  /\ Moved(r) /\ AccountStays
           /\ kyc' \in KycRows \cup {NoKyc} /\ DecisionsOK'
<1>1. Jobs /\ kyc \in KycRows \cup {NoKyc} /\ DecisionsOK
    BY Hypotheses DEF IInv, TypeOK
<1>2. Ends(r) /\ AccountStays
    BY DEF KycStep, DojahVerifies, DojahFails, SaveAddress, admin_approve, admin_reject, Decide,
           AccountStays
<1>3. Moved(r)
    BY <1>1, <1>2, Over
<1>4. ASSUME NEW score \in Scores \cup {NoScore}, DojahVerifies(r, score)
      PROVE  kyc' \in KycRows \cup {NoKyc} /\ DecisionsOK'
    <2>1. PICK address \in BOOLEAN :
            kyc' = [pk |-> job[r].saw.pk, submission |-> r, address |-> address, score |-> score,
                    status |-> _status_from_score(score), decider |-> Unset, during |-> Deciders]
        BY <1>4 DEF DojahVerifies
    <2>2. job[r].op = "submit" /\ job[r].saw \in Rows
        BY <1>4, Read DEF DojahVerifies, IsAt, UserOps
    <2>3. _status_from_score(score) \in KycStatuses
        BY DEF _status_from_score, KycStatuses
    <2>4. Deciders \in SUBSET Requests
        BY DEF Deciders
    <2>5. kyc' \in KycRows
        BY <2>1, <2>2, <2>3, <2>4 DEF Rows, KycRows
    <2>6. ASSUME NEW q \in Requests, job'[q].op \in DecideOps, job'[q].at = "save"
          PROVE  OnItsData(q)'
        <3>1. q # r
            BY <1>3, <2>2, <2>6 DEF Moved, DecideOps
        <3>2. job[q].op \in DecideOps /\ job[q].at = "save"
            BY <1>3, <2>6, <3>1 DEF Moved
        <3>3. q \in Deciders
            BY <3>2 DEF Deciders, DecideOps, InFlight
        <3>4. QED
            BY <2>1, <3>3 DEF OnItsData
    <2>7. DecidedOnItsData'
        BY <2>1 DEF DecidedOnItsData, _status_from_score
    <2>8. QED
        BY <2>1, <2>5, <2>6, <2>7 DEF DecisionsOK
<1>5. CASE DojahFails(r)
    BY <1>2, <1>3, <1>5, KycKept DEF DojahFails
<1>6. CASE SaveAddress(r)
    <2>1. kyc' = kyc \/ (kyc # NoKyc /\ kyc' = [kyc EXCEPT !.address = TRUE])
        BY <1>6 DEF SaveAddress
    <2>2. kyc' \in KycRows \cup {NoKyc} /\ SameDecision
        BY <1>1, <2>1, NoKycAssumption DEF KycRows, SameDecision
    <2>3. QED
        BY <1>2, <1>3, <2>2, DecisionsKept
<1>7. ASSUME NEW status \in {"APPROVED", "REJECTED"}, Decide(r, status), job[r].op \in DecideOps,
             status = IF job[r].op = "approve" THEN "APPROVED" ELSE "REJECTED"
      PROVE  kyc' \in KycRows \cup {NoKyc} /\ DecisionsOK'
    <2>1. CASE kyc' = kyc
        BY <1>3, <2>1, KycKept
    <2>2. CASE kyc # NoKyc /\ kyc' = [kyc EXCEPT !.status = status, !.decider = r]
        <3>1. kyc \in KycRows /\ kyc' \in KycRows
            BY <1>1, <2>2 DEF KycRows, KycStatuses
        <3>2. /\ kyc'.submission = kyc.submission /\ kyc'.during = kyc.during
              /\ kyc'.status = status /\ kyc'.decider = r
            BY <2>2, <3>1 DEF KycRows
        <3>3. job[r].at = "save" /\ OnItsData(r)
            BY <1>1, <1>7, <2>2 DEF Decide, DecisionsOK
        <3>4. job'[r].op = job[r].op /\ job'[r].saw = job[r].saw /\ job'[r].at = "over"
            BY <1>3, <1>7 DEF Moved, DecideOps
        <3>5. ASSUME NEW q \in Requests, job'[q].op \in DecideOps, job'[q].at = "save"
              PROVE  OnItsData(q)'
            BY <1>1, <1>3, <2>2, <3>2, <3>4, <3>5 DEF Moved, DecisionsOK, OnItsData
        <3>6. r # Unset
            BY AccountsAssumption
        <3>7. DecidedOnItsData'
            BY <1>7, <3>2, <3>3, <3>4, <3>6 DEF DecidedOnItsData, OnItsData
        <3>8. QED
            BY <1>7, <3>1, <3>2, <3>4, <3>5, <3>7 DEF DecisionsOK
    <2>3. QED
        BY <1>7, <2>1, <2>2 DEF Decide
<1>8. CASE admin_approve(r) \/ admin_reject(r)
    <2>1. CASE admin_approve(r)
        BY <1>2, <1>3, <1>7, <2>1 DEF admin_approve, DecideOps
    <2>2. CASE admin_reject(r)
        BY <1>2, <1>3, <1>7, <2>2 DEF admin_reject, DecideOps
    <2>3. QED
        BY <1>8, <2>1, <2>2
<1>9. QED
    BY <1>2, <1>3, <1>4, <1>5, <1>6, <1>8 DEF KycStep

-----------------------------------------------------------------------------
(* The card *)

CardGood(r) == Moved(r) /\ AccountStays /\ kyc' = kyc /\ CardsGo

(* A step that keeps Bitnob's cards, and the row or its number.            *)
LEMMA CardsStay ==
    ASSUME IInv, bitnob' = bitnob, UNCHANGED <<unheard, forgotten>>, clean' \in BOOLEAN,
           card' \in CardRows \cup {NoCard},
           \/ card' = NoCard
           \/ card # NoCard /\ card'.id = card.id
           \/ \E q \in Requests : job[q].op \in CardOps /\ card' = job[q].saw
    PROVE  CardsGo
<1>1. CardTypes /\ CardsNumbered
    BY Hypotheses DEF IInv
<1>2. Len(bitnob) \in Nat
    BY <1>1 DEF CardTypes
<1>3. QED
    BY <1>1, <1>2 DEF CardTypes, CardsNumbered, CardsGo

(* A request about a card is about one that Bitnob made. *)
LEMMA NumberRead ==
    ASSUME IInv, NEW r \in Requests, job[r].op \in CardOps
    PROVE  job[r].saw.id \in 1..Len(bitnob)
<1>1. Len(bitnob) \in Nat
    BY DEF IInv, TypeOK
<1>2. job[r].saw.id \in Nat \ {0} /\ job[r].saw.id <= Len(bitnob)
    BY DEF IInv, JobOK, CardRows, CardsNumbered
<1>3. QED
    BY <1>1, <1>2

(* A request about the card begins rightly.                                *)
LEMMA CardBegins ==
    ASSUME IInv, NEW r \in Requests, CardRequest(r)
    PROVE  CardGood(r)
<1>1. Jobs /\ CardTypes /\ job[r] = Waiting
    BY Hypotheses DEF CardRequest
<1>2. CASE request_card(r)
    <2> DEFINE j == Job("request", "issue", user)
    <2>1. Shape(j) /\ j.op = "request" /\ j.saw = user
        BY JobFacts
    <2>2. user \in Rows /\ Ready(user) /\ SetJob(r, j)
        BY <1>2 DEF request_card, Authenticated, IInv, TypeOK, LoginReady
    <2>3. "request" \in UserOps /\ "request" # "complete"
        BY DEF UserOps
    <2> HIDE DEF j
    <2>4. Moved(r)
        BY <1>1, <2>1, <2>2, <2>3, UserBegins
    <2>5. CardsGo
        BY <1>2, CardKept DEF request_card
    <2>6. QED
        BY <1>2, <2>4, <2>5 DEF request_card, AccountStays, CardGood
<1>3. ASSUME NEW o \in CardOps, OnOwnCard(r, o)
      PROVE  CardGood(r)
    <2> DEFINE j == Job(o, "ask", card)
    <2>1. Shape(j) /\ j.op = o /\ j.saw = card
        BY JobFacts
    <2>2. card \in CardRows /\ card # NoCard /\ SetJob(r, j)
        BY <1>1, <1>3 DEF OnOwnCard, CardTypes
    <2>3. o \notin UserOps /\ o \notin DecideOps /\ o # "register" /\ o # "complete" /\ o # "address"
        BY DEF UserOps, SettingsOps, CardOps, DecideOps
    <2> HIDE DEF j
    <2>4. Moved(r)
        BY <1>1, <2>1, <2>2, <2>3, Begins
    <2>5. clean' \in BOOLEAN
        BY <1>3 DEF OnOwnCard
    <2>6. CardsGo
        BY <1>1, <1>3, <2>2, <2>5, CardsStay DEF OnOwnCard, CardTypes
    <2>7. QED
        BY <1>3, <2>4, <2>6 DEF OnOwnCard, AccountStays, CardGood
<1>4. QED
    BY <1>2, <1>3 DEF CardRequest

(* Each step of a request about the card is right.                         *)
LEMMA CardGoesOn ==
    ASSUME IInv, NEW r \in Requests, CardStep(r)
    PROVE  CardGood(r)
<1>1. Jobs /\ CardTypes /\ JobOK(r)
    BY Hypotheses DEF Jobs
<1>2. ASSUME Ends(r), AccountStays, kyc' = kyc, CardsGo PROVE CardGood(r)
    BY <1>1, <1>2, Over DEF CardGood
<1>3. CASE CardIssued(r)
    <2>1. job[r].saw \in Rows
        BY <1>3, Read DEF CardIssued, IsAt, UserOps
    <2>2. PICK status \in {"PENDING", "ACTIVE"}, named \in BOOLEAN, processing \in BOOLEAN :
            /\ bitnob' = Append(bitnob, status)
            /\ card' = IF named THEN CardRow(job[r].saw.pk, Len(bitnob'), status, TRUE, processing)
                       ELSE CardRow(job[r].saw.pk, Len(bitnob'), "PENDING", FALSE, FALSE)
            /\ unheard' = IF named THEN unheard ELSE unheard + 1
        BY <1>3 DEF CardIssued
    <2>3. bitnob' \in Seq(CardStatuses) /\ Len(bitnob') = Len(bitnob) + 1 /\ Len(bitnob) \in Nat
        BY <1>1, <2>2 DEF CardTypes, CardStatuses
    <2>4. card' \in CardRows /\ card'.id = Len(bitnob')
        BY <2>1, <2>2, <2>3 DEF CardRow, CardRows, CardStatuses, Rows
    <2>5. forgotten' = forgotten /\ clean' \in BOOLEAN
        BY <1>3 DEF CardIssued
    <2>6. unheard' \in Nat
        BY <1>1, <2>2 DEF CardTypes
    <2>7. CardsGo
        BY <1>1, <2>3, <2>4, <2>5, <2>6 DEF CardTypes, CardsGo
    <2>8. QED
        BY <1>2, <1>3, <2>7 DEF CardIssued, AccountStays
<1>4. CASE CardNotIssued(r)
    <2>1. CASE UNCHANGED <<bitnob, unheard>>
        BY <1>2, <1>4, <2>1, CardKept DEF CardNotIssued, AccountStays
    <2>2. ASSUME NEW status \in {"PENDING", "ACTIVE"}, bitnob' = Append(bitnob, status),
                 unheard' = unheard + 1
          PROVE  CardGood(r)
        <3>1. bitnob' \in Seq(CardStatuses) /\ Len(bitnob') = Len(bitnob) + 1 /\ Len(bitnob) \in Nat
            BY <1>1, <2>2 DEF CardTypes, CardStatuses
        <3>2. /\ card' = card /\ forgotten' = forgotten /\ clean' = clean
              /\ card # NoCard => card \in CardRows /\ card.id <= Len(bitnob)
            BY <1>1, <1>4 DEF CardNotIssued, CardTypes, IInv, CardsNumbered
        <3>3. card' # NoCard => card'.id <= Len(bitnob')
            BY <3>1, <3>2 DEF CardRows
        <3>4. CardsGo
            BY <1>1, <2>2, <3>1, <3>2, <3>3 DEF CardTypes, CardsGo
        <3>5. QED
            BY <1>2, <1>4, <3>4 DEF CardNotIssued, AccountStays
    <2>3. QED
        BY <1>4, <2>1, <2>2 DEF CardNotIssued
<1>5. CASE BitnobAgrees(r)
    <2>1. job[r].op \in CardOps \ {"sync"} /\ Asked(job[r].op) \in CardStatuses
        BY <1>5 DEF BitnobAgrees, CardOps, Asked, CardStatuses
    <2>2. bitnob' \in Seq(CardStatuses) /\ Len(bitnob') = Len(bitnob) /\ Len(bitnob) \in Nat
        <3> DEFINE told == Asked(job[r].op)
                   number == job[r].saw.id
        <3>1. bitnob' = [bitnob EXCEPT ![number] = told] /\ told \in CardStatuses
            BY <1>5, <2>1 DEF BitnobAgrees
        <3>2. number \in 1..Len(bitnob)
            BY <2>1, NumberRead
        <3> HIDE DEF told, number
        <3>3. QED
            BY <1>1, <3>1, <3>2 DEF CardTypes
    <2>3. CardsGo
        BY <1>1, <1>5, <2>2 DEF BitnobAgrees, CardTypes, CardsGo, IInv, CardsNumbered
    <2>4. job[r].op \notin DecideOps
        BY <2>1 DEF CardOps, DecideOps
    <2>5. Moved(r)
        BY <1>1, <1>5, <2>4, GoesOn DEF BitnobAgrees
    <2>6. QED
        BY <1>5, <2>3, <2>5 DEF BitnobAgrees, AccountStays, CardGood
<1>6. CASE BitnobRefuses(r)
    BY <1>2, <1>6, CardKept DEF BitnobRefuses, AccountStays
<1>7. CASE BitnobUnheard(r)
    <2>1. clean' \in BOOLEAN
        BY <1>7 DEF BitnobUnheard
    <2>2. CardsGo
        BY <1>1, <1>7, <2>1, CardsStay DEF BitnobUnheard, CardTypes
    <2>3. QED
        BY <1>2, <1>7, <2>2 DEF BitnobUnheard, AccountStays
<1>8. CASE SaveCardStatus(r)
    <2>1. Asked(job[r].op) \in CardStatuses
        BY <1>8 DEF SaveCardStatus, CardOps, Asked, CardStatuses
    <2>2. \/ card' = card
          \/ card \in CardRows /\ card # NoCard /\ card' = [card EXCEPT !.status = Asked(job[r].op)]
        BY <1>1, <1>8 DEF SaveCardStatus, CardTypes
    <2>3. card' \in CardRows \cup {NoCard} /\ (card' = NoCard \/ (card # NoCard /\ card'.id = card.id))
        BY <1>1, <2>1, <2>2 DEF CardTypes, CardRows
    <2>4. CardsGo
        BY <1>1, <1>8, <2>3, CardsStay DEF SaveCardStatus, CardTypes
    <2>5. QED
        BY <1>2, <1>8, <2>4 DEF SaveCardStatus, AccountStays
<1>9. CASE BitnobTells(r)
    <2> DEFINE Seen(processing) == [job[r].saw EXCEPT !.status = bitnob[job[r].saw.id], !.processing = processing]
    <2>1. PICK processing \in BOOLEAN :
            SetJob(r, Job("sync", "answered", Seen(processing)))
        BY <1>9 DEF BitnobTells
    <2>2. job[r].op = "sync" /\ job[r].saw \in CardRows /\ Shape(job[r])
        BY <1>1, <1>9 DEF BitnobTells, IsAt, JobOK, CardOps
    <2> DEFINE seen == Seen(processing)
               j == Job("sync", "answered", seen)
    <2>3. seen \in CardRows /\ seen.id = job[r].saw.id
        <3>1. job[r].saw.id \in 1..Len(bitnob)
            BY <2>2, NumberRead DEF CardOps
        <3>2. bitnob[job[r].saw.id] \in CardStatuses
            BY <1>1, <3>1 DEF CardTypes
        <3>3. QED
            BY <2>2, <3>2 DEF CardRows
    <2>4. job' = [job EXCEPT ![r] = j]
        BY <2>1 DEF SetJob
    <2> HIDE DEF seen
    <2>5. Shape(j) /\ j.op = "sync" /\ j.saw = seen
        BY JobFacts
    <2> HIDE DEF j
    <2>6. /\ job' = [q \in Requests |-> job'[q]] /\ job'[r] = j
          /\ \A q \in Requests \ {r} : job'[q] = job[q]
        BY <1>1, <2>4 DEF Jobs
    <2>7. JobOK(r)'
        BY <2>3, <2>5, <2>6 DEF JobOK, Shape, UserOps, SettingsOps, DecideOps, CardOps
    <2>8. Moved(r)
        BY <2>2, <2>3, <2>5, <2>6, <2>7 DEF Moved, DecideOps
    <2>9. QED
        BY <1>9, <2>8, CardKept DEF BitnobTells, AccountStays, CardGood
<1>10. CASE sync_card_status(r)
    <2>1. job[r].saw \in CardRows
        BY <1>1, <1>10 DEF sync_card_status, IsAt, JobOK, CardOps
    <2>2. card' \in {NoCard, card, job[r].saw} /\ job[r].op \in CardOps
        BY <1>10 DEF sync_card_status, IsAt, CardOps
    <2>3. CardsGo
        BY <1>1, <1>10, <2>1, <2>2, CardsStay DEF sync_card_status, CardTypes
    <2>4. QED
        BY <1>2, <1>10, <2>3 DEF sync_card_status, AccountStays
<1>11. QED
    BY <1>3, <1>4, <1>5, <1>6, <1>7, <1>8, <1>9, <1>10 DEF CardStep

-----------------------------------------------------------------------------
(* The whole *)

(* The invariant holds at the start.                                       *)
LEMMA InitIInv == Init => IInv
<1> SUFFICES ASSUME Init PROVE IInv
    OBVIOUS
<1>1. user \in Rows \cup {NoUser} /\ pks \in Nat /\ LoginReady
    <2>1. CASE user = NoUser /\ pks = 0
        BY <2>1 DEF LoginReady
    <2>2. ASSUME NEW v \in BOOLEAN, NEW c \in BOOLEAN, NEW pin \in {Unset, Before}, c => v,
                 user = OldRow(v, c, pin)
          PROVE  user \in Rows /\ LoginReady
        <3> DEFINE password == IF c THEN Before ELSE Unset
        <3>1. user = [pk |-> 1, verified |-> v, complete |-> c, password |-> password, pin |-> pin]
            BY <2>2 DEF OldRow, Row
        <3>2. password \in Secrets /\ pin \in Secrets /\ (c => password # Unset)
            BY AccountsAssumption DEF Secrets
        <3> HIDE DEF password
        <3>3. user \in Rows
            BY <3>1, <3>2 DEF Rows
        <3>4. Ready(user)
            <4>1. user.verified = v /\ user.complete = c /\ user.password = password /\ user # NoUser
                BY <3>1, <3>3, NoUserAssumption
            <4>2. c => v /\ password # Unset
                BY <2>2, <3>2
            <4>3. QED
                BY <4>1, <4>2 DEF Ready, CanLogin
        <3>5. QED
            BY <3>3, <3>4 DEF LoginReady
    <2>3. \/ user = NoUser /\ pks = 0
          \/ pks = 1 /\ \E v, c \in BOOLEAN, pin \in {Unset, Before} : (c => v) /\ user = OldRow(v, c, pin)
        BY DEF Init, AccountInit
    <2>4. QED
        BY <2>1, <2>2, <2>3
<1>2. tokens \subseteq Nat /\ crashes \in 0..MaxCrashes
    BY AccountsAssumption DEF Init, AccountInit
<1>3. /\ kyc \in KycRows \cup {NoKyc}
      /\ kyc # NoKyc => kyc.decider = Unset /\ kyc.status = _status_from_score(kyc.score)
    <2>1. ASSUME NEW score \in Scores,
                 kyc = [pk |-> 1, submission |-> Before, address |-> FALSE, score |-> score,
                        status |-> _status_from_score(score), decider |-> Unset, during |-> {}]
          PROVE  kyc \in KycRows /\ kyc.decider = Unset /\ kyc.status = _status_from_score(kyc.score)
        <3>1. _status_from_score(score) \in KycStatuses
            BY DEF _status_from_score, KycStatuses
        <3>2. QED
            BY <2>1, <3>1 DEF KycRows
    <2>2. QED
        BY <2>1 DEF Init, KycInit
<1>4. CardTypes /\ (card # NoCard => card.id <= Len(bitnob))
    <2>1. unheard = 0 /\ forgotten = 0 /\ clean = TRUE
        BY DEF Init, CardInit
    <2>2. CASE card = NoCard /\ bitnob = <<>>
        BY <2>1, <2>2 DEF CardTypes
    <2>3. ASSUME NEW status \in {"PENDING", "ACTIVE"}, NEW processing \in BOOLEAN,
                 card = CardRow(1, 1, status, TRUE, processing), bitnob = <<status>>
          PROVE  card \in CardRows /\ bitnob \in Seq(CardStatuses) /\ card.id <= Len(bitnob)
        BY <2>3 DEF CardRow, CardRows, CardStatuses
    <2>4. QED
        <3>1. \/ card = NoCard /\ bitnob = <<>>
              \/ \E status \in {"PENDING", "ACTIVE"}, processing \in BOOLEAN :
                   card = CardRow(1, 1, status, TRUE, processing) /\ bitnob = <<status>>
            BY DEF Init, CardInit
        <3>2. CASE \E status \in {"PENDING", "ACTIVE"}, processing \in BOOLEAN :
                     card = CardRow(1, 1, status, TRUE, processing) /\ bitnob = <<status>>
            BY <2>1, <2>3, <3>2 DEF CardTypes
        <3>3. QED
            BY <2>2, <3>1, <3>2
<1>5. job = [r \in Requests |-> Waiting]
    BY DEF Init, AccountInit
<1>6. ASSUME NEW r \in Requests PROVE JobOK(r) /\ job[r].op \notin DecideOps
    <2>1. job[r].op = "" /\ Shape(job[r])
        BY <1>5, WaitingFacts
    <2>2. QED
        BY <2>1 DEF JobOK, UserOps, SettingsOps, DecideOps, CardOps
<1>7. DecisionsOK
    BY <1>3, <1>6 DEF DecisionsOK, DecidedOnItsData
<1>8. TypeOK
    BY <1>1, <1>2, <1>3, <1>4 DEF TypeOK, CardTypes
<1>9. CardsNumbered
    BY <1>4, <1>5, WaitingFacts DEF CardsNumbered, CardOps
<1>10. QED
    BY <1>1, <1>5, <1>6, <1>7, <1>8, <1>9 DEF IInv

(* A deletion: of what decisions say, nothing changes but that it may go.  *)
LEMMA CascadeGood ==
    ASSUME IInv, NEW r \in Requests, Cascade(r)
    PROVE  IInv' /\ (user' = user \/ (MovedBy(r) /\ Changes(r)))
<1>1. Jobs /\ AccountTypes /\ CardTypes /\ LoginReady /\ kyc \in KycRows \cup {NoKyc}
    BY Hypotheses DEF IInv, TypeOK
<1>2. IsAt(r, "delete", "delete") /\ Ends(r)
    BY DEF Cascade, delete_user
<1>3. Moved(r) /\ MovedBy(r)
    BY <1>1, <1>2, Over, Finishes DEF Ends, IsAt
<1>4. user' = user \/ user' = NoUser
    BY DEF Cascade, delete_user
<1>5. AccountTypes' /\ LoginReady'
    BY <1>1, <1>4 DEF Cascade, delete_user, AccountTypes, LoginReady, Ready, CanLogin
<1>6. CardsGo
    <2>1. \/ UNCHANGED cardVars
          \/ /\ card' = NoCard /\ UNCHANGED <<bitnob, unheard, clean>>
             /\ forgotten' = forgotten + Known
        BY DEF Cascade
    <2>2. forgotten + Known \in Nat /\ Len(bitnob) \in Nat
        BY <1>1 DEF CardTypes, Known
    <2>3. QED
        BY <1>1, <2>1, <2>2, CardKept DEF CardTypes, CardsGo
<1>7. kyc' = kyc \/ kyc' = NoKyc
    BY DEF Cascade
<1>8. kyc' \in KycRows \cup {NoKyc} /\ DecisionsOK'
    BY <1>1, <1>3, <1>7, DecisionsKept DEF SameDecision
<1>9. IInv'
    BY <1>3, <1>5, <1>6, <1>8, StepKeeps
<1>10. QED
    BY <1>2, <1>3, <1>4, <1>9 DEF Changes

(* A killed request keeps the invariant and the user.                      *)
LEMMA KilledGood ==
    ASSUME IInv, NEW r \in Requests, Killed(r)
    PROVE  IInv' /\ user' = user
<1>1. Jobs /\ AccountTypes /\ CardTypes
    BY Hypotheses
<1>2. Moved(r)
    BY <1>1, Over DEF Killed, Crash
<1>3. user' = user /\ AccountTypes' /\ LoginReady'
    BY <1>1, Hypotheses, AccountsAssumption
       DEF Killed, Crash, AccountTypes, LoginReady, Ready, CanLogin
<1>4. clean' \in BOOLEAN
    BY DEF Killed
<1>5. CardsGo
    BY <1>1, <1>4, CardsStay DEF Killed, CardTypes
<1>6. kyc' \in KycRows \cup {NoKyc} /\ DecisionsOK'
    BY <1>2, KycKept DEF Killed
<1>7. QED
    BY <1>2, <1>3, <1>5, <1>6, StepKeeps

(* Steps of no request. *)
LEMMA NobodyMoves ==
    ASSUME IInv, job' = job, kyc' = kyc, user' = user, pks' = pks, tokens' = tokens,
           crashes' = crashes, CardsGo
    PROVE  IInv'
<1>1. TypeOK' /\ LoginReady'
    BY DEF IInv, TypeOK, CardTypes, CardsGo, LoginReady, Ready, CanLogin
<1>2. \A r \in Requests : JobOK(r)'
    BY DEF IInv, JobOK, Shape, Ready, CanLogin
<1>3. DecisionsOK'
    BY DEF IInv, DecisionsOK, OnItsData, DecidedOnItsData
<1>4. CardsNumbered'
    <2>1. Len(bitnob) \in Nat /\ Len(bitnob') \in Nat /\ Len(bitnob) <= Len(bitnob')
        BY DEF IInv, TypeOK, CardsGo, CardTypes
    <2>2. ASSUME NEW q \in Requests, job'[q].op \in CardOps
          PROVE  job'[q].saw.id <= Len(bitnob')
        <3>1. job[q].saw.id <= Len(bitnob) /\ job[q].saw.id \in Nat
            BY <2>2 DEF IInv, JobOK, CardRows, CardsNumbered
        <3>2. QED
            BY <2>1, <3>1
    <2>3. QED
        BY <2>2 DEF CardsNumbered, CardsGo
<1>5. QED
    BY <1>1, <1>2, <1>3, <1>4 DEF IInv

(* Every step keeps the invariant and changes the user only as it may.     *)
LEMMA NextGood ==
    ASSUME IInv, [Next]_vars
    PROVE  IInv' /\ (UNCHANGED user \/ \E r \in Requests : MovedBy(r) /\ Changes(r))
<1>1. ASSUME NEW r \in Requests, AccountGood(r), kyc' = kyc, UNCHANGED cardVars
      PROVE  IInv' /\ (UNCHANGED user \/ (MovedBy(r) /\ Changes(r)))
    BY <1>1, CardKept, KycKept, StepKeeps DEF AccountGood
<1>2. ASSUME NEW r \in Requests, Moved(r), AccountStays, CardsGo,
             kyc' \in KycRows \cup {NoKyc}, DecisionsOK'
      PROVE  IInv' /\ UNCHANGED user
    BY <1>2, AccountKept, StepKeeps DEF AccountStays
<1>3. ASSUME NEW r \in Requests, AccountRequest(r) \/ AccountStep(r), UNCHANGED <<kyc, cardVars>>
      PROVE  IInv' /\ (UNCHANGED user \/ (MovedBy(r) /\ Changes(r)))
    BY <1>1, <1>3, AccountBegins, AccountGoesOn
<1>4. ASSUME NEW r \in Requests, KycRequest(r) \/ KycStep(r), UNCHANGED cardVars
      PROVE  IInv' /\ UNCHANGED user
    BY <1>2, <1>4, KycBegins, KycGoesOn, KycKept, CardKept
<1>5. ASSUME NEW r \in Requests, CardRequest(r) \/ CardStep(r)
      PROVE  IInv' /\ UNCHANGED user
    BY <1>2, <1>5, CardBegins, CardGoesOn, KycKept DEF CardGood
<1>6. ASSUME NEW c \in DOMAIN codes, CodeAges(c), UNCHANGED <<kyc, cardVars>>
      PROVE  IInv' /\ UNCHANGED user
    BY <1>6, CardKept, NobodyMoves DEF CodeAges
<1>7. CASE BitnobProvisions
    <2>1. CardsGo
        <3>1. CardTypes /\ (card # NoCard => card.id <= Len(bitnob))
            BY Hypotheses DEF IInv, CardsNumbered
        <3>2. PICK c \in DOMAIN bitnob : bitnob' = [bitnob EXCEPT ![c] = "ACTIVE"]
            BY <1>7 DEF BitnobProvisions
        <3>3. bitnob' \in Seq(CardStatuses) /\ Len(bitnob') = Len(bitnob) /\ Len(bitnob) \in Nat
            BY <3>1, <3>2 DEF CardTypes, CardStatuses
        <3>4. QED
            BY <1>7, <3>1, <3>3 DEF BitnobProvisions, CardTypes, CardsGo
    <2>2. QED
        BY <1>7, <2>1, NobodyMoves DEF BitnobProvisions
<1>8. CASE UNCHANGED vars
    BY <1>8, CardKept, NobodyMoves DEF vars
<1>9. QED
    BY <1>3, <1>4, <1>5, <1>6, <1>7, <1>8, CascadeGood, KilledGood DEF Next

(* Under any number of requests, what each has read is a row of its kind.  *)
THEOREM InductiveInvariant == Spec => []IInv
<1>1. IInv /\ [Next]_vars => IInv'
    BY NextGood
<1>2. QED
    BY InitIInv, <1>1, PTL DEF Spec

(* Every variable keeps its type, whichever requests run side by side. *)
THEOREM TypeCorrect == Spec => []TypeOK
<1>1. IInv => TypeOK
    BY DEF IInv
<1>2. QED
    BY InductiveInvariant, <1>1, PTL

(* Whole rows and fields saved over each other never leave a complete      *)
(* account that is not verified or has no usable password.                 *)
THEOREM CompleteMeansReady == Spec => []LoginReady
<1>1. IInv => LoginReady
    BY DEF IInv
<1>2. QED
    BY InductiveInvariant, <1>1, PTL

(* A status is never an admin's decision about data the admin had not read *)
(* unless it was resubmitted while the decision was on its way.            *)
THEOREM DecisionsMatch == Spec => []DecidedOnItsData
<1>1. IInv => DecidedOnItsData
    BY DEF IInv, DecisionsOK, DecidedOnItsData
<1>2. QED
    BY InductiveInvariant, <1>1, PTL

(* A change to the account is lost only to a request that saves a whole    *)
(* row it read before; a complete account starts over only for one that    *)
(* read it incomplete.                                                     *)
THEOREM ChangesStayForGood == Spec => ChangesStay
<1>1. IInv /\ [Next]_vars => [UNCHANGED user \/ \E r \in Requests : MovedBy(r) /\ Changes(r)]_vars
    BY NextGood
<1>2. QED
    BY InductiveInvariant, <1>1, PTL DEF Spec, ChangesStay

-----------------------------------------------------------------------------
(* The card and Bitnob.                                                    *)
(* Requests about a card are at its few places, sync's and those that      *)
(* Bitnob has answered are about a named one; one request at most waits    *)
(* for a new card, and only without a row.                                 *)
CardPlaces ==
    /\ \A r \in Requests :
         job[r].op \in CardOps =>
            /\ job[r].at \in {"ask", "answered", "over"}
            /\ job[r].op = "sync" \/ job[r].at = "answered" => job[r].saw.named
    /\ \A r \in Requests : IsAt(r, "request", "issue") => card = NoCard
    /\ \A q, r \in Requests : IsAt(q, "request", "issue") /\ IsAt(r, "request", "issue") => q = r

(* A request that changed the card at Bitnob and has not said so yet. *)
Changed(r) == job[r].op \in CardOps \ {"sync"} /\ job[r].at = "answered"

(* What holds while the requests on the card run one by one. *)
CleanCard ==
    /\ \A q, r \in OnCard : q = r
    /\ card # NoCard => \A r \in OnCard : job[r].saw.id = card.id
    /\ card # NoCard /\ card.named =>
         Agrees(card.status, bitnob[card.id]) \/ \E r \in Requests : Changed(r)
    /\ \A r \in Requests : Changed(r) => bitnob[job[r].saw.id] = Asked(job[r].op)
    /\ \A r \in Requests :
         IsAt(r, "sync", "answered") => Agrees(job[r].saw.status, bitnob[job[r].saw.id])

CardInv == CardPlaces /\ (clean => CleanCard) /\ OneKnownCard

(* What the invariant says of the card, at hand.                           *)
LEMMA CardFacts ==
    ASSUME IInv
    PROVE  /\ card \in CardRows \cup {NoCard}
           /\ bitnob \in Seq(CardStatuses) /\ Len(bitnob) \in Nat
           /\ unheard \in Nat /\ forgotten \in Nat /\ clean \in BOOLEAN
           /\ Known \in {0, 1} /\ (card = NoCard => Known = 0)
           /\ card # NoCard => card.id \in 1..Len(bitnob)
           /\ \A r \in Requests : job[r].op \in CardOps => job[r].saw \in CardRows
           /\ \A r \in Requests : job[r].op \in CardOps => job[r].saw.id \in 1..Len(bitnob)
<1>1. /\ card \in CardRows \cup {NoCard} /\ bitnob \in Seq(CardStatuses) /\ Len(bitnob) \in Nat
      /\ unheard \in Nat /\ forgotten \in Nat /\ clean \in BOOLEAN
    BY DEF IInv, TypeOK
<1>2. Known \in {0, 1} /\ (card = NoCard => Known = 0)
    BY DEF Known
<1>3. card # NoCard => card.id \in 1..Len(bitnob)
    <2>1. card # NoCard => card.id \in Nat \ {0} /\ card.id <= Len(bitnob)
        BY <1>1 DEF CardRows, IInv, CardsNumbered
    <2>2. QED
        BY <1>1, <2>1
<1>4. \A r \in Requests : job[r].op \in CardOps => job[r].saw \in CardRows
    BY DEF IInv, JobOK
<1>5. QED
    BY <1>1, <1>2, <1>3, <1>4, NumberRead

(* Where the moved request and the others stand after a step. *)
LEMMA OthersStay ==
    ASSUME NEW r \in Requests, Moved(r)
    PROVE  /\ \A q \in Requests \ {r} : job'[q] = job[q]
           /\ \A q \in Requests \ {r} : q \in OnCard' <=> q \in OnCard
           /\ \A q \in Requests \ {r} : Changed(q)' <=> Changed(q)
           /\ \A q \in Requests \ {r} : \A o, a : IsAt(q, o, a)' <=> IsAt(q, o, a)
           /\ r \in OnCard' <=> job'[r].op \in CardOps /\ job'[r].at \notin {"idle", "over"}
           /\ Changed(r)' <=> job'[r].op \in CardOps \ {"sync"} /\ job'[r].at = "answered"
           /\ \A o, a : IsAt(r, o, a)' <=> job'[r].op = o /\ job'[r].at = a
BY DEF Moved, OnCard, Changed, IsAt, InFlight

(* A step of a request that is not about a card. *)
LEMMA CardQuiet ==
    ASSUME IInv, CardInv, NEW r \in Requests, Moved(r), UNCHANGED cardVars,
           job[r].op \notin CardOps, job'[r].op \notin CardOps,
           IsAt(r, "request", "issue")' =>
              card = NoCard /\ \A q \in Requests \ {r} : ~IsAt(q, "request", "issue")
    PROVE  CardInv'
<1>1. OnCard' = OnCard /\ \A q \in Requests : Changed(q)' <=> Changed(q)
    BY OthersStay DEF OnCard, Changed
<1>2. \A q \in Requests : job'[q].op \in CardOps => job'[q] = job[q]
    BY OthersStay
<1>3. \A q \in Requests : IsAt(q, "sync", "answered")' => IsAt(q, "sync", "answered")
    BY OthersStay DEF CardOps
<1>4. CardPlaces'
    <2>1. \A q \in Requests : IsAt(q, "request", "issue")' =>
            q = r \/ IsAt(q, "request", "issue")
        BY OthersStay
    <2>2. \A q \in Requests : IsAt(q, "request", "issue")' => card = NoCard
        BY <2>1 DEF CardInv, CardPlaces
    <2>3. ASSUME NEW p \in Requests, NEW q \in Requests,
                 IsAt(p, "request", "issue")', IsAt(q, "request", "issue")'
          PROVE  p = q
        BY <2>1, <2>3 DEF CardInv, CardPlaces
    <2>4. QED
        BY <1>2, <2>2, <2>3 DEF CardInv, CardPlaces
<1>5. ASSUME clean PROVE CleanCard'
    <2>1. CleanCard
        BY <1>5 DEF CardInv
    <2>2. \A q \in OnCard : job'[q] = job[q]
        BY <1>1, <1>2 DEF OnCard
    <2>3. \A q \in Requests : Changed(q) => job'[q] = job[q]
        BY <1>1, <1>2 DEF Changed
    <2>4. \A q \in Requests : IsAt(q, "sync", "answered")' => job'[q] = job[q]
        BY <1>2 DEF IsAt, CardOps
    <2>5. QED
        BY <1>1, <1>3, <2>1, <2>2, <2>3, <2>4 DEF CleanCard
<1>6. OneKnownCard'
    BY DEF CardInv, OneKnownCard, Known
<1>7. QED
    BY <1>4, <1>5, <1>6 DEF CardInv

(* Requests about the account or the verification are not about a card. *)
LEMMA NotOnCard ==
    ASSUME IInv, CardInv, NEW r \in Requests,
           AccountRequest(r) \/ AccountStep(r) \/ KycRequest(r) \/ KycStep(r)
    PROVE  /\ job[r].op \notin CardOps /\ job'[r].op \notin CardOps
           /\ ~IsAt(r, "request", "issue")'
<1>1. job = [q \in Requests |-> job[q]] /\ Shape(job[r])
    BY DEF IInv, JobOK
<1>2. ASSUME NEW j, SetJob(r, j), job[r] = Waiting, j.op \notin CardOps \cup {"request"}
      PROVE  /\ job[r].op \notin CardOps /\ job'[r].op \notin CardOps
             /\ ~IsAt(r, "request", "issue")'
    <2>1. job'[r] = j
        BY <1>1, <1>2 DEF SetJob
    <2>2. QED
        BY <1>2, <2>1, WaitingFacts DEF IsAt, CardOps
<1>3. ASSUME NEW o, NEW a, NEW s, SetJob(r, Job(o, a, s)), job[r] = Waiting,
             o \notin CardOps \cup {"request"}
      PROVE  /\ job[r].op \notin CardOps /\ job'[r].op \notin CardOps
             /\ ~IsAt(r, "request", "issue")'
    <2>1. Job(o, a, s).op = o
        BY JobFacts
    <2>2. QED
        BY <1>2, <1>3, <2>1
<1>4. CASE AccountRequest(r)
    <2>1. ASSUME NEW o \in {"verify", "check", "reset"}, NEW c, NEW a, Guesses(r, o, c, a)
          PROVE  /\ job[r].op \notin CardOps /\ job'[r].op \notin CardOps
                 /\ ~IsAt(r, "request", "issue")'
        <3> DEFINE j == [op |-> o, at |-> IF o = "reset" /\ a # "hit" THEN "over" ELSE a,
                         saw |-> user, code |-> c, tries |-> codes[c].tries]
        <3>1. SetJob(r, j) /\ j.op = o
            BY <2>1 DEF Guesses
        <3>2. o \notin CardOps \cup {"request"}
            BY DEF CardOps
        <3>3. job[r] = Waiting
            BY <1>4 DEF AccountRequest
        <3> HIDE DEF j
        <3>4. QED
            BY <1>2, <3>1, <3>2, <3>3
    <2>2. CASE verify_registration_otp(r)
        BY <2>1, <2>2 DEF verify_registration_otp
    <2>3. CASE verify_reset_otp(r, "check") \/ verify_reset_otp(r, "reset")
        BY <2>1, <2>3 DEF verify_reset_otp
    <2>4. ASSUME NEW o \in {"register", "resend", "forgot", "complete", "login", "delete"} \cup SettingsOps,
                 NEW a, SetJob(r, Job(o, a, user))
          PROVE  /\ job[r].op \notin CardOps /\ job'[r].op \notin CardOps
                 /\ ~IsAt(r, "request", "issue")'
        BY <1>3, <1>4, <2>4 DEF AccountRequest, CardOps, SettingsOps
    <2>5. \/ \E a : SetJob(r, Job("register", a, user)) \/ SetJob(r, Job("resend", a, user))
                    \/ SetJob(r, Job("forgot", a, user)) \/ SetJob(r, Job("complete", a, user))
                    \/ SetJob(r, Job("login", a, user)) \/ SetJob(r, Job("delete", a, user))
          \/ \E o \in SettingsOps : SetJob(r, Job(o, "save", user))
          \/ verify_registration_otp(r) \/ verify_reset_otp(r, "check") \/ verify_reset_otp(r, "reset")
        BY <1>4 DEF AccountRequest, register_user, resend_registration_otp, LookForCooldown,
                    complete_profile, login_user, request_password_reset, AskToDelete, Authenticate
    <2>6. QED
        BY <2>2, <2>3, <2>4, <2>5
<1>5. CASE KycRequest(r)
    <2>1. \/ SetJob(r, Job("submit", "dojah", user)) \/ SetJob(r, Job("address", "save", kyc))
          \/ SetJob(r, Job("approve", "save", kyc)) \/ SetJob(r, Job("reject", "save", kyc))
        BY <1>5 DEF KycRequest, submit_verification, update_address, AskToDecide
    <2>2. QED
        BY <1>3, <1>5, <2>1 DEF KycRequest, CardOps
<1>6. CASE AccountStep(r) \/ KycStep(r)
    <2>1. \E a \in {"over", "create", "verified"} : Goes(r, a)
        BY <1>6 DEF AccountStep, KycStep, InvalidateCodes, CreateCode, RegisterCommit, CompleteCommit,
                    LockCode, CountMiss, UseCode, SaveVerified, reset_password, SaveSettings,
                    DojahVerifies, DojahFails, SaveAddress, admin_approve, admin_reject, Decide, Ends
    <2>2. job'[r].op = job[r].op /\ job'[r].at # "issue"
        BY <1>1, <2>1 DEF Goes, Shape
    <2>3. \/ job[r].at \notin {"ask", "answered", "over"}
        BY <1>6 DEF AccountStep, KycStep, InvalidateCodes, CreateCode, RegisterCommit, CompleteCommit,
                    LockCode, CountMiss, UseCode, SaveVerified, reset_password, SaveSettings,
                    DojahVerifies, DojahFails, SaveAddress, admin_approve, admin_reject, Decide, IsAt
    <2>4. QED
        BY <2>2, <2>3 DEF CardInv, CardPlaces, IsAt
<1>7. QED
    BY <1>4, <1>5, <1>6

(* A step that takes a request off the card, without a call to Bitnob.     *)
LEMMA CardLeft ==
    ASSUME IInv, CardInv, NEW r \in Requests, Moved(r), Ends(r), r \in OnCard,
           UNCHANGED <<bitnob, unheard, forgotten>>, clean' => clean,
           card' = NoCard => card = NoCard,
           Known' >= Known, Known' \in {0, 1},
           card # NoCard => card' # NoCard /\ card'.id = card.id,
           card' # NoCard /\ card = NoCard =>
              /\ card' = job[r].saw
              /\ \A q \in Requests : ~IsAt(q, "request", "issue"),
           clean' /\ card' # NoCard /\ card'.named =>
              Agrees(card'.status, bitnob[card'.id]) \/ \E q \in Requests \ {r} : Changed(q)
    PROVE  CardInv'
<1>1. job = [q \in Requests |-> job[q]] /\ Shape(job[r])
    BY DEF IInv, JobOK
<1>2. job'[r].op = job[r].op /\ job'[r].at = "over" /\ job'[r].saw = job[r].saw
    BY <1>1 DEF Ends, Goes, Shape
<1>3. \A q \in Requests \ {r} : job'[q] = job[q]
    BY OthersStay
<1>4. OnCard' = OnCard \ {r} /\ r \notin OnCard'
    BY <1>2, OthersStay DEF OnCard
<1>5. \A q \in Requests : Changed(q)' <=> q # r /\ Changed(q)
    BY <1>2, OthersStay
<1>6. \A q \in Requests : IsAt(q, "request", "issue")' => IsAt(q, "request", "issue")
    BY <1>2, OthersStay
<1>7. \A q \in Requests : IsAt(q, "sync", "answered")' => q # r /\ IsAt(q, "sync", "answered")
    BY <1>2, OthersStay
<1>8. CardPlaces'
    <2>1. \A q \in Requests : IsAt(q, "request", "issue")' => card' = NoCard
        BY <1>6 DEF CardInv, CardPlaces
    <2>2. \A q \in Requests : job'[q].op \in CardOps =>
            /\ job'[q].at \in {"ask", "answered", "over"}
            /\ job'[q].op = "sync" \/ job'[q].at = "answered" => job'[q].saw.named
        BY <1>2, <1>3 DEF CardInv, CardPlaces
    <2>3. QED
        BY <1>6, <2>1, <2>2 DEF CardInv, CardPlaces
<1>9. ASSUME clean' PROVE CleanCard'
    <2>1. CleanCard
        BY <1>9 DEF CardInv
    <2>2. \A p, q \in OnCard' : p = q
        BY <1>4, <2>1 DEF CleanCard
    <2>3. \A q \in OnCard' : q \in OnCard /\ job'[q] = job[q]
        BY <1>3, <1>4 DEF OnCard
    <2>4. card' # NoCard => \A q \in OnCard' : job'[q].saw.id = card'.id
        <3>1. CASE card # NoCard
            BY <2>1, <2>3, <3>1 DEF CleanCard
        <3>2. CASE card = NoCard /\ card' # NoCard
            <4>1. OnCard' = {}
                BY <1>4, <2>1 DEF CleanCard
            <4>2. QED
                BY <4>1
        <3>3. QED
            BY <3>1, <3>2
    <2>5. card' # NoCard /\ card'.named =>
            Agrees(card'.status, bitnob'[card'.id]) \/ \E q \in Requests : Changed(q)'
        BY <1>5, <1>9
    <2>6. \A q \in Requests : Changed(q)' => bitnob'[job'[q].saw.id] = Asked(job'[q].op)
        BY <1>3, <1>5, <2>1 DEF CleanCard
    <2>7. \A q \in Requests : IsAt(q, "sync", "answered")' =>
            Agrees(job'[q].saw.status, bitnob'[job'[q].saw.id])
        BY <1>3, <1>7, <2>1 DEF CleanCard
    <2>8. QED
        BY <2>2, <2>4, <2>5, <2>6, <2>7 DEF CleanCard
<1>10. OneKnownCard'
    <2>1. Known \in {0, 1} /\ forgotten \in Nat /\ unheard \in Nat /\ Len(bitnob) \in Nat
        BY CardFacts
    <2>2. Len(bitnob) <= unheard + forgotten + Known
        BY DEF CardInv, OneKnownCard
    <2>3. Len(bitnob') = Len(bitnob) /\ unheard' = unheard /\ forgotten' = forgotten
        OBVIOUS
    <2>4. QED
        BY <2>1, <2>2, <2>3 DEF OneKnownCard
<1>11. QED
    BY <1>8, <1>9, <1>10 DEF CardInv

(* The steps of a request on the card that end it. *)
LEMMA CardEnds ==
    ASSUME IInv, CardInv, NEW r \in Requests, Moved(r),
           BitnobRefuses(r) \/ BitnobUnheard(r) \/ SaveCardStatus(r) \/ sync_card_status(r)
    PROVE  CardInv'
<1>1. r \in OnCard /\ Ends(r) /\ UNCHANGED <<bitnob, unheard, forgotten>> /\ (clean' => clean)
    <2>1. CASE BitnobRefuses(r)
        BY <2>1 DEF BitnobRefuses, OnCard, InFlight
    <2>2. CASE BitnobUnheard(r)
        BY <2>2 DEF BitnobUnheard, OnCard, InFlight
    <2>3. CASE SaveCardStatus(r)
        BY <2>3 DEF SaveCardStatus, OnCard, InFlight
    <2>4. CASE sync_card_status(r)
        BY <2>4 DEF sync_card_status, OnCard, InFlight, IsAt, CardOps
    <2>5. QED
        BY <2>1, <2>2, <2>3, <2>4
<1>2. Known \in {0, 1} /\ Known' \in {0, 1}
    BY DEF Known
<1>3. ASSUME clean PROVE CleanCard
    BY <1>3 DEF CardInv
<1>5. CASE BitnobRefuses(r)
    <2>1. UNCHANGED cardVars /\ job[r].at = "ask"
        BY <1>5 DEF BitnobRefuses
    <2>2. Known' = Known
        BY <2>1 DEF Known
    <2>3. clean /\ card # NoCard /\ card.named =>
            Agrees(card.status, bitnob[card.id]) \/ \E q \in Requests \ {r} : Changed(q)
        BY <1>3, <2>1 DEF CleanCard, Changed
    <2>4. QED
        BY <1>1, <1>2, <2>1, <2>2, <2>3, CardLeft
<1>6. CASE BitnobUnheard(r)
    <2>1. card' = card /\ clean' = (clean /\ job[r].op = "sync")
        BY <1>6 DEF BitnobUnheard
    <2>2. Known' = Known
        BY <2>1 DEF Known
    <2>3. clean' /\ card # NoCard /\ card.named =>
            Agrees(card.status, bitnob[card.id]) \/ \E q \in Requests \ {r} : Changed(q)
        BY <1>3, <2>1 DEF CleanCard, Changed
    <2>4. QED
        BY <1>1, <1>2, <2>1, <2>2, <2>3, CardLeft
<1>7. CASE SaveCardStatus(r)
    <2>1. Changed(r) /\ clean' = clean
        BY <1>7 DEF SaveCardStatus, Changed
    <2>2. CASE card # NoCard /\ card.id = job[r].saw.id
        <3>1. card' = [card EXCEPT !.status = Asked(job[r].op)] /\ card \in CardRows
            BY <1>7, <2>2, CardFacts DEF SaveCardStatus
        <3>2. card'.status = Asked(job[r].op) /\ card'.id = card.id /\ card'.named = card.named
              /\ card' \in [pk : Nat, id : Nat, status : {card'.status}, named : BOOLEAN, processing : BOOLEAN]
            BY <3>1 DEF CardRows
        <3>3. card' # NoCard
            <4>1. Asked(job[r].op) \in CardStatuses
                BY <2>1 DEF Changed, CardOps, Asked, CardStatuses
            <4>2. card' \in CardRows
                BY <3>1, <4>1 DEF CardRows
            <4>3. QED
                BY <4>2, NoCardAssumption
        <3>4. Known' = Known
            BY <2>2, <3>2, <3>3 DEF Known
        <3>5. clean => bitnob[card.id] = Asked(job[r].op)
            BY <1>3, <2>1, <2>2 DEF CleanCard
        <3>6. clean => Agrees(card'.status, bitnob[card'.id])
            BY <3>2, <3>5 DEF Agrees
        <3>7. QED
            BY <1>1, <1>2, <2>1, <2>2, <3>2, <3>3, <3>4, <3>6, CardLeft
    <2>3. CASE ~(card # NoCard /\ card.id = job[r].saw.id)
        <3>1. card' = card
            BY <1>7, <2>3 DEF SaveCardStatus
        <3>2. Known' = Known
            BY <3>1 DEF Known
        <3>3. clean => card = NoCard
            BY <1>1, <1>3, <2>3 DEF CleanCard
        <3>4. QED
            BY <1>1, <1>2, <2>1, <3>1, <3>2, <3>3, CardLeft
    <2>4. QED
        BY <2>2, <2>3
<1>8. CASE sync_card_status(r)
    <2>1. IsAt(r, "sync", "answered") /\ clean' = clean /\ job[r].saw \in CardRows /\ job[r].saw.named
        BY <1>1, <1>8, CardFacts DEF sync_card_status, CardInv, CardPlaces, IsAt, CardOps
    <2>2. clean => Agrees(job[r].saw.status, bitnob[job[r].saw.id])
        BY <1>3, <2>1 DEF CleanCard
    <2>3. job[r].saw # NoCard
        BY <2>1, NoCardAssumption
    <2>4. CASE card' = job[r].saw
        <3>1. Known' = 1
            BY <2>1, <2>3, <2>4 DEF Known
        <3>2. card # NoCard => card'.id = card.id
            BY <1>8, <2>4 DEF sync_card_status
        <3>3. card = NoCard => \A q \in Requests : ~IsAt(q, "request", "issue")
            BY <1>8 DEF sync_card_status
        <3>4. QED
            BY <1>1, <1>2, <2>1, <2>2, <2>3, <2>4, <3>1, <3>2, <3>3, CardLeft
    <2>5. CASE card' = card
        <3>1. Known' = Known
            BY <2>5 DEF Known
        <3>2. \A q \in Requests : Changed(q) => q # r
            BY <2>1 DEF Changed, IsAt
        <3>3. clean' /\ card # NoCard /\ card.named =>
                Agrees(card.status, bitnob[card.id]) \/ \E q \in Requests \ {r} : Changed(q)
            BY <1>3, <2>1, <3>2 DEF CleanCard
        <3>4. QED
            BY <1>1, <1>2, <2>1, <2>5, <3>1, <3>3, CardLeft
    <2>6. QED
        BY <1>8, <2>4, <2>5 DEF sync_card_status
<1>9. QED
    BY <1>5, <1>6, <1>7, <1>8
(* A request reads the row, and finds others on the card or does not. *)
LEMMA CardJoined ==
    ASSUME IInv, CardInv, NEW r \in Requests, Moved(r), job[r] = Waiting,
           NEW o \in CardOps, OnOwnCard(r, o)
    PROVE  CardInv'
<1> DEFINE j == Job(o, "ask", card)
<1>1. j.op = o /\ j.at = "ask" /\ j.saw = card
    BY JobFacts
<1>2. job'[r] = j
    BY DEF OnOwnCard, SetJob, IInv
<1> HIDE DEF j
<1>3. /\ card # NoCard /\ UNCHANGED <<card, bitnob, unheard, forgotten>>
      /\ clean' = (clean /\ OnCard = {}) /\ (o = "sync" => card.named)
    BY DEF OnOwnCard
<1>4. \A q \in Requests \ {r} : job'[q] = job[q]
    BY OthersStay
<1>5. ~Changed(r)' /\ ~IsAt(r, "sync", "answered")' /\ ~IsAt(r, "request", "issue")'
    BY <1>1, <1>2, OthersStay
<1>6. CardPlaces'
    <2>1. \A q \in Requests : job'[q].op \in CardOps =>
            /\ job'[q].at \in {"ask", "answered", "over"}
            /\ job'[q].op = "sync" \/ job'[q].at = "answered" => job'[q].saw.named
        BY <1>1, <1>2, <1>3, <1>4 DEF CardInv, CardPlaces
    <2>2. \A q \in Requests : IsAt(q, "request", "issue")' => IsAt(q, "request", "issue")
        BY <1>5, OthersStay
    <2>3. QED
        BY <1>3, <2>1, <2>2 DEF CardInv, CardPlaces
<1>7. ASSUME clean' PROVE CleanCard'
    <2>1. CleanCard /\ OnCard = {}
        BY <1>3, <1>7 DEF CardInv
    <2>2. \A q \in OnCard' : q = r
        BY <2>1, OthersStay DEF OnCard
    <2>3. \A q \in Requests : ~Changed(q) /\ ~Changed(q)'
        BY <1>5, <2>1, OthersStay DEF Changed, OnCard, InFlight
    <2>4. \A q \in Requests : ~IsAt(q, "sync", "answered")'
        BY <1>5, <2>1, OthersStay DEF IsAt, OnCard, InFlight, CardOps
    <2>5. QED
        BY <1>1, <1>2, <1>3, <2>1, <2>2, <2>3, <2>4 DEF CleanCard
<1>8. OneKnownCard'
    BY <1>3 DEF CardInv, OneKnownCard, Known
<1>9. QED
    BY <1>6, <1>7, <1>8 DEF CardInv

(* Bitnob does what it is asked, or tells of the card. *)
LEMMA CardAnswered ==
    ASSUME IInv, CardInv, NEW r \in Requests, Moved(r), BitnobAgrees(r) \/ BitnobTells(r)
    PROVE  CardInv'
<1> DEFINE number == job[r].saw.id
<1>1. /\ r \in OnCard /\ job[r].at = "ask" /\ UNCHANGED <<card, unheard, forgotten, clean>>
      /\ number \in 1..Len(bitnob) /\ job[r].saw.named
    <2>1. CASE BitnobAgrees(r)
        BY <2>1, CardFacts DEF BitnobAgrees, OnCard, InFlight
    <2>2. CASE BitnobTells(r)
        BY <2>2, CardFacts DEF BitnobTells, OnCard, InFlight, IsAt, CardOps, CardInv, CardPlaces
    <2>3. QED
        BY <2>1, <2>2
<1>2. /\ job'[r].op = job[r].op /\ job'[r].at = "answered" /\ job'[r].saw.id = number
      /\ job'[r].saw.named
      /\ \/ job[r].op # "sync" /\ bitnob' = [bitnob EXCEPT ![number] = Asked(job[r].op)]
         \/ job[r].op = "sync" /\ bitnob' = bitnob /\ job'[r].saw.status = bitnob[number]
    <2>1. CASE BitnobAgrees(r)
        <3>1. Shape(job[r])
            BY DEF IInv, JobOK
        <3>2. QED
            BY <1>1, <2>1, <3>1 DEF BitnobAgrees, Goes, Shape, IInv
    <2>2. CASE BitnobTells(r)
        <3>1. job[r].op = "sync" /\ job[r].saw \in CardRows /\ bitnob' = bitnob
            BY <1>1, <2>2, CardFacts DEF BitnobTells, IsAt, OnCard
        <3>2. PICK processing \in BOOLEAN : SetJob(r, Job("sync", "answered",
                [job[r].saw EXCEPT !.status = bitnob[number], !.processing = processing]))
            BY <2>2 DEF BitnobTells
        <3> DEFINE row == [job[r].saw EXCEPT !.status = bitnob[number], !.processing = processing]
        <3>3. row.id = number /\ row.named = job[r].saw.named /\ row.status = bitnob[number]
            BY <3>1 DEF CardRows
        <3> HIDE DEF row
        <3>4. job'[r] = Job("sync", "answered", row)
            BY <3>2 DEF SetJob, IInv, row
        <3>5. job'[r].op = "sync" /\ job'[r].at = "answered" /\ job'[r].saw = row
            BY <3>4, JobFacts
        <3>6. QED
            BY <1>1, <3>1, <3>3, <3>5
    <2>3. QED
        BY <2>1, <2>2
<1>3. \A q \in Requests \ {r} : job'[q] = job[q]
    BY OthersStay
<1>4. OnCard' = OnCard
    <2>1. r \in OnCard'
        BY <1>1, <1>2, OthersStay DEF OnCard
    <2>2. QED
        BY <1>1, <2>1, OthersStay DEF OnCard
<1>5. ~IsAt(r, "request", "issue")'
    BY <1>2, OthersStay
<1> HIDE DEF number
<1>6. CardPlaces'
    <2>1. \A q \in Requests : job'[q].op \in CardOps =>
            /\ job'[q].at \in {"ask", "answered", "over"}
            /\ job'[q].op = "sync" \/ job'[q].at = "answered" => job'[q].saw.named
        BY <1>2, <1>3 DEF CardInv, CardPlaces
    <2>2. \A q \in Requests : IsAt(q, "request", "issue")' => IsAt(q, "request", "issue")
        BY <1>5, OthersStay
    <2>3. QED
        BY <1>1, <2>1, <2>2 DEF CardInv, CardPlaces
<1>7. ASSUME clean' PROVE CleanCard'
    <2>1. CleanCard /\ \A q \in OnCard : q = r
        BY <1>1, <1>7 DEF CardInv, CleanCard
    <2>2. \A q \in Requests : Changed(q) \/ Changed(q)' => q = r
        BY <1>4, <2>1 DEF Changed, OnCard, InFlight
    <2>3. \A q \in Requests : IsAt(q, "sync", "answered")' => q = r
        BY <1>4, <2>1 DEF IsAt, OnCard, InFlight, CardOps
    <2>4. ~Changed(r)
        BY <1>1 DEF Changed
    <2>5. card' # NoCard => \A q \in OnCard' : job'[q].saw.id = card'.id
        BY <1>1, <1>2, <1>4, <2>1 DEF CleanCard, number
    <2>6. CASE job[r].op # "sync"
        <3>1. Changed(r)' /\ ~IsAt(r, "sync", "answered")'
            BY <1>1, <1>2, <2>6, OthersStay DEF OnCard
        <3>2. bitnob'[number] = Asked(job[r].op)
            BY <1>1, <1>2, <2>6, CardFacts
        <3>3. QED
            BY <1>2, <1>4, <2>1, <2>2, <2>3, <2>5, <3>1, <3>2 DEF CleanCard
    <2>7. CASE job[r].op = "sync"
        <3>1. ~Changed(r)' /\ bitnob' = bitnob
            BY <1>2, <2>7, OthersStay
        <3>2. \A q \in Requests : ~Changed(q) /\ ~Changed(q)'
            BY <2>2, <2>4, <3>1
        <3>3. Agrees(job'[r].saw.status, bitnob'[job'[r].saw.id])
            BY <1>2, <2>7, <3>1 DEF Agrees
        <3>4. QED
            BY <1>1, <1>4, <2>1, <2>3, <2>5, <3>1, <3>2, <3>3 DEF CleanCard
    <2>8. QED
        BY <2>6, <2>7
<1>8. OneKnownCard'
    <2>1. Len(bitnob') = Len(bitnob)
        BY <1>2, CardFacts
    <2>2. QED
        BY <1>1, <2>1 DEF CardInv, OneKnownCard, Known
<1>9. QED
    BY <1>6, <1>7, <1>8 DEF CardInv

(* A new card, or a card made in vain. *)
LEMMA CardMade ==
    ASSUME IInv, CardInv, NEW r \in Requests, Moved(r), CardIssued(r) \/ CardNotIssued(r)
    PROVE  CardInv'
<1>1. IsAt(r, "request", "issue") /\ Ends(r) /\ card = NoCard /\ forgotten' = forgotten
    BY DEF CardIssued, CardNotIssued, CardInv, CardPlaces
<1>2. job = [q \in Requests |-> job[q]] /\ Shape(job[r])
    BY DEF IInv, JobOK
<1>3. job'[r].op = "request" /\ job'[r].at = "over"
    BY <1>1, <1>2 DEF Ends, Goes, Shape, IsAt
<1>4. \A q \in Requests \ {r} : job'[q] = job[q]
    BY OthersStay
<1>5. OnCard' = OnCard /\ \A q \in Requests : Changed(q)' <=> Changed(q)
    BY <1>1, <1>3, OthersStay DEF OnCard, Changed, IsAt, CardOps
<1>6. \A q \in Requests : job'[q].op \in CardOps => q # r /\ job'[q] = job[q]
    BY <1>3, <1>4 DEF CardOps
<1>7. \A q \in Requests : ~IsAt(q, "request", "issue")'
    BY <1>1, <1>3, OthersStay DEF CardInv, CardPlaces
<1>8. CardPlaces'
    BY <1>6, <1>7 DEF CardInv, CardPlaces
<1>9. CASE \E status \in {"PENDING", "ACTIVE"} : bitnob' = Append(bitnob, status)
    <2>1. PICK status \in {"PENDING", "ACTIVE"} : bitnob' = Append(bitnob, status)
        BY <1>9
    <2>2. /\ Len(bitnob') = Len(bitnob) + 1 /\ bitnob'[Len(bitnob')] = status
          /\ \A c \in 1..Len(bitnob) : bitnob'[c] = bitnob[c]
        BY <2>1, CardFacts
    <2>3. \A q \in Requests : job[q].op \in CardOps => bitnob'[job[q].saw.id] = bitnob[job[q].saw.id]
        BY <2>2, CardFacts
    <2>4. ASSUME clean, card' = NoCard
          PROVE  CleanCard'
        <3>1. \A p, q \in OnCard : p = q
            BY <2>4 DEF CardInv, CleanCard
        <3>2. ASSUME NEW q \in Requests, Changed(q)'
              PROVE  bitnob'[job'[q].saw.id] = Asked(job'[q].op)
            <4>1. Changed(q) /\ job'[q] = job[q] /\ job[q].op \in CardOps
                BY <1>5, <1>6, <3>2 DEF Changed, OnCard, InFlight
            <4>2. QED
                BY <2>3, <2>4, <4>1 DEF CardInv, CleanCard
        <3>3. ASSUME NEW q \in Requests, IsAt(q, "sync", "answered")'
              PROVE  Agrees(job'[q].saw.status, bitnob'[job'[q].saw.id])
            <4>1. IsAt(q, "sync", "answered") /\ job'[q] = job[q] /\ job[q].op \in CardOps
                BY <1>6, <3>3 DEF IsAt, OnCard, InFlight, CardOps
            <4>2. QED
                BY <2>3, <2>4, <4>1 DEF CardInv, CleanCard
        <3>4. QED
            BY <1>5, <2>4, <3>1, <3>2, <3>3 DEF CleanCard
    <2>5. CASE CardNotIssued(r)
        <3>1. card' = NoCard /\ clean' = clean /\ unheard' = unheard + 1
            <4>1. Append(bitnob, status) # bitnob
                BY <2>1, <2>2, CardFacts
            <4>2. QED
                BY <1>1, <2>1, <2>5, <4>1 DEF CardNotIssued
        <3>2. clean' => CleanCard'
            BY <2>4, <3>1
        <3>3. OneKnownCard'
            BY <1>1, <2>2, <3>1, CardFacts DEF CardInv, OneKnownCard, Known
        <3>4. QED
            BY <1>8, <3>2, <3>3 DEF CardInv
    <2>6. CASE CardIssued(r)
        <3>1. PICK told \in {"PENDING", "ACTIVE"}, named \in BOOLEAN, processing \in BOOLEAN :
                /\ bitnob' = Append(bitnob, told)
                /\ card' = IF named THEN CardRow(job[r].saw.pk, Len(bitnob'), told, TRUE, processing)
                           ELSE CardRow(job[r].saw.pk, Len(bitnob'), "PENDING", FALSE, FALSE)
                /\ unheard' = IF named THEN unheard ELSE unheard + 1
            BY <2>6 DEF CardIssued
        <3>2. bitnob'[Len(bitnob')] = told /\ Len(bitnob') = Len(bitnob) + 1
            BY <3>1, CardFacts
        <3>3. job[r].saw.pk \in Nat
            BY <1>1, Read DEF IsAt, UserOps, Rows
        <3>4. Len(bitnob') \in Nat \ {0}
            BY <3>2, CardFacts
        <3>5. card' \in CardRows /\ card'.named = named /\ card'.id = Len(bitnob')
              /\ (named => card'.status = told)
            BY <3>1, <3>3, <3>4 DEF CardRow, CardRows, CardStatuses
        <3>6. card' # NoCard
            BY <3>5, NoCardAssumption
        <3>7. clean' = (OnCard = {})
            BY <2>6 DEF CardIssued
        <3>8. card'.named => Agrees(card'.status, bitnob'[card'.id])
            BY <3>2, <3>5 DEF Agrees
        <3>9. ASSUME clean' PROVE CleanCard'
            <4>1. OnCard = {}
                BY <3>7, <3>9
            <4>2. \A q \in Requests : ~Changed(q)' /\ ~IsAt(q, "sync", "answered")'
                BY <1>5, <1>6, <4>1 DEF Changed, IsAt, OnCard, InFlight, CardOps
            <4>3. QED
                BY <1>5, <3>8, <4>1, <4>2 DEF CleanCard
        <3>10. Known' = IF named THEN 1 ELSE 0
            BY <3>5, <3>6 DEF Known
        <3>11. Len(bitnob) <= unheard + forgotten
            BY <1>1, CardFacts DEF CardInv, OneKnownCard
        <3>12. OneKnownCard'
            BY <1>1, <3>1, <3>2, <3>10, <3>11, CardFacts DEF OneKnownCard
        <3>13. QED
            BY <1>8, <3>9, <3>12 DEF CardInv
    <2>7. QED
        BY <2>5, <2>6
<1>10. CASE UNCHANGED cardVars
    <2>1. job[r].op = "request" /\ "request" \notin CardOps
        BY <1>1 DEF IsAt, CardOps
    <2>2. QED
        BY <1>3, <1>7, <1>10, <2>1, CardQuiet
<1>11. QED
    BY <1>9, <1>10 DEF CardIssued, CardNotIssued

(* A process is killed: its request may have changed the card.             *)
LEMMA CardKilled ==
    ASSUME IInv, CardInv, NEW r \in Requests, Moved(r), Killed(r)
    PROVE  CardInv'
<1>1. /\ Ends(r) /\ InFlight(r) /\ UNCHANGED <<card, bitnob, unheard, forgotten>>
      /\ clean' = (clean /\ (r \notin OnCard \/ job[r].op = "sync"))
    BY DEF Killed, Crash
<1>2. job = [q \in Requests |-> job[q]] /\ Shape(job[r])
    BY DEF IInv, JobOK
<1>3. job'[r].op = job[r].op /\ job'[r].at = "over"
    BY <1>1, <1>2 DEF Ends, Goes, Shape
<1>4. CASE r \in OnCard
    <2>1. Known' = Known /\ Known \in {0, 1}
        BY <1>1 DEF Known
    <2>2. ASSUME clean', card # NoCard, card.named
          PROVE  Agrees(card.status, bitnob[card.id]) \/ \E q \in Requests \ {r} : Changed(q)
        <3>1. clean /\ job[r].op = "sync"
            BY <1>1, <1>4, <2>2
        <3>2. CleanCard /\ ~Changed(r)
            BY <3>1 DEF CardInv, Changed
        <3>3. QED
            BY <2>2, <3>2 DEF CleanCard
    <2>3. card' = card /\ (clean' => clean) /\ UNCHANGED <<bitnob, unheard, forgotten>>
        BY <1>1
    <2>4. clean' /\ card' # NoCard /\ card'.named =>
            Agrees(card'.status, bitnob[card'.id]) \/ \E q \in Requests \ {r} : Changed(q)
        BY <2>2, <2>3
    <2>5. QED
        BY <1>1, <1>4, <2>1, <2>3, <2>4, CardLeft
<1>5. CASE r \notin OnCard
    <2>1. UNCHANGED cardVars
        <3>1. clean' = clean
            BY <1>1, <1>5, CardFacts
        <3>2. QED
            BY <1>1, <3>1
    <2>2. job[r].op \notin CardOps
        BY <1>1, <1>5 DEF OnCard
    <2>3. ~IsAt(r, "request", "issue")'
        BY <1>3, OthersStay
    <2>4. QED
        BY <1>3, <2>1, <2>2, <2>3, CardQuiet
<1>6. QED
    BY <1>4, <1>5

(* The row goes with the user's; the cards stay with Bitnob.               *)
LEMMA CardCascaded ==
    ASSUME IInv, CardInv, NEW r \in Requests, Moved(r), Cascade(r)
    PROVE  CardInv'
<1>1. IsAt(r, "delete", "delete") /\ Ends(r) /\ \A q \in Requests : ~IsAt(q, "request", "issue")
    BY DEF Cascade, delete_user
<1>2. job = [q \in Requests |-> job[q]] /\ Shape(job[r])
    BY DEF IInv, JobOK
<1>3. job'[r].op = "delete" /\ job'[r].at = "over" /\ job[r].op = "delete" /\ "delete" \notin CardOps
    BY <1>1, <1>2 DEF Ends, Goes, Shape, IsAt, CardOps
<1>4. CASE UNCHANGED cardVars
    <2>1. ~IsAt(r, "request", "issue")'
        BY <1>3, OthersStay
    <2>2. QED
        BY <1>3, <1>4, <2>1, CardQuiet
<1>5. CASE card' = NoCard /\ forgotten' = forgotten + Known /\ UNCHANGED <<bitnob, unheard, clean>>
    <2>1. \A q \in Requests : job'[q].op \in CardOps => q # r /\ job'[q] = job[q]
        BY <1>3, OthersStay
    <2>2. OnCard' = OnCard /\ \A q \in Requests : Changed(q)' <=> Changed(q)
        BY <1>3, OthersStay DEF OnCard, Changed
    <2>3. \A q \in Requests : ~IsAt(q, "request", "issue")'
        BY <1>1, <1>3, OthersStay
    <2>4. CardPlaces'
        BY <2>1, <2>3 DEF CardInv, CardPlaces
    <2>5. ASSUME clean PROVE CleanCard'
        <3>1. CleanCard
            BY <2>5 DEF CardInv
        <3>2. \A q \in Requests : Changed(q) => job'[q] = job[q]
            BY <2>1, <2>2 DEF Changed
        <3>3. \A q \in Requests : IsAt(q, "sync", "answered")' => IsAt(q, "sync", "answered") /\ job'[q] = job[q]
            BY <1>3, OthersStay
        <3>4. QED
            BY <1>5, <2>2, <3>1, <3>2, <3>3 DEF CleanCard
    <2>6. OneKnownCard'
        <3>1. Known' = 0
            BY <1>5 DEF Known
        <3>2. QED
            BY <1>5, <3>1, CardFacts DEF CardInv, OneKnownCard
    <2>7. QED
        BY <1>5, <2>4, <2>5, <2>6 DEF CardInv
<1>6. QED
    BY <1>4, <1>5 DEF Cascade

(* Steps of no request, and of requests that are about something else.     *)
LEMMA CardProvisioned ==
    ASSUME IInv, CardInv, BitnobProvisions
    PROVE  CardInv'
<1>1. PICK c \in DOMAIN bitnob : bitnob[c] = "PENDING" /\ bitnob' = [bitnob EXCEPT ![c] = "ACTIVE"]
    BY DEF BitnobProvisions
<1>2. job' = job /\ UNCHANGED <<card, unheard, forgotten, clean>>
    BY DEF BitnobProvisions
<1>3. Len(bitnob') = Len(bitnob)
    BY <1>1, CardFacts
<1>4. \A d \in 1..Len(bitnob) : bitnob'[d] = IF bitnob[d] = "PENDING" /\ d = c THEN "ACTIVE" ELSE bitnob[d]
    BY <1>1, CardFacts
<1>5. CardPlaces' /\ OneKnownCard'
    BY <1>2, <1>3 DEF CardInv, CardPlaces, OneKnownCard, IsAt, Known
<1>6. ASSUME clean PROVE CleanCard'
    <2>1. CleanCard
        BY <1>6 DEF CardInv
    <2>2. OnCard' = OnCard /\ \A q \in Requests : Changed(q)' <=> Changed(q)
        BY <1>2 DEF OnCard, InFlight, Changed
    <2>3. \A s \in CardStatuses, d \in 1..Len(bitnob) : Agrees(s, bitnob[d]) => Agrees(s, bitnob'[d])
        BY <1>4 DEF Agrees
    <2>4. card # NoCard => card.id \in 1..Len(bitnob) /\ card.status \in CardStatuses
        BY CardFacts DEF CardRows
    <2>5. ASSUME NEW q \in Requests, Changed(q)
          PROVE  bitnob'[job[q].saw.id] = Asked(job[q].op)
        <3>1. bitnob[job[q].saw.id] = Asked(job[q].op) /\ job[q].saw.id \in 1..Len(bitnob)
            BY <2>1, <2>5, CardFacts DEF CleanCard, Changed
        <3>2. Asked(job[q].op) # "PENDING"
            BY <2>5 DEF Changed, CardOps, Asked
        <3>3. QED
            BY <1>4, <3>1, <3>2
    <2>6. ASSUME NEW q \in Requests, IsAt(q, "sync", "answered")
          PROVE  Agrees(job[q].saw.status, bitnob'[job[q].saw.id])
        <3>1. job[q].saw.id \in 1..Len(bitnob) /\ job[q].saw.status \in CardStatuses
            BY <2>6, CardFacts DEF IsAt, CardOps, CardRows
        <3>2. QED
            BY <2>1, <2>3, <2>6, <3>1 DEF CleanCard
    <2>7. card # NoCard /\ card.named => Agrees(card.status, bitnob'[card.id]) \/ \E q \in Requests : Changed(q)
        BY <2>1, <2>3, <2>4 DEF CleanCard
    <2>8. (\A q \in Requests : IsAt(q, "sync", "answered")' <=> IsAt(q, "sync", "answered"))
        BY <1>2 DEF IsAt
    <2>9. QED
        BY <1>2, <2>1, <2>2, <2>5, <2>6, <2>7, <2>8 DEF CleanCard
<1>7. QED
    BY <1>2, <1>5, <1>6 DEF CardInv

(* The card's invariant is about the requests and the card only.           *)
LEMMA CardUnmoved ==
    ASSUME CardInv, job' = job, UNCHANGED cardVars
    PROVE  CardInv'
BY DEF CardInv, CardPlaces, CleanCard, OneKnownCard, OnCard, InFlight, Changed, IsAt, Known

(* Every request about the card keeps the card's invariant.                *)
LEMMA CardRequestGood ==
    ASSUME IInv, CardInv, NEW r \in Requests, Moved(r), CardRequest(r) \/ CardStep(r)
    PROVE  CardInv'
<1>1. CASE CardStep(r)
    BY <1>1, CardMade, CardAnswered, CardEnds DEF CardStep
<1>2. CASE CardRequest(r)
    <2>1. job[r] = Waiting
        BY <1>2 DEF CardRequest
    <2>2. CASE \E o \in CardOps : OnOwnCard(r, o)
        BY <2>1, <2>2, CardJoined
    <2>3. CASE request_card(r)
        <3>1. /\ UNCHANGED cardVars /\ card = NoCard /\ SetJob(r, Job("request", "issue", user))
              /\ \A q \in Requests : ~IsAt(q, "request", "issue")
            BY <2>3 DEF request_card
        <3>2. job'[r].op = "request" /\ "request" \notin CardOps
            BY <3>1, JobFacts DEF SetJob, IInv, CardOps
        <3>3. job[r].op \notin CardOps
            BY <2>1, WaitingFacts DEF CardOps
        <3>4. QED
            BY <3>1, <3>2, <3>3, CardQuiet
    <2>4. QED
        BY <1>2, <2>2, <2>3 DEF CardRequest
<1>3. QED
    BY <1>1, <1>2

(* The card's invariant holds at the start.                                *)
LEMMA InitCardInv == Init => CardInv
<1> SUFFICES ASSUME Init PROVE CardInv
    OBVIOUS
<1>1. job = [r \in Requests |-> Waiting]
    BY DEF Init, AccountInit
<1>2. \A r \in Requests : job[r].op = ""
    BY <1>1, WaitingFacts
<1>3. CardPlaces /\ OnCard = {} /\ (\A r \in Requests : ~Changed(r) /\ ~IsAt(r, "sync", "answered"))
    BY <1>2 DEF CardPlaces, OnCard, Changed, IsAt, CardOps
<1>4. unheard = 0 /\ forgotten = 0
    BY DEF Init, CardInit
<1>5. CASE card = NoCard /\ bitnob = <<>>
    BY <1>3, <1>4, <1>5 DEF CardInv, CleanCard, OneKnownCard, Known
<1>6. ASSUME NEW status \in {"PENDING", "ACTIVE"}, NEW processing \in BOOLEAN,
             card = CardRow(1, 1, status, TRUE, processing), bitnob = <<status>>
      PROVE  CardInv
    <2>1. card.id = 1 /\ card.named = TRUE /\ card.status = status /\ card \in CardRows
        BY <1>6 DEF CardRow, CardRows, CardStatuses
    <2>2. Known = 1 /\ Len(bitnob) = 1 /\ bitnob[1] = status
        BY <1>6, <2>1, NoCardAssumption DEF Known
    <2>3. CleanCard
        BY <1>3, <2>1, <2>2 DEF CleanCard, Agrees
    <2>4. QED
        BY <1>3, <1>4, <2>2, <2>3 DEF CardInv, OneKnownCard
<1>7. QED
    <2>1. \/ card = NoCard /\ bitnob = <<>>
          \/ \E status \in {"PENDING", "ACTIVE"}, processing \in BOOLEAN :
               card = CardRow(1, 1, status, TRUE, processing) /\ bitnob = <<status>>
        BY DEF Init, CardInit
    <2>2. QED
        BY <1>5, <1>6, <2>1
(* Every step keeps the card's invariant.                                  *)
LEMMA CardNext ==
    ASSUME IInv, CardInv, [Next]_vars
    PROVE  CardInv'
<1>1. ASSUME NEW r \in Requests, AccountRequest(r) \/ AccountStep(r), UNCHANGED cardVars
      PROVE  CardInv'
    <2>1. Moved(r)
        BY <1>1, AccountBegins, AccountGoesOn DEF AccountGood
    <2>2. QED
        BY <1>1, <2>1, NotOnCard, CardQuiet
<1>2. ASSUME NEW r \in Requests, KycRequest(r) \/ KycStep(r), UNCHANGED cardVars
      PROVE  CardInv'
    <2>1. Moved(r)
        BY <1>2, KycBegins, KycGoesOn
    <2>2. QED
        BY <1>2, <2>1, NotOnCard, CardQuiet
<1>3. ASSUME NEW r \in Requests, CardRequest(r) \/ CardStep(r)
      PROVE  CardInv'
    BY <1>3, CardBegins, CardGoesOn, CardRequestGood DEF CardGood
<1>4. ASSUME NEW r \in Requests, Cascade(r) \/ Killed(r)
      PROVE  CardInv'
    <2>1. Moved(r)
        BY <1>4, Hypotheses, Over DEF Cascade, delete_user, Killed, Crash
    <2>2. QED
        BY <1>4, <2>1, CardCascaded, CardKilled
<1>5. ASSUME NEW c \in DOMAIN codes, CodeAges(c), UNCHANGED cardVars
      PROVE  CardInv'
    BY <1>5, CardUnmoved DEF CodeAges
<1>6. CASE UNCHANGED vars
    BY <1>6, CardUnmoved DEF vars
<1>7. QED
    BY <1>1, <1>2, <1>3, <1>4, <1>5, <1>6, CardProvisioned DEF Next

(* The app's card is what Bitnob was told and has told, and every other    *)
(* card of Bitnob's was lost to an answer that never came or went with a   *)
(* deleted account.                                                        *)
THEOREM CardIsBitnobs == Spec => []CardAgrees
<1>1. IInv /\ CardInv => CardAgrees
    <2> SUFFICES ASSUME IInv, CardInv PROVE StatusAgrees
        BY DEF CardAgrees, CardInv
    <2>1. ASSUME card # NoCard, card.named, clean, OnCard = {}
          PROVE  Agrees(card.status, bitnob[card.id])
        BY <2>1 DEF CardInv, CleanCard, Changed, OnCard, InFlight
    <2>2. QED
        BY <2>1 DEF StatusAgrees
<1>2. Init => CardInv
    BY InitCardInv
<1>3. IInv /\ CardInv /\ [Next]_vars => CardInv'
    BY CardNext
<1>4. QED
    BY InductiveInvariant, <1>1, <1>2, <1>3, PTL DEF Spec

-----------------------------------------------------------------------------
(* Codes and wrong guesses.                                                *)
CodeRows ==
    [owner : Nat, purpose : {"registration", "password_reset"}, used : BOOLEAN, tries : Nat,
     age : {"new", "old", "expired"}, misses : Nat, counted : BOOLEAN]

(* Where requests are that hold a code, or none. *)
AtCode == {"miss", "lock", "hit"}
Places ==
    {"invalidate", "create", "save", "verified", "delete", "dojah", "issue", "ask", "answered", "over"}

Keys ==
    /\ user # NoUser => user.pk # 0
    /\ \A r \in Requests :
         job[r].op \in UserOps \cup {"register"} /\ job[r].saw # NoUser => job[r].saw.pk # 0

Holds(r, c) == InFlight(r) /\ job[r].code = c

(* Codes are the user's or nobody's; requests hold codes that there are.   *)
CodesFit ==
    /\ codes \in Seq(CodeRows)
    /\ \A c \in DOMAIN codes : codes[c].owner # 0 => user # NoUser /\ codes[c].owner = user.pk
    /\ \A r \in Requests :
         /\ InFlight(r) => job[r].code \in {0} \cup DOMAIN codes
         /\ job[r].at \in AtCode => job[r].code # 0
         /\ job[r].at = "miss" => job[r].tries \in Nat

(* A counted code: at most one request holds it, with the count that is in *)
(* the row, and a miss that is not in the row yet is that request's.       *)
Counted(c) ==
    /\ codes[c].misses <= OTP_MAX_ATTEMPTS
    /\ \A q, r \in Requests : Holds(q, c) /\ Holds(r, c) => q = r
    /\ \A r \in Requests : job[r].at = "miss" /\ job[r].code = c => job[r].tries = codes[c].tries
    /\ codes[c].owner # 0 =>
         \/ codes[c].misses <= codes[c].tries
         \/ /\ codes[c].misses <= codes[c].tries + 1
            /\ \E r \in Requests : job[r].at = "miss" /\ job[r].code = c

GuessInv == Keys /\ CodesFit /\ \A c \in DOMAIN codes : codes[c].counted => Counted(c)

(* A step that compares nothing and counts nothing: what it may do to the  *)
(* codes, the user's key and the request.                                  *)
SameCount(k, m) == m.misses = k.misses /\ m.tries = k.tries /\ m.counted = k.counted

KeyStays == user # NoUser => user' # NoUser /\ user'.pk = user.pk

CodesGo ==
    /\ codes' \in Seq(CodeRows) /\ DOMAIN codes \subseteq DOMAIN codes'
    /\ \A c \in DOMAIN codes :
         /\ SameCount(codes[c], codes'[c])
         /\ codes'[c].owner # 0 => codes'[c].owner = codes[c].owner /\ KeyStays
    /\ \A c \in DOMAIN codes' \ DOMAIN codes :
         codes'[c].misses = 0 /\ user' # NoUser /\ codes'[c].owner = user'.pk

Quiet(r) ==
    /\ job[r].at # "miss" /\ job'[r].at \in Places
    /\ InFlight(r)' => job'[r].code = 0 \/ (InFlight(r) /\ job'[r].code = job[r].code)
    /\ job'[r].op \in UserOps \cup {"register"} /\ job'[r].saw # NoUser => job'[r].saw.pk # 0

(* A code is a row with a number.                                          *)
LEMMA CodeKnown ==
    ASSUME GuessInv, NEW c \in DOMAIN codes
    PROVE  codes[c] \in CodeRows /\ c \in Nat \ {0}
BY DEF GuessInv, CodesFit

(* A step that compares nothing and counts nothing keeps the counts.       *)
LEMMA GuessQuiet ==
    ASSUME IInv, GuessInv, NEW r \in Requests, Moved(r), Quiet(r), CodesGo,
           user' # NoUser => user'.pk # 0
    PROVE  GuessInv'
<1>1. \A q \in Requests \ {r} : job'[q] = job[q]
    BY DEF Moved
<1>2. Keys'
    BY <1>1 DEF GuessInv, Keys, Quiet
<1>3. \A q \in Requests : InFlight(q)' /\ job'[q].code # 0 => InFlight(q) /\ job'[q].code = job[q].code
    BY <1>1 DEF Quiet, InFlight
<1>4. \A q \in Requests : job'[q].at = "miss" <=> job[q].at = "miss"
    BY <1>1 DEF Quiet, Places
<1>5. \A q \in Requests : job'[q].at = "miss" => job'[q] = job[q]
    BY <1>1, <1>4 DEF Quiet
<1>6. CodesFit'
    <2>1. ASSUME NEW c \in DOMAIN codes', codes'[c].owner # 0
          PROVE  user' # NoUser /\ codes'[c].owner = user'.pk
        <3>1. CASE c \in DOMAIN codes
            BY <2>1, <3>1 DEF CodesGo, KeyStays, GuessInv, CodesFit
        <3>2. CASE c \notin DOMAIN codes
            BY <2>1, <3>2 DEF CodesGo
        <3>3. QED
            BY <3>1, <3>2
    <2>2. ASSUME NEW q \in Requests
          PROVE  /\ InFlight(q)' => job'[q].code \in {0} \cup DOMAIN codes'
                 /\ job'[q].at \in AtCode => job'[q].code # 0
                 /\ job'[q].at = "miss" => job'[q].tries \in Nat
        <3>1. InFlight(q)' => job'[q].code \in {0} \cup DOMAIN codes'
            BY <1>3 DEF GuessInv, CodesFit, CodesGo
        <3>2. CASE q = r
            BY <1>1, <3>1, <3>2 DEF Quiet, Places, AtCode
        <3>3. CASE q # r
            BY <1>1, <3>1, <3>3 DEF GuessInv, CodesFit
        <3>4. QED
            BY <3>2, <3>3
    <2>3. QED
        BY <2>1, <2>2 DEF CodesFit, CodesGo
<1>7. ASSUME NEW c \in DOMAIN codes', codes'[c].counted PROVE Counted(c)'
    <2>1. c # 0 /\ codes'[c] \in CodeRows
        BY DEF CodesGo
    <2>2. CASE c \in DOMAIN codes
        <3>1. Counted(c) /\ SameCount(codes[c], codes'[c])
            BY <1>7, <2>2 DEF CodesGo, SameCount, GuessInv
        <3>2. \A p, q \in Requests : Holds(p, c)' /\ Holds(q, c)' => p = q
            BY <1>3, <2>1, <3>1 DEF Counted, Holds
        <3>3. \A q \in Requests : job'[q].at = "miss" /\ job'[q].code = c => job'[q].tries = codes'[c].tries
            BY <1>4, <1>5, <3>1 DEF Counted, SameCount
        <3>4. codes'[c].owner # 0 => codes[c].owner # 0
            BY <2>2 DEF CodesGo
        <3>5. \A q \in Requests : job[q].at = "miss" => job'[q] = job[q]
            BY <1>4, <1>5
        <3>6. QED
            BY <3>1, <3>2, <3>3, <3>4, <3>5 DEF Counted, SameCount
    <2>3. CASE c \notin DOMAIN codes
        <3>1. \A q \in Requests : ~Holds(q, c)'
            BY <1>3, <2>1, <2>3 DEF Holds, GuessInv, CodesFit
        <3>2. \A q \in Requests : ~(job'[q].at = "miss" /\ job'[q].code = c)
            BY <3>1 DEF Holds, InFlight
        <3>3. codes'[c].misses = 0 /\ OTP_MAX_ATTEMPTS \in Nat /\ codes'[c].tries \in Nat
            BY <2>1, <2>3, AccountsAssumption DEF CodesGo, CodeRows
        <3>4. QED
            BY <3>1, <3>2, <3>3 DEF Counted
    <2>4. QED
        BY <2>2, <2>3
<1>8. QED
    BY <1>2, <1>6, <1>7 DEF GuessInv

(* Codes that stay the same are among the harmless changes.                *)
LEMMA CodesSame ==
    ASSUME GuessInv, codes' = codes, KeyStays
    PROVE  CodesGo
BY DEF CodesGo, SameCount, GuessInv, CodesFit

(* A request begins about anything but a guess, or goes on. *)
LEMMA QuietMoves ==
    ASSUME IInv, GuessInv, NEW r \in Requests, job[r].at # "miss",
           \/ \E a \in Places : Goes(r, a) /\ (a # "over" => InFlight(r))
           \/ \E o, s : \E a \in Places :
                SetJob(r, Job(o, a, s)) /\ (o \in UserOps \cup {"register"} => s = user)
    PROVE  Quiet(r)
<1>1. job = [q \in Requests |-> job[q]] /\ Shape(job[r])
    BY DEF IInv, JobOK
<1>2. ASSUME NEW a \in Places, Goes(r, a), a # "over" => InFlight(r) PROVE Quiet(r)
    <2>1. /\ job'[r].op = job[r].op /\ job'[r].at = a /\ job'[r].saw = job[r].saw
          /\ job'[r].code = job[r].code
        BY <1>1, <1>2 DEF Goes, Shape
    <2>2. job[r].op \in UserOps \cup {"register"} /\ job[r].saw # NoUser => job[r].saw.pk # 0
        BY DEF GuessInv, Keys
    <2>3. InFlight(r)' => job'[r].code = 0 \/ (InFlight(r) /\ job'[r].code = job[r].code)
        BY <1>2, <2>1 DEF InFlight
    <2>4. QED
        BY <1>2, <2>1, <2>2, <2>3 DEF Quiet
<1>3. ASSUME NEW o, NEW s, NEW a \in Places, SetJob(r, Job(o, a, s)),
             o \in UserOps \cup {"register"} => s = user
      PROVE  Quiet(r)
    <2>1. job'[r] = Job(o, a, s)
        BY <1>1, <1>3 DEF SetJob
    <2>2. job'[r].op = o /\ job'[r].at = a /\ job'[r].saw = s /\ job'[r].code = 0
        BY <2>1 DEF Job
    <2>3. user # NoUser => user.pk # 0
        BY DEF GuessInv, Keys
    <2>4. QED
        BY <1>3, <2>2, <2>3 DEF Quiet
<1>4. QED
    BY <1>2, <1>3

(* What saving a row does to the key. *)
LEMMA KeysSaved ==
    ASSUME IInv, GuessInv, NEW row, row \in Rows, row.pk # 0, NEW F \in SUBSET UserFields, save(row, F)
    PROVE  KeyStays /\ (user' # NoUser => user'.pk # 0)
<1>1. user # NoUser => user \in Rows /\ user.pk # 0
    BY DEF IInv, TypeOK, GuessInv, Keys
<1>2. CASE user = NoUser
    BY <1>2 DEF save, KeyStays
<1>3. CASE user # NoUser /\ user' = user
    BY <1>1, <1>3 DEF KeyStays
<1>4. CASE user # NoUser /\ user' = [f \in DOMAIN user |-> IF f \in F THEN row[f] ELSE user[f]]
    <2>1. user' \in Rows
        BY <1>1, <1>4, RowFields
    <2>2. user'.pk = user.pk
        BY <1>1, <1>4 DEF Rows, UserFields
    <2>3. QED
        BY <1>1, <1>4, <2>1, <2>2, NoUserAssumption DEF KeyStays
<1>5. QED
    BY <1>2, <1>3, <1>4 DEF save

(* A code and what becomes of it. *)
LEMMA CodeFields ==
    ASSUME NEW k \in CodeRows
    PROVE  /\ [k EXCEPT !.used = TRUE] \in CodeRows /\ SameCount(k, [k EXCEPT !.used = TRUE])
           /\ [k EXCEPT !.used = TRUE].owner = k.owner
           /\ [k EXCEPT !.owner = 0] \in CodeRows /\ SameCount(k, [k EXCEPT !.owner = 0])
           /\ [k EXCEPT !.owner = 0].owner = 0
           /\ \A a \in {"old", "expired"} :
                /\ [k EXCEPT !.age = a] \in CodeRows /\ SameCount(k, [k EXCEPT !.age = a])
                /\ [k EXCEPT !.age = a].owner = k.owner
           /\ \A n \in Nat :
                /\ [k EXCEPT !.tries = n] \in CodeRows /\ [k EXCEPT !.tries = n].tries = n
                /\ [k EXCEPT !.tries = n].misses = k.misses
                /\ [k EXCEPT !.tries = n].counted = k.counted
                /\ [k EXCEPT !.tries = n].owner = k.owner
           /\ SameCount(k, k)
BY DEF CodeRows, SameCount

(* The codes as a function of their numbers, after a step that adds none.  *)
LEMMA CodesFrom ==
    ASSUME GuessInv, NEW f, codes' = [c \in DOMAIN codes |-> f[c]],
           \A c \in DOMAIN codes : f[c] \in CodeRows
    PROVE  codes' \in Seq(CodeRows) /\ DOMAIN codes' = DOMAIN codes /\ Len(codes') = Len(codes)
<1>1. Len(codes) \in Nat /\ DOMAIN codes = 1..Len(codes)
    BY DEF GuessInv, CodesFit
<1>2. codes' \in [1..Len(codes) -> CodeRows]
    BY <1>1
<1>3. codes' \in Seq(CodeRows)
    BY <1>1, <1>2
<1>4. QED
    BY <1>1, <1>2, <1>3

(* Codes that are used, aged or given up, and no more. *)
LEMMA CodesChange ==
    ASSUME GuessInv, KeyStays, NEW f, codes' = [c \in DOMAIN codes |-> f[c]],
           \A c \in DOMAIN codes :
              /\ f[c] \in CodeRows /\ SameCount(codes[c], f[c])
              /\ f[c].owner \in {0, codes[c].owner}
    PROVE  CodesGo
<1>1. codes' \in Seq(CodeRows) /\ DOMAIN codes' = DOMAIN codes
    BY CodesFrom
<1>2. \A c \in DOMAIN codes : codes'[c] = f[c]
    OBVIOUS
<1>3. QED
    BY <1>1, <1>2 DEF CodesGo

(* A code, if it is one, is used. *)
LEMMA CodeUsed ==
    ASSUME GuessInv, KeyStays, NEW n,
           codes' = [codes EXCEPT ![n] = [codes[n] EXCEPT !.used = TRUE]]
    PROVE  CodesGo
<1> DEFINE f == [c \in DOMAIN codes |-> IF c = n THEN [codes[n] EXCEPT !.used = TRUE] ELSE codes[c]]
<1>1. codes' = [c \in DOMAIN codes |-> f[c]]
    OBVIOUS
<1>2. \A c \in DOMAIN codes : /\ f[c] \in CodeRows /\ SameCount(codes[c], f[c])
                               /\ f[c].owner \in {0, codes[c].owner}
    BY CodeKnown, CodeFields
<1> HIDE DEF f
<1>3. QED
    BY <1>1, <1>2, CodesChange

(* A code is added. *)
LEMMA CodeAdded ==
    ASSUME GuessInv, KeyStays, NEW s \in Seq(CodeRows), Len(s) = Len(codes), NEW k \in CodeRows,
           \A c \in DOMAIN codes :
              SameCount(codes[c], s[c]) /\ s[c].owner \in {0, codes[c].owner},
           codes' = Append(s, k), k.misses = 0, user' # NoUser, k.owner = user'.pk
    PROVE  CodesGo
<1>1. Len(codes) \in Nat /\ DOMAIN codes = 1..Len(codes) /\ DOMAIN s = 1..Len(codes)
    BY DEF GuessInv, CodesFit
<1>2. /\ codes' \in Seq(CodeRows) /\ DOMAIN codes' = 1..(Len(codes) + 1)
      /\ \A c \in 1..Len(codes) : codes'[c] = s[c]
      /\ codes'[Len(codes) + 1] = k
    BY <1>1
<1>3. \A c \in DOMAIN codes' \ DOMAIN codes : c = Len(codes) + 1
    BY <1>1, <1>2
<1>4. QED
    BY <1>1, <1>2, <1>3 DEF CodesGo

(* Codes of a user for a purpose are used. *)
LEMMA CodesInvalidated ==
    ASSUME GuessInv, NEW u, NEW purpose
    PROVE  LET f == _invalidate_active_otps(u, purpose) IN
           /\ f = [c \in DOMAIN codes |-> f[c]] /\ f \in Seq(CodeRows) /\ Len(f) = Len(codes)
           /\ \A c \in DOMAIN codes : /\ f[c] \in CodeRows /\ SameCount(codes[c], f[c])
                                      /\ f[c].owner \in {0, codes[c].owner}
<1> DEFINE f == _invalidate_active_otps(u, purpose)
<1>1. f = [c \in DOMAIN codes |-> IF c \in CodesOf(u, purpose) THEN [codes[c] EXCEPT !.used = TRUE]
                                  ELSE codes[c]]
    BY DEF _invalidate_active_otps
<1> HIDE DEF f
<1>2. \A c \in DOMAIN codes : /\ f[c] \in CodeRows /\ SameCount(codes[c], f[c])
                               /\ f[c].owner \in {0, codes[c].owner}
    BY <1>1, CodeKnown, CodeFields
<1>3. Len(codes) \in Nat /\ DOMAIN codes = 1..Len(codes)
    BY DEF GuessInv, CodesFit
<1>4. f \in [1..Len(codes) -> CodeRows]
    BY <1>1, <1>2, <1>3
<1>5. f \in Seq(CodeRows)
    BY <1>3, <1>4
<1>6. Len(f) = Len(codes) /\ f = [c \in DOMAIN codes |-> f[c]]
    BY <1>3, <1>4, <1>5
<1>7. QED
    BY <1>2, <1>5, <1>6 DEF f

(* A new code is its user's and was compared with nothing.                 *)
LEMMA NewCodeFacts ==
    ASSUME NEW u \in Rows, NEW purpose \in {"registration", "password_reset"}
    PROVE  /\ NewCode(u, purpose) \in CodeRows /\ NewCode(u, purpose).misses = 0
           /\ NewCode(u, purpose).owner = u.pk
BY DEF NewCode, CodeRows, Rows

(* A row that a request about the user has read has a key.                 *)
LEMMA SawKey ==
    ASSUME IInv, GuessInv, NEW r \in Requests, job[r].op \in UserOps
    PROVE  job[r].saw \in Rows /\ job[r].saw.pk # 0
BY Read, NoUserAssumption DEF GuessInv, Keys

(* The account's steps that compare nothing and count nothing.             *)
LEMMA AccountQuiet ==
    ASSUME IInv, GuessInv, NEW r \in Requests, AccountStep(r), ~CountMiss(r)
    PROVE  Quiet(r) /\ CodesGo /\ (user' # NoUser => user'.pk # 0)
<1>1. user # NoUser => user \in Rows /\ user.pk # 0
    BY DEF IInv, TypeOK, GuessInv, Keys
<1>2. ASSUME NEW a \in {"create", "verified", "over"}, Goes(r, a),
             job[r].at \notin {"miss", "idle", "over"}
      PROVE  Quiet(r)
    BY <1>2, QuietMoves DEF Places, InFlight
<1>3. ASSUME user' = user PROVE KeyStays /\ (user' # NoUser => user'.pk # 0)
    BY <1>1, <1>3 DEF KeyStays
<1>4. CASE InvalidateCodes(r)
    <2>1. Quiet(r) /\ user' = user
          /\ codes' = _invalidate_active_otps(job[r].saw, PurposeOf(job[r].op))
        BY <1>2, <1>4 DEF InvalidateCodes
    <2>2. CodesGo
        BY <1>3, <2>1, CodesInvalidated, CodesChange
    <2>3. QED
        BY <1>3, <2>1, <2>2
<1>5. CASE CreateCode(r)
    <2>1. Quiet(r) /\ user' = user
        BY <1>2, <1>5 DEF CreateCode, Ends
    <2>2. CASE codes' = codes
        BY <1>3, <2>1, <2>2, CodesSame
    <2>3. CASE user # NoUser /\ codes' = Append(codes, NewCode(user, PurposeOf(job[r].op)))
        <3> DEFINE k == NewCode(user, PurposeOf(job[r].op))
        <3>1. k \in CodeRows /\ k.misses = 0 /\ k.owner = user.pk
            BY <1>1, <2>3, NewCodeFacts DEF PurposeOf
        <3>2. codes \in Seq(CodeRows) /\ \A c \in DOMAIN codes : SameCount(codes[c], codes[c])
            BY DEF GuessInv, CodesFit, SameCount
        <3> HIDE DEF k
        <3>3. codes' = Append(codes, k)
            BY <2>3 DEF k
        <3>4. CodesGo
            BY <1>3, <2>1, <2>3, <3>1, <3>2, <3>3, CodeAdded
        <3>5. QED
            BY <1>3, <2>1, <3>4
    <2>4. QED
        BY <1>5, <2>2, <2>3 DEF CreateCode
<1>6. CASE LockCode(r) \/ UseCode(r)
    <2>1. Quiet(r) /\ user' = user
        BY <1>2, <1>6 DEF LockCode, UseCode, IsAt, Ends
    <2>2. Writes(r, [codes[job[r].code] EXCEPT !.used = TRUE])
        BY <1>6 DEF LockCode, UseCode
    <2>3. CodesGo
        BY <1>3, <2>1, <2>2, CodesSame, CodeUsed DEF Writes
    <2>4. QED
        BY <1>3, <2>1, <2>3
<1>7. CASE RegisterCommit(r)
    <2> DEFINE fresh == Row(IF job[r].saw = NoUser THEN pks + 1 ELSE job[r].saw.pk, FALSE, FALSE, Unset, Unset)
    <2>1. Quiet(r) /\ job[r].op = "register"
        BY <1>2, <1>7 DEF RegisterCommit, IsAt, Ends
    <2>2. CASE UNCHANGED <<user, pks, codes>>
        BY <1>3, <2>1, <2>2, CodesSame
    <2>3. CASE /\ save(fresh, UserFields) /\ user' = fresh
               /\ codes' = Append(_invalidate_active_otps(job[r].saw, "registration"),
                                  NewCode(fresh, "registration"))
        <3>1. fresh \in Rows /\ fresh.pk # 0
            <4>1. pks \in Nat /\ {Unset} \subseteq Secrets
                BY DEF IInv, TypeOK, Secrets
            <4>2. job[r].saw # NoUser => job[r].saw \in Rows /\ job[r].saw.pk # 0
                BY <2>1, Read DEF GuessInv, Keys
            <4>3. QED
                BY <4>1, <4>2 DEF Row, Rows
        <3> DEFINE k == NewCode(fresh, "registration")
                   s == _invalidate_active_otps(job[r].saw, "registration")
        <3> HIDE DEF fresh
        <3>2. k \in CodeRows /\ k.misses = 0 /\ k.owner = fresh.pk
            BY <3>1, NewCodeFacts
        <3>3. KeyStays /\ user' # NoUser
            BY <2>3, <3>1, KeysSaved, NoUserAssumption
        <3>4. /\ s \in Seq(CodeRows) /\ Len(s) = Len(codes)
              /\ \A c \in DOMAIN codes :
                   SameCount(codes[c], s[c]) /\ s[c].owner \in {0, codes[c].owner}
            BY CodesInvalidated
        <3>5. codes' = Append(s, k) /\ user' = fresh
            BY <2>3
        <3> HIDE DEF s, k
        <3>6. CodesGo
            BY <3>2, <3>3, <3>4, <3>5, CodeAdded
        <3>7. QED
            BY <2>1, <3>1, <3>5, <3>6
    <2>4. QED
        BY <1>7, <2>2, <2>3 DEF RegisterCommit
<1>8. ASSUME NEW row \in Rows, row.pk # 0, NEW F \in SUBSET UserFields, save(row, F), codes' = codes
      PROVE  CodesGo /\ (user' # NoUser => user'.pk # 0)
    BY <1>8, KeysSaved, CodesSame
<1>9. CASE CompleteCommit(r)
    <2> DEFINE row == [job[r].saw EXCEPT !.complete = TRUE, !.password = r]
    <2>1. Quiet(r) /\ job[r].op \in UserOps /\ save(row, UserFields) /\ codes' = codes
        BY <1>2, <1>9 DEF CompleteCommit, IsAt, Ends, UserOps
    <2>2. row \in Rows /\ row.pk # 0
        <3>1. job[r].saw \in Rows /\ job[r].saw.pk # 0
            BY <2>1, SawKey
        <3>2. row \in Rows
            BY <3>1, RowOf DEF Secrets
        <3>3. row.pk = job[r].saw.pk
            BY <3>1 DEF Rows
        <3>4. QED
            BY <3>1, <3>2, <3>3
    <2> HIDE DEF row
    <2>3. QED
        BY <1>8, <2>1, <2>2
<1>10. CASE SaveVerified(r)
    <2> DEFINE row == [job[r].saw EXCEPT !.verified = TRUE]
    <2>1. Quiet(r) /\ job[r].op \in UserOps /\ save(row, {"verified"}) /\ codes' = codes
        BY <1>2, <1>10 DEF SaveVerified, IsAt, Ends, UserOps
    <2>2. row \in Rows /\ row.pk # 0
        BY <2>1, SawKey DEF Rows
    <2>3. {"verified"} \in SUBSET UserFields
        BY DEF UserFields
    <2> HIDE DEF row
    <2>4. QED
        BY <1>8, <2>1, <2>2, <2>3
<1>11. CASE reset_password(r)
    <2> DEFINE row == [job[r].saw EXCEPT !.password = r]
               n == NewestUnused(job[r].saw, "password_reset")
    <2>1. Quiet(r) /\ job[r].op \in UserOps /\ save(row, {"password"})
          /\ (codes' = codes \/ codes' = [codes EXCEPT ![n].used = TRUE])
        BY <1>2, <1>11 DEF reset_password, IsAt, Ends, UserOps
    <2>2. row \in Rows /\ row.pk # 0
        BY <2>1, SawKey, AccountsAssumption DEF Rows, Secrets
    <2>3. {"password"} \in SUBSET UserFields
        BY DEF UserFields
    <2> HIDE DEF row, n
    <2>4. KeyStays /\ (user' # NoUser => user'.pk # 0)
        BY <2>1, <2>2, <2>3, KeysSaved
    <2>5. CodesGo
        BY <2>1, <2>4, CodesSame, CodeUsed
    <2>6. QED
        BY <2>1, <2>4, <2>5
<1>12. CASE SaveSettings(r)
    <2> DEFINE o == job[r].op
               F == UpdateFields(o)
               row == [f \in DOMAIN job[r].saw |-> IF f \in Purpose(o) THEN r ELSE job[r].saw[f]]
    <2>1. Quiet(r) /\ o \in SettingsOps /\ save(row, F) /\ codes' = codes
        BY <1>2, <1>12 DEF SaveSettings, Ends
    <2>2. job[r].saw \in Rows /\ job[r].saw.pk # 0
        BY <2>1, SawKey DEF UserOps
    <2>3. Purpose(o) \in {{}, {"pin"}, {"password"}} /\ F \in SUBSET UserFields
        BY <2>1 DEF Purpose, SettingsOps, UpdateFields, UserFields, WholeRow
    <2>4. row \in Rows /\ row.pk # 0
        <3>1. DOMAIN job[r].saw = {"pk", "verified", "complete", "password", "pin"}
            BY <2>2 DEF Rows
        <3>2. /\ row.pk = job[r].saw.pk /\ row.verified \in BOOLEAN /\ row.complete \in BOOLEAN
              /\ row.password \in Secrets /\ row.pin \in Secrets
            BY <2>2, <2>3, <3>1 DEF Rows, Secrets
        <3>3. row = [pk |-> row.pk, verified |-> row.verified, complete |-> row.complete,
                     password |-> row.password, pin |-> row.pin]
            BY <3>1
        <3>4. QED
            BY <2>2, <3>2, <3>3 DEF Rows
    <2> HIDE DEF row, F
    <2>5. QED
        BY <1>8, <2>1, <2>3, <2>4
<1>13. QED
    BY <1>4, <1>5, <1>6, <1>7, <1>9, <1>10, <1>11, <1>12 DEF AccountStep

(* The miss is saved with the count that was read, which is the row's.     *)
LEMMA MissCounted ==
    ASSUME IInv, GuessInv, NEW r \in Requests, Moved(r), CountMiss(r)
    PROVE  GuessInv'
<1> DEFINE n == job[r].code
           k == [codes[n] EXCEPT !.tries = job[r].tries + 1]
<1>1. /\ job[r].at = "miss" /\ Ends(r) /\ user' = user
      /\ codes' = IF user # NoUser /\ codes[n].owner = user.pk THEN [codes EXCEPT ![n] = k] ELSE codes
    BY DEF CountMiss, Writes
<1>2. job = [q \in Requests |-> job[q]] /\ Shape(job[r])
    BY DEF IInv, JobOK
<1>3. job'[r].op = job[r].op /\ job'[r].at = "over" /\ job'[r].saw = job[r].saw
    BY <1>1, <1>2 DEF Ends, Goes, Shape
<1>4. \A q \in Requests \ {r} : job'[q] = job[q]
    BY DEF Moved
<1>5. n \in DOMAIN codes /\ job[r].tries \in Nat /\ codes[n] \in CodeRows /\ InFlight(r)
    BY <1>1 DEF GuessInv, CodesFit, AtCode, InFlight
<1>6. k \in CodeRows /\ k.tries = job[r].tries + 1 /\ k.misses = codes[n].misses
      /\ k.counted = codes[n].counted /\ k.owner = codes[n].owner
    <2>1. PICK t \in Nat : t = job[r].tries + 1
        BY <1>5
    <2>2. PICK w \in CodeRows : w = codes[n]
        BY <1>5
    <2>3. k = [w EXCEPT !.tries = t]
        BY <2>1, <2>2
    <2>4. /\ [w EXCEPT !.tries = t] \in CodeRows /\ [w EXCEPT !.tries = t].tries = t
          /\ [w EXCEPT !.tries = t].misses = w.misses
          /\ [w EXCEPT !.tries = t].counted = w.counted
          /\ [w EXCEPT !.tries = t].owner = w.owner
        BY DEF CodeRows
    <2> HIDE DEF k, n
    <2>5. QED
        BY <2>1, <2>2, <2>3, <2>4
<1>7. Keys'
    BY <1>1, <1>3, <1>4 DEF GuessInv, Keys
<1>8. /\ codes' \in Seq(CodeRows) /\ DOMAIN codes' = DOMAIN codes
      /\ \A c \in DOMAIN codes : c # n => codes'[c] = codes[c]
      /\ codes'[n] = k \/ (codes'[n] = codes[n] /\ ~(user # NoUser /\ codes[n].owner = user.pk))
    <2>1. codes \in Seq(CodeRows)
        BY DEF GuessInv, CodesFit
    <2> HIDE DEF k, n
    <2>2. QED
        BY <1>1, <1>5, <1>6, <2>1
<1> HIDE DEF k
<1>9. CodesFit'
    <2>1. \A c \in DOMAIN codes' : codes'[c].owner = codes[c].owner
        BY <1>6, <1>8
    <2>2. \A q \in Requests : InFlight(q)' => q # r /\ InFlight(q)
        BY <1>3, <1>4 DEF InFlight
    <2>3. \A q \in Requests : job'[q].at \in AtCode \/ job'[q].at = "miss" => q # r
        BY <1>3 DEF AtCode
    <2>4. QED
        BY <1>1, <1>4, <1>8, <2>1, <2>2, <2>3 DEF GuessInv, CodesFit
<1>10. ASSUME NEW c \in DOMAIN codes', codes'[c].counted PROVE Counted(c)'
    <2>1. codes[c].counted /\ Counted(c) /\ c \in DOMAIN codes /\ codes[c] \in CodeRows
        BY <1>6, <1>8, <1>10, CodeKnown DEF GuessInv
    <2>2. \A q \in Requests : Holds(q, c)' => q # r /\ Holds(q, c)
        BY <1>3, <1>4 DEF InFlight, Holds
    <2>3. \A q \in Requests : job'[q].at = "miss" => q # r /\ job[q].at = "miss" /\ job'[q] = job[q]
        BY <1>3, <1>4
    <2>4. CASE c # n
        <3>1. \A q \in Requests : job[q].at = "miss" /\ job[q].code = c =>
                job'[q].at = "miss" /\ job'[q].code = c
            BY <1>4, <2>4 DEF n
        <3>2. QED
            BY <1>8, <2>1, <2>2, <2>3, <2>4, <3>1 DEF Counted
    <2>5. CASE c = n
        <3>1. \A q \in Requests : ~(job'[q].at = "miss" /\ job'[q].code = c)
            BY <1>5, <2>1, <2>3, <2>5 DEF Counted, Holds, InFlight, n
        <3>2. job[r].tries = codes[c].tries
            BY <1>1, <2>1, <2>5 DEF Counted, n
        <3>3. codes[c].misses \in Nat /\ codes[c].tries \in Nat
            BY <2>1 DEF CodeRows
        <3>4. codes[c].owner # 0 => user # NoUser /\ codes[c].owner = user.pk
            BY <2>1 DEF GuessInv, CodesFit
        <3>5. codes[c].owner # 0 => codes[c].misses <= codes[c].tries + 1
            BY <2>1, <3>3 DEF Counted
        <3>6. codes'[c].owner # 0 => codes'[c].misses <= codes'[c].tries
            BY <1>6, <1>8, <2>5, <3>2, <3>4, <3>5
        <3>7. codes'[c].misses = codes[c].misses
            BY <1>6, <1>8, <2>5
        <3>8. QED
            BY <2>1, <2>2, <3>1, <3>6, <3>7 DEF Counted
    <2>6. QED
        BY <2>4, <2>5
<1>11. QED
    BY <1>7, <1>9, <1>10 DEF GuessInv

(* A guess: the code stays counted if nobody else holds it.                *)
LEMMA Guessed ==
    ASSUME IInv, GuessInv, NEW r \in Requests, Moved(r), job[r] = Waiting, user # NoUser,
           NEW o \in {"verify", "check", "reset"}, NEW n \in DOMAIN codes,
           NEW a \in AtCode, Guesses(r, o, n, a), codes[n].owner = user.pk, a = "miss" => codes[n].tries < OTP_MAX_ATTEMPTS
    PROVE  GuessInv'
<1> DEFINE where == IF o = "reset" /\ a # "hit" THEN "over" ELSE a
           alone == \A q \in Requests : InFlight(q) => job[q].code # n
           kept == ~(o = "reset" /\ a = "miss")
           missed == IF a = "miss" THEN codes[n].misses + 1 ELSE codes[n].misses
           k == [[codes[n] EXCEPT !.misses = missed] EXCEPT !.counted = codes[n].counted /\ alone /\ kept]
<1>1. /\ SetJob(r, [op |-> o, at |-> where, saw |-> user, code |-> n, tries |-> codes[n].tries])
      /\ user' = user
    BY DEF Guesses
<1>2. job'[r] = [op |-> o, at |-> where, saw |-> user, code |-> n, tries |-> codes[n].tries]
    BY <1>1 DEF SetJob, IInv
<1>3. /\ job'[r].op = o /\ job'[r].at = where /\ job'[r].saw = user /\ job'[r].code = n
      /\ job'[r].tries = codes[n].tries
    BY <1>2
<1>4. \A q \in Requests \ {r} : job'[q] = job[q]
    BY DEF Moved
<1>5. codes[n] \in CodeRows /\ n # 0 /\ codes \in Seq(CodeRows)
    BY CodeKnown DEF GuessInv, CodesFit
<1>6. codes' = [codes EXCEPT ![n] = k]
    <2>1. codes' = [codes EXCEPT ![n].misses = IF a = "miss" THEN @ + 1 ELSE @,
                                 ![n].counted = @ /\ alone /\ kept]
        BY DEF Guesses
    <2>2. QED
        BY <1>5, <2>1 DEF CodeRows
<1>7. /\ k \in CodeRows /\ k.tries = codes[n].tries /\ k.misses = missed /\ k.owner = codes[n].owner
      /\ k.counted => codes[n].counted /\ alone /\ kept
    <2>1. missed \in Nat
        BY <1>5 DEF CodeRows
    <2> HIDE DEF missed
    <2>2. (codes[n].counted /\ alone /\ kept) \in BOOLEAN
        OBVIOUS
    <2> DEFINE still == codes[n].counted /\ alone /\ kept
    <2>3. still => codes[n].counted /\ alone /\ kept
        OBVIOUS
    <2>4. still \in BOOLEAN
        BY <2>2
    <2> HIDE DEF still, alone, kept
    <2>5. k = [[codes[n] EXCEPT !.misses = missed] EXCEPT !.counted = still]
        BY DEF still
    <2> HIDE DEF k
    <2>6. QED
        BY <1>5, <2>1, <2>3, <2>4, <2>5 DEF CodeRows
<1> HIDE DEF k
<1>8. /\ codes' \in Seq(CodeRows) /\ DOMAIN codes' = DOMAIN codes
      /\ \A c \in DOMAIN codes : c # n => codes'[c] = codes[c]
      /\ codes'[n] = k
    BY <1>5, <1>6, <1>7
<1>9. ~InFlight(r) /\ job[r].at # "miss"
    <2>1. job[r] = Job("", "idle", NoUser)
        BY DEF Waiting
    <2>2. Job("", "idle", NoUser).at = "idle"
        BY DEF Job
    <2>3. QED
        BY <2>1, <2>2 DEF InFlight
<1>10. user.pk # 0 /\ where \in AtCode \cup {"over"}
    <2>1. user.pk # 0
        BY DEF GuessInv, Keys
    <2>2. QED
        BY <2>1
<1>11. Keys'
    BY <1>1, <1>3, <1>4, <1>10 DEF GuessInv, Keys
<1>12. CodesFit'
    <2>1. \A c \in DOMAIN codes' : codes'[c].owner = codes[c].owner
        BY <1>7, <1>8
    <2>2. \A q \in Requests \ {r} : InFlight(q)' <=> InFlight(q)
        BY <1>4 DEF InFlight
    <2>3. codes[n].tries \in Nat
        BY <1>5 DEF CodeRows
    <2>4. \A q \in Requests :
                             /\ InFlight(q)' => job'[q].code \in {0} \cup DOMAIN codes'
                             /\ job'[q].at \in AtCode => job'[q].code # 0
                             /\ job'[q].at = "miss" => job'[q].tries \in Nat
        BY <1>3, <1>4, <1>5, <1>8, <2>2, <2>3 DEF GuessInv, CodesFit
    <2>5. QED
        <3>1. \A c \in DOMAIN codes' : codes'[c].owner # 0 => user' # NoUser /\ codes'[c].owner = user'.pk
            BY <1>1, <1>8, <2>1 DEF GuessInv, CodesFit
        <3>2. QED
            BY <1>8, <2>4, <3>1 DEF CodesFit
<1>13. ASSUME NEW c \in DOMAIN codes', codes'[c].counted PROVE Counted(c)'
    <2>1. codes[c].counted /\ Counted(c) /\ c \in DOMAIN codes
        BY <1>7, <1>8, <1>13 DEF GuessInv
    <2>2. CASE c # n
        <3>1. \A q \in Requests : Holds(q, c)' => Holds(q, c)
            BY <1>3, <1>4, <2>2 DEF Holds, InFlight
        <3>2. \A q \in Requests : (job'[q].at = "miss" /\ job'[q].code = c)
                                 <=> (job[q].at = "miss" /\ job[q].code = c)
            BY <1>3, <1>4, <1>9, <2>2
        <3>3. \A q \in Requests : (job'[q].at = "miss" /\ job'[q].code = c) => job'[q] = job[q]
            BY <1>3, <1>4, <2>2
        <3>4. QED
            BY <1>8, <2>1, <2>2, <3>1, <3>2, <3>3 DEF Counted
    <2>3. CASE c = n
        <3>1. alone /\ kept
            BY <1>7, <1>8, <1>13, <2>3
        <3>2. \A q \in Requests : Holds(q, c)' => q = r
            BY <1>4, <2>3, <3>1 DEF Holds, InFlight
        <3>3. \A q \in Requests : ~(job[q].at = "miss" /\ job[q].code = c)
            BY <2>3, <3>1 DEF InFlight
        <3>4. /\ codes[c].misses <= codes[c].tries /\ codes[c].misses \in Nat /\ codes[c].tries \in Nat
              /\ codes[c].misses <= OTP_MAX_ATTEMPTS /\ OTP_MAX_ATTEMPTS \in Nat
            BY <1>5, <1>10, <2>1, <2>3, <3>3, AccountsAssumption DEF Counted, CodeRows
        <3>5. \A q \in Requests : job'[q].at = "miss" /\ job'[q].code = c => job'[q].tries = codes'[c].tries
            BY <1>3, <1>4, <1>7, <1>8, <2>3, <3>3
        <3>6. CASE a = "miss"
            <4>1. job'[r].at = "miss" /\ job'[r].code = c
                BY <1>3, <2>3, <3>1, <3>6
            <4>2. codes'[c].misses = codes[c].misses + 1 /\ codes'[c].tries = codes[c].tries
                BY <1>7, <1>8, <2>3, <3>6
            <4>3. codes[c].tries < OTP_MAX_ATTEMPTS
                BY <2>3, <3>6
            <4>4. codes'[c].misses <= OTP_MAX_ATTEMPTS /\ codes'[c].misses <= codes'[c].tries + 1
                BY <3>4, <4>2, <4>3
            <4>5. QED
                BY <3>2, <3>5, <4>1, <4>4 DEF Counted
        <3>7. CASE a # "miss"
            <4>1. codes'[c].misses = codes[c].misses /\ codes'[c].tries = codes[c].tries
                BY <1>7, <1>8, <2>3, <3>7
            <4>2. QED
                BY <3>2, <3>4, <3>5, <4>1 DEF Counted
        <3>8. QED
            BY <3>6, <3>7
    <2>4. QED
        BY <2>2, <2>3
<1>14. QED
    BY <1>11, <1>12, <1>13 DEF GuessInv

(* The newest unused code of a user is a code of the user's.               *)
LEMMA NewestIs ==
    ASSUME GuessInv, NEW u, NEW purpose, NewestUnused(u, purpose) # 0
    PROVE  /\ NewestUnused(u, purpose) \in DOMAIN codes
           /\ u # NoUser /\ codes[NewestUnused(u, purpose)].owner = u.pk
<1> DEFINE S == {c \in CodesOf(u, purpose) : ~codes[c].used}
<1>1. S # {} /\ NewestUnused(u, purpose) = CHOOSE c \in S : \A d \in S : d <= c
    BY DEF NewestUnused, Newest
<1>2. \A c \in S : c \in DOMAIN codes /\ u # NoUser /\ codes[c].owner = u.pk
    BY DEF CodesOf
<1>3. Len(codes) \in Nat /\ DOMAIN codes = 1..Len(codes)
    BY DEF GuessInv, CodesFit
<1>4. IsFiniteSet(1..Len(codes))
    BY <1>3, FS_Interval
<1> HIDE DEF S
<1>5. IsFiniteSet(S) /\ \A c \in S : c \in Int
    BY <1>2, <1>3, <1>4, FS_Subset
<1>6. \E c \in S : \A d \in S : c >= d
    BY <1>1, <1>5, GreatestIn
<1>7. \E c \in S : \A d \in S : d <= c
    BY <1>5, <1>6
<1>8. NewestUnused(u, purpose) \in S
    BY <1>1, <1>7
<1>9. QED
    BY <1>2, <1>8

(* A request about the account begins: a guess, or nothing of the kind.    *)
LEMMA GuessBegins ==
    ASSUME IInv, GuessInv, NEW r \in Requests, Moved(r), AccountRequest(r)
    PROVE  GuessInv'
<1>1. job[r] = Waiting /\ job[r].at # "miss"
    <2>1. job[r] = Job("", "idle", NoUser)
        BY DEF AccountRequest, Waiting
    <2>2. Job("", "idle", NoUser).at = "idle"
        BY DEF Job
    <2>3. QED
        BY <2>1, <2>2 DEF AccountRequest
<1>2. ASSUME NEW o \in {"verify", "check", "reset"}, NEW purpose, NEW guess \in {"hit", "miss"},
             user # NoUser, NewestUnused(user, purpose) # 0,
             NEW a \in {"lock", Verdict(NewestUnused(user, purpose), guess)},
             Guesses(r, o, NewestUnused(user, purpose), a)
      PROVE  GuessInv'
    <2>1. PICK n \in DOMAIN codes : n = NewestUnused(user, purpose) /\ codes[n].owner = user.pk
        BY <1>2, NewestIs
    <2>2. OTP_MAX_ATTEMPTS \in Nat /\ codes[n].tries \in Nat
        BY CodeKnown, AccountsAssumption DEF CodeRows
    <2>3. a = "lock" \/ (a = Verdict(n, guess))
        BY <1>2, <2>1
    <2>4. a \in AtCode /\ (a = "miss" => codes[n].tries < OTP_MAX_ATTEMPTS)
        BY <2>2, <2>3 DEF Verdict, AtCode
    <2>5. Guesses(r, o, n, a)
        BY <1>2, <2>1
    <2>6. QED
        BY <1>1, <1>2, <2>1, <2>4, <2>5, Guessed
<1>3. ASSUME NEW o, NEW a \in Places, SetJob(r, Job(o, a, user)), UNCHANGED <<user, codes>>
      PROVE  GuessInv'
    <2>1. Quiet(r)
        BY <1>1, <1>3, QuietMoves
    <2>2. KeyStays /\ (user' # NoUser => user'.pk # 0)
        BY <1>3 DEF KeyStays, GuessInv, Keys
    <2>3. QED
        BY <1>3, <2>1, <2>2, CodesSame, GuessQuiet
<1>4. CASE verify_registration_otp(r)
    <2> DEFINE n == NewestUnused(user, "registration")
    <2>1. PICK guess \in {"hit", "miss"} :
            Guesses(r, "verify", n, IF codes[n].age = "expired" THEN "lock" ELSE Verdict(n, guess))
        BY <1>4 DEF verify_registration_otp
    <2>2. user # NoUser /\ n # 0
        BY <1>4 DEF verify_registration_otp
    <2>3. \E a \in {"lock", Verdict(n, guess)} : Guesses(r, "verify", n, a)
        BY <2>1
    <2>4. QED
        BY <1>2, <2>2, <2>3
<1>5. ASSUME NEW o \in {"check", "reset"}, verify_reset_otp(r, o) PROVE GuessInv'
    <2> DEFINE n == NewestUnused(user, "password_reset")
    <2>1. PICK guess \in {"hit", "miss"} : Guesses(r, o, n, Verdict(n, guess))
        BY <1>5 DEF verify_reset_otp
    <2>2. user # NoUser /\ n # 0
        BY <1>5 DEF verify_reset_otp
    <2>3. QED
        BY <1>2, <2>1, <2>2
<1>6. CASE register_user(r) \/ complete_profile(r) \/ \E o \in SettingsOps : Authenticate(r, o)
    BY <1>3, <1>6 DEF register_user, complete_profile, Authenticate, Places
<1>7. CASE resend_registration_otp(r) \/ request_password_reset(r)
    BY <1>3, <1>7 DEF resend_registration_otp, request_password_reset, LookForCooldown, Places
<1>8. CASE login_user(r) \/ AskToDelete(r)
    BY <1>3, <1>8 DEF login_user, AskToDelete, Places
<1>9. QED
    BY <1>4, <1>5, <1>6, <1>7, <1>8 DEF AccountRequest

(* So does a step of a request about the account.                          *)
LEMMA GuessGoesOn ==
    ASSUME IInv, GuessInv, NEW r \in Requests, Moved(r), AccountStep(r)
    PROVE  GuessInv'
BY MissCounted, AccountQuiet, GuessQuiet

(* Requests about the verification and the card leave the codes alone.     *)
LEMMA OthersQuiet ==
    ASSUME IInv, GuessInv, NEW r \in Requests, Moved(r),
           KycRequest(r) \/ KycStep(r) \/ CardRequest(r) \/ CardStep(r)
    PROVE  GuessInv'
<1>1. UNCHANGED <<user, codes>>
    BY DEF KycRequest, submit_verification, update_address, AskToDecide, KycStep, DojahVerifies,
           DojahFails, SaveAddress, admin_approve, admin_reject, Decide, CardRequest, request_card,
           OnOwnCard, CardStep, CardIssued, CardNotIssued, BitnobAgrees, BitnobRefuses,
           BitnobUnheard, SaveCardStatus, BitnobTells, sync_card_status
<1>2. KeyStays /\ (user' # NoUser => user'.pk # 0)
    BY <1>1 DEF KeyStays, GuessInv, Keys
<1>3. ASSUME NEW o, NEW s, NEW a \in Places, SetJob(r, Job(o, a, s)), job[r].at # "miss",
             o \in UserOps \cup {"register"} => s = user
      PROVE  Quiet(r)
    BY <1>3, QuietMoves
<1>4. ASSUME NEW a \in Places, Goes(r, a), job[r].at \notin {"miss", "idle", "over"}
      PROVE  Quiet(r)
    BY <1>4, QuietMoves DEF InFlight
<1>5. job[r] = Waiting => job[r].at # "miss"
    <2>1. Waiting = Job("", "idle", NoUser)
        BY DEF Waiting
    <2>2. Job("", "idle", NoUser).at = "idle"
        BY DEF Job
    <2>3. QED
        BY <2>1, <2>2
<1>6. CASE KycRequest(r)
    <2>1. \E s : \E o \in {"submit", "address", "approve", "reject"}, a \in Places :
            SetJob(r, Job(o, a, s)) /\ (o = "submit" => s = user)
        BY <1>6 DEF KycRequest, submit_verification, update_address, AskToDecide, Places
    <2>2. PICK s : \E o \in {"submit", "address", "approve", "reject"}, a \in Places :
            SetJob(r, Job(o, a, s)) /\ (o = "submit" => s = user)
        BY <2>1
    <2>3. PICK o \in {"submit", "address", "approve", "reject"}, a \in Places :
            SetJob(r, Job(o, a, s)) /\ (o = "submit" => s = user)
        BY <2>2
    <2>4. Quiet(r)
        BY <1>3, <1>5, <1>6, <2>3 DEF KycRequest, UserOps, SettingsOps
    <2>5. QED
        BY <1>1, <1>2, <2>4, CodesSame, GuessQuiet
<1>7. CASE CardRequest(r)
    <2>1. \E s : \E o \in {"request"} \cup CardOps, a \in Places :
            SetJob(r, Job(o, a, s)) /\ (o = "request" => s = user)
        BY <1>7 DEF CardRequest, request_card, OnOwnCard, Places, CardOps
    <2>2. PICK s : \E o \in {"request"} \cup CardOps, a \in Places :
            SetJob(r, Job(o, a, s)) /\ (o = "request" => s = user)
        BY <2>1
    <2>3. PICK o \in {"request"} \cup CardOps, a \in Places :
            SetJob(r, Job(o, a, s)) /\ (o = "request" => s = user)
        BY <2>2
    <2>4. Quiet(r)
        BY <1>3, <1>5, <1>7, <2>3 DEF CardRequest, UserOps, SettingsOps, CardOps
    <2>5. QED
        BY <1>1, <1>2, <2>4, CodesSame, GuessQuiet
<1>8. CASE KycStep(r)
    <2>1. Quiet(r)
        BY <1>4, <1>8 DEF KycStep, DojahVerifies, DojahFails, SaveAddress, admin_approve,
                          admin_reject, Decide, IsAt, Ends, Places
    <2>2. QED
        BY <1>1, <1>2, <2>1, CodesSame, GuessQuiet
<1>9. CASE CardStep(r)
    <2>1. ASSUME ~BitnobTells(r) PROVE Quiet(r)
        BY <1>4, <1>9, <2>1 DEF CardStep, CardIssued, CardNotIssued, BitnobAgrees, BitnobRefuses,
                          BitnobUnheard, SaveCardStatus, sync_card_status, IsAt, Ends, Places
    <2>2. ASSUME BitnobTells(r) PROVE Quiet(r)
        <3>1. job[r].at # "miss" /\ \E s : SetJob(r, Job("sync", "answered", s))
            BY <2>2 DEF BitnobTells, IsAt
        <3>2. "sync" \notin UserOps \cup {"register"} /\ "answered" \in Places
            BY DEF UserOps, SettingsOps, Places
        <3>3. QED
            BY <1>3, <3>1, <3>2
    <2>3. QED
        BY <1>1, <1>2, <2>1, <2>2, CodesSame, GuessQuiet
<1>10. QED
    BY <1>6, <1>7, <1>8, <1>9

(* A killed request that had not saved its miss: the code is counted no    *)
(* more.                                                                   *)
LEMMA GuessKilled ==
    ASSUME IInv, GuessInv, NEW r \in Requests, Moved(r), Crash(r)
    PROVE  GuessInv'
<1>1. InFlight(r) /\ Goes(r, "over") /\ user' = user
    BY DEF Crash, Ends
<1>2. KeyStays /\ (user' # NoUser => user'.pk # 0)
    BY <1>1 DEF KeyStays, GuessInv, Keys
<1>3. CASE job[r].at # "miss"
    <2>1. codes' = codes
        BY <1>3 DEF Crash
    <2>2. Quiet(r)
        BY <1>1, <1>3, QuietMoves DEF Places
    <2>3. QED
        BY <1>2, <2>1, <2>2, CodesSame, GuessQuiet
<1>4. CASE job[r].at = "miss"
    <2> DEFINE n == job[r].code
    <2>1. codes' = [codes EXCEPT ![n].counted = FALSE] /\ n \in DOMAIN codes
        BY <1>1, <1>4 DEF Crash, GuessInv, CodesFit, AtCode
    <2>2. job = [q \in Requests |-> job[q]] /\ Shape(job[r])
        BY DEF IInv, JobOK
    <2>3. job'[r].op = job[r].op /\ job'[r].at = "over" /\ job'[r].saw = job[r].saw
        BY <1>1, <2>2 DEF Goes, Shape
    <2>4. \A q \in Requests \ {r} : job'[q] = job[q]
        BY DEF Moved
    <2>5. codes[n] \in CodeRows /\ codes \in Seq(CodeRows)
        BY <2>1, CodeKnown DEF GuessInv, CodesFit
    <2> DEFINE k == [codes[n] EXCEPT !.counted = FALSE]
    <2>6. k \in CodeRows /\ ~k.counted /\ k.owner = codes[n].owner /\ codes' = [codes EXCEPT ![n] = k]
        BY <2>1, <2>5 DEF CodeRows
    <2> HIDE DEF k
    <2>12. n \in DOMAIN codes
        BY <2>1
    <2> HIDE DEF n
    <2>7. /\ codes' \in Seq(CodeRows) /\ DOMAIN codes' = DOMAIN codes
          /\ \A c \in DOMAIN codes : c # n => codes'[c] = codes[c]
          /\ codes'[n] = k
        BY <2>5, <2>6, <2>12
    <2>8. Keys'
        BY <1>1, <2>3, <2>4 DEF GuessInv, Keys
    <2>9. CodesFit'
        <3>1. \A c \in DOMAIN codes' : codes'[c].owner = codes[c].owner
            BY <2>6, <2>7
        <3>2. \A q \in Requests : InFlight(q)' => q # r /\ InFlight(q)
            BY <2>3, <2>4 DEF InFlight
        <3>3. \A q \in Requests : job'[q].at \in AtCode \/ job'[q].at = "miss" => q # r
            BY <2>3 DEF AtCode
        <3>4. QED
            BY <1>1, <2>4, <2>7, <3>1, <3>2, <3>3 DEF GuessInv, CodesFit
    <2>10. ASSUME NEW c \in DOMAIN codes', codes'[c].counted PROVE Counted(c)'
        <3>1. c # n /\ c \in DOMAIN codes /\ codes'[c] = codes[c] /\ Counted(c)
            BY <2>6, <2>7, <2>10 DEF GuessInv
        <3>2. \A q \in Requests : Holds(q, c)' => Holds(q, c)
            BY <2>3, <2>4 DEF Holds, InFlight
        <3>3. \A q \in Requests : (job'[q].at = "miss" /\ job'[q].code = c)
                                 <=> (job[q].at = "miss" /\ job[q].code = c)
            BY <2>3, <2>4, <3>1 DEF n
        <3>4. \A q \in Requests : (job'[q].at = "miss" /\ job'[q].code = c) => job'[q] = job[q]
            BY <2>3, <2>4
        <3>5. QED
            BY <3>1, <3>2, <3>3, <3>4 DEF Counted
    <2>11. QED
        BY <2>8, <2>9, <2>10 DEF GuessInv
<1>5. QED
    BY <1>3, <1>4

(* The codes of a deleted account are nobody's.                            *)
LEMMA GuessCascaded ==
    ASSUME IInv, GuessInv, NEW r \in Requests, Moved(r), delete_user(r)
    PROVE  GuessInv'
<1>1. Quiet(r)
    BY QuietMoves DEF delete_user, IsAt, Ends, Places, InFlight
<1>2. CASE UNCHANGED <<user, codes>>
    <2>1. KeyStays /\ (user' # NoUser => user'.pk # 0)
        BY <1>2 DEF KeyStays, GuessInv, Keys
    <2>2. QED
        BY <1>1, <1>2, <2>1, CodesSame, GuessQuiet
<1>3. CASE user' = NoUser /\ codes' = [c \in DOMAIN codes |-> [codes[c] EXCEPT !.owner = 0]]
    <2> DEFINE f == [c \in DOMAIN codes |-> [codes[c] EXCEPT !.owner = 0]]
    <2>1. \A c \in DOMAIN codes :
            f[c] \in CodeRows /\ SameCount(codes[c], f[c]) /\ f[c].owner = 0
        BY CodeKnown, CodeFields
    <2>2. codes' = [c \in DOMAIN codes |-> f[c]]
        BY <1>3
    <2> HIDE DEF f
    <2>3. codes' \in Seq(CodeRows) /\ DOMAIN codes' = DOMAIN codes
        BY <2>1, <2>2, CodesFrom
    <2>4. \A c \in DOMAIN codes : SameCount(codes[c], codes'[c]) /\ codes'[c].owner = 0
        BY <2>1, <2>2
    <2>5. CodesGo
        BY <2>3, <2>4 DEF CodesGo
    <2>6. QED
        BY <1>1, <1>3, <2>5, GuessQuiet
<1>4. QED
    BY <1>2, <1>3 DEF delete_user

(* Nobody moves, and codes change in nothing that counts. *)
LEMMA GuessUnmoved ==
    ASSUME IInv, GuessInv, job' = job, user' = user, CodesGo, DOMAIN codes' = DOMAIN codes
    PROVE  GuessInv'
<1>1. Keys'
    BY DEF GuessInv, Keys
<1>2. CodesFit'
    <2>1. \A c \in DOMAIN codes' : codes'[c].owner # 0 => user' # NoUser /\ codes'[c].owner = user'.pk
        BY DEF CodesGo, GuessInv, CodesFit
    <2>2. QED
        BY <2>1 DEF CodesGo, GuessInv, CodesFit, InFlight
<1>3. ASSUME NEW c \in DOMAIN codes', codes'[c].counted PROVE Counted(c)'
    <2>1. Counted(c) /\ SameCount(codes[c], codes'[c])
        BY <1>3 DEF CodesGo, SameCount, GuessInv
    <2>2. codes'[c].owner # 0 => codes[c].owner # 0
        BY DEF CodesGo
    <2>3. \A q \in Requests : Holds(q, c)' <=> Holds(q, c)
        BY DEF Holds, InFlight
    <2>4. QED
        BY <2>1, <2>2, <2>3 DEF Counted, SameCount
<1>4. QED
    BY <1>1, <1>2, <1>3 DEF GuessInv

(* A code that grows old keeps its counts.                                 *)
LEMMA GuessAges ==
    ASSUME IInv, GuessInv, NEW n \in DOMAIN codes, CodeAges(n)
    PROVE  GuessInv'
<1>1. job' = job /\ user' = user /\ KeyStays
    BY DEF CodeAges, KeyStays
<1>2. PICK a \in {"old", "expired"} : a = (IF codes[n].age = "new" THEN "old" ELSE "expired")
    OBVIOUS
<1>3. codes' = [codes EXCEPT ![n] = [codes[n] EXCEPT !.age = a]]
    BY <1>2 DEF CodeAges
<1> DEFINE f == [c \in DOMAIN codes |-> IF c = n THEN [codes[n] EXCEPT !.age = a] ELSE codes[c]]
<1>4. codes' = [c \in DOMAIN codes |-> f[c]]
    BY <1>3
<1>5. \A c \in DOMAIN codes : /\ f[c] \in CodeRows /\ SameCount(codes[c], f[c])
                               /\ f[c].owner \in {0, codes[c].owner}
    BY CodeKnown, CodeFields
<1> HIDE DEF f
<1>6. CodesGo
    BY <1>1, <1>4, <1>5, CodesChange
<1>7. DOMAIN codes' = DOMAIN codes
    BY <1>4
<1>8. QED
    BY <1>1, <1>6, <1>7, GuessUnmoved

(* The counts depend on the user, the codes and the requests only.         *)
LEMMA GuessSame ==
    ASSUME IInv, GuessInv, UNCHANGED <<user, codes, job>>
    PROVE  GuessInv'
<1>1. KeyStays
    BY DEF KeyStays
<1>2. QED
    BY <1>1, CodesSame, GuessUnmoved

(* The counts are right at the start.                                      *)
LEMMA InitGuessInv == Init => GuessInv
<1> SUFFICES ASSUME Init PROVE GuessInv
    OBVIOUS
<1>1. \A r \in Requests : job[r].op = "" /\ job[r].at = "idle"
    BY DEF Init, AccountInit, Waiting, Job
<1>2. {Unset, Before} \subseteq Secrets
    BY DEF Secrets
<1>3. user # NoUser => user.pk = 1
    BY DEF Init, AccountInit, OldRow, Row
<1>4. codes = <<>> \/ (user # NoUser /\ user \in Rows /\ codes = <<NewCode(user, "registration")>>)
    <2>1. ASSUME user = OldRow(FALSE, FALSE, Unset), codes = <<NewCode(user, "registration")>>
          PROVE  user # NoUser /\ user \in Rows
        <3>1. Row(1, FALSE, FALSE, Unset, Unset) \in Rows
            BY <1>2 DEF Row, Rows
        <3>2. OldRow(FALSE, FALSE, Unset) = Row(1, FALSE, FALSE, Unset, Unset)
            BY DEF OldRow
        <3>3. QED
            BY <2>1, <3>1, <3>2, NoUserAssumption
    <2>2. QED
        BY <2>1 DEF Init, AccountInit
<1>5. Keys
    <2>1. \A r \in Requests : job[r].op \notin UserOps \cup {"register"}
        BY <1>1 DEF UserOps, SettingsOps
    <2>2. QED
        BY <1>3, <2>1 DEF Keys
<1>6. \A r \in Requests : ~InFlight(r) /\ job[r].at \notin AtCode
    BY <1>1 DEF InFlight, AtCode
<1>7. CASE codes = <<>>
    BY <1>5, <1>6, <1>7 DEF GuessInv, CodesFit, AtCode
<1>8. CASE user # NoUser /\ user \in Rows /\ codes = <<NewCode(user, "registration")>>
    <2> DEFINE k == NewCode(user, "registration")
    <2>1. k \in CodeRows /\ k.misses = 0 /\ k.owner = user.pk
        BY <1>8, NewCodeFacts
    <2> HIDE DEF k
    <2>2. /\ codes \in Seq(CodeRows) /\ DOMAIN codes = {1} /\ codes[1] = k
        BY <1>8, <2>1 DEF k
    <2>3. CodesFit
        BY <1>6, <1>8, <2>1, <2>2 DEF CodesFit, AtCode
    <2>4. Counted(1)
        <3>1. codes[1].misses = 0 /\ codes[1].tries \in Nat /\ OTP_MAX_ATTEMPTS \in Nat
            BY <2>1, <2>2, AccountsAssumption DEF CodeRows
        <3>2. \A r \in Requests : ~Holds(r, 1) /\ job[r].at # "miss"
            BY <1>6 DEF Holds, AtCode
        <3>3. QED
            BY <3>1, <3>2 DEF Counted
    <2>5. QED
        BY <1>5, <2>2, <2>3, <2>4 DEF GuessInv
<1>9. QED
    BY <1>4, <1>7, <1>8

(* Every step keeps the counts right.                                      *)
LEMMA GuessNext ==
    ASSUME IInv, GuessInv, [Next]_vars
    PROVE  GuessInv'
<1>1. ASSUME NEW r \in Requests, AccountRequest(r) \/ AccountStep(r)
      PROVE  GuessInv'
    BY <1>1, AccountBegins, AccountGoesOn, GuessBegins, GuessGoesOn DEF AccountGood
<1>2. ASSUME NEW r \in Requests, KycRequest(r) \/ KycStep(r), UNCHANGED cardVars
      PROVE  GuessInv'
    <2>1. Moved(r)
        BY <1>2, KycBegins, KycGoesOn
    <2>2. QED
        BY <1>2, <2>1, OthersQuiet
<1>3. ASSUME NEW r \in Requests, CardRequest(r) \/ CardStep(r)
      PROVE  GuessInv'
    BY <1>3, CardBegins, CardGoesOn, OthersQuiet DEF CardGood
<1>4. ASSUME NEW r \in Requests, Cascade(r) \/ Killed(r)
      PROVE  GuessInv'
    <2>1. Moved(r)
        BY <1>4, Hypotheses, Over DEF Cascade, delete_user, Killed, Crash
    <2>2. QED
        BY <1>4, <2>1, GuessCascaded, GuessKilled DEF Cascade, Killed
<1>5. ASSUME NEW c \in DOMAIN codes, CodeAges(c)
      PROVE  GuessInv'
    BY <1>5, GuessAges
<1>6. CASE UNCHANGED vars \/ BitnobProvisions
    BY <1>6, GuessSame DEF vars, BitnobProvisions
<1>7. QED
    BY <1>1, <1>2, <1>3, <1>4, <1>5, <1>6 DEF Next

(* Nobody compares a code with more than OTP_MAX_ATTEMPTS wrong guesses,   *)
(* where one request at a time held it and none lost a miss.               *)
THEOREM MissesStayBounded == Spec => []MissesAreBounded
<1>1. GuessInv => MissesAreBounded
    BY DEF GuessInv, Counted, MissesAreBounded
<1>2. Init => GuessInv
    BY InitGuessInv
<1>3. IInv /\ GuessInv /\ [Next]_vars => GuessInv'
    BY GuessNext
<1>4. QED
    BY InductiveInvariant, <1>1, <1>2, <1>3, PTL DEF Spec
=============================================================================
