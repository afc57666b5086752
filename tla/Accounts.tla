------------------------------ MODULE Accounts ------------------------------
(***************************************************************************)
(* Registration, login and account settings (accounts/services.py and the  *)
(* profile view) of one e-mail address.  A request reads the User row into *)
(* a copy and later saves either some fields of it or the whole copy; the  *)
(* row is never locked.  A password, a PIN or a one-time code is the       *)
(* request that made it; a phone number and a name are left out.           *)
(***************************************************************************)
EXTENDS Integers, Sequences, FiniteSets

CONSTANTS
    Requests,         \* HTTP requests, each made once; they bound a behaviour
    NoUser,           \* no User row
    Unset,            \* unusable password, empty PIN
    Before,           \* a password or PIN set before the behaviour begins
    OTP_MAX_ATTEMPTS,
    MaxCrashes        \* bound: killed processes

ASSUME AccountsAssumption ==
    /\ OTP_MAX_ATTEMPTS \in Nat \ {0}
    /\ MaxCrashes \in Nat
    /\ {Unset, Before} \cap Requests = {}
    /\ Unset # Before

VARIABLES
    user,    \* the User row of the address
    pks,     \* primary keys given out so far
    codes,   \* VerificationOTP rows, oldest first
    tokens,  \* primary keys JWTs were issued for
    job,     \* what each request is doing, and what it has read
    crashes  \* processes killed so far

accountVars == <<user, pks, codes, tokens, job, crashes>>

Secrets == Requests \cup {Unset, Before}

Row(pk, verified, complete, password, pin) ==
    [pk |-> pk, verified |-> verified, complete |-> complete,
     password |-> password, pin |-> pin]

UserFields == {"verified", "complete", "password", "pin"}

Rows == [pk : Nat, verified : BOOLEAN, complete : BOOLEAN, password : Secrets, pin : Secrets]

ASSUME NoUserAssumption == NoUser \notin Rows

Job(op, at, saw) == [op |-> op, at |-> at, saw |-> saw, code |-> 0, tries |-> 0]
Waiting == Job("", "idle", NoUser)

SetJob(r, j) == job' = [job EXCEPT ![r] = j]
Goes(r, at) == job' = [job EXCEPT ![r].at = at]
Ends(r) == Goes(r, "over")
IsAt(r, op, at) == job[r].op = op /\ job[r].at = at
InFlight(r) == job[r].at \notin {"idle", "over"}

-----------------------------------------------------------------------------
(* user.save(update_fields=...), or save() of the whole copy.  A row that  *)
(* is gone is inserted again by save() and an error with update_fields; a  *)
(* new account's row with the same e-mail refuses the old one.             *)
save(row, update_fields) ==
    user' = IF user = NoUser THEN IF update_fields = UserFields THEN row ELSE NoUser
            ELSE IF user.pk # row.pk THEN user
            ELSE [f \in DOMAIN user |-> IF f \in update_fields THEN row[f] ELSE user[f]]

(* Codes of a user for a purpose; the newest of them, 0 if there is none.  *)
CodesOf(u, purpose) ==
    {c \in DOMAIN codes : u # NoUser /\ codes[c].owner = u.pk /\ codes[c].purpose = purpose}

Newest(S) == IF S = {} THEN 0 ELSE CHOOSE c \in S : \A d \in S : d <= c

NewestUnused(u, purpose) == Newest({c \in CodesOf(u, purpose) : ~codes[c].used})

(* The newest code is unused and younger than OTP_RESEND_COOLDOWN_SECONDS. *)
CoolingDown(u, purpose) ==
    LET c == Newest(CodesOf(u, purpose)) IN c # 0 /\ ~codes[c].used /\ codes[c].age = "new"

NewCode(u, purpose) ==
    [owner |-> u.pk, purpose |-> purpose, used |-> FALSE, tries |-> 0, age |-> "new",
     misses |-> 0, counted |-> TRUE]

_invalidate_active_otps(u, purpose) ==
    [c \in DOMAIN codes |-> IF c \in CodesOf(u, purpose) THEN [codes[c] EXCEPT !.used = TRUE]
                            ELSE codes[c]]

(* create_and_send_otp outside a transaction: the cooldown is looked up,   *)
(* then older codes are invalidated, then the new one is created; the      *)
(* e-mail may fail after that without a change.                            *)
LookForCooldown(r, op, purpose) ==
    /\ ~CoolingDown(user, purpose)
    /\ SetJob(r, Job(op, "invalidate", user))
    /\ UNCHANGED <<user, pks, codes, tokens, crashes>>

PurposeOf(op) == IF op \in {"forgot", "check", "reset"} THEN "password_reset" ELSE "registration"

InvalidateCodes(r) ==
    /\ job[r].at = "invalidate"
    /\ codes' = _invalidate_active_otps(job[r].saw, PurposeOf(job[r].op))
    /\ Goes(r, "create")
    /\ UNCHANGED <<user, pks, tokens, crashes>>

CreateCode(r) ==
    /\ job[r].at = "create"
    /\ codes' = IF user # NoUser /\ user.pk = job[r].saw.pk
                THEN Append(codes, NewCode(user, PurposeOf(job[r].op))) ELSE codes
    /\ Ends(r)
    /\ UNCHANGED <<user, pks, tokens, crashes>>

resend_registration_otp(r) ==
    /\ user # NoUser /\ ~user.verified
    /\ LookForCooldown(r, "resend", "registration")

request_password_reset(r) ==
    /\ user # NoUser /\ user.complete
    /\ LookForCooldown(r, "forgot", "password_reset")

-----------------------------------------------------------------------------
(* register_user: refused for a complete account. *)
register_user(r) ==
    /\ user # NoUser => ~user.complete
    /\ SetJob(r, Job("register", "save", user))
    /\ UNCHANGED <<user, pks, codes, tokens, crashes>>

(* Its transaction: a new row, or the copy reset and saved whole, and a    *)
(* code; a cooldown, a taken e-mail or a failing mail server undoes all.   *)
RegisterCommit(r) ==
    LET saw == job[r].saw
        fresh == Row(IF saw = NoUser THEN pks + 1 ELSE saw.pk, FALSE, FALSE, Unset, Unset)
    IN
    /\ IsAt(r, "register", "save")
    /\ Ends(r)
    /\ \/ /\ saw = NoUser => user = NoUser
          /\ ~CoolingDown(saw, "registration")
          /\ save(fresh, UserFields)
          /\ user' = fresh
          /\ pks' = IF saw = NoUser THEN pks + 1 ELSE pks
          /\ codes' = Append(_invalidate_active_otps(saw, "registration"),
                             NewCode(fresh, "registration"))
       \/ UNCHANGED <<user, pks, codes>>
    /\ UNCHANGED <<tokens, crashes>>

-----------------------------------------------------------------------------
(* A lock that comes one attempt late. *)
MutLateVerdict(c, guess) ==
    IF codes[c].tries > OTP_MAX_ATTEMPTS THEN "lock" ELSE guess

(* A code is guessed: what the request does next follows from the row it   *)
(* read.  Of a reset nothing stays unless the code is right: the error     *)
(* rolls back the attempt, and the lock, it has just saved.                *)
Verdict(c, guess) ==
    IF codes[c].tries >= OTP_MAX_ATTEMPTS THEN "lock" ELSE guess

(* History: misses are wrong guesses compared with the code; counted, that *)
(* no two requests held it at a time and nothing kept a miss from being    *)
(* saved.                                                                  *)
Guesses(r, op, c, at) ==
    LET alone == \A q \in Requests : InFlight(q) => job[q].code # c
        kept == ~(op = "reset" /\ at = "miss")
    IN
    /\ SetJob(r, [op |-> op, at |-> IF op = "reset" /\ at # "hit" THEN "over" ELSE at,
                  saw |-> user, code |-> c, tries |-> codes[c].tries])
    /\ codes' = [codes EXCEPT ![c].misses = IF at = "miss" THEN @ + 1 ELSE @,
                              ![c].counted = @ /\ alone /\ kept]
    /\ UNCHANGED <<user, pks, tokens, crashes>>

verify_registration_otp(r) ==
    LET c == NewestUnused(user, "registration") IN
    /\ user # NoUser /\ ~user.verified
    /\ c # 0
    /\ \E guess \in {"hit", "miss"} :
         Guesses(r, "verify", c, IF codes[c].age = "expired" THEN "lock" ELSE Verdict(c, guess))

verify_reset_otp(r, op) ==
    LET c == NewestUnused(user, "password_reset") IN
    /\ user # NoUser
    /\ c # 0 /\ codes[c].age # "expired"
    /\ \E guess \in {"hit", "miss"} :
         /\ op = "check" => Verdict(c, guess) # "hit"
         /\ Guesses(r, op, c, Verdict(c, guess))

(* save(update_fields) of the code that was read; its row may be gone. *)
Writes(r, update) ==
    codes' = IF user # NoUser /\ codes[job[r].code].owner = user.pk
             THEN [codes EXCEPT ![job[r].code] = update] ELSE codes

LockCode(r) ==
    /\ job[r].at = "lock"
    /\ Writes(r, [codes[job[r].code] EXCEPT !.used = TRUE])
    /\ Ends(r)
    /\ UNCHANGED <<user, pks, tokens, crashes>>

CountMiss(r) ==
    /\ job[r].at = "miss"
    /\ Writes(r, [codes[job[r].code] EXCEPT !.tries = job[r].tries + 1])
    /\ Ends(r)
    /\ UNCHANGED <<user, pks, tokens, crashes>>

UseCode(r) ==
    /\ IsAt(r, "verify", "hit")
    /\ Writes(r, [codes[job[r].code] EXCEPT !.used = TRUE])
    /\ Goes(r, "verified")
    /\ UNCHANGED <<user, pks, tokens, crashes>>

SaveVerified(r) ==
    /\ IsAt(r, "verify", "verified")
    /\ save([job[r].saw EXCEPT !.verified = TRUE], {"verified"})
    /\ Ends(r)
    /\ UNCHANGED <<pks, codes, tokens, crashes>>

(* reset_password after the check: the newest unused code, looked up once  *)
(* more, is used if there is one, and the password is set.                 *)
reset_password(r) ==
    LET c == NewestUnused(job[r].saw, "password_reset") IN
    /\ IsAt(r, "reset", "hit")
    /\ save([job[r].saw EXCEPT !.password = r], {"password"})
    /\ codes' = IF c # 0 /\ user # NoUser /\ user.pk = job[r].saw.pk
                THEN [codes EXCEPT ![c].used = TRUE] ELSE codes
    /\ Ends(r)
    /\ UNCHANGED <<pks, tokens, crashes>>

-----------------------------------------------------------------------------
(* complete_profile: checked on the copy, the copy saved whole, and JWTs.  *)
complete_profile(r) ==
    /\ user # NoUser /\ user.verified
    /\ SetJob(r, Job("complete", "save", user))
    /\ UNCHANGED <<user, pks, codes, tokens, crashes>>

CompleteCommit(r) ==
    /\ IsAt(r, "complete", "save")
    /\ save([job[r].saw EXCEPT !.complete = TRUE, !.password = r], UserFields)
    /\ tokens' = IF user' # NoUser /\ user'.password = r THEN tokens \cup {user'.pk} ELSE tokens
    /\ Ends(r)
    /\ UNCHANGED <<pks, codes, crashes>>

CanLogin(u) == u # NoUser /\ u.verified /\ u.complete /\ u.password # Unset

login_user(r) ==
    /\ CanLogin(user)
    /\ tokens' = tokens \cup {user.pk}
    /\ SetJob(r, Job("login", "over", user))
    /\ UNCHANGED <<user, pks, codes, crashes>>

(* A request with a JWT: request.user is the row as it is now.             *)
Authenticated == user # NoUser /\ user.pk \in tokens

(* The operations of a signed-in user, with the condition each checks on   *)
(* the copy (the client knows the current password and PIN) and the fields *)
(* it is for; a profile update, for the name, phone and picture only.      *)
SettingsOps == {"set_pin", "change_pin", "change_password", "profile"}

Allowed(op, u) ==
    CASE op = "set_pin" -> u.verified /\ u.complete
      [] op = "change_pin" -> u.pin # Unset
      [] op = "change_password" -> u.password # Unset
      [] op = "profile" -> TRUE

Purpose(op) ==
    CASE op = "register" -> UserFields
      [] op = "verify" -> {"verified"}
      [] op = "complete" -> {"complete", "password"}
      [] op \in {"set_pin", "change_pin"} -> {"pin"}
      [] op \in {"change_password", "reset"} -> {"password"}
      [] OTHER -> {}

(* Whole rows are saved by registration and by the profile serializer.     *)
WholeRow == {"register", "complete", "profile"}

(* A password change that saves the whole copy. *)
MutUpdateFields(op) == IF op \in WholeRow \cup {"change_password"} THEN UserFields ELSE Purpose(op)

UpdateFields(op) == IF op \in WholeRow THEN UserFields ELSE Purpose(op)

Authenticate(r, op) ==
    /\ op \in SettingsOps
    /\ Authenticated
    /\ Allowed(op, user)
    /\ SetJob(r, Job(op, "save", user))
    /\ UNCHANGED <<user, pks, codes, tokens, crashes>>

SaveSettings(r) ==
    LET op == job[r].op IN
    /\ op \in SettingsOps /\ job[r].at = "save"
    /\ save([f \in DOMAIN job[r].saw |-> IF f \in Purpose(op) THEN r ELSE job[r].saw[f]],
            UpdateFields(op))
    /\ Ends(r)
    /\ UNCHANGED <<pks, codes, tokens, crashes>>

(* delete_user, by the owner, whose password is checked on the copy, or by *)
(* an admin who found the row.                                             *)
AskToDelete(r) ==
    /\ user # NoUser
    /\ SetJob(r, Job("delete", "delete", user))
    /\ UNCHANGED <<user, pks, codes, tokens, crashes>>

delete_user(r) ==
    /\ IsAt(r, "delete", "delete")
    /\ IF user # NoUser /\ user.pk = job[r].saw.pk
       THEN /\ user' = NoUser
            /\ codes' = [c \in DOMAIN codes |-> [codes[c] EXCEPT !.owner = 0]]
       ELSE UNCHANGED <<user, codes>>
    /\ Ends(r)
    /\ UNCHANGED <<pks, tokens, crashes>>

(* A killed process takes its request with it; a miss it had not saved is  *)
(* not counted.                                                            *)
Crash(r) ==
    /\ InFlight(r)
    /\ crashes < MaxCrashes
    /\ crashes' = crashes + 1
    /\ codes' = IF job[r].at = "miss" THEN [codes EXCEPT ![job[r].code].counted = FALSE] ELSE codes
    /\ Ends(r)
    /\ UNCHANGED <<user, pks, tokens>>

(* Time passes: a minute, then ten. *)
CodeAges(c) ==
    /\ codes[c].age # "expired" /\ ~codes[c].used
    /\ codes' = [codes EXCEPT ![c].age = IF @ = "new" THEN "old" ELSE "expired"]
    /\ UNCHANGED <<user, pks, tokens, job, crashes>>

-----------------------------------------------------------------------------
AccountRequest(r) ==
    /\ job[r] = Waiting
    /\ \/ register_user(r) \/ verify_registration_otp(r) \/ resend_registration_otp(r)
       \/ complete_profile(r) \/ login_user(r) \/ request_password_reset(r)
       \/ verify_reset_otp(r, "check") \/ verify_reset_otp(r, "reset")
       \/ AskToDelete(r)
       \/ \E op \in SettingsOps : Authenticate(r, op)

AccountStep(r) ==
    \/ InvalidateCodes(r) \/ CreateCode(r)
    \/ RegisterCommit(r) \/ CompleteCommit(r)
    \/ LockCode(r) \/ CountMiss(r) \/ UseCode(r) \/ SaveVerified(r)
    \/ reset_password(r) \/ SaveSettings(r)

(* An account the behaviour may begin with: none, one at each step of its  *)
(* registration, or a complete one with or without a PIN.                  *)
OldRow(v, c, pin) == Row(1, v, c, IF c THEN Before ELSE Unset, pin)

AccountInit ==
    /\ \/ user = NoUser /\ pks = 0 /\ codes = <<>>
       \/ /\ pks = 1
          /\ \/ user = OldRow(FALSE, FALSE, Unset)
                /\ codes = <<NewCode(user, "registration")>>
             \/ user = OldRow(TRUE, FALSE, Unset) /\ codes = <<>>
             \/ \E pin \in {Unset, Before} : user = OldRow(TRUE, TRUE, pin) /\ codes = <<>>
    /\ tokens = IF CanLogin(user) THEN {1} ELSE {}
    /\ job = [r \in Requests |-> Waiting]
    /\ crashes = 0
=============================================================================
