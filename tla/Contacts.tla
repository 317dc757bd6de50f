------------------------------- MODULE Contacts ------------------------------
(***************************************************************************)
(* The email addresses and phone numbers of accounts.  A request reads the *)
(* rows, then talks to the mail service or to Twilio, then writes the      *)
(* rows, and requests overlap.  An email is proven by the token that was   *)
(* mailed with a signature of the account, a phone by the code that Twilio *)
(* sent to it.                                                             *)
(***************************************************************************)
EXTENDS Naturals, FiniteSets

CONSTANTS
  Wallets,       \* accounts
  Mails,         \* email addresses
  Phones,        \* phone numbers
  Voip,          \* the numbers that are not of a mobile phone or a landline
  ContactAsks,   \* requests
  MaxAttempts    \* PhoneConfig.max_attempts

ASSUME AttemptsAssumption == MaxAttempts \in Nat \ {0}

VARIABLES
  emails,     \* rows of emails: address is unique, so at most one per account
  phones,     \* rows of phones: unique on (address, phone)
  mailed,     \* mails that were sent: account, email and token
  texted,     \* [phone]: the verification that Twilio has open, 0 if none
  issued,     \* number of tokens and codes issued so far
  contact,    \* [r]: a request
  shown,      \* tokens that came back with a good signature of the account
  approved,   \* pairs of an account and a phone whose code Twilio approved
  raced       \* two verifyPhone requests have overlapped

contactVars == <<emails, phones, mailed, texted, issued, contact, shown, approved, raced>>

NoRow == [stored |-> FALSE]

ContactInit ==
  /\ emails = [w \in Wallets |-> NoRow]
  /\ phones = [k \in Wallets \X Phones |-> NoRow]
  /\ mailed = {} /\ texted = [p \in Phones |-> 0] /\ issued = 0
  /\ contact = [r \in ContactAsks |-> [phase |-> "new"]]
  /\ shown = {} /\ approved = {} /\ raced = FALSE

Over(r) == contact' = [contact EXCEPT ![r] = [phase |-> "done"]]
Now(r, phase) == contact' = [contact EXCEPT ![r].phase = phase]
Begin(r, phase, w, c, code) ==
  contact' = [contact EXCEPT ![r] = [phase |-> phase, wallet |-> w, with |-> c, code |-> code]]

-----------------------------------------------------------------------------
VerifiedEmailExists(e) == \E w \in Wallets : emails[w].stored /\ emails[w].email = e /\ emails[w].verified

SetEmail(r, w, e) ==
  /\ contact[r].phase = "new"
  /\ IF VerifiedEmailExists(e) THEN Over(r) ELSE Begin(r, "mail", w, e, 0)
  /\ UNCHANGED <<emails, phones, mailed, texted, issued, shown, approved, raced>>

SendMail(r) ==
  /\ contact[r].phase = "mail"
  /\ \/ /\ issued' = issued + 1
        /\ mailed' = mailed \cup {[wallet |-> contact[r].wallet, email |-> contact[r].with, token |-> issued']}
        /\ contact' = [contact EXCEPT ![r].phase = "store_email", ![r].code = issued']
     \/ Over(r) /\ UNCHANGED <<mailed, issued>>      \* the mail service failed
  /\ UNCHANGED <<emails, phones, texted, shown, approved, raced>>

\* The insert fails when the account has a row of another email.
AddUnverifiedEmail(r) ==
  /\ contact[r].phase = "store_email" /\ Over(r)
  /\ LET w == contact[r].wallet
         e == contact[r].with
     IN  emails' = [emails EXCEPT ![w] =
           CASE ~@.stored -> [stored |-> TRUE, email |-> e, token |-> contact[r].code, verified |-> FALSE]
             [] @.stored /\ @.email = e -> [@ EXCEPT !.token = contact[r].code]
             [] OTHER -> @]
  /\ UNCHANGED <<phones, mailed, texted, issued, shown, approved, raced>>

\* verify_email of the RPC: the account signed the email and the token.
VerifyEmail(r, w, e, token, signed) ==
  /\ contact[r].phase = "new"
  /\ IF signed
     THEN Begin(r, "update_email", w, e, token) /\ shown' = shown \cup {[wallet |-> w, email |-> e, token |-> token]}
     ELSE Over(r) /\ UNCHANGED shown
  /\ UNCHANGED <<emails, phones, mailed, texted, issued, approved, raced>>

\* Mutant of EmailMatches: the token is not compared.
EmailMatchesAny(row, e, token) == row.stored /\ row.email = e
EmailMatches(row, e, token) == row.stored /\ row.email = e /\ row.token = token

\* verify_email of the storage; other rows with that email stay as they are.
UpdateEmail(r) ==
  /\ contact[r].phase = "update_email" /\ Over(r)
  /\ LET w == contact[r].wallet
     IN  emails' = IF EmailMatches(emails[w], contact[r].with, contact[r].code)
                   THEN [emails EXCEPT ![w].verified = TRUE] ELSE emails
  /\ UNCHANGED <<phones, mailed, texted, issued, shown, approved, raced>>

-----------------------------------------------------------------------------
\* set_phone refuses a number verified for that account in the last sixty days.
SetPhone(r, w, p) ==
  /\ contact[r].phase = "new"
  /\ IF phones[<<w, p>>].stored /\ phones[<<w, p>>].verified = "recent" THEN Over(r) ELSE Begin(r, "line_type", w, p, 0)
  /\ UNCHANGED <<emails, phones, mailed, texted, issued, shown, approved, raced>>

\* The lookup says the line type, or nothing, which allows the number.
IsPhoneAllowed(r) ==
  /\ contact[r].phase = "line_type"
  /\ \/ contact[r].with \in Voip /\ Over(r)
     \/ Now(r, "text_new")
  /\ UNCHANGED <<emails, phones, mailed, texted, issued, shown, approved, raced>>

\* resend_verify_phone refuses a number that was ever verified.
ResendVerifyPhone(r, w, p) ==
  /\ contact[r].phase = "new"
  /\ IF phones[<<w, p>>].stored /\ phones[<<w, p>>].verified # "no" THEN Over(r) ELSE Begin(r, "text_again", w, p, 0)
  /\ UNCHANGED <<emails, phones, mailed, texted, issued, shown, approved, raced>>

StartVerification(r) ==
  /\ contact[r].phase \in {"text_new", "text_again"}
  /\ \/ /\ issued' = issued + 1
        /\ texted' = [texted EXCEPT ![contact[r].with] = issued']
        /\ contact' = [contact EXCEPT ![r].code = issued',
                         ![r].phase = IF @ = "text_new" THEN "store_phone" ELSE "store_sid"]
     \/ Over(r) /\ UNCHANGED <<texted, issued>>      \* Twilio failed
  /\ UNCHANGED <<emails, phones, mailed, shown, approved, raced>>

\* The row starts anew, whatever it had become since set_phone read it.
AddUnverifiedPhone(r) ==
  /\ contact[r].phase = "store_phone" /\ Over(r)
  /\ phones' = [phones EXCEPT ![<<contact[r].wallet, contact[r].with>>] =
                  [stored |-> TRUE, sid |-> contact[r].code, attempts |-> 0, verified |-> "no"]]
  /\ UNCHANGED <<emails, mailed, texted, issued, shown, approved, raced>>

UpdatePhoneVerificationSid(r) ==
  /\ contact[r].phase = "store_sid" /\ Over(r)
  /\ LET k == <<contact[r].wallet, contact[r].with>>
     IN  phones' = IF phones[k].stored THEN [phones EXCEPT ![k].sid = contact[r].code] ELSE phones
  /\ UNCHANGED <<emails, mailed, texted, issued, shown, approved, raced>>

\* verify_phone reads the attempts; a missing row counts as none.
VerifyPhone(r, w, p, code) ==
  /\ contact[r].phase = "new"
  /\ IF phones[<<w, p>>].stored /\ phones[<<w, p>>].attempts >= MaxAttempts THEN Over(r) ELSE Begin(r, "check", w, p, code)
  /\ raced' = (raced \/ \E s \in ContactAsks : contact[s].phase \in {"check", "wrong", "right"})
  /\ UNCHANGED <<emails, phones, mailed, texted, issued, shown, approved>>

\* Twilio knows only the phone: it approves the open verification's code, once, and
\* answers a check without one with an error.
CheckVerification(r) ==
  /\ contact[r].phase = "check"
  /\ LET p == contact[r].with
     IN  \/ /\ texted[p] # 0 /\ texted[p] = contact[r].code
            /\ texted' = [texted EXCEPT ![p] = 0]
            /\ approved' = approved \cup {<<contact[r].wallet, p>>}
            /\ Now(r, "right")
         \/ texted[p] # 0 /\ texted[p] # contact[r].code /\ Now(r, "wrong") /\ UNCHANGED <<texted, approved>>
         \/ Over(r) /\ UNCHANGED <<texted, approved>>
  /\ UNCHANGED <<emails, phones, mailed, issued, shown, raced>>

IncrementPhoneVerificationAttempts(r) ==
  /\ contact[r].phase = "wrong" /\ Over(r)
  /\ LET k == <<contact[r].wallet, contact[r].with>>
     IN  phones' = IF phones[k].stored THEN [phones EXCEPT ![k].attempts = @ + 1] ELSE phones
  /\ UNCHANGED <<emails, mailed, texted, issued, shown, approved, raced>>

MarkPhoneVerified(r) ==
  /\ contact[r].phase = "right" /\ Over(r)
  /\ LET k == <<contact[r].wallet, contact[r].with>>
     IN  phones' = IF phones[k].stored /\ phones[k].verified = "no"
                   THEN [phones EXCEPT ![k].verified = "recent"] ELSE phones
  /\ UNCHANGED <<emails, mailed, texted, issued, shown, approved, raced>>

\* Sixty days pass.
SixtyDays ==
  /\ \E k \in DOMAIN phones : phones[k].stored /\ phones[k].verified = "recent"
  /\ phones' = [k \in DOMAIN phones |->
       IF phones[k].stored /\ phones[k].verified = "recent" THEN [phones[k] EXCEPT !.verified = "old"] ELSE phones[k]]
  /\ UNCHANGED <<emails, mailed, texted, issued, contact, shown, approved, raced>>

ContactNext ==
  \/ SixtyDays
  \/ \E r \in ContactAsks :
       \/ \E w \in Wallets, e \in Mails :
            \/ SetEmail(r, w, e)
            \/ \E token \in 0..issued, signed \in BOOLEAN : VerifyEmail(r, w, e, token, signed)
       \/ \E w \in Wallets, p \in Phones :
            \/ SetPhone(r, w, p) \/ ResendVerifyPhone(r, w, p)
            \/ \E code \in 0..issued : VerifyPhone(r, w, p, code)
       \/ SendMail(r) \/ AddUnverifiedEmail(r) \/ UpdateEmail(r)
       \/ IsPhoneAllowed(r) \/ StartVerification(r) \/ AddUnverifiedPhone(r) \/ UpdatePhoneVerificationSid(r)
       \/ CheckVerification(r) \/ IncrementPhoneVerificationAttempts(r) \/ MarkPhoneVerified(r)

ContactSpec == ContactInit /\ [][ContactNext]_contactVars

-----------------------------------------------------------------------------
\* get_onramp_contact_info: the account's email, verified or not, and a verified phone.
OnrampContactInfo(w) ==
  [emails |-> {emails[v].email : v \in {v \in {w} : emails[v].stored}},
   phones |-> {p \in Phones : phones[<<w, p>>].stored /\ phones[<<w, p>>].verified # "no"}]

\* An email is verified for an account only if a token that was mailed to it for
\* that account came back signed by the account; the phones told to the onramp are
\* phones whose code Twilio approved in a request for that account; and unless two
\* verifyPhone requests overlapped, no row counts more than max_attempts failures.
ContactsProven ==
  /\ \A w \in Wallets : emails[w].stored /\ emails[w].verified =>
       \E m \in mailed \cap shown : m.wallet = w /\ m.email = emails[w].email
  /\ \A w \in Wallets : \A p \in OnrampContactInfo(w).phones : <<w, p>> \in approved
  /\ raced \/ \A k \in DOMAIN phones : phones[k].stored => phones[k].attempts <= MaxAttempts

(***************************************************************************)
(* The inductive invariant behind the theorem about it in RelayProofs      *)
(***************************************************************************)

MailPhases == {"mail", "store_email", "update_email"}
PhonePhases == {"line_type", "text_new", "text_again", "store_phone", "store_sid", "check", "wrong", "right"}
EmailRow == [stored : {TRUE}, email : Mails, token : Nat, verified : BOOLEAN]
PhoneRow == [stored : {TRUE}, sid : Nat, attempts : Nat, verified : {"no", "recent", "old"}]
ContactTypeOK ==
  /\ emails \in [Wallets -> {NoRow} \cup EmailRow]
  /\ phones \in [Wallets \X Phones -> {NoRow} \cup PhoneRow]
  /\ issued \in Nat /\ texted \in [Phones -> Nat] /\ raced \in BOOLEAN
  /\ contact \in [ContactAsks ->
       [phase : {"new", "done"}] \cup [phase : MailPhases, wallet : Wallets, with : Mails, code : Nat]
       \cup [phase : PhonePhases, wallet : Wallets, with : Phones, code : Nat]]

Mail(w, e, token) == [wallet |-> w, email |-> e, token |-> token]
Asking(r) == contact[r].phase \in {"check", "wrong", "right"}
KeyOf(r) == <<contact[r].wallet, contact[r].with>>

\* a token in a row, or about to be written to one, was mailed; one that is compared was shown
TokensMailed ==
  /\ \A w \in Wallets : emails[w].stored => Mail(w, emails[w].email, emails[w].token) \in mailed
  /\ \A r \in ContactAsks :
       /\ contact[r].phase = "store_email" => Mail(contact[r].wallet, contact[r].with, contact[r].code) \in mailed
       /\ contact[r].phase = "update_email" => Mail(contact[r].wallet, contact[r].with, contact[r].code) \in shown

\* a phone is marked by a request that Twilio approved
PhonesApproved ==
  /\ \A k \in Wallets \X Phones : phones[k].stored /\ phones[k].verified # "no" => k \in approved
  /\ \A r \in ContactAsks : contact[r].phase = "right" => KeyOf(r) \in approved

\* without a race there is one verifyPhone request at a time, and its row has an attempt left
OneAsking ==
  ~raced =>
    /\ \A r, s \in ContactAsks : Asking(r) /\ Asking(s) => r = s
    /\ \A r \in ContactAsks : Asking(r) =>
         (phones[KeyOf(r)].stored => phones[KeyOf(r)].attempts < MaxAttempts)

ContactIInv == ContactTypeOK /\ TokensMailed /\ PhonesApproved /\ OneAsking /\ ContactsProven
==============================================================================
