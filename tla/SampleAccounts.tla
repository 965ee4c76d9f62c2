--------------------------- MODULE SampleAccounts ----------------------------
(***************************************************************************)
(* The accounts and the payments of sample-projects/src/main.rs: users in  *)
(* MySQL; verification codes, access tokens and payment statuses in Redis, *)
(* where a key expires at any time after it was set. A login reads and     *)
(* deletes the code in two commands, and a provider is called before what  *)
(* it accepted is stored.                                                  *)
(*                                                                         *)
(* A call that fails may have taken effect. A password is told from a      *)
(* wrong one, its hash and the names of users are left out.                *)
(***************************************************************************)
EXTENDS SampleRequests, FiniteSets

CONSTANTS
    Emails,     \* e-mails of users
    Password,   \* what every user has registered with
    Phones,     \* phone numbers
    Codes,      \* what generate_verification_code may return
    Seconds,    \* what the clock of issue_token may show
    OrderNos,   \* order numbers of payments
    Pending     \* the status that create_payment_via_provider stores

\* issue_token: the claims are the user and the second, and nothing else.
Tokens == Emails \X Seconds

VARIABLES
    users,      \* table users, unique by e-mail
    codes,      \* sms:code:<phone>
    tokens,     \* auth:token:<token>
    payments,   \* payment:status:<order_no>
    sent,       \* history: how many codes the provider has accepted for a phone
    admitted,   \* history: the logins whose code was deleted
    settled     \* history: the status that a callback has set after the creates of
                \* its payment, or Absent

redisVars == <<codes, tokens, payments>>
historyVars == <<sent, admitted, settled>>
accountVars == <<users, redisVars, historyVars>>

\* The creates of a payment that the provider has accepted and that are not stored.
Paying(o) == {r \in Requests : stage[r] = "store payment" /\ asked[r].order_no = o}

-----------------------------------------------------------------------------
\* register: one INSERT, refused by the unique key with 1062.
Register(r) ==
    /\ Accepted(r, "register")
    /\ LET email == asked[r].email
       IN  \/ users[email] /\ Refuse(r, 409) /\ UNCHANGED users
           \/ /\ ~users[email]
              /\ users' = [users EXCEPT ![email] = TRUE]
              /\ Reply(r, 201, email) \/ Breaks(r)
           \/ Breaks(r) /\ UNCHANGED users
    /\ UNCHANGED <<redisVars, historyVars>>

\* Mutation: the password is not verified.
FindUserOnly(r) ==
    /\ Accepted(r, "login")
    /\ \/ users[asked[r].email] /\ GoTo(r, "read code", Absent)
       \/ ~users[asked[r].email] /\ Refuse(r, 401)
    /\ UNCHANGED accountVars

\* login up to consume_verification_code.
FindUser(r) ==
    /\ Accepted(r, "login")
    /\ \/ /\ users[asked[r].email] /\ asked[r].password = Password
          /\ GoTo(r, "read code", Absent)
       \/ /\ ~users[asked[r].email] \/ asked[r].password # Password
          /\ Refuse(r, 401)
       \/ Breaks(r)
    /\ UNCHANGED accountVars

\* consume_verification_code: the GET.
ReadCode(r) ==
    /\ At(r, "login", "read code")
    /\ \/ codes[asked[r].phone] = asked[r].code /\ GoTo(r, "delete code", Absent)
       \/ codes[asked[r].phone] # asked[r].code /\ Refuse(r, 401)
       \/ Breaks(r)
    /\ UNCHANGED accountVars

\* Mutation: the DEL without a look at how many keys it deleted.
DeleteCodeOrNot(r) ==
    /\ At(r, "login", "delete code")
    /\ codes' = [codes EXCEPT ![asked[r].phone] = Absent]
    /\ admitted' = admitted \cup {r}
    /\ GoTo(r, "store token", Absent)
    /\ UNCHANGED <<users, tokens, payments, sent, settled>>

\* consume_verification_code: the DEL of whatever is there by then.
DeleteCode(r) ==
    /\ At(r, "login", "delete code")
    /\ LET phone == asked[r].phone
       IN  \/ /\ codes[phone] # Absent
              /\ codes' = [codes EXCEPT ![phone] = Absent]
              /\ \/ GoTo(r, "store token", Absent) /\ admitted' = admitted \cup {r}
                 \/ Breaks(r) /\ UNCHANGED admitted
           \/ /\ codes[phone] = Absent
              /\ Refuse(r, 401)
              /\ UNCHANGED <<codes, admitted>>
           \/ Breaks(r) /\ UNCHANGED <<codes, admitted>>
    /\ UNCHANGED <<users, tokens, payments, sent, settled>>

\* issue_token and store_token.
StoreToken(r) ==
    /\ At(r, "login", "store token")
    /\ \/ \E second \in Seconds :
            LET token == <<asked[r].email, second>>
            IN  /\ tokens' = [tokens EXCEPT ![token] = asked[r].email]
                /\ Reply(r, 200, token) \/ Breaks(r)
       \/ Breaks(r) /\ UNCHANGED tokens
    /\ UNCHANGED <<users, codes, payments, historyVars>>

\* authenticate_user: find_email_for_token. A header without a token is 401.
FindToken(r) ==
    /\ Accepted(r, "me")
    /\ LET token == asked[r].token
       IN  \/ token \in Tokens /\ tokens[token] # Absent /\ GoTo(r, "user", tokens[token])
           \/ token \in Tokens /\ tokens[token] = Absent /\ Refuse(r, 401)
           \/ token \notin Tokens /\ Refuse(r, 401)
           \/ Breaks(r)
    /\ UNCHANGED accountVars

\* authenticate_user: find_user_by_email; and get_me to its end.
AnswerMe(r) ==
    /\ At(r, "me", "user")
    /\ \/ IF users[seen[r]] THEN Reply(r, 200, seen[r]) ELSE Refuse(r, 401)
       \/ Breaks(r)
    /\ UNCHANGED accountVars

-----------------------------------------------------------------------------
\* send_sms_code up to store_verification_code. What the provider delivers
\* may be answered by an error, and it may refuse.
CallSms(r) ==
    /\ Accepted(r, "sms")
    /\ \/ ~asked[r].provider /\ Refuse(r, 503) /\ UNCHANGED sent
       \/ /\ asked[r].provider
          /\ sent' = [sent EXCEPT ![asked[r].phone] = @ + 1]
          /\ \E code \in Codes :
                GoTo(r, "store code", code) \/ Refuse(r, 502)
       \/ asked[r].provider /\ Refuse(r, 502) /\ UNCHANGED sent
    /\ UNCHANGED <<users, redisVars, admitted, settled>>

\* store_verification_code, in place of an earlier code.
StoreCode(r) ==
    /\ At(r, "sms", "store code")
    /\ LET phone == asked[r].phone
       IN  \/ /\ codes' = [codes EXCEPT ![phone] = seen[r]]
              /\ Reply(r, 200, seen[r]) \/ Breaks(r)
           \/ Breaks(r) /\ UNCHANGED codes
    /\ UNCHANGED <<users, tokens, payments, historyVars>>

-----------------------------------------------------------------------------
\* create_payment_via_provider up to its store. From here on the provider may
\* call back.
CallPayment(r) ==
    /\ Accepted(r, "pay")
    /\ \/ ~asked[r].provider /\ Refuse(r, 503)
       \/ asked[r].provider /\ (GoTo(r, "store payment", Absent) \/ Refuse(r, 502))
    /\ settled' = [settled EXCEPT ![asked[r].order_no] = Absent]
    /\ UNCHANGED <<users, redisVars, sent, admitted>>

\* Mutation: a create is answered before its status is stored.
StorePendingLater(r) ==
    /\ asked[r] # Absent /\ asked[r].op = "pay" /\ stage[r] \in {"store payment", "answered"}
    /\ \/ /\ stage[r] = "store payment" /\ Reply(r, 202, Pending)
          /\ UNCHANGED payments
       \/ /\ stage[r] = "answered" /\ answer[r].body = Pending
          /\ payments' = [payments EXCEPT ![asked[r].order_no] = Pending]
          /\ Reply(r, 202, Absent)
    /\ UNCHANGED <<users, codes, tokens, historyVars>>

\* store_payment_status with "PENDING", whatever is stored by then.
StorePending(r) ==
    /\ At(r, "pay", "store payment")
    /\ \/ /\ payments' = [payments EXCEPT ![asked[r].order_no] = Pending]
          /\ Reply(r, 202, Pending) \/ Breaks(r)
       \/ Breaks(r) /\ UNCHANGED payments
    /\ UNCHANGED <<users, codes, tokens, historyVars>>

\* receive_payment_status_callback.
ReceiveCallback(r) ==
    /\ Accepted(r, "callback")
    /\ LET o == asked[r].order_no
       IN  \/ /\ payments' = [payments EXCEPT ![o] = asked[r].status]
              /\ Reply(r, 204, Absent) \/ Breaks(r)
              /\ settled' = IF Paying(o) = {} THEN [settled EXCEPT ![o] = asked[r].status] ELSE settled
           \/ Breaks(r) /\ UNCHANGED <<payments, settled>>
    /\ UNCHANGED <<users, codes, tokens, sent, admitted>>

-----------------------------------------------------------------------------
\* Redis: the time to live of a key is over.
Expire ==
    /\ \/ \E phone \in Phones :
            /\ codes[phone] # Absent
            /\ codes' = [codes EXCEPT ![phone] = Absent]
            /\ UNCHANGED <<tokens, payments, settled>>
       \/ \E token \in Tokens :
            /\ tokens[token] # Absent
            /\ tokens' = [tokens EXCEPT ![token] = Absent]
            /\ UNCHANGED <<codes, payments, settled>>
       \/ \E o \in OrderNos :
            /\ payments[o] # Absent
            /\ payments' = [payments EXCEPT ![o] = Absent]
            /\ settled' = [settled EXCEPT ![o] = Absent]
            /\ UNCHANGED <<codes, tokens>>
    /\ UNCHANGED <<reqVars, users, sent, admitted>>

AccountStep(r) ==
    \/ Register(r)
    \/ FindUser(r) \/ ReadCode(r) \/ DeleteCode(r) \/ StoreToken(r)
    \/ FindToken(r) \/ AnswerMe(r)
    \/ CallSms(r) \/ StoreCode(r)
    \/ CallPayment(r) \/ StorePending(r) \/ ReceiveCallback(r)
=============================================================================
