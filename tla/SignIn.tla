------------------------------- MODULE SignIn -------------------------------
(***************************************************************************)
(* What follows a verified code of one phone number: the account is found  *)
(* or created with its wallet, and a session of refresh tokens begins,     *)
(* each used once and replaced by the next.  The requests of the phone,    *)
(* its sign-ins, refreshes, logouts and looks at its wallet, run beside    *)
(* one another and die anywhere.                                           *)
(***************************************************************************)
EXTENDS OtpService

CONSTANT MaxTokens   \* bound: refresh tokens signed in a behaviour

ASSUME SignInAssumption == MaxTokens \in Nat

VARIABLES
  account,     \* the committed rows of the user and its wallet
  inserting,   \* the threads with an uncommitted row of the user
  login,       \* per thread, where its request is after a verified code,
               \* or in a request of another kind
  token,       \* the refresh tokens signed, in order
  walletFailed,\* the signal logged that it could not create the wallet
  newcomers,   \* answers that called the user new
  loggedOut,   \* sessions whose logout was answered with success
  overlapped   \* sessions of which one token served two requests at once

accountVars == <<account, inserting, walletFailed, newcomers>>
tokenVars == <<token, loggedOut, overlapped>>
signInVars == <<otpVars, accountVars, tokenVars, login>>

Account ==
  [exists : BOOLEAN, wallet : BOOLEAN,
   barred : BOOLEAN]                       \* is_blocked or not is_active

Sessions == 1 .. MaxTokens

Login ==
  [at : {"none", "get", "insert", "signal", "commit", "again", "stamp", "sign",
         "rotate", "issue", "logout", "create_wallet"},
   created : BOOLEAN,          \* get_or_create's second result
   wallet : BOOLEAN,           \* the wallet's uncommitted row
   token : 0 .. MaxTokens]     \* the token that the request presented

NoLogin == [at |-> "none", created |-> FALSE, wallet |-> FALSE, token |-> 0]

SignInInit ==
  /\ OtpInit
  /\ account = [exists |-> FALSE, wallet |-> FALSE, barred |-> FALSE]
  /\ inserting = {}
  /\ login = [t \in Threads |-> NoLogin]
  /\ token = <<>>
  /\ walletFailed = FALSE
  /\ newcomers = 0
  /\ loggedOut = {} /\ overlapped = {}

Doing(t, stage) == login[t].at = stage
Free(t) == At(t, "idle") /\ Doing(t, "none")

\* The request goes on, or is answered and its thread free again.
GoOn(t, stage) ==
  /\ login' = [login EXCEPT ![t].at = stage]
  /\ UNCHANGED otpVars
Done(t) ==
  /\ login' = [login EXCEPT ![t] = NoLogin]
  /\ End(t)
  /\ UNCHANGED <<counter, rows, revoked, sent, uncounted, last>>

-----------------------------------------------------------------------------
(* authenticate_or_create *)

Authenticate(t) ==
  /\ At(t, "verified") /\ Doing(t, "none")
  /\ GoOn(t, "get")
  /\ UNCHANGED <<accountVars, tokenVars>>

\* The code is spent also where the account turns out to be suspended.
Found(t) == IF account.barred THEN Done(t) ELSE GoOn(t, "stamp")

Get(t) ==
  /\ Doing(t, "get")
  /\ IF account.exists THEN Found(t) ELSE GoOn(t, "insert")
  /\ UNCHANGED <<accountVars, tokenVars>>

\* Mutant of Insert: the user is committed before the signal runs.
InsertAndCommit(t) ==
  /\ Doing(t, "insert")
  /\ inserting = {}
  /\ \/ /\ account.exists
        /\ GoOn(t, "again") /\ UNCHANGED <<account, inserting>>
     \/ /\ ~account.exists
        /\ inserting' = {t}
        /\ account' = [account EXCEPT !.exists = TRUE]
        /\ GoOn(t, "signal")
  /\ UNCHANGED <<walletFailed, newcomers, tokenVars>>

\* The unique phone number makes a second INSERT wait for the first one's
\* transaction, and raise if it was committed.
Insert(t) ==
  /\ Doing(t, "insert")
  /\ inserting = {}
  /\ \/ /\ account.exists
        /\ GoOn(t, "again") /\ UNCHANGED inserting
     \/ /\ ~account.exists
        /\ inserting' = {t}
        /\ GoOn(t, "signal")
  /\ UNCHANGED <<account, walletFailed, newcomers, tokenVars>>

\* create_user_wallet, inside the INSERT's transaction: its own INSERT fails
\* alone, within a savepoint; a failure of its SELECT spoils the transaction.
CreateUserWallet(t) ==
  /\ Doing(t, "signal")
  /\ \/ /\ login' = [login EXCEPT ![t].at = "commit", ![t].wallet = TRUE]
        /\ UNCHANGED <<otpVars, inserting, walletFailed>>
     \/ /\ GoOn(t, "commit")
        /\ walletFailed' = TRUE
        /\ UNCHANGED inserting
     \/ /\ Done(t)
        /\ inserting' = {}
        /\ UNCHANGED walletFailed
  /\ UNCHANGED <<account, newcomers, tokenVars>>

Commit(t) ==
  /\ Doing(t, "commit")
  /\ account' = [account EXCEPT !.exists = TRUE, !.wallet = login[t].wallet]
  /\ inserting' = {}
  /\ login' = [login EXCEPT ![t].at = "stamp", ![t].created = TRUE]
  /\ UNCHANGED <<otpVars, walletFailed, newcomers, tokenVars>>

\* Mutant of GetAgain: whoever tried to create the user calls it new.
GetAgainAsNew(t) ==
  /\ Doing(t, "again")
  /\ login' = [login EXCEPT ![t].at = "stamp", ![t].created = TRUE]
  /\ UNCHANGED <<otpVars, accountVars, tokenVars>>

GetAgain(t) ==
  /\ Doing(t, "again")
  /\ Found(t)
  /\ UNCHANGED <<accountVars, tokenVars>>

\* save(update_fields=["last_seen"])
Stamp(t) ==
  /\ Doing(t, "stamp")
  /\ GoOn(t, "sign")
  /\ UNCHANGED <<accountVars, tokenVars>>

-----------------------------------------------------------------------------
(* Tokens *)

SignToken(session) ==
  /\ Len(token) < MaxTokens
  /\ token' = Append(token, [session |-> session, live |-> TRUE])

\* The first token's number names the session.
GenerateTokens(t) ==
  /\ Doing(t, "sign")
  /\ SignToken(Len(token) + 1)
  /\ newcomers' = newcomers + (IF login[t].created THEN 1 ELSE 0)
  /\ Done(t)
  /\ UNCHANGED <<account, inserting, walletFailed, loggedOut, overlapped>>

SessionOf(t) == token[login[t].token].session

\* Two requests that found the same token on no blacklist.
Presenting(k) ==
  {t \in Threads : login[t].at \in {"rotate", "logout"} /\ login[t].token = k}

\* A token is looked up on the blacklist before anything is done with it.
\* TokenRefreshView asks for nothing else, LogoutView for an active account.
Present(t, k, stage) ==
  /\ Free(t)
  /\ token[k].live
  /\ stage = "logout" => ~account.barred
  /\ login' = [login EXCEPT ![t].at = stage, ![t].token = k]
  /\ overlapped' =
       IF Presenting(k) = {} THEN overlapped
       ELSE overlapped \cup {token[k].session}
  /\ UNCHANGED <<otpVars, accountVars, token, loggedOut>>

\* The second of two finds the token blacklisted by then, and goes on.
Blacklisted(t) == token' = [token EXCEPT ![login[t].token].live = FALSE]

\* Mutant of Rotate: without BLACKLIST_AFTER_ROTATION.
RotateOnly(t) ==
  /\ Doing(t, "rotate")
  /\ GoOn(t, "issue")
  /\ UNCHANGED <<accountVars, tokenVars>>

Rotate(t) ==
  /\ Doing(t, "rotate")
  /\ Blacklisted(t)
  /\ GoOn(t, "issue")
  /\ UNCHANGED <<accountVars, loggedOut, overlapped>>

Issue(t) ==
  /\ Doing(t, "issue")
  /\ SignToken(SessionOf(t))
  /\ Done(t)
  /\ UNCHANGED <<accountVars, loggedOut, overlapped>>

Logout(t) ==
  /\ Doing(t, "logout")
  /\ Blacklisted(t)
  /\ loggedOut' = loggedOut \cup {SessionOf(t)}
  /\ Done(t)
  /\ UNCHANGED <<accountVars, overlapped>>

-----------------------------------------------------------------------------
(* WalletView: a wallet that is missing is created on the first look. *)

MissWallet(t) ==
  /\ Free(t)
  /\ token # <<>> /\ ~account.barred /\ ~account.wallet
  /\ GoOn(t, "create_wallet")
  /\ UNCHANGED <<accountVars, tokenVars>>

\* The second of two creations violates the one-to-one key.
CreateWallet(t) ==
  /\ Doing(t, "create_wallet")
  /\ account' = [account EXCEPT !.wallet = TRUE]
  /\ Done(t)
  /\ UNCHANGED <<inserting, walletFailed, newcomers, tokenVars>>

-----------------------------------------------------------------------------

Suspend ==
  /\ account.exists
  /\ account' = [account EXCEPT !.barred = ~@]
  /\ UNCHANGED <<otpVars, inserting, walletFailed, newcomers, tokenVars, login>>

\* The database rolls back what the worker had not committed.
DieSigningIn(t) ==
  /\ ~Doing(t, "none")
  /\ inserting' = inserting \ {t}
  /\ Done(t)
  /\ UNCHANGED <<account, walletFailed, newcomers, tokenVars>>

OtpStep ==
  /\ \/ \E t \in Threads :
          Doing(t, "none") /\ (SendStep(t) \/ VerifyStep(t) \/ Die(t))
     \/ Tick
  /\ UNCHANGED <<accountVars, tokenVars, login>>

SignInStep(t) ==
  Authenticate(t) \/ Get(t) \/ Insert(t) \/ CreateUserWallet(t) \/ Commit(t) \/
  GetAgain(t) \/ Stamp(t) \/ GenerateTokens(t)

TokenStep(t) ==
  \/ \E k \in DOMAIN token, stage \in {"rotate", "logout"} : Present(t, k, stage)
  \/ Rotate(t) \/ Issue(t) \/ Logout(t)

SignInNext ==
  \/ OtpStep
  \/ \E t \in Threads :
       SignInStep(t) \/ TokenStep(t) \/ MissWallet(t) \/ CreateWallet(t) \/
       DieSigningIn(t)
  \/ Suspend

SignInSpec == SignInInit /\ [][SignInNext]_signInVars

-----------------------------------------------------------------------------

(***************************************************************************)
(* "Automatically create a Wallet for every new user" (signals.py:19): an  *)
(* account is never without its wallet, wherever a request dies, unless    *)
(* the signal logged that it failed.                                       *)
(***************************************************************************)
WalletUnlessFailed == account.exists => account.wallet \/ walletFailed

\* However many first sign-ins race, one of them is told that it created the
\* user.
NewUserOnce == newcomers <= 1

(***************************************************************************)
(* "Subsequent requests with this token will be rejected" (services.py:    *)
(* 194): a session has one usable refresh token at most, and none once it  *)
(* is logged out, unless two requests presented the same token at once.    *)
(***************************************************************************)
Usable(s) ==
  {k \in DOMAIN token : token[k].session = s /\ token[k].live} \cup
  {-k : k \in {login[t].token : t \in {u \in Threads :
                 Doing(u, "issue") /\ SessionOf(u) = s}}}

SessionHasOneToken ==
  \A s \in Sessions \ overlapped :
    Cardinality(Usable(s)) <= IF s \in loggedOut THEN 0 ELSE 1
=============================================================================
