------------------------------ MODULE WalletPage ------------------------------
(***************************************************************************)
(* The sign-in button of a page (components/wallet-connect.tsx) with the   *)
(* session route (app/api/auth/session/route.ts), one tab of one browser.  *)
(*                                                                         *)
(* The page asks once, on opening, who is signed in; it signs in through   *)
(* the wallet in three round trips, and out through the server and then    *)
(* the wallet.  Every request can be answered late or not at all.  The     *)
(* user can switch the wallet's account at any time.  What the server does *)
(* with a challenge and a token is in SignIn; here it is one step.         *)
(***************************************************************************)
EXTENDS Naturals

CONSTANTS
  WalletAccounts,  \* accounts of the wallet
  noSession        \* nobody is signed in

ASSUME WalletAssumption == noSession \notin WalletAccounts

Session == WalletAccounts \cup {noSession}

VARIABLES
  cookie,     \* the browser's token, [account, token]
  revoked,    \* tokens that a sign-out revoked
  active,     \* the wallet's active account
  session,    \* page: who is shown as signed in
  firstGet,   \* page: GET on opening, [at, session]
  connecting, \* page: how far connecting is, [at, account]
  leaving,    \* page: how far signing out is
  signed,     \* accounts whose signature the server has checked
  untidy      \* whether one of the disorders of IdlePageAgrees has happened

walletVars == <<cookie, revoked, active, session, firstGet, connecting, leaving,
                signed, untidy>>

notConnecting == [at |-> "idle", account |-> noSession]

\* A browser arrives with a token or without.
WalletInit ==
  /\ cookie \in [account : Session, token : {"first"}] /\ revoked = {}
  /\ active \in WalletAccounts
  /\ session = noSession
  /\ firstGet = [at |-> "sent", session |-> cookie.account]
  /\ connecting = notConnecting /\ leaving = "no"
  /\ signed = {cookie.account} \cap WalletAccounts
  /\ untidy = FALSE

\* readSession: whom a token is good for.
readSession(token, account) == IF token \in revoked THEN noSession ELSE account

current == readSession(cookie.token, cookie.account)

SwitchAccount(a) ==
  /\ a # active
  /\ active' = a
  /\ UNCHANGED <<cookie, revoked, session, firstGet, connecting, leaving,
                 signed, untidy>>

-----------------------------------------------------------------------------
(***************************************************************************)
(* Who is signed in.                                                       *)
(***************************************************************************)
\* The token travels with the request; a token revoked by then is no session.
AnswerSession ==
  /\ firstGet.at = "sent"
  /\ firstGet' = [at |-> "answered",
                  session |-> readSession("first", firstGet.session)]
  /\ UNCHANGED <<cookie, revoked, active, session, connecting, leaving, signed,
                 untidy>>

\* An answer that names nobody changes nothing.  One that names somebody is
\* shown, also when the user has connected or signed out in between.
afterFirstGet(s) == IF s # noSession THEN s ELSE session

ShowSession ==
  /\ firstGet.at = "answered"
  /\ session' = afterFirstGet(firstGet.session)
  /\ firstGet' = [firstGet EXCEPT !.at = "done"]
  /\ UNCHANGED <<cookie, revoked, active, connecting, leaving, signed, untidy>>

SessionFails ==
  /\ firstGet.at # "done"
  /\ firstGet' = [firstGet EXCEPT !.at = "done"]
  /\ UNCHANGED <<cookie, revoked, active, session, connecting, leaving, signed>>
  /\ untidy' = TRUE

-----------------------------------------------------------------------------
(***************************************************************************)
(* Connecting.                                                             *)
(***************************************************************************)
goesTo(at, account) == connecting' = [at |-> at, account |-> account]

\* The button is there while nobody is shown, and disabled while busy.
ClickConnect ==
  /\ session = noSession /\ connecting.at = "idle"
  /\ goesTo("wallet", noSession)
  /\ untidy' = (untidy \/ firstGet.at # "done" \/ leaving # "no")
  /\ UNCHANGED <<cookie, revoked, active, session, firstGet, leaving, signed>>

\* The wallet grants the connection and names its active account.
NameAccount ==
  /\ connecting.at = "wallet"
  /\ goesTo("challenge", active)
  /\ UNCHANGED <<cookie, revoked, active, session, firstGet, leaving, signed,
                 untidy>>

AnswerChallenge ==
  /\ connecting.at = "challenge"
  /\ goesTo("signing", connecting.account)
  /\ UNCHANGED <<cookie, revoked, active, session, firstGet, leaving, signed,
                 untidy>>

\* The wallet signs with the account it named, whichever is active now.
SignMessage ==
  /\ connecting.at = "signing"
  /\ goesTo("verifying", connecting.account)
  /\ UNCHANGED <<cookie, revoked, active, session, firstGet, leaving, signed,
                 untidy>>

\* The token is set for the account that signed.
AcceptSignature ==
  /\ connecting.at = "verifying"
  /\ goesTo("accepted", connecting.account)
  /\ signed' = signed \cup {connecting.account}
  /\ UNCHANGED <<cookie, revoked, active, session, firstGet, leaving, untidy>>

\* The session shown is the one of the answer.
shownAs_Active(account) == active
shownAs(account)        == account

\* finally: the button is enabled again.
afterSignIn(at) == notConnecting

SignedIn ==
  /\ connecting.at = "accepted"
  /\ cookie' = [account |-> connecting.account, token |-> "later"]
  /\ revoked' = revoked \ {"later"}
  /\ session' = shownAs(connecting.account)
  /\ connecting' = afterSignIn(connecting.at)
  /\ UNCHANGED <<active, firstGet, leaving, signed, untidy>>

\* The user cancels, the wallet or a request fails, the server refuses: an
\* error is shown.
ConnectFails ==
  /\ connecting.at \in {"wallet", "challenge", "signing", "verifying"}
  /\ connecting' = afterSignIn(connecting.at)
  /\ UNCHANGED <<cookie, revoked, active, session, firstGet, leaving, signed,
                 untidy>>

\* The same error, with the token in the browser or without.
AcceptedAnswerLost ==
  /\ connecting.at = "accepted"
  /\ \/ UNCHANGED <<cookie, revoked>>
     \/ /\ cookie' = [account |-> connecting.account, token |-> "later"]
        /\ revoked' = revoked \ {"later"}
  /\ connecting' = afterSignIn("lost")
  /\ untidy' = TRUE
  /\ UNCHANGED <<active, session, firstGet, leaving, signed>>

-----------------------------------------------------------------------------
(***************************************************************************)
(* Signing out.                                                            *)
(***************************************************************************)
Disconnect ==
  /\ session # noSession /\ leaving = "no"
  /\ leaving' = "sent"
  /\ untidy' = (untidy \/ firstGet.at # "done")
  /\ UNCHANGED <<cookie, revoked, active, session, firstGet, connecting, signed>>

\* The server revokes the account's tokens; the answer takes the token away.
AnswerSignOut ==
  /\ leaving = "sent"
  /\ revoked' = IF current = noSession THEN revoked
                ELSE revoked \cup {cookie.token} \cup
                     {t \in {"first"} : firstGet.session = cookie.account}
  /\ leaving' = "answered"
  /\ UNCHANGED <<cookie, active, session, firstGet, connecting, signed, untidy>>

noToken == [account |-> noSession, token |-> "later"]

afterLeaving == noSession

\* "the site session is what matters": whatever the wallet says of it.
SignedOut ==
  /\ leaving = "answered"
  /\ cookie' = noToken
  /\ session' = afterLeaving
  /\ leaving' = "no"
  /\ UNCHANGED <<revoked, active, firstGet, connecting, signed, untidy>>

\* A DELETE that fails is caught, and the page goes on as if it had not,
\* whether or not it reached the server.
SignOutFails ==
  /\ leaving \in {"sent", "answered"}
  /\ session' = afterLeaving
  /\ leaving' = "no"
  /\ untidy' = TRUE
  /\ UNCHANGED <<cookie, revoked, active, firstGet, connecting, signed>>

WalletNext ==
  \/ \E a \in WalletAccounts : SwitchAccount(a)
  \/ AnswerSession
  \/ ShowSession
  \/ SessionFails
  \/ ClickConnect
  \/ NameAccount
  \/ AnswerChallenge
  \/ SignMessage
  \/ AcceptSignature
  \/ SignedIn
  \/ ConnectFails
  \/ AcceptedAnswerLost
  \/ Disconnect
  \/ AnswerSignOut
  \/ SignedOut
  \/ SignOutFails

\* The wallet's dialog is answered or closed; requests end.
connectStep == NameAccount \/ AnswerChallenge \/ SignMessage
                 \/ AcceptSignature \/ SignedIn \/ ConnectFails
                 \/ AcceptedAnswerLost

WalletFairness == WF_walletVars(connectStep)

WalletSpec == WalletInit /\ [][WalletNext]_walletVars /\ WalletFairness

-----------------------------------------------------------------------------
\* Every field has its type.
WalletTypeOK ==
  /\ cookie \in [account : Session, token : {"first", "later"}]
  /\ revoked \subseteq {"first", "later"}
  /\ active \in WalletAccounts
  /\ session \in Session
  /\ firstGet \in [at : {"sent", "answered", "done"}, session : Session]
  /\ connecting \in [at : {"idle", "wallet", "challenge", "signing",
                           "verifying", "accepted"}, account : Session]
  /\ connecting.at \in {"challenge", "signing", "verifying", "accepted"} =>
       connecting.account \in WalletAccounts
  /\ leaving \in {"no", "sent", "answered"}
  /\ signed \subseteq WalletAccounts /\ untidy \in BOOLEAN

\* Whom the page shows as signed in has signed for it in this browser, even
\* if the wallet's account is switched while its dialog is open.
ShownHasSigned == session # noSession => session \in signed

\* When nothing is under way the page and the browser's token name the same
\* account.  Not promised after the disorders the code lets happen: the first
\* answer fails, or comes after a click and overwrites what was shown; a
\* sign-out fails and is shown as done; the answer with the token breaks off.
IdlePageAgrees ==
  ~untidy /\ firstGet.at = "done" /\ connecting.at = "idle" /\ leaving = "no"
    => session = current

\* "finally": the button does not stay busy, however connecting ends.
BusyEnds == connecting.at # "idle" ~> connecting.at = "idle"

\* The button shows who signed, and at rest whom the server takes one for.
WalletInv == WalletTypeOK /\ ShownHasSigned /\ IdlePageAgrees
=============================================================================
